----------------------------- MODULE ThreadName -----------------------------
(***************************************************************************)
(* The name a sample gives its thread: pthread_getname_np(), or the        *)
(* decimal digits of the thread's id when that fails                       *)
(* (write_thread_name and its fallback in profiler.rs), and the name a     *)
(* report shows (Frames::thread_name_or_id).  A name is a sequence: of     *)
(* digits here, of anything when the system gives it.                      *)
(***************************************************************************)
EXTENDS Integers, Sequences

CONSTANTS
  MAX_THREAD_NAME,
  Refused  \* stands for a name, where the system gives none

\* base after len rounds of the first loop.
Base[len \in 0..MAX_THREAD_NAME] == IF len = 0 THEN 1 ELSE 10 * Base[len - 1]

\* The first loop: the least power of ten that is not below the id.
Length(thread) ==
  CHOOSE len \in 0..MAX_THREAD_NAME :
    /\ len = MAX_THREAD_NAME \/ thread <= Base[len]
    /\ \A l \in 0..(len - 1) : thread > Base[l]

\* Mutant: the base is divided after it is used.
DigitsShifted(thread) ==
  [i \in 1..Length(thread) |-> (thread \div Base[Length(thread) - i + 1]) % 10]
\* The second loop: 0 < thread <= Base[MAX_THREAD_NAME - 1], or the name would
\* have no end.
Fallback(thread) ==
  [i \in 1..Length(thread) |-> (thread \div Base[Length(thread) - i]) % 10]

\* own is the name the system gives, or Refused.
WriteThreadName(thread, own) == IF own = Refused THEN Fallback(thread) ELSE own

\* format!("{:?}", thread_id)
Decimal(id) ==
  LET n == CHOOSE n \in 1..MAX_THREAD_NAME :
             id < Base[n] /\ (n = 1 \/ id >= Base[n - 1])
  IN  [i \in 1..n |-> (id \div Base[n - i]) % 10]

ThreadNameOrId(name, id) == IF name = <<>> THEN Decimal(id) ELSE name

-----------------------------------------------------------------------------
\* The id that a name made of digits tells: a power of ten has lost its one.
Told(name) ==
  LET value[i \in 0..Len(name)] == IF i = 0 THEN 0 ELSE 10 * value[i - 1] + name[i]
  IN  IF value[Len(name)] = 0 THEN Base[Len(name)] ELSE value[Len(name)]
=============================================================================
