------------------------------- MODULE Handler -------------------------------
(***************************************************************************)
(* perf_signal_handler from the moment it holds the profiler's lock: the   *)
(* interrupted address against the blocklist, the walk of FramePointer,    *)
(* the name of the thread, and the sample it hands to the collector.  How  *)
(* it gets the lock is Profiler's matter.                                  *)
(***************************************************************************)
EXTENDS FramePointer, ThreadName, Functions

CONSTANTS
  Interrupted,  \* the addresses a signal may interrupt
  ThreadIds,    \* the ids of threads (pthread_t)
  ThreadNames   \* the names the system may give

ASSUME HandlerAssumption ==
  /\ Interrupted \subseteq Nat
  /\ MAX_THREAD_NAME \in Nat \ {0}
  /\ ThreadIds \subseteq 1..Base[MAX_THREAD_NAME - 1]
  /\ Refused \notin ThreadNames

VARIABLES
  addr,   \* the interrupted address
  at,     \* "entered", "walking", "dropped" or "sampled"
  own,    \* history: what the system answered for the name
  sample  \* the UnresolvedFrames, once it is made

handler == <<addr, at, own, sample>>
handlerVars == <<vars, handler>>

NoSample == [frames |-> <<>>, thread_name |-> <<>>, thread_id |-> 0]

HandlerInit ==
  /\ Init
  /\ addr \in Interrupted /\ at = "entered" /\ sample = NoSample /\ own = Refused

Enter ==
  /\ at = "entered"
  /\ at' = IF IsBlocklisted(addr) THEN "dropped" ELSE "walking"
  /\ UNCHANGED <<vars, addr, own, sample>>

Trace == at = "walking" /\ Walk /\ UNCHANGED handler

\* write_thread_name, CStr::from_ptr and UnresolvedFrames::new.
Sample ==
  /\ at = "walking" /\ pc = "done"
  /\ \E id \in ThreadIds, name \in ThreadNames \cup {Refused} :
       /\ own' = name
       /\ sample' = [frames |-> bt, thread_name |-> WriteThreadName(id, name),
                     thread_id |-> id]
  /\ at' = "sampled"
  /\ UNCHANGED <<vars, addr>>

HandlerStep == Enter \/ Trace \/ Sample
Returned == at \in {"dropped", "sampled"} \/ pc = "fault"

HandlerNext ==
  \/ HandlerStep
  \/ at = "walking" /\ Unmap /\ UNCHANGED handler
  \/ Returned /\ UNCHANGED handlerVars

HandlerSpec == HandlerInit /\ [][HandlerNext]_handlerVars
\* The handler goes on running.
HandlerFairSpec == HandlerSpec /\ WF_handlerVars(HandlerStep)

-----------------------------------------------------------------------------
(* Properties                                                               *)

\* A backtrace never outgrows what it holds without allocating.  A signal is left
\* without a sample only because it interrupted a library that the builder named, and
\* no backtrace begins in one or has a frame of one: but for the first address of a
\* segment, and for libraries that were loaded since.
Backtraces ==
  /\ Len(bt) <= MAX_DEPTH
  /\ at = "dropped" => addr \in Unwanted
  /\ at \in {"walking", "sampled"} => ({addr} \cup Range(bt)) \cap Unwanted = {}

\* A report tells whose sample it is: a thread's own name if it has one, or a number
\* from which its id can be found again.
TellsThread ==
  at = "sampled" =>
    LET name == ThreadNameOrId(sample.thread_name, sample.thread_id)
    IN  IF own \in {Refused, <<>>} THEN Told(name) = sample.thread_id ELSE name = own

\* Every signal is done with, whatever the chain of frame pointers, which may be
\* circular.
Returns == <>Returned
=============================================================================
