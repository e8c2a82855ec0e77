---------------------------- MODULE FramePointer ----------------------------
(***************************************************************************)
(* The frame-pointer unwinder (backtrace/frame_pointer.rs) as the signal   *)
(* handler drives it: it follows the chain of saved frame pointers, over   *)
(* whatever the interrupted thread left in the register and in memory,     *)
(* asking validate() before it reads and the handler's callback after.     *)
(*                                                                         *)
(* validate() and the two reads of a frame are steps, between which        *)
(* another thread may unmap memory that is not this thread's stack.        *)
(***************************************************************************)
EXTENDS Blocklist, Sequences

CONSTANTS
  MaxAddress,   \* the addresses are 0 (null) to MaxAddress
  StackBottom,  \* the thread's own stack: the addresses from here on
  Ips,          \* the return addresses
  MAX_DEPTH

Addresses == 0..MaxAddress

ASSUME FramePointerAssumption ==
  /\ MaxAddress \in Nat /\ StackBottom \in Nat
  /\ Ips \subseteq Nat
  /\ MAX_DEPTH \in Nat

VARIABLES
  mapped,         \* the addresses that can be read
  memory,         \* FramePointerLayout: the saved pointer and return address
  frame_pointer, last_frame_pointer,
  pc,
  bt,             \* the handler's backtrace: its frames' return addresses
  unmapped        \* history: what other threads unmapped during the walk

vars == <<mapped, memory, frame_pointer, last_frame_pointer, pc, bt, unmapped>>

Own == Addresses \cap (StackBottom..MaxAddress)
Layouts == [frame_pointer : Addresses, ret : Ips]

TypeOK ==
  /\ mapped \subseteq Addresses
  /\ memory \in [Addresses \ {0} -> Layouts]
  /\ frame_pointer \in Addresses /\ last_frame_pointer \in Addresses
  /\ pc \in {"check", "validate", "ret", "next", "done", "fault"}
  /\ bt \in Seq(Ips)
  /\ unmapped \subseteq Addresses \ Own

\* The register may hold anything: it need not be used as a frame pointer.
Init ==
  /\ mapped \in {S \cup Own : S \in SUBSET (Addresses \ {0})}
  /\ memory \in [Addresses \ {0} -> Layouts]
  /\ frame_pointer \in Addresses
  /\ last_frame_pointer = 0
  /\ pc = "check"
  /\ bt = <<>> /\ unmapped = {}

-----------------------------------------------------------------------------
\* The frame pointer should never be smaller than the former one.
Descends == last_frame_pointer # 0 /\ frame_pointer < last_frame_pointer

Check ==
  /\ pc = "check"
  /\ pc' = IF Descends THEN "done" ELSE "validate"
  /\ UNCHANGED <<mapped, memory, frame_pointer, last_frame_pointer, bt, unmapped>>

\* Mutant: only null is refused.
NotNull == frame_pointer # 0
Valid == frame_pointer \in mapped \ {0}   \* validate(frame_pointer)

Validate ==
  /\ pc = "validate"
  /\ IF Valid THEN pc' = "ret" /\ last_frame_pointer' = frame_pointer
              ELSE pc' = "done" /\ UNCHANGED last_frame_pointer
  /\ UNCHANGED <<mapped, memory, frame_pointer, bt, unmapped>>

\* Mutants: the frame's own address is kept; a full backtrace does not stop the walk.
CallbackPushesFrame(ip) ==
  IF IsBlocklisted(ip) \/ Len(bt) >= MAX_DEPTH
  THEN pc' = "done" /\ UNCHANGED bt
  ELSE pc' = "next" /\ bt' = Append(bt, frame_pointer)
CallbackGoesOn(ip) ==
  IF IsBlocklisted(ip) THEN pc' = "done" /\ UNCHANGED bt
  ELSE pc' = "next" /\ bt' = IF Len(bt) < MAX_DEPTH THEN Append(bt, ip) ELSE bt
\* The callback stops the walk at a blocklisted address or a full backtrace.
Callback(ip) ==
  IF IsBlocklisted(ip) \/ Len(bt) >= MAX_DEPTH
  THEN pc' = "done" /\ UNCHANGED bt
  ELSE pc' = "next" /\ bt' = Append(bt, ip)

ReadRet ==
  /\ pc = "ret" /\ frame_pointer \in mapped
  /\ Callback(memory[frame_pointer].ret)
  /\ UNCHANGED <<mapped, memory, frame_pointer, last_frame_pointer, unmapped>>

ReadNext ==
  /\ pc = "next" /\ frame_pointer \in mapped
  /\ frame_pointer' = memory[frame_pointer].frame_pointer
  /\ pc' = "check"
  /\ UNCHANGED <<mapped, memory, last_frame_pointer, bt, unmapped>>

\* Neither read catches a fault: the program is killed.
Fault ==
  /\ pc \in {"ret", "next"} /\ frame_pointer \notin mapped
  /\ pc' = "fault"
  /\ UNCHANGED <<mapped, memory, frame_pointer, last_frame_pointer, bt, unmapped>>

Unmap ==
  /\ \E a \in mapped \ Own :
       /\ mapped' = mapped \ {a}
       /\ unmapped' = unmapped \cup {a}
  /\ UNCHANGED <<memory, frame_pointer, last_frame_pointer, pc, bt>>

Walk == Check \/ Validate \/ ReadRet \/ ReadNext \/ Fault
-----------------------------------------------------------------------------
(* Properties                                                               *)

\* Whatever the register and the memory hold, only memory that was unmapped during
\* the walk, and never the thread's own stack, makes it fault.
FaultsOnlyRaced == pc = "fault" => frame_pointer \in unmapped
=============================================================================
