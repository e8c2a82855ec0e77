------------------------------ MODULE Framehop ------------------------------
(***************************************************************************)
(* The profiler built with the framehop unwinder                           *)
(* (backtrace/framehop_unwinder.rs): Profiler composed with UNWINDER, a    *)
(* lazy static behind a lock of its own.  A build initialises it, inside   *)
(* the read lock of trigger_lazy(); the handler, inside the write lock,    *)
(* takes its lock with try_write().                                        *)
(*                                                                         *)
(* Every step of a thread or a handler is one of Profiler's, which may     *)
(* have to wait for the unwinder, or a step of the unwinder alone.         *)
(***************************************************************************)
EXTENDS Profiler

VARIABLES
  unwinder,  \* the Lazy: "uninit", "forcing" or "ready"
  init,      \* what a thread that initialises its build does with UNWINDER
  trace      \* what try_write() in a handler came to

framehop == <<unwinder, init, trace>>
framehopVars == <<vars, framehop>>

FramehopInit ==
  /\ Init
  /\ unwinder = "uninit"
  /\ init = [t \in Threads |-> "none"]
  /\ trace = [t \in Threads |-> "none"]

\* UNWINDER's RwLock.
UnwinderReaders == {t \in Threads : init[t] = "reading"}
UnwinderWriters == {t \in Threads : trace[t] = "locked"}

-----------------------------------------------------------------------------
(* Trace::init, which is UNWINDER.read()                                    *)

Initialising(t) ==
  pc[t] = "initialising" /\ handler[t].at = "none" /\ init[t] = "none"

\* The first one makes the unwinder, for which it lists the shared libraries,
\* holding the lock of their list; the others wait.
ForceUnwinder(t) ==
  /\ Initialising(t) /\ unwinder = "uninit" /\ LibFree
  /\ unwinder' = "forcing"
  /\ init' = [init EXCEPT ![t] = "forcing"]
  /\ UNCHANGED <<vars, trace>>

UnwinderForced(t) ==
  /\ init[t] = "forcing" /\ handler[t].at = "none"
  /\ unwinder' = "ready"
  /\ init' = [init EXCEPT ![t] = "none"]
  /\ UNCHANGED <<vars, trace>>

ReadUnwinder(t) ==
  /\ Initialising(t) /\ unwinder = "ready" /\ UnwinderWriters = {}
  /\ init' = [init EXCEPT ![t] = "reading"]
  /\ UNCHANGED <<vars, unwinder, trace>>

LeaveUnwinder(t) ==
  /\ init[t] = "reading" /\ handler[t].at = "none"
  /\ init' = [init EXCEPT ![t] = "done"]
  /\ UNCHANGED <<vars, unwinder, trace>>

InitStep(t) ==
  ForceUnwinder(t) \/ UnwinderForced(t) \/ ReadUnwinder(t) \/ LeaveUnwinder(t)

\* Mutant: a build does not wait for init().
NeverWaits(t) == TRUE
\* trigger_lazy() gives the profiler's read lock back after init().
Initialised(t) == pc[t] = "initialising" => init[t] = "done"

FramehopAppStep(t) ==
  /\ Initialised(t)
  /\ AppStep(t)
  /\ pc'[t] \in {"lib", "capture"} => unwinder # "forcing"
  /\ init' = [init EXCEPT ![t] = "none"]
  /\ UNCHANGED <<unwinder, trace>>

-----------------------------------------------------------------------------
(* Trace::trace, in the handler                                             *)

\* Without the unwinder's lock the backtrace stays empty; an unwinder that is not
\* there yet would be made here.
TraceUnwinder(t) ==
  /\ handler[t].at = "unwinding" /\ trace[t] = "none"
  /\ trace' = [trace EXCEPT ![t] =
       CASE unwinder # "ready" -> "lazy"
         [] unwinder = "ready" /\ UnwinderReaders \cup UnwinderWriters # {} -> "empty"
         [] OTHER -> "locked"]
  /\ UNCHANGED <<vars, unwinder, init>>

\* Its lock is given back before the sample is recorded.
FramehopHandlerStep(t) ==
  /\ handler[t].at = "unwinding" => trace[t] # "none"
  /\ HandlerStep(t)
  /\ trace' = [trace EXCEPT ![t] = "none"]
  /\ UNCHANGED <<unwinder, init>>

FramehopNext ==
  \/ /\ alive
     /\ \E t \in Threads :
          \/ FramehopAppStep(t) \/ InitStep(t)
          \/ FramehopHandlerStep(t) \/ TraceUnwinder(t)
  \/ alive /\ Signal /\ UNCHANGED framehop
  \/ Ended /\ UNCHANGED framehop

FramehopSpec == FramehopInit /\ [][FramehopNext]_framehopVars

-----------------------------------------------------------------------------
(* Properties                                                               *)

\* The unwinder is made before the first handler unwinds a thread, and never in a
\* handler, where it would allocate.
UnwinderReady == \A t \in Threads : trace[t] # "lazy"

\* try_write() in a handler always succeeds, so that no sample is taken with an empty
\* backtrace: not because SIGPROF interrupts one thread at a time, which it does
\* not, but because nobody holds the unwinder's lock without the profiler's.
TraceSucceeds == \A t \in Threads : trace[t] # "empty"
=============================================================================
