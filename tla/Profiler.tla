------------------------------ MODULE Profiler ------------------------------
(***************************************************************************)
(* The life of the process-wide profiler of profiler.rs: the lazily built  *)
(* PROFILER behind its spin lock, the guards that start and stop it, the   *)
(* SIGPROF disposition and the interval timer they drive, the signal       *)
(* handler that interrupts any thread at any step, and the reports that    *)
(* read the collected samples.                                             *)
(*                                                                         *)
(* A thread runs application steps, program counter pc, except while a     *)
(* signal handler runs on top of it, program counter handler[t].at.  The   *)
(* system calls that other threads or the kernel observe (sigaction,       *)
(* setitimer, delivery of a signal) are steps of their own.                *)
(*                                                                         *)
(* The unwinder is the default one, backtrace-rs, whose library lock a     *)
(* handler needs: blocklists exist to keep it from being taken twice.      *)
(***************************************************************************)
EXTENDS Integers, FiniteSets

CONSTANTS
  Threads,      \* the threads of the profiled program
  Frequencies,  \* the frequencies builders are given
  Blocklists,   \* the blocklists builders are given, as sets of regions
  Original,     \* SIGPROF's disposition before the first session
  Faults,       \* the calls that may fail: see AllFaults
  MaxCalls,     \* bound: how many builds, reports and library calls
  MaxSignals    \* bound: how many times the timer expires

Regions == {"app", "lib"}  \* "lib": the unwinder's library, holding its lock
Originals == {"default", "ignore", "app"}
AllFaults == {"create", "register", "unregister", "recreate"}

ASSUME ProfilerAssumption ==
  /\ Frequencies \subseteq Int /\ Frequencies # {}
  /\ Blocklists \subseteq SUBSET Regions /\ Blocklists # {}
  /\ Original \in Originals
  /\ Faults \subseteq AllFaults
  /\ MaxCalls \in Nat
  /\ MaxSignals \in Nat

VARIABLES
  \* the static PROFILER and its RwLock
  lazy,           \* "uninit", "ok" or "err": the Lazy and the Result inside it
  writers,        \* who holds the write lock: at most one <<context, thread>>
  readers,        \* the threads that hold the read lock
  \* struct Profiler
  running,
  old_sigaction,
  blocklist,
  sample_counter,
  data,           \* the samples the collector holds
  \* the kernel
  sigaction,      \* SIGPROF's disposition
  timer,          \* is ITIMER_PROF armed?
  pending,        \* is a SIGPROF pending on the process?
  alive,          \* FALSE once a SIGPROF met the default action
  \* the threads
  pc,
  req,            \* the builder of the thread's build()
  guards,         \* the threads that own a ProfilerGuard
  handler,        \* the signal handler on top of the thread
  \* bounds and history
  calls, signals,
  session,        \* how many times start() succeeded
  promised        \* the builder that started the session

profiler == <<running, old_sigaction, blocklist, sample_counter, data>>
kernel == <<sigaction, timer, pending, alive>>
history == <<calls, signals, session, promised>>
vars == <<lazy, writers, readers, profiler, kernel, pc, req, guards, handler,
          history>>

Contexts == {"app", "sig"}
Steps == {"idle", "lib", "capture", "forcing", "initialising", "locking", "arm",
          "stopping", "reinit", "report", "reading", "writing"}
Requests == [frequency : Frequencies, blocklist : Blocklists]
AnyRequest == CHOOSE r \in Requests : TRUE
Samples == [id : Nat, by : Threads, born : Nat]
Frame(at, id, born, region) ==
  [at |-> at, id |-> id, born |-> born, region |-> region]
NoHandler == Frame("none", 0, 0, "app")

TypeOK ==
  /\ lazy \in {"uninit", "ok", "err"}
  /\ writers \subseteq Contexts \X Threads
  /\ readers \subseteq Threads
  /\ running \in BOOLEAN
  /\ old_sigaction \in Originals \cup {"perf", "none"}
  /\ blocklist \in SUBSET Regions
  /\ sample_counter \in Nat
  /\ data \subseteq Samples
  /\ sigaction \in Originals \cup {"perf"}
  /\ timer \in BOOLEAN
  /\ pending \in BOOLEAN
  /\ alive \in BOOLEAN
  /\ pc \in [Threads -> Steps]
  /\ req \in [Threads -> Requests]
  /\ guards \subseteq Threads
  /\ handler \in [Threads -> [at : {"none", "entered", "unwinding"},
                              id : Nat, born : Nat, region : Regions]]
  /\ calls \in Nat
  /\ signals \in Nat
  /\ session \in Nat
  /\ promised \in Requests

Init ==
  /\ lazy = "uninit" /\ writers = {} /\ readers = {}
  /\ running = FALSE /\ old_sigaction = "none" /\ blocklist = {}
  /\ sample_counter = 0 /\ data = {}
  /\ sigaction = Original /\ timer = FALSE /\ pending = FALSE /\ alive = TRUE
  /\ pc = [t \in Threads |-> "idle"]
  /\ req = [t \in Threads |-> AnyRequest]
  /\ guards = {}
  /\ handler = [t \in Threads |-> NoHandler]
  /\ calls = 0 /\ signals = 0 /\ session = 0 /\ promised = AnyRequest

\* Mutant: the lock is only exclusive among writers.
FreeOfWriters == writers = {}
Free == writers = {} /\ readers = {}     \* write() and try_write() succeed
Goto(t, step) == pc' = [pc EXCEPT ![t] = step]
InLib(t) == pc[t] \in {"lib", "capture"}
LibFree == \A t \in Threads : ~InLib(t)  \* nobody holds the unwinder's lock

-----------------------------------------------------------------------------
(* Starting: ProfilerGuardBuilder::build                                   *)

SECOND == 1000000  \* in microseconds
\* Mutant: the interval is computed in seconds.
IntervalInSeconds(frequency) == 1 \div frequency
\* setitimer: a zero interval disarms, a negative one is refused (EINVAL).
Interval(frequency) == SECOND \div frequency
Setitimer(frequency) ==
  IF frequency \in -SECOND..-1 THEN timer ELSE frequency > 0 /\ Interval(frequency) > 0

\* build() enters trigger_lazy(), whose Backtrace::new() unwinds the stack.  Nothing keeps
\* the owner of a guard from building again.
BuildBegin(t) ==
  /\ pc[t] = "idle" /\ calls < MaxCalls /\ LibFree
  /\ \E r \in Requests : req' = [req EXCEPT ![t] = r]
  /\ calls' = calls + 1
  /\ Goto(t, "capture")
  /\ UNCHANGED <<lazy, writers, readers, profiler, kernel, guards, handler,
                 signals, session, promised>>

Captured(t) ==
  /\ pc[t] = "capture"
  /\ Goto(t, "forcing")
  /\ UNCHANGED <<lazy, writers, readers, profiler, kernel, req, guards, handler,
                 history>>

\* Mutant: the guard of the read lock is dropped at once.
TriggerLazyUnlocked(t) ==
  /\ pc[t] = "forcing" /\ writers = {}
  /\ \/ lazy # "uninit" /\ lazy' = lazy
     \/ lazy = "uninit" /\ lazy' = "ok"
     \/ lazy = "uninit" /\ "create" \in Faults /\ lazy' = "err"
  /\ Goto(t, "initialising")
  /\ UNCHANGED <<writers, readers, profiler, kernel, req, guards, handler, history>>
\* PROFILER.read() forces the Lazy and keeps the read lock over init().
TriggerLazy(t) ==
  /\ pc[t] = "forcing" /\ writers = {}
  /\ \/ lazy # "uninit" /\ lazy' = lazy
     \/ lazy = "uninit" /\ lazy' = "ok"
     \/ lazy = "uninit" /\ "create" \in Faults /\ lazy' = "err"
  /\ readers' = readers \cup {t}
  /\ Goto(t, "initialising")
  /\ UNCHANGED <<writers, profiler, kernel, req, guards, handler, history>>

LazyDone(t) ==
  /\ pc[t] = "initialising"
  /\ readers' = readers \ {t}
  /\ Goto(t, "locking")
  /\ UNCHANGED <<lazy, writers, profiler, kernel, req, guards, handler, history>>

\* write() on a profiler that could not be created: Error::CreatingError.
BuildFailed(t) ==
  /\ pc[t] = "locking" /\ Free /\ lazy = "err"
  /\ Goto(t, "idle")
  /\ UNCHANGED <<lazy, writers, readers, profiler, kernel, req, guards, handler,
                 history>>

\* The blocklist is stored before start() looks at running: Error::Running.
BuildRefused(t) ==
  /\ pc[t] = "locking" /\ Free /\ lazy = "ok" /\ running
  /\ blocklist' = req[t].blocklist
  /\ Goto(t, "idle")
  /\ UNCHANGED <<lazy, writers, readers, running, old_sigaction, sample_counter,
                 data, kernel, req, guards, handler, history>>

\* Mutant: start() does not look at running.
MayStartAgain(t) == pc[t] = "locking" /\ Free /\ lazy = "ok"
MayStart(t) == pc[t] = "locking" /\ Free /\ lazy = "ok" /\ ~running

BuildUnregistered(t) ==
  /\ MayStart(t)
  /\ "register" \in Faults
  /\ blocklist' = req[t].blocklist
  /\ Goto(t, "idle")
  /\ UNCHANGED <<lazy, writers, readers, running, old_sigaction, sample_counter,
                 data, kernel, req, guards, handler, history>>

BuildStart(t) ==
  /\ MayStart(t)
  /\ writers' = {<<"app", t>>}
  /\ blocklist' = req[t].blocklist
  /\ old_sigaction' = sigaction
  /\ sigaction' = "perf"
  /\ running' = TRUE
  /\ session' = session + 1
  /\ promised' = req[t]
  /\ Goto(t, "arm")
  /\ UNCHANGED <<lazy, readers, sample_counter, data, timer, pending, alive, req,
                 guards, handler, calls, signals>>

\* Timer::new, inside the write lock, and the guard handed to the caller.
BuildArm(t) ==
  /\ pc[t] = "arm" /\ req[t].frequency # 0
  /\ timer' = Setitimer(req[t].frequency)
  /\ guards' = guards \cup {t}
  /\ writers' = {}
  /\ Goto(t, "idle")
  /\ UNCHANGED <<lazy, readers, profiler, sigaction, pending, alive, req, handler,
                 history>>

\* A zero frequency divides by zero: the panic unwinds through the lock.
BuildPanic(t) ==
  /\ pc[t] = "arm" /\ req[t].frequency = 0
  /\ writers' = {}
  /\ Goto(t, "idle")
  /\ UNCHANGED <<lazy, readers, profiler, kernel, req, guards, handler, history>>

-----------------------------------------------------------------------------
(* Stopping: ProfilerGuard::drop.  A ReportBuilder borrows the guard, so a  *)
(* report in flight on any thread keeps it alive.  stop() never finds the   *)
(* profiler stopped or failed: OneOwner.                                    *)

Reporting(t) == pc[t] \in {"report", "reading", "writing"}

\* Mutant: the timer is forgotten, not dropped.
TimerForgotten == timer' = timer
TimerDropped == timer' = FALSE

DropBegin(t) ==
  /\ pc[t] = "idle" /\ t \in guards
  /\ \A u \in Threads : ~Reporting(u)
  /\ guards' = guards \ {t}
  /\ TimerDropped
  /\ Goto(t, "stopping")
  /\ UNCHANGED <<lazy, writers, readers, profiler, sigaction, pending, alive, req,
                 handler, history>>

\* take() empties old_sigaction whether or not sigaction() succeeds; a pending
\* signal is discarded when the restored disposition ignores it.
StopUnregister(t) ==
  /\ pc[t] = "stopping" /\ Free /\ running
  /\ old_sigaction' = "none"
  /\ sigaction' = IF old_sigaction = "none" THEN sigaction ELSE old_sigaction
  /\ pending' = (pending /\ old_sigaction # "ignore")
  /\ writers' = {<<"app", t>>}
  /\ Goto(t, "reinit")
  /\ UNCHANGED <<lazy, readers, running, blocklist, sample_counter, data, timer,
                 alive, req, guards, handler, history>>

StopUnrestored(t) ==
  /\ pc[t] = "stopping" /\ Free /\ running
  /\ "unregister" \in Faults /\ old_sigaction # "none"
  /\ old_sigaction' = "none"
  /\ Goto(t, "idle")
  /\ UNCHANGED <<lazy, writers, readers, running, blocklist, sample_counter, data,
                 kernel, req, guards, handler, history>>

\* Mutants: the collector is not replaced; the counter is reset to one less.
InitKeepsData == sample_counter' = 0 /\ data' = data /\ running' = FALSE
InitBelowZero == sample_counter' = -1 /\ data' = {} /\ running' = FALSE
\* Profiler::init: the counter first, then a new collector, then running.
ProfilerInit == sample_counter' = 0 /\ data' = {} /\ running' = FALSE

StopInit(t) ==
  /\ pc[t] = "reinit"
  /\ \/ ProfilerInit
     \/ "recreate" \in Faults /\ sample_counter' = 0 /\ UNCHANGED <<data, running>>
  /\ writers' = {}
  /\ Goto(t, "idle")
  /\ UNCHANGED <<lazy, readers, old_sigaction, blocklist, kernel, req, guards,
                 handler, history>>

-----------------------------------------------------------------------------
(* Reporting: ProfilerGuard::report, then build_unresolved() under the read *)
(* lock or build() under the write lock.                                    *)

ReportBegin(t) ==
  /\ pc[t] = "idle" /\ guards # {} /\ calls < MaxCalls
  /\ calls' = calls + 1
  /\ Goto(t, "report")
  /\ UNCHANGED <<lazy, writers, readers, profiler, kernel, req, guards, handler,
                 signals, session, promised>>

ReadLock(t) ==
  /\ pc[t] = "report" /\ writers = {}
  /\ readers' = readers \cup {t}
  /\ Goto(t, "reading")
  /\ UNCHANGED <<lazy, writers, profiler, kernel, req, guards, handler, history>>

WriteLock(t) ==
  /\ pc[t] = "report" /\ Free
  /\ writers' = {<<"app", t>>}
  /\ Goto(t, "writing")
  /\ UNCHANGED <<lazy, readers, profiler, kernel, req, guards, handler, history>>

ReportDone(t) ==
  /\ pc[t] \in {"reading", "writing"}
  /\ readers' = readers \ {t}
  /\ writers' = writers \ {<<"app", t>>}
  /\ Goto(t, "idle")
  /\ UNCHANGED <<lazy, profiler, kernel, req, guards, handler, history>>

-----------------------------------------------------------------------------
(* The application inside the unwinder's library, whose lock it holds.      *)

EnterLib(t) ==
  /\ pc[t] = "idle" /\ LibFree /\ calls < MaxCalls
  /\ calls' = calls + 1
  /\ Goto(t, "lib")
  /\ UNCHANGED <<lazy, writers, readers, profiler, kernel, req, guards, handler,
                 signals, session, promised>>

LeaveLib(t) ==
  /\ pc[t] = "lib"
  /\ Goto(t, "idle")
  /\ UNCHANGED <<lazy, writers, readers, profiler, kernel, req, guards, handler,
                 history>>

-----------------------------------------------------------------------------
(* Signals.  SIGPROF is sent to the process: any thread that is not already *)
(* in its handler (which masks it) may take it, and one that is pending     *)
(* absorbs the next.                                                        *)

Tick ==
  /\ timer /\ ~pending /\ signals < MaxSignals
  /\ pending' = (sigaction # "ignore")
  /\ signals' = signals + 1
  /\ UNCHANGED <<lazy, writers, readers, profiler, sigaction, timer, alive, pc, req,
                 guards, handler, calls, session, promised>>

Deliver(t) ==
  /\ pending /\ handler[t].at = "none" /\ sigaction = "perf"
  /\ pending' = FALSE
  /\ handler' = [handler EXCEPT ![t] =
       Frame("entered", signals, session, IF InLib(t) THEN "lib" ELSE "app")]
  /\ UNCHANGED <<lazy, writers, readers, profiler, sigaction, timer, alive, pc, req,
                 guards, history>>

\* The disposition that stop() restored meets a signal that came before it.
DeliverLate ==
  /\ pending /\ sigaction # "perf"
  /\ pending' = FALSE
  /\ alive' = (sigaction # "default")
  /\ UNCHANGED <<lazy, writers, readers, profiler, sigaction, timer, pc, req, guards,
                 handler, history>>

\* Mutant: nothing is blocklisted.
NeverBlocklisted(t) == FALSE
\* is_blocklisted, of the interrupted address.
Blocklisted(t) == handler[t].region \in blocklist

\* Mutant: write(), which spins, in place of try_write().
HandlerSpins(t) == handler[t].at = "entered" /\ ~Free /\ UNCHANGED vars
\* perf_signal_handler gives up when try_write() does ...
HandlerBusy(t) ==
  /\ handler[t].at = "entered" /\ ~Free
  /\ handler' = [handler EXCEPT ![t] = NoHandler]
  /\ UNCHANGED <<lazy, writers, readers, profiler, kernel, pc, req, guards, history>>

\* ... or when the interrupted address is blocklisted ...
HandlerBlocked(t) ==
  /\ handler[t].at = "entered" /\ Free /\ Blocklisted(t)
  /\ handler' = [handler EXCEPT ![t] = NoHandler]
  /\ UNCHANGED <<lazy, writers, readers, profiler, kernel, pc, req, guards, history>>

\* ... and keeps the write lock while it unwinds.
HandlerLock(t) ==
  /\ handler[t].at = "entered" /\ Free /\ ~Blocklisted(t)
  /\ writers' = {<<"sig", t>>}
  /\ handler' = [handler EXCEPT ![t].at = "unwinding"]
  /\ UNCHANGED <<lazy, readers, profiler, kernel, pc, req, guards, history>>

\* TraceImpl::trace takes the unwinder's lock; sample() never asks for running.
\* Whether the collector can keep the sample is Collector's matter.
HandlerSample(t) ==
  /\ handler[t].at = "unwinding" /\ LibFree
  /\ sample_counter' = sample_counter + 1
  /\ data' = data \cup {[id |-> handler[t].id, by |-> t, born |-> handler[t].born]}
  /\ writers' = {}
  /\ handler' = [handler EXCEPT ![t] = NoHandler]
  /\ UNCHANGED <<lazy, readers, running, old_sigaction, blocklist, kernel, pc, req,
                 guards, history>>

-----------------------------------------------------------------------------
Starting(t) ==
  \/ BuildBegin(t) \/ Captured(t) \/ TriggerLazy(t) \/ LazyDone(t)
  \/ BuildFailed(t) \/ BuildRefused(t) \/ BuildUnregistered(t) \/ BuildStart(t)
  \/ BuildArm(t) \/ BuildPanic(t)
Stopping(t) ==
  DropBegin(t) \/ StopUnregister(t) \/ StopUnrestored(t) \/ StopInit(t)
ReportingStep(t) ==
  ReportBegin(t) \/ ReadLock(t) \/ WriteLock(t) \/ ReportDone(t)
LibStep(t) == EnterLib(t) \/ LeaveLib(t)

\* A thread runs its own code only when no handler runs on top of it.
AppStep(t) ==
  /\ handler[t].at = "none"
  /\ Starting(t) \/ Stopping(t) \/ ReportingStep(t) \/ LibStep(t)
HandlerStep(t) ==
  HandlerBusy(t) \/ HandlerBlocked(t) \/ HandlerLock(t) \/ HandlerSample(t)
Signal == Tick \/ DeliverLate \/ \E t \in Threads : Deliver(t)

\* The process is gone, or has no call left to make: MaxCalls is spent.
Ended ==
  /\ \/ ~alive
     \/ /\ calls = MaxCalls /\ guards = {} /\ ~pending
        /\ \A t \in Threads : pc[t] = "idle" /\ handler[t] = NoHandler
  /\ UNCHANGED vars

Next ==
  \/ alive /\ \E t \in Threads : AppStep(t) \/ HandlerStep(t)
  \/ alive /\ Signal
  \/ Ended

Spec == Init /\ [][Next]_vars

\* A thread that has begun a call or a handler goes on running it, and the
\* kernel delivers what is pending.  Nothing makes a thread begin a call, drop a
\* guard or enter the library, nor the timer expire.
AppGoesOn(t) ==
  alive /\ pc[t] # "idle" /\ AppStep(t)
Fairness ==
  /\ \A t \in Threads : WF_vars(AppGoesOn(t)) /\ WF_vars(alive /\ HandlerStep(t))
  /\ WF_vars(alive /\ (DeliverLate \/ \E t \in Threads : Deliver(t)))
FairSpec == Spec /\ Fairness

-----------------------------------------------------------------------------
(* Properties                                                               *)

\* The threads answerable for the session: they will stop it.
Owners == guards \cup {t \in Threads : pc[t] \in {"arm", "stopping", "reinit"}}

\* At most one guard exists, counting the one being made and the one being
\* dropped, and while it does the profiler runs: start() refuses the others, and
\* stop() never answers NotRunning.
OneOwner ==
  /\ \A t, u \in Owners : t = u
  /\ Owners # {} => running

\* The timer never ticks into a disposition that is not the profiler's own: it is
\* armed after sigaction() and disarmed before the handler is taken away, and
\* there is always a guard left to disarm it.
TimerOnlyWithHandler == timer => guards # {} /\ sigaction = "perf"

\* The disposition the program had is never forgotten: a stopped profiler has put
\* it back, and a running one still has it to put back.
Restored ==
  /\ ~running => sigaction = Original /\ ~timer
  /\ sigaction = "perf" => old_sigaction = Original

\* What is left of it when sigaction() itself may fail in stop().
NeverTakesItself ==
  /\ ~running => sigaction = Original /\ ~timer
  /\ old_sigaction \in {Original, "none"}

\* The samples of a report are those of one moment: nothing is recorded and no
\* session is reset while a report reads, though handlers go on running.
ReportsAreStable ==
  [][(\E t \in Threads : pc[t] \in {"reading", "writing"}) => data' = data]_vars

\* A handler never unwinds a thread that holds the lock the unwinder needs, which
\* would stop the whole program: what naming its library in the blocklist is for.
NoSelfDeadlock == \A t \in Threads : handler[t].at = "unwinding" => ~InLib(t)

\* No sample of a session is taken in a library that its builder named.
IgnoresBlocklisted ==
  \A t \in Threads :
    handler[t].at = "unwinding" /\ handler[t].born = session =>
      handler[t].region \notin promised.blocklist

\* Samples of an earlier session can be found in a later one, never more than one
\* of each thread: the one whose handler was already running.
LateSamplesBounded ==
  \A x, y \in data :
    x.born # session /\ y.born # session /\ x.by = y.by => x = y

\* A guard stands for a session that is sampled exactly when its builder asked for
\* between one sample a second and one a microsecond: build() gives a guard for any
\* other frequency but zero as well, and such a session has no sample.  Refused builds of
\* other frequencies in between change nothing of it.
SessionTimed == guards # {} => (timer <=> promised.frequency \in 1..SECOND)

\* A signal of the profiler never meets the default action of SIGPROF.
NeverKilled == alive

\* A handler always leaves the thread it interrupted, whatever that thread held.
HandlerReturns ==
  \A t \in Threads : handler[t].at # "none" ~> handler[t].at = "none"

\* Every build, drop and report comes back.
CallsReturn == \A t \in Threads : pc[t] # "idle" ~> pc[t] = "idle"
=============================================================================
