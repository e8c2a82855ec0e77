--------------------------- MODULE ProfilerProofs ---------------------------
(***************************************************************************)
(* Profiler, for any threads, builders and faults, and the two             *)
(* compositions over it.  Framehop: the handler always gets the unwinder.  *)
(* Sampling, for any collector: a report is complete, and profiler and     *)
(* collector together keep the promise of Sessions.                        *)
(***************************************************************************)
EXTENDS Framehop, Sampling, SequenceTheorems, FiniteSetTheorems, TLAPS

CP == INSTANCE CollectorProofs

-----------------------------------------------------------------------------
(* Types                                                                    *)

LEMMA StartingType ==
  ASSUME TypeOK, NEW t \in Threads, Starting(t)
  PROVE  TypeOK'
<1> USE ProfilerAssumption
    DEF TypeOK, Goto, profiler, kernel, history, Steps, Contexts, Originals
<1>1. CASE BuildBegin(t)
  BY <1>1 DEF BuildBegin
<1>2. CASE Captured(t)
  BY <1>2 DEF Captured
<1>3. CASE TriggerLazy(t)
  BY <1>3 DEF TriggerLazy
<1>4. CASE LazyDone(t)
  BY <1>4 DEF LazyDone
<1>5. CASE BuildFailed(t)
  BY <1>5 DEF BuildFailed
<1>6. CASE BuildRefused(t)
  BY <1>6 DEF BuildRefused, Requests
<1>7. CASE BuildUnregistered(t)
  BY <1>7 DEF BuildUnregistered, MayStart, Requests
<1>8. CASE BuildStart(t)
  BY <1>8 DEF BuildStart, MayStart, Requests
<1>9. CASE BuildArm(t)
  <2>1. (req[t].frequency > 0 /\ Interval(req[t].frequency) > 0) \in BOOLEAN
    OBVIOUS
  <2>2. Setitimer(req[t].frequency) \in BOOLEAN
    BY <2>1, Zenon DEF Setitimer
  <2> QED
    BY <1>9, <2>2 DEF BuildArm
<1>10. CASE BuildPanic(t)
  BY <1>10 DEF BuildPanic
<1> QED
  BY <1>1, <1>2, <1>3, <1>4, <1>5, <1>6, <1>7, <1>8, <1>9, <1>10 DEF Starting

LEMMA StoppingType ==
  ASSUME TypeOK, NEW t \in Threads, Stopping(t)
  PROVE  TypeOK'
<1> USE DEF TypeOK, Goto, profiler, kernel, history, Steps, Contexts, Originals
<1>1. CASE DropBegin(t)
  BY <1>1 DEF DropBegin, TimerDropped
<1>2. CASE StopUnregister(t)
  <2>1. pending' \in BOOLEAN
    BY <1>2 DEF StopUnregister
  <2> QED
    BY <1>2, <2>1 DEF StopUnregister
<1>3. CASE StopUnrestored(t)
  BY <1>3 DEF StopUnrestored
<1>4. CASE StopInit(t)
  <2>1. sample_counter' = 0 /\ data' \subseteq Samples /\ running' \in BOOLEAN
    BY <1>4 DEF StopInit, ProfilerInit
  <2> QED
    BY <1>4, <2>1 DEF StopInit
<1> QED
  BY <1>1, <1>2, <1>3, <1>4 DEF Stopping

LEMMA OtherType ==
  ASSUME TypeOK, NEW t \in Threads, ReportingStep(t) \/ LibStep(t)
  PROVE  TypeOK'
BY DEF TypeOK, Goto, profiler, kernel, history, Steps, ReportingStep, ReportBegin,
       ReadLock, WriteLock, ReportDone, LibStep, EnterLib, LeaveLib, Contexts

LEMMA HandlerType ==
  ASSUME TypeOK, NEW t \in Threads, HandlerStep(t)
  PROVE  TypeOK'
<1> USE DEF TypeOK, profiler, kernel, history, Contexts
<1>1. NoHandler \in [at : {"none", "entered", "unwinding"},
                     id : Nat, born : Nat, region : Regions]
  BY DEF NoHandler, Frame, Regions
<1>2. CASE HandlerBusy(t)
  BY <1>1, <1>2 DEF HandlerBusy
<1>3. CASE HandlerBlocked(t)
  BY <1>1, <1>3 DEF HandlerBlocked, Blocklisted
<1>4. CASE HandlerLock(t)
  BY <1>4 DEF HandlerLock, Blocklisted
<1>5. CASE HandlerSample(t)
  BY <1>1, <1>5 DEF HandlerSample, Samples
<1> QED
  BY <1>2, <1>3, <1>4, <1>5 DEF HandlerStep

LEMMA SignalType == TypeOK /\ Signal => TypeOK'
<1> SUFFICES ASSUME TypeOK, Signal
             PROVE  TypeOK'
  OBVIOUS
<1> USE DEF TypeOK, profiler, kernel, history
<1>1. CASE Tick
  <2>1. pending' \in BOOLEAN
    BY <1>1 DEF Tick
  <2> QED
    BY <1>1, <2>1 DEF Tick
<1>2. CASE DeliverLate
  <2>1. alive' \in BOOLEAN
    BY <1>2 DEF DeliverLate
  <2> QED
    BY <1>2, <2>1 DEF DeliverLate
<1>3. ASSUME NEW t \in Threads, Deliver(t)
      PROVE  TypeOK'
  BY <1>3 DEF Deliver, Frame, Regions
<1> QED
  BY <1>1, <1>2, <1>3 DEF Signal

LEMMA TypeStep == TypeOK /\ [Next]_vars => TypeOK'
<1> SUFFICES ASSUME TypeOK, [Next]_vars
             PROVE  TypeOK'
  OBVIOUS
<1>1. CASE UNCHANGED vars
  BY <1>1 DEF TypeOK, vars, profiler, kernel, history
<1> QED
  BY <1>1, StartingType, StoppingType, OtherType, HandlerType, SignalType
  DEF Next, AppStep, Ended

LEMMA TypeInit == Init => TypeOK
<1> SUFFICES ASSUME Init
             PROVE  TypeOK
  OBVIOUS
<1>1. PICK f \in Frequencies, b \in Blocklists : TRUE
  BY ProfilerAssumption
<1>2. [frequency |-> f, blocklist |-> b] \in Requests
  BY <1>1 DEF Requests
<1>3. AnyRequest \in Requests
  <2> HIDE DEF Requests
  <2> QED
    BY <1>2, Zenon DEF AnyRequest
<1>4. NoHandler \in [at : {"none", "entered", "unwinding"},
                     id : Nat, born : Nat, region : Regions]
  BY DEF NoHandler, Frame, Regions
<1> QED
  BY <1>3, <1>4, ProfilerAssumption DEF Init, TypeOK, Originals, Steps

\* The types hold in every reachable state, for all parameters.
THEOREM TypeCorrect == Spec => []TypeOK
BY TypeInit, TypeStep, PTL DEF Spec

-----------------------------------------------------------------------------
(* The inductive invariant                                                  *)

\* Who is inside the lock, by program counter; writers exclude everybody else.
Locking ==
  /\ \A t \in Threads :
       /\ <<"app", t>> \in writers <=> pc[t] \in {"arm", "reinit", "writing"}
       /\ <<"sig", t>> \in writers <=> handler[t].at = "unwinding"
       /\ t \in readers <=> pc[t] \in {"initialising", "reading"}
  /\ \A v, w \in writers : v = w
  /\ writers = {} \/ readers = {}

\* How far the one owner of the session is, and what is set up at that point.
Before(t) == pc[t] \in {"arm", "stopping"}   \* before the handler is taken away
Owning ==
  /\ \A t \in guards : pc[t] \notin {"arm", "stopping", "reinit"}
  /\ guards # {} \/ (\E t \in Threads : Before(t)) =>
       sigaction = "perf" /\ old_sigaction = Original
  /\ (\E t \in Threads : pc[t] = "reinit") => sigaction = Original

\* A stale sample is not the current session's; a stopped profiler has none.
Stale(born) == born # session \/ ~running
Aging ==
  /\ \A x \in data : x.born <= session
  /\ \A t \in Threads : handler[t].at # "none" => handler[t].born <= session
  /\ \A x, y \in data : Stale(x.born) /\ Stale(y.born) /\ x.by = y.by => x = y
  /\ \A t \in Threads, x \in data :
       handler[t].at # "none" /\ Stale(handler[t].born) /\ x.by = t => ~Stale(x.born)

-----------------------------------------------------------------------------
(* The lock                                                                 *)

\* Who can be where when the lock is held.
LEMMA Exclusion ==
  ASSUME TypeOK, Locking
  PROVE  /\ \A t, u \in Threads :
              pc[t] \in {"arm", "reinit", "writing"} =>
                /\ handler[u].at # "unwinding"
                /\ pc[u] \notin {"initialising", "reading"}
                /\ u # t => pc[u] \notin {"arm", "reinit", "writing"}
         /\ \A t, u \in Threads :
              handler[t].at = "unwinding" =>
                /\ pc[u] \notin {"initialising", "reading"}
                /\ u # t => handler[u].at # "unwinding"
         /\ Free => \A t \in Threads : handler[t].at # "unwinding"
BY DEF Locking, Free

\* A step of t outside the lock: it neither takes nor releases it.
LEMMA OutsideLock ==
  ASSUME TypeOK, Locking, NEW t \in Threads, NEW step \in Steps, Goto(t, step),
         UNCHANGED <<writers, readers, handler>>,
         pc[t] \notin {"arm", "reinit", "writing", "initialising", "reading"},
         step \notin {"arm", "reinit", "writing", "initialising", "reading"}
  PROVE  Locking'
BY DEF Locking, TypeOK, Goto

\* A writer that leaves the lock leaves it free.
LEMMA LeavesLock ==
  ASSUME TypeOK, Locking, NEW t \in Threads, writers' = {}, UNCHANGED <<readers, handler>>,
         pc[t] \in {"arm", "reinit", "writing"}, Goto(t, "idle")
  PROVE  Locking'
<1>1. pc' = [pc EXCEPT ![t] = "idle"]
  BY DEF Goto
<1> QED
  BY <1>1, Exclusion DEF Locking, TypeOK

LEMMA StartingLock ==
  ASSUME TypeOK, Locking, NEW t \in Threads, Starting(t)
  PROVE  Locking'
<1> USE DEF Steps
<1>1. CASE BuildBegin(t)
  BY <1>1, OutsideLock DEF BuildBegin
<1>2. CASE Captured(t)
  BY <1>2, OutsideLock DEF Captured
<1>3. CASE TriggerLazy(t)
  BY <1>3 DEF TriggerLazy, Locking, TypeOK, Goto
<1>4. CASE LazyDone(t)
  BY <1>4 DEF LazyDone, Locking, TypeOK, Goto
<1>5. CASE BuildFailed(t) \/ BuildRefused(t) \/ BuildUnregistered(t)
  BY <1>5, OutsideLock DEF BuildFailed, BuildRefused, BuildUnregistered, MayStart
<1>6. CASE BuildStart(t)
  BY <1>6 DEF BuildStart, MayStart, Free, Locking, TypeOK, Goto
<1>7. CASE BuildArm(t)
  BY <1>7, LeavesLock DEF BuildArm
<1>8. CASE BuildPanic(t)
  BY <1>8, LeavesLock DEF BuildPanic
<1> QED
  BY <1>1, <1>2, <1>3, <1>4, <1>5, <1>6, <1>7, <1>8 DEF Starting

LEMMA StoppingLock ==
  ASSUME TypeOK, Locking, NEW t \in Threads, Stopping(t)
  PROVE  Locking'
<1> USE DEF Steps
<1>1. CASE DropBegin(t) \/ StopUnrestored(t)
  BY <1>1, OutsideLock DEF DropBegin, TimerDropped, StopUnrestored
<1>2. CASE StopUnregister(t)
  BY <1>2 DEF StopUnregister, Free, Locking, TypeOK, Goto
<1>3. CASE StopInit(t)
  BY <1>3, LeavesLock DEF StopInit
<1> QED
  BY <1>1, <1>2, <1>3 DEF Stopping

LEMMA OtherLock ==
  ASSUME TypeOK, Locking, NEW t \in Threads, ReportingStep(t) \/ LibStep(t)
  PROVE  Locking'
<1> USE DEF Steps
<1>1. CASE ReportBegin(t) \/ LibStep(t)
  BY <1>1, OutsideLock DEF ReportBegin, LibStep, EnterLib, LeaveLib
<1>2. CASE ReadLock(t)
  BY <1>2 DEF ReadLock, Locking, TypeOK, Goto
<1>3. CASE WriteLock(t)
  BY <1>3 DEF WriteLock, Free, Locking, TypeOK, Goto
<1>4. CASE ReportDone(t)
  BY <1>4 DEF ReportDone, Locking, TypeOK, Goto
<1> QED
  BY <1>1, <1>2, <1>3, <1>4 DEF ReportingStep

LEMMA HandlerLocking ==
  ASSUME TypeOK, Locking, NEW t \in Threads, HandlerStep(t)
  PROVE  Locking'
<1>1. NoHandler.at = "none"
  BY DEF NoHandler, Frame
<1>2. CASE HandlerBusy(t) \/ HandlerBlocked(t)
  BY <1>1, <1>2 DEF HandlerBusy, HandlerBlocked, Blocklisted, Locking, TypeOK
<1>3. CASE HandlerLock(t)
  BY <1>3 DEF HandlerLock, Blocklisted, Free, Locking, TypeOK
<1>4. CASE HandlerSample(t)
  <2>1. /\ writers' = {} /\ UNCHANGED <<readers, pc>>
        /\ handler' = [handler EXCEPT ![t] = NoHandler] /\ handler[t].at = "unwinding"
    BY <1>4 DEF HandlerSample
  <2>2. \A u \in Threads : handler'[u].at # "unwinding"
    BY <1>1, <2>1, Exclusion DEF TypeOK
  <2>3. \A u \in Threads : pc[u] \notin {"arm", "reinit", "writing"}
    BY <2>1, Exclusion
  <2> QED
    BY <2>1, <2>2, <2>3 DEF Locking
<1> QED
  BY <1>2, <1>3, <1>4 DEF HandlerStep

LEMMA SignalLock == TypeOK /\ Locking /\ Signal => Locking'
BY DEF Signal, Tick, DeliverLate, Deliver, Frame, Locking, TypeOK

LEMMA LockStep == TypeOK /\ Locking /\ [Next]_vars => Locking'
<1> SUFFICES ASSUME TypeOK, Locking, [Next]_vars
             PROVE  Locking'
  OBVIOUS
<1>1. CASE UNCHANGED vars
  BY <1>1 DEF Locking, vars
<1> QED
  BY <1>1, StartingLock, StoppingLock, OtherLock, HandlerLocking, SignalLock
  DEF Next, AppStep, Ended

\* Reports read one moment's samples, for any number of threads and whatever fails.
LEMMA DataStep ==
  ASSUME TypeOK, Locking, [Next]_vars, NEW t \in Threads,
         pc[t] \in {"reading", "writing"}
  PROVE  data' = data
<1>1. \A u \in Threads : ~StopInit(u) /\ ~HandlerSample(u)
  BY Exclusion DEF StopInit, ProfilerInit, HandlerSample
<1> QED
  BY <1>1
  DEF Next, AppStep, Starting, Stopping, ReportingStep, LibStep, HandlerStep,
      Signal, Ended, BuildBegin, Captured, TriggerLazy, LazyDone, BuildFailed,
      BuildRefused, BuildUnregistered, BuildStart, MayStart, BuildArm, BuildPanic,
      DropBegin, TimerDropped, StopUnregister, StopUnrestored, ReportBegin,
      ReadLock, WriteLock, ReportDone, EnterLib, LeaveLib, HandlerBusy,
      HandlerBlocked, Blocklisted, HandlerLock, Tick, DeliverLate, Deliver,
      profiler, vars

-----------------------------------------------------------------------------
(* The owner                                                                *)

OwnInv == OneOwner /\ TimerOnlyWithHandler /\ NeverTakesItself /\ Owning

\* Steps that no owner takes and that leave the session alone.
LEMMA NotOwning ==
  ASSUME TypeOK, OwnInv,
         UNCHANGED <<guards, running, old_sigaction, sigaction, timer>>,
         \A t \in Threads :
           \/ pc'[t] = pc[t]
           \/ /\ pc[t] \notin {"arm", "stopping", "reinit"}
              /\ pc'[t] \notin {"arm", "stopping", "reinit"}
  PROVE  OwnInv'
<1>1. Owners' = Owners
  BY DEF Owners
<1>2. \A t \in Threads : /\ Before(t)' <=> Before(t)
                         /\ pc'[t] = "reinit" <=> pc[t] = "reinit"
  BY DEF Before
<1>3. OneOwner' /\ TimerOnlyWithHandler' /\ NeverTakesItself'
  BY <1>1 DEF OwnInv, OneOwner, TimerOnlyWithHandler, NeverTakesItself
<1>4. Owning'
  BY <1>2 DEF OwnInv, Owning, TypeOK
<1> QED
  BY <1>3, <1>4 DEF OwnInv

LEMMA StartingOwn ==
  ASSUME TypeOK, OwnInv, NEW t \in Threads, Starting(t)
  PROVE  OwnInv'
<1> USE DEF TypeOK, Goto
<1>1. CASE BuildBegin(t) \/ Captured(t) \/ TriggerLazy(t) \/ LazyDone(t)
  BY <1>1, NotOwning
  DEF BuildBegin, Captured, TriggerLazy, LazyDone, profiler, kernel
<1>2. CASE BuildFailed(t) \/ BuildRefused(t) \/ BuildUnregistered(t)
  BY <1>2, NotOwning
  DEF BuildFailed, BuildRefused, BuildUnregistered, MayStart, profiler, kernel
<1>3. CASE BuildStart(t)
  <2>1. ~running /\ pc' = [pc EXCEPT ![t] = "arm"] /\ guards' = guards
        /\ running' = TRUE /\ old_sigaction' = sigaction /\ sigaction' = "perf"
        /\ timer' = timer
    BY <1>3 DEF BuildStart, MayStart
  <2>2. Owners = {} /\ sigaction = Original /\ ~timer
    BY <2>1 DEF OwnInv, OneOwner, NeverTakesItself
  <2>3. Owners' = {t}
    BY <2>1, <2>2 DEF Owners
  <2>4. guards = {} /\ \A u \in Threads : pc[u] \notin {"arm", "stopping", "reinit"}
    BY <2>2 DEF Owners
  <2> QED
    BY <2>1, <2>2, <2>3, <2>4
    DEF OwnInv, OneOwner, TimerOnlyWithHandler, NeverTakesItself, Owning, Before
<1>4. CASE BuildArm(t)
  <2>1. /\ pc[t] = "arm" /\ pc' = [pc EXCEPT ![t] = "idle"]
        /\ guards' = guards \cup {t}
        /\ UNCHANGED <<running, old_sigaction, sigaction>>
    BY <1>4 DEF BuildArm, profiler
  <2>2. t \in Owners /\ Owners' = Owners /\ running
    BY <2>1 DEF Owners, OwnInv, OneOwner
  <2>3. \A u \in Threads : u # t =>
          u \notin guards /\ pc[u] \notin {"arm", "stopping", "reinit"}
    BY <2>1, <2>2 DEF OwnInv, OneOwner, Owners
  <2>4. sigaction = "perf" /\ old_sigaction = Original
    BY <2>1 DEF OwnInv, Owning, Before
  <2> QED
    BY <2>1, <2>2, <2>3, <2>4
    DEF OwnInv, OneOwner, TimerOnlyWithHandler, NeverTakesItself, Owning, Before
<1>5. CASE BuildPanic(t)
  <2>1. /\ pc[t] = "arm" /\ pc' = [pc EXCEPT ![t] = "idle"]
        /\ UNCHANGED <<guards, running, old_sigaction, sigaction, timer>>
    BY <1>5 DEF BuildPanic, profiler, kernel
  <2>2. Owners' \subseteq Owners
    BY <2>1 DEF Owners
  <2> QED
    BY <2>1, <2>2
    DEF OwnInv, OneOwner, TimerOnlyWithHandler, NeverTakesItself, Owning, Before
<1> QED
  BY <1>1, <1>2, <1>3, <1>4, <1>5 DEF Starting

LEMMA StoppingOwn ==
  ASSUME TypeOK, OwnInv, NEW t \in Threads, Stopping(t)
  PROVE  OwnInv'
<1> USE DEF TypeOK, Goto
<1>1. CASE DropBegin(t)
  <2>1. /\ t \in guards /\ guards' = guards \ {t} /\ timer' = FALSE
        /\ pc' = [pc EXCEPT ![t] = "stopping"]
        /\ UNCHANGED <<running, old_sigaction, sigaction>>
    BY <1>1 DEF DropBegin, TimerDropped, profiler
  <2>2. Owners' = Owners
    BY <2>1 DEF Owners, OwnInv, Owning
  <2>3. \A u \in Threads : u # t =>
          u \notin guards /\ pc[u] \notin {"arm", "stopping", "reinit"}
    BY <2>1 DEF OwnInv, OneOwner, Owners
  <2>4. sigaction = "perf" /\ old_sigaction = Original
    BY <2>1 DEF OwnInv, Owning
  <2> QED
    BY <2>1, <2>2, <2>3, <2>4
    DEF OwnInv, OneOwner, TimerOnlyWithHandler, NeverTakesItself, Owning, Before
<1>2. CASE StopUnregister(t) \/ StopUnrestored(t)
  <2>1. pc[t] = "stopping" /\ running
    BY <1>2 DEF StopUnregister, StopUnrestored
  <2>2. t \in Owners
    BY <2>1 DEF Owners
  <2>3. \A u \in Threads : u \notin guards /\
          (u # t => pc[u] \notin {"arm", "stopping", "reinit"})
    BY <2>1, <2>2 DEF OwnInv, OneOwner, Owners, Owning
  <2>4. /\ guards = {} /\ ~timer
        /\ sigaction = "perf" /\ old_sigaction = Original
    BY <2>1, <2>3 DEF OwnInv, Owning, TimerOnlyWithHandler, Before
  <2>5. Original # "none" /\ Original # "perf"
    BY ProfilerAssumption DEF Originals
  <2>6. CASE StopUnregister(t)
    <3>1. /\ pc' = [pc EXCEPT ![t] = "reinit"] /\ old_sigaction' = "none"
          /\ sigaction' = Original /\ UNCHANGED <<guards, running, timer>>
      BY <2>4, <2>5, <2>6 DEF StopUnregister
    <3>2. Owners' = {t}
      BY <2>3, <2>4, <3>1 DEF Owners
    <3> QED
      BY <2>1, <2>3, <2>4, <3>1, <3>2
      DEF OwnInv, OneOwner, TimerOnlyWithHandler, NeverTakesItself, Owning, Before
  <2>7. CASE StopUnrestored(t)
    <3>1. /\ pc' = [pc EXCEPT ![t] = "idle"] /\ old_sigaction' = "none"
          /\ UNCHANGED <<sigaction, guards, running, timer>>
      BY <2>7 DEF StopUnrestored, kernel
    <3>2. Owners' = {}
      BY <2>3, <2>4, <3>1 DEF Owners
    <3> QED
      BY <2>1, <2>3, <2>4, <3>1, <3>2
      DEF OwnInv, OneOwner, TimerOnlyWithHandler, NeverTakesItself, Owning, Before
  <2> QED
    BY <1>2, <2>6, <2>7
<1>3. CASE StopInit(t)
  <2>1. /\ pc[t] = "reinit" /\ pc' = [pc EXCEPT ![t] = "idle"]
        /\ UNCHANGED <<guards, old_sigaction, sigaction, timer>>
    BY <1>3 DEF StopInit, ProfilerInit, kernel
  <2>2. t \in Owners
    BY <2>1 DEF Owners
  <2>3. \A u \in Threads : u \notin guards /\
          (u # t => pc[u] \notin {"arm", "stopping", "reinit"})
    BY <2>1, <2>2 DEF OwnInv, OneOwner, Owners, Owning
  <2>4. guards = {} /\ ~timer /\ sigaction = Original
    BY <2>1, <2>3 DEF OwnInv, Owning, TimerOnlyWithHandler
  <2>5. Owners' = {}
    BY <2>1, <2>3, <2>4 DEF Owners
  <2> QED
    BY <2>1, <2>3, <2>4, <2>5
    DEF OwnInv, OneOwner, TimerOnlyWithHandler, NeverTakesItself, Owning, Before
<1> QED
  BY <1>1, <1>2, <1>3 DEF Stopping

LEMMA OwnStep == TypeOK /\ OwnInv /\ [Next]_vars => OwnInv'
<1> SUFFICES ASSUME TypeOK, OwnInv, [Next]_vars
             PROVE  OwnInv'
  OBVIOUS
<1>1. CASE UNCHANGED vars
  BY <1>1, NotOwning DEF vars, profiler, kernel
<1>2. ASSUME NEW t \in Threads, ReportingStep(t) \/ LibStep(t)
      PROVE  OwnInv'
  BY <1>2, NotOwning
  DEF ReportingStep, ReportBegin, ReadLock, WriteLock, ReportDone, LibStep,
      EnterLib, LeaveLib, profiler, kernel, Goto, TypeOK
<1>3. ASSUME NEW t \in Threads, HandlerStep(t)
      PROVE  OwnInv'
  BY <1>3, NotOwning
  DEF HandlerStep, HandlerBusy, HandlerBlocked, Blocklisted, HandlerLock,
      HandlerSample, profiler, kernel
<1>4. CASE Signal
  BY <1>4, NotOwning DEF Signal, Tick, Deliver, DeliverLate, profiler
<1> QED
  BY <1>1, <1>2, <1>3, <1>4, StartingOwn, StoppingOwn DEF Next, AppStep, Ended

LEMMA OwnInit == Init => OwnInv
BY DEF Init, OwnInv, OneOwner, Owners, TimerOnlyWithHandler, NeverTakesItself,
       Owning, Before

\* Locks and owners, together.
LEMMA OwnInvariant == Spec => [](TypeOK /\ Locking /\ OwnInv)
<1>1. Init => Locking
  BY DEF Init, Locking, NoHandler, Frame
<1> QED
  BY <1>1, TypeInit, OwnInit, TypeStep, LockStep, OwnStep, PTL DEF Spec

\* Whatever fails, one guard at most answers for the session.
THEOREM SingleOwner == Spec => []OneOwner
<1>1. OwnInv => OneOwner
  BY DEF OwnInv
<1> QED
  BY <1>1, OwnInvariant, PTL

\* Whatever fails, the timer is armed only under the profiler's own handler and
\* while a guard is there to disarm it.
THEOREM TimerSafe == Spec => []TimerOnlyWithHandler
<1>1. OwnInv => TimerOnlyWithHandler
  BY DEF OwnInv
<1> QED
  BY <1>1, OwnInvariant, PTL

\* Whatever fails, the profiler never saves its own handler as the original one.
THEOREM NeverItself == Spec => []NeverTakesItself
<1>1. OwnInv => NeverTakesItself
  BY DEF OwnInv
<1> QED
  BY <1>1, OwnInvariant, PTL

\* A report never sees a sample arrive, nor the session end, while it reads.
THEOREM StableReports == Spec => ReportsAreStable
<1>1. TypeOK /\ Locking /\ [Next]_vars =>
        [(\E t \in Threads : pc[t] \in {"reading", "writing"}) => data' = data]_vars
  BY DataStep
<1> QED
  BY <1>1, OwnInvariant, PTL DEF Spec, ReportsAreStable

-----------------------------------------------------------------------------
(* Giving the disposition back                                              *)

LEMMA RestoredStep ==
  ASSUME "unregister" \notin Faults, TypeOK, OwnInv, OwnInv', Restored, [Next]_vars
  PROVE  Restored'
<1>1. ~running' => sigaction' = Original /\ ~timer'
  BY DEF OwnInv, NeverTakesItself
<1>2. sigaction' = "perf" => old_sigaction' = Original
  <2>1. CASE UNCHANGED <<sigaction, old_sigaction>>
    BY <2>1 DEF Restored
  <2>2. ASSUME NEW t \in Threads, BuildStart(t)
        PROVE  old_sigaction' = Original
    BY <2>2 DEF BuildStart, MayStart, OwnInv, NeverTakesItself
  <2>3. ASSUME NEW t \in Threads, StopUnregister(t)
        PROVE  sigaction' # "perf"
    <3>1. sigaction' = Original
      BY <2>3, ProfilerAssumption
      DEF StopUnregister, OwnInv, Owning, Before, Originals
    <3> QED
      BY <3>1, ProfilerAssumption DEF Originals
  <2> QED
    BY <2>1, <2>2, <2>3
    DEF Next, AppStep, Starting, Stopping, ReportingStep, LibStep, HandlerStep,
        Signal, Ended, BuildBegin, Captured, TriggerLazy, LazyDone, BuildFailed,
        BuildRefused, BuildUnregistered, MayStart, BuildArm, BuildPanic, DropBegin,
        TimerDropped, StopUnrestored, StopInit, ProfilerInit, ReportBegin, ReadLock,
        WriteLock, ReportDone, EnterLib, LeaveLib, HandlerBusy, HandlerBlocked,
        Blocklisted, HandlerLock, HandlerSample, Tick, DeliverLate, Deliver,
        profiler, kernel, vars
<1> QED
  BY <1>1, <1>2 DEF Restored

\* As long as sigaction() does not fail in stop(), the program's own disposition is
\* restored or still there to be restored, whatever else fails.
THEOREM OriginalRestored ==
  ASSUME "unregister" \notin Faults
  PROVE  Spec => []Restored
<1>1. Init => Restored
  BY ProfilerAssumption DEF Init, Restored, Originals
<1>2. TypeOK /\ OwnInv /\ OwnInv' /\ Restored /\ [Next]_vars => Restored'
  BY RestoredStep
<1> QED
  BY <1>1, <1>2, OwnInvariant, PTL DEF Spec

-----------------------------------------------------------------------------
(* The timer                                                                *)

\* Before the timer is set, the session is that of the thread that will set it.
Arming == \A t \in Threads : pc[t] = "arm" => promised = req[t]

LEMMA ArmingStep ==
  ASSUME TypeOK, OwnInv, Arming, [Next]_vars
  PROVE  Arming'
<1> USE DEF Arming, Goto, TypeOK
<1>1. CASE UNCHANGED vars
  BY <1>1 DEF vars, history
<1>2. ASSUME NEW t \in Threads, BuildStart(t)
      PROVE  Arming'
  <2>1. \A u \in Threads : pc[u] # "arm"
    BY <1>2 DEF BuildStart, MayStart, OwnInv, OneOwner, Owners
  <2>2. promised' = req'[t] /\ \A u \in Threads : pc'[u] = "arm" => u = t
    BY <1>2, <2>1 DEF BuildStart, MayStart
  <2> QED
    BY <2>2
<1>3. ASSUME NEW t \in Threads, BuildBegin(t)
      PROVE  Arming'
  BY <1>3 DEF BuildBegin
<1>4. ASSUME NEW t \in Threads,
             \/ Captured(t) \/ TriggerLazy(t) \/ LazyDone(t) \/ BuildFailed(t)
             \/ BuildRefused(t) \/ BuildUnregistered(t) \/ BuildArm(t) \/ BuildPanic(t)
             \/ Stopping(t) \/ ReportingStep(t) \/ LibStep(t)
      PROVE  Arming'
  <2>1. UNCHANGED <<req, promised>>
    BY <1>4
    DEF Captured, TriggerLazy, LazyDone, BuildFailed, BuildRefused, BuildUnregistered,
        BuildArm, BuildPanic, Stopping, DropBegin, StopUnregister, StopUnrestored,
        StopInit, ReportingStep, ReportBegin, ReadLock, WriteLock, ReportDone, LibStep,
        EnterLib, LeaveLib, history
  <2>2. \A u \in Threads : pc'[u] = "arm" => pc[u] = "arm"
    BY <1>4
    DEF Captured, TriggerLazy, LazyDone, BuildFailed, BuildRefused, BuildUnregistered,
        MayStart, BuildArm, BuildPanic, Stopping, DropBegin, StopUnregister,
        StopUnrestored, StopInit, ReportingStep, ReportBegin, ReadLock, WriteLock,
        ReportDone, LibStep, EnterLib, LeaveLib
  <2> QED
    BY <2>1, <2>2
<1>5. ASSUME NEW t \in Threads, HandlerStep(t) \/ Signal
      PROVE  Arming'
  BY <1>5
  DEF HandlerStep, HandlerBusy, HandlerBlocked, Blocklisted, HandlerLock, HandlerSample,
      Signal, Tick, DeliverLate, Deliver, history
<1>6. CASE Signal
  BY <1>6 DEF Signal, Tick, DeliverLate, Deliver, history
<1> QED
  BY <1>1, <1>2, <1>3, <1>4, <1>5, <1>6 DEF Next, AppStep, Starting, Ended

LEMMA QuotientPositive ==
  ASSUME NEW a \in Nat, NEW b \in Nat, b > 0
  PROVE  a \div b > 0 <=> b <= a
BY SMT

\* What setitimer() does of a timer that is not armed.
LEMMA Armed ==
  ASSUME NEW frequency \in Int, timer = FALSE
  PROVE  Setitimer(frequency) <=> frequency \in 1..SECOND
<1>1. frequency > 0 => (Interval(frequency) > 0 <=> frequency <= SECOND)
  BY QuotientPositive, SMT DEF Interval, SECOND
<1>2. CASE frequency \in -SECOND..-1
  BY <1>2 DEF Setitimer
<1>3. CASE frequency \notin -SECOND..-1
  <2>1. Setitimer(frequency) <=> frequency > 0 /\ Interval(frequency) > 0
    BY <1>3, Zenon DEF Setitimer
  <2>2. frequency > 0 /\ Interval(frequency) > 0 <=> frequency > 0 /\ frequency <= SECOND
    BY <1>1, Zenon
  <2> QED
    BY <2>1, <2>2
<1> QED
  BY <1>2, <1>3

LEMMA TimedStep ==
  ASSUME TypeOK, OwnInv, Arming, SessionTimed, [Next]_vars
  PROVE  SessionTimed'
<1>1. CASE UNCHANGED <<guards, timer, promised>>
  BY <1>1 DEF SessionTimed
<1>2. ASSUME NEW t \in Threads, BuildArm(t)
      PROVE  SessionTimed'
  <2>1. /\ pc[t] = "arm" /\ timer' = Setitimer(req[t].frequency)
        /\ promised' = promised
    BY <1>2 DEF BuildArm, history
  <2>2. guards = {}
    BY <2>1 DEF OwnInv, OneOwner, Owners, Owning, TypeOK
  <2>3. timer = FALSE
    BY <2>2 DEF OwnInv, TimerOnlyWithHandler, TypeOK
  <2>4. req[t].frequency \in Int /\ promised = req[t]
    BY <2>1, ProfilerAssumption DEF TypeOK, Requests, Arming
  <2>5. timer' <=> promised'.frequency \in 1..SECOND
    BY <2>1, <2>3, <2>4, Armed
  <2> QED
    BY <2>5 DEF SessionTimed
<1>3. ASSUME NEW t \in Threads, BuildStart(t) \/ DropBegin(t)
      PROVE  SessionTimed'
  <2>1. guards' = {}
    BY <1>3 DEF BuildStart, MayStart, DropBegin, OwnInv, OneOwner, Owners, TypeOK
  <2> QED
    BY <2>1 DEF SessionTimed
<1> QED
  BY <1>1, <1>2, <1>3
  DEF Next, AppStep, Starting, Stopping, ReportingStep, LibStep, HandlerStep,
      Signal, Ended, BuildBegin, Captured, TriggerLazy, LazyDone, BuildFailed,
      BuildRefused, BuildUnregistered, MayStart, BuildPanic,
      StopUnregister, StopUnrestored, StopInit, ProfilerInit, ReportBegin,
      ReadLock, WriteLock, ReportDone, EnterLib, LeaveLib, HandlerBusy,
      HandlerBlocked, Blocklisted, HandlerLock, HandlerSample, Tick, DeliverLate,
      Deliver, kernel, history, vars

\* For every frequency, whatever else fails and whoever else builds: a guard stands for
\* a session whose timer is armed exactly when setitimer() neither rounded to zero nor
\* refused the interval of the builder that started it.
THEOREM Timed == Spec => []SessionTimed
<1>1. Init => SessionTimed /\ Arming
  BY DEF Init, SessionTimed, Arming
<1>2. TypeOK /\ OwnInv /\ Arming /\ SessionTimed /\ [Next]_vars
      => SessionTimed' /\ Arming'
  BY TimedStep, ArmingStep
<1> QED
  BY <1>1, <1>2, OwnInvariant, PTL DEF Spec

-----------------------------------------------------------------------------
(* Samples of earlier sessions                                              *)

LEMMA AgingKept ==
  ASSUME TypeOK, Aging, UNCHANGED <<data, session, running, handler>>
  PROVE  Aging'
BY DEF Aging, Stale

LEMMA AgingHandler ==
  ASSUME TypeOK, Locking, Aging, NEW t \in Threads, HandlerStep(t)
  PROVE  Aging'
<1>1. NoHandler.at = "none"
  BY DEF NoHandler, Frame
<1>2. UNCHANGED <<session, running>>
  BY DEF HandlerStep, HandlerBusy, HandlerBlocked, Blocklisted, HandlerLock,
         HandlerSample, profiler, history
<1>3. CASE HandlerBusy(t) \/ HandlerBlocked(t)
  BY <1>1, <1>2, <1>3
  DEF HandlerBusy, HandlerBlocked, Blocklisted, profiler, Aging, Stale, TypeOK
<1>4. CASE HandlerLock(t)
  BY <1>2, <1>4 DEF HandlerLock, Blocklisted, profiler, Aging, Stale, TypeOK
<1>5. CASE HandlerSample(t)
  <2> DEFINE h == handler[t]
  <2>0. PICK x : x = [id |-> h.id, by |-> t, born |-> h.born]
    OBVIOUS
  <2>1. /\ handler[t].at # "none" /\ data' = data \cup {x}
        /\ handler' = [handler EXCEPT ![t] = NoHandler]
    BY <1>5, <2>0 DEF HandlerSample
  <2>2. x.by = t /\ x.born = handler[t].born /\ x.born <= session
    BY <2>0, <2>1 DEF Aging
  <2>3. \A u \in Threads : /\ u # t => handler'[u] = handler[u]
                           /\ handler'[t].at = "none"
    BY <1>1, <2>1 DEF TypeOK
  <2>4. \A y \in data : Stale(x.born) /\ y.by = t => ~Stale(y.born)
    BY <2>1, <2>2 DEF Aging
  <2>5. \A b : Stale(b)' <=> Stale(b)
    BY <1>2 DEF Stale
  <2>6. \A y \in data' : y.born <= session'
    BY <1>2, <2>1, <2>2 DEF Aging
  <2>7. \A y, z \in data' : Stale(y.born)' /\ Stale(z.born)' /\ y.by = z.by => y = z
    BY <2>1, <2>2, <2>4, <2>5 DEF Aging
  <2>8. \A u \in Threads : handler'[u].at # "none" => handler'[u].born <= session'
    BY <1>2, <2>3 DEF Aging
  <2>9. \A u \in Threads, y \in data' :
          handler'[u].at # "none" /\ Stale(handler'[u].born) /\ y.by = u
            => ~Stale(y.born)
    BY <2>1, <2>2, <2>3 DEF Aging
  <2> QED
    BY <1>2, <2>6, <2>7, <2>8, <2>9 DEF Aging, Stale
<1> QED
  BY <1>3, <1>4, <1>5 DEF HandlerStep

LEMMA AgingStep ==
  ASSUME TypeOK, Locking, OwnInv, Aging, [Next]_vars
  PROVE  Aging'
<1>1. CASE UNCHANGED <<data, session, running, handler>>
  BY <1>1, AgingKept
<1>2. ASSUME NEW t \in Threads, BuildStart(t)
      PROVE  Aging'
  <2>1. /\ ~running /\ running' = TRUE /\ session' = session + 1
        /\ UNCHANGED <<data, handler>>
    BY <1>2 DEF BuildStart, MayStart
  <2>2. session \in Nat /\ data \subseteq Samples
        /\ \A u \in Threads : handler[u].born \in Nat
    BY DEF TypeOK
  <2>3. \A b \in Nat : b <= session => b # session + 1 /\ b <= session + 1
    BY <2>2
  <2>4. \A y \in data : y.born \in Nat
    BY <2>2 DEF Samples
  <2> QED
    BY <2>1, <2>2, <2>3, <2>4 DEF Aging, Stale
<1>3. ASSUME NEW t \in Threads, StopInit(t)
      PROVE  Aging'
  BY <1>3 DEF StopInit, ProfilerInit, history, Aging, Stale
<1>4. ASSUME NEW t \in Threads, HandlerStep(t)
      PROVE  Aging'
  BY <1>4, AgingHandler
<1>5. ASSUME NEW t \in Threads, Deliver(t)
      PROVE  Aging'
  <2>1. running
    BY <1>5, ProfilerAssumption DEF Deliver, OwnInv, NeverTakesItself, Originals
  <2> DEFINE region == IF InLib(t) THEN "lib" ELSE "app"
  <2>2. PICK f : f.born = session /\ handler' = [handler EXCEPT ![t] = f]
    <3>1. handler' = [handler EXCEPT ![t] = Frame("entered", signals, session, region)]
      BY <1>5 DEF Deliver
    <3>2. Frame("entered", signals, session, region).born = session
      BY DEF Frame
    <3> QED
      BY <3>1, <3>2
  <2>3. UNCHANGED <<data, session, running>>
    BY <1>5 DEF Deliver, profiler, history
  <2>4. session <= session
    BY DEF TypeOK
  <2> QED
    BY <2>1, <2>2, <2>3, <2>4 DEF Aging, Stale, TypeOK
<1> QED
  BY <1>1, <1>2, <1>3, <1>4, <1>5
  DEF Next, AppStep, Starting, Stopping, ReportingStep, LibStep, Signal, Ended,
      BuildBegin, Captured, TriggerLazy, LazyDone, BuildFailed, BuildRefused,
      BuildUnregistered, MayStart, BuildArm, BuildPanic, DropBegin, TimerDropped,
      StopUnregister, StopUnrestored, ReportBegin, ReadLock, WriteLock, ReportDone,
      EnterLib, LeaveLib, Tick, DeliverLate, profiler, history, vars

\* Whatever fails, at most one sample of each thread outlives its session.
THEOREM LateSamples == Spec => []LateSamplesBounded
<1>1. Init => Aging
  BY DEF Init, Aging, NoHandler, Frame
<1>2. TypeOK /\ Locking /\ OwnInv /\ Aging /\ [Next]_vars => Aging'
  BY AgingStep
<1>3. Aging => LateSamplesBounded
  BY DEF Aging, Stale, LateSamplesBounded
<1> QED
  BY <1>1, <1>2, <1>3, OwnInvariant, PTL DEF Spec

-----------------------------------------------------------------------------
(* The blocklist                                                            *)

\* A handler knows where it interrupted its thread, which has not moved since.
Placed ==
  \A t \in Threads :
    handler[t].at # "none" => (handler[t].region = "lib" <=> InLib(t))

\* The blocklist is in place before the handler is installed, and a later builder
\* can only replace it with another that names the library.
Listed ==
  \/ "lib" \in blocklist
  \/ /\ sigaction # "perf" /\ old_sigaction # "perf"
     /\ \A t \in Threads : handler[t].at = "none"

\* The address was looked up before the lock was kept.
LookedUp ==
  \A t \in Threads : handler[t].at = "unwinding" => handler[t].region # "lib"

BlockInv == Placed /\ Listed /\ LookedUp

\* A step of a thread moves no thread that has a handler on top.
LEMMA PlacedStep ==
  ASSUME TypeOK, Placed, NEW t \in Threads, AppStep(t)
  PROVE  Placed'
<1>1. handler' = handler /\ handler[t].at = "none"
  BY DEF AppStep, Starting, Stopping, ReportingStep, LibStep, BuildBegin, Captured,
         TriggerLazy, LazyDone, BuildFailed, BuildRefused, BuildUnregistered,
         BuildStart, MayStart, BuildArm, BuildPanic, DropBegin, TimerDropped,
         StopUnregister, StopUnrestored, StopInit, ProfilerInit, ReportBegin,
         ReadLock, WriteLock, ReportDone, EnterLib, LeaveLib
<1>2. \A u \in Threads : u # t => pc'[u] = pc[u]
  BY DEF AppStep, Starting, Stopping, ReportingStep, LibStep, BuildBegin, Captured,
         TriggerLazy, LazyDone, BuildFailed, BuildRefused, BuildUnregistered,
         BuildStart, MayStart, BuildArm, BuildPanic, DropBegin, TimerDropped,
         StopUnregister, StopUnrestored, StopInit, ProfilerInit, ReportBegin,
         ReadLock, WriteLock, ReportDone, EnterLib, LeaveLib, Goto, TypeOK
<1> QED
  BY <1>1, <1>2 DEF Placed, InLib

LEMMA ListedStep ==
  ASSUME \A b \in Blocklists : "lib" \in b,
         TypeOK, Listed, NEW t \in Threads, AppStep(t)
  PROVE  Listed'
<1>1. handler' = handler
  BY DEF AppStep, Starting, Stopping, ReportingStep, LibStep, BuildBegin, Captured,
         TriggerLazy, LazyDone, BuildFailed, BuildRefused, BuildUnregistered,
         BuildStart, MayStart, BuildArm, BuildPanic, DropBegin, TimerDropped,
         StopUnregister, StopUnrestored, StopInit, ProfilerInit, ReportBegin,
         ReadLock, WriteLock, ReportDone, EnterLib, LeaveLib
<1>2. CASE BuildRefused(t) \/ BuildUnregistered(t) \/ BuildStart(t)
  BY <1>2 DEF BuildRefused, BuildUnregistered, BuildStart, MayStart, TypeOK,
              Requests, Listed
<1>3. CASE StopUnregister(t) \/ StopUnrestored(t)
  BY <1>1, <1>3 DEF StopUnregister, StopUnrestored, kernel, Listed
<1>4. CASE UNCHANGED <<blocklist, sigaction, old_sigaction>>
  BY <1>1, <1>4 DEF Listed
<1> QED
  BY <1>2, <1>3, <1>4
  DEF AppStep, Starting, Stopping, ReportingStep, LibStep, BuildBegin, Captured,
      TriggerLazy, LazyDone, BuildFailed, BuildArm, BuildPanic, DropBegin,
      TimerDropped, StopInit, ProfilerInit, ReportBegin, ReadLock, WriteLock,
      ReportDone, EnterLib, LeaveLib, profiler, kernel

LEMMA BlockStep ==
  ASSUME \A b \in Blocklists : "lib" \in b, TypeOK, BlockInv, [Next]_vars
  PROVE  BlockInv'
<1> USE DEF BlockInv
<1>1. CASE UNCHANGED <<pc, blocklist, sigaction, old_sigaction, handler>>
  BY <1>1 DEF Placed, Listed, LookedUp, InLib
<1>2. ASSUME NEW t \in Threads, AppStep(t)
      PROVE  BlockInv'
  <2>1. handler' = handler
    BY <1>2
    DEF AppStep, Starting, Stopping, ReportingStep, LibStep, BuildBegin, Captured,
        TriggerLazy, LazyDone, BuildFailed, BuildRefused, BuildUnregistered,
        BuildStart, MayStart, BuildArm, BuildPanic, DropBegin, TimerDropped,
        StopUnregister, StopUnrestored, StopInit, ProfilerInit, ReportBegin,
        ReadLock, WriteLock, ReportDone, EnterLib, LeaveLib
  <2> QED
    BY <1>2, <2>1, PlacedStep, ListedStep DEF LookedUp
<1>3. ASSUME NEW t \in Threads, HandlerStep(t)
      PROVE  BlockInv'
  <2>1. UNCHANGED <<pc, blocklist, sigaction, old_sigaction>> /\ NoHandler.at = "none"
    BY <1>3 DEF HandlerStep, HandlerBusy, HandlerBlocked, Blocklisted, HandlerLock,
                HandlerSample, profiler, kernel, NoHandler, Frame
  <2>2. CASE handler' = [handler EXCEPT ![t] = NoHandler]
    BY <2>1, <2>2 DEF Placed, Listed, LookedUp, InLib, TypeOK
  <2>3. CASE HandlerLock(t)
    <3>1. /\ handler[t].at = "entered" /\ handler[t].region \notin blocklist
          /\ handler' = [handler EXCEPT ![t].at = "unwinding"]
      BY <2>3 DEF HandlerLock, Blocklisted
    <3>2. handler[t].region # "lib"
      BY <3>1 DEF Listed
    <3>3. Placed' /\ LookedUp'
      BY <2>1, <3>1, <3>2 DEF Placed, LookedUp, InLib, TypeOK
    <3>4. Listed'
      BY <2>1, <3>1 DEF Listed
    <3> QED
      BY <3>3, <3>4
  <2> QED
    BY <1>3, <2>2, <2>3 DEF HandlerStep, HandlerBusy, HandlerBlocked, Blocklisted,
                            HandlerSample
<1>4. ASSUME NEW t \in Threads, Deliver(t)
      PROVE  BlockInv'
  <2> DEFINE region == IF InLib(t) THEN "lib" ELSE "app"
  <2>1. /\ sigaction = "perf"
        /\ UNCHANGED <<pc, blocklist, sigaction, old_sigaction>>
        /\ handler' = [handler EXCEPT ![t] = Frame("entered", signals, session, region)]
    BY <1>4 DEF Deliver, profiler
  <2>2. PICK f : /\ f.at = "entered" /\ (f.region = "lib" <=> InLib(t))
                 /\ handler' = [handler EXCEPT ![t] = f]
    <3>1. LET f == Frame("entered", signals, session, region)
          IN  f.at = "entered" /\ (f.region = "lib" <=> InLib(t))
      BY DEF Frame
    <3> QED
      BY <2>1, <3>1
  <2>3. Placed' /\ LookedUp'
    BY <2>1, <2>2 DEF Placed, LookedUp, InLib, TypeOK
  <2>4. Listed'
    BY <2>1 DEF Listed
  <2> QED
    BY <2>3, <2>4
<1>5. CASE DeliverLate \/ Tick
  BY <1>5 DEF DeliverLate, Tick, profiler, history, Placed, Listed, LookedUp, InLib
<1> QED
  BY <1>1, <1>2, <1>3, <1>4, <1>5
  DEF Next, Signal, Ended, vars, profiler, kernel, history

\* When every builder names the unwinder's library, no handler ever waits for a
\* lock of the thread it interrupted, whatever fails and whoever builds meanwhile.
THEOREM SelfDeadlockFree ==
  ASSUME \A b \in Blocklists : "lib" \in b
  PROVE  Spec => []NoSelfDeadlock
<1>1. Init => BlockInv
  BY ProfilerAssumption
  DEF Init, BlockInv, Placed, Listed, LookedUp, NoHandler, Frame, Originals
<1>2. TypeOK /\ BlockInv /\ [Next]_vars => BlockInv'
  BY BlockStep
<1>3. BlockInv => NoSelfDeadlock
  BY DEF BlockInv, Placed, LookedUp, NoSelfDeadlock
<1> QED
  BY <1>1, <1>2, <1>3, TypeCorrect, PTL DEF Spec

-----------------------------------------------------------------------------
(* Waiting                                                                  *)

\* A thread with a call or a handler to end, and one that waits for nobody: a guard
\* of its next step holds.
Busy(t) == pc[t] # "idle" \/ handler[t].at # "none"
GoesOn(t) ==
  IF handler[t].at = "none"
  THEN CASE pc[t] \in {"forcing", "report"} -> writers = {}
         [] pc[t] = "locking" -> Free /\ lazy # "uninit"
         [] pc[t] = "stopping" -> Free /\ running
         [] OTHER -> pc[t] # "idle"
  ELSE handler[t].at = "unwinding" => LibFree

\* The static is made before anybody asks for its write lock.
Made == \A t \in Threads : pc[t] \in {"initialising", "locking"} => lazy # "uninit"

LEMMA MadeStep == TypeOK /\ Made /\ [Next]_vars => Made'
<1> SUFFICES ASSUME TypeOK, Made, [Next]_vars
             PROVE  Made'
  OBVIOUS
<1>1. CASE UNCHANGED <<pc, lazy>>
  BY <1>1 DEF Made
<1>2. ASSUME NEW t \in Threads, AppStep(t)
      PROVE  Made'
  <2>1. CASE TriggerLazy(t)
    BY <2>1 DEF TriggerLazy, Goto, TypeOK, Made
  <2>2. CASE LazyDone(t)
    BY <2>2 DEF LazyDone, Goto, TypeOK, Made
  <2>3. CASE ~TriggerLazy(t) /\ ~LazyDone(t)
    <3>1. PICK step : Goto(t, step) /\ step \notin {"initialising", "locking"}
                      /\ lazy' = lazy
      BY <1>2, <2>3
      DEF AppStep, Starting, Stopping, ReportingStep, LibStep, BuildBegin, Captured,
          BuildFailed, BuildRefused, BuildUnregistered, BuildStart, BuildArm,
          BuildPanic, DropBegin, StopUnregister, StopUnrestored, StopInit,
          ReportBegin, ReadLock, WriteLock, ReportDone, EnterLib, LeaveLib
    <3> QED
      BY <3>1 DEF Goto, TypeOK, Made
  <2> QED
    BY <2>1, <2>2, <2>3
<1> QED
  BY <1>1, <1>2
  DEF Next, HandlerStep, HandlerBusy, HandlerBlocked, HandlerLock, HandlerSample,
      Signal, Tick, DeliverLate, Deliver, Ended, vars

\* Nobody waits in a circle, and no lock is left behind: when every builder names the
\* unwinder's library, as long as any thread has a call or a handler to end, one of
\* them can go on.  (Whoever waits waits for a holder of the profiler's lock, and that
\* one at most for a thread in the library, which has no handler that unwinds.)
THEOREM SomebodyGoesOn ==
  ASSUME \A b \in Blocklists : "lib" \in b
  PROVE  Spec => []((\E t \in Threads : Busy(t)) => \E t \in Threads : Busy(t) /\ GoesOn(t))
<1>1. ASSUME TypeOK, Locking, OwnInv, NoSelfDeadlock, Made,
             NEW t \in Threads, Busy(t)
      PROVE  \E u \in Threads : Busy(u) /\ GoesOn(u)
  <2>1. ASSUME NEW u \in Threads, InLib(u)
        PROVE  Busy(u) /\ GoesOn(u)
    <3>1. handler[u].at # "unwinding"
      BY <1>1, <2>1 DEF NoSelfDeadlock
    <3> QED
      BY <2>1, <3>1 DEF InLib, Busy, GoesOn
  <2>2. ASSUME NEW u \in Threads, handler[u].at = "unwinding", LibFree
        PROVE  Busy(u) /\ GoesOn(u)
    BY <2>2 DEF Busy, GoesOn
  <2>3. CASE \E u \in Threads : handler[u].at = "unwinding"
    BY <2>1, <2>2, <2>3 DEF LibFree
  <2>4. CASE \A u \in Threads : handler[u].at # "unwinding"
    <3>1. ASSUME NEW u \in Threads,
                 pc[u] \in {"arm", "reinit", "writing", "initialising", "reading"}
          PROVE  Busy(u) /\ GoesOn(u)
      BY <2>4, <3>1 DEF Busy, GoesOn
    <3>2. CASE ~Free
      <4>1. PICK u \in Threads : \/ <<"app", u>> \in writers \/ <<"sig", u>> \in writers
                                 \/ u \in readers
        <5>1. CASE readers # {}
          BY <1>1, <5>1 DEF TypeOK
        <5>2. CASE writers # {}
          <6>0. writers \subseteq Contexts \X Threads
            BY <1>1 DEF TypeOK
          <6>1. PICK c \in Contexts, u \in Threads : <<c, u>> \in writers
            BY <5>2, <6>0
          <6> QED
            BY <6>1 DEF Contexts
        <5> QED
          BY <3>2, <5>1, <5>2 DEF Free
      <4>2. pc[u] \in {"arm", "reinit", "writing", "initialising", "reading"}
        BY <1>1, <2>4, <4>1 DEF Locking
      <4> QED
        BY <3>1, <4>2
    <3>3. CASE Free
      <4>1. pc[t] = "stopping" => running
        BY <1>1 DEF OwnInv, OneOwner, Owners
      <4>2. pc[t] = "locking" => lazy # "uninit"
        BY <1>1 DEF Made
      <4>3. GoesOn(t)
        BY <1>1, <2>4, <3>3, <4>1, <4>2 DEF Busy, GoesOn, Free
      <4> QED
        BY <1>1, <4>3
    <3> QED
      BY <3>2, <3>3
  <2> QED
    BY <2>3, <2>4
<1>2. Init => Made
  BY DEF Init, Made
<1>3. TypeOK /\ Locking /\ OwnInv /\ NoSelfDeadlock /\ Made =>
        ((\E t \in Threads : Busy(t)) => \E t \in Threads : Busy(t) /\ GoesOn(t))
  BY <1>1
<1> QED
  BY <1>2, <1>3, MadeStep, OwnInvariant, SelfDeadlockFree, PTL DEF Spec

-----------------------------------------------------------------------------
(* Framehop: a profiler that also waits                                     *)

LEMMA FramehopStep == [FramehopNext]_framehopVars => [Next]_vars
BY DEF FramehopNext, framehopVars, FramehopAppStep, InitStep, ForceUnwinder,
       UnwinderForced, ReadUnwinder, LeaveUnwinder, FramehopHandlerStep,
       TraceUnwinder, Next, Ended

\* The profiler built with this unwinder behaves like one built with another:
\* whatever is proved of Profiler holds of it.
THEOREM FramehopIsProfiler == FramehopSpec => Spec
<1>1. FramehopInit => Init
  BY DEF FramehopInit
<1> QED
  BY <1>1, FramehopStep, PTL DEF FramehopSpec, Spec

-----------------------------------------------------------------------------
(* The unwinder                                                             *)

\* Where its lock is held, and that whoever may come to unwind finds it made:
\* past init(), with the handler installed, or about to be installed again.
UnwinderInv ==
  /\ init \in [Threads -> {"none", "forcing", "reading", "done"}]
  /\ trace \in [Threads -> {"none", "lazy", "empty", "locked"}]
  /\ \A t \in Threads :
       /\ init[t] # "none" => pc[t] = "initialising"
       /\ trace[t] # "none" => handler[t].at = "unwinding"
       /\ init[t] \in {"reading", "done"} => unwinder = "ready"
       /\ pc[t] = "locking" => unwinder = "ready"
       /\ handler[t].at # "none" => unwinder = "ready"
  /\ sigaction = "perf" \/ old_sigaction = "perf" => unwinder = "ready"
  /\ UnwinderReady /\ TraceSucceeds

LEMMA UnwinderInit == FramehopInit => UnwinderInv
BY ProfilerAssumption
DEF FramehopInit, Init, UnwinderInv, UnwinderReady, TraceSucceeds, NoHandler, Frame,
    Originals

LEMMA InitStepUnwinder ==
  ASSUME TypeOK, UnwinderInv, NEW t \in Threads, InitStep(t)
  PROVE  UnwinderInv'
<1>0. /\ UNCHANGED <<pc, handler, sigaction, old_sigaction, trace>>
      /\ unwinder = "ready" => unwinder' = "ready"
  BY DEF InitStep, ForceUnwinder, UnwinderForced, ReadUnwinder, LeaveUnwinder,
         vars, kernel, profiler
<1>1. CASE ForceUnwinder(t)
  BY <1>0, <1>1
  DEF ForceUnwinder, Initialising, UnwinderInv, UnwinderReady, TraceSucceeds
<1>2. CASE UnwinderForced(t)
  BY <1>0, <1>2 DEF UnwinderForced, UnwinderInv, UnwinderReady, TraceSucceeds
<1>3. CASE ReadUnwinder(t)
  BY <1>0, <1>3
  DEF ReadUnwinder, Initialising, UnwinderInv, UnwinderReady, TraceSucceeds
<1>4. CASE LeaveUnwinder(t)
  BY <1>0, <1>4 DEF LeaveUnwinder, UnwinderInv, UnwinderReady, TraceSucceeds
<1> QED
  BY <1>1, <1>2, <1>3, <1>4 DEF InitStep

\* What a step of a thread can change that the unwinder depends on.
LEMMA AppChanges ==
  ASSUME TypeOK, NEW t \in Threads, AppStep(t)
  PROVE  /\ handler' = handler /\ handler[t].at = "none"
         /\ \A u \in Threads : u # t => pc'[u] = pc[u]
         /\ pc'[t] = "locking" => pc[t] = "initialising"
         /\ sigaction' = "perf" \/ old_sigaction' = "perf" =>
              pc[t] = "locking" \/ sigaction = "perf" \/ old_sigaction = "perf"
<1> USE DEF Goto, TypeOK, profiler, kernel, history
<1>1. handler[t].at = "none"
  BY DEF AppStep
<1>2. ASSUME Starting(t)
      PROVE  /\ handler' = handler
             /\ \A u \in Threads : u # t => pc'[u] = pc[u]
             /\ pc'[t] = "locking" => pc[t] = "initialising"
             /\ sigaction' = "perf" \/ old_sigaction' = "perf" =>
                  pc[t] = "locking" \/ sigaction = "perf" \/ old_sigaction = "perf"
  BY <1>2 DEF Starting, BuildBegin, Captured, TriggerLazy, LazyDone, BuildFailed,
              BuildRefused, BuildUnregistered, BuildStart, MayStart, BuildArm,
              BuildPanic
<1>3. ASSUME Stopping(t) \/ ReportingStep(t) \/ LibStep(t)
      PROVE  /\ handler' = handler
             /\ \A u \in Threads : u # t => pc'[u] = pc[u]
             /\ pc'[t] # "locking"
             /\ sigaction' = "perf" \/ old_sigaction' = "perf" =>
                  sigaction = "perf" \/ old_sigaction = "perf"
  BY <1>3 DEF Stopping, ReportingStep, LibStep, DropBegin, TimerDropped,
              StopUnregister, StopUnrestored, StopInit, ProfilerInit, ReportBegin,
              ReadLock, WriteLock, ReportDone, EnterLib, LeaveLib
<1> QED
  BY <1>1, <1>2, <1>3 DEF AppStep

LEMMA AppUnwinder ==
  ASSUME TypeOK, UnwinderInv, NEW t \in Threads, FramehopAppStep(t)
  PROVE  UnwinderInv'
<1>1. /\ handler' = handler /\ handler[t].at = "none"
      /\ \A u \in Threads : u # t => pc'[u] = pc[u]
      /\ pc'[t] = "locking" => pc[t] = "initialising"
      /\ sigaction' = "perf" \/ old_sigaction' = "perf" =>
           pc[t] = "locking" \/ sigaction = "perf" \/ old_sigaction = "perf"
  BY AppChanges DEF FramehopAppStep
<1>2. /\ pc[t] = "initialising" => init[t] = "done"
      /\ init' = [init EXCEPT ![t] = "none"]
      /\ UNCHANGED <<unwinder, trace>>
  BY DEF FramehopAppStep, Initialised
<1> QED
  BY <1>1, <1>2 DEF UnwinderInv, UnwinderReady, TraceSucceeds

\* Nobody has the unwinder's lock when a handler that holds the profiler's asks.
LEMMA TraceUnwinderStep ==
  ASSUME TypeOK, Locking, UnwinderInv, NEW t \in Threads, TraceUnwinder(t)
  PROVE  UnwinderInv'
<1>1. /\ handler[t].at = "unwinding" /\ trace[t] = "none" /\ unwinder = "ready"
      /\ UNCHANGED <<pc, handler, sigaction, old_sigaction, unwinder, init>>
  BY DEF TraceUnwinder, UnwinderInv, vars, kernel, profiler
<1>2. UnwinderReaders = {}
  BY <1>1, Exclusion DEF UnwinderReaders, UnwinderInv
<1>3. UnwinderWriters = {}
  BY <1>1, Exclusion DEF UnwinderWriters, UnwinderInv
<1>4. trace' = [trace EXCEPT ![t] = "locked"]
  BY <1>1, <1>2, <1>3 DEF TraceUnwinder
<1> QED
  BY <1>1, <1>4 DEF UnwinderInv, UnwinderReady, TraceSucceeds

LEMMA HandlerUnwinder ==
  ASSUME TypeOK, UnwinderInv, NEW t \in Threads, FramehopHandlerStep(t)
  PROVE  UnwinderInv'
<1>1. /\ UNCHANGED <<pc, sigaction, old_sigaction, unwinder, init>>
      /\ trace' = [trace EXCEPT ![t] = "none"]
      /\ handler[t].at # "none"
      /\ \A u \in Threads : u # t => handler'[u] = handler[u]
  BY DEF FramehopHandlerStep, HandlerStep, HandlerBusy, HandlerBlocked, HandlerLock,
         HandlerSample, profiler, kernel, TypeOK
<1> QED
  BY <1>1 DEF UnwinderInv, UnwinderReady, TraceSucceeds

LEMMA SignalUnwinder ==
  ASSUME TypeOK, UnwinderInv, Signal, UNCHANGED framehop
  PROVE  UnwinderInv'
<1>1. UNCHANGED <<pc, sigaction, old_sigaction, unwinder, init, trace>>
  BY DEF Signal, Tick, DeliverLate, Deliver, profiler, framehop
<1>2. CASE UNCHANGED handler
  BY <1>1, <1>2 DEF UnwinderInv, UnwinderReady, TraceSucceeds
<1>3. ASSUME NEW t \in Threads, Deliver(t)
      PROVE  UnwinderInv'
  <2>1. /\ sigaction = "perf" /\ handler[t].at = "none"
        /\ \A u \in Threads : u # t => handler'[u] = handler[u]
    BY <1>3 DEF Deliver, TypeOK
  <2> QED
    BY <1>1, <2>1 DEF UnwinderInv, UnwinderReady, TraceSucceeds
<1> QED
  BY <1>2, <1>3 DEF Signal, Tick, DeliverLate

LEMMA UnwinderStep ==
  ASSUME TypeOK, Locking, UnwinderInv, [FramehopNext]_framehopVars
  PROVE  UnwinderInv'
<1>1. CASE UNCHANGED framehopVars
  BY <1>1 DEF framehopVars, framehop, vars, kernel, profiler, UnwinderInv,
              UnwinderReady, TraceSucceeds
<1> QED
  BY <1>1, InitStepUnwinder, AppUnwinder, TraceUnwinderStep, HandlerUnwinder,
     SignalUnwinder
  DEF FramehopNext, Ended, framehopVars

LEMMA UnwinderInvariant == FramehopSpec => []UnwinderInv
<1>1. Spec => [](TypeOK /\ Locking)
  BY OwnInvariant, PTL
<1>2. TypeOK /\ Locking /\ UnwinderInv /\ [FramehopNext]_framehopVars => UnwinderInv'
  BY UnwinderStep
<1> QED
  BY <1>1, <1>2, FramehopIsProfiler, UnwinderInit, PTL DEF FramehopSpec

\* Whatever fails, no handler makes the unwinder.
THEOREM Ready == FramehopSpec => []UnwinderReady
<1>1. UnwinderInv => UnwinderReady
  BY DEF UnwinderInv
<1> QED
  BY <1>1, UnwinderInvariant, PTL

\* Whatever fails, and whatever threads build meanwhile, no handler finds the
\* unwinder's lock taken.
THEOREM NeverEmpty == FramehopSpec => []TraceSucceeds
<1>1. UnwinderInv => TraceSucceeds
  BY DEF UnwinderInv
<1> QED
  BY <1>1, UnwinderInvariant, PTL

-----------------------------------------------------------------------------
(* Sampling: a profiler that also collects                                  *)

LEMMA SamplingStep == [SamplingNext]_samplingVars => [Next]_vars
BY DEF SamplingNext, samplingVars, Sample, Other, Reinit, Next, AppStep, Stopping,
       HandlerStep, Ended

\* With its collector the profiler behaves as without: whatever is proved of
\* Profiler holds of it.
THEOREM SamplingIsProfiler == SamplingSpec => Spec
<1>1. SamplingInit => Init
  BY DEF SamplingInit
<1> QED
  BY <1>1, SamplingStep, PTL DEF SamplingSpec, Spec

-----------------------------------------------------------------------------
(* A collector: C, the one of Sampling, is CP, the one with the proofs.     *)

LEMMA SamePush ==
  ASSUME NEW entry, C!Push(entry)
  PROVE  CP!Push(entry)
BY Zenon
DEF C!Push, CP!Push, C!PushStored, CP!PushStored, C!PushFlushed, CP!PushFlushed,
    C!PushFailed, CP!PushFailed, C!Written, CP!Written

LEMMA SameEvict ==
  ASSUME NEW k, NEW b, NEW s, C!Evict(k, b, s)
  PROVE  CP!Evict(k, b, s)
<1>1. ~CP!Holds(map[b], k) /\ ~CP!HasRoom(map[b])
  BY DEF C!Evict, C!Holds, CP!Holds, C!HasRoom, CP!HasRoom
<1>2. PICK i \in DOMAIN map[b] :
        /\ C!FirstMinimum(map[b], i)
        /\ map' = [map EXCEPT ![b][i] = C!Fresh(k, s)]
        /\ C!Push(map[b][i])
  BY Zenon DEF C!Evict
<1>3. CP!FirstMinimum(map[b], i)
  BY <1>2, Zenon
  DEF C!FirstMinimum, CP!FirstMinimum, C!Count, CP!Count, C!Cardinality, CP!Cardinality
<1>4. map' = [map EXCEPT ![b][i] = CP!Fresh(k, s)]
  BY <1>2, Zenon DEF C!Fresh, CP!Fresh
<1>5. CP!Push(map[b][i])
  BY <1>2, SamePush, Zenon
<1> QED
  BY <1>1, <1>2, <1>3, <1>4, <1>5, Zenon DEF CP!Evict

LEMMA SameAdd ==
  ASSUME NEW k, C!Add(k)
  PROVE  CP!Add(k)
<1>1. ASSUME NEW b, NEW s, C!Hit(k, b, s)
      PROVE  CP!Hit(k, b, s)
  BY <1>1, Zenon
  DEF C!Hit, CP!Hit, C!Holds, CP!Holds, C!Counting, CP!Counting, C!temp_array,
      CP!temp_array
<1>2. ASSUME NEW b, NEW s, C!Insert(k, b, s)
      PROVE  CP!Insert(k, b, s)
  BY <1>2, Zenon
  DEF C!Insert, CP!Insert, C!Holds, CP!Holds, C!HasRoom, CP!HasRoom, C!Fresh,
      CP!Fresh, C!temp_array, CP!temp_array
<1> QED
  BY <1>1, <1>2, SameEvict, Zenon DEF C!Add, CP!Add

LEMMA SameState ==
  /\ C!Readable <=> CP!Readable
  /\ C!Slots = CP!Slots
  /\ \A x : C!Slot(x) = CP!Slot(x)
  /\ C!Archive = CP!Archive
BY DEF C!Readable, CP!Readable, C!Slots, CP!Slots, C!Archive, CP!Archive, C!Archived,
       CP!Archived, C!Slot, CP!Slot

LEMMA SameInit == C!Init => CP!Init
BY DEF C!Init, CP!Init, C!Default, CP!Default

LEMMA NewInit == CollectorNew => CP!Init' /\ recorded' = <<>>
BY DEF CollectorNew, CP!Init, C!Default, CP!Default

-----------------------------------------------------------------------------
(* The samples recorded                                                     *)

\* The collector's numbers are places in recorded, whose samples are the profiler's
\* data.  A stopped profiler has one of each thread at most.
RecordInv ==
  /\ CP!ExactlyInv /\ CP!Few
  /\ recorded \in Seq(Samples) /\ Len(recorded) = Len(log)
  /\ data = {recorded[s] : s \in 1..Len(recorded)}
  /\ ~running =>
       \A i, j \in 1..Len(recorded) : recorded[i].by = recorded[j].by => i = j

LEMMA RecordInit == SamplingInit => RecordInv
<1> SUFFICES ASSUME SamplingInit
             PROVE  RecordInv
  OBVIOUS
<1>1. CP!Init
  BY SameInit DEF SamplingInit
<1>2. CP!ExactlyInv /\ CP!Few /\ log = <<>>
  BY <1>1, SamplingAssumption, CP!ExactlyInit, CP!FewInit DEF CP!Init
<1>3. recorded = <<>> /\ data = {}
  BY DEF SamplingInit, Init
<1> QED
  BY <1>2, <1>3 DEF RecordInv

LEMMA CollectorStep ==
  ASSUME CP!ExactlyInv, CP!Few, [CP!Next]_(CP!vars)
  PROVE  CP!ExactlyInv' /\ CP!Few'
<1>1. CP!TypeOK
  BY DEF CP!ExactlyInv
<1> QED
  BY <1>1, SamplingAssumption, CP!ExactlyStep, CP!FewStep

LEMMA CollectorReset == (CP!Init => CP!ExactlyInv /\ CP!Few /\ log = <<>>)'
<1>1. CP!Init => CP!ExactlyInv /\ CP!Few /\ log = <<>>
  BY SamplingAssumption, CP!ExactlyInit, CP!FewInit DEF CP!Init
<1> QED
  BY <1>1, PTL

\* A step that records nothing and does not stop the profiler.
LEMMA RecordKept ==
  ASSUME RecordInv, UNCHANGED <<collector, recorded, data>>, ~running' => ~running
  PROVE  RecordInv'
<1>1. UNCHANGED CP!vars
  BY DEF collector, CP!vars, CP!temp_array
<1>2. log' = log
  BY DEF collector
<1> QED
  BY <1>1, <1>2, CollectorStep DEF RecordInv

LEMMA RecordSample ==
  ASSUME TypeOK, Aging, RecordInv, NEW t \in Threads, Sample(t)
  PROVE  RecordInv'
<1>1. PICK x : x = [id |-> handler[t].id, by |-> t, born |-> handler[t].born]
  OBVIOUS
<1>2. /\ recorded' = Append(recorded, x) /\ data' = data \cup {x}
      /\ running' = running /\ handler[t].at # "none"
  BY <1>1 DEF Sample, HandlerSample
<1>3. x \in Samples
  BY <1>1 DEF TypeOK, Samples
<1>4. PICK k \in Keys : CP!Add(k)
  BY SameAdd DEF Sample
<1>5. CP!ExactlyInv' /\ CP!Few'
  BY <1>4, CollectorStep DEF RecordInv, CP!Next
<1>6. Len(log') = Len(log) + 1
  BY <1>4 DEF CP!Add, RecordInv, CP!ExactlyInv, CP!TypeOK
<1>7. /\ recorded' \in Seq(Samples) /\ Len(recorded') = Len(recorded) + 1
      /\ \A i \in 1..Len(recorded) : recorded'[i] = recorded[i]
      /\ recorded'[Len(recorded) + 1] = x /\ Len(recorded) \in Nat
  BY <1>2, <1>3, AppendProperties DEF RecordInv
<1>8. 1..(Len(recorded) + 1) = 1..Len(recorded) \cup {Len(recorded) + 1}
  BY <1>7
<1>9. data' = {recorded'[s] : s \in 1..Len(recorded')}
  BY <1>2, <1>7, <1>8 DEF RecordInv
<1>10. ASSUME ~running', NEW i \in 1..Len(recorded'), NEW j \in 1..Len(recorded'),
              recorded'[i].by = recorded'[j].by
       PROVE  i = j
  <2>1. \A y \in data : y.by # t
    BY <1>2, <1>10 DEF Aging, Stale
  <2>2. \A s \in 1..Len(recorded) : recorded[s].by # x.by
    BY <1>1, <2>1 DEF RecordInv
  <2> QED
    BY <1>2, <1>7, <1>8, <1>10, <2>2 DEF RecordInv
<1> QED
  BY <1>5, <1>6, <1>7, <1>9, <1>10 DEF RecordInv

LEMMA RecordReset ==
  ASSUME OwnInv, RecordInv, NEW t \in Threads, Reinit(t)
  PROVE  RecordInv'
<1>1. CASE running'
  <2>1. UNCHANGED <<collector, recorded, data>>
    BY <1>1 DEF Reinit, StopInit, ProfilerInit
  <2> QED
    BY <1>1, <2>1, RecordKept
<1>2. CASE ~running'
  <2>1. running
    BY DEF Reinit, StopInit, OwnInv, OneOwner, Owners
  <2>2. data' = {} /\ CollectorNew
    BY <1>2, <2>1 DEF Reinit, StopInit, ProfilerInit
  <2> QED
    BY <2>2, NewInit, CollectorReset DEF RecordInv
<1> QED
  BY <1>1, <1>2

\* A step that is neither of the two.
LEMMA OtherSteps ==
  ASSUME [SamplingNext]_samplingVars, \A t \in Threads : ~Sample(t) /\ ~Reinit(t)
  PROVE  /\ UNCHANGED <<collector, recorded, data>>
         /\ ~running' => ~running
BY DEF SamplingNext, samplingVars, Other, Starting, ReportingStep, LibStep, Signal,
       Ended, BuildBegin, Captured, TriggerLazy, LazyDone, BuildFailed, BuildRefused,
       BuildUnregistered, BuildStart, MayStart, BuildArm, BuildPanic, DropBegin,
       TimerDropped, StopUnregister, StopUnrestored, ReportBegin, ReadLock,
       WriteLock, ReportDone, EnterLib, LeaveLib, HandlerBusy, HandlerBlocked,
       Blocklisted, HandlerLock, Tick, DeliverLate, Deliver, profiler, vars

LEMMA RecordStep ==
  TypeOK /\ OwnInv /\ Aging /\ RecordInv /\ [SamplingNext]_samplingVars => RecordInv'
BY RecordKept, RecordSample, RecordReset, OtherSteps

LEMMA SamplingInvariant ==
  SamplingSpec => [](TypeOK /\ Locking /\ OwnInv /\ Aging /\ RecordInv)
<1>1. SamplingInit => Aging
  BY DEF SamplingInit, Init, Aging, NoHandler, Frame
<1>2. /\ TypeOK /\ Locking /\ OwnInv /\ Aging /\ [SamplingNext]_samplingVars => Aging'
  BY AgingStep, SamplingStep
<1> QED
  BY <1>1, <1>2, SamplingIsProfiler, OwnInvariant, RecordInit, RecordStep, PTL
  DEF SamplingSpec

-----------------------------------------------------------------------------
(* Reports                                                                  *)

LEMMA FoundData == RecordInv /\ C!Readable => Found = data
<1> SUFFICES ASSUME RecordInv, C!Readable
             PROVE  Found = data
  OBVIOUS
<1>1. /\ \A x \in C!Slots : C!Slot(x).samples \subseteq 1..Len(log)
      /\ \A i \in DOMAIN C!Archive : C!Archive[i].samples \subseteq 1..Len(log)
      /\ \A s \in 1..Len(log) :
           \/ \E x \in C!Slots : s \in C!Slot(x).samples
           \/ \E i \in DOMAIN C!Archive : s \in C!Archive[i].samples
  BY SameState
  DEF RecordInv, CP!ExactlyInv, CP!ExactlyOnce, CP!CountsOwn, CP!CountsAll, CP!Sound
<1>2. UNION {e.samples : e \in Entries} = 1..Len(recorded)
  BY <1>1 DEF Entries, RecordInv
<1> QED
  BY <1>2 DEF Found, RecordInv

\* Whatever fails and however late its handlers are, a report that can read the
\* collector finds what was recorded since it was made, all of it and nothing else.
THEOREM Whole == SamplingSpec => []ReportsWhole
<1>1. RecordInv => ReportsWhole
  BY FoundData DEF ReportsWhole
<1> QED
  BY <1>1, SamplingInvariant, PTL

-----------------------------------------------------------------------------
(* The profiler and its collector implement Sessions                        *)

\* The late samples of a stopped profiler, one of each thread, fit in the buffer.
FewThreads == IsFiniteSet(Threads) /\ Cardinality(Threads) <= BUFFER_LENGTH + 1

LEMMA StoppedReadable ==
  ASSUME FewThreads, RecordInv, ~running
  PROVE  C!Readable
<1> DEFINE n == Len(recorded)
           f == [s \in 1..n |-> recorded[s].by]
<1>1. n \in Nat /\ \A s \in 1..n : recorded[s].by \in Threads
  <2>1. n \in Nat /\ \A s \in 1..n : recorded[s] \in Samples
    BY LenProperties, ElementOfSeq DEF RecordInv
  <2>2. \A x \in Samples : x.by \in Threads
    BY DEF Samples
  <2> QED
    BY <2>1, <2>2
<1>2. f \in Injection(1..n, Threads)
  BY <1>1 DEF RecordInv, Injection, IsInjective
<1>3. Cardinality(1..n) <= Cardinality(Threads)
  BY <1>2, FS_Injection DEF FewThreads
<1>4. Cardinality(1..n) = n
  <2> HIDE DEF n
  <2> QED
    BY <1>1, FS_Interval
<1>5. Len(log) <= BUFFER_LENGTH + 1
  <2>1. Cardinality(Threads) \in Nat /\ BUFFER_LENGTH \in Nat
    BY FS_CardinalityType, SamplingAssumption DEF FewThreads
  <2>2. n <= BUFFER_LENGTH + 1
    BY <1>1, <1>3, <1>4, <2>1 DEF FewThreads
  <2> QED
    BY <2>2 DEF RecordInv
<1>6. CP!Readable
  BY <1>5, SamplingAssumption, CP!FewReadable DEF RecordInv, CP!ExactlyInv
<1> QED
  BY <1>6, SameState

\* What a step does to the owner of the session.
Began(t) ==
  ~running /\ running' = TRUE /\ Owners' = {t} /\ session' = session + 1
Abandoned ==
  /\ running /\ Owners # {} /\ Owners' = {}
  /\ UNCHANGED <<running, session>>

LEMMA OnlyOwner ==
  ASSUME TypeOK, OwnInv, NEW t \in Threads, pc[t] \in {"arm", "stopping", "reinit"}
  PROVE  /\ Owners = {t} /\ guards = {} /\ running
         /\ \A u \in Threads : u # t => pc[u] \notin {"arm", "stopping", "reinit"}
BY DEF OwnInv, OneOwner, Owners, Owning, TypeOK

LEMMA OwnersStart ==
  ASSUME TypeOK, OwnInv, NEW t \in Threads, Starting(t)
  PROVE  \/ UNCHANGED <<running, session, Owners>>
         \/ Began(t) \/ Abandoned
<1> USE DEF Goto, TypeOK, profiler, history
<1>1. CASE BuildBegin(t) \/ Captured(t) \/ TriggerLazy(t) \/ LazyDone(t)
  BY <1>1 DEF BuildBegin, Captured, TriggerLazy, LazyDone, Owners
<1>2. CASE BuildFailed(t) \/ BuildRefused(t) \/ BuildUnregistered(t)
  BY <1>2 DEF BuildFailed, BuildRefused, BuildUnregistered, MayStart, Owners
<1>3. CASE BuildStart(t)
  <2>1. /\ ~running /\ running' = TRUE /\ session' = session + 1
        /\ guards' = guards /\ pc' = [pc EXCEPT ![t] = "arm"]
    BY <1>3 DEF BuildStart, MayStart
  <2>2. Owners = {}
    BY <2>1 DEF OwnInv, OneOwner
  <2>3. Owners' = {t}
    BY <2>1, <2>2 DEF Owners
  <2> QED
    BY <2>1, <2>3 DEF Began
<1>4. CASE BuildArm(t)
  BY <1>4 DEF BuildArm, Owners
<1>5. CASE BuildPanic(t)
  <2>1. /\ pc[t] = "arm" /\ pc' = [pc EXCEPT ![t] = "idle"]
        /\ UNCHANGED <<guards, running, session>>
    BY <1>5 DEF BuildPanic
  <2> QED
    BY <2>1, OnlyOwner DEF Abandoned, Owners
<1> QED
  BY <1>1, <1>2, <1>3, <1>4, <1>5 DEF Starting

LEMMA OwnersStop ==
  ASSUME TypeOK, OwnInv, NEW t \in Threads,
         DropBegin(t) \/ StopUnregister(t) \/ StopUnrestored(t)
  PROVE  UNCHANGED <<running, session, Owners>> \/ Abandoned
<1> USE DEF Goto, TypeOK, profiler, history
<1>1. CASE DropBegin(t)
  BY <1>1 DEF DropBegin, TimerDropped, Owners
<1>2. CASE StopUnregister(t)
  BY <1>2 DEF StopUnregister, Owners
<1>3. CASE StopUnrestored(t)
  <2>1. /\ pc[t] = "stopping" /\ pc' = [pc EXCEPT ![t] = "idle"]
        /\ UNCHANGED <<guards, running, session>>
    BY <1>3 DEF StopUnrestored
  <2> QED
    BY <2>1, OnlyOwner DEF Abandoned, Owners
<1> QED
  BY <1>1, <1>2, <1>3

LEMMA OwnersKept ==
  ASSUME TypeOK, NEW t \in Threads,
         ReportingStep(t) \/ LibStep(t) \/ HandlerStep(t)
  PROVE  UNCHANGED <<running, session, Owners>>
BY DEF ReportingStep, ReportBegin, ReadLock, WriteLock, ReportDone, LibStep, EnterLib,
       LeaveLib, HandlerStep, HandlerBusy, HandlerBlocked, Blocklisted, HandlerLock,
       HandlerSample, Goto, Owners, TypeOK, profiler, history

LEMMA OwnersSignal == Signal => UNCHANGED <<running, session, Owners>>
BY DEF Signal, Tick, DeliverLate, Deliver, Owners, profiler, history

\* A step that neither records nor stops.
LEMMA OwnersOther ==
  ASSUME TypeOK, OwnInv, [SamplingNext]_samplingVars,
         \A t \in Threads : ~Sample(t) /\ ~Reinit(t)
  PROVE  \/ UNCHANGED <<running, session, Owners>>
         \/ \E t \in Threads : Began(t)
         \/ Abandoned
<1>1. CASE UNCHANGED vars
  BY <1>1 DEF vars, profiler, history, Owners
<1> QED
  BY <1>1, OwnersStart, OwnersStop, OwnersKept, OwnersSignal
  DEF SamplingNext, samplingVars, Other, HandlerStep, Ended

\* What the service shows of the samples: all of them, until one is lost.
shown == IF C!Readable THEN Found ELSE {}

LEMMA ShownData == RecordInv => shown = IF C!Readable THEN data ELSE {}
BY FoundData DEF shown

LEMMA ShownNext == (RecordInv => shown = IF C!Readable THEN data ELSE {})'
BY ShownData, PTL

LEMMA ReadableKept == UNCHANGED collector => C!Readable' = C!Readable
BY DEF collector, C!Readable, C!Archived

LEMMA OtherServes ==
  ASSUME FewThreads, TypeOK, OwnInv, RecordInv, RecordInv',
         [SamplingNext]_samplingVars, \A t \in Threads : ~Sample(t) /\ ~Reinit(t)
  PROVE  [Service!Next]_(Service!vars)
<1>1. shown' = shown /\ C!Readable' = C!Readable
  BY OtherSteps, ShownData, ShownNext, ReadableKept
<1>2. CASE UNCHANGED <<running, session, Owners>>
  BY <1>1, <1>2 DEF Service!vars, shown
<1>3. ASSUME NEW t \in Threads, Began(t)
      PROVE  Service!Start(t)
  BY <1>1, <1>3, StoppedReadable DEF Began, Service!Start, shown
<1>4. CASE Abandoned
  BY <1>1, <1>4 DEF Abandoned, Service!Next, Service!Abandon, shown
<1> QED
  BY <1>2, <1>3, <1>4, OwnersOther DEF Service!Next

LEMMA StopServes ==
  ASSUME TypeOK, OwnInv, RecordInv, RecordInv', NEW t \in Threads, Reinit(t)
  PROVE  Service!Next
<1>1. /\ pc[t] = "reinit" /\ pc' = [pc EXCEPT ![t] = "idle"]
      /\ UNCHANGED <<guards, session>>
  BY DEF Reinit, StopInit, Goto, history
<1>2. Owners = {t} /\ Owners' = {} /\ running
  BY <1>1, OnlyOwner DEF Owners, TypeOK
<1>3. CASE running'
  <2>1. UNCHANGED <<collector, recorded, data, running>>
    BY <1>2, <1>3 DEF Reinit, StopInit, ProfilerInit
  <2>2. shown' = shown /\ C!Readable' = C!Readable
    BY <2>1, ShownData, ShownNext, ReadableKept
  <2> QED
    BY <1>1, <1>2, <2>1, <2>2 DEF Service!Next, Service!Abandon, shown
<1>4. CASE ~running'
  <2>1. data' = {} /\ running' = FALSE /\ CollectorNew
    BY <1>2, <1>4 DEF Reinit, StopInit, ProfilerInit
  <2>2. C!Readable'
    BY <2>1, SamplingAssumption DEF CollectorNew, C!Readable, C!Archived
  <2>3. shown' = {}
    BY <2>1, ShownNext
  <2> QED
    BY <1>1, <1>2, <2>1, <2>2, <2>3 DEF Service!Next, Service!Stop, shown
<1> QED
  BY <1>3, <1>4

LEMMA SampleServes ==
  ASSUME TypeOK, Aging, RecordInv, RecordInv', NEW t \in Threads, Sample(t)
  PROVE  [Service!Next]_(Service!vars)
<1>1. UNCHANGED <<running, session, Owners>>
  BY OwnersKept DEF Sample, HandlerStep
<1>2. PICK x : x = [id |-> handler[t].id, by |-> t, born |-> handler[t].born]
  OBVIOUS
<1>3. data' = data \cup {x} /\ handler[t].at # "none"
  BY <1>2 DEF Sample, HandlerSample
<1>4. CASE ~C!Readable
  <2>1. PICK k \in Keys : CP!Add(k)
    BY SameAdd DEF Sample
  <2>2. ~CP!Readable'
    BY <1>4, <2>1, SameState, SamplingAssumption, CP!ShortStep
    DEF RecordInv, CP!ExactlyInv, CP!Next
  <2>3. ~C!Readable'
    BY <2>2 DEF C!Readable, CP!Readable, C!Archived, CP!Archived
  <2>4. shown' = shown
    BY <1>4, <2>3, ShownData, ShownNext
  <2>5. C!Readable' = C!Readable
    BY <1>4, <2>3 DEF C!Readable
  <2> QED
    BY <1>1, <2>4, <2>5 DEF Service!vars, shown
<1>5. CASE C!Readable /\ ~C!Readable'
  <2>1. shown' = {}
    BY <1>5, ShownNext
  <2> QED
    BY <1>1, <1>5, <2>1 DEF Service!Next, Service!Lose, shown
<1>6. CASE C!Readable /\ C!Readable'
  <2>1. shown = data /\ shown' = data \cup {x}
    BY <1>3, <1>6, ShownData, ShownNext
  <2>2. CASE x \in data
    BY <1>1, <1>6, <2>1, <2>2 DEF Service!vars, shown
  <2>3. CASE x \notin data
    <3>1. x.by = t /\ x.born = handler[t].born /\ x.born <= session
      BY <1>2, <1>3 DEF Aging
    <3>2. ~running => \A y \in data : y.by # x.by
      BY <1>3, <3>1 DEF Aging, Stale
    <3>3. x.born < session => \A y \in data : y.by = x.by => y.born = session
      <4>1. x.born < session => x.born # session
        BY <3>1 DEF TypeOK
      <4> QED
        BY <1>3, <3>1, <4>1 DEF Aging, Stale
    <3> QED
      BY <1>1, <1>6, <2>1, <2>3, <3>1, <3>2, <3>3
      DEF Service!Next, Service!Record, Service!InTime, shown
  <2> QED
    BY <2>2, <2>3
<1> QED
  BY <1>4, <1>5, <1>6

\* Whatever fails, whoever builds, stops and samples when: the profiler with its
\* collector has sessions of one owner, with the samples of each, all of them until
\* one is lost, and late ones in time.  A session begins with a readable collector
\* because the late samples of FewThreads threads cannot reach its file.
THEOREM Keeps ==
  ASSUME FewThreads
  PROVE  SamplingSpec => KeepsSessions
<1>1. SamplingInit => Service!Init
  <2>1. SamplingInit => data = {} /\ ~running /\ Owners = {} /\ session = 0
    BY DEF SamplingInit, Init, Owners
  <2>2. SamplingInit => C!Readable
    BY RecordInit, StoppedReadable, <2>1
  <2> QED
    BY <2>1, <2>2, RecordInit, ShownData DEF Service!Init, shown, SamplingInit, Init
<1>2. /\ TypeOK /\ OwnInv /\ Aging /\ RecordInv /\ RecordInv'
      /\ [SamplingNext]_samplingVars
      => [Service!Next]_(Service!vars)
  BY OtherServes, StopServes, SampleServes
<1> QED
  BY <1>1, <1>2, SamplingInvariant, PTL DEF SamplingSpec, KeepsSessions, Service!Spec
=============================================================================
