------------------------------ MODULE Sampling ------------------------------
(***************************************************************************)
(* The profiler with its collector: Profiler composed with Collector.  The *)
(* handler's sample goes through Collector::add, the end of a session      *)
(* replaces the collector with a new one, and a report reads it.  Together *)
(* they keep what Sessions promises.                                       *)
(*                                                                         *)
(* Profiler's data are the samples recorded since the collector was made;  *)
(* the collector numbers them in that order.                               *)
(***************************************************************************)
EXTENDS Profiler, Sequences

CONSTANTS Keys, NoKey, Buckets, Hash, BUCKETS_ASSOCIATIVITY, BUFFER_LENGTH,
          WritesMayFail, MaxSamples

VARIABLES
  map, buffer, buffer_index, file, flush_n, log,  \* the collector
  recorded  \* history: the samples it was given, in order

collector == <<map, buffer, buffer_index, file, flush_n, log>>
samplingVars == <<vars, collector, recorded>>

C == INSTANCE Collector

ASSUME SamplingAssumption == C!CollectorAssumption

SamplingInit == Init /\ C!Init /\ recorded = <<>>

\* Mutant: the samples of a session stay in the collector.
CollectorKept == UNCHANGED <<collector, recorded>>
\* Collector::new, in Profiler::init.
CollectorNew ==
  /\ map' = [b \in Buckets |-> <<>>]
  /\ buffer' = [i \in 1..BUFFER_LENGTH |-> C!Default] /\ buffer_index' = 0
  /\ file' = <<>> /\ flush_n' = 0
  /\ log' = <<>> /\ recorded' = <<>>

\* Profiler::sample: what becomes of the sample is not asked.
Sample(t) ==
  /\ HandlerSample(t)
  /\ recorded' = Append(recorded, [id |-> handler[t].id, by |-> t, born |-> handler[t].born])
  /\ \E k \in Keys : C!Add(k)

\* Profiler::init fails when the new collector's file cannot be made: the old one
\* stays, and the profiler stays running.
Reinit(t) ==
  /\ StopInit(t)
  /\ IF running' THEN UNCHANGED <<collector, recorded>> ELSE CollectorNew

\* Every other step leaves the collector alone, reports included.
Other(t) ==
  /\ \/ /\ handler[t].at = "none"
        /\ \/ Starting(t) \/ ReportingStep(t) \/ LibStep(t)
           \/ DropBegin(t) \/ StopUnregister(t) \/ StopUnrestored(t)
     \/ HandlerBusy(t) \/ HandlerBlocked(t) \/ HandlerLock(t)
  /\ UNCHANGED <<collector, recorded>>

SamplingNext ==
  \/ /\ alive
     /\ \E t \in Threads :
          \/ Sample(t) \/ Other(t)
          \/ handler[t].at = "none" /\ Reinit(t)
  \/ alive /\ Signal /\ UNCHANGED <<collector, recorded>>
  \/ Ended /\ UNCHANGED <<collector, recorded>>

SamplingSpec == SamplingInit /\ [][SamplingNext]_samplingVars

-----------------------------------------------------------------------------
(* Properties                                                               *)

\* The samples that a report finds in the collector, and how many it counts.
Entries ==
  {C!Slot(x) : x \in C!Slots} \cup {C!Archive[i] : i \in DOMAIN C!Archive}
Found == {recorded[s] : s \in UNION {e.samples : e \in Entries}}

\* A report is complete: it can read the samples recorded since the session began, and
\* nothing of former sessions but late samples, or it fails.
ReportsWhole ==
  (\E t \in Threads : pc[t] \in {"reading", "writing"}) /\ C!Readable => Found = data

Service == INSTANCE Sessions WITH
  on <- running,
  owner <- Owners,
  number <- session,
  samples <- IF C!Readable THEN Found ELSE {},
  readable <- C!Readable

\* Profiler and Collector keep the promise of Sessions, whatever fails.
KeepsSessions == Service!Spec
=============================================================================
