--------------------------- MODULE CriterionProofs ---------------------------
(***************************************************************************)
(* Criterion, for any benchmarks, outputs and other threads: where the     *)
(* guard is, and whose profile each file holds.                            *)
(***************************************************************************)
EXTENDS Criterion, TLAPS

Running == {"profiling", "create", "take", "build", "write", "drop"}

-----------------------------------------------------------------------------
(* The guard                                                                *)

\* Wherever the harness is, exactly one place has the guard of its session, or there
\* is neither; and nobody else starts a session under it.
Holding ==
  /\ benchmark \in Benchmarks
  /\ owner = {} \/ \E t \in Threads : owner = {t}
  /\ owner # {} => on
  /\ on /\ owner = {} => abandoned
  /\ at \in Running \cup {"idle", "starting", "panicking", "over"}
  /\ at \in {"idle", "starting", "over"} => ~taken /\ ~active_profiler
  /\ at \in {"profiling", "create", "take"} => ~taken /\ active_profiler
  /\ at \in {"build", "write", "drop"} => taken /\ ~active_profiler
  /\ at = "starting" => owner = {Harness}
  /\ at = "panicking" /\ (taken \/ active_profiler) => owner = {Harness}
  /\ at = "panicking" /\ ~(taken \/ active_profiler) => Harness \notin owner
  /\ ProfiledBetween

\* What other threads leave alone.
benchmarking == <<fields, active_profiler, taken, at, benchmark, profile, files, last>>

\* Losing and recording samples, and other threads, leave the harness its session.
LEMMA ElsewhereHolds ==
  ASSUME Holding, Sampled \/ Elsewhere
  PROVE  Holding' /\ UNCHANGED benchmarking /\ (owner = {Harness} => number' = number)
<1>1. CASE Sampled
  <2>1. UNCHANGED <<on, owner, number>> /\ UNCHANGED criterion
    BY <1>1 DEF Sampled, Record, Lose
  <2> QED
    BY <2>1 DEF Holding, ProfiledBetween, criterion, benchmarking
<1>2. CASE Elsewhere
  <2>1. PICK t \in Threads \ {Harness} : \/ Start(t) /\ UNCHANGED abandoned
                                         \/ Dropped(t)
    BY <1>2 DEF Elsewhere
  <2>2. UNCHANGED benchmarking
    BY <1>2 DEF Elsewhere, benchmarking
  <2>3. owner # {Harness}
    BY <2>1 DEF Start, Dropped, Stop, HalfWay, Abandon, Holding
  <2>4. \/ on' /\ owner' = {t}
        \/ ~on' /\ owner' = {}
        \/ on' /\ owner' = {} /\ abandoned'
    BY <2>1 DEF Start, Dropped, Stop, HalfWay, Abandon, Holding
  <2>5. at \notin Running \cup {"starting"}
    BY <2>3 DEF Holding, ProfiledBetween, Running
  <2> QED
    BY <2>1, <2>2, <2>3, <2>4, <2>5 DEF Holding, ProfiledBetween, benchmarking, Running
<1> QED
  BY <1>1, <1>2

LEMMA HoldingStep == Holding /\ [CriterionNext]_criterionVars => Holding'
<1> SUFFICES ASSUME Holding, [CriterionNext]_criterionVars
             PROVE  Holding'
  OBVIOUS
<1> USE CriterionAssumption DEF Holding, ProfiledBetween, Panic, Running
<1>1. CASE UNCHANGED criterionVars
  BY <1>1 DEF criterionVars, criterion, vars
<1>2. CASE StartProfiling
  BY <1>2 DEF StartProfiling, Start
<1>3. CASE Started
  BY <1>3 DEF Started, HalfWay, Abandon, vars
<1>4. CASE StartRefused
  BY <1>4 DEF StartRefused, vars
<1>5. CASE CreateDir
  BY <1>5 DEF CreateDir, vars
<1>6. CASE CreateFile
  BY <1>6 DEF CreateFile, vars
<1>7. CASE Take
  BY <1>7 DEF Take, Taken, vars
<1>8. CASE BuildReport
  BY <1>8 DEF BuildReport, vars
<1>9. CASE WriteFile
  BY <1>9 DEF WriteFile, vars
<1>10. CASE DropGuard
  BY <1>10 DEF DropGuard, Dropped, Stop, HalfWay, Abandon, vars
<1>11. CASE Unwind
  BY <1>11 DEF Unwind, Dropped, Stop, HalfWay, Abandon, vars
<1>12. CASE Sampled \/ Elsewhere
  BY <1>12, ElsewhereHolds
<1> QED
  BY <1>1, <1>2, <1>3, <1>4, <1>5, <1>6, <1>7, <1>8, <1>9, <1>10, <1>11, <1>12
  DEF CriterionNext, Ended

LEMMA HoldingInvariant == CriterionSpec => []Holding
<1>1. CriterionInit => Holding
  BY DEF CriterionInit, Init, Holding, ProfiledBetween, Running
<1> QED
  BY <1>1, HoldingStep, PTL DEF CriterionSpec

\* A benchmark is profiled in the harness's own session from start_profiling to
\* stop_profiling; otherwise the profiler is stopped, another thread's, or abandoned by
\* a start or a stop that failed half way: no other panic leaves it running.
THEOREM Between == CriterionSpec => []ProfiledBetween
<1>1. Holding => ProfiledBetween
  BY DEF Holding
<1> QED
  BY <1>1, HoldingInvariant, PTL

-----------------------------------------------------------------------------
(* The files                                                                *)

Own(b) == last[b] # 0 => files[b] = Empty \/ files[b].session = last[b]

\* The benchmark that is profiled is of the session in course, and its file is
\* emptied and filled with that session's profile.
Filing ==
  /\ last \in [Benchmarks -> Nat] /\ number \in Nat
  /\ DOMAIN files = Benchmarks
  /\ at \in Running \cup {"starting"} =>
       /\ last[benchmark] = number
       /\ \A b \in Benchmarks \ {benchmark} : Own(b)
  /\ at \in {"take", "build", "write"} => files[benchmark] = Empty
  /\ at = "write" => profile.session = number
  /\ at = "drop" => Own(benchmark)
  /\ OwnProfile

LEMMA FilingStep == Holding /\ Filing /\ [CriterionNext]_criterionVars => Filing'
<1> SUFFICES ASSUME Holding, Filing, [CriterionNext]_criterionVars
             PROVE  Filing'
  OBVIOUS
<1> USE DEF Filing, OwnProfile, Panic, Running, Own
<1>1. CASE UNCHANGED criterionVars
  BY <1>1 DEF criterionVars, criterion, vars
<1>2. CASE StartProfiling
  <2>1. /\ at = "idle" /\ at' = "starting" /\ files' = files
        /\ number' = number + 1 /\ benchmark' \in Benchmarks
        /\ last' = [last EXCEPT ![benchmark'] = number']
    BY <1>2 DEF StartProfiling, Start
  <2> QED
    BY <2>1
<1>3. CASE Started
  BY <1>3 DEF Started, HalfWay, Abandon, vars
<1>4. CASE StartRefused
  BY <1>4 DEF StartRefused, vars
<1>5. CASE CreateDir
  BY <1>5 DEF CreateDir, vars
<1>6. CASE CreateFile
  BY <1>6 DEF CreateFile, Created, vars, Holding
<1>7. CASE Take
  BY <1>7 DEF Take, Taken, vars
<1>8. CASE BuildReport
  BY <1>8 DEF BuildReport, File, vars
<1>9. CASE WriteFile
  <2>1. at = "write" /\ UNCHANGED <<number, benchmark, last, profile>>
    BY <1>9 DEF WriteFile, vars
  <2>2. CASE at' = "drop" /\ files' = files
    BY <2>1, <2>2
  <2>3. CASE at' = "drop" /\ files' = [files EXCEPT ![benchmark] = profile]
    BY <2>1, <2>3 DEF Holding
  <2>4. CASE at' = "panicking" /\ files' = [files EXCEPT ![benchmark] = Partial]
    BY <2>1, <2>4
  <2> QED
    BY <1>9, <2>2, <2>3, <2>4 DEF WriteFile
<1>10. CASE DropGuard
  <2>1. at = "drop" /\ at' = "idle" /\ UNCHANGED <<number, benchmark, files, last>>
    BY <1>10 DEF DropGuard, Dropped, Stop, HalfWay, Abandon, vars
  <2> QED
    BY <2>1
<1>11. CASE Unwind
  BY <1>11 DEF Unwind, Dropped, Stop, HalfWay, Abandon, vars
<1>12. CASE Sampled \/ Elsewhere
  <2>1. UNCHANGED benchmarking /\ (owner = {Harness} => number' = number)
    BY <1>12, ElsewhereHolds
  <2>2. number' \in Nat
    BY <1>12 DEF Sampled, Elsewhere, Record, Lose, Start, Dropped, Stop, HalfWay,
                  Abandon
  <2>3. at \in Running \cup {"starting"} => number' = number
    BY <2>1 DEF Holding, ProfiledBetween
  <2> QED
    BY <2>1, <2>2, <2>3 DEF benchmarking
<1> QED
  BY <1>1, <1>2, <1>3, <1>4, <1>5, <1>6, <1>7, <1>8, <1>9, <1>10, <1>11, <1>12
  DEF CriterionNext, Ended

\* Whatever the order of the benchmarks and whoever else profiles, the file of a
\* benchmark never has the profile of another session.
THEOREM OwnFiles == CriterionSpec => []OwnProfile
<1>1. CriterionInit => Filing
  BY DEF CriterionInit, Init, Filing, OwnProfile, Running
<1>2. Filing => OwnProfile
  BY DEF Filing
<1> QED
  BY <1>1, <1>2, FilingStep, HoldingInvariant, PTL DEF CriterionSpec
=============================================================================
