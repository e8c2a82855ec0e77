------------------------------ MODULE Criterion ------------------------------
(***************************************************************************)
(* The profiler that the benchmark harness drives (criterion.rs):          *)
(* PProfProfiler::start_profiling and stop_profiling around a benchmark,   *)
(* and the file that each benchmark's profile is written to.  It stands on *)
(* what Sessions promises; a benchmark may use the crate for itself.       *)
(*                                                                         *)
(* Every unwrap() that fails is a panic that unwinds through the harness   *)
(* and drops the profiler.  The files outlive the process.                 *)
(***************************************************************************)
EXTENDS Sessions, Integers

CONSTANTS
  Benchmarks,
  Harness,     \* the thread of Threads that drives the profiler
  Outputs,     \* "flamegraph", "protobuf"
  Frequencies, \* those the harness may be given
  MaxSessions, \* bound: sessions of one process
  MaxSamples   \* bound: samples of one thread and session

ASSUME CriterionAssumption ==
  /\ Harness \in Threads
  /\ Outputs \subseteq {"flamegraph", "protobuf"}
  /\ Frequencies \subseteq Int
  /\ MaxSessions \in Nat /\ MaxSamples \in Nat

VARIABLES
  frequency,
  output,
  active_profiler,  \* is it Some(guard)?
  taken,            \* is the guard in stop_profiling's own hands?
  at,               \* where the harness is
  benchmark,        \* the benchmark it profiles
  profile,          \* the report stop_profiling has built
  files,            \* per benchmark: Absent, Empty, Partial or a profile
  last,             \* history: the last session started for each benchmark
  abandoned         \* history: did a start or a stop fail half way?

fields == <<frequency, output>>
criterion == <<fields, active_profiler, taken, at, benchmark, profile, files, last,
               abandoned>>
criterionVars == <<vars, criterion>>

File(kind, session, found) == [kind |-> kind, session |-> session, samples |-> found]
Absent == File("absent", 0, {})
Empty == File("empty", 0, {})
Partial == File("partial", 0, {})
Former == File("profile", 0, {})  \* left by an earlier process

CriterionInit ==
  /\ Init
  /\ frequency \in Frequencies /\ output \in Outputs
  /\ active_profiler = FALSE /\ taken = FALSE
  /\ at = "idle" /\ benchmark \in Benchmarks
  /\ profile = Absent
  /\ files \in [Benchmarks -> {Absent, Former}]
  /\ last = [b \in Benchmarks |-> 0]
  /\ abandoned = FALSE

Panic == at' = "panicking"
HalfWay == Abandon /\ abandoned' = TRUE

-----------------------------------------------------------------------------
(* start_profiling: ProfilerGuard::new(frequency).unwrap()                  *)

StartProfiling ==
  /\ at = "idle" /\ number < MaxSessions
  /\ Start(Harness)
  /\ benchmark' \in Benchmarks
  /\ last' = [last EXCEPT ![benchmark'] = number']
  /\ at' = "starting"
  /\ UNCHANGED <<fields, active_profiler, taken, profile, files, abandoned>>

\* A frequency of zero panics in the new session, which nobody will stop.
Started ==
  /\ at = "starting"
  /\ \/ /\ frequency # 0
        /\ active_profiler' = TRUE /\ at' = "profiling" /\ UNCHANGED <<vars, abandoned>>
     \/ /\ frequency = 0
        /\ HalfWay /\ Panic /\ UNCHANGED active_profiler
  /\ UNCHANGED <<fields, taken, benchmark, profile, files, last>>

\* The profiler runs already, or cannot start.
StartRefused ==
  /\ at = "idle" /\ number < MaxSessions
  /\ Panic
  /\ UNCHANGED <<vars, fields, active_profiler, taken, benchmark, profile, files, last,
                 abandoned>>

-----------------------------------------------------------------------------
(* stop_profiling                                                           *)

CreateDir ==
  /\ at = "profiling"
  /\ at' = "create" \/ Panic
  /\ UNCHANGED <<vars, fields, active_profiler, taken, benchmark, profile, files, last,
                 abandoned>>

\* Mutant: the file is opened without being truncated.
Opened(file) == IF file = Absent THEN Empty ELSE file
\* File::create truncates what an earlier run has left.
Created(file) == Empty

CreateFile ==
  /\ at = "create"
  /\ \/ /\ files' = [files EXCEPT ![benchmark] = Created(@)]
        /\ at' = "take"
     \/ Panic /\ UNCHANGED files
  /\ UNCHANGED <<vars, fields, active_profiler, taken, benchmark, profile, last, abandoned>>

\* Mutant: the guard is borrowed, not taken.
Borrowed == UNCHANGED <<active_profiler, taken>>
Taken == taken' = active_profiler /\ active_profiler' = FALSE

Take ==
  /\ at = "take"
  /\ Taken
  /\ at' = "build"
  /\ UNCHANGED <<vars, fields, benchmark, profile, files, last, abandoned>>

\* report().build().unwrap(): a collector that lost samples cannot be read.
BuildReport ==
  /\ at = "build"
  /\ IF readable
     THEN /\ profile' = File("profile", number, samples)
          /\ at' = "write"
     ELSE Panic /\ UNCHANGED profile
  /\ UNCHANGED <<vars, fields, active_profiler, taken, benchmark, files, last, abandoned>>

\* A flamegraph without lines is not written at all; write_all() may fail part way.
WriteFile ==
  /\ at = "write"
  /\ \/ /\ files' = IF output = "flamegraph" /\ profile.samples = {} THEN files
                    ELSE [files EXCEPT ![benchmark] = profile]
        /\ at' = "drop"
     \/ Panic /\ files' = [files EXCEPT ![benchmark] = Partial]
  /\ UNCHANGED <<vars, fields, active_profiler, taken, benchmark, profile, last, abandoned>>

\* The drop of a guard, which may fail half way.
Dropped(t) ==
  \/ Stop(t) /\ UNCHANGED abandoned
  \/ owner = {t} /\ HalfWay

\* The guard goes out of scope.
DropGuard ==
  /\ at = "drop"
  /\ IF taken THEN Dropped(Harness) ELSE UNCHANGED <<vars, abandoned>>
  /\ taken' = FALSE
  /\ at' = "idle"
  /\ UNCHANGED <<fields, active_profiler, benchmark, profile, files, last>>

\* Unwinding drops the guard, wherever it is.
Unwind ==
  /\ at = "panicking"
  /\ IF taken \/ active_profiler THEN Dropped(Harness) ELSE UNCHANGED <<vars, abandoned>>
  /\ taken' = FALSE /\ active_profiler' = FALSE
  /\ at' = "over"
  /\ UNCHANGED <<fields, benchmark, profile, files, last>>

-----------------------------------------------------------------------------
(* What goes on meanwhile                                                   *)

Sampled ==
  /\ at # "over"
  /\ \/ \E by \in Threads, born \in 1..number, id \in 1..MaxSamples :
          samples' = samples \cup {[id |-> id, by |-> by, born |-> born]} /\ Record
     \/ number > 0 /\ Lose
  /\ UNCHANGED criterion

\* Another thread has sessions of its own, and knows that it may be refused.
Elsewhere ==
  /\ at # "over"
  /\ \E t \in Threads \ {Harness} :
       \/ number < MaxSessions /\ Start(t) /\ UNCHANGED abandoned
       \/ Dropped(t)
  /\ UNCHANGED <<fields, active_profiler, taken, at, benchmark, profile, files, last>>

\* The benchmarks are done, or the process has panicked.
Ended == at \in {"idle", "over"} /\ UNCHANGED criterionVars

CriterionNext ==
  \/ StartProfiling \/ Started \/ StartRefused
  \/ CreateDir \/ CreateFile \/ Take \/ BuildReport \/ WriteFile \/ DropGuard
  \/ Unwind
  \/ Sampled \/ Elsewhere
  \/ Ended

CriterionSpec == CriterionInit /\ [][CriterionNext]_criterionVars

-----------------------------------------------------------------------------
(* Properties                                                               *)

\* A benchmark is profiled, in the harness's own session, from start_profiling to the
\* end of stop_profiling.  Between benchmarks, and after a panic anywhere, the guard is
\* gone with its session: the profiler is stopped or is another thread's.  Only a start
\* or a stop that failed half way leaves it running without anybody to stop it, and
\* every later start is refused.
ProfiledBetween ==
  /\ at \in {"profiling", "create", "take", "build", "write", "drop"} =>
       on /\ owner = {Harness}
  /\ at \in {"idle", "over"} =>
       \/ ~on /\ owner = {}
       \/ on /\ \E t \in Threads \ {Harness} : owner = {t}
       \/ on /\ owner = {} /\ abandoned

\* A benchmark that has been profiled has that profile in its file, or an empty one,
\* never an earlier session's or an earlier process's; and a panic disturbs at most the
\* file of the benchmark it interrupts.
OwnProfile ==
  \A b \in Benchmarks :
    last[b] # 0 /\ (at = "idle" \/ b # benchmark) =>
      files[b] = Empty \/ files[b].session = last[b]
=============================================================================
