------------------------------- MODULE Report -------------------------------
(***************************************************************************)
(* What a ReportBuilder (report.rs) makes of a collector: the rows of an   *)
(* UnresolvedReport, and of a Report after symbolization (frames.rs) and   *)
(* the user's post-processor.  Building holds the profiler's lock and      *)
(* changes nothing, so that a report is an operator on Collector's state,  *)
(* and its properties are invariants of Collector's behaviours.            *)
(***************************************************************************)
EXTENDS Collector, SequencesExt

CONSTANTS
  Captured,      \* the UnresolvedFrames that sample s of backtrace k brings
  Symbolize,     \* the names an instruction pointer resolves to: the perf map's
                 \* one, or those of the functions inlined there
  HandlerNames,  \* "perf_signal_handler" and its underscored form
  Processor(_)   \* the post-processor, the identity when there is none

Threads == {Captured[x].thread_id : x \in DOMAIN Captured}

ASSUME ReportAssumption ==
  /\ Keys \X (1..MaxSamples) \subseteq DOMAIN Captured
  /\ \A k \in Keys, s, t \in 1..MaxSamples :  \* UnresolvedFrames::eq
       Captured[k, s].thread_id = Captured[k, t].thread_id
  /\ \A x \in Keys \X (1..MaxSamples) :
       "frames" \in DOMAIN Captured[x] /\ Captured[x].frames \in Seq(DOMAIN Symbolize)

-----------------------------------------------------------------------------
(* Collector::try_iter, and the sums both reports build                     *)

\* Those of the hash table and those of the temporary file, each at its place.
Entries ==
  [x \in {<<"map", y>> : y \in Slots} \cup {<<"temp_array", i>> : i \in DOMAIN Archive} |->
     IF x[1] = "map" THEN Slot(x[2]) ELSE Archive[x[2]]]

\* Mutant: entries counted once are left out.
Repeated(entries) == {x \in DOMAIN entries : Count(entries[x]) > 1}
Positive(entries) == {x \in DOMAIN entries : Count(entries[x]) > 0}

\* One row for each key, whose value is what the entries with that key add up to.
Rows(entries, key) ==
  LET count == [x \in DOMAIN key |-> Count(entries[x])]
  IN  [r \in Range(key) |-> SumFunctionOnSet(count, {x \in DOMAIN key : key[x] = r})]

Failed == <<>>   \* try_iter()?: no row at all

\* ReportBuilder::build_unresolved, whose keys compare as the collector's do.
BuildUnresolved ==
  LET entries == Entries
  IN  IF Readable THEN Rows(entries, [x \in Positive(entries) |-> entries[x].item])
      ELSE Failed

-----------------------------------------------------------------------------
(* Frames::from                                                             *)

OfHandler(ip) == ToSet(Symbolize[ip]) \cap HandlerNames # {}
Shows(acc, ip) ==
  IF Symbolize[ip] = <<>> THEN acc ELSE [acc EXCEPT !.out = Append(@, Symbolize[ip])]

\* Mutant: a frame to be skipped is looked at, and if it is the handler's the next one
\* is skipped too.
ResolveFrameLooking(acc, ip) ==
  CASE OfHandler(ip) -> [acc EXCEPT !.skip = TRUE]
    [] ~OfHandler(ip) /\ acc.skip -> [acc EXCEPT !.skip = FALSE]
    [] OTHER -> Shows(acc, ip)
\* The handler's own frame is dropped with the next one, the signal trampoline,
\* whatever that is; a frame without a symbol is dropped.
ResolveFrame(acc, ip) ==
  CASE acc.skip -> [acc EXCEPT !.skip = FALSE]
    [] ~acc.skip /\ OfHandler(ip) -> [acc EXCEPT !.skip = TRUE]
    [] OTHER -> Shows(acc, ip)

Resolve(ips) ==
  LET after[n \in 0..Len(ips)] ==
        IF n = 0 THEN [out |-> <<>>, skip |-> FALSE]
        ELSE ResolveFrame(after[n - 1], ips[n])
  IN  after[Len(ips)].out

\* An entry keeps what its first sample brought.
Item(e) == Captured[e.item, CHOOSE s \in e.samples : \A t \in e.samples : s <= t]
Frames(e) == [Item(e) EXCEPT !.frames = Resolve(@)]

\* ReportBuilder::build: rows are told apart by frames, thread and timestamp.
Build ==
  LET entries == Entries
  IN  IF Readable
      THEN Rows(entries, [x \in Positive(entries) |-> Processor(Frames(entries[x]))])
      ELSE Failed

-----------------------------------------------------------------------------
(* Properties                                                               *)

SamplesOf(k) == {s \in 1..Len(log) : log[s] = k}

\* Reports add up.  An UnresolvedReport has one row for each backtrace sampled so far,
\* with the number of its samples, wherever the collector has spread its entries; the
\* rows of a thread in a Report add up to the samples taken on it: symbolization, the
\* post-processor and rows that become equal lose and repeat none.
ReportsAddUp ==
  Readable =>
    /\ BuildUnresolved = [k \in ToSet(log) |-> Cardinality(SamplesOf(k))]
    /\ LET build == Build IN
       \A t \in Threads :
         SumFunctionOnSet(build, {r \in DOMAIN build : r.thread_id = t})
           = Cardinality({s \in 1..Len(log) : Captured[log[s], s].thread_id = t})

\* The frames of the handler that directly precede place i of a backtrace.
Run(ips, i) == {j \in 1..(i - 1) : \A k \in j..(i - 1) : OfHandler(ips[k])}

\* The places a Report shows: those with a symbol, but the handler's frames and what one
\* of them takes with it, which of a run of them every other does.
Shown(ips) ==
  {i \in 1..Len(ips) : /\ Symbolize[ips[i]] # <<>> /\ ~OfHandler(ips[i])
                       /\ Cardinality(Run(ips, i)) % 2 = 0}
ShownUpTo(ips, i) == {j \in Shown(ips) : j <= i}

\* Before its post-processor, a Report has of each backtrace the frames it is to show,
\* all of them, once and in order, wherever the handler's frames are in it, several in
\* a row and at its end included.
FramesShown ==
  LET entries == Entries IN
  Readable => \A x \in Positive(entries) :
    LET ips == Item(entries[x]).frames
        row == Frames(entries[x]).frames
    IN  /\ Len(row) = Cardinality(Shown(ips))
        /\ \A i \in Shown(ips) : row[Cardinality(ShownUpTo(ips, i))] = Symbolize[ips[i]]

\* A Report has one row for each backtrace of each thread.
OneRowPerBacktrace ==
  LET rows == DOMAIN Build IN
  \A q, r \in rows :
    q.frames = r.frames /\ q.thread_id = r.thread_id => q = r
=============================================================================
