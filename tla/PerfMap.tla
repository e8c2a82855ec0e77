------------------------------ MODULE PerfMap ------------------------------
(***************************************************************************)
(* The perf map resolver (perfmap.rs): the names a JIT compiler writes to  *)
(* /tmp/perf-<pid>.map, cached in the static RESOLVER.  Each frame that a  *)
(* report resolves spawns a thread that may replace the cached map, and is *)
(* answered from whatever map is there; nobody waits for those threads.    *)
(*                                                                         *)
(* The compiler only appends, and a reader has what is in the file when it *)
(* meets its end: one step.  Reports hold the profiler's write lock, so    *)
(* that there is one caller at a time.                                     *)
(***************************************************************************)
EXTENDS Naturals, Sequences, SequencesExt

CONSTANTS
  Output,      \* the lines the compiler writes: start, length and name
  Addresses,   \* the instruction pointers looked up
  Unfinished,  \* the name in a line that is not all written
  Refreshers,  \* the spawned threads: bounds how many are alive at once
  Caller,      \* the thread that builds a report
  LastSecond   \* bound: how long the clock runs

ASSUME PerfMapAssumption ==
  /\ Len(Output) \in Nat /\ DOMAIN Output = 1..Len(Output)
  /\ \A i \in DOMAIN Output : Output[i].start \in Nat /\ Output[i].length \in Nat
  /\ Addresses \subseteq Nat
  /\ Caller \notin Refreshers
  /\ LastSecond \in Nat \ {0}

VARIABLES
  \* the file: its whole lines, what there is of the next one, and its time
  exists, written, tail, mtime, clock,
  \* the statics
  MTIME,       \* whole seconds; 0 before anything was read
  forced,      \* has RESOLVER's Lazy been initialised?
  RESOLVER,    \* an Option<PerfMap>
  actor        \* how far the caller and the spawned threads are

disk == <<exists, written, tail, mtime, clock>>
statics == <<MTIME, forced, RESOLVER>>
vars == <<disk, statics, actor>>

None == [some |-> FALSE, ranges |-> <<>>]
Some(ranges) == [some |-> TRUE, ranges |-> ranges]

\* A thread in init_resolver(), maybe as the Lazy's initialiser, with the time it
\* got from the file and the map it will publish.
Idle == [at |-> "idle", lazy |-> FALSE, mtime |-> 0, map |-> None]
Actors == Refreshers \cup {Caller}

TypeOK ==
  /\ exists \in BOOLEAN /\ forced \in BOOLEAN
  /\ written \in 0..Len(Output)
  /\ tail \in {"none", "short", "cut"}
  /\ {mtime, clock, MTIME} \subseteq 0..LastSecond
  /\ \A x \in Actors :
       /\ actor[x].at \in {"idle", "stat", "compare", "store", "parse", "publish", "load"}
       /\ actor[x].lazy => ~forced
       /\ actor[x].at = "publish" => x # Caller /\ actor[x].map.some

Init ==
  /\ exists = FALSE /\ written = 0 /\ tail = "none" /\ mtime = 0 /\ clock = 1
  /\ MTIME = 0 /\ forced = FALSE /\ RESOLVER = None
  /\ actor = [x \in Actors |-> Idle]

-----------------------------------------------------------------------------
(* The compiler and the clock                                               *)

Modified == exists' = TRUE /\ mtime' = clock

\* Part of a line: too little to parse, or enough for a range that is not the line's.
WritePart ==
  /\ written < Len(Output)
  /\ \/ tail = "none" /\ tail' \in {"short", "cut"}
     \/ tail = "short" /\ tail' = "cut"
  /\ Modified
  /\ UNCHANGED <<written, clock, statics, actor>>

WriteLine ==
  /\ written < Len(Output)
  /\ written' = written + 1 /\ tail' = "none"
  /\ Modified
  /\ UNCHANGED <<clock, statics, actor>>

Second ==
  /\ clock < LastSecond
  /\ clock' = clock + 1
  /\ UNCHANGED <<exists, written, tail, mtime, statics, actor>>

-----------------------------------------------------------------------------
(* PerfMap::new, PerfMap::find                                              *)

LineRange(line) ==
  [start |-> line.start, end |-> line.start + line.length, name |-> line.name]

\* One line that does not parse is enough to have no map at all; a line that is cut
\* has less of its name, or no name and fewer digits of its length.
Whole == [i \in 1..written |-> LineRange(Output[i])]
Cut(line) == {[start |-> line.start, end |-> line.start + length, name |-> Unfinished] :
                length \in 0..line.length}
PerfMapNew ==
  CASE tail = "none" -> {Some(Whole)}
    [] tail = "short" -> {None}
    [] tail = "cut" -> {Some(Append(Whole, range)) : range \in Cut(Output[written + 1])}

\* Mutant: the last address is compared with <=.
CoversEnd(range, addr) == range.start <= addr /\ addr <= range.end
Covers(range, addr) == range.start <= addr /\ addr < range.end
\* The first of the ranges that hold the address.
Find(ranges, addr) ==
  LET i == SelectInSeq(ranges, LAMBDA r : Covers(r, addr))
  IN  IF i = 0 THEN <<>> ELSE <<ranges[i].name>>

-----------------------------------------------------------------------------
(* init_resolver, by a spawned thread or as the Lazy's initialiser          *)

Forcing == \E x \in Actors : actor[x].lazy
Become(x, state) == actor' = [actor EXCEPT ![x] = state]
Goto(x, step) == actor' = [actor EXCEPT ![x].at = step]

\* Mutant: a spawned thread that found nothing new empties the resolver.
FinishEmpties(x, map) ==
  IF actor[x].lazy
  THEN /\ forced' = TRUE /\ RESOLVER' = map
       /\ Become(x, [actor[x] EXCEPT !.at = IF x = Caller THEN "load" ELSE "publish",
                                     !.lazy = FALSE])
       /\ UNCHANGED MTIME
  ELSE /\ Become(x, [Idle EXCEPT !.at = "publish", !.map = map])
       /\ UNCHANGED statics
\* The initialiser's map, even None, is RESOLVER's first value; a spawned thread has
\* nothing to do unless there is a new map.
Finish(x, map) ==
  IF actor[x].lazy
  THEN /\ forced' = TRUE /\ RESOLVER' = map
       /\ Become(x, [actor[x] EXCEPT !.at = IF x = Caller THEN "load" ELSE "publish",
                                     !.lazy = FALSE])
       /\ UNCHANGED MTIME
  ELSE /\ Become(x, IF map.some THEN [Idle EXCEPT !.at = "publish", !.map = map]
                    ELSE Idle)
       /\ UNCHANGED statics

Stat(x) ==
  /\ actor[x].at = "stat"
  /\ IF exists
     THEN /\ Become(x, [actor[x] EXCEPT !.at = "compare", !.mtime = mtime])
          /\ UNCHANGED statics
     ELSE Finish(x, None)
  /\ UNCHANGED disk

Compare(x) ==
  /\ actor[x].at = "compare"
  /\ IF MTIME = actor[x].mtime THEN Finish(x, None)
     ELSE Goto(x, "store") /\ UNCHANGED statics
  /\ UNCHANGED disk

\* The time is recorded before the file is read, whatever comes of that.
Store(x) ==
  /\ actor[x].at = "store"
  /\ MTIME' = actor[x].mtime
  /\ Goto(x, "parse")
  /\ UNCHANGED <<disk, forced, RESOLVER>>

Parse(x) ==
  /\ actor[x].at = "parse"
  /\ \E map \in PerfMapNew : Finish(x, map)
  /\ UNCHANGED disk

-----------------------------------------------------------------------------
(* get_resolver                                                             *)

GetResolver ==
  /\ actor[Caller] = Idle
  /\ \E r \in Refreshers :
       /\ actor[r] = Idle
       /\ actor' = [actor EXCEPT ![r].at = "stat", ![Caller].at = "load"]
  /\ UNCHANGED <<disk, statics>>

\* Whoever needs RESOLVER first, the caller to load it or a thread to store into it,
\* touches the file and initialises it; the others wait.
ForceLazy(x) ==
  /\ actor[x].at \in {"load", "publish"} /\ ~forced /\ ~Forcing
  /\ exists' = TRUE
  /\ mtime' = IF exists THEN mtime ELSE clock
  /\ Become(x, [actor[x] EXCEPT !.at = "stat", !.lazy = TRUE])
  /\ UNCHANGED <<written, tail, clock, statics>>

\* The caller looks its address up in the map that is there.
Load(x) ==
  /\ actor[x].at = "load" /\ forced
  /\ Become(x, Idle)
  /\ UNCHANGED <<disk, statics>>

\* Mutant: only the first map is stored.
PublishOnce(x) ==
  /\ actor[x].at = "publish" /\ forced
  /\ RESOLVER' = IF RESOLVER.some THEN RESOLVER ELSE actor[x].map
  /\ Become(x, Idle)
  /\ UNCHANGED <<disk, MTIME, forced>>
Publish(x) ==
  /\ actor[x].at = "publish" /\ forced
  /\ RESOLVER' = actor[x].map
  /\ Become(x, Idle)
  /\ UNCHANGED <<disk, MTIME, forced>>

Step(x) ==
  Stat(x) \/ Compare(x) \/ Store(x) \/ Parse(x) \/ ForceLazy(x) \/ Load(x) \/ Publish(x)
Compiler == WritePart \/ WriteLine
Next == Compiler \/ Second \/ GetResolver \/ \E x \in Actors : Step(x)
Spec == Init /\ [][Next]_vars

\* A thread that was spawned runs, and the program goes on reporting.
FairSpec == Spec /\ WF_vars(GetResolver) /\ \A x \in Actors : WF_vars(Step(x))

-----------------------------------------------------------------------------
(* Properties                                                               *)

\* The first line written for an address, 0 if there is none.
FirstLine(addr) ==
  SelectInSeq(Output, LAMBDA l : addr \in l.start..(l.start + l.length - 1))

\* A name found for an address is that of the first line written for it, or the
\* unfinished name of the last line read: reading a file that grows, and replacing
\* the map by an older or a newer one, never name an address after another line.
NamesOfTheFile ==
  \A addr \in Addresses :
    LET name == Find(RESOLVER.ranges, addr)
        i == FirstLine(addr)
    IN  name # <<>> =>
          /\ i # 0
          /\ \/ name = <<Output[i].name>> /\ i <= written
             \/ name = <<Unfinished>> /\ i = Len(RESOLVER.ranges)

\* Once there is a map there always is one: a file that cannot be parsed, or that
\* has not changed, takes nothing away, whoever initialises the resolver.
NeverForgets == [][RESOLVER.some => RESOLVER'.some]_vars

\* The compiler is done, in a second that no reader has recorded and while none is
\* at work.
Settled ==
  /\ written = Len(Output) /\ MTIME # mtime
  /\ \A x \in Actors : actor[x] = Idle

\* Every address gets the name of the line written for it.
Current ==
  \A addr \in Addresses :
    FirstLine(addr) # 0 =>
      Find(RESOLVER.ranges, addr) = <<Output[FirstLine(addr)].name>>

\* The map is then read, for good, though reports never wait for it and the thread
\* that reads it races with the one that initialises the resolver.
Settles == Settled ~> []Current
=============================================================================
