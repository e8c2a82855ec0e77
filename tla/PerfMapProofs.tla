--------------------------- MODULE PerfMapProofs ---------------------------
(***************************************************************************)
(* PerfMap, for any lines, addresses and spawned threads: the states of    *)
(* the threads, that a map is never lost, and that a name is right.        *)
(***************************************************************************)
EXTENDS PerfMap, SequenceTheorems, WellFoundedInduction, TLAPS

-----------------------------------------------------------------------------
(* Maps of the file                                                         *)

\* A map that was read when the file had n whole lines, and maybe part of the next.
Prefix(ranges, n) ==
  /\ Len(ranges) \in {n, n + 1} /\ DOMAIN ranges = 1..Len(ranges)
  /\ \A i \in 1..n : ranges[i] = LineRange(Output[i])
  /\ Len(ranges) = n + 1 => n < Len(Output) /\ ranges[n + 1] \in Cut(Output[n + 1])
ReadBy(map, lines) ==
  \/ map = None
  \/ map.some /\ \E n \in 0..lines : Prefix(map.ranges, n)
OfTheFile(map) == ReadBy(map, written)

\* Whatever the file holds, what is read of it is a map of it, if there is one.
LEMMA NewMap ==
  ASSUME written \in 0..Len(Output), tail = "cut" => written < Len(Output),
         NEW map \in PerfMapNew, tail \in {"none", "short", "cut"}
  PROVE  OfTheFile(map)
<1> USE PerfMapAssumption
<1> DEFINE Lines == {LineRange(Output[i]) : i \in 1..written}
<1>1. written \in Nat /\ Len(Whole) = written /\ DOMAIN Whole = 1..written
      /\ Whole \in [1..written -> Lines]
  <2>1. written \in Nat /\ Whole \in [1..written -> Lines]
    BY DEF Whole
  <2> HIDE DEF Lines
  <2>2. Whole \in Seq(Lines)
    BY <2>1, SeqDef
  <2> QED
    BY <2>1, <2>2, LenProperties
<1> HIDE DEF Lines
<1>2. CASE tail = "none"
  <2>1. map = Some(Whole)
    BY <1>2 DEF PerfMapNew
  <2>2. Prefix(Whole, written)
    BY <1>1 DEF Prefix, Whole
  <2> QED
    BY <2>1, <2>2 DEF OfTheFile, ReadBy, Some
<1>3. CASE tail = "short"
  BY <1>3 DEF PerfMapNew, OfTheFile, ReadBy
<1>4. CASE tail = "cut"
  <2>1. PICK range \in Cut(Output[written + 1]) : map = Some(Append(Whole, range))
    BY <1>4 DEF PerfMapNew
  <2> DEFINE ranges == Append(Whole, range)
  <2>2. Whole \in Seq(Lines \cup {range})
    <3>1. Whole \in [1..written -> Lines \cup {range}]
      BY <1>1
    <3> QED
      BY <1>1, <3>1, SeqDef
  <2>3. /\ Len(ranges) = written + 1 /\ DOMAIN ranges = 1..(written + 1)
        /\ \A i \in 1..written : ranges[i] = Whole[i]
        /\ ranges[written + 1] = range
    BY <1>1, <2>2, AppendProperties, LenProperties
  <2>4. Prefix(ranges, written)
    BY <1>4, <2>1, <2>3 DEF Prefix, Whole
  <2> QED
    BY <2>1, <2>4 DEF OfTheFile, ReadBy, Some
<1> QED
  BY <1>2, <1>3, <1>4

-----------------------------------------------------------------------------
(* Looking an address up                                                    *)

\* The numbers are well ordered, as a set of pairs.
Less == {ss \in Nat \X Nat : ss[1] < ss[2]}

LEMMA LeastIndex ==
  ASSUME NEW I \in SUBSET Nat, I # {}
  PROVE  Min(I) \in I /\ \A i \in I : Min(I) <= i
<1>1. IsWellFoundedOn(Less, Nat)
  BY NatLessThanWellFounded, Zenon DEF Less, OpToRel
<1>2. PICK x \in I : \A y \in I : ~(<<y, x>> \in Less)
  BY <1>1, WFMin
<1>3. ASSUME NEW y \in I
      PROVE  x <= y
  <2>1. x \in Nat /\ y \in Nat /\ <<y, x>> \in Nat \X Nat
    OBVIOUS
  <2>2. <<y, x>> \in Less <=> y < x
    BY <2>1 DEF Less
  <2> QED
    BY <1>2, <2>1, <2>2
<1> QED
  BY <1>3 DEF Min

LEMMA LeastOf ==
  ASSUME NEW P, NEW n \in Nat, NEW I, I = {j \in 1..n : P[j]}, I # {}
  PROVE  /\ Min(I) \in 1..n /\ P[Min(I)]
         /\ \A j \in 1..(Min(I) - 1) : ~P[j]
<1>1. I \in SUBSET Nat
  OBVIOUS
<1>2. Min(I) \in I /\ \A j \in I : Min(I) <= j
  BY <1>1, LeastIndex
<1> QED
  BY <1>2

\* SelectInSeq for the ranges of a map: the first that covers the address, if any.
LEMMA FirstRange ==
  ASSUME NEW ranges, Len(ranges) \in Nat, NEW ip \in Nat
  PROVE  \/ Find(ranges, ip) = <<>>
         \/ \E i \in 1..Len(ranges) :
              /\ Find(ranges, ip) = <<ranges[i].name>>
              /\ Covers(ranges[i], ip)
              /\ \A j \in 1..(i - 1) : ~Covers(ranges[j], ip)
<1> DEFINE P == [j \in 1..Len(ranges) |-> Covers(ranges[j], ip)]
           I == {j \in 1..Len(ranges) : P[j]}
<1>1. I = {j \in 1..Len(ranges) : Covers(ranges[j], ip)}
  OBVIOUS
<1>2. SelectInSeq(ranges, LAMBDA r : Covers(r, ip)) = IF I # {} THEN Min(I) ELSE 0
  BY <1>1, Zenon DEF SelectInSeq
<1> DEFINE i == IF I # {} THEN Min(I) ELSE 0
<1>3. Find(ranges, ip) = (IF i = 0 THEN <<>> ELSE <<ranges[i].name>>)
  BY <1>2, Zenon DEF Find
<1>4. I # {} => /\ i \in 1..Len(ranges) /\ P[i]
                /\ \A j \in 1..(i - 1) : ~P[j]
  BY LeastOf
<1>5. I # {} => /\ i \in 1..Len(ranges) /\ Covers(ranges[i], ip)
                /\ \A j \in 1..(i - 1) : ~Covers(ranges[j], ip)
  <2>1. \A j \in 1..Len(ranges) : P[j] <=> Covers(ranges[j], ip)
    OBVIOUS
  <2> HIDE DEF I, i, P
  <2> QED
    BY <1>4, <2>1
<1>6. CASE I = {}
  BY <1>3, <1>6
<1>7. CASE I # {}
  <2>1. i # 0 /\ i \in 1..Len(ranges)
    BY <1>5, <1>7
  <2> HIDE DEF I, i, P
  <2> QED
    BY <1>3, <1>5, <1>7, <2>1
<1> QED
  BY <1>6, <1>7

\* And for the lines: there is a first as soon as there is one.
LEMMA FirstOfLines ==
  ASSUME NEW ip \in Nat, NEW n \in 1..Len(Output),
         Covers(LineRange(Output[n]), ip),
         \A j \in 1..(n - 1) : ~Covers(LineRange(Output[j]), ip)
  PROVE  FirstLine(ip) = n
<1> USE PerfMapAssumption
<1> DEFINE Holds(l) == ip \in l.start..(l.start + l.length - 1)
           I == {i \in 1..Len(Output) : Holds(Output[i])}
<1>1. FirstLine(ip) = IF I # {} THEN Min(I) ELSE 0
  BY DEF FirstLine, SelectInSeq
<1>2. \A i \in 1..Len(Output) : Holds(Output[i]) <=> Covers(LineRange(Output[i]), ip)
  BY DEF Covers, LineRange
<1>3. I = {i \in 1..Len(Output) : Covers(LineRange(Output[i]), ip)}
  BY <1>2
<1> HIDE DEF I
<1>4. n \in Nat /\ n \in I /\ \A j \in 1..(n - 1) : j \notin I
  BY <1>3
<1>5. I \in SUBSET Nat /\ 0 \notin I
  BY <1>3
<1>6. Min(I) \in I /\ Min(I) <= n
  BY <1>4, <1>5, LeastIndex
<1>7. Min(I) = n
  <2>1. Min(I) \in Nat /\ Min(I) # 0
    BY <1>5, <1>6
  <2>2. ~(Min(I) \in 1..(n - 1))
    BY <1>4, <1>6
  <2> QED
    BY <1>4, <1>6, <2>1, <2>2
<1> QED
  BY <1>1, <1>4, <1>7

LEMMA Within ==
  ASSUME NEW N \in Nat, NEW n \in 0..N
  PROVE  n \in Nat /\ n <= N
OBVIOUS

\* A part of a line covers no more than the line.
LEMMA PartCovers ==
  ASSUME NEW l, l.start \in Nat, l.length \in Nat, NEW length \in 0..l.length,
         NEW r, r = [start |-> l.start, end |-> l.start + length, name |-> Unfinished],
         NEW ip \in Nat, Covers(r, ip)
  PROVE  r.name = Unfinished /\ Covers(LineRange(l), ip)
<1>1. r.start = l.start /\ r.end = l.start + length /\ r.name = Unfinished
  OBVIOUS
<1>2. LineRange(l).start = l.start /\ LineRange(l).end = l.start + l.length
  BY DEF LineRange
<1> QED
  BY <1>1, <1>2 DEF Covers

\* The range that answers is that of the first line for the address, or the last one.
LEMMA NameOfPrefix ==
  ASSUME NEW ranges, NEW n \in 0..Len(Output), Prefix(ranges, n), NEW ip \in Nat,
         NEW k \in 1..Len(ranges), Covers(ranges[k], ip),
         \A j \in 1..(k - 1) : ~Covers(ranges[j], ip)
  PROVE  /\ FirstLine(ip) = k /\ k # 0
         /\ \/ k <= n /\ ranges[k].name = Output[k].name
            \/ k = Len(ranges) /\ ranges[k].name = Unfinished
<1>0. Len(Output) \in Nat
  BY PerfMapAssumption
<1>1. /\ n \in Nat /\ n <= Len(Output) /\ Len(ranges) \in {n, n + 1} /\ k \in Nat
      /\ k > 0 /\ k <= Len(ranges)
      /\ \A j \in 1..n : ranges[j] = LineRange(Output[j])
  <2>1. n \in Nat /\ n <= Len(Output)
    BY <1>0, Within, Zenon
  <2>2. /\ Len(ranges) \in {n, n + 1}
        /\ \A j \in 1..n : ranges[j] = LineRange(Output[j])
    BY Zenon DEF Prefix
  <2>3. k \in Nat /\ k > 0 /\ k <= Len(ranges)
    BY <2>1, <2>2
  <2> QED
    BY <2>1, <2>2, <2>3
<1>2. CASE k <= n
  <2>1. k \in 1..Len(Output) /\ ranges[k] = LineRange(Output[k])
    BY <1>0, <1>1, <1>2
  <2>2. \A j \in 1..(k - 1) : ~Covers(LineRange(Output[j]), ip)
    BY <1>1, <1>2
  <2>3. FirstLine(ip) = k
    BY <2>1, <2>2, FirstOfLines
  <2> QED
    BY <1>1, <1>2, <2>1, <2>3 DEF LineRange
<1>3. CASE k > n
  <2>0. k = n + 1 /\ Len(ranges) = n + 1
    BY <1>1, <1>3
  <2>1. k = n + 1 /\ k = Len(ranges) /\ n < Len(Output)
        /\ ranges[k] \in Cut(Output[k])
    BY <2>0 DEF Prefix
  <2>2. k \in 1..Len(Output)
    BY <1>0, <1>1, <2>1
  <2>3. Output[k].start \in Nat /\ Output[k].length \in Nat
    BY <2>2, PerfMapAssumption
  <2>4. PICK length \in 0..Output[k].length :
          ranges[k] = [start |-> Output[k].start, end |-> Output[k].start + length,
                       name |-> Unfinished]
    BY <2>1 DEF Cut
  <2>5. ranges[k].name = Unfinished /\ Covers(LineRange(Output[k]), ip)
    BY <2>3, <2>4, PartCovers, Zenon
  <2>6. \A j \in 1..(k - 1) : ~Covers(LineRange(Output[j]), ip)
    BY <1>1, <2>1
  <2>7. FirstLine(ip) = k
    BY <2>2, <2>5, <2>6, FirstOfLines
  <2> QED
    BY <1>1, <2>1, <2>5, <2>7
<1> QED
  BY <1>1, <1>2, <1>3

LEMMA NamesRight ==
  ASSUME written \in 0..Len(Output), OfTheFile(RESOLVER)
  PROVE  NamesOfTheFile
<1> SUFFICES ASSUME NEW ip \in Addresses, Find(RESOLVER.ranges, ip) # <<>>
             PROVE  /\ FirstLine(ip) # 0
                    /\ \/ /\ Find(RESOLVER.ranges, ip) = <<Output[FirstLine(ip)].name>>
                          /\ FirstLine(ip) <= written
                       \/ /\ Find(RESOLVER.ranges, ip) = <<Unfinished>>
                          /\ FirstLine(ip) = Len(RESOLVER.ranges)
  BY DEF NamesOfTheFile
<1> DEFINE ranges == RESOLVER.ranges
<1> HIDE DEF ranges
<1>1. Find(ranges, ip) # <<>>
  BY DEF ranges
<1>2. ip \in Nat
  BY PerfMapAssumption
<1>3. RESOLVER = None => Find(ranges, ip) = <<>>
  <2> SUFFICES ASSUME RESOLVER = None
               PROVE  Find(ranges, ip) = <<>>
    OBVIOUS
  <2>1. Len(ranges) = 0
    BY DEF None, ranges
  <2>2. Len(ranges) \in Nat /\ ~\E k \in 1..Len(ranges) : TRUE
    BY <2>1
  <2> QED
    BY <1>2, <2>2, FirstRange
<1>4. PICK n \in 0..written : Prefix(ranges, n)
  BY <1>1, <1>3 DEF OfTheFile, ReadBy, ranges
<1>5. /\ n \in 0..Len(Output) /\ n <= written /\ written \in Nat
      /\ Len(ranges) \in Nat
  BY PerfMapAssumption DEF Prefix
<1>6. PICK k \in 1..Len(ranges) :
        /\ Find(ranges, ip) = <<ranges[k].name>>
        /\ Covers(ranges[k], ip)
        /\ \A j \in 1..(k - 1) : ~Covers(ranges[j], ip)
  BY <1>1, <1>2, <1>5, FirstRange
<1>7. /\ FirstLine(ip) = k /\ k # 0
      /\ \/ k <= n /\ ranges[k].name = Output[k].name
         \/ k = Len(ranges) /\ ranges[k].name = Unfinished
  BY <1>2, <1>4, <1>5, <1>6, NameOfPrefix
<1>8. FirstLine(ip) \in Nat
  BY <1>5, <1>7
<1> QED
  BY <1>5, <1>6, <1>7, <1>8 DEF ranges

-----------------------------------------------------------------------------
(* The threads                                                              *)

\* A record of the fields that a thread has.
IsState(s) == s \in [at : {s.at}, lazy : {s.lazy}, mtime : {s.mtime}, map : {s.map}]

\* What a thread may be: only a spawned one stores, and it has a map to store; one that
\* initialises the resolver has not done so yet, and has its own map still.
Sane(x, state, isForced, lines) ==
  /\ IsState(state)
  /\ state.at \in {"idle", "stat", "compare", "store", "parse", "publish", "load"}
  /\ state.lazy \in BOOLEAN
  /\ state.mtime \in 0..LastSecond
  /\ ReadBy(state.map, lines)
  /\ state.lazy => ~isForced /\ state.at \in {"stat", "compare", "store", "parse"}
  /\ state.lazy /\ x # Caller => state.map.some
  /\ state.at = "publish" => x # Caller /\ state.map.some
  /\ state.at = "load" => x = Caller
  /\ x = Caller /\ ~state.lazy => state.at \in {"idle", "load"}

FileInv ==
  /\ exists \in BOOLEAN
  /\ written \in 0..Len(Output)
  /\ tail \in {"none", "short", "cut"}
  /\ tail # "none" => written < Len(Output)
  /\ mtime \in 0..LastSecond /\ clock \in 0..LastSecond /\ MTIME \in 0..LastSecond
ThreadsInv ==
  /\ forced \in BOOLEAN
  /\ actor = [x \in Actors |-> actor[x]]
  /\ \A x \in Actors : Sane(x, actor[x], forced, written)
  /\ \A x, y \in Actors : actor[x].lazy /\ actor[y].lazy => x = y
ResolverInv ==
  /\ ~forced => RESOLVER = None
  /\ ReadBy(RESOLVER, written)
MapsInv == FileInv /\ ThreadsInv /\ ResolverInv

\* What was read stays a map of the file, that only grows.
LEMMA Grows ==
  ASSUME NEW lines \in Nat, NEW more \in Nat, lines <= more, NEW map,
         ReadBy(map, lines)
  PROVE  ReadBy(map, more)
BY DEF ReadBy

\* The updates of a thread's state.
LEMMA Fields ==
  ASSUME NEW state, IsState(state), NEW at, NEW mt, NEW lazy
  PROVE  /\ LET next == [state EXCEPT !.at = at]
            IN  /\ next.at = at /\ next.lazy = state.lazy
                /\ next.mtime = state.mtime /\ next.map = state.map
                /\ next \in [at : {at}, lazy : {state.lazy}, mtime : {state.mtime},
                             map : {state.map}]
         /\ LET next == [state EXCEPT !.at = at, !.mtime = mt]
            IN  /\ next.at = at /\ next.lazy = state.lazy
                /\ next.mtime = mt /\ next.map = state.map
                /\ next \in [at : {at}, lazy : {state.lazy}, mtime : {mt},
                             map : {state.map}]
         /\ LET next == [state EXCEPT !.at = at, !.lazy = lazy]
            IN  /\ next.at = at /\ next.lazy = lazy
                /\ next.mtime = state.mtime /\ next.map = state.map
                /\ next \in [at : {at}, lazy : {lazy}, mtime : {state.mtime},
                             map : {state.map}]
BY DEF IsState

\* One thread takes a step, and the resolver is not initialised by it.
LEMMA OneMoves ==
  ASSUME ThreadsInv, NEW x \in Actors, NEW state, Become(x, state),
         UNCHANGED <<written, forced>>, Sane(x, state, forced, written),
         state.lazy => actor[x].lazy \/ ~Forcing
  PROVE  ThreadsInv'
<1>1. /\ actor' = [actor EXCEPT ![x] = state]
      /\ \A y \in Actors : actor'[y] = IF y = x THEN state ELSE actor[y]
      /\ actor' = [y \in Actors |-> actor'[y]]
  BY DEF ThreadsInv, Become
<1>2. \A y \in Actors : Sane(y, actor'[y], forced', written')
  BY <1>1 DEF ThreadsInv
<1>3. ASSUME NEW y \in Actors, NEW z \in Actors, actor'[y].lazy, actor'[z].lazy
      PROVE  y = z
  BY <1>1, <1>3 DEF ThreadsInv, Forcing
<1> QED
  BY <1>1, <1>2, <1>3 DEF ThreadsInv

LEMMA FinishKeeps ==
  ASSUME MapsInv, NEW x \in Actors, NEW map, OfTheFile(map),
         actor[x].at \in {"stat", "compare", "parse"}, Finish(x, map), UNCHANGED disk
  PROVE  MapsInv' /\ (RESOLVER.some => RESOLVER'.some)
<1> USE DEF MapsInv
<1>0. UNCHANGED <<exists, written, tail, mtime, clock>> /\ Sane(x, actor[x], forced, written)
  BY DEF disk, ThreadsInv
<1>1. CASE actor[x].lazy
  <2> DEFINE state == [actor[x] EXCEPT !.at = IF x = Caller THEN "load" ELSE "publish",
                                       !.lazy = FALSE]
  <2>1. /\ forced' = TRUE /\ RESOLVER' = map /\ actor' = [actor EXCEPT ![x] = state]
        /\ MTIME' = MTIME
    BY <1>1 DEF Finish, Become
  <2>a. /\ state \in [at : {IF x = Caller THEN "load" ELSE "publish"}, lazy : {FALSE},
                       mtime : {actor[x].mtime}, map : {actor[x].map}]
        /\ state.at = IF x = Caller THEN "load" ELSE "publish"
        /\ state.lazy = FALSE
        /\ state.mtime = actor[x].mtime /\ state.map = actor[x].map
    BY <1>0, Fields DEF Sane
  <2> HIDE DEF state
  <2>b. IsState(state) /\ ~state.lazy /\ state.lazy \in BOOLEAN
    BY <2>a DEF IsState
  <2>2. Sane(x, state, TRUE, written) /\ ~state.lazy
    BY <1>0, <1>1, <2>a, <2>b DEF Sane
  <2>3. /\ \A y \in Actors : actor'[y] = IF y = x THEN state ELSE actor[y]
        /\ actor' = [y \in Actors |-> actor'[y]]
    BY <2>1 DEF ThreadsInv
  <2>4. ASSUME NEW y \in Actors
        PROVE  Sane(y, actor'[y], TRUE, written) /\ ~actor'[y].lazy
    <3>1. CASE y = x
      BY <2>2, <2>3, <3>1
    <3>2. CASE y # x
      <4>1. actor'[y] = actor[y] /\ ~actor[y].lazy /\ Sane(y, actor[y], forced, written)
        BY <1>1, <2>3, <3>2 DEF ThreadsInv
      <4> QED
        BY <4>1 DEF Sane
    <3> QED
      BY <3>1, <3>2
  <2>5. ThreadsInv'
    BY <1>0, <2>1, <2>3, <2>4 DEF ThreadsInv
  <2>6. ~RESOLVER.some
    BY <1>0, <1>1 DEF Sane, ResolverInv, None
  <2> QED
    BY <1>0, <2>1, <2>5, <2>6 DEF FileInv, ResolverInv, OfTheFile
<1>2. CASE ~actor[x].lazy
  <2> DEFINE state == IF map.some THEN [Idle EXCEPT !.at = "publish", !.map = map]
                      ELSE Idle
  <2>1. Become(x, state) /\ UNCHANGED <<MTIME, forced, RESOLVER>>
    BY <1>2 DEF Finish, statics
  <2>2. x # Caller
    BY <1>0, <1>2 DEF Sane
  <2>a. state = [at |-> IF map.some THEN "publish" ELSE "idle", lazy |-> FALSE,
                 mtime |-> 0, map |-> IF map.some THEN map ELSE None]
    BY DEF Idle
  <2> HIDE DEF state
  <2>b. /\ IsState(state)
        /\ state.at = IF map.some THEN "publish" ELSE "idle"
        /\ ~state.lazy /\ state.lazy \in BOOLEAN
        /\ state.mtime = 0 /\ state.map = IF map.some THEN map ELSE None
    BY <2>a DEF IsState
  <2>c. 0 \in 0..LastSecond /\ ReadBy(state.map, written)
    BY <2>b, PerfMapAssumption DEF OfTheFile, ReadBy
  <2>3. Sane(x, state, forced, written) /\ ~state.lazy
    BY <2>2, <2>b, <2>c DEF Sane
  <2>4. ThreadsInv'
    BY <1>0, <2>1, <2>3, OneMoves
  <2> QED
    BY <1>0, <2>1, <2>4 DEF FileInv, ResolverInv
<1> QED
  BY <1>1, <1>2 DEF ThreadsInv, Sane

LEMMA MapsInit == Init => MapsInv
<1> SUFFICES ASSUME Init
             PROVE  MapsInv
  OBVIOUS
<1>0. /\ Len(Output) \in Nat /\ LastSecond \in Nat /\ 1 <= LastSecond
      /\ 0 \in 0..Len(Output) /\ 0 \in 0..LastSecond /\ 1 \in 0..LastSecond
  BY PerfMapAssumption
<1>1. \A x \in Actors : actor[x] = Idle
  BY DEF Init
<1>2. /\ IsState(Idle) /\ Idle.at = "idle" /\ Idle.lazy = FALSE /\ Idle.mtime = 0
      /\ Idle.map = None
  BY DEF Idle, IsState
<1>3. FileInv /\ ResolverInv
  <2>1. ResolverInv
    BY DEF Init, ResolverInv, ReadBy
  <2>2. FileInv
    BY <1>0 DEF Init, FileInv
  <2> QED
    BY <2>1, <2>2
<1>4. \A x \in Actors : Sane(x, actor[x], forced, written) /\ ~actor[x].lazy
  <2>1. \A x \in Actors : Sane(x, Idle, forced, written)
    BY <1>0, <1>2 DEF Sane, ReadBy
  <2> QED
    BY <1>1, <1>2, <2>1
<1>5. actor = [x \in Actors |-> actor[x]] /\ forced \in BOOLEAN
  BY DEF Init
<1> QED
  BY <1>3, <1>4, <1>5 DEF MapsInv, ThreadsInv

\* A step of the compiler or of the clock.
LEMMA CompilerKeeps ==
  ASSUME MapsInv, Compiler \/ Second
  PROVE  MapsInv' /\ (RESOLVER.some => RESOLVER'.some)
<1> USE PerfMapAssumption DEF MapsInv
<1>1. /\ UNCHANGED <<MTIME, forced, RESOLVER, actor>>
      /\ written' \in {written, written + 1} /\ written' <= Len(Output)
      /\ written \in Nat /\ written' \in Nat /\ written <= written'
  BY DEF Compiler, Second, WritePart, WriteLine, statics, FileInv
<1>2. FileInv'
  <2>0. Len(Output) \in Nat /\ LastSecond \in Nat
    OBVIOUS
  <2>1. CASE WritePart
    BY <2>0, <2>1 DEF WritePart, Modified, statics, FileInv
  <2>2. CASE WriteLine
    BY <1>1, <2>0, <2>2 DEF WriteLine, Modified, statics, FileInv
  <2>3. CASE Second
    BY <2>0, <2>3 DEF Second, statics, FileInv
  <2> QED
    BY <2>1, <2>2, <2>3 DEF Compiler
<1>3. \A x \in Actors : Sane(x, actor[x], forced, written')
  <2>1. \A x \in Actors : ReadBy(actor[x].map, written')
    BY <1>1, Grows DEF ThreadsInv, Sane
  <2> QED
    BY <2>1 DEF ThreadsInv, Sane
<1>4. ReadBy(RESOLVER, written')
  BY <1>1, Grows DEF ResolverInv
<1> QED
  BY <1>1, <1>2, <1>3, <1>4 DEF ThreadsInv, ResolverInv

\* A step of a thread, or a new one.
LEMMA ThreadKeeps ==
  ASSUME MapsInv, NEW x \in Actors, Step(x)
  PROVE  MapsInv' /\ (RESOLVER.some => RESOLVER'.some)
<1> USE PerfMapAssumption DEF MapsInv
<1>0. /\ Sane(x, actor[x], forced, written) /\ IsState(actor[x])
      /\ OfTheFile(None) /\ 0 \in 0..LastSecond
  BY DEF ThreadsInv, Sane, OfTheFile, ReadBy
<1>1. CASE Stat(x)
  <2>0. UNCHANGED disk
    BY <1>1 DEF Stat
  <2>1. CASE exists
    <3> DEFINE state == [actor[x] EXCEPT !.at = "compare", !.mtime = mtime]
    <3>1. Become(x, state) /\ UNCHANGED <<statics, disk>> /\ actor[x].at = "stat"
      BY <1>1, <2>1 DEF Stat
    <3>2. /\ state \in [at : {"compare"}, lazy : {actor[x].lazy}, mtime : {mtime},
                        map : {actor[x].map}]
          /\ state.at = "compare" /\ state.lazy = actor[x].lazy
          /\ state.mtime = mtime /\ state.map = actor[x].map
      BY <1>0, Fields
    <3> HIDE DEF state
    <3>3. Sane(x, state, forced, written)
      BY <1>0, <3>1, <3>2 DEF Sane, IsState, FileInv
    <3>4. ThreadsInv'
      BY <3>1, <3>2, <3>3, OneMoves DEF statics, disk
    <3> QED
      BY <3>1, <3>4 DEF FileInv, ResolverInv, statics, disk
  <2>2. CASE ~exists
    <3>1. Finish(x, None) /\ actor[x].at = "stat"
      BY <1>1, <2>2 DEF Stat
    <3> QED
      BY <1>0, <2>0, <3>1, FinishKeeps
  <2> QED
    BY <2>1, <2>2
<1>2. CASE Compare(x)
  <2>0. UNCHANGED disk /\ actor[x].at = "compare"
    BY <1>2 DEF Compare
  <2>1. CASE Finish(x, None)
    BY <1>0, <2>0, <2>1, FinishKeeps
  <2>2. CASE Goto(x, "store") /\ UNCHANGED statics
    <3> DEFINE state == [actor[x] EXCEPT !.at = "store"]
    <3>1. Become(x, state)
      BY <2>2 DEF Goto, Become, ThreadsInv
    <3>2. /\ state \in [at : {"store"}, lazy : {actor[x].lazy}, mtime : {actor[x].mtime},
                        map : {actor[x].map}]
          /\ state.at = "store" /\ state.lazy = actor[x].lazy
          /\ state.mtime = actor[x].mtime /\ state.map = actor[x].map
      BY <1>0, Fields
    <3> HIDE DEF state
    <3>3. Sane(x, state, forced, written)
      BY <1>0, <2>0, <3>2 DEF Sane, IsState
    <3>4. ThreadsInv'
      BY <2>0, <2>2, <3>1, <3>2, <3>3, OneMoves DEF statics, disk
    <3> QED
      BY <2>0, <2>2, <3>4 DEF FileInv, ResolverInv, statics, disk
  <2> QED
    BY <1>2, <2>1, <2>2 DEF Compare
<1>3. CASE Store(x)
  <2> DEFINE state == [actor[x] EXCEPT !.at = "parse"]
  <2>1. /\ Become(x, state) /\ actor[x].at = "store" /\ MTIME' = actor[x].mtime
        /\ UNCHANGED <<exists, written, tail, mtime, clock, forced, RESOLVER>>
    BY <1>3 DEF Store, Goto, Become, ThreadsInv, disk
  <2>2. /\ state \in [at : {"parse"}, lazy : {actor[x].lazy}, mtime : {actor[x].mtime},
                      map : {actor[x].map}]
        /\ state.at = "parse" /\ state.lazy = actor[x].lazy
        /\ state.mtime = actor[x].mtime /\ state.map = actor[x].map
    BY <1>0, Fields
  <2> HIDE DEF state
  <2>3. Sane(x, state, forced, written) /\ actor[x].mtime \in 0..LastSecond
    BY <1>0, <2>1, <2>2 DEF Sane, IsState
  <2>4. ThreadsInv'
    BY <2>1, <2>2, <2>3, OneMoves
  <2> QED
    BY <2>1, <2>3, <2>4 DEF FileInv, ResolverInv
<1>4. CASE Parse(x)
  <2>1. PICK map \in PerfMapNew : Finish(x, map)
    BY <1>4 DEF Parse
  <2>2. OfTheFile(map)
    BY <2>1, NewMap DEF FileInv
  <2> QED
    BY <1>4, <2>1, <2>2, FinishKeeps DEF Parse
<1>5. CASE ForceLazy(x)
  <2> DEFINE state == [actor[x] EXCEPT !.at = "stat", !.lazy = TRUE]
  <2>1. /\ Become(x, state) /\ actor[x].at \in {"load", "publish"} /\ ~forced /\ ~Forcing
        /\ exists' = TRUE /\ mtime' \in {mtime, clock}
        /\ UNCHANGED <<written, tail, clock, MTIME, forced, RESOLVER>>
    BY <1>5 DEF ForceLazy, statics
  <2>2. /\ state \in [at : {"stat"}, lazy : {TRUE}, mtime : {actor[x].mtime},
                      map : {actor[x].map}]
        /\ state.at = "stat" /\ state.lazy = TRUE
        /\ state.mtime = actor[x].mtime /\ state.map = actor[x].map
    BY <1>0, Fields
  <2> HIDE DEF state
  <2>3. actor[x].at = "load" => x = Caller
    BY <1>0, <1>5 DEF Sane, ThreadsInv
  <2>4. Sane(x, state, forced, written)
    BY <1>0, <2>1, <2>2, <2>3 DEF Sane, IsState
  <2>5. ThreadsInv'
    BY <2>1, <2>2, <2>4, OneMoves
  <2> QED
    BY <2>1, <2>5 DEF FileInv, ResolverInv
<1>6. CASE Load(x) \/ Publish(x)
  <2>1. /\ Become(x, Idle) /\ forced /\ actor[x].at \in {"load", "publish"}
        /\ UNCHANGED <<exists, written, tail, mtime, clock, MTIME, forced>>
        /\ \/ RESOLVER' = RESOLVER
           \/ actor[x].at = "publish" /\ RESOLVER' = actor[x].map
    BY <1>6 DEF Load, Publish, disk, statics
  <2>2. /\ IsState(Idle) /\ Idle.at = "idle" /\ Idle.lazy = FALSE /\ Idle.mtime = 0
        /\ Idle.map = None
    BY DEF Idle, IsState
  <2>3. Sane(x, Idle, forced, written)
    BY <1>0, <2>2 DEF Sane, ReadBy
  <2>4. ThreadsInv'
    BY <2>1, <2>2, <2>3, OneMoves
  <2>5. ResolverInv' /\ (RESOLVER.some => RESOLVER'.some)
    BY <1>0, <2>1 DEF ResolverInv, Sane
  <2> QED
    BY <2>1, <2>4, <2>5 DEF FileInv
<1> QED
  BY <1>1, <1>2, <1>3, <1>4, <1>5, <1>6 DEF Step

LEMMA NewThreadKeeps ==
  ASSUME MapsInv, GetResolver
  PROVE  MapsInv' /\ (RESOLVER.some => RESOLVER'.some)
<1> USE DEF MapsInv
<1>1. PICK r \in Refreshers :
        /\ actor[r] = Idle /\ actor[Caller] = Idle
        /\ actor' = [actor EXCEPT ![r].at = "stat", ![Caller].at = "load"]
        /\ UNCHANGED <<disk, statics>>
  BY DEF GetResolver
<1>2. r \in Actors /\ Caller \in Actors /\ r # Caller
  BY PerfMapAssumption DEF Actors
<1>3. /\ UNCHANGED <<exists, written, tail, mtime, clock, MTIME, forced, RESOLVER>>
      /\ actor = [y \in Actors |-> actor[y]]
      /\ \A y \in Actors : Sane(y, actor[y], forced, written)
  BY <1>1 DEF disk, statics, ThreadsInv
<1> DEFINE asked == [Idle EXCEPT !.at = "stat"]
           waiting == [Idle EXCEPT !.at = "load"]
<1>4. /\ actor' = [y \in Actors |-> actor'[y]]
      /\ actor'[r] = asked /\ actor'[Caller] = waiting
      /\ \A y \in Actors : y # r /\ y # Caller => actor'[y] = actor[y]
  BY <1>1, <1>2, <1>3
<1>5. /\ IsState(asked) /\ asked.at = "stat" /\ asked.lazy = FALSE
      /\ asked.mtime = 0 /\ asked.map = None
      /\ IsState(waiting) /\ waiting.at = "load" /\ waiting.lazy = FALSE
      /\ waiting.mtime = 0 /\ waiting.map = None
  BY DEF Idle, IsState
<1> HIDE DEF asked, waiting
<1>6. Sane(r, asked, forced, written) /\ Sane(Caller, waiting, forced, written)
  <2>1. 0 \in 0..LastSecond /\ ReadBy(None, written)
    BY PerfMapAssumption DEF ReadBy
  <2> QED
    BY <1>2, <1>5, <2>1 DEF Sane
<1>7. \A y \in Actors : Sane(y, actor'[y], forced, written)
  BY <1>3, <1>4, <1>6
<1>8. \A y \in Actors : actor'[y].lazy => actor[y].lazy
  BY <1>4, <1>5
<1> QED
  BY <1>3, <1>4, <1>7, <1>8 DEF ThreadsInv, FileInv, ResolverInv

LEMMA MapsStep ==
  ASSUME MapsInv, [Next]_vars
  PROVE  MapsInv' /\ (RESOLVER.some => RESOLVER'.some)
<1>1. CASE Compiler \/ Second
  BY <1>1, CompilerKeeps
<1>2. CASE GetResolver
  BY <1>2, NewThreadKeeps
<1>3. CASE \E x \in Actors : Step(x)
  BY <1>3, ThreadKeeps
<1>4. CASE UNCHANGED vars
  <2>1. UNCHANGED <<exists, written, tail, mtime, clock, MTIME, forced, RESOLVER, actor>>
    BY <1>4 DEF vars, disk, statics
  <2> QED
    BY <2>1 DEF MapsInv, FileInv, ThreadsInv, ResolverInv
<1> QED
  BY <1>1, <1>2, <1>3, <1>4 DEF Next

LEMMA MapsAlways == Spec => []MapsInv
<1>1. MapsInv /\ [Next]_vars => MapsInv'
  BY MapsStep
<1> QED
  BY <1>1, MapsInit, PTL DEF Spec

-----------------------------------------------------------------------------
(* The theorems                                                             *)

\* The file, the statics and the threads keep to their types, for any file and any
\* number of threads: a thread that publishes is a spawned one and has a map, and
\* nobody is an initialiser once the resolver has a value (get_resolver).
THEOREM MapTypes == Spec => []TypeOK
<1>1. MapsInv => TypeOK
  <2> SUFFICES ASSUME MapsInv
               PROVE  TypeOK
    OBVIOUS
  <2>1. FileInv /\ ThreadsInv
    BY DEF MapsInv
  <2>2. \A x \in Actors :
          /\ actor[x].at \in {"idle", "stat", "compare", "store", "parse", "publish", "load"}
          /\ actor[x].lazy => ~forced
          /\ actor[x].at = "publish" => x # Caller /\ actor[x].map.some
    BY <2>1 DEF ThreadsInv, Sane
  <2> QED
    BY <2>1, <2>2 DEF TypeOK, FileInv, ThreadsInv
<1> QED
  BY <1>1, MapsAlways, PTL

\* Once the resolver has a map it never again has none, whichever of the threads that
\* init_resolver runs in, or the initialiser, stores last.
THEOREM KeepsAMap == Spec => NeverForgets
<1>1. MapsInv /\ [Next]_vars => [RESOLVER.some => RESOLVER'.some]_vars
  BY MapsStep
<1> QED
  BY <1>1, MapsAlways, PTL DEF Spec, NeverForgets

\* Whatever map is there, of however old a file, find() names an address after the
\* first line written for it, or has the unfinished name of the last line read.
THEOREM RightNames == Spec => []NamesOfTheFile
<1>1. MapsInv => NamesOfTheFile
  BY NamesRight DEF MapsInv, FileInv, ResolverInv, OfTheFile
<1> QED
  BY <1>1, MapsAlways, PTL
=============================================================================
