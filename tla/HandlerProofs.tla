---------------------------- MODULE HandlerProofs ----------------------------
(***************************************************************************)
(* Handler, for every memory, register, blocklist, depth and unmapping: it *)
(* walks up the stack, within its bounds, reads only what it may, ignores  *)
(* what it was asked to ignore, ends, and tells whose sample it took.      *)
(***************************************************************************)
EXTENDS Handler, SequenceTheorems, WellFoundedInduction, TLAPS

-----------------------------------------------------------------------------
(* The walk                                                                 *)

\* What was validated stays readable but for what is unmapped meanwhile.
Walking ==
  pc \in {"ret", "next", "fault"} => frame_pointer \in (mapped \cup unmapped) \ {0}
WalkInv == TypeOK /\ Walking /\ FaultsOnlyRaced

LEMMA WalkInit == Init => WalkInv
<1> SUFFICES ASSUME Init
             PROVE  WalkInv
  OBVIOUS
<1>1. \A S \in SUBSET (Addresses \ {0}) : S \cup Own \subseteq Addresses
  BY DEF Own
<1>2. mapped \subseteq Addresses
  BY <1>1 DEF Init
<1>3. 0 \in Addresses
  BY FramePointerAssumption DEF Addresses
<1> QED
  BY <1>2, <1>3 DEF Init, WalkInv, TypeOK, Walking, FaultsOnlyRaced

LEMMA WalkStep ==
  ASSUME WalkInv, Walk
  PROVE  WalkInv'
<1> USE DEF WalkInv, TypeOK, Walking, FaultsOnlyRaced
<1>1. CASE Check
  BY <1>1 DEF Check
<1>2. CASE Validate
  BY <1>2 DEF Validate, Valid
<1>3. CASE ReadRet
  <2>1. memory[frame_pointer].ret \in Ips
    BY <1>3 DEF ReadRet, Layouts
  <2>2. bt' \in Seq(Ips)
    BY <1>3, <2>1, AppendProperties DEF ReadRet, Callback
  <2> QED
    BY <1>3, <2>2 DEF ReadRet, Callback
<1>4. CASE ReadNext
  BY <1>4 DEF ReadNext, Layouts
<1>5. CASE Fault
  BY <1>5 DEF Fault
<1> QED
  BY <1>1, <1>2, <1>3, <1>4, <1>5 DEF Walk

LEMMA UnmapStep ==
  ASSUME WalkInv, Unmap
  PROVE  WalkInv'
BY DEF Unmap, WalkInv, TypeOK, Walking, FaultsOnlyRaced

LEMMA WalkInvStep == WalkInv /\ [HandlerNext]_handlerVars => WalkInv'
<1> SUFFICES ASSUME WalkInv, [HandlerNext]_handlerVars
             PROVE  WalkInv'
  OBVIOUS
<1>1. CASE UNCHANGED vars
  BY <1>1 DEF vars, WalkInv, TypeOK, Walking, FaultsOnlyRaced
<1>2. CASE Trace
  BY <1>2, WalkStep DEF Trace
<1>3. CASE Unmap
  BY <1>3, UnmapStep
<1> QED
  BY <1>1, <1>2, <1>3
  DEF HandlerNext, HandlerStep, Enter, Sample, handlerVars

LEMMA WalkInvariant == HandlerSpec => []WalkInv
<1>1. HandlerInit => WalkInv
  BY WalkInit DEF HandlerInit
<1> QED
  BY <1>1, WalkInvStep, PTL DEF HandlerSpec

\* The types hold in every reachable state, for every stack and depth.
THEOREM WalkTypes == HandlerSpec => []TypeOK
<1>1. WalkInv => TypeOK
  BY DEF WalkInv
<1> QED
  BY <1>1, WalkInvariant, PTL

\* Whatever the register and the memory hold, only memory unmapped during the walk
\* makes it fault.
THEOREM Raced == HandlerSpec => []FaultsOnlyRaced
<1>1. WalkInv => FaultsOnlyRaced
  BY DEF WalkInv
<1> QED
  BY <1>1, WalkInvariant, PTL

-----------------------------------------------------------------------------
(* The blocklist                                                            *)

\* is_blocklisted(), with its two strict comparisons, means the addresses of the
\* libraries that were named, but the first of each segment.
LEMMA Blocklisting ==
  ASSUME NEW ip \in Nat
  PROVE  IsBlocklisted(ip) <=> ip \in Unwanted
<1>1. ASSUME IsBlocklisted(ip)
      PROVE  ip \in Unwanted
  <2>1. PICK shlib \in Loaded : /\ InBlocklist(shlib)
                                /\ \E seg \in shlib.segments :
                                     LET segment == Segment(shlib, seg)
                                     IN  ip > segment.start /\ ip < segment.end
    BY <1>1 DEF IsBlocklisted, BlocklistSegments
  <2>2. PICK seg \in shlib.segments :
          ip > shlib.base + seg.offset /\ ip < shlib.base + seg.offset + seg.len
    BY <2>1 DEF Segment
  <2>3. shlib.base \in Nat /\ seg.offset \in Nat /\ seg.len \in Nat
    BY BlocklistAssumption
  <2> DEFINE i == ip - (shlib.base + seg.offset)
  <2>4. i \in 1..(seg.len - 1) /\ ip = shlib.base + seg.offset + i
    BY <2>2, <2>3
  <2>5. ip \in Inside(shlib)
    BY <2>4 DEF Inside
  <2> QED
    BY <2>1, <2>5 DEF Unwanted
<1>2. ASSUME ip \in Unwanted
      PROVE  IsBlocklisted(ip)
  <2>1. PICK shlib \in Loaded : InBlocklist(shlib) /\ ip \in Inside(shlib)
    BY <1>2 DEF Unwanted
  <2>2. PICK seg \in shlib.segments :
          \E i \in 1..(seg.len - 1) : ip = shlib.base + seg.offset + i
    BY <2>1 DEF Inside
  <2>3. shlib.base \in Nat /\ seg.offset \in Nat /\ seg.len \in Nat
    BY BlocklistAssumption
  <2>4. ip > shlib.base + seg.offset /\ ip < shlib.base + seg.offset + seg.len
    BY <2>2, <2>3
  <2>5. Segment(shlib, seg) \in BlocklistSegments
    BY <2>1 DEF BlocklistSegments
  <2> QED
    BY <2>4, <2>5 DEF IsBlocklisted, Segment
<1> QED
  BY <1>1, <1>2

-----------------------------------------------------------------------------
(* The sample                                                               *)

\* No frame is unwanted even before the interrupted address was looked up.
SampleInv == addr \in Nat /\ Range(bt) \cap Unwanted = {} /\ Backtraces

LEMMA CallbackKeeps ==
  ASSUME TypeOK, NEW ip \in Ips, Callback(ip),
         Len(bt) <= MAX_DEPTH, Range(bt) \cap Unwanted = {}
  PROVE  Len(bt') <= MAX_DEPTH /\ Range(bt') \cap Unwanted = {}
<1>1. CASE bt' = bt
  BY <1>1
<1>2. CASE bt' = Append(bt, ip) /\ ~IsBlocklisted(ip) /\ ~(Len(bt) >= MAX_DEPTH)
  <2>1. bt \in Seq(Ips) /\ Len(bt) \in Nat /\ MAX_DEPTH \in Nat
    BY FramePointerAssumption, LenProperties DEF TypeOK
  <2>2. Len(bt') = Len(bt) + 1
    BY <1>2, <2>1, AppendProperties
  <2>3. Range(bt') = Range(bt) \cup {ip}
    <3>1. DOMAIN bt = 1..Len(bt) /\ DOMAIN bt' = 1..(Len(bt) + 1)
      BY <1>2, <2>1, AppendProperties, LenProperties
    <3>2. /\ \A i \in 1..Len(bt) : bt'[i] = bt[i]
          /\ bt'[Len(bt) + 1] = ip
      BY <1>2, <2>1, AppendProperties
    <3> QED
      BY <2>1, <3>1, <3>2 DEF Range
  <2>4. ip \notin Unwanted
    BY <1>2, Blocklisting, FramePointerAssumption
  <2> QED
    BY <1>2, <2>1, <2>2, <2>3, <2>4
<1> QED
  BY <1>1, <1>2 DEF Callback

LEMMA SampleStep == WalkInv /\ SampleInv /\ [HandlerNext]_handlerVars => SampleInv'
<1> SUFFICES ASSUME WalkInv, SampleInv, [HandlerNext]_handlerVars
             PROVE  SampleInv'
  OBVIOUS
<1>1. CASE Enter
  BY <1>1, Blocklisting DEF Enter, SampleInv, Backtraces, vars
<1>2. CASE Trace /\ ReadRet
  <2>1. memory[frame_pointer].ret \in Ips
    BY <1>2 DEF ReadRet, Layouts, WalkInv, TypeOK, Walking
  <2>2. Len(bt') <= MAX_DEPTH /\ Range(bt') \cap Unwanted = {}
    BY <1>2, <2>1, CallbackKeeps DEF Trace, ReadRet, SampleInv, Backtraces, WalkInv
  <2> QED
    BY <1>2, <2>2 DEF Trace, handler, SampleInv, Backtraces
<1>3. CASE Sample
  BY <1>3 DEF Sample, SampleInv, Backtraces, vars
<1>4. CASE UNCHANGED <<bt, addr, at>>
  BY <1>4 DEF SampleInv, Backtraces
<1> QED
  BY <1>1, <1>2, <1>3, <1>4
  DEF HandlerNext, HandlerStep, Trace, Walk, Check, Validate, ReadNext, Fault, Unmap,
      handlerVars, handler, vars

LEMMA SampleInit == HandlerInit => SampleInv
<1> SUFFICES ASSUME HandlerInit
             PROVE  SampleInv
  OBVIOUS
<1>1. bt = <<>> /\ at = "entered" /\ addr \in Nat
  BY HandlerAssumption DEF HandlerInit, Init
<1>2. Range(bt) = {}
  BY <1>1 DEF Range
<1> QED
  BY <1>1, <1>2, FramePointerAssumption DEF SampleInv, Backtraces

\* For every blocklist and layout of the libraries, what is ignored is what was to
\* be, and no backtrace outgrows its array.
THEOREM Ignored == HandlerSpec => []Backtraces
<1>1. SampleInv => Backtraces
  BY DEF SampleInv
<1> QED
  BY <1>1, SampleInit, SampleStep, WalkInvariant, PTL DEF HandlerSpec

-----------------------------------------------------------------------------
(* How long it takes                                                        *)

Rank == [done |-> 1, ret |-> 2, validate |-> 3, check |-> 4, next |-> 5]

\* No more steps than these are left of a handler.
Left ==
  IF Returned THEN 0
  ELSE 4 * (MAX_DEPTH - Len(bt)) + Rank[pc] + (IF at = "entered" THEN 1 ELSE 0)

LeftInv ==
  /\ at \in {"entered", "walking", "dropped", "sampled"}
  /\ at = "entered" => pc = "check"
  /\ Len(bt) \in 0..MAX_DEPTH
  /\ bt \in Seq(Ips) /\ pc \in DOMAIN Rank \cup {"fault"}

LEMMA LeftStep ==
  ASSUME LeftInv, HandlerStep
  PROVE  Left \in Nat /\ Left' \in Nat /\ Left' < Left
<1>0. MAX_DEPTH \in Nat /\ Len(bt) \in 0..MAX_DEPTH
  BY FramePointerAssumption DEF LeftInv
<1>1. CASE Enter
  BY <1>0, <1>1 DEF Enter, LeftInv, Left, Returned, Rank, vars
<1>2. CASE Sample
  BY <1>0, <1>2 DEF Sample, LeftInv, Left, Returned, Rank, vars
<1>3. CASE Trace
  <2>1. at = "walking" /\ at' = at
    BY <1>3 DEF Trace, handler
  <2>2. CASE ReadRet
    <3>1. CASE bt' = bt /\ pc' = "done"
      BY <1>0, <2>1, <2>2, <3>1 DEF ReadRet, Left, Returned, Rank
    <3>2. ASSUME NEW ip, bt' = Append(bt, ip), ~(Len(bt) >= MAX_DEPTH), pc' = "next"
          PROVE  Left \in Nat /\ Left' \in Nat /\ Left' < Left
      <4>1. Len(bt') = Len(bt) + 1
        BY <3>2 DEF LeftInv
      <4> QED
        BY <1>0, <2>1, <2>2, <3>2, <4>1 DEF ReadRet, Left, Returned, Rank
    <3> QED
      BY <2>2, <3>1, <3>2 DEF ReadRet, Callback
  <2>3. CASE ~ReadRet
    <3>1. bt' = bt
      BY <1>3, <2>3 DEF Trace, Walk, Check, Validate, ReadNext, Fault
    <3>2. CASE Check
      BY <1>0, <2>1, <3>1, <3>2 DEF Check, Left, Returned, Rank
    <3>3. CASE Validate
      BY <1>0, <2>1, <3>1, <3>3 DEF Validate, Left, Returned, Rank
    <3>4. CASE ReadNext
      BY <1>0, <2>1, <3>1, <3>4 DEF ReadNext, Left, Returned, Rank
    <3>5. CASE Fault
      BY <1>0, <2>1, <3>1, <3>5 DEF Fault, Left, Returned, Rank
    <3> QED
      BY <1>3, <2>3, <3>2, <3>3, <3>4, <3>5 DEF Trace, Walk
  <2> QED
    BY <2>2, <2>3
<1> QED
  BY <1>1, <1>2, <1>3 DEF HandlerStep

\* Every handler ends within four steps a frame and five more, whatever the chain of
\* frame pointers: each step leaves fewer, and nothing else leaves more.  So
\* Returns needs no more than that the handler goes on running.
THEOREM Ends ==
  HandlerSpec =>
    /\ [](Left \in 0..(4 * MAX_DEPTH + 5))
    /\ [][IF HandlerStep THEN Left' < Left ELSE Left' = Left]_handlerVars
<1>1. WalkInv /\ SampleInv => Len(bt) \in 0..MAX_DEPTH /\ bt \in Seq(Ips)
  <2> SUFFICES ASSUME WalkInv, SampleInv
               PROVE  Len(bt) \in 0..MAX_DEPTH /\ bt \in Seq(Ips)
    OBVIOUS
  <2>1. bt \in Seq(Ips) /\ Len(bt) <= MAX_DEPTH /\ MAX_DEPTH \in Nat
    BY FramePointerAssumption DEF WalkInv, TypeOK, SampleInv, Backtraces
  <2> QED
    BY <2>1, LenProperties
<1> DEFINE Placed ==
             /\ at \in {"entered", "walking", "dropped", "sampled"}
             /\ at = "entered" => pc = "check"
<1>2. HandlerInit => Placed
  BY DEF HandlerInit, Init
<1>3. Placed /\ [HandlerNext]_handlerVars => Placed'
  BY DEF HandlerNext, HandlerStep, Enter, Trace, Sample, Walk, Check, Validate, ReadRet,
         ReadNext, Fault, Unmap, handlerVars, handler, vars
<1>4. Placed /\ WalkInv /\ SampleInv => LeftInv
  BY <1>1 DEF LeftInv, WalkInv, TypeOK, Rank
<1>5. LeftInv => Left \in 0..(4 * MAX_DEPTH + 5)
  <2> SUFFICES ASSUME LeftInv
               PROVE  Left \in 0..(4 * MAX_DEPTH + 5)
    OBVIOUS
  <2>1. MAX_DEPTH \in Nat /\ Len(bt) \in 0..MAX_DEPTH
    BY FramePointerAssumption DEF LeftInv
  <2> QED
    BY <2>1 DEF LeftInv, Left, Returned, Rank
<1>6. LeftInv /\ [HandlerNext]_handlerVars =>
        [IF HandlerStep THEN Left' < Left ELSE Left' = Left]_handlerVars
  <2>1. Unmap /\ UNCHANGED handler => Left' = Left
    BY DEF Unmap, handler, Left, Returned
  <2> QED
    BY <2>1, LeftStep DEF HandlerNext, handlerVars
<1>7. HandlerSpec => []SampleInv
  BY SampleInit, SampleStep, WalkInvariant, PTL DEF HandlerSpec
<1> HIDE DEF Placed
<1> QED
  BY <1>2, <1>3, <1>4, <1>5, <1>6, <1>7, WalkInvariant, PTL DEF HandlerSpec

-----------------------------------------------------------------------------
(* Powers of ten                                                            *)

Less == {p \in Nat \X Nat : p[1] < p[2]}

LEMMA Least ==
  ASSUME NEW S \in SUBSET Nat, S # {}
  PROVE  \E m \in S : \A n \in S : m <= n
<1>1. IsWellFoundedOn(Less, Nat)
  BY NatLessThanWellFounded, Zenon DEF Less, OpToRel
<1>2. PICK m \in S : \A n \in S : ~(<<n, m>> \in Less)
  BY <1>1, WFMin
<1>3. ASSUME NEW n \in S
      PROVE  m <= n
  <2>1. n \in Nat /\ m \in Nat /\ ~(<<n, m>> \in Less)
    BY <1>2
  <2>2. ~(n < m)
    BY <2>1 DEF Less
  <2> QED
    BY <2>1, <2>2
<1> QED
  BY <1>3

\* Induction up to a bound, for a predicate given as a function.
LEMMA UpTo ==
  ASSUME NEW N \in Nat, NEW P, P[0], \A n \in 0..N : n # N /\ P[n] => P[n + 1]
  PROVE  \A n \in 0..N : P[n]
<1> DEFINE I == {n \in 0..N : ~P[n]}
<1> SUFFICES ASSUME I # {}
             PROVE  FALSE
  OBVIOUS
<1>0. I \in SUBSET Nat
  OBVIOUS
<1>1. PICK m \in I : \A n \in I : m <= n
  BY <1>0, Least
<1>2. m \in 0..N /\ ~P[m] /\ m # 0
  OBVIOUS
<1>3. m - 1 \in 0..N /\ m - 1 # N /\ (m - 1) + 1 = m
  BY <1>2
<1>4. P[m - 1]
  BY <1>1, <1>3
<1> QED
  BY <1>2, <1>3, <1>4

\* The powers of ten up to the n-th.
Tens(f, n) == f = [len \in 0..n |-> IF len = 0 THEN 1 ELSE 10 * f[len - 1]]

\* The recursive function exists.
LEMMA Powers ==
  /\ Base[0] = 1
  /\ \A n \in 1..MAX_THREAD_NAME : Base[n] = 10 * Base[n - 1]
<1> DEFINE N == MAX_THREAD_NAME
           P == [n \in 0..N |-> \E f : Tens(f, n)]
<1>0. N \in Nat
  BY HandlerAssumption
<1>1. P[0]
  <2> DEFINE f == [len \in 0..0 |-> 1]
  <2>1. Tens(f, 0)
    BY DEF Tens
  <2> QED
    BY <1>0, <2>1
<1>2. ASSUME NEW n \in 0..N, n # N, P[n]
      PROVE  P[n + 1]
  <2>1. PICK f : Tens(f, n)
    BY <1>2
  <2> DEFINE more == [len \in 0..(n + 1) |-> IF len = n + 1 THEN 10 * f[n] ELSE f[len]]
  <2>2. \A len \in 0..n : f[len] = IF len = 0 THEN 1 ELSE 10 * f[len - 1]
    BY <2>1 DEF Tens
  <2>3. ASSUME NEW len \in 0..(n + 1)
        PROVE  more[len] = IF len = 0 THEN 1 ELSE 10 * more[len - 1]
    <3>1. \A l \in 0..n : more[l] = f[l]
      OBVIOUS
    <3>2. more[n + 1] = 10 * f[n]
      OBVIOUS
    <3>3. len = n + 1 \/ (len \in 0..n /\ (len # 0 => len - 1 \in 0..n))
      OBVIOUS
    <3>4. n + 1 # 0 /\ (n + 1) - 1 = n /\ n \in 0..n
      OBVIOUS
    <3> HIDE DEF more
    <3> QED
      BY <2>2, <3>1, <3>2, <3>3, <3>4
  <2>4. Tens(more, n + 1)
    <3>1. more = [len \in 0..(n + 1) |-> more[len]]
      OBVIOUS
    <3> HIDE DEF more
    <3> QED
      BY <2>3, <3>1 DEF Tens
  <2>5. n + 1 \in 0..N
    BY <1>0, <1>2
  <2> QED
    BY <2>4, <2>5
<1>3. \E f : Tens(f, N)
  <2>1. P[N]
    <3> HIDE DEF P, N
    <3> QED
      BY <1>0, <1>1, <1>2, UpTo
  <2> QED
    BY <1>0, <2>1
<1>4. Tens(Base, N)
  <2>1. Base = CHOOSE f : Tens(f, N)
    BY DEF Base, Tens
  <2> QED
    BY <1>3, <2>1, Zenon
<1>5. \A n \in 0..N : Base[n] = IF n = 0 THEN 1 ELSE 10 * Base[n - 1]
  BY <1>4 DEF Tens
<1> HIDE DEF N
<1>6. 0 \in 0..N /\ \A n \in 1..N : n \in 0..N /\ n # 0
  BY <1>0
<1> QED
  BY <1>5, <1>6 DEF N

LEMMA PowerType == \A n \in 0..MAX_THREAD_NAME : Base[n] \in Nat \ {0}
<1> DEFINE N == MAX_THREAD_NAME
           P == [n \in 0..N |-> Base[n] \in Nat \ {0}]
<1>0. N \in Nat
  BY HandlerAssumption
<1>1. P[0]
  <2>1. 0 \in 0..N /\ Base[0] \in Nat \ {0}
    BY <1>0, Powers
  <2> QED
    BY <2>1
<1>2. ASSUME NEW n \in 0..N, n # N, P[n]
      PROVE  P[n + 1]
  <2>1. n + 1 \in 1..N /\ n + 1 \in 0..N /\ (n + 1) - 1 = n
    BY <1>0, <1>2
  <2>2. Base[n + 1] = 10 * Base[n] /\ Base[n] \in Nat \ {0}
    BY <1>2, <2>1, Powers
  <2>3. Base[n + 1] \in Nat \ {0}
    BY <2>2
  <2> QED
    BY <2>1, <2>3
<1>3. \A n \in 0..N : P[n]
  <2> HIDE DEF P, N
  <2> QED
    BY <1>0, <1>1, <1>2, UpTo
<1> QED
  BY <1>3

\* A power of ten is a product of two.
LEMMA Split ==
  ASSUME NEW N \in 0..MAX_THREAD_NAME
  PROVE  \A i \in 0..N : Base[N] = Base[i] * Base[N - i]
<1> DEFINE P == [i \in 0..N |-> Base[N] = Base[i] * Base[N - i]]
<1>0. N \in Nat /\ MAX_THREAD_NAME \in Nat
  BY HandlerAssumption
<1>1. P[0]
  <2>1. N - 0 = N /\ Base[0] = 1 /\ Base[N] \in Nat /\ 0 \in 0..N
    BY <1>0, Powers, PowerType
  <2>2. Base[N] = Base[0] * Base[N - 0]
    BY <2>1
  <2> QED
    BY <2>1, <2>2
<1>2. ASSUME NEW i \in 0..N, i # N, P[i]
      PROVE  P[i + 1]
  <2>1. /\ i + 1 \in 0..N /\ i + 1 \in 1..MAX_THREAD_NAME /\ (i + 1) - 1 = i
        /\ N - i \in 1..MAX_THREAD_NAME /\ N - (i + 1) = (N - i) - 1
        /\ i \in 0..MAX_THREAD_NAME /\ N - (i + 1) \in 0..MAX_THREAD_NAME
    BY <1>0, <1>2
  <2>2. Base[i + 1] = 10 * Base[i] /\ Base[N - i] = 10 * Base[N - (i + 1)]
    BY <2>1, Powers
  <2>3. Base[i] \in Nat /\ Base[N - (i + 1)] \in Nat
    BY <2>1, PowerType
  <2>4. ASSUME NEW a \in Nat, NEW b \in Nat
        PROVE  a * (10 * b) = (10 * a) * b
    OBVIOUS
  <2>5. Base[N] = Base[i] * Base[N - i]
    BY <1>2
  <2>6. Base[N] = Base[i + 1] * Base[N - (i + 1)]
    BY <2>2, <2>3, <2>4, <2>5
  <2> QED
    BY <2>1, <2>6
<1>3. \A i \in 0..N : P[i]
  <2> HIDE DEF P
  <2> QED
    BY <1>0, <1>1, <1>2, UpTo
<1> QED
  BY <1>3

-----------------------------------------------------------------------------
(* Digits                                                                   *)

LEMMA Division ==
  ASSUME NEW a \in Nat, NEW b \in Nat \ {0}
  PROVE  /\ a \div b \in Nat /\ (a * b) \div b = a
         /\ a < b => a \div b = 0
         /\ a \div 1 = a
         /\ a \div (10 * b) = (a \div b) \div 10
         /\ 10 * (a \div 10) + (a % 10) = a
         /\ (10 * a) % 10 = 0
<1>1. a \div b \in Nat /\ a < b => a \div b = 0
  OBVIOUS
<1>2. (a * b) \div b = a
  OBVIOUS
<1>3. a \div (10 * b) = (a \div b) \div 10
  OBVIOUS
<1>4. a \div 1 = a /\ 10 * (a \div 10) + (a % 10) = a /\ (10 * a) % 10 = 0
  OBVIOUS
<1> QED
  BY <1>1, <1>2, <1>3, <1>4

\* The name made of the N digits of an id.
Digits(id, N) == [i \in 1..N |-> (id \div Base[N - i]) % 10]

\* What Told computes, after each digit of a name.
Values(f, name, N) ==
  f = [i \in 0..N |-> IF i = 0 THEN 0 ELSE 10 * f[i - 1] + name[i]]

\* The digits of an id, or the zeros of a power of ten, add up.
LEMMA DigitsAdd ==
  ASSUME NEW N \in 0..MAX_THREAD_NAME, NEW id \in 1..Base[N],
         NEW i \in 1..N
  PROVE  /\ id = Base[N] => Digits(id, N)[i] = 0
         /\ id \div Base[N - i] = 10 * (id \div Base[N - (i - 1)]) + Digits(id, N)[i]
<1>0. /\ N \in Nat /\ i \in 1..MAX_THREAD_NAME /\ i - 1 \in 0..MAX_THREAD_NAME
      /\ N - (i - 1) \in 1..MAX_THREAD_NAME /\ (N - (i - 1)) - 1 = N - i
      /\ N - i \in 0..MAX_THREAD_NAME /\ i \in 0..N
  BY HandlerAssumption
<1>1. /\ Base[N] \in Nat \ {0} /\ Base[N - i] \in Nat \ {0}
      /\ Base[i - 1] \in Nat \ {0}
  BY <1>0, PowerType
<1>2. Base[N - (i - 1)] = 10 * Base[N - i] /\ Base[i] = 10 * Base[i - 1]
  BY <1>0, Powers
<1>3. Digits(id, N)[i] = (id \div Base[N - i]) % 10
  BY DEF Digits
<1>4. id \in Nat
  BY <1>1
<1>5. id \div Base[N - i] \in Nat
  BY <1>1, <1>4, Division
<1>6. id \div (10 * Base[N - i]) = (id \div Base[N - i]) \div 10
  BY <1>1, <1>4, Division
<1>7. \A a \in Nat : 10 * (a \div 10) + (a % 10) = a
  BY Division
<1>8. ASSUME id = Base[N]
      PROVE  Digits(id, N)[i] = 0
  <2>1. id = Base[i] * Base[N - i]
    BY <1>0, <1>8, Split
  <2>2. Base[i] \in Nat
    BY <1>1, <1>2
  <2>3. id \div Base[N - i] = Base[i]
    BY <1>1, <2>1, <2>2, Division
  <2>4. Base[i] % 10 = 0
    BY <1>1, <1>2, Division
  <2> QED
    BY <1>3, <2>3, <2>4
<1> QED
  BY <1>2, <1>3, <1>5, <1>6, <1>7, <1>8

\* An id is found again from its digits.
LEMMA DigitsTell ==
  ASSUME NEW N \in 0..MAX_THREAD_NAME, NEW id \in 1..Base[N]
  PROVE  Told(Digits(id, N)) = id
<1> DEFINE name == Digits(id, N)
           value == [i \in 0..N |-> IF id = Base[N] THEN 0 ELSE id \div Base[N - i]]
           f == CHOOSE f : Values(f, name, N)
<1>0. N \in Nat /\ N \in 0..N /\ 0 \in 0..N /\ N - N = 0 /\ N - 0 = N
  BY HandlerAssumption
<1>1. Base[N] \in Nat \ {0} /\ Base[0] = 1 /\ id \in Nat \ {0}
  BY PowerType, Powers
<1>2. Len(name) = N
  <2> DEFINE S == {name[i] : i \in 1..N}
  <2>1. name \in [1..N -> S]
    BY DEF Digits
  <2> HIDE DEF name, S
  <2>2. name \in Seq(S)
    BY <1>0, <2>1, SeqDef
  <2> QED
    BY <1>0, <2>1, <2>2, LenProperties
<1>3. ASSUME NEW i \in 0..N
      PROVE  value[i] = IF i = 0 THEN 0 ELSE 10 * value[i - 1] + name[i]
  <2>1. CASE i = 0
    <3>1. id # Base[N] => id \div Base[N - 0] = 0
      BY <1>0, <1>1, Division
    <3> QED
      BY <2>1, <3>1
  <2>2. CASE i # 0
    <3>1. i \in 1..N /\ i - 1 \in 0..N
      BY <1>0, <2>2
    <3>2. /\ value[i] = IF id = Base[N] THEN 0 ELSE id \div Base[N - i]
          /\ value[i - 1] = IF id = Base[N] THEN 0 ELSE id \div Base[N - (i - 1)]
      BY <3>1
    <3>3. /\ id = Base[N] => name[i] = 0
          /\ id \div Base[N - i] = 10 * (id \div Base[N - (i - 1)]) + name[i]
      BY <3>1, DigitsAdd
    <3> HIDE DEF value, name
    <3> QED
      BY <2>2, <3>2, <3>3
  <2> QED
    BY <2>1, <2>2
<1>4. Values(value, name, N)
  <2>1. value = [i \in 0..N |-> value[i]]
    OBVIOUS
  <2> HIDE DEF value, name
  <2> QED
    BY <1>3, <2>1 DEF Values
<1>5. Values(f, name, N)
  <2> HIDE DEF value, name
  <2> QED
    BY <1>4, Zenon
<1>6. f[N] = value[N]
  <2> HIDE DEF f, value, name
  <2> DEFINE P == [i \in 0..N |-> f[i] = value[i]]
  <2>1. \A i \in 0..N : f[i] = IF i = 0 THEN 0 ELSE 10 * f[i - 1] + name[i]
    BY <1>5 DEF Values
  <2>2. P[0]
    BY <1>0, <1>3, <2>1
  <2>3. ASSUME NEW i \in 0..N, i # N, P[i]
        PROVE  P[i + 1]
    <3>1. i + 1 \in 0..N /\ i + 1 # 0 /\ (i + 1) - 1 = i
      BY <1>0, <2>3
    <3>2. f[i] = value[i]
      BY <2>3
    <3>3. f[i + 1] = value[i + 1]
      BY <1>3, <2>1, <3>1, <3>2
    <3> QED
      BY <3>1, <3>3
  <2>4. \A i \in 0..N : P[i]
    <3> HIDE DEF P
    <3> QED
      BY <1>0, <2>2, <2>3, UpTo
  <2> QED
    BY <1>0, <2>4
<1>7. value[N] = IF id = Base[N] THEN 0 ELSE id
  BY <1>0, <1>1, Division
<1>8. Told(name) = IF f[N] = 0 THEN Base[N] ELSE f[N]
  <2> HIDE DEF name
  <2> QED
    BY <1>2 DEF Told, Values
<1> HIDE DEF f, value, name
<1> QED
  BY <1>1, <1>6, <1>7, <1>8 DEF name

-----------------------------------------------------------------------------
(* Names                                                                    *)

\* The first loop ends before the name is full.
LEMMA Lengths ==
  ASSUME NEW id \in ThreadIds
  PROVE  Length(id) \in 0..MAX_THREAD_NAME /\ id \in 1..Base[Length(id)]
<1> DEFINE N == MAX_THREAD_NAME
           S == {len \in 0..N : len = N \/ id <= Base[len]}
<1>0. N \in Nat /\ N - 1 \in 0..N /\ N - 1 < N /\ id \in 1..Base[N - 1]
  BY HandlerAssumption
<1>1. PICK m \in S : \A n \in S : m <= n
  <2>1. N \in S /\ S \in SUBSET Nat
    BY <1>0
  <2> HIDE DEF S
  <2> QED
    BY <2>1, Least
<1>2. \A l \in 0..N : Base[l] \in Nat \ {0}
  BY PowerType
<1>3. id \in Nat
  BY <1>0, <1>2
<1>4. \A l \in 0..(m - 1) : id > Base[l]
  <2>1. ASSUME NEW l \in 0..(m - 1)
        PROVE  id > Base[l]
    <3>1. l \in 0..N /\ l # N /\ ~(m <= l)
      BY <1>0
    <3>2. l \notin S
      BY <1>1, <3>1
    <3> QED
      BY <1>2, <1>3, <3>1, <3>2
  <2> QED
    BY <2>1
<1> DEFINE len == Length(id)
<1>5. /\ len \in 0..N /\ (len = N \/ id <= Base[len])
      /\ \A l \in 0..(len - 1) : id > Base[l]
  <2>1. \E l \in 0..N : /\ l = N \/ id <= Base[l]
                        /\ \A k \in 0..(l - 1) : id > Base[k]
    BY <1>4
  <2> QED
    BY <2>1, Zenon DEF Length
<1> HIDE DEF len
<1>6. id <= Base[len]
  <2>1. CASE len = N
    BY <1>0, <1>2, <1>5, <2>1
  <2> QED
    BY <1>5, <2>1
<1>7. len \in 0..N /\ id \in 1..Base[len]
  BY <1>0, <1>2, <1>5, <1>6
<1> QED
  BY <1>7 DEF len

\* What format! prints is the digits of the id, as many as it takes.
LEMMA Decimals ==
  ASSUME NEW id \in ThreadIds
  PROVE  \E n \in 0..MAX_THREAD_NAME : id \in 1..Base[n] /\ Decimal(id) = Digits(id, n)
<1> DEFINE N == MAX_THREAD_NAME
           S == {n \in 1..N : id < Base[n]}
           Is(n) == id < Base[n] /\ (n = 1 \/ id >= Base[n - 1])
           n == CHOOSE n \in 1..N : Is(n)
<1>0. N \in Nat \ {0} /\ N - 1 \in 0..N /\ N \in 1..N /\ id \in 1..Base[N - 1]
  BY HandlerAssumption
<1>1. \A l \in 0..N : Base[l] \in Nat \ {0}
  BY PowerType
<1>2. id \in Nat /\ id < Base[N]
  <2>1. Base[N] = 10 * Base[N - 1]
    BY <1>0, Powers
  <2> QED
    BY <1>0, <1>1, <2>1
<1>3. PICK m \in S : \A l \in S : m <= l
  <2>1. N \in S /\ S \in SUBSET Nat
    BY <1>0, <1>2
  <2> HIDE DEF S
  <2> QED
    BY <2>1, Least
<1>4. Is(m)
  <2>1. CASE m # 1
    <3>1. m - 1 \in 1..N /\ m - 1 \in 0..N /\ ~(m <= m - 1)
      BY <1>0, <2>1
    <3>2. m - 1 \notin S
      BY <1>3, <3>1
    <3> QED
      BY <1>1, <1>2, <3>1, <3>2
  <2> QED
    BY <2>1
<1>5. n \in 1..N /\ Is(n)
  <2>1. m \in 1..N
    OBVIOUS
  <2> HIDE DEF Is
  <2> QED
    BY <1>4, <2>1, Zenon
<1>6. Decimal(id) = Digits(id, n)
  BY DEF Decimal, Digits
<1> HIDE DEF n
<1>7. n \in 0..N /\ id \in 1..Base[n]
  BY <1>0, <1>1, <1>2, <1>5
<1> QED
  BY <1>6, <1>7

\* A sample has the name of its thread that the system gave, or the digits of its id.
Named ==
  at = "sampled" =>
    /\ sample.thread_id \in ThreadIds
    /\ sample.thread_name = WriteThreadName(sample.thread_id, own)

LEMMA NamedStep == Named /\ [HandlerNext]_handlerVars => Named'
<1> SUFFICES ASSUME Named, [HandlerNext]_handlerVars
             PROVE  Named'
  OBVIOUS
<1>1. CASE Enter
  BY <1>1 DEF Enter, Named
<1>2. CASE Sample
  BY <1>2 DEF Sample, Named
<1>3. CASE UNCHANGED handler
  BY <1>3 DEF handler, Named, WriteThreadName
<1> QED
  BY <1>1, <1>2, <1>3 DEF HandlerNext, HandlerStep, Trace, handlerVars

\* For every id that has an end and every length of names, the thread of a sample can
\* be told from the name in the report.
THEOREM Tells == HandlerSpec => []TellsThread
<1>1. HandlerInit => Named
  BY DEF HandlerInit, Named
<1>2. Named => TellsThread
  <2> SUFFICES ASSUME Named, at = "sampled"
               PROVE  LET name == ThreadNameOrId(sample.thread_name, sample.thread_id)
                      IN  IF own \in {Refused, <<>>} THEN Told(name) = sample.thread_id
                          ELSE name = own
    BY DEF TellsThread
  <2> DEFINE id == sample.thread_id
  <2>1. id \in ThreadIds /\ sample.thread_name = WriteThreadName(id, own)
    BY DEF Named
  <2> HIDE DEF id
  <2>2. Told(Decimal(id)) = id
    BY <2>1, Decimals, DigitsTell
  <2>3. Told(Fallback(id)) = id
    <3>1. Fallback(id) = Digits(id, Length(id))
      BY DEF Fallback, Digits
    <3> QED
      BY <2>1, <3>1, Lengths, DigitsTell
  <2> QED
    BY <2>1, <2>2, <2>3 DEF WriteThreadName, ThreadNameOrId, id
<1> QED
  BY <1>1, <1>2, NamedStep, PTL DEF HandlerSpec
=============================================================================
