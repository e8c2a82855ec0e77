---------------------------- MODULE ReportProofs ----------------------------
(***************************************************************************)
(* Report, for any backtraces, collector and symbols: what it shows of a   *)
(* backtrace; and for any post-processor that leaves a sample with its     *)
(* thread: the rows of both reports add up.                                *)
(***************************************************************************)
EXTENDS Report, CollectorProofs, FiniteSetTheorems, WellFoundedInduction

-----------------------------------------------------------------------------
(* Sums                                                                     *)

Less == {p \in Nat \X Nat : p[1] < p[2]}

LEMMA Least ==
  ASSUME NEW S \in SUBSET Nat, S # {}
  PROVE  \E m \in S : \A n \in S : m <= n
<1>1. IsWellFoundedOn(Less, Nat)
  BY NatLessThanWellFounded, Zenon DEF Less, OpToRel
<1>2. PICK m \in S : \A n \in S : ~(<<n, m>> \in Less)
  BY <1>1, WFMin
<1>3. ASSUME NEW n \in S
      PROVE  m <= n
  <2>1. n \in Nat /\ m \in Nat /\ ~(<<n, m>> \in Less)
    BY <1>2
  <2>2. ~(n < m)
    BY <2>1 DEF Less
  <2> QED
    BY <2>1, <2>2
<1> QED
  BY <1>3

\* f gives the sum of count over each subset of I.
Sums(f, count, I) ==
  f = [s \in SUBSET I |->
         IF s = {} THEN 0
         ELSE LET x == CHOOSE x \in s : TRUE IN count[x] + f[s \ {x}]]

LEMMA SumDefined ==
  ASSUME NEW count, NEW I
  PROVE  SumFunctionOnSet(count, I) = (CHOOSE f : Sums(f, count, I))[I]
BY DEF SumFunctionOnSet, FoldFunctionOnSet, MapThenFoldSet, Sums

\* A family of sets, and how many members they have.
AreApart(sets, I, U) ==
  /\ \A i \in I : sets[i] \subseteq U /\ sets[i] # {}
  /\ \A i, j \in I : i # j => sets[i] \cap sets[j] = {}
Sizes(count, sets, I) == \A i \in I : count[i] = Cardinality(sets[i])

\* A finite set has room for finitely many sets that are apart.
LEMMA FewApart ==
  ASSUME NEW U, IsFiniteSet(U), NEW I, NEW sets, AreApart(sets, I, U)
  PROVE  IsFiniteSet(I)
<1> USE DEF AreApart
<1> DEFINE f == [i \in I |-> CHOOSE u \in U : u \in sets[i]]
<1>1. \A i \in I : f[i] \in U /\ f[i] \in sets[i]
  OBVIOUS
<1>2. f \in [I -> U]
  BY <1>1
<1>3. \A i, j \in I : f[i] = f[j] => i = j
  BY <1>1
<1>4. f \in Injection(I, U)
  <2> HIDE DEF f
  <2> QED
    BY <1>2, <1>3 DEF Injection, IsInjective
<1> QED
  BY <1>4, FS_Injection

\* The cardinalities of sets that are apart add up to that of their union.
LEMMA SumOfApart ==
  ASSUME NEW U, IsFiniteSet(U), NEW I, NEW sets, NEW count,
         AreApart(sets, I, U), Sizes(count, sets, I)
  PROVE  SumFunctionOnSet(count, I) = Cardinality(UNION {sets[i] : i \in I})
<1> DEFINE All(s) == UNION {sets[i] : i \in s}
           sum == [s \in SUBSET I |-> Cardinality(All(s))]
           f == CHOOSE f : Sums(f, count, I)
<1>0. /\ \A i \in I : /\ sets[i] \subseteq U /\ sets[i] # {}
                      /\ count[i] = Cardinality(sets[i])
      /\ \A i, j \in I : i # j => sets[i] \cap sets[j] = {}
  BY DEF AreApart, Sizes
<1>1. IsFiniteSet(I)
  BY FewApart
<1>2. ASSUME NEW s \in SUBSET I
      PROVE  IsFiniteSet(All(s)) /\ Cardinality(All(s)) \in Nat
  <2>1. All(s) \in SUBSET U
    BY <1>0
  <2> HIDE DEF All
  <2> QED
    BY <2>1, FS_Subset, FS_CardinalityType
<1>3. ASSUME NEW s \in SUBSET I, NEW x \in s
      PROVE  sum[s] = count[x] + sum[s \ {x}]
  <2>1. All(s) = sets[x] \cup All(s \ {x})
    OBVIOUS
  <2>2. sets[x] \cap All(s \ {x}) = {}
    BY <1>0
  <2>3. IsFiniteSet(sets[x]) /\ Cardinality(sets[x]) \in Nat
    BY <1>0, FS_Subset, FS_CardinalityType
  <2>4. s \ {x} \in SUBSET I
    OBVIOUS
  <2>5. IsFiniteSet(All(s \ {x})) /\ Cardinality(All(s \ {x})) \in Nat
    BY <1>2, <2>4
  <2>6. sum[s] = Cardinality(All(s)) /\ sum[s \ {x}] = Cardinality(All(s \ {x}))
    BY <2>4
  <2> HIDE DEF All, sum
  <2>7. Cardinality(sets[x] \cup All(s \ {x})) =
          Cardinality(sets[x]) + Cardinality(All(s \ {x}))
            - Cardinality(sets[x] \cap All(s \ {x}))
    BY <2>3, <2>5, FS_Union
  <2>8. Cardinality(All(s)) = Cardinality(sets[x]) + Cardinality(All(s \ {x}))
    <3>1. Cardinality(sets[x] \cap All(s \ {x})) = 0
      BY <2>2, FS_EmptySet, Zenon
    <3>2. Cardinality(All(s)) = Cardinality(sets[x] \cup All(s \ {x}))
      BY <2>1, Zenon
    <3> QED
      BY <2>3, <2>5, <2>7, <3>1, <3>2
  <2> QED
    BY <1>0, <2>3, <2>5, <2>6, <2>8
<1>4. sum[{}] = 0
  <2>1. {} \in SUBSET I /\ All({}) = {}
    OBVIOUS
  <2> HIDE DEF All
  <2> QED
    BY <2>1, FS_EmptySet
<1>5. Sums(sum, count, I)
  <2>1. sum = [s \in SUBSET I |-> sum[s]]
    OBVIOUS
  <2> HIDE DEF sum
  <2>2. ASSUME NEW s \in SUBSET I
        PROVE  sum[s] = IF s = {} THEN 0
                        ELSE LET x == CHOOSE x \in s : TRUE IN count[x] + sum[s \ {x}]
    <3>1. s # {} => (CHOOSE x \in s : TRUE) \in s
      OBVIOUS
    <3> QED
      BY <1>3, <1>4, <3>1
  <2> QED
    BY <2>1, <2>2 DEF Sums
<1> HIDE DEF sum
<1>6. Sums(f, count, I)
  BY <1>5, Zenon
<1>7. f[I] = sum[I]
  <2> HIDE DEF f
  <2> DEFINE Wrong == {s \in SUBSET I : f[s] # sum[s]}
             Numbers == {n \in Nat : \E s \in Wrong : n = Cardinality(s)}
  <2> SUFFICES ASSUME I \in Wrong
               PROVE  FALSE
    OBVIOUS
  <2>1. \A s \in SUBSET I : IsFiniteSet(s) /\ Cardinality(s) \in Nat
    BY <1>1, FS_Subset, FS_CardinalityType
  <2>2. Numbers \in SUBSET Nat /\ Numbers # {}
    BY <2>1
  <2>3. PICK n \in Numbers : \A m \in Numbers : n <= m
    <3> HIDE DEF Numbers
    <3> QED
      BY <2>2, Least
  <2>4. PICK s \in Wrong : n = Cardinality(s)
    OBVIOUS
  <2>5. f[s] = IF s = {} THEN 0
               ELSE LET x == CHOOSE x \in s : TRUE IN count[x] + f[s \ {x}]
    BY <1>6 DEF Sums
  <2>6. s # {}
    BY <1>4, <2>5
  <2>7. PICK x \in s : f[s] = count[x] + f[s \ {x}]
    BY <2>5, <2>6
  <2>8. s \ {x} \in SUBSET I /\ Cardinality(s \ {x}) = n - 1 /\ n \in Nat
    BY <2>1, <2>4, FS_RemoveElement
  <2>9. Cardinality(s \ {x}) \in Nat /\ n - 1 \notin Numbers
    BY <2>1, <2>3, <2>8
  <2>10. s \ {x} \notin Wrong
    BY <2>8, <2>9
  <2>11. f[s \ {x}] = sum[s \ {x}]
    BY <2>8, <2>10
  <2> QED
    BY <1>3, <2>7, <2>11
<1>8. I \in SUBSET I
  OBVIOUS
<1>9. sum[I] = Cardinality(UNION {sets[i] : i \in I})
  BY <1>8 DEF sum
<1> QED
  BY <1>7, <1>9, SumDefined

-----------------------------------------------------------------------------
(* The entries of a collector that can be read                              *)

\* The samples that the entries count: each sample is counted at one place, under its
\* own backtrace, and no place that is reported is empty.
Places == Positive(Entries)
CountedAt(x) == Entries[x].samples
All == 1..Len(log)

Partition ==
  /\ IsFiniteSet(All) /\ Len(log) \in Nat
  /\ \A x \in Places : CountedAt(x) \subseteq All /\ CountedAt(x) # {}
  /\ \A x, y \in Places : x # y => CountedAt(x) \cap CountedAt(y) = {}
  /\ \A s \in All : \E x \in Places : s \in CountedAt(x)
  /\ \A x \in Places : \A s \in CountedAt(x) : log[s] = Entries[x].item

LEMMA Partitions ==
  ASSUME ExactlyInv, Readable
  PROVE  Partition
<1> DEFINE In == {<<"map", y>> : y \in Slots}
           Out == {<<"temp_array", i>> : i \in DOMAIN Archive}
<1>1. CountsOwn /\ CountsOnce /\ CountsAll
  BY DEF ExactlyInv, ExactlyOnce
<1>2. IsFiniteSet(All) /\ Len(log) \in Nat
  <2>1. Len(log) \in Nat
    BY LenProperties DEF ExactlyInv, TypeOK
  <2> QED
    BY <2>1, FS_Interval DEF All
<1>3. DOMAIN Entries = In \cup Out
  BY DEF Entries
<1>4. /\ \A y \in Slots : Entries[<<"map", y>>] = Slot(y)
      /\ \A i \in DOMAIN Archive : Entries[<<"temp_array", i>>] = Archive[i]
  BY Zenon DEF Entries
<1>5. \A x \in DOMAIN Entries : Sound(Entries[x])
  BY <1>1, <1>3, <1>4 DEF CountsOwn
<1>6. \A x, y \in DOMAIN Entries : x # y => CountedAt(x) \cap CountedAt(y) = {}
  <2>1. \A x, y \in DOMAIN Entries : x # y => Apart(Entries[x], Entries[y])
    BY <1>1, <1>3, <1>4 DEF CountsOnce, Apart
  <2> QED
    BY <2>1 DEF Apart, CountedAt
<1>7. \A s \in All : \E x \in DOMAIN Entries : s \in CountedAt(x)
  BY <1>1, <1>3, <1>4 DEF CountsAll, CountedAt, All
<1>8. ASSUME NEW x \in DOMAIN Entries
      PROVE  /\ CountedAt(x) \subseteq All
             /\ \A s \in CountedAt(x) : log[s] = Entries[x].item
             /\ x \in Places <=> CountedAt(x) # {}
  <2>1. /\ CountedAt(x) \subseteq All
        /\ \A s \in CountedAt(x) : log[s] = Entries[x].item
    BY <1>5 DEF Sound, CountedAt, All
  <2>2. IsFiniteSet(CountedAt(x)) /\ Cardinality(CountedAt(x)) \in Nat
    BY <1>2, <2>1, FS_Subset, FS_CardinalityType
  <2>3. Cardinality(CountedAt(x)) > 0 <=> CountedAt(x) # {}
    BY <2>2, FS_EmptySet
  <2> QED
    BY <2>1, <2>3 DEF Places, Positive, Count, CountedAt
<1>9. Places \subseteq DOMAIN Entries
  BY DEF Places, Positive
<1> QED
  BY <1>2, <1>6, <1>7, <1>8, <1>9 DEF Partition

\* A row's value is the number of the samples counted at the places it is made of.
RowSamples(key, r) == UNION {CountedAt(x) : x \in {y \in Places : key[y] = r}}

LEMMA RowsCount ==
  ASSUME Partition, NEW key, DOMAIN key = Places
  PROVE  Rows(Entries, key) = [r \in Range(key) |-> Cardinality(RowSamples(key, r))]
<1> DEFINE count == [x \in Places |-> Count(Entries[x])]
           sets == [x \in Places |-> CountedAt(x)]
<1>1. Rows(Entries, key) =
        [r \in Range(key) |-> SumFunctionOnSet(count, {x \in Places : key[x] = r})]
  BY DEF Rows
<1>2. ASSUME NEW r \in Range(key)
      PROVE  SumFunctionOnSet(count, {x \in Places : key[x] = r})
               = Cardinality(RowSamples(key, r))
  <2> DEFINE I == {x \in Places : key[x] = r}
  <2>1. \A i \in I : sets[i] = CountedAt(i)
    OBVIOUS
  <2>2. Sizes(count, sets, I)
    BY DEF Sizes, Count, CountedAt
  <2>3. AreApart(sets, I, All)
    BY <2>1 DEF Partition, AreApart
  <2>4. IsFiniteSet(All)
    BY DEF Partition
  <2>5. UNION {sets[i] : i \in I} = RowSamples(key, r)
    BY <2>1 DEF RowSamples
  <2> HIDE DEF count, sets, I
  <2>6. SumFunctionOnSet(count, I) = Cardinality(UNION {sets[i] : i \in I})
    BY <2>2, <2>3, <2>4, SumOfApart
  <2> QED
    BY <2>5, <2>6 DEF I
<1> HIDE DEF count
<1> QED
  BY <1>1, <1>2

-----------------------------------------------------------------------------
(* The reports                                                              *)

LEMMA LogBounded == Spec => [](Len(log) <= MaxSamples)
<1>1. Init => Len(log) <= MaxSamples
  BY CollectorAssumption DEF Init
<1>2. TypeOK /\ Len(log) <= MaxSamples /\ [Next]_vars => (Len(log) <= MaxSamples)'
  <2> SUFFICES ASSUME TypeOK, Len(log) <= MaxSamples, [Next]_vars
               PROVE  Len(log') <= MaxSamples
    OBVIOUS
  <2>1. log \in Seq(Keys) /\ Len(log) \in Nat /\ MaxSamples \in Nat
    BY CollectorAssumption, LenProperties DEF TypeOK
  <2>2. CASE log' = log
    BY <2>2
  <2>3. ASSUME NEW k \in Keys, Add(k)
        PROVE  Len(log') <= MaxSamples
    <3>1. Len(log') = Len(log) + 1
      BY <2>1, <2>3, AppendProperties DEF Add
    <3> QED
      BY <2>1, <2>3, <3>1 DEF Add
  <2> QED
    BY <2>2, <2>3 DEF Next, Full, vars
<1> QED
  BY <1>1, <1>2, TypeCorrect, PTL DEF Spec

\* An UnresolvedReport has the samples of each backtrace.
LEMMA UnresolvedAdds ==
  ASSUME ExactlyInv, Readable
  PROVE  BuildUnresolved = [k \in ToSet(log) |-> Cardinality(SamplesOf(k))]
<1> DEFINE key == [x \in Places |-> Entries[x].item]
<1>1. Partition
  BY Partitions
<1>2. BuildUnresolved = Rows(Entries, key)
  BY DEF BuildUnresolved, Places
<1>3. DOMAIN key = Places /\ \A x \in Places : key[x] = Entries[x].item
  OBVIOUS
<1> HIDE DEF key
<1>4. BuildUnresolved = [k \in Range(key) |-> Cardinality(RowSamples(key, k))]
  BY <1>1, <1>2, <1>3, RowsCount
<1>5. ToSet(log) = {log[s] : s \in All}
  BY LenProperties DEF ToSet, All, ExactlyInv, TypeOK
<1>6. Range(key) = ToSet(log)
  <2>1. ASSUME NEW x \in Places
        PROVE  key[x] \in ToSet(log)
    <3>1. PICK s \in CountedAt(x) : s \in All /\ log[s] = Entries[x].item
      BY <1>1 DEF Partition
    <3> QED
      BY <1>3, <1>5, <3>1
  <2>2. ASSUME NEW s \in All
        PROVE  log[s] \in Range(key)
    <3>1. PICK x \in Places : s \in CountedAt(x) /\ log[s] = Entries[x].item
      BY <1>1 DEF Partition
    <3> QED
      BY <1>3, <3>1 DEF Range
  <2> QED
    BY <1>3, <1>5, <2>1, <2>2 DEF Range
<1>7. ASSUME NEW k
      PROVE  RowSamples(key, k) = SamplesOf(k)
  <2>1. SamplesOf(k) = {s \in All : log[s] = k}
    BY DEF SamplesOf, All
  <2> QED
    BY <1>1, <1>3, <2>1 DEF RowSamples, Partition
<1> QED
  BY <1>4, <1>6, <1>7

\* The post-processor leaves a sample with its thread.  (It may do what it wants with
\* its frames, name and time.)
KeepsThreads ==
  \A x \in Keys \X (1..MaxSamples) :
    Processor([Captured[x] EXCEPT !.frames = Resolve(@)]).thread_id
      = Captured[x].thread_id

\* The thread of a sample, and of the row its place is counted in.
ThreadOf(s) == Captured[log[s], s].thread_id

\* What an entry keeps is what one of its samples brought.
LEMMA FirstItem ==
  ASSUME ExactlyInv, Partition, Len(log) <= MaxSamples, NEW x \in Places
  PROVE  /\ Entries[x].item \in Keys
         /\ \E i \in 1..MaxSamples : Item(Entries[x]) = Captured[Entries[x].item, i]
<1> DEFINE first == CHOOSE m \in CountedAt(x) : \A n \in CountedAt(x) : m <= n
<1>1. MaxSamples \in Nat /\ Len(log) \in Nat /\ log \in Seq(Keys)
  BY CollectorAssumption DEF Partition, ExactlyInv, TypeOK
<1>2. CountedAt(x) \subseteq All /\ CountedAt(x) # {}
  BY DEF Partition
<1>3. first \in CountedAt(x)
  <2>1. CountedAt(x) \in SUBSET Nat
    BY <1>2 DEF All
  <2>2. \E m \in CountedAt(x) : \A n \in CountedAt(x) : m <= n
    BY <1>2, <2>1, Least
  <2> QED
    BY <2>2, Zenon
<1>4. Item(Entries[x]) = Captured[Entries[x].item, first]
  BY DEF Item, CountedAt
<1> HIDE DEF first
<1>5. Entries[x].item = log[first] /\ log[first] \in Keys /\ first \in 1..MaxSamples
  BY <1>1, <1>2, <1>3, ElementOfSeq DEF All, Partition
<1> QED
  BY <1>4, <1>5

LEMMA RowThread ==
  ASSUME ExactlyInv, Partition, KeepsThreads, Len(log) <= MaxSamples,
         NEW x \in Places, NEW s \in CountedAt(x)
  PROVE  Processor(Frames(Entries[x])).thread_id = ThreadOf(s)
<1>1. PICK i \in 1..MaxSamples : Item(Entries[x]) = Captured[Entries[x].item, i]
  BY FirstItem
<1>2. Entries[x].item = log[s] /\ s \in 1..MaxSamples /\ log[s] \in Keys
  <2>1. MaxSamples \in Nat /\ Len(log) \in Nat /\ log \in Seq(Keys)
    BY CollectorAssumption DEF Partition, ExactlyInv, TypeOK
  <2> QED
    BY <2>1, ElementOfSeq DEF All, Partition
<1>3. <<log[s], i>> \in Keys \X (1..MaxSamples)
  BY <1>2
<1>4. Processor(Frames(Entries[x])).thread_id = Captured[log[s], i].thread_id
  BY <1>1, <1>2, <1>3 DEF Frames, KeepsThreads
<1>5. Captured[log[s], i].thread_id = ThreadOf(s)
  BY <1>2, ReportAssumption DEF ThreadOf
<1> QED
  BY <1>4, <1>5

\* The rows of a thread in a Report have its samples.
LEMMA BuildAdds ==
  ASSUME ExactlyInv, Readable, KeepsThreads, Len(log) <= MaxSamples, NEW t
  PROVE  SumFunctionOnSet(Build, {r \in DOMAIN Build : r.thread_id = t})
           = Cardinality({s \in All : ThreadOf(s) = t})
<1> DEFINE key == [x \in Places |-> Processor(Frames(Entries[x]))]
           sets == [r \in Range(key) |-> RowSamples(key, r)]
           I == {r \in Range(key) : r.thread_id = t}
<1>1. Partition
  BY Partitions
<1>2. Build = Rows(Entries, key)
  BY DEF Build, Places
<1>3. DOMAIN key = Places
  OBVIOUS
<1>4. \A x \in Places : \A s \in CountedAt(x) : key[x].thread_id = ThreadOf(s)
  BY <1>1, RowThread
<1> HIDE DEF key
<1>5. Build = [r \in Range(key) |-> Cardinality(RowSamples(key, r))]
  BY <1>1, <1>2, <1>3, RowsCount
<1>6. /\ DOMAIN Build = Range(key)
      /\ \A r \in I : sets[r] = RowSamples(key, r) /\ Build[r] = Cardinality(sets[r])
  BY <1>5
<1>7. ASSUME NEW r \in I
      PROVE  sets[r] \subseteq All /\ sets[r] # {}
  <2>1. PICK x \in Places : key[x] = r
    BY <1>3 DEF Range
  <2>2. CountedAt(x) \subseteq RowSamples(key, r) /\ CountedAt(x) # {}
    BY <1>1, <2>1 DEF RowSamples, Partition
  <2>3. RowSamples(key, r) \subseteq All
    BY <1>1 DEF RowSamples, Partition
  <2> QED
    BY <1>6, <2>2, <2>3
<1>8. ASSUME NEW q \in I, NEW r \in I, q # r
      PROVE  sets[q] \cap sets[r] = {}
  <2>1. RowSamples(key, q) \cap RowSamples(key, r) = {}
    BY <1>1, <1>8 DEF RowSamples, Partition
  <2> QED
    BY <1>6, <2>1
<1>9. UNION {sets[r] : r \in I} = {s \in All : ThreadOf(s) = t}
  <2>1. ASSUME NEW r \in I, NEW s \in sets[r]
        PROVE  s \in All /\ ThreadOf(s) = t
    <3>1. PICK x \in Places : key[x] = r /\ s \in CountedAt(x)
      BY <1>6, <2>1 DEF RowSamples
    <3> QED
      BY <1>4, <1>7, <2>1, <3>1
  <2>2. ASSUME NEW s \in All, ThreadOf(s) = t
        PROVE  \E r \in I : s \in sets[r]
    <3>1. PICK x \in Places : s \in CountedAt(x)
      BY <1>1 DEF Partition
    <3>2. key[x] \in I
      BY <1>3, <1>4, <2>2, <3>1 DEF Range
    <3>3. s \in RowSamples(key, key[x])
      BY <3>1 DEF RowSamples
    <3> QED
      BY <1>6, <3>2, <3>3
  <2> HIDE DEF sets, I
  <2> QED
    BY <2>1, <2>2
<1> HIDE DEF sets, I
<1>10. SumFunctionOnSet(Build, I) = Cardinality(UNION {sets[r] : r \in I})
  <2>1. IsFiniteSet(All)
    BY <1>1 DEF Partition
  <2>2. Sizes(Build, sets, I)
    BY <1>6 DEF Sizes
  <2>3. AreApart(sets, I, All)
    BY <1>7, <1>8 DEF AreApart
  <2> QED
    BY <2>1, <2>2, <2>3, SumOfApart
<1> QED
  BY <1>6, <1>9, <1>10 DEF I

\* For all backtraces, symbols, schedules of samples and failing writes: the reports
\* add up, if the post-processor does not move samples from thread to thread.
THEOREM AddsUp == ASSUME KeepsThreads PROVE Spec => []ReportsAddUp
<1>1. ExactlyInv /\ Len(log) <= MaxSamples => ReportsAddUp
  <2> SUFFICES ASSUME ExactlyInv, Len(log) <= MaxSamples, Readable, NEW t \in Threads
               PROVE  /\ BuildUnresolved = [k \in ToSet(log) |-> Cardinality(SamplesOf(k))]
                      /\ SumFunctionOnSet(Build, {r \in DOMAIN Build : r.thread_id = t})
                           = Cardinality({s \in 1..Len(log) :
                                            Captured[log[s], s].thread_id = t})
    BY UnresolvedAdds, Zenon DEF ReportsAddUp
  <2> QED
    BY UnresolvedAdds, BuildAdds, Zenon DEF All, ThreadOf
<1> QED
  BY <1>1, ExactlyInvariant, LogBounded, PTL
-----------------------------------------------------------------------------
(* The frames of a backtrace                                                *)

\* Induction over the places of a list, for a predicate given as a function.
LEMMA UpTo ==
  ASSUME NEW N \in Nat, NEW P, P[0], \A n \in 0..N : n # N /\ P[n] => P[n + 1]
  PROVE  \A n \in 0..N : P[n]
<1> DEFINE I == {n \in 0..N : ~P[n]}
<1> SUFFICES ASSUME I # {}
             PROVE  FALSE
  OBVIOUS
<1>1. PICK m \in I : \A n \in I : m <= n
  <2>1. I \in SUBSET Nat
    OBVIOUS
  <2> HIDE DEF I
  <2> QED
    BY <2>1, Least
<1>2. m \in 1..N /\ ~P[m]
  OBVIOUS
<1>3. m - 1 \in 0..N /\ m - 1 # N /\ (m - 1) + 1 = m /\ m - 1 \notin I
  BY <1>1, <1>2
<1>4. P[m - 1]
  BY <1>3
<1> QED
  BY <1>2, <1>3, <1>4

Nothing == [out |-> <<>>, skip |-> FALSE]

\* acc is what has been resolved after each of the first n places.
Resolves(acc, ips, n) ==
  acc = [i \in 0..n |-> IF i = 0 THEN Nothing ELSE ResolveFrame(acc[i - 1], ips[i])]

LEMMA Resolving ==
  ASSUME NEW ips, NEW N \in Nat, N = Len(ips)
  PROVE  \E acc : Resolves(acc, ips, N) /\ Resolve(ips) = acc[N].out
<1> DEFINE P == [n \in 0..N |-> \E acc : Resolves(acc, ips, n)]
<1>1. P[0]
  <2> DEFINE acc == [i \in 0..0 |-> Nothing]
  <2>1. Resolves(acc, ips, 0)
    BY DEF Resolves
  <2> QED
    BY <2>1
<1>2. ASSUME NEW n \in 0..N, n # N, P[n]
      PROVE  P[n + 1]
  <2>1. PICK acc : Resolves(acc, ips, n)
    BY <1>2
  <2> DEFINE next == ResolveFrame(acc[n], ips[n + 1])
             more == [i \in 0..(n + 1) |-> IF i = n + 1 THEN next ELSE acc[i]]
  <2>2. \A i \in 0..n : acc[i] = IF i = 0 THEN Nothing
                                 ELSE ResolveFrame(acc[i - 1], ips[i])
    BY <2>1 DEF Resolves
  <2>3. (\A i \in 0..n : more[i] = acc[i]) /\ more[n + 1] = next
    OBVIOUS
  <2>4. more = [i \in 0..(n + 1) |-> more[i]]
    OBVIOUS
  <2> HIDE DEF more
  <2>5. ASSUME NEW i \in 0..(n + 1)
        PROVE  more[i] = IF i = 0 THEN Nothing ELSE ResolveFrame(more[i - 1], ips[i])
    <3>1. CASE i = n + 1
      <4>1. i - 1 = n /\ i # 0 /\ more[i - 1] = acc[n]
        BY <2>3, <3>1
      <4> QED
        BY <2>3, <3>1, <4>1
    <3>2. CASE i # n + 1
      <4>1. i \in 0..n /\ (i # 0 => i - 1 \in 0..n)
        BY <3>2
      <4> QED
        BY <2>2, <2>3, <4>1
    <3> QED
      BY <3>1, <3>2
  <2>6. Resolves(more, ips, n + 1)
    BY <2>4, <2>5 DEF Resolves
  <2> QED
    BY <1>2, <2>6
<1>3. \E acc : Resolves(acc, ips, N)
  <2> HIDE DEF P
  <2>1. \A n \in 0..N : P[n]
    BY <1>1, <1>2, UpTo
  <2>2. P[N]
    BY <2>1
  <2> QED
    BY <2>2 DEF P
<1> HIDE DEF P
<1> DEFINE acc == CHOOSE acc : Resolves(acc, ips, N)
<1>4. Resolves(acc, ips, N)
  BY <1>3, Zenon
<1>5. Resolve(ips) = acc[N].out
  BY DEF Resolve, Resolves, Nothing
<1> QED
  BY <1>4, <1>5, Zenon

\* A run of handler frames grows by one, or ends.
LEMMA RunGrows ==
  ASSUME NEW ips, NEW i \in Nat \ {0}
  PROVE  /\ Run(ips, 1) = {}
         /\ IsFiniteSet(Run(ips, i)) /\ Cardinality(Run(ips, i)) \in Nat
         /\ OfHandler(ips[i]) =>
              Cardinality(Run(ips, i + 1)) = Cardinality(Run(ips, i)) + 1
         /\ ~OfHandler(ips[i]) => Run(ips, i + 1) = {}
<1>1. Run(ips, i) \subseteq 1..(i - 1)
  BY DEF Run
<1>2. IsFiniteSet(Run(ips, i)) /\ Cardinality(Run(ips, i)) \in Nat
  <2>1. 1 \in Int /\ i - 1 \in Int /\ Run(ips, i) \in SUBSET (1..(i - 1))
    BY <1>1
  <2>2. IsFiniteSet(1..(i - 1))
    BY <2>1, FS_Interval
  <2> QED
    BY <2>1, <2>2, FS_Subset, FS_CardinalityType, Zenon
<1>3. ASSUME OfHandler(ips[i])
      PROVE  Run(ips, i + 1) = Run(ips, i) \cup {i}
  <2>1. (i + 1) - 1 = i
    OBVIOUS
  <2>2. ASSUME NEW j \in 1..i
        PROVE  (\A k \in j..i : OfHandler(ips[k])) <=>
                 j = i \/ \A k \in j..(i - 1) : OfHandler(ips[k])
    <3>1. j..i = j..(i - 1) \cup {i}
      OBVIOUS
    <3>2. j = i => j..(i - 1) = {}
      OBVIOUS
    <3> QED
      BY <1>3, <3>1, <3>2
  <2>3. 1..i = 1..(i - 1) \cup {i}
    OBVIOUS
  <2> QED
    BY <2>1, <2>2, <2>3 DEF Run
<1>4. i \notin Run(ips, i)
  BY <1>1
<1>5. ASSUME ~OfHandler(ips[i])
      PROVE  Run(ips, i + 1) = {}
  <2>1. (i + 1) - 1 = i /\ \A j \in 1..i : i \in j..i
    OBVIOUS
  <2> QED
    BY <1>5, <2>1 DEF Run
<1>6. Run(ips, 1) = {}
  BY DEF Run
<1> QED
  BY <1>2, <1>3, <1>4, <1>5, <1>6, FS_AddElement

\* The next place is shown, or it is not.
LEMMA ShownGrows ==
  ASSUME NEW ips, Len(ips) \in Nat, NEW i \in 0..Len(ips), i # Len(ips)
  PROVE  /\ ShownUpTo(ips, 0) = {}
         /\ IsFiniteSet(ShownUpTo(ips, i)) /\ Cardinality(ShownUpTo(ips, i)) \in Nat
         /\ i + 1 \in Shown(ips) =>
              /\ ShownUpTo(ips, i + 1) = ShownUpTo(ips, i) \cup {i + 1}
              /\ Cardinality(ShownUpTo(ips, i + 1)) = Cardinality(ShownUpTo(ips, i)) + 1
         /\ i + 1 \notin Shown(ips) => ShownUpTo(ips, i + 1) = ShownUpTo(ips, i)
<1>1. Shown(ips) \subseteq 1..Len(ips)
  BY DEF Shown
<1>2. ShownUpTo(ips, i) \subseteq 1..Len(ips) /\ ShownUpTo(ips, 0) = {}
  BY <1>1 DEF ShownUpTo
<1>3. IsFiniteSet(ShownUpTo(ips, i)) /\ Cardinality(ShownUpTo(ips, i)) \in Nat
  <2>1. 1 \in Int /\ Len(ips) \in Int /\ ShownUpTo(ips, i) \in SUBSET (1..Len(ips))
    BY <1>2
  <2>2. IsFiniteSet(1..Len(ips))
    BY <2>1, FS_Interval
  <2> QED
    BY <2>1, <2>2, FS_Subset, FS_CardinalityType, Zenon
<1>4. \A j \in Shown(ips) : j <= i + 1 <=> j <= i \/ j = i + 1
  BY <1>1
<1>5. i + 1 \in Shown(ips) => ShownUpTo(ips, i + 1) = ShownUpTo(ips, i) \cup {i + 1}
  BY <1>4 DEF ShownUpTo
<1>6. i + 1 \notin Shown(ips) => ShownUpTo(ips, i + 1) = ShownUpTo(ips, i)
  BY <1>4 DEF ShownUpTo
<1>7. i + 1 \notin ShownUpTo(ips, i)
  BY DEF ShownUpTo
<1> QED
  BY <1>2, <1>3, <1>5, <1>6, <1>7, FS_AddElement

\* What has been resolved of the first i places, and whether the next is skipped.
ResolvedTo(acc, ips, i) ==
  /\ acc \in [out : Seq({Symbolize[ip] : ip \in DOMAIN Symbolize}), skip : BOOLEAN]
  /\ acc.skip <=> Cardinality(Run(ips, i + 1)) % 2 = 1
  /\ Len(acc.out) = Cardinality(ShownUpTo(ips, i))
  /\ \A j \in ShownUpTo(ips, i) :
       /\ Cardinality(ShownUpTo(ips, j)) \in 1..Len(acc.out)
       /\ acc.out[Cardinality(ShownUpTo(ips, j))] = Symbolize[ips[j]]

LEMMA ResolvedNext ==
  ASSUME NEW ips \in Seq(DOMAIN Symbolize), NEW i \in 0..Len(ips), i # Len(ips),
         NEW acc, ResolvedTo(acc, ips, i)
  PROVE  ResolvedTo(ResolveFrame(acc, ips[i + 1]), ips, i + 1)
<1> DEFINE ip == ips[i + 1]
           names == {Symbolize[x] : x \in DOMAIN Symbolize}
           next == ResolveFrame(acc, ip)
           run == Cardinality(Run(ips, i + 1))
<1>1. /\ Len(ips) \in Nat /\ i + 1 \in 1..Len(ips) /\ i + 1 \in Nat \ {0}
      /\ ip \in DOMAIN Symbolize /\ Symbolize[ip] \in names
  BY ElementOfSeq, LenProperties
<1>2. /\ run \in Nat
      /\ OfHandler(ip) => Cardinality(Run(ips, (i + 1) + 1)) = run + 1
      /\ ~OfHandler(ip) => Cardinality(Run(ips, (i + 1) + 1)) = 0
  BY <1>1, RunGrows, FS_EmptySet
<1>3. /\ acc \in [out : Seq(names), skip : BOOLEAN]
      /\ acc.skip <=> run % 2 = 1
      /\ Len(acc.out) = Cardinality(ShownUpTo(ips, i))
      /\ \A j \in ShownUpTo(ips, i) :
           /\ Cardinality(ShownUpTo(ips, j)) \in 1..Len(acc.out)
           /\ acc.out[Cardinality(ShownUpTo(ips, j))] = Symbolize[ips[j]]
  BY DEF ResolvedTo
<1>4. run % 2 \in {0, 1} /\ (run % 2 = 1 <=> (run + 1) % 2 = 0)
      /\ ((run + 1) % 2 \in {0, 1})
  <2> HIDE DEF run
  <2> QED
    BY <1>2
<1>5. i + 1 \in Shown(ips) <=> Symbolize[ip] # <<>> /\ ~OfHandler(ip) /\ run % 2 = 0
  BY <1>1 DEF Shown
<1> HIDE DEF ip, names, next, run
<1>6. next.skip <=> Cardinality(Run(ips, (i + 1) + 1)) % 2 = 1
  <2>1. next.skip <=> ~acc.skip /\ OfHandler(ip)
    BY <1>3 DEF next, ResolveFrame, Shows
  <2> QED
    BY <1>2, <1>3, <1>4, <2>1
<1>7. CASE i + 1 \notin Shown(ips)
  <2>1. next.out = acc.out /\ next \in [out : Seq(names), skip : BOOLEAN]
    BY <1>3, <1>4, <1>5, <1>7 DEF next, ResolveFrame, Shows
  <2>2. ShownUpTo(ips, i + 1) = ShownUpTo(ips, i)
    BY <1>1, <1>7, ShownGrows
  <2> QED
    BY <1>3, <1>6, <2>1, <2>2 DEF ResolvedTo, next, ip, names
<1>8. CASE i + 1 \in Shown(ips)
  <2>1. next = [acc EXCEPT !.out = Append(@, Symbolize[ip])]
    BY <1>3, <1>4, <1>5, <1>8 DEF next, ResolveFrame, Shows
  <2>2. next.out = Append(acc.out, Symbolize[ip])
        /\ next \in [out : Seq(names), skip : BOOLEAN]
    <3>1. acc.out \in Seq(names) /\ Symbolize[ip] \in names
      BY <1>1, <1>3
    <3>2. Append(acc.out, Symbolize[ip]) \in Seq(names)
      BY <3>1, AppendProperties
    <3> QED
      BY <1>3, <2>1, <3>2
  <2>3. /\ ShownUpTo(ips, i + 1) = ShownUpTo(ips, i) \cup {i + 1}
        /\ Cardinality(ShownUpTo(ips, i + 1)) = Cardinality(ShownUpTo(ips, i)) + 1
        /\ Cardinality(ShownUpTo(ips, i)) \in Nat
    BY <1>1, <1>8, ShownGrows
  <2>4. /\ Len(next.out) = Len(acc.out) + 1 /\ Len(acc.out) \in Nat
        /\ \A n \in 1..Len(acc.out) : next.out[n] = acc.out[n]
        /\ next.out[Len(acc.out) + 1] = Symbolize[ip]
    BY <1>1, <1>3, <2>2, AppendProperties
  <2>5. ASSUME NEW j \in ShownUpTo(ips, i + 1)
        PROVE  /\ Cardinality(ShownUpTo(ips, j)) \in 1..Len(next.out)
               /\ next.out[Cardinality(ShownUpTo(ips, j))] = Symbolize[ips[j]]
    <3>1. CASE j \in ShownUpTo(ips, i)
      BY <1>3, <2>4, <3>1
    <3>2. CASE j = i + 1
      BY <1>3, <2>3, <2>4, <3>2 DEF ip
    <3> QED
      BY <2>3, <3>1, <3>2
  <2> QED
    BY <1>3, <1>6, <2>2, <2>3, <2>4, <2>5 DEF ResolvedTo, next, ip, names
<1> QED
  BY <1>7, <1>8

LEMMA ResolveShows ==
  ASSUME NEW ips \in Seq(DOMAIN Symbolize)
  PROVE  /\ Len(Resolve(ips)) = Cardinality(Shown(ips))
         /\ \A i \in Shown(ips) :
              Resolve(ips)[Cardinality(ShownUpTo(ips, i))] = Symbolize[ips[i]]
<1> DEFINE N == Len(ips)
<1>1. N \in Nat
  BY LenProperties
<1> HIDE DEF N
<1>2. PICK acc : Resolves(acc, ips, N) /\ Resolve(ips) = acc[N].out
  BY <1>1, Resolving DEF N
<1>3. /\ acc[0] = Nothing
      /\ \A i \in 0..N : i # N => acc[i + 1] = ResolveFrame(acc[i], ips[i + 1])
  <2>1. \A i \in 0..N : acc[i] = IF i = 0 THEN Nothing ELSE ResolveFrame(acc[i - 1], ips[i])
    BY <1>2, Zenon DEF Resolves
  <2>2. \A i \in 0..N : i # N => i + 1 \in 0..N /\ i + 1 # 0 /\ (i + 1) - 1 = i
    BY <1>1
  <2>3. 0 \in 0..N
    BY <1>1
  <2> QED
    BY <2>1, <2>2, <2>3
<1> DEFINE P == [i \in 0..N |-> ResolvedTo(acc[i], ips, i)]
<1>4. P[0]
  <2>1. 0 \in 0..N /\ 0 + 1 = 1 /\ 0 % 2 = 0
    BY <1>1
  <2>2. Cardinality(Run(ips, 1)) = 0 /\ ShownUpTo(ips, 0) = {}
    BY FS_EmptySet, RunGrows DEF ShownUpTo, Shown
  <2>3. /\ Nothing \in [out : Seq({Symbolize[ip] : ip \in DOMAIN Symbolize}), skip : BOOLEAN]
        /\ Nothing.skip = FALSE /\ Len(Nothing.out) = 0
    BY EmptySeq DEF Nothing
  <2>4. ResolvedTo(acc[0], ips, 0)
    <3>1. Cardinality(ShownUpTo(ips, 0)) = 0
      BY <2>2, FS_EmptySet
    <3> QED
      BY <1>3, <2>1, <2>2, <2>3, <3>1 DEF ResolvedTo
  <2> QED
    BY <2>1, <2>4
<1>5. ASSUME NEW i \in 0..N, i # N, P[i]
      PROVE  P[i + 1]
  <2>1. ResolvedTo(acc[i], ips, i)
    BY <1>5
  <2>2. ResolvedTo(ResolveFrame(acc[i], ips[i + 1]), ips, i + 1)
    BY <1>5, <2>1, ResolvedNext DEF N
  <2>3. i + 1 \in 0..N
    BY <1>1, <1>5
  <2> QED
    BY <1>3, <1>5, <2>2, <2>3
<1>6. ResolvedTo(acc[N], ips, N)
  <2> HIDE DEF P
  <2>1. \A i \in 0..N : P[i]
    BY <1>1, <1>4, <1>5, UpTo
  <2>2. P[N]
    BY <1>1, <2>1
  <2> QED
    BY <1>1, <2>2 DEF P
<1>7. ShownUpTo(ips, N) = Shown(ips)
  BY <1>1 DEF N, ShownUpTo, Shown
<1> QED
  BY <1>2, <1>6, <1>7 DEF ResolvedTo

\* For all backtraces and symbols, and whatever the collector went through: a Report has
\* of a backtrace the frames that have a symbol, each once and in order, but those of the
\* handler and the one that follows every other of them.
THEOREM Complete == Spec => []FramesShown
<1>1. ExactlyInv /\ Len(log) <= MaxSamples => FramesShown
  <2> SUFFICES ASSUME ExactlyInv, Len(log) <= MaxSamples, Readable,
                      NEW x \in Positive(Entries)
               PROVE  LET ips == Item(Entries[x]).frames
                          row == Frames(Entries[x]).frames
                      IN  /\ Len(row) = Cardinality(Shown(ips))
                          /\ \A i \in Shown(ips) :
                               row[Cardinality(ShownUpTo(ips, i))] = Symbolize[ips[i]]
    BY Zenon DEF FramesShown
  <2> DEFINE k == Entries[x].item
  <2>1. PICK i \in 1..MaxSamples : Item(Entries[x]) = Captured[k, i] /\ k \in Keys
    BY Partitions, FirstItem DEF Places
  <2>2. /\ "frames" \in DOMAIN Captured[k, i]
        /\ Captured[k, i].frames \in Seq(DOMAIN Symbolize)
    <3>1. <<k, i>> \in Keys \X (1..MaxSamples)
      BY <2>1
    <3> QED
      BY <3>1, ReportAssumption
  <2> DEFINE ips == Item(Entries[x]).frames
  <2>3. Frames(Entries[x]).frames = Resolve(ips)
    BY <2>1, <2>2 DEF Frames
  <2>4. ips \in Seq(DOMAIN Symbolize)
    BY <2>1, <2>2
  <2> HIDE DEF ips
  <2> QED
    BY <2>3, <2>4, ResolveShows DEF ips
<1> QED
  BY <1>1, ExactlyInvariant, LogBounded, PTL
=============================================================================
