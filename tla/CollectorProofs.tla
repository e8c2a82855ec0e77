-------------------------- MODULE CollectorProofs --------------------------
(***************************************************************************)
(* Collector, for any backtraces, hash function, associativity and buffer: *)
(* its types, and that it counts every sample exactly once.                *)
(***************************************************************************)
EXTENDS Collector, SequenceTheorems, TLAPS

-----------------------------------------------------------------------------
(* Types                                                                    *)

LEMMA FreshEntry ==
  ASSUME NEW k \in Keys, NEW s \in Nat
  PROVE  Fresh(k, s) \in Entry
BY DEF Fresh, Entry

LEMMA CountingType ==
  ASSUME NEW bucket \in Seq(Entry), NEW k, NEW s \in Nat
  PROVE  /\ Counting(bucket, k, s) \in Seq(Entry)
         /\ Len(Counting(bucket, k, s)) = Len(bucket)
         /\ DOMAIN Counting(bucket, k, s) = DOMAIN bucket
<1> DEFINE c == Counting(bucket, k, s)
<1>1. DOMAIN bucket = 1..Len(bucket) /\ Len(bucket) \in Nat
  BY LenProperties
<1>2. \A i \in 1..Len(bucket) : bucket[i] \in Entry
  BY ElementOfSeq
<1>3. c \in [1..Len(bucket) -> Entry]
  BY <1>1, <1>2 DEF Counting, Entry
<1>4. c \in Seq(Entry)
  BY <1>1, <1>3, SeqDef
<1>5. Len(c) = Len(bucket)
  BY <1>1, <1>3, <1>4, LenProperties
<1> QED
  BY <1>1, <1>3, <1>4, <1>5

LEMMA WrittenType ==
  ASSUME TypeOK, NEW n \in 0..BUFFER_LENGTH, n <= buffer_index
  PROVE  Written(n) \in Seq(Entry) /\ Len(Written(n)) = n
<1>1. n \in Nat /\ \A i \in 1..n : buffer[i] \in Entry
  BY CollectorAssumption DEF TypeOK
<1>2. Written(n) \in [1..n -> Entry]
  BY <1>1 DEF Written
<1>3. Written(n) \in Seq(Entry)
  BY <1>1, <1>2, SeqDef
<1> QED
  BY <1>1, <1>2, <1>3, LenProperties

LEMMA PushType ==
  ASSUME TypeOK, NEW e \in Entry, Push(e)
  PROVE  /\ buffer' \in [1..BUFFER_LENGTH -> Entry \cup {Default}]
         /\ buffer_index' \in 0..BUFFER_LENGTH
         /\ \A i \in 1..buffer_index' : buffer'[i] \in Entry
         /\ file' \in Seq(Entry)
         /\ flush_n' \in Nat
<1> USE CollectorAssumption
<1>1. CASE PushStored(e)
  BY <1>1 DEF PushStored, TypeOK
<1>2. CASE PushFlushed(e)
  <2>1. buffer_index = BUFFER_LENGTH
    BY <1>2 DEF PushFlushed, TypeOK
  <2>2. Written(BUFFER_LENGTH) \in Seq(Entry)
    BY <2>1, WrittenType
  <2>3. file' \in Seq(Entry)
    BY <1>2, <2>2, ConcatProperties DEF PushFlushed, TypeOK
  <2> QED
    BY <1>2, <2>3 DEF PushFlushed, TypeOK
<1>3. CASE PushFailed
  <2>1. PICK n \in 0..(BUFFER_LENGTH - 1) : file' = file \o Written(n)
    BY <1>3 DEF PushFailed
  <2>2. Written(n) \in Seq(Entry)
    BY <1>3, <2>1, WrittenType DEF PushFailed, TypeOK
  <2>3. file' \in Seq(Entry)
    BY <2>1, <2>2, ConcatProperties DEF TypeOK
  <2> QED
    BY <1>3, <2>3 DEF PushFailed, TypeOK
<1> QED
  BY <1>1, <1>2, <1>3 DEF Push

LEMMA TypeStep == TypeOK /\ [Next]_vars => TypeOK'
<1> SUFFICES ASSUME TypeOK, [Next]_vars
             PROVE  TypeOK'
  OBVIOUS
<1> USE CollectorAssumption
<1>1. CASE UNCHANGED vars
  BY <1>1 DEF TypeOK, vars, temp_array
<1>2. ASSUME NEW k \in Keys, Add(k)
      PROVE  TypeOK'
  <2> DEFINE s == Len(log) + 1
             b == Hash[k]
  <2>1. b \in Buckets /\ s \in Nat /\ map[b] \in Seq(Entry)
    BY LenProperties DEF TypeOK
  <2>2. log' \in Seq(Keys)
    BY <1>2, AppendProperties DEF Add, TypeOK
  <2>3. Fresh(k, s) \in Entry
    BY <2>1, FreshEntry
  <2> HIDE DEF s, b
  <2>4. CASE Hit(k, b, s)
    <3>1. /\ Counting(map[b], k, s) \in Seq(Entry)
          /\ Len(Counting(map[b], k, s)) = Len(map[b])
      BY <2>1, CountingType
    <3> QED
      BY <2>1, <2>2, <2>4, <3>1 DEF Hit, TypeOK, temp_array
  <2>5. CASE Insert(k, b, s)
    <3>1. /\ Append(map[b], Fresh(k, s)) \in Seq(Entry)
          /\ Len(Append(map[b], Fresh(k, s))) = Len(map[b]) + 1
      BY <2>1, <2>3, AppendProperties
    <3>2. Len(map[b]) + 1 <= BUCKETS_ASSOCIATIVITY
      BY <2>1, <2>5, LenProperties DEF Insert, HasRoom
    <3> QED
      BY <2>1, <2>2, <2>5, <3>1, <3>2 DEF Insert, HasRoom, TypeOK, temp_array
  <2>6. CASE Evict(k, b, s)
    <3>1. PICK i \in DOMAIN map[b] :
            map' = [map EXCEPT ![b][i] = Fresh(k, s)] /\ Push(map[b][i])
      BY <2>6 DEF Evict, HasRoom
    <3>2. map[b][i] \in Entry
      BY <2>1, <3>1, ElementOfSeq, LenProperties
    <3>3. /\ [map[b] EXCEPT ![i] = Fresh(k, s)] \in Seq(Entry)
          /\ Len([map[b] EXCEPT ![i] = Fresh(k, s)]) = Len(map[b])
      BY <2>1, <2>3, <3>1, ExceptSeq, LenProperties
    <3>4. map' = [map EXCEPT ![b] = [map[b] EXCEPT ![i] = Fresh(k, s)]]
      BY <3>1
    <3>5. /\ map' \in [Buckets -> Seq(Entry)]
          /\ \A c \in Buckets : Len(map'[c]) <= BUCKETS_ASSOCIATIVITY
      BY <2>1, <3>3, <3>4 DEF TypeOK
    <3> QED
      BY <2>2, <3>1, <3>2, <3>5, PushType DEF TypeOK
  <2> QED
    BY <1>2, <2>4, <2>5, <2>6 DEF Add, s, b
<1> QED
  BY <1>1, <1>2 DEF Next, Full

\* The types hold in every reachable state, for all parameters.
THEOREM TypeCorrect == Spec => []TypeOK
<1>1. Init => TypeOK
  BY CollectorAssumption DEF Init, TypeOK
<1> QED
  BY <1>1, TypeStep, PTL DEF Spec

-----------------------------------------------------------------------------
(* One entry per key                                                        *)

\* What a step does to the hash table: the bucket of k alone changes.
LEMMA BucketStep ==
  ASSUME TypeOK, NEW k \in Keys, Add(k)
  PROVE  /\ Hash[k] \in Buckets /\ Len(log) \in Nat
         /\ \A c \in Buckets : Len(map[c]) \in Nat
                               /\ DOMAIN map[c] = 1..Len(map[c])
         /\ map' \in [Buckets -> Seq(Entry)]
         /\ \A c \in Buckets : c # Hash[k] => map'[c] = map[c]
BY TypeStep, CollectorAssumption, LenProperties
DEF Next, Add, Hit, Insert, HasRoom, Evict, TypeOK

LEMMA OneEntryStep == TypeOK /\ OneEntryPerKey /\ [Next]_vars => OneEntryPerKey'
<1> SUFFICES ASSUME TypeOK, OneEntryPerKey, [Next]_vars
             PROVE  OneEntryPerKey'
  OBVIOUS
<1>1. CASE UNCHANGED vars
  BY <1>1 DEF OneEntryPerKey, vars
<1>2. ASSUME NEW k \in Keys, Add(k)
      PROVE  OneEntryPerKey'
  <2> DEFINE s == Len(log) + 1
             b == Hash[k]
  <2>1. /\ b \in Buckets /\ s \in Nat
        /\ \A c \in Buckets : Len(map[c]) \in Nat /\ DOMAIN map[c] = 1..Len(map[c])
        /\ \A c \in Buckets : c # b => map'[c] = map[c]
    BY <1>2, BucketStep
  <2>2. map \in [Buckets -> Seq(Entry)] /\ Fresh(k, s).item = k
    BY DEF TypeOK, Fresh
  <2>3. Fresh(k, s) \in Entry
    BY <2>1, FreshEntry
  <2> SUFFICES \A i \in DOMAIN map'[b] :
                 /\ Hash[map'[b][i].item] = b
                 /\ \A j \in DOMAIN map'[b] :
                      map'[b][i].item = map'[b][j].item => i = j
    BY <2>1 DEF OneEntryPerKey
  <2> HIDE DEF s
  <2>4. CASE Hit(k, b, s)
    <3>1. map'[b] = Counting(map[b], k, s)
      BY <2>1, <2>2, <2>4 DEF Hit
    <3>2. DOMAIN map'[b] = DOMAIN map[b]
      BY <3>1 DEF Counting
    <3>3. \A i \in DOMAIN map[b] : map'[b][i].item = map[b][i].item
      <4> SUFFICES ASSUME NEW i \in DOMAIN map[b]
                   PROVE  map'[b][i].item = map[b][i].item
        OBVIOUS
      <4>1. map[b][i] \in Entry
        BY <2>1, <2>2, ElementOfSeq
      <4> QED
        BY <3>1, <4>1 DEF Counting, Entry
    <3> QED
      BY <2>1, <3>2, <3>3 DEF OneEntryPerKey
  <2>5. CASE Insert(k, b, s)
    <3> DEFINE n == Len(map[b])
    <3>1. map'[b] = Append(map[b], Fresh(k, s))
      BY <2>1, <2>2, <2>5 DEF Insert, HasRoom
    <3>2. /\ DOMAIN map'[b] = 1..(n + 1)
          /\ \A i \in 1..n : map'[b][i] = map[b][i]
          /\ map'[b][n + 1] = Fresh(k, s)
      BY <2>1, <2>2, <2>3, <3>1, AppendProperties, LenProperties
    <3>3. \A i \in 1..n : map[b][i].item # k
      BY <2>1, <2>5 DEF Insert, HasRoom, Holds
    <3>4. \A i \in 1..n :
            /\ Hash[map[b][i].item] = b
            /\ \A j \in 1..n : map[b][i].item = map[b][j].item => i = j
      BY <2>1 DEF OneEntryPerKey
    <3>5. /\ \A i \in 1..n : map'[b][i].item = map[b][i].item
          /\ map'[b][n + 1].item = k
      BY <2>2, <3>2
    <3>6. n \in Nat /\ Hash[k] = b
      BY <2>1
    <3>7. \A i \in 1..(n + 1) : i \in 1..n \/ i = n + 1
      BY <3>6
    <3> HIDE DEF n, b
    <3> QED
      BY <3>2, <3>3, <3>4, <3>5, <3>6, <3>7
  <2>6. CASE Evict(k, b, s)
    <3>1. PICK i \in DOMAIN map[b] : map' = [map EXCEPT ![b][i] = Fresh(k, s)]
      BY <2>6 DEF Evict, HasRoom
    <3>2. map'[b] = [map[b] EXCEPT ![i] = Fresh(k, s)]
      BY <2>1, <2>2, <3>1
    <3>3. \A j \in DOMAIN map[b] : map[b][j].item # k
      BY <2>6 DEF Evict, HasRoom, Holds
    <3> QED
      BY <2>1, <2>2, <3>2, <3>3 DEF OneEntryPerKey
  <2> QED
    BY <1>2, <2>4, <2>5, <2>6 DEF Add, s
<1> QED
  BY <1>1, <1>2 DEF Next, Full

\* A backtrace never has two entries in the hash table.
THEOREM OneEntry == Spec => []OneEntryPerKey
<1>1. Init => OneEntryPerKey
  BY DEF Init, OneEntryPerKey
<1>2. Init => TypeOK
  BY CollectorAssumption DEF Init, TypeOK
<1> QED
  BY <1>1, <1>2, TypeStep, OneEntryStep, PTL DEF Spec

-----------------------------------------------------------------------------
(* The temporary file                                                       *)

\* Once a write has failed the file stays short of what flush_n says: the lemma of
\* NeverReadableAgain.  While none has, the file holds exactly that.
WholeFile == Readable => Len(file) = Archived

LEMMA ArchivedType ==
  ASSUME TypeOK
  PROVE  /\ Archived \in Nat
         /\ BUFFER_LENGTH * (flush_n + 1) = Archived + BUFFER_LENGTH
         /\ Len(file) \in Nat
<1>1. BUFFER_LENGTH \in Nat /\ flush_n \in Nat
  BY CollectorAssumption DEF TypeOK
<1>2. Len(file) \in Nat
  BY LenProperties DEF TypeOK
<1> QED
  BY <1>1, <1>2 DEF Archived

LEMMA PushAppends ==
  ASSUME TypeOK, WholeFile, Readable,
         NEW e \in Entry, PushStored(e) \/ PushFlushed(e)
  PROVE  /\ Readable' /\ WholeFile'
         /\ DOMAIN Archive' = 1..(Archived + buffer_index + 1)
         /\ \A i \in 1..(Archived + buffer_index) : Archive'[i] = Archive[i]
         /\ Archive'[Archived + buffer_index + 1] = e
<1> USE CollectorAssumption
<1>1. /\ Archived \in Nat /\ Len(file) = Archived
      /\ BUFFER_LENGTH \in Nat \ {0} /\ buffer_index \in 0..BUFFER_LENGTH
      /\ buffer \in [1..BUFFER_LENGTH -> Entry \cup {Default}]
  BY ArchivedType DEF WholeFile, TypeOK
<1>2. CASE PushStored(e)
  <2>1. Archived' = Archived /\ Readable' /\ WholeFile'
    BY <1>1, <1>2 DEF PushStored, Archived, Readable, WholeFile
  <2>2. /\ buffer_index' = buffer_index + 1
        /\ buffer_index + 1 \in 1..BUFFER_LENGTH
        /\ buffer' = [buffer EXCEPT ![buffer_index + 1] = e]
        /\ file' = file
    BY <1>1, <1>2 DEF PushStored
  <2>3. /\ buffer'[buffer_index + 1] = e
        /\ \A i \in 1..buffer_index : buffer'[i] = buffer[i]
    BY <1>1, <2>2
  <2>4. \A i \in 1..(Archived + buffer_index) :
          i > Archived => i - Archived \in 1..buffer_index
    BY <1>1
  <2> QED
    BY <1>1, <2>1, <2>2, <2>3, <2>4 DEF Archive
<1>3. CASE PushFlushed(e)
  <2>1. buffer_index = BUFFER_LENGTH
    BY <1>1, <1>3 DEF PushFlushed
  <2>2. /\ Written(BUFFER_LENGTH) \in Seq(Entry)
        /\ Len(Written(BUFFER_LENGTH)) = BUFFER_LENGTH
    BY <1>1, <2>1, WrittenType
  <2>3. /\ Len(file') = Archived + BUFFER_LENGTH
        /\ \A i \in 1..Archived : file'[i] = file[i]
        /\ \A i \in (Archived + 1)..(Archived + BUFFER_LENGTH) :
             file'[i] = buffer[i - Archived]
    <3>1. file' = file \o Written(BUFFER_LENGTH) /\ file \in Seq(Entry)
      BY <1>3 DEF PushFlushed, TypeOK
    <3>2. \A i \in 1..BUFFER_LENGTH : Written(BUFFER_LENGTH)[i] = buffer[i]
      BY DEF Written
    <3>3. /\ Len(file') = Archived + BUFFER_LENGTH
          /\ \A i \in 1..(Archived + BUFFER_LENGTH) :
               file'[i] = IF i <= Archived THEN file[i]
                          ELSE Written(BUFFER_LENGTH)[i - Archived]
      BY <1>1, <2>2, <3>1, ConcatProperties
    <3>4. \A i \in (Archived + 1)..(Archived + BUFFER_LENGTH) :
            /\ i \in 1..(Archived + BUFFER_LENGTH) /\ ~(i <= Archived)
            /\ i - Archived \in 1..BUFFER_LENGTH
      BY <1>1
    <3>5. \A i \in 1..Archived : i \in 1..(Archived + BUFFER_LENGTH) /\ i <= Archived
      BY <1>1
    <3> QED
      BY <3>2, <3>3, <3>4, <3>5
  <2>4. Archived' = Archived + BUFFER_LENGTH
    BY <1>3, ArchivedType DEF PushFlushed, Archived
  <2>5. Readable' /\ WholeFile'
    BY <1>1, <2>3, <2>4 DEF Readable, WholeFile
  <2>6. buffer_index' = 1 /\ buffer'[1] = e
    BY <1>1, <1>3 DEF PushFlushed
  <2> QED
    BY <1>1, <2>1, <2>3, <2>4, <2>5, <2>6 DEF Archive
<1> QED
  BY <1>2, <1>3

LEMMA PushFailedShort ==
  ASSUME TypeOK, Len(file) <= Archived, PushFailed
  PROVE  ~Readable'
<1>1. PICK n \in 0..(BUFFER_LENGTH - 1) : file' = file \o Written(n)
  BY DEF PushFailed
<1>2. Written(n) \in Seq(Entry) /\ Len(Written(n)) = n
  BY CollectorAssumption, WrittenType DEF PushFailed, TypeOK
<1>3. Len(file') = Len(file) + n
  BY <1>1, <1>2, ConcatProperties DEF TypeOK
<1>4. Archived' = Archived + BUFFER_LENGTH
  BY ArchivedType DEF PushFailed, Archived
<1> QED
  BY <1>3, <1>4, ArchivedType, CollectorAssumption DEF Readable

LEMMA PushShort ==
  ASSUME TypeOK, ~Readable, NEW e, Push(e)
  PROVE  ~Readable'
<1>1. CASE PushStored(e)
  BY <1>1 DEF PushStored, Readable, Archived
<1>2. CASE PushFlushed(e)
  <2>1. /\ Written(BUFFER_LENGTH) \in Seq(Entry)
        /\ Len(Written(BUFFER_LENGTH)) = BUFFER_LENGTH
    BY <1>2, CollectorAssumption, WrittenType DEF PushFlushed, TypeOK
  <2>2. Len(file') = Len(file) + BUFFER_LENGTH
    BY <1>2, <2>1, ConcatProperties DEF PushFlushed, TypeOK
  <2>3. Archived' = Archived + BUFFER_LENGTH
    BY <1>2, ArchivedType DEF PushFlushed, Archived
  <2> QED
    BY <2>2, <2>3, ArchivedType, CollectorAssumption DEF Readable
<1>3. CASE PushFailed
  BY <1>3, PushFailedShort, ArchivedType DEF Readable
<1> QED
  BY <1>1, <1>2, <1>3 DEF Push

LEMMA ShortStep == TypeOK /\ ~Readable /\ [Next]_vars => ~Readable'
<1> SUFFICES ASSUME TypeOK, ~Readable, [Next]_vars
             PROVE  ~Readable'
  OBVIOUS
<1>1. CASE UNCHANGED <<file, flush_n>>
  BY <1>1 DEF Readable, Archived
<1>2. ASSUME NEW k \in Keys, Add(k), ~UNCHANGED <<file, flush_n>>
      PROVE  ~Readable'
  BY <1>2, PushShort DEF Add, Hit, Insert, HasRoom, Evict, temp_array
<1> QED
  BY <1>1, <1>2 DEF Next, Full, vars, temp_array

\* A reader that has once been refused is refused for the rest of the session.
THEOREM NeverReadable == Spec => NeverReadableAgain
<1>1. TypeOK /\ [Next]_vars => [~Readable => ~Readable']_vars
  BY ShortStep
<1> QED
  BY <1>1, TypeCorrect, PTL DEF Spec, NeverReadableAgain

-----------------------------------------------------------------------------
(* Every sample exactly once                                                *)

\* What a step does to the slots of the hash table: one slot, x, of the bucket of k
\* is filled or changed; it counts the new sample and, unless its entry is evicted,
\* the samples it counted before.
SlotStep(k, x, evicts) ==
  /\ IF x \in Slots THEN evicts \/ Slot(x).item = k ELSE ~evicts
  /\ Slots' = Slots \cup {x}
  /\ \A y \in Slots \ {x} : Slot(y)' = Slot(y)
  /\ Slot(x)'.item = k
  /\ Slot(x)'.samples =
       (IF x \in Slots /\ ~evicts THEN Slot(x).samples ELSE {}) \cup {Len(log) + 1}

\* ... and to the archive: nothing, or the evicted entry is appended.
ArchiveStep(x, evicts) ==
  IF evicts
  THEN /\ DOMAIN Archive' = DOMAIN Archive \cup {Archived + buffer_index + 1}
       /\ Archived + buffer_index + 1 \notin DOMAIN Archive
       /\ \A i \in DOMAIN Archive : Archive'[i] = Archive[i]
       /\ Archive'[Archived + buffer_index + 1] = Slot(x)
  ELSE Archive' = Archive

LEMMA HitStep ==
  ASSUME TypeOK, OneEntryPerKey, NEW k \in Keys, Add(k),
         Hit(k, Hash[k], Len(log) + 1)
  PROVE  \E x : SlotStep(k, x, FALSE) /\ ArchiveStep(x, FALSE)
<1> DEFINE s == Len(log) + 1
           b == Hash[k]
<1>1. /\ b \in Buckets /\ s \in Nat /\ map \in [Buckets -> Seq(Entry)]
      /\ \A c \in Buckets : Len(map[c]) \in Nat /\ DOMAIN map[c] = 1..Len(map[c])
  BY BucketStep DEF TypeOK
<1>2. map' = [map EXCEPT ![b] = Counting(map[b], k, s)] /\ UNCHANGED temp_array
  BY <1>1 DEF Hit
<1>3. PICK i \in DOMAIN map[b] : map[b][i].item = k
  BY DEF Hit, Holds
<1>4. \A j \in DOMAIN map[b] : map[b][j].item = k => j = i
  BY <1>1, <1>3 DEF OneEntryPerKey
<1>5. /\ Len(Counting(map[b], k, s)) = Len(map[b])
  BY <1>1, CountingType
<1>6. \A c \in Buckets : Len(map'[c]) = Len(map[c])
  BY <1>1, <1>2, <1>5
<1>7. Slots' = Slots
  BY <1>6 DEF Slots
<1> DEFINE x == <<b, i>>
<1>8. Len(map[b]) <= BUCKETS_ASSOCIATIVITY /\ BUCKETS_ASSOCIATIVITY \in Nat
  BY <1>1, CollectorAssumption DEF TypeOK
<1>9. x \in Slots
  BY <1>1, <1>3, <1>8 DEF Slots
<1>10. \A y \in Slots : y = <<y[1], y[2]>> /\ y[1] \in Buckets
                        /\ y[2] \in DOMAIN map[y[1]]
  BY <1>1 DEF Slots
<1>11. \A y \in Slots \ {x} : Slot(y)' = Slot(y)
  <2> SUFFICES ASSUME NEW y \in Slots \ {x}
               PROVE  map'[y[1]][y[2]] = map[y[1]][y[2]]
    BY DEF Slot
  <2>1. CASE y[1] # b
    BY <1>1, <1>2, <1>10, <2>1
  <2>2. CASE y[1] = b
    <3>1. y[2] \in DOMAIN map[b] /\ y[2] # i
      BY <1>10, <2>2
    <3>2. map[b][y[2]].item # k
      BY <1>4, <3>1
    <3> QED
      BY <1>1, <1>2, <2>2, <3>1, <3>2 DEF Counting
  <2> QED
    BY <2>1, <2>2
<1>12. Slot(x)'.item = k /\ Slot(x)'.samples = Slot(x).samples \cup {s}
  <2>1. map[b][i] \in Entry
    BY <1>1, <1>3, ElementOfSeq
  <2>2. map'[b][i] = [map[b][i] EXCEPT !.samples = @ \cup {s}]
    BY <1>1, <1>2, <1>3 DEF Counting
  <2> QED
    BY <1>3, <2>1, <2>2 DEF Slot, Entry
<1>13. SlotStep(k, x, FALSE)
  <2>1. Slot(x).item = k
    BY <1>3 DEF Slot
  <2> QED
    BY <1>7, <1>9, <1>11, <1>12, <2>1 DEF SlotStep
<1>14. ArchiveStep(x, FALSE)
  BY <1>2 DEF ArchiveStep, Archive, Archived, temp_array
<1> QED
  BY <1>13, <1>14

LEMMA InsertStep ==
  ASSUME TypeOK, NEW k \in Keys, Add(k), Insert(k, Hash[k], Len(log) + 1)
  PROVE  \E x : SlotStep(k, x, FALSE) /\ ArchiveStep(x, FALSE)
<1> DEFINE s == Len(log) + 1
           b == Hash[k]
<1>0. PICK n : n = Len(map[b]) + 1
  OBVIOUS
<1> DEFINE x == <<b, n>>
<1>1. /\ b \in Buckets /\ s \in Nat /\ map \in [Buckets -> Seq(Entry)]
      /\ \A c \in Buckets : Len(map[c]) \in Nat /\ DOMAIN map[c] = 1..Len(map[c])
  BY BucketStep DEF TypeOK
<1>2. /\ map' = [map EXCEPT ![b] = Append(map[b], Fresh(k, s))]
      /\ UNCHANGED temp_array
  BY <1>1 DEF Insert, HasRoom
<1>3. Fresh(k, s) \in Entry
  BY <1>1, FreshEntry
<1>4. /\ Len(map'[b]) = n /\ map'[b][n] = Fresh(k, s)
      /\ \A j \in 1..Len(map[b]) : map'[b][j] = map[b][j]
  BY <1>0, <1>1, <1>2, <1>3, AppendProperties
<1>5. /\ n \in 1..BUCKETS_ASSOCIATIVITY
      /\ Len(map[b]) <= BUCKETS_ASSOCIATIVITY /\ BUCKETS_ASSOCIATIVITY \in Nat
  BY <1>0, <1>1, CollectorAssumption DEF Insert, HasRoom, TypeOK
<1>6. \A c \in Buckets : c # b => map'[c] = map[c]
  BY <1>1, <1>2
<1>7. \A j \in 1..BUCKETS_ASSOCIATIVITY : j <= n <=> j <= Len(map[b]) \/ j = n
  BY <1>0, <1>1, <1>5
<1>8. Slots' = Slots \cup {x} /\ x \notin Slots
  <2>1. \A y \in Buckets \X (1..BUCKETS_ASSOCIATIVITY) :
          y[2] <= Len(map'[y[1]]) <=> y[2] <= Len(map[y[1]]) \/ y = x
    BY <1>1, <1>4, <1>6, <1>7
  <2>2. x \in Buckets \X (1..BUCKETS_ASSOCIATIVITY) /\ ~(x[2] <= Len(map[x[1]]))
    BY <1>0, <1>1, <1>5
  <2> HIDE DEF x
  <2> QED
    BY <2>1, <2>2 DEF Slots
<1>9. \A y \in Slots \ {x} : Slot(y)' = Slot(y)
  <2> SUFFICES ASSUME NEW y \in Slots
               PROVE  map'[y[1]][y[2]] = map[y[1]][y[2]]
    BY DEF Slot
  <2>1. y[1] \in Buckets /\ y[2] \in 1..Len(map[y[1]])
    BY <1>1 DEF Slots
  <2>2. CASE y[1] = b
    BY <1>4, <2>1, <2>2
  <2>3. CASE y[1] # b
    BY <1>6, <2>1, <2>3
  <2> QED
    BY <2>2, <2>3
<1>10. Slot(x)'.item = k /\ Slot(x)'.samples = {s}
  BY <1>4 DEF Slot, Fresh
<1>11. SlotStep(k, x, FALSE)
  BY <1>8, <1>9, <1>10 DEF SlotStep
<1>12. ArchiveStep(x, FALSE)
  BY <1>2 DEF ArchiveStep, Archive, Archived, temp_array
<1> QED
  BY <1>11, <1>12

LEMMA EvictStep ==
  ASSUME TypeOK, WholeFile, Readable, Readable',
         NEW k \in Keys, Add(k), Evict(k, Hash[k], Len(log) + 1)
  PROVE  WholeFile' /\ \E x : SlotStep(k, x, TRUE) /\ ArchiveStep(x, TRUE)
<1> DEFINE s == Len(log) + 1
           b == Hash[k]
<1>1. /\ b \in Buckets /\ s \in Nat /\ map \in [Buckets -> Seq(Entry)]
      /\ \A c \in Buckets : Len(map[c]) \in Nat /\ DOMAIN map[c] = 1..Len(map[c])
  BY BucketStep DEF TypeOK
<1>2. PICK i \in DOMAIN map[b] :
        map' = [map EXCEPT ![b][i] = Fresh(k, s)] /\ Push(map[b][i])
  BY DEF Evict, HasRoom
<1> DEFINE x == <<b, i>>
<1>3. map[b][i] \in Entry /\ Fresh(k, s) \in Entry
  BY <1>1, <1>2, ElementOfSeq, FreshEntry
<1>4. /\ map'[b] = [map[b] EXCEPT ![i] = Fresh(k, s)]
      /\ \A c \in Buckets : c # b => map'[c] = map[c]
  BY <1>1, <1>2
<1>5. \A c \in Buckets : Len(map'[c]) = Len(map[c])
  BY <1>1, <1>2, <1>3, <1>4, ExceptSeq
<1>6. Slots' = Slots
  BY <1>5 DEF Slots
<1>7. x \in Slots
  <2>1. Len(map[b]) <= BUCKETS_ASSOCIATIVITY /\ BUCKETS_ASSOCIATIVITY \in Nat
    BY <1>1, CollectorAssumption DEF TypeOK
  <2> QED
    BY <1>1, <1>2, <2>1 DEF Slots
<1>8. \A y \in Slots \ {x} : Slot(y)' = Slot(y)
  <2> SUFFICES ASSUME NEW y \in Slots \ {x}
               PROVE  map'[y[1]][y[2]] = map[y[1]][y[2]]
    BY DEF Slot
  <2>1. y[1] \in Buckets /\ y[2] \in DOMAIN map[y[1]] /\ y = <<y[1], y[2]>>
    BY <1>1 DEF Slots
  <2> QED
    BY <1>4, <2>1
<1>9. Slot(x)'.item = k /\ Slot(x)'.samples = {s}
  BY <1>1, <1>2, <1>4 DEF Slot, Fresh
<1>10. SlotStep(k, x, TRUE)
  BY <1>6, <1>7, <1>8, <1>9 DEF SlotStep
<1>11. PushStored(map[b][i]) \/ PushFlushed(map[b][i])
  <2>1. Len(file) <= Archived
    BY ArchivedType DEF WholeFile
  <2> QED
    BY <1>2, <2>1, PushFailedShort DEF Push
<1>12. /\ WholeFile'
       /\ DOMAIN Archive' = 1..(Archived + buffer_index + 1)
       /\ \A j \in 1..(Archived + buffer_index) : Archive'[j] = Archive[j]
       /\ Archive'[Archived + buffer_index + 1] = map[b][i]
  BY <1>3, <1>11, PushAppends
<1>13. Archived + buffer_index \in Nat
  BY ArchivedType, CollectorAssumption DEF TypeOK
<1>14. /\ 1..(Archived + buffer_index + 1) =
            1..(Archived + buffer_index) \cup {Archived + buffer_index + 1}
       /\ Archived + buffer_index + 1 \notin 1..(Archived + buffer_index)
  BY <1>13
<1>15. DOMAIN Archive = 1..(Archived + buffer_index)
  BY DEF Archive
<1>16. Slot(x) = map[b][i]
  BY DEF Slot
<1>17. ArchiveStep(x, TRUE)
  BY <1>12, <1>14, <1>15, <1>16 DEF ArchiveStep
<1> HIDE DEF x
<1>18. \E y : SlotStep(k, y, TRUE) /\ ArchiveStep(y, TRUE)
  BY <1>10, <1>17
<1> QED
  BY <1>12, <1>18

LEMMA ExactlyKept ==
  ASSUME TypeOK, CountsOwn, CountsOnce, CountsAll, NEW k \in Keys, Add(k),
         NEW x, NEW evicts \in BOOLEAN, SlotStep(k, x, evicts), ArchiveStep(x, evicts)
  PROVE  CountsOwn' /\ CountsOnce' /\ CountsAll'
<1>0. PICK s : s = Len(log) + 1
  OBVIOUS
<1>1. /\ Len(log) \in Nat /\ Len(log') = s
      /\ \A j \in 1..Len(log) : log'[j] = log[j]
      /\ log'[s] = k
  <2>1. log' = Append(log, k) /\ log \in Seq(Keys)
    BY DEF Add, TypeOK
  <2> QED
    BY <1>0, <2>1, AppendProperties, LenProperties
<1>2. \A e : Sound(e) => /\ s \notin e.samples
                         /\ e.samples \subseteq {j \in 1..s : log'[j] = e.item}
  BY <1>0, <1>1 DEF Sound
<1>3. s \in 1..s /\ \A j \in 1..s : j = s \/ j \in 1..Len(log)
  BY <1>0, <1>1
<1>4. PICK p : p = Archived + buffer_index + 1
  OBVIOUS
<1>5. /\ Slots' = Slots \cup {x}
      /\ \A y \in Slots \ {x} : Slot(y)' = Slot(y)
      /\ Slot(x)'.item = k
      /\ Slot(x)'.samples =
           (IF x \in Slots /\ ~evicts THEN Slot(x).samples ELSE {}) \cup {s}
      /\ IF x \in Slots THEN evicts \/ Slot(x).item = k ELSE ~evicts
  BY <1>0 DEF SlotStep
<1>6. /\ ~evicts => Archive' = Archive
      /\ evicts => /\ DOMAIN Archive' = DOMAIN Archive \cup {p} /\ p \notin DOMAIN Archive
                   /\ \A i \in DOMAIN Archive : Archive'[i] = Archive[i]
                   /\ Archive'[p] = Slot(x)
  BY <1>4 DEF ArchiveStep
<1>7. \A y \in Slots : Sound(Slot(y))
  BY DEF CountsOwn
<1>8. \A i \in DOMAIN Archive : Sound(Archive[i])
  BY DEF CountsOwn
<1>9. CountsOwn'
  <2>1. ASSUME NEW y \in Slots'
        PROVE  Slot(y)'.samples \subseteq {j \in 1..s : log'[j] = Slot(y)'.item}
    <3>1. CASE y # x
      BY <1>2, <1>5, <1>7, <3>1
    <3>2. CASE y = x
      BY <1>1, <1>2, <1>3, <1>5, <1>7, <3>2
    <3> QED
      BY <3>1, <3>2
  <2>2. ASSUME NEW i \in DOMAIN Archive'
        PROVE  Archive'[i].samples \subseteq {j \in 1..s : log'[j] = Archive'[i].item}
    BY <1>2, <1>5, <1>6, <1>7, <1>8
  <2> QED
    BY <1>1, <2>1, <2>2 DEF CountsOwn, Sound
<1>10. \A y \in Slots : s \notin Slot(y).samples
  BY <1>2, <1>7
<1>11. \A i \in DOMAIN Archive : s \notin Archive[i].samples
  BY <1>2, <1>8
<1>12. CountsOnce'
  <2>1. /\ \A y, z \in Slots : y # z => Slot(y).samples \cap Slot(z).samples = {}
        /\ \A i, j \in DOMAIN Archive :
             i # j => Archive[i].samples \cap Archive[j].samples = {}
        /\ \A y \in Slots, i \in DOMAIN Archive :
             Slot(y).samples \cap Archive[i].samples = {}
    BY DEF CountsOnce, Apart
  <2>2. ASSUME NEW y \in Slots', NEW z \in Slots', y # z
        PROVE  Slot(y)'.samples \cap Slot(z)'.samples = {}
    BY <1>5, <1>10, <2>1, <2>2
  <2>3. ASSUME NEW i \in DOMAIN Archive', NEW j \in DOMAIN Archive', i # j
        PROVE  Archive'[i].samples \cap Archive'[j].samples = {}
    BY <1>5, <1>6, <2>1, <2>3
  <2>4. ASSUME NEW y \in Slots', NEW i \in DOMAIN Archive'
        PROVE  Slot(y)'.samples \cap Archive'[i].samples = {}
    BY <1>5, <1>6, <1>10, <1>11, <2>1, <2>4
  <2> QED
    BY <2>2, <2>3, <2>4 DEF CountsOnce, Apart
<1>13. CountsAll'
  <2> SUFFICES ASSUME NEW r \in 1..s
               PROVE  \/ \E y \in Slots' : r \in Slot(y)'.samples
                      \/ \E i \in DOMAIN Archive' : r \in Archive'[i].samples
    BY <1>1 DEF CountsAll
  <2>1. CASE r = s
    BY <1>5, <2>1
  <2>2. CASE r \in 1..Len(log)
    <3>1. CASE \E y \in Slots : r \in Slot(y).samples
      BY <1>5, <1>6, <3>1
    <3>2. CASE \E i \in DOMAIN Archive : r \in Archive[i].samples
      BY <1>6, <3>2
    <3> QED
      BY <2>2, <3>1, <3>2 DEF CountsAll
  <2> QED
    BY <1>3, <2>1, <2>2
<1> QED
  BY <1>9, <1>12, <1>13

ExactlyInv == TypeOK /\ OneEntryPerKey /\ WholeFile /\ ExactlyOnce

LEMMA ExactlyStep == ExactlyInv /\ [Next]_vars => ExactlyInv'
<1> SUFFICES ASSUME ExactlyInv, [Next]_vars
             PROVE  WholeFile' /\ ExactlyOnce'
  BY TypeStep, OneEntryStep DEF ExactlyInv
<1> USE DEF ExactlyInv
<1>1. CASE UNCHANGED vars
  <2>1. /\ Slots' = Slots /\ Archive' = Archive /\ Archived' = Archived
        /\ Readable' = Readable /\ log' = log /\ file' = file
        /\ \A x : Slot(x)' = Slot(x)
    BY <1>1 DEF vars, temp_array, Slots, Slot, Archive, Archived, Readable
  <2> QED
    BY <2>1 DEF WholeFile, ExactlyOnce, CountsOwn, CountsOnce, CountsAll, Sound,
                Apart
<1>2. ASSUME NEW k \in Keys, Add(k)
      PROVE  WholeFile' /\ ExactlyOnce'
  <2> SUFFICES ASSUME Readable'
               PROVE  WholeFile' /\ CountsOwn' /\ CountsOnce' /\ CountsAll'
    BY DEF WholeFile, ExactlyOnce
  <2>1. Readable
    BY ShortStep
  <2>2. CountsOwn /\ CountsOnce /\ CountsAll
    BY <2>1 DEF ExactlyOnce
  <2>3. CASE Hit(k, Hash[k], Len(log) + 1)
    <3>1. PICK x : SlotStep(k, x, FALSE) /\ ArchiveStep(x, FALSE)
      BY <1>2, <2>3, HitStep
    <3>2. WholeFile'
      BY <2>3 DEF Hit, temp_array, WholeFile, Readable, Archived
    <3> QED
      BY <1>2, <2>2, <3>1, <3>2, ExactlyKept
  <2>4. CASE Insert(k, Hash[k], Len(log) + 1)
    <3>1. PICK x : SlotStep(k, x, FALSE) /\ ArchiveStep(x, FALSE)
      BY <1>2, <2>4, InsertStep
    <3>2. WholeFile'
      BY <2>4 DEF Insert, HasRoom, temp_array, WholeFile, Readable, Archived
    <3> QED
      BY <1>2, <2>2, <3>1, <3>2, ExactlyKept
  <2>5. CASE Evict(k, Hash[k], Len(log) + 1)
    <3>1. WholeFile' /\ \E x : SlotStep(k, x, TRUE) /\ ArchiveStep(x, TRUE)
      BY <1>2, <2>1, <2>5, EvictStep
    <3>2. PICK x : SlotStep(k, x, TRUE) /\ ArchiveStep(x, TRUE)
      BY <3>1
    <3> QED
      BY <1>2, <2>2, <3>1, <3>2, ExactlyKept
  <2> QED
    BY <1>2, <2>3, <2>4, <2>5 DEF Add
<1> QED
  BY <1>1, <1>2 DEF Next, Full

LEMMA ExactlyInit == Init => ExactlyInv
<1> SUFFICES ASSUME Init
             PROVE  ExactlyInv
  OBVIOUS
<1>1. Archived = 0 /\ Len(file) = 0 /\ Len(log) = 0
  BY CollectorAssumption DEF Init, Archived
<1>2. TypeOK /\ OneEntryPerKey
  BY CollectorAssumption DEF Init, TypeOK, OneEntryPerKey
<1>3. Slots = {}
  BY CollectorAssumption DEF Init, Slots
<1>4. DOMAIN Archive = {}
  BY <1>1 DEF Init, Archive
<1> QED
  BY <1>1, <1>2, <1>3, <1>4
  DEF ExactlyInv, WholeFile, ExactlyOnce, CountsOwn, CountsOnce, CountsAll

LEMMA ExactlyInvariant == Spec => []ExactlyInv
BY ExactlyInit, ExactlyStep, PTL DEF Spec

\* A report that can read the collector counts every sample ever added exactly once
\* and under its own backtrace, whatever was evicted, flushed and counted again.
THEOREM Exactly == Spec => []ExactlyOnce
<1>1. ExactlyInv => ExactlyOnce
  BY DEF ExactlyInv
<1> QED
  BY <1>1, ExactlyInvariant, PTL

-----------------------------------------------------------------------------
(* Few samples                                                              *)

\* How long a new collector cannot fail: its first sample evicts nothing, each
\* later one an entry at most, and only a full buffer is written to the file.
Few ==
  /\ log = <<>> => Init
  /\ Len(log) > 0 => buffer_index < Len(log)
  /\ flush_n = 0 \/ Len(log) > BUFFER_LENGTH + 1

LEMMA FewInit == Init => Few
BY DEF Init, Few

LEMMA FewStep == TypeOK /\ Few /\ [Next]_vars => Few'
<1> SUFFICES ASSUME TypeOK, Few, [Next]_vars
             PROVE  Few'
  OBVIOUS
<1>1. CASE UNCHANGED vars
  BY <1>1 DEF Few, Init, vars, temp_array
<1>2. ASSUME NEW k \in Keys, Add(k)
      PROVE  Few'
  <2>0. /\ Len(log) \in Nat /\ log \in Seq(Keys) /\ BUFFER_LENGTH \in Nat \ {0}
        /\ buffer_index \in Nat /\ flush_n \in Nat
    BY CollectorAssumption DEF TypeOK
  <2>1. Len(log') = Len(log) + 1 /\ log' # <<>>
    BY <1>2, <2>0 DEF Add
  <2>2. CASE UNCHANGED temp_array
    <3>1. buffer_index' = buffer_index /\ flush_n' = flush_n
      BY <2>2 DEF temp_array
    <3>2. buffer_index < Len(log) + 1
      BY <2>0 DEF Few, Init
    <3> QED
      BY <2>0, <2>1, <3>1, <3>2 DEF Few
  <2>3. CASE Evict(k, Hash[k], Len(log) + 1)
    <3>1. log # <<>>
      BY <2>3, CollectorAssumption DEF Few, Init, Evict, HasRoom
    <3>2. Len(log) > 0 /\ buffer_index < Len(log)
      BY <2>0, <3>1 DEF Few
    <3>3. PICK entry : Push(entry)
      BY <2>3 DEF Evict
    <3>4. \/ /\ buffer_index' = buffer_index + 1 /\ flush_n' = flush_n
          \/ /\ buffer_index >= BUFFER_LENGTH /\ buffer_index' \in {0, 1}
      BY <3>3 DEF Push, PushStored, PushFlushed, PushFailed
    <3> QED
      BY <2>0, <2>1, <3>2, <3>4 DEF Few
  <2> QED
    BY <1>2, <2>2, <2>3 DEF Add, Hit, Insert
<1> QED
  BY <1>1, <1>2 DEF Next, Full

LEMMA FewReadable ==
  ASSUME TypeOK, Few, Len(log) <= BUFFER_LENGTH + 1
  PROVE  Readable
<1>1. flush_n = 0 /\ BUFFER_LENGTH \in Nat /\ Len(file) \in Nat
  BY CollectorAssumption DEF TypeOK, Few
<1> QED
  BY <1>1 DEF Readable, Archived

-----------------------------------------------------------------------------
(* The collector implements SampleCounter                                   *)

\* The samples of k, by the log.
Logged(k) == {s \in 1..Len(log) : log[s] = k}
counted == [k \in Keys |-> IF Readable THEN Counted(k) ELSE {}]

LEMMA CountedLogged ==
  ASSUME ExactlyInv, Readable, NEW k \in Keys
  PROVE  Counted(k) = Logged(k)
<1>1. CountsOwn /\ CountsAll
  BY DEF ExactlyInv, ExactlyOnce
<1>2. ASSUME NEW s \in Counted(k)
      PROVE  s \in Logged(k)
  <2>1. \/ \E x \in Slots : Slot(x).item = k /\ s \in Slot(x).samples
        \/ \E i \in DOMAIN Archive : Archive[i].item = k /\ s \in Archive[i].samples
    BY <1>2 DEF Counted
  <2> QED
    BY <1>1, <2>1 DEF CountsOwn, Sound, Logged
<1>3. ASSUME NEW s \in Logged(k)
      PROVE  s \in Counted(k)
  <2>1. s \in 1..Len(log) /\ log[s] = k
    BY <1>3 DEF Logged
  <2>2. CASE \E x \in Slots : s \in Slot(x).samples
    <3>1. PICK x \in Slots : s \in Slot(x).samples
      BY <2>2
    <3>2. Slot(x).item = k
      BY <1>1, <2>1, <3>1 DEF CountsOwn, Sound
    <3> QED
      BY <3>1, <3>2 DEF Counted
  <2>3. CASE \E i \in DOMAIN Archive : s \in Archive[i].samples
    <3>1. PICK i \in DOMAIN Archive : s \in Archive[i].samples
      BY <2>3
    <3>2. Archive[i].item = k
      BY <1>1, <2>1, <3>1 DEF CountsOwn, Sound
    <3> QED
      BY <3>1, <3>2 DEF Counted
  <2> QED
    BY <1>1, <2>1, <2>2, <2>3 DEF CountsAll
<1> QED
  BY <1>2, <1>3

AllLogged == \A k \in Keys : Counted(k) = Logged(k)

LEMMA AllLoggedStep == ExactlyInv' /\ Readable' => AllLogged'
<1>1. ExactlyInv /\ Readable => AllLogged
  BY CountedLogged DEF AllLogged
<1> QED
  BY <1>1, PTL

LEMMA FailStep ==
  ASSUME ExactlyInv, Readable, ~Readable', NEW k \in Keys, Add(k)
  PROVE  WritesMayFail
<1>1. TypeOK /\ WholeFile
  BY DEF ExactlyInv
<1>2. ~UNCHANGED temp_array
  BY DEF temp_array, Readable, Archived
<1>3. PICK i \in DOMAIN map[Hash[k]] : Push(map[Hash[k]][i])
  BY <1>2 DEF Add, Hit, Insert, HasRoom, Evict
<1>4. map[Hash[k]][i] \in Entry
  BY <1>1, <1>3, BucketStep, ElementOfSeq DEF TypeOK
<1>5. PushFailed
  BY <1>1, <1>3, <1>4, PushAppends DEF Push
<1> QED
  BY <1>5 DEF PushFailed

LEMMA RefineStep == ExactlyInv /\ ExactlyInv' /\ [Next]_vars => [Counter!Next]_(Counter!vars)
<1> SUFFICES ASSUME ExactlyInv, ExactlyInv', [Next]_vars
             PROVE  [Counter!Next]_(Counter!vars)
  OBVIOUS
<1> USE DEF ExactlyInv
<1>1. CASE UNCHANGED vars
  <2>1. /\ Readable' = Readable /\ log' = log
        /\ \A k : Counted(k)' = Counted(k)
    BY <1>1 DEF vars, temp_array, Slots, Slot, Archive, Archived, Readable, Counted
  <2> QED
    BY <2>1 DEF Counter!vars
<1>2. ASSUME NEW k \in Keys, Add(k)
      PROVE  Counter!Next
  <2>1. Len(log') = Len(log) + 1 /\ Len(log) \in Nat
        /\ log'[Len(log) + 1] = k /\ \A j \in 1..Len(log) : log'[j] = log[j]
    BY <1>2, AppendProperties, LenProperties DEF Add, TypeOK
  <2>2. CASE Readable'
    <3>1. Readable
      BY <2>2, ShortStep
    <3>2. \A j \in Keys : Counted(j) = Logged(j)
      BY <3>1, CountedLogged
    <3>3. \A j \in Keys : Counted(j)' = Logged(j)'
      BY <2>2, AllLoggedStep DEF AllLogged
    <3>4. \A j \in Keys :
            Logged(j)' = IF j = k THEN Logged(j) \cup {Len(log) + 1} ELSE Logged(j)
      <4>1. 1..(Len(log) + 1) = 1..Len(log) \cup {Len(log) + 1}
        BY <2>1
      <4> QED
        BY <2>1, <4>1 DEF Logged
    <3>5. counted' = [counted EXCEPT ![k] = @ \cup {Len(log) + 1}]
      BY <2>2, <3>1, <3>2, <3>3, <3>4 DEF counted
    <3> QED
      BY <2>1, <2>2, <3>1, <3>5 DEF Counter!Next, Counter!Add, counted
  <2>3. CASE Readable /\ ~Readable'
    <3>1. WritesMayFail
      BY <1>2, <2>3, FailStep
    <3> QED
      BY <2>1, <2>3, <3>1 DEF Counter!Next, Counter!Lose, Counter!Nothing
  <2>4. CASE ~Readable /\ ~Readable'
    <3>1. counted' = counted
      BY <2>4 DEF counted
    <3>2. Readable' = Readable
      BY <2>4 DEF Readable
    <3>3. Counter!Add(k)
      BY <2>1, <2>4, <3>1, <3>2 DEF Counter!Add, counted
    <3> QED
      BY <3>3 DEF Counter!Next
  <2> QED
    BY <2>2, <2>3, <2>4
<1> QED
  BY <1>1, <1>2 DEF Next, Full

\* The collector implements the abstract counter that reports rely on.
THEOREM Refinement == Spec => CountsSamples
<1>1. Init => Counter!Init
  <2> SUFFICES ASSUME Init
               PROVE  Counter!Init
    OBVIOUS
  <2>1. Len(log) = 0 /\ Len(file) = 0 /\ Archived = 0
    BY CollectorAssumption DEF Init, Archived
  <2>2. Readable
    BY <2>1 DEF Readable
  <2>3. ExactlyInv
    BY ExactlyInit
  <2>4. \A k \in Keys : Counted(k) = {}
    BY <2>1, <2>2, <2>3, CountedLogged DEF Logged
  <2> QED
    BY <2>1, <2>2, <2>4 DEF Counter!Init, Counter!Nothing
<1> QED
  BY <1>1, RefineStep, ExactlyInvariant, PTL DEF Spec, CountsSamples, Counter!Spec
=============================================================================
