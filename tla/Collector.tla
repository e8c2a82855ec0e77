----------------------------- MODULE Collector -----------------------------
(***************************************************************************)
(* The Collector of collector.rs: a hash table of small fixed buckets that *)
(* counts equal backtraces in place and, when a bucket is full, evicts its *)
(* rarest entry to a temporary file through a fixed buffer.                *)
(*                                                                         *)
(* A count is kept as the set of the samples it counts, numbered in the    *)
(* order they were added, so that a sample lost or counted twice shows.    *)
(* Collector::add always runs under the profiler's write lock, with a      *)
(* count of 1: one step here.                                              *)
(***************************************************************************)
EXTENDS Naturals, Sequences, FiniteSets

CONSTANTS
  Keys,                   \* the backtraces, as UnresolvedFrames::eq tells them apart
  NoKey,                  \* the key of a default entry
  Buckets,                \* the buckets of the hash table
  Hash,                   \* the bucket each backtrace hashes to
  BUCKETS_ASSOCIATIVITY,
  BUFFER_LENGTH,
  WritesMayFail,          \* may write_all() to the temporary file fail?
  MaxSamples              \* bound: how many samples are added

ASSUME CollectorAssumption ==
  /\ Hash \in [Keys -> Buckets]
  /\ BUCKETS_ASSOCIATIVITY \in Nat \ {0}
  /\ BUFFER_LENGTH \in Nat \ {0}
  /\ WritesMayFail \in BOOLEAN
  /\ MaxSamples \in Nat

VARIABLES
  map,           \* HashCounter: the live entries of each bucket
  buffer,        \* TempFdArray: its buffer, ...
  buffer_index,  \* ... how many entries of it are live, ...
  file,          \* ... the whole entries written to the file ...
  flush_n,       \* ... and how many buffers it believes are there
  log            \* history: the key of each sample added

temp_array == <<buffer, buffer_index, file, flush_n>>
vars == <<map, temp_array, log>>

Entry == [item : Keys, samples : SUBSET Nat]
Default == [item |-> NoKey, samples |-> {}]   \* Entry::default()
Fresh(k, s) == [item |-> k, samples |-> {s}]
Count(entry) == Cardinality(entry.samples)

TypeOK ==
  /\ map \in [Buckets -> Seq(Entry)]
  /\ \A b \in Buckets : Len(map[b]) <= BUCKETS_ASSOCIATIVITY
  /\ buffer \in [1..BUFFER_LENGTH -> Entry \cup {Default}]
  /\ buffer_index \in 0..BUFFER_LENGTH
  /\ \A i \in 1..buffer_index : buffer[i] \in Entry
  /\ file \in Seq(Entry)
  /\ flush_n \in Nat
  /\ log \in Seq(Keys)

Init ==
  /\ map = [b \in Buckets |-> <<>>]
  /\ buffer = [i \in 1..BUFFER_LENGTH |-> Default]
  /\ buffer_index = 0
  /\ file = <<>>
  /\ flush_n = 0
  /\ log = <<>>

-----------------------------------------------------------------------------
(* TempFdArray::push, flush_buffer                                          *)

PushStored(entry) ==
  /\ buffer_index < BUFFER_LENGTH
  /\ buffer' = [buffer EXCEPT ![buffer_index + 1] = entry]
  /\ buffer_index' = buffer_index + 1
  /\ UNCHANGED <<file, flush_n>>

\* The whole buffer, in order, as write_all() appends it.
Written(n) == [i \in 1..n |-> buffer[i]]

\* Mutant: a write_all() that fails is tried again, from the first entry of the buffer.
PushFlushedAgain(entry) ==
  /\ buffer_index >= BUFFER_LENGTH
  /\ \E n \in 0..(BUFFER_LENGTH - 1) :
       (n > 0 => WritesMayFail) /\ file' = file \o Written(n) \o Written(BUFFER_LENGTH)
  /\ flush_n' = flush_n + 1
  /\ buffer' = [buffer EXCEPT ![1] = entry]
  /\ buffer_index' = 1
PushFlushed(entry) ==
  /\ buffer_index >= BUFFER_LENGTH
  /\ file' = file \o Written(BUFFER_LENGTH)
  /\ flush_n' = flush_n + 1
  /\ buffer' = [buffer EXCEPT ![1] = entry]
  /\ buffer_index' = 1

\* write_all() fails after some of the buffer.  The index is reset and the flush
\* counted before it is called; the entry being pushed is dropped.
PushFailed ==
  /\ WritesMayFail
  /\ buffer_index >= BUFFER_LENGTH
  /\ \E n \in 0..(BUFFER_LENGTH - 1) : file' = file \o Written(n)
  /\ flush_n' = flush_n + 1
  /\ buffer_index' = 0
  /\ UNCHANGED buffer

Push(entry) == PushStored(entry) \/ PushFlushed(entry) \/ PushFailed

\* try_iter() reads as many bytes as flush_n says, or fails.
Archived == BUFFER_LENGTH * flush_n
Readable == Len(file) >= Archived

\* The entries it chains after the hash table, at the place they were pushed to (it
\* yields those of the buffer before those of the file: readers add counts up).
Archive ==
  [i \in 1..(Archived + buffer_index) |->
     IF i <= Archived THEN file[i] ELSE buffer[i - Archived]]

-----------------------------------------------------------------------------
(* Bucket::add, HashCounter::add, Collector::add                            *)

\* Mutant: the search stops at the first entry.
HoldsFirst(bucket, k) == bucket # <<>> /\ bucket[1].item = k
Holds(bucket, k) == \E i \in DOMAIN bucket : bucket[i].item = k

\* Mutant: every entry takes the sample.
CountingAll(bucket, k, s) ==
  [i \in DOMAIN bucket |-> [bucket[i] EXCEPT !.samples = @ \cup {s}]]
\* Every entry that matches takes the sample.
Counting(bucket, k, s) ==
  [i \in DOMAIN bucket |->
     IF bucket[i].item = k
     THEN [bucket[i] EXCEPT !.samples = @ \cup {s}] ELSE bucket[i]]

\* Mutant: one entry too many fits.
RoomForOneMore(bucket) == Len(bucket) <= BUCKETS_ASSOCIATIVITY
HasRoom(bucket) == Len(bucket) < BUCKETS_ASSOCIATIVITY

\* The first of the entries with the lowest count.
FirstMinimum(bucket, i) ==
  \A j \in DOMAIN bucket :
    /\ Count(bucket[i]) <= Count(bucket[j])
    /\ j < i => Count(bucket[i]) < Count(bucket[j])

Hit(k, b, s) ==
  /\ Holds(map[b], k)
  /\ map' = [map EXCEPT ![b] = Counting(@, k, s)]
  /\ UNCHANGED temp_array

Insert(k, b, s) ==
  /\ ~Holds(map[b], k) /\ HasRoom(map[b])
  /\ map' = [map EXCEPT ![b] = Append(@, Fresh(k, s))]
  /\ UNCHANGED temp_array

\* The new entry is in the bucket whether or not the evicted one can be pushed.
Evict(k, b, s) ==
  /\ ~Holds(map[b], k) /\ ~HasRoom(map[b])
  /\ \E i \in DOMAIN map[b] :
       /\ FirstMinimum(map[b], i)
       /\ map' = [map EXCEPT ![b][i] = Fresh(k, s)]
       /\ Push(map[b][i])

\* The sample's number is its place in the log.
Add(k) ==
  /\ Len(log) < MaxSamples
  /\ log' = Append(log, k)
  /\ LET s == Len(log) + 1
         b == Hash[k]
     IN  Hit(k, b, s) \/ Insert(k, b, s) \/ Evict(k, b, s)

Full == Len(log) = MaxSamples /\ UNCHANGED vars   \* the bound is reached

Next == Full \/ \E k \in Keys : Add(k)
Spec == Init /\ [][Next]_vars

-----------------------------------------------------------------------------
(* Properties                                                               *)

\* A backtrace is counted in one entry of one bucket, its own: what Bucket::add
\* relies on when it adds the sample to every entry that matches.
OneEntryPerKey ==
  \A b \in Buckets : \A i \in DOMAIN map[b] :
    /\ Hash[map[b][i].item] = b
    /\ \A j \in DOMAIN map[b] : map[b][i].item = map[b][j].item => i = j

Slots == {x \in Buckets \X (1..BUCKETS_ASSOCIATIVITY) : x[2] <= Len(map[x[1]])}
Slot(x) == map[x[1]][x[2]]

\* An entry counts samples of its own backtrace only.
Sound(entry) ==
  entry.samples \subseteq {s \in 1..Len(log) : log[s] = entry.item}

Apart(e, f) == e.samples \cap f.samples = {}

CountsOwn ==
  /\ \A x \in Slots : Sound(Slot(x))
  /\ \A i \in DOMAIN Archive : Sound(Archive[i])
CountsOnce ==
  /\ \A x, y \in Slots : x # y => Apart(Slot(x), Slot(y))
  /\ \A i, j \in DOMAIN Archive : i # j => Apart(Archive[i], Archive[j])
  /\ \A x \in Slots, i \in DOMAIN Archive : Apart(Slot(x), Archive[i])
CountsAll ==
  \A s \in 1..Len(log) :
    \/ \E x \in Slots : s \in Slot(x).samples
    \/ \E i \in DOMAIN Archive : s \in Archive[i].samples

\* While the collector can be read, every sample ever added is counted by exactly
\* one of the entries it iterates over, and by one of its own backtrace: eviction,
\* flushing and re-insertion of an evicted backtrace neither lose nor repeat one.
ExactlyOnce == Readable => CountsOwn /\ CountsOnce /\ CountsAll

\* After a failed write the file is short for good: no later flush makes a report
\* read entries from the wrong offset.
NeverReadableAgain == [][~Readable => ~Readable']_vars

\* The samples a reader finds under k.
Counted(k) ==
  UNION ({Slot(x).samples : x \in {y \in Slots : Slot(y).item = k}}
     \cup {Archive[i].samples : i \in {j \in DOMAIN Archive : Archive[j].item = k}})

Counter == INSTANCE SampleCounter WITH
  added <- Len(log),
  counted <- [k \in Keys |-> IF Readable THEN Counted(k) ELSE {}],
  readable <- Readable

\* The collector keeps the promise of SampleCounter.
CountsSamples == Counter!Spec
=============================================================================
