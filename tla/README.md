# A verification of pprof-rs

TLA+ models of the CPU profiler in `src/`, TLC runs that check them on small
instances, and TLAPS proofs of every safety property those runs confirm, for every value of
the constants. Paths below are relative to the repository.

## 1. The system

A program builds a guard; while it lives, `setitimer` sends SIGPROF to the
process, and a signal handler on whatever thread takes the signal unwinds that
thread and counts its backtrace. A report adds the counts up and names the frames.

| component | source | state | operations |
|---|---|---|---|
| session | `src/profiler.rs` | `PROFILER`: a lazy static, a spin `RwLock`, `Result<Profiler>`; `running`, `old_sigaction`, the blocklist, `sample_counter`, the collector | `build`, `Drop` of the guard, `start`, `stop`, `init`, (un)register |
| signal handler | `src/profiler.rs` | none of its own | `try_write`, blocklist, unwind, `sample` |
| timer | `src/timer.rs` | the kernel's ITIMER_PROF | `Timer::new`, `Drop`, `timing` |
| collector | `src/collector.rs` | buckets of four entries; a buffer and a temporary file | `add`, eviction, flush, `try_iter` |
| reports | `src/report.rs`, `src/frames.rs` | none: built under the lock | `build_unresolved`, `build`, `Frames::from` |
| pprof encoding | `src/report.rs` | three tables, built as rows are encoded | `pprof` |
| address validation | `src/addr_validate.rs` | two shared atomic file descriptors, a pipe | `validate`, `open_pipe` |
| frame-pointer unwinder | `src/backtrace/frame_pointer.rs` | a cursor in the thread's memory | `trace` |
| framehop unwinder | `src/backtrace/framehop_unwinder.rs` | a lazy unwinder behind a `RwLock` | `init`, `trace`, `read_stack` |
| default unwinder | `src/backtrace/backtrace_rs.rs` | the locks of the library it calls | `trace` |
| perf maps | `src/perfmap.rs` | `RESOLVER`, `MTIME`, threads that refresh them | `get_resolver`, `find` |
| thread names | `src/profiler.rs` | none | `write_thread_name` |
| criterion | `src/criterion.rs` | the guard held between two calls | `start_profiling`, `stop_profiling` |

How they interact. The handler, the guards and the reports share `PROFILER`:
everybody takes its lock, the handler with `try_write` only. The session and the
handler also meet in the kernel, through SIGPROF's disposition, the timer and the
pending signal. The handler calls an unwinder, which calls back with each frame,
and which (frame-pointer, framehop) asks `validate` before it reads; `validate` is
public too, so that it also runs outside the lock. The sample goes to the
collector, which a report reads under the lock; the report resolves frames, calls
the user's post-processor, and may be encoded.

What is hard. A signal may interrupt any thread at any instruction, one that holds
the profiler's lock or the unwinder's included; it may be pending while the
disposition changes; a handler may be delayed past the end of its session.
Creating, registering and flushing may fail half way. The two descriptors of
`validate` are shared without a lock. Frame pointers are garbage as often as not. The
perf map is read while its compiler writes it, by threads nobody waits for, into two
statics that are not updated together. The harness panics wherever a file cannot
be made, and its profiler is dropped by the unwinding.

What makes each part correct:

- session: one guard at a time; the profiler runs exactly while it exists; timer
  and handler are set up and torn down in an order that never lets a signal meet
  the wrong disposition; the former disposition comes back; reports are of one moment;
- handler: it always ends, blocks nobody, and never waits for the thread below it;
- collector: every sample is counted once under its own backtrace, however its
  entries are evicted, flushed and re-inserted, or a failed write makes reading fail;
- reports: the rows add up to the samples taken, and show the frames they should;
- encoding: the tables are well formed and the samples give the rows back;
- validation: answers are right under concurrency, the pipe never fills, no leak;
- unwinding: it ends, stays within bounds and does not fault; framehop's unwinder is
  there, and free, for every handler;
- thread names: they tell whose sample it is, even made of digits;
- perf maps: a name is that of the line written for the address; a map is never lost;
- criterion: a session from one call to the other; a file is its own benchmark's.

## 2. The modules

| module | models | checked by | proved in |
|---|---|---|---|
| `Sessions` | what the profiler promises (abstract) | `KeepsSessions` | `ProfilerProofs` |
| `Profiler` | session, guards, timer, signals, handler's locking, report locking | `MCProfiler`, `MCFramehop` | `ProfilerProofs` |
| `Framehop` | `Profiler` with the framehop unwinder's lazy static and lock | `MCFramehop` | `ProfilerProofs` |
| `Sampling` | `Profiler` with `Collector`: the way of a sample | `MCSampling` | `ProfilerProofs` |
| `SampleCounter` | what a collector promises (abstract) | `CountsSamples` | `CollectorProofs` |
| `Collector` | hash table, buffer, temporary file | `MCReport` | `CollectorProofs` |
| `Report` | both report builds, as operators on `Collector`'s state | `MCReport` | `ReportProofs` |
| `Pprof` | the tables of a pprof profile | `MCPprof` | `PprofProofs` |
| `Blocklist` | the segments of the named libraries, `is_blocklisted` | `MCHandler` | `HandlerProofs` |
| `FramePointer` | the frame-pointer walk over arbitrary memory | `MCHandler` | `HandlerProofs` |
| `ThreadName` | the name of a thread, given or made of its id | `MCHandler` | `HandlerProofs` |
| `Handler` | the handler's work under the lock: the three before it | `MCHandler` | `HandlerProofs` |
| `AddrValidate` | `validate` and the kernel's pipes | `MCAddrValidate` | `AddrValidateProofs` |
| `PerfMap` | the cached perf map, its refreshing threads and its file | `MCPerfMap` | `PerfMapProofs` |
| `Criterion` | the harness's profiler, over `Sessions` | `MCCriterion` | `CriterionProofs` |

`Framehop` and `Sampling` extend `Profiler` and add variables to it: each of their
steps is a step of `Profiler`, possibly with a stronger guard, or leaves its
variables alone. `Handler` extends `FramePointer`, which extends `Blocklist`.
`Criterion` extends `Sessions`, which `Sampling` implements.

Operators commented `Mutant:` are plausible bugs, each before the definition it
stands in for; no specification uses them. They show that the properties can fail.

### Profiler

A thread has a program counter `pc` for the crate's calls it makes and, on top of
it, at most one handler frame (SIGPROF is masked while its handler runs); it runs
its own code only when there is none. `writers` and `readers` are the spin lock,
with the context, application or signal, of a writer.

- `BuildBegin`, of any thread, one with a guard included, `Captured`, `TriggerLazy`, `LazyDone` are `trigger_lazy()`: the
  first `Backtrace::new()`, which takes the unwinder's lock, and the read lock under
  which the unwinder is initialised. `BuildFailed`, `BuildRefused`,
  `BuildUnregistered`, `BuildStart`, `BuildArm` and `BuildPanic` are the outcomes of
  the rest of `build()`. `BuildStart` keeps the write lock, as the code does, until
  `Timer::new` has armed the timer or panicked. `promised` is the request of the builder
  whose session runs. `Setitimer` is the kernel's verdict on the interval, in the code's integer
  division: `SECOND` microseconds by the frequency.
- `DropBegin` disarms the timer; `StopUnregister` or `StopUnrestored`, and
  `StopInit`, are `stop()`. A guard is not dropped while a `ReportBuilder` borrows it.
- `ReportBegin`, then `ReadLock` (`build_unresolved`) or `WriteLock` (`build`).
- `EnterLib`, `LeaveLib`: the program in the unwinder's library, whose lock it
  holds (`dl_iterate_phdr`, an exception being thrown). The unwinder is the
  default one, which needs that lock.
- `Tick`, `Deliver`, `DeliverLate`: the kernel. A pending signal absorbs the next;
  it is delivered to any thread; if the disposition has changed it meets the new
  one, and the default one ends the process.
- `HandlerBusy`, `HandlerBlocked`, `HandlerLock`, `HandlerSample`: the handler.

An address is a region, `app` or `lib`, and a blocklist a set of regions. Paths
that take and release the lock without another visible step (`BuildRefused`,
`HandlerBlocked`) are one step: all that others could see in between is the lock
taken, with which a handler drops its sample and everybody else waits.
A sample remembers the handler that took it (`by`) and the session in which
that handler was entered (`born`).

### Sessions and Sampling

`Sessions` is what a program may rely on, in terms that name no lock, signal or
timer: a session starts when none runs, has one owner, records samples while it
can, loses all of them if it loses one, and ends with them. Two clauses are the
price of signal handlers that are not waited for: a sample may come late
(`InTime`), and a session whose start or end fails half way goes on without an owner
(`Abandon`): a zero frequency, a `sigaction()` that fails in `stop()`, a collector
that cannot be made again.

`Sampling` runs `Collector::add` in the step in which the handler samples, `Collector::new`
in `Profiler::init`, and leaves the collector alone in every other step. `recorded` is
the sample behind each of the collector's numbers. The refinement mapping takes
`on` from `running`, `owner` from `Owners` and the samples from what a report
would find in the table, the buffer and the file, or nothing when the file cannot be read.

### Framehop

`UNWINDER` is a lazy static behind an `RwLock` of its own. `ForceUnwinder` to
`LeaveUnwinder` are `Trace::init()`, between `TriggerLazy` and `LazyDone`: the first
build makes the unwinder from the list of loaded libraries, whose lock it holds
meanwhile; the others wait. `TraceUnwinder` is the handler's `try_write()`, which
finds the lock taken (`empty`) or the unwinder not made (`lazy`): neither happens.
The comment at `src/backtrace/framehop_unwinder.rs:171` gives as the reason that
SIGPROF is not delivered to another thread while a handler runs, which is not so
(a signal is masked for one thread); the reason is `PROFILER`'s own lock, which
`trigger_lazy()` keeps over `init()` and the handler over `trace()`, and the mutant
that gives it back early violates `TraceSucceeds`. The handler needs the libraries'
lock with this unwinder too: a key is hashed and compared by `symbol_address()`, which
is `_Unwind_FindEnclosingFunction()`. What the unwinder computes is a library's.

### Collector and SampleCounter

A count is the *set* of the samples it counts, numbered in the order they came, so
that losing one sample while repeating another cannot hide in a sum. `Add` is
`Collector::add` with what it calls: `Hit`, `Insert`, or `Evict`, which pushes the
rarest entry through `PushStored`, `PushFlushed` or `PushFailed`. `PushFailed` has
any prefix of the buffer written, the index reset and the flush counted, in the
code's order; file contents are whole entries (a torn one changes only where the
missing bytes start). `Archive` is what `try_iter` reads, `Readable` whether
`read_exact` succeeds. The capacity constants are any positive numbers.
`SampleCounter` is the promise: samples counted once each under their key until
a write fails, nothing after that. `Counter` is the refinement mapping.

### Report and Pprof

`Report` extends `Collector`: a report is built under the lock and changes nothing,
so it is an operator on the collector's state and its properties are invariants of
the collector's behaviours. `Entries` is what `try_iter` gives, each entry at its place in
the table or in the file, and `Rows` adds those with equal keys up. `Resolve` is
`Frames::from`: a frame that resolves to the handler is dropped with the next one,
and unresolved frames disappear; it is a recursive function over the places of a backtrace.
`Shown` says the same without one: a frame is hidden when an odd number of the handler's frames
directly precede it, since of a run of them every other is dropped unlooked at. `Captured` says what each sample brought: samples
with equal keys may differ in thread name and timestamp, and the collector keeps
those of an entry's first.

`Pprof` encodes the rows of a report one by one in any order. An index in the
string table is the string itself, so that a missing string is a missing member.
The period, times and value types are constants of the profile and left out.
`Encoded` adds the symbols of a row one after the other: a recursive function over
their places.

### Handler, Blocklist, FramePointer and ThreadName

`Handler` is `perf_signal_handler` from the moment it has the lock: `Enter` looks
the interrupted address up, `Trace` is a step of the walk, `Sample` names the thread
and makes the sample. In `Blocklist` a library has a base and segments relative to
it; those loaded when the builder is made are all it will ever know. `Inside` and
`Unwanted` say the same as sets of addresses, the first of each segment left out
as `is_blocklisted` leaves it out. `ThreadName!Fallback` follows the two loops of
`write_thread_name_fallback`, over the powers of ten that `base` goes through
(`Base`): ten becomes "0", a hundred "00". `Told` finds the id
again, which is what `TellsThread` asks. An id is positive and at most
`Base[MAX_THREAD_NAME - 1]`, which is 10^15 in the code: above, the sixteen digits would
leave no nul for `CStr::from_ptr`; the addresses that serve as ids have fifteen digits at most
on the supported systems.

`FramePointer` quantifies over every initial register value, every set of
readable addresses that includes the thread's own stack, and every memory content;
other threads may unmap anything but that stack. `Callback` is the closure in the
handler. `validate` answers exactly here. README.md:230 says that with a wrong frame
pointer "the program will panic": in the model, as in the code, the walk merely
ends, unless the memory is unmapped after it was validated.

### AddrValidate

`AddrValidate` has a step for every load, store and system call. The descriptor
table and the pipes are external, modelled after `pipe(7)`: two lowest free numbers,
end of file without a writer, EPIPE without a reader, EAGAIN when full or empty.
`CloseForeign` is a program that closes descriptors it does not own, which is
what re-opening the pipe is there for. `raced` records that a call overlapped one
that was opening the pipe. (`validate` is public, and a handler may interrupt it.) The table holds
ends of these pipes only: that the stored number of a descriptor closed by others may be
given to a file of the program's, which `open_pipe` then closes, is not seen here.

### PerfMap

The file grows line by line, and a line may be there in part: too little to parse, which
makes the whole map fail, or enough to parse, with a shorter name (`Unfinished`) or even fewer digits of its length. Its
modification time is in whole seconds of a clock. Each lookup spawns a thread
(`GetResolver`) and loads the resolver; `ForceLazy` is the lazy static's initialiser, run by
whoever needs it first, the caller or a spawned thread; `Stat`, `Compare`, `Store`
and `Parse` are `init_resolver()`, with the time stored before the file is read;
`Finish` and `Publish` say who stores what. Opening the file, once it exists,
succeeds, as does creating it (`touch`, whose error the code drops), and its content is read
in one step. `LineRange` adds start and length without overflow.

### Criterion

`StartProfiling`, `Started` and `StartRefused` are `start_profiling`; `CreateDir` to
`DropGuard` are the steps of `stop_profiling`, each of which may panic. `Unwind` drops
the guard, wherever it is: in `active_profiler` or, once taken, in `stop_profiling`'s
own hands. The frequency is given when the profiler is made: with zero, `Timer::new` panics in
the new session (`Started`). `HalfWay` is a start or a stop that fails half way, `Abandon` of
`Sessions`, and `abandoned` remembers it. The files of an earlier process are there at the start. Samples come and
get lost, and another thread has sessions, as `Sessions` allows.

## 3. The runs

| run | question | bounds |
|---|---|---|
| `profiler_safety` | is the session consistent at every step, and the unwinder free, for a program that does what the documentation advises? | 3 threads, 4 calls, 3 signals, no failure |
| `profiler_faults` | what survives when anything may fail, or the frequency is silly? is a session timed? does every handler and every call return? | 2 threads, 3 calls, 2 signals, all failures, frequencies -1, 0, 1000000, 1000001 |
| `profiler_killed` | is SIGPROF ignored after `stop`? (no) | 2 threads, 2 calls |
| `profiler_blocklist` | is the blocklist of a session that of its builder? (no) | 2 threads, 3 calls |
| `sessions` | do the profiler and its collector implement `Sessions`? | 2 threads, 3 calls, 4 signals, 2 keys, a table of 1, a buffer of 1, every failure that abandons a session or loses samples |
| `collector` | is every sample counted exactly once? does it implement `SampleCounter`? do the rows add up, and show the right frames? | 4 keys, 2 buckets of 2, a buffer of 2, 8 samples, failing writes, a post-processor |
| `report_split` | is a row a backtrace? (no) | the same, 6 samples, no post-processor |
| `pprof` | are the profile's tables right, in every order? | every subset of 6 rows, counts 1 and 3 |
| `walk` | does the handler end, within bounds, without faults, and ignore and name what it should? | addresses 0 to 3, 2 return addresses, depth 2, 2 libraries, 8 ids, names of 3 |
| `validate` | are answers right, and does nothing leak or fill? | 2 threads, 4 calls, a pipe of 2 writes, 1 foreign close |
| `perfmap` | is a name right, a map kept, the last one read in the end? | 2 lines that overlap, 4 addresses, 2 spawned threads, 3 seconds |
| `criterion` | is a benchmark profiled from start to stop, and its file its own? | 2 benchmarks, 3 sessions, another thread, both outputs, frequencies 0 and 99 |

Why the bounds are enough to meet the interesting cases:

- four calls allow two sessions of different threads, a refused build between them
  and a report; three, where calls may fail, a stop that fails and what comes of it, two
  sessions with late samples, or builds that race; three signals allow one pending, one in a handler and one late; three
  threads allow an owner, a builder that is refused and a third, interrupted, one;
- three colliding keys in a bucket of two evict, come back and evict again; five
  samples overflow the buffer of two, eight flush twice, once after a failure;
- a table and a buffer of one make the third of the four signals of `sessions` flush,
  and fail, between sessions and before a report;
- the interrupted addresses of `walk` go from before the first segment to after the
  last of a library with two segments that touch; the ids are the powers of ten,
  their neighbours and others, with every number of digits;
- two spawned threads and the caller are enough for the initialiser to be any of
  them, for an older map to be stored last, and for a thread to find nothing new;
- -1 is refused by `setitimer`, zero is divided by, a million gives the shortest interval
  and one more none; other frequencies are timed like the usual one;
- the backtraces of `collector` hold one, two and three of the handler's frames in a row, at
  the top, in the middle and at the end, before a named frame or one without a name;
- three sessions profile one benchmark twice and another one or another thread between;
- recursion, inlining, two symbols with one demangled name, one function on two
  lines, an empty stack and rows alike but for their time are among the six rows;
- four addresses hold chains that rise, fall, end in null, leave mapped memory and
  loop on one frame; a depth of two is reached and exceeded.

`MaxCalls`, `MaxSignals`, `MaxSamples` and `MaxCloses` bound the runs, in guards;
when the calls are spent, `Ended`, `Full`, `Done` and `Returned` stutter, so that deadlock is
checked everywhere but in `profiler_blocklist`: its blocklist is refused in favour
of an empty one, and then the program really may deadlock in the unwinder. `LastSecond`,
`Refreshers`, `MaxSessions` and the criterion model's `MaxSamples` bound the other two.

The violated properties state what the repository says of itself, and TLC's
counterexamples are what the code does:

- `IgnoresBlocklisted` (`src/lib.rs:30`): `build()` stores the blocklist before
  `start()` refuses; the running session goes on with somebody else's.
- `NeverKilled` (`CHANGELOG.md:182`): the timer is disarmed first, but a SIGPROF that
  is already pending outlives `stop()`, and the restored default action kills.
- `OneRowPerBacktrace` (`src/report.rs:16`): `Frames` compares its timestamp too,
  so that a backtrace that was evicted and came back has two rows.

More is known not to hold, and shows when a run's assumptions are relaxed:

- a running profiler does not always have a guard: see `Abandon` above. It then stays
  running, and no build succeeds any more. `OneOwner`, `TimerOnlyWithHandler` and
  `KeepsSessions` say what still holds;
- a call of `validate` that overlaps one that opens the pipe (`src/addr_validate.rs:60`) may say
  no to a readable address: the new `read_fd` is stored and `write_fd` not yet, so that the
  other call finds the new pipe empty and writes to no descriptor. Two first calls, of two
  threads or one interrupted by a signal, can even leave the two on two pipes: draining still
  succeeds, so that the pipe is never opened again, and every later call answers no. The
  handler, which validates under the profiler's lock, is not alone to call it: it is public.
  `Exact` asks of such calls only that they never say yes to an address that cannot be read;
- a guard does not always stand for a session with a timer: a frequency above a million has its
  interval rounded to zero, which disarms; one below zero is refused, or rounded to zero too.
  `SessionTimed` says exactly which;
- a session's samples are its own but for late handlers: `LateSamplesBounded`
  says how many, at most one of each thread, can come from an earlier one;
- a location keeps one line for a function that is sampled on several;
- the perf map can stay stale for good: a last change in the second of the last
  reading, a reading that failed to parse, or an older map that is stored after
  a newer one, whose time `MTIME` has. And the frames of one report may be named
  after different maps. `Settles` excludes the first by its hypothesis, that the last
  change is in a second that no reading has recorded;
- a profile of an earlier run is lost when `stop_profiling` panics, and a flamegraph
  without samples is an empty file.

### Fairness

`Profiler!FairSpec` assumes that a thread that has begun a call of the crate or a
handler goes on running it (weak fairness of its steps: the operating system
schedules it), and that the kernel delivers pending signals. Nothing makes a
program begin a call, drop its guard or enter the library, and nothing makes the
timer expire. Waiters on the spin lock get no strong fairness: `CallsReturn` holds
because calls and signals are bounded, and says that nobody waits for somebody who
waits for him; it does not say that an endless stream of readers lets a writer
through, which the spin lock does not promise either.
`Handler!HandlerFairSpec` assumes that the handler goes on running.
`PerfMap!FairSpec` assumes that a spawned thread runs, that a thread that initialises
or loads the resolver goes on, and that the program goes on resolving frames:
without the last nobody would look at the file again. The compiler and the clock are
under no fairness.

## 4. The proofs

Every theorem holds for every value of its module's constants that satisfies the
assumption the module names: any number of threads, any memory, any report. A run shows
the same property on one small instance, and TLC evaluates the assumption there.
Where a theorem needs more, its `ASSUME` says so and the text below says why.

| module | theorem | states |
|---|---|---|
| `ProfilerProofs` | `TypeCorrect`, `SingleOwner`, `TimerSafe`, `NeverItself`, `StableReports`, `LateSamples` | `TypeOK`, `OneOwner`, `TimerOnlyWithHandler`, `NeverTakesItself`, `ReportsAreStable`, `LateSamplesBounded` |
| | `OriginalRestored` | `Restored`, when `"unregister"` is not among the faults |
| | `SelfDeadlockFree` | `NoSelfDeadlock`, when every builder names the library |
| | `SomebodyGoesOn` | nobody waits in a circle, under the same condition |
| | `Timed` | `SessionTimed`, for every frequency |
| `CollectorProofs` | `TypeCorrect`, `OneEntry`, `NeverReadable`, `Exactly` | `TypeOK`, `OneEntryPerKey`, `NeverReadableAgain`, `ExactlyOnce` |
| | `Refinement` | `CountsSamples`: `Collector` implements `SampleCounter` |
| | `FramehopIsProfiler`, `SamplingIsProfiler` | both compositions implement `Profiler` |
| | `Ready`, `NeverEmpty`, `Whole` | `UnwinderReady`, `TraceSucceeds`, `ReportsWhole` |
| | `Keeps` | `KeepsSessions`, with `FewThreads`: both implement `Sessions` |
| `ReportProofs` | `AddsUp` | `ReportsAddUp`, when `KeepsThreads` |
| | `Complete` | `FramesShown`, backtraces of every length |
| `HandlerProofs` | `WalkTypes`, `Raced`, `Ignored` | `TypeOK`, `FaultsOnlyRaced`, `Backtraces` |
| | `Ends` | a handler has at most 4 `MAX_DEPTH` + 5 steps, and each leaves fewer |
| | `Tells` | `TellsThread`, names of every length and all ids that have an end |
| `CriterionProofs` | `Between`, `OwnFiles` | `ProfiledBetween`, `OwnProfile` |
| `PerfMapProofs` | `MapTypes`, `KeepsAMap`, `RightNames` | `TypeOK`, `NeverForgets`, `NamesOfTheFile` |
| `AddrValidateProofs` | `ValidateTypes`, `Leaks`, `Fills` | `TypeOK`, `NoLeak`, `NeverFills` |
| | `Answers` | `Exact`, when `Cardinality(Threads) <= CAPACITY` |
| `PprofProofs` | `TablesRight`, `Lookups`, `ReadBack` | `Tables`, `StringsFound`, `Faithful` |

### Profiler

The safety properties are not inductive. `Locking` ties the lock to program
counters: who holds it, and that a writer is alone. It is what makes the
steps of `build()` and `stop()` exclusive, whose intermediate states break
`OneOwner` if two threads are in them. `Owning` says how far the owner is and
what SIGPROF's disposition is at that point; without it nothing relates
`old_sigaction` to `sigaction` when `stop()` begins. `LateSamplesBounded` needs
`Aging`: a thread with a stale handler on top has no stale sample yet, and nobody
is of a session yet to come. `NoSelfDeadlock` needs `BlockInv`: a handler knows
where it interrupted its thread (`Placed`), which does not move under it; the
blocklist is in place before the handler is installed (`Listed`); and it was looked
up before the lock was kept (`LookedUp`). With it, `SomebodyGoesOn` follows from `Locking`:
who waits for the lock waits for a holder at a place that needs no lock, or for a handler that
unwinds, and that one for a thread in the library, on which no handler unwinds. It gives
the guards of the next steps (`GoesOn`), since the prover has no ENABLED. `Timed` needs
`Arming`: between `start()` and the timer, the request that the thread carries is that of the
session.

### Collector

`ExactlyInv` is `ExactlyOnce` with the types, the well-formed buckets and what
the file's length says. The proof goes by the three outcomes of `add`: a hit
adds the newest sample to one entry; an insertion makes one; an eviction moves
an entry's samples from the table to the archive, or makes the archive unreadable.
`Few`, for the next section: the first sample of a collector evicts nothing and each
later one at most one entry, so that the buffer cannot overflow before
`BUFFER_LENGTH` + 1 samples.

### Framehop, Sampling and Sessions

That each step of a composition is one of `Profiler`, or none, carries every
theorem of `ProfilerProofs` over. `UnwinderInv` says who may hold the unwinder's lock,
and that it is made for whoever may come to unwind: past `init()`, with the handler
installed, or with the handler saved as the disposition to put back. That no reader
meets a handler, hence `NeverEmpty`, comes from `Locking`: both hold `PROFILER`'s lock.

`RecordInv` relates the two halves of `Sampling`: the samples recorded are as many as the
collector has numbered, in the same order, and are what `Profiler` has as `data`; so what
the collector counts exactly once is the session's samples. While nothing runs, they are
of different threads. `Keeps` follows step by step, with `Aging` for `InTime`.

`Sessions` lets a session start only with a readable collector, and here the proof found
a limit that no run would have: the collector is new when `stop()` has run, but samples may
come late, one of each thread that was interrupted before. Enough of them would evict, fill
the buffer and flush it, and the flush may fail: then the next session starts with
a collector that cannot be read, and has no report. `FewThreads` excludes it: a
finite set of at most `BUFFER_LENGTH` + 1 threads, where the code has 2^18 bytes of entries
(of the size of a backtrace, tens to hundreds of them) and a table of 4096 buckets of
four to fill before. The bound is sufficient, not exact: late samples also have to
meet in a bucket.

### Report

`Partition` turns `ExactlyInv` into what a report sees: every sample is counted at exactly one
of the places it reads, under its own backtrace, and no place counts none. A row is the
samples of the places with its key (`RowSamples`), and rows with different keys have none in common,
so that all that is left is that the sizes of sets that are apart add up
(`SumOfApart`). The library's sum over a set is a recursive function: that it exists is shown by
a function that satisfies its equation, and that it is the only one from a least set on
which two would differ. `KeepsThreads` is the
condition on the user's post-processor: it may change frames, names and times, and make rows
equal, but a sample that it gives to another thread is that thread's in the report.

`Complete` goes along a backtrace (`ResolvedTo`): after each place, the next is skipped exactly
when an odd number of the handler's frames directly precede it (`RunGrows`), and the names
collected are those of the places to show so far (`ShownGrows`). As in `Pprof`, that the
recursive function exists (`Resolving`) and the induction along it (`UpTo`) are lemmas.

### Handler

`WalkInv` remembers what was checked: between `validate` and the reads the frame
pointer is in memory that was readable, and may have been unmapped since. `SampleInv` says of every frame recorded that it is none of
the ignored ones, and of a handler that walks or samples that it was not to be dropped.

`Left` is a measure of the steps a handler still has, from the depth of the
backtrace and the place in the loop. `Ends` is the part of the liveness property `Returns` that
does not need fairness: no chain of frame pointers, a cycle included, keeps it going.

`Tells` says what the run can show for short names only. `Division`: dividing by a power of ten and
then by ten is dividing by the next. So the digits above a place, read as `Told` reads them, are
the id divided by that place's power (`DigitsTell`, by induction over the digits). `Length`
and `Decimal` choose a length; `Lengths` and `Decimals` say that there is one and what it
is. What `Fallback` loses is the one in front of a power of ten, and then nothing but zeros are
left, which no other id has.

### AddrValidate

Four invariants, each under the ones before. `KernelInv` bounds the pipes created by the
calls begun. `AloneInv`: as long as no call has overlapped one that opens the pipe, whoever
opens it is alone, and otherwise only the two stored descriptors are in use;
`ThreadInv` says which ones at each step of the opening. `FullInv`: the two stored
descriptors are of one pipe, which makes draining the one and writing to the other
the same pipe's business. `AnswerInv`: a call that nothing excuses has drained, or made, a
whole pipe (`HasPipe`), which nobody has closed since; and, raced or not, nobody says yes but after
a write that took the bytes from the address (`YesStep`); if the stored pair is not whole,
reading from it tells so (`Broken`). `Answers` needs room for a write of every thread,
since they may all have drained before the first writes: 64 KiB hold 4096
writes of sixteen bytes. `Threads` and `Fds` are finite: the lowest free descriptor and
the number of drained calls have to exist.

### PerfMap

`MapsInv` says that whatever map a thread holds, or the static, is that of a number
of whole lines that the file has or had, and possibly of a part of the next
(`ReadBy`); the file only grows. A thread that publishes has a map, so that none is
never stored over one; the lazy initialiser is one thread, before anybody stores.
`NamesRight` finds the first range that covers an address, as `SelectInSeq` does.

### Criterion

`Holding` says where the guard is at each step, and that the harness owns the session
exactly as long as one of its two places has it; a session without an owner was abandoned. `Filing` follows the file: the
benchmark in course is of the session in course, its file is emptied before the guard
is taken, and is filled only with that session's report.

### Pprof

`PprofInv` has the tables well formed (ids are places in both tables, one
function a name, each from a symbol met) and the samples in correspondence with the rows: each
sample's locations name the symbols of its row (`NamesFirst`). Later symbols only extend
the tables (`Extends`), so that what a sample says stays true. A row is encoded symbol by symbol:
`Folding` shows that the recursive function exists, and `UpTo` is induction over the places
of a list, for a predicate given as a function, from its least counterexample; the
library's induction theorems, which take an operator, are not used. The
assumption on `Symbols` says only that the symbols of a row are a sequence.

### Only model-checked

Liveness: `HandlerReturns`, `CallsReturn`, `Returns` and `Settles`. They need fairness and
ENABLED, which the prover does not have. `SomebodyGoesOn` and `Ends` are the parts of
the first three that need neither.

## 5. Not modelled

- Flamegraph (but for the file it does not write) and debug output, errors, re-exports: formatting and declarations.
- A post-processor that calls the crate under the write lock `build()` holds: it spins
  for ever.
- Symbol addresses that change when a library is loaded or unloaded, which would move a
  key to another bucket (`src/frames.rs:90`): `Hash` and the keys are constants.
- A temporary file removed behind the collector's back (`src/collector.rs:202`):
  `reopen()` succeeds; a failure would end like an unreadable file.
- Demangling, symbol tables, DWARF unwinding: external libraries.
- `on_stack`: one flag of `sigaction`; errno: saved and restored.
- A thread id of sixteen digits, which would leave the fallback's name without an end
  (`src/profiler.rs:227`): ids are assumed shorter.
- The `i32` sample counter's overflow, after 2^31 samples of one session, and the
  `i64` nanoseconds of a pprof sample, after nine billion of one backtrace.
- Generated protobuf code, the build script, examples and benches.

## 6. Plan

Done, in this order: `Profiler`, `Collector` over `SampleCounter`, their proofs,
`Report`, `Pprof`, `FramePointer`, `AddrValidate`, `PerfMap`, `Framehop`, `Sampling` over
`Sessions`, `Handler` with `Blocklist` and `ThreadName`, `Criterion`.

Proved, in this order: `Profiler`, `Collector`, `Framehop`, `Sampling` over `Sessions`,
`Handler`, `Criterion`, `PerfMap`, `AddrValidate`, `Pprof`, `Report` with `ThreadName`.

Next, by what matters most:

1. A post-processor that calls the crate: `build()` holds the write lock over it.
2. Keys whose symbol addresses change, with the unwinder's view of the loaded libraries.
