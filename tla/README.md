# A verification development for the stride-prefetching project

The repository is a profile-guided prefetcher built on LLVM 2.9. A program is
compiled twice. The first compilation puts sampling code around loads in loops;
running the result writes a profile of the address strides of each load. The
second compilation reads that profile and puts prefetch instructions before the
loads whose strides are regular. A script searches for the best prefetch
distance by rebuilding and timing the second compilation.

Everything below is about `src/proj_pass`; source paths are relative to it.

## 1. Inventory

| Component | Source | State it keeps | Operations | Talks to |
|---|---|---|---|---|
| Stride collector | `tools/stride-profiler/loadstride.{hxx,cxx}` | last address, all strides, their counts, zero-difference count, list of four top strides, the most frequent one | `addAddress`, `clearAddresses`, getters | called by the hooks, one instance per load |
| Hooks | `tools/stride-profiler/stride_hooks.cxx` | the collectors by load number, `Stride_initialized` | `Stride_init`, `Stride_StrideProfile`, `..._ClearAddresses`, exit handler | called by the instrumented program; write `result.stride.profile` |
| Sampling code | built by `StrideProfiler::doStrides`, `lib/projpass/StrideProfiling.cpp` | two i32 globals per load | five generated basic blocks | calls the hooks |
| Selection and numbering | `StrideProfiler::runOnFunction`, `doStrides`, `isLoadDynamic` | global list of loads, `load_id` | one run per function | LoopInfo, edge profile |
| Profile reader | `lib/projpass/StrideLoadProfile.cpp` | load by number, information by load | one run per module | the profile file; used by the prefetch pass |
| Classifier | `StridePrefetch::profile`, `lib/projpass/strideprefetch.cpp` | three sets of loads | once per load and loop | reader, edge profile |
| Prefetch pass | the rest of `strideprefetch.cpp` | current loop, `instsPerLoopMap` | `runOnLoop`, inner loops first | LLVM's pass manager |
| Inserted code | built by `insertSSST/PMST/WSST` | a scratch slot per load and call | runs with every execution of the load | none |
| Distance search | `tests/ksearch_stuff/ksearcher.py` | source file and its back-up, the built pass, outputs, results | one command line run | edits `strideprefetch.cpp`, runs make |
| Variant of the search | `tests/test_matrix0/ksearcher.py`, `Makefile.patryk` | the benchmark's files in one directory, averages per K | `make profile`, started and not waited for, and `make prefetch` | two makes at work in one directory |
| Library wrappers | `tools/utils/profile_function_wrappers.h` | a header before each block, a token per stream and one for random numbers | a wrapper per libc function: malloc family, strings, streams, printf and scanf | called by a profiled program; tell a profiler of loads, stores and allocations |
| Circular buffer | `tools/utils/CircularQueue.hxx` | array, head, tail, size | a container's: `push_back`, `pop_front`, `clear`, `reserve`, copying, swap, construction from a range | used by the loop stack |
| Loop stack | `tools/utils/LoopHierarchy.hxx` | levels with invocation time and recent iteration times, a depth | `enterLoop`, `exitLoop`, `loopIteration`, `findLoop`, `calculateDistance` | an instrumentation outside the repository |
| Dependence profile | `tools/utils/Profile.hxx`, `ValueProfile.hxx` | by load, distance and store: a loop, five values with counts | `getProfile`, `increment` | fed with what the loop stack finds |
| Versioned memory | `tools/utils/MemoryMap.hxx` | pages of bytes, each valid, invalid or unknown | `read_value`, `write_value`, `set_invalid`, `merge`, `commit_to_main_memory` | an instrumentation outside the repository |
| Rest of the support library | `InstructionMap.hxx`, `Locks.hxx`, `utils.cxx`, `debug_new.cxx` | an array, locks, allocation bookkeeping | | unused by the other parts |

The rest of the tree is benchmark programs, Makefiles, a vendored viewer
(`tests/xdot.py`), generated dependency files and the report.

### What is hard here

What is hard to test is of five kinds:

* *long sequences of calls*: the collector answers "the four most frequent
  strides" from a list of four entries that it updates once per stride, never
  looking at all the counts again; the sampling code is a state machine over two
  counters that shows its behaviour after thousands of executions; a header
  written by one wrapper is what another goes by, any number of calls later;
* *agreement at a distance*: the profile is tied to the program by two
  numberings made in different compilations, what the classifier concludes
  depends on counts that went through a summary, a text file, ints and a sort,
  and what a wrapper says it loads must be what an earlier one said it stored;
* *stale state*: a pass object lives longer than the loops and functions it
  works on (`loadsToStride`, the three sets, `instsPerLoopMap`), a collector
  keeps its strides over a sampling gap, the profile of an earlier run lies in
  the directory, and the search keeps using a library or an output file that a
  failing command did not renew;
* *failure and restart*: of the search, which modifies a file of the repository
  in place, and of the profiled program, whose exit handler writes the profile;
* *one race*: the `make profile` of the search's variant runs beside the
  `make prefetch` that needs its results. Nothing else runs concurrently.

The list with lines is in `PROJECT.json` under `hazards`.

### What makes each component correct

| Component | Properties |
|---|---|
| Collector | counts are the histogram; the list is a correct top K; the dominant stride is a mode and is listed; zero differences are counted exactly; it implements an abstract "top strides" promise |
| Sampling | recorded strides are between consecutive executions; every sampled execution is accounted for; a sample ends |
| Numbering | numbers are unique, loads are neither missed nor instrumented twice; every line that was written comes back to its load, wherever the run stopped, and no line of an earlier run does |
| Reader and classifier | the class is the one the whole sequence of strides deserves; a strong load is prefetched along the stride that made it strong |
| Prefetch pass | exactly the deserving loads get one prefetch; the distance is never shorter than the loop's body calls for, and comes from that body |
| Inserted code | the prefetched address is ahead by the distance |
| Loop stack | a store is found in the innermost loop active since before it, at its true distance, whatever loops used the levels before |
| Dependence profile | every dependence is counted once, the first five values exactly |
| Versioned memory | a version reads what it wrote; committing merged versions is as if they had run in order; what was given back is not written |
| Library wrappers | headers are true, no block is lost or refused; what the profiler was told is allocated and written is so; a load told of leads to the call that wrote the memory or moved the stream |
| Circular buffer | it is a bounded queue; elements are constructed and destroyed once |
| Variant of the search | a stale profile, a missing one or a broken-off search come only of the race, and end with it; the average is the average |
| Search | stays in range and makes progress, ends, ranks by the best run, measures each K with its own library, restores the source |

## 2. Modules

Dependencies: `StrideSampling` (whose collector it is) and `StrideClasses` extend
`LoadStride`, which instantiates the abstract `TopStrides`. `GeneratedCode` composes `StrideSampling` and `PrefetchCode`.
`DependenceProfile` extends `LoopHierarchy`; it and `CircularBuffer` use the
operators of `CircularQueue`. `CircularBuffer` instantiates the abstract
`BoundedQueue`, and `SupportLibrary` composes it with `LibraryHeap`,
`LibraryCalls` and `MemoryMap`. `LoadNumbering`, `StridePrefetch`, `KSearcher` and
`SearchRace` stand alone. Theorems are in a module of their own, `XProofs` for
module `X` and those it extends; those about `StrideSampling` and `StrideClasses`
are in `LoadStrideProofs`, those about `PrefetchCode` in `StridePrefetchProofs`.

* **`TopStrides`** is what a collector promises: how often each stride was seen,
  a set of at most K top strides, and a dominant one. It leaves open how ties
  are broken, except that a stride gives way only to the one just recorded and
  only when that is strictly more frequent.
* **`LoadStride`** is the class of that name, field for field. `AddAddress` has
  one disjunct per way through `addAddress` (first address, zero stride, first
  stride, next stride); `updateTopStrideValues` is `UpdateHolder` and then
  refresh, append or evict. `NoAddress` is the -1 that is also the C++ sentinel.
  Addresses in one 16-byte block are the same address (`isSameValue`). The
  fields nothing reads (`loadID`, `executionCount`) are left out.
* **`StrideSampling`** is one instrumented load. One step is one execution: the
  generated `oldBB`, then `skippingBB`, or `profCheck` and `resetBB` or
  `strideBB`. Its history variables count the executions, those the collector
  heard of, and the samples, a sample lasting from one clearing of the addresses
  to the next. `N1` and `N2`
  are the formulas of `doStrides`, with rounding; `Width` is that of the i32
  counters. `ResetBB` is modelled but cannot be reached: `number_profiled` is
  never incremented (see section 5). When `number_skipped` has gone through all
  values of an i32, skipping begins again without the addresses being cleared,
  which is why `StridesAreConsecutive` speaks of the executions up to then.
* **`LoadNumbering`** follows the loads of a module through both compilations:
  `runOnFunction` for each function with the list that is never emptied, a
  profiling run in which any subset of the hooks is executed, the second
  numbering, and the lines read in order. The profiling run may not come to
  main, so that a file an earlier run left is what is read; be killed with the
  file opened and empty; or stop anywhere while it writes, within a line
  perhaps. A line cut in its first field shows a prefix of its number, which
  may be another load's; `Radix` is the base the numbers are printed in. The line
  that ends the file may be cut as well: it is then no end, and is read as a line
  whose number is never set, which may be any load's (`EndFragments`).
* **`StrideClasses`** adds to `LoadStride` the line that is printed, what is read
  back, and the class; they are operators on the collector's state, since each
  is computed from it in one go.
* **`StridePrefetch`** is the loop pass over the functions of a module and the
  loops of each, a function being a chain of nested loops. The edge profile is
  part of the program's shape. `place` says where LLVM allocated the Loop
  objects, which is what the cache `instsPerLoopMap` is keyed by; a new
  function's may be anywhere. Loads in one `std::set` of pointers are handled in
  any order.
* **`PrefetchCode`** is the code inserted before one load, executed repeatedly,
  in `IntWidth`-bit arithmetic. The scratch slot is not initialised by the code,
  so it holds any address when its function is entered. K is rounded up on the
  set of bits of a number, where an or is a union; `MCGeneratedCode` assumes, and
  TLC evaluates, that this is the code's line of shifts and ors for every K up to
  300.
* **`GeneratedCode`** is a run of the profiled or of the optimised build. The two
  share no state at run time, and the makefiles choose between them.
* **`KSearcher`** is the search script with the files it touches. Writing a file
  is two steps (opened empty, then written), and a kill may come between any two
  steps. A build or a run may fail, which the script ignores as the source
  does. The results of the timings are arbitrary.
* **`SearchRace`** is the search of `tests/test_matrix0` as far as it differs: the
  commands of `make profile` interleaved with those of `make prefetch`. A file is
  described by whose work it is: an earlier search's, this one's, or code
  compiled without a stride profile. The back-up of the source is as in
  `KSearcher` and left out. The averages of `Results.add` are
  exact fractions in lowest terms, where the script has floats: what is checked is
  the script's arithmetic and not its rounding.

* **`CircularQueue`** has the fields of `circular_buffer` as a record and an
  operator per member function this repository uses, for the policy that
  accepts data when full. A capacity of 1 is excluded: `head_` starts at 1.
* **`CircularBuffer`** calls the public member functions on two buffers in any
  order, and keeps which places of an array hold a constructed element.
  **`BoundedQueue`** is what the comment on the class promises.
* **`LibraryHeap`** is `memprof_malloc`, `calloc`, `strdup`, `realloc` and `free`
  over an allocator that may place, resize or move a block as it likes, or fail.
  One cell stands for the 16 bytes of a header. History `unreported` has the
  cells written and not told of; `shrank` and `grew` whether a block was resized
  in place, which no one is told of.
* **`LibraryCalls`** has the other wrappers, grouped where they tell the profiler
  the same things. It watches one location, any byte of the buffers or the token
  of a stream or of the random generator: `told` is the call the profiler takes
  for the last to write it, and `missed` names a wrapper at fault when a call
  reads what another wrote and the loads it tells of do not lead there. `nul`
  says where the bytes that end strings are, since the wrappers work out lengths
  from the strings, some before and some after the call. A `va_list` that was
  walked for its strings is handed on at its end on x86-64, and as it was on
  machines that pass it by value: what the library then takes (`Taken`) are the
  arguments, or anything.
* **`SupportLibrary`** is the heap, the calls, the buffers or the versions of
  memory (`MemoryMap`), chosen when it starts. They share no state, and each
  property speaks of one part's variables, so that what holds of each holds of
  the four together; interleaving them would multiply the states
  and show nothing more.
* **`LoopHierarchy`** is the stack of loops. `current_depth` counts modulo
  `DepthModulus` as the `uint32_t` does; a failing `at` of the vector ends the
  program (nothing in the repository catches it) after the depth was changed.
  The calls come from an instrumentation that is not in the repository, so any
  order of calls is allowed, with a clock that does not go back; history
  variable `active` is the true stack with all iterations. A loop's id is given
  in 64 bits and stored in 16 (`StoredId`, `IdModulus`): nothing in the
  repository keeps ids below 65536.
* **`DependenceProfile`** adds stores and loads of one address and the profile.
  The map's keys are compared by their first 32 bits (`Profile.hxx:26`), so the
  map is a function of the store, and an entry has the loop it was made for.
* **`MemoryMap`** has one map per version of the program's memory, a base they
  are merged into in order, and main memory. The bit masks of a page are sets
  of offsets. `WriteAborts` is where aligned and unaligned writes differ. The
  merging of versions in order, each once and not written to afterwards, is the
  assumed use.

Each `MCx` module gives constants to module `x` for TLC.

## 3. Runs, and why the bounds are enough

| Run | Bounds | Shows |
|---|---|---|
| `collector` | 4 addresses (two in one block), TOPCOUNT 2, 5 strides, 1 zero stride, NUM_TOP_FREQ 2, 8-bit ints | `TypeOK`, `HistogramExact`, `TopIsTop`, `DominantIsMode`, `ZeroDifferencesExact`, `ImplementsTopStrides`; `ClassIsDeserved`, `StrongAlongDominant`. A list of two is full after two strides and is evicted from, refreshed, and re-entered within five; strides include both signs and -8, 8 are zero strides; five strides put the quotients on both sides of all five thresholds |
| `generated_code` | profiled: 20 executions profiled, chunk 1 (so N1 = 3, N2 = 1), 3-bit counters, 12 executions; optimised: 5 addresses, 3 dominant strides, every K in 1..8, three classes, 9 bits | `StridesAreConsecutive`, `SamplesAccounted`, over skipping, sampling, the counter's turn and the skipping after it, with `Stride_init` at any point; `TargetsAhead`, at both ends of the address space: where the address ahead does not exist nothing is said of the target |
| `sampling_ends` | as above | violated: section 5 |
| `numbering` | all programs of 3 functions with up to 2 loads of each kind, numbers in base 2, an earlier file with the number 0 or 2 | `HooksExact`, `FirstFunctionAttributed`, `WrittenLinesArrive`, `NothingStale`. Two functions show the renumbering; the third comes after functions with and without loads. With base 2 a cut number is a prefix of another among so few |
| `numbering_owner` | as above | violated: section 5 |
| `prefetch` | 2 functions, 2 nested loops, 2 loads in all, loop and load shapes at either side of every threshold, bodies of 50 and 150 instructions, 20-bit counts, places interchangeable (symmetry) | `PrefetchesExact`, `DistanceLongEnough`; the first load of a loop, the second, and a loop at a place that a freed one had; bodies that call for the distances 4 and 1, where a remembered sum gives 8 |
| `prefetch_distance` | the shapes that all get prefetches | violated: section 5 |
| `ksearch` | K in 0..6, 3 partitions, 2 trials, two speed-ups, 1 kill, 1 failing command | `RestoredUnlessKilled`, `RecoverableAfterOneKill`, `BestIsHighest`, `MeasuredWithItsK`, `RangeShrinks`, `Terminates`. The range is divided twice before it is too short, so most K are tried twice |
| `ksearch_killed` | 1 kill | violated: section 5 |
| `search_race` | K in 0..6, 3 partitions, 2 trials, two speed-ups, an empty directory or an earlier search's | `AverageExact`, `StaleOnlyWhileProfiling`, `RaisedOnlyWhileProfiling`. Both makes stop at every command, and more trials follow the end of the profiling than precede it; the speed-ups 0 and 1 make averages of thirds and quarters |
| `dependences` | 3 levels, ids of one bit (of the two loops one is stored as 0), buffers of 2 iterations, 5 loop events, times 0..2, 2 stores (symmetry), 3 loads of 3 values, 2 values and 2 distances kept | `InnermostLoopFound`, `DistanceExact`, `ValuesExact`, `NoUnexpectedTimeStamp`. A level is left and reused, a buffer overflows, the deepest level is exceeded, the depth wraps below 0 and comes back, a value finds the table full |
| `support_library` | heap: 7 cells, sizes 0..3; calls: 2 buffers of 2 bytes, one stream; buffers: two, capacities 2 and 3, 2 elements; memory: 3 versions, 2 pages of 2 bytes, accesses of 1 and 2 bytes at every address, 3 writes and invalidations in all | `BlocksAccounted`, `ProfilerTold`; `MemoryDependencesSeen`, `StreamDependencesSeen`; `BuffersSound`, `IsBoundedQueue`; `NeverBoth`, `ReadsLastWrite`, `CommittedInOrder`, `FreedNotCommitted`. Two blocks with their headers fit the heap, so that one can move past another, grow, shrink, and make room; a string overlaps the end of a buffer, is unterminated or empty; a buffer is full, wraps, and is copied with a head that has moved; one operation of each of three versions, or two of one and one of another, merges a byte in every state (unknown, valid, invalid) into one in every state, and a base that is itself a merge into a third version; unaligned writes cross the pages |

Deadlock is checked except where the program stops: the sampled load after
`MaxExecutions`, the two scripts when they are done, the programs of
`dependences` and `support_library` when they ended or
reached their bounds. The collector's type invariant is run; the types of the
other modules are conjuncts of the inductive invariants of section 4, where a
module has one.

**Fairness.** Only `Terminates` needs it: weak fairness of the script's steps,
that is, the script and the commands it waits for keep running. Kills and
failures are bounded and not fair. The script is sequential, so this says no
more than that it is scheduled and that make and the benchmark end.

## 4. What is proved

Each theorem is of the form `Spec => []P`, for every value of the constants that
the modules' named assumptions allow, unless the table says otherwise. P is seldom
inductive; the invariant that is, and why it is needed, is named with each.

**`LoadStrideProofs`**: for every set of addresses, every TOPCOUNT of at least 1,
and sequences of calls of any length:

| Theorem | Property |
|---|---|
| `TypeCorrect` | `TypeOK` |
| `HistogramCorrect` | `HistogramExact` |
| `TopCorrect` | `TopIsTop` |
| `DominantCorrect` | `DominantIsMode` |
| `ZeroDifferencesCorrect` | `ZeroDifferencesExact` |
| `Refinement` | `ImplementsTopStrides`: `Spec => Abstract!TSSpec` |
| `ConsecutiveCorrect` | `StridesAreConsecutive` |
| `SamplesCorrect` | `SamplesAccounted`, where N1 is less than 2^Width |
| `SamplingUsesCollector` | `SamplingSpec => Spec` |
| `ClassCorrect` | `ClassIsDeserved`, where TOPCOUNT = NUM_TOP_FREQ and `IntsFit` |
| `AlongDominantCorrect` | `StrongAlongDominant`, under the same hypotheses |

The inductive invariant `IInv` is needed because the properties lean on each
other. That the list is a top K is kept by an eviction only because the entries'
counts are current and the stride just counted has exactly one more than
before: only it can overtake, so only the lowest entry must be compared. That
the dominant stride is listed is not kept by its own update: it is kept because
a stride that becomes the most frequent overtakes the lowest entry too, and one
that stays dominant is never a strictly lowest entry that the new stride passes.
The histogram is what ties counts to the sequence. Strides of zero are never
recorded (`SameAsLast`), which is why the list, which refuses 0, and the
dominant stride, which does not, cannot disagree.

The refinement maps `seen` to the counts, `top` to the listed strides and
`dominant` to the holder's stride. Steps that record a stride are `Record`
steps; first addresses, zero strides and `ClearAddresses` stutter.

For the sampling, `SamplingInv` says that `number_profiled` stays 0, so that
`number_skipped` is the number of executions modulo 2^Width (`ChunkInv`, with
`NextRemainder` for counting modulo), and that the executions heard come after
the first N1 (`HeardInv`): a skip with an address remembered means the counter
has come round. The hypothesis on N1 is the code's: it is an int
(`StrideProfiling.cpp:147`), compared with a counter as wide.
`SamplingUsesCollector` is what gives the collector's theorems to a profiled
program.

For the classes, the two hypotheses are named in the theorems. The code sets both
lengths to 4 (`loadstride.cxx:16`, `profilefeedback.h:33`); were the list shorter than
a line, it would still be padded, but were a line shorter than the list it would be
cut. `IntsFit` says that no stride and no count changes when it becomes an int:
what happens to those it does change is a hazard of the code
(`StrideLoadProfile.cpp:97`), and the theorems say that there is no other. The
argument has three parts. Sorting is a permutation (`Places`, `Sorts`: an entry's
place is its rank, ties broken by the index, and ranks are all different), so
that the first frequency is the highest (`SortedFrequencies`). The frequencies add
up to the number of positions that hold a listed stride (`SumOfSizes`: a sum of
sizes of disjoint sets; that the recursive sum exists is shown by least
counterexample). And no set of as many strides occurs more often than the list
(`ListedHaveMost`): the strides it has and the list has not map one-to-one to
listed ones it has not (`InjectionExists`), each of which occurs at least as often,
since the list is a correct top TOPCOUNT; that is where `IInv` comes in.

**`MemoryMapProofs`**: for any numbers of versions and pages, any page size, set of
bytes and access sizes:

| Theorem | Property |
|---|---|
| `NeverBothCorrect` | `NeverBoth` |
| `ReadsLastWriteCorrect` | `ReadsLastWrite` |
| `CommittedInOrderCorrect` | `CommittedInOrder` |
| `FreedNotCommittedCorrect` | `FreedNotCommitted` |

The first holds map by map: three lemmas say that writing, invalidating and
merging keep each page's two sets apart (`ExclusiveInv`). The second follows from
`ReadInv`: every byte a version wrote last is valid and has that value. It rests
on what an operation does to a byte inside its range and outside (`WriteByte`,
`InvalidateOther`), and on an address being its page and offset (`OffsetInPage`).
The other two rest on `OrderInv`: what a version still to be merged knows of a byte
it only gave back, or never used (`KnowsUse`), and what the base knows of it from
the versions merged so far, by what the last one to use it did (`BaseKnows`).

**`LoadNumberingProofs`**: for any numbers of functions and of loads, any base and
any earlier file:

| Theorem | Property |
|---|---|
| `HooksExactCorrect` | `HooksExact` |
| `NothingStaleCorrect` | `NothingStale` |
| `FirstFunctionAttributedCorrect` | `FirstFunctionAttributed` |
| `WrittenLinesArriveCorrect` | `WrittenLinesArrive` |

For the first, `NumberingInv` says that the list has every load of the functions
seen, each of them once, although it is gone over again with each function, that
the numbers given are at most `load_id`, and that hooks are on loads seen. A
function then adds numbers above all the old ones (`HooksStep`), to loads that no
earlier function has (`ListStep`). The second is a separate invariant,
`FreshInv`: what is in the file is this run's from the opening on. The last two
need that the loads of the first function with loads have in both compilations
the numbers of their places in it, and others have higher ones (`FirstHooksInv`,
`NumberedInv`); that one line at most is cut (`LinesInv`); and that a line written
waits, or came to its load, or was hidden by the cut one (`ArrivesInv`).

**`StridePrefetchProofs`**: for modules of any number of functions with nests of
any depth and any loads:

| Theorem | Property |
|---|---|
| `PrefetchesExactCorrect` | `PrefetchesExact` |
| `DistanceLongEnoughCorrect` | `DistanceLongEnough`, where a loop executes two instructions or more in an iteration (`BodiesHoldALoad`) |
| `RoundedUp` | K rounded up is a power of two from K to 2 K - 1, for every K up to 2^31 |
| `TargetsCongruent` | what is prefetched is the address ahead modulo 2^IntWidth |
| `TargetsAheadCorrect` | `TargetsAhead`, where an i32 holds an address (`AddressesFit`) |

`PassInv` divides the loads into those insertPrefetchInsts has been over (`Past`)
and the others. The past ones have one prefetch if they deserve it, the others
none; the three sets are those of the loop the pass is on, so that a load can only
be inserted while it is not past. For the distances, `DistanceInv` says that a
remembered sum that did not wrap is at least MEMORY_LATENCY: a load is inserted
for only in a loop that iterates more than 100 times for each time it is
entered, with two instructions or more, since it has the load and a branch. A
remembered sum therefore gives the longest distance, and can be wrong but not
too short.

The inserted code (`CodeSpec`, the optimised build of `GeneratedCode`) keeps the
address of the last execution in its slot, once there was one in this call, so
that the difference it computes is the stride just taken (`CodeInv`). That the
int conversions before, between and after the operations come to one at the end
is `AlongDominantIs` and `AlongStrideIs`, from which the target is the address
ahead modulo 2^IntWidth, whatever the widths. Where an i32 holds every address
it is that address itself, if it exists; on other machines it is not (hazard at
`strideprefetch.cpp:336`). For the rounding, K - 1
has a highest bit (`HighestBit`); the five shifts set all the bits below it
(`AllBelow`), a number whose bits are all those up to one is one less than the
next power of two (`AllBits`), and it is at least K and at most twice K - 1.

**`KSearcherProofs`**: for any range of K, number of partitions and trials, and any
failing commands:

| Theorem | Property |
|---|---|
| `FinallyRestores` | `RestoredUnlessKilled` |
| `OneKillIsRecoverable` | `RecoverableAfterOneKill` |
| `RankedByBestRun` | `BestIsHighest` |
| `RecordedRunsHaveTheirK` | `MeasuredWithItsK` |
| `NarrowingShrinks` | `RangeShrinks`, where K_PARTITIONS is at least 3 |
| `SearchIsBounded` | `StepsCounted`, where K_PARTITIONS is at least 3: every step but a kill makes a natural number smaller |

The invariant says at each line of the script what the source file and its back-up
hold, before the first kill and after it (`FilesKept`), that all points of the
range before the one being tried were timed (`Ranked`), and that without failures
library and output are those of the point being tried (`Measured`). The hypothesis
of the last two theorems holds of the code (20 partitions, of which 3 are kept);
with two partitions a narrowed range may be the same again. `SearchIsBounded` says
how long a run can be. What is left of it (`Left`) is the length of the range,
counted in more steps than any range has (`Slice`), and what is left of this range:
a point's three stages and its trials, then the next point (`Position`). It is at
most `Top` + 2, a number the constants give, so that no run goes on for ever,
whatever is measured and whatever fails; that each step is taken is the fairness
`Terminates` assumes.

**`DependenceProfileProofs`**: for any loops, depth of the stack, size of the
buffers, and calls in any order:

| Theorem | Property |
|---|---|
| `NeverUnexpected` | `NoUnexpectedTimeStamp` |
| `InnermostFound` | `InnermostLoopFound` |
| `DistancesAreExact` | `DistanceExact` |
| `ValuesAreExact` | `ValuesExact` |

The invariant (`LoopStackInvariant`) says that the levels up to the depth are the
active invocations, each with its buffer holding the last of its iterations
(`LevelsLinked`, `BuffersSound`), whose times do not decrease, and how the depth
wraps where there is none. What `findLoop` and `calculateDistance` look for in the
levels and buffers is then what the property looks for in the history. The id
that is found is what `IdModulus` leaves of the loop's (`StoredIdSound`), any two
loops whose ids differ by a multiple of it being one.

For the values, `TableInv` says of each entry of the table that its slots in use are
the first ones, that they hold the values in the order of their first uses, each with
all its uses, and that a value has no slot only if the table was full before its
first use (`EntryHolds`, `SlotsHold`). The order is what the property needs, which
says which values were kept, and what the step itself needs: an unused slot holds
the value 0, and `increment` takes it for a slot of that value, which counts 0 twice
unless every used slot comes before.

**`SupportLibraryProofs`**: for heaps of any size and requests of any sizes; for
strings and streams of any number and size; for circular buffers of any
capacities:

| Theorem | Property |
|---|---|
| `BlocksAccountedCorrect` | `BlocksAccounted` |
| `ProfilerToldCorrect` | `ProfilerTold` |
| `MemoryDependencesCorrect` | `MemoryDependencesSeen` |
| `StreamDependencesCorrect` | `StreamDependencesSeen` |
| `BuffersCorrect` | `BuffersSound` |
| `QueueCorrect` | `IsBoundedQueue` |
| `PartsApart` | `Spec => HeapSpec /\ CallsSpec /\ BuffersSpec /\ MapSpec` |

`HeapInv` adds that blocks, with their headers, are apart, without which a block
freed would take bytes of another out of what the profiler takes for allocated.
That a moved block has a place apart from the old one (`Room`) is what makes the
order of realloc's four messages right. `CallsInv` says which wrappers can have
been told of wrongly, and each action is shown to add no other: where a wrapper
works out the end of a string before the library has moved it, the byte that ended
it must still be where it was. `SoundQueue` says that the next place of a buffer to
be written is the one right after its contents, which is why the one element a full
buffer loses is the first, and why constructing there never goes over a living
element. `Filled` and `CapacityFor` are recursive functions; that they exist, and
what they come to, is shown by least counterexample.

**`SearchRaceProofs`**: for any range of K, any speed-ups, any number of trials and
every interleaving of the two makes:

| Theorem | Property |
|---|---|
| `StaleOnlyWhileProfilingCorrect` | `StaleOnlyWhileProfiling` |
| `RaisedOnlyWhileProfilingCorrect` | `RaisedOnlyWhileProfiling` |
| `AverageCorrect` | `AverageExact` |
| `RankedIsTimedCorrect` | when windows are compared, every point is a K of the original range and was timed MAX_TRIALS times or more |
| `RaceRangeShrinks` | a narrowing keeps to the old range and is strictly shorter |
| `RaceIsBounded` | `StepsCounted`: every step, of the script or of make profile, makes a natural number smaller |

`RaceInv` says that what make profile has made stays (make prefetch writes other
files), and that a trial that does not overlap with it hands what each command
made on to the next. The other four rest on `SearchInv`: the range and the points
tried (`RangeInv`), the averages with their lowest terms (`AveragesInv`), and the
runs each point has had (`TimedInv`). That a running average stays the average
(`AverageStep`) rests on a fraction in lowest terms being the one it was made from
(`RatioIs`, which shows that lowest terms exist). That the
script's comparison has a best window at all (`BestWindow`) is that fractions are
ordered (`NotBelowTransitive`). `RaceIsBounded` counts steps as `SearchIsBounded`
does, with those of make profile besides; that the range is divided into at least
three parts is an assumption of the module here.

The assumptions of all these are the named ones of the modules, which TLC
evaluates in every run: that addresses are naturals (so that none is the sentinel
-1) and bounds are too, TOPCOUNT is positive, an array has two elements or more,
the shapes of loops have counts, K_PARTITIONS is positive in `KSearcher` and at
least 3 in `SearchRace`, the search's `NoResult` is not a result, dominant strides
are integers, and 2^Width, 2^IntWidth and 2^AddressWidth are positive naturals,
which is arithmetic the provers do not know of powers.

**Only model-checked:** `Terminates`, a liveness property, and with it that the
search is never stuck (`ENABLED`), which are out of the prover's reach;
`SearchIsBounded` is the part of it that can be proved. Every other property of a passing
run is a theorem. That the rounding on sets of bits is the code's bitwise one is
evaluated up to 300, since the prover does not take bitwise operators.

## 5. Where the code does not do what it says

Each of the first four is a run whose property TLC finds violated.

1. *Lines come back to other loads* (`numbering_owner`). `doStrides` renumbers the
   loads of earlier functions with every function; the reader numbers each once.
   Only the first function with loads agrees (`FirstFunctionAttributed`).
2. *K is computed from the wrong count* (`prefetch_distance`). The first call for
   a loop returns an average, later ones the remembered sum; the memory is keyed
   by the address of an object that is freed between functions.
3. *A restart after a kill loses the original source* (`ksearch_killed`).
4. *A sample never ends* (`sampling_ends`). `strideBB` increments `number_skipped`
   where `number_profiled` was meant (`StrideProfiling.cpp:249`), so `profCheck`
   never reaches `resetBB` and everything after the first N1 executions is
   profiled, where the comments on N2 and `resetBB` (lines 143, 224 and 225) and
   the report (`doc/report/paper.tex:50`) describe samples of 30 with others
   skipped between; after the counter's turn, skipping begins again without the
   addresses being cleared. With `number_profiled` incremented, `SamplesEnd`,
   `SamplesAccounted` and `StridesAreConsecutive` all hold in these runs.

Seen while modelling and not given a run:

* Reading the profile. A line cut in its number is read as another number's
  (`StrideLoadProfile.cpp:95`), the last line, cut, as that of any load, and
  dominant strides that do not fit an int come back as others (line 97).
* Prefetching. The weak guard compares the load's address, and not the stride,
  with the profiled stride (`strideprefetch.cpp:408`, modelled so in
  `PrefetchCode`), so a weak load is prefetched almost never; a body of 200
  instructions or more gets the largest distance and not the smallest
  (`strideprefetch.cpp:470`; the report's formula rounds L/B up); addresses lose
  their upper half on a 64-bit target (`strideprefetch.cpp:336`).
* Search. The range of K includes 0; after a failed build the timings of the
  previous K's library are recorded (`ksearcher.py:225`; without failures
  `MeasuredWithItsK` holds); a ranked Result shows one run's performance beside
  another's times (`ksearcher.py:76`). In the variant, trials that overlap with
  the profiling are measured with an earlier search's profile or none, and count
  in the averages (`test_matrix0/ksearcher.py:227`).
* Loops. The id of a loop from 65536 on is stored as another
  (`LoopHierarchy.hxx:32`); `PROFILE_LOOP_MAX` (`Profile.hxx:30`) is compared with
  nothing. Dependences carried by different loops share an entry (`Profile.hxx:26`), the
  one of the loop that came first, which is what `ValuesExact` says of it.
* Versions. A byte a version wrote and then gave back is unknown to it, so that an
  older version's value of it is still committed (`MemoryMap.hxx:347`; invalid
  over invalid merges to unknown as well).
* Circular buffer. With a capacity of 1 the initial head is outside the array, and
  `reserve` of half as much again never grows it; a buffer that does not accept
  data when full still counts the item (`CircularQueue.hxx:358`, a policy nothing
  uses); copying assigns to elements that were never constructed; `at` does not
  compile when instantiated.
* Library wrappers. Some tell the profiler of other bytes than are read or
  written (`InexactForMemory`): `strncat`, `strtok`, `getcwd` and `strftime` of a
  byte more or fewer; `fread`, `fwrite` and `fgets` where items or lines are
  partial; `utimes` of one of two times; `getopt` of the strings, and not of the
  array that has them; `fcntl` of no lock; `ioctl`, which drops the address it is
  given, of nothing; those that fill a structure (`fill`) when they fail, and
  `ctime` of the string alone. `printf`, `scanf` and their kin walk a `va_list` for
  the strings in it and then, on x86-64, hand it on at its end
  (`profile_function_wrappers.h:1161` to 1187).
* Others leave untold what they do to a stream, or depend on
  (`InexactForStreams`): `tmpfile`, `fgets` returning null, `close`, `fclose` and
  `rewind`; `fflush`, "since we're going to just supress" it, which it does not
  (line 818); `isatty`, `tcgetattr`, `tcsetattr` and `ioctl`. These two sets are the
  names that `MemoryDependencesSeen` and `StreamDependencesSeen` leave out.
* realloc in place is not told of at all; one that moves a block without its
  growing ends the program, as do the formats %n, %a and %[; free and realloc of
  NULL read a header that is not there.

## 6. Not modelled, and the plan

Not modelled:

* of the wrappers, those that only pass numbers through (mathematics, byte order,
  user and process numbers), `brk` and `sbrk`; `signal` and `longjmp`,
  "Not handled correctly" (lines 1872 and 1896), `exit` and
  `atexit`; what the library keeps for itself, such as `errno`, the place `strtok` has come to and `getopt`'s
  variables; the buffer that `setbuf` hands over, which the library then uses
  without a word; and descriptors that share a file and its position, by `fcntl`
  (its comment hopes not, line 1008) or by opening one file twice;
* `InstructionMap`, `Locks`, `utils`, `debug_new` and the hexadecimal dumps, which
  have no state that others use (nothing in the repository instantiates a lock);
* of `MemoryMap`, `set_valid` without a value, the map of arbitrary items, and the
  two mergings that nothing calls; of the dependence profile, its two counters of
  accesses and the hash set;
* of `StridePrefetch`, sibling loops and loops without a preheader, the blocks
  `insertWSST` splits as seen by an outer loop's instruction count;
* `profilefeedback.cpp`, disabled with `#if FALSE`; the benchmarks and their
  driver; the statistics the passes print; LLVM itself, whose loop and profile
  information appear as constants and choices.

What is left to do, in order: `StridePrefetch` with sibling loops; several rounds
of versions in `MemoryMap`.
