# Verification of the CSEE4824 cache simulator and sorting programs

The repository holds the course work of four assignments. Its substantial
program is the cache simulator of `hw2/cache-simulator-class-version`, a
pintool; its concurrent programs are the OpenMP merge sorts of `hw4`; `hw3`
multiplies big integers in several ways, some vectorised. This directory models
all three in TLA+, checks the models with TLC, and proves with TLAPS, for every
value of the constants, the safety of the LRU and the optimal cache, of the
hierarchy of caches and its reports, of the attribution, of both sorts and of the
multiplications.

Paths below are relative to `src/`; `cache.h`, `cache.cpp` and `misc.h` are
those of `hw2/cache-simulator-class-version`.

## 1. The system

### 1.1 Components

| Component | Source | State | Operations |
|---|---|---|---|
| Geometry and profiles | `cache.h` `BaseCache`, `misc.h` `CompressorCounter` | key → index maps, counter rows, two `UINT32` totals | split an address, map a key, count a reference, grow |
| LRU cache | `cache.h` `LeastRecentlyUsed`, `Cache` | for each set a list of tags, a map of line lifetimes, the MRU tag and id; lifetime statistics | load, store, fetch, each for one line or several |
| Optimal cache | `cache.h` `Optimal`, `OptimalCache` | for each set the known and unknown stacks, the pool, the lookahead trace | access, fetch, process, process all sets |
| Infinite cache | `cache.h` `Infinite`, `Cache` | for each set the tags ever seen | load, store, fetch |
| Hierarchy and reports | `cache.cpp` | four caches for each of DL1, IL1 and UL2 | the analysis calls, `Fini` |
| Object and routine attribution | `cache.cpp` `Image`, `Routine`, `MallocBefore`, `MallocAfter`, the searches of `PrintOutput` | a map of routine tags by address, a vector of object tags, the next id | image loaded, `malloc` entered, `malloc` left; name an instruction, number an address |
| Task merge sort | `hw4/hw4.c` | the array, the scratch array, OpenMP tasks and threads | task creation, taskwait, tiled merge, insertion sort |
| Bottom-up merge sort | `hw4/seq_para.c` | two buffers that swap roles, one parallel loop per pass | merge two runs, swap, copy back |
| Big integer multiplication | `base.c`, `vectorized_multiply.c`, `vetorized_multiply_1.c`, `vectorized_multiply_simple.c`, `multiply.c` of `hw3` | digit arrays, a carry | add the products of a row (one or several at a time), carry after all rows, after each, or within it |
| Timing programs, matrix benchmark, plots | `hw1`, rest of `hw2` | none of interest | |

### 1.2 How they interact

Pin instruments the traced program. Before every instruction it calls, in this
order, the fetch, the load and the store analysis routine that
`Instruction` (`cache.cpp:695`) inserted. Each routine references the four
caches of a first level (infinite, fully associative optimal, set associative
optimal, set associative LRU); if the *LRU* cache missed, the same reference
goes to the four caches of the second level. The optimal caches cannot decide
a reference when it happens: they push it on a lookahead trace and decide it
`ld` references of the same set later, so their counters lag behind those of
the other two. When the program ends, `Fini` lets them catch up and prints the
profiles of the four caches side by side, and the differences of their misses
as cold, capacity, mapping and replacement misses. Each row it prints names the
routine of its instruction, or the number of the `malloc` that returned its
address. The tags for this are collected while images are loaded (`Image` calls
`Routine` for each routine and hooks the `malloc` of the image) and `malloc`
runs; nothing removes a tag when an image is unloaded or a block freed.

In `hw4.c` one thread of a parallel region starts the recursion; segments
longer than `THRESHOLD` become tied tasks for any thread of the team. All
merges share one scratch array. In `seq_para.c` every pass is a parallel loop
over pairs of runs, from one buffer into the other.

### 1.3 What is hard, and what correctness means

* *Two descriptions of one set* (LRU list and lifetime map, MRU tag): they must
  agree, and the list must really be in recency order, since eviction blindly
  takes its back.
* *Deferred decisions* (optimal cache): `Lookahead` changes the stacks and the
  trace while decisions are pending, repairs old decisions when a bypassed line
  returns, and the result must still be the minimum number of misses any
  replacement could have had.
* *Four caches in step*: reports read four profiles at the index of one of
  them; the totals are subtracted in unsigned arithmetic.
* *Order of `Fini`*: nothing may be printed before it is decided.
* *Interleavings of tasks and threads* in the sorts: disjoint memory, merges
  only of finished runs, termination, and a result in the right buffer.
* *Tags that outlive what they name*: memory returned twice, an image in the
  place of another, a `malloc` that calls the `malloc` of another image, so that
  two calls are under way and the code completes whichever tag is last.
* *Delayed carries*: a cell takes the products of all rows before it is
  reduced. Whether it can hold them, and whether the last carry stays within
  the product, depends on how many rows reach the cell.
* *Boundaries*: tiles, partial last runs, arrays of 0 and 1 elements, growing
  rows, wrapping totals, the end of a routine, vectors at the end of a number.

`PROJECT.json` lists each hazard at its line with the properties against it,
and those that no property covers with the reason.

## 2. The modules

| Module | Models | Extends / instantiates |
|---|---|---|
| `BaseCache` | `SplitAddr`, profiles, counters | – |
| `LruCache` | `Cache<LeastRecentlyUsed>`, one action per analysis call | `BaseCache` |
| `LruReference` | abstract: LRU by stack distance, no lists or evictions | – |
| `LruRefinement` | `LruCache` with the history of last references, mapped to `LruReference` | both |
| `OptimalCache` | `OptimalCache<Optimal>`: `Lookahead`, `Process`, stack repair, `ProcessAllSets` | `BaseCache` |
| `OptimalReference` | `OptimalCache` beside the least cost over all replacement choices | `OptimalCache` |
| `InfiniteCache` | `Cache<Infinite>` | `BaseCache` |
| `CacheReport` | `PrintOutput`, `PrintMissStats` | `BaseCache` |
| `CacheLevel` | the four caches of a level | the caches, `CacheReport` |
| `CacheSimulator` | the analysis calls, three levels, `Fini` | `CacheLevel` three times |
| `Attribution` | the tags of routines and objects, the two searches in them; the traced program loading images, calling and freeing | – |
| `Sorting` | abstract: an array becomes sorted in one step, and that happens | – |
| `ParallelMergeSort` | `hw4.c` and the OpenMP task scheduler | implements `Sorting` |
| `BottomUpMergeSort` | `seq_para.c` and static schedules | implements `Sorting` |
| `BigMultiply` | the five multiplications of `hw3`, as one loop nest that carries at different times | – |
| `BaseCacheProofs` | lemmas on profiles, totals and reports; those on remainders, induction and sums over sets and rows that the proofs about caches share | `CacheReport` |
| `LruCacheProofs` | theorems about `LruCache` and `LruRefinement` | `LruRefinement`, `BaseCacheProofs` |
| `OptimalCacheProofs` | theorems about `OptimalCache` and `OptimalReference` | `OptimalReference`, `BaseCacheProofs` |
| `CacheSimulatorProofs` | theorems about `CacheSimulator` | `CacheSimulator`; `OptimalCacheProofs` for each of its six optimal caches |
| `AttributionProofs`, `ParallelMergeSortProofs`, `BottomUpMergeSortProofs`, `BigMultiplyProofs` | theorems about the module | the module |
| `MC*` | values of the constants for TLC | |

State. A C++ object is one variable holding a record whose fields carry the
names of the data members (`sets_`, `m_line_life_`, `lookahead_trace_`). Code
indices start at 0; index *i* is position *i + 1* of a sequence. An
`std::map` is a function on the keys it holds. An analysis call is one atomic
step: the simulator creates no thread and asks Pin for no thread identity, and
the model has one traced thread. In `Attribution` a step of the code is the
callback at the load of an image, at the entry or at the return of a `malloc`.
In the multiplications a step is one iteration of an inner loop. In the sorts a step is one call, one task
construct, one bulk copy, or the merge of one element; the positions are those
of the arrays, from 0.

Code outside `src/` that the programs rely on is modelled from its use and
marked external in the map: the order of Pin's calls for one instruction; the
OpenMP rules that a waiting thread may start only descendants of its suspended
tied tasks, that the end of a region waits for all tasks, and that a static
schedule hands each thread its iterations in order; and, for `Attribution`,
that routines in memory do not overlap, that blocks in use do not, and that a
`malloc` which calls another one calls it once and returns its block. Which iterations a static
schedule gives to which thread is left open: every assignment is checked.

Definitions under a comment `Bug:` are deliberate mistakes. No specification
uses them. Each replaces one definition to show that a property notices a
plausible error in the code behind it; `PROJECT.json` pairs them under
"mutants".

## 3. What TLC checks

| Run | Instance | Shows |
|---|---|---|
| `lru` | 2 sets of 2 ways, 4 data lines of which 3 collide with each other and with the instruction's, 5 references, epochs of 3 references, profiles that start with 1 row, totals modulo 4, `mru_id_` initially 0 or 7 | containers agree, recency order, MRU memory, lifetime sums, profiles against totals, rows exist before they are indexed, only the least recent line is evicted; and the cache implements `LruReference` hit for hit |
| `optimal` | 2 sets of 2 ways, 5 lines of which 4 compete for one set, lookahead 1, windows of 1 and 2, 6 references | trace and stacks agree about the future, a set never overflows (the `ASSERTX` of `Process`), no reference is lost, repairs never use a stale priority, and the misses are the least possible |
| `hierarchy` | DL1 of 2 sets, IL1 of 1, UL2 of 2 ways, 3 data lines, 9 references at the first level | the caches of a level index alike, UL2 sees the L1 misses, the miss classes add up, reports are complete |
| `parallel_sort` | 2 threads, 7 elements, thresholds 3 and 2, tiles of 2 | no overlapping work, merges of sorted runs only, elements conserved in every merge, ends sorted |
| `bottom_up_sort` | 2 threads, arrays of 0 to 5 elements of 3 values, a sequential pass for runs of one element, parallel ones for longer runs | no two threads in one part of the destination, the loop invariant, ends sorted |
| `big_multiply` | base 3, vectors of 2 lanes, numbers of up to 7 digits, words of 96 values | at every step cells and carry are worth the products added so far; the result consists of digits; no access beyond the product; nothing wraps |
| `attribution` | a program with two adjacent routines, two libraries with a `malloc` each, a plugin that overlaps one of them; 3 loads, 4 calls of `malloc`, sizes 1 and 3 at two addresses | instructions and addresses are reported as documented, outside the cases of section 5; each nested call costs one tag, and finished tags stay in order |

Five more runs end in a violation; see section 5.

Why the bounds are enough. With two ways, three colliding lines are the fewest
that make eviction, return after eviction and a choice of victim possible; the
fourth gives the optimal cache a line to bypass while both residents are still
unknown. Five or six references fill a set, evict, return, evict again and let
the profiles double twice. `Uint32 = 4` makes the totals wrap within the run.
A lookahead of 1 and a window of 1 or 2 make `Process` run with entries left in
the trace, with repairs pending, and again from `Fini`. Seven elements with the
thresholds above give two levels of tasks, serial segments with both
recursion and insertion, tiles that end in the middle and at the end of a run.
In base 3 a cell that three rows reach carries more than a digit, so that one
carry runs through several cells; with two lanes, seven digits are a double
vector, a vector and a single digit (4 + 2 + 1). 96 is the least `Word` that
`WidthAssumption` allows for these numbers. For `multiply`, whose digits are
whole words, the largest two words and the smallest two give the largest carry,
none, and those at the boundary. Four calls of `malloc` allow two nested
pairs, or a block freed, returned again and asked for; three loads an image
that comes to lie where an unloaded one was.
Arrays of 0 to 5 elements give an even and an odd number of passes, a partial
last run, a run with no partner, and the empty array.
The bounds are constants: `MaxRefs` (references), `MaxMallocs`, `MaxLoads`, `KMax` (any value above all
reference ids, standing for the largest `INT64`), `Uint32`, `Uint64`
(ranges of the totals; the run `hierarchy` leaves both above what can be
reached so that a difference below zero, and nothing else, would wrap).

Deadlock is not checked: every program here ends, and the cache models and
`Attribution` also stop at their bounds. That the sorts do not stop early is part of `Sorts`.

### 3.1 Fairness

Only the sorts have liveness, the promise of `Sorting` that the array is
eventually sorted. `ParallelMergeSort` assumes weak fairness of every thread's
next step and of the end of the region; `BottomUpMergeSort` of every
thread and of the code between the parallel loops. That is what an OpenMP run
time provides: the threads of a team are operating system threads that no
construct of these programs suspends forever, and a barrier opens when all
have reached it. No fairness is assumed between tasks: which one a thread
takes, and whether a waiting thread takes any while another does, is left open.

## 4. What is proved

### 4.1 The LRU cache

`LruCacheProofs` proves for every geometry, associativity, allocation policy,
set of addresses, initial content of `mru_id_` and length of run, from the
assumptions `GeometryAssumption` (what the constructor of `BaseCache` asserts),
`CounterAssumption` and `LruAssumption` (positive sizes, addresses in `Nat`):

| Theorem | Property |
|---|---|
| `InvariantHolds` | `IInv` |
| `TypeCorrect` | `TypeOK` |
| `StructuresAlwaysAgree` | `StructuresAgree` |
| `AlwaysInRecencyOrder` | `RecencyOrder` |
| `MruAlwaysFront` | `MruIsFront` |
| `RowsAlwaysCover` | `RowsCoverIndices` |
| `OnlyLeastRecentEvicted` | `EvictsLeastRecent`, an action property |
| `ProfilesAlwaysAgree` | `ProfilesAgree` |
| `LifeTimesAlwaysAddUp` | `LifeTimesAddUp` |
| `IntervalsAlwaysTelescope` | `AccessIntervalsTelescope` |

The inductive invariant is `IInv == TypeOK /\ StructuresAgree /\ RecencyOrder
/\ MruIsFront /\ RowsCoverIndices`. None of the middle three is inductive
alone: that the back of the list is the least recent line needs the list and
the lifetime map to hold the same tags (otherwise the erased life is another
line's); agreement needs the list to be free of duplicates so that moving
a tag to the front leaves one copy; `MruIsFront` needs that the front is the
latest. The argument goes set by set: the lemmas about `Find` and `Replace`
show that a set satisfying the invariant for reference id *n* yields one for
*n + 1*; `Reference` changes one set and counts in three profiles, for which
`BaseCacheProofs` shows that `MapKey` keeps every index covered by a row and
every key at one index. All analysis calls are instances of `Reference`, so one
step lemma serves them all.

The last three theorems are about sums, and each is inductive beside `IInv`.
`ProfilesAlwaysAgree`: one reference adds the same `Gain` to a column of each profile
it is counted in, though `MapKey` may have given the key a new row or doubled
the rows before (`CountKeyMruSum`); the gains of a reference are one hit or one
miss, and one MRU class for a hit. That a fetch is a load is what keeps the
store columns of the address profile equal. `LifeTimesAlwaysAddUp`: a hit
leaves the arrivals of the resident lines alone, a replacement takes the
arrival of the victim from their sum and adds that of the new line, and the
live and dead time it books are exactly that much; for this the victim must have
a life, which is `StructuresAgree`. `IntervalsAlwaysTelescope` carries the junk of
`mru_id_` along, and a step changes the count of one set in a sum over all. Sums over
sets are recursive functions, whose value does not depend on the order in
which `CHOOSE` takes the elements: `SumWithout` and `SumChanges` of
`BaseCacheProofs`, by induction on the size of the set.

It also proves that the cache with `WriteAllocate` implements
`LruReference`, the definition of LRU by stack distance that knows no lists:

| Theorem | Property |
|---|---|
| `HistoryIsHarmless` | `HSpec` allows no behaviour of the cache that `Spec` does not |
| `AlwaysResidentIsRecent` | `ResidentIsRecent` |
| `LruImplementsStackDistance` | `ImplementsLru` |

The invariant is `IInv` with the history and `ResidentIsRecent`: a line is
resident exactly if it was referenced and fewer than `NumWays` lines of its set
were referenced since. That a step keeps it is an argument by counting. A line
that stays has one more line above it only if the one referenced was not above
it before; the one evicted from a full set has exactly `NumWays` - 1 lines above
it, because `RecencyOrder` makes it the last and the induction hypothesis says
that all above it are resident. Both theorems assume `WriteAllocate`: without
it a store that misses is a reference but brings nothing in, and the
equivalence does not hold.

### 4.2 The optimal cache

`OptimalCacheProofs`, for every geometry, lookahead distance, process window
and stream of references:

| Theorem | Property |
|---|---|
| `InvariantHolds` | `IInv` |
| `TypeCorrect` | `TypeOK` |
| `LookaheadIsRight` | `TraceLinked` |
| `SetsNeverOverflow` | `StackFits` |
| `StackAgreesWithTrace` | `KnownUntilNextUse` |
| `NothingIsLost` | `EveryReferenceCounted`, if the process window is not 0 |
| `HistoryIsHarmless` | `HSpec` of `OptimalReference` allows no other behaviour of the cache |
| `RepairsAreInformed` | `RepairsSeeLastUse` |
| `MissesAlwaysOptimal` | `MissesAreOptimal`, if the process window is not 0 |

`IInv` says of one set that its trace is `Linked` (the latest entry of a line has
the priority of an unknown future, every other one that of the next entry), that the
known stack holds lines with the priority of their first entry (`KnownOK`),
that the unknown lines have no entry (`UnknownOK`) and that it `Fits`. These hold each
other up: `Lookahead` moves a line from the unknown to the known stack only
because an unknown line has no entry in the trace; `Process` may drop the entry
at the front because the line decided gets the priority of the next entry,
which `Linked` says is there. `Fits` needs the pool: stack repair may put a
line back in the place of another, and never beyond the ways. The loops of
`Process` and `ProcessAllSets` are recursive functions in the model; the proof
is an induction over their iterations (`NatSetInduction`, from the
well-foundedness of the natural numbers). `NothingIsLost` adds up the
references that wait in the sets: a reference adds one to one of the sums,
an iteration takes one from it and counts it. With a window of 0 the property does not
hold after `Fini` (section 5), hence the hypothesis. `RepairsAreInformed` adds the
history of last uses to the invariant of a set.

`MissesAlwaysOptimal` is the optimality of the algorithm: after `Fini` the misses counted
are the least that any sequence of replacements, bypasses included, could have had with
the whole future known, whatever the lookahead distance. The history variable `cost` says for
every set of lines that some choice could have resident what reaching it costs at least. It
runs ahead of the decisions by the references in the trace, so the invariant
`OptSet` speaks of a chain of cost functions, one for each reference of the trace, that begins
with the choices about the references *decided* and ends with `cost` (`CostChain`).
About the first of them it says two things, for the misses `m` counted of this set.

* `Least`: every choice paid at least `m`, and whatever it paid beyond `m` bounds how far it is
  ahead. Ahead is measured by ranks: a line ranks by its priority, of the next use when the
  trace has one, of the last use otherwise, and one set of lines is within a `gap` of another
  if, above every threshold, it has at most `gap` lines more (`Many`, `Within`). The
  reference decided next has the highest rank of all, so a choice that hits where the cache
  misses was ahead by one and now has one miss less to its credit.
* `Attained`: there is a choice that paid at most `m` and has all the known lines, and,
  instead of the unknown ones, any lines without a use in the trace that are worth no more. The
  cache puts off which of the lines of unknown future it has; a stack repair takes back a
  pooled line in the place of an unknown one, and this is the choice it switches to.

A decision takes an entry from the front of the trace, which changes the rank of its line
only: from the highest to that of its next use, or to the lowest of all when the trace has
none. A lookahead lifts a line that had no use in the trace above all others without one
and below those with one. Each of the branches of `Decide` and
`Learn` is a lemma about ranks. The misses of the sets add up to the total in `UINT32`s
(`Optimal`, `MakeUp`). When `Fini` has run, no trace is left, each set has as many misses
as its `LeastMisses` (`OptimalAtLast`), and the property follows. With a window of 0,
`optimal_no_window` shows that it fails.

### 4.3 The hierarchy and its reports

`CacheSimulatorProofs`, for every geometry of the three levels, every setting of
the knobs and every traced program, from `SimulatorAssumption` (what the
constructors of the caches assert, for each level, and the types of sizes and knobs):

| Theorem | Property | Under |
|---|---|---|
| `SimInvariant` | `SimInv` | |
| `SameIndicesAlways` | `SameIndices` | |
| `SecondLevelSeesMisses` | `L2SeesL1Misses` | `MaxRefs < Uint32` |
| `ReportsAlwaysComplete` | `ReportsComplete` | `MaxRefs < Uint32`, `KnobProcessWindow # 0` |

Both hypotheses are needed. The total of misses is a `UINT32`; after 2^32 misses
it is smaller than the number of references the second level was sent, and the
rows of a report no longer sum to it. With a process window of 0 the optimal
caches never decide their last references (section 5).

The four caches of a level are compared through a *view*, which forgets what was a hit: how
many references there were, the index of each key, and how many references of
each access type each row has (`PlainView`). For the infinite and the real cache, the view of a
reference is that of the ones before with the reference added (`Noted`); they
share this step (`PlainStepKeeps` of `BaseCacheProofs`), since they only
differ in what they call a hit. An optimal cache gives a key its index at once
but counts its row when the reference is decided, up to `ld` references of the same set later.
Its view (`OptView` of `OptimalCacheProofs`) therefore adds to each row the entries
that still wait for it in the traces of all sets. A reference adds
one entry, deciding one moves it from the trace to the row, and the view notices
only the first (`AccessViews`, `FetchViews`, `ProcessAllSetsViews`). That the sums over the sets come out
right rests on a ledger: each waiting entry is a number of the set's references, so that
the entries of a row are a set whose size changes by one
(`WaitsAt`, `Undecided`), and each waiting entry names rows that exist.

`SimInv` says of each level that its four caches have the same view, and, with a window, that
each optimal cache counts every reference, or has nothing left to decide once
`Fini` has run. `SameIndices` is a part of the view. For
`L2SeesL1Misses` the view's number of references is compared with the misses of
the real first-level caches (`Filtered`), one analysis call at a time.
`ReportsComplete` follows because equal views of caches that wait for nothing are
equal rows: hits and misses of the real cache add up to the references of each row,
which bound the misses of the other three, and the columns of a profile sum to the totals
(`Settled`), which cannot have wrapped.

### 4.4 The attribution

`AttributionProofs`, for every sequence of images, blocks and calls that `Attribution`
allows (a `malloc` makes at most one inner call, whose block it hands on), from
`AttributionAssumption` (addresses and sizes are numbers, the routines of one image do not
overlap):

| Theorem | Property |
|---|---|
| `InvariantHolds` | `IInv` |
| `TypeCorrect` | `TypeOK` |
| `RoutinesReported` | `RoutineReported` |
| `MallocsNumbered` | `NthMalloc` |
| `UnfinishedTagsCounted` | `UnfinishedTags` |

`IInv` says that each routine tag is that of a routine of an image that was
loaded and each such routine has one (`CodeOK`); that there is a tag for every call, that the last one is
unfinished exactly while the innermost call has not got its block, and that the unfinished
ones are as many as there were nested calls (`Counts`); that finished tags have
ascending numbers (`InOrder`); and that without nesting the *n*-th tag is that of the *n*-th
call (`Plain`). `Counts` is what one would not guess: that completing
whatever tag is at the back is right for an innermost call, and for the call that made it
overwrites a finished tag without changing how many are unfinished.

### 4.5 The task merge sort

`ParallelMergeSortProofs`, for every number of threads and elements, every
threshold and tile size:

| Theorem | Property |
|---|---|
| `InvariantHolds` | `IInv` |
| `ThreadsNeverConflict` | `NoConflict` |
| `MergesBeginWithSortedRuns` | `MergesSortedRuns` |
| `MergesConserveElements` | `ElementsConserved` |
| `SortedAtTheEnd` | the array is sorted when the region has ended |
| `ElementsKept` | in every state some arrangement accounts for all elements |
| `SortsSafely` | initial states and steps are those (or stutters) of `Sorting` |

`Structure` describes the recursion without naming its tree. Of the calls on
the stack of a thread, an inner one works within a half that an outer one has
handed out; the stacks of two threads, the tasks not yet taken and the segments already
sorted are apart, except where one lies in a half that a call has handed
out. `NoConflict` follows, since what two calls still own can then not overlap.
`SortedInOrder` and `MergesOK` carry the order: a merge has written elements in order, none
of them above anything in the tiles and in what is left of the runs.
`ElementsKept` says where every element of the input is at any moment, in the array, in
the scratch array or in a tile, by a permutation: each position that still
counts holds the element the permutation sends there (`Accounted`), and the
permutation maps each segment in progress to itself (`Live`). `InsertionSort`, a
recursive function of the model, is proved correct by induction.

### 4.6 The bottom-up merge sort

`BottomUpMergeSortProofs`, for every number of threads and elements, every
threshold and every static schedule:

| Theorem | Property |
|---|---|
| `InvariantHolds` | `IInv` |
| `ThreadsNeverConflict` | `NoConflict` |
| `PassesSortRuns` | `RunsSorted` |
| `PassesConserveElements` | `RunsConserved` |
| `SortsSafely` | initial states and steps are those (or stutters) of `Sorting` |

`IInv` says what the source is in this pass (`Runs`: sorted runs of the current
width, each a permutation of that part of the input), that the shares of the
threads are apart and make up the iterations (`Shares`), how far each merge is
(`MergesOK`), that a pair of runs which no thread has left to do is merged in
the destination (`PassOK`), and the same for the loop that copies back
(`CopyOK`). At the end of a pass no share is left, so `PassOK` says that the
destination has runs of twice the width, and it becomes the source.

### 4.7 The multiplications

`BigMultiplyProofs` proves for every base, every length and content of the
numbers and every vector width, from `MultiplyAssumption` (`BASE` at least 2),
`InputsAssumption` (the numbers have digits and fit their arrays) and
`WidthAssumption`, which says what the code silently relies on:
2 · (`MAX_DIGITS` + 1) · `BASE` · (`BASE` - 1) values fit a cell. With the
`BASE` 10 and the 32 bit cells of the code that holds for every `MAX_DIGITS`
below twenty million.

| Theorem | Property |
|---|---|
| `Invariance` | `IInv` |
| `TypeCorrect` | `TypeOK` |
| `StaysWithinProduct` | `WithinProduct` |
| `NothingIsCutOff` | `NeverWraps` |
| `ReturnsDigits` | `Normalised` |
| `ProductsSoFar` | `PartialProduct` |
| `ReturnsTheProduct` | when `pc` is `"done"`, the cells of `C` are worth `A` times `B` |

None of the properties is inductive: that a sum fits says nothing of the next
sum. `IInv` bounds each cell by the products it may hold so far. For the two
functions that carry once, a cell has at most one product for each row done, and at most
one for each row that *reaches* it; the second bound is what makes the last cell safe.
While they carry, cell *k* with what was carried into it is worth at most the
products of the rows that reach it and a digit for each cell above, so that a
carry gets smaller towards the end and there is none out of the last cell. For
the function that carries after each row, a cell holds a digit and at most one
product; for those that carry within the row, digits only, and the cell after
the row is empty, which is why one may assign its last carry and the other may
add it. `Control` relates the loop positions. Each action has its own lemma.

`PartialProduct` is inductive beside `IInv`, which it needs at every step: what
is cut off by a word, carried out of the last cell or overwritten by a
last carry would be lost from the sum. `Power` and `Value` are recursive
functions, and what is said of them is proved by induction on the number of digits
(`NatSetInduction`): `SameTail` (values differ by what the digits that differ do),
`OneCell`, `PowerSum` and `AddRow`, the distributive law of a row of products.

### 4.8 Only model-checked

* `MissesClassified`: that the differences `Fini` prints as capacity, mapping and
  replacement misses are not negative. `MissesAlwaysOptimal` gives that each optimal cache has the
  least misses of any choice for its own geometry. Missing is the comparison of geometries
  and caches: that what the real cache does is one of the choices for its sets, that the
  sets together are a choice for the fully associative cache, and that no choice has fewer
  misses than the infinite cache.
* The termination in `Sorts`: liveness under fairness is beyond the prover.
  `SortsSafely` is the other half of `Sorts`.

## 5. What the checks found

* `optimal_no_window`: `cache.cpp:70` says the knobs `ld` and `pw` only affect
  the speed. With `pw` = 0 references remain in the traces for good and
  fewer misses are reported than any replacement can have. For `pw` ≥ 1 of the
  bound the misses are optimal.
* `address_report`: `Fini` prints the by-address profiles before
  `ProcessAllSets`, although the comment above `FiniElse` says that the optimal
  caches need it to finish.
* `report_columns`: the header of the reports names the four miss classes in
  another order than the rows have them.
* `fetches_by_address`: instruction fetches that reach UL2 are counted in the
  by-address profile of its optimal caches, in the row of the first address.
* `routine_boundaries`: `cache.cpp:836-837` promises the function name of an
  instruction. The search of `PrintOutput` includes the end of a routine, so that
  the first instruction of a routine is reported under the routine that
  ends there. `RoutineReported` shows that this, and tags left by an unloaded
  image, are the only ways to get a wrong name.

Observations that are not findings.

* `NthMalloc` and `UnfinishedTags` state how far "nth malloc() for
  address" is true. Memory that was freed and returned again is reported under the
  *oldest* call that returned it. When one `malloc` calls another, the outer
  return overwrites the finished tag of the inner one, and the tag
  of the outer call keeps members that were never assigned; later searches
  compare them.
* `multiply_vectorized` in `vectorized_multiply_simple.c:41-90` is never called.
  It carries by shifting its sums by one, where the scalar loop divides by the
  base.
* `cache.h:862`: the comment calls the bypass of an unknown reference among
  unknown lines a potential error. Within the bounds of `optimal` it never costs
  a miss, since stack repair makes up for it.

## 6. What is left

Everything planned is modelled, and every safety property of the passing runs is proved
except `MissesClassified`, which would be the next theorem: with the
optimality of each optimal cache proved, it needs the simulation of one level's caches by each other's
choices. Liveness stays with TLC (section 4.8).

## 7. Not modelled

Of the files of the repository nearly all, some 547,000 lines of source, are the Intel
Pin kit vendored under `hw2/pin-external-...`: third-party headers,
libraries and example tools, of which the project only uses the interface. What
the course work itself consists of is a few thousand lines, and the files named
in section 1.1 its parts with state.

* `cache_set::RoundRobin`: named in a typedef, never instantiated, and its
  `Find` lacks parameters the class `Cache` passes.
* The second line of an access that straddles two: the code itself ignores it,
  and the model follows it.
* Instruction counts, miss rates, `PrintLifetime` (it divides the sums that
  `LifeTimesAddUp` and `AccessIntervalsTelescope` are about by their counts, and
  prints `nan` for a set without replacements) and all formatting.
* Lifetime statistics of the infinite cache, which nothing reads.
* Threads of the traced program: the simulator has no lock and is meant for
  one thread. A `malloc` that fails (its 0 would be tagged like an address), or
  that calls another more than once.
* `multiply_vectorized` of `vectorized_multiply_simple.c`, which nothing calls;
  `timing.c` and `vectorized_multiply (2).c`, which repeat modelled functions;
  reading numbers and printing the product.
* Positions of 2^31 and more in the sorts, where `seq_para.c` casts `size_t` to
  `int`.
* The other sorts of `hw4`, from which the two modelled ones were put
  together: tasks with a private scratch array for each merge (`parallel.c`,
  `parallel_2.c`, `parallel_3.c`, `hw4_0.c`), the serial recursion, the tiled
  and the plain merge (`baseline*.c`, `cache_optimized*.c`, `seq_*.c`), a copy
  (`hw4_2.c`). Their tasks share less than those of `hw4.c`; the only other
  interleavings are the ones checked here.
* `hw1` (it measures hardware timing), the matrix benchmark, plots, the data
  generators.
