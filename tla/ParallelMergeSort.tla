--------------------------- MODULE ParallelMergeSort ---------------------------
(***************************************************************************)
(* The OpenMP merge sort of hw4/hw4.c.  Segments longer than THRESHOLD are *)
(* halved into two tasks, which any thread of the team may execute; their  *)
(* creator waits for both and merges.  Shorter segments are sorted by one  *)
(* thread recursively, the shortest by insertion.  All merges use their    *)
(* own part of one scratch array.                                          *)
(*                                                                         *)
(* Tasks are tied: a thread that waits for its children may meanwhile      *)
(* execute only descendants of the tasks it has suspended.  A thread is    *)
(* its stack of calls, suspended ones below.  One step is one call, one    *)
(* task construct, one bulk copy or the merge of one element; insertion    *)
(* sort is one step.                                                       *)
(***************************************************************************)
EXTENDS Integers, Sequences, SequencesExt

CONSTANTS
    Threads,                \* the team of the parallel region
    N, Values,              \* length and possible elements of the array
    THRESHOLD, INSERTION_THRESHOLD, TILE_ELEMS,
    Junk                    \* what the scratch array may hold when allocated

ASSUME SortAssumption ==
    /\ N \in Nat \ {0}      \* main returns early for an empty file
    /\ Values \subseteq Int
    /\ INSERTION_THRESHOLD \in Nat /\ INSERTION_THRESHOLD >= 1
    /\ THRESHOLD \in Nat
    /\ TILE_ELEMS \in Nat \ {0}

VARIABLES
    arr, temp,      \* the array and the scratch buffer
    input,          \* history: what was loaded into arr
    stack,          \* stack[t]: the calls of thread t, innermost first
    tasks,          \* segments whose task is created and not yet started
    sorted,         \* segments whose call has returned
    entered,        \* a thread has entered the single construct
    finished        \* the parallel region is over

vars == <<arr, temp, input, stack, tasks, sorted, entered, finished>>

Index == 0 .. N - 1

Mid(left, right) == left + (right - left) \div 2
Left(f) == <<f.left, Mid(f.left, f.right)>>
Right(f) == <<Mid(f.left, f.right) + 1, f.right>>
Length(f) == f.right - f.left + 1

(* A call of mergeSort_parallel_cache or mergeSort_serial_cache, with the  *)
(* locals of merge_tiled: what is left of the two tiles, how much of the   *)
(* runs has been read into tiles, and the write position.                  *)
Call(segment, parallel) ==
    [left |-> segment[1], right |-> segment[2], parallel |-> parallel, pc |-> "call",
     bufL |-> << >>, bufR |-> << >>, i_src |-> 0, j_src |-> 0, k |-> 0]

Top(t) == Head(stack[t])
At(t, pc) == stack[t] # << >> /\ Top(t).pc = pc

GoOn(t, f) == stack' = [stack EXCEPT ![t] = <<f>> \o Tail(@)]
Recurse(t, f, g) == stack' = [stack EXCEPT ![t] = <<g, f>> \o Tail(@)]
Return(t) ==
    /\ stack' = [stack EXCEPT ![t] = Tail(@)]
    /\ sorted' = sorted \cup {<<Top(t).left, Top(t).right>>}

-----------------------------------------------------------------------------
(* insertion_sort: the elements of a segment in ascending order, equal     *)
(* ones in the order they had.                                             *)
Inserted(a, left, i) ==
    LET key == a[i]
        j == CHOOSE p \in left .. i : /\ \A q \in p .. i - 1 : a[q] > key
                                      /\ p > left => a[p - 1] <= key
    IN  [x \in DOMAIN a |-> IF x = j THEN key
                            ELSE IF x \in j + 1 .. i THEN a[x - 1] ELSE a[x]]

(* Bug: the last element is not inserted.                                  *)
InsertionSortShort(a, left, right) ==
    LET upto[i \in left .. right] ==
          IF i = left THEN a ELSE Inserted(upto[i - 1], left, i)
    IN  upto[right - 1]

InsertionSort(a, left, right) ==
    LET upto[i \in left .. right] ==
          IF i = left THEN a ELSE Inserted(upto[i - 1], left, i)
    IN  upto[right]

(* REFILL_L and REFILL_R: when its tile is empty, the next elements of the *)
(* run, read from the scratch array at base.                               *)
Tile(base, run_length, read) ==
    LET n == IF TILE_ELEMS < run_length - read THEN TILE_ELEMS ELSE run_length - read
    IN  [x \in 1 .. n |-> temp[base + read + x - 1]]

(* Bug: the read position does not advance past the tile.                  *)
RefillLAgain(f) ==
    LET tile == Tile(f.left, Mid(f.left, f.right) - f.left + 1, f.i_src)
    IN  IF f.bufL = << >> THEN [f EXCEPT !.bufL = tile, !.i_src = @ + Len(tile) - 1] ELSE f

RefillL(f) ==
    LET tile == Tile(f.left, Mid(f.left, f.right) - f.left + 1, f.i_src)
    IN  IF f.bufL = << >> THEN [f EXCEPT !.bufL = tile, !.i_src = @ + Len(tile)] ELSE f

RefillR(f) ==
    LET tile == Tile(Mid(f.left, f.right) + 1, f.right - Mid(f.left, f.right), f.j_src)
    IN  IF f.bufR = << >> THEN [f EXCEPT !.bufR = tile, !.j_src = @ + Len(tile)] ELSE f

-----------------------------------------------------------------------------
(* mergeSort_parallel_cache and mergeSort_serial_cache.                    *)

Trivial(t) ==
    /\ At(t, "call") /\ Top(t).left >= Top(t).right
    /\ Return(t)
    /\ UNCHANGED <<arr, temp, input, tasks, entered, finished>>

SwitchToSerial(t) ==
    /\ At(t, "call") /\ Top(t).left < Top(t).right
    /\ Top(t).parallel /\ Length(Top(t)) <= THRESHOLD
    /\ GoOn(t, [Top(t) EXCEPT !.parallel = FALSE])
    /\ UNCHANGED <<arr, temp, input, tasks, sorted, entered, finished>>

SpawnLeft(t) ==
    /\ At(t, "call") /\ Top(t).left < Top(t).right
    /\ Top(t).parallel /\ Length(Top(t)) > THRESHOLD
    /\ tasks' = tasks \cup {Left(Top(t))}
    /\ GoOn(t, [Top(t) EXCEPT !.pc = "second"])
    /\ UNCHANGED <<arr, temp, input, sorted, entered, finished>>

SpawnRight(t) ==
    /\ At(t, "second") /\ Top(t).parallel
    /\ tasks' = tasks \cup {Right(Top(t))}
    /\ GoOn(t, [Top(t) EXCEPT !.pc = "taskwait"])
    /\ UNCHANGED <<arr, temp, input, sorted, entered, finished>>

(* Bug: no taskwait before the merge.                                      *)
TaskWaitNot(t) ==
    /\ At(t, "taskwait")
    /\ GoOn(t, [Top(t) EXCEPT !.pc = "copy"])
    /\ UNCHANGED <<arr, temp, input, tasks, sorted, entered, finished>>

TaskWait(t) ==
    /\ At(t, "taskwait")
    /\ {Left(Top(t)), Right(Top(t))} \subseteq sorted
    /\ GoOn(t, [Top(t) EXCEPT !.pc = "copy"])
    /\ UNCHANGED <<arr, temp, input, tasks, sorted, entered, finished>>

InsertionStep(t) ==
    /\ At(t, "call") /\ Top(t).left < Top(t).right
    /\ ~Top(t).parallel /\ Length(Top(t)) <= INSERTION_THRESHOLD
    /\ arr' = InsertionSort(arr, Top(t).left, Top(t).right)
    /\ Return(t)
    /\ UNCHANGED <<temp, input, tasks, entered, finished>>

RecurseLeft(t) ==
    /\ At(t, "call") /\ Top(t).left < Top(t).right
    /\ ~Top(t).parallel /\ Length(Top(t)) > INSERTION_THRESHOLD
    /\ Recurse(t, [Top(t) EXCEPT !.pc = "second"], Call(Left(Top(t)), FALSE))
    /\ UNCHANGED <<arr, temp, input, tasks, sorted, entered, finished>>

RecurseRight(t) ==
    /\ At(t, "second") /\ ~Top(t).parallel
    /\ Recurse(t, [Top(t) EXCEPT !.pc = "copy"], Call(Right(Top(t)), FALSE))
    /\ UNCHANGED <<arr, temp, input, tasks, sorted, entered, finished>>

(* merge_tiled: both runs to the scratch array, then the first tiles.      *)
Copy(t) ==
    LET f == Top(t)
    IN  /\ At(t, "copy")
        /\ temp' = [x \in Index |-> IF x \in f.left .. f.right THEN arr[x] ELSE temp[x]]
        /\ GoOn(t, [f EXCEPT !.pc = "refill", !.k = f.left])
        /\ UNCHANGED <<arr, input, tasks, sorted, entered, finished>>

FirstTiles(t) ==
    /\ At(t, "refill")
    /\ GoOn(t, [RefillR(RefillL(Top(t))) EXCEPT !.pc = "merge"])
    /\ UNCHANGED <<arr, temp, input, tasks, sorted, entered, finished>>

(* The next element comes from the left tile unless the right one has a    *)
(* smaller element, and from the other tile when one run is exhausted.     *)
TakeL(f) == f.bufL # << >> /\ (f.bufR # << >> => Head(f.bufL) <= Head(f.bufR))
TakeR(f) == f.bufR # << >> /\ (f.bufL # << >> => Head(f.bufL) > Head(f.bufR))

MergeL(t) ==
    LET f == Top(t)
    IN  /\ At(t, "merge") /\ TakeL(f)
        /\ arr' = [arr EXCEPT ![f.k] = Head(f.bufL)]
        /\ GoOn(t, RefillL([f EXCEPT !.bufL = Tail(@), !.k = @ + 1]))
        /\ UNCHANGED <<temp, input, tasks, sorted, entered, finished>>

MergeR(t) ==
    LET f == Top(t)
    IN  /\ At(t, "merge") /\ TakeR(f)
        /\ arr' = [arr EXCEPT ![f.k] = Head(f.bufR)]
        /\ GoOn(t, RefillR([f EXCEPT !.bufR = Tail(@), !.k = @ + 1]))
        /\ UNCHANGED <<temp, input, tasks, sorted, entered, finished>>

Merged(t) ==
    /\ At(t, "merge") /\ Top(t).bufL = << >> /\ Top(t).bufR = << >>
    /\ Return(t)
    /\ UNCHANGED <<arr, temp, input, tasks, entered, finished>>

-----------------------------------------------------------------------------
(* The parallel region of main and the OpenMP run time.                    *)

Single(t) ==
    /\ ~entered
    /\ entered' = TRUE
    /\ stack' = [stack EXCEPT ![t] = <<Call(<<0, N - 1>>, TRUE)>>]
    /\ UNCHANGED <<arr, temp, input, tasks, sorted, finished>>

(* Where a thread may turn to another task: at the barrier that ends the   *)
(* region, after creating a task, and at a taskwait.                       *)
MayStart(t, task) ==
    /\ entered
    /\ stack[t] # << >> =>
         /\ Top(t).parallel /\ Top(t).pc \in {"second", "taskwait"}
         /\ \A i \in DOMAIN stack[t] :
               stack[t][i].left <= task[1] /\ task[2] <= stack[t][i].right

StartTask(t) ==
    \E task \in tasks :
        /\ MayStart(t, task)
        /\ tasks' = tasks \ {task}
        /\ stack' = [stack EXCEPT ![t] = <<Call(task, TRUE)>> \o @]
        /\ UNCHANGED <<arr, temp, input, sorted, entered, finished>>

(* Bug: the region ends without its barrier (nowait).                      *)
EndParallelNowait ==
    /\ entered /\ ~finished
    /\ finished' = TRUE
    /\ UNCHANGED <<arr, temp, input, stack, tasks, sorted, entered>>

(* The implicit barrier: every thread is idle and no task is left.         *)
EndParallel ==
    /\ entered /\ ~finished
    /\ tasks = {} /\ \A t \in Threads : stack[t] = << >>
    /\ finished' = TRUE
    /\ UNCHANGED <<arr, temp, input, stack, tasks, sorted, entered>>

Init ==
    /\ input \in [Index -> Values]
    /\ arr = input
    /\ temp \in [Index -> Junk]
    /\ stack = [t \in Threads |-> << >>]
    /\ tasks = {} /\ sorted = {}
    /\ entered = FALSE /\ finished = FALSE

Step(t) ==
    \/ Single(t) \/ StartTask(t)
    \/ Trivial(t) \/ SwitchToSerial(t) \/ SpawnLeft(t) \/ SpawnRight(t) \/ TaskWait(t)
    \/ InsertionStep(t) \/ RecurseLeft(t) \/ RecurseRight(t)
    \/ Copy(t) \/ FirstTiles(t) \/ MergeL(t) \/ MergeR(t) \/ Merged(t)

Next == EndParallel \/ \E t \in Threads : Step(t)

(* Every thread of the team keeps running; the barrier opens.              *)
Spec ==
    /\ Init /\ [][Next]_vars
    /\ WF_vars(EndParallel)
    /\ \A t \in Threads : WF_vars(Step(t))

-----------------------------------------------------------------------------
(***************************************************************************)
(* Properties.                                                             *)
(***************************************************************************)

(* The part of arr and temp a thread may be touching.                      *)
Touches(t) ==
    IF \/ At(t, "copy") \/ At(t, "refill") \/ At(t, "merge")
       \/ At(t, "call") /\ ~Top(t).parallel
    THEN Top(t).left .. Top(t).right
    ELSE {}

(* No two threads ever work on overlapping parts of the array or of the    *)
(* scratch array: "Each merge uses temp_full[left..right], which does not  *)
(* conflict with other merges" (hw4.c, at merge_tiled).                    *)
NoConflict ==
    \A t, u \in Threads : t # u => Touches(t) \cap Touches(u) = {}

(* When a merge begins, both its runs are sorted: the taskwait, or the     *)
(* return of both recursive calls, came first.                             *)
SortedOn(a, segment) == \A x \in segment[1] + 1 .. segment[2] : a[x - 1] <= a[x]

MergesSortedRuns ==
    \A t \in Threads :
        At(t, "copy") => SortedOn(arr, Left(Top(t))) /\ SortedOn(arr, Right(Top(t)))

(* A merge overwrites its segment of the array while elements are still in *)
(* the tiles and in the scratch array: written, tiled and unread elements  *)
(* together are the elements the segment was loaded with, so none is ever  *)
(* lost or duplicated, whatever other threads do.                          *)
Count(S, a(_), v) == Cardinality({x \in S : a(x) = v})

Conserved(f) ==
    LET mid == Mid(f.left, f.right)
        inputs(x) == input[x]
        written(x) == arr[x]
        unread(x) == temp[x]
        in_bufL(x) == f.bufL[x]
        in_bufR(x) == f.bufR[x]
    IN  \A v \in Values :
          Count(f.left .. f.right, inputs, v) =
              Count(f.left .. f.k - 1, written, v)
              + Count(DOMAIN f.bufL, in_bufL, v) + Count(DOMAIN f.bufR, in_bufR, v)
              + Count((f.left + f.i_src .. mid) \cup (mid + 1 + f.j_src .. f.right), unread, v)

ElementsConserved ==
    \A t \in Threads : At(t, "merge") => Conserved(Top(t))

(* What the program promises: see Sorting.  The array is looked at when    *)
(* the parallel region is over.                                            *)
Promise == INSTANCE Sorting WITH
    Lengths <- {N}, array <- IF finished THEN arr ELSE input

Sorts == Promise!Spec
=============================================================================
