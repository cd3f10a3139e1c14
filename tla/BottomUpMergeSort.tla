--------------------------- MODULE BottomUpMergeSort ---------------------------
(***************************************************************************)
(* mergeSort_seq_dram_parallel of hw4/seq_para.c: merge sort from the      *)
(* bottom up.  Each pass merges pairs of runs of the source array into     *)
(* runs twice as long in the destination, then the arrays change roles.    *)
(* Passes with long enough runs are OpenMP parallel loops; so is the copy  *)
(* back when the last pass left the result in the other array.             *)
(*                                                                         *)
(* One step of a thread takes up one iteration of the loop, or moves one   *)
(* element.                                                                *)
(***************************************************************************)
EXTENDS Integers, FiniteSets

CONSTANTS
    Threads, Master,    \* the team; the thread that runs serial code
    Lengths, Values,    \* lengths and possible elements of the array
    OMP_THRESHOLD,      \* a pass is parallel when 2 * width reaches this
    Junk                \* what the other array may hold when allocated

ASSUME SortAssumption ==
    /\ Lengths \subseteq Nat /\ Values \subseteq Int
    /\ Master \in Threads
    /\ OMP_THRESHOLD \in Nat

VARIABLES
    buffer,     \* buffer["arr"] and buffer["tmp"]
    src, dst,   \* which of them is which
    width,      \* length of the sorted runs of the source
    pc,         \* main: "next", "pass", "last" (copying back) or "done"
    todo,       \* todo[t]: iterations of the loop that are thread t's
    job,        \* job[t]: the iteration thread t is executing
    input       \* history: the array as loaded

vars == <<buffer, src, dst, width, pc, todo, job, input>>

Index == DOMAIN input
N == Cardinality(Index)
Smaller(x, y) == IF x < y THEN x ELSE y

Idle == [left |-> 0, mid |-> -1, right |-> -1, i |-> 0, j |-> 0, k |-> 0]
Busy(t) == job[t] # Idle

(* Bug: an iteration for every run instead of every pair.                  *)
LeftsOfRuns(w) == {left \in Index : left % w = 0}

(* The iterations of a pass, named by their left ends.                     *)
Lefts(w) == {left \in Index : left % (2 * w) = 0}

(* schedule(static): the iterations in contiguous chunks, at most one per  *)
(* thread.  A serial loop is the master's.                                 *)
Schedules(iterations) ==
    {share \in [Threads -> SUBSET iterations] :
        /\ UNION {share[t] : t \in Threads} = iterations
        /\ \A t, u \in Threads : t # u => share[t] \cap share[u] = {}
        /\ \A t \in Threads : \A a, c \in share[t] : \A b \in iterations :
              a < b /\ b < c => b \in share[t]}

Alone(iterations) == [t \in Threads |-> IF t = Master THEN iterations ELSE {}]

-----------------------------------------------------------------------------
StartPass ==
    /\ pc = "next" /\ width < N
    /\ pc' = "pass"
    /\ \/ 2 * width >= OMP_THRESHOLD /\ todo' \in Schedules(Lefts(width))
       \/ 2 * width < OMP_THRESHOLD /\ todo' = Alone(Lefts(width))
    /\ UNCHANGED <<buffer, src, dst, width, job, input>>

(* The ends of the two runs are cut off at the end of the array.  A run    *)
(* without a partner is copied, which is a merge with an empty run.        *)
TakeIteration(t) ==
    /\ pc = "pass" /\ ~Busy(t)
    /\ \E left \in todo[t] :
         /\ \A other \in todo[t] : left <= other
         /\ LET mid   == Smaller(left + width - 1, N - 1)
                right == Smaller(left + 2 * width - 1, N - 1)
            IN  job' = [job EXCEPT ![t] = [left |-> left, mid |-> mid, right |-> right,
                                           i |-> left, j |-> mid + 1, k |-> left]]
         /\ todo' = [todo EXCEPT ![t] = @ \ {left}]
    /\ UNCHANGED <<buffer, src, dst, width, pc, input>>

(* Bug: the comparison the wrong way round.                                *)
TakesLeftLarger(g) ==
    /\ g.i <= g.mid
    /\ g.j <= g.right => buffer[src][g.i] >= buffer[src][g.j]

(* merge_runs: the left run's element unless the right one's is smaller.   *)
TakesLeft(g) ==
    /\ g.i <= g.mid
    /\ g.j <= g.right => buffer[src][g.i] <= buffer[src][g.j]

(* Bug: the last element is not written.                                   *)
AdvanceShort(t, g) == job' = [job EXCEPT ![t] = IF g.k >= g.right THEN Idle ELSE g]

Advance(t, g) == job' = [job EXCEPT ![t] = IF g.k > g.right THEN Idle ELSE g]

MergeElement(t) ==
    LET g == job[t]
    IN  /\ pc = "pass" /\ Busy(t)
        /\ IF TakesLeft(g)
           THEN /\ buffer' = [buffer EXCEPT ![dst][g.k] = buffer[src][g.i]]
                /\ Advance(t, [g EXCEPT !.i = @ + 1, !.k = @ + 1])
           ELSE /\ buffer' = [buffer EXCEPT ![dst][g.k] = buffer[src][g.j]]
                /\ Advance(t, [g EXCEPT !.j = @ + 1, !.k = @ + 1])
        /\ UNCHANGED <<src, dst, width, pc, todo, input>>

(* The barrier at the end of the loop has every thread's share done.       *)
AllDone == \A t \in Threads : todo[t] = {} /\ ~Busy(t)

EndPass ==
    /\ pc = "pass" /\ AllDone
    /\ src' = dst /\ dst' = src
    /\ width' = width * 2
    /\ pc' = "next"
    /\ UNCHANGED <<buffer, todo, job, input>>

(* The result has to be in arr.                                            *)
StartCopy ==
    /\ pc = "next" /\ width >= N /\ src # "arr"
    /\ pc' = "last"
    /\ todo' \in Schedules(Index)
    /\ UNCHANGED <<buffer, src, dst, width, job, input>>

CopyElement(t) ==
    /\ pc = "last"
    /\ \E x \in todo[t] :
         /\ \A y \in todo[t] : x <= y
         /\ buffer' = [buffer EXCEPT !["arr"][x] = buffer[src][x]]
         /\ todo' = [todo EXCEPT ![t] = @ \ {x}]
    /\ UNCHANGED <<src, dst, width, pc, job, input>>

(* Bug: the result is left in whichever array it is.                       *)
FinishAnywhere ==
    /\ \/ pc = "next" /\ width >= N
       \/ pc = "last" /\ AllDone
    /\ pc' = "done"
    /\ UNCHANGED <<buffer, src, dst, width, todo, job, input>>

Finish ==
    /\ \/ pc = "next" /\ width >= N /\ src = "arr"
       \/ pc = "last" /\ AllDone
    /\ pc' = "done"
    /\ UNCHANGED <<buffer, src, dst, width, todo, job, input>>

Init ==
    /\ input \in UNION {[0 .. n - 1 -> Values] : n \in Lengths}
    /\ buffer \in {[b \in {"arr", "tmp"} |-> IF b = "arr" THEN input ELSE junk] :
                      junk \in [Index -> Junk]}
    /\ src = "arr" /\ dst = "tmp"
    /\ width = 1
    /\ pc = "next"
    /\ todo = [t \in Threads |-> {}]
    /\ job = [t \in Threads |-> Idle]

Main == StartPass \/ EndPass \/ StartCopy \/ Finish
Step(t) == TakeIteration(t) \/ MergeElement(t) \/ CopyElement(t)

Next == Main \/ \E t \in Threads : Step(t)

Spec == Init /\ [][Next]_vars /\ WF_vars(Main) /\ \A t \in Threads : WF_vars(Step(t))

-----------------------------------------------------------------------------
(***************************************************************************)
(* Properties.                                                             *)
(***************************************************************************)

(* Iterations in progress write disjoint parts of the destination and read *)
(* within them the same part of the source: no thread sees another's work  *)
(* before the barrier, and none leaves the array.                          *)
Part(t) == job[t].left .. job[t].right

NoConflict ==
    /\ src # dst
    /\ \A t \in Threads : Part(t) \subseteq Index
    /\ \A t, u \in Threads : t # u => Part(t) \cap Part(u) = {}

(* The loop invariant: between passes the source consists of sorted runs   *)
(* of "width" elements, and each pair of runs has kept its elements.       *)
RunsSorted ==
    pc = "next" =>
        \A x \in Index : x % width # 0 => buffer[src][x - 1] <= buffer[src][x]

Occurs(a, part, v) == Cardinality({x \in part : a[x] = v})

RunsConserved ==
    pc = "next" =>
        \A left \in {x \in Index : x % width = 0}, v \in Values :
            LET run == left .. Smaller(left + width - 1, N - 1)
            IN  Occurs(buffer[src], run, v) = Occurs(input, run, v)

(* What the program promises: see Sorting.                                 *)
Promise == INSTANCE Sorting WITH
    array    <- IF pc = "done" THEN buffer["arr"] ELSE input,
    finished <- pc = "done"

Sorts == Promise!Spec
=============================================================================
