----------------------- MODULE BottomUpMergeSortProofs -----------------------
(***************************************************************************)
(* Proofs about BottomUpMergeSort, for every team of threads, every length *)
(* and every threshold: iterations in progress do not touch each other's   *)
(* elements, a pass makes sorted runs of the same elements whatever shares *)
(* the threads get, and what the program leaves in arr is what it was      *)
(* given in ascending order.                                               *)
(***************************************************************************)
EXTENDS BottomUpMergeSort, FiniteSetTheorems, TLAPS

-----------------------------------------------------------------------------
(* The inductive invariant.  What a merge has done so far is said of two   *)
(* arrays a and b of n elements, merged from a to b.                       *)

End(left, w, n) == Smaller(left + w - 1, n - 1)

Ascending(a, left, right) == \A x \in left + 1 .. right : a[x - 1] <= a[x]

Buffers == {"arr", "tmp"}
JobType == [left : Int, mid : Int, right : Int, i : Int, j : Int, k : Int]

TypeOK ==
    /\ N \in Nat /\ input \in [0 .. N - 1 -> Values]
    /\ src \in Buffers /\ dst \in Buffers /\ src # dst
    /\ width \in Nat \ {0}
    /\ pc \in {"next", "pass", "last", "done"}
    /\ todo \in [Threads -> SUBSET (0 .. N - 1)]
    /\ job \in [Threads -> JobType]
    /\ buffer \in [Buffers -> [0 .. N - 1 -> Values \cup Junk]]
    /\ buffer[src] \in [0 .. N - 1 -> Values]

(* The array a consists of sorted runs of w of the elements of c.          *)
Runs(w, n, a, c) ==
    /\ \A x \in 0 .. n - 1 : x % w # 0 => a[x - 1] <= a[x]
    /\ \A left \in 0 .. n - 1, v \in Values : left % w = 0 =>
          Occurs(a, left .. End(left, w, n), v) = Occurs(c, left .. End(left, w, n), v)

(* Elements left to right of b are sorted and are those of a.              *)
MergedTo(b, a, left, right) ==
    /\ \A x \in left .. right : b[x] \in Values
    /\ Ascending(b, left, right)
    /\ \A v \in Values : Occurs(b, left .. right, v) = Occurs(a, left .. right, v)

(* What a job g has written are, sorted, the elements it has taken from    *)
(* the two runs, and none is larger than one that is still to be taken.    *)
MergeOK(g, w, n, a, b) ==
    /\ g.left \in 0 .. n - 1 /\ g.left % (2 * w) = 0
    /\ g.mid = End(g.left, w, n) /\ g.right = End(g.left, 2 * w, n)
    /\ g.i \in g.left .. g.mid + 1 /\ g.j \in g.mid + 1 .. g.right + 1
    /\ g.k = g.i + g.j - g.mid - 1
    /\ \A x \in g.left .. g.k - 1 : b[x] \in Values
    /\ Ascending(b, g.left, g.k - 1)
    /\ g.k > g.left => /\ g.i <= g.mid => b[g.k - 1] <= a[g.i]
                       /\ g.j <= g.right => b[g.k - 1] <= a[g.j]
    /\ \A v \in Values : Occurs(b, g.left .. g.k - 1, v)
                            = Occurs(a, g.left .. g.i - 1, v) + Occurs(a, g.mid + 1 .. g.j - 1, v)

(* No iteration is shared out twice or to a thread and under way.          *)
Shares ==
    /\ \A t, u \in Threads : t # u => todo[t] \cap todo[u] = {}
    /\ pc = "pass" => \A t \in Threads : \A left \in todo[t] : left % (2 * width) = 0
    /\ pc \in {"next", "done"} => \A t \in Threads : todo[t] = {}
    /\ pc # "pass" => \A t \in Threads : ~Busy(t)
    /\ \A t, u \in Threads : Busy(t) => job[t].left \notin todo[u]
    /\ \A t, u \in Threads : t # u /\ Busy(t) /\ Busy(u) => job[t].left # job[u].left

MergesOK ==
    \A t \in Threads : Busy(t) =>
        /\ MergeOK(job[t], width, N, buffer[src], buffer[dst])
        /\ job[t].k <= job[t].right

(* The iterations that are neither to do nor under way have been done.     *)
Behind(x) ==
    /\ \A t \in Threads : x \notin todo[t]
    /\ \A t \in Threads : Busy(t) => job[t].left # x

PassOK ==
    pc = "pass" =>
        \A left \in 0 .. N - 1 : left % (2 * width) = 0 /\ Behind(left) =>
            MergedTo(buffer[dst], buffer[src], left, End(left, 2 * width, N))

CopyOK ==
    /\ pc \in {"last", "done"} => width >= N
    /\ pc = "last" => src = "tmp" /\ dst = "arr"
    /\ pc = "last" => \A x \in 0 .. N - 1 : Behind(x) => buffer["arr"][x] = buffer[src][x]
    /\ pc = "done" => \A x \in 0 .. N - 1 : buffer["arr"][x] = buffer[src][x]

IInv ==
    TypeOK /\ Runs(width, N, buffer[src], input) /\ Shares /\ MergesOK /\ PassOK /\ CopyOK


-----------------------------------------------------------------------------
(* Multiples.                                                              *)

(* Division and remainder of naturals.                                     *)
LEMMA DivMod ==
    ASSUME NEW x \in Nat, NEW w \in Nat \ {0}
    PROVE  /\ x \div w \in Nat /\ x % w \in 0 .. w - 1
           /\ x = w * (x \div w) + (x % w)
           /\ x < w => x % w = x
OBVIOUS

(* Two multiples of w are at least w apart.                                *)
LEMMA MultiplesApart ==
    ASSUME NEW w \in Nat \ {0}, NEW x \in Nat, NEW y \in Nat, x % w = 0, y % w = 0, x < y
    PROVE  x + w <= y
<1> DEFINE p == x \div w
           q == y \div w
<1>1. p \in Nat /\ q \in Nat /\ x = w * p /\ y = w * q
  BY DivMod
<1> HIDE DEF p, q
<1>2. p < q
  <2>1. SUFFICES ASSUME q <= p PROVE FALSE
    BY <1>1
  <2>2. w * q <= w * p
    BY <1>1, <2>1, SMT
  <2> QED BY <1>1, <2>2
<1>3. w * (p + 1) <= w * q
  BY <1>1, <1>2, SMT
<1>4. w * (p + 1) = w * p + w
  BY <1>1, SMT
<1> QED BY <1>1, <1>3, <1>4

(* The multiples of w are 0, then every w.                                 *)
LEMMA Multiples ==
    ASSUME NEW w \in Nat \ {0}
    PROVE  /\ 0 % w = 0
           /\ \A x \in Nat : x % w = 0 => (x + w) % w = 0
           /\ \A x \in Nat : x % w \in 0 .. w - 1 /\ x % w <= x /\ (x - (x % w)) % w = 0
<1>1. 0 % w = 0
  BY SMT
<1>2. \A q \in Nat : (w * q) % w = 0
  BY SMT
<1>3. ASSUME NEW x \in Nat
      PROVE  /\ x % w \in 0 .. w - 1 /\ x % w <= x /\ (x - (x % w)) % w = 0
             /\ x % w = 0 => (x + w) % w = 0
  <2> DEFINE q == x \div w
           r == x % w
  <2>1. q \in Nat /\ x = w * q + r /\ r \in 0 .. w - 1
    BY DivMod
  <2> HIDE DEF q, r
  <2>2. w * q \in Nat /\ w * (q + 1) = w * q + w
    BY <2>1, SMT
  <2>3. r <= x /\ x - r = w * q
    BY <2>1, <2>2
  <2>4. (w * q) % w = 0 /\ (w * (q + 1)) % w = 0
    BY <1>2, <2>1
  <2>5. r = 0 => x + w = w * (q + 1)
    BY <2>1, <2>2
  <2>6. r = 0 => (x + w) % w = 0
    BY <2>4, <2>5
  <2>7. r \in 0 .. w - 1 /\ r <= x /\ (x - r) % w = 0
    BY <2>1, <2>3, <2>4
  <2> QED BY <2>6, <2>7 DEF r
<1> QED BY <1>1, <1>3

(* Between a multiple and the next there is none.                          *)
LEMMA BetweenMultiples ==
    ASSUME NEW w \in Nat \ {0}, NEW x \in Nat, NEW y \in Nat, x % w = 0, x < y, y < x + w
    PROVE  y % w # 0
<1>1. SUFFICES ASSUME y % w = 0 PROVE FALSE
  OBVIOUS
<1>2. x + w <= y
  BY <1>1, MultiplesApart
<1> QED BY <1>2

(* A multiple of 2 * w is one of w, and so is what is w after it.          *)
LEMMA EvenMultiples ==
    ASSUME NEW w \in Nat \ {0}, NEW x \in Nat, x % (2 * w) = 0
    PROVE  x % w = 0 /\ (x + w) % w = 0
<1> DEFINE q == x \div (2 * w)
<1>1. 2 * w \in Nat \ {0}
  OBVIOUS
<1>2. q \in Nat /\ x = (2 * w) * q
  <2> DEFINE d == 2 * w
  <2> HIDE DEF d
  <2>1. d \in Nat \ {0}
    BY <1>1 DEF d
  <2>2. x \div d \in Nat /\ x = d * (x \div d) + (x % d)
    BY <2>1, DivMod
  <2>3. x % d = 0 /\ d * (x \div d) \in Nat
    BY <2>1, <2>2 DEF d
  <2> QED BY <2>2, <2>3 DEF d
<1> HIDE DEF q
<1>3. (2 * w) * q = w * (q + q) /\ q + q \in Nat
  BY <1>2, SMT
<1>4. (w * (q + q)) % w = 0
  <2> DEFINE r == q + q
  <2>1. r \in Nat
    BY <1>2
  <2> HIDE DEF r
  <2>2. (w * r) % w = 0
    BY <2>1, SMT
  <2> QED BY <2>2 DEF r
<1>5. x % w = 0
  BY <1>2, <1>3, <1>4
<1> QED BY <1>5, Multiples


-----------------------------------------------------------------------------
(* Counting.                                                               *)

(* No element is in an empty part, and there are numbers of them in any.   *)
LEMMA OccursInterval ==
    ASSUME NEW a, NEW v, NEW left \in Int, NEW right \in Int
    PROVE  /\ IsFiniteSet({x \in left .. right : a[x] = v})
           /\ Occurs(a, left .. right, v) \in Nat
           /\ right < left => Occurs(a, left .. right, v) = 0
<1> DEFINE S == {x \in left .. right : a[x] = v}
<1>1. IsFiniteSet(left .. right) /\ S \in SUBSET (left .. right)
  BY FS_Interval
<1>2. right < left => S = {}
  OBVIOUS
<1> HIDE DEF S
<1>3. IsFiniteSet(S) /\ Cardinality(S) \in Nat /\ Cardinality({}) = 0
  BY <1>1, FS_Subset, FS_CardinalityType, FS_EmptySet
<1> QED BY <1>2, <1>3 DEF Occurs, S

(* One more position counts for the value it has.                          *)
LEMMA OccursOneMore ==
    ASSUME NEW a, NEW v, NEW left \in Int, NEW k \in Int, left <= k
    PROVE  /\ a[k] = v => Occurs(a, left .. k, v) = Occurs(a, left .. k - 1, v) + 1
           /\ a[k] # v => Occurs(a, left .. k, v) = Occurs(a, left .. k - 1, v)
<1> DEFINE S == {x \in left .. k - 1 : a[x] = v}
           T == {x \in left .. k : a[x] = v}
<1>1. IsFiniteSet(S) /\ Cardinality(S) \in Nat
  <2>1. k - 1 \in Int
    OBVIOUS
  <2> QED BY <2>1, OccursInterval, FS_CardinalityType
<1>2. k \notin S /\ T = IF a[k] = v THEN S \cup {k} ELSE S
  <2>1. \A x : x \in left .. k <=> x \in left .. k - 1 \/ x = k
    OBVIOUS
  <2>2. k \notin left .. k - 1
    OBVIOUS
  <2> QED BY <2>1, <2>2
<1> HIDE DEF S, T
<1>3. Cardinality(S \cup {k}) = Cardinality(S) + 1
  BY <1>1, <1>2, FS_AddElement
<1>4. /\ a[k] = v => Cardinality(T) = Cardinality(S) + 1
      /\ a[k] # v => Cardinality(T) = Cardinality(S)
  BY <1>2, <1>3
<1> QED BY <1>4 DEF Occurs, S, T

(* Two adjacent parts.                                                     *)
LEMMA OccursSplit ==
    ASSUME NEW a, NEW v, NEW left \in Int, NEW mid \in Int, NEW right \in Int,
           left <= mid + 1, mid <= right
    PROVE  Occurs(a, left .. right, v)
             = Occurs(a, left .. mid, v) + Occurs(a, mid + 1 .. right, v)
<1> DEFINE S == {x \in left .. mid : a[x] = v}
           T == {x \in mid + 1 .. right : a[x] = v}
           U == {x \in left .. right : a[x] = v}
<1>1. IsFiniteSet(S) /\ IsFiniteSet(T)
  <2>1. IsFiniteSet(S)
    <3> HIDE DEF T, U
    <3> QED BY OccursInterval
  <2>2. IsFiniteSet(T)
    <3> DEFINE m == mid + 1
    <3>1. m \in Int
      OBVIOUS
    <3>2. T = {x \in m .. right : a[x] = v}
      OBVIOUS
    <3> HIDE DEF S, T, U, m
    <3>3. IsFiniteSet({x \in m .. right : a[x] = v})
      BY <3>1, OccursInterval
    <3> QED BY <3>2, <3>3
  <2> QED BY <2>1, <2>2
<1>2. U = S \cup T /\ S \cap T = {}
  <2>1. \A x : x \in left .. right <=> x \in left .. mid \/ x \in mid + 1 .. right
    OBVIOUS
  <2>2. \A x : ~(x \in left .. mid /\ x \in mid + 1 .. right)
    OBVIOUS
  <2> QED BY <2>1, <2>2
<1> HIDE DEF S, T, U
<1>3. Cardinality(S) \in Nat /\ Cardinality(T) \in Nat /\ Cardinality({}) = 0
  BY <1>1, FS_CardinalityType, FS_EmptySet
<1>4. Cardinality(U) = Cardinality(S) + Cardinality(T) - Cardinality(S \cap T)
  BY <1>1, <1>2, FS_Union
<1>5. Cardinality(S \cap T) = 0
  BY <1>2, <1>3
<1>6. Cardinality(U) = Cardinality(S) + Cardinality(T)
  BY <1>3, <1>4, <1>5
<1> QED BY <1>6 DEF Occurs, S, T, U

(* Counting looks at no other part.                                        *)
LEMMA OccursSame ==
    ASSUME NEW a, NEW b, NEW v, NEW part, \A x \in part : a[x] = b[x]
    PROVE  Occurs(a, part, v) = Occurs(b, part, v)
<1>1. {x \in part : a[x] = v} = {x \in part : b[x] = v}
  OBVIOUS
<1> QED BY <1>1 DEF Occurs

-----------------------------------------------------------------------------
(* One merge.                                                              *)

(* The ends of the two runs are in the array, and the first run has w      *)
(* elements if there is a second one.                                      *)
LEMMA EndBounds ==
    ASSUME NEW n \in Nat, NEW w \in Nat \ {0}, NEW left \in 0 .. n - 1
    PROVE  /\ End(left, w, n) \in left .. n - 1
           /\ End(left, 2 * w, n) \in End(left, w, n) .. n - 1
           /\ End(left, w, n) <= left + w - 1
           /\ End(left, 2 * w, n) <= left + w + w - 1
           /\ End(left, w, n) < End(left, 2 * w, n) => End(left, w, n) = left + w - 1
           /\ End(left, 2 * w, n) < n - 1 => End(left, 2 * w, n) = left + w + w - 1
           /\ w >= n => End(0, w, n) = n - 1
<1>1. 2 * w = w + w
  OBVIOUS
<1> QED BY <1>1 DEF End, Smaller

(* An iteration begins having taken and written nothing.                   *)
LEMMA MergeBegins ==
    ASSUME NEW n \in Nat, NEW w \in Nat \ {0}, NEW left \in 0 .. n - 1, left % (2 * w) = 0,
           NEW a, NEW b, NEW g \in JobType,
           g = [left |-> left, mid |-> End(left, w, n), right |-> End(left, 2 * w, n),
                i |-> left, j |-> End(left, w, n) + 1, k |-> left]
    PROVE  MergeOK(g, w, n, a, b) /\ g.k <= g.right
<1> DEFINE mid == End(left, w, n)
           right == End(left, 2 * w, n)
<1>1. mid \in left .. n - 1 /\ right \in mid .. n - 1 /\ left \in Int
  BY EndBounds
<1> HIDE DEF mid, right
<1>2. /\ g.left = left /\ g.mid = mid /\ g.right = right /\ g.i = left /\ g.j = mid + 1
      /\ g.k = left
  BY DEF mid, right
<1>3. ASSUME NEW v
      PROVE  Occurs(b, left .. left - 1, v)
               = Occurs(a, left .. left - 1, v) + Occurs(a, mid + 1 .. (mid + 1) - 1, v)
  <2>1. left - 1 \in Int /\ mid + 1 \in Int /\ (mid + 1) - 1 \in Int
    BY <1>1
  <2>2. left - 1 < left /\ (mid + 1) - 1 < mid + 1
    BY <1>1
  <2>3. /\ Occurs(b, left .. left - 1, v) = 0 /\ Occurs(a, left .. left - 1, v) = 0
        /\ Occurs(a, mid + 1 .. (mid + 1) - 1, v) = 0
    BY <1>1, <2>1, <2>2, OccursInterval
  <2> QED BY <2>3
<1>4. left .. left - 1 = {} /\ left + 1 .. left - 1 = {}
  BY <1>1
<1>5. /\ left \in left .. mid + 1 /\ mid + 1 \in mid + 1 .. right + 1
      /\ left = left + (mid + 1) - mid - 1 /\ left <= right
  BY <1>1
<1>6. mid = End(g.left, w, n) /\ right = End(g.left, 2 * w, n)
  BY <1>2 DEF mid, right
<1>7. Ascending(b, g.left, g.k - 1)
  BY <1>2, <1>4 DEF Ascending
<1>8. \A v \in Values : Occurs(b, g.left .. g.k - 1, v)
         = Occurs(a, g.left .. g.i - 1, v) + Occurs(a, g.mid + 1 .. g.j - 1, v)
  BY <1>2, <1>3
<1> QED BY <1>2, <1>4, <1>5, <1>6, <1>7, <1>8 DEF MergeOK


(* Where a job may be: a merge in progress reads and writes in its part of *)
(* the array, whose ends are those of two runs.                            *)
LEMMA MergeBounds ==
    ASSUME NEW n \in Nat, NEW w \in Nat \ {0}, NEW a, NEW b, NEW g \in JobType,
           MergeOK(g, w, n, a, b), g.k <= g.right
    PROVE  /\ g.left \in Nat /\ g.left <= g.mid /\ g.mid <= g.right /\ g.right <= n - 1
           /\ g.left <= g.i /\ g.i <= g.mid + 1 /\ g.mid + 1 <= g.j /\ g.j <= g.right + 1
           /\ g.left <= g.k /\ g.k = g.i + g.j - g.mid - 1
           /\ g.mid <= g.left + w - 1 /\ g.right <= g.left + w + w - 1
           /\ g.mid < g.right => g.mid = g.left + w - 1
           /\ g.left \in Int /\ g.mid \in Int /\ g.right \in Int
           /\ g.i \in Int /\ g.j \in Int /\ g.k \in Int
<1>1. /\ g.left \in 0 .. n - 1 /\ g.mid = End(g.left, w, n) /\ g.right = End(g.left, 2 * w, n)
      /\ g.i \in g.left .. g.mid + 1 /\ g.j \in g.mid + 1 .. g.right + 1
      /\ g.k = g.i + g.j - g.mid - 1
  BY DEF MergeOK
<1>2. /\ g.mid \in g.left .. n - 1 /\ g.right \in g.mid .. n - 1
      /\ g.mid <= g.left + w - 1 /\ g.right <= g.left + w + w - 1
      /\ g.mid < g.right => g.mid = g.left + w - 1
  <2> DEFINE left == g.left
  <2>1. left \in 0 .. n - 1 /\ g.mid = End(left, w, n) /\ g.right = End(left, 2 * w, n)
    BY <1>1
  <2> HIDE DEF left
  <2>2. /\ g.mid \in left .. n - 1 /\ g.right \in g.mid .. n - 1
        /\ g.mid <= left + w - 1 /\ g.right <= left + w + w - 1
        /\ g.mid < g.right => g.mid = left + w - 1
    BY <2>1, EndBounds
  <2> QED BY <2>2 DEF left
<1>3. /\ g.left \in Int /\ g.mid \in Int /\ g.right \in Int
      /\ g.i \in Int /\ g.j \in Int /\ g.k \in Int
  BY DEF JobType
<1> QED BY <1>1, <1>2, <1>3

(* The elements of each run are in order, so the one after the next is not *)
(* smaller than it.                                                        *)
LEMMA NextInRun ==
    ASSUME NEW n \in Nat, NEW w \in Nat \ {0}, NEW a, NEW b, NEW g \in JobType,
           MergeOK(g, w, n, a, b), g.k <= g.right,
           NEW d, Runs(w, n, a, d)
    PROVE  /\ g.i + 1 <= g.mid => a[g.i] <= a[g.i + 1]
           /\ g.j + 1 <= g.right => a[g.j] <= a[g.j + 1]
<1> DEFINE left == g.left
           mid == g.mid
           right == g.right
           i == g.i
           j == g.j
<1>1. /\ left \in Nat /\ left <= mid /\ mid <= right /\ right <= n - 1
      /\ left <= i /\ mid + 1 <= j
      /\ mid <= left + w - 1 /\ right <= left + w + w - 1
      /\ mid < right => mid = left + w - 1
      /\ left \in Int /\ mid \in Int /\ right \in Int /\ i \in Int /\ j \in Int
  BY MergeBounds
<1>0. \A x \in 0 .. n - 1 : x % w # 0 => a[x - 1] <= a[x]
  BY DEF Runs
<1>2. left % w = 0 /\ (left + w) % w = 0
  <2>1. left % (2 * w) = 0
    BY DEF MergeOK
  <2> QED BY <1>1, <2>1, EvenMultiples
<1> HIDE DEF left, mid, right, i, j
<1>3. ASSUME i + 1 <= mid PROVE a[i] <= a[i + 1]
  <2>1. i + 1 \in Nat /\ left < i + 1 /\ i + 1 < left + w /\ i + 1 \in 0 .. n - 1
    BY <1>1, <1>3
  <2>2. (i + 1) % w # 0
    BY <1>1, <1>2, <2>1, BetweenMultiples
  <2>3. (i + 1) - 1 = i
    BY <1>1
  <2> QED BY <1>0, <2>1, <2>2, <2>3
<1>4. ASSUME j + 1 <= right PROVE a[j] <= a[j + 1]
  <2>1. /\ j + 1 \in Nat /\ left + w < j + 1 /\ j + 1 < (left + w) + w /\ j + 1 \in 0 .. n - 1
        /\ left + w \in Nat
    BY <1>1, <1>4
  <2>2. (j + 1) % w # 0
    BY <1>2, <2>1, BetweenMultiples
  <2>3. (j + 1) - 1 = j
    BY <1>1
  <2> QED BY <1>0, <2>1, <2>2, <2>3
<1> QED BY <1>3, <1>4 DEF left, mid, right, i, j

(* Assigning v to element k of an array.                                   *)
Assigned(c, b, k, v) == c = [b EXCEPT ![k] = v]

(* What has been written from left to right, and one more v written at k.  *)
Written(b, left, right) ==
    (\A x \in left .. right : b[x] \in Values) /\ Ascending(b, left, right)
OneMore(c, b, left, k, v) ==
    \A z : IF v = z THEN Occurs(c, left .. k, z) = Occurs(b, left .. k - 1, z) + 1
                   ELSE Occurs(c, left .. k, z) = Occurs(b, left .. k - 1, z)

(* Writing an element v that is not smaller than those written leaves them *)
(* sorted and counts one more of v.                                        *)
LEMMA WriteNext ==
    ASSUME NEW left \in Int, NEW k \in Int, left <= k, NEW b, NEW v \in Values,
           left .. k \subseteq DOMAIN b, Written(b, left, k - 1),
           k > left => b[k - 1] <= v, NEW c, Assigned(c, b, k, v)
    PROVE  Written(c, left, k) /\ c[k] = v /\ OneMore(c, b, left, k, v)
<1>0. (\A x \in left .. k - 1 : b[x] \in Values) /\ Ascending(b, left, k - 1)
  BY DEF Written
<1>1. k \in left .. k /\ \A x \in left .. k : x # k => x \in left .. k - 1
  OBVIOUS
<1>2. \A x \in left .. k - 1 : x \in left .. k /\ x # k
  OBVIOUS
<1>3. c[k] = v /\ \A x \in left .. k - 1 : c[x] = b[x]
  BY <1>1, <1>2 DEF Assigned
<1>4. \A x \in left .. k : c[x] \in Values
  BY <1>0, <1>1, <1>3
<1>5. Ascending(c, left, k)
  <2>1. SUFFICES ASSUME NEW x \in left + 1 .. k PROVE c[x - 1] <= c[x]
    BY DEF Ascending
  <2>2. CASE x = k
    <3>1. k > left /\ k - 1 \in left .. k - 1
      BY <2>2
    <3> QED BY <1>3, <2>2, <3>1
  <2>3. CASE x # k
    <3>1. x \in left + 1 .. k - 1 /\ x \in left .. k - 1 /\ x - 1 \in left .. k - 1
      BY <2>3
    <3> QED BY <1>0, <1>3, <3>1 DEF Ascending
  <2> QED BY <2>2, <2>3
<1>6. ASSUME NEW z
      PROVE  IF v = z THEN Occurs(c, left .. k, z) = Occurs(b, left .. k - 1, z) + 1
                      ELSE Occurs(c, left .. k, z) = Occurs(b, left .. k - 1, z)
  <2>1. Occurs(c, left .. k - 1, z) = Occurs(b, left .. k - 1, z)
    <3> DEFINE part == left .. k - 1
    <3>1. \A x \in part : c[x] = b[x]
      BY <1>3
    <3> HIDE DEF part
    <3>2. Occurs(c, part, z) = Occurs(b, part, z)
      BY <3>1, OccursSame
    <3> QED BY <3>2 DEF part
  <2>2. /\ c[k] = z => Occurs(c, left .. k, z) = Occurs(c, left .. k - 1, z) + 1
        /\ c[k] # z => Occurs(c, left .. k, z) = Occurs(c, left .. k - 1, z)
    BY OccursOneMore
  <2> QED BY <1>3, <2>1, <2>2
<1> QED BY <1>3, <1>4, <1>5, <1>6 DEF Written, OneMore

(* Jobs by their members, and assigning to those.                          *)
JobOf(left, mid, right, i, j, k) ==
    [left |-> left, mid |-> mid, right |-> right, i |-> i, j |-> j, k |-> k]
WithLeft(g, i, k) == [g EXCEPT !.i = i, !.k = k]
WithRight(g, j, k) == [g EXCEPT !.j = j, !.k = k]

(* A job has its members and no others.                                    *)
LEMMA JobMembers ==
    ASSUME NEW g \in JobType
    PROVE  g = JobOf(g.left, g.mid, g.right, g.i, g.j, g.k)
BY DEF JobType, JobOf

(* Assigning to a member keeps the others.                                 *)
LEMMA AssignMember ==
    ASSUME NEW left, NEW mid, NEW right, NEW i, NEW j, NEW k, NEW x
    PROVE  /\ [JobOf(left, mid, right, i, j, k) EXCEPT !.i = x] = JobOf(left, mid, right, x, j, k)
           /\ [JobOf(left, mid, right, i, j, k) EXCEPT !.j = x] = JobOf(left, mid, right, i, x, k)
           /\ [JobOf(left, mid, right, i, j, k) EXCEPT !.k = x] = JobOf(left, mid, right, i, j, x)
<1>1. [JobOf(left, mid, right, i, j, k) EXCEPT !.i = x] = JobOf(left, mid, right, x, j, k)
  BY DEF JobOf
<1>2. [JobOf(left, mid, right, i, j, k) EXCEPT !.j = x] = JobOf(left, mid, right, i, x, k)
  BY DEF JobOf
<1>3. [JobOf(left, mid, right, i, j, k) EXCEPT !.k = x] = JobOf(left, mid, right, i, j, x)
  BY DEF JobOf
<1> QED BY <1>1, <1>2, <1>3

(* So does assigning to two.                                               *)
LEMMA AssignMembers ==
    ASSUME NEW left, NEW mid, NEW right, NEW i, NEW j, NEW k, NEW x, NEW y
    PROVE  /\ WithLeft(JobOf(left, mid, right, i, j, k), x, y) = JobOf(left, mid, right, x, j, y)
           /\ WithRight(JobOf(left, mid, right, i, j, k), x, y) = JobOf(left, mid, right, i, x, y)
<1> DEFINE g == JobOf(left, mid, right, i, j, k)
<1>1. WithLeft(g, x, y) = [[g EXCEPT !.i = x] EXCEPT !.k = y]
  BY DEF WithLeft
<1>2. WithRight(g, x, y) = [[g EXCEPT !.j = x] EXCEPT !.k = y]
  BY DEF WithRight
<1>3. /\ [g EXCEPT !.i = x] = JobOf(left, mid, right, x, j, k)
      /\ [g EXCEPT !.j = x] = JobOf(left, mid, right, i, x, k)
  BY AssignMember
<1>4. [JobOf(left, mid, right, x, j, k) EXCEPT !.k = y] = JobOf(left, mid, right, x, j, y)
  BY DEF JobOf
<1>5. [JobOf(left, mid, right, i, x, k) EXCEPT !.k = y] = JobOf(left, mid, right, i, x, y)
  BY DEF JobOf
<1>6. WithLeft(g, x, y) = JobOf(left, mid, right, x, j, y)
  BY <1>1, <1>3, <1>4, Zenon
<1>7. WithRight(g, x, y) = JobOf(left, mid, right, i, x, y)
  BY <1>2, <1>3, <1>5, Zenon
<1> QED BY <1>6, <1>7

(* A job that has taken one more element of its left run.                  *)
TookLeft(h, g) ==
    /\ h.left = g.left /\ h.mid = g.mid /\ h.right = g.right
    /\ h.i = g.i + 1 /\ h.j = g.j /\ h.k = g.k + 1
TookRight(h, g) ==
    /\ h.left = g.left /\ h.mid = g.mid /\ h.right = g.right
    /\ h.i = g.i /\ h.j = g.j + 1 /\ h.k = g.k + 1

(* What the assignments of MergeElement to a job do.                       *)
LEMMA JobAdvances ==
    ASSUME NEW g \in JobType
    PROVE  /\ TookLeft([g EXCEPT !.i = @ + 1, !.k = @ + 1], g)
           /\ TookRight([g EXCEPT !.j = @ + 1, !.k = @ + 1], g)
           /\ [g EXCEPT !.i = @ + 1, !.k = @ + 1] \in JobType
           /\ [g EXCEPT !.j = @ + 1, !.k = @ + 1] \in JobType
<1> DEFINE x == WithLeft(g, g.i + 1, g.k + 1)
           y == WithRight(g, g.j + 1, g.k + 1)
<1>1. /\ [g EXCEPT !.i = @ + 1, !.k = @ + 1] = x
      /\ [g EXCEPT !.j = @ + 1, !.k = @ + 1] = y
  BY DEF WithLeft, WithRight
<1>2. /\ x = JobOf(g.left, g.mid, g.right, g.i + 1, g.j, g.k + 1)
      /\ y = JobOf(g.left, g.mid, g.right, g.i, g.j + 1, g.k + 1)
  <2>1. g = JobOf(g.left, g.mid, g.right, g.i, g.j, g.k)
    BY JobMembers
  <2>2. /\ WithLeft(JobOf(g.left, g.mid, g.right, g.i, g.j, g.k), g.i + 1, g.k + 1)
             = JobOf(g.left, g.mid, g.right, g.i + 1, g.j, g.k + 1)
        /\ WithRight(JobOf(g.left, g.mid, g.right, g.i, g.j, g.k), g.j + 1, g.k + 1)
             = JobOf(g.left, g.mid, g.right, g.i, g.j + 1, g.k + 1)
    BY AssignMembers
  <2> QED BY <2>1, <2>2
<1>3. /\ g.left \in Int /\ g.mid \in Int /\ g.right \in Int
      /\ g.i + 1 \in Int /\ g.j + 1 \in Int /\ g.k + 1 \in Int
      /\ g.i \in Int /\ g.j \in Int
  BY DEF JobType
<1> HIDE DEF x, y
<1>4. TookLeft(x, g) /\ TookRight(y, g)
  BY <1>2 DEF JobOf, TookLeft, TookRight
<1>5. x \in JobType /\ y \in JobType
  BY <1>2, <1>3 DEF JobOf, JobType
<1> QED BY <1>1, <1>4, <1>5

(* Moving the next element of the left run.                                *)
LEMMA TakesFromLeft ==
    ASSUME NEW n \in Nat, NEW w \in Nat \ {0}, NEW a \in [0 .. n - 1 -> Values],
           NEW d, Runs(w, n, a, d), NEW b, DOMAIN b = 0 .. n - 1,
           NEW g \in JobType, MergeOK(g, w, n, a, b), g.k <= g.right,
           g.i <= g.mid, g.j <= g.right => a[g.i] <= a[g.j],
           NEW c, Assigned(c, b, g.k, a[g.i]),
           NEW h, TookLeft(h, g)
    PROVE  MergeOK(h, w, n, a, c)
<1> DEFINE left == g.left
           mid == g.mid
           right == g.right
           i == g.i
           j == g.j
           k == g.k
<1>1. /\ left \in Nat /\ left <= mid /\ mid <= right /\ right <= n - 1
      /\ left <= i /\ i <= mid /\ mid + 1 <= j /\ j <= right + 1
      /\ left <= k /\ k <= right /\ k = i + j - mid - 1
      /\ left \in Int /\ mid \in Int /\ right \in Int /\ i \in Int /\ j \in Int /\ k \in Int
  BY MergeBounds
<1>2. /\ h.left = left /\ h.mid = mid /\ h.right = right
      /\ h.i = i + 1 /\ h.j = j /\ h.k = k + 1
  BY DEF TookLeft
<1>3. /\ left \in 0 .. n - 1 /\ left % (2 * w) = 0
      /\ mid = End(left, w, n) /\ right = End(left, 2 * w, n)
      /\ \A x \in left .. k - 1 : b[x] \in Values
      /\ Ascending(b, left, k - 1)
      /\ k > left => b[k - 1] <= a[i]
      /\ \A v \in Values : Occurs(b, left .. k - 1, v)
                             = Occurs(a, left .. i - 1, v) + Occurs(a, mid + 1 .. j - 1, v)
  BY <1>1 DEF MergeOK
<1>4. i + 1 <= mid => a[i] <= a[i + 1]
  BY NextInRun
<1>5. Assigned(c, b, k, a[i]) /\ (j <= right => a[i] <= a[j])
  OBVIOUS
<1> HIDE DEF left, mid, right, i, j, k
<1>6. /\ a[i] \in Values /\ left .. k \subseteq 0 .. n - 1
      /\ i + 1 \in left .. mid + 1 /\ j \in mid + 1 .. right + 1
      /\ k + 1 = (i + 1) + j - mid - 1 /\ (k + 1) - 1 = k /\ (i + 1) - 1 = i
  BY <1>1
<1>7. Written(c, left, k) /\ c[k] = a[i] /\ OneMore(c, b, left, k, a[i])
  <2> DEFINE v == a[i]
  <2>1. v \in Values /\ Assigned(c, b, k, v) /\ (k > left => b[k - 1] <= v)
    BY <1>3, <1>5, <1>6
  <2>2. left .. k \subseteq DOMAIN b
    BY <1>6
  <2>3. Written(b, left, k - 1)
    BY <1>3 DEF Written
  <2>4. left \in Int /\ k \in Int /\ left <= k
    BY <1>1
  <2> HIDE DEF v
  <2>5. Written(c, left, k) /\ c[k] = v /\ OneMore(c, b, left, k, v)
    BY <2>1, <2>2, <2>3, <2>4, WriteNext
  <2> QED BY <2>5 DEF v
<1>8. ASSUME NEW v \in Values
      PROVE  Occurs(c, left .. k, v) = Occurs(a, left .. i, v) + Occurs(a, mid + 1 .. j - 1, v)
  <2>1. /\ a[i] = v => Occurs(a, left .. i, v) = Occurs(a, left .. i - 1, v) + 1
        /\ a[i] # v => Occurs(a, left .. i, v) = Occurs(a, left .. i - 1, v)
    BY <1>1, OccursOneMore
  <2>2. Occurs(a, left .. i - 1, v) \in Nat /\ Occurs(a, mid + 1 .. j - 1, v) \in Nat
    <3>1. i - 1 \in Int /\ mid + 1 \in Int /\ j - 1 \in Int
      BY <1>1
    <3> QED BY <1>1, <3>1, OccursInterval
  <2> QED BY <1>3, <1>7, <2>1, <2>2 DEF OneMore
<1>9. /\ h.left \in 0 .. n - 1 /\ h.left % (2 * w) = 0
      /\ h.mid = End(h.left, w, n) /\ h.right = End(h.left, 2 * w, n)
      /\ h.i \in h.left .. h.mid + 1 /\ h.j \in h.mid + 1 .. h.right + 1
      /\ h.k = h.i + h.j - h.mid - 1
  BY <1>2, <1>3, <1>6
<1>10. /\ \A x \in h.left .. h.k - 1 : c[x] \in Values
       /\ Ascending(c, h.left, h.k - 1)
       /\ h.i <= h.mid => c[h.k - 1] <= a[h.i]
       /\ h.j <= h.right => c[h.k - 1] <= a[h.j]
  BY <1>2, <1>4, <1>5, <1>6, <1>7 DEF Written
<1>11. \A v \in Values : Occurs(c, h.left .. h.k - 1, v)
          = Occurs(a, h.left .. h.i - 1, v) + Occurs(a, h.mid + 1 .. h.j - 1, v)
  BY <1>2, <1>6, <1>8
<1> QED BY <1>2, <1>9, <1>10, <1>11 DEF MergeOK


(* Moving the next element of the right run, smaller than the left run's.  *)
LEMMA TakesFromRight ==
    ASSUME NEW n \in Nat, NEW w \in Nat \ {0}, NEW a \in [0 .. n - 1 -> Values],
           NEW d, Runs(w, n, a, d), NEW b, DOMAIN b = 0 .. n - 1,
           NEW g \in JobType, MergeOK(g, w, n, a, b), g.k <= g.right,
           g.j <= g.right, g.i <= g.mid => a[g.j] <= a[g.i],
           NEW c, Assigned(c, b, g.k, a[g.j]),
           NEW h, TookRight(h, g)
    PROVE  MergeOK(h, w, n, a, c)
<1> DEFINE left == g.left
           mid == g.mid
           right == g.right
           i == g.i
           j == g.j
           k == g.k
<1>1. /\ left \in Nat /\ left <= mid /\ mid <= right /\ right <= n - 1
      /\ left <= i /\ i <= mid + 1 /\ mid + 1 <= j /\ j <= right
      /\ left <= k /\ k <= right /\ k = i + j - mid - 1
      /\ left \in Int /\ mid \in Int /\ right \in Int /\ i \in Int /\ j \in Int /\ k \in Int
  BY MergeBounds
<1>2. /\ h.left = left /\ h.mid = mid /\ h.right = right
      /\ h.i = i /\ h.j = j + 1 /\ h.k = k + 1
  BY DEF TookRight
<1>3. /\ left \in 0 .. n - 1 /\ left % (2 * w) = 0
      /\ mid = End(left, w, n) /\ right = End(left, 2 * w, n)
      /\ \A x \in left .. k - 1 : b[x] \in Values
      /\ Ascending(b, left, k - 1)
      /\ k > left => b[k - 1] <= a[j]
      /\ \A v \in Values : Occurs(b, left .. k - 1, v)
                             = Occurs(a, left .. i - 1, v) + Occurs(a, mid + 1 .. j - 1, v)
  BY <1>1 DEF MergeOK
<1>4. j + 1 <= right => a[j] <= a[j + 1]
  BY NextInRun
<1>5. Assigned(c, b, k, a[j]) /\ (i <= mid => a[j] <= a[i])
  OBVIOUS
<1> HIDE DEF left, mid, right, i, j, k
<1>6. /\ a[j] \in Values /\ left .. k \subseteq 0 .. n - 1
      /\ i \in left .. mid + 1 /\ j + 1 \in mid + 1 .. right + 1
      /\ k + 1 = i + (j + 1) - mid - 1 /\ (k + 1) - 1 = k /\ (j + 1) - 1 = j
  BY <1>1
<1>7. Written(c, left, k) /\ c[k] = a[j] /\ OneMore(c, b, left, k, a[j])
  <2> DEFINE v == a[j]
  <2>1. v \in Values /\ Assigned(c, b, k, v) /\ (k > left => b[k - 1] <= v)
    BY <1>3, <1>5, <1>6
  <2>2. left .. k \subseteq DOMAIN b
    BY <1>6
  <2>3. Written(b, left, k - 1)
    BY <1>3 DEF Written
  <2>4. left \in Int /\ k \in Int /\ left <= k
    BY <1>1
  <2> HIDE DEF v
  <2>5. Written(c, left, k) /\ c[k] = v /\ OneMore(c, b, left, k, v)
    BY <2>1, <2>2, <2>3, <2>4, WriteNext
  <2> QED BY <2>5 DEF v
<1>8. ASSUME NEW v \in Values
      PROVE  Occurs(c, left .. k, v) = Occurs(a, left .. i - 1, v) + Occurs(a, mid + 1 .. j, v)
  <2>1. /\ a[j] = v => Occurs(a, mid + 1 .. j, v) = Occurs(a, mid + 1 .. j - 1, v) + 1
        /\ a[j] # v => Occurs(a, mid + 1 .. j, v) = Occurs(a, mid + 1 .. j - 1, v)
    <3>1. mid + 1 \in Int /\ mid + 1 <= j
      BY <1>1
    <3> QED BY <1>1, <3>1, OccursOneMore
  <2>2. Occurs(a, left .. i - 1, v) \in Nat /\ Occurs(a, mid + 1 .. j - 1, v) \in Nat
    <3>1. i - 1 \in Int /\ mid + 1 \in Int /\ j - 1 \in Int
      BY <1>1
    <3> QED BY <1>1, <3>1, OccursInterval
  <2> QED BY <1>3, <1>7, <2>1, <2>2 DEF OneMore
<1>9. /\ h.left \in 0 .. n - 1 /\ h.left % (2 * w) = 0
      /\ h.mid = End(h.left, w, n) /\ h.right = End(h.left, 2 * w, n)
      /\ h.i \in h.left .. h.mid + 1 /\ h.j \in h.mid + 1 .. h.right + 1
      /\ h.k = h.i + h.j - h.mid - 1
  BY <1>2, <1>3, <1>6
<1>10. /\ \A x \in h.left .. h.k - 1 : c[x] \in Values
       /\ Ascending(c, h.left, h.k - 1)
       /\ h.i <= h.mid => c[h.k - 1] <= a[h.i]
       /\ h.j <= h.right => c[h.k - 1] <= a[h.j]
  BY <1>2, <1>4, <1>5, <1>6, <1>7 DEF Written
<1>11. \A v \in Values : Occurs(c, h.left .. h.k - 1, v)
          = Occurs(a, h.left .. h.i - 1, v) + Occurs(a, h.mid + 1 .. h.j - 1, v)
  BY <1>2, <1>6, <1>8
<1> QED BY <1>2, <1>9, <1>10, <1>11 DEF MergeOK

(* When all elements of both runs are written, what they were merged to    *)
(* has them all.                                                           *)
LEMMA MergeEnds ==
    ASSUME NEW n \in Nat, NEW w \in Nat \ {0}, NEW a, NEW b, NEW g \in JobType,
           MergeOK(g, w, n, a, b), g.k > g.right
    PROVE  MergedTo(b, a, g.left, g.right)
<1> DEFINE left == g.left
           mid == g.mid
           right == g.right
           i == g.i
           j == g.j
           k == g.k
<1>1. /\ left \in 0 .. n - 1 /\ mid = End(left, w, n) /\ right = End(left, 2 * w, n)
      /\ i \in left .. mid + 1 /\ j \in mid + 1 .. right + 1
      /\ k = i + j - mid - 1 /\ k > right
      /\ \A x \in left .. k - 1 : b[x] \in Values
      /\ Ascending(b, left, k - 1)
      /\ \A v \in Values : Occurs(b, left .. k - 1, v)
                             = Occurs(a, left .. i - 1, v) + Occurs(a, mid + 1 .. j - 1, v)
  BY DEF MergeOK
<1>2. /\ left \in Int /\ mid \in Int /\ right \in Int
      /\ i \in Int /\ j \in Int /\ k \in Int
  BY DEF JobType
<1> HIDE DEF left, mid, right, i, j, k
<1>3. left <= mid /\ mid <= right
  <2>1. mid \in left .. n - 1 /\ right \in mid .. n - 1
    BY <1>1, EndBounds
  <2> QED BY <1>2, <2>1
<1>4. i - 1 = mid /\ j - 1 = right /\ k - 1 = right
  <2>1. i <= mid + 1 /\ j <= right + 1 /\ k = i + j - mid - 1 /\ k >= right + 1
    BY <1>1, <1>2
  <2>2. i = mid + 1 /\ j = right + 1
    BY <1>2, <2>1
  <2> QED BY <1>2, <2>1, <2>2
<1>5. ASSUME NEW v \in Values
      PROVE  Occurs(b, left .. right, v) = Occurs(a, left .. right, v)
  <2>1. Occurs(a, left .. right, v)
          = Occurs(a, left .. mid, v) + Occurs(a, mid + 1 .. right, v)
    BY <1>2, <1>3, OccursSplit
  <2> QED BY <1>1, <1>4, <2>1
<1>6. MergedTo(b, a, left, right)
  BY <1>1, <1>4, <1>5 DEF MergedTo
<1> QED BY <1>6 DEF left, right

(* A merge and what is merged do not depend on other parts of the array.   *)
LEMMA MergedFrame ==
    ASSUME NEW a, NEW b, NEW c, NEW left \in Int, NEW right \in Int,
           \A x \in left .. right : c[x] = b[x], MergedTo(b, a, left, right)
    PROVE  MergedTo(c, a, left, right)
<1>1. \A x \in left .. right : c[x] \in Values
  BY DEF MergedTo
<1>2. Ascending(c, left, right)
  <2>1. \A x \in left + 1 .. right : x \in left .. right /\ x - 1 \in left .. right
    OBVIOUS
  <2> QED BY <2>1 DEF MergedTo, Ascending
<1>3. ASSUME NEW v \in Values PROVE Occurs(c, left .. right, v) = Occurs(a, left .. right, v)
  <2>1. Occurs(c, left .. right, v) = Occurs(b, left .. right, v)
    BY OccursSame
  <2> QED BY <2>1 DEF MergedTo
<1> QED BY <1>1, <1>2, <1>3 DEF MergedTo

(* The same for a merge in progress.                                       *)
LEMMA MergeFrame ==
    ASSUME NEW n \in Nat, NEW w \in Nat \ {0}, NEW a, NEW b, NEW c, NEW g \in JobType,
           MergeOK(g, w, n, a, b), g.k <= g.right,
           \A x \in g.left .. g.right : c[x] = b[x]
    PROVE  MergeOK(g, w, n, a, c)
<1> DEFINE left == g.left
           right == g.right
           k == g.k
<1>1. left \in Int /\ right \in Int /\ k \in Int /\ left <= k /\ k <= right
  BY MergeBounds
<1>2. \A x \in left .. k - 1 : b[x] \in Values
  BY DEF MergeOK
<1>3. Ascending(b, left, k - 1)
  BY DEF MergeOK
<1>4. \A x \in left .. right : c[x] = b[x]
  OBVIOUS
<1> HIDE DEF left, right, k
<1>5. /\ \A x \in left .. k - 1 : x \in left .. right
      /\ \A x \in left + 1 .. k - 1 : x \in left .. right /\ x - 1 \in left .. right
      /\ k > left => k - 1 \in left .. right
  BY <1>1
<1>6. \A x \in left .. k - 1 : c[x] \in Values
  BY <1>2, <1>4, <1>5
<1>7. Ascending(c, left, k - 1)
  BY <1>3, <1>4, <1>5 DEF Ascending
<1>8. ASSUME NEW v PROVE Occurs(c, left .. k - 1, v) = Occurs(b, left .. k - 1, v)
  <2> DEFINE part == left .. k - 1
  <2>1. \A x \in part : c[x] = b[x]
    BY <1>4, <1>5
  <2> HIDE DEF part
  <2>2. Occurs(c, part, v) = Occurs(b, part, v)
    BY <2>1, OccursSame
  <2> QED BY <2>2 DEF part
<1>9. k > left => c[k - 1] = b[k - 1]
  BY <1>4, <1>5
<1>10. /\ \A x \in g.left .. g.k - 1 : c[x] \in Values
       /\ Ascending(c, g.left, g.k - 1)
       /\ g.k > g.left => c[g.k - 1] = b[g.k - 1]
       /\ \A v : Occurs(c, g.left .. g.k - 1, v) = Occurs(b, g.left .. g.k - 1, v)
  BY <1>6, <1>7, <1>8, <1>9 DEF left, k
<1> QED BY <1>10 DEF MergeOK


-----------------------------------------------------------------------------
(* A pass as a whole.                                                      *)

(* Every position is in the part of one iteration, behind its left end     *)
(* unless it is that.                                                      *)
LEMMA PositionInPart ==
    ASSUME NEW n \in Nat, NEW w \in Nat \ {0}, NEW x \in 0 .. n - 1
    PROVE  \E left \in 0 .. n - 1 :
               /\ left % (2 * w) = 0 /\ x \in left .. End(left, 2 * w, n)
               /\ x % (2 * w) # 0 => x \in left + 1 .. End(left, 2 * w, n)
<1> DEFINE d == 2 * w
           r == x % d
           left == x - r
<1>1. d \in Nat \ {0}
  OBVIOUS
<1>2. r \in 0 .. d - 1 /\ r <= x /\ left % d = 0
  <2>1. x \in Nat
    OBVIOUS
  <2> HIDE DEF d
  <2>2. x % d \in 0 .. d - 1 /\ x % d <= x /\ (x - (x % d)) % d = 0
    BY <1>1, <2>1, Multiples
  <2> QED BY <2>2
<1> HIDE DEF d, r
<1>3. left \in 0 .. n - 1 /\ x <= left + d - 1 /\ x <= n - 1 /\ left <= x
      /\ (r # 0 => left + 1 <= x)
  BY <1>1, <1>2
<1>4. x <= End(left, d, n) /\ End(left, d, n) \in Int
  <2> HIDE DEF left
  <2> QED BY <1>1, <1>3 DEF End, Smaller
<1> HIDE DEF left
<1>5. x \in left .. End(left, d, n) /\ (r # 0 => x \in left + 1 .. End(left, d, n))
  BY <1>3, <1>4
<1> QED BY <1>2, <1>3, <1>5 DEF d, r

(* When every pair of runs is merged, there are sorted runs of twice the   *)
(* length, of the same elements.                                           *)
LEMMA PassMakesRuns ==
    ASSUME NEW n \in Nat, NEW w \in Nat \ {0}, NEW a, NEW b, NEW c, Runs(w, n, a, c),
           \A left \in 0 .. n - 1 :
               left % (2 * w) = 0 => MergedTo(b, a, left, End(left, 2 * w, n))
    PROVE  Runs(2 * w, n, b, c) /\ \A x \in 0 .. n - 1 : b[x] \in Values
<1>1. ASSUME NEW x \in 0 .. n - 1
      PROVE  b[x] \in Values /\ (x % (2 * w) # 0 => b[x - 1] <= b[x])
  <2>1. PICK left \in 0 .. n - 1 :
               /\ left % (2 * w) = 0 /\ x \in left .. End(left, 2 * w, n)
               /\ x % (2 * w) # 0 => x \in left + 1 .. End(left, 2 * w, n)
    BY PositionInPart
  <2>2. MergedTo(b, a, left, End(left, 2 * w, n))
    BY <2>1
  <2> QED BY <2>1, <2>2 DEF MergedTo, Ascending
<1>2. ASSUME NEW left \in 0 .. n - 1, NEW v \in Values, left % (2 * w) = 0
      PROVE  Occurs(b, left .. End(left, 2 * w, n), v) = Occurs(c, left .. End(left, 2 * w, n), v)
  <2> DEFINE mid == End(left, w, n)
             right == End(left, 2 * w, n)
  <2>1. /\ mid \in left .. n - 1 /\ right \in mid .. n - 1
        /\ mid < right => mid = left + w - 1
    BY EndBounds
  <2>2. Occurs(b, left .. right, v) = Occurs(a, left .. right, v)
    BY <1>2 DEF MergedTo
  <2>3. left \in Nat /\ left % w = 0 /\ (left + w) % w = 0
    <3>1. left \in Nat
      OBVIOUS
    <3> HIDE DEF mid, right
    <3> QED BY <1>2, <3>1, EvenMultiples
  <2>4. Occurs(a, left .. mid, v) = Occurs(c, left .. mid, v)
    BY <2>3 DEF Runs
  <2>5. CASE mid = right
    BY <2>2, <2>4, <2>5
  <2>6. CASE mid < right
    <3>1. mid + 1 = left + w /\ left + w \in 0 .. n - 1
      BY <2>1, <2>6
    <3>2. End(left + w, w, n) = right
      BY DEF End, Smaller
    <3>3. Occurs(a, left + w .. right, v) = Occurs(c, left + w .. right, v)
      BY <2>3, <3>1, <3>2 DEF Runs
    <3>4. /\ left \in Int /\ mid \in Int /\ right \in Int /\ left <= mid + 1 /\ mid <= right
      BY <2>1
    <3> HIDE DEF mid, right
    <3>5. /\ Occurs(a, left .. right, v) = Occurs(a, left .. mid, v) + Occurs(a, mid + 1 .. right, v)
          /\ Occurs(c, left .. right, v) = Occurs(c, left .. mid, v) + Occurs(c, mid + 1 .. right, v)
      BY <3>4, OccursSplit
    <3>6. Occurs(a, left .. right, v) = Occurs(c, left .. right, v)
      BY <2>4, <3>1, <3>3, <3>5
    <3>7. Occurs(b, left .. right, v) = Occurs(c, left .. right, v)
      BY <2>2, <3>6
    <3> QED BY <3>7 DEF mid, right
  <2> QED BY <2>1, <2>5, <2>6
<1> QED BY <1>1, <1>2 DEF Runs

-----------------------------------------------------------------------------
(* The steps.                                                              *)

(* The positions of the array.                                             *)
LEMMA IndexInterval ==
    ASSUME TypeOK
    PROVE  Index = 0 .. N - 1
BY DEF TypeOK, Index

(* Whatever the schedule, each iteration is one thread's.                  *)
LEMMA SharedOut ==
    ASSUME NEW S, NEW share, share \in Schedules(S) \/ share = Alone(S)
    PROVE  /\ share \in [Threads -> SUBSET S]
           /\ \A t, u \in Threads : t # u => share[t] \cap share[u] = {}
           /\ \A x \in S : \E t \in Threads : x \in share[t]
<1>1. CASE share \in Schedules(S)
  BY <1>1 DEF Schedules
<1>2. CASE share = Alone(S)
  <2>1. /\ share \in [Threads -> SUBSET S]
        /\ \A t, u \in Threads : t # u => share[t] \cap share[u] = {}
    BY <1>2 DEF Alone
  <2>2. Master \in Threads /\ share[Master] = S
    BY <1>2, SortAssumption DEF Alone
  <2> QED BY <2>1, <2>2
<1> QED BY <1>1, <1>2

(* A pass begins with all its iterations shared out.                       *)
LEMMA StartPassStep ==
    ASSUME IInv, StartPass
    PROVE  IInv'
<1>1. /\ pc = "next" /\ pc' = "pass"
      /\ todo' \in Schedules(Lefts(width)) \/ todo' = Alone(Lefts(width))
      /\ UNCHANGED <<buffer, src, dst, width, job, input>>
  BY DEF StartPass
<1>2. /\ TypeOK /\ Runs(width, N, buffer[src], input)
      /\ \A t \in Threads : ~Busy(t)
  BY <1>1 DEF IInv, Shares
<1>3. N' = N /\ \A t : Busy(t)' = Busy(t)
  BY <1>1 DEF N, Index, Busy, Idle
<1>4. Lefts(width) = {left \in 0 .. N - 1 : left % (2 * width) = 0}
  BY <1>2, IndexInterval DEF Lefts
<1>5. /\ todo' \in [Threads -> SUBSET Lefts(width)]
      /\ \A t, u \in Threads : t # u => todo'[t] \cap todo'[u] = {}
      /\ \A x \in Lefts(width) : \E t \in Threads : x \in todo'[t]
  BY <1>1, SharedOut
<1>6. TypeOK'
  <2>1. todo' \in [Threads -> SUBSET (0 .. N - 1)]
    BY <1>4, <1>5
  <2> QED BY <1>1, <1>2, <1>3, <2>1 DEF TypeOK
<1>7. Runs(width, N, buffer[src], input)'
  BY <1>1, <1>2, <1>3
<1>8. Shares'
  <2>1. \A t \in Threads : \A left \in todo'[t] : left % (2 * width) = 0
    BY <1>4, <1>5
  <2> QED BY <1>1, <1>2, <1>3, <1>5, <2>1 DEF Shares
<1>9. MergesOK'
  BY <1>2, <1>3 DEF MergesOK
<1>10. PassOK'
  BY <1>1, <1>3, <1>4, <1>5 DEF PassOK, Behind
<1>11. CopyOK'
  BY <1>1 DEF CopyOK
<1> QED BY <1>6, <1>7, <1>8, <1>9, <1>10, <1>11 DEF IInv


(* The iteration a thread takes up is no other thread's.                   *)
LEMMA TakeIterationStep ==
    ASSUME NEW t \in Threads, IInv, TakeIteration(t)
    PROVE  IInv'
<1>1. PICK left \in todo[t] :
         /\ job' = [job EXCEPT ![t] =
                      [left |-> left, mid |-> Smaller(left + width - 1, N - 1),
                       right |-> Smaller(left + 2 * width - 1, N - 1), i |-> left,
                       j |-> Smaller(left + width - 1, N - 1) + 1, k |-> left]]
         /\ todo' = [todo EXCEPT ![t] = @ \ {left}]
  BY DEF TakeIteration
<1>2. /\ pc = "pass" /\ ~Busy(t) /\ UNCHANGED <<buffer, src, dst, width, pc, input>>
  BY DEF TakeIteration
<1>3. TypeOK /\ Shares /\ MergesOK /\ PassOK /\ Runs(width, N, buffer[src], input)
  BY DEF IInv
<1>4. /\ todo \in [Threads -> SUBSET (0 .. N - 1)] /\ job \in [Threads -> JobType]
      /\ width \in Nat \ {0} /\ N \in Nat
  BY <1>3 DEF TypeOK
<1>5. left \in 0 .. N - 1 /\ left % (2 * width) = 0
  BY <1>2, <1>3, <1>4 DEF Shares
<1> DEFINE mid == End(left, width, N)
           right == End(left, 2 * width, N)
           g == [left |-> left, mid |-> mid, right |-> right, i |-> left, j |-> mid + 1, k |-> left]
<1>6. mid \in left .. N - 1 /\ right \in mid .. N - 1
  BY <1>4, <1>5, EndBounds
<1>7. g \in JobType /\ g # Idle /\ g.left = left
  <2> HIDE DEF mid, right
  <2>1. g \in JobType
    BY <1>5, <1>6 DEF JobType
  <2>2. g.mid = mid /\ Idle.mid = -1 /\ mid # -1
    BY <1>5, <1>6 DEF Idle
  <2> QED BY <2>1, <2>2
<1>8. MergeOK(g, width, N, buffer[src], buffer[dst]) /\ g.k <= g.right
  BY <1>4, <1>5, <1>7, MergeBegins
<1>9. job' = [job EXCEPT ![t] = g]
  BY <1>1 DEF End
<1> HIDE DEF g
<1>10. /\ N' = N /\ job' \in [Threads -> JobType] /\ job'[t] = g
       /\ \A u \in Threads : u # t => job'[u] = job[u]
  BY <1>2, <1>4, <1>7, <1>9 DEF N, Index
<1>11. /\ todo' \in [Threads -> SUBSET (0 .. N - 1)]
       /\ todo'[t] = todo[t] \ {left} /\ \A u \in Threads : u # t => todo'[u] = todo[u]
  BY <1>1, <1>4
<1>12. Busy(t)' /\ \A u \in Threads : u # t => (Busy(u)' <=> Busy(u))
  BY <1>7, <1>10 DEF Busy, Idle
<1>13. TypeOK'
  BY <1>2, <1>3, <1>10, <1>11 DEF TypeOK
<1>14. Runs(width, N, buffer[src], input)'
  BY <1>2, <1>3, <1>10
<1>15. Shares'
  <2>1. \A u, x \in Threads : u # x => todo'[u] \cap todo'[x] = {}
    BY <1>3, <1>11 DEF Shares
  <2>2. \A u \in Threads : left \notin todo'[u]
    BY <1>3, <1>11 DEF Shares
  <2>3. \A u, x \in Threads : Busy(u)' => job'[u].left \notin todo'[x]
    BY <1>3, <1>7, <1>10, <1>11, <1>12, <2>2 DEF Shares
  <2>4. \A u \in Threads : u # t /\ Busy(u) => job[u].left # left
    BY <1>3 DEF Shares
  <2>5. \A u, x \in Threads : u # x /\ Busy(u)' /\ Busy(x)' => job'[u].left # job'[x].left
    BY <1>3, <1>7, <1>10, <1>12, <2>4 DEF Shares
  <2>6. \A u \in Threads : \A x \in todo'[u] : x % (2 * width) = 0
    BY <1>2, <1>3, <1>11 DEF Shares
  <2> QED BY <1>2, <2>1, <2>3, <2>5, <2>6 DEF Shares
<1>16. MergesOK'
  <2> SUFFICES ASSUME NEW u \in Threads, Busy(u)'
               PROVE  /\ MergeOK(job'[u], width, N, buffer[src], buffer[dst])
                      /\ job'[u].k <= job'[u].right
    BY <1>2, <1>10 DEF MergesOK
  <2> QED BY <1>3, <1>8, <1>10, <1>12 DEF MergesOK
<1>17. PassOK'
  <2>1. ASSUME NEW x, Behind(x)' PROVE Behind(x)
    <3>1. x # left
      BY <1>7, <1>10, <1>12, <2>1 DEF Behind
    <3>2. ASSUME NEW u \in Threads PROVE x \notin todo[u] /\ (Busy(u) => job[u].left # x)
      BY <1>2, <1>10, <1>11, <1>12, <2>1, <3>1 DEF Behind
    <3> QED BY <3>2 DEF Behind
  <2> QED BY <1>2, <1>3, <1>10, <2>1 DEF PassOK
<1>18. CopyOK'
  BY <1>2 DEF CopyOK
<1> QED BY <1>13, <1>14, <1>15, <1>16, <1>17, <1>18 DEF IInv

(* An element is moved from one array to the other, within the part of the *)
(* thread's iteration.                                                     *)
LEMMA ElementMoved ==
    ASSUME NEW t \in Threads, IInv, MergeElement(t)
    PROVE  \E v \in Values, h \in JobType :
               /\ buffer' = [buffer EXCEPT ![dst][job[t].k] = v]
               /\ Assigned(buffer[dst]', buffer[dst], job[t].k, v)
               /\ buffer[src]' = buffer[src]
               /\ MergeOK(h, width, N, buffer[src], buffer[dst]')
               /\ h.left = job[t].left /\ h.right = job[t].right
               /\ h.k = job[t].k + 1
               /\ job' = [job EXCEPT ![t] = IF h.k > h.right THEN Idle ELSE h]
<1> DEFINE g == job[t]
           a == buffer[src]
           b == buffer[dst]
<1>1. /\ Busy(t) /\ UNCHANGED <<src, dst, width, pc, todo, input>>
      /\ \/ /\ TakesLeft(g) /\ buffer' = [buffer EXCEPT ![dst][g.k] = a[g.i]]
            /\ Advance(t, [g EXCEPT !.i = @ + 1, !.k = @ + 1])
         \/ /\ ~TakesLeft(g) /\ buffer' = [buffer EXCEPT ![dst][g.k] = a[g.j]]
            /\ Advance(t, [g EXCEPT !.j = @ + 1, !.k = @ + 1])
  BY DEF MergeElement
<1>2. /\ N \in Nat /\ width \in Nat \ {0} /\ src # dst /\ src \in Buffers /\ dst \in Buffers
      /\ job \in [Threads -> JobType]
      /\ buffer \in [Buffers -> [0 .. N - 1 -> Values \cup Junk]]
      /\ a \in [0 .. N - 1 -> Values]
  BY DEF IInv, TypeOK
<1>3. DOMAIN b = 0 .. N - 1 /\ g \in JobType
  BY <1>2
<1>4. Runs(width, N, a, input) /\ MergeOK(g, width, N, a, b) /\ g.k <= g.right
  BY <1>1 DEF IInv, MergesOK
<1>5. /\ g.left \in Nat /\ g.left <= g.mid /\ g.mid <= g.right /\ g.right <= N - 1
      /\ g.left <= g.i /\ g.i <= g.mid + 1 /\ g.mid + 1 <= g.j /\ g.j <= g.right + 1
      /\ g.left <= g.k /\ g.k = g.i + g.j - g.mid - 1
      /\ g.left \in Int /\ g.mid \in Int /\ g.right \in Int
      /\ g.i \in Int /\ g.j \in Int /\ g.k \in Int
  <2> HIDE DEF a, b, g
  <2> QED BY <1>2, <1>3, <1>4, MergeBounds
<1>6. ASSUME NEW v, buffer' = [buffer EXCEPT ![dst][g.k] = v]
      PROVE  Assigned(buffer'[dst], b, g.k, v) /\ buffer'[src] = a
  BY <1>2, <1>6 DEF Assigned
<1> HIDE DEF g, a, b
<1>7. CASE TakesLeft(g)
  <2> DEFINE h == [g EXCEPT !.i = @ + 1, !.k = @ + 1]
  <2>1. /\ buffer' = [buffer EXCEPT ![dst][g.k] = a[g.i]]
        /\ job' = [job EXCEPT ![t] = IF h.k > h.right THEN Idle ELSE h]
    BY <1>1, <1>7 DEF Advance
  <2>2. TookLeft(h, g) /\ h \in JobType
    BY <1>3, JobAdvances
  <2>3. g.i <= g.mid /\ (g.j <= g.right => a[g.i] <= a[g.j])
    BY <1>7 DEF TakesLeft, a
  <2>4. Assigned(buffer'[dst], b, g.k, a[g.i]) /\ buffer'[src] = a
    BY <1>6, <2>1
  <2> HIDE DEF h
  <2>5. a[g.i] \in Values
    <3>1. g.i \in 0 .. N - 1
      BY <1>2, <1>5, <2>3
    <3> QED BY <1>2, <3>1
  <2>6. MergeOK(h, width, N, a, buffer'[dst])
    BY <1>2, <1>3, <1>4, <2>2, <2>3, <2>4, TakesFromLeft
  <2>7. h.left = g.left /\ h.right = g.right /\ h.k = g.k + 1
    BY <2>2 DEF TookLeft
  <2> QED BY <1>1, <2>1, <2>2, <2>4, <2>5, <2>6, <2>7 DEF g, a, b
<1>8. CASE ~TakesLeft(g)
  <2> DEFINE h == [g EXCEPT !.j = @ + 1, !.k = @ + 1]
  <2>1. /\ buffer' = [buffer EXCEPT ![dst][g.k] = a[g.j]]
        /\ job' = [job EXCEPT ![t] = IF h.k > h.right THEN Idle ELSE h]
    BY <1>1, <1>8 DEF Advance
  <2>2. TookRight(h, g) /\ h \in JobType
    BY <1>3, JobAdvances
  <2>3. g.j <= g.right
    <3>1. g.i <= g.mid => g.j <= g.right
      BY <1>8 DEF TakesLeft
    <3>2. ~(g.i <= g.mid) => g.i = g.mid + 1
      BY <1>5
    <3>3. g.i = g.mid + 1 => g.j = g.k
      BY <1>5
    <3> QED BY <1>4, <3>1, <3>2, <3>3
  <2>4. Assigned(buffer'[dst], b, g.k, a[g.j]) /\ buffer'[src] = a
    BY <1>6, <2>1
  <2>5. a[g.j] \in Values
    <3>1. g.j \in 0 .. N - 1
      BY <1>2, <1>5, <2>3
    <3> QED BY <1>2, <3>1
  <2>6. g.i <= g.mid => a[g.j] <= a[g.i]
    <3>1. ASSUME g.i <= g.mid PROVE a[g.j] <= a[g.i]
      <4>1. ~(a[g.i] <= a[g.j])
        BY <1>8, <3>1 DEF TakesLeft, a
      <4>2. g.i \in 0 .. N - 1
        BY <1>2, <1>5, <3>1
      <4>3. a[g.i] \in Int /\ a[g.j] \in Int
        BY <1>2, <2>5, <4>2, SortAssumption
      <4> QED BY <4>1, <4>3
    <3> QED BY <3>1
  <2> HIDE DEF h
  <2>7. MergeOK(h, width, N, a, buffer'[dst])
    BY <1>2, <1>3, <1>4, <2>2, <2>3, <2>4, <2>6, TakesFromRight
  <2>8. h.left = g.left /\ h.right = g.right /\ h.k = g.k + 1
    BY <2>2 DEF TookRight
  <2> QED BY <1>1, <2>1, <2>2, <2>4, <2>5, <2>7, <2>8 DEF g, a, b
<1> QED BY <1>7, <1>8


(* The part of an iteration is in the array.                               *)
LEMMA PartInArray ==
    ASSUME NEW n \in Nat, NEW w \in Nat \ {0}, NEW left \in 0 .. n - 1
    PROVE  /\ left .. End(left, 2 * w, n) \subseteq 0 .. n - 1
           /\ left \in Int /\ End(left, 2 * w, n) \in Int
<1> DEFINE right == End(left, 2 * w, n)
<1>1. right \in left .. n - 1
  <2>1. right \in End(left, w, n) .. n - 1 /\ End(left, w, n) \in left .. n - 1
    BY EndBounds
  <2> HIDE DEF right
  <2> QED BY <2>1
<1> HIDE DEF right
<1>2. left .. right \subseteq 0 .. n - 1 /\ left \in Int /\ right \in Int
  BY <1>1
<1> QED BY <1>2 DEF right

(* The parts of two iterations have no position in common.                 *)
LEMMA PartsDisjoint ==
    ASSUME NEW n \in Nat, NEW w \in Nat \ {0}, NEW x \in 0 .. n - 1, NEW y \in 0 .. n - 1,
           x % (2 * w) = 0, y % (2 * w) = 0, x # y
    PROVE  (x .. End(x, 2 * w, n)) \cap (y .. End(y, 2 * w, n)) = {}
<1> DEFINE d == 2 * w
<1>1. d \in Nat \ {0} /\ x \in Nat /\ y \in Nat
  OBVIOUS
<1>2. End(x, d, n) <= x + d - 1 /\ End(y, d, n) <= y + d - 1
      /\ End(x, d, n) \in Int /\ End(y, d, n) \in Int
  <2> HIDE DEF d
  <2> QED BY <1>1 DEF End, Smaller
<1>3. x % d = 0 /\ y % d = 0
  OBVIOUS
<1> HIDE DEF d
<1>4. x + d <= y \/ y + d <= x
  <2>1. CASE x < y
    BY <1>1, <1>3, <2>1, MultiplesApart
  <2>2. CASE y < x
    BY <1>1, <1>3, <2>2, MultiplesApart
  <2> QED BY <1>1, <2>1, <2>2
<1>5. (x .. End(x, d, n)) \cap (y .. End(y, d, n)) = {}
  BY <1>1, <1>2, <1>4
<1> QED BY <1>5 DEF d

(* Moving an element keeps the invariant: other merges and the iterations  *)
(* behind do not have its place, and the last one finishes a merge.        *)
LEMMA MergeElementStep ==
    ASSUME NEW t \in Threads, IInv, MergeElement(t)
    PROVE  IInv'
<1> DEFINE g == job[t]
           a == buffer[src]
           b == buffer[dst]
           c == buffer'[dst]
<1>1. /\ pc = "pass" /\ Busy(t) /\ UNCHANGED <<src, dst, width, pc, todo, input>>
  BY DEF MergeElement
<1>2. PICK v \in Values, h \in JobType :
               /\ buffer' = [buffer EXCEPT ![dst][g.k] = v]
               /\ Assigned(c, b, g.k, v)
               /\ buffer'[src] = a
               /\ MergeOK(h, width, N, a, c)
               /\ h.left = g.left /\ h.right = g.right
               /\ h.k = g.k + 1
               /\ job' = [job EXCEPT ![t] = IF h.k > h.right THEN Idle ELSE h]
  BY <1>1, ElementMoved
<1>3. /\ TypeOK /\ Shares /\ MergesOK /\ PassOK /\ CopyOK /\ Runs(width, N, a, input)
  BY DEF IInv
<1>4. /\ N \in Nat /\ width \in Nat \ {0} /\ src # dst /\ src \in Buffers /\ dst \in Buffers
      /\ job \in [Threads -> JobType]
      /\ buffer \in [Buffers -> [0 .. N - 1 -> Values \cup Junk]]
  BY <1>3 DEF TypeOK
<1>5. MergeOK(g, width, N, a, b) /\ g.k <= g.right /\ g \in JobType
  BY <1>1, <1>3, <1>4 DEF MergesOK
<1>6. /\ g.left \in Nat /\ g.left <= g.k /\ g.k <= g.right /\ g.right <= N - 1
      /\ g.left \in Int /\ g.right \in Int /\ g.k \in Int
  <2> HIDE DEF g, a, b
  <2> QED BY <1>4, <1>5, MergeBounds
<1>7. g.left \in 0 .. N - 1 /\ g.left % (2 * width) = 0 /\ g.right = End(g.left, 2 * width, N)
  BY <1>5 DEF MergeOK
<1>8. N' = N
  BY <1>1 DEF N, Index
<1>9. job' \in [Threads -> JobType] /\ Idle \in JobType
  BY <1>2, <1>4 DEF Idle, JobType
<1>10. /\ job'[t] = IF h.k > h.right THEN Idle ELSE h
       /\ \A u \in Threads : u # t => job'[u] = job[u]
  BY <1>2, <1>4
<1>11. \A x \in 0 .. N - 1 : x # g.k => c[x] = b[x]
  BY <1>2, <1>4 DEF Assigned
<1> HIDE DEF g, a, b, c
<1>12. /\ Busy(t)' => job'[t] = h /\ ~(h.k > h.right)
       /\ \A u \in Threads : u # t => (Busy(u)' <=> Busy(u))
  BY <1>10 DEF Busy, Idle
<1>13. TypeOK'
  <2>1. buffer' \in [Buffers -> [0 .. N - 1 -> Values \cup Junk]]
    BY <1>2, <1>4
  <2>2. buffer'[src] \in [0 .. N - 1 -> Values]
    BY <1>2, <1>3 DEF TypeOK, a
  <2> QED BY <1>1, <1>3, <1>8, <1>9, <2>1, <2>2 DEF TypeOK
<1>14. Runs(width, N, buffer[src], input)'
  BY <1>1, <1>2, <1>3, <1>8
<1>15. Shares'
  <2>1. \A u \in Threads : Busy(u)' => Busy(u) /\ job'[u].left = job[u].left
    BY <1>1, <1>2, <1>10, <1>12 DEF g
  <2> QED BY <1>1, <1>3, <2>1 DEF Shares
<1>16. MergesOK'
  <2> SUFFICES ASSUME NEW u \in Threads, Busy(u)'
               PROVE  MergeOK(job'[u], width, N, a, c) /\ job'[u].k <= job'[u].right
    BY <1>1, <1>2, <1>8 DEF MergesOK, c
  <2>1. CASE u = t
    <3>1. h.k \in Int /\ h.right \in Int
      BY DEF JobType
    <3> QED BY <1>2, <1>12, <2>1, <3>1
  <2>2. CASE u # t
    <3> DEFINE f == job[u]
    <3>1. Busy(u) /\ job'[u] = f /\ f \in JobType
      BY <1>4, <1>10, <1>12, <2>2
    <3>2. MergeOK(f, width, N, a, b) /\ f.k <= f.right
      BY <1>3, <3>1 DEF MergesOK, a, b
    <3>3. f.left # g.left
      BY <1>1, <1>3, <2>2, <3>1 DEF Shares, g
    <3> HIDE DEF f
    <3>4. f.left \in 0 .. N - 1 /\ f.left % (2 * width) = 0 /\ f.right = End(f.left, 2 * width, N)
      BY <3>2 DEF MergeOK
    <3>5. (f.left .. f.right) \cap (g.left .. g.right) = {}
      BY <1>4, <1>7, <3>3, <3>4, PartsDisjoint
    <3>6. g.k \in g.left .. g.right
      BY <1>6
    <3>7. f.left .. f.right \subseteq 0 .. N - 1
      <4>1. f.left .. End(f.left, 2 * width, N) \subseteq 0 .. N - 1
        BY <1>4, <3>4, PartInArray
      <4> QED BY <3>4, <4>1
    <3>8. \A x \in f.left .. f.right : c[x] = b[x]
      BY <1>11, <3>5, <3>6, <3>7
    <3>9. MergeOK(f, width, N, a, c)
      BY <1>4, <3>1, <3>2, <3>8, MergeFrame
    <3> QED BY <3>1, <3>2, <3>9
  <2> QED BY <2>1, <2>2
<1>17. PassOK'
  <2> SUFFICES ASSUME NEW left \in 0 .. N - 1, left % (2 * width) = 0, Behind(left)'
               PROVE  MergedTo(c, a, left, End(left, 2 * width, N))
    BY <1>1, <1>2, <1>8 DEF PassOK, c
  <2>1. CASE left = g.left
    <3>1. ~Busy(t)'
      BY <1>2, <1>12, <2>1 DEF Behind
    <3>2. h.k > h.right
      <4>1. job'[t] = Idle
        BY <3>1 DEF Busy, Idle
      <4>2. h # Idle
        <5>1. h.left = g.left /\ h.right = g.right /\ g.left <= g.right
          BY <1>2, <1>6
        <5>2. Idle.left = 0 /\ Idle.right = -1
          BY DEF Idle
        <5> QED BY <1>6, <5>1, <5>2
      <4> QED BY <1>10, <4>1, <4>2
    <3>3. MergedTo(c, a, h.left, h.right)
      BY <1>2, <1>4, <3>2, MergeEnds
    <3> QED BY <1>2, <1>7, <2>1, <3>3
  <2>2. CASE left # g.left
    <3>1. Behind(left)
      <4>1. ASSUME NEW u \in Threads PROVE left \notin todo[u] /\ (Busy(u) => job[u].left # left)
        BY <1>1, <1>10, <1>12, <2>2 DEF Behind, g
      <4> QED BY <4>1 DEF Behind
    <3> DEFINE right == End(left, 2 * width, N)
    <3>2. MergedTo(b, a, left, right)
      BY <1>1, <1>3, <3>1 DEF PassOK, a, b
    <3>3. (left .. right) \cap (g.left .. g.right) = {}
      BY <1>4, <1>7, <2>2, PartsDisjoint
    <3>4. left .. right \subseteq 0 .. N - 1 /\ left \in Int /\ right \in Int
      BY <1>4, PartInArray
    <3> HIDE DEF right
    <3>6. g.k \in g.left .. g.right
      BY <1>6
    <3>7. \A x \in left .. right : c[x] = b[x]
      BY <1>11, <3>3, <3>4, <3>6
    <3>8. MergedTo(c, a, left, right)
      BY <3>2, <3>4, <3>7, MergedFrame
    <3> QED BY <3>8 DEF right
  <2> QED BY <2>1, <2>2
<1>18. CopyOK'
  BY <1>1 DEF CopyOK
<1> QED BY <1>13, <1>14, <1>15, <1>16, <1>17, <1>18 DEF IInv

(* The barrier at the end of a pass: its iterations are all behind, and    *)
(* the destination is the source of the next.                              *)
LEMMA EndPassStep ==
    ASSUME IInv, EndPass
    PROVE  IInv'
<1>1. /\ pc = "pass" /\ AllDone /\ src' = dst /\ dst' = src /\ width' = width * 2
      /\ pc' = "next" /\ UNCHANGED <<buffer, todo, job, input>>
  BY DEF EndPass
<1>2. /\ TypeOK /\ Shares /\ PassOK /\ Runs(width, N, buffer[src], input)
  BY DEF IInv
<1>3. /\ N' = N /\ N \in Nat /\ width \in Nat \ {0} /\ src \in Buffers /\ dst \in Buffers
      /\ buffer \in [Buffers -> [0 .. N - 1 -> Values \cup Junk]]
  BY <1>1, <1>2 DEF TypeOK, N, Index
<1>4. width' = 2 * width /\ 2 * width \in Nat \ {0}
  BY <1>1, <1>3
<1>5. \A u \in Threads : todo[u] = {} /\ ~Busy(u) /\ ~Busy(u)'
  BY <1>1 DEF AllDone, Busy, Idle
<1>6. \A left \in 0 .. N - 1 :
          left % (2 * width) = 0 => MergedTo(buffer[dst], buffer[src], left, End(left, 2 * width, N))
  BY <1>1, <1>2, <1>5 DEF PassOK, Behind
<1>7. /\ Runs(2 * width, N, buffer[dst], input)
      /\ \A x \in 0 .. N - 1 : buffer[dst][x] \in Values
  BY <1>2, <1>3, <1>6, PassMakesRuns
<1>8. TypeOK'
  <2>1. buffer[dst] \in [0 .. N - 1 -> Values]
    BY <1>3, <1>7
  <2> QED BY <1>1, <1>2, <1>3, <1>4, <2>1 DEF TypeOK
<1>9. Runs(width, N, buffer[src], input)'
  BY <1>1, <1>3, <1>4, <1>7
<1>10. Shares'
  BY <1>1, <1>5 DEF Shares
<1>11. MergesOK'
  BY <1>5 DEF MergesOK
<1>12. PassOK' /\ CopyOK'
  BY <1>1 DEF PassOK, CopyOK
<1> QED BY <1>8, <1>9, <1>10, <1>11, <1>12 DEF IInv

(* Copying back begins with all positions shared out.                      *)
LEMMA StartCopyStep ==
    ASSUME IInv, StartCopy
    PROVE  IInv'
<1>1. /\ pc = "next" /\ width >= N /\ src # "arr" /\ pc' = "last"
      /\ todo' \in Schedules(Index) /\ UNCHANGED <<buffer, src, dst, width, job, input>>
  BY DEF StartCopy
<1>2. /\ TypeOK /\ Runs(width, N, buffer[src], input) /\ \A u \in Threads : ~Busy(u)
  BY <1>1 DEF IInv, Shares
<1>3. N' = N /\ (\A u : Busy(u)' <=> Busy(u)) /\ Index = 0 .. N - 1
  BY <1>1, <1>2, IndexInterval DEF N, Index, Busy, Idle
<1>4. /\ todo' \in [Threads -> SUBSET (0 .. N - 1)]
      /\ \A u, x \in Threads : u # x => todo'[u] \cap todo'[x] = {}
      /\ \A x \in 0 .. N - 1 : \E u \in Threads : x \in todo'[u]
  <2>1. /\ todo' \in [Threads -> SUBSET Index]
        /\ \A u, x \in Threads : u # x => todo'[u] \cap todo'[x] = {}
        /\ \A x \in Index : \E u \in Threads : x \in todo'[u]
    BY <1>1, SharedOut
  <2> QED BY <1>3, <2>1
<1>5. TypeOK'
  BY <1>1, <1>2, <1>3, <1>4 DEF TypeOK
<1>6. Runs(width, N, buffer[src], input)'
  BY <1>1, <1>2, <1>3
<1>7. Shares'
  BY <1>1, <1>2, <1>3, <1>4 DEF Shares
<1>8. MergesOK' /\ PassOK'
  BY <1>1, <1>2, <1>3 DEF MergesOK, PassOK
<1>9. CopyOK'
  <2>1. src = "tmp" /\ dst = "arr"
    BY <1>1, <1>2 DEF TypeOK, Buffers
  <2> QED BY <1>1, <1>3, <1>4, <2>1 DEF CopyOK, Behind
<1> QED BY <1>5, <1>6, <1>7, <1>8, <1>9 DEF IInv

(* Copying an element back leaves the source as it is.                     *)
LEMMA CopyElementStep ==
    ASSUME NEW t \in Threads, IInv, CopyElement(t)
    PROVE  IInv'
<1>1. PICK x \in todo[t] :
         /\ buffer' = [buffer EXCEPT !["arr"][x] = buffer[src][x]]
         /\ todo' = [todo EXCEPT ![t] = @ \ {x}]
  BY DEF CopyElement
<1>2. pc = "last" /\ UNCHANGED <<src, dst, width, pc, job, input>>
  BY DEF CopyElement
<1>3. /\ TypeOK /\ Runs(width, N, buffer[src], input) /\ Shares /\ CopyOK
      /\ \A u \in Threads : ~Busy(u)
  BY <1>2 DEF IInv, Shares
<1>4. N' = N /\ (\A u : Busy(u)' <=> Busy(u))
  BY <1>2 DEF N, Index, Busy, Idle
<1>5. /\ src = "tmp" /\ dst = "arr" /\ width >= N
      /\ todo \in [Threads -> SUBSET (0 .. N - 1)] /\ x \in 0 .. N - 1
      /\ buffer \in [Buffers -> [0 .. N - 1 -> Values \cup Junk]]
      /\ buffer[src] \in [0 .. N - 1 -> Values]
  BY <1>2, <1>3 DEF CopyOK, TypeOK
<1>6. /\ buffer'[src] = buffer[src] /\ buffer'["arr"][x] = buffer[src][x]
      /\ \A y \in 0 .. N - 1 : y # x => buffer'["arr"][y] = buffer["arr"][y]
      /\ buffer' \in [Buffers -> [0 .. N - 1 -> Values \cup Junk]]
  BY <1>1, <1>5 DEF Buffers
<1>7. /\ todo' \in [Threads -> SUBSET (0 .. N - 1)]
      /\ todo'[t] = todo[t] \ {x} /\ \A u \in Threads : u # t => todo'[u] = todo[u]
  BY <1>1, <1>5
<1>8. TypeOK'
  BY <1>2, <1>3, <1>4, <1>5, <1>6, <1>7 DEF TypeOK
<1>9. Runs(width, N, buffer[src], input)'
  BY <1>2, <1>3, <1>4, <1>6
<1>10. Shares'
  BY <1>2, <1>3, <1>4, <1>7 DEF Shares
<1>11. MergesOK' /\ PassOK'
  BY <1>2, <1>3, <1>4 DEF MergesOK, PassOK
<1>12. CopyOK'
  <2>1. ASSUME NEW y \in 0 .. N - 1, Behind(y)' PROVE buffer'["arr"][y] = buffer[src][y]
    <3>1. CASE y = x
      BY <1>6, <3>1
    <3>2. CASE y # x
      <4>1. \A u \in Threads : y \notin todo[u]
        BY <1>7, <2>1, <3>2 DEF Behind
      <4>2. Behind(y)
        BY <1>3, <4>1 DEF Behind
      <4> QED BY <1>2, <1>3, <1>6, <3>2, <4>2 DEF CopyOK
    <3> QED BY <3>1, <3>2
  <2> QED BY <1>2, <1>4, <1>5, <1>6, <2>1 DEF CopyOK
<1> QED BY <1>8, <1>9, <1>10, <1>11, <1>12 DEF IInv

(* When the program is finished, arr is the source or a copy of it.        *)
LEMMA FinishStep ==
    ASSUME IInv, Finish
    PROVE  IInv'
<1>1. /\ \/ pc = "next" /\ width >= N /\ src = "arr"
         \/ pc = "last" /\ AllDone
      /\ pc' = "done" /\ UNCHANGED <<buffer, src, dst, width, todo, job, input>>
  BY DEF Finish
<1>2. /\ TypeOK /\ Runs(width, N, buffer[src], input) /\ Shares /\ CopyOK
      /\ \A u \in Threads : ~Busy(u)
  BY <1>1 DEF IInv, Shares
<1>3. N' = N /\ (\A u : Busy(u)' <=> Busy(u))
  BY <1>1 DEF N, Index, Busy, Idle
<1>4. \A u \in Threads : todo[u] = {}
  BY <1>1, <1>2 DEF Shares, AllDone
<1>5. width >= N /\ \A x \in 0 .. N - 1 : buffer["arr"][x] = buffer[src][x]
  BY <1>1, <1>2, <1>4 DEF CopyOK, Behind
<1>6. TypeOK'
  BY <1>1, <1>2, <1>3 DEF TypeOK
<1>7. Runs(width, N, buffer[src], input)'
  BY <1>1, <1>2, <1>3
<1>8. Shares'
  BY <1>1, <1>2, <1>3, <1>4 DEF Shares
<1>9. MergesOK' /\ PassOK'
  BY <1>1, <1>2, <1>3 DEF MergesOK, PassOK
<1>10. CopyOK'
  BY <1>1, <1>3, <1>5 DEF CopyOK
<1> QED BY <1>6, <1>7, <1>8, <1>9, <1>10 DEF IInv


(* The program begins with the array it is to sort: runs of one element.   *)
LEMMA InitIInv == Init => IInv
<1> SUFFICES ASSUME Init PROVE IInv
  OBVIOUS
<1>1. PICK n \in Lengths : input \in [0 .. n - 1 -> Values]
  BY DEF Init
<1>2. PICK junk \in [Index -> Junk] :
         buffer = [b \in {"arr", "tmp"} |-> IF b = "arr" THEN input ELSE junk]
  BY DEF Init
<1>3. /\ src = "arr" /\ dst = "tmp" /\ width = 1 /\ pc = "next"
      /\ todo = [t \in Threads |-> {}] /\ job = [t \in Threads |-> Idle]
  BY DEF Init
<1>4. n \in Nat /\ Index = 0 .. n - 1
  BY <1>1, SortAssumption DEF Index
<1>5. N = n
  <2>1. 0 \in Int /\ n - 1 \in Int
    BY <1>4
  <2>2. Cardinality(0 .. n - 1) = IF 0 > n - 1 THEN 0 ELSE (n - 1) - 0 + 1
    BY <2>1, FS_Interval
  <2> QED BY <1>4, <2>2 DEF N
<1>6. buffer["arr"] = input /\ buffer["tmp"] = junk
  BY <1>2
<1>7. \A t \in Threads : todo[t] = {} /\ ~Busy(t)
  BY <1>3 DEF Busy
<1>8. TypeOK
  <2>1. Idle \in JobType
    BY DEF Idle, JobType
  <2>2. buffer \in [Buffers -> [0 .. N - 1 -> Values \cup Junk]]
    BY <1>1, <1>2, <1>4, <1>5 DEF Buffers
  <2>3. todo \in [Threads -> SUBSET (0 .. N - 1)] /\ job \in [Threads -> JobType]
    BY <1>3, <2>1
  <2> QED BY <1>1, <1>3, <1>4, <1>5, <1>6, <2>2, <2>3 DEF TypeOK, Buffers
<1>9. Runs(width, N, buffer[src], input)
  <2>1. \A x \in 0 .. N - 1 : x % 1 = 0
    BY <1>4, <1>5
  <2> QED BY <1>3, <1>6, <2>1 DEF Runs
<1>10. Shares /\ MergesOK /\ PassOK /\ CopyOK
  BY <1>3, <1>7 DEF Shares, MergesOK, PassOK, CopyOK
<1> QED BY <1>8, <1>9, <1>10 DEF IInv

(* Every step keeps the invariant.                                         *)
LEMMA NextIInv == IInv /\ [Next]_vars => IInv'
<1> SUFFICES ASSUME IInv, [Next]_vars PROVE IInv'
  OBVIOUS
<1>1. CASE StartPass
  BY <1>1, StartPassStep
<1>2. CASE EndPass
  BY <1>2, EndPassStep
<1>3. CASE StartCopy
  BY <1>3, StartCopyStep
<1>4. CASE Finish
  BY <1>4, FinishStep
<1>5. ASSUME NEW t \in Threads, TakeIteration(t) PROVE IInv'
  BY <1>5, TakeIterationStep
<1>6. ASSUME NEW t \in Threads, MergeElement(t) PROVE IInv'
  BY <1>6, MergeElementStep
<1>7. ASSUME NEW t \in Threads, CopyElement(t) PROVE IInv'
  BY <1>7, CopyElementStep
<1>8. CASE UNCHANGED vars
  <2>1. /\ UNCHANGED <<buffer, src, dst, width, pc, todo, job, input>> /\ N' = N
        /\ \A t : Busy(t)' <=> Busy(t)
    BY <1>8 DEF vars, N, Index, Busy, Idle
  <2>2. TypeOK' /\ Runs(width, N, buffer[src], input)'
    BY <2>1 DEF IInv, TypeOK
  <2>3. Shares' /\ MergesOK'
    BY <2>1 DEF IInv, Shares, MergesOK
  <2>4. \A x : Behind(x)' <=> Behind(x)
    BY <2>1 DEF Behind
  <2>5. PassOK' /\ CopyOK'
    BY <2>1, <2>4 DEF IInv, PassOK, CopyOK
  <2> QED BY <2>2, <2>3, <2>5 DEF IInv
<1> QED BY <1>1, <1>2, <1>3, <1>4, <1>5, <1>6, <1>7, <1>8 DEF Next, Main, Step

(* The invariant of the bottom-up merge sort of seq_para.c.                *)
THEOREM InvariantHolds == Spec => []IInv
<1> QED BY InitIInv, NextIInv, PTL DEF Spec

-----------------------------------------------------------------------------
(* What follows from it.                                                   *)

(* Iterations in progress are different ones, so their parts are disjoint. *)
LEMMA NoConflictHolds == IInv => NoConflict
<1> SUFFICES ASSUME IInv PROVE NoConflict
  OBVIOUS
<1>1. TypeOK /\ Shares /\ MergesOK /\ Index = 0 .. N - 1
  BY IndexInterval DEF IInv
<1>2. N \in Nat /\ width \in Nat \ {0} /\ src # dst
  BY <1>1 DEF TypeOK
<1>3. ASSUME NEW t \in Threads, ~Busy(t) PROVE Part(t) = {}
  <2>1. Part(t) = 0 .. -1
    BY <1>3 DEF Part, Busy, Idle
  <2> QED BY <2>1
<1>4. ASSUME NEW t \in Threads, Busy(t)
      PROVE  /\ job[t].left \in 0 .. N - 1 /\ job[t].left % (2 * width) = 0
             /\ Part(t) = job[t].left .. End(job[t].left, 2 * width, N)
  BY <1>1, <1>4 DEF MergesOK, MergeOK, Part
<1>5. ASSUME NEW t \in Threads PROVE Part(t) \subseteq 0 .. N - 1
  <2>1. CASE Busy(t)
    BY <1>2, <1>4, <2>1, PartInArray
  <2> QED BY <1>3, <2>1
<1>6. ASSUME NEW t \in Threads, NEW u \in Threads, t # u PROVE Part(t) \cap Part(u) = {}
  <2>1. CASE Busy(t) /\ Busy(u)
    <3>1. job[t].left # job[u].left
      BY <1>1, <1>6, <2>1 DEF Shares
    <3> QED BY <1>2, <1>4, <2>1, <3>1, PartsDisjoint
  <2> QED BY <1>3, <2>1
<1> QED BY <1>1, <1>2, <1>5, <1>6 DEF NoConflict

(* seq_para.c: no thread sees or overwrites another's work before the      *)
(* barrier, and none leaves the array.                                     *)
THEOREM ThreadsNeverConflict == Spec => []NoConflict
<1> QED BY InvariantHolds, NoConflictHolds, PTL

(* seq_para.c: after every pass the source consists of sorted runs.        *)
THEOREM PassesSortRuns == Spec => []RunsSorted
<1>1. IInv => RunsSorted
  <2> SUFFICES ASSUME IInv PROVE RunsSorted
    OBVIOUS
  <2>1. Index = 0 .. N - 1 /\ Runs(width, N, buffer[src], input)
    BY IndexInterval DEF IInv
  <2> QED BY <2>1 DEF RunsSorted, Runs
<1> QED BY <1>1, InvariantHolds, PTL

(* seq_para.c: no pass loses or duplicates an element, nor moves one out   *)
(* of its pair of runs.                                                    *)
THEOREM PassesConserveElements == Spec => []RunsConserved
<1>1. IInv => RunsConserved
  <2> SUFFICES ASSUME IInv PROVE RunsConserved
    OBVIOUS
  <2>1. Index = 0 .. N - 1 /\ Runs(width, N, buffer[src], input)
    BY IndexInterval DEF IInv
  <2> QED BY <2>1 DEF RunsConserved, Runs, End
<1> QED BY <1>1, InvariantHolds, PTL


(* What is seen of the array: what it was given, and then the result.      *)
Seen == IF pc = "done" THEN buffer["arr"] ELSE input
Finished == pc = "done"

(* Sorting counts as this module does.                                     *)
LEMMA AbstractCardinality ==
    ASSUME NEW S
    PROVE  Promise!Cardinality(S) = Cardinality(S)
BY DEF Promise!Cardinality, Cardinality

(* One sorted run as long as the array is the array sorted.                *)
LEMMA SortedWhenDone ==
    ASSUME IInv, width >= N, \A x \in 0 .. N - 1 : buffer["arr"][x] = buffer[src][x]
    PROVE  /\ buffer["arr"] \in [0 .. N - 1 -> Values]
           /\ \A x \in 0 .. N - 1 : x > 0 => buffer["arr"][x - 1] <= buffer["arr"][x]
           /\ \A v \in Values :
                 Occurs(buffer["arr"], 0 .. N - 1, v) = Occurs(input, 0 .. N - 1, v)
<1>1. /\ N \in Nat /\ width \in Nat \ {0} /\ buffer[src] \in [0 .. N - 1 -> Values]
      /\ DOMAIN buffer["arr"] = 0 .. N - 1 /\ Runs(width, N, buffer[src], input)
      /\ buffer["arr"] \in [0 .. N - 1 -> Values \cup Junk]
  BY DEF IInv, TypeOK, Buffers
<1>2. buffer["arr"] \in [0 .. N - 1 -> Values]
  BY <1>1
<1>3. ASSUME NEW x \in 0 .. N - 1, x > 0 PROVE buffer["arr"][x - 1] <= buffer["arr"][x]
  <2>1. x \in Nat /\ x < width /\ x - 1 \in 0 .. N - 1
    BY <1>1, <1>3
  <2>2. x % width = x
    BY <1>1, <2>1, DivMod
  <2>3. buffer[src][x - 1] <= buffer[src][x]
    BY <1>1, <1>3, <2>2 DEF Runs
  <2> QED BY <2>1, <2>3
<1>4. ASSUME NEW v \in Values
      PROVE  Occurs(buffer["arr"], 0 .. N - 1, v) = Occurs(input, 0 .. N - 1, v)
  <2>1. Occurs(buffer["arr"], 0 .. N - 1, v) = Occurs(buffer[src], 0 .. N - 1, v)
    <3> DEFINE part == 0 .. N - 1
               arr == buffer["arr"]
               a == buffer[src]
    <3>1. \A x \in part : arr[x] = a[x]
      OBVIOUS
    <3> HIDE DEF part, arr, a
    <3>2. Occurs(arr, part, v) = Occurs(a, part, v)
      BY <3>1, OccursSame
    <3> QED BY <3>2 DEF part, arr, a
  <2>2. CASE N = 0
    <3>1. /\ Occurs(buffer[src], 0 .. N - 1, v) = 0 /\ Occurs(input, 0 .. N - 1, v) = 0
      <4>1. 0 \in Int /\ N - 1 \in Int /\ N - 1 < 0
        BY <2>2
      <4> QED BY <4>1, OccursInterval
    <3> QED BY <2>1, <3>1
  <2>3. CASE N # 0
    <3>1. 0 \in 0 .. N - 1 /\ 0 % width = 0
      BY <1>1, <2>3, Multiples
    <3>2. End(0, width, N) = N - 1
      BY <1>1, <3>1, EndBounds
    <3>3. Occurs(buffer[src], 0 .. N - 1, v) = Occurs(input, 0 .. N - 1, v)
      BY <1>1, <3>1, <3>2 DEF Runs
    <3> QED BY <2>1, <3>3
  <2> QED BY <2>2, <2>3
<1> QED BY <1>2, <1>3, <1>4

(* A step of the program is a step of its promise or cannot be seen.       *)
LEMMA StepSorts ==
    ASSUME IInv, IInv', [Next]_vars
    PROVE  Promise!Sort \/ UNCHANGED <<Seen, Finished>>
<1>1. CASE Finished
  <2>1. pc = "done" /\ \A t \in Threads : ~Busy(t)
    BY <1>1 DEF Finished, IInv, Shares
  <2>2. UNCHANGED vars
    BY <2>1 DEF Next, Main, Step, StartPass, EndPass, StartCopy, Finish, TakeIteration,
                MergeElement, CopyElement
  <2> QED BY <2>2 DEF vars, Seen, Finished
<1>2. CASE ~Finished /\ Finish
  <2>1. /\ pc # "done" /\ pc' = "done" /\ UNCHANGED <<buffer, src, width, input>>
    BY <1>2 DEF Finished, Finish
  <2>2. N' = N
    BY <2>1 DEF N, Index
  <2>3. width >= N /\ \A x \in 0 .. N - 1 : buffer["arr"][x] = buffer[src][x]
    BY <2>1, <2>2 DEF IInv, CopyOK
  <2>4. /\ buffer["arr"] \in [0 .. N - 1 -> Values]
        /\ \A x \in 0 .. N - 1 : x > 0 => buffer["arr"][x - 1] <= buffer["arr"][x]
        /\ \A v \in Values :
              Occurs(buffer["arr"], 0 .. N - 1, v) = Occurs(input, 0 .. N - 1, v)
    BY <2>3, SortedWhenDone
  <2>5. DOMAIN input = 0 .. N - 1 /\ DOMAIN buffer["arr"] = 0 .. N - 1
    BY <2>4 DEF IInv, TypeOK
  <2>6. Promise!Sorted(buffer["arr"])
    BY <2>4, <2>5 DEF Promise!Sorted
  <2>7. Promise!SameElements(buffer["arr"], input)
    BY <2>4, <2>5, AbstractCardinality DEF Promise!SameElements, Promise!Occurrences, Occurs
  <2> QED BY <2>1, <2>4, <2>5, <2>6, <2>7 DEF Promise!Sort
<1>3. CASE ~Finished /\ ~Finish
  <2>1. pc' # "done" /\ input' = input
    BY <1>3 DEF Finished, vars, Next, Main, Step, StartPass, EndPass, StartCopy, TakeIteration,
                MergeElement, CopyElement
  <2> QED BY <1>3, <2>1 DEF Seen, Finished
<1> QED BY <1>1, <1>2, <1>3

(* The safety half of what Sorting promises of seq_para.c: to anyone who   *)
(* looks at arr when it returns, it is one step that leaves the elements   *)
(* it was given in ascending order.                                        *)
THEOREM SortsSafely == Spec => Promise!Init /\ [][Promise!Sort]_<<Seen, Finished>>
<1>1. Init => Promise!Init
  <2> SUFFICES ASSUME Init PROVE Promise!Init
    OBVIOUS
  <2>1. input \in UNION {[0 .. n - 1 -> Values] : n \in Lengths} /\ pc = "next"
    BY DEF Init
  <2> QED BY <2>1 DEF Promise!Init, Promise!Arrays
<1>2. IInv /\ IInv' /\ [Next]_vars => [Promise!Sort]_<<Seen, Finished>>
  BY StepSorts
<1> QED BY <1>1, <1>2, InvariantHolds, PTL DEF Spec
=============================================================================
