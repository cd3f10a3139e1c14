----------------------- MODULE ParallelMergeSortProofs -----------------------
(***************************************************************************)
(* Proofs about ParallelMergeSort, for every team of threads, every length *)
(* and every choice of the thresholds: threads never touch the same part   *)
(* of the array, merges begin with sorted runs, no element is lost or      *)
(* duplicated, and the array is sorted when the parallel region is over.   *)
(***************************************************************************)
EXTENDS ParallelMergeSort, FiniteSetTheorems, SequenceTheorems, WellFoundedInduction,
        TLAPS

-----------------------------------------------------------------------------
(* The inductive invariant.                                                *)

(* Segments.  A call hands out the halves of its segment, the left one     *)
(* when it leaves "call" and the right one when it leaves "second".        *)
Segments == {s \in Index \X Index : s[1] <= s[2]}
Seg(f) == <<f.left, f.right>>

Inside(s, r) == r[1] <= s[1] /\ s[2] <= r[2]
Apart(s, r) == s[2] < r[1] \/ r[2] < s[1]

HandedOut(f) == IF f.pc = "call" THEN {}
                ELSE IF f.pc = "second" THEN {Left(f)}
                ELSE {Left(f), Right(f)}

(* s is part of what f has handed out.                                     *)
Holds(f, s) == \E c \in HandedOut(f) : Inside(s, c)

Merging == {"copy", "refill", "merge"}

CallType == [left : Index, right : Index, parallel : BOOLEAN,
             pc : {"call", "second", "taskwait"} \cup Merging,
             bufL : Seq(Values), bufR : Seq(Values), i_src : Nat, j_src : Nat, k : Int]

(* What is true of every call on a stack.                                  *)
Calls ==
    {f \in CallType :
        /\ f.left <= f.right
        /\ f.pc # "call" => f.left < f.right
        /\ f.pc = "taskwait" => f.parallel
        /\ f.pc \notin {"refill", "merge"} =>
              f.bufL = << >> /\ f.bufR = << >> /\ f.i_src = 0 /\ f.j_src = 0}

TypeOK ==
    /\ input \in [Index -> Values] /\ arr \in [Index -> Values]
    /\ temp \in [Index -> Values \cup Junk]
    /\ stack \in [Threads -> Seq(Calls)]
    /\ tasks \subseteq Segments /\ sorted \subseteq Segments
    /\ entered \in BOOLEAN /\ finished \in BOOLEAN

(* The calls of one stack are nested, each in what the one below it has    *)
(* handed out; the innermost runs only when what it needs has been done,   *)
(* and the others are suspended for one of three reasons.                  *)
Nested(q) == \A i, j \in 1 .. Len(q) : i < j => Holds(q[j], Seg(q[i]))

Running(f, done) ==
    /\ f.pc = "second" /\ ~f.parallel => Left(f) \in done
    /\ f.pc \in Merging => Left(f) \in done /\ Right(f) \in done

Suspended(f, g, done) ==
    \/ f.parallel /\ f.pc \in {"second", "taskwait"}
    \/ ~f.parallel /\ f.pc = "second" /\ Seg(g) = Left(f)
    \/ ~f.parallel /\ f.pc = "copy" /\ Seg(g) = Right(f) /\ Left(f) \in done

StackOK(q, done) ==
    /\ Nested(q)
    /\ q # << >> => Running(q[1], done)
    /\ \A i \in 2 .. Len(q) : Suspended(q[i], q[i - 1], done)

(* A segment that no call of a stack is working in.                        *)
Outside(s, q) == \A i \in 1 .. Len(q) : Apart(s, Seg(q[i])) \/ Holds(q[i], s)

(* No call of one stack works where one of the other does: they have       *)
(* nothing in common, or one is in what the other has handed out.          *)
StacksApart(p, q) ==
    \A i \in 1 .. Len(p), j \in 1 .. Len(q) :
        Apart(Seg(p[i]), Seg(q[j])) \/ Holds(p[i], Seg(q[j])) \/ Holds(q[j], Seg(p[i]))

(* Every stack by itself, two stacks, and the segments that wait for a     *)
(* thread or are finished.                                                 *)
Structure ==
    /\ \A t \in Threads : StackOK(stack[t], sorted)
    /\ \A t, u \in Threads : t # u => StacksApart(stack[t], stack[u])
    /\ \A s \in tasks \cup sorted : \A t \in Threads : Outside(s, stack[t])
    /\ \A s, r \in tasks : s # r => Apart(s, r)
    /\ \A s \in tasks, r \in sorted : Apart(s, r)

(* Nothing happens before the region is entered or after it is over; in    *)
(* between the first call is on a stack until it has returned.             *)
Root == <<0, N - 1>>
OnStack(s, q) == \E i \in 1 .. Len(q) : Seg(q[i]) = s

RegionOK ==
    /\ ~entered => tasks = {} /\ sorted = {} /\ \A t \in Threads : stack[t] = << >>
    /\ finished => entered /\ tasks = {} /\ \A t \in Threads : stack[t] = << >>
    /\ entered => Root \in sorted \/ \E t \in Threads : OnStack(Root, stack[t])

(* A finished segment is in order, unless a merge is overwriting it.       *)
Ascending(a, left, right) == \A x, y \in left .. right : x <= y => a[x] <= a[y]

SortedInOrder ==
    \A r \in sorted :
        \/ Ascending(arr, r[1], r[2])
        \/ \E t \in Threads : At(t, "merge") /\ Inside(r, Seg(Top(t)))

(* Where the next elements of the two runs are in the scratch array.       *)
NextL(f) == f.left + f.i_src - Len(f.bufL)
NextR(f) == Mid(f.left, f.right) + 1 + f.j_src - Len(f.bufR)

LeftTile(f, scratch) ==
    /\ f.i_src <= Mid(f.left, f.right) - f.left + 1 /\ Len(f.bufL) <= f.i_src
    /\ \A x \in 1 .. Len(f.bufL) : f.bufL[x] = scratch[NextL(f) + x - 1]

RightTile(f, scratch) ==
    /\ f.j_src <= f.right - Mid(f.left, f.right) /\ Len(f.bufR) <= f.j_src
    /\ \A x \in 1 .. Len(f.bufR) : f.bufR[x] = scratch[NextR(f) + x - 1]

(* A tile is empty only when its run has been read.                        *)
LeftFull(f) == f.bufL = << >> => f.i_src = Mid(f.left, f.right) - f.left + 1
RightFull(f) == f.bufR = << >> => f.j_src = f.right - Mid(f.left, f.right)

TilesOK(f, scratch) ==
    /\ LeftTile(f, scratch) /\ RightTile(f, scratch)
    /\ LeftFull(f) /\ RightFull(f)
    /\ f.k = NextL(f) + NextR(f) - (Mid(f.left, f.right) + 1)

(* What is written is in order and not above anything still to be read.    *)
MergeOK(f, a, scratch) ==
    LET mid == Mid(f.left, f.right)
    IN  /\ \A x \in f.left .. f.right : scratch[x] \in Values
        /\ Ascending(scratch, f.left, mid)
        /\ Ascending(scratch, mid + 1, f.right)
        /\ Ascending(a, f.left, f.k - 1)
        /\ \A x \in f.left .. f.k - 1 :
             /\ \A y \in NextL(f) .. mid : a[x] <= scratch[y]
             /\ \A y \in NextR(f) .. f.right : a[x] <= scratch[y]

Copied(f, a, scratch) ==
    /\ f.bufL = << >> /\ f.bufR = << >> /\ f.i_src = 0 /\ f.j_src = 0 /\ f.k = f.left
    /\ \A x \in f.left .. f.right : scratch[x] = a[x]

MergesOK ==
    \A t \in Threads :
        /\ At(t, "refill") => Copied(Top(t), arr, temp)
        /\ At(t, "merge") => TilesOK(Top(t), temp) /\ MergeOK(Top(t), arr, temp)

IInv == TypeOK /\ Structure /\ RegionOK /\ SortedInOrder /\ MergesOK

-----------------------------------------------------------------------------
(* Segments.                                                               *)

(* The positions of the array, and its elements, are integers.             *)
LEMMA IndexBounds ==
    /\ Index \subseteq Int
    /\ \A x \in Int : x \in Index <=> 0 <= x /\ x <= N - 1
    /\ N - 1 \in Nat /\ Values \subseteq Int
BY SortAssumption DEF Index

(* The halves of a segment of two elements or more.                        *)
LEMMA Halves ==
    ASSUME NEW f \in Calls, f.left < f.right
    PROVE  /\ Mid(f.left, f.right) \in Index
           /\ f.left <= Mid(f.left, f.right) /\ Mid(f.left, f.right) < f.right
           /\ Left(f) \in Segments /\ Right(f) \in Segments
           /\ Inside(Left(f), Seg(f)) /\ Inside(Right(f), Seg(f))
           /\ Apart(Left(f), Right(f))
<1> DEFINE l == f.left
           r == f.right
           m == Mid(l, r)
<1>1. l \in Index /\ r \in Index /\ l \in Int /\ r \in Int
  BY IndexBounds DEF Calls, CallType
<1>2. m \in Int /\ l <= m /\ m < r
  BY <1>1 DEF Mid
<1>3. m \in Index /\ m + 1 \in Index
  BY <1>1, <1>2, IndexBounds
<1> HIDE DEF m
<1>4. Left(f) = <<l, m>> /\ Right(f) = <<m + 1, r>>
  BY DEF Left, Right, m
<1> QED BY <1>1, <1>2, <1>3, <1>4 DEF Segments, Inside, Apart, Seg, m

(* The segment of a call.                                                  *)
LEMMA SegOfCall ==
    ASSUME NEW f \in Calls
    PROVE  Seg(f) \in Segments
BY DEF Calls, CallType, Seg, Segments

(* The positions of a segment are positions of the array.                  *)
LEMMA SegmentBounds ==
    ASSUME NEW s \in Segments
    PROVE  s[1] \in Int /\ s[2] \in Int /\ s[1] <= s[2]
BY IndexBounds DEF Segments

(* What a call has handed out is strictly less than its segment.           *)
LEMMA HandedOutProper ==
    ASSUME NEW f \in Calls, NEW c \in HandedOut(f)
    PROVE  /\ f.left < f.right /\ (c = Left(f) \/ c = Right(f))
           /\ c \in Segments /\ Inside(c, Seg(f)) /\ ~Inside(Seg(f), c)
<1>1. f.left < f.right /\ (c = Left(f) \/ c = Right(f))
  BY DEF HandedOut, Calls
<1>2. c \in Segments /\ Inside(c, Seg(f))
  BY <1>1, Halves
<1>3. Left(f) = <<f.left, Mid(f.left, f.right)>>
      /\ Right(f) = <<Mid(f.left, f.right) + 1, f.right>>
  BY DEF Left, Right
<1>4. Mid(f.left, f.right) \in Int /\ f.left \in Int /\ f.right \in Int
      /\ f.left <= Mid(f.left, f.right) /\ Mid(f.left, f.right) < f.right
  BY <1>1, Halves, IndexBounds DEF Calls, CallType
<1> HIDE DEF Mid
<1>5. ~Inside(Seg(f), c)
  BY <1>1, <1>3, <1>4 DEF Inside, Seg
<1> QED BY <1>1, <1>2, <1>5

(* Part of a part.                                                         *)
LEMMA InsideTransitive ==
    ASSUME NEW s \in Segments, NEW r \in Segments, NEW q \in Segments,
           Inside(s, r), Inside(r, q)
    PROVE  Inside(s, q)
BY SegmentBounds DEF Inside

(* What is disjoint from a segment is disjoint from its parts; a segment   *)
(* is not disjoint from a part of it.                                      *)
LEMMA ApartInside ==
    ASSUME NEW s \in Segments, NEW r \in Segments, NEW q \in Segments,
           Inside(s, r)
    PROVE  /\ Apart(r, q) => Apart(s, q)
           /\ Apart(q, r) => Apart(q, s)
           /\ ~Apart(s, r) /\ ~Apart(r, s)
BY SegmentBounds DEF Inside, Apart

(* Being disjoint does not depend on the order.                            *)
LEMMA ApartSymmetric ==
    ASSUME NEW s, NEW r
    PROVE  Apart(s, r) <=> Apart(r, s)
BY DEF Apart

(* Part of what a call holds is held too.                                  *)
LEMMA HoldsInside ==
    ASSUME NEW f \in Calls, NEW s \in Segments, NEW r \in Segments,
           Holds(f, r), Inside(s, r)
    PROVE  Holds(f, s)
BY HandedOutProper, InsideTransitive DEF Holds

(* Being in what a call has handed out is being in its segment.            *)
LEMMA HoldsIsInside ==
    ASSUME NEW f \in Calls, NEW s \in Segments, Holds(f, s)
    PROVE  Inside(s, Seg(f)) /\ ~Apart(s, Seg(f))
<1>1. PICK c \in HandedOut(f) : Inside(s, c)
  BY DEF Holds
<1>2. c \in Segments /\ Inside(c, Seg(f)) /\ Seg(f) \in Segments
  BY HandedOutProper, SegOfCall
<1> QED BY <1>1, <1>2, InsideTransitive, ApartInside

(* A segment no call of a stack works in has no call of the stack in it.   *)
LEMMA OutsideContainsNoCall ==
    ASSUME NEW q \in Seq(Calls), NEW s \in Segments, Outside(s, q),
           NEW i \in 1 .. Len(q)
    PROVE  ~Inside(Seg(q[i]), s)
<1> SUFFICES ASSUME Inside(Seg(q[i]), s) PROVE FALSE
  OBVIOUS
<1>1. q[i] \in Calls /\ Seg(q[i]) \in Segments
  BY ElementOfSeq, SegOfCall
<1>2. ~Apart(s, Seg(q[i]))
  BY <1>1, ApartInside
<1>3. PICK c \in HandedOut(q[i]) : Inside(s, c)
  BY <1>2 DEF Outside, Holds
<1>4. c \in Segments /\ ~Inside(Seg(q[i]), c)
  BY <1>1, HandedOutProper
<1> QED BY <1>1, <1>3, <1>4, InsideTransitive

(* A call that has finished both halves holds no other call and no task.   *)
LEMMA FinishedHoldsNothing ==
    ASSUME NEW f \in Calls, NEW q \in Seq(Calls), NEW i \in 1 .. Len(q),
           f.left < f.right, Outside(Left(f), q), Outside(Right(f), q)
    PROVE  ~Holds(f, Seg(q[i]))
BY Halves, OutsideContainsNoCall, HandedOutProper DEF Holds

-----------------------------------------------------------------------------
(* What the actions do to a stack.                                         *)

(* Going on with the innermost call.                                       *)
LEMMA GoOnStack ==
    ASSUME NEW q \in Seq(Calls), q # << >>, NEW f \in Calls
    PROVE  LET p == <<f>> \o Tail(q)
           IN  /\ p \in Seq(Calls) /\ Len(p) = Len(q) /\ Len(q) \in Nat \ {0}
               /\ p # << >> /\ p[1] = f /\ Head(q) = q[1] /\ q[1] \in Calls
               /\ \A i \in 2 .. Len(q) : p[i] = q[i] /\ q[i] \in Calls
<1>1. /\ Tail(q) \in Seq(Calls) /\ Len(Tail(q)) = Len(q) - 1
      /\ \A i \in 1 .. Len(q) - 1 : Tail(q)[i] = q[i + 1]
      /\ Len(q) \in Nat \ {0}
  BY HeadTailProperties, EmptySeq
<1> DEFINE tail == Tail(q)
<1> HIDE DEF tail
<1>2. /\ <<f>> \o tail \in Seq(Calls) /\ Len(<<f>> \o tail) = Len(tail) + 1
      /\ (<<f>> \o tail)[1] = f
      /\ \A i \in 2 .. Len(tail) + 1 : (<<f>> \o tail)[i] = tail[i - 1]
  BY <1>1 DEF tail
<1>3. ASSUME NEW i \in 2 .. Len(q) PROVE (<<f>> \o tail)[i] = q[i] /\ q[i] \in Calls
  <2>1. i - 1 \in 1 .. Len(q) - 1 /\ (i - 1) + 1 = i
    BY <1>1
  <2> QED BY <1>1, <1>2, <2>1, ElementOfSeq DEF tail
<1>4. Head(q) = q[1] /\ q[1] \in Calls
  BY <1>1, ElementOfSeq
<1> QED BY <1>1, <1>2, <1>3, <1>4 DEF tail

(* Starting another one on top of it.                                      *)
LEMMA PushStack ==
    ASSUME NEW q \in Seq(Calls), NEW g \in Calls
    PROVE  LET p == <<g>> \o q
           IN  /\ p \in Seq(Calls) /\ Len(p) = Len(q) + 1 /\ Len(q) \in Nat
               /\ p # << >> /\ p[1] = g
               /\ \A i \in 2 .. Len(q) + 1 : p[i] = q[i - 1] /\ q[i - 1] \in Calls
<1>1. /\ <<g>> \o q \in Seq(Calls) /\ Len(<<g>> \o q) = Len(q) + 1 /\ Len(q) \in Nat
      /\ (<<g>> \o q)[1] = g
      /\ \A i \in 2 .. Len(q) + 1 : (<<g>> \o q)[i] = q[i - 1]
  OBVIOUS
<1>2. ASSUME NEW i \in 2 .. Len(q) + 1 PROVE q[i - 1] \in Calls
  <2>1. i - 1 \in 1 .. Len(q)
    BY <1>1
  <2> QED BY <2>1, ElementOfSeq
<1>3. <<g>> \o q # << >>
  BY <1>1, EmptySeq
<1> QED BY <1>1, <1>2, <1>3

(* Two calls on top of a stack, one after the other or at once.            *)
LEMMA PushTwice ==
    ASSUME NEW q \in Seq(Calls), NEW f \in Calls, NEW g \in Calls
    PROVE  <<g>> \o (<<f>> \o q) = <<g, f>> \o q
<1>1. <<g>> \in Seq(Calls) /\ <<f>> \in Seq(Calls)
  OBVIOUS
<1>2. <<g>> \o <<f>> = <<g, f>>
  <2> DEFINE a == <<g>>
             b == <<f>>
             c == <<g, f>>
  <2>1. Len(a \o b) = 2 /\ (a \o b)[1] = g /\ (a \o b)[2] = f /\ a \o b \in Seq(Calls)
    OBVIOUS
  <2>2. Len(c) = 2 /\ c[1] = g /\ c[2] = f /\ c \in Seq(Calls)
    OBVIOUS
  <2> HIDE DEF a, b, c
  <2>3. \A i \in 1 .. Len(a \o b) : (a \o b)[i] = c[i]
    BY <2>1, <2>2
  <2>4. a \o b = c
    BY <2>1, <2>2, <2>3, SeqEqual
  <2> QED BY <2>4 DEF a, b, c
<1>3. <<g>> \o (<<f>> \o q) = (<<g>> \o <<f>>) \o q
  BY <1>1, ConcatAssociative
<1> QED BY <1>2, <1>3

(* Returning from it.                                                      *)
LEMMA PopStack ==
    ASSUME NEW q \in Seq(Calls), q # << >>
    PROVE  /\ Tail(q) \in Seq(Calls) /\ Len(Tail(q)) = Len(q) - 1
           /\ Len(q) \in Nat \ {0} /\ Head(q) = q[1] /\ q[1] \in Calls
           /\ \A i \in 1 .. Len(q) - 1 : Tail(q)[i] = q[i + 1] /\ q[i + 1] \in Calls
           /\ Tail(q) # << >> => Len(q) >= 2
<1>1. /\ Tail(q) \in Seq(Calls) /\ Len(Tail(q)) = Len(q) - 1
      /\ \A i \in 1 .. Len(q) - 1 : Tail(q)[i] = q[i + 1]
      /\ Len(q) \in Nat \ {0}
  BY HeadTailProperties, EmptySeq
<1>2. ASSUME NEW i \in 1 .. Len(q) - 1 PROVE q[i + 1] \in Calls
  <2>1. i + 1 \in 1 .. Len(q)
    BY <1>1
  <2> QED BY <2>1, ElementOfSeq
<1>3. Head(q) = q[1] /\ q[1] \in Calls
  BY <1>1, ElementOfSeq
<1>4. Tail(q) # << >> => Len(q) >= 2
  BY <1>1, EmptySeq
<1> QED BY <1>1, <1>2, <1>3, <1>4

(* Going on: the call keeps its segment and has handed out no less.        *)
LEMMA GoOnKeeps ==
    ASSUME NEW q \in Seq(Calls), q # << >>, NEW f \in Calls, NEW done,
           Seg(f) = Seg(q[1]), HandedOut(q[1]) \subseteq HandedOut(f),
           StackOK(q, done), Running(f, done)
    PROVE  LET p == <<f>> \o Tail(q)
           IN  /\ p \in Seq(Calls) /\ StackOK(p, done) /\ p # << >>
               /\ \A s : Outside(s, q) => Outside(s, p)
               /\ \A r : StacksApart(q, r) => StacksApart(p, r)
               /\ \A s : OnStack(s, q) => OnStack(s, p)
<1> DEFINE p == <<f>> \o Tail(q)
<1>1. /\ p \in Seq(Calls) /\ Len(p) = Len(q) /\ Len(q) \in Nat \ {0} /\ p # << >>
      /\ p[1] = f /\ \A i \in 2 .. Len(q) : p[i] = q[i] /\ q[i] \in Calls
  BY GoOnStack
<1> HIDE DEF p
<1>2. ASSUME NEW i \in 1 .. Len(q)
      PROVE  /\ Seg(p[i]) = Seg(q[i])
             /\ \A s : Holds(q[i], s) => Holds(p[i], s)
  BY <1>1 DEF Holds
<1>3. Nested(p)
  BY <1>1, <1>2 DEF StackOK, Nested
<1>4. ASSUME NEW i \in 2 .. Len(p) PROVE Suspended(p[i], p[i - 1], done)
  <2>1. i - 1 \in 1 .. Len(q) /\ i \in 2 .. Len(q)
    BY <1>1
  <2> QED BY <1>1, <1>2, <2>1 DEF StackOK, Suspended
<1>5. StackOK(p, done)
  BY <1>1, <1>3, <1>4 DEF StackOK
<1>6. \A s : Outside(s, q) => Outside(s, p)
  BY <1>1, <1>2 DEF Outside
<1>7. \A r : StacksApart(q, r) => StacksApart(p, r)
  BY <1>1, <1>2 DEF StacksApart
<1>8. \A s : OnStack(s, q) => OnStack(s, p)
  BY <1>1, <1>2 DEF OnStack
<1> QED BY <1>1, <1>5, <1>6, <1>7, <1>8 DEF p

(* Starting a call: its segment is in what every call of the stack has     *)
(* handed out.                                                             *)
LEMMA PushKeeps ==
    ASSUME NEW q \in Seq(Calls), NEW g \in Calls, NEW done,
           g.pc = "call", Nested(q),
           \A i \in 1 .. Len(q) : Holds(q[i], Seg(g)),
           q # << >> => Suspended(q[1], g, done),
           \A i \in 2 .. Len(q) : Suspended(q[i], q[i - 1], done)
    PROVE  LET p == <<g>> \o q
           IN  /\ p \in Seq(Calls) /\ StackOK(p, done) /\ p # << >>
               /\ \A s : Outside(s, q) /\ Apart(s, Seg(g)) => Outside(s, p)
               /\ \A r : StacksApart(q, r) /\ Outside(Seg(g), r) => StacksApart(p, r)
               /\ \A s : OnStack(s, q) => OnStack(s, p)
               /\ OnStack(Seg(g), p)
<1> DEFINE p == <<g>> \o q
<1>1. /\ p \in Seq(Calls) /\ Len(p) = Len(q) + 1 /\ Len(q) \in Nat /\ p # << >>
      /\ p[1] = g /\ \A i \in 2 .. Len(q) + 1 : p[i] = q[i - 1] /\ q[i - 1] \in Calls
  BY PushStack
<1> HIDE DEF p
<1>2. ASSUME NEW i \in 1 .. Len(p)
      PROVE  \/ i = 1 /\ p[i] = g
             \/ i - 1 \in 1 .. Len(q) /\ i \in 2 .. Len(q) + 1 /\ p[i] = q[i - 1]
  BY <1>1
<1>3. ASSUME NEW i \in 1 .. Len(p), NEW j \in 1 .. Len(p), i < j
      PROVE  Holds(p[j], Seg(p[i]))
  <2>1. j - 1 \in 1 .. Len(q) /\ p[j] = q[j - 1]
    BY <1>1, <1>2, <1>3
  <2>2. CASE i = 1
    BY <1>1, <2>1, <2>2
  <2>3. CASE i # 1
    <3>1. i - 1 \in 1 .. Len(q) /\ p[i] = q[i - 1] /\ i - 1 < j - 1
      BY <1>1, <1>2, <1>3, <2>3
    <3> QED BY <2>1, <3>1 DEF Nested
  <2> QED BY <2>2, <2>3
<1>4. ASSUME NEW i \in 2 .. Len(p) PROVE Suspended(p[i], p[i - 1], done)
  <2>1. i - 1 \in 1 .. Len(q) /\ p[i] = q[i - 1]
    BY <1>1
  <2>2. CASE i = 2
    <3>1. p[i] = q[1] /\ p[i - 1] = g /\ q # << >>
      BY <1>1, <2>1, <2>2, EmptySeq
    <3> QED BY <3>1
  <2>3. CASE i # 2
    <3>1. i - 1 \in 2 .. Len(q) /\ p[i - 1] = q[(i - 1) - 1]
      BY <1>1, <2>3
    <3> QED BY <2>1, <3>1
  <2> QED BY <2>2, <2>3
<1>5. StackOK(p, done)
  <2>1. Running(p[1], done)
    BY <1>1 DEF Running, Merging
  <2> QED BY <1>3, <1>4, <2>1 DEF StackOK, Nested
<1>6. ASSUME NEW s, Outside(s, q), Apart(s, Seg(g)) PROVE Outside(s, p)
  BY <1>2, <1>6 DEF Outside
<1>7. ASSUME NEW r, StacksApart(q, r), Outside(Seg(g), r) PROVE StacksApart(p, r)
  <2> SUFFICES ASSUME NEW i \in 1 .. Len(p), NEW j \in 1 .. Len(r)
               PROVE  Apart(Seg(p[i]), Seg(r[j])) \/ Holds(p[i], Seg(r[j]))
                         \/ Holds(r[j], Seg(p[i]))
    BY DEF StacksApart
  <2>1. CASE i = 1
    BY <1>1, <1>7, <2>1 DEF Outside
  <2>2. CASE i # 1
    BY <1>2, <1>7, <2>2 DEF StacksApart
  <2> QED BY <2>1, <2>2
<1>8. ASSUME NEW s, OnStack(s, q) PROVE OnStack(s, p)
  <2>1. PICK i \in 1 .. Len(q) : Seg(q[i]) = s
    BY <1>8 DEF OnStack
  <2>2. i + 1 \in 2 .. Len(q) + 1 /\ (i + 1) - 1 = i /\ i + 1 \in 1 .. Len(p)
    BY <1>1
  <2> QED BY <1>1, <2>1, <2>2 DEF OnStack
<1>9. OnStack(Seg(g), p)
  BY <1>1 DEF OnStack
<1> QED BY <1>1, <1>5, <1>6, <1>7, <1>8, <1>9 DEF p

(* Returning: the call below, if any, can go on with what it waited for.   *)
LEMMA PopKeeps ==
    ASSUME NEW q \in Seq(Calls), q # << >>, NEW done, StackOK(q, done)
    PROVE  LET more == done \cup {Seg(q[1])}
           IN  /\ Tail(q) \in Seq(Calls) /\ StackOK(Tail(q), more)
               /\ \A s : Outside(s, q) => Outside(s, Tail(q))
               /\ \A r : StacksApart(q, r) => StacksApart(Tail(q), r)
               /\ \A s : OnStack(s, q) => OnStack(s, Tail(q)) \/ s \in more
               /\ Outside(Seg(q[1]), Tail(q))
<1> DEFINE p == Tail(q)
           more == done \cup {Seg(q[1])}
<1>1. /\ p \in Seq(Calls) /\ Len(p) = Len(q) - 1 /\ Len(q) \in Nat \ {0}
      /\ \A i \in 1 .. Len(q) - 1 : p[i] = q[i + 1] /\ q[i + 1] \in Calls
      /\ p # << >> => Len(q) >= 2
  BY PopStack
<1> HIDE DEF p
<1>2. ASSUME NEW i \in 1 .. Len(p)
      PROVE  i + 1 \in 2 .. Len(q) /\ i + 1 \in 1 .. Len(q) /\ p[i] = q[i + 1]
  BY <1>1
<1>3. Nested(p)
  <2> SUFFICES ASSUME NEW i \in 1 .. Len(p), NEW j \in 1 .. Len(p), i < j
               PROVE  Holds(p[j], Seg(p[i]))
    BY DEF Nested
  <2>1. i + 1 < j + 1
    BY <1>1
  <2> QED BY <1>2, <2>1 DEF StackOK, Nested
<1>4. ASSUME NEW f, NEW g, Suspended(f, g, done) PROVE Suspended(f, g, more)
  BY <1>4 DEF Suspended
<1>5. ASSUME NEW i \in 2 .. Len(p) PROVE Suspended(p[i], p[i - 1], more)
  <2>1. i - 1 \in 1 .. Len(p) /\ i \in 1 .. Len(p) /\ (i - 1) + 1 = i /\ (i + 1) - 1 = i
    BY <1>1
  <2>2. p[i] = q[i + 1] /\ p[i - 1] = q[i] /\ i + 1 \in 2 .. Len(q)
    BY <1>2, <2>1
  <2>3. Suspended(q[i + 1], q[(i + 1) - 1], done)
    BY <2>2 DEF StackOK
  <2> QED BY <1>4, <2>1, <2>2, <2>3
<1>6. ASSUME p # << >> PROVE Running(p[1], more)
  <2>1. 2 \in 2 .. Len(q) /\ p[1] = q[2]
    BY <1>1, <1>6
  <2>2. Suspended(q[2], q[2 - 1], done)
    BY <2>1 DEF StackOK
  <2>3. Suspended(q[2], q[1], done)
    BY <2>2
  <2> QED BY <2>1, <2>3 DEF Suspended, Running, Merging
<1>7. StackOK(p, more)
  BY <1>3, <1>5, <1>6 DEF StackOK
<1>8. \A s : Outside(s, q) => Outside(s, p)
  BY <1>2 DEF Outside
<1>9. \A r : StacksApart(q, r) => StacksApart(p, r)
  BY <1>2 DEF StacksApart
<1>10. ASSUME NEW s, OnStack(s, q) PROVE OnStack(s, p) \/ s \in more
  <2>1. PICK i \in 1 .. Len(q) : Seg(q[i]) = s
    BY <1>10 DEF OnStack
  <2>2. CASE i = 1
    BY <2>1, <2>2
  <2>3. CASE i # 1
    <3>1. i - 1 \in 1 .. Len(p) /\ p[i - 1] = q[i]
      BY <1>1, <2>3
    <3> QED BY <2>1, <3>1 DEF OnStack
  <2> QED BY <2>2, <2>3
<1>11. Outside(Seg(q[1]), p)
  <2> SUFFICES ASSUME NEW i \in 1 .. Len(p) PROVE Holds(p[i], Seg(q[1]))
    BY DEF Outside
  <2>1. i + 1 \in 1 .. Len(q) /\ 1 \in 1 .. Len(q) /\ 1 < i + 1 /\ p[i] = q[i + 1]
    BY <1>1, <1>2
  <2> QED BY <2>1 DEF StackOK, Nested
<1> QED BY <1>1, <1>7, <1>8, <1>9, <1>10, <1>11 DEF p

-----------------------------------------------------------------------------
(* The structure: one thread's stack changes, and what waits and is        *)
(* finished with it.                                                       *)

(* The innermost call of a thread.                                         *)
LEMMA TopOfStack ==
    ASSUME TypeOK, NEW t \in Threads, stack[t] # << >>
    PROVE  /\ stack[t] \in Seq(Calls) /\ Top(t) = stack[t][1] /\ Top(t) \in Calls
           /\ 1 \in 1 .. Len(stack[t])
<1>1. stack[t] \in Seq(Calls)
  BY DEF TypeOK
<1> DEFINE q == stack[t]
<1> HIDE DEF q
<1>2. q # << >> /\ q \in Seq(Calls)
  BY <1>1 DEF q
<1>3. Len(q) \in Nat \ {0} /\ Head(q) = q[1] /\ q[1] \in Calls
  BY <1>2, PopStack
<1> QED BY <1>1, <1>3 DEF Top, q

(* A step that changes the stack of one thread keeps the structure, when   *)
(* that stack fits the others and the segments that are waiting or         *)
(* finished.                                                               *)
LEMMA StackChange ==
    ASSUME TypeOK, Structure, NEW t \in Threads, NEW p \in Seq(Calls),
           stack' = [stack EXCEPT ![t] = p],
           StackOK(p, sorted'), sorted \subseteq sorted',
           \A u \in Threads \ {t} : StacksApart(p, stack[u]),
           \A s \in tasks' \cup sorted' :
              Outside(s, p) /\ \A u \in Threads \ {t} : Outside(s, stack[u]),
           \A s, r \in tasks' : s # r => Apart(s, r),
           \A s \in tasks', r \in sorted' : Apart(s, r)
    PROVE  Structure'
<1>1. /\ stack'[t] = p
      /\ \A u \in Threads \ {t} : stack'[u] = stack[u]
  BY DEF TypeOK
<1>2. ASSUME NEW u \in Threads PROVE StackOK(stack'[u], sorted')
  <2>1. CASE u = t
    BY <1>1, <2>1
  <2>2. CASE u # t
    <3>1. StackOK(stack[u], sorted)
      BY DEF Structure
    <3>2. StackOK(stack[u], sorted')
      BY <3>1 DEF StackOK, Running, Suspended
    <3> QED BY <1>1, <2>2, <3>2
  <2> QED BY <2>1, <2>2
<1>3. ASSUME NEW u \in Threads, NEW v \in Threads, u # v
      PROVE  StacksApart(stack'[u], stack'[v])
  <2>1. \A r : StacksApart(p, r) => StacksApart(r, p)
    BY DEF StacksApart, Apart
  <2>2. CASE u = t
    BY <1>1, <1>3, <2>2
  <2>3. CASE v = t
    BY <1>1, <1>3, <2>1, <2>3
  <2>4. CASE u # t /\ v # t
    BY <1>1, <1>3, <2>4 DEF Structure
  <2> QED BY <2>2, <2>3, <2>4
<1>4. ASSUME NEW s \in tasks' \cup sorted', NEW u \in Threads
      PROVE  Outside(s, stack'[u])
  BY <1>1
<1> QED BY <1>2, <1>3, <1>4 DEF Structure, StackOK, Nested, Running, Suspended,
                               StacksApart, Outside

(* A thread goes on with its innermost call.                               *)
LEMMA GoOnStructure ==
    ASSUME TypeOK, Structure, RegionOK, NEW t \in Threads, stack[t] # << >>,
           NEW f \in Calls, GoOn(t, f),
           Seg(f) = Seg(Top(t)), HandedOut(Top(t)) \subseteq HandedOut(f),
           Running(f, sorted), UNCHANGED <<tasks, sorted, entered, finished>>
    PROVE  Structure' /\ RegionOK' /\ stack' \in [Threads -> Seq(Calls)]
<1> DEFINE q == stack[t]
           p == <<f>> \o Tail(q)
<1>1. stack' = [stack EXCEPT ![t] = p] /\ stack'[t] = p
  BY DEF GoOn, TypeOK
<1>2. q \in Seq(Calls) /\ Top(t) = q[1] /\ StackOK(q, sorted)
  BY TopOfStack DEF Structure
<1>3. /\ p \in Seq(Calls) /\ StackOK(p, sorted) /\ p # << >>
      /\ \A s : Outside(s, q) => Outside(s, p)
      /\ \A r : StacksApart(q, r) => StacksApart(p, r)
      /\ \A s : OnStack(s, q) => OnStack(s, p)
  <2> HIDE DEF q
  <2>1. q # << >>
    BY DEF q
  <2> QED BY <1>2, <2>1, GoOnKeeps
<1> HIDE DEF p
<1>4. Structure'
  <2>1. \A u \in Threads \ {t} : StacksApart(p, stack[u])
    BY <1>3 DEF Structure
  <2>2. \A s \in tasks' \cup sorted' :
           Outside(s, p) /\ \A u \in Threads \ {t} : Outside(s, stack[u])
    BY <1>3 DEF Structure
  <2>3. /\ \A s, r \in tasks' : s # r => Apart(s, r)
        /\ \A s \in tasks', r \in sorted' : Apart(s, r)
        /\ StackOK(p, sorted') /\ sorted \subseteq sorted'
    BY <1>3 DEF Structure
  <2> QED BY <1>1, <1>3, <2>1, <2>2, <2>3, StackChange
<1>5. RegionOK'
  <2>1. entered /\ ~finished
    BY DEF RegionOK
  <2>2. ASSUME NEW u \in Threads, OnStack(Root, stack[u]) PROVE OnStack(Root, stack'[u])
    <3>1. stack'[u] = IF u = t THEN p ELSE stack[u]
      BY <1>1 DEF TypeOK
    <3> QED BY <1>3, <2>2, <3>1
  <2> QED BY <2>1, <2>2 DEF RegionOK, OnStack
<1>6. stack' \in [Threads -> Seq(Calls)]
  BY <1>1, <1>3 DEF TypeOK
<1> QED BY <1>4, <1>5, <1>6

(* A half that has not been handed out has nothing in common with what is  *)
(* outside the call or what the call has handed out.                       *)
LEMMA FreshHalf ==
    ASSUME NEW f \in Calls, NEW c \in Segments, Inside(c, Seg(f)),
           \A d \in HandedOut(f) : Apart(c, d),
           NEW s \in Segments, Apart(s, Seg(f)) \/ Holds(f, s)
    PROVE  Apart(s, c) /\ Apart(c, s)
<1>1. Seg(f) \in Segments
  BY SegOfCall
<1>2. CASE Apart(s, Seg(f))
  BY <1>1, <1>2, ApartInside, ApartSymmetric
<1>3. CASE Holds(f, s)
  <2>1. PICK d \in HandedOut(f) : Inside(s, d)
    BY <1>3 DEF Holds
  <2>2. d \in Segments /\ Apart(c, d)
    BY <2>1, HandedOutProper
  <2> QED BY <2>1, <2>2, ApartInside, ApartSymmetric
<1> QED BY <1>2, <1>3

(* Such a half of an innermost call is outside the other stacks, the tasks *)
(* and what is finished.                                                   *)
LEMMA FreshHalfOutside ==
    ASSUME TypeOK, Structure, NEW t \in Threads, stack[t] # << >>,
           NEW c \in Segments, Inside(c, Seg(Top(t))),
           \A d \in HandedOut(Top(t)) : Apart(c, d)
    PROVE  /\ \A u \in Threads \ {t} : Outside(c, stack[u])
           /\ \A s \in tasks \cup sorted : Apart(s, c) /\ Apart(c, s)
           /\ \A i \in 2 .. Len(stack[t]) : Holds(stack[t][i], c)
<1>1. /\ stack[t] \in Seq(Calls) /\ Top(t) = stack[t][1] /\ Top(t) \in Calls
      /\ 1 \in 1 .. Len(stack[t]) /\ Seg(Top(t)) \in Segments
  BY TopOfStack, SegOfCall
<1>2. ASSUME NEW u \in Threads \ {t} PROVE Outside(c, stack[u])
  <2> SUFFICES ASSUME NEW j \in 1 .. Len(stack[u])
               PROVE  Apart(c, Seg(stack[u][j])) \/ Holds(stack[u][j], c)
    BY DEF Outside
  <2> DEFINE g == stack[u][j]
  <2>1. g \in Calls /\ Seg(g) \in Segments
    <3>1. stack[u] \in Seq(Calls)
      BY DEF TypeOK
    <3> QED BY <3>1, ElementOfSeq, SegOfCall
  <2>2. Apart(Seg(Top(t)), Seg(g)) \/ Holds(Top(t), Seg(g)) \/ Holds(g, Seg(Top(t)))
    BY <1>1 DEF Structure, StacksApart
  <2> HIDE DEF g
  <2>3. CASE Apart(Seg(Top(t)), Seg(g)) \/ Holds(Top(t), Seg(g))
    <3>1. Apart(Seg(g), Seg(Top(t))) \/ Holds(Top(t), Seg(g))
      BY <2>3, ApartSymmetric
    <3> QED BY <1>1, <2>1, <3>1, FreshHalf DEF g
  <2>4. CASE Holds(g, Seg(Top(t)))
    BY <1>1, <2>1, <2>4, HoldsInside DEF g
  <2> QED BY <2>2, <2>3, <2>4
<1>3. ASSUME NEW s \in tasks \cup sorted PROVE Apart(s, c) /\ Apart(c, s)
  <2>1. s \in Segments /\ (Apart(s, Seg(Top(t))) \/ Holds(Top(t), s))
    BY <1>1 DEF TypeOK, Structure, Outside
  <2> QED BY <1>1, <2>1, FreshHalf
<1>4. ASSUME NEW i \in 2 .. Len(stack[t]) PROVE Holds(stack[t][i], c)
  <2>1. i \in 1 .. Len(stack[t]) /\ 1 < i
    BY <1>1
  <2>2. Holds(stack[t][i], Seg(Top(t)))
    BY <1>1, <2>1 DEF Structure, StackOK, Nested
  <2>3. stack[t][i] \in Calls
    BY <1>1, <2>1, ElementOfSeq
  <2> QED BY <1>1, <2>2, <2>3, HoldsInside
<1> QED BY <1>2, <1>3, <1>4

(* A task is created for such a half.                                      *)
LEMMA SpawnStructure ==
    ASSUME TypeOK, Structure, RegionOK, NEW t \in Threads, stack[t] # << >>,
           NEW f \in Calls, GoOn(t, f),
           Seg(f) = Seg(Top(t)), HandedOut(Top(t)) \subseteq HandedOut(f),
           Running(f, sorted), UNCHANGED <<sorted, entered, finished>>,
           NEW c \in HandedOut(f), tasks' = tasks \cup {c},
           \A d \in HandedOut(Top(t)) : Apart(c, d)
    PROVE  /\ Structure' /\ RegionOK' /\ stack' \in [Threads -> Seq(Calls)]
           /\ tasks' \subseteq Segments
<1> DEFINE q == stack[t]
           p == <<f>> \o Tail(q)
<1>1. stack' = [stack EXCEPT ![t] = p] /\ stack'[t] = p
  BY DEF GoOn, TypeOK
<1>2. q \in Seq(Calls) /\ Top(t) = q[1] /\ StackOK(q, sorted)
  BY TopOfStack DEF Structure
<1>3. /\ p \in Seq(Calls) /\ StackOK(p, sorted) /\ p # << >>
      /\ \A s : Outside(s, q) => Outside(s, p)
      /\ \A r : StacksApart(q, r) => StacksApart(p, r)
      /\ \A s : OnStack(s, q) => OnStack(s, p)
  <2> HIDE DEF q
  <2>1. q # << >>
    BY DEF q
  <2> QED BY <1>2, <2>1, GoOnKeeps
<1>4. c \in Segments /\ Inside(c, Seg(Top(t)))
  BY HandedOutProper
<1>5. /\ \A u \in Threads \ {t} : Outside(c, stack[u])
      /\ \A s \in tasks \cup sorted : Apart(s, c) /\ Apart(c, s)
      /\ \A i \in 2 .. Len(q) : Holds(q[i], c)
  BY <1>4, FreshHalfOutside
<1>6. Outside(c, p)
  <2>1. p[1] = f /\ Len(p) = Len(q) /\ Len(q) \in Nat
        /\ \A i \in 2 .. Len(q) : p[i] = q[i]
    <3> HIDE DEF q
    <3>1. q # << >>
      BY DEF q
    <3> QED BY <1>2, <3>1, GoOnStack
  <2> HIDE DEF p, q
  <2>2. Holds(f, c)
    <3>1. Inside(c, c)
      BY <1>4, SegmentBounds DEF Inside
    <3> QED BY <3>1 DEF Holds
  <2> QED BY <1>5, <2>1, <2>2 DEF Outside
<1> HIDE DEF p
<1>7. Structure'
  <2>1. \A u \in Threads \ {t} : StacksApart(p, stack[u])
    BY <1>3 DEF Structure
  <2>2. \A s \in tasks' \cup sorted' :
           Outside(s, p) /\ \A u \in Threads \ {t} : Outside(s, stack[u])
    BY <1>3, <1>5, <1>6 DEF Structure
  <2>3. /\ \A s, r \in tasks' : s # r => Apart(s, r)
        /\ \A s \in tasks', r \in sorted' : Apart(s, r)
        /\ StackOK(p, sorted') /\ sorted \subseteq sorted'
    BY <1>3, <1>5 DEF Structure
  <2> QED BY <1>1, <1>3, <2>1, <2>2, <2>3, StackChange
<1>8. RegionOK'
  <2>1. entered /\ ~finished
    BY DEF RegionOK
  <2>2. ASSUME NEW u \in Threads, OnStack(Root, stack[u]) PROVE OnStack(Root, stack'[u])
    <3>1. stack'[u] = IF u = t THEN p ELSE stack[u]
      BY <1>1 DEF TypeOK
    <3> QED BY <1>3, <2>2, <3>1
  <2> QED BY <2>1, <2>2 DEF RegionOK, OnStack
<1>9. stack' \in [Threads -> Seq(Calls)]
  BY <1>1, <1>3 DEF TypeOK
<1>10. tasks' \subseteq Segments
  BY <1>4 DEF TypeOK
<1> QED BY <1>7, <1>8, <1>9, <1>10

(* A call at its beginning, or one that merges, holds nothing alive.       *)
LEMMA NothingAlive ==
    ASSUME TypeOK, Structure, NEW t \in Threads, stack[t] # << >>,
           Top(t).pc = "call" \/ Top(t).pc \in Merging
    PROVE  /\ \A s \in tasks : ~Holds(Top(t), s)
           /\ \A u \in Threads : \A j \in 1 .. Len(stack[u]) :
                 ~Holds(Top(t), Seg(stack[u][j]))
<1> DEFINE f == Top(t)
<1>1. f \in Calls /\ Running(f, sorted)
  BY TopOfStack DEF Structure, StackOK
<1>2. CASE f.pc = "call"
  BY <1>2 DEF Holds, HandedOut
<1>3. CASE f.pc \in Merging
  <2>1. f.left < f.right /\ Left(f) \in sorted /\ Right(f) \in sorted
    BY <1>1, <1>3 DEF Running, Merging, Calls
  <2>2. ASSUME NEW s \in tasks, NEW d \in HandedOut(f) PROVE ~Inside(s, d)
    <3>1. d \in sorted /\ d \in Segments /\ s \in Segments /\ Apart(s, d)
      BY <1>1, <2>1, HandedOutProper DEF TypeOK, Structure
    <3> QED BY <3>1, ApartInside
  <2>3. ASSUME NEW u \in Threads, NEW j \in 1 .. Len(stack[u])
        PROVE  ~Holds(f, Seg(stack[u][j]))
    <3>1. stack[u] \in Seq(Calls) /\ Outside(Left(f), stack[u]) /\ Outside(Right(f), stack[u])
      BY <2>1 DEF TypeOK, Structure
    <3> QED BY <1>1, <2>1, <3>1, FinishedHoldsNothing
  <2> QED BY <2>2, <2>3 DEF Holds
<1> QED BY <1>2, <1>3

(* The innermost call returns.                                             *)
LEMMA ReturnStructure ==
    ASSUME TypeOK, Structure, RegionOK, NEW t \in Threads, stack[t] # << >>,
           Top(t).pc = "call" \/ Top(t).pc \in Merging,
           Return(t), UNCHANGED <<tasks, entered, finished>>
    PROVE  /\ Structure' /\ RegionOK' /\ stack' \in [Threads -> Seq(Calls)]
           /\ sorted' \subseteq Segments
<1> DEFINE q == stack[t]
           p == Tail(q)
           s0 == Seg(Top(t))
<1>1. stack' = [stack EXCEPT ![t] = p] /\ stack'[t] = p /\ sorted' = sorted \cup {s0}
  BY DEF Return, TypeOK, Seg
<1>2. q \in Seq(Calls) /\ Top(t) = q[1] /\ StackOK(q, sorted) /\ 1 \in 1 .. Len(q)
      /\ Top(t) \in Calls /\ s0 \in Segments
  BY TopOfStack, SegOfCall DEF Structure
<1>3. /\ p \in Seq(Calls) /\ StackOK(p, sorted')
      /\ \A s : Outside(s, q) => Outside(s, p)
      /\ \A r : StacksApart(q, r) => StacksApart(p, r)
      /\ \A s : OnStack(s, q) => OnStack(s, p) \/ s \in sorted'
      /\ Outside(s0, p)
  <2> HIDE DEF q
  <2>1. q # << >>
    BY DEF q
  <2> QED BY <1>1, <1>2, <2>1, PopKeeps
<1>4. ASSUME NEW u \in Threads \ {t} PROVE Outside(s0, stack[u])
  <2> SUFFICES ASSUME NEW j \in 1 .. Len(stack[u])
               PROVE  Apart(s0, Seg(stack[u][j])) \/ Holds(stack[u][j], s0)
    BY DEF Outside
  <2>1. ~Holds(Top(t), Seg(stack[u][j]))
    BY NothingAlive
  <2>2. StacksApart(q, stack[u])
    BY DEF Structure
  <2> QED BY <1>2, <2>1, <2>2 DEF StacksApart
<1>5. ASSUME NEW s \in tasks PROVE Apart(s, s0)
  <2>1. ~Holds(Top(t), s)
    BY NothingAlive
  <2>2. Outside(s, q)
    BY DEF Structure
  <2> QED BY <1>2, <2>1, <2>2 DEF Outside
<1> HIDE DEF p
<1>6. Structure'
  <2>1. \A u \in Threads \ {t} : StacksApart(p, stack[u])
    BY <1>3 DEF Structure
  <2>2. \A s \in tasks' \cup sorted' :
           Outside(s, p) /\ \A u \in Threads \ {t} : Outside(s, stack[u])
    BY <1>1, <1>3, <1>4 DEF Structure
  <2>3. /\ \A s, r \in tasks' : s # r => Apart(s, r)
        /\ \A s \in tasks', r \in sorted' : Apart(s, r)
        /\ sorted \subseteq sorted'
    BY <1>1, <1>5 DEF Structure
  <2> QED BY <1>1, <1>3, <2>1, <2>2, <2>3, StackChange
<1>7. RegionOK'
  <2>1. entered /\ ~finished
    BY DEF RegionOK
  <2>2. ASSUME NEW u \in Threads, OnStack(Root, stack[u])
        PROVE  OnStack(Root, stack'[u]) \/ Root \in sorted'
    <3>1. stack'[u] = IF u = t THEN p ELSE stack[u]
      BY <1>1 DEF TypeOK
    <3> QED BY <1>3, <2>2, <3>1
  <2> QED BY <1>1, <2>1, <2>2 DEF RegionOK, OnStack
<1>8. stack' \in [Threads -> Seq(Calls)] /\ sorted' \subseteq Segments
  BY <1>1, <1>2, <1>3 DEF TypeOK
<1> QED BY <1>6, <1>7, <1>8

(* The innermost call calls itself for a half it has not handed out.       *)
LEMMA RecurseStructure ==
    ASSUME TypeOK, Structure, RegionOK, NEW t \in Threads, stack[t] # << >>,
           NEW f \in Calls, NEW g \in Calls, Recurse(t, f, g), g.pc = "call",
           Seg(f) = Seg(Top(t)), HandedOut(Top(t)) \subseteq HandedOut(f),
           Seg(g) \in HandedOut(f), Suspended(f, g, sorted),
           \A d \in HandedOut(Top(t)) : Apart(Seg(g), d),
           UNCHANGED <<tasks, sorted, entered, finished>>
    PROVE  Structure' /\ RegionOK' /\ stack' \in [Threads -> Seq(Calls)]
<1> DEFINE q == stack[t]
           m == <<f>> \o Tail(q)
           p == <<g>> \o m
           c == Seg(g)
<1>1. q \in Seq(Calls) /\ Top(t) = q[1] /\ StackOK(q, sorted) /\ 1 \in 1 .. Len(q)
      /\ c \in Segments /\ Inside(c, Seg(Top(t)))
  BY TopOfStack, HandedOutProper DEF Structure
<1>2. /\ m \in Seq(Calls) /\ Len(m) = Len(q) /\ Len(q) \in Nat \ {0}
      /\ m # << >> /\ m[1] = f /\ Tail(q) \in Seq(Calls)
      /\ \A i \in 2 .. Len(q) : m[i] = q[i] /\ q[i] \in Calls
  <2> HIDE DEF q
  <2>1. q # << >>
    BY DEF q
  <2> QED BY <1>1, <2>1, GoOnStack, PopStack
<1>3. p = <<g, f>> \o Tail(q)
  BY <1>2, PushTwice
<1>4. stack' = [stack EXCEPT ![t] = p] /\ stack'[t] = p
  BY <1>3 DEF Recurse, TypeOK
<1> HIDE DEF m
<1>5. /\ \A u \in Threads \ {t} : Outside(c, stack[u])
      /\ \A s \in tasks \cup sorted : Apart(s, c)
      /\ \A i \in 2 .. Len(q) : Holds(q[i], c)
  BY <1>1, FreshHalfOutside
<1>6. ASSUME NEW i \in 1 .. Len(m)
      PROVE  Seg(m[i]) = Seg(q[i]) /\ \A s : Holds(q[i], s) => Holds(m[i], s)
  <2>1. i \in 1 .. Len(q) /\ (i = 1 \/ i \in 2 .. Len(q))
    BY <1>2
  <2> HIDE DEF q
  <2> QED BY <1>1, <1>2, <2>1 DEF Holds
<1>7. /\ Nested(m)
      /\ \A i \in 2 .. Len(m) : Suspended(m[i], m[i - 1], sorted)
      /\ \A s : Outside(s, q) => Outside(s, m)
      /\ \A r : StacksApart(q, r) => StacksApart(m, r)
      /\ \A s : OnStack(s, q) => OnStack(s, m)
  <2>1. Nested(m)
    BY <1>1, <1>2, <1>6 DEF StackOK, Nested
  <2>2. ASSUME NEW i \in 2 .. Len(m) PROVE Suspended(m[i], m[i - 1], sorted)
    <3>1. i - 1 \in 1 .. Len(m) /\ i \in 2 .. Len(q)
      BY <1>2
    <3>2. m[i] = q[i] /\ Seg(m[i - 1]) = Seg(q[i - 1])
      BY <1>2, <1>6, <3>1
    <3>3. Suspended(q[i], q[i - 1], sorted)
      BY <1>1, <3>1 DEF StackOK
    <3> QED BY <3>2, <3>3 DEF Suspended
  <2> HIDE DEF q
  <2>3. \A s : Outside(s, q) => Outside(s, m)
    BY <1>2, <1>6 DEF Outside
  <2>4. \A r : StacksApart(q, r) => StacksApart(m, r)
    BY <1>2, <1>6 DEF StacksApart
  <2>5. \A s : OnStack(s, q) => OnStack(s, m)
    BY <1>2, <1>6 DEF OnStack
  <2> QED BY <2>1, <2>2, <2>3, <2>4, <2>5
<1>8. \A i \in 1 .. Len(m) : Holds(m[i], c)
  <2>1. Holds(f, c)
    <3>1. Inside(c, c)
      BY <1>1, SegmentBounds DEF Inside
    <3> QED BY <3>1 DEF Holds
  <2> HIDE DEF q, c
  <2> QED BY <1>2, <1>5, <2>1
<1>9. /\ p \in Seq(Calls) /\ StackOK(p, sorted) /\ p # << >>
      /\ \A s : Outside(s, m) /\ Apart(s, c) => Outside(s, p)
      /\ \A r : StacksApart(m, r) /\ Outside(c, r) => StacksApart(p, r)
      /\ \A s : OnStack(s, m) => OnStack(s, p)
  BY <1>2, <1>7, <1>8, PushKeeps
<1> HIDE DEF p
<1>10. Structure'
  <2>1. \A u \in Threads \ {t} : StacksApart(p, stack[u])
    BY <1>5, <1>7, <1>9 DEF Structure
  <2>2. \A s \in tasks' \cup sorted' :
           Outside(s, p) /\ \A u \in Threads \ {t} : Outside(s, stack[u])
    BY <1>5, <1>7, <1>9 DEF Structure
  <2>3. /\ \A s, r \in tasks' : s # r => Apart(s, r)
        /\ \A s \in tasks', r \in sorted' : Apart(s, r)
        /\ StackOK(p, sorted') /\ sorted \subseteq sorted'
    BY <1>9 DEF Structure
  <2> QED BY <1>4, <1>9, <2>1, <2>2, <2>3, StackChange
<1>11. RegionOK'
  <2>1. entered /\ ~finished
    BY DEF RegionOK
  <2>2. ASSUME NEW u \in Threads, OnStack(Root, stack[u]) PROVE OnStack(Root, stack'[u])
    <3>1. stack'[u] = IF u = t THEN p ELSE stack[u]
      BY <1>4 DEF TypeOK
    <3> QED BY <1>7, <1>9, <2>2, <3>1
  <2> QED BY <2>1, <2>2 DEF RegionOK, OnStack
<1>12. stack' \in [Threads -> Seq(Calls)]
  BY <1>4, <1>9 DEF TypeOK
<1> QED BY <1>10, <1>11, <1>12

(* A thread starts a task.                                                 *)
LEMMA StartStructure ==
    ASSUME TypeOK, Structure, RegionOK, NEW t \in Threads, NEW task \in tasks,
           MayStart(t, task), NEW g \in Calls, Seg(g) = task, g.pc = "call",
           stack' = [stack EXCEPT ![t] = <<g>> \o @], tasks' = tasks \ {task},
           UNCHANGED <<sorted, entered, finished>>
    PROVE  /\ Structure' /\ RegionOK' /\ stack' \in [Threads -> Seq(Calls)]
           /\ tasks' \subseteq Segments
<1> DEFINE q == stack[t]
           p == <<g>> \o q
<1>1. stack' = [stack EXCEPT ![t] = p] /\ stack'[t] = p /\ q \in Seq(Calls)
  BY DEF TypeOK
<1>2. StackOK(q, sorted) /\ Outside(task, q) /\ task \in Segments
  BY DEF Structure, TypeOK
<1>3. ASSUME NEW i \in 1 .. Len(q) PROVE Holds(q[i], task)
  <2>1. q # << >> /\ q[i] \in Calls /\ Seg(q[i]) \in Segments /\ DOMAIN q = 1 .. Len(q)
    BY <1>1, ElementOfSeq, SegOfCall, EmptySeq
  <2>2. Inside(task, Seg(q[i]))
    BY <2>1 DEF MayStart, Inside, Seg
  <2>3. ~Apart(task, Seg(q[i]))
    BY <1>2, <2>1, <2>2, ApartInside
  <2> QED BY <1>2, <2>3 DEF Outside
<1>4. q # << >> => Suspended(q[1], g, sorted)
  BY TopOfStack DEF MayStart, Suspended
<1>5. /\ p \in Seq(Calls) /\ StackOK(p, sorted) /\ p # << >>
      /\ \A s : Outside(s, q) /\ Apart(s, task) => Outside(s, p)
      /\ \A r : StacksApart(q, r) /\ Outside(task, r) => StacksApart(p, r)
      /\ \A s : OnStack(s, q) => OnStack(s, p)
  <2>1. Nested(q) /\ \A i \in 2 .. Len(q) : Suspended(q[i], q[i - 1], sorted)
    BY <1>2 DEF StackOK
  <2> HIDE DEF q
  <2> QED BY <1>1, <1>3, <1>4, <2>1, PushKeeps
<1> HIDE DEF p
<1>6. Structure'
  <2>1. \A u \in Threads \ {t} : StacksApart(p, stack[u])
    BY <1>5 DEF Structure
  <2>2. \A s \in tasks' \cup sorted' :
           Outside(s, p) /\ \A u \in Threads \ {t} : Outside(s, stack[u])
    <3>1. \A s \in tasks' \cup sorted' : Apart(s, task)
      BY ApartSymmetric DEF Structure
    <3> QED BY <1>5, <3>1 DEF Structure
  <2>3. /\ \A s, r \in tasks' : s # r => Apart(s, r)
        /\ \A s \in tasks', r \in sorted' : Apart(s, r)
        /\ StackOK(p, sorted') /\ sorted \subseteq sorted'
    BY <1>5 DEF Structure
  <2> QED BY <1>1, <1>5, <2>1, <2>2, <2>3, StackChange
<1>7. RegionOK'
  <2>1. entered /\ ~finished
    BY DEF RegionOK
  <2>2. ASSUME NEW u \in Threads, OnStack(Root, stack[u]) PROVE OnStack(Root, stack'[u])
    <3>1. stack'[u] = IF u = t THEN p ELSE stack[u]
      BY <1>1 DEF TypeOK
    <3> QED BY <1>5, <2>2, <3>1
  <2> QED BY <2>1, <2>2 DEF RegionOK, OnStack
<1>8. stack' \in [Threads -> Seq(Calls)] /\ tasks' \subseteq Segments
  BY <1>1, <1>5 DEF TypeOK
<1> QED BY <1>6, <1>7, <1>8

(* The first call.                                                         *)
LEMMA SingleStructure ==
    ASSUME TypeOK, Structure, RegionOK, NEW t \in Threads, Single(t)
    PROVE  Structure' /\ RegionOK' /\ stack' \in [Threads -> Seq(Calls)]
<1> DEFINE g == Call(Root, TRUE)
           p == <<g>>
<1>1. g \in Calls /\ g.pc = "call" /\ Seg(g) = Root
  BY IndexBounds DEF Call, Calls, CallType, Root, Seg
<1>2. tasks = {} /\ sorted = {} /\ \A u \in Threads : stack[u] = << >>
  BY DEF RegionOK, Single
<1>3. stack' = [stack EXCEPT ![t] = p] /\ stack'[t] = p
      /\ \A u \in Threads \ {t} : stack'[u] = << >>
  BY <1>2 DEF Single, Root, TypeOK
<1> HIDE DEF g
<1>4. p \in Seq(Calls) /\ Len(p) = 1 /\ p[1] = g
  BY <1>1
<1> HIDE DEF p
<1>5. StackOK(p, sorted')
  BY <1>1, <1>4 DEF StackOK, Nested, Running, Merging
<1>6. \A u \in Threads \ {t} : StacksApart(p, stack[u])
  BY <1>2 DEF StacksApart
<1>7. tasks' = {} /\ sorted' = {} /\ entered' /\ finished' = finished
  BY <1>2 DEF Single
<1>8. Structure'
  <2>1. /\ \A s \in tasks' \cup sorted' :
              Outside(s, p) /\ \A u \in Threads \ {t} : Outside(s, stack[u])
        /\ \A s, r \in tasks' : s # r => Apart(s, r)
        /\ \A s \in tasks', r \in sorted' : Apart(s, r)
        /\ sorted \subseteq sorted'
    BY <1>2, <1>7
  <2> QED BY <1>3, <1>4, <1>5, <1>6, <2>1, StackChange
<1>9. OnStack(Root, stack'[t])
  <2>1. 1 \in 1 .. Len(p) /\ Seg(p[1]) = Root
    BY <1>1, <1>4
  <2>2. OnStack(Root, p)
    BY <2>1 DEF OnStack
  <2> QED BY <1>3, <2>2
<1>10. ~finished
  BY DEF RegionOK, Single
<1>11. RegionOK'
  BY <1>7, <1>9, <1>10 DEF RegionOK, OnStack
<1>12. stack' \in [Threads -> Seq(Calls)]
  <2>1. stack \in [Threads -> Seq(Calls)] /\ stack' = [stack EXCEPT ![t] = p]
    BY <1>3 DEF TypeOK
  <2> QED BY <1>4, <2>1
<1> QED BY <1>8, <1>11, <1>12

-----------------------------------------------------------------------------
(* What follows from the structure: threads that touch the array touch     *)
(* different parts of it, and merges begin with sorted runs.               *)

(* A thread whose innermost call begins or merges.                         *)
Busy(t) == stack[t] # << >> /\ (Top(t).pc = "call" \/ Top(t).pc \in Merging)

(* Two such threads are in different segments.                             *)
LEMMA BusyApart ==
    ASSUME TypeOK, Structure, NEW t \in Threads, NEW u \in Threads, t # u,
           Busy(t), Busy(u)
    PROVE  Apart(Seg(Top(t)), Seg(Top(u)))
<1>1. /\ Top(t) = stack[t][1] /\ 1 \in 1 .. Len(stack[t])
      /\ Top(u) = stack[u][1] /\ 1 \in 1 .. Len(stack[u])
  BY TopOfStack DEF Busy
<1>2. StacksApart(stack[t], stack[u])
  BY DEF Structure
<1>3. ~Holds(Top(t), Seg(Top(u))) /\ ~Holds(Top(u), Seg(Top(t)))
  BY <1>1, NothingAlive DEF Busy
<1> QED BY <1>1, <1>2, <1>3 DEF StacksApart

(* So they never touch the same element.                                   *)
LEMMA NoConflictHolds ==
    ASSUME TypeOK, Structure
    PROVE  NoConflict
<1> SUFFICES ASSUME NEW t \in Threads, NEW u \in Threads, t # u,
                    NEW x \in Touches(t), x \in Touches(u)
             PROVE  FALSE
  BY DEF NoConflict
<1>1. /\ Busy(t) /\ x \in Top(t).left .. Top(t).right
      /\ Busy(u) /\ x \in Top(u).left .. Top(u).right
  BY DEF Touches, At, Busy, Merging
<1>2. Apart(Seg(Top(t)), Seg(Top(u)))
  BY <1>1, BusyApart
<1>3. /\ Top(t).left \in Int /\ Top(t).right \in Int
      /\ Top(u).left \in Int /\ Top(u).right \in Int
  BY <1>1, TopOfStack, IndexBounds DEF Busy, Calls, CallType
<1> QED BY <1>1, <1>2, <1>3 DEF Apart, Seg

(* A call about to merge finds both its halves in order: they are          *)
(* finished, and no other thread is merging over them.                     *)
LEMMA RunsAscending ==
    ASSUME TypeOK, Structure, SortedInOrder, NEW t \in Threads,
           At(t, "copy") \/ At(t, "refill")
    PROVE  /\ Ascending(arr, Top(t).left, Mid(Top(t).left, Top(t).right))
           /\ Ascending(arr, Mid(Top(t).left, Top(t).right) + 1, Top(t).right)
           /\ Top(t).left < Top(t).right
<1> DEFINE f == Top(t)
<1>1. f \in Calls /\ Running(f, sorted) /\ f.pc \in Merging /\ Busy(t) /\ Seg(f) \in Segments
  BY TopOfStack, SegOfCall DEF Structure, StackOK, At, Merging, Busy
<1>2. f.left < f.right /\ Left(f) \in sorted /\ Right(f) \in sorted
  BY <1>1 DEF Running, Merging, Calls
<1>3. ASSUME NEW r \in {Left(f), Right(f)} PROVE Ascending(arr, r[1], r[2])
  <2>1. r \in sorted /\ r \in Segments /\ Inside(r, Seg(f))
    BY <1>1, <1>2, Halves
  <2>2. CASE \E u \in Threads : At(u, "merge") /\ Inside(r, Seg(Top(u)))
    <3>1. PICK u \in Threads : At(u, "merge") /\ Inside(r, Seg(Top(u)))
      BY <2>2
    <3>2. u # t /\ Busy(u) /\ Seg(Top(u)) \in Segments
      BY <3>1, TopOfStack, SegOfCall DEF At, Busy, Merging
    <3>3. Apart(Seg(f), Seg(Top(u)))
      BY <1>1, <3>2, BusyApart
    <3>4. Apart(r, Seg(Top(u)))
      BY <1>1, <2>1, <3>2, <3>3, ApartInside
    <3> QED BY <2>1, <3>1, <3>2, <3>4, ApartInside
  <2> QED BY <2>1, <2>2 DEF SortedInOrder
<1> QED BY <1>2, <1>3 DEF Left, Right

(* So a merge begins with two runs in order.                               *)
LEMMA MergesSortedRunsHolds ==
    ASSUME TypeOK, Structure, SortedInOrder
    PROVE  MergesSortedRuns
<1> SUFFICES ASSUME NEW t \in Threads, At(t, "copy")
             PROVE  SortedOn(arr, Left(Top(t))) /\ SortedOn(arr, Right(Top(t)))
  BY DEF MergesSortedRuns
<1> DEFINE f == Top(t)
<1>1. /\ Ascending(arr, f.left, Mid(f.left, f.right))
      /\ Ascending(arr, Mid(f.left, f.right) + 1, f.right)
      /\ f.left < f.right
  BY RunsAscending
<1>2. f \in Calls
  BY TopOfStack DEF At
<1>3. f.left \in Int /\ f.right \in Int /\ Mid(f.left, f.right) \in Int
  BY <1>1, <1>2, Halves, IndexBounds DEF Calls, CallType
<1> DEFINE m == Mid(f.left, f.right)
<1> HIDE DEF f, m
<1>4. /\ \A x \in f.left + 1 .. m : arr[x - 1] <= arr[x]
      /\ \A x \in m + 1 + 1 .. f.right : arr[x - 1] <= arr[x]
  BY <1>1, <1>3 DEF Ascending, m
<1> QED BY <1>4 DEF SortedOn, Left, Right, f, m

-----------------------------------------------------------------------------
(* What is finished stays in order.                                        *)

(* A step that writes nothing and ends no merge.                           *)
LEMMA SortedStill ==
    ASSUME SortedInOrder, NEW t \in Threads, ~At(t, "merge"),
           UNCHANGED <<arr, sorted>>,
           \A u \in Threads \ {t} : stack'[u] = stack[u]
    PROVE  SortedInOrder'
<1> SUFFICES ASSUME NEW r \in sorted
             PROVE  \/ Ascending(arr, r[1], r[2])
                    \/ \E u \in Threads : At(u, "merge")' /\ Inside(r, Seg(Top(u)'))
  BY DEF SortedInOrder, Ascending, Inside, Seg
<1>1. CASE \E u \in Threads : At(u, "merge") /\ Inside(r, Seg(Top(u)))
  <2>1. PICK u \in Threads : At(u, "merge") /\ Inside(r, Seg(Top(u)))
    BY <1>1
  <2>2. u # t /\ stack'[u] = stack[u]
    BY <2>1
  <2> QED BY <2>1, <2>2 DEF At, Top
<1> QED BY <1>1 DEF SortedInOrder

(* A step that writes in the segment of its call, and either leaves it in  *)
(* order or is a step of a merge.                                          *)
LEMMA SortedKept ==
    ASSUME TypeOK, Structure, SortedInOrder, NEW t \in Threads, stack[t] # << >>,
           \A x \in Index \ (Top(t).left .. Top(t).right) : arr'[x] = arr[x],
           \A u \in Threads \ {t} : stack'[u] = stack[u],
           \/ /\ Ascending(arr', Top(t).left, Top(t).right)
              /\ sorted' = sorted \cup {Seg(Top(t))}
           \/ At(t, "merge")' /\ Seg(Top(t)') = Seg(Top(t)) /\ sorted' = sorted
    PROVE  SortedInOrder'
<1> DEFINE f == Top(t)
<1>1. f \in Calls /\ f = stack[t][1] /\ 1 \in 1 .. Len(stack[t]) /\ Seg(f) \in Segments
  BY TopOfStack, SegOfCall
<1> SUFFICES ASSUME NEW r \in sorted'
             PROVE  \/ Ascending(arr', r[1], r[2])
                    \/ \E u \in Threads : At(u, "merge")' /\ Inside(r, Seg(Top(u)'))
  BY DEF SortedInOrder, Ascending, Inside, Seg
<1>2. r \in Segments /\ r[1] \in Int /\ r[2] \in Int /\ r[1] <= r[2]
  BY <1>1, SegmentBounds DEF TypeOK
<1>3. f.left \in Int /\ f.right \in Int
  BY <1>1, IndexBounds DEF Calls, CallType
<1>4. CASE Inside(r, Seg(f))
  <2>1. CASE Ascending(arr', f.left, f.right)
    <3> HIDE DEF f
    <3> QED BY <1>2, <1>3, <1>4, <2>1 DEF Ascending, Inside, Seg
  <2> QED BY <1>4, <2>1
<1>5. CASE ~Inside(r, Seg(f))
  <2>1. r \in sorted
    <3>1. Inside(Seg(f), Seg(f))
      BY <1>1, SegmentBounds DEF Inside
    <3> QED BY <1>5, <3>1
  <2>2. Apart(r, Seg(f))
    <3>1. Apart(r, Seg(f)) \/ Holds(f, r)
      BY <1>1, <2>1 DEF Structure, Outside
    <3> QED BY <1>1, <1>2, <1>5, <3>1, HoldsIsInside
  <2>3. CASE Ascending(arr, r[1], r[2])
    <3>1. ASSUME NEW x \in r[1] .. r[2] PROVE arr'[x] = arr[x]
      <4>1. x \in Index
        BY <1>2, IndexBounds DEF Segments
      <4>2. x \notin f.left .. f.right
        <5> HIDE DEF f
        <5> QED BY <1>2, <1>3, <2>2 DEF Apart, Seg
      <4> QED BY <4>1, <4>2
    <3> QED BY <2>3, <3>1 DEF Ascending
  <2>4. CASE \E u \in Threads : At(u, "merge") /\ Inside(r, Seg(Top(u)))
    <3>1. PICK u \in Threads : At(u, "merge") /\ Inside(r, Seg(Top(u)))
      BY <2>4
    <3>2. u # t /\ stack'[u] = stack[u]
      BY <1>5, <3>1
    <3> QED BY <3>1, <3>2 DEF At, Top
  <2> QED BY <2>1, <2>3, <2>4 DEF SortedInOrder
<1> QED BY <1>4, <1>5

-----------------------------------------------------------------------------
(* Tiles.                                                                  *)

(* A tile holds the next elements of its run, and at least one while there *)
(* are any.                                                                *)
LEMMA TileProperties ==
    ASSUME NEW base \in Int, NEW run \in Nat, NEW read \in Nat, read <= run,
           \A x \in base .. base + run - 1 : temp[x] \in Values
    PROVE  LET tile == Tile(base, run, read)
           IN  /\ tile \in Seq(Values) /\ Len(tile) \in Nat
               /\ read + Len(tile) <= run
               /\ tile = << >> => read = run
               /\ \A x \in 1 .. Len(tile) : tile[x] = temp[base + read + x - 1]
<1> DEFINE n == IF TILE_ELEMS < run - read THEN TILE_ELEMS ELSE run - read
           tile == [x \in 1 .. n |-> temp[base + read + x - 1]]
<1>1. n \in Nat /\ read + n <= run /\ (n = 0 => read = run)
  BY SortAssumption
<1> HIDE DEF n
<1>2. \A x \in 1 .. n : temp[base + read + x - 1] \in Values
  BY <1>1
<1>3. tile \in Seq(Values) /\ Len(tile) = n
        /\ \A x \in 1 .. n : tile[x] = temp[base + read + x - 1]
  BY <1>1, <1>2
<1>4. tile = << >> => n = 0
  BY <1>3
<1> HIDE DEF tile
<1> QED BY <1>1, <1>3, <1>4 DEF Tile, tile, n

(* The bounds of the two runs of a call that merges.                       *)
LEMMA RunBounds ==
    ASSUME NEW f \in CallType, f.left < f.right
    PROVE  /\ f.left \in Int /\ f.right \in Int /\ Mid(f.left, f.right) \in Int
           /\ f.left <= Mid(f.left, f.right) /\ Mid(f.left, f.right) < f.right
           /\ f.i_src \in Nat /\ f.j_src \in Nat /\ f.k \in Int
           /\ f.bufL \in Seq(Values) /\ Len(f.bufL) \in Nat
           /\ f.bufR \in Seq(Values) /\ Len(f.bufR) \in Nat
           /\ NextL(f) = f.left + f.i_src - Len(f.bufL) /\ NextL(f) \in Int
           /\ NextR(f) = Mid(f.left, f.right) + 1 + f.j_src - Len(f.bufR)
           /\ NextR(f) \in Int
<1>1. /\ f.left \in Int /\ f.right \in Int /\ f.i_src \in Nat /\ f.j_src \in Nat
      /\ f.k \in Int /\ f.bufL \in Seq(Values) /\ f.bufR \in Seq(Values)
  BY IndexBounds DEF CallType
<1>2. Len(f.bufL) \in Nat /\ Len(f.bufR) \in Nat
  BY <1>1
<1> DEFINE l == f.left
           r == f.right
           m == Mid(l, r)
<1>3. m \in Int /\ l <= m /\ m < r
  BY <1>1 DEF Mid
<1> HIDE DEF m
<1> QED BY <1>1, <1>2, <1>3 DEF NextL, NextR, m

(* Refilling the left tile.                                                *)
LEMMA RefillLKeeps ==
    ASSUME NEW f \in CallType, f.left < f.right, LeftTile(f, temp),
           \A x \in f.left .. f.right : temp[x] \in Values
    PROVE  LET g == RefillL(f)
           IN  /\ g \in CallType
               /\ g.left = f.left /\ g.right = f.right /\ g.parallel = f.parallel
               /\ g.pc = f.pc /\ g.k = f.k /\ g.bufR = f.bufR /\ g.j_src = f.j_src
               /\ LeftTile(g, temp) /\ LeftFull(g) /\ NextL(g) = NextL(f)
<1> DEFINE m == Mid(f.left, f.right)
           tile == Tile(f.left, m - f.left + 1, f.i_src)
           g == RefillL(f)
<1>1. /\ f.left \in Int /\ f.right \in Int /\ m \in Int
      /\ f.left <= m /\ m < f.right
      /\ f.i_src \in Nat /\ f.bufL \in Seq(Values) /\ Len(f.bufL) \in Nat
      /\ NextL(f) = f.left + f.i_src - Len(f.bufL)
  BY RunBounds
<1>2. f.i_src <= m - f.left + 1 /\ m - f.left + 1 \in Nat
  BY <1>1 DEF LeftTile
<1> HIDE DEF m
<1>3. \A x \in f.left .. f.left + (m - f.left + 1) - 1 : temp[x] \in Values
  BY <1>1
<1>4. /\ tile \in Seq(Values) /\ Len(tile) \in Nat
      /\ f.i_src + Len(tile) <= m - f.left + 1
      /\ tile = << >> => f.i_src = m - f.left + 1
      /\ \A x \in 1 .. Len(tile) : tile[x] = temp[f.left + f.i_src + x - 1]
  BY <1>1, <1>2, <1>3, TileProperties
<1>5. g = IF f.bufL = << >> THEN [f EXCEPT !.bufL = tile, !.i_src = @ + Len(tile)] ELSE f
  BY DEF RefillL, m
<1> HIDE DEF tile, g
<1>6. CASE f.bufL # << >>
  BY <1>5, <1>6 DEF LeftFull, g
<1>7. CASE f.bufL = << >>
  <2>1. g = [f EXCEPT !.bufL = tile, !.i_src = @ + Len(tile)]
    BY <1>5, <1>7
  <2>2. /\ g \in CallType
        /\ g.left = f.left /\ g.right = f.right /\ g.parallel = f.parallel
        /\ g.pc = f.pc /\ g.k = f.k /\ g.bufR = f.bufR /\ g.j_src = f.j_src
        /\ g.bufL = tile /\ g.i_src = f.i_src + Len(tile)
    <3> DEFINE n == f.i_src + Len(tile)
    <3>1. n \in Nat /\ f \in CallType /\ tile \in Seq(Values)
      BY <1>1, <1>4
    <3>2. g = [f EXCEPT !.bufL = tile, !.i_src = n]
      BY <2>1 DEF CallType
    <3> HIDE DEF n
    <3>3. /\ g.left = f.left /\ g.right = f.right /\ g.parallel = f.parallel
          /\ g.pc = f.pc /\ g.k = f.k /\ g.bufR = f.bufR /\ g.j_src = f.j_src
          /\ g.bufL = tile /\ g.i_src = n
      BY <3>1, <3>2 DEF CallType
    <3>4. g \in CallType
      BY <3>1, <3>2 DEF CallType
    <3> QED BY <3>3, <3>4 DEF n
  <2>3. Len(f.bufL) = 0
    BY <1>7
  <2>4. NextL(g) = NextL(f) /\ NextL(f) = f.left + f.i_src
    BY <1>1, <1>4, <2>2, <2>3 DEF NextL
  <2>5. Mid(g.left, g.right) = m
    BY <2>2 DEF m
  <2>6. LeftTile(g, temp)
    BY <1>1, <1>4, <2>2, <2>4, <2>5 DEF LeftTile
  <2>7. LeftFull(g)
    <3>1. tile = << >> => Len(tile) = 0
      OBVIOUS
    <3> QED BY <1>1, <1>4, <2>2, <2>5, <3>1 DEF LeftFull
  <2> QED BY <2>2, <2>4, <2>6, <2>7 DEF g
<1> QED BY <1>6, <1>7

(* Refilling the right one.                                                *)
LEMMA RefillRKeeps ==
    ASSUME NEW f \in CallType, f.left < f.right, RightTile(f, temp),
           \A x \in f.left .. f.right : temp[x] \in Values
    PROVE  LET g == RefillR(f)
           IN  /\ g \in CallType
               /\ g.left = f.left /\ g.right = f.right /\ g.parallel = f.parallel
               /\ g.pc = f.pc /\ g.k = f.k /\ g.bufL = f.bufL /\ g.i_src = f.i_src
               /\ RightTile(g, temp) /\ RightFull(g) /\ NextR(g) = NextR(f)
<1> DEFINE m == Mid(f.left, f.right)
           tile == Tile(m + 1, f.right - m, f.j_src)
           g == RefillR(f)
<1>1. /\ f.left \in Int /\ f.right \in Int /\ m \in Int
      /\ f.left <= m /\ m < f.right
      /\ f.j_src \in Nat /\ f.bufR \in Seq(Values) /\ Len(f.bufR) \in Nat
      /\ NextR(f) = m + 1 + f.j_src - Len(f.bufR)
  BY RunBounds
<1>2. f.j_src <= f.right - m /\ f.right - m \in Nat
  BY <1>1 DEF RightTile
<1> HIDE DEF m
<1>3. \A x \in m + 1 .. m + 1 + (f.right - m) - 1 : temp[x] \in Values
  BY <1>1
<1>4. /\ tile \in Seq(Values) /\ Len(tile) \in Nat
      /\ f.j_src + Len(tile) <= f.right - m
      /\ tile = << >> => f.j_src = f.right - m
      /\ \A x \in 1 .. Len(tile) : tile[x] = temp[m + 1 + f.j_src + x - 1]
  <2>1. m + 1 \in Int
    BY <1>1
  <2> QED BY <1>1, <1>2, <1>3, <2>1, TileProperties
<1>5. g = IF f.bufR = << >> THEN [f EXCEPT !.bufR = tile, !.j_src = @ + Len(tile)] ELSE f
  BY DEF RefillR, m
<1> HIDE DEF tile, g
<1>6. CASE f.bufR # << >>
  BY <1>5, <1>6 DEF RightFull, g
<1>7. CASE f.bufR = << >>
  <2>1. g = [f EXCEPT !.bufR = tile, !.j_src = @ + Len(tile)]
    BY <1>5, <1>7
  <2>2. /\ g \in CallType
        /\ g.left = f.left /\ g.right = f.right /\ g.parallel = f.parallel
        /\ g.pc = f.pc /\ g.k = f.k /\ g.bufL = f.bufL /\ g.i_src = f.i_src
        /\ g.bufR = tile /\ g.j_src = f.j_src + Len(tile)
    <3> DEFINE n == f.j_src + Len(tile)
    <3>1. n \in Nat /\ f \in CallType /\ tile \in Seq(Values)
      BY <1>1, <1>4
    <3>2. g = [f EXCEPT !.bufR = tile, !.j_src = n]
      BY <2>1 DEF CallType
    <3> HIDE DEF n
    <3>3. /\ g.left = f.left /\ g.right = f.right /\ g.parallel = f.parallel
          /\ g.pc = f.pc /\ g.k = f.k /\ g.bufL = f.bufL /\ g.i_src = f.i_src
          /\ g.bufR = tile /\ g.j_src = n
      BY <3>1, <3>2 DEF CallType
    <3>4. g \in CallType
      BY <3>1, <3>2 DEF CallType
    <3> QED BY <3>3, <3>4 DEF n
  <2>3. Len(f.bufR) = 0
    BY <1>7
  <2>5. Mid(g.left, g.right) = m
    BY <2>2 DEF m
  <2>4. NextR(g) = NextR(f) /\ NextR(f) = m + 1 + f.j_src
    BY <1>1, <1>4, <2>2, <2>3, <2>5 DEF NextR
  <2>6. RightTile(g, temp)
    <3>1. g.j_src <= g.right - m /\ Len(g.bufR) <= g.j_src
      BY <1>1, <1>4, <2>2
    <3>2. \A x \in 1 .. Len(g.bufR) : g.bufR[x] = temp[NextR(g) + x - 1]
      BY <1>4, <2>2, <2>4
    <3> QED BY <2>5, <3>1, <3>2 DEF RightTile
  <2>7. RightFull(g)
    <3>1. tile = << >> => Len(tile) = 0
      OBVIOUS
    <3> QED BY <1>1, <1>4, <2>2, <2>5, <3>1 DEF RightFull
  <2> QED BY <2>2, <2>4, <2>6, <2>7 DEF g
<1> QED BY <1>6, <1>7

-----------------------------------------------------------------------------
(* Merging.                                                                *)

(* How far a merge has come.                                               *)
LEMMA MergeBounds ==
    ASSUME NEW f \in CallType, f.left < f.right, NEW scratch, TilesOK(f, scratch)
    PROVE  LET m == Mid(f.left, f.right)
           IN  /\ f.left <= NextL(f) /\ NextL(f) <= m + 1
               /\ m + 1 <= NextR(f) /\ NextR(f) <= f.right + 1
               /\ f.k = NextL(f) + NextR(f) - (m + 1)
               /\ f.left <= f.k /\ f.k <= f.right + 1
               /\ f.bufL # << >> => NextL(f) <= m /\ Head(f.bufL) = scratch[NextL(f)]
               /\ f.bufL = << >> => NextL(f) = m + 1
               /\ f.bufR # << >> => NextR(f) <= f.right /\ Head(f.bufR) = scratch[NextR(f)]
               /\ f.bufR = << >> => NextR(f) = f.right + 1
<1> DEFINE l == f.left
           r == f.right
           m == Mid(l, r)
           i == f.i_src
           j == f.j_src
           bl == Len(f.bufL)
           br == Len(f.bufR)
           nl == NextL(f)
           nr == NextR(f)
           k == f.k
<1>1. /\ l \in Int /\ r \in Int /\ m \in Int /\ i \in Nat /\ j \in Nat
      /\ bl \in Nat /\ br \in Nat /\ nl \in Int /\ nr \in Int /\ k \in Int
      /\ l <= m /\ m < r /\ nl = l + i - bl /\ nr = m + 1 + j - br
  BY RunBounds
<1>2. /\ i <= m - l + 1 /\ bl <= i /\ j <= r - m /\ br <= j
      /\ k = nl + nr - (m + 1)
  BY DEF TilesOK, LeftTile, RightTile
<1>3. /\ bl > 0 => Head(f.bufL) = scratch[nl + 1 - 1]
      /\ bl = 0 => i = m - l + 1
      /\ br > 0 => Head(f.bufR) = scratch[nr + 1 - 1]
      /\ br = 0 => j = r - m
      /\ f.bufL = << >> <=> bl = 0
      /\ f.bufR = << >> <=> br = 0
  <2>1. f.bufL \in Seq(Values) /\ f.bufR \in Seq(Values)
    BY RunBounds
  <2>2. (f.bufL = << >> <=> bl = 0) /\ (f.bufR = << >> <=> br = 0)
    BY <2>1, EmptySeq
  <2>3. ASSUME bl > 0 PROVE Head(f.bufL) = scratch[nl + 1 - 1]
    <3>1. Head(f.bufL) = f.bufL[1] /\ 1 \in 1 .. Len(f.bufL)
      BY <1>1, <2>1, <2>2, <2>3
    <3> QED BY <3>1 DEF TilesOK, LeftTile
  <2>4. ASSUME br > 0 PROVE Head(f.bufR) = scratch[nr + 1 - 1]
    <3>1. Head(f.bufR) = f.bufR[1] /\ 1 \in 1 .. Len(f.bufR)
      BY <1>1, <2>1, <2>2, <2>4
    <3> QED BY <3>1 DEF TilesOK, RightTile
  <2> QED BY <2>2, <2>3, <2>4 DEF TilesOK, LeftFull, RightFull
<1> HIDE DEF l, r, m, i, j, bl, br, nl, nr, k
<1>4. /\ l <= nl /\ nl <= m + 1 /\ m + 1 <= nr /\ nr <= r + 1
      /\ l <= k /\ k <= r + 1
      /\ bl > 0 => nl <= m
      /\ bl = 0 => nl = m + 1
      /\ br > 0 => nr <= r
      /\ br = 0 => nr = r + 1
      /\ nl + 1 - 1 = nl /\ nr + 1 - 1 = nr
  BY <1>1, <1>2, <1>3
<1>5. (bl > 0 \/ bl = 0) /\ (br > 0 \/ br = 0)
  BY <1>1
<1> QED BY <1>2, <1>3, <1>4, <1>5 DEF l, r, m, i, j, bl, br, nl, nr, k

(* What a call knows of its merge depends on its own segment only.         *)
LEMMA MergeFrame ==
    ASSUME NEW f \in CallType, f.left < f.right,
           NEW a, NEW b, NEW scratch, NEW other,
           \A x \in f.left .. f.right : a[x] = b[x] /\ scratch[x] = other[x]
    PROVE  /\ Copied(f, a, scratch) => Copied(f, b, other)
           /\ TilesOK(f, scratch) => TilesOK(f, other)
           /\ TilesOK(f, scratch) /\ MergeOK(f, a, scratch) => MergeOK(f, b, other)
<1> DEFINE l == f.left
           r == f.right
           m == Mid(l, r)
           bl == Len(f.bufL)
           br == Len(f.bufR)
           nl == NextL(f)
           nr == NextR(f)
           k == f.k
<1>1. /\ l \in Int /\ r \in Int /\ m \in Int /\ k \in Int
      /\ bl \in Nat /\ br \in Nat /\ nl \in Int /\ nr \in Int
      /\ l <= m /\ m < r
  BY RunBounds
<1>2. ASSUME TilesOK(f, scratch)
      PROVE  /\ l <= nl /\ nl + bl <= m + 1 /\ m + 1 <= nr /\ nr + br <= r + 1
             /\ l <= k /\ k <= r + 1
  <2>1. l <= nl /\ m + 1 <= nr /\ l <= k /\ k <= r + 1
    BY <1>2, MergeBounds
  <2> DEFINE i == f.i_src
             j == f.j_src
  <2>2. nl = l + i - bl /\ nr = m + 1 + j - br /\ i \in Nat /\ j \in Nat
    BY RunBounds
  <2>3. i <= m - l + 1 /\ j <= r - m
    BY <1>2 DEF TilesOK, LeftTile, RightTile
  <2> HIDE DEF l, r, m, bl, br, nl, nr, k, i, j
  <2>4. nl + bl <= m + 1 /\ nr + br <= r + 1
    BY <1>1, <2>2, <2>3
  <2> QED BY <2>1, <2>4
<1>3. Copied(f, a, scratch) => Copied(f, b, other)
  BY DEF Copied
<1>4. ASSUME TilesOK(f, scratch) PROVE TilesOK(f, other)
  <2>1. /\ \A x \in 1 .. bl : f.bufL[x] = scratch[nl + x - 1]
        /\ \A x \in 1 .. br : f.bufR[x] = scratch[nr + x - 1]
    BY <1>4 DEF TilesOK, LeftTile, RightTile
  <2>2. \A x \in l .. r : scratch[x] = other[x]
    OBVIOUS
  <2>3. /\ \A x \in 1 .. bl : f.bufL[x] = other[nl + x - 1]
        /\ \A x \in 1 .. br : f.bufR[x] = other[nr + x - 1]
    <3> HIDE DEF l, r, m, bl, br, nl, nr, k
    <3>1. /\ \A x \in 1 .. bl : nl + x - 1 \in l .. r
          /\ \A x \in 1 .. br : nr + x - 1 \in l .. r
      BY <1>1, <1>2, <1>4
    <3> QED BY <2>1, <2>2, <3>1
  <2> QED BY <1>4, <2>3 DEF TilesOK, LeftTile, RightTile
<1>5. ASSUME TilesOK(f, scratch), MergeOK(f, a, scratch) PROVE MergeOK(f, b, other)
  <2>1. /\ \A x \in l .. r : scratch[x] \in Values
        /\ Ascending(scratch, l, m) /\ Ascending(scratch, m + 1, r)
        /\ Ascending(a, l, k - 1)
        /\ \A x \in l .. k - 1 :
             /\ \A y \in nl .. m : a[x] <= scratch[y]
             /\ \A y \in nr .. r : a[x] <= scratch[y]
    BY <1>5 DEF MergeOK
  <2>2. \A x \in l .. r : a[x] = b[x] /\ scratch[x] = other[x]
    OBVIOUS
  <2>3. /\ \A x \in l .. r : other[x] \in Values
        /\ Ascending(other, l, m) /\ Ascending(other, m + 1, r)
        /\ Ascending(b, l, k - 1)
        /\ \A x \in l .. k - 1 :
             /\ \A y \in nl .. m : b[x] <= other[y]
             /\ \A y \in nr .. r : b[x] <= other[y]
    <3> HIDE DEF l, r, m, bl, br, nl, nr, k
    <3>1. l <= nl /\ m + 1 <= nr /\ k <= r + 1
      BY <1>2, <1>5
    <3>2. /\ \A x \in l .. k - 1 : x \in l .. r
          /\ \A y \in nl .. m : y \in l .. r
          /\ \A y \in nr .. r : y \in l .. r
          /\ \A y \in l .. m : y \in l .. r
          /\ \A y \in m + 1 .. r : y \in l .. r
      BY <1>1, <3>1
    <3>3. Ascending(other, l, m) /\ Ascending(other, m + 1, r) /\ Ascending(b, l, k - 1)
      BY <2>1, <2>2, <3>2 DEF Ascending
    <3> QED BY <2>1, <2>2, <3>2, <3>3
  <2> QED BY <2>3 DEF MergeOK
<1> QED BY <1>3, <1>4, <1>5

(* A merge begins: nothing is written yet.                                 *)
LEMMA MergeBegins ==
    ASSUME NEW f \in Calls, f.pc = "refill", f.left < f.right,
           arr \in [Index -> Values], Copied(f, arr, temp),
           Ascending(arr, f.left, Mid(f.left, f.right)),
           Ascending(arr, Mid(f.left, f.right) + 1, f.right)
    PROVE  LET g == [RefillR(RefillL(f)) EXCEPT !.pc = "merge"]
           IN  /\ g \in Calls /\ Seg(g) = Seg(f) /\ g.pc = "merge"
               /\ TilesOK(g, temp) /\ MergeOK(g, arr, temp)
               /\ g.k = f.left /\ NextL(g) = f.left
               /\ NextR(g) = Mid(f.left, f.right) + 1
<1> DEFINE m == Mid(f.left, f.right)
           h == RefillL(f)
           d == RefillR(h)
           g == [d EXCEPT !.pc = "merge"]
<1>1. /\ f.left \in Int /\ f.right \in Int /\ m \in Int
      /\ f.left <= m /\ m < f.right
      /\ NextL(f) = f.left + f.i_src - Len(f.bufL)
      /\ NextR(f) = m + 1 + f.j_src - Len(f.bufR)
      /\ f \in CallType
  BY RunBounds DEF Calls
<1>2. /\ f.bufL = << >> /\ f.bufR = << >> /\ f.i_src = 0 /\ f.j_src = 0 /\ f.k = f.left
      /\ Len(f.bufL) = 0 /\ Len(f.bufR) = 0
      /\ \A x \in f.left .. f.right : temp[x] = arr[x]
  BY DEF Copied
<1>3. \A x \in f.left .. f.right : x \in Index /\ temp[x] \in Values
  BY <1>1, <1>2, IndexBounds DEF CallType
<1> HIDE DEF m
<1>4. LeftTile(f, temp) /\ RightTile(f, temp)
  BY <1>1, <1>2 DEF LeftTile, RightTile, m
<1>5. /\ h \in CallType
      /\ h.left = f.left /\ h.right = f.right
      /\ h.k = f.k /\ h.bufR = f.bufR /\ h.j_src = f.j_src
      /\ LeftTile(h, temp) /\ LeftFull(h) /\ NextL(h) = NextL(f)
  BY <1>1, <1>3, <1>4, RefillLKeeps
<1> HIDE DEF h
<1>6. RightTile(h, temp) /\ NextR(h) = NextR(f)
  BY <1>4, <1>5 DEF RightTile, NextR
<1>7. /\ d \in CallType
      /\ d.left = f.left /\ d.right = f.right
      /\ d.k = f.k /\ d.bufL = h.bufL /\ d.i_src = h.i_src
      /\ RightTile(d, temp) /\ RightFull(d) /\ NextR(d) = NextR(f)
  BY <1>3, <1>5, <1>6, RefillRKeeps
<1>8. LeftTile(d, temp) /\ LeftFull(d) /\ NextL(d) = NextL(f)
  BY <1>5, <1>7 DEF LeftTile, LeftFull, NextL
<1> HIDE DEF d
<1>9. /\ g \in CallType /\ g.pc = "merge" /\ g.left = f.left /\ g.right = f.right
      /\ g.k = f.k /\ g.bufL = d.bufL /\ g.bufR = d.bufR /\ g.i_src = d.i_src
      /\ g.j_src = d.j_src
  BY <1>7 DEF CallType, Merging
<1> HIDE DEF g
<1>10. NextL(g) = f.left /\ NextR(g) = m + 1
  BY <1>1, <1>2, <1>7, <1>8, <1>9 DEF NextL, NextR
<1>11. TilesOK(g, temp)
  <2>1. LeftTile(g, temp) /\ LeftFull(g)
    BY <1>7, <1>8, <1>9 DEF LeftTile, LeftFull, NextL
  <2>2. RightTile(g, temp) /\ RightFull(g)
    BY <1>7, <1>9 DEF RightTile, RightFull, NextR
  <2> QED BY <1>1, <1>2, <1>9, <1>10, <2>1, <2>2 DEF TilesOK, m
<1>12. MergeOK(g, arr, temp)
  <2>1. Ascending(temp, f.left, m) /\ Ascending(temp, m + 1, f.right)
    BY <1>1, <1>2 DEF Ascending, m
  <2>2. f.left .. f.k - 1 = {}
    BY <1>1, <1>2
  <2> QED BY <1>3, <1>9, <2>1, <2>2 DEF MergeOK, Ascending, m
<1>13. g \in Calls /\ Seg(g) = Seg(f)
  BY <1>1, <1>9 DEF Calls, Seg
<1> QED BY <1>2, <1>9, <1>10, <1>11, <1>12, <1>13 DEF g, d, h, m

(* Removing the first element of a tile.                                   *)
LEMMA PopSeq ==
    ASSUME NEW S, NEW q \in Seq(S), q # << >>
    PROVE  /\ Len(q) \in Nat \ {0} /\ Tail(q) \in Seq(S) /\ Len(Tail(q)) = Len(q) - 1
           /\ \A x \in 1 .. Len(q) - 1 : Tail(q)[x] = q[x + 1]
BY HeadTailProperties, EmptySeq

(* The next element comes from the left tile.                              *)
LEMMA MergesLeft ==
    ASSUME NEW f \in Calls, f.pc = "merge", arr \in [Index -> Values],
           TilesOK(f, temp), MergeOK(f, arr, temp), TakeL(f)
    PROVE  LET g == RefillL([f EXCEPT !.bufL = Tail(@), !.k = @ + 1])
               a == [arr EXCEPT ![f.k] = Head(f.bufL)]
           IN  /\ g \in Calls /\ Seg(g) = Seg(f) /\ g.pc = "merge"
               /\ f.k \in f.left .. f.right /\ a \in [Index -> Values]
               /\ TilesOK(g, temp) /\ MergeOK(g, a, temp)
               /\ g.k = f.k + 1 /\ NextL(g) = NextL(f) + 1 /\ NextR(g) = NextR(f)
<1> DEFINE h == [f EXCEPT !.bufL = Tail(@), !.k = @ + 1]
           g == RefillL(h)
           a == [arr EXCEPT ![f.k] = Head(f.bufL)]
           l == f.left
           r == f.right
           m == Mid(l, r)
           nl == NextL(f)
           nr == NextR(f)
           k == f.k
<1>1. /\ f \in CallType /\ l < r
      /\ l \in Int /\ r \in Int /\ m \in Int /\ nl \in Int /\ nr \in Int /\ k \in Int
      /\ l <= m /\ m < r /\ l \in Index /\ r \in Index
  BY RunBounds DEF Calls, CallType
<1>2. /\ l <= nl /\ nl <= m + 1 /\ m + 1 <= nr /\ nr <= r + 1
      /\ k = nl + nr - (m + 1)
      /\ f.bufL # << >> => nl <= m /\ Head(f.bufL) = temp[nl]
      /\ f.bufL = << >> => nl = m + 1
      /\ f.bufR # << >> => nr <= r /\ Head(f.bufR) = temp[nr]
      /\ f.bufR = << >> => nr = r + 1
  BY <1>1, MergeBounds
<1>3. /\ \A x \in l .. r : temp[x] \in Values
      /\ Ascending(temp, l, m) /\ Ascending(temp, m + 1, r)
      /\ Ascending(arr, l, k - 1)
      /\ \A x \in l .. k - 1 :
           /\ \A y \in nl .. m : arr[x] <= temp[y]
           /\ \A y \in nr .. r : arr[x] <= temp[y]
  BY DEF MergeOK
<1> HIDE DEF l, r, m, nl, nr, k
<1>4. /\ f.bufL # << >> /\ nl <= m /\ k \in l .. r /\ Head(f.bufL) = temp[nl]
      /\ \A y \in nr .. r : temp[nl] <= temp[y]
  <2>1. f.bufL # << >> /\ nl <= m /\ k \in l .. r /\ Head(f.bufL) = temp[nl]
    BY <1>1, <1>2 DEF TakeL
  <2>2. ASSUME NEW y \in nr .. r PROVE temp[nl] <= temp[y]
    <3>1. nr <= r /\ f.bufR # << >>
      BY <1>1, <1>2
    <3>2. temp[nl] <= temp[nr]
      BY <1>2, <2>1, <3>1 DEF TakeL
    <3>3. temp[nr] <= temp[y]
      BY <1>1, <1>2, <1>3 DEF Ascending
    <3>4. temp[nl] \in Int /\ temp[nr] \in Int /\ temp[y] \in Int
      <4>1. nl \in l .. r /\ nr \in l .. r /\ y \in l .. r
        BY <1>1, <1>2, <2>1, <3>1
      <4> QED BY <1>3, <4>1, SortAssumption
    <3> QED BY <3>2, <3>3, <3>4
  <2> QED BY <2>1, <2>2
<1>5. /\ a \in [Index -> Values] /\ Ascending(a, l, (k + 1) - 1)
      /\ \A x \in l .. (k + 1) - 1 :
           /\ \A y \in nl + 1 .. m : a[x] <= temp[y]
           /\ \A y \in nr .. r : a[x] <= temp[y]
  <2>1. l .. r \subseteq Index /\ k \in Index /\ temp[nl] \in Values /\ temp[nl] \in Int
    <3>1. nl \in l .. r
      BY <1>1, <1>2, <1>4
    <3>2. l .. r \subseteq Index
      BY <1>1, IndexBounds
    <3> QED BY <1>3, <1>4, <3>1, <3>2, SortAssumption
  <2>2. a \in [Index -> Values] /\ a[k] = temp[nl]
        /\ \A x \in l .. k - 1 : a[x] = arr[x]
    BY <1>1, <1>4, <2>1 DEF k
  <2> HIDE DEF a
  <2>3. \A x \in l .. (k + 1) - 1 : x = k \/ x \in l .. k - 1
    BY <1>1
  <2>4. Ascending(a, l, (k + 1) - 1)
    <3>1. \A x \in l .. k - 1 : a[x] <= a[k]
      BY <1>1, <1>3, <1>4, <2>2
    <3>2. \A x, y \in l .. k - 1 : x <= y => a[x] <= a[y]
      BY <1>3, <2>2 DEF Ascending
    <3>3. \A y \in l .. k - 1 : ~(k <= y)
      BY <1>1
    <3>4. a[k] <= a[k]
      BY <2>1, <2>2
    <3> QED BY <2>3, <3>1, <3>2, <3>3, <3>4 DEF Ascending
  <2>5. ASSUME NEW x \in l .. (k + 1) - 1, NEW y \in nl + 1 .. m PROVE a[x] <= temp[y]
    <3>1. temp[nl] <= temp[y]
      BY <1>1, <1>2, <1>3, <1>4 DEF Ascending
    <3>2. x \in l .. k - 1 => arr[x] <= temp[y]
      BY <1>1, <1>3
    <3> QED BY <2>2, <2>3, <3>1, <3>2
  <2>6. ASSUME NEW x \in l .. (k + 1) - 1, NEW y \in nr .. r PROVE a[x] <= temp[y]
    BY <1>3, <1>4, <2>2, <2>3
  <2> QED BY <2>2, <2>4, <2>5, <2>6
<1>6. h \in CallType /\ l = h.left /\ r = h.right /\ h.pc = "merge" /\ h.k = k + 1
      /\ h.bufL = Tail(f.bufL) /\ h.i_src = f.i_src
      /\ h.bufR = f.bufR /\ h.j_src = f.j_src
  <2>1. Tail(f.bufL) \in Seq(Values) /\ k + 1 \in Int
    BY <1>1, <1>4, HeadTailProperties DEF CallType
  <2> QED BY <1>1, <2>1 DEF CallType, l, r, k
<1> HIDE DEF h
<1>7. NextL(h) = nl + 1 /\ LeftTile(h, temp)
      /\ NextR(h) = nr /\ RightTile(h, temp) /\ RightFull(h)
  <2> DEFINE i == f.i_src
             b == Len(f.bufL)
             z == NextL(h)
  <2>1. f.bufL \in Seq(Values) /\ f.bufL # << >>
    BY <1>1, <1>4 DEF CallType
  <2>2. b \in Nat \ {0} /\ Len(Tail(f.bufL)) = b - 1
        /\ \A x \in 1 .. b - 1 : Tail(f.bufL)[x] = f.bufL[x + 1]
    BY <2>1, PopSeq
  <2>3. Mid(h.left, h.right) = m
    BY <1>6 DEF m
  <2>4. NextR(h) = nr /\ RightTile(h, temp) /\ RightFull(h)
    BY <1>6 DEF TilesOK, RightTile, RightFull, NextR, nr, l, r
  <2>5. nl = l + i - b /\ z = l + i - (b - 1) /\ i \in Nat
    BY <1>1, <1>6, <2>2, <2>3, RunBounds DEF NextL, nl, l, r, m
  <2>6. i <= m - l + 1 /\ b <= i /\ \A x \in 1 .. b : f.bufL[x] = temp[nl + x - 1]
    BY DEF TilesOK, LeftTile, nl, l, r, m
  <2> HIDE DEF i, b, z
  <2>7. z = nl + 1 /\ b - 1 <= i
    BY <1>1, <2>2, <2>5, <2>6
  <2>8. ASSUME NEW x \in 1 .. b - 1 PROVE Tail(f.bufL)[x] = temp[z + x - 1]
    <3>1. x + 1 \in 1 .. b /\ nl + (x + 1) - 1 = z + x - 1
      BY <1>1, <2>2, <2>7
    <3> QED BY <2>2, <2>6, <3>1
  <2>9. LeftTile(h, temp)
    BY <1>6, <2>2, <2>3, <2>6, <2>7, <2>8 DEF LeftTile, i, z
  <2> QED BY <2>4, <2>7, <2>9 DEF z
<1>8. /\ g \in CallType /\ g.left = l /\ g.right = r /\ g.pc = "merge" /\ g.k = k + 1
      /\ g.bufR = f.bufR /\ g.j_src = f.j_src
      /\ LeftTile(g, temp) /\ LeftFull(g) /\ NextL(g) = nl + 1
  BY <1>1, <1>3, <1>6, <1>7, RefillLKeeps
<1> HIDE DEF g
<1>9. RightTile(g, temp) /\ RightFull(g) /\ NextR(g) = nr
  BY <1>8 DEF TilesOK, RightTile, RightFull, NextR, nr, l, r
<1>10. TilesOK(g, temp)
  <2>1. k + 1 = NextL(g) + NextR(g) - (m + 1)
    BY <1>1, <1>2, <1>8, <1>9
  <2> QED BY <1>8, <1>9, <2>1 DEF TilesOK, m
<1>11. MergeOK(g, a, temp)
  BY <1>3, <1>5, <1>8, <1>9 DEF MergeOK, m
<1>12. g \in Calls /\ Seg(g) = Seg(f)
  BY <1>1, <1>8 DEF Calls, Seg, l, r
<1> QED BY <1>4, <1>5, <1>8, <1>9, <1>10, <1>11, <1>12 DEF g, h, k, l, r, nl, nr

(* The next element comes from the right tile.                             *)
LEMMA MergesRight ==
    ASSUME NEW f \in Calls, f.pc = "merge", arr \in [Index -> Values],
           TilesOK(f, temp), MergeOK(f, arr, temp), TakeR(f)
    PROVE  LET g == RefillR([f EXCEPT !.bufR = Tail(@), !.k = @ + 1])
               a == [arr EXCEPT ![f.k] = Head(f.bufR)]
           IN  /\ g \in Calls /\ Seg(g) = Seg(f) /\ g.pc = "merge"
               /\ f.k \in f.left .. f.right /\ a \in [Index -> Values]
               /\ TilesOK(g, temp) /\ MergeOK(g, a, temp)
               /\ g.k = f.k + 1 /\ NextL(g) = NextL(f) /\ NextR(g) = NextR(f) + 1
<1> DEFINE h == [f EXCEPT !.bufR = Tail(@), !.k = @ + 1]
           g == RefillR(h)
           a == [arr EXCEPT ![f.k] = Head(f.bufR)]
           l == f.left
           r == f.right
           m == Mid(l, r)
           nl == NextL(f)
           nr == NextR(f)
           k == f.k
<1>1. /\ f \in CallType /\ l < r
      /\ l \in Int /\ r \in Int /\ m \in Int /\ nl \in Int /\ nr \in Int /\ k \in Int
      /\ l <= m /\ m < r /\ l \in Index /\ r \in Index
  BY RunBounds DEF Calls, CallType
<1>2. /\ l <= nl /\ nl <= m + 1 /\ m + 1 <= nr /\ nr <= r + 1
      /\ k = nl + nr - (m + 1)
      /\ f.bufL # << >> => nl <= m /\ Head(f.bufL) = temp[nl]
      /\ f.bufL = << >> => nl = m + 1
      /\ f.bufR # << >> => nr <= r /\ Head(f.bufR) = temp[nr]
      /\ f.bufR = << >> => nr = r + 1
  BY <1>1, MergeBounds
<1>3. /\ \A x \in l .. r : temp[x] \in Values
      /\ Ascending(temp, l, m) /\ Ascending(temp, m + 1, r)
      /\ Ascending(arr, l, k - 1)
      /\ \A x \in l .. k - 1 :
           /\ \A y \in nl .. m : arr[x] <= temp[y]
           /\ \A y \in nr .. r : arr[x] <= temp[y]
  BY DEF MergeOK
<1> HIDE DEF l, r, m, nl, nr, k
<1>4. /\ f.bufR # << >> /\ nr <= r /\ k \in l .. r /\ Head(f.bufR) = temp[nr]
      /\ \A y \in nl .. m : temp[nr] <= temp[y]
  <2>1. f.bufR # << >> /\ nr <= r /\ k \in l .. r /\ Head(f.bufR) = temp[nr]
    BY <1>1, <1>2 DEF TakeR
  <2>2. ASSUME NEW y \in nl .. m PROVE temp[nr] <= temp[y]
    <3>1. nl <= m /\ f.bufL # << >>
      BY <1>1, <1>2
    <3>2. temp[nl] > temp[nr]
      BY <1>2, <2>1, <3>1 DEF TakeR
    <3>3. temp[nl] <= temp[y]
      BY <1>1, <1>2, <1>3 DEF Ascending
    <3>4. temp[nl] \in Int /\ temp[nr] \in Int /\ temp[y] \in Int
      <4>1. nl \in l .. r /\ nr \in l .. r /\ y \in l .. r
        BY <1>1, <1>2, <2>1, <3>1
      <4> QED BY <1>3, <4>1, SortAssumption
    <3> QED BY <3>2, <3>3, <3>4
  <2> QED BY <2>1, <2>2
<1>5. /\ a \in [Index -> Values] /\ Ascending(a, l, (k + 1) - 1)
      /\ \A x \in l .. (k + 1) - 1 :
           /\ \A y \in nl .. m : a[x] <= temp[y]
           /\ \A y \in nr + 1 .. r : a[x] <= temp[y]
  <2>1. l .. r \subseteq Index /\ k \in Index /\ temp[nr] \in Values /\ temp[nr] \in Int
    <3>1. nr \in l .. r
      BY <1>1, <1>2, <1>4
    <3>2. l .. r \subseteq Index
      BY <1>1, IndexBounds
    <3> QED BY <1>3, <1>4, <3>1, <3>2, SortAssumption
  <2>2. a \in [Index -> Values] /\ a[k] = temp[nr]
        /\ \A x \in l .. k - 1 : a[x] = arr[x]
    BY <1>1, <1>4, <2>1 DEF k
  <2> HIDE DEF a
  <2>3. \A x \in l .. (k + 1) - 1 : x = k \/ x \in l .. k - 1
    BY <1>1
  <2>4. Ascending(a, l, (k + 1) - 1)
    <3>1. \A x \in l .. k - 1 : a[x] <= a[k]
      BY <1>1, <1>3, <1>4, <2>2
    <3>2. \A x, y \in l .. k - 1 : x <= y => a[x] <= a[y]
      BY <1>3, <2>2 DEF Ascending
    <3>3. \A y \in l .. k - 1 : ~(k <= y)
      BY <1>1
    <3>4. a[k] <= a[k]
      BY <2>1, <2>2
    <3> QED BY <2>3, <3>1, <3>2, <3>3, <3>4 DEF Ascending
  <2>5. ASSUME NEW x \in l .. (k + 1) - 1, NEW y \in nr + 1 .. r PROVE a[x] <= temp[y]
    <3>1. temp[nr] <= temp[y]
      BY <1>1, <1>2, <1>3, <1>4 DEF Ascending
    <3>2. x \in l .. k - 1 => arr[x] <= temp[y]
      BY <1>1, <1>3
    <3> QED BY <2>2, <2>3, <3>1, <3>2
  <2>6. ASSUME NEW x \in l .. (k + 1) - 1, NEW y \in nl .. m PROVE a[x] <= temp[y]
    BY <1>3, <1>4, <2>2, <2>3
  <2> QED BY <2>2, <2>4, <2>5, <2>6
<1>6. h \in CallType /\ l = h.left /\ r = h.right /\ h.pc = "merge" /\ h.k = k + 1
      /\ h.bufR = Tail(f.bufR) /\ h.j_src = f.j_src
      /\ h.bufL = f.bufL /\ h.i_src = f.i_src
  <2>1. Tail(f.bufR) \in Seq(Values) /\ k + 1 \in Int
    BY <1>1, <1>4, HeadTailProperties DEF CallType
  <2> QED BY <1>1, <2>1 DEF CallType, l, r, k
<1> HIDE DEF h
<1>7. NextR(h) = nr + 1 /\ RightTile(h, temp)
      /\ NextL(h) = nl /\ LeftTile(h, temp) /\ LeftFull(h)
  <2> DEFINE i == f.j_src
             b == Len(f.bufR)
             z == NextR(h)
  <2>1. f.bufR \in Seq(Values) /\ f.bufR # << >>
    BY <1>1, <1>4 DEF CallType
  <2>2. b \in Nat \ {0} /\ Len(Tail(f.bufR)) = b - 1
        /\ \A x \in 1 .. b - 1 : Tail(f.bufR)[x] = f.bufR[x + 1]
    BY <2>1, PopSeq
  <2>3. Mid(h.left, h.right) = m
    BY <1>6 DEF m
  <2>4. NextL(h) = nl /\ LeftTile(h, temp) /\ LeftFull(h)
    BY <1>6 DEF TilesOK, LeftTile, LeftFull, NextL, nl, l, r
  <2>5. nr = m + 1 + i - b /\ z = m + 1 + i - (b - 1) /\ i \in Nat
    BY <1>1, <1>6, <2>2, <2>3, RunBounds DEF NextR, nr, l, r, m
  <2>6. i <= r - m /\ b <= i /\ \A x \in 1 .. b : f.bufR[x] = temp[nr + x - 1]
    BY DEF TilesOK, RightTile, nr, l, r, m
  <2> HIDE DEF i, b, z
  <2>7. z = nr + 1 /\ b - 1 <= i
    BY <1>1, <2>2, <2>5, <2>6
  <2>8. ASSUME NEW x \in 1 .. b - 1 PROVE Tail(f.bufR)[x] = temp[z + x - 1]
    <3>1. x + 1 \in 1 .. b /\ nr + (x + 1) - 1 = z + x - 1
      BY <1>1, <2>2, <2>7
    <3> QED BY <2>2, <2>6, <3>1
  <2>9. RightTile(h, temp)
    BY <1>6, <2>2, <2>3, <2>6, <2>7, <2>8 DEF RightTile, i, z
  <2> QED BY <2>4, <2>7, <2>9 DEF z
<1>8. /\ g \in CallType /\ g.left = l /\ g.right = r /\ g.pc = "merge" /\ g.k = k + 1
      /\ g.bufL = f.bufL /\ g.i_src = f.i_src
      /\ RightTile(g, temp) /\ RightFull(g) /\ NextR(g) = nr + 1
  BY <1>1, <1>3, <1>6, <1>7, RefillRKeeps
<1> HIDE DEF g
<1>9. LeftTile(g, temp) /\ LeftFull(g) /\ NextL(g) = nl
  BY <1>8 DEF TilesOK, LeftTile, LeftFull, NextL, nl, l, r
<1>10. TilesOK(g, temp)
  <2>1. k + 1 = NextL(g) + NextR(g) - (m + 1)
    BY <1>1, <1>2, <1>8, <1>9
  <2> QED BY <1>8, <1>9, <2>1 DEF TilesOK, m
<1>11. MergeOK(g, a, temp)
  BY <1>3, <1>5, <1>8, <1>9 DEF MergeOK, m
<1>12. g \in Calls /\ Seg(g) = Seg(f)
  BY <1>1, <1>8 DEF Calls, Seg, l, r
<1> QED BY <1>4, <1>5, <1>8, <1>9, <1>10, <1>11, <1>12 DEF g, h, k, l, r, nl, nr

(* The merge has ended when both tiles are empty: all its segment is       *)
(* written, in order.                                                      *)
LEMMA MergeEnds ==
    ASSUME NEW f \in CallType, f.left < f.right, TilesOK(f, temp), MergeOK(f, arr, temp),
           f.bufL = << >>, f.bufR = << >>
    PROVE  Ascending(arr, f.left, f.right)
<1>1. f.k = NextL(f) + NextR(f) - (Mid(f.left, f.right) + 1)
      /\ NextL(f) = Mid(f.left, f.right) + 1 /\ NextR(f) = f.right + 1
  BY MergeBounds
<1>2. Mid(f.left, f.right) \in Int /\ f.right \in Int
  BY RunBounds
<1>3. f.k - 1 = f.right
  BY <1>1, <1>2
<1> QED BY <1>3 DEF MergeOK

-----------------------------------------------------------------------------
(* Induction over the natural numbers, and the least element of a set of   *)
(* them.                                                                   *)

(* A set of natural numbers that is not empty has a least one.             *)
LEMMA LeastNatural ==
    ASSUME NEW S \in SUBSET Nat, S # {}
    PROVE  \E x \in S : \A y \in S : x <= y
<1> DEFINE R == OpToRel(<, Nat)
<1>1. IsWellFoundedOn(R, Nat)
  BY NatLessThanWellFounded
<1>2. PICK x \in S : \A y \in S : ~(<<y, x>> \in R)
  <2> HIDE DEF R
  <2> QED BY <1>1, WFMin
<1>3. \A y \in S : ~(y < x)
  BY <1>2 DEF OpToRel
<1> QED BY <1>3

(* A set with 0 and every successor of its members has every number.       *)
LEMMA NatSetInduction ==
    ASSUME NEW S \in SUBSET Nat, 0 \in S, \A n \in S : n + 1 \in S
    PROVE  S = Nat
<1>1. SUFFICES ASSUME Nat \ S # {} PROVE FALSE
  OBVIOUS
<1>2. PICK x \in Nat \ S : \A y \in Nat \ S : x <= y
  <2> DEFINE T == Nat \ S
  <2>1. T \in SUBSET Nat /\ T # {}
    BY <1>1
  <2> HIDE DEF T
  <2>2. \E x \in T : \A y \in T : x <= y
    BY <2>1, LeastNatural
  <2> QED BY <2>2 DEF T
<1>3. x # 0 /\ x - 1 \in Nat /\ ~(x <= x - 1) /\ (x - 1) + 1 = x
  BY <1>2
<1> QED BY <1>2, <1>3

-----------------------------------------------------------------------------
(* Rearranging a part of the array.                                        *)

(* The permutations of the array that move elements of l..r only.          *)
Shuffles(l, r) ==
    {p \in [Index -> Index] :
        /\ \A x, y \in Index : p[x] = p[y] => x = y
        /\ \A y \in Index : \E x \in Index : p[x] = y
        /\ \A x \in Index : x \notin l .. r => p[x] = x}

Rearranged(b, a, l, r) ==
    \E p \in Shuffles(l, r) : \A x \in Index : b[x] = a[p[x]]

(* Nothing moved.                                                          *)
LEMMA RearrangedSame ==
    ASSUME NEW a, NEW l, NEW r
    PROVE  Rearranged(a, a, l, r)
<1> DEFINE p == [x \in Index |-> x]
<1>1. p \in Shuffles(l, r)
  BY DEF Shuffles
<1> QED BY <1>1 DEF Rearranged

(* One permutation after another.                                          *)
LEMMA PermutationsCompose ==
    ASSUME NEW l, NEW r, NEW p \in Shuffles(l, r), NEW q \in Shuffles(l, r)
    PROVE  [x \in Index |-> p[q[x]]] \in Shuffles(l, r)
<1> DEFINE c == [x \in Index |-> p[q[x]]]
<1>1. p \in [Index -> Index] /\ q \in [Index -> Index]
  BY DEF Shuffles
<1>2. c \in [Index -> Index]
  BY <1>1
<1>3. \A x, y \in Index : c[x] = c[y] => x = y
  BY <1>1 DEF Shuffles
<1>4. ASSUME NEW y \in Index PROVE \E x \in Index : c[x] = y
  <2>1. PICK z \in Index : p[z] = y
    BY DEF Shuffles
  <2>2. PICK x \in Index : q[x] = z
    BY DEF Shuffles
  <2> QED BY <2>1, <2>2
<1>5. \A x \in Index : x \notin l .. r => c[x] = x
  BY <1>1 DEF Shuffles
<1> HIDE DEF c
<1>6. c \in Shuffles(l, r)
  BY <1>2, <1>3, <1>4, <1>5 DEF Shuffles
<1> QED BY <1>6 DEF c

(* Rearranging what has been rearranged.                                   *)
LEMMA RearrangedTwice ==
    ASSUME NEW a, NEW b, NEW c, NEW l, NEW r,
           Rearranged(b, a, l, r), Rearranged(c, b, l, r)
    PROVE  Rearranged(c, a, l, r)
<1>1. PICK p \in Shuffles(l, r) : \A x \in Index : b[x] = a[p[x]]
  BY DEF Rearranged
<1>2. PICK q \in Shuffles(l, r) : \A x \in Index : c[x] = b[q[x]]
  BY DEF Rearranged
<1> DEFINE d == [x \in Index |-> p[q[x]]]
<1>3. d \in Shuffles(l, r)
  BY PermutationsCompose
<1>4. \A x \in Index : c[x] = a[d[x]]
  BY <1>1, <1>2 DEF Shuffles
<1> HIDE DEF d
<1> QED BY <1>3, <1>4 DEF Rearranged

(* The element at i moves to j, and those from j on one place up.          *)
Rotation(j, i) ==
    [x \in Index |-> IF x = j THEN i ELSE IF x \in j + 1 .. i THEN x - 1 ELSE x]

(* A rotation inside a segment permutes the segment.                       *)
LEMMA RotationPermutes ==
    ASSUME NEW l \in Int, NEW r \in Int, NEW j \in Index, NEW i \in Index,
           l <= j, j <= i, i <= r
    PROVE  Rotation(j, i) \in Shuffles(l, r)
<1> DEFINE p == Rotation(j, i)
<1>1. (\A x \in Index : x \in Int /\ 0 <= x /\ x <= N - 1) /\ N \in Int
  BY IndexBounds, SortAssumption
<1>2. \A x \in Int : 0 <= x /\ x <= N - 1 => x \in Index
  BY IndexBounds
<1>3. p \in [Index -> Index]
  <2>1. \A x \in j + 1 .. i : x \in Index => x - 1 \in Index
    BY <1>1, <1>2
  <2> QED BY <2>1 DEF Rotation
<1>4. ASSUME NEW x \in Index, NEW y \in Index, p[x] = p[y] PROVE x = y
  BY <1>1, <1>4 DEF Rotation
<1>5. ASSUME NEW y \in Index PROVE \E x \in Index : p[x] = y
  <2>1. CASE y = i
    <3>1. p[j] = i
      BY DEF Rotation
    <3> QED BY <2>1, <3>1
  <2>2. CASE y \in j .. i - 1
    <3>1. y + 1 \in Index
      BY <1>1, <1>2, <2>2
    <3>2. y + 1 # j /\ y + 1 \in j + 1 .. i /\ (y + 1) - 1 = y
      BY <1>1, <2>2
    <3> QED BY <3>1, <3>2 DEF Rotation
  <2>3. CASE y # i /\ y \notin j .. i - 1
    <3>1. y # j /\ y \notin j + 1 .. i
      BY <1>1, <2>3
    <3> QED BY <3>1 DEF Rotation
  <2> QED BY <2>1, <2>2, <2>3
<1>6. \A x \in Index : x \notin l .. r => p[x] = x
  BY <1>1 DEF Rotation
<1> HIDE DEF p
<1>7. p \in Shuffles(l, r)
  BY <1>3, <1>4, <1>5, <1>6 DEF Shuffles
<1> QED BY <1>7 DEF p

-----------------------------------------------------------------------------
(* Insertion sort.                                                         *)

(* There is a place for the element at i: where everything above it in the *)
(* ordered part is greater, and what is below is not.                      *)
LEMMA PlaceToInsert ==
    ASSUME NEW a \in [Index -> Values], NEW left \in Index, NEW i \in Index, left <= i
    PROVE  \E p \in left .. i : /\ \A q \in p .. i - 1 : a[q] > a[i]
                                /\ p > left => a[p - 1] <= a[i]
<1> DEFINE D == {p \in left .. i : \A q \in p .. i - 1 : a[q] > a[i]}
<1>1. left \in Nat /\ i \in Nat
  BY IndexBounds
<1>2. D \in SUBSET Nat /\ i \in D
  BY <1>1
<1> HIDE DEF D
<1>3. PICK p \in D : \A y \in D : p <= y
  BY <1>2, LeastNatural
<1>4. p \in left .. i /\ \A q \in p .. i - 1 : a[q] > a[i]
  BY DEF D
<1>5. ASSUME p > left PROVE a[p - 1] <= a[i]
  <2>1. p - 1 \in left .. i /\ ~(p <= p - 1)
    BY <1>1, <1>4, <1>5
  <2>2. PICK q \in p - 1 .. i - 1 : ~(a[q] > a[i])
    BY <1>3, <2>1 DEF D
  <2>3. q = p - 1
    BY <1>1, <1>4, <2>2
  <2>4. p - 1 \in Index
    BY <1>1, <2>1, IndexBounds
  <2>5. a[p - 1] \in Int /\ a[i] \in Int
    BY <2>4, SortAssumption
  <2> QED BY <2>2, <2>3, <2>5
<1> QED BY <1>4, <1>5

(* Inserting keeps the part in order and only moves elements.              *)
LEMMA InsertedProperties ==
    ASSUME NEW a \in [Index -> Values], NEW left \in Index, NEW i \in Index,
           left < i, Ascending(a, left, i - 1)
    PROVE  LET b == Inserted(a, left, i)
           IN  /\ b \in [Index -> Values] /\ Ascending(b, left, i)
               /\ \A r \in Int : i <= r => Rearranged(b, a, left, r)
<1> DEFINE j == CHOOSE p \in left .. i : /\ \A q \in p .. i - 1 : a[q] > a[i]
                                         /\ p > left => a[p - 1] <= a[i]
           b == [x \in Index |-> IF x = j THEN a[i]
                                 ELSE IF x \in j + 1 .. i THEN a[x - 1] ELSE a[x]]
<1>1. \A x \in Int : x \in Index <=> 0 <= x /\ x <= N - 1
  BY IndexBounds
<1>2. left \in Int /\ i \in Int /\ left <= i /\ left .. i \subseteq Index
  BY IndexBounds
<1>3. /\ j \in left .. i /\ \A q \in j .. i - 1 : a[q] > a[i]
      /\ j > left => a[j - 1] <= a[i]
  BY <1>2, PlaceToInsert
<1>4. Inserted(a, left, i) = b
  BY DEF Inserted
<1> HIDE DEF j
<1>5. j \in Index /\ j \in Int /\ left <= j /\ j <= i
  BY <1>2, <1>3
<1>6. \A x \in left .. i : a[x] \in Int /\ x \in Index
  BY <1>2, SortAssumption
<1>7. b \in [Index -> Values]
  <2>1. \A x \in j + 1 .. i : x - 1 \in Index
    BY <1>1, <1>2, <1>5
  <2> QED BY <2>1
<1>8. /\ \A x \in left .. j - 1 : b[x] = a[x]
      /\ b[j] = a[i]
      /\ \A x \in j + 1 .. i : b[x] = a[x - 1]
  <2>1. /\ \A x \in left .. j - 1 : x \in Index /\ x # j /\ x \notin j + 1 .. i
        /\ \A x \in j + 1 .. i : x \in Index /\ x # j
    BY <1>1, <1>2, <1>5
  <2> QED BY <1>5, <2>1
<1>9. ASSUME NEW r \in Int, i <= r PROVE Rearranged(b, a, left, r)
  <2>1. Rotation(j, i) \in Shuffles(left, r)
    BY <1>2, <1>5, <1>9, RotationPermutes
  <2>2. \A x \in Index : b[x] = a[Rotation(j, i)[x]]
    BY DEF Rotation
  <2> QED BY <2>1, <2>2 DEF Rearranged
<1> HIDE DEF b
<1>10. ASSUME NEW x \in left .. i, NEW y \in left .. i, x <= y PROVE b[x] <= b[y]
  <2>1. /\ x \in left .. j - 1 \/ x = j \/ x \in j + 1 .. i
        /\ y \in left .. j - 1 \/ y = j \/ y \in j + 1 .. i
    BY <1>2, <1>5
  <2>2. CASE x \in left .. j - 1 /\ y \in left .. j - 1
    <3>1. x \in left .. i - 1 /\ y \in left .. i - 1
      BY <1>2, <1>5, <2>2
    <3> QED BY <1>8, <1>10, <2>2, <3>1 DEF Ascending
  <2>3. CASE x \in left .. j - 1 /\ y = j
    <3>1. x \in left .. i - 1 /\ j - 1 \in left .. i - 1 /\ x <= j - 1 /\ j > left
          /\ j - 1 \in left .. i /\ i \in left .. i
      BY <1>2, <1>5, <2>3
    <3>2. a[x] <= a[j - 1] /\ a[j - 1] <= a[i]
      BY <1>3, <3>1 DEF Ascending
    <3>3. a[x] \in Int /\ a[j - 1] \in Int /\ a[i] \in Int
      BY <1>6, <3>1
    <3> QED BY <1>8, <2>3, <3>2, <3>3
  <2>4. CASE x \in left .. j - 1 /\ y \in j + 1 .. i
    <3>1. x \in left .. i - 1 /\ y - 1 \in left .. i - 1 /\ x <= y - 1
      BY <1>2, <1>5, <2>4
    <3> QED BY <1>8, <2>4, <3>1 DEF Ascending
  <2>5. CASE x = j /\ y = j
    <3>1. a[i] \in Int
      BY <1>2, <1>6
    <3> QED BY <1>8, <2>5, <3>1
  <2>6. CASE x = j /\ y \in j + 1 .. i
    <3>1. y - 1 \in j .. i - 1 /\ y - 1 \in left .. i /\ i \in left .. i
      BY <1>2, <1>5, <2>6
    <3>2. a[y - 1] > a[i] /\ a[y - 1] \in Int /\ a[i] \in Int
      BY <1>3, <1>6, <3>1
    <3> QED BY <1>8, <2>6, <3>2
  <2>7. CASE x \in j + 1 .. i /\ y \in j + 1 .. i
    <3>1. x - 1 \in left .. i - 1 /\ y - 1 \in left .. i - 1 /\ x - 1 <= y - 1
      BY <1>2, <1>5, <1>10, <2>7
    <3> QED BY <1>8, <2>7, <3>1 DEF Ascending
  <2>8. CASE ~(x \in left .. j - 1) /\ y \in left .. j - 1
    BY <1>2, <1>5, <1>10, <2>8
  <2>9. CASE x \in j + 1 .. i /\ y = j
    BY <1>2, <1>5, <1>10, <2>9
  <2> QED BY <2>1, <2>2, <2>3, <2>4, <2>5, <2>6, <2>7, <2>8, <2>9
<1> QED BY <1>4, <1>7, <1>9, <1>10 DEF Ascending

(* The arrays after each of the elements has been inserted in turn.        *)
SortSteps(u, a, left, right) ==
    u = [i \in left .. right |-> IF i = left THEN a ELSE Inserted(u[i - 1], left, i)]

(* The recursion of insertion sort defines a function: by induction, there *)
(* is one for every number of elements.                                    *)
LEMMA InsertionSortDefined ==
    ASSUME NEW a, NEW left \in Int, NEW right \in Int, left <= right
    PROVE  \E u : /\ InsertionSort(a, left, right) = u[right]
                  /\ SortSteps(u, a, left, right)
<1> DEFINE Upto(u, last) ==
             u = [i \in left .. last |-> IF i = left THEN a ELSE Inserted(u[i - 1], left, i)]
           S == {n \in Nat : \E u : Upto(u, left + n)}
<1>1. 0 \in S
  <2> DEFINE u == [i \in left .. left |-> a]
  <2>1. u = [i \in left .. left |-> IF i = left THEN a ELSE Inserted(u[i - 1], left, i)]
    OBVIOUS
  <2>2. left + 0 = left
    OBVIOUS
  <2> QED BY <2>1, <2>2
<1>2. ASSUME NEW n \in S PROVE n + 1 \in S
  <2>1. n \in Nat /\ left + (n + 1) \in Int
    OBVIOUS
  <2>2. PICK u : Upto(u, left + n)
    OBVIOUS
  <2> DEFINE v == [i \in left .. left + (n + 1) |->
                     IF i <= left + n THEN u[i] ELSE Inserted(u[i - 1], left, i)]
             w == [i \in left .. left + (n + 1) |->
                     IF i = left THEN a ELSE Inserted(v[i - 1], left, i)]
  <2>3. ASSUME NEW i \in left .. left + (n + 1) PROVE v[i] = w[i]
    <3>1. CASE i = left
      <4>1. i <= left + n /\ i \in left .. left + n
        BY <2>1, <3>1
      <4> QED BY <2>2, <3>1, <4>1
    <3>2. CASE i # left
      <4>1. i - 1 \in left .. left + (n + 1) /\ i - 1 <= left + n
        BY <2>1, <3>2
      <4>2. v[i - 1] = u[i - 1]
        BY <4>1
      <4>3. CASE i <= left + n
        <5>1. i \in left .. left + n
          BY <2>1, <4>3
        <5>2. u[i] = Inserted(u[i - 1], left, i)
          BY <2>2, <3>2, <5>1
        <5> QED BY <3>2, <4>2, <4>3, <5>2
      <4>4. CASE ~(i <= left + n)
        BY <3>2, <4>2, <4>4
      <4> QED BY <4>3, <4>4
    <3> QED BY <3>1, <3>2
  <2>4. v = w
    <3>1. /\ v = [i \in left .. left + (n + 1) |-> v[i]]
          /\ w = [i \in left .. left + (n + 1) |-> w[i]]
      OBVIOUS
    <3> HIDE DEF v, w
    <3> QED BY <2>3, <3>1
  <2>5. Upto(v, left + (n + 1))
    BY <2>4
  <2>6. n + 1 \in Nat
    BY <2>1
  <2> HIDE DEF Upto, v
  <2> QED BY <2>5, <2>6
<1>3. S = Nat
  <2>1. S \in SUBSET Nat
    OBVIOUS
  <2> HIDE DEF S
  <2> QED BY <1>1, <1>2, <2>1, NatSetInduction
<1> HIDE DEF Upto
<1>4. right - left \in S /\ left + (right - left) = right
  <2>1. right - left \in Nat /\ left + (right - left) = right
    OBVIOUS
  <2> HIDE DEF S
  <2> QED BY <1>3, <2>1
<1>5. \E u : Upto(u, right)
  BY <1>4
<1> DEFINE upto == CHOOSE u : Upto(u, right)
<1>6. Upto(upto, right)
  BY <1>5
<1>7. InsertionSort(a, left, right) = upto[right]
  BY DEF InsertionSort, Upto
<1> HIDE DEF upto
<1> QED BY <1>6, <1>7 DEF Upto, SortSteps

(* Insertion sort puts its part of the array in order, and only moves      *)
(* elements of that part.                                                  *)
LEMMA InsertionSortSorts ==
    ASSUME NEW a \in [Index -> Values], NEW left \in Index, NEW right \in Index,
           left <= right
    PROVE  LET b == InsertionSort(a, left, right)
           IN  /\ b \in [Index -> Values] /\ Ascending(b, left, right)
               /\ Rearranged(b, a, left, right)
<1>1. /\ left \in Int /\ right \in Int
      /\ \A x \in Int : left <= x /\ x <= right => x \in Index
  BY IndexBounds, SortAssumption
<1>2. PICK u : /\ InsertionSort(a, left, right) = u[right]
               /\ u = [i \in left .. right |->
                         IF i = left THEN a ELSE Inserted(u[i - 1], left, i)]
  <2>1. left \in Int /\ right \in Int /\ left <= right
    BY <1>1
  <2>2. \E u : InsertionSort(a, left, right) = u[right] /\ SortSteps(u, a, left, right)
    BY <2>1, InsertionSortDefined
  <2> QED BY <2>2 DEF SortSteps
<1> DEFINE P(i) == /\ u[i] \in [Index -> Values] /\ Ascending(u[i], left, i)
                   /\ Rearranged(u[i], a, left, right)
           S == {n \in Nat : left + n <= right => P(left + n)}
<1>3. 0 \in S
  <2>1. left + 0 = left /\ left \in left .. right
    BY <1>1
  <2>2. u[left] = a
    BY <1>2, <2>1
  <2>3. Ascending(a, left, left)
    <3>1. a[left] \in Int
      BY SortAssumption
    <3>2. \A x \in left .. left : x = left
      BY <1>1
    <3> QED BY <3>1, <3>2 DEF Ascending
  <2> QED BY <2>1, <2>2, <2>3, RearrangedSame
<1>4. ASSUME NEW n \in S PROVE n + 1 \in S
  <2>1. SUFFICES ASSUME left + (n + 1) <= right PROVE P(left + (n + 1))
    OBVIOUS
  <2> DEFINE i == left + (n + 1)
  <2>2. /\ n \in Nat /\ i \in left .. right /\ i # left /\ i - 1 = left + n /\ left < i
        /\ i \in Index /\ i - 1 <= right /\ i <= right
    BY <1>1, <2>1
  <2>3. P(i - 1)
    BY <2>2
  <2>4. u[i] = Inserted(u[i - 1], left, i)
    BY <1>2, <2>2
  <2> HIDE DEF i
  <2>5. u[i] \in [Index -> Values] /\ Ascending(u[i], left, i)
        /\ Rearranged(u[i], u[i - 1], left, right)
    BY <1>1, <2>2, <2>3, <2>4, InsertedProperties
  <2>6. Rearranged(u[i], a, left, right)
    BY <2>3, <2>5, RearrangedTwice
  <2> QED BY <2>5, <2>6 DEF i
<1>5. S = Nat
  <2>1. S \in SUBSET Nat
    OBVIOUS
  <2> HIDE DEF S
  <2> QED BY <1>3, <1>4, <2>1, NatSetInduction
<1>6. right - left \in S /\ left + (right - left) = right /\ right <= right
  <2>1. right - left \in Nat /\ left + (right - left) = right /\ right <= right
    BY <1>1
  <2> HIDE DEF S
  <2> QED BY <1>5, <2>1
<1>7. P(right)
  BY <1>6
<1> QED BY <1>2, <1>7

(* Elements outside the part stay where they are.                          *)
LEMMA RearrangedElsewhere ==
    ASSUME NEW a, NEW b, NEW l, NEW r, Rearranged(b, a, l, r),
           NEW x \in Index \ (l .. r)
    PROVE  b[x] = a[x]
BY DEF Rearranged, Shuffles

-----------------------------------------------------------------------------
(* What the merges in progress know stays true.                            *)

(* Going on with a call.                                                   *)
LEMMA GoOnTop ==
    ASSUME TypeOK, NEW t \in Threads, stack[t] # << >>, NEW f \in Calls, GoOn(t, f)
    PROVE  /\ stack'[t] # << >> /\ Top(t)' = f
           /\ \A u \in Threads \ {t} : stack'[u] = stack[u]
<1> DEFINE q == stack[t]
           p == <<f>> \o Tail(q)
<1>1. stack' = [stack EXCEPT ![t] = p] /\ q \in Seq(Calls)
  BY DEF GoOn, TypeOK
<1>2. p # << >> /\ p[1] = f /\ Len(p) \in Nat \ {0} /\ p \in Seq(Calls)
  <2> HIDE DEF q
  <2>1. q # << >>
    BY DEF q
  <2> QED BY <1>1, <2>1, GoOnStack
<1> HIDE DEF p
<1>3. Head(p) = f
  BY <1>2
<1> QED BY <1>1, <1>2, <1>3 DEF TypeOK, Top

(* Starting one.                                                           *)
LEMMA PushTop ==
    ASSUME TypeOK, NEW t \in Threads, NEW g \in Calls, NEW q \in Seq(Calls),
           stack' = [stack EXCEPT ![t] = <<g>> \o q]
    PROVE  /\ stack'[t] # << >> /\ Top(t)' = g
           /\ \A u \in Threads \ {t} : stack'[u] = stack[u]
<1> DEFINE p == <<g>> \o q
<1>1. p # << >> /\ p[1] = g /\ p \in Seq(Calls)
  BY PushStack
<1> HIDE DEF p
<1>2. Head(p) = g
  BY <1>1
<1> QED BY <1>1, <1>2 DEF TypeOK, Top, p

(* Returning: the call below does not continue in the middle of a merge.   *)
LEMMA ReturnTop ==
    ASSUME TypeOK, Structure, NEW t \in Threads, stack[t] # << >>, Return(t)
    PROVE  /\ ~At(t, "refill")' /\ ~At(t, "merge")'
           /\ \A u \in Threads \ {t} : stack'[u] = stack[u]
<1> DEFINE q == stack[t]
           p == Tail(q)
<1>1. stack' = [stack EXCEPT ![t] = p] /\ q \in Seq(Calls)
      /\ \A i \in 2 .. Len(q) : Suspended(q[i], q[i - 1], sorted)
  BY DEF Return, TypeOK, Structure, StackOK
<1>2. ASSUME p # << >> PROVE Head(p).pc \notin {"refill", "merge"}
  <2> HIDE DEF q
  <2>1. q # << >>
    BY DEF q
  <2>2. /\ Len(q) >= 2 /\ Len(q) \in Nat /\ p \in Seq(Calls) /\ Len(p) = Len(q) - 1
        /\ \A i \in 1 .. Len(q) - 1 : p[i] = q[i + 1]
    BY <1>1, <1>2, <2>1, PopStack
  <2>3. 2 \in 2 .. Len(q) /\ 1 \in 1 .. Len(q) - 1 /\ p[1] = q[2]
    BY <2>2
  <2>4. Suspended(q[2], q[2 - 1], sorted)
    BY <1>1, <2>3
  <2>5. q[2].pc \notin {"refill", "merge"}
    BY <2>4 DEF Suspended
  <2>6. Head(p) = p[1]
    BY <1>2, <2>2
  <2> QED BY <2>3, <2>5, <2>6
<1>3. stack'[t] = p /\ \A u \in Threads \ {t} : stack'[u] = stack[u]
  BY <1>1 DEF TypeOK
<1> HIDE DEF p
<1> QED BY <1>2, <1>3 DEF At, Top

(* A thread that changes its own part of the arrays does not disturb the   *)
(* merges of the others.                                                   *)
LEMMA MergesKept ==
    ASSUME TypeOK, Structure, MergesOK, NEW t \in Threads,
           \A u \in Threads \ {t} : stack'[u] = stack[u],
           \/ UNCHANGED <<arr, temp>>
           \/ /\ Busy(t)
              /\ \A x \in Index \ (Top(t).left .. Top(t).right) :
                    arr'[x] = arr[x] /\ temp'[x] = temp[x],
           At(t, "refill")' => Copied(Top(t)', arr', temp'),
           At(t, "merge")' => TilesOK(Top(t)', temp') /\ MergeOK(Top(t)', arr', temp')
    PROVE  MergesOK'
<1> SUFFICES ASSUME NEW u \in Threads \ {t}
             PROVE  /\ At(u, "refill")' => Copied(Top(u)', arr', temp')
                    /\ At(u, "merge")' =>
                          TilesOK(Top(u)', temp') /\ MergeOK(Top(u)', arr', temp')
  BY DEF MergesOK, Copied, TilesOK, MergeOK
<1>1. /\ At(u, "refill")' <=> At(u, "refill")
      /\ At(u, "merge")' <=> At(u, "merge")
      /\ Top(u)' = Top(u)
  BY DEF At, Top
<1>2. SUFFICES ASSUME At(u, "refill") \/ At(u, "merge")
               PROVE  /\ At(u, "refill") => Copied(Top(u), arr', temp')
                      /\ At(u, "merge") =>
                            TilesOK(Top(u), temp') /\ MergeOK(Top(u), arr', temp')
  BY <1>1
<1> DEFINE f == Top(u)
<1>3. /\ f \in Calls /\ f \in CallType /\ f.left < f.right /\ Busy(u)
      /\ f.left \in Index /\ f.right \in Index
  BY <1>2, TopOfStack DEF At, Calls, CallType, Busy, Merging
<1>4. /\ At(u, "refill") => Copied(f, arr, temp)
      /\ At(u, "merge") => TilesOK(f, temp) /\ MergeOK(f, arr, temp)
  BY DEF MergesOK
<1>5. \A x \in f.left .. f.right : arr[x] = arr'[x] /\ temp[x] = temp'[x]
  <2>1. CASE UNCHANGED <<arr, temp>>
    BY <2>1
  <2>2. CASE /\ Busy(t)
             /\ \A x \in Index \ (Top(t).left .. Top(t).right) :
                   arr'[x] = arr[x] /\ temp'[x] = temp[x]
    <3>1. Apart(Seg(Top(t)), Seg(f))
      BY <1>3, <2>2, BusyApart
    <3>2. /\ Top(t).left \in Index /\ Top(t).right \in Index
      BY <2>2, TopOfStack DEF Busy, Calls, CallType
    <3> DEFINE l == Top(t).left
               r == Top(t).right
               fl == f.left
               fr == f.right
    <3>3. (r < fl \/ fr < l) /\ l \in Index /\ r \in Index /\ fl \in Index /\ fr \in Index
      BY <1>3, <3>1, <3>2 DEF Apart, Seg
    <3> HIDE DEF f, l, r, fl, fr
    <3>4. \A x \in fl .. fr : x \in Index /\ x \notin l .. r
      BY <3>3, IndexBounds, SortAssumption
    <3> QED BY <2>2, <3>4 DEF l, r, fl, fr
  <2> QED BY <2>1, <2>2
<1> HIDE DEF f
<1>6. /\ Copied(f, arr, temp) => Copied(f, arr', temp')
      /\ TilesOK(f, temp) => TilesOK(f, temp')
      /\ TilesOK(f, temp) /\ MergeOK(f, arr, temp) => MergeOK(f, arr', temp')
  BY <1>3, <1>5, MergeFrame
<1> QED BY <1>4, <1>6 DEF f

(* A step that writes nothing and is not part of a merge.                  *)
LEMMA QuietStep ==
    ASSUME TypeOK, Structure, SortedInOrder, MergesOK, NEW t \in Threads,
           \A u \in Threads \ {t} : stack'[u] = stack[u],
           UNCHANGED <<arr, temp, sorted>>,
           ~At(t, "merge"), ~At(t, "refill")', ~At(t, "merge")'
    PROVE  SortedInOrder' /\ MergesOK'
BY SortedStill, MergesKept

-----------------------------------------------------------------------------
(* Every action keeps the invariant.                                       *)

(* The call of an action, and what is known of it.                         *)
LEMMA CallAt ==
    ASSUME IInv, NEW t \in Threads, NEW pc, At(t, pc)
    PROVE  /\ stack[t] # << >> /\ Top(t) \in Calls /\ Top(t).pc = pc
           /\ Top(t) \in CallType /\ Top(t).left \in Index /\ Top(t).right \in Index
           /\ Top(t).left <= Top(t).right /\ (pc # "call" => Top(t).left < Top(t).right)
           /\ Running(Top(t), sorted)
BY TopOfStack DEF IInv, At, Structure, StackOK, Calls, CallType

(* A call of one element returns: there is nothing to sort.                *)
LEMMA TrivialStep ==
    ASSUME IInv, NEW t \in Threads, Trivial(t)
    PROVE  IInv'
<1> USE DEF IInv
<1> DEFINE f == Top(t)
<1>1. /\ stack[t] # << >> /\ f.pc = "call" /\ f.left >= f.right
      /\ f.left \in Index /\ f.right \in Index /\ f.left <= f.right /\ At(t, "call")
  BY CallAt DEF Trivial
<1>2. Structure' /\ RegionOK' /\ stack' \in [Threads -> Seq(Calls)] /\ sorted' \subseteq Segments
  BY <1>1, ReturnStructure DEF Trivial
<1>3. TypeOK'
  BY <1>2 DEF Trivial, TypeOK
<1>4. /\ ~At(t, "refill")' /\ ~At(t, "merge")'
      /\ \A u \in Threads \ {t} : stack'[u] = stack[u]
  BY <1>1, ReturnTop DEF Trivial
<1>5. Ascending(arr', f.left, f.right)
  <2>1. f.left = f.right /\ arr[f.left] \in Int /\ \A x \in f.left .. f.left : x = f.left
    <3>1. arr[f.left] \in Int /\ f.left \in Int /\ f.right \in Int
      BY <1>1, IndexBounds, SortAssumption DEF TypeOK
    <3> QED BY <1>1, <3>1
  <2> HIDE DEF f
  <2> QED BY <2>1 DEF Ascending, Trivial
<1>6. SortedInOrder'
  <2>1. sorted' = sorted \cup {Seg(f)} /\ arr' = arr
    BY DEF Trivial, Return, Seg
  <2> QED BY <1>1, <1>4, <1>5, <2>1, SortedKept
<1>7. MergesOK'
  BY <1>4, MergesKept DEF Trivial
<1> QED BY <1>2, <1>3, <1>6, <1>7

(* A parallel call below the threshold becomes a serial one.               *)
LEMMA SwitchToSerialStep ==
    ASSUME IInv, NEW t \in Threads, SwitchToSerial(t)
    PROVE  IInv'
<1> USE DEF IInv
<1> DEFINE f == [Top(t) EXCEPT !.parallel = FALSE]
<1>1. /\ stack[t] # << >> /\ Top(t) \in Calls /\ Top(t).pc = "call" /\ At(t, "call")
  BY CallAt DEF SwitchToSerial
<1>2. f \in Calls /\ f.pc = "call" /\ Seg(f) = Seg(Top(t)) /\ GoOn(t, f)
      /\ HandedOut(Top(t)) \subseteq HandedOut(f) /\ Running(f, sorted)
  BY <1>1 DEF SwitchToSerial, Calls, CallType, Seg, HandedOut, Running, Merging
<1> HIDE DEF f
<1>3. Structure' /\ RegionOK' /\ stack' \in [Threads -> Seq(Calls)]
  BY <1>1, <1>2, GoOnStructure DEF SwitchToSerial
<1>4. TypeOK'
  BY <1>3 DEF SwitchToSerial, TypeOK
<1>5. Top(t)' = f /\ \A u \in Threads \ {t} : stack'[u] = stack[u]
  BY <1>1, <1>2, GoOnTop
<1>6. SortedInOrder' /\ MergesOK'
  BY <1>1, <1>2, <1>5, QuietStep DEF SwitchToSerial, At
<1> QED BY <1>3, <1>4, <1>6

(* The task for the left half.                                             *)
LEMMA SpawnLeftStep ==
    ASSUME IInv, NEW t \in Threads, SpawnLeft(t)
    PROVE  IInv'
<1> USE DEF IInv
<1> DEFINE f == [Top(t) EXCEPT !.pc = "second"]
<1>1. /\ stack[t] # << >> /\ Top(t) \in Calls /\ Top(t).pc = "call" /\ At(t, "call")
      /\ Top(t).left < Top(t).right /\ Top(t).parallel
  BY CallAt DEF SpawnLeft
<1>2. /\ f \in Calls /\ f.pc = "second" /\ f.left = Top(t).left /\ f.right = Top(t).right
      /\ f.parallel /\ GoOn(t, f)
  BY <1>1 DEF SpawnLeft, Calls, CallType
<1> HIDE DEF f
<1>3. /\ Seg(f) = Seg(Top(t)) /\ Running(f, sorted)
      /\ HandedOut(Top(t)) = {} /\ Left(Top(t)) \in HandedOut(f)
  BY <1>1, <1>2 DEF Seg, HandedOut, Running, Merging, Left
<1>4. /\ Structure' /\ RegionOK' /\ stack' \in [Threads -> Seq(Calls)]
      /\ tasks' \subseteq Segments
  BY <1>1, <1>2, <1>3, SpawnStructure DEF SpawnLeft
<1>5. TypeOK'
  BY <1>4 DEF SpawnLeft, TypeOK
<1>6. Top(t)' = f /\ \A u \in Threads \ {t} : stack'[u] = stack[u]
  BY <1>1, <1>2, GoOnTop
<1>7. SortedInOrder' /\ MergesOK'
  BY <1>1, <1>2, <1>6, QuietStep DEF SpawnLeft, At
<1> QED BY <1>4, <1>5, <1>7

(* The task for the right half.                                            *)
LEMMA SpawnRightStep ==
    ASSUME IInv, NEW t \in Threads, SpawnRight(t)
    PROVE  IInv'
<1> USE DEF IInv
<1> DEFINE f == [Top(t) EXCEPT !.pc = "taskwait"]
<1>1. /\ stack[t] # << >> /\ Top(t) \in Calls /\ Top(t).pc = "second" /\ At(t, "second")
      /\ Top(t).left < Top(t).right /\ Top(t).parallel
  BY CallAt DEF SpawnRight
<1>2. /\ f \in Calls /\ f.pc = "taskwait" /\ f.left = Top(t).left /\ f.right = Top(t).right
      /\ f.parallel /\ GoOn(t, f)
  BY <1>1 DEF SpawnRight, Calls, CallType
<1> HIDE DEF f
<1>3. /\ Seg(f) = Seg(Top(t)) /\ Running(f, sorted)
      /\ HandedOut(Top(t)) = {Left(Top(t))} /\ Left(Top(t)) \in HandedOut(f)
      /\ Right(Top(t)) \in HandedOut(f)
  BY <1>1, <1>2 DEF Seg, HandedOut, Running, Merging, Left, Right
<1>4. Apart(Right(Top(t)), Left(Top(t)))
  BY <1>1, Halves, ApartSymmetric
<1>5. /\ Structure' /\ RegionOK' /\ stack' \in [Threads -> Seq(Calls)]
      /\ tasks' \subseteq Segments
  BY <1>1, <1>2, <1>3, <1>4, SpawnStructure DEF SpawnRight
<1>6. TypeOK'
  BY <1>5 DEF SpawnRight, TypeOK
<1>7. Top(t)' = f /\ \A u \in Threads \ {t} : stack'[u] = stack[u]
  BY <1>1, <1>2, GoOnTop
<1>8. SortedInOrder' /\ MergesOK'
  BY <1>1, <1>2, <1>7, QuietStep DEF SpawnRight, At
<1> QED BY <1>5, <1>6, <1>8

(* The wait for both tasks ends.                                           *)
LEMMA TaskWaitStep ==
    ASSUME IInv, NEW t \in Threads, TaskWait(t)
    PROVE  IInv'
<1> USE DEF IInv
<1> DEFINE f == [Top(t) EXCEPT !.pc = "copy"]
<1>1. /\ stack[t] # << >> /\ Top(t) \in Calls /\ Top(t).pc = "taskwait" /\ At(t, "taskwait")
      /\ {Left(Top(t)), Right(Top(t))} \subseteq sorted
  BY CallAt DEF TaskWait
<1>2. /\ f \in Calls /\ f.pc = "copy" /\ f.left = Top(t).left /\ f.right = Top(t).right
      /\ GoOn(t, f)
  BY <1>1 DEF TaskWait, Calls, CallType, Merging
<1> HIDE DEF f
<1>3. /\ Seg(f) = Seg(Top(t)) /\ Running(f, sorted)
      /\ HandedOut(Top(t)) \subseteq HandedOut(f)
  BY <1>1, <1>2 DEF Seg, HandedOut, Running, Merging, Left, Right
<1>4. Structure' /\ RegionOK' /\ stack' \in [Threads -> Seq(Calls)]
  BY <1>1, <1>2, <1>3, GoOnStructure DEF TaskWait
<1>5. TypeOK'
  BY <1>4 DEF TaskWait, TypeOK
<1>6. Top(t)' = f /\ \A u \in Threads \ {t} : stack'[u] = stack[u]
  BY <1>1, <1>2, GoOnTop
<1>7. SortedInOrder' /\ MergesOK'
  BY <1>1, <1>2, <1>6, QuietStep DEF TaskWait, At
<1> QED BY <1>4, <1>5, <1>7

(* A short segment is sorted by insertion, and the call returns.           *)
LEMMA InsertionStepStep ==
    ASSUME IInv, NEW t \in Threads, InsertionStep(t)
    PROVE  IInv'
<1> USE DEF IInv
<1> DEFINE f == Top(t)
<1>1. /\ stack[t] # << >> /\ f.pc = "call" /\ f \in Calls
      /\ f.left \in Index /\ f.right \in Index /\ f.left <= f.right /\ At(t, "call")
  BY CallAt DEF InsertionStep
<1>2. Structure' /\ RegionOK' /\ stack' \in [Threads -> Seq(Calls)] /\ sorted' \subseteq Segments
  BY <1>1, ReturnStructure DEF InsertionStep
<1>3. /\ arr' \in [Index -> Values] /\ Ascending(arr', f.left, f.right)
      /\ Rearranged(arr', arr, f.left, f.right)
  BY <1>1, InsertionSortSorts DEF InsertionStep, TypeOK
<1>4. TypeOK'
  BY <1>2, <1>3 DEF InsertionStep, TypeOK
<1>5. /\ ~At(t, "refill")' /\ ~At(t, "merge")'
      /\ \A u \in Threads \ {t} : stack'[u] = stack[u]
  BY <1>1, ReturnTop DEF InsertionStep
<1>6. \A x \in Index \ (f.left .. f.right) : arr'[x] = arr[x]
  BY <1>3, RearrangedElsewhere
<1>7. SortedInOrder'
  <2>1. sorted' = sorted \cup {Seg(f)}
    BY DEF InsertionStep, Return, Seg
  <2> QED BY <1>1, <1>3, <1>5, <1>6, <2>1, SortedKept
<1>8. MergesOK'
  <2>1. Busy(t) /\ temp' = temp
    BY <1>1 DEF Busy, InsertionStep
  <2> QED BY <1>5, <1>6, <2>1, MergesKept
<1> QED BY <1>2, <1>4, <1>7, <1>8

(* A call of a half of the segment.                                        *)
LEMMA HalfCall ==
    ASSUME NEW c \in Segments, NEW parallel \in BOOLEAN
    PROVE  /\ Call(c, parallel) \in Calls /\ Seg(Call(c, parallel)) = c
           /\ Call(c, parallel).pc = "call"
<1>1. c = <<c[1], c[2]>> /\ c[1] \in Index /\ c[2] \in Index /\ c[1] <= c[2]
  BY DEF Segments
<1> QED BY <1>1 DEF Call, Calls, CallType, Seg

(* A call on top of the one that makes it.                                 *)
LEMMA RecurseTop ==
    ASSUME TypeOK, NEW t \in Threads, stack[t] # << >>, NEW f \in Calls, NEW g \in Calls,
           Recurse(t, f, g)
    PROVE  Top(t)' = g /\ \A u \in Threads \ {t} : stack'[u] = stack[u]
<1> DEFINE q == stack[t]
           m == <<f>> \o Tail(q)
<1>1. q \in Seq(Calls)
  BY DEF TypeOK
<1>2. m \in Seq(Calls) /\ Tail(q) \in Seq(Calls)
  <2> HIDE DEF q
  <2>1. q # << >>
    BY DEF q
  <2> QED BY <1>1, <2>1, GoOnStack, PopStack
<1>3. <<g, f>> \o Tail(q) = <<g>> \o m
  BY <1>2, PushTwice
<1>4. stack' = [stack EXCEPT ![t] = <<g>> \o m]
  BY <1>3 DEF Recurse
<1> HIDE DEF m
<1> QED BY <1>2, <1>4, PushTop

(* The serial call of the left half.                                       *)
LEMMA RecurseLeftStep ==
    ASSUME IInv, NEW t \in Threads, RecurseLeft(t)
    PROVE  IInv'
<1> USE DEF IInv
<1> DEFINE f == [Top(t) EXCEPT !.pc = "second"]
           g == Call(Left(Top(t)), FALSE)
<1>1. /\ stack[t] # << >> /\ Top(t) \in Calls /\ Top(t).pc = "call" /\ At(t, "call")
      /\ Top(t).left < Top(t).right /\ ~Top(t).parallel
  BY CallAt DEF RecurseLeft
<1>2. /\ f \in Calls /\ f.pc = "second" /\ f.left = Top(t).left /\ f.right = Top(t).right
      /\ ~f.parallel /\ Recurse(t, f, g)
  BY <1>1 DEF RecurseLeft, Calls, CallType
<1>3. g \in Calls /\ Seg(g) = Left(Top(t)) /\ g.pc = "call"
  BY <1>1, Halves, HalfCall
<1> HIDE DEF f, g
<1>4. /\ Seg(f) = Seg(Top(t)) /\ HandedOut(Top(t)) = {} /\ Seg(g) \in HandedOut(f)
      /\ Suspended(f, g, sorted)
  BY <1>1, <1>2, <1>3 DEF Seg, HandedOut, Suspended, Left
<1>5. Structure' /\ RegionOK' /\ stack' \in [Threads -> Seq(Calls)]
  BY <1>1, <1>2, <1>3, <1>4, RecurseStructure DEF RecurseLeft
<1>6. TypeOK'
  BY <1>5 DEF RecurseLeft, TypeOK
<1>7. Top(t)' = g /\ \A u \in Threads \ {t} : stack'[u] = stack[u]
  BY <1>1, <1>2, <1>3, RecurseTop
<1>8. SortedInOrder' /\ MergesOK'
  BY <1>1, <1>3, <1>7, QuietStep DEF RecurseLeft, At
<1> QED BY <1>5, <1>6, <1>8

(* The serial call of the right half, when the left one has returned.      *)
LEMMA RecurseRightStep ==
    ASSUME IInv, NEW t \in Threads, RecurseRight(t)
    PROVE  IInv'
<1> USE DEF IInv
<1> DEFINE f == [Top(t) EXCEPT !.pc = "copy"]
           g == Call(Right(Top(t)), FALSE)
<1>1. /\ stack[t] # << >> /\ Top(t) \in Calls /\ Top(t).pc = "second" /\ At(t, "second")
      /\ Top(t).left < Top(t).right /\ ~Top(t).parallel /\ Running(Top(t), sorted)
  BY CallAt DEF RecurseRight
<1>2. /\ f \in Calls /\ f.pc = "copy" /\ f.left = Top(t).left /\ f.right = Top(t).right
      /\ ~f.parallel /\ Recurse(t, f, g)
  BY <1>1 DEF RecurseRight, Calls, CallType, Merging
<1>3. /\ g \in Calls /\ Seg(g) = Right(Top(t)) /\ g.pc = "call"
      /\ Apart(Right(Top(t)), Left(Top(t)))
  BY <1>1, Halves, HalfCall, ApartSymmetric
<1> HIDE DEF f, g
<1>4. /\ Seg(f) = Seg(Top(t)) /\ HandedOut(Top(t)) = {Left(Top(t))}
      /\ HandedOut(f) = {Left(Top(t)), Right(Top(t))}
      /\ Suspended(f, g, sorted)
  BY <1>1, <1>2, <1>3 DEF Seg, HandedOut, Suspended, Left, Right, Running
<1>5. Structure' /\ RegionOK' /\ stack' \in [Threads -> Seq(Calls)]
  BY <1>1, <1>2, <1>3, <1>4, RecurseStructure DEF RecurseRight
<1>6. TypeOK'
  BY <1>5 DEF RecurseRight, TypeOK
<1>7. Top(t)' = g /\ \A u \in Threads \ {t} : stack'[u] = stack[u]
  BY <1>1, <1>2, <1>3, RecurseTop
<1>8. SortedInOrder' /\ MergesOK'
  BY <1>1, <1>3, <1>7, QuietStep DEF RecurseRight, At
<1> QED BY <1>5, <1>6, <1>8

(* Both runs are copied to the scratch array.                              *)
LEMMA CopyStep ==
    ASSUME IInv, NEW t \in Threads, Copy(t)
    PROVE  IInv'
<1> USE DEF IInv
<1> DEFINE f == [Top(t) EXCEPT !.pc = "refill", !.k = Top(t).left]
<1>1. /\ stack[t] # << >> /\ Top(t) \in Calls /\ Top(t).pc = "copy" /\ At(t, "copy")
      /\ Running(Top(t), sorted) /\ Top(t).left \in Index /\ Top(t).right \in Index
      /\ Top(t).bufL = << >> /\ Top(t).bufR = << >> /\ Top(t).i_src = 0 /\ Top(t).j_src = 0
      /\ Top(t).left \in Int
  BY CallAt, IndexBounds DEF Copy, Calls
<1>2. /\ f \in Calls /\ f.pc = "refill" /\ f.left = Top(t).left /\ f.right = Top(t).right
      /\ f.bufL = << >> /\ f.bufR = << >> /\ f.i_src = 0 /\ f.j_src = 0 /\ f.k = f.left
      /\ GoOn(t, f)
  BY <1>1 DEF Copy, Calls, CallType, Merging
<1> HIDE DEF f
<1>3. /\ Seg(f) = Seg(Top(t)) /\ Running(f, sorted)
      /\ HandedOut(Top(t)) \subseteq HandedOut(f)
  BY <1>1, <1>2 DEF Seg, HandedOut, Running, Merging, Left, Right
<1>4. Structure' /\ RegionOK' /\ stack' \in [Threads -> Seq(Calls)]
  BY <1>1, <1>2, <1>3, GoOnStructure DEF Copy
<1>5. /\ temp' \in [Index -> Values \cup Junk]
      /\ \A x \in Index \ (Top(t).left .. Top(t).right) : temp'[x] = temp[x]
      /\ \A x \in Index : x \in f.left .. f.right => temp'[x] = arr[x]
  BY <1>2 DEF Copy, TypeOK
<1>6. TypeOK'
  BY <1>4, <1>5 DEF Copy, TypeOK
<1>7. Top(t)' = f /\ \A u \in Threads \ {t} : stack'[u] = stack[u]
  BY <1>1, <1>2, GoOnTop
<1>8. SortedInOrder'
  BY <1>1, <1>7, SortedStill DEF Copy, At
<1>9. MergesOK'
  <2>1. Busy(t) /\ arr' = arr /\ ~At(t, "merge")'
    BY <1>1, <1>2, <1>7 DEF Busy, Copy, At, Merging
  <2>2. Copied(f, arr', temp')
    <3>1. \A x \in f.left .. f.right : x \in Index
      <4> DEFINE l == f.left
                 r == f.right
      <4>1. l \in Index /\ r \in Index
        BY <1>1, <1>2
      <4> HIDE DEF l, r
      <4>2. \A x \in l .. r : x \in Index
        BY <4>1, IndexBounds, SortAssumption
      <4> QED BY <4>2 DEF l, r
    <3> QED BY <1>2, <1>5, <2>1, <3>1 DEF Copied
  <2> QED BY <1>5, <1>7, <2>1, <2>2, MergesKept
<1> QED BY <1>4, <1>6, <1>8, <1>9

(* The first tiles are read.                                               *)
LEMMA FirstTilesStep ==
    ASSUME IInv, NEW t \in Threads, FirstTiles(t)
    PROVE  IInv'
<1> USE DEF IInv
<1> DEFINE f == [RefillR(RefillL(Top(t))) EXCEPT !.pc = "merge"]
<1>1. /\ stack[t] # << >> /\ Top(t) \in Calls /\ Top(t).pc = "refill" /\ At(t, "refill")
      /\ Top(t).left < Top(t).right /\ Running(Top(t), sorted)
  BY CallAt DEF FirstTiles
<1>2. /\ Copied(Top(t), arr, temp)
      /\ Ascending(arr, Top(t).left, Mid(Top(t).left, Top(t).right))
      /\ Ascending(arr, Mid(Top(t).left, Top(t).right) + 1, Top(t).right)
  BY <1>1, RunsAscending DEF MergesOK
<1>3. /\ f \in Calls /\ Seg(f) = Seg(Top(t)) /\ f.pc = "merge" /\ GoOn(t, f)
      /\ TilesOK(f, temp) /\ MergeOK(f, arr, temp)
  <2>1. arr \in [Index -> Values]
    BY DEF TypeOK
  <2> QED BY <1>1, <1>2, <2>1, MergeBegins DEF FirstTiles
<1> HIDE DEF f
<1>4. /\ Running(f, sorted) /\ HandedOut(Top(t)) \subseteq HandedOut(f)
  BY <1>1, <1>3 DEF Seg, HandedOut, Running, Merging, Left, Right
<1>5. Structure' /\ RegionOK' /\ stack' \in [Threads -> Seq(Calls)]
  BY <1>1, <1>3, <1>4, GoOnStructure DEF FirstTiles
<1>6. TypeOK'
  BY <1>5 DEF FirstTiles, TypeOK
<1>7. Top(t)' = f /\ \A u \in Threads \ {t} : stack'[u] = stack[u]
  BY <1>1, <1>3, GoOnTop
<1>8. SortedInOrder'
  BY <1>1, <1>7, SortedStill DEF FirstTiles, At
<1>9. MergesOK'
  <2>1. UNCHANGED <<arr, temp>> /\ ~At(t, "refill")'
    BY <1>3, <1>7 DEF FirstTiles, At
  <2> QED BY <1>3, <1>7, <2>1, MergesKept
<1> QED BY <1>5, <1>6, <1>8, <1>9

(* A merge writes its next element.                                        *)
LEMMA MergeStep ==
    ASSUME IInv, NEW t \in Threads, At(t, "merge"), NEW f \in Calls, GoOn(t, f),
           Seg(f) = Seg(Top(t)), f.pc = "merge",
           UNCHANGED <<temp, input, tasks, sorted, entered, finished>>,
           arr' \in [Index -> Values],
           \A x \in Index \ (Top(t).left .. Top(t).right) : arr'[x] = arr[x],
           TilesOK(f, temp), MergeOK(f, arr', temp)
    PROVE  IInv'
<1> USE DEF IInv
<1>1. /\ stack[t] # << >> /\ Top(t) \in Calls /\ Top(t).pc = "merge"
      /\ Running(Top(t), sorted)
  BY CallAt
<1>2. /\ Running(f, sorted) /\ HandedOut(Top(t)) \subseteq HandedOut(f)
  BY <1>1 DEF Seg, HandedOut, Running, Merging, Left, Right
<1>3. Structure' /\ RegionOK' /\ stack' \in [Threads -> Seq(Calls)]
  BY <1>1, <1>2, GoOnStructure
<1>4. TypeOK'
  BY <1>3 DEF TypeOK
<1>5. stack'[t] # << >> /\ Top(t)' = f /\ \A u \in Threads \ {t} : stack'[u] = stack[u]
  BY <1>1, GoOnTop
<1>6. Busy(t) /\ At(t, "merge")' /\ ~At(t, "refill")' /\ temp' = temp
  BY <1>1, <1>5 DEF Busy, Merging, At
<1>7. SortedInOrder'
  BY <1>1, <1>5, <1>6, SortedKept
<1>8. MergesOK'
  BY <1>5, <1>6, MergesKept
<1> QED BY <1>3, <1>4, <1>7, <1>8

(* The next element comes from the left run.                               *)
LEMMA MergeLStep ==
    ASSUME IInv, NEW t \in Threads, MergeL(t)
    PROVE  IInv'
<1> DEFINE f == Top(t)
           g == RefillL([f EXCEPT !.bufL = Tail(@), !.k = @ + 1])
<1>1. f \in Calls /\ f.pc = "merge" /\ At(t, "merge")
  BY CallAt DEF MergeL
<1>2. arr \in [Index -> Values] /\ TilesOK(f, temp) /\ MergeOK(f, arr, temp)
  BY <1>1 DEF IInv, TypeOK, MergesOK
<1>3. arr' = [arr EXCEPT ![f.k] = Head(f.bufL)] /\ GoOn(t, g) /\ TakeL(f)
  BY DEF MergeL
<1>4. /\ g \in Calls /\ Seg(g) = Seg(f) /\ g.pc = "merge"
      /\ f.k \in f.left .. f.right /\ arr' \in [Index -> Values]
      /\ TilesOK(g, temp) /\ MergeOK(g, arr', temp)
  BY <1>1, <1>2, <1>3, MergesLeft
<1>5. \A x \in Index \ (f.left .. f.right) : arr'[x] = arr[x]
  BY <1>2, <1>3, <1>4
<1> HIDE DEF g
<1> QED BY <1>1, <1>3, <1>4, <1>5, MergeStep DEF MergeL

(* The next element comes from the right run.                              *)
LEMMA MergeRStep ==
    ASSUME IInv, NEW t \in Threads, MergeR(t)
    PROVE  IInv'
<1> DEFINE f == Top(t)
           g == RefillR([f EXCEPT !.bufR = Tail(@), !.k = @ + 1])
<1>1. f \in Calls /\ f.pc = "merge" /\ At(t, "merge")
  BY CallAt DEF MergeR
<1>2. arr \in [Index -> Values] /\ TilesOK(f, temp) /\ MergeOK(f, arr, temp)
  BY <1>1 DEF IInv, TypeOK, MergesOK
<1>3. arr' = [arr EXCEPT ![f.k] = Head(f.bufR)] /\ GoOn(t, g) /\ TakeR(f)
  BY DEF MergeR
<1>4. /\ g \in Calls /\ Seg(g) = Seg(f) /\ g.pc = "merge"
      /\ f.k \in f.left .. f.right /\ arr' \in [Index -> Values]
      /\ TilesOK(g, temp) /\ MergeOK(g, arr', temp)
  BY <1>1, <1>2, <1>3, MergesRight
<1>5. \A x \in Index \ (f.left .. f.right) : arr'[x] = arr[x]
  BY <1>2, <1>3, <1>4
<1> HIDE DEF g
<1> QED BY <1>1, <1>3, <1>4, <1>5, MergeStep DEF MergeR

(* The merge is complete, and the call returns.                            *)
LEMMA MergedStep ==
    ASSUME IInv, NEW t \in Threads, Merged(t)
    PROVE  IInv'
<1> USE DEF IInv
<1> DEFINE f == Top(t)
<1>1. /\ stack[t] # << >> /\ f.pc = "merge" /\ f \in CallType /\ f.left < f.right
      /\ At(t, "merge") /\ f.pc \in Merging
  BY CallAt DEF Merged, Merging
<1>2. Structure' /\ RegionOK' /\ stack' \in [Threads -> Seq(Calls)] /\ sorted' \subseteq Segments
  BY <1>1, ReturnStructure DEF Merged
<1>3. TypeOK'
  BY <1>2 DEF Merged, TypeOK
<1>4. /\ ~At(t, "refill")' /\ ~At(t, "merge")'
      /\ \A u \in Threads \ {t} : stack'[u] = stack[u]
  BY <1>1, ReturnTop DEF Merged
<1>5. Ascending(arr', f.left, f.right)
  <2>1. TilesOK(f, temp) /\ MergeOK(f, arr, temp) /\ f.bufL = << >> /\ f.bufR = << >>
    BY <1>1 DEF MergesOK, Merged
  <2>2. Ascending(arr, f.left, f.right)
    BY <1>1, <2>1, MergeEnds
  <2> QED BY <2>2 DEF Merged
<1>6. SortedInOrder'
  <2>1. sorted' = sorted \cup {Seg(f)} /\ arr' = arr
    BY DEF Merged, Return, Seg
  <2> QED BY <1>1, <1>4, <1>5, <2>1, SortedKept
<1>7. MergesOK'
  BY <1>4, MergesKept DEF Merged
<1> QED BY <1>2, <1>3, <1>6, <1>7

(* A thread enters the single construct.                                   *)
LEMMA SingleStep ==
    ASSUME IInv, NEW t \in Threads, Single(t)
    PROVE  IInv'
<1> USE DEF IInv
<1>1. Structure' /\ RegionOK' /\ stack' \in [Threads -> Seq(Calls)]
  BY SingleStructure
<1>2. TypeOK'
  BY <1>1 DEF Single, TypeOK
<1> DEFINE g == Call(Root, TRUE)
<1>3. g \in Calls /\ g.pc = "call"
  <2>1. Root \in Segments
    BY IndexBounds DEF Root, Segments
  <2> QED BY <2>1, HalfCall
<1> HIDE DEF g
<1>4. stack' = [stack EXCEPT ![t] = <<g>> \o << >>]
  <2>1. <<g>> \in Seq(Calls) /\ <<g>> \o << >> = <<g>>
    BY <1>3, ConcatEmptySeq
  <2> QED BY <2>1 DEF Single, Root, g
<1>5. Top(t)' = g /\ \A u \in Threads \ {t} : stack'[u] = stack[u]
  <2>1. << >> \in Seq(Calls)
    OBVIOUS
  <2> QED BY <1>3, <1>4, <2>1, PushTop
<1>6. SortedInOrder' /\ MergesOK'
  <2>1. stack[t] = << >>
    BY DEF RegionOK, Single
  <2> QED BY <1>3, <1>5, <2>1, QuietStep DEF Single, At
<1> QED BY <1>1, <1>2, <1>6

(* A thread starts a task.                                                 *)
LEMMA StartTaskStep ==
    ASSUME IInv, NEW t \in Threads, StartTask(t)
    PROVE  IInv'
<1> USE DEF IInv
<1>1. PICK task \in tasks :
        /\ MayStart(t, task)
        /\ tasks' = tasks \ {task}
        /\ stack' = [stack EXCEPT ![t] = <<Call(task, TRUE)>> \o @]
        /\ UNCHANGED <<arr, temp, input, sorted, entered, finished>>
  BY DEF StartTask
<1> DEFINE g == Call(task, TRUE)
<1>2. g \in Calls /\ g.pc = "call" /\ Seg(g) = task
  BY HalfCall DEF TypeOK
<1> HIDE DEF g
<1>3. /\ Structure' /\ RegionOK' /\ stack' \in [Threads -> Seq(Calls)]
      /\ tasks' \subseteq Segments
  BY <1>1, <1>2, StartStructure DEF g
<1>4. TypeOK'
  BY <1>1, <1>3 DEF TypeOK
<1>5. Top(t)' = g /\ \A u \in Threads \ {t} : stack'[u] = stack[u]
  <2>1. stack[t] \in Seq(Calls) /\ stack' = [stack EXCEPT ![t] = <<g>> \o stack[t]]
    BY <1>1 DEF TypeOK, g
  <2> QED BY <1>2, <2>1, PushTop
<1>6. SortedInOrder' /\ MergesOK'
  <2>1. ~At(t, "merge")
    BY <1>1 DEF MayStart, At
  <2> QED BY <1>1, <1>2, <1>5, <2>1, QuietStep DEF At
<1> QED BY <1>3, <1>4, <1>6

(* The parallel region ends.                                               *)
LEMMA EndParallelStep ==
    ASSUME IInv, EndParallel
    PROVE  IInv'
<1> USE DEF IInv
<1>1. UNCHANGED <<arr, temp, input, stack, tasks, sorted, entered>> /\ finished' = TRUE
  BY DEF EndParallel
<1>2. TypeOK' /\ Structure'
  BY <1>1 DEF TypeOK, Structure
<1>3. RegionOK'
  BY <1>1 DEF RegionOK, EndParallel
<1>4. SortedInOrder' /\ MergesOK'
  BY <1>1 DEF SortedInOrder, MergesOK, At, Top
<1> QED BY <1>2, <1>3, <1>4

(* Before the region is entered.                                           *)
LEMMA InitIInv ==
    ASSUME Init
    PROVE  IInv
<1>1. /\ \A t \in Threads : stack[t] = << >>
      /\ tasks = {} /\ sorted = {} /\ ~entered /\ ~finished
      /\ stack \in [Threads -> Seq(Calls)]
  BY DEF Init
<1>2. TypeOK
  <2>1. temp \in [Index -> Values \cup Junk]
    BY DEF Init
  <2> QED BY <1>1, <2>1 DEF Init, TypeOK
<1>3. Structure
  BY <1>1 DEF Structure, StackOK, Nested, StacksApart
<1>4. RegionOK
  BY <1>1 DEF RegionOK
<1>5. SortedInOrder /\ MergesOK
  BY <1>1 DEF SortedInOrder, MergesOK, At
<1> QED BY <1>2, <1>3, <1>4, <1>5 DEF IInv

(* A step keeps the invariant.                                             *)
LEMMA NextIInv ==
    ASSUME IInv, [Next]_vars
    PROVE  IInv'
<1>1. CASE UNCHANGED vars
  BY <1>1 DEF vars, IInv, TypeOK, Structure, RegionOK, SortedInOrder, MergesOK, At, Top
<1>2. CASE EndParallel
  BY <1>2, EndParallelStep
<1>3. ASSUME NEW t \in Threads, Step(t) PROVE IInv'
  <2>1. CASE Single(t)
    BY <2>1, SingleStep
  <2>2. CASE StartTask(t)
    BY <2>2, StartTaskStep
  <2>3. CASE Trivial(t)
    BY <2>3, TrivialStep
  <2>4. CASE SwitchToSerial(t)
    BY <2>4, SwitchToSerialStep
  <2>5. CASE SpawnLeft(t)
    BY <2>5, SpawnLeftStep
  <2>6. CASE SpawnRight(t)
    BY <2>6, SpawnRightStep
  <2>7. CASE TaskWait(t)
    BY <2>7, TaskWaitStep
  <2>8. CASE InsertionStep(t)
    BY <2>8, InsertionStepStep
  <2>9. CASE RecurseLeft(t)
    BY <2>9, RecurseLeftStep
  <2>10. CASE RecurseRight(t)
    BY <2>10, RecurseRightStep
  <2>11. CASE Copy(t)
    BY <2>11, CopyStep
  <2>12. CASE FirstTiles(t)
    BY <2>12, FirstTilesStep
  <2>13. CASE MergeL(t)
    BY <2>13, MergeLStep
  <2>14. CASE MergeR(t)
    BY <2>14, MergeRStep
  <2>15. CASE Merged(t)
    BY <2>15, MergedStep
  <2> QED BY <1>3, <2>1, <2>2, <2>3, <2>4, <2>5, <2>6, <2>7, <2>8, <2>9, <2>10, <2>11,
             <2>12, <2>13, <2>14, <2>15 DEF Step
<1> QED BY <1>1, <1>2, <1>3 DEF Next

(* Every state the merge sort of hw4.c can reach satisfies the invariant:  *)
(* calls are nested, what is finished is in order, merges know where they  *)
(* are.                                                                    *)
THEOREM InvariantHolds == Spec => []IInv
BY InitIInv, NextIInv, PTL DEF Spec

(***************************************************************************)
(* Elements: nothing is lost or duplicated.  The array and the merges in   *)
(* progress together are a permutation of what was loaded.                 *)
(***************************************************************************)

(* The element that belongs at x once the rest of a merge is taken from    *)
(* its runs without comparing: written, then what is left of the left run, *)
(* then what is left of the right one, which is where it was.              *)
Pending(f, a, scratch, x) ==
    IF x < f.k THEN a[x]
    ELSE IF x < NextR(f) THEN scratch[x - f.k + NextL(f)]
    ELSE scratch[x]

MergingAt(t, x) == At(t, "merge") /\ x \in Top(t).left .. Top(t).right

(* p says where in the input every element comes from.                     *)
Accounted(p) ==
    /\ \A x \in Index : (\A t \in Threads : ~MergingAt(t, x)) => arr[x] = input[p[x]]
    /\ \A t \in Threads, x \in Index :
          MergingAt(t, x) => Pending(Top(t), arr, temp, x) = input[p[x]]

(* No segment of a call gets elements from outside, and what no call has   *)
(* been handed is as it was.                                               *)
Within(p, s) == \A x \in s[1] .. s[2] : p[x] \in s[1] .. s[2]
Still(p, s) == \A x \in s[1] .. s[2] : p[x] = x

FrameOK(p, f) ==
    /\ Within(p, Seg(f))
    /\ f.pc = "call" => Still(p, Seg(f))
    /\ f.pc = "second" => Still(p, Right(f))

Below(q) == {q[i] : i \in 2 .. Len(q)}

Live(p) ==
    /\ \A s \in tasks : Still(p, s)
    /\ \A t \in Threads : /\ stack[t] # << >> => FrameOK(p, Top(t))
                          /\ \A g \in Below(stack[t]) : FrameOK(p, g)
    /\ ~entered => Still(p, Root)

Everywhere == Shuffles(0, N - 1)

Kept == \E p \in Everywhere : Accounted(p) /\ Live(p)

-----------------------------------------------------------------------------
(* Permutations and segments.                                              *)

Identity == [x \in Index |-> x]

(* Nothing moves.                                                          *)
LEMMA IdentityPermutes ==
    ASSUME NEW l, NEW r
    PROVE  Identity \in Shuffles(l, r)
BY DEF Identity, Shuffles

(* Elements of the segment come from the segment.                          *)
LEMMA PermutationWithin ==
    ASSUME NEW l, NEW r, NEW q \in Shuffles(l, r), NEW x \in Index, x \in l .. r
    PROVE  q[x] \in l .. r /\ q[x] \in Index
<1>1. q[x] \in Index /\ (q[x] \notin l .. r => q[q[x]] = q[x])
  BY DEF Shuffles
<1>2. q[x] \notin l .. r => q[x] = x
  BY <1>1 DEF Shuffles
<1> QED BY <1>1, <1>2

(* A permutation of a segment is one of the array.                         *)
LEMMA SmallPermutation ==
    ASSUME NEW l \in Index, NEW r \in Index, NEW q \in Shuffles(l, r)
    PROVE  q \in Everywhere
<1>1. \A x \in Index : x \in 0 .. N - 1
  BY DEF Index
<1> QED BY <1>1 DEF Everywhere, Shuffles

(* Moving elements of one segment leaves every segment apart from it as it *)
(* is, and takes no element out of a segment that contains it.             *)
LEMMA MovedApart ==
    ASSUME NEW p \in Everywhere, NEW b \in Segments, NEW q \in Shuffles(b[1], b[2]),
           NEW s \in Segments
    PROVE  LET c == [x \in Index |-> p[q[x]]]
           IN  /\ Apart(b, s) /\ Still(p, s) => Still(c, s)
               /\ Apart(b, s) /\ Within(p, s) => Within(c, s)
               /\ Inside(b, s) /\ Within(p, s) => Within(c, s)
<1> DEFINE c == [x \in Index |-> p[q[x]]]
<1>1. /\ b[1] \in Index /\ b[2] \in Index /\ s[1] \in Index /\ s[2] \in Index
      /\ b[1] \in Int /\ b[2] \in Int /\ s[1] \in Int /\ s[2] \in Int
  BY IndexBounds DEF Segments
<1>2. \A x \in s[1] .. s[2] : x \in Index
  BY <1>1, IndexBounds, SortAssumption
<1>3. \A x \in s[1] .. s[2] : c[x] = p[q[x]]
  BY <1>2
<1>4. ASSUME Apart(b, s), NEW x \in s[1] .. s[2] PROVE q[x] = x
  <2>1. x \notin b[1] .. b[2]
    BY <1>1, <1>4 DEF Apart
  <2> QED BY <1>2, <2>1 DEF Shuffles
<1>5. ASSUME Inside(b, s), NEW x \in s[1] .. s[2] PROVE q[x] \in s[1] .. s[2]
  <2>1. CASE x \in b[1] .. b[2]
    <3>1. q[x] \in b[1] .. b[2]
      BY <1>2, <2>1, PermutationWithin
    <3> QED BY <1>1, <1>5, <3>1 DEF Inside
  <2>2. CASE x \notin b[1] .. b[2]
    BY <1>2, <2>2 DEF Shuffles
  <2> QED BY <2>1, <2>2
<1> HIDE DEF c
<1>6. /\ Apart(b, s) /\ Still(p, s) => Still(c, s)
      /\ Apart(b, s) /\ Within(p, s) => Within(c, s)
      /\ Inside(b, s) /\ Within(p, s) => Within(c, s)
  BY <1>3, <1>4, <1>5 DEF Still, Within
<1> QED BY <1>6 DEF c

(* So what is alive besides the busy call stays as it was.                 *)
LEMMA MovedFrame ==
    ASSUME NEW p \in Everywhere, NEW b \in Segments, NEW q \in Shuffles(b[1], b[2]),
           NEW g \in Calls, FrameOK(p, g), Apart(b, Seg(g)) \/ Holds(g, b)
    PROVE  FrameOK([x \in Index |-> p[q[x]]], g)
<1> DEFINE c == [x \in Index |-> p[q[x]]]
<1>1. Seg(g) \in Segments
  BY SegOfCall
<1>2. Within(c, Seg(g))
  <2>1. Apart(b, Seg(g)) \/ Inside(b, Seg(g))
    BY HoldsIsInside
  <2> QED BY <1>1, <2>1, MovedApart DEF FrameOK
<1>3. ASSUME g.pc = "call" PROVE Still(c, Seg(g))
  <2>1. Apart(b, Seg(g))
    BY <1>3 DEF Holds, HandedOut
  <2> QED BY <1>1, <1>3, <2>1, MovedApart DEF FrameOK
<1>4. ASSUME g.pc = "second" PROVE Still(c, Right(g))
  <2>1. /\ Left(g) \in Segments /\ Right(g) \in Segments /\ Inside(Right(g), Seg(g))
        /\ Apart(Left(g), Right(g))
    BY <1>4, Halves DEF Calls
  <2>2. Apart(b, Right(g))
    <3>1. CASE Apart(b, Seg(g))
      BY <1>1, <2>1, <3>1, ApartInside
    <3>2. CASE Holds(g, b)
      <4>1. Inside(b, Left(g))
        BY <1>4, <3>2 DEF Holds, HandedOut
      <4> QED BY <2>1, <4>1, ApartInside
    <3> QED BY <3>1, <3>2
  <2> QED BY <1>4, <2>1, <2>2, MovedApart DEF FrameOK
<1> HIDE DEF c
<1>5. FrameOK(c, g)
  BY <1>2, <1>3, <1>4 DEF FrameOK
<1> QED BY <1>5 DEF c

(* Moving elements of the segment of a busy thread.                        *)
LEMMA MovedLive ==
    ASSUME IInv, NEW t \in Threads, Busy(t), NEW p \in Everywhere, Live(p),
           NEW q \in Shuffles(Top(t).left, Top(t).right)
    PROVE  LET c == [x \in Index |-> p[q[x]]]
           IN  /\ c \in Everywhere
               /\ \A s \in tasks : Still(c, s)
               /\ \A u \in Threads \ {t} : /\ stack[u] # << >> => FrameOK(c, Top(u))
                                           /\ \A g \in Below(stack[u]) : FrameOK(c, g)
               /\ \A g \in Below(stack[t]) : FrameOK(c, g)
               /\ Within(c, Seg(Top(t)))
<1> DEFINE c == [x \in Index |-> p[q[x]]]
           b == Seg(Top(t))
<1> USE DEF IInv
<1>1. /\ Top(t) \in Calls /\ Top(t) = stack[t][1] /\ 1 \in 1 .. Len(stack[t])
      /\ b \in Segments /\ b[1] = Top(t).left /\ b[2] = Top(t).right
      /\ b[1] \in Index /\ b[2] \in Index /\ Inside(b, b)
  <2>1. /\ Top(t) \in Calls /\ Top(t) = stack[t][1] /\ 1 \in 1 .. Len(stack[t])
        /\ b \in Segments /\ b[1] = Top(t).left /\ b[2] = Top(t).right
    BY TopOfStack, SegOfCall DEF Busy, Seg
  <2> QED BY <2>1, SegmentBounds DEF Segments, Inside
<1> HIDE DEF b
<1>2. c \in Everywhere
  BY <1>1, SmallPermutation, PermutationsCompose DEF Everywhere
<1>3. ASSUME NEW s \in tasks PROVE Still(c, s)
  <2>1. s \in Segments /\ Apart(s, b)
    <3>1. Outside(s, stack[t]) /\ ~Holds(Top(t), s) /\ s \in Segments
      BY NothingAlive DEF Busy, Structure, TypeOK
    <3> QED BY <1>1, <3>1 DEF Outside, b
  <2>2. Apart(b, s) /\ Still(p, s)
    BY <2>1, ApartSymmetric DEF Live
  <2> QED BY <1>1, <2>1, <2>2, MovedApart
<1>4. ASSUME NEW u \in Threads \ {t}, NEW i \in 1 .. Len(stack[u])
      PROVE  stack[u][i] \in Calls /\ (Apart(b, Seg(stack[u][i])) \/ Holds(stack[u][i], b))
  <2>1. StacksApart(stack[t], stack[u]) /\ ~Holds(Top(t), Seg(stack[u][i]))
    BY NothingAlive DEF Busy, Structure
  <2>2. stack[u] \in Seq(Calls)
    BY DEF TypeOK
  <2> QED BY <1>1, <2>1, <2>2, ElementOfSeq DEF StacksApart, b
<1>5. ASSUME NEW u \in Threads \ {t}
      PROVE  /\ stack[u] # << >> => FrameOK(c, Top(u))
             /\ \A g \in Below(stack[u]) : FrameOK(c, g)
  <2>1. ASSUME stack[u] # << >> PROVE FrameOK(c, Top(u))
    <3>1. Top(u) = stack[u][1] /\ 1 \in 1 .. Len(stack[u]) /\ FrameOK(p, Top(u))
      BY <2>1, TopOfStack DEF Live
    <3> QED BY <1>1, <1>4, <3>1, MovedFrame
  <2>2. ASSUME NEW g \in Below(stack[u]) PROVE FrameOK(c, g)
    <3>1. PICK i \in 2 .. Len(stack[u]) : g = stack[u][i]
      BY DEF Below
    <3>2. i \in 1 .. Len(stack[u]) /\ FrameOK(p, g)
      BY <3>1 DEF Live
    <3> QED BY <1>1, <1>4, <3>1, <3>2, MovedFrame
  <2> QED BY <2>1, <2>2
<1>6. ASSUME NEW g \in Below(stack[t]) PROVE FrameOK(c, g)
  <2>1. PICK i \in 2 .. Len(stack[t]) : g = stack[t][i]
    BY DEF Below
  <2>2. i \in 1 .. Len(stack[t]) /\ 1 < i /\ FrameOK(p, g) /\ stack[t] \in Seq(Calls)
    BY <2>1 DEF Live, TypeOK
  <2>3. Holds(g, b) /\ g \in Calls
    <3>1. Nested(stack[t])
      BY DEF Structure, StackOK
    <3> QED BY <1>1, <2>1, <2>2, <3>1, ElementOfSeq DEF Nested, b
  <2> QED BY <1>1, <2>2, <2>3, MovedFrame
<1>7. Within(c, b)
  <2>1. Within(p, b)
    BY DEF Live, FrameOK, Busy, b
  <2> QED BY <1>1, <2>1, MovedApart
<1> HIDE DEF c
<1>8. Within(c, Seg(Top(t)))
  BY <1>7 DEF b
<1> QED BY <1>2, <1>3, <1>5, <1>6, <1>8 DEF c

-----------------------------------------------------------------------------
(* Where the elements are.                                                 *)

(* What a merge still has to write depends on its own segment only.        *)
LEMMA PendingFrame ==
    ASSUME NEW f \in CallType, f.left < f.right,
           NEW a, NEW b, NEW scratch, NEW other, TilesOK(f, scratch),
           \A x \in f.left .. f.right : a[x] = b[x] /\ scratch[x] = other[x],
           NEW x \in f.left .. f.right
    PROVE  Pending(f, a, scratch, x) = Pending(f, b, other, x)
<1> DEFINE l == f.left
           r == f.right
           m == Mid(l, r)
           nl == NextL(f)
           nr == NextR(f)
           k == f.k
<1>1. /\ l \in Int /\ r \in Int /\ m \in Int /\ nl \in Int /\ nr \in Int /\ k \in Int
      /\ l <= nl /\ nl <= m + 1 /\ m + 1 <= nr /\ nr <= r + 1 /\ k = nl + nr - (m + 1)
      /\ x \in l .. r
  BY RunBounds, MergeBounds
<1>2. \A y \in l .. r : a[y] = b[y] /\ scratch[y] = other[y]
  OBVIOUS
<1> HIDE DEF l, r, m, nl, nr, k
<1>3. x >= k /\ x < nr => x - k + nl \in l .. r
  BY <1>1
<1>4. x < k \/ x >= k
  BY <1>1
<1> QED BY <1>1, <1>2, <1>3, <1>4 DEF Pending, nl, nr, k

(* A step that writes nothing, of a thread that is not merging.            *)
LEMMA AccountedStill ==
    ASSUME NEW p, Accounted(p), NEW t \in Threads, UNCHANGED <<arr, temp, input>>,
           \A u \in Threads \ {t} : stack'[u] = stack[u],
           ~At(t, "merge"), ~At(t, "merge")'
    PROVE  Accounted(p)'
<1>1. \A u \in Threads, x \in Index : MergingAt(u, x)' <=> MergingAt(u, x)
  BY DEF MergingAt, At, Top
<1>2. \A u \in Threads, x \in Index : MergingAt(u, x) => Top(u)' = Top(u)
  BY DEF MergingAt, Top
<1> QED BY <1>1, <1>2 DEF Accounted, Pending

(* A thread moves the elements of its segment as q says.                   *)
LEMMA AccountedMoved ==
    ASSUME IInv, NEW t \in Threads, Busy(t), NEW p \in Everywhere, Accounted(p),
           NEW q \in Shuffles(Top(t).left, Top(t).right),
           \A u \in Threads \ {t} : stack'[u] = stack[u],
           input' = input,
           \A x \in Index \ (Top(t).left .. Top(t).right) :
              arr'[x] = arr[x] /\ temp'[x] = temp[x],
           At(t, "merge")' => Seg(Top(t)') = Seg(Top(t)),
           \A x \in Top(t).left .. Top(t).right :
              LET before(y) == IF At(t, "merge") THEN Pending(Top(t), arr, temp, y)
                               ELSE arr[y]
              IN  /\ At(t, "merge")' => Pending(Top(t)', arr', temp', x) = before(q[x])
                  /\ ~At(t, "merge")' => arr'[x] = before(q[x])
    PROVE  Accounted([x \in Index |-> p[q[x]]])'
<1> DEFINE c == [x \in Index |-> p[q[x]]]
           f == Top(t)
           before(y) == IF At(t, "merge") THEN Pending(f, arr, temp, y) ELSE arr[y]
<1> USE DEF IInv
<1>1. f \in Calls /\ f.left \in Index /\ f.right \in Index
  BY TopOfStack DEF Busy, Calls, CallType
<1>2. ASSUME NEW x \in f.left .. f.right PROVE before(q[x]) = input[p[q[x]]] /\ x \in Index
  <2>1. x \in Index
    <3> DEFINE l == f.left
               r == f.right
    <3>1. l \in Index /\ r \in Index /\ x \in l .. r
      BY <1>1
    <3> HIDE DEF l, r
    <3> QED BY <3>1, IndexBounds, SortAssumption
  <2>2. q[x] \in f.left .. f.right /\ q[x] \in Index
    BY <2>1, PermutationWithin
  <2>3. CASE At(t, "merge")
    BY <2>1, <2>2, <2>3 DEF Accounted, MergingAt
  <2>4. CASE ~At(t, "merge")
    <3>1. ASSUME NEW u \in Threads PROVE ~MergingAt(u, q[x])
      <4>1. SUFFICES ASSUME At(u, "merge"), q[x] \in Top(u).left .. Top(u).right PROVE FALSE
        BY DEF MergingAt
      <4>2. u # t /\ Busy(u)
        BY <2>4, <4>1 DEF At, Busy, Merging
      <4>3. Apart(Seg(f), Seg(Top(u)))
        BY <4>2, BusyApart
      <4>4. Top(u).left \in Index /\ Top(u).right \in Index
        BY <4>2, TopOfStack DEF Busy, Calls, CallType
      <4> DEFINE l == f.left
                 r == f.right
                 lu == Top(u).left
                 ru == Top(u).right
                 y == q[x]
      <4>5. /\ r < lu \/ ru < l
            /\ y \in l .. r /\ y \in lu .. ru
            /\ l \in Int /\ r \in Int /\ lu \in Int /\ ru \in Int
        BY <1>1, <2>2, <4>1, <4>3, <4>4, IndexBounds DEF Apart, Seg
      <4> HIDE DEF l, r, lu, ru, y
      <4> QED BY <4>5
    <3>2. arr[q[x]] = input[p[q[x]]]
      BY <2>2, <3>1 DEF Accounted
    <3> QED BY <2>1, <2>4, <3>2
  <2> QED BY <2>3, <2>4
<1>3. ASSUME NEW x \in f.left .. f.right
      PROVE  /\ At(t, "merge")' => Pending(Top(t)', arr', temp', x) = input'[c[x]]
             /\ ~At(t, "merge")' => arr'[x] = input'[c[x]]
  BY <1>2
<1>4. ASSUME NEW x \in Index, x \notin f.left .. f.right
      PROVE  c[x] = p[x] /\ arr'[x] = arr[x] /\ temp'[x] = temp[x]
  BY <1>4 DEF Shuffles
<1>5. ASSUME NEW x \in Index, \A u \in Threads : ~MergingAt(u, x)'
      PROVE  arr'[x] = input'[c[x]]
  <2>1. CASE x \in f.left .. f.right
    <3>1. ~At(t, "merge")'
      BY <1>5, <2>1 DEF MergingAt, Seg
    <3> QED BY <1>3, <2>1, <3>1
  <2>2. CASE x \notin f.left .. f.right
    <3>1. ASSUME NEW u \in Threads PROVE ~MergingAt(u, x)
      <4>1. CASE u = t
        BY <2>2, <4>1 DEF MergingAt
      <4>2. CASE u # t
        BY <1>5, <4>2 DEF MergingAt, At, Top
      <4> QED BY <4>1, <4>2
    <3> QED BY <1>4, <2>2, <3>1 DEF Accounted
  <2> QED BY <2>1, <2>2
<1>6. ASSUME NEW u \in Threads, NEW x \in Index, MergingAt(u, x)'
      PROVE  Pending(Top(u)', arr', temp', x) = input'[c[x]]
  <2>1. CASE u = t
    BY <1>3, <1>6, <2>1 DEF MergingAt, Seg
  <2>2. CASE u # t
    <3> DEFINE g == Top(u)
    <3>1. At(u, "merge") /\ Top(u)' = g /\ x \in g.left .. g.right /\ Busy(u)
      BY <1>6, <2>2 DEF MergingAt, At, Top, Busy, Merging
    <3>2. /\ g \in CallType /\ g.left < g.right /\ TilesOK(g, temp)
          /\ g.left \in Index /\ g.right \in Index
      BY <3>1, CallAt DEF MergesOK
    <3>3. Apart(Seg(f), Seg(g))
      BY <2>2, <3>1, BusyApart
    <3>4. ASSUME NEW y \in g.left .. g.right PROVE y \in Index /\ y \notin f.left .. f.right
      <4> DEFINE l == f.left
                 r == f.right
                 lu == g.left
                 ru == g.right
      <4>1. /\ r < lu \/ ru < l
            /\ y \in lu .. ru
            /\ l \in Index /\ r \in Index /\ lu \in Index /\ ru \in Index
        BY <1>1, <3>2, <3>3 DEF Apart, Seg
      <4> HIDE DEF l, r, lu, ru
      <4>2. y \in Index /\ y \notin l .. r
        BY <4>1, IndexBounds, SortAssumption
      <4> QED BY <4>2 DEF l, r
    <3>5. \A y \in g.left .. g.right : arr[y] = arr'[y] /\ temp[y] = temp'[y]
      BY <1>4, <3>4
    <3> HIDE DEF g
    <3>6. Pending(g, arr, temp, x) = Pending(g, arr', temp', x)
      BY <3>1, <3>2, <3>5, PendingFrame
    <3>7. Pending(g, arr, temp, x) = input[p[x]]
      BY <3>1 DEF Accounted, MergingAt, g
    <3>8. c[x] = p[x]
      BY <1>4, <3>1, <3>4
    <3> QED BY <3>1, <3>6, <3>7, <3>8
  <2> QED BY <2>1, <2>2
<1> HIDE DEF c
<1>7. Accounted(c)'
  BY <1>5, <1>6 DEF Accounted
<1> QED BY <1>7 DEF c

-----------------------------------------------------------------------------
(* The calls of a stack after going on, returning and starting a call.     *)

(* A thread that goes on: the calls below stay.                            *)
LEMMA FramesGoOn ==
    ASSUME TypeOK, NEW t \in Threads, stack[t] # << >>, NEW f \in Calls, GoOn(t, f)
    PROVE  Below(stack'[t]) \subseteq Below(stack[t])
<1> DEFINE q == stack[t]
           p == <<f>> \o Tail(q)
<1>1. stack'[t] = p /\ q \in Seq(Calls) /\ q # << >>
  BY DEF GoOn, TypeOK
<1> HIDE DEF q
<1>2. Len(p) = Len(q) /\ \A i \in 2 .. Len(q) : p[i] = q[i]
  BY <1>1, GoOnStack
<1> HIDE DEF p
<1>3. Below(p) \subseteq Below(q)
  BY <1>2 DEF Below
<1> QED BY <1>1, <1>3 DEF q

(* A thread that returns: the call below becomes the innermost one.        *)
LEMMA FramesReturn ==
    ASSUME TypeOK, NEW t \in Threads, stack[t] # << >>, Return(t)
    PROVE  /\ stack'[t] # << >> => Top(t)' \in Below(stack[t])
           /\ Below(stack'[t]) \subseteq Below(stack[t])
<1> DEFINE q == stack[t]
           p == Tail(q)
<1>1. stack'[t] = p /\ q \in Seq(Calls) /\ q # << >>
  BY DEF Return, TypeOK
<1> HIDE DEF q
<1>2. /\ Len(p) = Len(q) - 1 /\ Len(q) \in Nat \ {0} /\ p \in Seq(Calls)
      /\ \A i \in 1 .. Len(q) - 1 : p[i] = q[i + 1]
      /\ p # << >> => Len(q) >= 2
  BY <1>1, PopStack
<1> HIDE DEF p
<1>3. Below(p) \subseteq Below(q)
  <2> SUFFICES ASSUME NEW i \in 2 .. Len(p) PROVE p[i] \in Below(q)
    BY DEF Below
  <2>1. i \in 1 .. Len(q) - 1 /\ i + 1 \in 2 .. Len(q)
    BY <1>2
  <2> QED BY <1>2, <2>1 DEF Below
<1>4. ASSUME p # << >> PROVE Head(p) \in Below(q)
  <2>1. 1 \in 1 .. Len(q) - 1 /\ 2 \in 2 .. Len(q) /\ Head(p) = p[1] /\ p[1] = q[2]
    BY <1>2, <1>4
  <2> QED BY <2>1 DEF Below
<1> QED BY <1>1, <1>3, <1>4 DEF q, Top

(* A thread that starts a call: the one that was innermost is now below.   *)
LEMMA FramesPush ==
    ASSUME TypeOK, NEW t \in Threads, NEW g \in Calls, NEW q \in Seq(Calls),
           stack' = [stack EXCEPT ![t] = <<g>> \o q]
    PROVE  \A h \in Below(stack'[t]) : (q # << >> /\ h = q[1]) \/ h \in Below(q)
<1> DEFINE p == <<g>> \o q
<1>1. stack'[t] = p
  BY DEF TypeOK
<1>2. Len(p) = Len(q) + 1 /\ Len(q) \in Nat
      /\ \A i \in 2 .. Len(q) + 1 : p[i] = q[i - 1]
  BY PushStack
<1> HIDE DEF p
<1>3. ASSUME NEW i \in 2 .. Len(p) PROVE (q # << >> /\ p[i] = q[1]) \/ p[i] \in Below(q)
  <2>1. p[i] = q[i - 1] /\ (i = 2 \/ i - 1 \in 2 .. Len(q))
    BY <1>2
  <2>2. q # << >>
    BY <1>2, EmptySeq
  <2> QED BY <2>1, <2>2 DEF Below
<1> QED BY <1>1, <1>3 DEF Below

(* A thread whose segment has been rearranged goes on or returns.          *)
LEMMA KeptAfterMove ==
    ASSUME IInv, NEW t \in Threads, Busy(t), NEW p \in Everywhere, Live(p),
           NEW q \in Shuffles(Top(t).left, Top(t).right),
           Accounted([x \in Index |-> p[q[x]]])',
           UNCHANGED <<tasks, entered>>,
           \/ Return(t)
           \/ \E f \in Calls : GoOn(t, f) /\ Seg(f) = Seg(Top(t)) /\ f.pc \in Merging
    PROVE  Kept'
<1> DEFINE c == [x \in Index |-> p[q[x]]]
<1> USE DEF IInv
<1>1. /\ c \in Everywhere
      /\ \A s \in tasks : Still(c, s)
      /\ \A u \in Threads \ {t} : /\ stack[u] # << >> => FrameOK(c, Top(u))
                                  /\ \A g \in Below(stack[u]) : FrameOK(c, g)
      /\ \A g \in Below(stack[t]) : FrameOK(c, g)
      /\ Within(c, Seg(Top(t)))
  BY MovedLive
<1> HIDE DEF c
<1>2. stack[t] # << >> /\ entered
  BY DEF Busy, RegionOK
<1>3. \A u \in Threads \ {t} : stack'[u] = stack[u]
  BY <1>2, ReturnTop, GoOnTop
<1>4. /\ stack'[t] # << >> => FrameOK(c, Top(t)')
      /\ \A g \in Below(stack'[t]) : FrameOK(c, g)
  <2>1. CASE Return(t)
    BY <1>1, <1>2, <2>1, FramesReturn
  <2>2. CASE \E f \in Calls : GoOn(t, f) /\ Seg(f) = Seg(Top(t)) /\ f.pc \in Merging
    <3>1. PICK f \in Calls : GoOn(t, f) /\ Seg(f) = Seg(Top(t)) /\ f.pc \in Merging
      BY <2>2
    <3>2. Top(t)' = f /\ Below(stack'[t]) \subseteq Below(stack[t])
      BY <1>2, <3>1, GoOnTop, FramesGoOn
    <3>3. FrameOK(c, f)
      BY <1>1, <3>1 DEF FrameOK, Merging
    <3> QED BY <1>1, <3>2, <3>3
  <2> QED BY <2>1, <2>2
<1>5. Live(c)'
  <2>1. ASSUME NEW u \in Threads
        PROVE  /\ stack'[u] # << >> => FrameOK(c, Top(u)')
               /\ \A g \in Below(stack'[u]) : FrameOK(c, g)
    <3>1. CASE u = t
      BY <1>4, <3>1
    <3>2. CASE u # t
      BY <1>1, <1>3, <3>2 DEF Top
    <3> QED BY <3>1, <3>2
  <2> QED BY <1>1, <1>2, <2>1 DEF Live
<1>6. Accounted(c)'
  BY DEF c
<1>7. c \in Everywhere
  BY <1>1
<1> QED BY <1>5, <1>6, <1>7 DEF Kept, Everywhere, Shuffles, Index

(* A thread goes on without writing.                                       *)
LEMMA KeptGoingOn ==
    ASSUME IInv, NEW t \in Threads, stack[t] # << >>, NEW p \in Everywhere,
           Accounted(p), Live(p), NEW f \in Calls, GoOn(t, f),
           UNCHANGED <<arr, temp, input, entered>>,
           Top(t).pc # "merge", f.pc # "merge",
           FrameOK(p, f), \A s \in tasks' : Still(p, s)
    PROVE  Kept'
<1> USE DEF IInv
<1>1. Top(t)' = f /\ Below(stack'[t]) \subseteq Below(stack[t])
      /\ \A u \in Threads \ {t} : stack'[u] = stack[u]
  BY GoOnTop, FramesGoOn
<1>2. Accounted(p)'
  BY <1>1, AccountedStill DEF At
<1>3. ASSUME NEW u \in Threads
      PROVE  /\ stack'[u] # << >> => FrameOK(p, Top(u)')
             /\ \A g \in Below(stack'[u]) : FrameOK(p, g)
  <2>1. CASE u = t
    BY <1>1, <2>1 DEF Live
  <2>2. CASE u # t
    BY <1>1, <2>2 DEF Live, Top
  <2> QED BY <2>1, <2>2
<1>4. Live(p)'
  BY <1>3 DEF Live
<1> QED BY <1>2, <1>4 DEF Kept, Everywhere, Shuffles, Index

(* A thread starts a call without writing.                                 *)
LEMMA KeptStarting ==
    ASSUME IInv, NEW t \in Threads, NEW p \in Everywhere,
           Accounted(p), Live(p), NEW g \in Calls, NEW q \in Seq(Calls),
           stack' = [stack EXCEPT ![t] = <<g>> \o q],
           UNCHANGED <<arr, temp, input>>, ~At(t, "merge"), g.pc = "call",
           Still(p, Seg(g)), q # << >> => FrameOK(p, q[1]),
           Below(q) \subseteq Below(stack[t]),
           \A s \in tasks' : Still(p, s), entered'
    PROVE  Kept'
<1> USE DEF IInv
<1>1. /\ Top(t)' = g
      /\ \A h \in Below(stack'[t]) : (q # << >> /\ h = q[1]) \/ h \in Below(q)
      /\ \A u \in Threads \ {t} : stack'[u] = stack[u]
  BY PushTop, FramesPush
<1>2. Accounted(p)'
  BY <1>1, AccountedStill DEF At
<1>3. FrameOK(p, g)
  BY DEF FrameOK, Still, Within
<1>4. ASSUME NEW u \in Threads
      PROVE  /\ stack'[u] # << >> => FrameOK(p, Top(u)')
             /\ \A h \in Below(stack'[u]) : FrameOK(p, h)
  <2>1. CASE u = t
    BY <1>1, <1>3, <2>1 DEF Live
  <2>2. CASE u # t
    BY <1>1, <2>2 DEF Live, Top
  <2> QED BY <2>1, <2>2
<1>5. Live(p)'
  BY <1>4 DEF Live
<1> QED BY <1>2, <1>5 DEF Kept, Everywhere, Shuffles, Index

(* Part of what is as it was loaded.                                       *)
LEMMA StillInside ==
    ASSUME NEW p, NEW s \in Segments, NEW r \in Segments, Inside(r, s), Still(p, s)
    PROVE  Still(p, r) /\ Within(p, r)
BY SegmentBounds DEF Inside, Still, Within

-----------------------------------------------------------------------------
(* Every action keeps the elements.                                        *)

(* Elements of a segment that stay where they are.                         *)
LEMMA IdentityOn ==
    ASSUME NEW l \in Index, NEW r \in Index
    PROVE  /\ Identity \in Shuffles(l, r)
           /\ \A x \in l .. r : x \in Index /\ Identity[x] = x
BY IdentityPermutes, IndexBounds, SortAssumption DEF Identity

(* Returning, without or after a merge: a finished merge has nothing       *)
(* pending.                                                                *)
LEMMA KeptTrivial ==
    ASSUME IInv, Kept, NEW t \in Threads, Trivial(t) \/ Merged(t)
    PROVE  Kept'
<1> USE DEF IInv
<1> DEFINE f == Top(t)
<1>1. PICK p \in Everywhere : Accounted(p) /\ Live(p)
  BY DEF Kept
<1>2. /\ stack[t] # << >> /\ Busy(t) /\ f.left \in Index /\ f.right \in Index /\ f \in CallType
      /\ UNCHANGED <<arr, temp, input, tasks, entered>> /\ Return(t)
  BY CallAt DEF Trivial, Merged, Busy, Merging
<1>3. ~At(t, "merge")' /\ \A u \in Threads \ {t} : stack'[u] = stack[u]
  BY <1>2, ReturnTop
<1>4. ASSUME At(t, "merge"), NEW x \in f.left .. f.right PROVE Pending(f, arr, temp, x) = arr[x]
  <2>1. Merged(t) /\ f.left < f.right
    BY <1>4, CallAt DEF Trivial, At
  <2>2. f.bufL = << >> /\ f.bufR = << >> /\ TilesOK(f, temp)
    BY <1>4, <2>1 DEF Merged, MergesOK
  <2>3. f.k = NextL(f) + NextR(f) - (Mid(f.left, f.right) + 1)
        /\ NextL(f) = Mid(f.left, f.right) + 1 /\ NextR(f) = f.right + 1
    BY <1>2, <2>1, <2>2, MergeBounds
  <2>4. Mid(f.left, f.right) \in Int /\ f.right \in Int /\ f.left \in Int
    BY <1>2, <2>1, RunBounds
  <2>5. x < f.k
    BY <2>3, <2>4
  <2> QED BY <2>5 DEF Pending
<1>5. /\ Identity \in Shuffles(f.left, f.right)
      /\ \A x \in f.left .. f.right : x \in Index /\ Identity[x] = x
  BY <1>2, IdentityOn
<1>6. \A x \in f.left .. f.right :
         LET before(y) == IF At(t, "merge") THEN Pending(f, arr, temp, y) ELSE arr[y]
         IN  /\ At(t, "merge")' => Pending(Top(t)', arr', temp', x) = before(Identity[x])
             /\ ~At(t, "merge")' => arr'[x] = before(Identity[x])
  BY <1>2, <1>3, <1>4, <1>5
<1>7. Accounted([x \in Index |-> p[Identity[x]]])'
  BY <1>1, <1>2, <1>3, <1>5, <1>6, AccountedMoved
<1> QED BY <1>1, <1>2, <1>5, <1>7, KeptAfterMove

(* Insertion sort rearranges its segment.                                  *)
LEMMA KeptInsertion ==
    ASSUME IInv, Kept, NEW t \in Threads, InsertionStep(t)
    PROVE  Kept'
<1> USE DEF IInv
<1> DEFINE f == Top(t)
<1>1. PICK p \in Everywhere : Accounted(p) /\ Live(p)
  BY DEF Kept
<1>2. /\ stack[t] # << >> /\ Busy(t) /\ f.left \in Index /\ f.right \in Index
      /\ f.left <= f.right /\ ~At(t, "merge")
      /\ UNCHANGED <<temp, input, tasks, entered>> /\ Return(t)
  BY CallAt DEF InsertionStep, Busy, At
<1>3. ~At(t, "merge")' /\ \A u \in Threads \ {t} : stack'[u] = stack[u]
  BY <1>2, ReturnTop
<1>4. Rearranged(arr', arr, f.left, f.right)
  BY <1>2, InsertionSortSorts DEF InsertionStep, TypeOK
<1>5. PICK q \in Shuffles(f.left, f.right) : \A x \in Index : arr'[x] = arr[q[x]]
  BY <1>4 DEF Rearranged
<1>6. \A x \in f.left .. f.right : x \in Index
  BY <1>2, IdentityOn
<1>7. \A x \in f.left .. f.right :
         LET before(y) == IF At(t, "merge") THEN Pending(f, arr, temp, y) ELSE arr[y]
         IN  /\ At(t, "merge")' => Pending(Top(t)', arr', temp', x) = before(q[x])
             /\ ~At(t, "merge")' => arr'[x] = before(q[x])
  BY <1>2, <1>3, <1>5, <1>6
<1>8. \A x \in Index \ (f.left .. f.right) : arr'[x] = arr[x] /\ temp'[x] = temp[x]
  BY <1>2, <1>4, RearrangedElsewhere
<1>9. Accounted([x \in Index |-> p[q[x]]])'
  BY <1>1, <1>2, <1>3, <1>5, <1>7, <1>8, AccountedMoved
<1> QED BY <1>1, <1>2, <1>5, <1>9, KeptAfterMove

(* Copying to the scratch array.                                           *)
LEMMA KeptCopy ==
    ASSUME IInv, Kept, NEW t \in Threads, Copy(t)
    PROVE  Kept'
<1> USE DEF IInv
<1> DEFINE f == Top(t)
           g == [f EXCEPT !.pc = "refill", !.k = f.left]
<1>1. PICK p \in Everywhere : Accounted(p) /\ Live(p)
  BY DEF Kept
<1>2. /\ stack[t] # << >> /\ Busy(t) /\ f.left \in Index /\ f.right \in Index /\ f \in Calls
      /\ ~At(t, "merge") /\ f.pc = "copy" /\ f.left \in Int
  BY CallAt, IndexBounds DEF Copy, Busy, At, Merging
<1>3. /\ GoOn(t, g) /\ UNCHANGED <<arr, input, tasks, entered>>
      /\ \A x \in Index \ (f.left .. f.right) : arr'[x] = arr[x] /\ temp'[x] = temp[x]
  BY DEF Copy
<1>4. g \in Calls /\ g.pc = "refill" /\ Seg(g) = Seg(f)
  BY <1>2 DEF Calls, CallType, Seg, Merging
<1> HIDE DEF g
<1>5. ~At(t, "merge")' /\ \A u \in Threads \ {t} : stack'[u] = stack[u]
  BY <1>2, <1>3, <1>4, GoOnTop DEF At
<1>6. /\ Identity \in Shuffles(f.left, f.right)
      /\ \A x \in f.left .. f.right : x \in Index /\ Identity[x] = x
  BY <1>2, IdentityOn
<1>7. \A x \in f.left .. f.right :
         LET before(y) == IF At(t, "merge") THEN Pending(f, arr, temp, y) ELSE arr[y]
         IN  /\ At(t, "merge")' => Pending(Top(t)', arr', temp', x) = before(Identity[x])
             /\ ~At(t, "merge")' => arr'[x] = before(Identity[x])
  BY <1>2, <1>3, <1>5, <1>6
<1>8. Accounted([x \in Index |-> p[Identity[x]]])'
  BY <1>1, <1>2, <1>3, <1>5, <1>6, <1>7, AccountedMoved
<1> QED BY <1>1, <1>2, <1>3, <1>4, <1>6, <1>8, KeptAfterMove DEF Merging

(* At the start of a merge everything is pending, where it was.            *)
LEMMA KeptFirstTiles ==
    ASSUME IInv, Kept, NEW t \in Threads, FirstTiles(t)
    PROVE  Kept'
<1> USE DEF IInv
<1> DEFINE f == Top(t)
           g == [RefillR(RefillL(f)) EXCEPT !.pc = "merge"]
<1>1. PICK p \in Everywhere : Accounted(p) /\ Live(p)
  BY DEF Kept
<1>2. /\ stack[t] # << >> /\ Busy(t) /\ f.left \in Index /\ f.right \in Index /\ f \in Calls
      /\ ~At(t, "merge") /\ f.pc = "refill" /\ f.left < f.right /\ f.left \in Int
      /\ At(t, "refill")
  BY CallAt, IndexBounds DEF FirstTiles, Busy, At, Merging
<1>3. GoOn(t, g) /\ UNCHANGED <<arr, temp, input, tasks, entered>>
  BY DEF FirstTiles
<1>4. /\ Copied(f, arr, temp) /\ g \in Calls /\ Seg(g) = Seg(f) /\ g.pc = "merge"
      /\ g.k = f.left /\ NextL(g) = f.left
  <2>1. /\ Copied(f, arr, temp)
        /\ Ascending(arr, f.left, Mid(f.left, f.right))
        /\ Ascending(arr, Mid(f.left, f.right) + 1, f.right)
        /\ arr \in [Index -> Values]
    BY <1>2, RunsAscending DEF MergesOK, TypeOK
  <2> QED BY <1>2, <2>1, MergeBegins
<1> HIDE DEF g
<1>5. /\ Top(t)' = g /\ At(t, "merge")'
      /\ \A u \in Threads \ {t} : stack'[u] = stack[u]
  BY <1>2, <1>3, <1>4, GoOnTop DEF At
<1>6. /\ Identity \in Shuffles(f.left, f.right)
      /\ \A x \in f.left .. f.right : x \in Index /\ Identity[x] = x
  BY <1>2, IdentityOn
<1>7. ASSUME NEW x \in f.left .. f.right PROVE Pending(g, arr, temp, x) = arr[x]
  <2>1. x - g.k + NextL(g) = x /\ ~(x < g.k)
    BY <1>2, <1>4
  <2>2. Pending(g, arr, temp, x) = temp[x]
    BY <2>1 DEF Pending
  <2> QED BY <1>4, <2>2 DEF Copied
<1>8. \A x \in f.left .. f.right :
         LET before(y) == IF At(t, "merge") THEN Pending(f, arr, temp, y) ELSE arr[y]
         IN  /\ At(t, "merge")' => Pending(Top(t)', arr', temp', x) = before(Identity[x])
             /\ ~At(t, "merge")' => arr'[x] = before(Identity[x])
  BY <1>2, <1>3, <1>5, <1>6, <1>7
<1>9. Accounted([x \in Index |-> p[Identity[x]]])'
  BY <1>1, <1>2, <1>3, <1>4, <1>5, <1>6, <1>8, AccountedMoved
<1> QED BY <1>1, <1>2, <1>3, <1>4, <1>6, <1>9, KeptAfterMove DEF Merging

(* The element taken from the left run is the next one anyway.             *)
LEMMA KeptMergeL ==
    ASSUME IInv, Kept, NEW t \in Threads, MergeL(t)
    PROVE  Kept'
<1> USE DEF IInv
<1> DEFINE f == Top(t)
           g == RefillL([f EXCEPT !.bufL = Tail(@), !.k = @ + 1])
           k == f.k
           nl == NextL(f)
           nr == NextR(f)
<1>1. PICK p \in Everywhere : Accounted(p) /\ Live(p)
  BY DEF Kept
<1>2. /\ stack[t] # << >> /\ Busy(t) /\ f.left \in Index /\ f.right \in Index /\ f \in Calls
      /\ f \in CallType /\ f.pc = "merge" /\ f.left < f.right /\ At(t, "merge")
  BY CallAt DEF MergeL, Busy, Merging
<1>3. /\ GoOn(t, g) /\ UNCHANGED <<temp, input, tasks, entered>> /\ TakeL(f)
      /\ arr' = [arr EXCEPT ![k] = Head(f.bufL)]
  BY DEF MergeL
<1>4. TilesOK(f, temp) /\ MergeOK(f, arr, temp) /\ arr \in [Index -> Values]
  BY <1>2 DEF MergesOK, TypeOK
<1>5. /\ g \in Calls /\ Seg(g) = Seg(f) /\ g.pc = "merge" /\ k \in f.left .. f.right
      /\ g.k = k + 1 /\ NextL(g) = nl + 1 /\ NextR(g) = nr
  BY <1>2, <1>3, <1>4, MergesLeft
<1> HIDE DEF g
<1>6. /\ Top(t)' = g /\ At(t, "merge")'
      /\ \A u \in Threads \ {t} : stack'[u] = stack[u]
  BY <1>2, <1>3, <1>5, GoOnTop DEF At
<1>7. /\ Identity \in Shuffles(f.left, f.right)
      /\ \A x \in f.left .. f.right : x \in Index /\ Identity[x] = x
  BY <1>2, IdentityOn
<1>8. ASSUME NEW x \in f.left .. f.right
      PROVE  Pending(g, arr', temp, x) = Pending(f, arr, temp, x)
  <2>1. /\ nl \in Int /\ nr \in Int /\ k \in Int /\ x \in Int
        /\ k < nr /\ Head(f.bufL) = temp[nl]
    <3> DEFINE m == Mid(f.left, f.right)
    <3>1. nl \in Int /\ nr \in Int /\ k \in Int /\ x \in Int /\ m \in Int
      BY <1>2, RunBounds DEF CallType
    <3>2. f.bufL # << >> /\ nl <= m /\ Head(f.bufL) = temp[nl] /\ k = nl + nr - (m + 1)
      BY <1>2, <1>3, <1>4, MergeBounds DEF TakeL
    <3> HIDE DEF m, nl, nr, k
    <3> QED BY <3>1, <3>2
  <2>2. arr'[k] = temp[nl] /\ \A y \in Index : y # k => arr'[y] = arr[y]
    BY <1>3, <1>4, <1>5, <1>7, <2>1
  <2> HIDE DEF nl, nr, k
  <2>3. CASE x < k
    <3>1. x < k + 1 /\ x # k /\ x \in Index
      BY <1>7, <2>1, <2>3
    <3> QED BY <1>5, <2>2, <2>3, <3>1 DEF Pending, k
  <2>4. CASE x = k
    <3>1. x < k + 1 /\ ~(x < k) /\ x < nr /\ x - k + nl = nl
      BY <2>1, <2>4
    <3> QED BY <1>5, <2>2, <2>4, <3>1 DEF Pending, k, nl, nr
  <2>5. CASE x > k
    <3>1. ~(x < k + 1) /\ ~(x < k) /\ x - (k + 1) + (nl + 1) = x - k + nl
      BY <2>1, <2>5
    <3> QED BY <1>5, <3>1 DEF Pending, k, nl, nr
  <2> QED BY <2>1, <2>3, <2>4, <2>5
<1>9. \A x \in f.left .. f.right :
         LET before(y) == IF At(t, "merge") THEN Pending(f, arr, temp, y) ELSE arr[y]
         IN  /\ At(t, "merge")' => Pending(Top(t)', arr', temp', x) = before(Identity[x])
             /\ ~At(t, "merge")' => arr'[x] = before(Identity[x])
  BY <1>2, <1>3, <1>6, <1>7, <1>8
<1>10. \A x \in Index \ (f.left .. f.right) : arr'[x] = arr[x] /\ temp'[x] = temp[x]
  BY <1>3, <1>4, <1>5
<1>11. Accounted([x \in Index |-> p[Identity[x]]])'
  BY <1>1, <1>2, <1>3, <1>5, <1>6, <1>7, <1>9, <1>10, AccountedMoved
<1> QED BY <1>1, <1>2, <1>3, <1>5, <1>7, <1>11, KeptAfterMove DEF Merging

(* The element taken from the right run goes before those that are left of *)
(* the left one.                                                           *)
LEMMA KeptMergeR ==
    ASSUME IInv, Kept, NEW t \in Threads, MergeR(t)
    PROVE  Kept'
<1> USE DEF IInv
<1> DEFINE f == Top(t)
           g == RefillR([f EXCEPT !.bufR = Tail(@), !.k = @ + 1])
           l == f.left
           r == f.right
           k == f.k
           nl == NextL(f)
           nr == NextR(f)
<1>1. PICK p \in Everywhere : Accounted(p) /\ Live(p)
  BY DEF Kept
<1>2. /\ stack[t] # << >> /\ Busy(t) /\ l \in Index /\ r \in Index /\ f \in Calls
      /\ f \in CallType /\ f.pc = "merge" /\ l < r /\ At(t, "merge")
  BY CallAt DEF MergeR, Busy, Merging
<1>3. /\ GoOn(t, g) /\ UNCHANGED <<temp, input, tasks, entered>> /\ TakeR(f)
      /\ arr' = [arr EXCEPT ![k] = Head(f.bufR)]
  BY DEF MergeR
<1>4. TilesOK(f, temp) /\ MergeOK(f, arr, temp) /\ arr \in [Index -> Values]
  BY <1>2 DEF MergesOK, TypeOK
<1>5. /\ g \in Calls /\ Seg(g) = Seg(f) /\ g.pc = "merge" /\ k \in l .. r
      /\ g.k = k + 1 /\ NextL(g) = nl /\ NextR(g) = nr + 1
  BY <1>2, <1>3, <1>4, MergesRight
<1> HIDE DEF g
<1>6. /\ Top(t)' = g /\ At(t, "merge")'
      /\ \A u \in Threads \ {t} : stack'[u] = stack[u]
  BY <1>2, <1>3, <1>5, GoOnTop DEF At
<1>7. /\ nl \in Int /\ nr \in Int /\ k \in Int /\ l \in Int /\ r \in Int
      /\ l <= k /\ k <= nr /\ nr <= r /\ nr \in Index /\ k \in Index
      /\ Head(f.bufR) = temp[nr]
  <2> DEFINE m == Mid(f.left, f.right)
  <2>1. nl \in Int /\ nr \in Int /\ k \in Int /\ m \in Int /\ l \in Int /\ r \in Int
        /\ m < r /\ l <= m
    BY <1>2, RunBounds DEF CallType
  <2>2. /\ f.bufR # << >> /\ nr <= r /\ Head(f.bufR) = temp[nr] /\ k = nl + nr - (m + 1)
        /\ l <= nl /\ nl <= m + 1 /\ m + 1 <= nr
    BY <1>2, <1>3, <1>4, MergeBounds DEF TakeR
  <2> HIDE DEF m, nl, nr, k, l, r
  <2>3. l <= k /\ k <= nr
    BY <2>1, <2>2
  <2>4. nr \in Index /\ k \in Index
    BY <1>2, <2>1, <2>2, <2>3, IndexBounds, SortAssumption
  <2> QED BY <2>1, <2>2, <2>3, <2>4
<1> HIDE DEF l, r, k, nl, nr
<1>8. PICK q \in Shuffles(l, r) : q = Rotation(k, nr)
  BY <1>7, RotationPermutes
<1>9. \A x \in l .. r : x \in Index
  BY <1>2, IdentityOn
<1>10. ASSUME NEW x \in l .. r
       PROVE  Pending(g, arr', temp, x) = Pending(f, arr, temp, q[x])
  <2>1. x \in Int /\ x \in Index
    BY <1>9, IndexBounds
  <2>2. arr'[k] = temp[nr] /\ \A y \in Index : y # k => arr'[y] = arr[y]
    BY <1>3, <1>4, <1>7
  <2>3. CASE x < k
    <3>1. x < k + 1 /\ x # k /\ x \notin k + 1 .. nr
      BY <1>7, <2>1, <2>3
    <3>2. q[x] = x
      BY <1>8, <2>1, <3>1 DEF Rotation
    <3> QED BY <1>5, <2>1, <2>2, <2>3, <3>1, <3>2 DEF Pending, k
  <2>4. CASE x = k
    <3>1. x < k + 1 /\ ~(nr < k) /\ ~(nr < nr)
      BY <1>7, <2>1, <2>4
    <3>2. q[x] = nr
      BY <1>8, <2>1, <2>4 DEF Rotation
    <3> QED BY <1>5, <2>2, <2>4, <3>1, <3>2 DEF Pending, k, nr
  <2>5. CASE x \in k + 1 .. nr
    <3>1. /\ ~(x < k + 1) /\ x # k /\ x < nr + 1 /\ ~(x - 1 < k) /\ x - 1 < nr
          /\ x - (k + 1) + nl = (x - 1) - k + nl
      BY <1>7, <2>1, <2>5
    <3>2. q[x] = x - 1
      BY <1>8, <2>1, <2>5, <3>1 DEF Rotation
    <3> QED BY <1>5, <3>1, <3>2 DEF Pending, k, nl, nr
  <2>6. CASE x > nr
    <3>1. ~(x < k + 1) /\ ~(x < nr + 1) /\ ~(x < k) /\ ~(x < nr) /\ x # k /\ x \notin k + 1 .. nr
      BY <1>7, <2>1, <2>6
    <3>2. q[x] = x
      BY <1>8, <2>1, <3>1 DEF Rotation
    <3> QED BY <1>5, <3>1, <3>2 DEF Pending, k, nr
  <2> QED BY <1>7, <2>1, <2>3, <2>4, <2>5, <2>6
<1>11. \A x \in l .. r :
         LET before(y) == IF At(t, "merge") THEN Pending(f, arr, temp, y) ELSE arr[y]
         IN  /\ At(t, "merge")' => Pending(Top(t)', arr', temp', x) = before(q[x])
             /\ ~At(t, "merge")' => arr'[x] = before(q[x])
  BY <1>2, <1>3, <1>6, <1>10
<1>12. \A x \in Index \ (l .. r) : arr'[x] = arr[x] /\ temp'[x] = temp[x]
  BY <1>3, <1>4, <1>5
<1>13. q \in Shuffles(Top(t).left, Top(t).right)
  BY <1>8 DEF l, r
<1>14. \A x \in Top(t).left .. Top(t).right :
         LET before(y) == IF At(t, "merge") THEN Pending(Top(t), arr, temp, y) ELSE arr[y]
         IN  /\ At(t, "merge")' => Pending(Top(t)', arr', temp', x) = before(q[x])
             /\ ~At(t, "merge")' => arr'[x] = before(q[x])
  BY <1>11 DEF l, r
<1>15. \A x \in Index \ (Top(t).left .. Top(t).right) : arr'[x] = arr[x] /\ temp'[x] = temp[x]
  BY <1>12 DEF l, r
<1>16. GoOn(t, g) /\ g \in Calls /\ Seg(g) = Seg(Top(t)) /\ g.pc \in Merging
  BY <1>3, <1>5 DEF Merging
<1> HIDE DEF f
<1>17. Accounted([x \in Index |-> p[q[x]]])'
  BY <1>1, <1>2, <1>3, <1>6, <1>13, <1>14, <1>15, <1>16, AccountedMoved
<1> QED BY <1>1, <1>2, <1>3, <1>13, <1>16, <1>17, KeptAfterMove

(* The steps that write nothing.  The halves of a call that has not been   *)
(* split are as they were loaded, and so is the right one until it is      *)
(* handed out.                                                             *)
LEMMA StillHalves ==
    ASSUME NEW p, NEW f \in Calls, f.left < f.right, FrameOK(p, f)
    PROVE  /\ f.pc = "call" => Still(p, Left(f)) /\ Still(p, Right(f))
           /\ f.pc = "second" => Still(p, Right(f))
           /\ Within(p, Seg(f))
<1>1. /\ Left(f) \in Segments /\ Right(f) \in Segments /\ Seg(f) \in Segments
      /\ Inside(Left(f), Seg(f)) /\ Inside(Right(f), Seg(f))
  BY Halves, SegOfCall
<1> QED BY <1>1, StillInside DEF FrameOK

(* Becoming serial, creating a task and the end of the wait for tasks.     *)
LEMMA KeptCreating ==
    ASSUME IInv, Kept, NEW t \in Threads,
           SwitchToSerial(t) \/ SpawnLeft(t) \/ SpawnRight(t) \/ TaskWait(t)
    PROVE  Kept'
<1>1. PICK p \in Everywhere : Accounted(p) /\ Live(p)
  BY DEF Kept
<1>2. PICK pc \in {"call", "second", "taskwait"} :
         At(t, pc) /\ (pc = "call" => Top(t).left < Top(t).right)
  BY DEF SwitchToSerial, SpawnLeft, SpawnRight, TaskWait
<1>3. /\ stack[t] # << >> /\ Top(t) \in Calls /\ Top(t).pc = pc /\ Top(t) \in CallType
      /\ FrameOK(p, Top(t)) /\ \A s \in tasks : Still(p, s)
      /\ Top(t).left < Top(t).right
  BY <1>1, <1>2, CallAt DEF Live
<1>4. /\ pc = "call" => Still(p, Left(Top(t))) /\ Still(p, Right(Top(t)))
      /\ pc = "second" => Still(p, Right(Top(t)))
      /\ Within(p, Seg(Top(t)))
  BY <1>3, StillHalves
<1>5. ASSUME NEW f \in Calls, GoOn(t, f), f.left = Top(t).left, f.right = Top(t).right,
             f.pc # "merge", UNCHANGED <<arr, temp, input, entered>>,
             f.pc = "call" => pc = "call", f.pc = "second" => pc \in {"call", "second"},
             \A s \in tasks' : Still(p, s)
      PROVE  Kept'
  <2>1. Seg(f) = Seg(Top(t)) /\ Right(f) = Right(Top(t))
    BY <1>5 DEF Seg, Right
  <2>2. FrameOK(p, f)
    BY <1>3, <1>4, <1>5, <2>1 DEF FrameOK
  <2> QED BY <1>1, <1>3, <1>5, <2>2, KeptGoingOn
<1>6. CASE SwitchToSerial(t)
  <2> DEFINE f == [Top(t) EXCEPT !.parallel = FALSE]
  <2>1. /\ f \in Calls /\ f.left = Top(t).left /\ f.right = Top(t).right /\ f.pc = pc
        /\ GoOn(t, f) /\ UNCHANGED <<arr, temp, input, tasks, entered>>
    BY <1>3, <1>6 DEF SwitchToSerial, At, Calls, CallType
  <2> HIDE DEF f
  <2> QED BY <1>3, <1>5, <2>1
<1>7. CASE SpawnLeft(t)
  <2> DEFINE f == [Top(t) EXCEPT !.pc = "second"]
  <2>1. /\ f \in Calls /\ f.left = Top(t).left /\ f.right = Top(t).right /\ f.pc = "second"
        /\ GoOn(t, f) /\ UNCHANGED <<arr, temp, input, entered>>
        /\ tasks' = tasks \cup {Left(Top(t))} /\ pc = "call"
    BY <1>3, <1>7 DEF SpawnLeft, At, Calls, CallType
  <2> HIDE DEF f
  <2> QED BY <1>3, <1>4, <1>5, <2>1
<1>8. CASE SpawnRight(t)
  <2> DEFINE f == [Top(t) EXCEPT !.pc = "taskwait"]
  <2>1. /\ f \in Calls /\ f.left = Top(t).left /\ f.right = Top(t).right /\ f.pc = "taskwait"
        /\ GoOn(t, f) /\ UNCHANGED <<arr, temp, input, entered>>
        /\ tasks' = tasks \cup {Right(Top(t))} /\ pc = "second"
    BY <1>3, <1>8 DEF SpawnRight, At, Calls, CallType
  <2> HIDE DEF f
  <2> QED BY <1>3, <1>4, <1>5, <2>1
<1>9. CASE TaskWait(t)
  <2> DEFINE f == [Top(t) EXCEPT !.pc = "copy"]
  <2>1. /\ f \in Calls /\ f.left = Top(t).left /\ f.right = Top(t).right /\ f.pc = "copy"
        /\ GoOn(t, f) /\ UNCHANGED <<arr, temp, input, tasks, entered>>
    BY <1>3, <1>9 DEF TaskWait, At, Calls, CallType, Merging
  <2> HIDE DEF f
  <2> QED BY <1>3, <1>5, <2>1
<1> QED BY <1>6, <1>7, <1>8, <1>9

(* A serial call of a half.                                                *)
LEMMA KeptRecursing ==
    ASSUME IInv, Kept, NEW t \in Threads, NEW f \in Calls, NEW g \in Calls,
           At(t, "call") \/ At(t, "second"), Recurse(t, f, g), g.pc = "call",
           Top(t).left < Top(t).right,
           UNCHANGED <<arr, temp, input>>, tasks' = tasks, entered' = entered,
           Seg(f) = Seg(Top(t)), f.pc # "call", Top(t).pc # f.pc,
           Seg(g) = IF At(t, "call") THEN Left(Top(t)) ELSE Right(Top(t)),
           f.pc = "second" <=> At(t, "call")
    PROVE  Kept'
<1> DEFINE q == <<f>> \o Tail(stack[t])
<1>1. PICK p \in Everywhere : Accounted(p) /\ Live(p)
  BY DEF Kept
<1>2. /\ stack[t] # << >> /\ Top(t) \in Calls /\ stack[t] \in Seq(Calls)
      /\ FrameOK(p, Top(t)) /\ entered /\ ~At(t, "merge")
      /\ \A s \in tasks : Still(p, s)
  <2>1. stack[t] # << >> /\ Top(t) \in Calls
    BY CallAt DEF At
  <2> QED BY <1>1, <2>1 DEF Live, IInv, TypeOK, RegionOK, At
<1>3. /\ Top(t).pc = "call" => Still(p, Left(Top(t))) /\ Still(p, Right(Top(t)))
      /\ Top(t).pc = "second" => Still(p, Right(Top(t)))
      /\ Within(p, Seg(Top(t)))
  BY <1>2, StillHalves
<1>4. Right(f) = Right(Top(t))
  <2>1. f.left = Top(t).left /\ f.right = Top(t).right
    BY DEF Seg
  <2> QED BY <2>1 DEF Right
<1>5. FrameOK(p, f) /\ Still(p, Seg(g))
  <2>1. Still(p, Seg(g))
    BY <1>3 DEF At
  <2>2. f.pc = "second" => Top(t).pc = "call"
    BY DEF At
  <2> QED BY <1>3, <1>4, <2>1, <2>2 DEF FrameOK
<1>6. /\ stack' = [stack EXCEPT ![t] = <<g>> \o q] /\ q \in Seq(Calls)
      /\ q # << >> /\ q[1] = f /\ Below(q) \subseteq Below(stack[t])
  <2> DEFINE s == stack[t]
  <2>1. s \in Seq(Calls) /\ s # << >>
    BY <1>2
  <2>2. stack' = [stack EXCEPT ![t] = <<g, f>> \o Tail(s)]
    BY DEF Recurse
  <2> HIDE DEF s
  <2>3. /\ <<f>> \o Tail(s) \in Seq(Calls) /\ Tail(s) \in Seq(Calls)
        /\ (<<f>> \o Tail(s))[1] = f /\ <<f>> \o Tail(s) # << >>
        /\ Len(<<f>> \o Tail(s)) = Len(s) /\ \A i \in 2 .. Len(s) : (<<f>> \o Tail(s))[i] = s[i]
    BY <2>1, GoOnStack, PopStack
  <2>4. <<g, f>> \o Tail(s) = <<g>> \o (<<f>> \o Tail(s))
    BY <2>3, PushTwice
  <2>5. Below(<<f>> \o Tail(s)) \subseteq Below(s)
    BY <2>3 DEF Below
  <2> QED BY <2>2, <2>3, <2>4, <2>5 DEF s
<1> HIDE DEF q
<1>7. entered'
  BY <1>2
<1>8. \A s \in tasks' : Still(p, s)
  BY <1>2
<1> QED BY <1>1, <1>2, <1>5, <1>6, <1>7, <1>8, KeptStarting

(* The two serial calls.                                                   *)
LEMMA KeptRecurse ==
    ASSUME IInv, Kept, NEW t \in Threads, RecurseLeft(t) \/ RecurseRight(t)
    PROVE  Kept'
<1>1. CASE RecurseLeft(t)
  <2> DEFINE f == [Top(t) EXCEPT !.pc = "second"]
             g == Call(Left(Top(t)), FALSE)
  <2>1. /\ Top(t) \in Calls /\ Top(t) \in CallType /\ Top(t).pc = "call" /\ At(t, "call")
        /\ Top(t).left < Top(t).right
    BY <1>1, CallAt DEF RecurseLeft
  <2>2. /\ f \in Calls /\ f.pc = "second" /\ Seg(f) = Seg(Top(t)) /\ Recurse(t, f, g)
        /\ UNCHANGED <<arr, temp, input, tasks, entered>>
    BY <1>1, <2>1 DEF RecurseLeft, Calls, CallType, Seg
  <2>3. g \in Calls /\ Seg(g) = Left(Top(t)) /\ g.pc = "call"
    BY <2>1, Halves, HalfCall
  <2> HIDE DEF f, g
  <2> QED BY <2>1, <2>2, <2>3, KeptRecursing
<1>2. CASE RecurseRight(t)
  <2> DEFINE f == [Top(t) EXCEPT !.pc = "copy"]
             g == Call(Right(Top(t)), FALSE)
  <2>1. /\ Top(t) \in Calls /\ Top(t) \in CallType /\ Top(t).pc = "second" /\ At(t, "second")
        /\ Top(t).left < Top(t).right
    BY <1>2, CallAt DEF RecurseRight
  <2>2. /\ f \in Calls /\ f.pc = "copy" /\ Seg(f) = Seg(Top(t)) /\ Recurse(t, f, g)
        /\ UNCHANGED <<arr, temp, input, tasks, entered>>
    BY <1>2, <2>1 DEF RecurseRight, Calls, CallType, Seg, Merging
  <2>3. g \in Calls /\ Seg(g) = Right(Top(t)) /\ g.pc = "call"
    BY <2>1, Halves, HalfCall
  <2>4. ~At(t, "call")
    BY <2>1 DEF At
  <2> HIDE DEF f, g
  <2> QED BY <2>1, <2>2, <2>3, <2>4, KeptRecursing
<1> QED BY <1>1, <1>2

(* A thread starts a task, whose segment is as it was loaded.              *)
LEMMA KeptStartTask ==
    ASSUME IInv, Kept, NEW t \in Threads, StartTask(t)
    PROVE  Kept'
<1> USE DEF IInv
<1>1. PICK p \in Everywhere : Accounted(p) /\ Live(p)
  BY DEF Kept
<1>2. PICK task \in tasks :
        /\ MayStart(t, task)
        /\ tasks' = tasks \ {task}
        /\ stack' = [stack EXCEPT ![t] = <<Call(task, TRUE)>> \o @]
        /\ UNCHANGED <<arr, temp, input, sorted, entered, finished>>
  BY DEF StartTask
<1> DEFINE g == Call(task, TRUE)
           q == stack[t]
<1>3. g \in Calls /\ g.pc = "call" /\ Seg(g) = task
  BY HalfCall DEF TypeOK
<1>4. q \in Seq(Calls) /\ stack' = [stack EXCEPT ![t] = <<g>> \o q]
  BY <1>2 DEF TypeOK
<1>5. ~At(t, "merge") /\ entered' /\ Still(p, Seg(g)) /\ \A s \in tasks' : Still(p, s)
  BY <1>1, <1>2, <1>3 DEF MayStart, At, Live
<1>6. q # << >> => FrameOK(p, q[1])
  BY <1>1, TopOfStack DEF Live
<1> HIDE DEF g
<1> QED BY <1>1, <1>2, <1>3, <1>4, <1>5, <1>6, KeptStarting

(* The first call: all of the array is as it was loaded.                   *)
LEMMA KeptSingle ==
    ASSUME IInv, Kept, NEW t \in Threads, Single(t)
    PROVE  Kept'
<1> USE DEF IInv
<1> DEFINE g == Call(Root, TRUE)
<1>1. PICK p \in Everywhere : Accounted(p) /\ Live(p)
  BY DEF Kept
<1>2. g \in Calls /\ g.pc = "call" /\ Seg(g) = Root
  <2>1. Root \in Segments
    BY IndexBounds DEF Root, Segments
  <2> QED BY <2>1, HalfCall
<1>3. stack' = [stack EXCEPT ![t] = <<Call(<<0, N - 1>>, TRUE)>>]
  BY DEF Single
<1>4. stack' = [stack EXCEPT ![t] = <<g>>]
  BY <1>3 DEF Root
<1> HIDE DEF g
<1>5. stack' = [stack EXCEPT ![t] = <<g>> \o << >>] /\ << >> \in Seq(Calls)
  <2>1. <<g>> \in Seq(Calls) /\ <<g>> \o << >> = <<g>>
    BY <1>2, ConcatEmptySeq
  <2> QED BY <1>4, <2>1
<1>6. /\ ~At(t, "merge") /\ entered' /\ UNCHANGED <<arr, temp, input>>
      /\ Still(p, Seg(g)) /\ \A s \in tasks' : Still(p, s)
  BY <1>1, <1>2 DEF Live, Single, RegionOK, At
<1>7. Below(<< >>) \subseteq Below(stack[t])
  BY DEF Below
<1> QED BY <1>1, <1>2, <1>5, <1>6, <1>7, KeptStarting

(* At first every element is where it was loaded.                          *)
LEMMA InitKept ==
    ASSUME Init
    PROVE  Kept
<1>1. Identity \in Everywhere
  BY IdentityPermutes DEF Everywhere
<1>2. \A t \in Threads : stack[t] = << >>
  BY DEF Init
<1>3. Accounted(Identity)
  BY <1>2 DEF Accounted, MergingAt, At, Identity, Init
<1>4. Still(Identity, Root)
  BY DEF Still, Root, Identity, Index
<1>5. Below(<< >>) = {}
  BY DEF Below
<1>6. Live(Identity)
  BY <1>2, <1>4, <1>5 DEF Live, Init
<1> QED BY <1>1, <1>3, <1>6 DEF Kept

(* No step loses or duplicates an element.                                 *)
LEMMA NextKept ==
    ASSUME IInv, Kept, [Next]_vars
    PROVE  Kept'
<1>1. CASE UNCHANGED <<arr, temp, input, stack, tasks, entered>>
  <2>1. PICK p \in Everywhere : Accounted(p) /\ Live(p)
    BY DEF Kept
  <2>2. Accounted(p)' /\ Live(p)'
    BY <1>1, <2>1 DEF Accounted, Live, MergingAt, At, Top
  <2> QED BY <2>2 DEF Kept, Everywhere, Shuffles, Index
<1>2. CASE UNCHANGED vars \/ EndParallel
  BY <1>1, <1>2 DEF vars, EndParallel
<1>3. ASSUME NEW t \in Threads, Step(t) PROVE Kept'
  BY <1>3, KeptTrivial, KeptInsertion, KeptCopy, KeptFirstTiles, KeptMergeL, KeptMergeR,
     KeptCreating, KeptRecurse, KeptStartTask, KeptSingle DEF Step
<1> QED BY <1>2, <1>3 DEF Next

(* Every reachable state accounts for every element.                       *)
THEOREM ElementsKept == Spec => []Kept
<1>1. Init => Kept
  BY InitKept
<1>2. IInv /\ Kept /\ [Next]_vars => Kept'
  BY NextKept
<1> QED BY <1>1, <1>2, InvariantHolds, PTL DEF Spec

-----------------------------------------------------------------------------
(* What follows for every reachable state.                                 *)

(* No two threads ever work on overlapping parts of the array or of the    *)
(* scratch array (hw4.c, at merge_tiled).                                  *)
THEOREM ThreadsNeverConflict == Spec => []NoConflict
<1>1. IInv => NoConflict
  BY NoConflictHolds DEF IInv
<1> QED BY <1>1, InvariantHolds, PTL

(* Both runs of a merge are sorted when it begins.                         *)
THEOREM MergesBeginWithSortedRuns == Spec => []MergesSortedRuns
<1>1. IInv => MergesSortedRuns
  BY MergesSortedRunsHolds DEF IInv
<1> QED BY <1>1, InvariantHolds, PTL

(* When no call is left the first one has returned, and nothing is         *)
(* overwriting what it has sorted.                                         *)
LEMMA SortedWhenIdle ==
    ASSUME IInv, entered, \A t \in Threads : stack[t] = << >>
    PROVE  Ascending(arr, 0, N - 1)
<1>1. Root \in sorted
  BY DEF IInv, RegionOK, OnStack
<1>2. \A t \in Threads : ~At(t, "merge")
  BY DEF At
<1>3. Ascending(arr, Root[1], Root[2])
  BY <1>1, <1>2 DEF IInv, SortedInOrder
<1> QED BY <1>3 DEF Root

(* The program leaves the array in ascending order.                        *)
THEOREM SortedAtTheEnd == Spec => [](finished => Ascending(arr, 0, N - 1))
<1>1. IInv => (finished => Ascending(arr, 0, N - 1))
  BY SortedWhenIdle DEF IInv, RegionOK
<1> QED BY <1>1, InvariantHolds, PTL

-----------------------------------------------------------------------------
(* Counting elements.                                                      *)

(* Two sets of positions, one a shift of the other, have as many elements. *)
LEMMA Shifted ==
    ASSUME NEW S \in SUBSET Int, IsFiniteSet(S), NEW c \in Int,
           NEW T \in SUBSET Int, \A y \in Int : y \in T <=> y - c \in S
    PROVE  IsFiniteSet(T) /\ Cardinality(T) = Cardinality(S)
<1> DEFINE h == [x \in S |-> x + c]
<1>1. \A x \in S : x \in Int
  OBVIOUS
<1>2. h \in [S -> T]
  <2>1. \A x \in S : x + c \in Int /\ (x + c) - c = x
    BY <1>1
  <2>2. \A x \in S : x + c \in T
    BY <2>1
  <2> QED BY <2>2
<1>3. \A x, y \in S : h[x] = h[y] => x = y
  BY <1>1
<1>4. ASSUME NEW y \in T PROVE \E x \in S : h[x] = y
  <2>1. y - c \in S /\ (y - c) + c = y
    OBVIOUS
  <2> QED BY <2>1
<1> HIDE DEF h
<1>5. h \in Bijection(S, T)
  BY <1>2, <1>3, <1>4 DEF Bijection, Injection, Surjection, IsInjective
<1>6. ExistsBijection(S, T)
  BY <1>5 DEF ExistsBijection
<1> QED BY <1>1, <1>6, FS_Bijection

(* How many elements of D are in an interval, and in two adjacent ones.    *)
Between(D, a, b) == Cardinality(D \cap (a .. b))

(* Counting in two adjacent intervals.                                     *)
LEMMA Adjacent ==
    ASSUME NEW D, NEW a \in Int, NEW c \in Int, NEW b \in Int, a <= c, c <= b + 1
    PROVE  /\ Between(D, a, b) = Between(D, a, c - 1) + Between(D, c, b)
           /\ Between(D, a, c - 1) \in Nat /\ Between(D, c, b) \in Nat
<1> DEFINE S == D \cap (a .. c - 1)
           T == D \cap (c .. b)
<1>1. IsFiniteSet(a .. c - 1) /\ IsFiniteSet(c .. b)
  <2>1. c - 1 \in Int
    OBVIOUS
  <2> QED BY <2>1, FS_Interval
<1>2. IsFiniteSet(S) /\ IsFiniteSet(T)
  BY <1>1, FS_Subset
<1>3. S \cup T = D \cap (a .. b) /\ S \cap T = {}
  <2>1. \A x : x \in a .. b <=> x \in a .. c - 1 \/ x \in c .. b
    OBVIOUS
  <2>2. \A x : ~(x \in a .. c - 1 /\ x \in c .. b)
    OBVIOUS
  <2> QED BY <2>1, <2>2
<1> HIDE DEF S, T
<1>4. Cardinality(S \cup T) = Cardinality(S) + Cardinality(T)
  <2>1. Cardinality(S) \in Nat /\ Cardinality(T) \in Nat
    BY <1>2, FS_CardinalityType
  <2>2. Cardinality({}) = 0
    BY FS_EmptySet
  <2>3. Cardinality(S \cup T) = Cardinality(S) + Cardinality(T) - Cardinality(S \cap T)
    BY <1>2, FS_Union
  <2>4. Cardinality(S \cap T) = 0
    BY <1>3, <2>2
  <2> HIDE DEF S, T
  <2> QED BY <2>1, <2>3, <2>4
<1>5. Cardinality(S) \in Nat /\ Cardinality(T) \in Nat
  BY <1>2, FS_CardinalityType
<1> QED BY <1>3, <1>4, <1>5 DEF S, T, Between

Places(a, S, v) == {x \in S : a[x] = v}

(* A permutation that takes no element out of a segment brings as many of  *)
(* a kind to it as it had.                                                 *)
LEMMA SameCount ==
    ASSUME NEW l \in Index, NEW r \in Index, NEW p \in Everywhere, Within(p, <<l, r>>),
           NEW a, NEW b, \A x \in l .. r : b[x] = a[p[x]], NEW v
    PROVE  Cardinality(Places(b, l .. r, v)) = Cardinality(Places(a, l .. r, v))
<1> DEFINE I == l .. r
           S == {x \in I : b[x] = v}
           T == {x \in I : a[x] = v}
           h == [x \in I |-> p[x]]
           g == [x \in S |-> p[x]]
<1>1. IsFiniteSet(I) /\ (\A x \in I : x \in Index)
  <2>1. l \in Int /\ r \in Int
    BY IndexBounds
  <2>2. IsFiniteSet(I)
    BY <2>1, FS_Interval
  <2>3. \A x \in I : x \in Index
    BY <2>1, IndexBounds, SortAssumption
  <2> QED BY <2>2, <2>3
<1>2. \A x \in I : p[x] \in I /\ b[x] = a[p[x]]
  BY DEF Within
<1>3. \A x, y \in Index : p[x] = p[y] => x = y
  BY DEF Everywhere, Shuffles
<1> HIDE DEF I
<1>4. h \in [I -> I] /\ \A x, y \in I : h[x] = h[y] => x = y
  BY <1>1, <1>2, <1>3
<1>5. h \in Injection(I, I)
  <2> HIDE DEF h
  <2> QED BY <1>4 DEF Injection, IsInjective
<1>6. h \in Surjection(I, I)
  <2> HIDE DEF h
  <2> QED BY <1>1, <1>5, FS_Injection
<1>7. \A y \in I : \E x \in I : h[x] = y
  <2> HIDE DEF h
  <2> QED BY <1>6 DEF Surjection
<1>8. \A y \in I : \E x \in I : p[x] = y
  BY <1>7
<1>9. g \in [S -> T] /\ (\A x, y \in S : g[x] = g[y] => x = y)
      /\ \A y \in T : \E x \in S : g[x] = y
  BY <1>1, <1>2, <1>3, <1>8
<1>10. IsFiniteSet(S)
  BY <1>1, FS_Subset
<1> HIDE DEF S, T, g
<1>11. g \in Bijection(S, T)
  BY <1>9 DEF Bijection, Injection, Surjection, IsInjective
<1>12. ExistsBijection(S, T)
  BY <1>11 DEF ExistsBijection
<1>13. Cardinality(S) = Cardinality(T)
  BY <1>10, <1>12, FS_Bijection
<1> QED BY <1>13 DEF S, T, I, Places

(* What is written, what is in the tiles and what is unread of a merge are *)
(* as many elements of a kind as its pending elements.                     *)
LEMMA PendingCount ==
    ASSUME NEW f \in CallType, f.left < f.right, TilesOK(f, temp), NEW v
    PROVE  Cardinality({x \in f.left .. f.right : Pending(f, arr, temp, x) = v}) =
              Cardinality({x \in f.left .. f.k - 1 : arr[x] = v})
              + Cardinality({x \in DOMAIN f.bufL : f.bufL[x] = v})
              + Cardinality({x \in DOMAIN f.bufR : f.bufR[x] = v})
              + Cardinality({x \in (f.left + f.i_src .. Mid(f.left, f.right))
                                   \cup (Mid(f.left, f.right) + 1 + f.j_src .. f.right) :
                                temp[x] = v})
<1> DEFINE l == f.left
           r == f.right
           m == Mid(l, r)
           k == f.k
           i == f.i_src
           j == f.j_src
           b == Len(f.bufL)
           c == Len(f.bufR)
           nl == NextL(f)
           nr == NextR(f)
           D == {x \in l .. r : Pending(f, arr, temp, x) = v}
           U == {x \in (l + i .. m) \cup (m + 1 + j .. r) : temp[x] = v}
           BL == {x \in DOMAIN f.bufL : f.bufL[x] = v}
           BR == {x \in DOMAIN f.bufR : f.bufR[x] = v}
<1>1. /\ l \in Int /\ r \in Int /\ m \in Int /\ k \in Int /\ i \in Nat /\ j \in Nat
      /\ b \in Nat /\ c \in Nat /\ nl \in Int /\ nr \in Int
      /\ l <= nl /\ nl <= m + 1 /\ m + 1 <= nr /\ nr <= r + 1 /\ l <= m /\ m < r
      /\ k = nl + nr - (m + 1)
      /\ nl = l + i - b /\ nr = m + 1 + j - c
      /\ i <= m - l + 1 /\ j <= r - m /\ b <= i /\ c <= j
  BY RunBounds, MergeBounds DEF TilesOK, LeftTile, RightTile
<1>2. /\ DOMAIN f.bufL = 1 .. b /\ DOMAIN f.bufR = 1 .. c
      /\ \A x \in 1 .. b : f.bufL[x] = temp[nl + x - 1]
      /\ \A x \in 1 .. c : f.bufR[x] = temp[nr + x - 1]
  BY DEF CallType, TilesOK, LeftTile, RightTile
<1>3. \A x \in l .. r : x \in D <=>
         \/ x < k /\ arr[x] = v
         \/ ~(x < k) /\ x < nr /\ temp[x - k + nl] = v
         \/ ~(x < k) /\ ~(x < nr) /\ temp[x] = v
  BY DEF Pending
<1>4. \A x : x \in D => x \in l .. r
  OBVIOUS
<1>5. \A x : x \in U <=> (x \in l + i .. m \/ x \in m + 1 + j .. r) /\ temp[x] = v
  OBVIOUS
<1> HIDE DEF l, r, m, k, i, j, b, c, nl, nr, D, U
<1>6. /\ BL \in SUBSET Int /\ IsFiniteSet(BL) /\ BR \in SUBSET Int /\ IsFiniteSet(BR)
      /\ U \cap (l .. m) \in SUBSET Int /\ IsFiniteSet(U \cap (l .. m))
  <2>1. IsFiniteSet(1 .. b) /\ IsFiniteSet(1 .. c) /\ IsFiniteSet(l .. m)
    <3>1. 1 \in Int /\ b \in Int /\ c \in Int
      BY <1>1
    <3> QED BY <1>1, <3>1, FS_Interval
  <2>2. /\ BL \in SUBSET (1 .. b) /\ BR \in SUBSET (1 .. c) /\ U \cap (l .. m) \in SUBSET (l .. m)
        /\ 1 .. b \subseteq Int /\ 1 .. c \subseteq Int /\ l .. m \subseteq Int
    BY <1>1, <1>2
  <2> HIDE DEF BL, BR
  <2> QED BY <2>1, <2>2, FS_Subset
<1>6w. D \cap (l .. k - 1) = {x \in l .. k - 1 : arr[x] = v}
  <2>1. \A x \in l .. k - 1 : x \in l .. r /\ x < k
    BY <1>1
  <2> QED BY <1>3, <1>4, <2>1
<1>7. Cardinality(D \cap (k .. k + b - 1)) = Cardinality(BL)
  <2>1. \A y \in Int : y \in D \cap (k .. k + b - 1) <=> y - (k - 1) \in BL
    <3> SUFFICES ASSUME NEW y \in Int
                 PROVE  y \in D \cap (k .. k + b - 1) <=> y - (k - 1) \in BL
      OBVIOUS
    <3>1. y \in k .. k + b - 1 <=> y - (k - 1) \in 1 .. b
      BY <1>1
    <3>2. ASSUME y \in k .. k + b - 1 PROVE y \in D <=> f.bufL[y - (k - 1)] = v
      <4>1. /\ y \in l .. r /\ ~(y < k) /\ y < nr
            /\ nl + (y - (k - 1)) - 1 = y - k + nl
        BY <1>1, <3>2
      <4>2. f.bufL[y - (k - 1)] = temp[y - k + nl]
        BY <1>2, <3>1, <3>2, <4>1
      <4> QED BY <1>3, <4>1, <4>2
    <3> QED BY <1>2, <3>1, <3>2
  <2> DEFINE T == D \cap (k .. k + b - 1)
             z == k - 1
  <2>2. T \in SUBSET Int /\ z \in Int /\ \A y \in Int : y \in T <=> y - z \in BL
    BY <1>1, <2>1
  <2> HIDE DEF T, z
  <2> QED BY <1>6, <2>2, Shifted DEF T
<1>8. Cardinality(D \cap (k + b .. nr - 1)) = Cardinality(U \cap (l .. m))
  <2>1. \A y \in Int : y \in D \cap (k + b .. nr - 1) <=> y - (k - nl) \in U \cap (l .. m)
    <3> SUFFICES ASSUME NEW y \in Int
                 PROVE  y \in D \cap (k + b .. nr - 1) <=> y - (k - nl) \in U \cap (l .. m)
      OBVIOUS
    <3>1. y \in k + b .. nr - 1 <=> y - (k - nl) \in l + i .. m
      BY <1>1
    <3>2. y - (k - nl) \in U \cap (l .. m)
             <=> y - (k - nl) \in l + i .. m /\ temp[y - (k - nl)] = v
      <4>1. \A x \in l .. m : ~(x \in m + 1 + j .. r)
        BY <1>1
      <4>2. \A x \in l + i .. m : x \in l .. m
        BY <1>1
      <4> QED BY <1>5, <4>1, <4>2
    <3>3. ASSUME y \in k + b .. nr - 1 PROVE y \in D <=> temp[y - (k - nl)] = v
      <4>1. y \in l .. r /\ ~(y < k) /\ y < nr /\ y - (k - nl) = y - k + nl
        BY <1>1, <3>3
      <4> QED BY <1>3, <4>1
    <3> QED BY <3>1, <3>2, <3>3
  <2> DEFINE T == D \cap (k + b .. nr - 1)
             V == U \cap (l .. m)
             z == k - nl
  <2>2. T \in SUBSET Int /\ z \in Int /\ \A y \in Int : y \in T <=> y - z \in V
    BY <1>1, <2>1
  <2> HIDE DEF T, V, z
  <2> QED BY <1>6, <2>2, Shifted DEF T, V
<1>9. Cardinality(D \cap (nr .. nr + c - 1)) = Cardinality(BR)
  <2>1. \A y \in Int : y \in D \cap (nr .. nr + c - 1) <=> y - (nr - 1) \in BR
    <3> SUFFICES ASSUME NEW y \in Int
                 PROVE  y \in D \cap (nr .. nr + c - 1) <=> y - (nr - 1) \in BR
      OBVIOUS
    <3>1. y \in nr .. nr + c - 1 <=> y - (nr - 1) \in 1 .. c
      BY <1>1
    <3>2. ASSUME y \in nr .. nr + c - 1 PROVE y \in D <=> f.bufR[y - (nr - 1)] = v
      <4>1. /\ y \in l .. r /\ ~(y < k) /\ ~(y < nr)
            /\ nr + (y - (nr - 1)) - 1 = y
        BY <1>1, <3>2
      <4>2. f.bufR[y - (nr - 1)] = temp[y]
        BY <1>2, <3>1, <3>2, <4>1
      <4> QED BY <1>3, <4>1, <4>2
    <3> QED BY <1>2, <3>1, <3>2
  <2> DEFINE T == D \cap (nr .. nr + c - 1)
             z == nr - 1
  <2>2. T \in SUBSET Int /\ z \in Int /\ \A y \in Int : y \in T <=> y - z \in BR
    BY <1>1, <2>1
  <2> HIDE DEF T, z
  <2> QED BY <1>6, <2>2, Shifted DEF T
<1>10. D \cap (nr + c .. r) = U \cap (m + 1 .. r)
  <2>1. nr + c = m + 1 + j
    BY <1>1
  <2>2. \A x \in nr + c .. r : x \in l .. r /\ ~(x < k) /\ ~(x < nr) /\ x \in m + 1 .. r
    BY <1>1
  <2>3. \A x \in m + 1 .. r : ~(x \in l + i .. m)
    BY <1>1
  <2> QED BY <1>3, <1>5, <2>1, <2>2, <2>3
<1> DEFINE C(x, y) == Between(D, x, y)
           E(x, y) == Between(U, x, y)
<1>11. \A x \in Int, y \in Int, z \in Int : x <= y /\ y <= z + 1 =>
          /\ C(x, z) = C(x, y - 1) + C(y, z) /\ E(x, z) = E(x, y - 1) + E(y, z)
          /\ C(x, y - 1) \in Nat /\ C(y, z) \in Nat /\ E(x, y - 1) \in Nat /\ E(y, z) \in Nat
  <2> SUFFICES ASSUME NEW x \in Int, NEW y \in Int, NEW z \in Int, x <= y, y <= z + 1
               PROVE  /\ C(x, z) = C(x, y - 1) + C(y, z) /\ E(x, z) = E(x, y - 1) + E(y, z)
                      /\ C(x, y - 1) \in Nat /\ C(y, z) \in Nat
                      /\ E(x, y - 1) \in Nat /\ E(y, z) \in Nat
    BY Zenon
  <2>1. C(x, z) = C(x, y - 1) + C(y, z) /\ C(x, y - 1) \in Nat /\ C(y, z) \in Nat
    BY Adjacent
  <2>2. E(x, z) = E(x, y - 1) + E(y, z) /\ E(x, y - 1) \in Nat /\ E(y, z) \in Nat
    BY Adjacent
  <2> HIDE DEF C, E
  <2> QED BY <2>1, <2>2
<1>12. /\ C(l, r) = Cardinality(D) /\ E(l, r) = Cardinality(U)
       /\ C(k, k + b - 1) = Cardinality(BL) /\ C(k + b, nr - 1) = E(l, m)
       /\ C(nr, nr + c - 1) = Cardinality(BR) /\ C(nr + c, r) = E(m + 1, r)
  <2>1. D \cap (l .. r) = D
    BY <1>4
  <2>2. U \cap (l .. r) = U
    <3>1. \A x : x \in l + i .. m \/ x \in m + 1 + j .. r => x \in l .. r
      BY <1>1
    <3> QED BY <1>5, <3>1
  <2> HIDE DEF BL, BR
  <2> QED BY <1>7, <1>8, <1>9, <1>10, <2>1, <2>2 DEF Between
<1> HIDE DEF C, E, BL, BR
<1>13. /\ k + b \in Int /\ nr + c \in Int /\ m + 1 \in Int /\ (m + 1) - 1 = m
       /\ l <= k /\ k <= r + 1 /\ k <= k + b /\ k + b <= r + 1
       /\ k + b <= nr /\ nr <= r + 1 /\ nr <= nr + c /\ nr + c <= r + 1
       /\ l <= m + 1 /\ m + 1 <= r + 1
  BY <1>1
<1>14. /\ C(l, r) = C(l, k - 1) + C(k, r) /\ C(l, k - 1) \in Nat
       /\ C(k, r) = C(k, k + b - 1) + C(k + b, r) /\ C(k, k + b - 1) \in Nat
       /\ C(k + b, r) = C(k + b, nr - 1) + C(nr, r) /\ C(k + b, nr - 1) \in Nat
       /\ C(nr, r) = C(nr, nr + c - 1) + C(nr + c, r) /\ C(nr, nr + c - 1) \in Nat
       /\ C(nr + c, r) \in Nat
  <2>1. C(l, r) = C(l, k - 1) + C(k, r) /\ C(l, k - 1) \in Nat
    BY <1>1, <1>11, <1>13
  <2>2. C(k, r) = C(k, k + b - 1) + C(k + b, r) /\ C(k, k + b - 1) \in Nat
    BY <1>1, <1>11, <1>13
  <2>3. C(k + b, r) = C(k + b, nr - 1) + C(nr, r) /\ C(k + b, nr - 1) \in Nat
    BY <1>1, <1>11, <1>13
  <2>4. C(nr, r) = C(nr, nr + c - 1) + C(nr + c, r) /\ C(nr, nr + c - 1) \in Nat
        /\ C(nr + c, r) \in Nat
    BY <1>1, <1>11, <1>13
  <2> QED BY <2>1, <2>2, <2>3, <2>4
<1>15. E(l, r) = E(l, m) + E(m + 1, r)
  <2> DEFINE n == m + 1
  <2>1. n \in Int /\ l <= n /\ n <= r + 1 /\ n - 1 = m
    BY <1>13
  <2> HIDE DEF n
  <2>2. l \in Int /\ r \in Int
    BY <1>1
  <2>3. E(l, r) = E(l, n - 1) + E(n, r)
    BY <2>1, <2>2, Adjacent DEF E
  <2> QED BY <2>1, <2>3 DEF n
<1>16. Cardinality(D) = C(l, k - 1) + Cardinality(BL) + Cardinality(BR) + Cardinality(U)
  BY <1>12, <1>14, <1>15
<1>17. C(l, k - 1) = Cardinality({x \in l .. k - 1 : arr[x] = v})
  BY <1>6w DEF C, Between
<1> HIDE DEF C
<1> QED BY <1>16, <1>17 DEF D, U, BL, BR, l, r, m, k, i, j

(* A merge that overwrites its segment loses and duplicates nothing.       *)
LEMMA ConservedByMerge ==
    ASSUME IInv, Kept, NEW t \in Threads, At(t, "merge")
    PROVE  Conserved(Top(t))
<1> DEFINE f == Top(t)
           l == f.left
           r == f.right
<1>1. /\ f \in CallType /\ l < r /\ l \in Index /\ r \in Index /\ TilesOK(f, temp)
      /\ stack[t] # << >>
  BY CallAt DEF IInv, MergesOK
<1>2. PICK p \in Everywhere : Accounted(p) /\ Live(p)
  BY DEF Kept
<1>3. Within(p, <<l, r>>)
  BY <1>1, <1>2 DEF Live, FrameOK, Seg
<1>4. \A x \in l .. r : Pending(f, arr, temp, x) = input[p[x]]
  <2>1. \A x \in l .. r : x \in Index
    BY <1>1, IdentityOn
  <2> QED BY <1>2, <2>1 DEF Accounted, MergingAt
<1> HIDE DEF f, l, r
<1>5. ASSUME NEW v \in Values
      PROVE  Cardinality({x \in l .. r : input[x] = v}) =
                Cardinality({x \in l .. f.k - 1 : arr[x] = v})
                + Cardinality({x \in DOMAIN f.bufL : f.bufL[x] = v})
                + Cardinality({x \in DOMAIN f.bufR : f.bufR[x] = v})
                + Cardinality({x \in (l + f.i_src .. Mid(l, r))
                                     \cup (Mid(l, r) + 1 + f.j_src .. r) : temp[x] = v})
  <2> DEFINE b == [x \in l .. r |-> Pending(f, arr, temp, x)]
  <2>1. \A x \in l .. r : b[x] = input[p[x]]
    BY <1>4
  <2>2. Places(b, l .. r, v) = {x \in l .. r : Pending(f, arr, temp, x) = v}
    BY DEF Places
  <2> HIDE DEF b
  <2>3. Cardinality(Places(b, l .. r, v)) = Cardinality(Places(input, l .. r, v))
    <3>1. l \in Index /\ r \in Index
      BY <1>1
    <3>2. p \in Everywhere
      BY <1>2
    <3> HIDE DEF Places
    <3> QED BY <1>3, <2>1, <3>1, <3>2, SameCount
  <2>4. Cardinality({x \in l .. r : Pending(f, arr, temp, x) = v}) =
           Cardinality({x \in l .. f.k - 1 : arr[x] = v})
           + Cardinality({x \in DOMAIN f.bufL : f.bufL[x] = v})
           + Cardinality({x \in DOMAIN f.bufR : f.bufR[x] = v})
           + Cardinality({x \in (l + f.i_src .. Mid(l, r))
                                \cup (Mid(l, r) + 1 + f.j_src .. r) : temp[x] = v})
    BY <1>1, PendingCount, Zenon DEF l, r
  <2>5. Cardinality({x \in l .. r : input[x] = v}) =
           Cardinality({x \in l .. r : Pending(f, arr, temp, x) = v})
    BY <2>2, <2>3 DEF Places
  <2> QED BY <2>4, <2>5
<1> QED BY <1>5 DEF Conserved, Count, f, l, r

(* Elements are neither lost nor duplicated while they are being merged    *)
(* (merge_tiled of hw4.c), whatever other threads do.                      *)
THEOREM MergesConserveElements == Spec => []ElementsConserved
<1>1. IInv /\ Kept => ElementsConserved
  BY ConservedByMerge DEF ElementsConserved
<1> QED BY <1>1, InvariantHolds, ElementsKept, PTL

-----------------------------------------------------------------------------
(* The program implements Sorting.                                         *)

(* When no call is left the array holds what was loaded, rearranged.       *)
LEMMA RearrangedWhenIdle ==
    ASSUME Kept, \A t \in Threads : stack[t] = << >>, NEW v
    PROVE  Cardinality(Places(arr, Index, v)) = Cardinality(Places(input, Index, v))
<1>1. PICK p \in Everywhere : Accounted(p)
  BY DEF Kept
<1>3. \A x \in Index : arr[x] = input[p[x]]
  BY <1>1 DEF Accounted, MergingAt, At
<1>4. 0 \in Index /\ N - 1 \in Index /\ Index = 0 .. N - 1
  BY SortAssumption DEF Index
<1>5. Within(p, <<0, N - 1>>)
  BY <1>4 DEF Within, Everywhere, Shuffles
<1>6. \A x \in 0 .. N - 1 : arr[x] = input[p[x]]
  BY <1>3, <1>4
<1> QED BY <1>4, <1>5, <1>6, SameCount

(* Once the region is over nothing changes any more.                       *)
LEMMA NothingAfterTheEnd ==
    ASSUME IInv, finished, [Next]_vars
    PROVE  UNCHANGED <<arr, input, finished>>
<1>1. entered /\ tasks = {} /\ \A t \in Threads : stack[t] = << >>
  BY DEF IInv, RegionOK
<1>2. ~EndParallel
  BY DEF EndParallel
<1>3. ASSUME NEW t \in Threads PROVE ~Step(t)
  BY <1>1 DEF Step, Single, StartTask, Trivial, SwitchToSerial, SpawnLeft, SpawnRight, TaskWait,
     InsertionStep, RecurseLeft, RecurseRight, Copy, FirstTiles, MergeL, MergeR, Merged, At
<1> QED BY <1>2, <1>3 DEF Next, vars

(* Until then nothing can be seen.                                         *)
LEMMA NothingBeforeTheEnd ==
    ASSUME [Next]_vars
    PROVE  UNCHANGED <<input, finished>> \/ EndParallel
<1>1. ASSUME NEW t \in Threads, Step(t) PROVE UNCHANGED <<input, finished>>
  BY <1>1 DEF Step, Single, StartTask, Trivial, SwitchToSerial, SpawnLeft, SpawnRight, TaskWait,
     InsertionStep, RecurseLeft, RecurseRight, Copy, FirstTiles, MergeL, MergeR, Merged
<1> QED BY <1>1 DEF Next, vars

(* What anyone sees of the array.                                          *)
Seen == IF finished THEN arr ELSE input

(* Sorting counts as this module does.                                     *)
LEMMA AbstractCardinality ==
    ASSUME NEW S
    PROVE  Promise!Cardinality(S) = Cardinality(S)
BY DEF Promise!Cardinality, Cardinality

(* A step of the program is a step of its promise or cannot be seen.       *)
LEMMA StepSorts ==
    ASSUME IInv, Kept, [Next]_vars
    PROVE  Promise!Sort \/ UNCHANGED <<Seen, finished>>
<1>1. CASE finished
  <2>1. UNCHANGED <<arr, input, finished>>
    BY <1>1, NothingAfterTheEnd
  <2> QED BY <2>1 DEF Seen
<1>2. CASE ~finished /\ UNCHANGED <<input, finished>>
  BY <1>2 DEF Seen
<1>3. CASE ~finished /\ EndParallel
  <2>1. /\ finished' = TRUE /\ UNCHANGED <<arr, input>>
        /\ entered /\ \A t \in Threads : stack[t] = << >>
    BY <1>3 DEF EndParallel
  <2>2. /\ DOMAIN input = Index /\ DOMAIN arr = Index /\ arr \in [Index -> Values]
        /\ \A x \in Index : x \in Int
    BY IndexBounds DEF IInv, TypeOK
  <2>3. Promise!Sorted(arr)
    <3>1. Ascending(arr, 0, N - 1)
      BY <2>1, SortedWhenIdle
    <3>2. ASSUME NEW i \in Index, i > 0 PROVE arr[i - 1] <= arr[i]
      <4>1. i \in 0 .. N - 1 /\ i - 1 \in 0 .. N - 1 /\ i - 1 <= i
        BY <3>2, IndexBounds, SortAssumption DEF Index
      <4> QED BY <3>1, <4>1 DEF Ascending
    <3> QED BY <2>2, <3>2 DEF Promise!Sorted
  <2>4. Promise!SameElements(arr, input)
    <3>1. ASSUME NEW v
          PROVE  Cardinality(Places(arr, Index, v)) = Cardinality(Places(input, Index, v))
      BY <2>1, RearrangedWhenIdle
    <3> QED BY <2>2, <3>1, AbstractCardinality
            DEF Promise!SameElements, Promise!Occurrences, Places
  <2> QED BY <1>3, <2>1, <2>2, <2>3, <2>4 DEF Promise!Sort
<1> QED BY <1>1, <1>2, <1>3, NothingBeforeTheEnd

(* The safety half of what Sorting promises of hw4.c: to anyone who looks  *)
(* at the array when the region is over, the program is one step that      *)
(* leaves the elements it was given in ascending order.                    *)
THEOREM SortsSafely == Spec => Promise!Init /\ [][Promise!Sort]_<<Seen, finished>>
<1>1. Init => Promise!Init
  <2> SUFFICES ASSUME Init PROVE Promise!Init
    OBVIOUS
  <2>1. input \in [0 .. N - 1 -> Values] /\ finished = FALSE
    BY DEF Init, Index
  <2>2. input \in Promise!Arrays
    BY <2>1 DEF Promise!Arrays
  <2> QED BY <2>1, <2>2 DEF Promise!Init
<1>2. IInv /\ Kept /\ [Next]_vars => [Promise!Sort]_<<Seen, finished>>
  BY StepSorts
<1> QED BY <1>1, <1>2, InvariantHolds, ElementsKept, PTL DEF Spec
=============================================================================
