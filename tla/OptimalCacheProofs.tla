-------------------------- MODULE OptimalCacheProofs --------------------------
(***************************************************************************)
(* Proofs about OptimalCache and OptimalReference.                         *)
(*                                                                         *)
(* The invariant is about one set at a time: what its trace says of the    *)
(* future (Linked), what its stacks say of the trace (KnownOK, UnknownOK), *)
(* that the stacks fit (Fits) and, for the history variables of            *)
(* OptimalReference, when each line was last used (UsedOK).  Lookahead and *)
(* one iteration of Process keep it, and the loops of Process and Fini by  *)
(* induction over their iterations.  The sums over the sets of what is     *)
(* still to be processed count the references (Counted, Balanced).         *)
(*                                                                         *)
(* That the misses are those of the best choice (MissesAlwaysOptimal)      *)
(* rests on two facts about a set and all the choices there were for it,   *)
(* which decisions, lookaheads and repairs keep: no choice paid less, or   *)
(* has lines worth more than what it paid more (Least), and some choice    *)
(* paid no more and has the lines the cache has or may yet want            *)
(* (Attained).  Lines are compared by their ranks, as late as the trace    *)
(* tells them apart (Many, Within).                                        *)
(***************************************************************************)
EXTENDS OptimalReference, BaseCacheProofs

-----------------------------------------------------------------------------
(* Natural numbers.                                                        *)

(* Numbers that are bounded below have a least one too.                    *)
LEMMA LeastInteger ==
    ASSUME NEW S \in SUBSET Int, S # {}, NEW lo \in Int, \A x \in S : lo <= x
    PROVE  \E x \in S : \A y \in S : x <= y
<1> DEFINE T == {x - lo : x \in S}
<1>1. T \in SUBSET Nat /\ T # {}
  <2>1. \A x \in S : x - lo \in Nat
    OBVIOUS
  <2> QED BY <2>1
<1> HIDE DEF T
<1>2. PICK m \in T : \A y \in T : m <= y
  BY <1>1, LeastNatural
<1>3. PICK x \in S : m = x - lo
  BY DEF T
<1>4. ASSUME NEW y \in S PROVE x <= y
  <2>1. y - lo \in T
    BY DEF T
  <2>2. x - lo <= y - lo /\ x \in Int /\ y \in Int
    BY <1>2, <1>3, <2>1
  <2> QED BY <2>2
<1> QED BY <1>4

(* What Min is for the sets of this module.                                *)
LEMMA MinIs ==
    ASSUME NEW S \in SUBSET Int, NEW j \in S, \A k \in S : j <= k
    PROVE  Min(S) = j
<1>1. \E x \in S : \A y \in S : x =< y
  OBVIOUS
<1>2. Min(S) \in S /\ \A k \in S : Min(S) <= k
  BY <1>1 DEF Min
<1>3. Min(S) <= j /\ j <= Min(S) /\ Min(S) \in Int /\ j \in Int
  BY <1>2
<1> QED BY <1>3

-----------------------------------------------------------------------------
(* Occurrences of a line in a trace.                                       *)

NoneAfter(trace, i, t) == \A k \in i + 1 .. Len(trace) : trace[k].tag # t

FirstAfter(trace, i, t, j) ==
    /\ j \in i + 1 .. Len(trace)
    /\ trace[j].tag = t
    /\ \A k \in i + 1 .. j - 1 : trace[k].tag # t

(* A line occurs after a place of the trace, and then has a first          *)
(* occurrence there, or it does not.                                       *)
LEMMA FirstExists ==
    ASSUME NEW trace \in Seq(EntryType), NEW i \in Nat, NEW t, ~NoneAfter(trace, i, t)
    PROVE  \E j : FirstAfter(trace, i, t, j)
<1> DEFINE S == {k \in i + 1 .. Len(trace) : trace[k].tag = t}
<1>1. Len(trace) \in Nat
  OBVIOUS
<1>2. S \in SUBSET Nat /\ S # {}
  BY <1>1 DEF NoneAfter
<1> HIDE DEF S
<1>3. PICK j \in S : \A y \in S : j <= y
  BY <1>2, LeastNatural
<1>4. j \in i + 1 .. Len(trace) /\ trace[j].tag = t
  BY DEF S
<1>5. ASSUME NEW k \in i + 1 .. j - 1, trace[k].tag = t PROVE FALSE
  <2>1. k \in S /\ ~(j <= k)
    BY <1>1, <1>4, <1>5 DEF S
  <2> QED BY <1>3, <2>1
<1> QED BY <1>4, <1>5 DEF FirstAfter

(* There is one first occurrence.                                          *)
LEMMA FirstUnique ==
    ASSUME NEW trace \in Seq(EntryType), NEW i \in Nat, NEW t, NEW j, NEW k,
           FirstAfter(trace, i, t, j), FirstAfter(trace, i, t, k)
    PROVE  j = k
<1>1. Len(trace) \in Nat
  OBVIOUS
<1>2. j \in Int /\ k \in Int /\ i + 1 <= j /\ i + 1 <= k
  BY <1>1 DEF FirstAfter
<1>3. ~(j < k)
  <2>1. SUFFICES ASSUME j < k PROVE FALSE
    OBVIOUS
  <2>2. j \in i + 1 .. k - 1
    BY <1>2, <2>1
  <2> QED BY <2>2 DEF FirstAfter
<1>4. ~(k < j)
  <2>1. SUFFICES ASSUME k < j PROVE FALSE
    OBVIOUS
  <2>2. k \in i + 1 .. j - 1
    BY <1>2, <2>1
  <2> QED BY <2>2 DEF FirstAfter
<1> QED BY <1>2, <1>3, <1>4

(* A line that occurs in the trace has a last occurrence.                  *)
LEMMA LastExists ==
    ASSUME NEW trace \in Seq(EntryType), NEW t, ~NoneAfter(trace, 0, t)
    PROVE  \E i \in DOMAIN trace : trace[i].tag = t /\ NoneAfter(trace, i, t)
<1> DEFINE n == Len(trace)
           S == {m \in 0 .. n - 1 : trace[n - m].tag = t}
<1>1. n \in Nat /\ DOMAIN trace = 1 .. n
  OBVIOUS
<1>2. S \in SUBSET Nat /\ S # {}
  <2>1. PICK k \in 1 .. n : trace[k].tag = t
    BY DEF NoneAfter
  <2>2. n - k \in 0 .. n - 1 /\ n - (n - k) = k
    BY <1>1
  <2>3. n - k \in S
    BY <2>1, <2>2
  <2>4. S \subseteq 0 .. n - 1 /\ 0 .. n - 1 \subseteq Nat
    BY <1>1
  <2> HIDE DEF S
  <2> QED BY <2>3, <2>4
<1> HIDE DEF S
<1>3. PICK m \in S : \A y \in S : m <= y
  BY <1>2, LeastNatural
<1>4. m \in 0 .. n - 1 /\ trace[n - m].tag = t
  BY DEF S
<1>5. ASSUME NEW k \in (n - m) + 1 .. n, trace[k].tag = t PROVE FALSE
  <2>1. n - k \in 0 .. n - 1 /\ n - (n - k) = k /\ ~(m <= n - k)
    BY <1>1, <1>4
  <2>2. n - k \in S
    BY <1>5, <2>1 DEF S
  <2> QED BY <1>3, <2>1, <2>2
<1>6. n - m \in DOMAIN trace
  BY <1>1, <1>4
<1> QED BY <1>4, <1>5, <1>6 DEF NoneAfter

-----------------------------------------------------------------------------
(* What a trace says of the future, when ref references of its set have    *)
(* been simulated and the last of them is its last entry.                  *)

RefAt(trace, ref, i) == ref - Len(trace) + i

Linked(trace, ref) ==
    \A i \in DOMAIN trace :
        /\ NoneAfter(trace, i, trace[i].tag) =>
             trace[i].next_ref = KMax /\ trace[i].priority = -RefAt(trace, ref, i)
        /\ \A j : FirstAfter(trace, i, trace[i].tag, j) =>
             /\ trace[i].next_ref = RefAt(trace, ref, j)
             /\ trace[i].priority = KMax - RefAt(trace, ref, j)

(* What the stacks say of the trace.                                       *)
KnownOK(known, trace, ref) ==
    \A t \in DOMAIN known :
        \E j : FirstAfter(trace, 0, t, j) /\ known[t] = KMax - RefAt(trace, ref, j)

UnknownOK(unknown, trace) == \A t \in DOMAIN unknown : NoneAfter(trace, 0, t)

IsTrace(trace, ref) ==
    trace \in Seq(EntryType) /\ ref \in Nat /\ Len(trace) <= ref /\ ref <= MaxRefs

(* The entries that wait for the next use of a line are those of its last  *)
(* occurrence.                                                             *)
LEMMA WaitingIsLast ==
    ASSUME NEW trace, NEW ref, IsTrace(trace, ref), Linked(trace, ref),
           NEW i \in DOMAIN trace
    PROVE  ~IsKnown(trace[i]) <=> NoneAfter(trace, i, trace[i].tag)
<1>1. CASE NoneAfter(trace, i, trace[i].tag)
  BY <1>1 DEF Linked, IsKnown
<1>2. CASE ~NoneAfter(trace, i, trace[i].tag)
  <2>1. i \in Nat /\ i <= Len(trace) /\ Len(trace) \in Nat
    BY DEF IsTrace
  <2>2. PICK j : FirstAfter(trace, i, trace[i].tag, j)
    BY <1>2, <2>1, FirstExists DEF IsTrace
  <2>3. trace[i].next_ref = RefAt(trace, ref, j)
    BY <2>2 DEF Linked
  <2>4. j \in Int /\ j <= Len(trace)
    BY <2>1, <2>2 DEF FirstAfter
  <2>5. RefAt(trace, ref, j) <= MaxRefs /\ RefAt(trace, ref, j) \in Int
    BY <2>1, <2>4, OptAssumption DEF RefAt, IsTrace
  <2>6. RefAt(trace, ref, j) # KMax
    BY <2>5, OptAssumption
  <2> QED BY <1>2, <2>3, <2>6 DEF IsKnown
<1> QED BY <1>1, <1>2

(* A trace stays linked when the last occurrence of a line is told of the  *)
(* new one and the new one is appended.                                    *)
LEMMA AppendLinked ==
    ASSUME NEW trace, NEW ref, IsTrace(trace, ref), Linked(trace, ref), NEW tag,
           NEW told \in Seq(EntryType), Len(told) = Len(trace),
           \A i \in DOMAIN trace : told[i].tag = trace[i].tag,
           \A i \in DOMAIN trace :
              IF trace[i].tag = tag /\ NoneAfter(trace, i, tag)
              THEN told[i].next_ref = ref + 1 /\ told[i].priority = KMax - (ref + 1)
              ELSE told[i] = trace[i],
           NEW entry \in EntryType,
           entry.tag = tag, entry.next_ref = KMax, entry.priority = -(ref + 1)
    PROVE  Linked(Append(told, entry), ref + 1)
<1> DEFINE n == Len(trace)
           longer == Append(told, entry)
<1>1. n \in Nat /\ ref \in Nat /\ DOMAIN trace = 1 .. n
  BY DEF IsTrace
<1>2. /\ Len(longer) = n + 1 /\ DOMAIN longer = 1 .. n + 1
      /\ longer[n + 1] = entry
      /\ \A i \in 1 .. n : longer[i] = told[i]
  BY <1>1
<1>3. \A i \in 1 .. n : longer[i].tag = trace[i].tag
  BY <1>1, <1>2
<1> HIDE DEF longer, n
<1>4. \A j \in Int : RefAt(longer, ref + 1, j) = RefAt(trace, ref, j)
  BY <1>1, <1>2 DEF RefAt, n
<1>5. RefAt(longer, ref + 1, n + 1) = ref + 1
  BY <1>1, <1>2 DEF RefAt
<1>6. ASSUME NEW i \in 1 .. n
      PROVE  /\ NoneAfter(longer, i, longer[i].tag) =>
                  /\ longer[i].next_ref = KMax
                  /\ longer[i].priority = -RefAt(longer, ref + 1, i)
             /\ \A j : FirstAfter(longer, i, longer[i].tag, j) =>
                  /\ longer[i].next_ref = RefAt(longer, ref + 1, j)
                  /\ longer[i].priority = KMax - RefAt(longer, ref + 1, j)
  <2> DEFINE t == trace[i].tag
  <2>1. longer[i].tag = t /\ i \in Int /\ i <= n
    BY <1>1, <1>3
  <2> HIDE DEF t
  <2>2. ASSUME NoneAfter(longer, i, t)
        PROVE  /\ longer[i].next_ref = KMax
               /\ longer[i].priority = -RefAt(longer, ref + 1, i)
    <3>1. n + 1 \in i + 1 .. n + 1
      BY <1>1, <2>1
    <3>2. t # tag
      BY <1>2, <2>2, <3>1 DEF NoneAfter
    <3>3. \A k \in i + 1 .. n : k \in i + 1 .. n + 1 /\ k \in 1 .. n
      BY <1>1, <2>1
    <3>4. NoneAfter(trace, i, t)
      BY <1>2, <1>3, <2>2, <3>3 DEF NoneAfter, n
    <3>5. longer[i] = trace[i]
      BY <1>1, <1>2, <3>2 DEF t
    <3> QED BY <1>1, <1>4, <2>1, <3>4, <3>5 DEF Linked, t
  <2>3. ASSUME NEW j, FirstAfter(longer, i, t, j)
        PROVE  /\ longer[i].next_ref = RefAt(longer, ref + 1, j)
               /\ longer[i].priority = KMax - RefAt(longer, ref + 1, j)
    <3>1. j \in i + 1 .. n + 1 /\ j \in Int
      BY <1>1, <1>2, <2>1, <2>3 DEF FirstAfter
    <3>2. \A k \in i + 1 .. j - 1 : k \in 1 .. n /\ trace[k].tag # t
      <4>1. \A k \in i + 1 .. j - 1 : k \in 1 .. n
        BY <1>1, <2>1, <3>1
      <4> QED BY <1>3, <2>3, <4>1 DEF FirstAfter
    <3>3. CASE j = n + 1
      <4>1. t = tag
        BY <1>2, <2>3, <3>3 DEF FirstAfter
      <4>2. NoneAfter(trace, i, tag)
        BY <1>1, <3>2, <3>3, <4>1 DEF NoneAfter, n
      <4>3. longer[i].next_ref = ref + 1 /\ longer[i].priority = KMax - (ref + 1)
        BY <1>1, <1>2, <4>1, <4>2 DEF t
      <4> QED BY <1>5, <3>3, <4>3
    <3>4. CASE j \in i + 1 .. n
      <4>1. j \in 1 .. n /\ trace[j].tag = t
        BY <1>1, <1>3, <2>1, <2>3, <3>4 DEF FirstAfter
      <4>2. FirstAfter(trace, i, t, j)
        BY <3>2, <3>4, <4>1 DEF FirstAfter, n
      <4>3. ~NoneAfter(trace, i, t)
        BY <3>4, <4>1 DEF NoneAfter, n
      <4>4. longer[i] = trace[i]
        BY <1>1, <1>2, <4>3 DEF t
      <4>5. /\ trace[i].next_ref = RefAt(trace, ref, j)
            /\ trace[i].priority = KMax - RefAt(trace, ref, j)
        BY <1>1, <4>2 DEF Linked, t
      <4> QED BY <1>4, <3>1, <4>4, <4>5
    <3>5. j = n + 1 \/ j \in i + 1 .. n
      <4>1. n \in Int
        BY <1>1
      <4>2. j <= n + 1 /\ i + 1 <= j /\ i \in Int
        BY <2>1, <3>1, <4>1
      <4> QED BY <3>1, <4>1, <4>2
    <3> QED BY <3>3, <3>4, <3>5
  <2> QED BY <2>1, <2>2, <2>3
<1>7. ~(\E j : FirstAfter(longer, n + 1, tag, j))
  BY <1>1, <1>2 DEF FirstAfter
<1>8. longer[n + 1].next_ref = KMax /\ longer[n + 1].priority = -RefAt(longer, ref + 1, n + 1)
  BY <1>2, <1>5
<1>9. \A i \in DOMAIN longer : i \in 1 .. n \/ i = n + 1
  BY <1>1, <1>2
<1>10. Linked(longer, ref + 1)
  BY <1>2, <1>6, <1>7, <1>8, <1>9 DEF Linked
<1> QED BY <1>10 DEF longer

(* The stacks' knowledge of the trace when an entry is appended: of lines  *)
(* that are known already, of one that becomes known by it, and of those   *)
(* it does not name.                                                       *)
LEMMA AppendKnown ==
    ASSUME NEW trace, NEW ref, IsTrace(trace, ref),
           NEW told \in Seq(EntryType), Len(told) = Len(trace),
           \A i \in DOMAIN trace : told[i].tag = trace[i].tag,
           NEW entry \in EntryType, NEW t
    PROVE  LET longer == Append(told, entry)
           IN  /\ \A j : FirstAfter(trace, 0, t, j) =>
                    /\ FirstAfter(longer, 0, t, j)
                    /\ RefAt(longer, ref + 1, j) = RefAt(trace, ref, j)
               /\ NoneAfter(trace, 0, t) /\ entry.tag = t =>
                    \E j : FirstAfter(longer, 0, t, j) /\ RefAt(longer, ref + 1, j) = ref + 1
               /\ NoneAfter(trace, 0, t) /\ entry.tag # t => NoneAfter(longer, 0, t)
<1> DEFINE n == Len(trace)
           longer == Append(told, entry)
<1>1. n \in Nat /\ ref \in Nat /\ DOMAIN trace = 1 .. n
  BY DEF IsTrace
<1>2. /\ Len(longer) = n + 1
      /\ longer[n + 1] = entry
      /\ \A i \in 1 .. n : longer[i] = told[i]
  BY <1>1
<1>3. \A i \in 1 .. n : longer[i].tag = trace[i].tag
  BY <1>1, <1>2
<1> HIDE DEF longer, n
<1>4. \A j \in Int : RefAt(longer, ref + 1, j) = RefAt(trace, ref, j)
  BY <1>1, <1>2 DEF RefAt, n
<1>5. ASSUME NEW j, FirstAfter(trace, 0, t, j)
      PROVE  FirstAfter(longer, 0, t, j) /\ RefAt(longer, ref + 1, j) = RefAt(trace, ref, j)
  <2>1. j \in 0 + 1 .. n /\ trace[j].tag = t /\ \A k \in 0 + 1 .. j - 1 : trace[k].tag # t
    BY <1>5 DEF FirstAfter, n
  <2>2. j \in Int /\ j \in 0 + 1 .. n + 1 /\ j \in 1 .. n /\ \A k \in 0 + 1 .. j - 1 : k \in 1 .. n
    BY <1>1, <2>1
  <2> QED BY <1>2, <1>3, <1>4, <2>1, <2>2 DEF FirstAfter
<1>6. ASSUME NoneAfter(trace, 0, t), entry.tag = t
      PROVE  \E j : FirstAfter(longer, 0, t, j) /\ RefAt(longer, ref + 1, j) = ref + 1
  <2>1. RefAt(longer, ref + 1, n + 1) = ref + 1
    BY <1>1, <1>2 DEF RefAt
  <2>2. n + 1 \in 0 + 1 .. n + 1 /\ \A k \in 0 + 1 .. (n + 1) - 1 : k \in 1 .. n /\ k \in 0 + 1 .. n
    BY <1>1
  <2>3. FirstAfter(longer, 0, t, n + 1)
    BY <1>2, <1>3, <1>6, <2>2 DEF FirstAfter, NoneAfter, n
  <2> QED BY <2>1, <2>3
<1>7. ASSUME NoneAfter(trace, 0, t), entry.tag # t PROVE NoneAfter(longer, 0, t)
  <2>1. \A k \in 0 + 1 .. n + 1 : k = n + 1 \/ (k \in 1 .. n /\ k \in 0 + 1 .. n)
    BY <1>1
  <2> QED BY <1>2, <1>3, <1>7, <2>1 DEF NoneAfter, n
<1> QED BY <1>5, <1>6, <1>7 DEF longer

(* When the front entry leaves the trace, the others move up and stand for *)
(* the same references.                                                    *)
LEMMA TailShifts ==
    ASSUME NEW trace, NEW ref, IsTrace(trace, ref), trace # << >>,
           NEW i \in Nat, NEW t, NEW j
    PROVE  /\ NoneAfter(Tail(trace), i, t) <=> NoneAfter(trace, i + 1, t)
           /\ j \in Int => RefAt(Tail(trace), ref, j) = RefAt(trace, ref, j + 1)
           /\ j \in Int => (FirstAfter(Tail(trace), i, t, j) <=> FirstAfter(trace, i + 1, t, j + 1))
<1> DEFINE n == Len(trace)
           shorter == Tail(trace)
<1>1. n \in Nat /\ n > 0 /\ ref \in Nat
  BY DEF IsTrace
<1>2. /\ Len(shorter) = n - 1
      /\ \A k \in 1 .. n - 1 : shorter[k] = trace[k + 1]
  BY <1>1 DEF IsTrace
<1> HIDE DEF shorter, n
<1>3. \A k \in Int : RefAt(shorter, ref, k) = RefAt(trace, ref, k + 1)
  BY <1>1, <1>2 DEF RefAt, n
<1>4. ASSUME NoneAfter(shorter, i, t) PROVE NoneAfter(trace, i + 1, t)
  <2>1. SUFFICES ASSUME NEW k \in (i + 1) + 1 .. n PROVE trace[k].tag # t
    BY DEF NoneAfter, n
  <2>2. k - 1 \in i + 1 .. n - 1 /\ k - 1 \in 1 .. n - 1 /\ (k - 1) + 1 = k
    BY <1>1
  <2> QED BY <1>2, <1>4, <2>2 DEF NoneAfter
<1>5. ASSUME NoneAfter(trace, i + 1, t) PROVE NoneAfter(shorter, i, t)
  <2>1. SUFFICES ASSUME NEW k \in i + 1 .. n - 1 PROVE shorter[k].tag # t
    BY <1>2 DEF NoneAfter
  <2>2. k + 1 \in (i + 1) + 1 .. n /\ k \in 1 .. n - 1
    BY <1>1
  <2> QED BY <1>2, <1>5, <2>2 DEF NoneAfter, n
<1>6. ASSUME j \in Int, FirstAfter(shorter, i, t, j) PROVE FirstAfter(trace, i + 1, t, j + 1)
  <2>1. j \in i + 1 .. n - 1 /\ shorter[j].tag = t
    BY <1>2, <1>6 DEF FirstAfter
  <2>2. j + 1 \in (i + 1) + 1 .. n /\ j \in 1 .. n - 1
    BY <1>1, <2>1
  <2>3. ASSUME NEW k \in (i + 1) + 1 .. (j + 1) - 1 PROVE trace[k].tag # t
    <3>1. k - 1 \in i + 1 .. j - 1 /\ k - 1 \in 1 .. n - 1 /\ (k - 1) + 1 = k
      BY <1>1, <1>6, <2>1
    <3> QED BY <1>2, <1>6, <3>1 DEF FirstAfter
  <2> QED BY <1>2, <2>1, <2>2, <2>3 DEF FirstAfter, n
<1>7. ASSUME j \in Int, FirstAfter(trace, i + 1, t, j + 1) PROVE FirstAfter(shorter, i, t, j)
  <2>1. j + 1 \in (i + 1) + 1 .. n /\ trace[j + 1].tag = t
    BY <1>7 DEF FirstAfter, n
  <2>2. j \in i + 1 .. n - 1 /\ j \in 1 .. n - 1
    BY <1>1, <1>7, <2>1
  <2>3. ASSUME NEW k \in i + 1 .. j - 1 PROVE shorter[k].tag # t
    <3>1. k + 1 \in (i + 1) + 1 .. (j + 1) - 1 /\ k \in 1 .. n - 1
      BY <1>1, <1>7, <2>2
    <3> QED BY <1>2, <1>7, <3>1 DEF FirstAfter
  <2> QED BY <1>2, <2>1, <2>2, <2>3 DEF FirstAfter
<1> QED BY <1>3, <1>4, <1>5, <1>6, <1>7 DEF shorter

(* So what the entries behind it know stays true.                          *)
LEMMA TailLinked ==
    ASSUME NEW trace, NEW ref, IsTrace(trace, ref), trace # << >>, Linked(trace, ref)
    PROVE  Linked(Tail(trace), ref) /\ IsTrace(Tail(trace), ref)
<1> DEFINE shorter == Tail(trace)
<1>1. /\ shorter \in Seq(EntryType) /\ Len(trace) \in Nat /\ Len(trace) > 0
      /\ Len(shorter) = Len(trace) - 1 /\ DOMAIN shorter = 1 .. Len(trace) - 1
      /\ \A k \in 1 .. Len(trace) - 1 : shorter[k] = trace[k + 1]
  BY DEF IsTrace
<1>2. IsTrace(shorter, ref)
  BY <1>1 DEF IsTrace
<1>3. ASSUME NEW i \in DOMAIN shorter
      PROVE  /\ NoneAfter(shorter, i, shorter[i].tag) =>
                  shorter[i].next_ref = KMax /\ shorter[i].priority = -RefAt(shorter, ref, i)
             /\ \A j : FirstAfter(shorter, i, shorter[i].tag, j) =>
                  /\ shorter[i].next_ref = RefAt(shorter, ref, j)
                  /\ shorter[i].priority = KMax - RefAt(shorter, ref, j)
  <2>1. /\ i \in Nat /\ i \in Int /\ i + 1 \in DOMAIN trace /\ shorter[i] = trace[i + 1]
    BY <1>1 DEF IsTrace
  <2> DEFINE t == shorter[i].tag
  <2>2. ASSUME NoneAfter(shorter, i, t)
        PROVE  shorter[i].next_ref = KMax /\ shorter[i].priority = -RefAt(shorter, ref, i)
    <3>1. NoneAfter(trace, i + 1, t) /\ RefAt(shorter, ref, i) = RefAt(trace, ref, i + 1)
      BY <2>1, <2>2, TailShifts
    <3> QED BY <2>1, <3>1 DEF Linked
  <2>3. ASSUME NEW j, FirstAfter(shorter, i, t, j)
        PROVE  /\ shorter[i].next_ref = RefAt(shorter, ref, j)
               /\ shorter[i].priority = KMax - RefAt(shorter, ref, j)
    <3>1. j \in Int
      BY <1>1, <2>1, <2>3 DEF FirstAfter
    <3>2. FirstAfter(trace, i + 1, t, j + 1) /\ RefAt(shorter, ref, j) = RefAt(trace, ref, j + 1)
      BY <2>1, <2>3, <3>1, TailShifts
    <3> QED BY <2>1, <3>2 DEF Linked
  <2> QED BY <2>2, <2>3
<1> HIDE DEF shorter
<1>4. Linked(shorter, ref)
  BY <1>3 DEF Linked
<1> QED BY <1>2, <1>4 DEF shorter

(* What the stacks know of the trace when its front entry leaves: of other *)
(* lines the same, of its own line what the entry says.                    *)
LEMMA TailKnown ==
    ASSUME NEW trace, NEW ref, IsTrace(trace, ref), trace # << >>, Linked(trace, ref), NEW t
    PROVE  /\ t # trace[1].tag =>
                /\ \A j : FirstAfter(trace, 0, t, j) =>
                     /\ FirstAfter(Tail(trace), 0, t, j - 1)
                     /\ RefAt(Tail(trace), ref, j - 1) = RefAt(trace, ref, j)
           /\ NoneAfter(trace, 0, t) => NoneAfter(Tail(trace), 0, t)
           /\ t = trace[1].tag =>
                /\ IsKnown(trace[1]) =>
                     \E j : /\ FirstAfter(Tail(trace), 0, t, j)
                            /\ trace[1].priority = KMax - RefAt(Tail(trace), ref, j)
                /\ ~IsKnown(trace[1]) => NoneAfter(Tail(trace), 0, t)
<1>1. Len(trace) \in Nat /\ Len(trace) > 0 /\ 1 \in DOMAIN trace /\ 0 \in Nat /\ 1 \in Nat
  BY DEF IsTrace
<1>2. ASSUME t # trace[1].tag, NEW j, FirstAfter(trace, 0, t, j)
      PROVE  /\ FirstAfter(Tail(trace), 0, t, j - 1)
             /\ RefAt(Tail(trace), ref, j - 1) = RefAt(trace, ref, j)
  <2>1. j \in 0 + 1 .. Len(trace) /\ j # 1
    BY <1>2 DEF FirstAfter
  <2>2. j - 1 \in Int /\ (j - 1) + 1 = j /\ j \in (0 + 1) + 1 .. Len(trace)
    BY <1>1, <2>1
  <2>3. \A k \in (0 + 1) + 1 .. j - 1 : k \in 0 + 1 .. j - 1
    BY <2>1
  <2>4. FirstAfter(trace, 0 + 1, t, j)
    BY <1>2, <2>2, <2>3 DEF FirstAfter
  <2> QED BY <1>1, <2>2, <2>4, TailShifts
<1>3. ASSUME NoneAfter(trace, 0, t) PROVE NoneAfter(Tail(trace), 0, t)
  <2>1. NoneAfter(trace, 0 + 1, t)
    BY <1>1, <1>3 DEF NoneAfter
  <2> QED BY <1>1, <2>1, TailShifts
<1>4. ASSUME t = trace[1].tag, IsKnown(trace[1])
      PROVE  \E j : /\ FirstAfter(Tail(trace), 0, t, j)
                    /\ trace[1].priority = KMax - RefAt(Tail(trace), ref, j)
  <2>1. ~NoneAfter(trace, 1, t)
    BY <1>1, <1>4, WaitingIsLast
  <2>2. PICK j : FirstAfter(trace, 1, t, j)
    BY <1>1, <2>1, FirstExists DEF IsTrace
  <2>3. trace[1].priority = KMax - RefAt(trace, ref, j)
    BY <1>1, <1>4, <2>2 DEF Linked
  <2>4. j - 1 \in Int /\ (j - 1) + 1 = j /\ 0 + 1 = 1
    BY <1>1, <2>2 DEF FirstAfter
  <2>5. /\ FirstAfter(Tail(trace), 0, t, j - 1)
        /\ RefAt(Tail(trace), ref, j - 1) = RefAt(trace, ref, j)
    BY <1>1, <2>2, <2>4, TailShifts
  <2> QED BY <2>3, <2>5
<1>5. ASSUME t = trace[1].tag, ~IsKnown(trace[1]) PROVE NoneAfter(Tail(trace), 0, t)
  <2>1. NoneAfter(trace, 0 + 1, t)
    BY <1>1, <1>5, WaitingIsLast
  <2> QED BY <1>1, <2>1, TailShifts
<1> QED BY <1>2, <1>3, <1>4, <1>5

-----------------------------------------------------------------------------
(* Stacks.                                                                 *)

(* Changing a stack.                                                       *)
LEMMA PutDrop ==
    ASSUME NEW stack, NEW tag, NEW priority
    PROVE  /\ DOMAIN Put(stack, tag, priority) = DOMAIN stack \cup {tag}
           /\ Put(stack, tag, priority)[tag] = priority
           /\ \A t \in DOMAIN stack : t # tag => Put(stack, tag, priority)[t] = stack[t]
           /\ DOMAIN Drop(stack, tag) = DOMAIN stack \ {tag}
           /\ \A t \in DOMAIN stack : t # tag => Drop(stack, tag)[t] = stack[t]
BY DEF Put, Drop

(* The stacks of an invariant set remain stacks.                           *)
LEMMA StacksStay ==
    ASSUME NEW stack, IsStack(stack), NEW tag \in Tags, NEW priority \in Int, NEW out
    PROVE  IsStack(Put(stack, tag, priority)) /\ IsStack(Drop(stack, out))
<1>1. IsStack(Put(stack, tag, priority))
  <2> DEFINE put == Put(stack, tag, priority)
  <2>1. /\ DOMAIN put = DOMAIN stack \cup {tag} /\ put[tag] = priority
        /\ \A t \in DOMAIN stack : t # tag => put[t] = stack[t]
    BY DEF Put
  <2> HIDE DEF put
  <2>2. \A t \in DOMAIN put : put[t] \in Int
    BY <2>1 DEF IsStack
  <2>3. IsStack(put)
    BY <2>1, <2>2 DEF IsStack
  <2> QED BY <2>3 DEF put
<1>2. IsStack(Drop(stack, out))
  <2>1. DOMAIN Drop(stack, out) = DOMAIN stack \ {out}
    BY DEF Drop
  <2>2. \A t \in DOMAIN stack \ {out} : Drop(stack, out)[t] = stack[t]
    BY DEF Drop
  <2> QED BY <2>1, <2>2 DEF IsStack
<1> QED BY <1>1, <1>2

(* A stack whose priorities are bounded has a lowest tag.                  *)
LEMMA LowestExists ==
    ASSUME NEW stack, IsStack(stack), DOMAIN stack # {},
           NEW lo \in Int, \A t \in DOMAIN stack : lo <= stack[t]
    PROVE  /\ Lowest(stack) \in DOMAIN stack
           /\ \A t \in DOMAIN stack : stack[Lowest(stack)] <= stack[t]
<1> DEFINE S == {stack[t] : t \in DOMAIN stack}
<1>1. S \in SUBSET Int /\ S # {} /\ \A x \in S : lo <= x
  BY DEF IsStack
<1> HIDE DEF S
<1>2. PICK x \in S : \A y \in S : x <= y
  BY <1>1, LeastInteger
<1>3. \E t \in DOMAIN stack : \A u \in DOMAIN stack : stack[t] <= stack[u]
  BY <1>2 DEF S
<1> QED BY <1>3 DEF Lowest

-----------------------------------------------------------------------------
(* The invariant of a set.                                                 *)

Fits(set) ==
    /\ IsFiniteSet(DOMAIN set.known_tags_) /\ IsFiniteSet(DOMAIN set.unknown_tags_)
    /\ Size(set) <= NumWays
    /\ DOMAIN set.known_tags_ \cap DOMAIN set.unknown_tags_ = {}

SetInv(set) ==
    /\ IsSet(set)
    /\ IsTrace(set.lookahead_trace_, set.ref_id_)
    /\ Linked(set.lookahead_trace_, set.ref_id_)
    /\ KnownOK(set.known_tags_, set.lookahead_trace_, set.ref_id_)
    /\ UnknownOK(set.unknown_tags_, set.lookahead_trace_)
    /\ Fits(set)
    /\ \A t \in DOMAIN set.unknown_tags_ : -MaxRefs <= set.unknown_tags_[t]
    /\ \A t \in DOMAIN set.known_tags_ : KMax - MaxRefs <= set.known_tags_[t]

(* The record of a set.                                                    *)
SetOf(known, unknown, pool, trace, count, ref) ==
    [known_tags_ |-> known, unknown_tags_ |-> unknown, unknown_tags_pool_ |-> pool,
     lookahead_trace_ |-> trace, lookahead_ref_count_ |-> count, ref_id_ |-> ref]

(* A set is the record of its members.                                     *)
LEMMA SetRecord ==
    ASSUME NEW set, IsSet(set)
    PROVE  set = SetOf(set.known_tags_, set.unknown_tags_, set.unknown_tags_pool_,
                       set.lookahead_trace_, set.lookahead_ref_count_, set.ref_id_)
<1> DEFINE Shape == [known_tags_ : {set.known_tags_}, unknown_tags_ : {set.unknown_tags_},
                unknown_tags_pool_ : {set.unknown_tags_pool_}, lookahead_trace_ : Seq(EntryType),
                lookahead_ref_count_ : Nat, ref_id_ : Nat]
<1>1. set \in Shape
  BY DEF IsSet
<1> QED BY <1>1 DEF SetOf

(* Assigning to members of a set.                                          *)
WithStacks(set, x, y, z) ==
    [set EXCEPT !.known_tags_ = x, !.unknown_tags_ = y, !.unknown_tags_pool_ = z]
WithLines(set, x, y) == [set EXCEPT !.known_tags_ = x, !.unknown_tags_ = y]
WithKnown(set, x) == [set EXCEPT !.known_tags_ = x]
WithUnknown(set, y) == [set EXCEPT !.unknown_tags_ = y]
WithPool(set, z) == [set EXCEPT !.unknown_tags_pool_ = z]
WithTrace(set, x) == [set EXCEPT !.lookahead_trace_ = x]
WithEntry(set, x, y) == [set EXCEPT !.lookahead_trace_ = x, !.lookahead_ref_count_ = y]

(* Assigning to the known lines keeps the other members.                   *)
LEMMA AssignKnown ==
    ASSUME NEW k, NEW u, NEW p, NEW trace, NEW c, NEW r, NEW x
    PROVE  WithKnown(SetOf(k, u, p, trace, c, r), x) = SetOf(x, u, p, trace, c, r)
BY DEF SetOf, WithKnown

(* Assigning to the unknown lines keeps the other members.                 *)
LEMMA AssignUnknown ==
    ASSUME NEW k, NEW u, NEW p, NEW trace, NEW c, NEW r, NEW y
    PROVE  WithUnknown(SetOf(k, u, p, trace, c, r), y) = SetOf(k, y, p, trace, c, r)
BY DEF SetOf, WithUnknown

(* Assigning to the pool keeps the other members.                          *)
LEMMA AssignPool ==
    ASSUME NEW k, NEW u, NEW p, NEW trace, NEW c, NEW r, NEW z
    PROVE  WithPool(SetOf(k, u, p, trace, c, r), z) = SetOf(k, u, z, trace, c, r)
BY DEF SetOf, WithPool

(* Assigning to the trace keeps the other members.                         *)
LEMMA AssignTrace ==
    ASSUME NEW k, NEW u, NEW p, NEW trace, NEW c, NEW r, NEW x
    PROVE  WithTrace(SetOf(k, u, p, trace, c, r), x) = SetOf(k, u, p, x, c, r)
BY DEF SetOf, WithTrace

(* So does assigning to both kinds of lines,                               *)
LEMMA AssignLines ==
    ASSUME NEW k, NEW u, NEW p, NEW trace, NEW c, NEW r, NEW x, NEW y
    PROVE  WithLines(SetOf(k, u, p, trace, c, r), x, y) = SetOf(x, y, p, trace, c, r)
<1>1. WithLines(SetOf(k, u, p, trace, c, r), x, y)
        = WithUnknown(WithKnown(SetOf(k, u, p, trace, c, r), x), y)
  BY DEF WithLines, WithUnknown, WithKnown
<1> QED BY <1>1, AssignKnown, AssignUnknown

(* to all three stacks,                                                    *)
LEMMA AssignStacks ==
    ASSUME NEW k, NEW u, NEW p, NEW trace, NEW c, NEW r, NEW x, NEW y, NEW z
    PROVE  WithStacks(SetOf(k, u, p, trace, c, r), x, y, z) = SetOf(x, y, z, trace, c, r)
<1>1. WithStacks(SetOf(k, u, p, trace, c, r), x, y, z)
        = WithPool(WithLines(SetOf(k, u, p, trace, c, r), x, y), z)
  BY DEF WithStacks, WithLines, WithPool
<1> QED BY <1>1, AssignLines, AssignPool

(* and to the trace and its length.                                        *)
LEMMA AssignEntry ==
    ASSUME NEW k, NEW u, NEW p, NEW trace, NEW c, NEW r, NEW x, NEW y
    PROVE  WithEntry(SetOf(k, u, p, trace, c, r), x, y) = SetOf(k, u, p, x, y, r)
<1>1. WithEntry(SetOf(k, u, p, trace, c, r), x, y)
        = [WithTrace(SetOf(k, u, p, trace, c, r), x) EXCEPT !.lookahead_ref_count_ = y]
  BY DEF WithEntry, WithTrace
<1>2. [SetOf(k, u, p, x, c, r) EXCEPT !.lookahead_ref_count_ = y] = SetOf(k, u, p, x, y, r)
  BY DEF SetOf
<1> QED BY <1>1, <1>2, AssignTrace

(* What Learn makes of a trace when the references of the set become ref.  *)
Told(trace, ref, tag) ==
    [i \in DOMAIN trace |->
        IF trace[i].tag = tag /\ NoneAfter(trace, i, tag)
        THEN [trace[i] EXCEPT !.next_ref = ref, !.priority = KMax - ref]
        ELSE trace[i]]

(* Telling changes no entry but the last one of the line.                  *)
LEMMA ToldProperties ==
    ASSUME NEW trace, NEW ref, IsTrace(trace, ref), NEW tag
    PROVE  LET told == Told(trace, ref + 1, tag)
           IN  /\ told \in Seq(EntryType) /\ Len(told) = Len(trace)
               /\ \A i \in DOMAIN trace : told[i].tag = trace[i].tag
               /\ \A i \in DOMAIN trace :
                     IF trace[i].tag = tag /\ NoneAfter(trace, i, tag)
                     THEN told[i].next_ref = ref + 1 /\ told[i].priority = KMax - (ref + 1)
                     ELSE told[i] = trace[i]
<1> DEFINE told == Told(trace, ref + 1, tag)
<1>1. Len(trace) \in Nat /\ DOMAIN trace = 1 .. Len(trace) /\ ref \in Nat
      /\ \A i \in DOMAIN trace : trace[i] \in EntryType
  BY DEF IsTrace
<1>2. ASSUME NEW i \in DOMAIN trace
      PROVE  /\ told[i] \in EntryType
             /\ told[i].tag = trace[i].tag
             /\ IF trace[i].tag = tag /\ NoneAfter(trace, i, tag)
                THEN told[i].next_ref = ref + 1 /\ told[i].priority = KMax - (ref + 1)
                ELSE told[i] = trace[i]
  <2> DEFINE e == trace[i]
             f == [e EXCEPT !.next_ref = ref + 1, !.priority = KMax - (ref + 1)]
  <2>1. e \in EntryType
    BY <1>1
  <2> HIDE DEF e
  <2>2. ref + 1 \in Nat /\ KMax - (ref + 1) \in Int
    BY <1>1, OptAssumption
  <2>3. f \in EntryType /\ f.tag = e.tag /\ f.next_ref = ref + 1
        /\ f.priority = KMax - (ref + 1)
    BY <2>1, <2>2 DEF EntryType
  <2>4. told[i] = IF trace[i].tag = tag /\ NoneAfter(trace, i, tag) THEN f ELSE e
    BY DEF Told, e
  <2> HIDE DEF f, told
  <2> QED BY <2>1, <2>3, <2>4 DEF e
<1>3. told = [i \in 1 .. Len(trace) |-> told[i]]
  BY <1>1 DEF Told
<1> HIDE DEF told
<1>4. \A i \in 1 .. Len(trace) : told[i] \in EntryType
  BY <1>1, <1>2
<1>5. [i \in 1 .. Len(trace) |-> told[i]] \in Seq(EntryType)
  BY <1>1, <1>4
<1>6. Len([i \in 1 .. Len(trace) |-> told[i]]) = Len(trace)
  BY <1>1
<1>7. told \in Seq(EntryType) /\ Len(told) = Len(trace)
  BY <1>3, <1>5, <1>6
<1> QED BY <1>2, <1>7 DEF told

-----------------------------------------------------------------------------
(* Lookahead.                                                              *)

(* What a set may learn from one more reference to a line: nothing about   *)
(* its stacks, that an unknown line is used next, or that a pooled one is, *)
(* which is given the place of the unknown one used before all those used  *)
(* before it, if there are any.                                            *)
Learned(set, tag, known, unknown, pool) ==
    \/ /\ tag \notin DOMAIN set.unknown_tags_
       /\ NoneAfter(set.lookahead_trace_, 0, tag) /\ tag \in DOMAIN set.unknown_tags_pool_ =>
            \A t \in DOMAIN set.unknown_tags_ :
               ~(set.unknown_tags_[t] > set.unknown_tags_pool_[tag])
       /\ known = set.known_tags_ /\ unknown = set.unknown_tags_
       /\ pool = set.unknown_tags_pool_
    \/ /\ NoneAfter(set.lookahead_trace_, 0, tag)
       /\ tag \in DOMAIN set.unknown_tags_
       /\ known = Put(set.known_tags_, tag, KMax - (set.ref_id_ + 1))
       /\ unknown = Drop(set.unknown_tags_, tag)
       /\ pool = set.unknown_tags_pool_
    \/ /\ NoneAfter(set.lookahead_trace_, 0, tag)
       /\ tag \notin DOMAIN set.unknown_tags_
       /\ tag \in DOMAIN set.unknown_tags_pool_
       /\ \E out \in DOMAIN set.unknown_tags_ :
            /\ set.unknown_tags_[out] > set.unknown_tags_pool_[tag]
            /\ \A t \in DOMAIN set.unknown_tags_ :
                  set.unknown_tags_[t] > set.unknown_tags_pool_[tag] =>
                     set.unknown_tags_[out] <= set.unknown_tags_[t]
            /\ known = Put(set.known_tags_, tag, KMax - (set.ref_id_ + 1))
            /\ unknown = Drop(set.unknown_tags_, out)
            /\ pool = Put(Drop(set.unknown_tags_pool_, tag), out, set.unknown_tags_[out])

(* When an entry waits for the line, Learn tells it.                       *)
LEMMA LearnTells ==
    ASSUME NEW set, SetInv(set), NEW tag,
           Waiting([set EXCEPT !.ref_id_ = @ + 1], tag) # {}
    PROVE  /\ Learn([set EXCEPT !.ref_id_ = @ + 1], tag)
                = SetOf(set.known_tags_, set.unknown_tags_, set.unknown_tags_pool_,
                        Told(set.lookahead_trace_, set.ref_id_ + 1, tag),
                        set.lookahead_ref_count_, set.ref_id_ + 1)
           /\ tag \notin DOMAIN set.unknown_tags_
           /\ ~NoneAfter(set.lookahead_trace_, 0, tag)
<1> DEFINE trace == set.lookahead_trace_
           ref == set.ref_id_
           k == set.known_tags_
           u == set.unknown_tags_
           p == set.unknown_tags_pool_
           c == set.lookahead_ref_count_
           next == [set EXCEPT !.ref_id_ = @ + 1]
           W == Waiting(next, tag)
           told == Told(trace, ref + 1, tag)
<1>1. next = SetOf(k, u, p, trace, c, ref + 1)
  <2>1. set = SetOf(k, u, p, trace, c, ref)
    BY SetRecord DEF SetInv
  <2> HIDE DEF k, u, p, trace, c, ref
  <2> QED BY <2>1 DEF SetOf
<1>2. /\ IsTrace(trace, ref) /\ Linked(trace, ref) /\ UnknownOK(u, trace)
      /\ Len(trace) \in Nat /\ DOMAIN trace = 1 .. Len(trace)
  BY DEF SetInv, IsTrace
<1> HIDE DEF next, k, u, p, c, trace, ref
<1>3. \A i : i \in W <=> i \in DOMAIN trace /\ trace[i].tag = tag /\ NoneAfter(trace, i, tag)
  <2>1. W = {i \in DOMAIN trace : trace[i].tag = tag /\ ~IsKnown(trace[i])}
    BY <1>1 DEF Waiting, SetOf
  <2> QED BY <1>2, <2>1, WaitingIsLast
<1>4. PICK i \in W : TRUE
  BY DEF next
<1>5. i \in DOMAIN trace /\ trace[i].tag = tag /\ NoneAfter(trace, i, tag) /\ i \in Int
  BY <1>2, <1>3, <1>4
<1>6. ASSUME NEW l \in W PROVE l = i
  <2>1. l \in 1 .. Len(trace) /\ i \in 1 .. Len(trace)
    BY <1>2, <1>3, <1>5, <1>6
  <2>2. trace[l].tag = tag /\ NoneAfter(trace, l, tag)
    BY <1>3, <1>6
  <2>3. ~(l < i)
    <3>1. l < i => i \in l + 1 .. Len(trace)
      BY <1>2, <2>1
    <3> QED BY <1>5, <2>2, <3>1 DEF NoneAfter
  <2>4. ~(i < l)
    <3>1. i < l => l \in i + 1 .. Len(trace)
      BY <1>2, <2>1
    <3> QED BY <1>5, <2>2, <3>1 DEF NoneAfter
  <2> QED BY <1>2, <2>1, <2>3, <2>4
<1>7. W = {i}
  BY <1>4, <1>6
<1>8. Min(W) = i
  <2>1. {i} \in SUBSET Int /\ i \in {i} /\ \A l \in {i} : i <= l
    BY <1>5
  <2> HIDE DEF W
  <2> QED BY <1>7, <2>1, MinIs
<1>9. [trace EXCEPT ![i] = [@ EXCEPT !.next_ref = ref + 1, !.priority = KMax - (ref + 1)]] = told
  <2>1. \A l \in DOMAIN trace : (trace[l].tag = tag /\ NoneAfter(trace, l, tag)) <=> l = i
    BY <1>3, <1>5, <1>6
  <2> HIDE DEF W
  <2> QED BY <2>1 DEF Told
<1>10. Learn(next, tag) = ResolveNextUse(next, tag)
  BY DEF Learn
<1>11. ResolveNextUse(next, tag) = SetOf(k, u, p, told, c, ref + 1)
  <2>1. ResolveNextUse(next, tag) = [next EXCEPT !.lookahead_trace_[i] =
           [@ EXCEPT !.next_ref = ref + 1, !.priority = KMax - (ref + 1)]]
    BY <1>1, <1>8 DEF ResolveNextUse, SetOf
  <2>2. [next EXCEPT !.lookahead_trace_[i] =
           [@ EXCEPT !.next_ref = ref + 1, !.priority = KMax - (ref + 1)]]
        = SetOf(k, u, p, [trace EXCEPT ![i] =
             [@ EXCEPT !.next_ref = ref + 1, !.priority = KMax - (ref + 1)]], c, ref + 1)
    BY <1>1 DEF SetOf
  <2> QED BY <1>9, <2>1, <2>2
<1>12. ~NoneAfter(trace, 0, tag) /\ tag \notin DOMAIN u
  <2>1. i \in 0 + 1 .. Len(trace)
    BY <1>2, <1>5
  <2> QED BY <1>2, <1>5, <2>1 DEF UnknownOK, NoneAfter
<1> HIDE DEF told, W
<1> QED BY <1>10, <1>11, <1>12 DEF next, k, u, p, c, trace, ref, told

(* When none waits, the line is not in the trace, and the stacks may learn *)
(* of it.                                                                  *)
LEMMA LearnMoves ==
    ASSUME NEW set, SetInv(set), NEW tag,
           Waiting([set EXCEPT !.ref_id_ = @ + 1], tag) = {}
    PROVE  /\ NoneAfter(set.lookahead_trace_, 0, tag)
           /\ \E known, unknown, pool :
                /\ Learn([set EXCEPT !.ref_id_ = @ + 1], tag)
                     = SetOf(known, unknown, pool, set.lookahead_trace_,
                             set.lookahead_ref_count_, set.ref_id_ + 1)
                /\ Learned(set, tag, known, unknown, pool)
<1> DEFINE trace == set.lookahead_trace_
           ref == set.ref_id_
           k == set.known_tags_
           u == set.unknown_tags_
           p == set.unknown_tags_pool_
           c == set.lookahead_ref_count_
           next == [set EXCEPT !.ref_id_ = @ + 1]
           W == Waiting(next, tag)
<1>1. next = SetOf(k, u, p, trace, c, ref + 1)
  <2>1. set = SetOf(k, u, p, trace, c, ref)
    BY SetRecord DEF SetInv
  <2> HIDE DEF k, u, p, trace, c, ref
  <2> QED BY <2>1 DEF SetOf
<1>2. /\ IsTrace(trace, ref) /\ Linked(trace, ref)
      /\ IsStack(u) /\ \A t \in DOMAIN u : -MaxRefs <= u[t]
  BY DEF SetInv, IsSet
<1>3. W = {}
  OBVIOUS
<1> HIDE DEF next, k, u, p, c, trace, ref
<1>4. NoneAfter(trace, 0, tag)
  <2>1. W = {i \in DOMAIN trace : trace[i].tag = tag /\ ~IsKnown(trace[i])}
    BY <1>1 DEF Waiting, SetOf
  <2>2. ~(\E i \in DOMAIN trace : trace[i].tag = tag /\ NoneAfter(trace, i, tag))
    BY <1>2, <1>3, <2>1, WaitingIsLast
  <2> QED BY <1>2, <2>2, LastExists DEF IsTrace
<1>8. /\ next.known_tags_ = k /\ next.unknown_tags_ = u /\ next.unknown_tags_pool_ = p
      /\ next.ref_id_ = ref + 1
  BY <1>1 DEF SetOf
<1> DEFINE Result(known, unknown, pool) ==
             /\ Learn(next, tag) = SetOf(known, unknown, pool, trace, c, ref + 1)
             /\ Learned(set, tag, known, unknown, pool)
<1>5. CASE tag \in DOMAIN u
  <2>1. Learn(next, tag) = BecomeKnown(next, tag)
    BY <1>1, <1>3, <1>5 DEF Learn, SetOf
  <2>2. BecomeKnown(next, tag)
          = SetOf(Put(k, tag, KMax - (ref + 1)), Drop(u, tag), p, trace, c, ref + 1)
    <3> DEFINE x == Put(k, tag, KMax - (ref + 1))
               y == Drop(u, tag)
    <3>1. BecomeKnown(next, tag) = WithLines(next, x, y)
      BY <1>8 DEF BecomeKnown, WithLines
    <3> HIDE DEF x, y
    <3>2. WithLines(next, x, y) = SetOf(x, y, p, trace, c, ref + 1)
      BY <1>1, AssignLines
    <3> QED BY <3>1, <3>2 DEF x, y
  <2>3. Learned(set, tag, Put(k, tag, KMax - (ref + 1)), Drop(u, tag), p)
    BY <1>4, <1>5 DEF Learned, k, u, p, trace, ref
  <2>4. Result(Put(k, tag, KMax - (ref + 1)), Drop(u, tag), p)
    BY <2>1, <2>2, <2>3
  <2> HIDE DEF Result
  <2>5. \E known, unknown, pool : Result(known, unknown, pool)
    BY <2>4
  <2> QED BY <1>4, <2>5 DEF Result, next, trace, c, ref
<1>6. CASE tag \in DOMAIN p \ DOMAIN u /\ DOMAIN Repairable(next, tag) # {}
  <2> DEFINE r == Repairable(next, tag)
             out == Lowest(r)
  <2>1. Learn(next, tag) = Repair(next, tag)
    <3>1. /\ tag \in DOMAIN next.unknown_tags_pool_ \ DOMAIN next.unknown_tags_
          /\ tag \notin DOMAIN next.unknown_tags_
      BY <1>1, <1>6 DEF SetOf
    <3> QED BY <1>3, <1>6, <3>1 DEF Learn
  <2>2. r = [t \in {v \in DOMAIN u : u[v] > p[tag]} |-> u[t]]
    BY <1>1 DEF Repairable, SetOf
  <2>3. DOMAIN r # {}
    BY <1>6
  <2> HIDE DEF r
  <2>4. IsStack(r) /\ (\A t \in DOMAIN r : -MaxRefs <= r[t]) /\ DOMAIN r \subseteq DOMAIN u
    <3>1. DOMAIN r \subseteq DOMAIN u /\ \A t \in DOMAIN r : r[t] = u[t]
      BY <2>2
    <3> QED BY <1>2, <3>1 DEF IsStack
  <2>5. /\ out \in DOMAIN u /\ u[out] > p[tag]
        /\ \A t \in DOMAIN u : u[t] > p[tag] => u[out] <= u[t]
    <3>1. -MaxRefs \in Int
      BY OptAssumption
    <3>2. out \in DOMAIN r /\ \A t \in DOMAIN r : r[out] <= r[t]
      BY <2>3, <2>4, <3>1, LowestExists
    <3> HIDE DEF out
    <3>3. \A t : t \in DOMAIN r <=> t \in DOMAIN u /\ u[t] > p[tag]
      BY <2>2
    <3>4. \A t \in DOMAIN r : r[t] = u[t]
      BY <2>2
    <3> QED BY <3>2, <3>3, <3>4
  <2> HIDE DEF out
  <2>6. Repair(next, tag)
          = SetOf(Put(k, tag, KMax - (ref + 1)), Drop(u, out),
                  Put(Drop(p, tag), out, u[out]), trace, c, ref + 1)
    <3> DEFINE x == Put(k, tag, KMax - (ref + 1))
               y == Drop(u, out)
               z == Put(Drop(p, tag), out, u[out])
    <3>1. Repair(next, tag) = WithStacks(next, x, y, z)
      BY <1>8 DEF Repair, WithStacks, out, r
    <3> HIDE DEF x, y, z
    <3>2. WithStacks(next, x, y, z) = SetOf(x, y, z, trace, c, ref + 1)
      BY <1>1, AssignStacks
    <3> QED BY <3>1, <3>2 DEF x, y, z
  <2>7. Learned(set, tag, Put(k, tag, KMax - (ref + 1)), Drop(u, out),
                Put(Drop(p, tag), out, u[out]))
    BY <1>4, <1>6, <2>5 DEF Learned, k, u, p, trace, ref
  <2>8. Result(Put(k, tag, KMax - (ref + 1)), Drop(u, out), Put(Drop(p, tag), out, u[out]))
    BY <2>1, <2>6, <2>7
  <2> HIDE DEF Result
  <2>9. \E known, unknown, pool : Result(known, unknown, pool)
    BY <2>8
  <2> QED BY <1>4, <2>9 DEF Result, next, trace, c, ref
<1>7. CASE /\ tag \notin DOMAIN u
           /\ ~(tag \in DOMAIN p \ DOMAIN u /\ DOMAIN Repairable(next, tag) # {})
  <2>1. Learn(next, tag) = next
    <3>1. /\ tag \notin DOMAIN next.unknown_tags_
          /\ ~(/\ tag \in DOMAIN next.unknown_tags_pool_ \ DOMAIN next.unknown_tags_
               /\ DOMAIN Repairable(next, tag) # {})
      BY <1>1, <1>7 DEF SetOf
    <3> QED BY <1>3, <3>1 DEF Learn
  <2>2. Learned(set, tag, k, u, p)
    <3>1. ASSUME tag \in DOMAIN p, NEW t \in DOMAIN u PROVE ~(u[t] > p[tag])
      <4>1. DOMAIN Repairable(next, tag) = {v \in DOMAIN u : u[v] > p[tag]}
        BY <1>1 DEF Repairable, SetOf
      <4> QED BY <1>7, <3>1, <4>1
    <3> QED BY <1>7, <3>1 DEF Learned, k, u, p
  <2>3. Result(k, u, p)
    BY <1>1, <2>1, <2>2
  <2> HIDE DEF Result
  <2>4. \E known, unknown, pool : Result(known, unknown, pool)
    BY <2>3
  <2> QED BY <1>4, <2>4 DEF Result, next, trace, c, ref
<1> QED BY <1>5, <1>6, <1>7

(* The entry of a reference, the ref-th of its set.                        *)
EntryOf(tag, inst_id, addr_id, access_type, epoch, ref) ==
    [tag |-> tag, inst_id |-> inst_id, addr_id |-> addr_id, access_type |-> access_type,
     next_ref |-> KMax, priority |-> -ref, epoch |-> epoch]

(* What a reference does to its set: the last entry of its line is told, a *)
(* new entry is appended, the stacks learn.                                *)
LEMMA LookaheadDoes ==
    ASSUME NEW set, SetInv(set), NEW tag, NEW inst_id, NEW addr_id, NEW access_type, NEW epoch
    PROVE  \E known, unknown, pool :
             /\ Lookahead(set, tag, inst_id, addr_id, access_type, epoch)
                  = SetOf(known, unknown, pool,
                          Append(Told(set.lookahead_trace_, set.ref_id_ + 1, tag),
                                 EntryOf(tag, inst_id, addr_id, access_type, epoch,
                                         set.ref_id_ + 1)),
                          set.lookahead_ref_count_ + 1, set.ref_id_ + 1)
             /\ Learned(set, tag, known, unknown, pool)
<1> DEFINE trace == set.lookahead_trace_
           ref == set.ref_id_
           c == set.lookahead_ref_count_
           next == [set EXCEPT !.ref_id_ = @ + 1]
           told == Told(trace, ref + 1, tag)
           entry == EntryOf(tag, inst_id, addr_id, access_type, epoch, ref + 1)
           learned == Learn(next, tag)
           Result(known, unknown, pool) ==
             /\ learned = SetOf(known, unknown, pool, told, c, ref + 1)
             /\ Learned(set, tag, known, unknown, pool)
<1>1. \E known, unknown, pool : Result(known, unknown, pool)
  <2>1. CASE Waiting(next, tag) # {}
    <3>1. /\ learned = SetOf(set.known_tags_, set.unknown_tags_, set.unknown_tags_pool_,
                             told, c, ref + 1)
          /\ tag \notin DOMAIN set.unknown_tags_
          /\ ~NoneAfter(trace, 0, tag)
      BY <2>1, LearnTells
    <3>2. Result(set.known_tags_, set.unknown_tags_, set.unknown_tags_pool_)
      BY <3>1 DEF Learned
    <3> QED BY <3>2
  <2>2. CASE Waiting(next, tag) = {}
    <3>1. NoneAfter(trace, 0, tag)
      BY <2>2, LearnMoves
    <3>2. told = trace
      <4>1. Len(trace) \in Nat /\ DOMAIN trace = 1 .. Len(trace) /\ trace \in Seq(EntryType)
        BY DEF SetInv, IsTrace
      <4>2. \A i \in DOMAIN trace : trace[i].tag # tag
        BY <3>1, <4>1 DEF NoneAfter
      <4>3. told = [i \in DOMAIN trace |-> trace[i]]
        BY <4>2 DEF Told
      <4> QED BY <4>1, <4>3
    <3>3. PICK known, unknown, pool :
              /\ learned = SetOf(known, unknown, pool, trace, c, ref + 1)
              /\ Learned(set, tag, known, unknown, pool)
      BY <2>2, LearnMoves
    <3>4. Result(known, unknown, pool)
      BY <3>2, <3>3
    <3> QED BY <3>4
  <2> QED BY <2>1, <2>2
<1>2. PICK known, unknown, pool : Result(known, unknown, pool)
  BY <1>1
<1> HIDE DEF learned, told
<1>3. learned.ref_id_ = ref + 1 /\ learned.lookahead_trace_ = told
      /\ learned.lookahead_ref_count_ = c
  BY <1>2 DEF SetOf
<1>4. Lookahead(set, tag, inst_id, addr_id, access_type, epoch)
        = WithEntry(learned, Append(told, entry), c + 1)
  BY <1>3 DEF Lookahead, WithEntry, EntryOf, learned
<1> HIDE DEF entry
<1>5. WithEntry(learned, Append(told, entry), c + 1)
        = SetOf(known, unknown, pool, Append(told, entry), c + 1, ref + 1)
  BY <1>2, AssignEntry
<1>6. /\ Lookahead(set, tag, inst_id, addr_id, access_type, epoch)
           = SetOf(known, unknown, pool, Append(told, entry), c + 1, ref + 1)
      /\ Learned(set, tag, known, unknown, pool)
  BY <1>2, <1>4, <1>5
<1> QED BY <1>6 DEF entry, told

(* The stacks still fit after learning: a line only changes stacks, and    *)
(* the one that leaves makes room for the one that comes.                  *)
LEMMA LearnedFits ==
    ASSUME NEW set, SetInv(set), NEW tag \in Tags, set.ref_id_ < MaxRefs,
           NEW known, NEW unknown, NEW pool, Learned(set, tag, known, unknown, pool)
    PROVE  /\ IsStack(known) /\ IsStack(unknown) /\ IsStack(pool)
           /\ IsFiniteSet(DOMAIN known) /\ IsFiniteSet(DOMAIN unknown)
           /\ Cardinality(DOMAIN known) + Cardinality(DOMAIN unknown) <= NumWays
           /\ DOMAIN known \cap DOMAIN unknown = {}
           /\ \A t \in DOMAIN unknown : -MaxRefs <= unknown[t]
           /\ \A t \in DOMAIN known : KMax - MaxRefs <= known[t]
<1> DEFINE k == set.known_tags_
           u == set.unknown_tags_
           p == set.unknown_tags_pool_
           ref == set.ref_id_
<1>1. /\ IsStack(k) /\ IsStack(u) /\ IsStack(p)
      /\ IsFiniteSet(DOMAIN k) /\ IsFiniteSet(DOMAIN u)
      /\ Cardinality(DOMAIN k) + Cardinality(DOMAIN u) <= NumWays
      /\ DOMAIN k \cap DOMAIN u = {}
      /\ \A t \in DOMAIN u : -MaxRefs <= u[t]
      /\ \A t \in DOMAIN k : KMax - MaxRefs <= k[t]
      /\ ref \in Nat
  BY DEF SetInv, IsSet, Fits, Size, IsTrace
<1>2. ASSUME NoneAfter(set.lookahead_trace_, 0, tag) PROVE tag \notin DOMAIN k
  <2>1. SUFFICES ASSUME tag \in DOMAIN k PROVE FALSE
    OBVIOUS
  <2>2. PICK j : FirstAfter(set.lookahead_trace_, 0, tag, j)
    BY <2>1 DEF SetInv, KnownOK
  <2> QED BY <1>2, <2>2 DEF FirstAfter, NoneAfter
<1>3. KMax - (ref + 1) \in Int /\ KMax - MaxRefs <= KMax - (ref + 1)
  BY <1>1, OptAssumption
<1>4. CASE known = k /\ unknown = u /\ pool = p
  BY <1>1, <1>4
<1>5. ASSUME NoneAfter(set.lookahead_trace_, 0, tag), NEW out \in DOMAIN u,
             out = tag \/ tag \notin DOMAIN u,
             known = Put(k, tag, KMax - (ref + 1)), unknown = Drop(u, out)
      PROVE  /\ IsStack(known) /\ IsStack(unknown)
             /\ IsFiniteSet(DOMAIN known) /\ IsFiniteSet(DOMAIN unknown)
             /\ Cardinality(DOMAIN known) + Cardinality(DOMAIN unknown) <= NumWays
             /\ DOMAIN known \cap DOMAIN unknown = {}
             /\ \A t \in DOMAIN unknown : -MaxRefs <= unknown[t]
             /\ \A t \in DOMAIN known : KMax - MaxRefs <= known[t]
  <2>1. tag \notin DOMAIN k
    BY <1>2, <1>5
  <2>2. /\ DOMAIN known = DOMAIN k \cup {tag} /\ known[tag] = KMax - (ref + 1)
        /\ \A t \in DOMAIN k : known[t] = k[t]
        /\ DOMAIN unknown = DOMAIN u \ {out}
        /\ \A t \in DOMAIN unknown : unknown[t] = u[t]
    BY <1>5, <2>1 DEF Put, Drop
  <2> HIDE DEF k, u, ref
  <2>3. IsStack(known) /\ IsStack(unknown)
    BY <1>1, <1>3, <1>5, StacksStay
  <2>4. IsFiniteSet(DOMAIN known) /\ Cardinality(DOMAIN known) = Cardinality(DOMAIN k) + 1
    BY <1>1, <2>1, <2>2, FS_AddElement
  <2>5. IsFiniteSet(DOMAIN unknown) /\ Cardinality(DOMAIN unknown) = Cardinality(DOMAIN u) - 1
    BY <1>1, <1>5, <2>2, FS_RemoveElement
  <2>6. Cardinality(DOMAIN known) + Cardinality(DOMAIN unknown) <= NumWays
    <3>1. Cardinality(DOMAIN k) \in Nat /\ Cardinality(DOMAIN u) \in Nat /\ NumWays \in Nat
      BY <1>1, FS_CardinalityType, OptAssumption
    <3> QED BY <1>1, <2>4, <2>5, <3>1
  <2>7. DOMAIN known \cap DOMAIN unknown = {}
    BY <1>1, <1>5, <2>2
  <2>8. \A t \in DOMAIN known : KMax - MaxRefs <= known[t]
    BY <1>1, <1>3, <2>2
  <2> QED BY <1>1, <2>2, <2>3, <2>4, <2>5, <2>6, <2>7, <2>8
<1>6. CASE /\ NoneAfter(set.lookahead_trace_, 0, tag) /\ tag \in DOMAIN u
           /\ known = Put(k, tag, KMax - (ref + 1)) /\ unknown = Drop(u, tag) /\ pool = p
  BY <1>1, <1>5, <1>6
<1>7. CASE /\ NoneAfter(set.lookahead_trace_, 0, tag) /\ tag \notin DOMAIN u
           /\ \E out \in DOMAIN u :
                 /\ known = Put(k, tag, KMax - (ref + 1)) /\ unknown = Drop(u, out)
                 /\ pool = Put(Drop(p, tag), out, u[out])
  <2>1. PICK out \in DOMAIN u :
                 /\ known = Put(k, tag, KMax - (ref + 1)) /\ unknown = Drop(u, out)
                 /\ pool = Put(Drop(p, tag), out, u[out])
    BY <1>7
  <2>2. IsStack(pool)
    <3>1. out \in Tags /\ u[out] \in Int
      BY <1>1 DEF IsStack
    <3>2. IsStack(Drop(p, tag))
      BY <1>1, <1>3, StacksStay
    <3> QED BY <2>1, <3>1, <3>2, StacksStay
  <2> QED BY <1>5, <1>7, <2>1, <2>2
<1> QED BY <1>4, <1>6, <1>7 DEF Learned

(* And they still agree with the trace.                                    *)
LEMMA LearnedKnows ==
    ASSUME NEW set, SetInv(set), NEW tag \in Tags, set.ref_id_ < MaxRefs,
           NEW known, NEW unknown, NEW pool, Learned(set, tag, known, unknown, pool),
           NEW entry \in EntryType, entry.tag = tag
    PROVE  LET trace == Append(Told(set.lookahead_trace_, set.ref_id_ + 1, tag), entry)
           IN  KnownOK(known, trace, set.ref_id_ + 1) /\ UnknownOK(unknown, trace)
<1> DEFINE k == set.known_tags_
           u == set.unknown_tags_
           ref == set.ref_id_
           trace == set.lookahead_trace_
           told == Told(trace, ref + 1, tag)
           longer == Append(told, entry)
<1>1. IsTrace(trace, ref) /\ KnownOK(k, trace, ref) /\ UnknownOK(u, trace)
  BY DEF SetInv
<1>2. /\ told \in Seq(EntryType) /\ Len(told) = Len(trace)
      /\ \A i \in DOMAIN trace : told[i].tag = trace[i].tag
  BY <1>1, ToldProperties
<1> HIDE DEF told, longer
<1>3. ASSUME NEW t
      PROVE  /\ \A j : FirstAfter(trace, 0, t, j) =>
                  /\ FirstAfter(longer, 0, t, j)
                  /\ RefAt(longer, ref + 1, j) = RefAt(trace, ref, j)
             /\ NoneAfter(trace, 0, t) /\ tag = t =>
                  \E j : FirstAfter(longer, 0, t, j) /\ RefAt(longer, ref + 1, j) = ref + 1
             /\ NoneAfter(trace, 0, t) /\ tag # t => NoneAfter(longer, 0, t)
  BY <1>1, <1>2, AppendKnown DEF longer
<1> HIDE DEF trace, ref
<1>4. ASSUME NEW t \in DOMAIN k
      PROVE  \E j : FirstAfter(longer, 0, t, j) /\ k[t] = KMax - RefAt(longer, ref + 1, j)
  <2>1. PICK j : FirstAfter(trace, 0, t, j) /\ k[t] = KMax - RefAt(trace, ref, j)
    BY <1>1 DEF KnownOK
  <2> QED BY <1>3, <2>1
<1>5. ASSUME NEW t \in DOMAIN u, t # tag PROVE NoneAfter(longer, 0, t)
  <2>1. NoneAfter(trace, 0, t)
    BY <1>1 DEF UnknownOK
  <2> QED BY <1>3, <1>5, <2>1
<1>6. ASSUME known = k, unknown = u, tag \notin DOMAIN u
      PROVE  KnownOK(known, longer, ref + 1) /\ UnknownOK(unknown, longer)
  BY <1>4, <1>5, <1>6 DEF KnownOK, UnknownOK
<1>7. ASSUME NoneAfter(trace, 0, tag), known = Put(k, tag, KMax - (ref + 1)),
             NEW out, unknown = Drop(u, out), out = tag \/ tag \notin DOMAIN u
      PROVE  KnownOK(known, longer, ref + 1) /\ UnknownOK(unknown, longer)
  <2>1. /\ DOMAIN known = DOMAIN k \cup {tag} /\ known[tag] = KMax - (ref + 1)
        /\ \A t \in DOMAIN k : t # tag => known[t] = k[t]
        /\ DOMAIN unknown = DOMAIN u \ {out}
    BY <1>7 DEF Put, Drop
  <2>2. PICK j : FirstAfter(longer, 0, tag, j) /\ RefAt(longer, ref + 1, j) = ref + 1
    BY <1>3, <1>7
  <2>3. ASSUME NEW t \in DOMAIN known
        PROVE  \E i : FirstAfter(longer, 0, t, i) /\ known[t] = KMax - RefAt(longer, ref + 1, i)
    <3>1. CASE t = tag
      BY <2>1, <2>2, <3>1
    <3>2. CASE t # tag
      BY <1>4, <2>1, <3>2
    <3> QED BY <3>1, <3>2
  <2>4. \A t \in DOMAIN unknown : t # tag /\ t \in DOMAIN u
    BY <1>7, <2>1
  <2> QED BY <1>5, <2>3, <2>4 DEF KnownOK, UnknownOK
<1>8. KnownOK(known, longer, ref + 1) /\ UnknownOK(unknown, longer)
  <2>1. CASE tag \notin DOMAIN u /\ known = k /\ unknown = u
    BY <1>6, <2>1
  <2>2. CASE /\ NoneAfter(trace, 0, tag) /\ tag \in DOMAIN u
             /\ known = Put(k, tag, KMax - (ref + 1)) /\ unknown = Drop(u, tag)
    BY <1>7, <2>2
  <2>3. CASE /\ NoneAfter(trace, 0, tag) /\ tag \notin DOMAIN u
             /\ \E out \in DOMAIN u :
                  known = Put(k, tag, KMax - (ref + 1)) /\ unknown = Drop(u, out)
    BY <1>7, <2>3
  <2> QED BY <2>1, <2>2, <2>3 DEF Learned, trace, ref
<1> QED BY <1>8 DEF longer, told, trace, ref

(* Lookahead keeps the invariant of its set.                               *)
LEMMA LookaheadKeeps ==
    ASSUME NEW set, SetInv(set), set.ref_id_ < MaxRefs, NEW tag \in Tags,
           NEW inst_id \in Nat \ {0}, NEW addr_id \in Nat \ {0},
           NEW access_type \in kAccessTypes, NEW epoch \in Nat \ {0}
    PROVE  LET new == Lookahead(set, tag, inst_id, addr_id, access_type, epoch)
           IN  /\ SetInv(new)
               /\ new.ref_id_ = set.ref_id_ + 1
               /\ new.lookahead_ref_count_ = set.lookahead_ref_count_ + 1
               /\ Len(new.lookahead_trace_) = Len(set.lookahead_trace_) + 1
<1> DEFINE trace == set.lookahead_trace_
           ref == set.ref_id_
           c == set.lookahead_ref_count_
           told == Told(trace, ref + 1, tag)
           new == Lookahead(set, tag, inst_id, addr_id, access_type, epoch)
           entry == EntryOf(tag, inst_id, addr_id, access_type, epoch, ref + 1)
<1>1. PICK known, unknown, pool :
             /\ new = SetOf(known, unknown, pool, Append(told, entry), c + 1, ref + 1)
             /\ Learned(set, tag, known, unknown, pool)
  BY LookaheadDoes
<1>2. /\ IsTrace(trace, ref) /\ Linked(trace, ref) /\ c \in Nat
      /\ ref \in Nat /\ Len(trace) \in Nat /\ Len(trace) <= ref /\ ref + 1 <= MaxRefs
  <2>1. IsSet(set) /\ IsTrace(trace, ref) /\ Linked(trace, ref)
    BY DEF SetInv
  <2>2. c \in Nat
    BY <2>1 DEF IsSet
  <2>3. ref \in Nat /\ Len(trace) \in Nat /\ Len(trace) <= ref
    BY <2>1 DEF IsTrace
  <2>4. ref + 1 <= MaxRefs
    BY <2>3, OptAssumption
  <2> QED BY <2>1, <2>2, <2>3, <2>4
<1>3. /\ entry \in EntryType /\ entry.tag = tag /\ entry.next_ref = KMax
      /\ entry.priority = -(ref + 1)
  <2>1. KMax \in Nat /\ -(ref + 1) \in Int
    BY <1>2, OptAssumption
  <2> HIDE DEF ref
  <2> QED BY <2>1 DEF EntryType, EntryOf
<1> HIDE DEF entry
<1>4. /\ IsStack(known) /\ IsStack(unknown) /\ IsStack(pool)
      /\ IsFiniteSet(DOMAIN known) /\ IsFiniteSet(DOMAIN unknown)
      /\ Cardinality(DOMAIN known) + Cardinality(DOMAIN unknown) <= NumWays
      /\ DOMAIN known \cap DOMAIN unknown = {}
      /\ \A t \in DOMAIN unknown : -MaxRefs <= unknown[t]
      /\ \A t \in DOMAIN known : KMax - MaxRefs <= known[t]
  BY <1>1, LearnedFits
<1> HIDE DEF new
<1> DEFINE longer == Append(told, entry)
<1>5. KnownOK(known, longer, ref + 1) /\ UnknownOK(unknown, longer)
  BY <1>1, <1>3, LearnedKnows
<1>6. /\ told \in Seq(EntryType) /\ Len(told) = Len(trace)
      /\ \A i \in DOMAIN trace : told[i].tag = trace[i].tag
      /\ \A i \in DOMAIN trace :
            IF trace[i].tag = tag /\ NoneAfter(trace, i, tag)
            THEN told[i].next_ref = ref + 1 /\ told[i].priority = KMax - (ref + 1)
            ELSE told[i] = trace[i]
  BY <1>2, ToldProperties
<1> HIDE DEF trace, ref, c, told
<1>7. Linked(longer, ref + 1)
  BY <1>2, <1>3, <1>6, AppendLinked
<1>8. longer \in Seq(EntryType) /\ Len(longer) = Len(trace) + 1
  BY <1>3, <1>6
<1> HIDE DEF longer
<1>9. /\ new.known_tags_ = known /\ new.unknown_tags_ = unknown
      /\ new.unknown_tags_pool_ = pool /\ new.lookahead_trace_ = longer
      /\ new.lookahead_ref_count_ = c + 1 /\ new.ref_id_ = ref + 1
      /\ new = SetOf(known, unknown, pool, longer, c + 1, ref + 1)
  BY <1>1 DEF SetOf, longer
<1>10. IsSet(new)
  <2>1. c + 1 \in Nat /\ ref + 1 \in Nat
    BY <1>2
  <2> QED BY <1>4, <1>8, <1>9, <2>1 DEF IsSet, SetOf
<1>11. IsTrace(longer, ref + 1)
  BY <1>2, <1>8 DEF IsTrace
<1>12. SetInv(new)
  BY <1>4, <1>5, <1>7, <1>9, <1>10, <1>11 DEF SetInv, Fits, Size
<1> QED BY <1>8, <1>9, <1>12 DEF new, trace, ref, c

(* What the stacks and the trace of a set say of when its lines were last  *)
(* used, if use does.                                                      *)
UsedOK(unknown, pool, trace, ref, use) ==
    /\ DOMAIN unknown \subseteq DOMAIN use /\ DOMAIN pool \subseteq DOMAIN use
    /\ \A t \in DOMAIN unknown : unknown[t] = -use[t]
    /\ \A t \in DOMAIN pool :
          t \notin DOMAIN unknown /\ NoneAfter(trace, 0, t) => pool[t] = -use[t]
    /\ \A i \in DOMAIN trace : trace[i].tag \in DOMAIN use
    /\ \A i \in DOMAIN trace :
          NoneAfter(trace, i, trace[i].tag) => use[trace[i].tag] = RefAt(trace, ref, i)

UsedSet(set, use) ==
    UsedOK(set.unknown_tags_, set.unknown_tags_pool_, set.lookahead_trace_, set.ref_id_, use)

(* What does not occur after an entry has been appended is another line    *)
(* and did not occur before.                                               *)
LEMMA AppendNone ==
    ASSUME NEW trace \in Seq(EntryType), NEW told \in Seq(EntryType), Len(told) = Len(trace),
           \A k \in DOMAIN trace : told[k].tag = trace[k].tag,
           NEW entry \in EntryType, NEW i \in 0 .. Len(trace), NEW t,
           NoneAfter(Append(told, entry), i, t)
    PROVE  t # entry.tag /\ NoneAfter(trace, i, t)
<1> DEFINE n == Len(trace)
           longer == Append(told, entry)
<1>1. n \in Nat /\ DOMAIN trace = 1 .. n /\ i \in Nat /\ i <= n
  OBVIOUS
<1>2. /\ Len(longer) = n + 1 /\ longer[n + 1] = entry
      /\ \A k \in 1 .. n : longer[k] = told[k]
  BY <1>1
<1>3. \A k \in 1 .. n : longer[k].tag = trace[k].tag
  BY <1>1, <1>2
<1>4. \A k \in i + 1 .. n + 1 : longer[k].tag # t
  BY <1>2 DEF NoneAfter
<1> HIDE DEF longer, n
<1>5. n + 1 \in i + 1 .. n + 1 /\ \A k \in i + 1 .. n : k \in i + 1 .. n + 1 /\ k \in 1 .. n
  BY <1>1
<1>6. t # entry.tag
  BY <1>2, <1>4, <1>5
<1>7. \A k \in i + 1 .. n : trace[k].tag # t
  BY <1>3, <1>4, <1>5
<1> QED BY <1>6, <1>7 DEF NoneAfter, n

(* What a set learns of a reference leaves it right about the other lines. *)
LEMMA LearnedUsed ==
    ASSUME NEW set, SetInv(set), NEW tag \in Tags, set.ref_id_ < MaxRefs,
           NEW known, NEW unknown, NEW pool, Learned(set, tag, known, unknown, pool),
           NEW entry \in EntryType, entry.tag = tag, NEW use, UsedSet(set, use)
    PROVE  UsedOK(unknown, pool,
                  Append(Told(set.lookahead_trace_, set.ref_id_ + 1, tag), entry),
                  set.ref_id_ + 1, Put(use, tag, set.ref_id_ + 1))
<1> DEFINE u == set.unknown_tags_
           p == set.unknown_tags_pool_
           ref == set.ref_id_
           trace == set.lookahead_trace_
           n == Len(trace)
           told == Told(trace, ref + 1, tag)
           longer == Append(told, entry)
           new == Put(use, tag, ref + 1)
<1>1. IsTrace(trace, ref) /\ UnknownOK(u, trace) /\ UsedOK(u, p, trace, ref, use)
  BY DEF SetInv, UsedSet
<1>2. /\ told \in Seq(EntryType) /\ Len(told) = n
      /\ \A i \in DOMAIN trace : told[i].tag = trace[i].tag
  BY <1>1, ToldProperties
<1>3. UnknownOK(unknown, longer)
  BY LearnedKnows
<1> HIDE DEF told
<1>4. /\ n \in Nat /\ ref \in Nat /\ trace \in Seq(EntryType) /\ DOMAIN trace = 1 .. n
  BY <1>1 DEF IsTrace
<1>5. /\ Len(longer) = n + 1 /\ DOMAIN longer = 1 .. n + 1 /\ longer[n + 1] = entry
      /\ \A i \in 1 .. n : longer[i] = told[i]
  BY <1>2, <1>4
<1>6. \A i \in 1 .. n : longer[i].tag = trace[i].tag
  BY <1>2, <1>4, <1>5
<1>7. ASSUME NEW i \in 0 .. n, NEW t, NoneAfter(longer, i, t)
      PROVE  t # tag /\ NoneAfter(trace, i, t)
  BY <1>2, <1>4, <1>7, AppendNone
<1>8. /\ DOMAIN new = DOMAIN use \cup {tag} /\ new[tag] = ref + 1
      /\ \A t \in DOMAIN use : t # tag => new[t] = use[t]
  <2> DEFINE r == ref + 1
  <2> HIDE DEF r, longer, told, trace, ref, n, u, p
  <2>1. new = Put(use, tag, r)
    BY DEF r
  <2> HIDE DEF new
  <2>2. new = [x \in DOMAIN use \cup {tag} |-> IF x = tag THEN r ELSE use[x]]
    BY <2>1 DEF Put
  <2> QED BY <2>2 DEF r
<1>9. /\ \A i \in Int : RefAt(longer, ref + 1, i) = RefAt(trace, ref, i)
      /\ RefAt(longer, ref + 1, n + 1) = ref + 1
  <2> HIDE DEF longer, new, trace, ref, n, u, p
  <2>1. Len(trace) = n
    BY DEF n
  <2>2. Len(longer) = n + 1 /\ n \in Nat /\ ref \in Nat
    BY <1>4, <1>5
  <2> QED BY <2>1, <2>2 DEF RefAt
<1>10. 0 \in 0 .. n /\ \A i \in 1 .. n : i \in 0 .. n /\ i \in Int
  BY <1>4
<1> HIDE DEF longer, new, trace, ref, n, u, p
<1>11. \A t \in DOMAIN unknown : t # tag
  BY <1>3, <1>7, <1>10 DEF UnknownOK
<1>12. \A i \in DOMAIN longer :
          /\ longer[i].tag \in DOMAIN new
          /\ NoneAfter(longer, i, longer[i].tag) =>
               new[longer[i].tag] = RefAt(longer, ref + 1, i)
  <2>1. SUFFICES ASSUME NEW i \in DOMAIN longer
                 PROVE  /\ longer[i].tag \in DOMAIN new
                        /\ NoneAfter(longer, i, longer[i].tag) =>
                             new[longer[i].tag] = RefAt(longer, ref + 1, i)
    OBVIOUS
  <2>2. CASE i = n + 1
    BY <1>5, <1>8, <1>9, <2>2
  <2>3. CASE i \in 1 .. n
    <3>1. longer[i].tag = trace[i].tag /\ trace[i].tag \in DOMAIN use
      BY <1>1, <1>4, <1>6, <2>3 DEF UsedOK
    <3>2. ASSUME NoneAfter(longer, i, longer[i].tag)
          PROVE  new[longer[i].tag] = RefAt(longer, ref + 1, i)
      <4>1. trace[i].tag # tag /\ NoneAfter(trace, i, trace[i].tag)
        BY <1>7, <1>10, <2>3, <3>1, <3>2
      <4>2. use[trace[i].tag] = RefAt(trace, ref, i)
        BY <1>1, <1>4, <2>3, <4>1 DEF UsedOK
      <4> QED BY <1>8, <1>9, <1>10, <2>3, <3>1, <4>1, <4>2
    <3> QED BY <1>8, <3>1, <3>2
  <2>4. i = n + 1 \/ i \in 1 .. n
    BY <1>4, <1>5
  <2> QED BY <2>2, <2>3, <2>4
<1>13. /\ DOMAIN u \subseteq DOMAIN use /\ DOMAIN p \subseteq DOMAIN use
       /\ \A t \in DOMAIN u : u[t] = -use[t]
       /\ \A t \in DOMAIN p : t \notin DOMAIN u /\ NoneAfter(trace, 0, t) => p[t] = -use[t]
  BY <1>1 DEF UsedOK
<1>14. /\ DOMAIN unknown \subseteq DOMAIN u /\ \A t \in DOMAIN unknown : unknown[t] = u[t]
       /\ \/ pool = p /\ \A t \in DOMAIN u : t \notin DOMAIN unknown => t = tag
          \/ \E out \in DOMAIN u :
               /\ pool = Put(Drop(p, tag), out, u[out])
               /\ \A t \in DOMAIN u : t \notin DOMAIN unknown => t = out
  <2>1. \/ unknown = u /\ pool = p
        \/ unknown = Drop(u, tag) /\ pool = p
        \/ \E out \in DOMAIN u : unknown = Drop(u, out) /\ pool = Put(Drop(p, tag), out, u[out])
    BY DEF Learned, u, p
  <2>2. CASE unknown = u /\ pool = p
    BY <2>2
  <2>3. CASE unknown = Drop(u, tag) /\ pool = p
    BY <2>3 DEF Put, Drop
  <2>4. CASE \E out \in DOMAIN u : unknown = Drop(u, out) /\ pool = Put(Drop(p, tag), out, u[out])
    <3>1. PICK out \in DOMAIN u : unknown = Drop(u, out) /\ pool = Put(Drop(p, tag), out, u[out])
      BY <2>4
    <3>2. DOMAIN unknown = DOMAIN u \ {out} /\ \A t \in DOMAIN u : t # out => unknown[t] = u[t]
      BY <3>1 DEF Put, Drop
    <3>3. \A t \in DOMAIN u : t \notin DOMAIN unknown => t = out
      BY <3>2
    <3>4. DOMAIN unknown \subseteq DOMAIN u /\ \A t \in DOMAIN unknown : unknown[t] = u[t]
      BY <3>2
    <3>5. \E o \in DOMAIN u : /\ pool = Put(Drop(p, tag), o, u[o])
                              /\ \A t \in DOMAIN u : t \notin DOMAIN unknown => t = o
      BY <3>1, <3>3
    <3> QED BY <3>4, <3>5
  <2> QED BY <2>1, <2>2, <2>3, <2>4
<1>15. DOMAIN unknown \subseteq DOMAIN new /\ \A t \in DOMAIN unknown : unknown[t] = -new[t]
  BY <1>8, <1>11, <1>13, <1>14
<1>16. /\ DOMAIN pool \subseteq DOMAIN new
       /\ \A t \in DOMAIN pool :
             t \notin DOMAIN unknown /\ NoneAfter(longer, 0, t) => pool[t] = -new[t]
  <2>1. CASE pool = p /\ \A t \in DOMAIN u : t \notin DOMAIN unknown => t = tag
    <3>1. ASSUME NEW t \in DOMAIN pool, t \notin DOMAIN unknown, NoneAfter(longer, 0, t)
          PROVE  pool[t] = -new[t]
      <4>1. t # tag /\ NoneAfter(trace, 0, t)
        BY <1>7, <1>10, <3>1
      <4> QED BY <1>8, <1>13, <2>1, <3>1, <4>1
    <3> QED BY <1>8, <1>13, <2>1, <3>1
  <2>2. CASE \E out \in DOMAIN u :
               /\ pool = Put(Drop(p, tag), out, u[out])
               /\ \A t \in DOMAIN u : t \notin DOMAIN unknown => t = out
    <3>1. PICK out \in DOMAIN u :
               /\ pool = Put(Drop(p, tag), out, u[out])
               /\ \A t \in DOMAIN u : t \notin DOMAIN unknown => t = out
      BY <2>2
    <3>2. /\ DOMAIN pool = (DOMAIN p \ {tag}) \cup {out} /\ pool[out] = u[out]
          /\ \A t \in DOMAIN p : t # tag /\ t # out => pool[t] = p[t]
      BY <3>1 DEF Put, Drop
    <3>3. ASSUME NEW t \in DOMAIN pool, t \notin DOMAIN unknown, NoneAfter(longer, 0, t)
          PROVE  pool[t] = -new[t]
      <4>1. t # tag /\ NoneAfter(trace, 0, t)
        BY <1>7, <1>10, <3>3
      <4>2. CASE t = out
        BY <1>8, <1>13, <3>2, <4>1, <4>2
      <4>3. CASE t # out
        BY <1>8, <1>13, <3>1, <3>2, <3>3, <4>1, <4>3
      <4> QED BY <4>2, <4>3
    <3> QED BY <1>8, <1>13, <3>2, <3>3
  <2> QED BY <1>14, <2>1, <2>2
<1>17. UsedOK(unknown, pool, longer, ref + 1, new)
  BY <1>12, <1>15, <1>16 DEF UsedOK
<1> QED BY <1>17 DEF longer, told, trace, ref, new

(* A set that a reference has been looked at for is right about all lines. *)
LEMMA LookaheadUsed ==
    ASSUME NEW set, SetInv(set), set.ref_id_ < MaxRefs, NEW tag \in Tags,
           NEW inst_id \in Nat \ {0}, NEW addr_id \in Nat \ {0},
           NEW access_type \in kAccessTypes, NEW epoch \in Nat \ {0},
           NEW use, UsedSet(set, use)
    PROVE  UsedSet(Lookahead(set, tag, inst_id, addr_id, access_type, epoch),
                   Put(use, tag, set.ref_id_ + 1))
<1> DEFINE trace == set.lookahead_trace_
           ref == set.ref_id_
           c == set.lookahead_ref_count_
           told == Told(trace, ref + 1, tag)
           new == Lookahead(set, tag, inst_id, addr_id, access_type, epoch)
           entry == EntryOf(tag, inst_id, addr_id, access_type, epoch, ref + 1)
<1>1. PICK known, unknown, pool :
             /\ new = SetOf(known, unknown, pool, Append(told, entry), c + 1, ref + 1)
             /\ Learned(set, tag, known, unknown, pool)
  BY LookaheadDoes
<1>2. entry \in EntryType /\ entry.tag = tag
  <2>1. ref \in Nat
    BY DEF SetInv, IsTrace
  <2>2. KMax \in Nat /\ -(ref + 1) \in Int
    BY <2>1, OptAssumption
  <2> HIDE DEF ref
  <2> QED BY <2>2 DEF EntryType, EntryOf
<1> HIDE DEF entry, new
<1>3. UsedOK(unknown, pool, Append(told, entry), ref + 1, Put(use, tag, ref + 1))
  BY <1>1, <1>2, LearnedUsed
<1>4. /\ new.unknown_tags_ = unknown /\ new.unknown_tags_pool_ = pool
      /\ new.lookahead_trace_ = Append(told, entry) /\ new.ref_id_ = ref + 1
  BY <1>1 DEF SetOf
<1> HIDE DEF told
<1> QED BY <1>3, <1>4 DEF UsedSet, new

-----------------------------------------------------------------------------
(* One iteration of Process.                                               *)

(* What a decision may do to the stacks: let the line in among the known   *)
(* or the unknown ones, let it in in place of the lowest known or unknown  *)
(* one, or not let it in, in which case the pool may keep it.              *)
Decided(set, entry, known, unknown, pool) ==
    LET k == set.known_tags_
        u == set.unknown_tags_
        p == set.unknown_tags_pool_
    IN  \/ /\ IsHit(set, entry) \/ Size(set) < NumWays
           /\ IsKnown(entry)
           /\ known = Put(Drop(k, entry.tag), entry.tag, entry.priority)
           /\ unknown = u /\ pool = p
        \/ /\ IsHit(set, entry) \/ Size(set) < NumWays
           /\ ~IsKnown(entry)
           /\ known = Drop(k, entry.tag)
           /\ unknown = Put(u, entry.tag, entry.priority) /\ pool = p
        \/ /\ ~IsHit(set, entry) /\ IsKnown(entry)
           /\ Size(set) >= NumWays /\ DOMAIN u = {}
           /\ \E out \in DOMAIN k : /\ k[out] < entry.priority
                                    /\ \A t \in DOMAIN k : k[out] <= k[t]
                                    /\ known = Put(Drop(k, out), entry.tag, entry.priority)
           /\ unknown = u /\ pool = p
        \/ /\ ~IsHit(set, entry) /\ IsKnown(entry)
           /\ Size(set) >= NumWays
           /\ \E out \in DOMAIN u : /\ \A t \in DOMAIN u : u[out] <= u[t]
                                    /\ known = Put(k, entry.tag, entry.priority)
                                    /\ unknown = Drop(u, out)
                                    /\ pool = Put(p, out, u[out])
        \/ /\ ~IsHit(set, entry) /\ IsKnown(entry)
           /\ Size(set) >= NumWays /\ DOMAIN u = {}
           /\ \E out \in DOMAIN k : /\ ~(k[out] < entry.priority)
                                    /\ \A t \in DOMAIN k : k[out] <= k[t]
           /\ known = k /\ unknown = u /\ pool = p
        \/ /\ ~IsHit(set, entry) /\ ~IsKnown(entry)
           /\ Size(set) >= NumWays
           /\ known = k /\ unknown = u
           /\ pool = Put(p, entry.tag, entry.priority)

(* A hit or room in the set.                                               *)
LEMMA KeepDoes ==
    ASSUME NEW set, SetInv(set), NEW entry, IsHit(set, entry) \/ Size(set) < NumWays
    PROVE  \E known, unknown, pool :
              /\ Decide(set, entry) = SetOf(known, unknown, pool, set.lookahead_trace_,
                                            set.lookahead_ref_count_, set.ref_id_)
              /\ Decided(set, entry, known, unknown, pool)
<1> DEFINE trace == set.lookahead_trace_
           ref == set.ref_id_
           k == set.known_tags_
           u == set.unknown_tags_
           p == set.unknown_tags_pool_
           c == set.lookahead_ref_count_
           tag == entry.tag
           kept == [set EXCEPT !.known_tags_ = Drop(@, entry.tag)]
           Result(known, unknown, pool) ==
             /\ Decide(set, entry) = SetOf(known, unknown, pool, trace, c, ref)
             /\ Decided(set, entry, known, unknown, pool)
<1>1. set = SetOf(k, u, p, trace, c, ref)
  BY SetRecord DEF SetInv
<1>2. Decide(set, entry) = Insert(kept, entry)
  <2>1. Size(set) \in Int /\ NumWays \in Int
    BY FS_CardinalityType, OptAssumption DEF SetInv, Fits, Size
  <2>2. ~(~IsHit(set, entry) /\ Size(set) >= NumWays)
    BY <2>1
  <2>3. Decide(set, entry) = Keep(set, entry)
    BY <2>2 DEF Decide
  <2> QED BY <2>3 DEF Keep
<1>3. kept = WithKnown(set, Drop(k, tag))
  BY DEF WithKnown
<1> HIDE DEF kept, trace, ref, c
<1>4. kept = SetOf(Drop(k, tag), u, p, trace, c, ref)
  <2>1. WithKnown(SetOf(k, u, p, trace, c, ref), Drop(k, tag))
           = SetOf(Drop(k, tag), u, p, trace, c, ref)
    BY AssignKnown
  <2> QED BY <1>1, <1>3, <2>1
<1>5. kept.known_tags_ = Drop(k, tag) /\ kept.unknown_tags_ = u
  BY <1>4 DEF SetOf
<1>6. CASE IsKnown(entry)
  <2>1. Insert(kept, entry) = WithKnown(kept, Put(Drop(k, tag), tag, entry.priority))
    BY <1>5, <1>6 DEF Insert, WithKnown
  <2>2. Insert(kept, entry) = SetOf(Put(Drop(k, tag), tag, entry.priority), u, p, trace, c, ref)
    BY <1>4, <2>1, AssignKnown
  <2>3. Decided(set, entry, Put(Drop(k, tag), tag, entry.priority), u, p)
    BY <1>6 DEF Decided
  <2>4. Result(Put(Drop(k, tag), tag, entry.priority), u, p)
    BY <1>2, <2>2, <2>3
  <2> HIDE DEF Result
  <2>5. \E known, unknown, pool : Result(known, unknown, pool)
    BY <2>4
  <2> QED BY <2>5 DEF Result, trace, ref, c
<1>7. CASE ~IsKnown(entry)
  <2>1. Insert(kept, entry) = WithUnknown(kept, Put(u, tag, entry.priority))
    BY <1>5, <1>7 DEF Insert, WithUnknown
  <2>2. Insert(kept, entry)
           = SetOf(Drop(k, tag), Put(u, tag, entry.priority), p, trace, c, ref)
    BY <1>4, <2>1, AssignUnknown
  <2>3. Decided(set, entry, Drop(k, tag), Put(u, tag, entry.priority), p)
    BY <1>7 DEF Decided
  <2>4. Result(Drop(k, tag), Put(u, tag, entry.priority), p)
    BY <1>2, <2>2, <2>3
  <2> HIDE DEF Result
  <2>5. \E known, unknown, pool : Result(known, unknown, pool)
    BY <2>4
  <2> QED BY <2>5 DEF Result, trace, ref, c
<1> QED BY <1>6, <1>7

(* The lowest line of a full set is one of its lines.                      *)
LEMMA VictimExists ==
    ASSUME NEW set, SetInv(set)
    PROVE  /\ DOMAIN set.unknown_tags_ # {} =>
                LET out == Lowest(set.unknown_tags_)
                IN  /\ out \in DOMAIN set.unknown_tags_
                    /\ \A t \in DOMAIN set.unknown_tags_ :
                          set.unknown_tags_[out] <= set.unknown_tags_[t]
           /\ DOMAIN set.unknown_tags_ = {} /\ Size(set) >= NumWays =>
                LET out == Lowest(set.known_tags_)
                IN  /\ out \in DOMAIN set.known_tags_
                    /\ \A t \in DOMAIN set.known_tags_ :
                          set.known_tags_[out] <= set.known_tags_[t]
<1> DEFINE k == set.known_tags_
           u == set.unknown_tags_
<1>1. /\ IsStack(k) /\ IsStack(u)
      /\ \A t \in DOMAIN u : -MaxRefs <= u[t]
      /\ \A t \in DOMAIN k : KMax - MaxRefs <= k[t]
  BY DEF SetInv, IsSet
<1>2. -MaxRefs \in Int /\ KMax - MaxRefs \in Int
  BY OptAssumption
<1>3. ASSUME DOMAIN u = {}, Size(set) >= NumWays PROVE DOMAIN k # {}
  <2>1. SUFFICES ASSUME DOMAIN k = {} PROVE FALSE
    OBVIOUS
  <2>2. Cardinality(DOMAIN k) = 0 /\ Cardinality(DOMAIN u) = 0
    BY <1>3, <2>1, FS_EmptySet
  <2>3. Size(set) = 0
    BY <2>2 DEF Size
  <2> QED BY <1>3, <2>3, OptAssumption
<1> HIDE DEF k, u
<1>4. DOMAIN u # {} => Lowest(u) \in DOMAIN u /\ \A t \in DOMAIN u : u[Lowest(u)] <= u[t]
  BY <1>1, <1>2, LowestExists
<1>5. DOMAIN k # {} => Lowest(k) \in DOMAIN k /\ \A t \in DOMAIN k : k[Lowest(k)] <= k[t]
  BY <1>1, <1>2, LowestExists
<1> QED BY <1>3, <1>4, <1>5 DEF k, u

(* A miss in a full set.                                                   *)
LEMMA ReplaceDoes ==
    ASSUME NEW set, SetInv(set), NEW entry, ~IsHit(set, entry), Size(set) >= NumWays
    PROVE  \E known, unknown, pool :
              /\ Decide(set, entry) = SetOf(known, unknown, pool, set.lookahead_trace_,
                                            set.lookahead_ref_count_, set.ref_id_)
              /\ Decided(set, entry, known, unknown, pool)
<1> DEFINE trace == set.lookahead_trace_
           ref == set.ref_id_
           k == set.known_tags_
           u == set.unknown_tags_
           p == set.unknown_tags_pool_
           c == set.lookahead_ref_count_
           tag == entry.tag
           Result(known, unknown, pool) ==
             /\ Decide(set, entry) = SetOf(known, unknown, pool, trace, c, ref)
             /\ Decided(set, entry, known, unknown, pool)
<1>1. set = SetOf(k, u, p, trace, c, ref)
  BY SetRecord DEF SetInv
<1>2. ~(IsHit(set, entry) \/ Size(set) < NumWays)
  <2>1. Size(set) \in Int /\ NumWays \in Int
    BY FS_CardinalityType, OptAssumption DEF SetInv, Fits, Size
  <2> QED BY <2>1
<1>3. SUFFICES \E known, unknown, pool : Result(known, unknown, pool)
  OBVIOUS
<1> HIDE DEF trace, ref, c
<1>4. CASE IsKnown(entry) /\ DOMAIN u = {}
  <2> DEFINE out == Lowest(k)
             x == Put(Drop(k, out), tag, entry.priority)
  <2>1. Decide(set, entry) = ReplaceKnown(set, entry)
    BY <1>2, <1>4 DEF Decide
  <2>2. out \in DOMAIN k /\ \A t \in DOMAIN k : k[out] <= k[t]
    BY <1>4, VictimExists
  <2>3. CASE k[out] < entry.priority
    <3>1. ReplaceKnown(set, entry) = WithKnown(set, x)
      BY <2>3 DEF ReplaceKnown, WithKnown
    <3> HIDE DEF x
    <3>2. WithKnown(SetOf(k, u, p, trace, c, ref), x) = SetOf(x, u, p, trace, c, ref)
      BY AssignKnown
    <3>3. Decided(set, entry, x, u, p)
      BY <1>2, <1>4, <2>2, <2>3 DEF Decided, x
    <3>4. Result(x, u, p)
      BY <1>1, <2>1, <3>1, <3>2, <3>3
    <3> QED BY <3>4
  <2>4. CASE ~(k[out] < entry.priority)
    <3>1. ReplaceKnown(set, entry) = set
      BY <2>4 DEF ReplaceKnown
    <3>2. Decided(set, entry, k, u, p)
      BY <1>2, <1>4, <2>2, <2>4 DEF Decided
    <3>3. Result(k, u, p)
      BY <1>1, <2>1, <3>1, <3>2
    <3> QED BY <3>3
  <2> QED BY <2>3, <2>4
<1>5. CASE IsKnown(entry) /\ DOMAIN u # {}
  <2> DEFINE out == Lowest(u)
             x == Put(k, tag, entry.priority)
             y == Drop(u, out)
             z == Put(p, out, u[out])
  <2>1. Decide(set, entry) = ReplaceUnknown(set, entry)
    BY <1>2, <1>5 DEF Decide
  <2>2. out \in DOMAIN u /\ \A t \in DOMAIN u : u[out] <= u[t]
    BY <1>5, VictimExists
  <2>3. ReplaceUnknown(set, entry) = WithStacks(set, x, y, z)
    BY DEF ReplaceUnknown, WithStacks
  <2>4. Decided(set, entry, x, y, z)
    BY <1>2, <1>5, <2>2 DEF Decided
  <2> HIDE DEF x, y, z
  <2>5. WithStacks(SetOf(k, u, p, trace, c, ref), x, y, z) = SetOf(x, y, z, trace, c, ref)
    BY AssignStacks
  <2>6. Result(x, y, z)
    BY <1>1, <2>1, <2>3, <2>4, <2>5
  <2> QED BY <2>6
<1>6. CASE ~IsKnown(entry)
  <2> DEFINE z == Put(p, tag, entry.priority)
  <2>1. Decide(set, entry) = Bypass(set, entry)
    BY <1>2, <1>6 DEF Decide
  <2>2. Bypass(set, entry) = WithPool(set, z)
    BY DEF Bypass, WithPool
  <2>3. Decided(set, entry, k, u, z)
    BY <1>2, <1>6 DEF Decided
  <2> HIDE DEF z
  <2>4. WithPool(SetOf(k, u, p, trace, c, ref), z) = SetOf(k, u, z, trace, c, ref)
    BY AssignPool
  <2>5. Result(k, u, z)
    BY <1>1, <2>1, <2>2, <2>3, <2>4
  <2> QED BY <2>5
<1> QED BY <1>4, <1>5, <1>6

(* The priority of an entry is that of a line the set may hold.            *)
LEMMA EntryPriority ==
    ASSUME NEW trace, NEW ref, IsTrace(trace, ref), Linked(trace, ref), trace # << >>
    PROVE  /\ trace[1] \in EntryType
           /\ IsKnown(trace[1]) => KMax - MaxRefs <= trace[1].priority
           /\ ~IsKnown(trace[1]) => -MaxRefs <= trace[1].priority
<1>1. /\ Len(trace) \in Nat /\ Len(trace) > 0 /\ 1 \in DOMAIN trace /\ 1 \in Nat
      /\ ref \in Nat /\ Len(trace) <= ref /\ ref <= MaxRefs /\ trace[1] \in EntryType
  BY DEF IsTrace
<1>2. ASSUME IsKnown(trace[1]) PROVE KMax - MaxRefs <= trace[1].priority
  <2>1. ~NoneAfter(trace, 1, trace[1].tag)
    BY <1>1, <1>2, WaitingIsLast
  <2>2. PICK j : FirstAfter(trace, 1, trace[1].tag, j)
    BY <1>1, <2>1, FirstExists DEF IsTrace
  <2>3. trace[1].priority = KMax - RefAt(trace, ref, j)
    BY <1>1, <2>2 DEF Linked
  <2>4. j \in Int /\ j <= Len(trace)
    BY <1>1, <2>2 DEF FirstAfter
  <2>5. RefAt(trace, ref, j) \in Int /\ RefAt(trace, ref, j) <= MaxRefs
    BY <1>1, <2>4, OptAssumption DEF RefAt
  <2> QED BY <2>3, <2>5, OptAssumption
<1>3. ASSUME ~IsKnown(trace[1]) PROVE -MaxRefs <= trace[1].priority
  <2>1. NoneAfter(trace, 1, trace[1].tag)
    BY <1>1, <1>3, WaitingIsLast
  <2>2. trace[1].priority = -RefAt(trace, ref, 1)
    BY <1>1, <2>1 DEF Linked
  <2>3. RefAt(trace, ref, 1) \in Int /\ RefAt(trace, ref, 1) <= MaxRefs
    BY <1>1, OptAssumption DEF RefAt
  <2> QED BY <2>2, <2>3, OptAssumption
<1> QED BY <1>1, <1>2, <1>3

(* Whatever is decided, the set holds no more lines than it has ways.      *)
LEMMA DecidedFits ==
    ASSUME NEW set, SetInv(set), set.lookahead_trace_ # << >>,
           NEW entry, entry = set.lookahead_trace_[1],
           NEW known, NEW unknown, NEW pool, Decided(set, entry, known, unknown, pool)
    PROVE  /\ IsStack(known) /\ IsStack(unknown) /\ IsStack(pool)
           /\ IsFiniteSet(DOMAIN known) /\ IsFiniteSet(DOMAIN unknown)
           /\ Cardinality(DOMAIN known) + Cardinality(DOMAIN unknown) <= NumWays
           /\ DOMAIN known \cap DOMAIN unknown = {}
           /\ \A t \in DOMAIN unknown : -MaxRefs <= unknown[t]
           /\ \A t \in DOMAIN known : KMax - MaxRefs <= known[t]
<1> DEFINE k == set.known_tags_
           u == set.unknown_tags_
           p == set.unknown_tags_pool_
           trace == set.lookahead_trace_
           ref == set.ref_id_
           tag == entry.tag
           prio == entry.priority
           ck == Cardinality(DOMAIN k)
           cu == Cardinality(DOMAIN u)
           Good == /\ IsStack(known) /\ IsStack(unknown) /\ IsStack(pool)
                   /\ IsFiniteSet(DOMAIN known) /\ IsFiniteSet(DOMAIN unknown)
                   /\ Cardinality(DOMAIN known) + Cardinality(DOMAIN unknown) <= NumWays
                   /\ DOMAIN known \cap DOMAIN unknown = {}
                   /\ \A t \in DOMAIN unknown : -MaxRefs <= unknown[t]
                   /\ \A t \in DOMAIN known : KMax - MaxRefs <= known[t]
<1>1. /\ IsStack(k) /\ IsStack(u) /\ IsStack(p)
      /\ IsFiniteSet(DOMAIN k) /\ IsFiniteSet(DOMAIN u)
      /\ ck + cu <= NumWays
      /\ DOMAIN k \cap DOMAIN u = {}
      /\ \A t \in DOMAIN u : -MaxRefs <= u[t]
      /\ \A t \in DOMAIN k : KMax - MaxRefs <= k[t]
      /\ IsTrace(trace, ref) /\ Linked(trace, ref) /\ UnknownOK(u, trace)
  BY DEF SetInv, IsSet, Fits, Size
<1>2. /\ entry \in EntryType
      /\ IsKnown(entry) => KMax - MaxRefs <= prio
      /\ ~IsKnown(entry) => -MaxRefs <= prio
  BY <1>1, EntryPriority
<1>3. tag \in Tags /\ prio \in Int
  BY <1>2 DEF EntryType
<1>4. tag \notin DOMAIN u
  <2>1. 1 \in 0 + 1 .. Len(trace)
    BY <1>1 DEF IsTrace
  <2> QED BY <1>1, <2>1 DEF UnknownOK, NoneAfter
<1>5. ck \in Nat /\ cu \in Nat /\ NumWays \in Nat
  BY <1>1, FS_CardinalityType, OptAssumption
<1>6. Size(set) = ck + cu /\ (IsHit(set, entry) <=> tag \in DOMAIN k)
  BY DEF Size, IsHit
<1> HIDE DEF ck, cu
<1>7. ASSUME NEW out \in DOMAIN k \cup {tag}
      PROVE  /\ IsStack(Drop(k, out)) /\ IsFiniteSet(DOMAIN Drop(k, out))
             /\ DOMAIN Drop(k, out) = DOMAIN k \ {out}
             /\ \A t \in DOMAIN Drop(k, out) : Drop(k, out)[t] = k[t]
             /\ Cardinality(DOMAIN Drop(k, out)) = IF out \in DOMAIN k THEN ck - 1 ELSE ck
  <2>1. /\ DOMAIN Drop(k, out) = DOMAIN k \ {out}
        /\ \A t \in DOMAIN Drop(k, out) : Drop(k, out)[t] = k[t]
    BY DEF Drop
  <2>2. IsStack(Drop(k, out))
    BY <1>1, <1>3, StacksStay
  <2>3. /\ IsFiniteSet(DOMAIN k \ {out})
        /\ Cardinality(DOMAIN k \ {out}) = IF out \in DOMAIN k THEN ck - 1 ELSE ck
    BY <1>1, FS_RemoveElement DEF ck
  <2> QED BY <2>1, <2>2, <2>3
<1>8. ASSUME NEW s, IsStack(s), IsFiniteSet(DOMAIN s), tag \notin DOMAIN s
      PROVE  /\ IsStack(Put(s, tag, prio)) /\ IsFiniteSet(DOMAIN Put(s, tag, prio))
             /\ DOMAIN Put(s, tag, prio) = DOMAIN s \cup {tag}
             /\ Put(s, tag, prio)[tag] = prio
             /\ \A t \in DOMAIN s : Put(s, tag, prio)[t] = s[t]
             /\ Cardinality(DOMAIN Put(s, tag, prio)) = Cardinality(DOMAIN s) + 1
  <2>1. /\ DOMAIN Put(s, tag, prio) = DOMAIN s \cup {tag}
        /\ Put(s, tag, prio)[tag] = prio
        /\ \A t \in DOMAIN s : Put(s, tag, prio)[t] = s[t]
    BY <1>8 DEF Put
  <2>2. IsStack(Put(s, tag, prio))
    BY <1>3, <1>8, StacksStay
  <2>3. /\ IsFiniteSet(DOMAIN s \cup {tag})
        /\ Cardinality(DOMAIN s \cup {tag}) = Cardinality(DOMAIN s) + 1
    BY <1>8, FS_AddElement
  <2> QED BY <2>1, <2>2, <2>3
<1> HIDE DEF k, u, p, tag, prio, Good
<1>9. CASE /\ IsHit(set, entry) \/ Size(set) < NumWays
           /\ IsKnown(entry)
           /\ known = Put(Drop(k, tag), tag, prio)
           /\ unknown = u /\ pool = p
  <2> DEFINE d == Drop(k, tag)
  <2>1. /\ IsStack(d) /\ IsFiniteSet(DOMAIN d) /\ DOMAIN d = DOMAIN k \ {tag}
        /\ \A t \in DOMAIN d : d[t] = k[t]
        /\ Cardinality(DOMAIN d) = IF tag \in DOMAIN k THEN ck - 1 ELSE ck
    BY <1>7
  <2> HIDE DEF d
  <2>2. /\ IsStack(known) /\ IsFiniteSet(DOMAIN known)
        /\ DOMAIN known = DOMAIN d \cup {tag} /\ known[tag] = prio
        /\ \A t \in DOMAIN d : known[t] = d[t]
        /\ Cardinality(DOMAIN known) = Cardinality(DOMAIN d) + 1
    BY <1>8, <1>9, <2>1 DEF d
  <2>3. Cardinality(DOMAIN known) + cu <= NumWays
    BY <1>1, <1>5, <1>6, <1>9, <2>1, <2>2
  <2>4. \A t \in DOMAIN known : KMax - MaxRefs <= known[t]
    BY <1>1, <1>2, <1>9, <2>1, <2>2
  <2>5. DOMAIN known \cap DOMAIN u = {}
    BY <1>1, <1>4, <2>1, <2>2
  <2> QED BY <1>1, <1>9, <2>2, <2>3, <2>4, <2>5 DEF Good, cu
<1>10. CASE /\ IsHit(set, entry) \/ Size(set) < NumWays
            /\ ~IsKnown(entry)
            /\ known = Drop(k, tag)
            /\ unknown = Put(u, tag, prio) /\ pool = p
  <2>1. /\ IsStack(known) /\ IsFiniteSet(DOMAIN known) /\ DOMAIN known = DOMAIN k \ {tag}
        /\ \A t \in DOMAIN known : known[t] = k[t]
        /\ Cardinality(DOMAIN known) = IF tag \in DOMAIN k THEN ck - 1 ELSE ck
    BY <1>7, <1>10
  <2>2. /\ IsStack(unknown) /\ IsFiniteSet(DOMAIN unknown)
        /\ DOMAIN unknown = DOMAIN u \cup {tag} /\ unknown[tag] = prio
        /\ \A t \in DOMAIN u : unknown[t] = u[t]
        /\ Cardinality(DOMAIN unknown) = cu + 1
    BY <1>1, <1>4, <1>8, <1>10 DEF cu
  <2>3. Cardinality(DOMAIN known) + Cardinality(DOMAIN unknown) <= NumWays
    BY <1>1, <1>5, <1>6, <1>10, <2>1, <2>2
  <2>4. \A t \in DOMAIN unknown : -MaxRefs <= unknown[t]
    BY <1>1, <1>2, <1>10, <2>2
  <2>5. DOMAIN known \cap DOMAIN unknown = {}
    BY <1>1, <2>1, <2>2
  <2> QED BY <1>1, <1>10, <2>1, <2>2, <2>3, <2>4, <2>5 DEF Good
<1>11. CASE /\ ~IsHit(set, entry) /\ IsKnown(entry)
            /\ \E out \in DOMAIN k : known = Put(Drop(k, out), tag, prio)
            /\ unknown = u /\ pool = p
  <2>1. PICK out \in DOMAIN k : known = Put(Drop(k, out), tag, prio)
    BY <1>11
  <2> DEFINE d == Drop(k, out)
  <2>2. /\ IsStack(d) /\ IsFiniteSet(DOMAIN d) /\ DOMAIN d = DOMAIN k \ {out}
        /\ \A t \in DOMAIN d : d[t] = k[t]
        /\ Cardinality(DOMAIN d) = ck - 1
    BY <1>7
  <2> HIDE DEF d
  <2>3. tag \notin DOMAIN d
    BY <1>6, <1>11, <2>2
  <2>4. /\ IsStack(known) /\ IsFiniteSet(DOMAIN known)
        /\ DOMAIN known = DOMAIN d \cup {tag} /\ known[tag] = prio
        /\ \A t \in DOMAIN d : known[t] = d[t]
        /\ Cardinality(DOMAIN known) = Cardinality(DOMAIN d) + 1
    BY <1>8, <2>1, <2>2, <2>3 DEF d
  <2>5. Cardinality(DOMAIN known) + cu <= NumWays
    BY <1>1, <1>5, <2>2, <2>4
  <2>6. \A t \in DOMAIN known : KMax - MaxRefs <= known[t]
    BY <1>1, <1>2, <1>11, <2>2, <2>4
  <2>7. DOMAIN known \cap DOMAIN u = {}
    BY <1>1, <1>4, <2>2, <2>4
  <2> QED BY <1>1, <1>11, <2>4, <2>5, <2>6, <2>7 DEF Good, cu
<1>12. CASE /\ ~IsHit(set, entry) /\ IsKnown(entry)
            /\ \E out \in DOMAIN u : /\ known = Put(k, tag, prio)
                                     /\ unknown = Drop(u, out)
                                     /\ pool = Put(p, out, u[out])
  <2>1. PICK out \in DOMAIN u : /\ known = Put(k, tag, prio) /\ unknown = Drop(u, out)
                                /\ pool = Put(p, out, u[out])
    BY <1>12
  <2>2. /\ DOMAIN unknown = DOMAIN u \ {out} /\ \A t \in DOMAIN unknown : unknown[t] = u[t]
    BY <2>1 DEF Drop
  <2>3. /\ IsFiniteSet(DOMAIN u \ {out})
        /\ Cardinality(DOMAIN u \ {out}) = cu - 1
    BY <1>1, FS_RemoveElement DEF cu
  <2>4. IsStack(unknown) /\ IsStack(pool)
    <3>1. out \in Tags /\ u[out] \in Int
      BY <1>1 DEF IsStack
    <3> QED BY <1>1, <2>1, <3>1, StacksStay
  <2>5. /\ IsStack(known) /\ IsFiniteSet(DOMAIN known)
        /\ DOMAIN known = DOMAIN k \cup {tag} /\ known[tag] = prio
        /\ \A t \in DOMAIN k : known[t] = k[t]
        /\ Cardinality(DOMAIN known) = ck + 1
    BY <1>1, <1>6, <1>8, <1>12, <2>1 DEF ck
  <2>6. Cardinality(DOMAIN known) + Cardinality(DOMAIN unknown) <= NumWays
    BY <1>1, <1>5, <2>2, <2>3, <2>5
  <2>7. \A t \in DOMAIN known : KMax - MaxRefs <= known[t]
    BY <1>1, <1>2, <1>12, <2>5
  <2>8. \A t \in DOMAIN unknown : -MaxRefs <= unknown[t]
    BY <1>1, <2>2
  <2>9. DOMAIN known \cap DOMAIN unknown = {}
    BY <1>1, <1>4, <2>2, <2>5
  <2> QED BY <2>2, <2>3, <2>4, <2>5, <2>6, <2>7, <2>8, <2>9 DEF Good
<1>13. CASE known = k /\ unknown = u /\ pool = p
  BY <1>1, <1>13 DEF Good, ck, cu
<1>14. CASE known = k /\ unknown = u /\ pool = Put(p, tag, prio)
  <2>1. IsStack(pool)
    BY <1>1, <1>3, <1>14, StacksStay
  <2> QED BY <1>1, <1>14, <2>1 DEF Good, ck, cu
<1>15. \/ /\ IsHit(set, entry) \/ Size(set) < NumWays
          /\ IsKnown(entry)
          /\ known = Put(Drop(k, tag), tag, prio)
          /\ unknown = u /\ pool = p
       \/ /\ IsHit(set, entry) \/ Size(set) < NumWays
          /\ ~IsKnown(entry)
          /\ known = Drop(k, tag)
          /\ unknown = Put(u, tag, prio) /\ pool = p
       \/ /\ ~IsHit(set, entry) /\ IsKnown(entry)
          /\ \E out \in DOMAIN k : known = Put(Drop(k, out), tag, prio)
          /\ unknown = u /\ pool = p
       \/ /\ ~IsHit(set, entry) /\ IsKnown(entry)
          /\ \E out \in DOMAIN u : /\ known = Put(k, tag, prio)
                                   /\ unknown = Drop(u, out)
                                   /\ pool = Put(p, out, u[out])
       \/ known = k /\ unknown = u /\ pool = p
       \/ known = k /\ unknown = u /\ pool = Put(p, tag, prio)
  BY DEF Decided, k, u, p, tag, prio
<1> QED BY <1>9, <1>10, <1>11, <1>12, <1>13, <1>14, <1>15

(* And the stacks agree with what is left of the trace.                    *)
LEMMA DecidedKnows ==
    ASSUME NEW set, SetInv(set), set.lookahead_trace_ # << >>,
           NEW entry, entry = set.lookahead_trace_[1],
           NEW known, NEW unknown, NEW pool, Decided(set, entry, known, unknown, pool)
    PROVE  /\ KnownOK(known, Tail(set.lookahead_trace_), set.ref_id_)
           /\ UnknownOK(unknown, Tail(set.lookahead_trace_))
<1> DEFINE k == set.known_tags_
           u == set.unknown_tags_
           p == set.unknown_tags_pool_
           trace == set.lookahead_trace_
           ref == set.ref_id_
           tag == entry.tag
           prio == entry.priority
           rest == Tail(trace)
           Fine(t, priority) ==
             \E j : FirstAfter(rest, 0, t, j) /\ priority = KMax - RefAt(rest, ref, j)
<1>1. /\ IsTrace(trace, ref) /\ Linked(trace, ref) /\ trace # << >>
      /\ KnownOK(k, trace, ref) /\ UnknownOK(u, trace)
  BY DEF SetInv
<1>2. entry = trace[1] /\ (IsHit(set, entry) <=> tag \in DOMAIN k)
  BY DEF IsHit
<1>3. \/ known = Put(Drop(k, tag), tag, prio) /\ unknown = u /\ IsKnown(entry)
      \/ known = Drop(k, tag) /\ unknown = Put(u, tag, prio) /\ ~IsKnown(entry)
      \/ /\ tag \notin DOMAIN k /\ IsKnown(entry) /\ unknown = u
         /\ \E out \in DOMAIN k : known = Put(Drop(k, out), tag, prio)
      \/ /\ tag \notin DOMAIN k /\ IsKnown(entry) /\ known = Put(k, tag, prio)
         /\ \E out \in DOMAIN u : unknown = Drop(u, out)
      \/ tag \notin DOMAIN k /\ known = k /\ unknown = u
  BY <1>2 DEF Decided
<1> HIDE DEF k, u, trace, ref
<1>4. ASSUME NEW t \in DOMAIN k, t # tag PROVE Fine(t, k[t])
  <2>1. PICK j : FirstAfter(trace, 0, t, j) /\ k[t] = KMax - RefAt(trace, ref, j)
    BY <1>1 DEF KnownOK
  <2>2. FirstAfter(rest, 0, t, j - 1) /\ RefAt(rest, ref, j - 1) = RefAt(trace, ref, j)
    <3>1. t # trace[1].tag
      BY <1>2, <1>4
    <3>2. \A i : FirstAfter(trace, 0, t, i) =>
                /\ FirstAfter(rest, 0, t, i - 1)
                /\ RefAt(rest, ref, i - 1) = RefAt(trace, ref, i)
      BY <1>1, <3>1, TailKnown
    <3> QED BY <2>1, <3>2
  <2> QED BY <2>1, <2>2
<1>5. ASSUME NEW t \in DOMAIN u PROVE NoneAfter(rest, 0, t)
  <2>1. NoneAfter(trace, 0, t)
    BY <1>1 DEF UnknownOK
  <2> QED BY <1>1, <2>1, TailKnown
<1>6. IsKnown(entry) => Fine(tag, prio)
  BY <1>1, <1>2, TailKnown
<1>7. ~IsKnown(entry) => NoneAfter(rest, 0, tag)
  BY <1>1, <1>2, TailKnown
<1> HIDE DEF rest, Fine, tag, prio
<1>8. /\ \A t \in DOMAIN known : Fine(t, known[t])
      /\ \A t \in DOMAIN unknown : NoneAfter(rest, 0, t)
  <2>1. CASE known = Put(Drop(k, tag), tag, prio) /\ unknown = u /\ IsKnown(entry)
    <3>1. /\ DOMAIN known = DOMAIN k \cup {tag} /\ known[tag] = prio
          /\ \A t \in DOMAIN k : t # tag => known[t] = k[t]
      BY <2>1 DEF Put, Drop
    <3> QED BY <1>4, <1>5, <1>6, <2>1, <3>1
  <2>2. CASE known = Drop(k, tag) /\ unknown = Put(u, tag, prio) /\ ~IsKnown(entry)
    <3>1. /\ DOMAIN known = DOMAIN k \ {tag}
          /\ \A t \in DOMAIN known : known[t] = k[t]
          /\ DOMAIN unknown = DOMAIN u \cup {tag}
      BY <2>2 DEF Put, Drop
    <3> QED BY <1>4, <1>5, <1>7, <2>2, <3>1
  <2>3. CASE /\ tag \notin DOMAIN k /\ IsKnown(entry) /\ unknown = u
             /\ \E out \in DOMAIN k : known = Put(Drop(k, out), tag, prio)
    <3>1. PICK out \in DOMAIN k : known = Put(Drop(k, out), tag, prio)
      BY <2>3
    <3>2. /\ DOMAIN known \subseteq DOMAIN k \cup {tag} /\ known[tag] = prio
          /\ \A t \in DOMAIN known : t # tag => known[t] = k[t]
      BY <3>1 DEF Put, Drop
    <3> QED BY <1>4, <1>5, <1>6, <2>3, <3>2
  <2>4. CASE /\ tag \notin DOMAIN k /\ IsKnown(entry) /\ known = Put(k, tag, prio)
             /\ \E out \in DOMAIN u : unknown = Drop(u, out)
    <3>1. /\ DOMAIN known = DOMAIN k \cup {tag} /\ known[tag] = prio
          /\ \A t \in DOMAIN k : t # tag => known[t] = k[t]
          /\ DOMAIN unknown \subseteq DOMAIN u
      BY <2>4 DEF Put, Drop
    <3> QED BY <1>4, <1>5, <1>6, <2>4, <3>1
  <2>5. CASE tag \notin DOMAIN k /\ known = k /\ unknown = u
    BY <1>4, <1>5, <2>5
  <2> QED BY <1>3, <2>1, <2>2, <2>3, <2>4, <2>5, Zenon
<1> QED BY <1>8 DEF KnownOK, UnknownOK, Fine, rest, trace, ref

(* The set after an iteration of Process about it.                         *)
Iterated(set) ==
    [ClearPool(Decide(set, Head(set.lookahead_trace_))) EXCEPT !.lookahead_trace_ = Tail(@)]

(* An iteration decides, may clear the pool, and removes the front entry.  *)
LEMMA IterationDoes ==
    ASSUME NEW set, SetInv(set), set.lookahead_trace_ # << >>
    PROVE  \E known, unknown, pool, kept :
              /\ Iterated(set) = SetOf(known, unknown, kept, Tail(set.lookahead_trace_),
                                       set.lookahead_ref_count_, set.ref_id_)
              /\ Decided(set, set.lookahead_trace_[1], known, unknown, pool)
              /\ kept = pool \/ (kept = EmptyStack /\ DOMAIN unknown = {})
<1> DEFINE trace == set.lookahead_trace_
           ref == set.ref_id_
           c == set.lookahead_ref_count_
           entry == trace[1]
           decided == Decide(set, entry)
           Result(known, unknown, pool, kept) ==
              /\ Iterated(set) = SetOf(known, unknown, kept, Tail(trace), c, ref)
              /\ Decided(set, entry, known, unknown, pool)
              /\ kept = pool \/ (kept = EmptyStack /\ DOMAIN unknown = {})
<1>1. PICK known, unknown, pool :
         /\ decided = SetOf(known, unknown, pool, trace, c, ref)
         /\ Decided(set, entry, known, unknown, pool)
  <2>1. Size(set) \in Int /\ NumWays \in Int
    BY FS_CardinalityType, OptAssumption DEF SetInv, Fits, Size
  <2>2. CASE IsHit(set, entry) \/ Size(set) < NumWays
    BY <2>2, KeepDoes
  <2>3. CASE ~IsHit(set, entry) /\ Size(set) >= NumWays
    BY <2>3, ReplaceDoes
  <2> QED BY <2>1, <2>2, <2>3
<1>2. Head(trace) = entry
  BY DEF SetInv, IsTrace
<1>3. Iterated(set) = [ClearPool(decided) EXCEPT !.lookahead_trace_ = Tail(@)]
  BY <1>2 DEF Iterated
<1> HIDE DEF decided, entry
<1> DEFINE kept == IF DOMAIN unknown = {} THEN EmptyStack ELSE pool
<1>4. ClearPool(decided) = SetOf(known, unknown, kept, trace, c, ref)
  <2>1. decided.unknown_tags_ = unknown
    BY <1>1 DEF SetOf
  <2>2. CASE DOMAIN unknown = {}
    <3>1. ClearPool(decided) = WithPool(decided, EmptyStack)
      BY <2>1, <2>2 DEF ClearPool, WithPool
    <3>2. WithPool(decided, EmptyStack) = SetOf(known, unknown, EmptyStack, trace, c, ref)
      BY <1>1, AssignPool
    <3> QED BY <2>2, <3>1, <3>2
  <2>3. CASE DOMAIN unknown # {}
    BY <1>1, <2>1, <2>3 DEF ClearPool
  <2> QED BY <2>2, <2>3
<1>5. (ClearPool(decided)).lookahead_trace_ = trace
  BY <1>4 DEF SetOf
<1>6. Iterated(set) = WithTrace(ClearPool(decided), Tail(trace))
  BY <1>3, <1>5 DEF WithTrace
<1>7. Iterated(set) = SetOf(known, unknown, kept, Tail(trace), c, ref)
  BY <1>4, <1>6, AssignTrace
<1>8. kept = pool \/ (kept = EmptyStack /\ DOMAIN unknown = {})
  OBVIOUS
<1> HIDE DEF kept
<1>9. Result(known, unknown, pool, kept)
  BY <1>1, <1>7, <1>8
<1> HIDE DEF Result
<1>10. \E kn, un, po, ke : Result(kn, un, po, ke)
  BY <1>9
<1> QED BY <1>10 DEF Result, entry

(* An iteration keeps the invariant of its set.                            *)
LEMMA IterationKeeps ==
    ASSUME NEW set, SetInv(set), set.lookahead_trace_ # << >>
    PROVE  /\ SetInv(Iterated(set))
           /\ (Iterated(set)).ref_id_ = set.ref_id_
           /\ (Iterated(set)).lookahead_ref_count_ = set.lookahead_ref_count_
           /\ (Iterated(set)).lookahead_trace_ = Tail(set.lookahead_trace_)
<1> DEFINE trace == set.lookahead_trace_
           ref == set.ref_id_
           c == set.lookahead_ref_count_
           entry == trace[1]
           rest == Tail(trace)
           new == Iterated(set)
<1>1. PICK known, unknown, pool, kept :
              /\ new = SetOf(known, unknown, kept, rest, c, ref)
              /\ Decided(set, entry, known, unknown, pool)
              /\ kept = pool \/ (kept = EmptyStack /\ DOMAIN unknown = {})
  BY IterationDoes
<1>2. /\ IsTrace(trace, ref) /\ Linked(trace, ref) /\ c \in Nat /\ ref \in Nat
      /\ trace # << >>
  <2>1. IsSet(set) /\ IsTrace(trace, ref) /\ Linked(trace, ref)
    BY DEF SetInv
  <2> QED BY <2>1 DEF IsSet
<1>3. /\ IsStack(known) /\ IsStack(unknown) /\ IsStack(pool)
      /\ IsFiniteSet(DOMAIN known) /\ IsFiniteSet(DOMAIN unknown)
      /\ Cardinality(DOMAIN known) + Cardinality(DOMAIN unknown) <= NumWays
      /\ DOMAIN known \cap DOMAIN unknown = {}
      /\ \A t \in DOMAIN unknown : -MaxRefs <= unknown[t]
      /\ \A t \in DOMAIN known : KMax - MaxRefs <= known[t]
  BY <1>1, DecidedFits
<1>4. KnownOK(known, rest, ref) /\ UnknownOK(unknown, rest)
  BY <1>1, DecidedKnows
<1>5. IsStack(kept)
  <2>1. IsStack(EmptyStack)
    BY DEF EmptyStack, IsStack
  <2> QED BY <1>1, <1>3, <2>1
<1> HIDE DEF trace, ref, c, entry, new
<1>6. Linked(rest, ref) /\ IsTrace(rest, ref)
  BY <1>2, TailLinked
<1> HIDE DEF rest
<1>7. /\ new.known_tags_ = known /\ new.unknown_tags_ = unknown
      /\ new.unknown_tags_pool_ = kept /\ new.lookahead_trace_ = rest
      /\ new.lookahead_ref_count_ = c /\ new.ref_id_ = ref
  BY <1>1 DEF SetOf
<1>8. rest \in Seq(EntryType)
  BY <1>6 DEF IsTrace
<1>9. IsSet(new)
  BY <1>1, <1>2, <1>3, <1>5, <1>7, <1>8 DEF IsSet, SetOf
<1>10. SetInv(new)
  BY <1>3, <1>4, <1>6, <1>7, <1>9 DEF SetInv, Fits, Size
<1> QED BY <1>7, <1>10 DEF new, trace, ref, c, rest

(* A decision leaves the set right about when its lines were last used.    *)
LEMMA DecidedUsed ==
    ASSUME NEW set, SetInv(set), set.lookahead_trace_ # << >>,
           NEW entry, entry = set.lookahead_trace_[1],
           NEW known, NEW unknown, NEW pool, Decided(set, entry, known, unknown, pool),
           NEW use, UsedSet(set, use)
    PROVE  UsedOK(unknown, pool, Tail(set.lookahead_trace_), set.ref_id_, use)
<1> DEFINE u == set.unknown_tags_
           p == set.unknown_tags_pool_
           trace == set.lookahead_trace_
           ref == set.ref_id_
           tag == entry.tag
           prio == entry.priority
           rest == Tail(trace)
<1>1. /\ IsTrace(trace, ref) /\ Linked(trace, ref) /\ trace # << >>
      /\ UnknownOK(u, trace) /\ UsedOK(u, p, trace, ref, use)
  BY DEF SetInv, UsedSet
<1>2. \/ IsKnown(entry) /\ unknown = u /\ pool = p
      \/ ~IsKnown(entry) /\ unknown = Put(u, tag, prio) /\ pool = p
      \/ /\ IsKnown(entry)
         /\ \E out \in DOMAIN u : unknown = Drop(u, out) /\ pool = Put(p, out, u[out])
      \/ ~IsKnown(entry) /\ unknown = u /\ pool = Put(p, tag, prio)
  BY DEF Decided, u, p
<1>3. /\ Len(trace) \in Nat /\ Len(trace) > 0 /\ 1 \in DOMAIN trace /\ 0 \in Nat /\ 1 \in Nat
      /\ entry = trace[1] /\ DOMAIN trace = 1 .. Len(trace)
      /\ DOMAIN rest = 1 .. Len(trace) - 1
      /\ \A k \in 1 .. Len(trace) - 1 : rest[k] = trace[k + 1]
  BY <1>1 DEF IsTrace
<1> HIDE DEF u, p, trace, ref
<1>4. ASSUME NEW t, NoneAfter(rest, 0, t)
      PROVE  /\ t # tag => NoneAfter(trace, 0, t)
             /\ t = tag => ~IsKnown(entry)
  <2>1. NoneAfter(trace, 0 + 1, t)
    BY <1>1, <1>3, <1>4, TailShifts
  <2>2. ASSUME t # tag PROVE NoneAfter(trace, 0, t)
    <3>1. \A k \in 0 + 1 .. Len(trace) : k = 1 \/ k \in (0 + 1) + 1 .. Len(trace)
      BY <1>3
    <3> QED BY <1>3, <2>1, <2>2, <3>1 DEF NoneAfter
  <2>3. ASSUME t = tag PROVE ~IsKnown(entry)
    <3>1. NoneAfter(trace, 1, trace[1].tag)
      BY <1>3, <2>1, <2>3
    <3> QED BY <1>1, <1>3, <3>1, WaitingIsLast
  <2> QED BY <2>2, <2>3
<1>5. ~IsKnown(entry) => prio = -use[tag]
  <2>1. SUFFICES ASSUME ~IsKnown(entry) PROVE prio = -use[tag]
    OBVIOUS
  <2>2. NoneAfter(trace, 1, trace[1].tag)
    BY <1>1, <1>3, <2>1, WaitingIsLast
  <2>3. prio = -RefAt(trace, ref, 1)
    BY <1>1, <1>3, <2>2 DEF Linked
  <2>4. use[tag] = RefAt(trace, ref, 1)
    BY <1>1, <1>3, <2>2 DEF UsedOK
  <2> QED BY <2>3, <2>4
<1>6. tag \in DOMAIN use
  BY <1>1, <1>3 DEF UsedOK
<1>7. \A i \in DOMAIN rest :
         /\ rest[i].tag \in DOMAIN use
         /\ NoneAfter(rest, i, rest[i].tag) => use[rest[i].tag] = RefAt(rest, ref, i)
  <2>1. SUFFICES ASSUME NEW i \in DOMAIN rest
                 PROVE  /\ rest[i].tag \in DOMAIN use
                        /\ NoneAfter(rest, i, rest[i].tag) =>
                             use[rest[i].tag] = RefAt(rest, ref, i)
    OBVIOUS
  <2>2. i \in Nat /\ i \in Int /\ i + 1 \in DOMAIN trace /\ rest[i] = trace[i + 1]
    BY <1>3
  <2>3. trace[i + 1].tag \in DOMAIN use
    BY <1>1, <2>2 DEF UsedOK
  <2>4. ASSUME NoneAfter(rest, i, rest[i].tag) PROVE use[rest[i].tag] = RefAt(rest, ref, i)
    <3>1. NoneAfter(trace, i + 1, rest[i].tag) /\ RefAt(rest, ref, i) = RefAt(trace, ref, i + 1)
      BY <1>1, <2>2, <2>4, TailShifts
    <3>2. use[trace[i + 1].tag] = RefAt(trace, ref, i + 1)
      BY <1>1, <2>2, <3>1 DEF UsedOK
    <3> QED BY <2>2, <3>1, <3>2
  <2> QED BY <2>2, <2>3, <2>4
<1>8. /\ DOMAIN u \subseteq DOMAIN use /\ DOMAIN p \subseteq DOMAIN use
      /\ \A t \in DOMAIN u : u[t] = -use[t]
      /\ \A t \in DOMAIN p : t \notin DOMAIN u /\ NoneAfter(trace, 0, t) => p[t] = -use[t]
  BY <1>1 DEF UsedOK
<1> HIDE DEF rest, tag, prio
<1>9. /\ DOMAIN unknown \subseteq DOMAIN use /\ DOMAIN pool \subseteq DOMAIN use
      /\ \A t \in DOMAIN unknown : unknown[t] = -use[t]
      /\ \A t \in DOMAIN pool :
            t \notin DOMAIN unknown /\ NoneAfter(rest, 0, t) => pool[t] = -use[t]
  <2>1. CASE IsKnown(entry) /\ unknown = u /\ pool = p
    BY <1>4, <1>8, <2>1
  <2>2. CASE ~IsKnown(entry) /\ unknown = Put(u, tag, prio) /\ pool = p
    <3>1. /\ DOMAIN unknown = DOMAIN u \cup {tag} /\ unknown[tag] = prio
          /\ \A t \in DOMAIN u : t # tag => unknown[t] = u[t]
      BY <2>2 DEF Put, Drop
    <3>2. \A t \in DOMAIN unknown : unknown[t] = -use[t]
      BY <1>5, <1>8, <2>2, <3>1
    <3>3. \A t \in DOMAIN pool :
            t \notin DOMAIN unknown /\ NoneAfter(rest, 0, t) => pool[t] = -use[t]
      BY <1>4, <1>8, <2>2, <3>1
    <3> QED BY <1>6, <1>8, <2>2, <3>1, <3>2, <3>3
  <2>3. CASE /\ IsKnown(entry)
             /\ \E out \in DOMAIN u : unknown = Drop(u, out) /\ pool = Put(p, out, u[out])
    <3>1. PICK out \in DOMAIN u : unknown = Drop(u, out) /\ pool = Put(p, out, u[out])
      BY <2>3
    <3>2. /\ DOMAIN unknown = DOMAIN u \ {out}
          /\ \A t \in DOMAIN u : t # out => unknown[t] = u[t]
          /\ DOMAIN pool = DOMAIN p \cup {out} /\ pool[out] = u[out]
          /\ \A t \in DOMAIN p : t # out => pool[t] = p[t]
      BY <3>1 DEF Put, Drop
    <3>3. ASSUME NEW t \in DOMAIN pool, t \notin DOMAIN unknown, NoneAfter(rest, 0, t)
          PROVE  pool[t] = -use[t]
      <4>1. CASE t = out
        BY <1>8, <3>2, <4>1
      <4>2. CASE t # out
        <5>1. NoneAfter(trace, 0, t)
          BY <1>4, <2>3, <3>3
        <5> QED BY <1>8, <3>2, <3>3, <4>2, <5>1
      <4> QED BY <4>1, <4>2
    <3> QED BY <1>8, <3>2, <3>3
  <2>4. CASE ~IsKnown(entry) /\ unknown = u /\ pool = Put(p, tag, prio)
    <3>1. /\ DOMAIN pool = DOMAIN p \cup {tag} /\ pool[tag] = prio
          /\ \A t \in DOMAIN p : t # tag => pool[t] = p[t]
      BY <2>4 DEF Put, Drop
    <3>2. ASSUME NEW t \in DOMAIN pool, t \notin DOMAIN unknown, NoneAfter(rest, 0, t)
          PROVE  pool[t] = -use[t]
      <4>1. CASE t = tag
        BY <1>5, <2>4, <3>1, <4>1
      <4>2. CASE t # tag
        <5>1. NoneAfter(trace, 0, t)
          BY <1>4, <3>2, <4>2
        <5> QED BY <1>8, <2>4, <3>1, <3>2, <4>2, <5>1
      <4> QED BY <4>1, <4>2
    <3> QED BY <1>6, <1>8, <2>4, <3>1, <3>2
  <2> QED BY <1>2, <2>1, <2>2, <2>3, <2>4 DEF tag, prio
<1>10. UsedOK(unknown, pool, rest, ref, use)
  BY <1>7, <1>9 DEF UsedOK
<1> QED BY <1>10 DEF rest, trace, ref

(* So does an iteration.                                                   *)
LEMMA IterationUsed ==
    ASSUME NEW set, SetInv(set), set.lookahead_trace_ # << >>, NEW use, UsedSet(set, use)
    PROVE  UsedSet(Iterated(set), use)
<1> DEFINE trace == set.lookahead_trace_
           ref == set.ref_id_
           c == set.lookahead_ref_count_
           rest == Tail(trace)
           new == Iterated(set)
<1>1. PICK known, unknown, pool, kept :
              /\ new = SetOf(known, unknown, kept, rest, c, ref)
              /\ Decided(set, trace[1], known, unknown, pool)
              /\ kept = pool \/ (kept = EmptyStack /\ DOMAIN unknown = {})
  BY IterationDoes
<1>2. UsedOK(unknown, pool, rest, ref, use)
  BY <1>1, DecidedUsed
<1>3. UsedOK(unknown, kept, rest, ref, use)
  <2>1. DOMAIN EmptyStack = {}
    BY DEF EmptyStack
  <2> HIDE DEF rest
  <2> QED BY <1>1, <1>2, <2>1 DEF UsedOK
<1> HIDE DEF new, rest
<1>4. /\ new.unknown_tags_ = unknown /\ new.unknown_tags_pool_ = kept
      /\ new.lookahead_trace_ = rest /\ new.ref_id_ = ref
  BY <1>1 DEF SetOf
<1> QED BY <1>3, <1>4 DEF UsedSet, new

-----------------------------------------------------------------------------
(* Choices.  What the history variable of OptimalReference says: which     *)
(* lines other choices could have left resident, and at what cost.         *)

(* A cost function of sets of lines that fit.                              *)
Purse(paid, lines) ==
    /\ DOMAIN paid # {}
    /\ \A r \in DOMAIN paid :
          /\ r \subseteq lines /\ IsFiniteSet(r) /\ Cardinality(r) <= NumWays
          /\ paid[r] \in Nat

(* What a choice pays for a reference to tag.                              *)
Pays(paid, r, tag) == paid[r] + B2I(tag \notin r)

(* Any outcome fits, whatever was resident.                                *)
LEMMA OutcomesFit ==
    ASSUME NEW lines, NEW r \in SUBSET lines, IsFiniteSet(r), Cardinality(r) <= NumWays,
           NEW tag \in lines, NEW o \in Outcomes(r, tag)
    PROVE  /\ o \subseteq lines /\ IsFiniteSet(o) /\ Cardinality(o) <= NumWays
           /\ tag \in r => o = r
           /\ tag \notin r => o \ {tag} \subseteq r
<1>1. NumWays \in Nat
  BY OptAssumption
<1>2. CASE o = r
  BY <1>2
<1>3. CASE o # r
  <2>1. tag \notin r
    BY <1>3 DEF Outcomes
  <2>2. PICK k \in SUBSET r : o = k \cup {tag} /\ Cardinality(k) < NumWays
    BY <1>3, <2>1 DEF Outcomes
  <2>3. IsFiniteSet(k) /\ Cardinality(k) \in Nat
    BY FS_Subset, FS_CardinalityType
  <2>4. IsFiniteSet(o) /\ Cardinality(o) = Cardinality(k) + 1
    BY <2>1, <2>2, <2>3, FS_AddElement
  <2>5. Cardinality(o) <= NumWays
    BY <1>1, <2>2, <2>3, <2>4
  <2> QED BY <2>1, <2>2, <2>4, <2>5
<1> QED BY <1>2, <1>3

(* What can follow a choice: staying as it is, always,                     *)
LEMMA OutcomeStays ==
    ASSUME NEW r, NEW tag
    PROVE  r \in Outcomes(r, tag)
BY DEF Outcomes

(* or letting the line in beside any lines of its own that leave room.     *)
LEMMA OutcomeLetsIn ==
    ASSUME NEW r, NEW tag, tag \notin r, NEW k \in SUBSET r, Cardinality(k) < NumWays
    PROVE  k \cup {tag} \in Outcomes(r, tag)
BY DEF Outcomes

(* The cost function after a reference is the least that leads there.      *)
LEMMA CostAfterIs ==
    ASSUME NEW lines, NEW paid, Purse(paid, lines), NEW tag \in lines
    PROVE  LET after == CostAfter(paid, tag)
           IN  /\ Purse(after, lines)
               /\ \A o \in DOMAIN after : \E r \in DOMAIN paid :
                     o \in Outcomes(r, tag) /\ after[o] = Pays(paid, r, tag)
               /\ \A r \in DOMAIN paid : \A o \in Outcomes(r, tag) :
                     o \in DOMAIN after /\ after[o] <= Pays(paid, r, tag)
<1> DEFINE after == CostAfter(paid, tag)
           From(o) == {q \in DOMAIN paid : o \in Outcomes(q, tag)}
           Costs(o) == {Pays(paid, r, tag) : r \in From(o)}
<1>1. /\ DOMAIN after = UNION {Outcomes(r, tag) : r \in DOMAIN paid}
      /\ \A o \in DOMAIN after : after[o] = Min(Costs(o))
  BY DEF CostAfter, Pays
<1>2. \A r \in DOMAIN paid : Pays(paid, r, tag) \in Nat
  <2>1. \A b \in BOOLEAN : B2I(b) \in Nat
    BY DEF B2I
  <2>2. SUFFICES ASSUME NEW r \in DOMAIN paid PROVE Pays(paid, r, tag) \in Nat
    OBVIOUS
  <2>3. paid[r] \in Nat
    BY DEF Purse
  <2>4. B2I(tag \notin r) \in Nat
    BY DEF B2I
  <2> QED BY <2>3, <2>4 DEF Pays
<1> HIDE DEF after
<1>3. ASSUME NEW o \in DOMAIN after
      PROVE  \E r \in From(o) : /\ after[o] = Pays(paid, r, tag)
                                /\ \A q \in From(o) : after[o] <= Pays(paid, q, tag)
  <2>1. \E r \in DOMAIN paid : o \in Outcomes(r, tag)
    BY <1>1
  <2>2. Costs(o) \in SUBSET Nat /\ Costs(o) # {}
    BY <1>2, <2>1
  <2>3. PICK x \in Costs(o) : \A y \in Costs(o) : x <= y
    <3> HIDE DEF Costs
    <3> QED BY <2>2, LeastNatural
  <2>4. Costs(o) \in SUBSET Int
    BY <2>2
  <2>5. Min(Costs(o)) = x
    <3> HIDE DEF Costs
    <3> QED BY <2>3, <2>4, MinIs
  <2>6. PICK r \in From(o) : x = Pays(paid, r, tag)
    BY <2>3
  <2>7. \A q \in From(o) : x <= Pays(paid, q, tag)
    BY <2>3
  <2> QED BY <1>1, <2>5, <2>6, <2>7
<1>4. ASSUME NEW r \in DOMAIN paid, NEW o \in Outcomes(r, tag)
      PROVE  o \in DOMAIN after /\ after[o] <= Pays(paid, r, tag)
  BY <1>1, <1>3
<1>5. Purse(after, lines)
  <2>1. DOMAIN after # {}
    BY <1>1, OutcomeStays DEF Purse
  <2>2. ASSUME NEW o \in DOMAIN after
        PROVE  /\ o \subseteq lines /\ IsFiniteSet(o) /\ Cardinality(o) <= NumWays
               /\ after[o] \in Nat
    <3>1. PICK r \in DOMAIN paid : o \in Outcomes(r, tag) /\ after[o] = Pays(paid, r, tag)
      BY <1>3
    <3>2. r \in SUBSET lines /\ IsFiniteSet(r) /\ Cardinality(r) <= NumWays
      BY DEF Purse
    <3>3. o \subseteq lines /\ IsFiniteSet(o) /\ Cardinality(o) <= NumWays
      BY <3>1, <3>2, OutcomesFit
    <3> QED BY <1>2, <3>1, <3>3
  <2> QED BY <2>1, <2>2 DEF Purse
<1> QED BY <1>3, <1>4, <1>5 DEF after

-----------------------------------------------------------------------------
(* Ranks.  Which line is worth more: a set of lines is compared with       *)
(* another by how many lines of at least a certain rank each of them has.  *)

Above(rank, lines, theta) == {x \in lines : rank[x] >= theta}
Many(rank, lines, theta) == Cardinality(Above(rank, lines, theta))

(* Lines of a finite set are so many, and not more than all.               *)
LEMMA ManyIs ==
    ASSUME NEW seen, NEW rank \in [seen -> Int], NEW X \in SUBSET seen, IsFiniteSet(X),
           NEW theta \in Int
    PROVE  /\ Many(rank, X, theta) \in Nat /\ Cardinality(X) \in Nat
           /\ Many(rank, X, theta) <= Cardinality(X)
           /\ (\A x \in X : rank[x] >= theta) => Many(rank, X, theta) = Cardinality(X)
           /\ (\A x \in X : ~(rank[x] >= theta)) => Many(rank, X, theta) = 0
<1>1. Above(rank, X, theta) \in SUBSET X
  BY DEF Above
<1>2. /\ IsFiniteSet(Above(rank, X, theta))
      /\ Cardinality(Above(rank, X, theta)) <= Cardinality(X)
  BY <1>1, FS_Subset
<1>3. Cardinality(Above(rank, X, theta)) \in Nat /\ Cardinality(X) \in Nat
  BY <1>2, FS_CardinalityType
<1>4. (\A x \in X : rank[x] >= theta) => Above(rank, X, theta) = X
  BY DEF Above
<1>5. (\A x \in X : ~(rank[x] >= theta)) => Above(rank, X, theta) = {}
  BY DEF Above
<1> QED BY <1>2, <1>3, <1>4, <1>5, FS_EmptySet DEF Many

(* One line more is one more above what it ranks.                          *)
LEMMA ManyAdd ==
    ASSUME NEW seen, NEW rank \in [seen -> Int], NEW X \in SUBSET seen, IsFiniteSet(X),
           NEW x \in seen, x \notin X, NEW theta \in Int
    PROVE  /\ rank[x] >= theta => Many(rank, X \cup {x}, theta) = Many(rank, X, theta) + 1
           /\ ~(rank[x] >= theta) => Many(rank, X \cup {x}, theta) = Many(rank, X, theta)
<1>1. IsFiniteSet(Above(rank, X, theta)) /\ x \notin Above(rank, X, theta)
  BY FS_Subset DEF Above
<1>2. rank[x] >= theta => Above(rank, X \cup {x}, theta) = Above(rank, X, theta) \cup {x}
  BY DEF Above
<1>3. ~(rank[x] >= theta) => Above(rank, X \cup {x}, theta) = Above(rank, X, theta)
  BY DEF Above
<1>4. Cardinality(Above(rank, X, theta) \cup {x}) = Cardinality(Above(rank, X, theta)) + 1
  BY <1>1, FS_AddElement
<1> QED BY <1>2, <1>3, <1>4 DEF Many

(* One line less is one less above what it ranked.                         *)
LEMMA ManyDrop ==
    ASSUME NEW seen, NEW rank \in [seen -> Int], NEW X \in SUBSET seen, IsFiniteSet(X),
           NEW x \in X, NEW theta \in Int
    PROVE  /\ rank[x] >= theta => Many(rank, X, theta) = Many(rank, X \ {x}, theta) + 1
           /\ ~(rank[x] >= theta) => Many(rank, X, theta) = Many(rank, X \ {x}, theta)
           /\ IsFiniteSet(X \ {x}) /\ Many(rank, X \ {x}, theta) \in Nat
<1> DEFINE Y == X \ {x}
<1>1. IsFiniteSet(Y) /\ x \notin Y /\ X = Y \cup {x}
  BY FS_Subset
<1>2. Many(rank, Y, theta) \in Nat
  BY <1>1, ManyIs
<1> HIDE DEF Y
<1>3. /\ rank[x] >= theta => Many(rank, X, theta) = Many(rank, Y, theta) + 1
      /\ ~(rank[x] >= theta) => Many(rank, X, theta) = Many(rank, Y, theta)
  BY <1>1, ManyAdd
<1> QED BY <1>1, <1>2, <1>3 DEF Y

(* The same as a number: what a line counts for above theta.               *)
Reaches(rank, x, theta) == B2I(rank[x] >= theta)

(* It counts for one line or none.                                         *)
LEMMA ReachesIs ==
    ASSUME NEW seen, NEW rank \in [seen -> Int], NEW x \in seen, NEW theta \in Int
    PROVE  /\ rank[x] >= theta => Reaches(rank, x, theta) = 1
           /\ rank[x] < theta => Reaches(rank, x, theta) = 0
BY DEF Reaches, B2I

(* A line less.                                                            *)
LEMMA ManyLess ==
    ASSUME NEW seen, NEW rank \in [seen -> Int], NEW X \in SUBSET seen, IsFiniteSet(X),
           NEW x \in X, NEW theta \in Int
    PROVE  Many(rank, X, theta) = Many(rank, X \ {x}, theta) + Reaches(rank, x, theta)
<1>1. Many(rank, X \ {x}, theta) \in Nat /\ x \in seen
  BY ManyDrop
<1>2. CASE rank[x] >= theta
  <2>1. Reaches(rank, x, theta) = 1
    BY <1>1, <1>2, ReachesIs
  <2>2. Many(rank, X, theta) = Many(rank, X \ {x}, theta) + 1
    BY <1>2, ManyDrop
  <2> QED BY <2>1, <2>2
<1>3. CASE ~(rank[x] >= theta)
  <2>1. rank[x] < theta
    BY <1>1, <1>3
  <2>2. Reaches(rank, x, theta) = 0
    BY <1>1, <2>1, ReachesIs
  <2>3. Many(rank, X, theta) = Many(rank, X \ {x}, theta)
    BY <1>3, ManyDrop
  <2> QED BY <1>1, <2>2, <2>3
<1> QED BY <1>2, <1>3

(* Of lines that are above something else when they are above theta there  *)
(* are no fewer above that.                                                *)
LEMMA ManyGrows ==
    ASSUME NEW seen, NEW rank \in [seen -> Int], NEW more, NEW other \in [more -> Int],
           NEW X \in SUBSET more, NEW Y \in SUBSET seen, IsFiniteSet(Y),
           NEW theta \in Int, NEW eta \in Int,
           \A x \in X : other[x] >= theta => x \in Y /\ rank[x] >= eta
    PROVE  Many(other, X, theta) <= Many(rank, Y, eta)
<1>1. Above(other, X, theta) \in SUBSET Above(rank, Y, eta)
  BY DEF Above
<1>2. IsFiniteSet(Above(rank, Y, eta))
  BY FS_Subset DEF Above
<1> QED BY <1>1, <1>2, FS_Subset DEF Many

(* Ranks of other lines do not matter.                                     *)
LEMMA ManySame ==
    ASSUME NEW seen, NEW rank \in [seen -> Int], NEW more, NEW other \in [more -> Int],
           NEW X \in SUBSET (seen \cap more), \A x \in X : other[x] = rank[x],
           NEW theta \in Int
    PROVE  Many(other, X, theta) = Many(rank, X, theta)
<1>1. Above(other, X, theta) = Above(rank, X, theta)
  BY DEF Above
<1> QED BY <1>1 DEF Many

(* The lines without one of the highest ranks, or any other.               *)
LEMMA ManyWithout ==
    ASSUME NEW seen, NEW rank \in [seen -> Int], NEW X \in SUBSET seen, IsFiniteSet(X),
           NEW x \in seen, NEW theta \in Int, rank[x] >= theta
    PROVE  Many(rank, X, theta) = Many(rank, X \ {x}, theta) + (1 - B2I(x \notin X))
<1>1. Many(rank, X, theta) \in Nat
  BY ManyIs
<1>2. CASE x \in X
  <2>1. Many(rank, X, theta) = Many(rank, X \ {x}, theta) + 1
        /\ Many(rank, X \ {x}, theta) \in Nat
    BY <1>2, ManyDrop
  <2>2. B2I(x \notin X) = 0
    BY <1>2 DEF B2I
  <2> QED BY <2>1, <2>2
<1>3. CASE x \notin X
  <2>1. X \ {x} = X /\ B2I(x \notin X) = 1
    BY <1>3 DEF B2I
  <2> QED BY <1>1, <2>1
<1> QED BY <1>2, <1>3
-----------------------------------------------------------------------------
(* No choice is ahead of the cache by more than the misses it has paid     *)
(* above those the cache has counted.                                      *)

(* Above any rank, lines has at most gap lines more than other.            *)
Within(rank, lines, other, gap) ==
    \A theta \in Int : Many(rank, lines, theta) <= Many(rank, other, theta) + gap

(* Nothing that can be resident is worth more than the lines of the cache, *)
(* in which m misses have been counted, and what it cost.                  *)
Least(paid, rank, lines, m) ==
    \A r \in DOMAIN paid : m <= paid[r] /\ Within(rank, r, lines, paid[r] - m)

(* A reference to the line of the highest rank, the one used next, costs   *)
(* a miss exactly those who do not have it; that is what having it is      *)
(* worth.                                                                  *)
LEMMA NextUseCounts ==
    ASSUME NEW seen, NEW rank \in [seen -> Int], NEW r \in SUBSET seen, IsFiniteSet(r),
           NEW lines \in SUBSET seen, IsFiniteSet(lines),
           NEW tag \in seen, \A x \in seen \ {tag} : rank[x] < rank[tag],
           NEW gap \in Nat, Within(rank, r, lines, gap)
    PROVE  LET left == (gap + B2I(tag \notin r)) - B2I(tag \notin lines)
           IN  left \in Nat /\ Within(rank, r \ {tag}, lines \ {tag}, left)
<1> DEFINE a == B2I(tag \notin r)
           b == B2I(tag \notin lines)
           left == (gap + a) - b
           R == r \ {tag}
           A == lines \ {tag}
<1>1. a \in Nat /\ b \in Nat
      /\ (tag \in r => a = 0) /\ (tag \notin r => a = 1)
      /\ (tag \in lines => b = 0) /\ (tag \notin lines => b = 1)
  BY DEF B2I
<1> HIDE DEF a, b
<1>2. IsFiniteSet(R) /\ IsFiniteSet(A) /\ R \in SUBSET seen /\ A \in SUBSET seen
  BY FS_Subset
<1>3. ASSUME NEW theta \in Int
      PROVE  /\ Many(rank, R, theta) \in Nat /\ Many(rank, A, theta) \in Nat
             /\ ~(rank[tag] >= theta) => Many(rank, R, theta) = 0 /\ Many(rank, A, theta) = 0
             /\ rank[tag] >= theta =>
                  Many(rank, R, theta) <= Many(rank, A, theta) + left
  <2>1. /\ Many(rank, R, theta) \in Nat /\ Many(rank, A, theta) \in Nat
        /\ Many(rank, r, theta) \in Nat /\ Many(rank, lines, theta) \in Nat
    BY <1>2, ManyIs
  <2>2. ASSUME ~(rank[tag] >= theta)
        PROVE  Many(rank, R, theta) = 0 /\ Many(rank, A, theta) = 0
    <3>1. \A x \in seen \ {tag} : ~(rank[x] >= theta)
      BY <2>2
    <3>2. (\A x \in R : ~(rank[x] >= theta)) /\ (\A x \in A : ~(rank[x] >= theta))
      BY <3>1
    <3> HIDE DEF R, A
    <3> QED BY <1>2, <3>2, ManyIs
  <2>3. ASSUME rank[tag] >= theta
        PROVE  Many(rank, R, theta) <= Many(rank, A, theta) + left
    <3>1. Many(rank, r, theta) <= Many(rank, lines, theta) + gap
      BY DEF Within
    <3>2. Many(rank, r, theta) = Many(rank, R, theta) + (1 - a)
      BY <2>3, ManyWithout DEF a
    <3>3. Many(rank, lines, theta) = Many(rank, A, theta) + (1 - b)
      BY <2>3, ManyWithout DEF b
    <3> HIDE DEF R, A
    <3> QED BY <1>1, <2>1, <3>1, <3>2, <3>3
  <2> QED BY <2>1, <2>2, <2>3
<1>4. left \in Nat
  <2>1. rank[tag] \in Int /\ rank[tag] >= rank[tag]
    OBVIOUS
  <2>2. /\ Many(rank, R, rank[tag]) \in Nat /\ Many(rank, A, rank[tag]) \in Nat
        /\ Many(rank, R, rank[tag]) <= Many(rank, A, rank[tag]) + left
    BY <1>3, <2>1
  <2>3. Many(rank, A, rank[tag]) = 0
    <3>1. \A x \in A : ~(rank[x] >= rank[tag])
      OBVIOUS
    <3> HIDE DEF A
    <3> QED BY <1>2, <3>1, ManyIs
  <2> HIDE DEF R, A
  <2> QED BY <1>1, <2>2, <2>3
<1> HIDE DEF left, R, A
<1>5. Within(rank, R, A, left)
  BY <1>3, <1>4 DEF Within
<1> QED BY <1>4, <1>5 DEF left, R, A, a, b

(* The rank of one line changes, and it leaves no room for those it was    *)
(* compared with: a full set without its lowest line is worth as much as   *)
(* any set that fits.                                                      *)
LEMMA LowestLeaves ==
    ASSUME NEW seen, NEW rank \in [seen -> Int], NEW r \in SUBSET seen, IsFiniteSet(r),
           Cardinality(r) <= NumWays,
           NEW lines \in SUBSET seen, IsFiniteSet(lines), Cardinality(lines) > NumWays,
           NEW out \in lines, \A x \in lines : rank[out] <= rank[x],
           NEW gap \in Nat, Within(rank, r, lines, gap)
    PROVE  Within(rank, r, lines \ {out}, gap)
<1> DEFINE rest == lines \ {out}
<1>1. SUFFICES ASSUME NEW theta \in Int
               PROVE  Many(rank, r, theta) <= Many(rank, rest, theta) + gap
  BY DEF Within
<1>2. /\ Many(rank, r, theta) \in Nat /\ Many(rank, lines, theta) \in Nat
      /\ Many(rank, rest, theta) \in Nat /\ IsFiniteSet(rest) /\ rest \in SUBSET seen
      /\ Many(rank, r, theta) <= Cardinality(r) /\ Cardinality(r) \in Nat
      /\ Many(rank, r, theta) <= Many(rank, lines, theta) + gap
  BY ManyIs, ManyDrop DEF Within
<1>3. CASE ~(rank[out] >= theta)
  <2>1. Many(rank, lines, theta) = Many(rank, rest, theta)
    BY <1>3, ManyDrop
  <2> QED BY <1>2, <2>1
<1>4. CASE rank[out] >= theta
  <2>1. \A x \in rest : rank[x] >= theta
    BY <1>4
  <2>2. Many(rank, rest, theta) = Cardinality(rest)
    <3> HIDE DEF rest
    <3> QED BY <1>2, <2>1, ManyIs
  <2>3. Cardinality(rest) = Cardinality(lines) - 1 /\ Cardinality(lines) \in Nat
    BY FS_RemoveElement, FS_CardinalityType
  <2> HIDE DEF rest
  <2>4. NumWays \in Nat
    BY OptAssumption
  <2> QED BY <1>2, <2>2, <2>3, <2>4
<1> QED BY <1>3, <1>4

(* Giving a line another rank, and letting it in, on both sides or only on *)
(* the second.                                                             *)
LEMMA BothLetIn ==
    ASSUME NEW seen, NEW rank \in [seen -> Int], NEW new \in [seen -> Int],
           NEW tag \in seen, \A x \in seen \ {tag} : new[x] = rank[x],
           NEW r \in SUBSET (seen \ {tag}), IsFiniteSet(r),
           NEW o, o \ {tag} \subseteq r, IsFiniteSet(o),
           NEW lines \in SUBSET (seen \ {tag}), IsFiniteSet(lines),
           NEW gap \in Nat, Within(rank, r, lines, gap)
    PROVE  Within(new, o, lines \cup {tag}, gap)
<1>1. SUFFICES ASSUME NEW theta \in Int
               PROVE  Many(new, o, theta) <= Many(new, lines \cup {tag}, theta) + gap
  BY DEF Within
<1> DEFINE p == o \ {tag}
<1>2. IsFiniteSet(p) /\ tag \notin p /\ p \in SUBSET seen /\ o \in SUBSET seen
  BY FS_Subset
<1>3. /\ Many(new, o, theta) \in Nat /\ Many(new, p, theta) \in Nat
      /\ Many(rank, r, theta) \in Nat /\ Many(rank, lines, theta) \in Nat
  BY <1>2, ManyIs
<1>4. Many(new, p, theta) <= Many(rank, r, theta)
  <2>1. \A x \in p : new[x] >= theta => x \in r /\ new[x] >= theta
    OBVIOUS
  <2>2. Many(new, p, theta) <= Many(new, r, theta)
    <3> HIDE DEF p
    <3> QED BY <1>2, <2>1, ManyGrows
  <2>3. Many(new, r, theta) = Many(rank, r, theta)
    BY ManySame
  <2> QED BY <2>2, <2>3
<1>5. Many(new, lines, theta) = Many(rank, lines, theta)
  BY ManySame
<1>6. /\ new[tag] >= theta =>
           Many(new, lines \cup {tag}, theta) = Many(rank, lines, theta) + 1
      /\ ~(new[tag] >= theta) =>
           Many(new, lines \cup {tag}, theta) = Many(rank, lines, theta)
  BY <1>5, ManyAdd
<1>7. /\ new[tag] >= theta => Many(new, o, theta) <= Many(new, p, theta) + 1
      /\ ~(new[tag] >= theta) => Many(new, o, theta) <= Many(new, p, theta)
  <2>1. CASE tag \in o
    <3>1. o = p \cup {tag}
      BY <2>1
    <3> HIDE DEF p
    <3>2. /\ new[tag] >= theta =>
               Many(new, p \cup {tag}, theta) = Many(new, p, theta) + 1
          /\ ~(new[tag] >= theta) =>
               Many(new, p \cup {tag}, theta) = Many(new, p, theta)
      BY <1>2, ManyAdd
    <3> QED BY <1>3, <3>1, <3>2
  <2>2. CASE tag \notin o
    <3>1. p = o
      BY <2>2
    <3> HIDE DEF p
    <3> QED BY <1>3, <3>1
  <2> QED BY <2>1, <2>2
<1>8. Many(rank, r, theta) <= Many(rank, lines, theta) + gap
  BY DEF Within
<1> HIDE DEF p
<1>9. CASE new[tag] >= theta
  BY <1>3, <1>4, <1>6, <1>7, <1>8, <1>9
<1>10. CASE ~(new[tag] >= theta)
  BY <1>3, <1>4, <1>6, <1>7, <1>8, <1>10
<1> QED BY <1>9, <1>10
(* A decision lets tag in, or makes room by taking out the line of the     *)
(* lowest rank, tag itself included.                                       *)
MakesRoom(rank, tag, lines, next) ==
    \/ next = lines \cup {tag}
    \/ /\ tag \notin lines /\ Cardinality(lines) >= NumWays
       /\ \E out \in lines \cup {tag} :
             /\ next = (lines \cup {tag}) \ {out}
             /\ \A x \in lines \cup {tag} : rank[out] <= rank[x]

(* Such a decision keeps the cache at least as good as any other choice.   *)
LEMMA DecisionLeast ==
    ASSUME NEW seen, NEW rank \in [seen -> Int], NEW new \in [seen -> Int],
           NEW tag \in seen, \A x \in seen \ {tag} : rank[x] < rank[tag] /\ new[x] = rank[x],
           NEW lines \in SUBSET seen, IsFiniteSet(lines), NEW m \in Nat,
           NEW paid, Purse(paid, seen), Least(paid, rank, lines, m),
           NEW next,
           MakesRoom(new, tag, lines, next)
    PROVE  Least(CostAfter(paid, tag), new, next, m + B2I(tag \notin lines))
<1> DEFINE after == CostAfter(paid, tag)
           b == B2I(tag \notin lines)
<1>1. SUFFICES ASSUME NEW o \in DOMAIN after
               PROVE  m + b <= after[o] /\ Within(new, o, next, after[o] - (m + b))
  BY DEF Least
<1>2. PICK r \in DOMAIN paid : o \in Outcomes(r, tag) /\ after[o] = Pays(paid, r, tag)
  BY CostAfterIs
<1>3. /\ r \in SUBSET seen /\ IsFiniteSet(r) /\ Cardinality(r) <= NumWays /\ paid[r] \in Nat
      /\ m <= paid[r] /\ Within(rank, r, lines, paid[r] - m)
  BY DEF Purse, Least
<1>4. /\ o \in SUBSET seen /\ IsFiniteSet(o) /\ Cardinality(o) <= NumWays
      /\ o \ {tag} \subseteq r \ {tag}
  BY <1>2, <1>3, OutcomesFit
<1> DEFINE gap == paid[r] - m
           a == B2I(tag \notin r)
           left == (gap + a) - b
<1>5. gap \in Nat
  BY <1>3
<1> HIDE DEF gap
<1>6. left \in Nat /\ Within(rank, r \ {tag}, lines \ {tag}, left)
  <2>1. Within(rank, r, lines, gap)
    BY <1>3 DEF gap
  <2> QED BY <1>3, <1>5, <2>1, NextUseCounts
<1>7. after[o] - (m + b) = left /\ m + b <= after[o]
  <2>1. a \in Nat /\ b \in Nat
    BY DEF B2I
  <2>2. after[o] = paid[r] + a
    BY <1>2 DEF Pays
  <2> HIDE DEF a, b, after
  <2> QED BY <1>3, <1>6, <2>1, <2>2 DEF gap
<1> HIDE DEF left, after, b
<1>8. /\ IsFiniteSet(r \ {tag}) /\ IsFiniteSet(lines \ {tag})
      /\ (lines \ {tag}) \cup {tag} = lines \cup {tag}
  BY <1>3, FS_Subset
<1>9. Within(new, o, lines \cup {tag}, left)
  <2> DEFINE R == r \ {tag}
             A == lines \ {tag}
  <2>1. /\ R \in SUBSET (seen \ {tag}) /\ A \in SUBSET (seen \ {tag})
        /\ IsFiniteSet(R) /\ IsFiniteSet(A) /\ o \ {tag} \subseteq R
        /\ Within(rank, R, A, left) /\ A \cup {tag} = lines \cup {tag}
    BY <1>3, <1>4, <1>6, <1>8
  <2> HIDE DEF R, A
  <2>2. Within(new, o, A \cup {tag}, left)
    BY <1>4, <1>6, <2>1, BothLetIn
  <2> QED BY <2>1, <2>2
<1>10. CASE next = lines \cup {tag}
  BY <1>7, <1>9, <1>10
<1>11. CASE /\ tag \notin lines /\ Cardinality(lines) >= NumWays
            /\ \E out \in lines \cup {tag} :
                  /\ next = (lines \cup {tag}) \ {out}
                  /\ \A x \in lines \cup {tag} : new[out] <= new[x]
  <2> DEFINE full == lines \cup {tag}
  <2>1. PICK out \in full : next = full \ {out} /\ \A x \in full : new[out] <= new[x]
    BY <1>11
  <2>2. IsFiniteSet(full) /\ Cardinality(full) = Cardinality(lines) + 1
    BY <1>11, FS_AddElement
  <2>3. Cardinality(lines) \in Nat /\ NumWays \in Nat
    BY FS_CardinalityType, OptAssumption
  <2>4. Cardinality(full) > NumWays /\ full \in SUBSET seen
    BY <1>11, <2>2, <2>3
  <2>5. Within(new, o, full, left)
    BY <1>9
  <2> HIDE DEF full
  <2>6. Within(new, o, full \ {out}, left)
    BY <1>4, <1>6, <2>1, <2>2, <2>4, <2>5, LowestLeaves
  <2> QED BY <1>7, <2>1, <2>6
<1> QED BY <1>10, <1>11 DEF MakesRoom

(* What becomes of the lines of the cache when one that will be used after *)
(* all rises to a higher rank: nothing, if it is one of them, else it      *)
(* takes the place of the next one above it, unless there is none between  *)
(* its old and its new rank.                                               *)
Promoted(rank, tag, high, lines, next) ==
    \/ tag \in lines /\ next = lines
    \/ /\ tag \notin lines
       /\ \E out \in lines :
             /\ next = (lines \ {out}) \cup {tag}
             /\ rank[tag] < rank[out] /\ rank[out] < high
             /\ \A x \in lines : rank[tag] < rank[x] => rank[out] <= rank[x]
    \/ /\ tag \notin lines /\ next = lines
       /\ \A x \in lines : rank[tag] < rank[x] => high <= rank[x]

(* They are worth as much as before.                                       *)
LEMMA RiseKeepsWithin ==
    ASSUME NEW seen, NEW rank \in [seen -> Int], NEW new \in [seen -> Int],
           NEW tag \in seen, rank[tag] < new[tag],
           \A x \in seen \ {tag} : rank[x] # rank[tag] /\ new[x] = rank[x],
           NEW r \in SUBSET seen, IsFiniteSet(r),
           NEW lines \in SUBSET seen, IsFiniteSet(lines),
           NEW gap \in Nat, Within(rank, r, lines, gap),
           NEW next, Promoted(rank, tag, new[tag], lines, next)
    PROVE  Within(new, r, next, gap)
<1>1. SUFFICES ASSUME NEW theta \in Int
               PROVE  Many(new, r, theta) <= Many(new, next, theta) + gap
  BY DEF Within
<1>2. IsFiniteSet(next) /\ next \in SUBSET seen
  <2>1. CASE next = lines
    BY <2>1
  <2>2. CASE \E out \in lines : next = (lines \ {out}) \cup {tag}
    <3>1. PICK out \in lines : next = (lines \ {out}) \cup {tag}
      BY <2>2
    <3>2. IsFiniteSet(lines \ {out})
      BY FS_Subset
    <3>3. IsFiniteSet((lines \ {out}) \cup {tag})
      BY <3>2, FS_AddElement
    <3> QED BY <3>1, <3>3
  <2> QED BY <2>1, <2>2 DEF Promoted
<1>3. /\ Many(new, r, theta) \in Nat /\ Many(rank, r, theta) \in Nat
      /\ Many(rank, r, rank[tag]) \in Nat /\ Many(rank, lines, rank[tag]) \in Nat
      /\ Many(rank, lines, theta) \in Nat /\ Many(new, next, theta) \in Nat
      /\ Many(rank, r, theta) <= Many(rank, lines, theta) + gap
      /\ Many(rank, r, rank[tag]) <= Many(rank, lines, rank[tag]) + gap
  <2>1. rank[tag] \in Int
    OBVIOUS
  <2> QED BY <1>2, <2>1, ManyIs DEF Within
<1>4. Many(new, r, theta) <= Many(rank, r, theta) + 1
  <2> DEFINE p == r \ {tag}
  <2>1. IsFiniteSet(p) /\ p \in SUBSET (seen \cap seen) /\ p \in SUBSET seen
    BY FS_Subset
  <2>2. Many(new, p, theta) = Many(rank, p, theta)
    BY <2>1, ManySame
  <2>3. Many(rank, p, theta) <= Many(rank, r, theta)
    <3>1. \A x \in p : rank[x] >= theta => x \in r /\ rank[x] >= theta
      OBVIOUS
    <3> HIDE DEF p
    <3> QED BY <2>1, <3>1, ManyGrows
  <2>4. Many(new, r, theta) <= Many(new, p, theta) + 1
    <3>1. CASE tag \in r
      <4>1. Many(new, r, theta) = Many(new, p, theta) + Reaches(new, tag, theta)
        BY <3>1, ManyLess
      <4>2. Many(new, p, theta) \in Nat
        BY <2>1, ManyIs
      <4>3. Reaches(new, tag, theta) = 1 \/ Reaches(new, tag, theta) = 0
        BY ReachesIs
      <4> HIDE DEF p
      <4> QED BY <1>3, <4>1, <4>2, <4>3
    <3>2. CASE tag \notin r
      <4>1. p = r
        BY <3>2
      <4> HIDE DEF p
      <4> QED BY <1>3, <4>1
    <3> QED BY <3>1, <3>2
  <2>5. Many(new, p, theta) \in Nat
    BY <2>1, ManyIs
  <2> HIDE DEF p
  <2> QED BY <1>3, <2>2, <2>3, <2>4, <2>5
<1>5. ASSUME ~(rank[tag] < theta /\ theta <= new[tag])
      PROVE  Many(new, r, theta) <= Many(rank, r, theta)
  <2>1. \A x \in r : new[x] >= theta => x \in r /\ rank[x] >= theta
    BY <1>5
  <2> QED BY <2>1, ManyGrows
<1>6. ASSUME rank[tag] < theta
      PROVE  Many(new, r, theta) <= Many(rank, r, rank[tag])
  <2>1. \A x \in r : new[x] >= theta => x \in r /\ rank[x] >= rank[tag]
    BY <1>6
  <2>2. rank[tag] \in Int
    OBVIOUS
  <2> QED BY <2>1, <2>2, ManyGrows
<1>7. CASE tag \in lines /\ next = lines
  <2> DEFINE q == lines \ {tag}
  <2>1. IsFiniteSet(q) /\ q \in SUBSET (seen \cap seen) /\ q \in SUBSET seen
    BY FS_Subset
  <2>2. /\ Many(new, q, theta) = Many(rank, q, theta)
        /\ Many(rank, q, theta) \in Nat
    BY <2>1, ManySame, ManyIs
  <2>3. Many(rank, lines, theta) = Many(rank, q, theta) + Reaches(rank, tag, theta)
    BY <1>7, ManyLess
  <2>4. Many(new, lines, theta) = Many(new, q, theta) + Reaches(new, tag, theta)
    BY <1>7, ManyLess
  <2> HIDE DEF q
  <2>5. CASE rank[tag] < theta /\ theta <= new[tag]
    <3>1. Reaches(rank, tag, theta) = 0 /\ Reaches(new, tag, theta) = 1
      BY <2>5, ReachesIs
    <3> QED BY <1>3, <1>4, <1>7, <2>2, <2>3, <2>4, <3>1
  <2>6. CASE ~(rank[tag] < theta /\ theta <= new[tag])
    <3>1. (rank[tag] >= theta) <=> (new[tag] >= theta)
      BY <2>6
    <3>2. Many(new, lines, theta) = Many(rank, lines, theta)
      BY <2>2, <2>3, <2>4, <3>1 DEF Reaches
    <3> QED BY <1>3, <1>5, <1>7, <2>6, <3>2
  <2> QED BY <2>5, <2>6
<1>8. CASE /\ tag \notin lines
           /\ \E out \in lines :
                 /\ next = (lines \ {out}) \cup {tag}
                 /\ rank[tag] < rank[out] /\ rank[out] < new[tag]
                 /\ \A x \in lines : rank[tag] < rank[x] => rank[out] <= rank[x]
  <2>1. PICK out \in lines :
                 /\ next = (lines \ {out}) \cup {tag}
                 /\ rank[tag] < rank[out] /\ rank[out] < new[tag]
                 /\ \A x \in lines : rank[tag] < rank[x] => rank[out] <= rank[x]
    BY <1>8
  <2> DEFINE q == lines \ {out}
  <2>2. IsFiniteSet(q) /\ q \in SUBSET (seen \cap seen) /\ q \in SUBSET seen /\ tag \notin q
    BY <1>8, FS_Subset
  <2>3. /\ Many(new, q, theta) = Many(rank, q, theta)
        /\ Many(rank, q, theta) \in Nat /\ Many(rank, q, rank[tag]) \in Nat
    <3>1. Many(new, q, theta) = Many(rank, q, theta)
      BY <1>8, <2>2, ManySame
    <3>2. rank[tag] \in Int
      OBVIOUS
    <3> QED BY <2>2, <3>1, <3>2, ManyIs
  <2>4. Many(rank, lines, theta) = Many(rank, q, theta) + Reaches(rank, out, theta)
    BY ManyLess
  <2>5. Many(rank, lines, rank[tag]) = Many(rank, q, rank[tag]) + 1
    <3>1. rank[tag] \in Int /\ rank[out] \in Int /\ rank[out] >= rank[tag] /\ out \in seen
      BY <2>1
    <3>2. Many(rank, lines, rank[tag])
            = Many(rank, q, rank[tag]) + Reaches(rank, out, rank[tag])
      BY <3>1, ManyLess
    <3>3. Reaches(rank, out, rank[tag]) = 1
      BY <3>1, ReachesIs
    <3> QED BY <3>2, <3>3
  <2>6. /\ new[tag] >= theta => Many(new, next, theta) = Many(new, q, theta) + 1
        /\ ~(new[tag] >= theta) => Many(new, next, theta) = Many(new, q, theta)
    <3> HIDE DEF q
    <3>1. next = q \cup {tag}
      BY <2>1 DEF q
    <3> QED BY <2>2, <3>1, ManyAdd
  <2>7. ASSUME theta <= rank[out] PROVE Many(rank, q, rank[tag]) <= Many(new, q, theta)
    <3>1. \A x \in q : rank[x] >= rank[tag] => x \in q /\ new[x] >= theta
      BY <1>8, <2>1, <2>7
    <3>2. rank[tag] \in Int
      OBVIOUS
    <3> HIDE DEF q
    <3> QED BY <2>2, <3>1, <3>2, ManyGrows
  <2> HIDE DEF q
  <2>8. CASE rank[tag] < theta /\ theta <= rank[out]
    <3>1. new[tag] >= theta
      BY <2>1, <2>8
    <3> QED BY <1>3, <1>6, <2>3, <2>5, <2>6, <2>7, <2>8, <3>1
  <2>9. CASE rank[out] < theta /\ theta <= new[tag]
    <3>1. new[tag] >= theta /\ Reaches(rank, out, theta) = 0
      BY <2>1, <2>9, ReachesIs
    <3> QED BY <1>3, <1>4, <2>3, <2>4, <2>6, <3>1
  <2>10. CASE ~(rank[tag] < theta /\ theta <= new[tag])
    <3>1. \/ Reaches(rank, out, theta) = 1 /\ new[tag] >= theta
          \/ Reaches(rank, out, theta) = 0
      <4>1. out \in seen /\ rank[out] \in Int /\ new[tag] \in Int
        OBVIOUS
      <4>2. rank[out] >= theta => new[tag] >= theta
        BY <2>1, <2>10, <4>1
      <4> QED BY <4>1, <4>2, ReachesIs
    <3>2. Many(rank, lines, theta) <= Many(new, next, theta)
      BY <1>3, <2>3, <2>4, <2>6, <3>1
    <3> QED BY <1>3, <1>5, <2>10, <3>2
  <2>11. \/ rank[tag] < theta /\ theta <= rank[out]
         \/ rank[out] < theta /\ theta <= new[tag]
         \/ ~(rank[tag] < theta /\ theta <= new[tag])
    BY <2>1
  <2> QED BY <2>8, <2>9, <2>10, <2>11
<1>9. CASE /\ tag \notin lines /\ next = lines
           /\ \A x \in lines : rank[tag] < rank[x] => new[tag] <= rank[x]
  <2>1. Many(rank, lines, theta) <= Many(new, next, theta)
    <3>1. \A x \in lines : rank[x] >= theta => x \in next /\ new[x] >= theta
      BY <1>9
    <3> QED BY <1>2, <3>1, ManyGrows
  <2>2. CASE rank[tag] < theta /\ theta <= new[tag]
    <3>1. \A x \in lines : rank[x] >= rank[tag] => x \in next /\ new[x] >= theta
      BY <1>9, <2>2
    <3>2. rank[tag] \in Int
      OBVIOUS
    <3>3. Many(rank, lines, rank[tag]) <= Many(new, next, theta)
      BY <1>2, <3>1, <3>2, ManyGrows
    <3> QED BY <1>3, <1>6, <2>2, <3>3
  <2>3. CASE ~(rank[tag] < theta /\ theta <= new[tag])
    BY <1>3, <1>5, <2>1, <2>3
  <2> QED BY <2>2, <2>3
<1> QED BY <1>7, <1>8, <1>9 DEF Promoted

(* Looking at a reference ranks at most its line anew, if it had a rank:   *)
(* the lines stay unless that one rises.                                   *)
Looks(seen, rank, more, new, tag, lines, next) ==
    /\ rank \in [seen -> Int] /\ seen \subseteq more /\ new \in [more -> Int]
    /\ \A x \in seen \ {tag} : new[x] = rank[x]
    /\ lines \in SUBSET seen /\ IsFiniteSet(lines)
    /\ \/ next = lines /\ (tag \in seen => new[tag] = rank[tag])
       \/ /\ more = seen /\ tag \in seen /\ rank[tag] < new[tag]
          /\ \A x \in seen \ {tag} : rank[x] # rank[tag]
          /\ Promoted(rank, tag, new[tag], lines, next)

(* No choice gets ahead of the cache by it; the choices are not made yet.  *)
LEMMA LookLeast ==
    ASSUME NEW seen, NEW rank, NEW more, NEW new, NEW tag, NEW lines, NEW next,
           Looks(seen, rank, more, new, tag, lines, next),
           NEW m \in Nat, NEW paid, Purse(paid, seen), Least(paid, rank, lines, m)
    PROVE  Least(paid, new, next, m)
<1> SUFFICES ASSUME rank \in [seen -> Int], seen \subseteq more, new \in [more -> Int],
                    \A x \in seen \ {tag} : new[x] = rank[x],
                    lines \in SUBSET seen, IsFiniteSet(lines),
                    \/ next = lines /\ (tag \in seen => new[tag] = rank[tag])
                    \/ /\ more = seen /\ tag \in seen /\ rank[tag] < new[tag]
                       /\ \A x \in seen \ {tag} : rank[x] # rank[tag]
                       /\ Promoted(rank, tag, new[tag], lines, next)
             PROVE  Least(paid, new, next, m)
  BY DEF Looks
<1>1. SUFFICES ASSUME NEW r \in DOMAIN paid
               PROVE  m <= paid[r] /\ Within(new, r, next, paid[r] - m)
  BY DEF Least
<1>2. /\ r \in SUBSET seen /\ IsFiniteSet(r) /\ paid[r] \in Nat
      /\ m <= paid[r] /\ Within(rank, r, lines, paid[r] - m)
  BY DEF Purse, Least
<1> DEFINE gap == paid[r] - m
<1>3. gap \in Nat /\ Within(rank, r, lines, gap)
  BY <1>2
<1> HIDE DEF gap
<1>4. CASE next = lines /\ (tag \in seen => new[tag] = rank[tag])
  <2>1. SUFFICES ASSUME NEW theta \in Int
                 PROVE  Many(new, r, theta) <= Many(new, lines, theta) + gap
    BY <1>2, <1>4 DEF Within, gap
  <2>2. /\ r \in SUBSET (seen \cap more) /\ lines \in SUBSET (seen \cap more)
        /\ \A x \in r : new[x] = rank[x]
        /\ \A x \in lines : new[x] = rank[x]
    BY <1>2, <1>4
  <2>3. Many(new, r, theta) = Many(rank, r, theta)
    BY <2>2, ManySame
  <2>4. Many(new, lines, theta) = Many(rank, lines, theta)
    BY <2>2, ManySame
  <2>5. Many(rank, r, theta) <= Many(rank, lines, theta) + gap
    BY <1>3 DEF Within
  <2> QED BY <2>3, <2>4, <2>5
<1>5. CASE /\ more = seen /\ tag \in seen /\ rank[tag] < new[tag]
           /\ \A x \in seen \ {tag} : rank[x] # rank[tag]
           /\ Promoted(rank, tag, new[tag], lines, next)
  <2>1. new \in [seen -> Int]
    BY <1>5
  <2>2. Within(new, r, next, gap)
    BY <1>2, <1>3, <1>5, <2>1, RiseKeepsWithin
  <2> QED BY <1>2, <2>2 DEF gap
<1> QED BY <1>4, <1>5

-----------------------------------------------------------------------------
(* Some choice has paid as few misses as the cache and has the lines that  *)
(* it knows, together with any others that are not worth more than those   *)
(* it has in their place.                                                  *)
Attained(paid, rank, known, unknown, free, m) ==
    \A S \in SUBSET free : IsFiniteSet(S) /\ Within(rank, S, unknown, 0) =>
        \E Q \in DOMAIN paid : known \cup S \subseteq Q /\ paid[Q] <= m

(* Nothing is worth more than nothing.                                     *)
LEMMA WithinNothing ==
    ASSUME NEW seen, NEW rank \in [seen -> Int], NEW lines \in SUBSET seen, IsFiniteSet(lines)
    PROVE  Within(rank, {}, lines, 0)
<1>1. SUFFICES ASSUME NEW theta \in Int
               PROVE  Many(rank, {}, theta) <= Many(rank, lines, theta) + 0
  BY DEF Within
<1>2. Many(rank, lines, theta) \in Nat
  BY ManyIs
<1>3. {} \in SUBSET seen /\ IsFiniteSet({}) /\ Cardinality({}) = 0
  BY FS_EmptySet
<1>4. Many(rank, {}, theta) \in Nat /\ Many(rank, {}, theta) <= 0
  BY <1>3, ManyIs
<1> QED BY <1>2, <1>4

(* Lines that are not worth more are not more.                             *)
LEMMA WithinSmaller ==
    ASSUME NEW seen, NEW rank \in [seen -> Int], NEW X \in SUBSET seen, IsFiniteSet(X),
           NEW lines \in SUBSET seen, IsFiniteSet(lines), Within(rank, X, lines, 0),
           NEW lo \in Int, \A x \in seen : lo <= rank[x]
    PROVE  Cardinality(X) <= Cardinality(lines)
<1>1. /\ \A x \in X : rank[x] >= lo
      /\ \A x \in lines : rank[x] >= lo
  OBVIOUS
<1>2. Many(rank, X, lo) = Cardinality(X) /\ Many(rank, lines, lo) = Cardinality(lines)
      /\ Many(rank, X, lo) \in Nat /\ Many(rank, lines, lo) \in Nat
  BY <1>1, ManyIs
<1>3. Many(rank, X, lo) <= Many(rank, lines, lo) + 0
  BY DEF Within
<1> QED BY <1>2, <1>3

(* A decision about tag, the only line that ranks anew, makes known lines  *)
(* certain, unknown ones others, and free ones left: it lets in no line    *)
(* but tag, tag as an unknown one only if it ranks lowest, and leaves no   *)
(* more lines than fit.                                                    *)
Settles(seen, rank, new, tag, known, unknown, free, certain, others, left) ==
    /\ rank \in [seen -> Int] /\ new \in [seen -> Int] /\ tag \in seen
    /\ \A x \in seen \ {tag} : new[x] = rank[x]
    /\ \E lo \in Int : \A x \in seen : lo <= new[x]
    /\ known \subseteq seen /\ unknown \subseteq seen \ {tag} /\ free \subseteq seen \ {tag}
    /\ certain \subseteq known \cup {tag} /\ others \subseteq unknown \cup {tag}
    /\ left \subseteq free \cup {tag}
    /\ tag \in others => \A x \in free : new[tag] < rank[x]
    /\ IsFiniteSet(unknown) /\ IsFiniteSet(certain)
    /\ Cardinality(certain) + Cardinality(others) <= NumWays

(* What was free of the lines that are worth no more than the unknown ones *)
(* after a decision was worth no more before it: the decided line is among *)
(* the unknown ones only if it has the lowest rank of all.                 *)
LEMMA DecisionWithin ==
    ASSUME NEW seen, NEW rank, NEW new, NEW tag, NEW known, NEW unknown, NEW free,
           NEW certain, NEW others, NEW left,
           Settles(seen, rank, new, tag, known, unknown, free, certain, others, left),
           NEW S \in SUBSET left, IsFiniteSet(S), Within(new, S, others, 0)
    PROVE  Within(rank, S \ {tag}, unknown, 0)
<1> SUFFICES ASSUME rank \in [seen -> Int], new \in [seen -> Int], tag \in seen,
                    \A x \in seen \ {tag} : new[x] = rank[x],
                    free \in SUBSET (seen \ {tag}), unknown \in SUBSET (seen \ {tag}),
                    IsFiniteSet(unknown), others \subseteq unknown \cup {tag},
                    tag \in others => \A x \in free : new[tag] < rank[x],
                    S \subseteq free \cup {tag}
             PROVE  Within(rank, S \ {tag}, unknown, 0)
  BY DEF Settles
<1> DEFINE R == S \ {tag}
<1>1. SUFFICES ASSUME NEW theta \in Int
               PROVE  Many(rank, R, theta) <= Many(rank, unknown, theta) + 0
  BY DEF Within
<1>2. /\ IsFiniteSet(R) /\ R \in SUBSET seen /\ S \in SUBSET seen
      /\ IsFiniteSet(others) /\ others \in SUBSET seen
  <2>1. IsFiniteSet(unknown \cup {tag})
    BY FS_AddElement
  <2> QED BY <2>1, FS_Subset
<1>3. PICK eta \in Int : /\ theta <= eta
                         /\ tag \in others => new[tag] < eta
                         /\ \A x \in R : rank[x] >= theta => rank[x] >= eta
  <2>1. CASE tag \in others /\ theta <= new[tag]
    <3>1. new[tag] + 1 \in Int /\ theta <= new[tag] + 1 /\ new[tag] < new[tag] + 1
      BY <2>1
    <3>2. \A x \in R : rank[x] >= new[tag] + 1
      <4>1. SUFFICES ASSUME NEW x \in R PROVE rank[x] >= new[tag] + 1
        OBVIOUS
      <4>2. x \in free /\ rank[x] \in Int /\ new[tag] \in Int
        BY <1>2
      <4>3. new[tag] < rank[x]
        BY <2>1, <4>2
      <4> QED BY <4>2, <4>3
    <3> HIDE DEF R
    <3> QED BY <3>1, <3>2
  <2>2. CASE tag \notin others
    BY <2>2
  <2>3. CASE ~(theta <= new[tag])
    <3>1. new[tag] < theta
      BY <2>3
    <3> QED BY <3>1
  <2> QED BY <2>1, <2>2, <2>3
<1>4. Many(rank, R, theta) <= Many(new, S, eta)
  <2>1. \A x \in R : rank[x] >= theta => x \in S /\ new[x] >= eta
    BY <1>2, <1>3
  <2> HIDE DEF R
  <2> QED BY <1>2, <2>1, ManyGrows
<1>5. Many(new, S, eta) <= Many(new, others, eta) + 0
  BY DEF Within
<1>6. Many(new, others, eta) <= Many(rank, unknown, theta)
  <2>1. \A x \in others : new[x] >= eta => x \in unknown /\ rank[x] >= theta
    <3>1. SUFFICES ASSUME NEW x \in others, new[x] >= eta
                   PROVE  x \in unknown /\ rank[x] >= theta
      OBVIOUS
    <3>2. new[x] \in Int /\ new[tag] \in Int
      BY <1>2
    <3>3. x # tag
      BY <1>3, <3>1, <3>2
    <3>4. new[x] = rank[x] /\ x \in unknown
      BY <1>2, <3>3
    <3> QED BY <1>3, <3>1, <3>2, <3>4
  <2> QED BY <1>2, <2>1, ManyGrows
<1>7. /\ Many(rank, R, theta) \in Nat /\ Many(new, S, eta) \in Nat
      /\ Many(new, others, eta) \in Nat /\ Many(rank, unknown, theta) \in Nat
  BY <1>2, ManyIs
<1> HIDE DEF R
<1> QED BY <1>4, <1>5, <1>6, <1>7

(* It leaves a choice as cheap as the cache: the one there was keeps its   *)
(* lines, or makes the same room for the new one.                          *)
LEMMA DecisionAttained ==
    ASSUME NEW seen, NEW rank, NEW new, NEW tag, NEW known, NEW unknown, NEW free,
           NEW certain, NEW others, NEW left,
           Settles(seen, rank, new, tag, known, unknown, free, certain, others, left),
           NEW m \in Nat, NEW paid, Purse(paid, seen),
           Attained(paid, rank, known, unknown, free, m)
    PROVE  Attained(CostAfter(paid, tag), new, certain, others, left,
                    m + B2I(tag \notin known))
<1>a. PICK lo \in Int : \A x \in seen : lo <= new[x]
  BY DEF Settles
<1>b. /\ rank \in [seen -> Int] /\ new \in [seen -> Int] /\ tag \in seen
      /\ \A x \in seen \ {tag} : new[x] = rank[x]
      /\ known \in SUBSET seen /\ unknown \in SUBSET (seen \ {tag})
      /\ free \in SUBSET (seen \ {tag})
      /\ certain \subseteq known \cup {tag} /\ others \subseteq unknown \cup {tag}
      /\ left \subseteq free \cup {tag}
      /\ tag \in others => \A x \in free : new[tag] < rank[x]
      /\ IsFiniteSet(unknown) /\ IsFiniteSet(certain)
      /\ Cardinality(certain) + Cardinality(others) <= NumWays
  BY DEF Settles
<1> DEFINE after == CostAfter(paid, tag)
           b == B2I(tag \notin known)
<1>1. SUFFICES ASSUME NEW S \in SUBSET left, IsFiniteSet(S), Within(new, S, others, 0)
               PROVE  \E Q \in DOMAIN after : certain \cup S \subseteq Q /\ after[Q] <= m + b
  BY DEF Attained
<1> DEFINE R == S \ {tag}
           B == certain \cup S
<1>2. Within(rank, R, unknown, 0)
  BY <1>1, DecisionWithin
<1>3. R \in SUBSET free /\ IsFiniteSet(R)
  BY <1>b, <1>1, FS_Subset
<1>4. PICK Q \in DOMAIN paid : known \cup R \subseteq Q /\ paid[Q] <= m
  <2> HIDE DEF R
  <2> QED BY <1>2, <1>3 DEF Attained
<1>5. Q \in SUBSET seen /\ paid[Q] \in Nat
  BY DEF Purse
<1>6. \A o \in Outcomes(Q, tag) : o \in DOMAIN after /\ after[o] <= Pays(paid, Q, tag)
  BY <1>b, CostAfterIs
<1>7. \A o \in Outcomes(Q, tag) : o \in DOMAIN after => after[o] \in Nat
  BY <1>b, CostAfterIs DEF Purse
<1>8. b \in Nat /\ Pays(paid, Q, tag) \in Nat /\ Pays(paid, Q, tag) <= m + b
  <2>1. b = 0 \/ b = 1
    BY DEF B2I
  <2>2. CASE tag \in Q
    <3>1. Pays(paid, Q, tag) = paid[Q] + 0
      BY <2>2 DEF Pays, B2I
    <3> HIDE DEF b
    <3> QED BY <1>4, <1>5, <2>1, <3>1
  <2>3. CASE tag \notin Q
    <3>1. Pays(paid, Q, tag) = paid[Q] + 1
      BY <2>3 DEF Pays, B2I
    <3>2. tag \notin known
      BY <1>4, <2>3
    <3>3. b = 1
      BY <3>2 DEF B2I
    <3> HIDE DEF b
    <3> QED BY <1>4, <1>5, <3>1, <3>3
  <2> QED BY <2>2, <2>3
<1> HIDE DEF after, b
<1>9. ASSUME NEW o \in Outcomes(Q, tag), B \subseteq o
      PROVE  \E P \in DOMAIN after : B \subseteq P /\ after[P] <= m + b
  <2>1. o \in DOMAIN after /\ after[o] <= Pays(paid, Q, tag) /\ after[o] \in Nat
    BY <1>6, <1>7
  <2>2. after[o] <= m + b
    BY <1>8, <2>1
  <2> QED BY <1>9, <2>1, <2>2
<1>10. B \ {tag} \subseteq Q
  BY <1>b, <1>4
<1>11. CASE tag \in Q \/ tag \notin B
  <2>1. B \subseteq Q
    BY <1>10, <1>11
  <2> QED BY <1>9, <2>1, OutcomeStays
<1>12. CASE tag \notin Q /\ tag \in B
  <2> DEFINE kept == B \ {tag}
  <2>1. IsFiniteSet(others) /\ others \in SUBSET seen /\ S \in SUBSET seen
    <3>1. IsFiniteSet(unknown \cup {tag})
      BY <1>b, FS_AddElement
    <3> QED BY <1>b, <3>1, FS_Subset
  <2>2. Cardinality(S) <= Cardinality(others)
    BY <1>a, <1>b, <1>1, <2>1, WithinSmaller
  <2>3. /\ IsFiniteSet(B) /\ Cardinality(B) <= Cardinality(certain) + Cardinality(S)
        /\ Cardinality(certain) \in Nat /\ Cardinality(S) \in Nat
        /\ Cardinality(others) \in Nat /\ Cardinality(B) \in Nat
    <3>1. /\ IsFiniteSet(B)
          /\ Cardinality(B) = Cardinality(certain) + Cardinality(S)
                                - Cardinality(certain \cap S)
          /\ IsFiniteSet(certain \cap S)
      BY <1>b, <1>1, FS_Union, FS_Subset
    <3>2. /\ Cardinality(certain) \in Nat /\ Cardinality(S) \in Nat
          /\ Cardinality(others) \in Nat /\ Cardinality(B) \in Nat
          /\ Cardinality(certain \cap S) \in Nat
      BY <1>b, <1>1, <2>1, <3>1, FS_CardinalityType
    <3> HIDE DEF B
    <3> QED BY <3>1, <3>2
  <2>4. Cardinality(kept) = Cardinality(B) - 1
    <3>1. tag \in B
      BY <1>12
    <3> HIDE DEF B
    <3> QED BY <2>3, <3>1, FS_RemoveElement
  <2>5. NumWays \in Nat
    BY OptAssumption
  <2> HIDE DEF kept, B
  <2>6. Cardinality(kept) < NumWays
    BY <1>b, <2>2, <2>3, <2>4, <2>5
  <2>7. kept \in SUBSET Q /\ B = kept \cup {tag}
    BY <1>10, <1>12 DEF kept
  <2>8. kept \cup {tag} \in Outcomes(Q, tag)
    BY <1>12, <2>6, <2>7, OutcomeLetsIn
  <2> QED BY <1>9, <2>7, <2>8 DEF B
<1> QED BY <1>11, <1>12 DEF after, b

(* Looking at a reference makes known lines certain, unknown ones others,  *)
(* and free ones left: a line that becomes known was free and is worth no  *)
(* more than the unknown one whose place it takes.                         *)
Learns(seen, rank, more, new, tag, known, unknown, free, certain, others, left) ==
    /\ rank \in [seen -> Int] /\ seen \subseteq more /\ new \in [more -> Int]
    /\ \A x \in seen \ {tag} : new[x] = rank[x]
    /\ free \in SUBSET seen /\ left \in SUBSET free /\ tag \notin left
    /\ known \in SUBSET seen /\ unknown \in SUBSET seen /\ IsFiniteSet(unknown)
    /\ \/ certain = known /\ others = unknown /\ tag \notin unknown
       \/ /\ tag \in free /\ certain = known \cup {tag}
          /\ \E out \in unknown : /\ others = unknown \ {out}
                                  /\ rank[tag] <= rank[out]
                                  /\ tag \in unknown => out = tag

(* The choice as cheap as the cache is still there.                        *)
LEMMA LookAttained ==
    ASSUME NEW seen, NEW rank, NEW more, NEW new, NEW tag, NEW known, NEW unknown, NEW free,
           NEW certain, NEW others, NEW left,
           Learns(seen, rank, more, new, tag, known, unknown, free, certain, others, left),
           NEW m \in Nat, NEW paid, Attained(paid, rank, known, unknown, free, m)
    PROVE  Attained(paid, new, certain, others, left, m)
<1> SUFFICES ASSUME rank \in [seen -> Int], seen \subseteq more, new \in [more -> Int],
                    \A x \in seen \ {tag} : new[x] = rank[x],
                    free \in SUBSET seen, left \in SUBSET free, tag \notin left,
                    known \in SUBSET seen, unknown \in SUBSET seen, IsFiniteSet(unknown),
                    \/ certain = known /\ others = unknown /\ tag \notin unknown
                    \/ /\ tag \in free /\ certain = known \cup {tag}
                       /\ \E out \in unknown : /\ others = unknown \ {out}
                                               /\ rank[tag] <= rank[out]
                                               /\ tag \in unknown => out = tag
             PROVE  Attained(paid, new, certain, others, left, m)
  BY DEF Learns
<1>1. SUFFICES ASSUME NEW S \in SUBSET left, IsFiniteSet(S), Within(new, S, others, 0)
               PROVE  \E Q \in DOMAIN paid : certain \cup S \subseteq Q /\ paid[Q] <= m
  BY DEF Attained
<1>2. /\ others \in SUBSET (seen \cap more) /\ IsFiniteSet(others) /\ tag \notin others
      /\ S \in SUBSET (seen \cap more) /\ tag \notin S /\ S \in SUBSET free
      /\ (\A x \in S : new[x] = rank[x]) /\ (\A x \in others : new[x] = rank[x])
  BY FS_Subset
<1>3. Within(rank, S, others, 0)
  <2>1. SUFFICES ASSUME NEW theta \in Int
                 PROVE  Many(rank, S, theta) <= Many(rank, others, theta) + 0
    BY DEF Within
  <2>2. Many(new, S, theta) = Many(rank, S, theta)
    BY <1>2, ManySame
  <2>3. Many(new, others, theta) = Many(rank, others, theta)
    BY <1>2, ManySame
  <2>4. Many(new, S, theta) <= Many(new, others, theta) + 0
    BY <1>1 DEF Within
  <2> QED BY <2>2, <2>3, <2>4
<1>4. CASE certain = known /\ others = unknown
  BY <1>1, <1>2, <1>3, <1>4 DEF Attained
<1>5. CASE /\ tag \in free /\ certain = known \cup {tag}
           /\ \E out \in unknown : others = unknown \ {out} /\ rank[tag] <= rank[out]
  <2>1. PICK out \in unknown : others = unknown \ {out} /\ rank[tag] <= rank[out]
    BY <1>5
  <2> DEFINE T == S \cup {tag}
  <2>2. /\ T \in SUBSET free /\ IsFiniteSet(T) /\ tag \in T /\ T \ {tag} = S
        /\ T \in SUBSET seen
    BY <1>1, <1>2, <1>5, FS_AddElement
  <2> HIDE DEF T
  <2>3. Within(rank, T, unknown, 0)
    <3>1. SUFFICES ASSUME NEW theta \in Int
                   PROVE  Many(rank, T, theta) <= Many(rank, unknown, theta) + 0
      BY DEF Within
    <3>2. Many(rank, T, theta) = Many(rank, S, theta) + Reaches(rank, tag, theta)
      BY <2>2, ManyLess
    <3>3. Many(rank, unknown, theta) = Many(rank, others, theta) + Reaches(rank, out, theta)
      BY <2>1, ManyLess
    <3>4. Many(rank, S, theta) <= Many(rank, others, theta) + 0
      BY <1>3 DEF Within
    <3>5. Many(rank, S, theta) \in Nat /\ Many(rank, others, theta) \in Nat
      <4>1. IsFiniteSet(S) /\ S \in SUBSET seen /\ others \in SUBSET seen
        BY <1>1, <1>2
      <4> QED BY <1>2, <4>1, ManyIs
    <3>6. /\ Reaches(rank, tag, theta) \in Nat /\ Reaches(rank, out, theta) \in Nat
          /\ Reaches(rank, tag, theta) <= Reaches(rank, out, theta)
      <4>1. out \in seen /\ tag \in seen /\ rank[out] \in Int /\ rank[tag] \in Int
        BY <1>5, <2>1
      <4>2. CASE rank[tag] >= theta
        <5>1. rank[out] >= theta
          BY <2>1, <4>1, <4>2
        <5>2. Reaches(rank, tag, theta) = 1 /\ Reaches(rank, out, theta) = 1
          BY <4>1, <4>2, <5>1, ReachesIs
        <5> QED BY <5>2
      <4>3. CASE rank[tag] < theta
        <5>1. Reaches(rank, tag, theta) = 0
          BY <4>1, <4>3, ReachesIs
        <5>2. Reaches(rank, out, theta) = 0 \/ Reaches(rank, out, theta) = 1
          BY <4>1, ReachesIs
        <5> QED BY <5>1, <5>2
      <4> QED BY <4>1, <4>2, <4>3
    <3> QED BY <3>2, <3>3, <3>4, <3>5, <3>6
  <2>4. PICK Q \in DOMAIN paid : known \cup T \subseteq Q /\ paid[Q] <= m
    BY <2>2, <2>3 DEF Attained
  <2>5. certain \cup S \subseteq Q
    BY <1>5, <2>4 DEF T
  <2> QED BY <2>4, <2>5
<1> QED BY <1>4, <1>5

-----------------------------------------------------------------------------
(* The ranks of the lines of a set.                                        *)

(* A line that occurs in the trace ranks as if it were known, any other as *)
(* if it were unknown.                                                     *)
Rank(trace, ref, use) ==
    [t \in DOMAIN use |->
        IF NoneAfter(trace, 0, t) THEN -use[t]
        ELSE KMax - RefAt(trace, ref, CHOOSE j : FirstAfter(trace, 0, t, j))]

Free(trace, use) == {t \in DOMAIN use : NoneAfter(trace, 0, t)}

(* use says when, among ref references of which trace are the last.        *)
UsedWell(trace, ref, use) ==
    /\ \A t \in DOMAIN use : use[t] \in Nat /\ use[t] <= ref
    /\ \A t \in DOMAIN use : NoneAfter(trace, 0, t) => use[t] <= ref - Len(trace)
    /\ \A t, v \in DOMAIN use : use[t] = use[v] => t = v

(* The place of a reference among those of its set.                        *)
LEMMA RefAtBounds ==
    ASSUME NEW trace, NEW ref, IsTrace(trace, ref), NEW t, NEW j, FirstAfter(trace, 0, t, j)
    PROVE  /\ j \in 1 .. Len(trace) /\ trace[j].tag = t /\ ~NoneAfter(trace, 0, t)
           /\ RefAt(trace, ref, j) \in Nat /\ RefAt(trace, ref, j) <= ref
           /\ ref \in Nat /\ ref <= MaxRefs /\ MaxRefs \in Nat /\ KMax \in Nat
           /\ KMax > 2 * MaxRefs
<1>1. /\ Len(trace) \in Nat /\ ref \in Nat /\ Len(trace) <= ref /\ ref <= MaxRefs
      /\ j \in 0 + 1 .. Len(trace) /\ trace[j].tag = t
  BY DEF IsTrace, FirstAfter
<1>2. ~NoneAfter(trace, 0, t)
  BY <1>1 DEF NoneAfter
<1>3. MaxRefs \in Nat /\ KMax \in Nat /\ KMax > 2 * MaxRefs
  BY OptAssumption
<1>4. RefAt(trace, ref, j) \in Nat /\ RefAt(trace, ref, j) <= ref /\ j \in 1 .. Len(trace)
  BY <1>1 DEF RefAt
<1> QED BY <1>1, <1>2, <1>3, <1>4

(* A rank is what the trace or the last use says; the lines of the trace   *)
(* rank above the others, and no two lines the same.                       *)
LEMMA RankIs ==
    ASSUME NEW trace, NEW ref, IsTrace(trace, ref), NEW use, UsedWell(trace, ref, use)
    PROVE  /\ Rank(trace, ref, use) \in [DOMAIN use -> Int]
           /\ \A t \in DOMAIN use : -MaxRefs <= Rank(trace, ref, use)[t]
           /\ \A t \in DOMAIN use :
                 NoneAfter(trace, 0, t) => /\ Rank(trace, ref, use)[t] = -use[t]
                                           /\ Rank(trace, ref, use)[t] <= 0
           /\ \A t \in DOMAIN use : \A j : FirstAfter(trace, 0, t, j) =>
                 /\ Rank(trace, ref, use)[t] = KMax - RefAt(trace, ref, j)
                 /\ KMax - ref <= Rank(trace, ref, use)[t]
                 /\ 0 < Rank(trace, ref, use)[t]
           /\ \A t, v \in DOMAIN use : Rank(trace, ref, use)[t] = Rank(trace, ref, use)[v] => t = v
<1> DEFINE rank == Rank(trace, ref, use)
<1>1. trace \in Seq(EntryType) /\ 0 \in Nat /\ ref \in Nat /\ ref <= MaxRefs
      /\ MaxRefs \in Nat /\ KMax \in Nat /\ KMax > 2 * MaxRefs
  BY OptAssumption DEF IsTrace
<1>2. ASSUME NEW t \in DOMAIN use, NoneAfter(trace, 0, t)
      PROVE  /\ rank[t] = -use[t] /\ rank[t] <= 0 /\ rank[t] \in Int /\ -MaxRefs <= rank[t]
             /\ use[t] \in Nat
  <2>1. rank[t] = -use[t]
    BY <1>2 DEF Rank
  <2>2. use[t] \in Nat /\ use[t] <= ref
    BY DEF UsedWell
  <2> HIDE DEF rank
  <2> QED BY <1>1, <2>1, <2>2
<1>3. ASSUME NEW t \in DOMAIN use, NEW j, FirstAfter(trace, 0, t, j)
      PROVE  /\ rank[t] = KMax - RefAt(trace, ref, j)
             /\ KMax - ref <= rank[t] /\ 0 < rank[t] /\ -MaxRefs <= rank[t] /\ rank[t] \in Int
  <2> DEFINE i == CHOOSE i : FirstAfter(trace, 0, t, i)
  <2>1. FirstAfter(trace, 0, t, i)
    BY <1>3
  <2> HIDE DEF i
  <2>2. i = j
    BY <1>1, <1>3, <2>1, FirstUnique
  <2>3. /\ RefAt(trace, ref, j) \in Nat /\ RefAt(trace, ref, j) <= ref
        /\ ~NoneAfter(trace, 0, t)
    BY <1>3, RefAtBounds
  <2>4. rank[t] = KMax - RefAt(trace, ref, i)
    BY <2>3 DEF Rank, i
  <2> HIDE DEF rank
  <2> QED BY <1>1, <2>2, <2>3, <2>4
<1>4. ASSUME NEW t \in DOMAIN use
      PROVE  NoneAfter(trace, 0, t) \/ \E j : FirstAfter(trace, 0, t, j)
  BY <1>1, FirstExists
<1>5. rank \in [DOMAIN use -> Int]
  <2>1. \A t \in DOMAIN use : rank[t] \in Int
    BY <1>2, <1>3, <1>4
  <2>2. rank = [t \in DOMAIN use |-> rank[t]]
    BY DEF Rank
  <2> HIDE DEF rank
  <2> QED BY <2>1, <2>2
<1>6. ASSUME NEW t \in DOMAIN use, NEW v \in DOMAIN use, rank[t] = rank[v] PROVE t = v
  <2> HIDE DEF rank
  <2>1. CASE NoneAfter(trace, 0, t) /\ NoneAfter(trace, 0, v)
    <3>1. use[t] = use[v]
      BY <1>2, <1>6, <2>1
    <3> QED BY <3>1 DEF UsedWell
  <2>2. CASE NoneAfter(trace, 0, t) /\ \E j : FirstAfter(trace, 0, v, j)
    <3>1. rank[t] <= 0 /\ 0 < rank[v] /\ rank[t] \in Int
      BY <1>2, <1>3, <2>2
    <3> QED BY <1>6, <3>1
  <2>3. CASE NoneAfter(trace, 0, v) /\ \E j : FirstAfter(trace, 0, t, j)
    <3>1. rank[v] <= 0 /\ 0 < rank[t] /\ rank[v] \in Int
      BY <1>2, <1>3, <2>3
    <3> QED BY <1>6, <3>1
  <2>4. CASE (\E j : FirstAfter(trace, 0, t, j)) /\ (\E j : FirstAfter(trace, 0, v, j))
    <3>1. PICK i : FirstAfter(trace, 0, t, i)
      BY <2>4
    <3>2. PICK j : FirstAfter(trace, 0, v, j)
      BY <2>4
    <3>3. /\ i \in 1 .. Len(trace) /\ trace[i].tag = t
          /\ j \in 1 .. Len(trace) /\ trace[j].tag = v
      BY <3>1, <3>2, RefAtBounds
    <3>4. RefAt(trace, ref, i) \in Nat /\ RefAt(trace, ref, j) \in Nat
      BY <3>1, <3>2, RefAtBounds
    <3>5. RefAt(trace, ref, i) = RefAt(trace, ref, j)
      <4> DEFINE a == RefAt(trace, ref, i)
                 b == RefAt(trace, ref, j)
      <4>1. rank[t] = KMax - a /\ rank[v] = KMax - b /\ a \in Nat /\ b \in Nat
        BY <1>3, <3>1, <3>2, <3>4
      <4> HIDE DEF a, b
      <4>2. KMax - a = KMax - b
        BY <1>6, <4>1
      <4>3. a = b
        BY <1>1, <4>1, <4>2
      <4> QED BY <4>3 DEF a, b
    <3>6. i = j
      <4>1. Len(trace) \in Nat
        BY <1>1
      <4> QED BY <1>1, <3>3, <3>5, <4>1 DEF RefAt
    <3> QED BY <3>3, <3>6
  <2> QED BY <1>4, <2>1, <2>2, <2>3, <2>4
<1> HIDE DEF rank
<1> QED BY <1>2, <1>3, <1>4, <1>5, <1>6 DEF rank

(* The known and the unknown lines of a set have the ranks that its stacks *)
(* say.                                                                    *)
LEMMA StacksRank ==
    ASSUME NEW set, SetInv(set), NEW use, UsedSet(set, use),
           UsedWell(set.lookahead_trace_, set.ref_id_, use)
    PROVE  LET rank == Rank(set.lookahead_trace_, set.ref_id_, use)
           IN  /\ \A t \in DOMAIN set.known_tags_ :
                     /\ t \in DOMAIN use /\ ~NoneAfter(set.lookahead_trace_, 0, t)
                     /\ rank[t] = set.known_tags_[t]
                     /\ KMax - set.ref_id_ <= rank[t] /\ 0 < rank[t]
               /\ \A t \in DOMAIN set.unknown_tags_ :
                     /\ t \in DOMAIN use /\ NoneAfter(set.lookahead_trace_, 0, t)
                     /\ rank[t] = set.unknown_tags_[t] /\ rank[t] <= 0
<1> DEFINE trace == set.lookahead_trace_
           ref == set.ref_id_
           k == set.known_tags_
           u == set.unknown_tags_
           rank == Rank(trace, ref, use)
<1>1. /\ IsTrace(trace, ref) /\ KnownOK(k, trace, ref) /\ UnknownOK(u, trace)
      /\ UsedOK(u, set.unknown_tags_pool_, trace, ref, use) /\ UsedWell(trace, ref, use)
  BY DEF SetInv, UsedSet
<1> HIDE DEF trace, ref, k, u
<1>2. /\ \A t \in DOMAIN use :
            NoneAfter(trace, 0, t) => rank[t] = -use[t] /\ rank[t] <= 0
      /\ \A t \in DOMAIN use : \A j : FirstAfter(trace, 0, t, j) =>
            /\ rank[t] = KMax - RefAt(trace, ref, j)
            /\ KMax - ref <= rank[t] /\ 0 < rank[t]
  BY <1>1, RankIs
<1>3. ASSUME NEW t \in DOMAIN k
      PROVE  /\ t \in DOMAIN use /\ ~NoneAfter(trace, 0, t)
             /\ rank[t] = k[t] /\ KMax - ref <= rank[t] /\ 0 < rank[t]
  <2>1. PICK j : FirstAfter(trace, 0, t, j) /\ k[t] = KMax - RefAt(trace, ref, j)
    BY <1>1 DEF KnownOK
  <2>2. j \in 1 .. Len(trace) /\ trace[j].tag = t /\ ~NoneAfter(trace, 0, t)
    BY <1>1, <2>1, RefAtBounds
  <2>3. j \in DOMAIN trace
    BY <1>1, <2>2 DEF IsTrace
  <2>4. t \in DOMAIN use
    BY <1>1, <2>2, <2>3 DEF UsedOK
  <2> HIDE DEF rank
  <2> QED BY <1>2, <2>1, <2>2, <2>4
<1>4. ASSUME NEW t \in DOMAIN u
      PROVE  /\ t \in DOMAIN use /\ NoneAfter(trace, 0, t)
             /\ rank[t] = u[t] /\ rank[t] <= 0
  <2>1. t \in DOMAIN use /\ NoneAfter(trace, 0, t) /\ u[t] = -use[t]
    BY <1>1 DEF UnknownOK, UsedOK
  <2> HIDE DEF rank
  <2> QED BY <1>2, <2>1
<1> HIDE DEF rank
<1> QED BY <1>3, <1>4 DEF trace, ref, k, u, rank

-----------------------------------------------------------------------------
(* Ranks when a decision is made.                                          *)

(* The front entry's line ranks highest.  When the entry leaves, only that *)
(* line ranks anew, with the entry's priority: below all lines, if it does *)
(* not occur again.                                                        *)
LEMMA RankTail ==
    ASSUME NEW trace, NEW ref, IsTrace(trace, ref), trace # << >>, Linked(trace, ref),
           NEW use, UsedWell(trace, ref, use),
           NEW tag, tag = trace[1].tag, tag \in DOMAIN use,
           NoneAfter(trace, 1, tag) => use[tag] = RefAt(trace, ref, 1),
           NEW rank, rank = Rank(trace, ref, use),
           NEW new, new = Rank(Tail(trace), ref, use)
    PROVE  /\ UsedWell(Tail(trace), ref, use)
           /\ rank \in [DOMAIN use -> Int] /\ new \in [DOMAIN use -> Int]
           /\ ~NoneAfter(trace, 0, tag)
           /\ \A x \in DOMAIN use \ {tag} :
                 /\ rank[x] < rank[tag] /\ new[x] = rank[x]
                 /\ NoneAfter(Tail(trace), 0, x) <=> NoneAfter(trace, 0, x)
           /\ new[tag] = trace[1].priority
           /\ IsKnown(trace[1]) => ~NoneAfter(Tail(trace), 0, tag) /\ 0 < new[tag]
           /\ ~IsKnown(trace[1]) => /\ NoneAfter(Tail(trace), 0, tag)
                                    /\ \A x \in DOMAIN use \ {tag} : new[tag] < rank[x]
<1> DEFINE rest == Tail(trace)
           n == Len(trace)
<1>1. /\ n \in Nat /\ n > 0 /\ ref \in Nat /\ n <= ref /\ 1 \in DOMAIN trace /\ 0 \in Nat
      /\ 1 \in Nat /\ trace \in Seq(EntryType) /\ rest \in Seq(EntryType) /\ Len(rest) = n - 1
  BY DEF IsTrace
<1>2. IsTrace(rest, ref)
  BY TailLinked
<1>3. FirstAfter(trace, 0, tag, 1)
  <2>1. 1 \in 0 + 1 .. n /\ \A i \in 0 + 1 .. 1 - 1 : FALSE
    BY <1>1
  <2> QED BY <2>1 DEF FirstAfter
<1>4. ~NoneAfter(trace, 0, tag)
  BY <1>3, RefAtBounds
<1>5. ASSUME NEW x, x # tag
      PROVE  /\ NoneAfter(rest, 0, x) <=> NoneAfter(trace, 0, x)
             /\ \A j : FirstAfter(trace, 0, x, j) =>
                   /\ FirstAfter(rest, 0, x, j - 1)
                   /\ RefAt(rest, ref, j - 1) = RefAt(trace, ref, j)
  <2>1. /\ \A j : FirstAfter(trace, 0, x, j) =>
              /\ FirstAfter(rest, 0, x, j - 1)
              /\ RefAt(rest, ref, j - 1) = RefAt(trace, ref, j)
        /\ NoneAfter(trace, 0, x) => NoneAfter(rest, 0, x)
    BY <1>5, TailKnown
  <2>2. ASSUME ~NoneAfter(trace, 0, x) PROVE ~NoneAfter(rest, 0, x)
    <3>1. PICK j : FirstAfter(trace, 0, x, j)
      BY <1>1, <2>2, FirstExists
    <3>2. FirstAfter(rest, 0, x, j - 1)
      BY <2>1, <3>1
    <3> HIDE DEF rest
    <3> QED BY <1>2, <3>2, RefAtBounds
  <2> QED BY <2>1, <2>2
<1>6. /\ IsKnown(trace[1]) =>
            \E j : /\ FirstAfter(rest, 0, tag, j)
                   /\ trace[1].priority = KMax - RefAt(rest, ref, j)
      /\ ~IsKnown(trace[1]) => NoneAfter(rest, 0, tag)
  BY TailKnown
<1>7. ~IsKnown(trace[1]) => /\ use[tag] = RefAt(trace, ref, 1)
                            /\ trace[1].priority = -RefAt(trace, ref, 1)
  <2>1. SUFFICES ASSUME ~IsKnown(trace[1])
                 PROVE  /\ use[tag] = RefAt(trace, ref, 1)
                        /\ trace[1].priority = -RefAt(trace, ref, 1)
    OBVIOUS
  <2>2. NoneAfter(trace, 1, trace[1].tag)
    BY <1>1, <2>1, WaitingIsLast
  <2> QED BY <1>1, <2>2 DEF Linked
<1>8. RefAt(trace, ref, 1) = (ref - n) + 1
  BY <1>1 DEF RefAt
<1> HIDE DEF rest
<1>9. UsedWell(rest, ref, use)
  <2>1. ASSUME NEW t \in DOMAIN use, NoneAfter(rest, 0, t) PROVE use[t] <= ref - Len(rest)
    <3>1. CASE t = tag
      <4>1. ~IsKnown(trace[1])
        BY <1>2, <1>6, <2>1, <3>1, RefAtBounds
      <4> HIDE DEF n
      <4> QED BY <1>1, <1>7, <1>8, <3>1, <4>1
    <3>2. CASE t # tag
      <4>1. NoneAfter(trace, 0, t)
        BY <1>5, <2>1, <3>2
      <4>2. use[t] \in Nat /\ use[t] <= ref - n
        BY <4>1 DEF UsedWell
      <4> HIDE DEF n
      <4> QED BY <1>1, <4>2
    <3> QED BY <3>1, <3>2
  <2> QED BY <2>1 DEF UsedWell
<1>10. /\ rank \in [DOMAIN use -> Int]
       /\ \A t \in DOMAIN use :
             NoneAfter(trace, 0, t) => rank[t] = -use[t] /\ rank[t] <= 0
       /\ \A t \in DOMAIN use : \A j : FirstAfter(trace, 0, t, j) =>
             /\ rank[t] = KMax - RefAt(trace, ref, j) /\ 0 < rank[t]
  BY RankIs
<1>11. /\ new \in [DOMAIN use -> Int]
       /\ \A t \in DOMAIN use :
             NoneAfter(rest, 0, t) => new[t] = -use[t] /\ new[t] <= 0
       /\ \A t \in DOMAIN use : \A j : FirstAfter(rest, 0, t, j) =>
             /\ new[t] = KMax - RefAt(rest, ref, j) /\ 0 < new[t]
  <2>1. new = Rank(rest, ref, use)
    BY DEF rest
  <2> QED BY <1>2, <1>9, <2>1, RankIs
<1>12. ASSUME NEW x \in DOMAIN use \ {tag} PROVE rank[x] < rank[tag] /\ new[x] = rank[x]
  <2>1. CASE NoneAfter(trace, 0, x)
    <3>1. rank[x] <= 0 /\ 0 < rank[tag] /\ rank[x] \in Int /\ rank[tag] \in Int
      BY <1>3, <1>10, <2>1
    <3>2. new[x] = -use[x] /\ rank[x] = -use[x]
      BY <1>5, <1>10, <1>11, <2>1
    <3> QED BY <3>1, <3>2
  <2>2. CASE ~NoneAfter(trace, 0, x)
    <3>1. PICK j : FirstAfter(trace, 0, x, j)
      BY <1>1, <2>2, FirstExists
    <3>2. FirstAfter(rest, 0, x, j - 1) /\ RefAt(rest, ref, j - 1) = RefAt(trace, ref, j)
      BY <1>5, <3>1
    <3>3. j \in 1 .. n /\ j # 1 /\ KMax \in Nat
      BY <3>1, RefAtBounds
    <3>4. rank[x] = KMax - RefAt(trace, ref, j) /\ rank[tag] = KMax - RefAt(trace, ref, 1)
      BY <1>3, <1>10, <3>1
    <3>5. RefAt(trace, ref, j) = (ref - n) + j
      BY <1>1, <3>3 DEF RefAt
    <3>6. rank[x] < rank[tag]
      <4> HIDE DEF n
      <4> QED BY <1>1, <1>8, <3>3, <3>4, <3>5
    <3>7. new[x] = KMax - RefAt(rest, ref, j - 1)
      BY <1>11, <3>2
    <3> QED BY <3>2, <3>4, <3>6, <3>7
  <2> QED BY <2>1, <2>2
<1>13. new[tag] = trace[1].priority
  <2>1. CASE IsKnown(trace[1])
    BY <1>6, <1>11, <2>1
  <2>2. CASE ~IsKnown(trace[1])
    BY <1>6, <1>7, <1>11, <2>2
  <2> QED BY <2>1, <2>2
<1>14. IsKnown(trace[1]) => ~NoneAfter(rest, 0, tag) /\ 0 < new[tag]
  BY <1>2, <1>6, <1>11, RefAtBounds
<1>15. ASSUME ~IsKnown(trace[1]), NEW x \in DOMAIN use \ {tag} PROVE new[tag] < rank[x]
  <2>1. new[tag] = -((ref - n) + 1) /\ new[tag] <= 0 /\ new[tag] \in Int /\ rank[x] \in Int
    BY <1>6, <1>7, <1>8, <1>10, <1>11, <1>15
  <2>2. CASE NoneAfter(trace, 0, x)
    <3>1. use[x] \in Nat /\ use[x] <= ref - n /\ rank[x] = -use[x]
      BY <1>10, <2>2 DEF UsedWell
    <3> HIDE DEF n
    <3> QED BY <1>1, <2>1, <3>1
  <2>3. CASE ~NoneAfter(trace, 0, x)
    <3>1. PICK j : FirstAfter(trace, 0, x, j)
      BY <1>1, <2>3, FirstExists
    <3>2. 0 < rank[x]
      BY <1>10, <3>1
    <3> QED BY <2>1, <3>2
  <2> QED BY <2>2, <2>3
<1> QED BY <1>4, <1>5, <1>6, <1>9, <1>10, <1>11, <1>12, <1>13, <1>14, <1>15 DEF rest

(* A line that does not occur in the trace can be told apart from the      *)
(* unknown ones when it is used again: the pool has it, or it was used     *)
(* before none of them.                                                    *)
PoolKept(unknown, pool, trace, use) ==
    \A t \in Free(trace, use) :
        \/ t \in DOMAIN unknown
        \/ t \in DOMAIN pool
        \/ \A x \in DOMAIN unknown : unknown[x] < -use[t]

(* The stacks are as good as any choice with the cost function paid, and   *)
(* have counted m misses.                                                  *)
Best(known, unknown, pool, trace, ref, use, paid, m) ==
    /\ UsedOK(unknown, pool, trace, ref, use)
    /\ UsedWell(trace, ref, use)
    /\ PoolKept(unknown, pool, trace, use)
    /\ m \in Nat
    /\ Purse(paid, DOMAIN use)
    /\ Least(paid, Rank(trace, ref, use), DOMAIN known \cup DOMAIN unknown, m)
    /\ Attained(paid, Rank(trace, ref, use), DOMAIN known, DOMAIN unknown,
                Free(trace, use), m)

BestSet(set, use, paid, m) ==
    Best(set.known_tags_, set.unknown_tags_, set.unknown_tags_pool_,
         set.lookahead_trace_, set.ref_id_, use, paid, m)

(* The ranks before and after the decision about the front entry.          *)
LEMMA FrontRanks ==
    ASSUME NEW set, SetInv(set), set.lookahead_trace_ # << >>,
           NEW tag, tag = set.lookahead_trace_[1].tag,
           NEW use, UsedSet(set, use), UsedWell(set.lookahead_trace_, set.ref_id_, use),
           NEW rank, rank = Rank(set.lookahead_trace_, set.ref_id_, use),
           NEW new, new = Rank(Tail(set.lookahead_trace_), set.ref_id_, use)
    PROVE  /\ tag \in DOMAIN use /\ tag \notin DOMAIN set.unknown_tags_
           /\ rank \in [DOMAIN use -> Int] /\ new \in [DOMAIN use -> Int]
           /\ \A x \in DOMAIN use \ {tag} :
                 /\ rank[x] < rank[tag] /\ new[x] = rank[x]
                 /\ NoneAfter(Tail(set.lookahead_trace_), 0, x)
                       <=> NoneAfter(set.lookahead_trace_, 0, x)
           /\ new[tag] = set.lookahead_trace_[1].priority
           /\ ~NoneAfter(set.lookahead_trace_, 0, tag)
           /\ IsKnown(set.lookahead_trace_[1]) =>
                 ~NoneAfter(Tail(set.lookahead_trace_), 0, tag) /\ 0 < new[tag]
           /\ ~IsKnown(set.lookahead_trace_[1]) =>
                 /\ NoneAfter(Tail(set.lookahead_trace_), 0, tag)
                 /\ \A x \in DOMAIN use \ {tag} : new[tag] < rank[x]
           /\ UsedWell(Tail(set.lookahead_trace_), set.ref_id_, use)
<1> DEFINE trace == set.lookahead_trace_
           ref == set.ref_id_
           u == set.unknown_tags_
<1>1. /\ IsTrace(trace, ref) /\ Linked(trace, ref) /\ UnknownOK(u, trace)
      /\ UsedOK(u, set.unknown_tags_pool_, trace, ref, use) /\ UsedWell(trace, ref, use)
      /\ trace # << >> /\ tag = trace[1].tag
      /\ rank = Rank(trace, ref, use) /\ new = Rank(Tail(trace), ref, use)
  BY DEF SetInv, UsedSet
<1> HIDE DEF trace, ref, u
<1>2. 1 \in DOMAIN trace
  BY <1>1 DEF IsTrace
<1>3. tag \in DOMAIN use /\ (NoneAfter(trace, 1, tag) => use[tag] = RefAt(trace, ref, 1))
  BY <1>1, <1>2 DEF UsedOK
<1>4. /\ UsedWell(Tail(trace), ref, use)
      /\ rank \in [DOMAIN use -> Int] /\ new \in [DOMAIN use -> Int]
      /\ ~NoneAfter(trace, 0, tag)
      /\ \A x \in DOMAIN use \ {tag} :
            /\ rank[x] < rank[tag] /\ new[x] = rank[x]
            /\ NoneAfter(Tail(trace), 0, x) <=> NoneAfter(trace, 0, x)
      /\ new[tag] = trace[1].priority
      /\ IsKnown(trace[1]) => ~NoneAfter(Tail(trace), 0, tag) /\ 0 < new[tag]
      /\ ~IsKnown(trace[1]) => /\ NoneAfter(Tail(trace), 0, tag)
                               /\ \A x \in DOMAIN use \ {tag} : new[tag] < rank[x]
  BY <1>1, <1>3, RankTail
<1>5. tag \notin DOMAIN u
  BY <1>1, <1>4 DEF UnknownOK
<1> QED BY <1>3, <1>4, <1>5 DEF trace, ref, u

(* A decision about entry turns the lines of a set into those of known and *)
(* unknown: it lets in no line but that of entry, as an unknown one only   *)
(* if entry is, and makes room for it by the ranks that come after.        *)
Turns(set, entry, known, unknown, use) ==
    /\ DOMAIN known \subseteq DOMAIN set.known_tags_ \cup {entry.tag}
    /\ DOMAIN unknown \subseteq DOMAIN set.unknown_tags_ \cup {entry.tag}
    /\ entry.tag \in DOMAIN unknown => ~IsKnown(entry)
    /\ entry.tag \in DOMAIN set.known_tags_ \cup DOMAIN set.unknown_tags_
          <=> IsHit(set, entry)
    /\ MakesRoom(Rank(Tail(set.lookahead_trace_), set.ref_id_, use), entry.tag,
                 DOMAIN set.known_tags_ \cup DOMAIN set.unknown_tags_,
                 DOMAIN known \cup DOMAIN unknown)

(* What a decision makes of the lines of a set, in terms of their ranks.   *)
LEMMA DecidedLines ==
    ASSUME NEW set, SetInv(set), set.lookahead_trace_ # << >>,
           NEW entry, entry = set.lookahead_trace_[1],
           NEW known, NEW unknown, NEW pool, Decided(set, entry, known, unknown, pool),
           NEW use, UsedSet(set, use), UsedWell(set.lookahead_trace_, set.ref_id_, use)
    PROVE  Turns(set, entry, known, unknown, use)
<1> SUFFICES ASSUME NEW new, new = Rank(Tail(set.lookahead_trace_), set.ref_id_, use),
                    NEW lines, lines = DOMAIN set.known_tags_ \cup DOMAIN set.unknown_tags_,
                    NEW next, next = DOMAIN known \cup DOMAIN unknown
             PROVE  /\ DOMAIN known \subseteq DOMAIN set.known_tags_ \cup {entry.tag}
                    /\ DOMAIN unknown \subseteq DOMAIN set.unknown_tags_ \cup {entry.tag}
                    /\ entry.tag \in DOMAIN unknown => ~IsKnown(entry)
                    /\ entry.tag \in lines <=> IsHit(set, entry)
                    /\ MakesRoom(new, entry.tag, lines, next)
  BY DEF Turns
<1> DEFINE trace == set.lookahead_trace_
           ref == set.ref_id_
           k == set.known_tags_
           u == set.unknown_tags_
           tag == entry.tag
           rank == Rank(trace, ref, use)
           Some == \E out \in lines \cup {tag} :
                       /\ next = (lines \cup {tag}) \ {out}
                       /\ \A x \in lines \cup {tag} : new[out] <= new[x]
<1>1. /\ tag \in DOMAIN use /\ tag \notin DOMAIN u
      /\ rank \in [DOMAIN use -> Int] /\ new \in [DOMAIN use -> Int]
      /\ \A x \in DOMAIN use \ {tag} : new[x] = rank[x]
      /\ new[tag] = entry.priority
      /\ IsKnown(entry) => 0 < new[tag]
      /\ ~IsKnown(entry) => \A x \in DOMAIN use \ {tag} : new[tag] < rank[x]
  BY FrontRanks
<1>2. /\ \A t \in DOMAIN k : t \in DOMAIN use /\ rank[t] = k[t] /\ 0 < rank[t]
      /\ \A t \in DOMAIN u : t \in DOMAIN use /\ rank[t] = u[t] /\ rank[t] <= 0
  BY StacksRank
<1>3. Size(set) = Cardinality(lines)
  <2>1. /\ IsFiniteSet(DOMAIN k) /\ IsFiniteSet(DOMAIN u)
        /\ DOMAIN k \cap DOMAIN u = {}
    BY DEF SetInv, Fits
  <2>2. Cardinality(DOMAIN k \cup DOMAIN u)
          = Cardinality(DOMAIN k) + Cardinality(DOMAIN u) - Cardinality(DOMAIN k \cap DOMAIN u)
    BY <2>1, FS_Union
  <2>3. Cardinality(DOMAIN k) \in Nat /\ Cardinality(DOMAIN u) \in Nat
    BY <2>1, FS_CardinalityType
  <2>4. Cardinality(DOMAIN k \cap DOMAIN u) = 0
    BY <2>1, FS_EmptySet
  <2>5. Size(set) = Cardinality(DOMAIN k) + Cardinality(DOMAIN u)
    BY DEF Size
  <2> HIDE DEF k, u
  <2>6. Size(set) = Cardinality(DOMAIN k \cup DOMAIN u)
    BY <2>2, <2>3, <2>4, <2>5
  <2> QED BY <2>6 DEF k, u
<1>4. IsHit(set, entry) <=> tag \in lines
  BY <1>1 DEF IsHit
<1>5. \/ IsKnown(entry) /\ known = Put(Drop(k, tag), tag, entry.priority) /\ unknown = u
      \/ ~IsKnown(entry) /\ known = Drop(k, tag) /\ unknown = Put(u, tag, entry.priority)
      \/ /\ ~IsHit(set, entry) /\ IsKnown(entry)
         /\ Size(set) >= NumWays /\ DOMAIN u = {} /\ unknown = u
         /\ \E out \in DOMAIN k : /\ k[out] < entry.priority
                                  /\ \A t \in DOMAIN k : k[out] <= k[t]
                                  /\ known = Put(Drop(k, out), tag, entry.priority)
      \/ /\ ~IsHit(set, entry) /\ IsKnown(entry)
         /\ Size(set) >= NumWays
         /\ \E out \in DOMAIN u : /\ \A t \in DOMAIN u : u[out] <= u[t]
                                  /\ known = Put(k, tag, entry.priority)
                                  /\ unknown = Drop(u, out)
      \/ /\ ~IsHit(set, entry) /\ IsKnown(entry)
         /\ Size(set) >= NumWays /\ DOMAIN u = {}
         /\ \E out \in DOMAIN k : /\ ~(k[out] < entry.priority)
                                  /\ \A t \in DOMAIN k : k[out] <= k[t]
         /\ known = k /\ unknown = u
      \/ /\ ~IsHit(set, entry) /\ ~IsKnown(entry)
         /\ Size(set) >= NumWays
         /\ known = k /\ unknown = u
  BY DEF Decided, k, u
<1> HIDE DEF k, u, tag, rank, trace, ref, Some
<1>6. lines = DOMAIN k \cup DOMAIN u /\ next = DOMAIN known \cup DOMAIN unknown
  BY DEF k, u
<1>7. CASE IsKnown(entry) /\ known = Put(Drop(k, tag), tag, entry.priority) /\ unknown = u
  <2>1. DOMAIN known = DOMAIN k \cup {tag}
    BY <1>7 DEF Put, Drop
  <2>2. next = lines \cup {tag}
    BY <1>6, <1>7, <2>1
  <2> QED BY <1>1, <1>4, <1>7, <2>1, <2>2 DEF MakesRoom, k, u, tag
<1>8. CASE ~IsKnown(entry) /\ known = Drop(k, tag) /\ unknown = Put(u, tag, entry.priority)
  <2>1. DOMAIN known = DOMAIN k \ {tag} /\ DOMAIN unknown = DOMAIN u \cup {tag}
    BY <1>8 DEF Put, Drop
  <2>2. next = lines \cup {tag}
    BY <1>6, <2>1
  <2> QED BY <1>4, <1>8, <2>1, <2>2 DEF MakesRoom, k, u, tag
<1>9. CASE /\ ~IsHit(set, entry) /\ IsKnown(entry)
           /\ Size(set) >= NumWays /\ DOMAIN u = {} /\ unknown = u
           /\ \E out \in DOMAIN k : /\ k[out] < entry.priority
                                    /\ \A t \in DOMAIN k : k[out] <= k[t]
                                    /\ known = Put(Drop(k, out), tag, entry.priority)
  <2>1. PICK out \in DOMAIN k : /\ k[out] < entry.priority
                                /\ \A t \in DOMAIN k : k[out] <= k[t]
                                /\ DOMAIN known = (DOMAIN k \ {out}) \cup {tag}
    <3>1. PICK out \in DOMAIN k : /\ k[out] < entry.priority
                                  /\ \A t \in DOMAIN k : k[out] <= k[t]
                                  /\ known = Put(Drop(k, out), tag, entry.priority)
      BY <1>9
    <3>2. DOMAIN known = (DOMAIN k \ {out}) \cup {tag}
      BY <3>1 DEF Put, Drop
    <3> QED BY <3>1, <3>2
  <2>2. out \in lines \cup {tag} /\ out # tag /\ next = (lines \cup {tag}) \ {out}
    BY <1>4, <1>6, <1>9, <2>1
  <2>3. \A x \in lines \cup {tag} : new[out] <= new[x]
    <3>1. new[out] = k[out] /\ new[out] \in Int /\ new[tag] \in Int
      BY <1>1, <1>2, <2>1, <2>2
    <3>2. ASSUME NEW x \in lines, x # tag PROVE new[out] <= new[x]
      <4>1. x \in DOMAIN k /\ x \in DOMAIN use
        BY <1>2, <1>6, <1>9, <3>2
      <4>2. new[x] = k[x]
        BY <1>1, <1>2, <3>2, <4>1
      <4> QED BY <2>1, <3>1, <4>1, <4>2
    <3>3. new[out] <= new[tag]
      BY <1>1, <2>1, <3>1
    <3> QED BY <3>2, <3>3
  <2>4. Some
    BY <2>2, <2>3 DEF Some
  <2> QED BY <1>1, <1>3, <1>4, <1>9, <2>1, <2>4 DEF MakesRoom, Some, k, u, tag
<1>10. CASE /\ ~IsHit(set, entry) /\ IsKnown(entry)
            /\ Size(set) >= NumWays
            /\ \E out \in DOMAIN u : /\ \A t \in DOMAIN u : u[out] <= u[t]
                                     /\ known = Put(k, tag, entry.priority)
                                     /\ unknown = Drop(u, out)
  <2>1. PICK out \in DOMAIN u : /\ \A t \in DOMAIN u : u[out] <= u[t]
                                /\ DOMAIN known = DOMAIN k \cup {tag}
                                /\ DOMAIN unknown = DOMAIN u \ {out}
    <3>1. PICK out \in DOMAIN u : /\ \A t \in DOMAIN u : u[out] <= u[t]
                                  /\ known = Put(k, tag, entry.priority)
                                  /\ unknown = Drop(u, out)
      BY <1>10
    <3>2. DOMAIN known = DOMAIN k \cup {tag} /\ DOMAIN unknown = DOMAIN u \ {out}
      BY <3>1 DEF Put, Drop
    <3> QED BY <3>1, <3>2
  <2>2. /\ out \in lines \cup {tag} /\ out # tag
        /\ next = (lines \cup {tag}) \ {out}
    <3>1. out \notin DOMAIN k
      BY DEF SetInv, Fits, k, u
    <3> QED BY <1>1, <1>6, <2>1, <3>1
  <2>3. \A x \in lines \cup {tag} : new[out] <= new[x]
    <3>1. new[out] = u[out] /\ new[out] \in Int /\ new[tag] \in Int /\ new[out] <= 0
      BY <1>1, <1>2, <2>2
    <3>2. ASSUME NEW x \in lines, x # tag PROVE new[out] <= new[x]
      <4>1. x \in DOMAIN use
        BY <1>2, <1>6
      <4>2. new[x] = rank[x] /\ new[x] \in Int
        BY <1>1, <3>2, <4>1
      <4>3. CASE x \in DOMAIN u
        BY <1>2, <2>1, <3>1, <4>2, <4>3
      <4>4. CASE x \in DOMAIN k
        <5>1. 0 < new[x]
          BY <1>2, <4>2, <4>4
        <5> QED BY <3>1, <4>2, <5>1
      <4> QED BY <1>6, <4>3, <4>4
    <3>3. new[out] <= new[tag]
      BY <1>1, <1>10, <3>1
    <3> QED BY <3>2, <3>3
  <2>4. Some
    BY <2>2, <2>3 DEF Some
  <2> QED BY <1>1, <1>3, <1>4, <1>10, <2>1, <2>4 DEF MakesRoom, Some, k, u, tag
<1>11. CASE /\ ~IsHit(set, entry) /\ IsKnown(entry)
            /\ Size(set) >= NumWays /\ DOMAIN u = {}
            /\ \E out \in DOMAIN k : /\ ~(k[out] < entry.priority)
                                     /\ \A t \in DOMAIN k : k[out] <= k[t]
            /\ known = k /\ unknown = u
  <2>1. PICK out \in DOMAIN k : /\ ~(k[out] < entry.priority)
                                /\ \A t \in DOMAIN k : k[out] <= k[t]
    BY <1>11
  <2>2. tag \in lines \cup {tag} /\ next = (lines \cup {tag}) \ {tag}
    BY <1>4, <1>6, <1>11
  <2>3. \A x \in lines \cup {tag} : new[tag] <= new[x]
    <3>1. new[tag] = entry.priority /\ new[tag] \in Int /\ k[out] \in Int
      BY <1>1, <1>2
    <3>2. ASSUME NEW x \in lines, x # tag PROVE new[tag] <= new[x]
      <4>1. x \in DOMAIN k /\ x \in DOMAIN use
        BY <1>2, <1>6, <1>11, <3>2
      <4>2. new[x] = k[x] /\ new[x] \in Int
        BY <1>1, <1>2, <3>2, <4>1
      <4> QED BY <2>1, <3>1, <4>1, <4>2
    <3> QED BY <3>1, <3>2
  <2>4. Some
    BY <2>2, <2>3 DEF Some
  <2> QED BY <1>1, <1>3, <1>4, <1>11, <2>4 DEF MakesRoom, Some, k, u, tag
<1>12. CASE /\ ~IsHit(set, entry) /\ ~IsKnown(entry)
            /\ Size(set) >= NumWays
            /\ known = k /\ unknown = u
  <2>1. tag \in lines \cup {tag} /\ next = (lines \cup {tag}) \ {tag}
    BY <1>4, <1>6, <1>12
  <2>2. \A x \in lines \cup {tag} : new[tag] <= new[x]
    <3>1. new[tag] \in Int
      BY <1>1
    <3>2. ASSUME NEW x \in lines, x # tag PROVE new[tag] <= new[x]
      <4>1. x \in DOMAIN use
        BY <1>2, <1>6
      <4>2. new[x] = rank[x] /\ new[x] \in Int /\ new[tag] < rank[x]
        BY <1>1, <1>12, <3>2, <4>1
      <4> QED BY <3>1, <4>2
    <3> QED BY <3>1, <3>2
  <2>3. Some
    BY <2>1, <2>2 DEF Some
  <2> QED BY <1>1, <1>3, <1>4, <1>12, <2>3 DEF MakesRoom, Some, k, u, tag
<1> QED BY <1>5, <1>7, <1>8, <1>9, <1>10, <1>11, <1>12

(* The pool keeps what it has to know when a decision is made.             *)
LEMMA DecidedPool ==
    ASSUME NEW set, SetInv(set), set.lookahead_trace_ # << >>,
           NEW entry, entry = set.lookahead_trace_[1],
           NEW known, NEW unknown, NEW pool, Decided(set, entry, known, unknown, pool),
           NEW use, UsedSet(set, use), UsedWell(set.lookahead_trace_, set.ref_id_, use),
           PoolKept(set.unknown_tags_, set.unknown_tags_pool_, set.lookahead_trace_, use)
    PROVE  PoolKept(unknown, pool, Tail(set.lookahead_trace_), use)
<1> DEFINE trace == set.lookahead_trace_
           ref == set.ref_id_
           rest == Tail(trace)
           u == set.unknown_tags_
           p == set.unknown_tags_pool_
           tag == entry.tag
           prio == entry.priority
           rank == Rank(trace, ref, use)
           new == Rank(rest, ref, use)
<1>1. /\ tag \in DOMAIN use /\ tag \notin DOMAIN u
      /\ \A x \in DOMAIN use \ {tag} : NoneAfter(rest, 0, x) <=> NoneAfter(trace, 0, x)
      /\ new[tag] = prio
      /\ IsKnown(entry) => ~NoneAfter(rest, 0, tag)
      /\ ~IsKnown(entry) => \A x \in DOMAIN use \ {tag} : new[tag] < rank[x]
  BY FrontRanks
<1>2. \A x \in DOMAIN use : NoneAfter(trace, 0, x) => rank[x] = -use[x]
  <2>1. IsTrace(trace, ref)
    BY DEF SetInv
  <2> HIDE DEF trace, ref
  <2> QED BY <2>1, RankIs DEF trace, ref
<1>3. \/ IsKnown(entry) /\ unknown = u /\ pool = p
      \/ ~IsKnown(entry) /\ unknown = Put(u, tag, prio) /\ pool = p
      \/ /\ IsKnown(entry)
         /\ \E out \in DOMAIN u : unknown = Drop(u, out) /\ pool = Put(p, out, u[out])
      \/ unknown = u /\ pool = Put(p, tag, prio)
  BY DEF Decided, u, p
<1>4. SUFFICES ASSUME NEW t \in DOMAIN use, NoneAfter(rest, 0, t)
               PROVE  \/ t \in DOMAIN unknown
                      \/ t \in DOMAIN pool
                      \/ \A x \in DOMAIN unknown : unknown[x] < -use[t]
  BY DEF PoolKept, Free
<1> HIDE DEF trace, ref, rest, u, p, tag, prio, rank, new
<1>5. t # tag => \/ t \in DOMAIN u
                 \/ t \in DOMAIN p
                 \/ \A x \in DOMAIN u : u[x] < -use[t]
  BY <1>1, <1>4 DEF PoolKept, Free, u, p, trace
<1>6. CASE IsKnown(entry) /\ unknown = u /\ pool = p
  BY <1>1, <1>4, <1>5, <1>6
<1>7. CASE ~IsKnown(entry) /\ unknown = Put(u, tag, prio) /\ pool = p
  <2>1. /\ DOMAIN unknown = DOMAIN u \cup {tag} /\ unknown[tag] = prio
        /\ \A x \in DOMAIN u : x # tag => unknown[x] = u[x]
    BY <1>7 DEF Put
  <2>2. CASE t = tag
    BY <2>1, <2>2
  <2>3. CASE t # tag
    <3>1. prio < -use[t]
      BY <1>1, <1>2, <1>4, <1>7, <2>3
    <3> QED BY <1>1, <1>5, <1>7, <2>1, <2>3, <3>1
  <2> QED BY <2>2, <2>3
<1>8. CASE /\ IsKnown(entry)
           /\ \E out \in DOMAIN u : unknown = Drop(u, out) /\ pool = Put(p, out, u[out])
  <2>1. PICK out \in DOMAIN u : unknown = Drop(u, out) /\ pool = Put(p, out, u[out])
    BY <1>8
  <2>2. /\ DOMAIN unknown = DOMAIN u \ {out} /\ DOMAIN pool = DOMAIN p \cup {out}
        /\ \A x \in DOMAIN u : x # out => unknown[x] = u[x]
    BY <2>1 DEF Put, Drop
  <2> QED BY <1>1, <1>4, <1>5, <1>8, <2>2
<1>9. CASE unknown = u /\ pool = Put(p, tag, prio)
  <2>1. DOMAIN pool = DOMAIN p \cup {tag}
    BY <1>9 DEF Put
  <2> QED BY <1>5, <1>9, <2>1
<1> QED BY <1>3, <1>6, <1>7, <1>8, <1>9 DEF tag, prio

(* Counting a miss or not, in one way or the other.                        *)
LEMMA SameCountOf ==
    ASSUME NEW a \in BOOLEAN, NEW b \in BOOLEAN, a <=> b
    PROVE  B2I(a) = B2I(b) /\ B2I(a) \in Nat
BY DEF B2I

(* A decision leaves the stacks as good as any choice.                     *)
LEMMA DecidedBest ==
    ASSUME NEW set, SetInv(set), set.lookahead_trace_ # << >>,
           NEW entry, entry = set.lookahead_trace_[1],
           NEW known, NEW unknown, NEW pool, Decided(set, entry, known, unknown, pool),
           NEW use, NEW paid, NEW m, BestSet(set, use, paid, m)
    PROVE  Best(known, unknown, pool, Tail(set.lookahead_trace_), set.ref_id_, use,
                CostAfter(paid, entry.tag), m + B2I(~IsHit(set, entry)))
<1> DEFINE trace == set.lookahead_trace_
           ref == set.ref_id_
           rest == Tail(trace)
           k == set.known_tags_
           u == set.unknown_tags_
           p == set.unknown_tags_pool_
           tag == entry.tag
           rank == Rank(trace, ref, use)
           new == Rank(rest, ref, use)
           seen == DOMAIN use
           lines == DOMAIN k \cup DOMAIN u
           next == DOMAIN known \cup DOMAIN unknown
           free == Free(trace, use)
           left == Free(rest, use)
           b == B2I(~IsHit(set, entry))
<1>1. /\ UsedSet(set, use) /\ UsedWell(trace, ref, use) /\ PoolKept(u, p, trace, use)
      /\ m \in Nat /\ Purse(paid, seen) /\ Least(paid, rank, lines, m)
      /\ Attained(paid, rank, DOMAIN k, DOMAIN u, free, m)
      /\ IsTrace(trace, ref)
  BY DEF BestSet, Best, UsedSet, SetInv
<1>2. /\ tag \in seen /\ tag \notin DOMAIN u
      /\ rank \in [seen -> Int] /\ new \in [seen -> Int]
      /\ \A x \in seen \ {tag} : rank[x] < rank[tag] /\ new[x] = rank[x]
      /\ ~NoneAfter(trace, 0, tag)
      /\ ~IsKnown(entry) => \A x \in seen \ {tag} : new[tag] < rank[x]
      /\ UsedWell(rest, ref, use)
      /\ \A x \in seen \ {tag} : NoneAfter(rest, 0, x) <=> NoneAfter(trace, 0, x)
  BY <1>1, FrontRanks
<1>3. /\ IsFiniteSet(DOMAIN k) /\ IsFiniteSet(DOMAIN u)
      /\ DOMAIN k \in SUBSET seen /\ DOMAIN u \in SUBSET seen
  BY <1>1, StacksRank DEF SetInv, Fits
<1>4. IsFiniteSet(lines) /\ lines \in SUBSET seen
  BY <1>3, FS_Union
<1>5. /\ DOMAIN known \subseteq DOMAIN k \cup {tag}
      /\ DOMAIN unknown \subseteq DOMAIN u \cup {tag}
      /\ tag \in DOMAIN unknown => ~IsKnown(entry)
      /\ tag \in lines <=> IsHit(set, entry)
      /\ MakesRoom(new, tag, lines, next)
  <2>1. Turns(set, entry, known, unknown, use)
    BY <1>1, DecidedLines
  <2> QED BY <2>1 DEF Turns
<1>6. /\ IsFiniteSet(DOMAIN known)
      /\ Cardinality(DOMAIN known) + Cardinality(DOMAIN unknown) <= NumWays
  BY DecidedFits
<1>7. /\ b = B2I(tag \notin lines) /\ b = B2I(tag \notin DOMAIN k) /\ b \in Nat
  <2>1. /\ ~IsHit(set, entry) <=> tag \notin lines
        /\ ~IsHit(set, entry) <=> tag \notin DOMAIN k
    BY <1>5 DEF IsHit
  <2> QED BY <2>1, SameCountOf DEF IsHit
<1>8. UsedOK(unknown, pool, rest, ref, use)
  BY <1>1, DecidedUsed
<1>9. PoolKept(unknown, pool, rest, use)
  BY <1>1, DecidedPool
<1>10. /\ \A x \in seen : -MaxRefs <= new[x]
       /\ -MaxRefs \in Int
  <2>1. IsTrace(rest, ref)
    BY <1>1, TailLinked DEF SetInv
  <2> HIDE DEF rest, ref
  <2> QED BY <1>2, <2>1, RankIs, OptAssumption
<1>11. /\ free \in SUBSET (seen \ {tag}) /\ DOMAIN u \in SUBSET (seen \ {tag})
       /\ left \subseteq free \cup {tag}
  BY <1>2, <1>3 DEF Free
<1> HIDE DEF trace, ref, rest, k, u, p, tag, rank, new, seen, lines, next, free, left, b
<1>12. Purse(CostAfter(paid, tag), seen)
  BY <1>1, <1>2, CostAfterIs
<1>13. Least(CostAfter(paid, tag), new, next, m + b)
  BY <1>1, <1>2, <1>4, <1>5, <1>7, DecisionLeast
<1>14. Attained(CostAfter(paid, tag), new, DOMAIN known, DOMAIN unknown, left, m + b)
  <2>1. tag \in DOMAIN unknown => \A x \in free : new[tag] < rank[x]
    BY <1>2, <1>5, <1>11
  <2>2. \E lo \in Int : \A x \in seen : lo <= new[x]
    BY <1>10
  <2>3. \A x \in seen \ {tag} : new[x] = rank[x]
    BY <1>2
  <2>4. Settles(seen, rank, new, tag, DOMAIN k, DOMAIN u, free, DOMAIN known,
                DOMAIN unknown, left)
    BY <1>2, <1>3, <1>5, <1>6, <1>11, <2>1, <2>2, <2>3 DEF Settles
  <2>5. Attained(CostAfter(paid, tag), new, DOMAIN known, DOMAIN unknown, left,
                 m + B2I(tag \notin DOMAIN k))
    BY <1>1, <2>4, DecisionAttained
  <2> QED BY <1>7, <2>5
<1>15. m + b \in Nat
  BY <1>1, <1>7
<1> QED BY <1>2, <1>8, <1>9, <1>12, <1>13, <1>14, <1>15
    DEF Best, trace, ref, rest, tag, rank, new, seen, next, left, b

(* An iteration of Process counts the misses that a best choice has to     *)
(* take: the stacks stay as good as any choice.                            *)
LEMMA IterationBest ==
    ASSUME NEW set, SetInv(set), set.lookahead_trace_ # << >>,
           NEW use, NEW paid, NEW m, BestSet(set, use, paid, m)
    PROVE  BestSet(Iterated(set), use, CostAfter(paid, set.lookahead_trace_[1].tag),
                   m + B2I(~IsHit(set, set.lookahead_trace_[1])))
<1> DEFINE trace == set.lookahead_trace_
           ref == set.ref_id_
           c == set.lookahead_ref_count_
           rest == Tail(trace)
           new == Iterated(set)
           after == CostAfter(paid, trace[1].tag)
           n == m + B2I(~IsHit(set, trace[1]))
<1>1. PICK known, unknown, pool, kept :
              /\ new = SetOf(known, unknown, kept, rest, c, ref)
              /\ Decided(set, trace[1], known, unknown, pool)
              /\ kept = pool \/ (kept = EmptyStack /\ DOMAIN unknown = {})
  BY IterationDoes
<1>2. Best(known, unknown, pool, rest, ref, use, after, n)
  BY <1>1, DecidedBest
<1> HIDE DEF new, rest, after, n
<1>3. /\ UsedOK(unknown, kept, rest, ref, use)
      /\ PoolKept(unknown, kept, rest, use)
  <2>1. DOMAIN EmptyStack = {}
    BY DEF EmptyStack
  <2>2. UsedOK(unknown, pool, rest, ref, use) /\ PoolKept(unknown, pool, rest, use)
    BY <1>2 DEF Best
  <2> QED BY <1>1, <2>1, <2>2 DEF UsedOK, PoolKept
<1>4. Best(known, unknown, kept, rest, ref, use, after, n)
  BY <1>2, <1>3 DEF Best
<1>5. /\ new.known_tags_ = known /\ new.unknown_tags_ = unknown
      /\ new.unknown_tags_pool_ = kept
      /\ new.lookahead_trace_ = rest /\ new.ref_id_ = ref
  BY <1>1 DEF SetOf
<1> QED BY <1>4, <1>5 DEF BestSet, new, after, n

-----------------------------------------------------------------------------
(* Ranks when a reference is looked at.                                    *)

(* When an entry for tag is appended to a trace and its use noted, only    *)
(* that line may rank anew, and only if it does not occur in the trace     *)
(* yet: then it ranks below all lines that do, and above all others.       *)
RanksOn(trace, ref, use, longer, next, tag) ==
    LET rank == Rank(trace, ref, use)
        new == Rank(longer, ref + 1, next)
    IN  /\ UsedWell(longer, ref + 1, next) /\ DOMAIN next = DOMAIN use \cup {tag}
        /\ rank \in [DOMAIN use -> Int] /\ new \in [DOMAIN next -> Int]
        /\ \A x \in DOMAIN use : x # tag =>
              /\ new[x] = rank[x]
              /\ NoneAfter(longer, 0, x) <=> NoneAfter(trace, 0, x)
              /\ next[x] = use[x]
        /\ ~NoneAfter(longer, 0, tag)
        /\ ~NoneAfter(trace, 0, tag) => new[tag] = rank[tag]
        /\ NoneAfter(trace, 0, tag) => new[tag] = KMax - (ref + 1)

(* So it is when a reference is looked at.                                 *)
LEMMA RankAppend ==
    ASSUME NEW trace, NEW ref, IsTrace(trace, ref), ref < MaxRefs,
           NEW entry \in EntryType, NEW tag, tag = entry.tag,
           NEW use, UsedWell(trace, ref, use), ~NoneAfter(trace, 0, tag) => tag \in DOMAIN use
    PROVE  RanksOn(trace, ref, use, Append(Told(trace, ref + 1, tag), entry),
                   Put(use, tag, ref + 1), tag)
<1> SUFFICES ASSUME NEW told \in Seq(EntryType), Len(told) = Len(trace),
                    \A i \in DOMAIN trace : told[i].tag = trace[i].tag,
                    NEW longer, longer = Append(told, entry),
                    NEW next, next = Put(use, tag, ref + 1)
             PROVE  RanksOn(trace, ref, use, longer, next, tag)
  <2> DEFINE t == Told(trace, ref + 1, tag)
  <2>1. /\ t \in Seq(EntryType) /\ Len(t) = Len(trace)
        /\ \A i \in DOMAIN trace : t[i].tag = trace[i].tag
    BY ToldProperties
  <2> HIDE DEF t
  <2> QED BY <2>1 DEF t
<1> DEFINE n == Len(trace)
           rank == Rank(trace, ref, use)
           new == Rank(longer, ref + 1, next)
<1>1. /\ n \in Nat /\ ref \in Nat /\ n <= ref /\ trace \in Seq(EntryType) /\ 0 \in Nat
      /\ MaxRefs \in Nat /\ KMax \in Nat /\ ref + 1 \in Nat /\ ref + 1 <= MaxRefs
  BY OptAssumption DEF IsTrace
<1>2. longer \in Seq(EntryType) /\ Len(longer) = n + 1
  BY <1>1
<1>3. IsTrace(longer, ref + 1)
  BY <1>1, <1>2 DEF IsTrace
<1>4. /\ DOMAIN next = DOMAIN use \cup {tag} /\ next[tag] = ref + 1
      /\ \A x \in DOMAIN use : x # tag => next[x] = use[x]
  <2> DEFINE r == ref + 1
  <2>1. next = Put(use, tag, r)
    OBVIOUS
  <2> HIDE DEF r
  <2>2. /\ DOMAIN Put(use, tag, r) = DOMAIN use \cup {tag}
        /\ (Put(use, tag, r))[tag] = r
        /\ \A t \in DOMAIN use : t # tag => (Put(use, tag, r))[t] = use[t]
    BY DEF Put
  <2> QED BY <2>1, <2>2 DEF r
<1>5. ASSUME NEW t
      PROVE  /\ \A j : FirstAfter(trace, 0, t, j) =>
                  /\ FirstAfter(longer, 0, t, j)
                  /\ RefAt(longer, ref + 1, j) = RefAt(trace, ref, j)
             /\ NoneAfter(trace, 0, t) /\ tag = t =>
                  \E j : FirstAfter(longer, 0, t, j) /\ RefAt(longer, ref + 1, j) = ref + 1
             /\ NoneAfter(trace, 0, t) /\ tag # t => NoneAfter(longer, 0, t)
  <2> DEFINE l == Append(told, entry)
  <2>1. /\ \A j : FirstAfter(trace, 0, t, j) =>
             /\ FirstAfter(l, 0, t, j)
             /\ RefAt(l, ref + 1, j) = RefAt(trace, ref, j)
        /\ NoneAfter(trace, 0, t) /\ entry.tag = t =>
             \E j : FirstAfter(l, 0, t, j) /\ RefAt(l, ref + 1, j) = ref + 1
        /\ NoneAfter(trace, 0, t) /\ entry.tag # t => NoneAfter(l, 0, t)
    BY AppendKnown
  <2>2. l = longer
    OBVIOUS
  <2> HIDE DEF l
  <2> QED BY <2>1, <2>2
<1>6. ASSUME NEW t, NoneAfter(longer, 0, t) PROVE t # tag /\ NoneAfter(trace, 0, t)
  <2>1. 0 \in 0 .. Len(trace)
    BY <1>1
  <2> QED BY <1>1, <1>6, <2>1, AppendNone
<1>7. UsedWell(longer, ref + 1, next)
  <2>1. /\ \A t \in DOMAIN use : use[t] \in Nat /\ use[t] <= ref
        /\ \A t \in DOMAIN use : NoneAfter(trace, 0, t) => use[t] <= ref - n
        /\ \A t, v \in DOMAIN use : use[t] = use[v] => t = v
    BY DEF UsedWell
  <2>2. \A t \in DOMAIN next : next[t] \in Nat /\ next[t] <= ref + 1
    BY <1>1, <1>4, <2>1
  <2>3. \A t \in DOMAIN next : NoneAfter(longer, 0, t) => next[t] <= (ref + 1) - Len(longer)
    <3>1. SUFFICES ASSUME NEW t \in DOMAIN next, NoneAfter(longer, 0, t)
                   PROVE  next[t] <= (ref + 1) - Len(longer)
      OBVIOUS
    <3>2. t \in DOMAIN use /\ t # tag /\ NoneAfter(trace, 0, t)
      BY <1>4, <1>6, <3>1
    <3>3. next[t] = use[t] /\ use[t] \in Nat /\ use[t] <= ref - n
      BY <1>4, <2>1, <3>2
    <3> QED BY <1>1, <1>2, <3>3
  <2>4. \A t, v \in DOMAIN next : next[t] = next[v] => t = v
    <3>1. \A t \in DOMAIN use : t # tag => next[t] = use[t] /\ next[t] <= ref /\ next[t] \in Nat
      BY <1>4, <2>1
    <3>2. \A t \in DOMAIN use : t # tag => next[t] # next[tag]
      BY <1>1, <1>4, <3>1
    <3> QED BY <1>4, <2>1, <3>1, <3>2
  <2> HIDE DEF n
  <2> QED BY <2>2, <2>3, <2>4 DEF UsedWell
<1>8. /\ rank \in [DOMAIN use -> Int]
      /\ \A t \in DOMAIN use : NoneAfter(trace, 0, t) => rank[t] = -use[t]
      /\ \A t \in DOMAIN use : \A j : FirstAfter(trace, 0, t, j) =>
            rank[t] = KMax - RefAt(trace, ref, j)
  BY RankIs
<1>9. /\ new \in [DOMAIN next -> Int]
      /\ \A t \in DOMAIN next : NoneAfter(longer, 0, t) => new[t] = -next[t]
      /\ \A t \in DOMAIN next : \A j : FirstAfter(longer, 0, t, j) =>
            new[t] = KMax - RefAt(longer, ref + 1, j)
  BY <1>3, <1>7, RankIs
<1> HIDE DEF rank, new, n
<1>10. ASSUME NEW t, NEW j, FirstAfter(trace, 0, t, j), t \in DOMAIN use
       PROVE  new[t] = rank[t] /\ ~NoneAfter(longer, 0, t) /\ ~NoneAfter(trace, 0, t)
  <2>1. /\ FirstAfter(longer, 0, t, j)
        /\ RefAt(longer, ref + 1, j) = RefAt(trace, ref, j)
    BY <1>5, <1>10
  <2>2. t \in DOMAIN next
    BY <1>4, <1>10
  <2>3. ~NoneAfter(longer, 0, t)
    BY <1>3, <2>1, RefAtBounds
  <2>4. ~NoneAfter(trace, 0, t)
    BY <1>10, RefAtBounds
  <2> QED BY <1>8, <1>9, <1>10, <2>1, <2>2, <2>3, <2>4
<1>11. ASSUME NEW t \in DOMAIN use, ~NoneAfter(trace, 0, t)
       PROVE  new[t] = rank[t] /\ ~NoneAfter(longer, 0, t)
  <2>1. PICK j : FirstAfter(trace, 0, t, j)
    BY <1>1, <1>11, FirstExists
  <2> QED BY <1>10, <2>1
<1>12. ASSUME NEW t \in DOMAIN use, t # tag, NoneAfter(trace, 0, t)
       PROVE  new[t] = rank[t] /\ NoneAfter(longer, 0, t)
  <2>1. NoneAfter(longer, 0, t)
    BY <1>5, <1>12
  <2> QED BY <1>4, <1>8, <1>9, <1>12, <2>1
<1>13. ASSUME NoneAfter(trace, 0, tag) PROVE new[tag] = KMax - (ref + 1)
  <2>1. PICK j : FirstAfter(longer, 0, tag, j) /\ RefAt(longer, ref + 1, j) = ref + 1
    BY <1>5, <1>13
  <2> QED BY <1>4, <1>9, <2>1
<1>14. ~NoneAfter(longer, 0, tag)
  BY <1>6
<1> QED BY <1>4, <1>7, <1>8, <1>9, <1>11, <1>12, <1>13, <1>14 DEF RanksOn, rank, new

(* What a set learns of a reference, in terms of the lines it has.         *)
Taught(set, tag, known, unknown, pool) ==
    \/ /\ tag \notin DOMAIN set.unknown_tags_
       /\ NoneAfter(set.lookahead_trace_, 0, tag) /\ tag \in DOMAIN set.unknown_tags_pool_ =>
            \A t \in DOMAIN set.unknown_tags_ :
               ~(set.unknown_tags_[t] > set.unknown_tags_pool_[tag])
       /\ DOMAIN known = DOMAIN set.known_tags_
       /\ DOMAIN unknown = DOMAIN set.unknown_tags_
       /\ \A t \in DOMAIN unknown : unknown[t] = set.unknown_tags_[t]
       /\ DOMAIN pool = DOMAIN set.unknown_tags_pool_
    \/ /\ NoneAfter(set.lookahead_trace_, 0, tag) /\ tag \in DOMAIN set.unknown_tags_
       /\ DOMAIN known = DOMAIN set.known_tags_ \cup {tag}
       /\ DOMAIN unknown = DOMAIN set.unknown_tags_ \ {tag}
       /\ \A t \in DOMAIN unknown : unknown[t] = set.unknown_tags_[t]
       /\ DOMAIN pool = DOMAIN set.unknown_tags_pool_
    \/ /\ NoneAfter(set.lookahead_trace_, 0, tag) /\ tag \notin DOMAIN set.unknown_tags_
       /\ tag \in DOMAIN set.unknown_tags_pool_
       /\ DOMAIN known = DOMAIN set.known_tags_ \cup {tag}
       /\ \A t \in DOMAIN unknown : unknown[t] = set.unknown_tags_[t]
       /\ \E out \in DOMAIN set.unknown_tags_ :
            /\ set.unknown_tags_[out] > set.unknown_tags_pool_[tag]
            /\ \A t \in DOMAIN set.unknown_tags_ :
                  set.unknown_tags_[t] > set.unknown_tags_pool_[tag] =>
                     set.unknown_tags_[out] <= set.unknown_tags_[t]
            /\ DOMAIN unknown = DOMAIN set.unknown_tags_ \ {out}
            /\ DOMAIN pool = (DOMAIN set.unknown_tags_pool_ \ {tag}) \cup {out}

(* What Learned says of the stacks is that of the lines in them.           *)
LEMMA LearnedTeaches ==
    ASSUME NEW set, NEW tag, NEW known, NEW unknown, NEW pool,
           Learned(set, tag, known, unknown, pool)
    PROVE  Taught(set, tag, known, unknown, pool)
<1> DEFINE k == set.known_tags_
           u == set.unknown_tags_
           p == set.unknown_tags_pool_
           high == KMax - (set.ref_id_ + 1)
           none == NoneAfter(set.lookahead_trace_, 0, tag)
           Some == \E out \in DOMAIN u :
                      /\ u[out] > p[tag]
                      /\ \A t \in DOMAIN u : u[t] > p[tag] => u[out] <= u[t]
                      /\ DOMAIN unknown = DOMAIN u \ {out}
                      /\ DOMAIN pool = (DOMAIN p \ {tag}) \cup {out}
<1>1. CASE /\ tag \notin DOMAIN u
           /\ none /\ tag \in DOMAIN p => \A t \in DOMAIN u : ~(u[t] > p[tag])
           /\ known = k /\ unknown = u /\ pool = p
  BY <1>1 DEF Taught
<1>2. CASE /\ none /\ tag \in DOMAIN u
           /\ known = Put(k, tag, high) /\ unknown = Drop(u, tag) /\ pool = p
  <2> HIDE DEF k, u, p, high
  <2>1. /\ DOMAIN known = DOMAIN k \cup {tag} /\ DOMAIN unknown = DOMAIN u \ {tag}
        /\ \A t \in DOMAIN unknown : unknown[t] = u[t]
    BY <1>2 DEF Put, Drop
  <2> QED BY <1>2, <2>1 DEF Taught, k, u, p
<1>3. CASE /\ none /\ tag \notin DOMAIN u /\ tag \in DOMAIN p
           /\ \E out \in DOMAIN u :
                /\ u[out] > p[tag]
                /\ \A t \in DOMAIN u : u[t] > p[tag] => u[out] <= u[t]
                /\ known = Put(k, tag, high) /\ unknown = Drop(u, out)
                /\ pool = Put(Drop(p, tag), out, u[out])
  <2> HIDE DEF k, u, p, high
  <2>1. PICK out \in DOMAIN u :
                /\ u[out] > p[tag]
                /\ \A t \in DOMAIN u : u[t] > p[tag] => u[out] <= u[t]
                /\ known = Put(k, tag, high) /\ unknown = Drop(u, out)
                /\ pool = Put(Drop(p, tag), out, u[out])
    BY <1>3
  <2>2. /\ DOMAIN known = DOMAIN k \cup {tag} /\ DOMAIN unknown = DOMAIN u \ {out}
        /\ \A t \in DOMAIN unknown : unknown[t] = u[t]
    BY <2>1 DEF Put, Drop
  <2>3. DOMAIN pool = (DOMAIN p \ {tag}) \cup {out}
    BY <2>1 DEF Put, Drop
  <2>4. Some
    BY <2>1, <2>2, <2>3
  <2> HIDE DEF Some
  <2> QED BY <1>3, <2>2, <2>4 DEF Taught, k, u, p, Some
<1> QED BY <1>1, <1>2, <1>3 DEF Learned

(* The pool keeps what it has to know when a reference is looked at.       *)
LEMMA LearnedPool ==
    ASSUME NEW set, NEW tag, NEW known, NEW unknown, NEW pool,
           Taught(set, tag, known, unknown, pool),
           NEW use, PoolKept(set.unknown_tags_, set.unknown_tags_pool_,
                             set.lookahead_trace_, use),
           NEW longer, NEW next,
           \A t \in Free(longer, next) :
              t # tag /\ t \in Free(set.lookahead_trace_, use) /\ next[t] = use[t]
    PROVE  PoolKept(unknown, pool, longer, next)
<1> DEFINE u == set.unknown_tags_
           p == set.unknown_tags_pool_
<1>1. SUFFICES ASSUME NEW t \in Free(longer, next)
               PROVE  \/ t \in DOMAIN unknown
                      \/ t \in DOMAIN pool
                      \/ \A x \in DOMAIN unknown : unknown[x] < -next[t]
  BY DEF PoolKept
<1>2. /\ t # tag /\ next[t] = use[t]
      /\ \/ t \in DOMAIN u
         \/ t \in DOMAIN p
         \/ \A x \in DOMAIN u : u[x] < -use[t]
  BY <1>1 DEF PoolKept
<1>3. /\ DOMAIN unknown \subseteq DOMAIN u /\ \A x \in DOMAIN unknown : unknown[x] = u[x]
      /\ t \in DOMAIN u => t \in DOMAIN unknown \/ t \in DOMAIN pool
      /\ t \in DOMAIN p => t \in DOMAIN pool
  BY <1>2 DEF Taught
<1> HIDE DEF u, p
<1> QED BY <1>2, <1>3

(* The lines of the set, and those of them that are known, are as they     *)
(* have to be for no choice to get ahead, and for the best to stay.        *)
LEMMA TaughtLines ==
    ASSUME NEW set, SetInv(set), NEW tag, set.ref_id_ < MaxRefs,
           NEW known, NEW unknown, NEW pool, Taught(set, tag, known, unknown, pool),
           NEW use, UsedSet(set, use), UsedWell(set.lookahead_trace_, set.ref_id_, use),
           PoolKept(set.unknown_tags_, set.unknown_tags_pool_, set.lookahead_trace_, use),
           NEW more, more = DOMAIN use \cup {tag},
           NEW new \in [more -> Int],
           \A x \in DOMAIN use : x # tag =>
              new[x] = Rank(set.lookahead_trace_, set.ref_id_, use)[x],
           ~NoneAfter(set.lookahead_trace_, 0, tag) =>
              new[tag] = Rank(set.lookahead_trace_, set.ref_id_, use)[tag],
           NoneAfter(set.lookahead_trace_, 0, tag) => new[tag] = KMax - (set.ref_id_ + 1),
           NEW left, left = Free(set.lookahead_trace_, use) \ {tag}
    PROVE  /\ Looks(DOMAIN use, Rank(set.lookahead_trace_, set.ref_id_, use), more, new, tag,
                    DOMAIN set.known_tags_ \cup DOMAIN set.unknown_tags_,
                    DOMAIN known \cup DOMAIN unknown)
           /\ Learns(DOMAIN use, Rank(set.lookahead_trace_, set.ref_id_, use), more, new, tag,
                     DOMAIN set.known_tags_, DOMAIN set.unknown_tags_,
                     Free(set.lookahead_trace_, use),
                     DOMAIN known, DOMAIN unknown, left)
<1> DEFINE trace == set.lookahead_trace_
           ref == set.ref_id_
           k == set.known_tags_
           u == set.unknown_tags_
           p == set.unknown_tags_pool_
           rank == Rank(trace, ref, use)
           seen == DOMAIN use
           lines == DOMAIN k \cup DOMAIN u
           next == DOMAIN known \cup DOMAIN unknown
           free == Free(trace, use)
           high == KMax - (ref + 1)
           none == NoneAfter(trace, 0, tag)
<1>1. /\ IsTrace(trace, ref) /\ UsedOK(u, p, trace, ref, use) /\ UsedWell(trace, ref, use)
      /\ ref \in Nat /\ ref < MaxRefs /\ DOMAIN k \cap DOMAIN u = {}
      /\ IsFiniteSet(DOMAIN k) /\ IsFiniteSet(DOMAIN u)
  BY DEF SetInv, UsedSet, IsTrace, Fits
<1>2. /\ \A t \in DOMAIN k : /\ t \in seen /\ ~NoneAfter(trace, 0, t)
                             /\ KMax - ref <= rank[t] /\ 0 < rank[t]
      /\ \A t \in DOMAIN u : /\ t \in seen /\ NoneAfter(trace, 0, t)
                             /\ rank[t] = u[t] /\ rank[t] <= 0
  BY StacksRank
<1>3. /\ rank \in [seen -> Int]
      /\ \A t \in seen : NoneAfter(trace, 0, t) => rank[t] = -use[t] /\ rank[t] <= 0
      /\ \A t, v \in seen : rank[t] = rank[v] => t = v
  <2> HIDE DEF trace, ref
  <2> QED BY <1>1, RankIs
<1>4. /\ MaxRefs \in Nat /\ KMax \in Nat /\ KMax > 2 * MaxRefs
      /\ high \in Int /\ 0 < high /\ high < KMax - ref
  <2>1. MaxRefs \in Nat /\ KMax \in Nat /\ KMax > 2 * MaxRefs
    BY OptAssumption
  <2> HIDE DEF ref
  <2> QED BY <1>1, <2>1
<1>5. IsFiniteSet(lines) /\ lines \in SUBSET seen
  <2>1. DOMAIN k \subseteq seen /\ DOMAIN u \subseteq seen
    BY <1>2
  <2> QED BY <1>1, <2>1, FS_Union
<1>6. /\ \A t \in DOMAIN p : t \notin DOMAIN u /\ NoneAfter(trace, 0, t) => p[t] = -use[t]
      /\ DOMAIN p \subseteq seen
      /\ \A t \in free : \/ t \in DOMAIN u
                         \/ t \in DOMAIN p
                         \/ \A x \in DOMAIN u : u[x] < -use[t]
  BY <1>1 DEF UsedOK, PoolKept
<1>7. /\ \A t : t \in free <=> t \in seen /\ NoneAfter(trace, 0, t)
      /\ \A x \in seen : x # tag => new[x] = rank[x]
      /\ ~none => new[tag] = rank[tag]
      /\ none => new[tag] = high
      /\ left = free \ {tag} /\ more = seen \cup {tag}
  BY DEF Free
<1>8. \/ /\ tag \notin DOMAIN u
         /\ none /\ tag \in DOMAIN p => \A t \in DOMAIN u : ~(u[t] > p[tag])
         /\ DOMAIN known = DOMAIN k /\ DOMAIN unknown = DOMAIN u
      \/ /\ none /\ tag \in DOMAIN u
         /\ DOMAIN known = DOMAIN k \cup {tag} /\ DOMAIN unknown = DOMAIN u \ {tag}
      \/ /\ none /\ tag \notin DOMAIN u /\ tag \in DOMAIN p
         /\ DOMAIN known = DOMAIN k \cup {tag}
         /\ \E out \in DOMAIN u :
              /\ u[out] > p[tag]
              /\ \A t \in DOMAIN u : u[t] > p[tag] => u[out] <= u[t]
              /\ DOMAIN unknown = DOMAIN u \ {out}
  BY DEF Taught
<1> HIDE DEF rank, free, high, none, trace, ref, k, u, p
<1>9. none /\ tag \in seen => /\ rank[tag] < new[tag]
                              /\ \A x \in seen \ {tag} : rank[x] # rank[tag]
  <2>1. SUFFICES ASSUME none, tag \in seen
                 PROVE  /\ rank[tag] < new[tag]
                        /\ \A x \in seen \ {tag} : rank[x] # rank[tag]
    OBVIOUS
  <2>2. rank[tag] <= 0 /\ rank[tag] \in Int /\ new[tag] = high
    BY <1>3, <1>7, <2>1 DEF none
  <2> QED BY <1>3, <1>4, <2>1, <2>2
<1>10. tag \in seen => rank[tag] \in Int /\ new[tag] \in Int
  BY <1>3, <1>7
<1> DEFINE Look == \/ next = lines /\ (tag \in seen => new[tag] = rank[tag])
                   \/ /\ more = seen /\ tag \in seen /\ rank[tag] < new[tag]
                      /\ \A x \in seen \ {tag} : rank[x] # rank[tag]
                      /\ Promoted(rank, tag, new[tag], lines, next)
           Teach == \/ DOMAIN known = DOMAIN k /\ DOMAIN unknown = DOMAIN u /\ tag \notin DOMAIN u
                    \/ /\ tag \in free /\ DOMAIN known = DOMAIN k \cup {tag}
                       /\ \E out \in DOMAIN u : /\ DOMAIN unknown = DOMAIN u \ {out}
                                                /\ rank[tag] <= rank[out]
                                                /\ tag \in DOMAIN u => out = tag
<1>11. ASSUME /\ tag \notin DOMAIN u
              /\ none /\ tag \in DOMAIN p => \A t \in DOMAIN u : ~(u[t] > p[tag])
              /\ DOMAIN known = DOMAIN k /\ DOMAIN unknown = DOMAIN u
       PROVE  Look /\ Teach
  <2>1. next = lines /\ Teach
    BY <1>11
  <2>2. CASE ~(none /\ tag \in seen)
    BY <1>7, <2>1, <2>2
  <2>3. CASE none /\ tag \in seen
    <3>1. tag \in free /\ tag \notin DOMAIN k /\ new[tag] = high /\ rank[tag] = -use[tag]
          /\ rank[tag] \in Int
      BY <1>2, <1>3, <1>7, <2>3 DEF none
    <3>2. ASSUME NEW x \in lines, rank[tag] < rank[x] PROVE high <= rank[x]
      <4>1. rank[x] \in Int
        BY <1>3, <1>5
      <4>2. CASE x \in DOMAIN k
        <5>1. KMax - ref <= rank[x] /\ KMax - ref \in Int
          BY <1>1, <1>2, <1>4, <4>2
        <5> QED BY <1>4, <4>1, <5>1
      <4>3. CASE x \in DOMAIN u
        <5>1. rank[x] = u[x] /\ u[x] \in Int
          BY <1>2, <4>1, <4>3
        <5>2. CASE tag \in DOMAIN p
          <6>1. p[tag] = rank[tag]
            BY <1>6, <1>11, <2>3, <3>1, <5>2 DEF none
          <6>2. ~(u[x] > p[tag])
            BY <1>11, <2>3, <4>3, <5>2
          <6> QED BY <3>1, <3>2, <5>1, <6>1, <6>2
        <5>3. CASE tag \notin DOMAIN p
          <6>1. u[x] < -use[tag]
            BY <1>6, <1>11, <3>1, <4>3, <5>3
          <6> QED BY <3>1, <3>2, <5>1, <6>1
        <5> QED BY <5>2, <5>3
      <4> QED BY <4>2, <4>3
    <3>3. tag \notin lines
      BY <1>11, <3>1
    <3>4. Promoted(rank, tag, new[tag], lines, next)
      BY <2>1, <3>1, <3>2, <3>3 DEF Promoted
    <3>5. more = seen
      BY <1>7, <2>3
    <3> QED BY <1>9, <2>1, <2>3, <3>4, <3>5
  <2> QED BY <2>2, <2>3
<1>12. ASSUME /\ none /\ tag \in DOMAIN u
              /\ DOMAIN known = DOMAIN k \cup {tag} /\ DOMAIN unknown = DOMAIN u \ {tag}
       PROVE  Look /\ Teach
  <2>1. tag \in seen /\ tag \in free /\ more = seen
    BY <1>2, <1>7, <1>12
  <2>2. next = lines /\ tag \in lines
    BY <1>12
  <2>3. Promoted(rank, tag, new[tag], lines, next)
    BY <2>2 DEF Promoted
  <2>4. Teach
    BY <1>10, <1>12, <2>1
  <2> QED BY <1>9, <1>12, <2>1, <2>3, <2>4
<1>13. ASSUME /\ none /\ tag \notin DOMAIN u /\ tag \in DOMAIN p
              /\ DOMAIN known = DOMAIN k \cup {tag}
              /\ \E out \in DOMAIN u :
                   /\ u[out] > p[tag]
                   /\ \A t \in DOMAIN u : u[t] > p[tag] => u[out] <= u[t]
                   /\ DOMAIN unknown = DOMAIN u \ {out}
       PROVE  Look /\ Teach
  <2>1. PICK out \in DOMAIN u : /\ u[out] > p[tag]
                                /\ \A t \in DOMAIN u : u[t] > p[tag] => u[out] <= u[t]
                                /\ DOMAIN unknown = DOMAIN u \ {out}
    BY <1>13
  <2>2. /\ tag \in seen /\ tag \in free /\ more = seen /\ tag \notin DOMAIN k
        /\ new[tag] = high
    BY <1>2, <1>6, <1>7, <1>13 DEF none
  <2>3. /\ p[tag] = rank[tag] /\ rank[tag] \in Int
        /\ u[out] = rank[out] /\ rank[out] \in Int /\ rank[out] <= 0 /\ out \in seen
    BY <1>2, <1>3, <1>6, <1>13, <2>2 DEF none
  <2>4. rank[tag] < rank[out] /\ rank[out] < high
    BY <1>4, <2>1, <2>3
  <2>5. ASSUME NEW x \in lines, rank[tag] < rank[x] PROVE rank[out] <= rank[x]
    <3>1. rank[x] \in Int
      BY <1>3, <1>5
    <3>2. CASE x \in DOMAIN k
      <4>1. 0 < rank[x]
        BY <1>2, <3>2
      <4> QED BY <2>3, <3>1, <4>1
    <3>3. CASE x \in DOMAIN u
      <4>1. rank[x] = u[x]
        BY <1>2, <3>3
      <4>2. u[x] > p[tag]
        BY <2>3, <2>5, <3>1, <4>1
      <4> QED BY <2>1, <2>3, <3>3, <4>1, <4>2
    <3> QED BY <3>2, <3>3
  <2>6. /\ out \in lines /\ tag \notin lines /\ out \notin DOMAIN k
        /\ next = (lines \ {out}) \cup {tag}
    BY <1>1, <1>13, <2>1, <2>2
  <2>7. Promoted(rank, tag, new[tag], lines, next)
    <3>1. \E o \in lines : /\ next = (lines \ {o}) \cup {tag}
                           /\ rank[tag] < rank[o] /\ rank[o] < new[tag]
                           /\ \A x \in lines : rank[tag] < rank[x] => rank[o] <= rank[x]
      BY <2>2, <2>4, <2>5, <2>6
    <3> QED BY <2>6, <3>1 DEF Promoted
  <2>8. Teach
    <3>1. rank[tag] <= rank[out]
      BY <2>3, <2>4
    <3> QED BY <1>13, <2>1, <2>2, <3>1
  <2> QED BY <1>9, <1>13, <2>2, <2>7, <2>8
<1>14. Look /\ Teach
  BY <1>8, <1>11, <1>12, <1>13
<1>15. Looks(seen, rank, more, new, tag, lines, next)
  BY <1>3, <1>5, <1>7, <1>14 DEF Looks
<1>16. Learns(seen, rank, more, new, tag, DOMAIN k, DOMAIN u, free, DOMAIN known,
              DOMAIN unknown, left)
  <2>1. /\ free \in SUBSET seen /\ left \in SUBSET free /\ tag \notin left
        /\ DOMAIN k \in SUBSET seen /\ DOMAIN u \in SUBSET seen
        /\ seen \subseteq more
    BY <1>2, <1>7
  <2> QED BY <1>1, <1>3, <1>7, <1>14, <2>1 DEF Learns
<1> QED BY <1>15, <1>16 DEF rank, trace, ref, k, u, free

(* A reference leaves the stacks of its set as good as any choice.         *)
LEMMA LearnedBest ==
    ASSUME NEW set, SetInv(set), NEW tag \in Tags, set.ref_id_ < MaxRefs,
           NEW known, NEW unknown, NEW pool, Learned(set, tag, known, unknown, pool),
           NEW entry \in EntryType, entry.tag = tag,
           NEW use, NEW paid, NEW m, BestSet(set, use, paid, m)
    PROVE  Best(known, unknown, pool,
                Append(Told(set.lookahead_trace_, set.ref_id_ + 1, tag), entry),
                set.ref_id_ + 1, Put(use, tag, set.ref_id_ + 1), paid, m)
<1> DEFINE trace == set.lookahead_trace_
           ref == set.ref_id_
           k == set.known_tags_
           u == set.unknown_tags_
           p == set.unknown_tags_pool_
           told == Told(trace, ref + 1, tag)
           longer == Append(told, entry)
           next == Put(use, tag, ref + 1)
           rank == Rank(trace, ref, use)
           new == Rank(longer, ref + 1, next)
           seen == DOMAIN use
           more == DOMAIN next
           free == Free(trace, use)
           left == Free(longer, next)
<1>1. /\ UsedSet(set, use) /\ UsedWell(trace, ref, use) /\ PoolKept(u, p, trace, use)
      /\ m \in Nat /\ Purse(paid, seen)
      /\ Least(paid, rank, DOMAIN k \cup DOMAIN u, m)
      /\ Attained(paid, rank, DOMAIN k, DOMAIN u, free, m)
      /\ IsTrace(trace, ref) /\ UsedOK(u, p, trace, ref, use)
  BY DEF BestSet, Best, UsedSet, SetInv
<1>2. UsedOK(unknown, pool, longer, ref + 1, next)
  BY <1>1, LearnedUsed
<1>4. ~NoneAfter(trace, 0, tag) => tag \in DOMAIN use
  <2>1. SUFFICES ASSUME ~NoneAfter(trace, 0, tag) PROVE tag \in DOMAIN use
    OBVIOUS
  <2>2. PICK j : FirstAfter(trace, 0, tag, j)
    BY <1>1, <2>1, FirstExists DEF IsTrace
  <2>3. j \in 1 .. Len(trace) /\ trace[j].tag = tag
    BY <1>1, <2>2, RefAtBounds
  <2>4. j \in DOMAIN trace
    BY <1>1, <2>3 DEF IsTrace
  <2> QED BY <1>1, <2>3, <2>4 DEF UsedOK
<1>5. /\ UsedWell(longer, ref + 1, next) /\ more = seen \cup {tag}
      /\ new \in [more -> Int]
      /\ \A x \in seen : x # tag =>
            /\ new[x] = rank[x]
            /\ NoneAfter(longer, 0, x) <=> NoneAfter(trace, 0, x)
            /\ next[x] = use[x]
      /\ ~NoneAfter(longer, 0, tag)
      /\ ~NoneAfter(trace, 0, tag) => new[tag] = rank[tag]
      /\ NoneAfter(trace, 0, tag) => new[tag] = KMax - (ref + 1)
  <2>1. RanksOn(trace, ref, use, longer, next, tag)
    BY <1>1, <1>4, RankAppend
  <2> HIDE DEF trace, longer, next
  <2> QED BY <2>1 DEF RanksOn
<1>6. Taught(set, tag, known, unknown, pool)
  BY LearnedTeaches
<1> HIDE DEF longer, next, told, new, rank
<1>7. /\ left = free \ {tag}
      /\ \A t \in left : t # tag /\ t \in free /\ next[t] = use[t]
  BY <1>5 DEF Free
<1>8. PoolKept(unknown, pool, longer, next)
  BY <1>1, <1>6, <1>7, LearnedPool
<1>9. /\ Looks(seen, rank, more, new, tag, DOMAIN k \cup DOMAIN u, DOMAIN known \cup DOMAIN unknown)
      /\ Learns(seen, rank, more, new, tag, DOMAIN k, DOMAIN u, free,
                DOMAIN known, DOMAIN unknown, left)
  <2>1. /\ \A x \in DOMAIN use : x # tag => new[x] = Rank(set.lookahead_trace_, set.ref_id_, use)[x]
        /\ ~NoneAfter(set.lookahead_trace_, 0, tag) =>
              new[tag] = Rank(set.lookahead_trace_, set.ref_id_, use)[tag]
        /\ NoneAfter(set.lookahead_trace_, 0, tag) => new[tag] = KMax - (set.ref_id_ + 1)
        /\ UsedSet(set, use) /\ UsedWell(set.lookahead_trace_, set.ref_id_, use)
        /\ PoolKept(set.unknown_tags_, set.unknown_tags_pool_, set.lookahead_trace_, use)
        /\ more = DOMAIN use \cup {tag} /\ new \in [more -> Int]
        /\ left = Free(set.lookahead_trace_, use) \ {tag}
    BY <1>1, <1>5, <1>7 DEF rank
  <2> HIDE DEF more, left
  <2> QED BY <1>6, <2>1, TaughtLines DEF rank
<1> HIDE DEF trace, ref, k, u, p, seen, more, free, left
<1>10. Least(paid, new, DOMAIN known \cup DOMAIN unknown, m)
  BY <1>1, <1>9, LookLeast
<1>11. Attained(paid, new, DOMAIN known, DOMAIN unknown, left, m)
  BY <1>1, <1>9, LookAttained
<1>12. Purse(paid, more)
  BY <1>1, <1>5 DEF Purse
<1> QED BY <1>1, <1>2, <1>5, <1>8, <1>10, <1>11, <1>12
    DEF Best, trace, ref, told, longer, next, new, more, left

(* So does Lookahead.                                                      *)
LEMMA LookaheadBest ==
    ASSUME NEW set, SetInv(set), set.ref_id_ < MaxRefs, NEW tag \in Tags,
           NEW inst_id \in Nat \ {0}, NEW addr_id \in Nat \ {0},
           NEW access_type \in kAccessTypes, NEW epoch \in Nat \ {0},
           NEW use, NEW paid, NEW m, BestSet(set, use, paid, m)
    PROVE  BestSet(Lookahead(set, tag, inst_id, addr_id, access_type, epoch),
                   Put(use, tag, set.ref_id_ + 1), paid, m)
<1> DEFINE trace == set.lookahead_trace_
           ref == set.ref_id_
           c == set.lookahead_ref_count_
           told == Told(trace, ref + 1, tag)
           new == Lookahead(set, tag, inst_id, addr_id, access_type, epoch)
           entry == EntryOf(tag, inst_id, addr_id, access_type, epoch, ref + 1)
<1>1. PICK known, unknown, pool :
             /\ new = SetOf(known, unknown, pool, Append(told, entry), c + 1, ref + 1)
             /\ Learned(set, tag, known, unknown, pool)
  BY LookaheadDoes
<1>2. entry \in EntryType /\ entry.tag = tag
  <2>1. ref \in Nat
    BY DEF SetInv, IsTrace
  <2>2. KMax \in Nat /\ -(ref + 1) \in Int
    BY <2>1, OptAssumption
  <2> HIDE DEF ref
  <2> QED BY <2>2 DEF EntryType, EntryOf
<1> HIDE DEF entry, new
<1>3. Best(known, unknown, pool, Append(told, entry), ref + 1, Put(use, tag, ref + 1), paid, m)
  BY <1>1, <1>2, LearnedBest
<1>4. /\ new.known_tags_ = known
      /\ new.unknown_tags_ = unknown /\ new.unknown_tags_pool_ = pool
      /\ new.lookahead_trace_ = Append(told, entry) /\ new.ref_id_ = ref + 1
  BY <1>1 DEF SetOf
<1> HIDE DEF told
<1> QED BY <1>3, <1>4 DEF BestSet, new

-----------------------------------------------------------------------------
(* The choices of a set.  Its last cost function is that of the history    *)
(* variable, for all references looked at; the decisions are behind by the *)
(* references in the trace.                                                *)

CostChain(costs, trace, final) ==
    /\ \A i \in 1 .. Len(trace) : costs[i] = CostAfter(costs[i - 1], trace[i].tag)
    /\ costs[Len(trace)] = final

(* The set has counted m misses and is as good as any choice, with the     *)
(* cost function final when its trace has been processed.                  *)
OptSet(set, use, final, m) ==
    \E costs : /\ CostChain(costs, set.lookahead_trace_, final)
               /\ BestSet(set, use, costs[0], m)

(* An entry more in the trace is a cost function more.                     *)
LEMMA ChainGrows ==
    ASSUME NEW trace, NEW longer, Len(trace) \in Nat, Len(longer) = Len(trace) + 1,
           \A i \in 1 .. Len(trace) : longer[i].tag = trace[i].tag,
           NEW tag, longer[Len(trace) + 1].tag = tag,
           NEW costs, NEW final, CostChain(costs, trace, final)
    PROVE  \E next : CostChain(next, longer, CostAfter(final, tag)) /\ next[0] = costs[0]
<1> DEFINE n == Len(trace)
           after == CostAfter(final, tag)
           next == [i \in 0 .. n + 1 |-> IF i = n + 1 THEN after ELSE costs[i]]
<1>1. n \in Nat /\ Len(longer) = n + 1 /\ longer[n + 1].tag = tag
  OBVIOUS
<1>2. \A i \in 1 .. n : costs[i] = CostAfter(costs[i - 1], trace[i].tag)
  BY DEF CostChain
<1>3. costs[n] = final
  BY DEF CostChain
<1> HIDE DEF n
<1>4. next[n + 1] = after
  BY <1>1
<1>5. \A i \in 0 .. n : next[i] = costs[i]
  BY <1>1
<1> HIDE DEF next
<1>6. \A i \in 1 .. n : longer[i].tag = trace[i].tag
  BY DEF n
<1>7. ASSUME NEW i \in 1 .. n + 1 PROVE next[i] = CostAfter(next[i - 1], longer[i].tag)
  <2>1. CASE i = n + 1
    <3>1. i - 1 = n /\ n \in 0 .. n
      BY <1>1, <2>1
    <3> HIDE DEF after
    <3>2. next[i - 1] = final
      BY <1>3, <1>5, <3>1
    <3> QED BY <1>1, <1>4, <2>1, <3>2 DEF after
  <2>2. CASE i # n + 1
    <3>1. i \in 1 .. n /\ i \in 0 .. n /\ i - 1 \in 0 .. n
      BY <1>1, <2>2
    <3>2. next[i] = costs[i] /\ next[i - 1] = costs[i - 1]
      BY <1>5, <3>1
    <3> QED BY <1>2, <1>6, <3>1, <3>2
  <2> QED BY <2>1, <2>2
<1>8. CostChain(next, longer, after)
  BY <1>1, <1>4, <1>7 DEF CostChain
<1>9. next[0] = costs[0]
  BY <1>1, <1>5
<1> QED BY <1>8, <1>9

(* An entry less is one less.                                              *)
LEMMA ChainShrinks ==
    ASSUME NEW trace \in Seq(EntryType), trace # << >>,
           NEW costs, NEW final, CostChain(costs, trace, final)
    PROVE  \E next : /\ CostChain(next, Tail(trace), final)
                     /\ next[0] = CostAfter(costs[0], trace[1].tag)
<1> DEFINE n == Len(trace)
           next == [i \in 0 .. n - 1 |-> costs[i + 1]]
<1>1. /\ n \in Nat /\ n > 0 /\ Len(Tail(trace)) = n - 1
      /\ \A i \in 1 .. n - 1 : (Tail(trace))[i] = trace[i + 1]
  OBVIOUS
<1>2. \A i \in 1 .. n : costs[i] = CostAfter(costs[i - 1], trace[i].tag)
  BY DEF CostChain
<1>3. costs[n] = final
  BY DEF CostChain
<1> HIDE DEF n
<1>4. \A i \in 0 .. n - 1 : next[i] = costs[i + 1]
  OBVIOUS
<1> HIDE DEF next
<1>5. ASSUME NEW i \in 1 .. n - 1
      PROVE  next[i] = CostAfter(next[i - 1], (Tail(trace))[i].tag)
  <2>1. i \in 0 .. n - 1 /\ i - 1 \in 0 .. n - 1 /\ i + 1 \in 1 .. n /\ (i - 1) + 1 = i
        /\ (i + 1) - 1 = i
    BY <1>1
  <2>2. next[i] = costs[i + 1] /\ next[i - 1] = costs[i]
    BY <1>4, <2>1
  <2>3. costs[i + 1] = CostAfter(costs[i], trace[i + 1].tag)
    BY <1>2, <2>1
  <2> QED BY <1>1, <2>2, <2>3
<1>6. next[n - 1] = final
  <2>1. n - 1 \in 0 .. n - 1 /\ (n - 1) + 1 = n
    BY <1>1
  <2> QED BY <1>3, <1>4, <2>1
<1>7. CostChain(next, Tail(trace), final)
  BY <1>1, <1>5, <1>6 DEF CostChain
<1>8. next[0] = CostAfter(costs[0], trace[1].tag)
  <2>1. 0 \in 0 .. n - 1 /\ 0 + 1 = 1 /\ 1 \in 1 .. n /\ 1 - 1 = 0
    BY <1>1
  <2> QED BY <1>2, <1>4, <2>1
<1> QED BY <1>7, <1>8

(* Looking at a reference makes the choices pay for it.                    *)
LEMMA LookaheadOpt ==
    ASSUME NEW set, SetInv(set), set.ref_id_ < MaxRefs, NEW tag \in Tags,
           NEW inst_id \in Nat \ {0}, NEW addr_id \in Nat \ {0},
           NEW access_type \in kAccessTypes, NEW epoch \in Nat \ {0},
           NEW use, NEW final, NEW m, OptSet(set, use, final, m)
    PROVE  OptSet(Lookahead(set, tag, inst_id, addr_id, access_type, epoch),
                  Put(use, tag, set.ref_id_ + 1), CostAfter(final, tag), m)
<1> DEFINE trace == set.lookahead_trace_
           ref == set.ref_id_
           told == Told(trace, ref + 1, tag)
           entry == EntryOf(tag, inst_id, addr_id, access_type, epoch, ref + 1)
           longer == Append(told, entry)
           new == Lookahead(set, tag, inst_id, addr_id, access_type, epoch)
<1>1. PICK costs : CostChain(costs, trace, final) /\ BestSet(set, use, costs[0], m)
  BY DEF OptSet
<1>2. new.lookahead_trace_ = longer
  BY LookaheadDoes DEF SetOf
<1>3. BestSet(new, Put(use, tag, ref + 1), costs[0], m)
  BY <1>1, LookaheadBest
<1>4. IsTrace(trace, ref)
  BY DEF SetInv
<1>5. /\ told \in Seq(EntryType) /\ Len(told) = Len(trace)
      /\ \A i \in DOMAIN trace : told[i].tag = trace[i].tag
  BY <1>4, ToldProperties
<1>6. Len(trace) \in Nat /\ DOMAIN trace = 1 .. Len(trace) /\ entry.tag = tag
  BY <1>4 DEF IsTrace, EntryOf
<1> HIDE DEF new, told, entry, trace
<1>7. /\ Len(longer) = Len(trace) + 1 /\ longer[Len(trace) + 1] = entry
      /\ \A i \in 1 .. Len(trace) : longer[i] = told[i]
  BY <1>5, <1>6
<1> HIDE DEF longer
<1>8. \E next : CostChain(next, longer, CostAfter(final, tag)) /\ next[0] = costs[0]
  <2>1. longer[Len(trace) + 1].tag = tag
    BY <1>6, <1>7
  <2>2. \A i \in 1 .. Len(trace) : longer[i].tag = trace[i].tag
    BY <1>5, <1>6, <1>7
  <2> QED BY <1>1, <1>6, <1>7, <2>1, <2>2, ChainGrows
<1> QED BY <1>2, <1>3, <1>8 DEF OptSet, new

(* An iteration counts a miss as it must.                                  *)
LEMMA IterationOpt ==
    ASSUME NEW set, SetInv(set), set.lookahead_trace_ # << >>,
           NEW use, NEW final, NEW m, OptSet(set, use, final, m)
    PROVE  OptSet(Iterated(set), use, final, m + B2I(~IsHit(set, set.lookahead_trace_[1])))
<1> DEFINE trace == set.lookahead_trace_
           new == Iterated(set)
           n == m + B2I(~IsHit(set, trace[1]))
<1>1. PICK costs : CostChain(costs, trace, final) /\ BestSet(set, use, costs[0], m)
  BY DEF OptSet
<1>2. new.lookahead_trace_ = Tail(trace)
  BY IterationKeeps
<1>3. BestSet(new, use, CostAfter(costs[0], trace[1].tag), n)
  BY <1>1, IterationBest
<1>4. trace \in Seq(EntryType)
  BY DEF SetInv, IsTrace
<1>5. \E next : /\ CostChain(next, Tail(trace), final)
                /\ next[0] = CostAfter(costs[0], trace[1].tag)
  BY <1>1, <1>4, ChainShrinks
<1> HIDE DEF trace, new, n
<1>6. OptSet(new, use, final, n)
  BY <1>2, <1>3, <1>5 DEF OptSet
<1> QED BY <1>6 DEF new, n, trace

-----------------------------------------------------------------------------
(* The cache.                                                              *)

(* The record of a cache.                                                  *)
CacheShape(c) ==
    [lookahead_distance_ : Nat,
     process_window_     : Nat,
     sets_     : [SetIndex -> {c.sets_[s] : s \in SetIndex}],
     ref_id_   : Nat,
     miss_hit_ : (0 .. Uint32 - 1) \X (0 .. Uint32 - 1),
     of_inst_  : ProfileType,
     of_addr_  : ProfileType,
     of_time_  : ProfileType]

(* The invariant of the cache, of which set s may still be in Process.     *)
CacheInv(c) ==
    /\ c \in CacheShape(c)
    /\ c.ref_id_ <= MaxRefs
    /\ Covered(c.of_inst_) /\ Covered(c.of_addr_) /\ Covered(c.of_time_)
    /\ \A s \in SetIndex : SetInv(c.sets_[s]) /\ c.sets_[s].ref_id_ <= c.ref_id_

(* What a cache has counted, and what of set s it has yet to count.        *)
Total(c, s) == c.miss_hit_[1] + c.miss_hit_[2] + Len(c.sets_[s].lookahead_trace_)

(* The same number of references, counted in UINT32s.                      *)
SameCount(c, d, s) == \E m \in Int : Total(c, s) = Total(d, s) + m * Uint32

(* From c to d only set s has changed.                                     *)
OnlySet(c, d, s) ==
    /\ d.ref_id_ = c.ref_id_
    /\ d.lookahead_distance_ = c.lookahead_distance_
    /\ d.process_window_ = c.process_window_
    /\ d.sets_[s].ref_id_ = c.sets_[s].ref_id_
    /\ d.sets_[s].lookahead_ref_count_ = c.sets_[s].lookahead_ref_count_
    /\ \A q \in SetIndex \ {s} : d.sets_[q] = c.sets_[q]

(* Counting one reference is counting one, or as many less as UINT32 has   *)
(* values.                                                                 *)
LEMMA IncCounts ==
    ASSUME NEW miss_hit \in (0 .. Uint32 - 1) \X (0 .. Uint32 - 1), NEW is_hit \in BOOLEAN
    PROVE  LET new == Inc(miss_hit, is_hit)
           IN  \/ new[1] + new[2] = miss_hit[1] + miss_hit[2] + 1
               \/ new[1] + new[2] = miss_hit[1] + miss_hit[2] + 1 - Uint32
<1>1. Uint32 \in Nat \ {0}
  BY CounterAssumption
<1>2. \A x \in 0 .. Uint32 - 1 : (x + 1) % Uint32 = IF x + 1 = Uint32 THEN 0 ELSE x + 1
  BY <1>1
<1>3. miss_hit[1] \in 0 .. Uint32 - 1 /\ miss_hit[2] \in 0 .. Uint32 - 1
  OBVIOUS
<1>4. CASE is_hit
  <2>1. /\ Inc(miss_hit, is_hit)[2] = (miss_hit[2] + 1) % Uint32
        /\ Inc(miss_hit, is_hit)[1] = miss_hit[1]
    BY <1>4 DEF Inc, B2I
  <2>2. (miss_hit[2] + 1) % Uint32 = IF miss_hit[2] + 1 = Uint32 THEN 0 ELSE miss_hit[2] + 1
    BY <1>2, <1>3
  <2> QED BY <1>1, <1>3, <2>1, <2>2
<1>5. CASE ~is_hit
  <2>1. /\ Inc(miss_hit, is_hit)[1] = (miss_hit[1] + 1) % Uint32
        /\ Inc(miss_hit, is_hit)[2] = miss_hit[2]
    BY <1>5 DEF Inc, B2I
  <2>2. (miss_hit[1] + 1) % Uint32 = IF miss_hit[1] + 1 = Uint32 THEN 0 ELSE miss_hit[1] + 1
    BY <1>2, <1>3
  <2> QED BY <1>1, <1>3, <2>1, <2>2
<1> QED BY <1>4, <1>5

(* The members of the cache after an iteration about set s.                *)
LEMMA ProcessOneDoes ==
    ASSUME NEW c, CacheInv(c), NEW s \in SetIndex, c.sets_[s].lookahead_trace_ # << >>
    PROVE  LET d == ProcessOne(c, s)
               entry == c.sets_[s].lookahead_trace_[1]
               is_hit == IsHit(c.sets_[s], entry)
           IN  d \in [lookahead_distance_ : {c.lookahead_distance_},
                      process_window_     : {c.process_window_},
                      sets_     : {[c.sets_ EXCEPT ![s] = Iterated(c.sets_[s])]},
                      ref_id_   : {c.ref_id_},
                      miss_hit_ : {Inc(c.miss_hit_, is_hit)},
                      of_inst_  : {CountRow(c.of_inst_, entry.inst_id, entry.access_type, is_hit)},
                      of_addr_  : {CountRow(c.of_addr_, entry.addr_id, entry.access_type, is_hit)},
                      of_time_  : {CountRow(c.of_time_, entry.epoch, entry.access_type, is_hit)}]
<1> DEFINE set == c.sets_[s]
           entry == set.lookahead_trace_[1]
           is_hit == IsHit(set, entry)
           new == Iterated(set)
           mh == Inc(c.miss_hit_, is_hit)
           oi == CountRow(c.of_inst_, entry.inst_id, entry.access_type, is_hit)
           oa == CountRow(c.of_addr_, entry.addr_id, entry.access_type, is_hit)
           ot == CountRow(c.of_time_, entry.epoch, entry.access_type, is_hit)
           d == ProcessOne(c, s)
<1>1. Head(set.lookahead_trace_) = entry
  BY DEF CacheInv, SetInv, IsTrace
<1>2. d = [c EXCEPT !.sets_[s] = new, !.of_inst_ = oi, !.of_addr_ = oa, !.of_time_ = ot,
                    !.miss_hit_ = mh]
  BY <1>1 DEF ProcessOne, Iterated
<1>3. c \in CacheShape(c)
  BY DEF CacheInv
<1> HIDE DEF d, new, mh, oi, oa, ot
<1>4. c \in [lookahead_distance_ : {c.lookahead_distance_}, process_window_ : {c.process_window_},
             sets_ : {c.sets_}, ref_id_ : {c.ref_id_}, miss_hit_ : {c.miss_hit_},
             of_inst_ : {c.of_inst_}, of_addr_ : {c.of_addr_}, of_time_ : {c.of_time_}]
  BY <1>3 DEF CacheShape
<1>5. d \in [lookahead_distance_ : {c.lookahead_distance_}, process_window_ : {c.process_window_},
             sets_ : {[c.sets_ EXCEPT ![s] = new]}, ref_id_ : {c.ref_id_}, miss_hit_ : {mh},
             of_inst_ : {oi}, of_addr_ : {oa}, of_time_ : {ot}]
  BY <1>2, <1>4
<1> QED BY <1>5 DEF d, new, mh, oi, oa, ot

-----------------------------------------------------------------------------
(* The ledger of the cache: what its profiles have seen of a row, and what *)
(* its traces still keep for it.  The profiles of instructions and of      *)
(* times are treated alike.                                                *)
Forms == {"inst", "time"}

Index(entry, by) == IF by = "inst" THEN entry.inst_id ELSE entry.epoch

ProfileBy(c, by) == IF by = "inst" THEN c.of_inst_ ELSE c.of_time_

OfRow(entry, by, r, t) == Index(entry, by) = r /\ entry.access_type = t

(* The references of a set, by number, that wait for their decision and    *)
(* will be counted in a row.                                               *)
WaitsAt(trace, ref, by, r, t) ==
    {n \in (ref - Len(trace)) + 1 .. ref : OfRow(trace[n - (ref - Len(trace))], by, r, t)}

Undecided(c, by, r, t) ==
    {x \in SetIndex \X Nat :
        x[2] \in WaitsAt(c.sets_[x[1]].lookahead_trace_, c.sets_[x[1]].ref_id_, by, r, t)}

SeenBy(c, by, r, t) == Seen(ProfileBy(c, by), r, t) + Cardinality(Undecided(c, by, r, t))

RowsSeenBy(c, by) == [r \in Nat \ {0} |-> [t \in kAccessTypes |-> SeenBy(c, by, r, t)]]

(* The view of the cache: that of PlainView, a reference counting for its  *)
(* row from the moment it is looked at.                                    *)
OptView(c) ==
    [ref_id |-> c.ref_id_, inst |-> c.of_inst_.map, addr |-> c.of_addr_.map,
     time |-> c.of_time_.map,
     by_inst |-> RowsSeenBy(c, "inst"), by_time |-> RowsSeenBy(c, "time")]

(* The rows of the entries are indices given out, and the misses of the    *)
(* rows are the misses of the cache.                                       *)
LedgerInv(c) ==
    \A by \in Forms :
        /\ MissSum(ProfileBy(c, by)) % Uint32 = c.miss_hit_[1]
        /\ \A s \in SetIndex : \A i \in DOMAIN c.sets_[s].lookahead_trace_ :
              Index(c.sets_[s].lookahead_trace_[i], by) <= Len(ProfileBy(c, by).map)

(* From c to d references are decided, but none come in.                   *)
KeepsLedger(c, d) == LedgerInv(c) => LedgerInv(d) /\ OptView(d) = OptView(c)

(* A reference that is decided no longer waits.                            *)
LEMMA TailWaits ==
    ASSUME NEW trace, NEW ref, IsTrace(trace, ref), trace # << >>,
           NEW by, NEW r, NEW t
    PROVE  LET first == (ref - Len(trace)) + 1
           IN  /\ WaitsAt(Tail(trace), ref, by, r, t) = WaitsAt(trace, ref, by, r, t) \ {first}
               /\ first \in WaitsAt(trace, ref, by, r, t) <=> OfRow(trace[1], by, r, t)
<1> DEFINE len == Len(trace)
           first == (ref - len) + 1
<1>1. trace \in Seq(EntryType) /\ len \in Nat \ {0} /\ ref \in Nat /\ len <= ref
  BY DEF IsTrace
<1>2. /\ Len(Tail(trace)) = len - 1
      /\ \A i \in 1 .. len - 1 : Tail(trace)[i] = trace[i + 1]
  BY <1>1
<1>3. first \in (ref - len) + 1 .. ref /\ first - (ref - len) = 1
  BY <1>1
<1>4. (ref - (len - 1)) + 1 .. ref = ((ref - len) + 1 .. ref) \ {first}
  BY <1>1
<1>5. \A n \in (ref - (len - 1)) + 1 .. ref :
         /\ n - (ref - (len - 1)) \in 1 .. len - 1
         /\ (n - (ref - (len - 1))) + 1 = n - (ref - len)
  BY <1>1
<1>6. \A n \in (ref - (len - 1)) + 1 .. ref :
         Tail(trace)[n - (ref - (len - 1))] = trace[n - (ref - len)]
  BY <1>2, <1>5
<1>7. WaitsAt(Tail(trace), ref, by, r, t)
        = {n \in (ref - (len - 1)) + 1 .. ref : OfRow(trace[n - (ref - len)], by, r, t)}
  BY <1>2, <1>6 DEF WaitsAt
<1>8. WaitsAt(trace, ref, by, r, t)
        = {n \in (ref - len) + 1 .. ref : OfRow(trace[n - (ref - len)], by, r, t)}
  BY DEF WaitsAt
<1> HIDE DEF len
<1>9. WaitsAt(Tail(trace), ref, by, r, t) = WaitsAt(trace, ref, by, r, t) \ {first}
  BY <1>4, <1>7, <1>8
<1>10. first \in WaitsAt(trace, ref, by, r, t) <=> OfRow(trace[1], by, r, t)
  BY <1>3, <1>8
<1> QED BY <1>9, <1>10 DEF len

(* One that is looked at waits from then on.                               *)
LEMMA AppendWaits ==
    ASSUME NEW trace, NEW ref, IsTrace(trace, ref), NEW told \in Seq(EntryType),
           Len(told) = Len(trace), NEW entry,
           NEW by, NEW r, NEW t,
           \A i \in DOMAIN trace : OfRow(told[i], by, r, t) <=> OfRow(trace[i], by, r, t)
    PROVE  LET new == WaitsAt(Append(told, entry), ref + 1, by, r, t)
           IN  /\ WaitsAt(trace, ref, by, r, t) = new \ {ref + 1}
               /\ ref + 1 \in new <=> OfRow(entry, by, r, t)
<1> DEFINE len == Len(trace)
           long == Append(told, entry)
<1>1. trace \in Seq(EntryType) /\ len \in Nat /\ ref \in Nat /\ len <= ref
      /\ DOMAIN trace = 1 .. len
  BY DEF IsTrace
<1>2. /\ Len(long) = len + 1 /\ long[len + 1] = entry
      /\ \A i \in 1 .. len : long[i] = told[i]
  BY <1>1
<1> HIDE DEF long
<1>3. /\ (ref + 1) - (len + 1) = ref - len /\ (ref + 1) - (ref - len) = len + 1
      /\ ref + 1 \in (ref - len) + 1 .. ref + 1
      /\ ((ref - len) + 1 .. ref + 1) \ {ref + 1} = (ref - len) + 1 .. ref
      /\ \A n \in (ref - len) + 1 .. ref : n - (ref - len) \in 1 .. len
  BY <1>1
<1>4. WaitsAt(long, ref + 1, by, r, t)
        = {n \in (ref - len) + 1 .. ref + 1 : OfRow(long[n - (ref - len)], by, r, t)}
  BY <1>2, <1>3 DEF WaitsAt
<1>5. WaitsAt(trace, ref, by, r, t)
        = {n \in (ref - len) + 1 .. ref : OfRow(trace[n - (ref - len)], by, r, t)}
  BY DEF WaitsAt
<1>6. \A n \in (ref - len) + 1 .. ref :
         OfRow(long[n - (ref - len)], by, r, t) <=> OfRow(trace[n - (ref - len)], by, r, t)
  BY <1>1, <1>2, <1>3
<1> HIDE DEF len
<1>7. WaitsAt(trace, ref, by, r, t) = WaitsAt(long, ref + 1, by, r, t) \ {ref + 1}
  BY <1>3, <1>4, <1>5, <1>6
<1>8. ref + 1 \in WaitsAt(long, ref + 1, by, r, t) <=> OfRow(entry, by, r, t)
  BY <1>2, <1>3, <1>4
<1> QED BY <1>7, <1>8 DEF long

(* Finitely many references are undecided.                                 *)
LEMMA UndecidedFinite ==
    ASSUME NEW c, CacheInv(c), NEW by, NEW r, NEW t
    PROVE  /\ IsFiniteSet(Undecided(c, by, r, t))
           /\ Cardinality(Undecided(c, by, r, t)) \in Nat
<1>1. IsFiniteSet(SetIndex) /\ IsFiniteSet(1 .. MaxRefs)
  BY GeometryAssumption, OptAssumption, FS_Interval DEF SetIndex
<1>2. IsFiniteSet(SetIndex \X (1 .. MaxRefs))
  BY <1>1, FS_Product
<1>3. ASSUME NEW s \in SetIndex,
             NEW n \in WaitsAt(c.sets_[s].lookahead_trace_, c.sets_[s].ref_id_, by, r, t)
      PROVE  n \in 1 .. MaxRefs
  <2>1. IsTrace(c.sets_[s].lookahead_trace_, c.sets_[s].ref_id_)
    BY DEF CacheInv, SetInv
  <2> QED BY <2>1, OptAssumption DEF WaitsAt, IsTrace
<1>4. Undecided(c, by, r, t) \subseteq SetIndex \X (1 .. MaxRefs)
  BY <1>3 DEF Undecided
<1> QED BY <1>2, <1>4, FS_Subset, FS_CardinalityType

(* One reference more or less in a set is one more or less in all.         *)
LEMMA OneWaitsLess ==
    ASSUME NEW c, CacheInv(c), NEW d, NEW s \in SetIndex, NEW n \in Nat,
           NEW by, NEW r, NEW t,
           WaitsAt(d.sets_[s].lookahead_trace_, d.sets_[s].ref_id_, by, r, t)
             = WaitsAt(c.sets_[s].lookahead_trace_, c.sets_[s].ref_id_, by, r, t) \ {n},
           \A q \in SetIndex \ {s} : d.sets_[q] = c.sets_[q]
    PROVE  LET waits == n \in WaitsAt(c.sets_[s].lookahead_trace_, c.sets_[s].ref_id_, by, r, t)
               before == Cardinality(Undecided(c, by, r, t))
               after == Cardinality(Undecided(d, by, r, t))
           IN  /\ before \in Nat /\ after \in Nat
               /\ waits => after = before - 1
               /\ ~waits => after = before
<1> DEFINE W(e, q) == WaitsAt(e.sets_[q].lookahead_trace_, e.sets_[q].ref_id_, by, r, t)
<1>1. /\ \A x : x \in Undecided(c, by, r, t) <=> x \in SetIndex \X Nat /\ x[2] \in W(c, x[1])
      /\ \A x : x \in Undecided(d, by, r, t) <=> x \in SetIndex \X Nat /\ x[2] \in W(d, x[1])
  BY DEF Undecided
<1>2. W(d, s) = W(c, s) \ {n} /\ \A q \in SetIndex \ {s} : W(d, q) = W(c, q)
  OBVIOUS
<1> HIDE DEF W
<1>3. ASSUME NEW q \in SetIndex, NEW m \in Nat
      PROVE  m \in W(d, q) <=> m \in W(c, q) /\ <<q, m>> # <<s, n>>
  BY <1>2
<1>4. ASSUME NEW x
      PROVE  x \in Undecided(d, by, r, t) <=> x \in Undecided(c, by, r, t) /\ x # <<s, n>>
  <2>1. CASE x \in SetIndex \X Nat
    <3>1. PICK q \in SetIndex, m \in Nat : x = <<q, m>>
      BY <2>1
    <3>2. x[1] = q /\ x[2] = m
      BY <3>1
    <3> QED BY <1>1, <1>3, <2>1, <3>1, <3>2
  <2>2. CASE x \notin SetIndex \X Nat
    BY <1>1, <2>2
  <2> QED BY <2>1, <2>2
<1>5. Undecided(d, by, r, t) = Undecided(c, by, r, t) \ {<<s, n>>}
  BY <1>4
<1>6. <<s, n>> \in Undecided(c, by, r, t) <=> n \in W(c, s)
  BY <1>1
<1> DEFINE U == Undecided(c, by, r, t)
<1>7. IsFiniteSet(U) /\ Cardinality(U) \in Nat
  BY UndecidedFinite
<1> HIDE DEF U
<1>8. /\ IsFiniteSet(U \ {<<s, n>>})
      /\ Cardinality(U \ {<<s, n>>})
           = IF <<s, n>> \in U THEN Cardinality(U) - 1 ELSE Cardinality(U)
  <2> DEFINE x == <<s, n>>
  <2> HIDE DEF x
  <2>1. /\ IsFiniteSet(U \ {x})
        /\ Cardinality(U \ {x}) = IF x \in U THEN Cardinality(U) - 1 ELSE Cardinality(U)
    BY <1>7, FS_RemoveElement
  <2> QED BY <2>1 DEF x
<1>9. Cardinality(U \ {<<s, n>>}) \in Nat
  BY <1>8, FS_CardinalityType
<1> QED BY <1>5, <1>6, <1>7, <1>8, <1>9 DEF U, W

(* What an iteration about set s makes of the profiles and of the set.     *)
LEMMA ProcessOneCounts ==
    ASSUME NEW c, CacheInv(c), NEW s \in SetIndex, c.sets_[s].lookahead_trace_ # << >>
    PROVE  LET d == ProcessOne(c, s)
               set == c.sets_[s]
               entry == set.lookahead_trace_[1]
               is_hit == IsHit(set, entry)
           IN  /\ entry \in EntryType /\ is_hit \in BOOLEAN
               /\ IsTrace(set.lookahead_trace_, set.ref_id_)
               /\ d.ref_id_ = c.ref_id_
               /\ d.of_addr_.map = c.of_addr_.map
               /\ \A by \in Forms : ProfileBy(d, by)
                     = CountRow(ProfileBy(c, by), Index(entry, by), entry.access_type, is_hit)
               /\ d.miss_hit_ = Inc(c.miss_hit_, is_hit)
               /\ d.sets_[s].lookahead_trace_ = Tail(set.lookahead_trace_)
               /\ d.sets_[s].ref_id_ = set.ref_id_
               /\ \A q \in SetIndex \ {s} : d.sets_[q] = c.sets_[q]
<1> DEFINE d == ProcessOne(c, s)
           set == c.sets_[s]
           entry == set.lookahead_trace_[1]
           is_hit == IsHit(set, entry)
           count(p, row) == CountRow(p, row, entry.access_type, is_hit)
           sets == [c.sets_ EXCEPT ![s] = Iterated(set)]
<1>1. d \in [lookahead_distance_ : {c.lookahead_distance_},
             process_window_     : {c.process_window_},
             sets_ : {sets}, ref_id_ : {c.ref_id_}, miss_hit_ : {Inc(c.miss_hit_, is_hit)},
             of_inst_ : {count(c.of_inst_, entry.inst_id)},
             of_addr_ : {count(c.of_addr_, entry.addr_id)},
             of_time_ : {count(c.of_time_, entry.epoch)}]
  BY ProcessOneDoes
<1>2. SetInv(set) /\ DOMAIN c.sets_ = SetIndex
  BY DEF CacheInv, CacheShape
<1>3. IsTrace(set.lookahead_trace_, set.ref_id_)
  BY <1>2 DEF SetInv
<1> HIDE DEF set
<1>4. entry \in EntryType
  <2>1. set.lookahead_trace_ \in Seq(EntryType) /\ set.lookahead_trace_ # << >>
    BY <1>3 DEF IsTrace, set
  <2>2. 1 \in 1 .. Len(set.lookahead_trace_)
    BY <2>1
  <2> QED BY <2>1, <2>2
<1>5. is_hit \in BOOLEAN
  BY DEF IsHit
<1>6. /\ (Iterated(set)).ref_id_ = set.ref_id_
      /\ (Iterated(set)).lookahead_trace_ = Tail(set.lookahead_trace_)
  <2>1. set.lookahead_trace_ # << >>
    BY DEF set
  <2> QED BY <1>2, <2>1, IterationKeeps
<1>7. sets[s] = Iterated(set) /\ \A q \in SetIndex \ {s} : sets[q] = c.sets_[q]
  BY <1>2
<1> HIDE DEF d, sets, is_hit, entry, count
<1>8. /\ d.ref_id_ = c.ref_id_ /\ d.miss_hit_ = Inc(c.miss_hit_, is_hit) /\ d.sets_ = sets
      /\ d.of_inst_ = count(c.of_inst_, entry.inst_id)
      /\ d.of_addr_ = count(c.of_addr_, entry.addr_id)
      /\ d.of_time_ = count(c.of_time_, entry.epoch)
  BY <1>1
<1>9. \A p, row : (count(p, row)).map = p.map
  BY DEF count, CountRow, Bump
<1>10. \A by \in Forms : ProfileBy(d, by) = count(ProfileBy(c, by), Index(entry, by))
  BY <1>8 DEF Forms, ProfileBy, Index
<1>11. d.of_addr_.map = c.of_addr_.map
  BY <1>8, <1>9
<1>12. /\ d.sets_[s].lookahead_trace_ = Tail(set.lookahead_trace_)
       /\ d.sets_[s].ref_id_ = set.ref_id_
       /\ \A q \in SetIndex \ {s} : d.sets_[q] = c.sets_[q]
  BY <1>6, <1>7, <1>8
<1> QED BY <1>3, <1>4, <1>5, <1>8, <1>10, <1>11, <1>12 DEF d, set, is_hit, entry, count

(* Deciding a reference moves it from the trace to the profiles.           *)
LEMMA ProcessOneMoves ==
    ASSUME NEW c, CacheInv(c), LedgerInv(c), NEW s \in SetIndex,
           c.sets_[s].lookahead_trace_ # << >>, NEW by \in Forms
    PROVE  LET d == ProcessOne(c, s)
           IN  /\ MissSum(ProfileBy(d, by)) % Uint32 = d.miss_hit_[1]
               /\ ProfileBy(d, by).map = ProfileBy(c, by).map
               /\ \A r, t : t \in kAccessTypes => SeenBy(d, by, r, t) = SeenBy(c, by, r, t)
<1> DEFINE d == ProcessOne(c, s)
           set == c.sets_[s]
           trace == set.lookahead_trace_
           ref == set.ref_id_
           entry == trace[1]
           is_hit == IsHit(set, entry)
           p == ProfileBy(c, by)
           row == Index(entry, by)
           first == (ref - Len(trace)) + 1
<1>1. /\ entry \in EntryType /\ is_hit \in BOOLEAN /\ IsTrace(trace, ref)
      /\ ProfileBy(d, by) = CountRow(p, row, entry.access_type, is_hit)
      /\ d.miss_hit_ = Inc(c.miss_hit_, is_hit)
      /\ d.sets_[s].lookahead_trace_ = Tail(trace)
      /\ d.sets_[s].ref_id_ = ref
      /\ \A q \in SetIndex \ {s} : d.sets_[q] = c.sets_[q]
  BY ProcessOneCounts
<1>2. trace # << >> /\ 1 \in DOMAIN trace /\ first \in Nat
  <2>1. trace \in Seq(EntryType) /\ trace # << >> /\ ref \in Nat /\ Len(trace) <= ref
    BY <1>1 DEF IsTrace
  <2> HIDE DEF trace, ref
  <2> QED BY <2>1
<1>3. /\ p \in ProfileType /\ Covered(p)
      /\ c.miss_hit_ \in (0 .. Uint32 - 1) \X (0 .. Uint32 - 1)
  BY DEF CacheInv, CacheShape, ProfileBy
<1>4. row \in 1 .. Len(p.rows) /\ MissSum(p) % Uint32 = c.miss_hit_[1]
  <2>1. row <= Len(p.map) /\ MissSum(p) % Uint32 = c.miss_hit_[1]
    BY <1>2 DEF LedgerInv
  <2>2. row \in Nat \ {0}
    BY <1>1 DEF EntryType, Index
  <2> HIDE DEF p, row
  <2>3. Len(p.map) \in Nat /\ Len(p.rows) \in Nat /\ Len(p.map) < Len(p.rows)
    BY <1>3 DEF ProfileType, Covered
  <2> QED BY <2>1, <2>2, <2>3
<1>5. entry.access_type \in kAccessTypes
  BY <1>1 DEF EntryType
<1> HIDE DEF d, set, trace, ref, entry, is_hit, p, row, first
<1> DEFINE q == CountRow(p, row, entry.access_type, is_hit)
<1>6. /\ q \in ProfileType /\ Covered(q) /\ q.map = p.map
      /\ \A r, t : t \in kAccessTypes =>
           Seen(q, r, t) = Seen(p, r, t) + Once(r, t, row, entry.access_type)
      /\ MissSum(p) \in Nat
      /\ is_hit => MissSum(q) = MissSum(p)
      /\ ~is_hit => MissSum(q) = MissSum(p) + 1
  BY <1>1, <1>3, <1>4, <1>5, CountRowSees
<1>7. ProfileBy(d, by) = q
  BY <1>1
<1> HIDE DEF q
<1>8. MissSum(ProfileBy(d, by)) % Uint32 = d.miss_hit_[1]
  BY <1>1, <1>3, <1>4, <1>6, <1>7, MissesCounted
<1>9. ASSUME NEW r, NEW t \in kAccessTypes PROVE SeenBy(d, by, r, t) = SeenBy(c, by, r, t)
  <2> DEFINE before == Cardinality(Undecided(c, by, r, t))
             after == Cardinality(Undecided(d, by, r, t))
             waits == first \in WaitsAt(trace, ref, by, r, t)
             o == Once(r, t, row, entry.access_type)
             x == Seen(p, r, t)
  <2>1. /\ WaitsAt(Tail(trace), ref, by, r, t) = WaitsAt(trace, ref, by, r, t) \ {first}
        /\ waits <=> OfRow(entry, by, r, t)
    BY <1>1, <1>2, TailWaits DEF entry, first
  <2>2. /\ before \in Nat /\ after \in Nat
        /\ waits => after = before - 1
        /\ ~waits => after = before
    <3>1. WaitsAt(d.sets_[s].lookahead_trace_, d.sets_[s].ref_id_, by, r, t)
            = WaitsAt(c.sets_[s].lookahead_trace_, c.sets_[s].ref_id_, by, r, t) \ {first}
      BY <1>1, <2>1 DEF trace, ref, set
    <3> QED BY <1>1, <1>2, <3>1, OneWaitsLess DEF trace, ref, set
  <2>3. waits <=> (r = row /\ t = entry.access_type)
    BY <2>1 DEF OfRow, row
  <2> HIDE DEF waits
  <2>4. (waits => o = 1) /\ (~waits => o = 0)
    BY <2>3 DEF Once
  <2>5. Seen(q, r, t) = x + o
    BY <1>6
  <2>6. x \in Int
    BY <1>3, SeenNat
  <2>7. SeenBy(c, by, r, t) = x + before /\ SeenBy(d, by, r, t) = Seen(q, r, t) + after
    BY <1>7 DEF SeenBy, p
  <2> HIDE DEF o, x, before, after
  <2> QED BY <2>2, <2>4, <2>5, <2>6, <2>7
<1>10. ProfileBy(d, by).map = p.map
  BY <1>6, <1>7
<1> QED BY <1>8, <1>9, <1>10 DEF d, p

(* A cache with the same number of references and the same keys, whose     *)
(* rows have been seen as often, has the same view.                        *)
LEMMA SameView ==
    ASSUME NEW c, NEW d, d.ref_id_ = c.ref_id_, d.of_addr_.map = c.of_addr_.map,
           \A by \in Forms :
               /\ ProfileBy(d, by).map = ProfileBy(c, by).map
               /\ \A r, t : t \in kAccessTypes => SeenBy(d, by, r, t) = SeenBy(c, by, r, t)
    PROVE  OptView(d) = OptView(c)
<1>1. ASSUME NEW by \in Forms PROVE RowsSeenBy(d, by) = RowsSeenBy(c, by)
  <2>1. \A r \in Nat \ {0}, t \in kAccessTypes : SeenBy(d, by, r, t) = SeenBy(c, by, r, t)
    OBVIOUS
  <2> QED BY <2>1, Zenon DEF RowsSeenBy
<1>2. "inst" \in Forms /\ "time" \in Forms
  BY DEF Forms
<1>3. RowsSeenBy(d, "inst") = RowsSeenBy(c, "inst") /\ RowsSeenBy(d, "time") = RowsSeenBy(c, "time")
  BY <1>1, <1>2
<1>4. d.of_inst_.map = c.of_inst_.map /\ d.of_time_.map = c.of_time_.map
  <2>1. /\ ProfileBy(d, "inst") = d.of_inst_ /\ ProfileBy(c, "inst") = c.of_inst_
        /\ ProfileBy(d, "time") = d.of_time_ /\ ProfileBy(c, "time") = c.of_time_
    BY DEF ProfileBy
  <2>2. /\ ProfileBy(d, "inst").map = ProfileBy(c, "inst").map
        /\ ProfileBy(d, "time").map = ProfileBy(c, "time").map
    BY <1>2
  <2> QED BY <2>1, <2>2
<1> QED BY <1>3, <1>4, Zenon DEF OptView

(* An iteration of Process changes nothing about the view.                 *)
LEMMA ProcessOneLedger ==
    ASSUME NEW c, CacheInv(c), NEW s \in SetIndex, c.sets_[s].lookahead_trace_ # << >>
    PROVE  KeepsLedger(c, ProcessOne(c, s))
<1> DEFINE d == ProcessOne(c, s)
           trace == c.sets_[s].lookahead_trace_
<1>1. SUFFICES ASSUME LedgerInv(c) PROVE LedgerInv(d) /\ OptView(d) = OptView(c)
  BY DEF KeepsLedger
<1>2. \A by \in Forms :
         /\ MissSum(ProfileBy(d, by)) % Uint32 = d.miss_hit_[1]
         /\ ProfileBy(d, by).map = ProfileBy(c, by).map
         /\ \A r, t : t \in kAccessTypes => SeenBy(d, by, r, t) = SeenBy(c, by, r, t)
  BY <1>1, ProcessOneMoves
<1>3. /\ d.ref_id_ = c.ref_id_ /\ d.of_addr_.map = c.of_addr_.map
      /\ d.sets_[s].lookahead_trace_ = Tail(trace)
      /\ \A q \in SetIndex \ {s} : d.sets_[q] = c.sets_[q]
      /\ trace \in Seq(EntryType)
  BY ProcessOneCounts DEF IsTrace
<1> HIDE DEF d
<1>4. OptView(d) = OptView(c)
  BY <1>2, <1>3, SameView
<1>5. ASSUME NEW by \in Forms, NEW q \in SetIndex, NEW i \in DOMAIN d.sets_[q].lookahead_trace_
      PROVE  Index(d.sets_[q].lookahead_trace_[i], by) <= Len(ProfileBy(d, by).map)
  <2>1. \A k \in DOMAIN c.sets_[q].lookahead_trace_ :
           Index(c.sets_[q].lookahead_trace_[k], by) <= Len(ProfileBy(c, by).map)
    BY <1>1 DEF LedgerInv
  <2>2. \E k \in DOMAIN c.sets_[q].lookahead_trace_ :
           d.sets_[q].lookahead_trace_[i] = c.sets_[q].lookahead_trace_[k]
    <3>1. CASE q = s
      <4>1. i \in DOMAIN Tail(trace) /\ trace # << >>
        BY <1>3, <3>1
      <4> HIDE DEF trace
      <4>2. i + 1 \in DOMAIN trace /\ Tail(trace)[i] = trace[i + 1]
        BY <1>3, <4>1
      <4> QED BY <1>3, <3>1, <4>2 DEF trace
    <3>2. CASE q # s
      BY <1>3, <3>2
    <3> QED BY <3>1, <3>2
  <2> QED BY <1>2, <2>1, <2>2
<1>6. LedgerInv(d)
  BY <1>2, <1>5 DEF LedgerInv
<1> QED BY <1>4, <1>6 DEF d

(* A cache whose sets wait for the same references, and that has counted   *)
(* the same, has the same ledger.                                          *)
LEMMA SameLedger ==
    ASSUME NEW c, NEW d, d.ref_id_ = c.ref_id_, d.miss_hit_ = c.miss_hit_,
           d.of_inst_ = c.of_inst_, d.of_addr_ = c.of_addr_, d.of_time_ = c.of_time_,
           \A s \in SetIndex : /\ d.sets_[s].lookahead_trace_ = c.sets_[s].lookahead_trace_
                              /\ d.sets_[s].ref_id_ = c.sets_[s].ref_id_
    PROVE  KeepsLedger(c, d)
<1>1. \A by : ProfileBy(d, by) = ProfileBy(c, by)
  BY DEF ProfileBy
<1>2. ASSUME NEW by, NEW r, NEW t PROVE SeenBy(d, by, r, t) = SeenBy(c, by, r, t)
  <2>1. \A x \in SetIndex \X Nat : x[1] \in SetIndex
    OBVIOUS
  <2>2. Undecided(d, by, r, t) = Undecided(c, by, r, t)
    BY <2>1 DEF Undecided
  <2> QED BY <1>1, <2>2 DEF SeenBy
<1>3. OptView(d) = OptView(c)
  BY <1>1, <1>2, SameView
<1>4. LedgerInv(c) => LedgerInv(d)
  BY <1>1 DEF LedgerInv
<1> QED BY <1>3, <1>4 DEF KeepsLedger

(* What set s says of when its lines were last used stays true.            *)
StaysRight(c, d, s) == \A use : UsedSet(c.sets_[s], use) => UsedSet(d.sets_[s], use)

(* From c to d the cache has counted n misses more, in UINT32s.            *)
MissesMore(c, d, n) == \E k \in Int : d.miss_hit_[1] = c.miss_hit_[1] + n + k * Uint32

(* What was counted of set s as few misses as any choice takes still is.   *)
StaysOptimal(c, d, s) ==
    \A use, final, m : OptSet(c.sets_[s], use, final, m) =>
        \E n \in Nat : OptSet(d.sets_[s], use, final, m + n) /\ MissesMore(c, d, n)

(* d is what is left of c after iterations about set s.                    *)
Reached(c, d, s) ==
    /\ CacheInv(d) /\ OnlySet(c, d, s) /\ SameCount(d, c, s)
    /\ StaysRight(c, d, s) /\ StaysOptimal(c, d, s) /\ KeepsLedger(c, d)

(* Counting a miss is counting one, or as many less as UINT32 has values.  *)
LEMMA IncMisses ==
    ASSUME NEW miss_hit \in (0 .. Uint32 - 1) \X (0 .. Uint32 - 1), NEW is_hit \in BOOLEAN
    PROVE  LET new == Inc(miss_hit, is_hit)
           IN  \/ new[1] = miss_hit[1] + B2I(~is_hit)
               \/ new[1] = miss_hit[1] + B2I(~is_hit) - Uint32
<1>1. Uint32 \in Nat \ {0}
  BY CounterAssumption
<1>2. \A x \in 0 .. Uint32 - 1 : (x + 1) % Uint32 = IF x + 1 = Uint32 THEN 0 ELSE x + 1
  BY <1>1
<1>3. miss_hit[1] \in 0 .. Uint32 - 1 /\ DOMAIN miss_hit = 1 .. 2
  OBVIOUS
<1>4. CASE is_hit = TRUE
  <2>1. B2I(~is_hit) = 0 /\ 1 + B2I(is_hit) = 2
    BY <1>4 DEF B2I
  <2>2. Inc(miss_hit, is_hit)[1] = miss_hit[1]
    BY <1>3, <2>1 DEF Inc
  <2> QED BY <1>3, <2>1, <2>2
<1>5. CASE is_hit = FALSE
  <2>1. B2I(~is_hit) = 1 /\ 1 + B2I(is_hit) = 1
    BY <1>5 DEF B2I
  <2>2. Inc(miss_hit, is_hit)[1] = (miss_hit[1] + 1) % Uint32
    BY <1>3, <2>1 DEF Inc
  <2> QED BY <1>1, <1>2, <1>3, <2>1, <2>2
<1> QED BY <1>4, <1>5

(* Multiples of a number add up to a multiple.                             *)
LEMMA Distribute ==
    ASSUME NEW m \in Int, NEW n \in Int, NEW u \in Int
    PROVE  (m + n) * u = m * u + n * u /\ m * u \in Int /\ n * u \in Int
BY SMT

(* Misses of one step and of the next are misses of both.                  *)
LEMMA MissesAdd ==
    ASSUME NEW c, NEW d, NEW e, NEW m \in Nat, NEW n \in Nat,
           c.miss_hit_[1] \in Int, MissesMore(c, d, m), MissesMore(d, e, n)
    PROVE  MissesMore(c, e, m + n)
<1>1. PICK i \in Int : d.miss_hit_[1] = c.miss_hit_[1] + m + i * Uint32
  BY DEF MissesMore
<1>2. PICK j \in Int : e.miss_hit_[1] = d.miss_hit_[1] + n + j * Uint32
  BY DEF MissesMore
<1>3. /\ (i + j) * Uint32 = i * Uint32 + j * Uint32
      /\ i * Uint32 \in Int /\ j * Uint32 \in Int /\ i + j \in Int
  <2>1. Uint32 \in Int
    BY CounterAssumption
  <2> QED BY <2>1, Distribute
<1> DEFINE x == c.miss_hit_[1]
           a == i * Uint32
           b == j * Uint32
<1>4. x \in Int /\ a \in Int /\ b \in Int
  BY <1>3
<1>5. d.miss_hit_[1] = x + m + a /\ e.miss_hit_[1] = d.miss_hit_[1] + n + b
  BY <1>1, <1>2
<1>6. (i + j) * Uint32 = a + b
  BY <1>3
<1> HIDE DEF x, a, b
<1>7. e.miss_hit_[1] = x + (m + n) + (a + b)
  BY <1>4, <1>5
<1>8. e.miss_hit_[1] = c.miss_hit_[1] + (m + n) + (i + j) * Uint32
  BY <1>6, <1>7 DEF x
<1> QED BY <1>3, <1>8 DEF MissesMore

(* No choice is better after one step than before it, nor after two.       *)
LEMMA OptimalTwice ==
    ASSUME NEW c, NEW d, NEW e, NEW s, c.miss_hit_[1] \in Int,
           StaysOptimal(c, d, s), StaysOptimal(d, e, s)
    PROVE  StaysOptimal(c, e, s)
<1> SUFFICES ASSUME NEW use, NEW final, NEW m, OptSet(c.sets_[s], use, final, m)
             PROVE  \E n \in Nat : /\ OptSet(e.sets_[s], use, final, m + n)
                                   /\ MissesMore(c, e, n)
  BY DEF StaysOptimal
<1>1. PICK i \in Nat : OptSet(d.sets_[s], use, final, m + i) /\ MissesMore(c, d, i)
  BY DEF StaysOptimal
<1>2. PICK j \in Nat : OptSet(e.sets_[s], use, final, (m + i) + j) /\ MissesMore(d, e, j)
  BY <1>1 DEF StaysOptimal
<1>3. m \in Nat
  BY DEF OptSet, BestSet, Best
<1>4. (m + i) + j = m + (i + j) /\ i + j \in Nat
  BY <1>1, <1>2, <1>3
<1>5. MissesMore(c, e, i + j)
  BY <1>1, <1>2, MissesAdd
<1> QED BY <1>2, <1>4, <1>5

(* No step takes no misses.                                                *)
LEMMA OptimalItself ==
    ASSUME NEW c, c.miss_hit_[1] \in Int, NEW s
    PROVE  StaysOptimal(c, c, s)
<1> SUFFICES ASSUME NEW use, NEW final, NEW m, OptSet(c.sets_[s], use, final, m)
             PROVE  \E n \in Nat : /\ OptSet(c.sets_[s], use, final, m + n)
                                   /\ MissesMore(c, c, n)
  BY DEF StaysOptimal
<1>1. m \in Nat
  BY DEF OptSet, BestSet, Best
<1>2. m + 0 = m
  BY <1>1
<1>3. 0 * Uint32 = 0
  BY CounterAssumption
<1>4. MissesMore(c, c, 0)
  BY <1>3 DEF MissesMore
<1> QED BY <1>2, <1>4

(* An iteration of Process counts a miss exactly where the best choice     *)
(* takes one.                                                              *)
LEMMA ProcessOneOptimal ==
    ASSUME NEW c, CacheInv(c), NEW s \in SetIndex, c.sets_[s].lookahead_trace_ # << >>
    PROVE  StaysOptimal(c, ProcessOne(c, s), s)
<1> DEFINE set == c.sets_[s]
           entry == set.lookahead_trace_[1]
           is_hit == IsHit(set, entry)
           new == Iterated(set)
           b == B2I(~is_hit)
           d == ProcessOne(c, s)
<1>1. d.miss_hit_ = Inc(c.miss_hit_, is_hit) /\ d.sets_ = [c.sets_ EXCEPT ![s] = new]
  BY ProcessOneDoes
<1>2. /\ DOMAIN c.sets_ = SetIndex /\ SetInv(set)
      /\ c.miss_hit_ \in (0 .. Uint32 - 1) \X (0 .. Uint32 - 1)
  BY DEF CacheInv, CacheShape
<1>3. is_hit \in BOOLEAN
  BY DEF IsHit
<1>4. \A use, final, m : OptSet(set, use, final, m) => OptSet(new, use, final, m + b)
  BY <1>2, IterationOpt
<1>5. b \in Nat
  BY DEF B2I
<1>6. d.sets_[s] = new
  BY <1>1, <1>2
<1> HIDE DEF set, is_hit, new, d
<1>7. \/ d.miss_hit_[1] = c.miss_hit_[1] + b
      \/ d.miss_hit_[1] = c.miss_hit_[1] + b - Uint32
  BY <1>1, <1>2, <1>3, IncMisses
<1> HIDE DEF b
<1>8. MissesMore(c, d, b)
  <2> DEFINE x == c.miss_hit_[1]
             y == d.miss_hit_[1]
  <2>1. x \in Int /\ Uint32 \in Int
    BY <1>2, CounterAssumption
  <2>2. y = x + b \/ y = x + b - Uint32
    BY <1>7
  <2> HIDE DEF x, y
  <2>3. CASE y = x + b
    <3>1. y = x + b + 0 * Uint32 /\ 0 \in Int
      BY <1>5, <2>1, <2>3
    <3> QED BY <3>1 DEF MissesMore, x, y
  <2>4. CASE y = x + b - Uint32
    <3>1. y = x + b + (-1) * Uint32 /\ -1 \in Int
      BY <1>5, <2>1, <2>4
    <3> QED BY <3>1 DEF MissesMore, x, y
  <2> QED BY <2>2, <2>3, <2>4
<1>9. StaysOptimal(c, d, s)
  BY <1>4, <1>5, <1>6, <1>8 DEF StaysOptimal, set
<1> QED BY <1>9 DEF d

(* An iteration of Process keeps the invariant, loses no reference, and    *)
(* touches no other set.                                                   *)
LEMMA ProcessOneKeeps ==
    ASSUME NEW c, CacheInv(c), NEW s \in SetIndex, c.sets_[s].lookahead_trace_ # << >>
    PROVE  LET d == ProcessOne(c, s)
           IN  /\ Reached(c, d, s)
               /\ d.sets_[s].lookahead_trace_ = Tail(c.sets_[s].lookahead_trace_)
<1> DEFINE set == c.sets_[s]
           entry == set.lookahead_trace_[1]
           is_hit == IsHit(set, entry)
           new == Iterated(set)
           d == ProcessOne(c, s)
           sets == [c.sets_ EXCEPT ![s] = new]
           mh == Inc(c.miss_hit_, is_hit)
           oi == CountRow(c.of_inst_, entry.inst_id, entry.access_type, is_hit)
           oa == CountRow(c.of_addr_, entry.addr_id, entry.access_type, is_hit)
           ot == CountRow(c.of_time_, entry.epoch, entry.access_type, is_hit)
<1>1. d \in [lookahead_distance_ : {c.lookahead_distance_},
             process_window_     : {c.process_window_},
             sets_     : {sets}, ref_id_ : {c.ref_id_}, miss_hit_ : {mh},
             of_inst_  : {oi}, of_addr_  : {oa}, of_time_  : {ot}]
  BY ProcessOneDoes
<1>2. /\ SetInv(set) /\ SetInv(new) /\ new.ref_id_ = set.ref_id_
      /\ new.lookahead_ref_count_ = set.lookahead_ref_count_
      /\ new.lookahead_trace_ = Tail(set.lookahead_trace_)
  <2>1. SetInv(set)
    BY DEF CacheInv
  <2> QED BY <2>1, IterationKeeps
<1>3. set.lookahead_trace_ \in Seq(EntryType) /\ Len(set.lookahead_trace_) \in Nat \ {0}
      /\ Len(Tail(set.lookahead_trace_)) = Len(set.lookahead_trace_) - 1
  <2>1. set.lookahead_trace_ \in Seq(EntryType)
    BY <1>2 DEF SetInv, IsTrace
  <2> HIDE DEF set
  <2>2. set.lookahead_trace_ # << >>
    BY DEF set
  <2> QED BY <2>1, <2>2
<1>4. /\ entry.inst_id \in Nat /\ entry.addr_id \in Nat /\ entry.epoch \in Nat
      /\ entry.access_type \in kAccessTypes
  <2>1. entry \in EntryType
    BY <1>3
  <2> HIDE DEF entry
  <2> QED BY <2>1 DEF EntryType
<1>5. is_hit \in BOOLEAN
  BY DEF IsHit
<1>6. /\ c.lookahead_distance_ \in Nat /\ c.process_window_ \in Nat /\ c.ref_id_ \in Nat
      /\ c.miss_hit_ \in (0 .. Uint32 - 1) \X (0 .. Uint32 - 1)
      /\ c.of_inst_ \in ProfileType /\ c.of_addr_ \in ProfileType /\ c.of_time_ \in ProfileType
      /\ Covered(c.of_inst_) /\ Covered(c.of_addr_) /\ Covered(c.of_time_)
      /\ DOMAIN c.sets_ = SetIndex /\ c.ref_id_ <= MaxRefs
      /\ c.sets_ \in [SetIndex -> {c.sets_[q] : q \in SetIndex}]
  BY DEF CacheInv, CacheShape
<1> HIDE DEF entry, is_hit
<1>7. MissHitId(entry.access_type, is_hit) \in CounterId
  BY <1>4, <1>5, CounterIds
<1>8. oi \in ProfileType /\ Covered(oi) /\ oa \in ProfileType /\ Covered(oa)
      /\ ot \in ProfileType /\ Covered(ot)
  BY <1>4, <1>6, <1>7, BumpOK DEF CountRow
<1>9. mh \in (0 .. Uint32 - 1) \X (0 .. Uint32 - 1)
  BY <1>5, <1>6, IncOK
<1>10. \/ mh[1] + mh[2] = c.miss_hit_[1] + c.miss_hit_[2] + 1
       \/ mh[1] + mh[2] = c.miss_hit_[1] + c.miss_hit_[2] + 1 - Uint32
  BY <1>5, <1>6, IncCounts
<1> HIDE DEF new, oi, oa, ot, mh
<1>11. /\ DOMAIN sets = SetIndex /\ sets[s] = new
       /\ \A q \in SetIndex \ {s} : sets[q] = c.sets_[q]
  BY <1>6
<1> HIDE DEF set, sets, d
<1>12. /\ d.lookahead_distance_ = c.lookahead_distance_ /\ d.process_window_ = c.process_window_
       /\ d.sets_ = sets /\ d.ref_id_ = c.ref_id_ /\ d.miss_hit_ = mh
       /\ d.of_inst_ = oi /\ d.of_addr_ = oa /\ d.of_time_ = ot
  BY <1>1
<1>13. d \in CacheShape(d)
  <2>1. d.sets_ \in [SetIndex -> {d.sets_[q] : q \in SetIndex}]
    <3>1. sets = [q \in SetIndex |-> sets[q]]
      BY <1>6 DEF sets
    <3>2. \A q \in SetIndex : sets[q] \in {sets[r] : r \in SetIndex}
      OBVIOUS
    <3>3. sets \in [SetIndex -> {sets[q] : q \in SetIndex}]
      BY <3>1, <3>2
    <3> QED BY <1>12, <3>3
  <2> DEFINE W == [SetIndex -> {d.sets_[q] : q \in SetIndex}]
  <2> HIDE DEF W
  <2>2. d.sets_ \in W
    BY <2>1 DEF W
  <2>3. d \in [lookahead_distance_ : Nat, process_window_ : Nat, sets_ : W, ref_id_ : Nat,
               miss_hit_ : (0 .. Uint32 - 1) \X (0 .. Uint32 - 1),
               of_inst_ : ProfileType, of_addr_ : ProfileType, of_time_ : ProfileType]
    BY <1>1, <1>6, <1>8, <1>9, <1>12, <2>2
  <2> QED BY <2>3 DEF CacheShape, W
<1>14. \A q \in SetIndex : SetInv(d.sets_[q]) /\ d.sets_[q].ref_id_ <= d.ref_id_
  <2>1. \A q \in SetIndex : SetInv(c.sets_[q]) /\ c.sets_[q].ref_id_ <= c.ref_id_
    BY DEF CacheInv
  <2> QED BY <1>2, <1>11, <1>12, <2>1 DEF set
<1>15. CacheInv(d)
  BY <1>6, <1>8, <1>12, <1>13, <1>14 DEF CacheInv
<1>16. OnlySet(c, d, s)
  BY <1>2, <1>11, <1>12 DEF OnlySet, set
<1>17. SameCount(d, c, s)
  <2> DEFINE a == c.miss_hit_[1]
             b == c.miss_hit_[2]
             x == mh[1]
             y == mh[2]
             len == Len(set.lookahead_trace_)
  <2>1. a \in Int /\ b \in Int /\ x \in Int /\ y \in Int /\ Uint32 \in Int
    BY <1>6, <1>9, CounterAssumption
  <2>2. len \in Int
    BY <1>3
  <2>3. Total(c, s) = a + b + len
    BY DEF Total, set
  <2>4. Total(d, s) = x + y + (len - 1)
    BY <1>2, <1>3, <1>11, <1>12 DEF Total
  <2>5. x + y = a + b + 1 \/ x + y = a + b + 1 - Uint32
    BY <1>10
  <2> HIDE DEF a, b, x, y, len
  <2>6. CASE x + y = a + b + 1
    <3>1. Total(d, s) = Total(c, s) + 0 * Uint32 /\ 0 \in Int
      BY <2>1, <2>2, <2>3, <2>4, <2>6
    <3> QED BY <3>1 DEF SameCount
  <2>7. CASE x + y = a + b + 1 - Uint32
    <3>1. Total(d, s) = Total(c, s) + (-1) * Uint32 /\ -1 \in Int
      BY <2>1, <2>2, <2>3, <2>4, <2>7
    <3> QED BY <3>1 DEF SameCount
  <2> QED BY <2>5, <2>6, <2>7
<1>18. StaysRight(c, d, s)
  <2>1. \A use : UsedSet(set, use) => UsedSet(new, use)
    <3>1. SetInv(set) /\ set.lookahead_trace_ # << >>
      BY <1>2 DEF set
    <3> QED BY <3>1, IterationUsed DEF new
  <2> QED BY <1>11, <1>12, <2>1 DEF StaysRight, set
<1>19. KeepsLedger(c, d)
  BY ProcessOneLedger DEF d
<1>20. StaysOptimal(c, d, s)
  BY ProcessOneOptimal DEF d
<1> QED BY <1>2, <1>11, <1>12, <1>15, <1>16, <1>17, <1>18, <1>19, <1>20 DEF Reached, d, set

(* What one pass through the loop of Process makes of a cache.             *)
Stepped(d, s) == IF d.sets_[s].lookahead_trace_ = << >> THEN d ELSE ProcessOne(d, s)

(* The caches after each pass through the loop.                            *)
ProcessSteps(u, c, s, last) ==
    u = [n \in 0 .. last |-> IF n = 0 THEN c ELSE Stepped(u[n - 1], s)]

(* The caches after each set has been processed, at the end.               *)
FiniSteps(u, c, iterations, last) ==
    u = [n \in 0 .. last |-> IF n = 0 THEN c ELSE Process(u[n - 1], n - 1, iterations)]

(* The recursion of Process defines a function: by induction, there is one *)
(* for every number of iterations.                                         *)
LEMMA ProcessDefined ==
    ASSUME NEW c, NEW s, NEW iterations \in Nat
    PROVE  \E u : /\ ProcessSteps(u, c, s, iterations)
                  /\ Process(c, s, iterations) =
                       [u[iterations] EXCEPT
                          !.sets_[s].lookahead_ref_count_ = c.lookahead_distance_]
<1> DEFINE S == {n \in Nat : \E u : ProcessSteps(u, c, s, n)}
<1>1. 0 \in S
  <2> DEFINE u == [n \in 0 .. 0 |-> c]
  <2>1. u = [n \in 0 .. 0 |-> IF n = 0 THEN c ELSE Stepped(u[n - 1], s)]
    OBVIOUS
  <2>2. ProcessSteps(u, c, s, 0)
    BY <2>1 DEF ProcessSteps
  <2> QED BY <2>2
<1>2. ASSUME NEW n \in S PROVE n + 1 \in S
  <2>1. n \in Nat /\ n + 1 \in Nat
    OBVIOUS
  <2>2. PICK u : ProcessSteps(u, c, s, n)
    OBVIOUS
  <2>3. /\ u[0] = c
        /\ \A i \in 0 .. n : i # 0 => u[i] = Stepped(u[i - 1], s)
    BY <2>1, <2>2 DEF ProcessSteps
  <2> DEFINE v == [i \in 0 .. n + 1 |-> IF i <= n THEN u[i] ELSE Stepped(u[i - 1], s)]
             w == [i \in 0 .. n + 1 |-> IF i = 0 THEN c ELSE Stepped(v[i - 1], s)]
  <2>4. ASSUME NEW i \in 0 .. n + 1 PROVE v[i] = w[i]
    <3>1. CASE i = 0
      <4>1. i <= n
        BY <2>1, <3>1
      <4> QED BY <2>3, <3>1, <4>1
    <3>2. CASE i # 0
      <4>1. i - 1 \in 0 .. n + 1 /\ i - 1 <= n
        BY <2>1, <3>2
      <4>2. v[i - 1] = u[i - 1]
        BY <4>1
      <4>3. CASE i <= n
        <5>1. i \in 0 .. n
          BY <2>1, <4>3
        <5> QED BY <2>3, <3>2, <4>2, <4>3, <5>1
      <4>4. CASE ~(i <= n)
        BY <3>2, <4>2, <4>4
      <4> QED BY <4>3, <4>4
    <3> QED BY <3>1, <3>2
  <2>5. v = w
    <3>1. v = [i \in 0 .. n + 1 |-> v[i]] /\ w = [i \in 0 .. n + 1 |-> w[i]]
      OBVIOUS
    <3> HIDE DEF v, w
    <3> QED BY <2>4, <3>1
  <2>6. ProcessSteps(v, c, s, n + 1)
    BY <2>5 DEF ProcessSteps
  <2> HIDE DEF v
  <2> QED BY <2>1, <2>6
<1>3. S = Nat
  <2>1. S \in SUBSET Nat
    OBVIOUS
  <2> HIDE DEF S
  <2> QED BY <1>1, <1>2, <2>1, NatSetInduction
<1>4. \E u : ProcessSteps(u, c, s, iterations)
  BY <1>3
<1> DEFINE after == CHOOSE u : ProcessSteps(u, c, s, iterations)
<1>5. ProcessSteps(after, c, s, iterations)
  BY <1>4
<1>6. Process(c, s, iterations) =
        [after[iterations] EXCEPT !.sets_[s].lookahead_ref_count_ = c.lookahead_distance_]
  BY DEF Process, ProcessSteps, Stepped
<1> HIDE DEF after
<1> QED BY <1>5, <1>6

(* The same for the loop of Fini over the sets.                            *)
LEMMA AllProcessedDefined ==
    \E u : FiniSteps(u, cache, Horizon, NumSets) /\ AllProcessed = u[NumSets]
<1> DEFINE S == {n \in Nat : \E u : FiniSteps(u, cache, Horizon, n)}
<1>1. 0 \in S
  <2> DEFINE u == [n \in 0 .. 0 |-> cache]
  <2>1. u = [n \in 0 .. 0 |-> IF n = 0 THEN cache ELSE Process(u[n - 1], n - 1, Horizon)]
    OBVIOUS
  <2>2. FiniSteps(u, cache, Horizon, 0)
    BY <2>1 DEF FiniSteps
  <2> QED BY <2>2
<1>2. ASSUME NEW n \in S PROVE n + 1 \in S
  <2>1. n \in Nat /\ n + 1 \in Nat
    OBVIOUS
  <2>2. PICK u : FiniSteps(u, cache, Horizon, n)
    OBVIOUS
  <2>3. /\ u[0] = cache
        /\ \A i \in 0 .. n : i # 0 => u[i] = Process(u[i - 1], i - 1, Horizon)
    BY <2>1, <2>2 DEF FiniSteps
  <2> DEFINE v == [i \in 0 .. n + 1 |->
                     IF i <= n THEN u[i] ELSE Process(u[i - 1], i - 1, Horizon)]
             w == [i \in 0 .. n + 1 |->
                     IF i = 0 THEN cache ELSE Process(v[i - 1], i - 1, Horizon)]
  <2>4. ASSUME NEW i \in 0 .. n + 1 PROVE v[i] = w[i]
    <3>1. CASE i = 0
      <4>1. i <= n
        BY <2>1, <3>1
      <4> QED BY <2>3, <3>1, <4>1
    <3>2. CASE i # 0
      <4>1. i - 1 \in 0 .. n + 1 /\ i - 1 <= n
        BY <2>1, <3>2
      <4>2. v[i - 1] = u[i - 1]
        BY <4>1
      <4>3. CASE i <= n
        <5>1. i \in 0 .. n
          BY <2>1, <4>3
        <5> QED BY <2>3, <3>2, <4>2, <4>3, <5>1
      <4>4. CASE ~(i <= n)
        BY <3>2, <4>2, <4>4
      <4> QED BY <4>3, <4>4
    <3> QED BY <3>1, <3>2
  <2>5. v = w
    <3>1. v = [i \in 0 .. n + 1 |-> v[i]] /\ w = [i \in 0 .. n + 1 |-> w[i]]
      OBVIOUS
    <3> HIDE DEF v, w
    <3> QED BY <2>4, <3>1
  <2>6. FiniSteps(v, cache, Horizon, n + 1)
    BY <2>5 DEF FiniSteps
  <2> HIDE DEF v
  <2> QED BY <2>1, <2>6
<1>3. S = Nat
  <2>1. S \in SUBSET Nat
    OBVIOUS
  <2> HIDE DEF S
  <2> QED BY <1>1, <1>2, <2>1, NatSetInduction
<1>4. \E u : FiniSteps(u, cache, Horizon, NumSets)
  BY <1>3, GeometryAssumption
<1> DEFINE after == CHOOSE u : FiniSteps(u, cache, Horizon, NumSets)
<1>5. FiniSteps(after, cache, Horizon, NumSets)
  BY <1>4
<1>6. AllProcessed = after[NumSets]
  BY DEF AllProcessed, FiniSteps
<1> HIDE DEF after
<1> QED BY <1>5, <1>6

(* What is left after iterations about a set is left after more of them.   *)
LEMMA ReachedOnwards ==
    ASSUME NEW c, NEW d, NEW e, NEW s \in SetIndex,
           CacheInv(c), Reached(c, d, s), Reached(d, e, s)
    PROVE  Reached(c, e, s)
<1>1. OnlySet(c, e, s)
  BY DEF Reached, OnlySet
<1>2. SameCount(e, c, s)
  <2>1. PICK m \in Int : Total(d, s) = Total(c, s) + m * Uint32
    BY DEF Reached, SameCount
  <2>2. PICK n \in Int : Total(e, s) = Total(d, s) + n * Uint32
    BY DEF Reached, SameCount
  <2>3. Total(c, s) \in Int
    <3>1. Len(c.sets_[s].lookahead_trace_) \in Nat
      BY DEF CacheInv, SetInv, IsTrace
    <3>2. c.miss_hit_ \in (0 .. Uint32 - 1) \X (0 .. Uint32 - 1)
      BY DEF CacheInv, CacheShape
    <3>3. c.miss_hit_[1] \in Int /\ c.miss_hit_[2] \in Int
      BY <3>2
    <3> DEFINE x == c.miss_hit_[1]
               y == c.miss_hit_[2]
               len == Len(c.sets_[s].lookahead_trace_)
    <3>4. Total(c, s) = x + y + len
      BY DEF Total
    <3>5. x \in Int /\ y \in Int /\ len \in Int
      BY <3>1, <3>3
    <3> HIDE DEF x, y, len
    <3> QED BY <3>4, <3>5
  <2>4. /\ (m + n) * Uint32 = m * Uint32 + n * Uint32
        /\ m * Uint32 \in Int /\ n * Uint32 \in Int /\ m + n \in Int
    <3>1. Uint32 \in Int
      BY CounterAssumption
    <3> QED BY <3>1, Distribute
  <2>5. Total(e, s) = Total(c, s) + (m + n) * Uint32
    BY <2>1, <2>2, <2>3, <2>4
  <2> QED BY <2>4, <2>5 DEF SameCount
<1>3. StaysRight(c, e, s)
  BY DEF Reached, StaysRight
<1>4. KeepsLedger(c, e)
  BY DEF Reached, KeepsLedger
<1>5. StaysOptimal(c, e, s)
  <2>1. c.miss_hit_ \in (0 .. Uint32 - 1) \X (0 .. Uint32 - 1)
    BY DEF CacheInv, CacheShape
  <2>2. c.miss_hit_[1] \in Int
    BY <2>1
  <2> QED BY <2>2, OptimalTwice DEF Reached
<1> QED BY <1>1, <1>2, <1>3, <1>4, <1>5 DEF Reached

(* No iteration reaches everything that was there.                         *)
LEMMA ReachedItself ==
    ASSUME NEW c, CacheInv(c), NEW s \in SetIndex
    PROVE  Reached(c, c, s)
<1>1. Len(c.sets_[s].lookahead_trace_) \in Nat
  BY DEF CacheInv, SetInv, IsTrace
<1>2. c.miss_hit_[1] \in Int /\ c.miss_hit_[2] \in Int
  <2>1. c.miss_hit_ \in (0 .. Uint32 - 1) \X (0 .. Uint32 - 1)
    BY DEF CacheInv, CacheShape
  <2> QED BY <2>1
<1>3. 0 * Uint32 = 0
  BY CounterAssumption
<1>4. Total(c, s) = Total(c, s) + 0 * Uint32
  BY <1>1, <1>2, <1>3 DEF Total
<1>5. StaysOptimal(c, c, s)
  BY <1>2, OptimalItself
<1> QED BY <1>4, <1>5 DEF Reached, OnlySet, SameCount, StaysRight, KeepsLedger

(* What is left of len entries after a number of iterations.               *)
Left(len, iterations) == IF len >= iterations THEN len - iterations ELSE 0

(* One pass through the loop of Process.                                   *)
LEMMA SteppedKeeps ==
    ASSUME NEW c, CacheInv(c), NEW s \in SetIndex
    PROVE  /\ Reached(c, Stepped(c, s), s)
           /\ Len((Stepped(c, s)).sets_[s].lookahead_trace_)
                = Left(Len(c.sets_[s].lookahead_trace_), 1)
<1> DEFINE trace == c.sets_[s].lookahead_trace_
<1>1. trace \in Seq(EntryType) /\ Len(trace) \in Nat
  BY DEF CacheInv, SetInv, IsTrace
<1>2. CASE trace = << >>
  <2>1. Len(trace) = 0 /\ Stepped(c, s) = c
    BY <1>2 DEF Stepped
  <2> HIDE DEF trace
  <2>2. Left(Len(trace), 1) = 0
    BY <2>1 DEF Left
  <2> QED BY <2>1, <2>2, ReachedItself DEF trace
<1>3. CASE trace # << >>
  <2>1. Stepped(c, s) = ProcessOne(c, s)
    BY <1>3 DEF Stepped
  <2>2. /\ Reached(c, ProcessOne(c, s), s)
        /\ (ProcessOne(c, s)).sets_[s].lookahead_trace_ = Tail(trace)
    BY <1>3, ProcessOneKeeps
  <2> HIDE DEF trace
  <2>3. Len(Tail(trace)) = Len(trace) - 1 /\ Len(trace) >= 1
    BY <1>1, <1>3
  <2>4. Left(Len(trace), 1) = Len(trace) - 1
    BY <1>1, <2>3 DEF Left
  <2> QED BY <2>1, <2>2, <2>3, <2>4 DEF trace
<1> QED BY <1>2, <1>3

(* Passes through the loop of Process, by induction over their number.     *)
LEMMA StepsKeep ==
    ASSUME NEW c, CacheInv(c), NEW s \in SetIndex, NEW iterations \in Nat,
           NEW u, ProcessSteps(u, c, s, iterations)
    PROVE  /\ Reached(c, u[iterations], s)
           /\ Len(u[iterations].sets_[s].lookahead_trace_)
                = Left(Len(c.sets_[s].lookahead_trace_), iterations)
<1> DEFINE len == Len(c.sets_[s].lookahead_trace_)
           Good(n) == /\ Reached(c, u[n], s)
                      /\ Len(u[n].sets_[s].lookahead_trace_) = Left(len, n)
           S == {n \in Nat : n <= iterations => Good(n)}
<1>1. len \in Nat
  BY DEF CacheInv, SetInv, IsTrace
<1>2. u[0] = c /\ \A n \in 1 .. iterations : u[n] = Stepped(u[n - 1], s)
  <2>1. u[0] = c
    BY DEF ProcessSteps
  <2>2. ASSUME NEW n \in 1 .. iterations PROVE u[n] = Stepped(u[n - 1], s)
    <3>1. n \in 0 .. iterations /\ n # 0
      OBVIOUS
    <3> QED BY <3>1 DEF ProcessSteps
  <2> QED BY <2>1, <2>2
<1>3. 0 \in S
  <2>1. Left(len, 0) = len
    BY <1>1 DEF Left
  <2>2. Good(0)
    BY <1>2, <2>1, ReachedItself
  <2> QED BY <2>2
<1>4. ASSUME NEW n \in S PROVE n + 1 \in S
  <2>1. n \in Nat /\ n + 1 \in Nat /\ (n <= iterations => Good(n))
    OBVIOUS
  <2>2. SUFFICES ASSUME n + 1 <= iterations PROVE Good(n + 1)
    BY <2>1
  <2>3. n <= iterations /\ n + 1 \in 1 .. iterations /\ (n + 1) - 1 = n
    BY <2>1, <2>2
  <2>4. Good(n)
    BY <2>1, <2>3
  <2>5. u[n + 1] = Stepped(u[n], s)
    BY <1>2, <2>3
  <2>6. CacheInv(u[n])
    BY <2>4 DEF Reached
  <2>7. /\ Reached(u[n], u[n + 1], s)
        /\ Len(u[n + 1].sets_[s].lookahead_trace_) = Left(Left(len, n), 1)
    BY <2>4, <2>5, <2>6, SteppedKeeps
  <2>8. Reached(c, u[n + 1], s)
    BY <2>4, <2>7, ReachedOnwards
  <2>9. Left(Left(len, n), 1) = Left(len, n + 1)
    BY <1>1, <2>1 DEF Left
  <2> QED BY <2>7, <2>8, <2>9
<1>5. S = Nat
  <2>1. S \in SUBSET Nat
    OBVIOUS
  <2> HIDE DEF S
  <2> QED BY <1>3, <1>4, <2>1, NatSetInduction
<1> HIDE DEF Good
<1>6. Good(iterations)
  BY <1>5
<1> QED BY <1>6 DEF Good

(* Process keeps the invariant of the cache, whatever the number of        *)
(* iterations, counts or keeps every reference of the trace, removes as    *)
(* many entries as it was asked to and can, and touches no other set.      *)
LEMMA ProcessKeeps ==
    ASSUME NEW c, CacheInv(c), NEW s \in SetIndex, NEW iterations \in Nat
    PROVE  LET d == Process(c, s, iterations)
           IN  /\ CacheInv(d)
               /\ SameCount(d, c, s)
               /\ d.ref_id_ = c.ref_id_
               /\ d.lookahead_distance_ = c.lookahead_distance_
               /\ d.process_window_ = c.process_window_
               /\ d.sets_[s].lookahead_ref_count_ = c.lookahead_distance_
               /\ d.sets_[s].ref_id_ = c.sets_[s].ref_id_
               /\ StaysRight(c, d, s)
               /\ StaysOptimal(c, d, s)
               /\ KeepsLedger(c, d)
               /\ Len(d.sets_[s].lookahead_trace_)
                    = Left(Len(c.sets_[s].lookahead_trace_), iterations)
               /\ \A q \in SetIndex \ {s} : d.sets_[q] = c.sets_[q]
<1> DEFINE d == Process(c, s, iterations)
           len == Len(c.sets_[s].lookahead_trace_)
<1>1. PICK u : /\ ProcessSteps(u, c, s, iterations)
               /\ d = [u[iterations] EXCEPT
                         !.sets_[s].lookahead_ref_count_ = c.lookahead_distance_]
  BY ProcessDefined
<1> HIDE DEF d
<1> DEFINE e == u[iterations]
<1>2. Reached(c, e, s) /\ Len(e.sets_[s].lookahead_trace_) = Left(len, iterations)
  BY <1>1, StepsKeep
<1> HIDE DEF e
<1>3. /\ CacheInv(e) /\ OnlySet(c, e, s) /\ SameCount(e, c, s) /\ StaysRight(c, e, s)
      /\ StaysOptimal(c, e, s) /\ KeepsLedger(c, e)
      /\ c.lookahead_distance_ \in Nat
  BY <1>2 DEF Reached, CacheInv, CacheShape
<1> DEFINE set == e.sets_[s]
           new == [set EXCEPT !.lookahead_ref_count_ = c.lookahead_distance_]
           sets == [e.sets_ EXCEPT ![s] = new]
<1>4. d = [e EXCEPT !.sets_[s].lookahead_ref_count_ = c.lookahead_distance_]
  BY <1>1 DEF e
<1>5. SetInv(set)
  BY <1>3 DEF CacheInv
<1>6. /\ new.known_tags_ = set.known_tags_ /\ new.unknown_tags_ = set.unknown_tags_
      /\ new.unknown_tags_pool_ = set.unknown_tags_pool_
      /\ new.lookahead_trace_ = set.lookahead_trace_
      /\ new.ref_id_ = set.ref_id_ /\ new.lookahead_ref_count_ = c.lookahead_distance_
      /\ IsSet(new)
  <2>1. IsSet(set)
    BY <1>5 DEF SetInv
  <2> HIDE DEF set
  <2> QED BY <1>3, <2>1 DEF IsSet
<1>7. SetInv(new)
  BY <1>5, <1>6 DEF SetInv, Fits, Size
<1>8. d = [e EXCEPT !.sets_ = sets]
  BY <1>4
<1>9. /\ e \in CacheShape(e) /\ DOMAIN e.sets_ = SetIndex
      /\ Covered(e.of_inst_) /\ Covered(e.of_addr_) /\ Covered(e.of_time_)
      /\ e.ref_id_ <= MaxRefs
      /\ \A q \in SetIndex : SetInv(e.sets_[q]) /\ e.sets_[q].ref_id_ <= e.ref_id_
  BY <1>3 DEF CacheInv, CacheShape
<1> HIDE DEF new
<1>10. /\ DOMAIN sets = SetIndex /\ sets[s] = new
       /\ \A q \in SetIndex \ {s} : sets[q] = e.sets_[q]
       /\ sets \in [SetIndex -> {sets[q] : q \in SetIndex}]
  BY <1>9
<1> HIDE DEF sets, set
<1>11. /\ d.sets_ = sets /\ d.ref_id_ = e.ref_id_ /\ d.miss_hit_ = e.miss_hit_
       /\ d.lookahead_distance_ = e.lookahead_distance_
       /\ d.process_window_ = e.process_window_
       /\ d.of_inst_ = e.of_inst_ /\ d.of_addr_ = e.of_addr_ /\ d.of_time_ = e.of_time_
  BY <1>8, <1>9 DEF CacheShape
<1>12. d \in CacheShape(d)
  <2> DEFINE W == [SetIndex -> {d.sets_[q] : q \in SetIndex}]
             V == [SetIndex -> {e.sets_[q] : q \in SetIndex}]
  <2>1. sets \in W
    BY <1>10, <1>11
  <2>2. e \in [lookahead_distance_ : Nat, process_window_ : Nat, sets_ : V, ref_id_ : Nat,
               miss_hit_ : (0 .. Uint32 - 1) \X (0 .. Uint32 - 1),
               of_inst_ : ProfileType, of_addr_ : ProfileType, of_time_ : ProfileType]
    BY <1>9 DEF CacheShape
  <2> HIDE DEF V, W
  <2>3. d \in [lookahead_distance_ : Nat, process_window_ : Nat, sets_ : W, ref_id_ : Nat,
               miss_hit_ : (0 .. Uint32 - 1) \X (0 .. Uint32 - 1),
               of_inst_ : ProfileType, of_addr_ : ProfileType, of_time_ : ProfileType]
    BY <1>8, <2>1, <2>2
  <2> QED BY <2>3 DEF CacheShape, W
<1>13. \A q \in SetIndex : SetInv(d.sets_[q]) /\ d.sets_[q].ref_id_ <= d.ref_id_
  BY <1>6, <1>7, <1>9, <1>10, <1>11 DEF set
<1>14. CacheInv(d)
  BY <1>9, <1>11, <1>12, <1>13 DEF CacheInv
<1>15. SameCount(d, c, s)
  BY <1>3, <1>6, <1>10, <1>11 DEF SameCount, Total, set
<1> HIDE DEF len
<1>16. /\ d.sets_[s].lookahead_ref_count_ = c.lookahead_distance_
       /\ d.sets_[s].ref_id_ = c.sets_[s].ref_id_
       /\ Len(d.sets_[s].lookahead_trace_) = Left(len, iterations)
       /\ \A q \in SetIndex \ {s} : d.sets_[q] = c.sets_[q]
  BY <1>2, <1>3, <1>6, <1>10, <1>11 DEF OnlySet, set
<1>17. /\ d.ref_id_ = c.ref_id_ /\ d.lookahead_distance_ = c.lookahead_distance_
       /\ d.process_window_ = c.process_window_
  BY <1>3, <1>11 DEF OnlySet
<1>18. StaysRight(c, d, s)
  BY <1>3, <1>6, <1>10, <1>11 DEF StaysRight, UsedSet, set
<1>19. KeepsLedger(e, d)
  BY <1>6, <1>10, <1>11, SameLedger DEF set
<1>20. KeepsLedger(c, d)
  BY <1>3, <1>19 DEF KeepsLedger
<1>21. StaysOptimal(c, d, s)
  <2>1. d.sets_[s] = new /\ e.sets_[s] = set
    BY <1>10, <1>11 DEF set
  <2>2. \A use, final, m : OptSet(set, use, final, m) => OptSet(new, use, final, m)
    BY <1>6 DEF OptSet, BestSet, Best
  <2>3. \A n : MissesMore(c, e, n) => MissesMore(c, d, n)
    BY <1>11 DEF MissesMore
  <2> QED BY <1>3, <2>1, <2>2, <2>3 DEF StaysOptimal
<1> QED BY <1>14, <1>15, <1>16, <1>17, <1>18, <1>20, <1>21 DEF d, len

(* The set of a reference that has been looked at, and the cache before    *)
(* any Process.                                                            *)
LookedAt(c, inst, addr, access_type, is_fetch) ==
    LET tag   == TagOf(addr)
        insts == MapKey(c.of_inst_, inst)
        addrs == IF is_fetch THEN c.of_addr_ ELSE MapKey(c.of_addr_, addr)
        times == MapKey(c.of_time_, Epoch(c.ref_id_))
    IN  Lookahead(c.sets_[SetIndexOf(tag)], tag, RowOf(insts, inst),
                  IF is_fetch THEN 1 ELSE RowOf(addrs, addr),
                  access_type, RowOf(times, Epoch(c.ref_id_)))

Entered(c, inst, addr, access_type, is_fetch) ==
    [c EXCEPT
       !.sets_[SetIndexOf(TagOf(addr))] = LookedAt(c, inst, addr, access_type, is_fetch),
       !.ref_id_ = @ + 1,
       !.of_inst_ = MapKey(@, inst),
       !.of_addr_ = IF is_fetch THEN @ ELSE MapKey(@, addr),
       !.of_time_ = MapKey(@, Epoch(c.ref_id_))]

(* The row of a mapped key is an index.                                    *)
LEMMA MappedRow ==
    ASSUME NEW p \in ProfileType, Covered(p), NEW key \in Nat
    PROVE  LET mapped == MapKey(p, key)
           IN  mapped \in ProfileType /\ Covered(mapped) /\ RowOf(mapped, key) \in Nat \ {0}
<1> DEFINE mapped == MapKey(p, key)
<1>1. mapped \in ProfileType /\ Covered(mapped) /\ IsMapped(mapped, key)
  BY MapKeyOK
<1> HIDE DEF mapped
<1>2. mapped.map \in Seq(Nat)
  BY <1>1 DEF ProfileType
<1>3. \E i \in DOMAIN mapped.map : mapped.map[i] = key
  BY <1>1 DEF IsMapped
<1>4. RowOf(mapped, key) \in DOMAIN mapped.map
  BY <1>3 DEF RowOf
<1>5. RowOf(mapped, key) \in Nat \ {0}
  BY <1>2, <1>4
<1> QED BY <1>1, <1>5 DEF mapped

(* A reference that is looked at keeps the invariant.                      *)
LEMMA EnteredKeeps ==
    ASSUME NEW c, CacheInv(c), c.ref_id_ < MaxRefs, NEW inst \in Insts,
           NEW addr \in Addrs \cup Insts, NEW access_type \in kAccessTypes,
           NEW is_fetch \in BOOLEAN
    PROVE  LET d == Entered(c, inst, addr, access_type, is_fetch)
               s == SetIndexOf(TagOf(addr))
           IN  /\ s \in SetIndex
               /\ CacheInv(d)
               /\ d.ref_id_ = c.ref_id_ + 1
               /\ d.miss_hit_ = c.miss_hit_
               /\ d.lookahead_distance_ = c.lookahead_distance_
               /\ d.process_window_ = c.process_window_
               /\ d.of_inst_ = MapKey(c.of_inst_, inst)
               /\ d.of_addr_ = (IF is_fetch THEN c.of_addr_ ELSE MapKey(c.of_addr_, addr))
               /\ d.of_time_ = MapKey(c.of_time_, Epoch(c.ref_id_))
               /\ d.sets_[s] = LookedAt(c, inst, addr, access_type, is_fetch)
               /\ d.sets_[s].lookahead_ref_count_ = c.sets_[s].lookahead_ref_count_ + 1
               /\ Len(d.sets_[s].lookahead_trace_) = Len(c.sets_[s].lookahead_trace_) + 1
               /\ \A q \in SetIndex \ {s} : d.sets_[q] = c.sets_[q]
<1> DEFINE d == Entered(c, inst, addr, access_type, is_fetch)
           tag == TagOf(addr)
           s == SetIndexOf(tag)
           epoch == Epoch(c.ref_id_)
           insts == MapKey(c.of_inst_, inst)
           addrs == IF is_fetch THEN c.of_addr_ ELSE MapKey(c.of_addr_, addr)
           times == MapKey(c.of_time_, epoch)
           addr_row == IF is_fetch THEN 1 ELSE RowOf(addrs, addr)
           set == c.sets_[s]
           new == Lookahead(set, tag, RowOf(insts, inst), addr_row, access_type,
                            RowOf(times, epoch))
           sets == [c.sets_ EXCEPT ![s] = new]
<1>1. inst \in Nat /\ addr \in Nat /\ tag \in Tags
  BY OptAssumption DEF Tags
<1>2. s \in SetIndex
  BY <1>1, SplitAddrInRange
<1>3. /\ c \in CacheShape(c) /\ DOMAIN c.sets_ = SetIndex
      /\ c.ref_id_ \in Nat /\ c.ref_id_ <= MaxRefs
      /\ c.of_inst_ \in ProfileType /\ c.of_addr_ \in ProfileType /\ c.of_time_ \in ProfileType
      /\ Covered(c.of_inst_) /\ Covered(c.of_addr_) /\ Covered(c.of_time_)
      /\ \A q \in SetIndex : SetInv(c.sets_[q]) /\ c.sets_[q].ref_id_ <= c.ref_id_
  BY DEF CacheInv, CacheShape
<1>4. epoch \in Nat
  BY <1>3, CounterAssumption DEF Epoch
<1> HIDE DEF epoch, tag, s
<1>5. insts \in ProfileType /\ Covered(insts) /\ RowOf(insts, inst) \in Nat \ {0}
  BY <1>1, <1>3, MappedRow
<1>6. times \in ProfileType /\ Covered(times) /\ RowOf(times, epoch) \in Nat \ {0}
  BY <1>3, <1>4, MappedRow
<1>7. addrs \in ProfileType /\ Covered(addrs) /\ addr_row \in Nat \ {0}
  <2>1. CASE is_fetch
    BY <1>3, <2>1
  <2>2. CASE ~is_fetch
    <3>1. addrs = MapKey(c.of_addr_, addr) /\ addr_row = RowOf(addrs, addr)
      BY <2>2
    <3> QED BY <1>1, <1>3, <3>1, MappedRow
  <2> QED BY <2>1, <2>2
<1>8. SetInv(set) /\ set.ref_id_ < MaxRefs /\ set.ref_id_ <= c.ref_id_ /\ set.ref_id_ \in Nat
  <2>1. SetInv(set) /\ set.ref_id_ <= c.ref_id_
    BY <1>2, <1>3
  <2>2. set.ref_id_ \in Nat
    BY <2>1 DEF SetInv, IsTrace
  <2> QED BY <1>3, <2>1, <2>2, OptAssumption
<1>9. /\ new = LookedAt(c, inst, addr, access_type, is_fetch)
      /\ d = [c EXCEPT !.sets_[s] = new, !.ref_id_ = @ + 1,
                       !.of_inst_ = insts, !.of_addr_ = addrs, !.of_time_ = times]
  <2>1. new = LookedAt(c, inst, addr, access_type, is_fetch)
    BY DEF LookedAt, tag, s, epoch
  <2>2. d = [c EXCEPT !.sets_[s] = new, !.ref_id_ = @ + 1,
                      !.of_inst_ = insts, !.of_addr_ = addrs, !.of_time_ = times]
    BY <2>1 DEF Entered, tag, s, epoch
  <2> QED BY <2>1, <2>2
<1> HIDE DEF insts, addrs, times, addr_row, set, d
<1>10. /\ SetInv(new) /\ new.ref_id_ = set.ref_id_ + 1
       /\ new.lookahead_ref_count_ = set.lookahead_ref_count_ + 1
       /\ Len(new.lookahead_trace_) = Len(set.lookahead_trace_) + 1
  BY <1>1, <1>5, <1>6, <1>7, <1>8, LookaheadKeeps
<1> HIDE DEF new
<1>11. d \in [lookahead_distance_ : {c.lookahead_distance_},
              process_window_     : {c.process_window_},
              sets_     : {sets}, ref_id_ : {c.ref_id_ + 1}, miss_hit_ : {c.miss_hit_},
              of_inst_  : {insts}, of_addr_  : {addrs}, of_time_  : {times}]
  <2>1. c \in [lookahead_distance_ : {c.lookahead_distance_},
               process_window_ : {c.process_window_},
               sets_ : {c.sets_}, ref_id_ : {c.ref_id_}, miss_hit_ : {c.miss_hit_},
               of_inst_ : {c.of_inst_}, of_addr_ : {c.of_addr_}, of_time_ : {c.of_time_}]
    BY <1>3 DEF CacheShape
  <2> QED BY <1>9, <2>1
<1>12. /\ DOMAIN sets = SetIndex /\ sets[s] = new
       /\ \A q \in SetIndex \ {s} : sets[q] = c.sets_[q]
       /\ sets \in [SetIndex -> {sets[q] : q \in SetIndex}]
  BY <1>2, <1>3
<1> HIDE DEF sets
<1>13. /\ d.lookahead_distance_ = c.lookahead_distance_
       /\ d.process_window_ = c.process_window_
       /\ d.sets_ = sets /\ d.ref_id_ = c.ref_id_ + 1 /\ d.miss_hit_ = c.miss_hit_
       /\ d.of_inst_ = insts /\ d.of_addr_ = addrs /\ d.of_time_ = times
  BY <1>11
<1>14. d \in CacheShape(d)
  <2> DEFINE W == [SetIndex -> {d.sets_[q] : q \in SetIndex}]
  <2>1. sets \in W
    BY <1>12, <1>13
  <2>2. /\ c.lookahead_distance_ \in Nat /\ c.process_window_ \in Nat
        /\ c.miss_hit_ \in (0 .. Uint32 - 1) \X (0 .. Uint32 - 1) /\ c.ref_id_ + 1 \in Nat
    BY <1>3 DEF CacheShape
  <2> HIDE DEF W
  <2>3. d \in [lookahead_distance_ : Nat, process_window_ : Nat, sets_ : W, ref_id_ : Nat,
               miss_hit_ : (0 .. Uint32 - 1) \X (0 .. Uint32 - 1),
               of_inst_ : ProfileType, of_addr_ : ProfileType, of_time_ : ProfileType]
    BY <1>5, <1>6, <1>7, <1>11, <2>1, <2>2
  <2> QED BY <2>3 DEF CacheShape, W
<1>15. \A q \in SetIndex : SetInv(d.sets_[q]) /\ d.sets_[q].ref_id_ <= d.ref_id_
  <2>1. ASSUME NEW q \in SetIndex PROVE SetInv(d.sets_[q]) /\ d.sets_[q].ref_id_ <= d.ref_id_
    <3>1. CASE q = s
      BY <1>3, <1>8, <1>10, <1>12, <1>13, <3>1
    <3>2. CASE q # s
      <4>1. d.sets_[q] = c.sets_[q] /\ SetInv(c.sets_[q]) /\ c.sets_[q].ref_id_ <= c.ref_id_
        BY <1>3, <1>12, <1>13, <3>2
      <4>2. c.sets_[q].ref_id_ \in Nat
        BY <4>1 DEF SetInv, IsTrace
      <4> QED BY <1>3, <1>13, <4>1, <4>2
    <3> QED BY <3>1, <3>2
  <2> QED BY <2>1
<1>16. d.ref_id_ <= MaxRefs
  BY <1>3, <1>13, OptAssumption
<1>17. CacheInv(d)
  BY <1>5, <1>6, <1>7, <1>13, <1>14, <1>15, <1>16 DEF CacheInv
<1>18. /\ d.of_inst_ = MapKey(c.of_inst_, inst)
       /\ d.of_addr_ = (IF is_fetch THEN c.of_addr_ ELSE MapKey(c.of_addr_, addr))
       /\ d.of_time_ = MapKey(c.of_time_, Epoch(c.ref_id_))
  BY <1>13 DEF insts, addrs, times, epoch
<1> QED BY <1>2, <1>9, <1>10, <1>12, <1>13, <1>17, <1>18 DEF d, s, set, tag

(* What a reference does to the cache.                                     *)
LEMMA EnterKeeps ==
    ASSUME CacheInv(cache), cache.ref_id_ < MaxRefs, NEW inst \in Insts,
           NEW addr \in Addrs \cup Insts, NEW access_type \in kAccessTypes,
           NEW is_fetch \in BOOLEAN, Enter(inst, addr, access_type, is_fetch)
    PROVE  CacheInv(cache')
<1> DEFINE entered == Entered(cache, inst, addr, access_type, is_fetch)
           s == SetIndexOf(TagOf(addr))
<1>1. /\ s \in SetIndex /\ CacheInv(entered)
      /\ entered.process_window_ = cache.process_window_
  BY EnteredKeeps
<1>2. cache' = entered \/ cache' = Process(entered, s, cache.process_window_)
  BY DEF Enter, Entered, LookedAt
<1>3. cache.process_window_ \in Nat
  BY DEF CacheInv, CacheShape
<1> HIDE DEF entered, s
<1> QED BY <1>1, <1>2, <1>3, ProcessKeeps

(* What the set of a reference says of when its lines were last used is    *)
(* right when the reference is taken into account.                         *)
LEMMA EnterUsed ==
    ASSUME CacheInv(cache), cache.ref_id_ < MaxRefs, NEW inst \in Insts,
           NEW addr \in Addrs \cup Insts, NEW access_type \in kAccessTypes,
           NEW is_fetch \in BOOLEAN, Enter(inst, addr, access_type, is_fetch)
    PROVE  LET s == SetIndexOf(TagOf(addr))
           IN  /\ s \in SetIndex
               /\ \A use : UsedSet(cache.sets_[s], use) =>
                     UsedSet(cache'.sets_[s], Put(use, TagOf(addr), cache'.sets_[s].ref_id_))
               /\ \A q \in SetIndex \ {s} : cache'.sets_[q] = cache.sets_[q]
<1> DEFINE d == Entered(cache, inst, addr, access_type, is_fetch)
           tag == TagOf(addr)
           s == SetIndexOf(tag)
           e == Process(d, s, cache.process_window_)
           epoch == Epoch(cache.ref_id_)
           insts == MapKey(cache.of_inst_, inst)
           addrs == IF is_fetch THEN cache.of_addr_ ELSE MapKey(cache.of_addr_, addr)
           times == MapKey(cache.of_time_, epoch)
           addr_row == IF is_fetch THEN 1 ELSE RowOf(addrs, addr)
           set == cache.sets_[s]
           new == Lookahead(set, tag, RowOf(insts, inst), addr_row, access_type,
                            RowOf(times, epoch))
<1>1. /\ s \in SetIndex /\ CacheInv(d)
      /\ d.process_window_ = cache.process_window_
      /\ d.sets_[s] = LookedAt(cache, inst, addr, access_type, is_fetch)
      /\ \A q \in SetIndex \ {s} : d.sets_[q] = cache.sets_[q]
  BY EnteredKeeps
<1>2. cache' = d \/ cache' = e
  BY DEF Enter, Entered, LookedAt
<1>3. d.sets_[s] = new
  BY <1>1 DEF LookedAt
<1>4. inst \in Nat /\ addr \in Nat /\ tag \in Tags
  BY OptAssumption DEF Tags
<1>5. /\ cache.ref_id_ \in Nat /\ cache.process_window_ \in Nat
      /\ cache.of_inst_ \in ProfileType /\ cache.of_addr_ \in ProfileType
      /\ cache.of_time_ \in ProfileType
      /\ Covered(cache.of_inst_) /\ Covered(cache.of_addr_) /\ Covered(cache.of_time_)
      /\ SetInv(set) /\ set.ref_id_ <= cache.ref_id_
  BY <1>1 DEF CacheInv, CacheShape
<1>6. epoch \in Nat
  BY <1>5, CounterAssumption DEF Epoch
<1>7. set.ref_id_ < MaxRefs
  <2>1. set.ref_id_ \in Nat
    BY <1>5 DEF SetInv, IsTrace
  <2> QED BY <1>5, <2>1, OptAssumption
<1> HIDE DEF epoch, tag, s, set, d, e
<1>8. RowOf(insts, inst) \in Nat \ {0} /\ RowOf(times, epoch) \in Nat \ {0}
  BY <1>4, <1>5, <1>6, MappedRow
<1>9. addr_row \in Nat \ {0}
  <2>1. CASE is_fetch
    BY <2>1
  <2>2. CASE ~is_fetch
    <3>1. addr_row = RowOf(MapKey(cache.of_addr_, addr), addr)
      BY <2>2
    <3> QED BY <1>4, <1>5, <3>1, MappedRow
  <2> QED BY <2>1, <2>2
<1> HIDE DEF insts, times, addr_row
<1>10. /\ \A use : UsedSet(set, use) => UsedSet(new, Put(use, tag, set.ref_id_ + 1))
       /\ new.ref_id_ = set.ref_id_ + 1
  BY <1>4, <1>5, <1>7, <1>8, <1>9, LookaheadKeeps, LookaheadUsed
<1> HIDE DEF new
<1>11. /\ StaysRight(d, e, s) /\ e.sets_[s].ref_id_ = d.sets_[s].ref_id_
       /\ \A q \in SetIndex \ {s} : e.sets_[q] = d.sets_[q]
  BY <1>1, <1>5, ProcessKeeps DEF e
<1>12. CASE cache' = d
  BY <1>1, <1>3, <1>10, <1>12 DEF set, s, tag
<1>13. CASE cache' = e
  <2>1. ASSUME NEW use, UsedSet(set, use)
        PROVE  UsedSet(e.sets_[s], Put(use, tag, e.sets_[s].ref_id_))
    <3>1. UsedSet(d.sets_[s], Put(use, tag, set.ref_id_ + 1))
      BY <1>3, <1>10, <2>1
    <3>2. UsedSet(e.sets_[s], Put(use, tag, set.ref_id_ + 1))
      BY <1>11, <3>1 DEF StaysRight
    <3> QED BY <1>3, <1>10, <1>11, <3>2
  <2> QED BY <1>1, <1>11, <1>13, <2>1 DEF set, s, tag
<1> QED BY <1>2, <1>12, <1>13

(* The set of a reference takes no more misses than any choice, when the   *)
(* cost of the choices takes the reference into account.                   *)
LEMMA EnterSetOptimal ==
    ASSUME CacheInv(cache), cache.ref_id_ < MaxRefs, NEW inst \in Insts,
           NEW addr \in Addrs \cup Insts, NEW access_type \in kAccessTypes,
           NEW is_fetch \in BOOLEAN, Enter(inst, addr, access_type, is_fetch)
    PROVE  LET s == SetIndexOf(TagOf(addr))
           IN  \A use, final, m : OptSet(cache.sets_[s], use, final, m) =>
                  \E n \in Nat :
                     /\ OptSet(cache'.sets_[s], Put(use, TagOf(addr), cache'.sets_[s].ref_id_),
                               CostAfter(final, TagOf(addr)), m + n)
                     /\ MissesMore(cache, cache', n)
<1> DEFINE d == Entered(cache, inst, addr, access_type, is_fetch)
           tag == TagOf(addr)
           s == SetIndexOf(tag)
           e == Process(d, s, cache.process_window_)
           epoch == Epoch(cache.ref_id_)
           insts == MapKey(cache.of_inst_, inst)
           addrs == IF is_fetch THEN cache.of_addr_ ELSE MapKey(cache.of_addr_, addr)
           times == MapKey(cache.of_time_, epoch)
           addr_row == IF is_fetch THEN 1 ELSE RowOf(addrs, addr)
           set == cache.sets_[s]
           new == Lookahead(set, tag, RowOf(insts, inst), addr_row, access_type,
                            RowOf(times, epoch))
<1>1. /\ s \in SetIndex /\ CacheInv(d)
      /\ d.process_window_ = cache.process_window_
      /\ d.sets_[s] = LookedAt(cache, inst, addr, access_type, is_fetch)
  BY EnteredKeeps
<1>2. cache' = d \/ cache' = e
  BY DEF Enter, Entered, LookedAt
<1>3. d.sets_[s] = new /\ d.miss_hit_ = cache.miss_hit_
  BY <1>1 DEF LookedAt, Entered, CacheInv, CacheShape
<1>4. inst \in Nat /\ addr \in Nat /\ tag \in Tags
  BY OptAssumption DEF Tags
<1>5. /\ cache.ref_id_ \in Nat /\ cache.process_window_ \in Nat
      /\ cache.of_inst_ \in ProfileType /\ cache.of_addr_ \in ProfileType
      /\ cache.of_time_ \in ProfileType
      /\ Covered(cache.of_inst_) /\ Covered(cache.of_addr_) /\ Covered(cache.of_time_)
      /\ SetInv(set) /\ set.ref_id_ <= cache.ref_id_
      /\ cache.miss_hit_ \in (0 .. Uint32 - 1) \X (0 .. Uint32 - 1)
  BY <1>1 DEF CacheInv, CacheShape
<1>6. epoch \in Nat /\ cache.miss_hit_[1] \in Int
  BY <1>5, CounterAssumption DEF Epoch
<1>7. set.ref_id_ < MaxRefs
  <2>1. set.ref_id_ \in Nat
    BY <1>5 DEF SetInv, IsTrace
  <2> QED BY <1>5, <2>1, OptAssumption
<1> HIDE DEF epoch, tag, s, set, d, e
<1>8. RowOf(insts, inst) \in Nat \ {0} /\ RowOf(times, epoch) \in Nat \ {0}
  BY <1>4, <1>5, <1>6, MappedRow
<1>9. addr_row \in Nat \ {0}
  <2>1. CASE is_fetch
    BY <2>1
  <2>2. CASE ~is_fetch
    <3>1. addr_row = RowOf(MapKey(cache.of_addr_, addr), addr)
      BY <2>2
    <3> QED BY <1>4, <1>5, <3>1, MappedRow
  <2> QED BY <2>1, <2>2
<1> HIDE DEF insts, times, addr_row
<1>10. /\ \A use, final, m : OptSet(set, use, final, m) =>
             OptSet(new, Put(use, tag, set.ref_id_ + 1), CostAfter(final, tag), m)
       /\ new.ref_id_ = set.ref_id_ + 1
  BY <1>4, <1>5, <1>7, <1>8, <1>9, LookaheadKeeps, LookaheadOpt
<1> HIDE DEF new
<1>11. StaysOptimal(d, e, s) /\ e.sets_[s].ref_id_ = d.sets_[s].ref_id_
  BY <1>1, <1>5, ProcessKeeps DEF e
<1>12. StaysOptimal(d, cache', s) /\ cache'.sets_[s].ref_id_ = d.sets_[s].ref_id_
  <2>1. StaysOptimal(d, d, s)
    BY <1>3, <1>6, OptimalItself
  <2> QED BY <1>2, <1>11, <2>1
<1>13. ASSUME NEW use, NEW final, NEW m, OptSet(set, use, final, m)
       PROVE  \E n \in Nat :
                 /\ OptSet(cache'.sets_[s], Put(use, tag, cache'.sets_[s].ref_id_),
                           CostAfter(final, tag), m + n)
                 /\ MissesMore(cache, cache', n)
  <2> DEFINE later == Put(use, tag, set.ref_id_ + 1)
             paid == CostAfter(final, tag)
  <2>1. OptSet(d.sets_[s], later, paid, m)
    BY <1>3, <1>10, <1>13
  <2>2. cache'.sets_[s].ref_id_ = set.ref_id_ + 1
    BY <1>3, <1>10, <1>12
  <2>3. later = Put(use, tag, cache'.sets_[s].ref_id_)
    BY <2>2
  <2> HIDE DEF later, paid
  <2>4. PICK n \in Nat : OptSet(cache'.sets_[s], later, paid, m + n) /\ MissesMore(d, cache', n)
    BY <1>12, <2>1 DEF StaysOptimal
  <2>5. MissesMore(cache, cache', n)
    BY <1>3, <2>4 DEF MissesMore
  <2> QED BY <2>3, <2>4, <2>5 DEF paid
<1> QED BY <1>13 DEF set, s, tag

(* The misses of the sets make up x, in UINT32s.                           *)
MakeUp(x, M) ==
    \E u : /\ SumSteps(u, M, SetIndex)
           /\ \E k \in Int : x = u[SetIndex] + k * Uint32

(* The cache is as good as any choices for its sets, whose lines were last *)
(* later at use and whose costs are final when their traces are processed.  *)
Optimal(c, use, final) ==
    \E M \in [SetIndex -> Nat] :
        /\ \A s \in SetIndex : OptSet(c.sets_[s], use[s], final[s], M[s])
        /\ MakeUp(c.miss_hit_[1], M)

(* n misses more of one set are n misses more.                             *)
LEMMA MakeUpMore ==
    ASSUME NEW M \in [SetIndex -> Nat], NEW N \in [SetIndex -> Nat],
           NEW s \in SetIndex, NEW n \in Nat, N[s] = M[s] + n,
           \A q \in SetIndex \ {s} : N[q] = M[q],
           NEW c, NEW d, MissesMore(c, d, n), MakeUp(c.miss_hit_[1], M)
    PROVE  MakeUp(d.miss_hit_[1], N)
<1>1. PICK u : /\ SumSteps(u, M, SetIndex)
               /\ \E k \in Int : c.miss_hit_[1] = u[SetIndex] + k * Uint32
  BY DEF MakeUp
<1>2. PICK i \in Int : c.miss_hit_[1] = u[SetIndex] + i * Uint32
  BY <1>1
<1>3. PICK j \in Int : d.miss_hit_[1] = c.miss_hit_[1] + n + j * Uint32
  BY DEF MissesMore
<1>4. PICK v : SumSteps(v, N, SetIndex)
  BY SetIndexFinite, SumDefined
<1>5. M \in [SetIndex -> Int] /\ N \in [SetIndex -> Int]
  OBVIOUS
<1>6. u[SetIndex] \in Int /\ v[SetIndex] \in Int /\ v[SetIndex] = u[SetIndex] + (N[s] - M[s])
  BY <1>1, <1>4, <1>5, SetIndexFinite, SumChanges
<1>7. N[s] - M[s] = n
  BY <1>5
<1>8. /\ (i + j) * Uint32 = i * Uint32 + j * Uint32
      /\ i * Uint32 \in Int /\ j * Uint32 \in Int /\ i + j \in Int
  <2>1. Uint32 \in Int
    BY CounterAssumption
  <2> QED BY <2>1, Distribute
<1>9. d.miss_hit_[1] = v[SetIndex] + (i + j) * Uint32
  <2> DEFINE x == u[SetIndex]
             y == v[SetIndex]
             a == i * Uint32
             b == j * Uint32
             ab == (i + j) * Uint32
  <2>1. x \in Int /\ y = x + n /\ a \in Int /\ b \in Int /\ ab = a + b
    BY <1>6, <1>7, <1>8
  <2>2. c.miss_hit_[1] = x + a /\ d.miss_hit_[1] = c.miss_hit_[1] + n + b
    BY <1>2, <1>3
  <2> HIDE DEF x, y, a, b, ab
  <2>3. d.miss_hit_[1] = y + ab
    BY <2>1, <2>2
  <2> QED BY <2>3 DEF y, ab
<1> QED BY <1>4, <1>8, <1>9 DEF MakeUp

(* From c to d only set s changes, what is known of when its lines were    *)
(* used and at what cost, and it stays optimal.                            *)
OnlyOne(c, d, s, use, final, later, costs) ==
    /\ \A q \in SetIndex \ {s} : /\ d.sets_[q] = c.sets_[q]
                                 /\ later[q] = use[q] /\ costs[q] = final[q]
    /\ \A m : OptSet(c.sets_[s], use[s], final[s], m) =>
          \E n \in Nat : /\ OptSet(d.sets_[s], later[s], costs[s], m + n)
                        /\ MissesMore(c, d, n)

(* A step about one set that keeps it optimal keeps the cache optimal.     *)
LEMMA OptimalOnwards ==
    ASSUME NEW c, NEW d, NEW s \in SetIndex, NEW use, NEW final, NEW later, NEW costs,
           OnlyOne(c, d, s, use, final, later, costs), Optimal(c, use, final)
    PROVE  Optimal(d, later, costs)
<1>1. PICK M \in [SetIndex -> Nat] :
         /\ \A q \in SetIndex : OptSet(c.sets_[q], use[q], final[q], M[q])
         /\ MakeUp(c.miss_hit_[1], M)
  BY DEF Optimal
<1>2. PICK n \in Nat : /\ OptSet(d.sets_[s], later[s], costs[s], M[s] + n)
                       /\ MissesMore(c, d, n)
  BY <1>1 DEF OnlyOne
<1> DEFINE N == [M EXCEPT ![s] = M[s] + n]
<1>3. /\ N \in [SetIndex -> Nat] /\ N[s] = M[s] + n
      /\ \A q \in SetIndex \ {s} : N[q] = M[q]
  OBVIOUS
<1> HIDE DEF N
<1>4. MakeUp(d.miss_hit_[1], N)
  BY <1>1, <1>2, <1>3, MakeUpMore
<1>5. \A q \in SetIndex : OptSet(d.sets_[q], later[q], costs[q], N[q])
  <2> SUFFICES ASSUME NEW q \in SetIndex
               PROVE  OptSet(d.sets_[q], later[q], costs[q], N[q])
    OBVIOUS
  <2>1. CASE q = s
    BY <1>2, <1>3, <2>1
  <2>2. CASE q # s
    <3>1. /\ d.sets_[q] = c.sets_[q] /\ later[q] = use[q] /\ costs[q] = final[q]
          /\ N[q] = M[q]
      BY <1>3, <2>2 DEF OnlyOne
    <3> QED BY <1>1, <3>1
  <2> QED BY <2>1, <2>2
<1> QED BY <1>3, <1>4, <1>5 DEF Optimal

(* Process keeps the cache optimal.                                        *)
LEMMA OptimalProcessed ==
    ASSUME NEW c, NEW d, NEW s \in SetIndex, StaysOptimal(c, d, s),
           \A q \in SetIndex \ {s} : d.sets_[q] = c.sets_[q],
           NEW use, NEW final, Optimal(c, use, final)
    PROVE  Optimal(d, use, final)
<1>1. \A m : OptSet(c.sets_[s], use[s], final[s], m) =>
         \E n \in Nat : /\ OptSet(d.sets_[s], use[s], final[s], m + n)
                       /\ MissesMore(c, d, n)
  BY DEF StaysOptimal
<1>2. OnlyOne(c, d, s, use, final, use, final)
  BY <1>1 DEF OnlyOne
<1> QED BY <1>2, OptimalOnwards

(* The loop of Fini keeps the invariant, by induction over the sets.       *)
LEMMA FiniStepsKeep ==
    ASSUME NEW c, CacheInv(c), NEW iterations \in Nat,
           NEW u, FiniSteps(u, c, iterations, NumSets)
    PROVE  \A n \in 0 .. NumSets :
              /\ CacheInv(u[n])
              /\ u[n].ref_id_ = c.ref_id_
              /\ u[n].lookahead_distance_ = c.lookahead_distance_
              /\ u[n].process_window_ = c.process_window_
              /\ KeepsLedger(c, u[n])
              /\ \A s \in SetIndex : StaysRight(c, u[n], s)
              /\ \A use, final : Optimal(c, use, final) => Optimal(u[n], use, final)
<1> DEFINE Good(n) == /\ CacheInv(u[n])
                      /\ u[n].ref_id_ = c.ref_id_
                      /\ u[n].lookahead_distance_ = c.lookahead_distance_
                      /\ u[n].process_window_ = c.process_window_
                      /\ KeepsLedger(c, u[n])
                      /\ \A s \in SetIndex : StaysRight(c, u[n], s)
                      /\ \A use, final : Optimal(c, use, final) => Optimal(u[n], use, final)
           S == {n \in Nat : n <= NumSets => Good(n)}
<1>1. NumSets \in Nat
  BY GeometryAssumption
<1>2. u[0] = c /\ \A n \in 1 .. NumSets : u[n] = Process(u[n - 1], n - 1, iterations)
  <2>1. u[0] = c
    BY <1>1 DEF FiniSteps
  <2>2. ASSUME NEW n \in 1 .. NumSets PROVE u[n] = Process(u[n - 1], n - 1, iterations)
    <3>1. n \in 0 .. NumSets /\ n # 0
      BY <1>1
    <3> QED BY <3>1 DEF FiniSteps
  <2> QED BY <2>1, <2>2
<1>3. 0 \in S
  <2>1. KeepsLedger(c, c) /\ \A s \in SetIndex : StaysRight(c, c, s)
    BY DEF StaysRight, KeepsLedger
  <2> QED BY <1>2, <2>1
<1>4. ASSUME NEW n \in S PROVE n + 1 \in S
  <2>1. n \in Nat /\ n + 1 \in Nat /\ (n <= NumSets => Good(n))
    OBVIOUS
  <2>2. SUFFICES ASSUME n + 1 <= NumSets PROVE Good(n + 1)
    BY <2>1
  <2>3. n <= NumSets /\ n + 1 \in 1 .. NumSets /\ (n + 1) - 1 = n /\ n \in SetIndex
    BY <1>1, <2>1, <2>2 DEF SetIndex
  <2>4. Good(n)
    BY <2>1, <2>3
  <2>5. u[n + 1] = Process(u[n], n, iterations)
    BY <1>2, <2>3
  <2>6. CacheInv(u[n])
    BY <2>4
  <2>7. /\ CacheInv(u[n + 1]) /\ u[n + 1].ref_id_ = u[n].ref_id_
        /\ u[n + 1].lookahead_distance_ = u[n].lookahead_distance_
        /\ u[n + 1].process_window_ = u[n].process_window_
        /\ StaysRight(u[n], u[n + 1], n) /\ KeepsLedger(u[n], u[n + 1])
        /\ StaysOptimal(u[n], u[n + 1], n)
        /\ \A q \in SetIndex \ {n} : u[n + 1].sets_[q] = u[n].sets_[q]
    BY <2>3, <2>5, <2>6, ProcessKeeps
  <2>8. \A s \in SetIndex : StaysRight(c, u[n + 1], s)
    BY <2>4, <2>7 DEF StaysRight
  <2>9. KeepsLedger(c, u[n + 1])
    BY <2>4, <2>7 DEF KeepsLedger
  <2>10. \A use, final : Optimal(c, use, final) => Optimal(u[n + 1], use, final)
    BY <2>3, <2>4, <2>7, OptimalProcessed
  <2> QED BY <2>4, <2>7, <2>8, <2>9, <2>10
<1>5. S = Nat
  <2>1. S \in SUBSET Nat
    OBVIOUS
  <2> HIDE DEF S
  <2> QED BY <1>3, <1>4, <2>1, NatSetInduction
<1> HIDE DEF Good
<1>6. \A n \in 0 .. NumSets : Good(n)
  <2>1. SUFFICES ASSUME NEW n \in 0 .. NumSets PROVE Good(n)
    OBVIOUS
  <2>2. n \in Nat /\ n <= NumSets
    BY <1>1
  <2>3. n \in S
    BY <1>5, <2>2
  <2> QED BY <2>2, <2>3
<1> QED BY <1>6 DEF Good

(* Fini keeps the invariant.                                               *)
LEMMA FiniKeeps ==
    ASSUME CacheInv(cache)
    PROVE  /\ CacheInv(AllProcessed) /\ KeepsLedger(cache, AllProcessed)
           /\ \A s \in SetIndex : StaysRight(cache, AllProcessed, s)
           /\ \A use, final : Optimal(cache, use, final) => Optimal(AllProcessed, use, final)
<1>1. PICK u : FiniSteps(u, cache, Horizon, NumSets) /\ AllProcessed = u[NumSets]
  BY AllProcessedDefined
<1>2. Horizon \in Nat
  BY DEF CacheInv, CacheShape, Horizon
<1>3. NumSets \in 0 .. NumSets
  BY GeometryAssumption
<1> QED BY <1>1, <1>2, <1>3, FiniStepsKeep

(* A new set satisfies the invariant.                                      *)
LEMMA NewSetOK == SetInv(NewSet)
<1>1. DOMAIN EmptyStack = {} /\ Len(EmptyStack) = 0 /\ EmptyStack = << >>
  BY DEF EmptyStack
<1>2. /\ NewSet.known_tags_ = EmptyStack /\ NewSet.unknown_tags_ = EmptyStack
      /\ NewSet.unknown_tags_pool_ = EmptyStack /\ NewSet.lookahead_trace_ = << >>
      /\ NewSet.lookahead_ref_count_ = 0 /\ NewSet.ref_id_ = 0
  BY DEF NewSet
<1>3. IsSet(NewSet)
  <2>1. << >> \in Seq(EntryType)
    OBVIOUS
  <2>2. NewSet \in [known_tags_ : {EmptyStack}, unknown_tags_ : {EmptyStack},
                    unknown_tags_pool_ : {EmptyStack}, lookahead_trace_ : Seq(EntryType),
                    lookahead_ref_count_ : Nat, ref_id_ : Nat]
    BY <2>1 DEF NewSet
  <2> QED BY <1>1, <1>2, <2>2 DEF IsSet, IsStack
<1>4. IsTrace(<< >>, 0) /\ Linked(<< >>, 0)
  BY OptAssumption DEF IsTrace, Linked
<1>5. KnownOK(EmptyStack, << >>, 0) /\ UnknownOK(EmptyStack, << >>)
  BY <1>1 DEF KnownOK, UnknownOK
<1>6. IsFiniteSet({}) /\ Cardinality({}) = 0
  BY FS_EmptySet
<1>7. Fits(NewSet)
  BY <1>1, <1>2, <1>6, OptAssumption DEF Fits, Size
<1> QED BY <1>1, <1>2, <1>3, <1>4, <1>5, <1>7 DEF SetInv

(* A new cache satisfies the invariant.                                    *)
LEMMA NewCacheOK ==
    ASSUME NEW ld \in Nat, NEW pw \in Nat
    PROVE  CacheInv(NewCache(ld, pw))
<1> DEFINE c == NewCache(ld, pw)
           sets == [s \in SetIndex |-> NewSet]
<1>1. /\ c.sets_ = sets /\ c.ref_id_ = 0
      /\ c.of_inst_ = NewProfile /\ c.of_addr_ = NewProfile /\ c.of_time_ = NewProfile
      /\ c = [lookahead_distance_ |-> ld, process_window_ |-> pw, sets_ |-> sets,
              ref_id_ |-> 0, miss_hit_ |-> <<0, 0>>, of_inst_ |-> NewProfile,
              of_addr_ |-> NewProfile, of_time_ |-> NewProfile]
  BY DEF NewCache, NewMissHit
<1>2. NewProfile \in ProfileType /\ Covered(NewProfile)
  BY NewProfileOK
<1>3. \A s \in SetIndex : sets[s] = NewSet
  OBVIOUS
<1>4. sets \in [SetIndex -> {sets[s] : s \in SetIndex}]
  OBVIOUS
<1>5. <<0, 0>> \in (0 .. Uint32 - 1) \X (0 .. Uint32 - 1)
  <2>1. 0 \in 0 .. Uint32 - 1
    BY CounterAssumption
  <2> QED BY <2>1
<1> HIDE DEF sets, c
<1>6. c \in CacheShape(c)
  <2> DEFINE W == [SetIndex -> {c.sets_[s] : s \in SetIndex}]
  <2>1. sets \in W
    BY <1>1, <1>4
  <2> HIDE DEF W
  <2>2. c \in [lookahead_distance_ : Nat, process_window_ : Nat, sets_ : W, ref_id_ : Nat,
               miss_hit_ : (0 .. Uint32 - 1) \X (0 .. Uint32 - 1),
               of_inst_ : ProfileType, of_addr_ : ProfileType, of_time_ : ProfileType]
    BY <1>1, <1>2, <1>5, <2>1
  <2> QED BY <2>2 DEF CacheShape, W
<1>7. \A s \in SetIndex : SetInv(c.sets_[s]) /\ c.sets_[s].ref_id_ <= c.ref_id_
  <2>1. NewSet.ref_id_ = 0
    BY DEF NewSet
  <2> QED BY <1>1, <1>3, <2>1, NewSetOK
<1>8. c.ref_id_ <= MaxRefs
  BY <1>1, OptAssumption
<1> QED BY <1>1, <1>2, <1>6, <1>7, <1>8 DEF CacheInv, c

-----------------------------------------------------------------------------
(* The theorems.                                                           *)

IInv == CacheInv(cache) /\ finished \in BOOLEAN

(* The invariant holds in every reachable state: in the initial ones, and  *)
(* after every reference and after Fini if it held before.                 *)
THEOREM InvariantHolds == Spec => []IInv
<1>1. Init => IInv
  <2>1. SUFFICES ASSUME Init PROVE IInv
    OBVIOUS
  <2>2. PICK knobs \in Knobs : cache = NewCache(knobs[1], knobs[2])
    BY <2>1 DEF Init
  <2>3. knobs[1] \in Nat /\ knobs[2] \in Nat
    BY OptAssumption
  <2> QED BY <2>1, <2>2, <2>3, NewCacheOK DEF Init, IInv
<1>2. IInv /\ [Next]_vars => IInv'
  <2>1. SUFFICES ASSUME IInv, [Next]_vars PROVE IInv'
    OBVIOUS
  <2>2. CacheInv(cache) /\ finished \in BOOLEAN
    BY <2>1 DEF IInv
  <2>3. CASE Run
    <3>1. finished' \in BOOLEAN /\ cache.ref_id_ < MaxRefs
      BY <2>2, <2>3 DEF Run
    <3>2. PICK inst \in Insts :
            \/ \E addr \in Addrs, access_type \in kAccessTypes : Access(inst, addr, access_type)
            \/ Fetch(inst)
      BY <2>3 DEF Run
    <3>3. CASE \E addr \in Addrs, access_type \in kAccessTypes : Access(inst, addr, access_type)
      <4>1. PICK addr \in Addrs, access_type \in kAccessTypes : Access(inst, addr, access_type)
        BY <3>3
      <4>2. Enter(inst, addr, access_type, FALSE) /\ addr \in Addrs \cup Insts
        BY <4>1 DEF Access
      <4> QED BY <2>2, <3>1, <4>2, EnterKeeps DEF IInv
    <3>4. CASE Fetch(inst)
      <4>1. Enter(inst, inst, kLoad, TRUE) /\ inst \in Addrs \cup Insts
            /\ kLoad \in kAccessTypes
        BY <3>4 DEF Fetch, kAccessTypes
      <4> QED BY <2>2, <3>1, <4>1, EnterKeeps DEF IInv
    <3> QED BY <3>2, <3>3, <3>4
  <2>4. CASE Fini
    BY <2>2, <2>4, FiniKeeps DEF Fini, ProcessAllSets, IInv
  <2>5. CASE UNCHANGED vars
    BY <2>2, <2>5 DEF vars, IInv
  <2> QED BY <2>1, <2>3, <2>4, <2>5 DEF Next
<1> QED BY <1>1, <1>2, PTL DEF Spec

(* Type correctness.                                                       *)
THEOREM TypeCorrect == Spec => []TypeOK
<1>1. IInv => TypeOK
  <2>1. SUFFICES ASSUME IInv PROVE TypeOK
    OBVIOUS
  <2>2. \A s \in SetIndex : IsSet(cache.sets_[s])
    BY <2>1 DEF IInv, CacheInv, SetInv
  <2>3. cache \in CacheShape(cache)
    BY <2>1 DEF IInv, CacheInv
  <2> QED BY <2>1, <2>2, <2>3, Zenon DEF TypeOK, CacheShape, IInv
<1> QED BY <1>1, InvariantHolds, PTL

(* The first occurrence of a line after a place of a trace is the least.   *)
LEMMA FirstIsMin ==
    ASSUME NEW trace \in Seq(EntryType), NEW i \in Nat, NEW t, NEW j, FirstAfter(trace, i, t, j)
    PROVE  Min({k \in i + 1 .. Len(trace) : trace[k].tag = t}) = j
<1> DEFINE S == {k \in i + 1 .. Len(trace) : trace[k].tag = t}
<1>1. Len(trace) \in Nat
  OBVIOUS
<1>2. S \in SUBSET Int /\ j \in S
  BY <1>1 DEF FirstAfter
<1>3. \A k \in S : j <= k
  <2>1. SUFFICES ASSUME NEW k \in S, ~(j <= k) PROVE FALSE
    OBVIOUS
  <2>2. j \in Int /\ k \in Int /\ i + 1 <= k
    BY <1>1 DEF FirstAfter
  <2>3. k \in i + 1 .. j - 1 /\ trace[k].tag = t
    BY <2>1, <2>2
  <2> QED BY <2>3 DEF FirstAfter
<1> HIDE DEF S
<1>4. Min(S) = j
  BY <1>2, <1>3, MinIs
<1> QED BY <1>4 DEF S

(* Lookahead knows the future as far as the trace goes: each entry of a    *)
(* trace has the reference and the priority of the next occurrence of its  *)
(* line in it, or of its own one when there is none.                       *)
THEOREM LookaheadIsRight == Spec => []TraceLinked
<1>1. IInv => TraceLinked
  <2>1. SUFFICES ASSUME IInv, NEW s \in SetIndex, NEW i \in DOMAIN cache.sets_[s].lookahead_trace_
        PROVE  LET set == cache.sets_[s]
                   trace == set.lookahead_trace_
               IN  IF NextUse(set, i) = {}
                   THEN ~IsKnown(trace[i]) /\ trace[i].priority = -RefOf(set, i)
                   ELSE LET next == RefOf(set, Min(NextUse(set, i)))
                        IN  trace[i].next_ref = next /\ trace[i].priority = KMax - next
    BY DEF TraceLinked
  <2> DEFINE set == cache.sets_[s]
             trace == set.lookahead_trace_
             t == trace[i].tag
             S == {k \in i + 1 .. Len(trace) : trace[k].tag = t}
  <2>2. SetInv(set)
    BY <2>1 DEF IInv, CacheInv
  <2>3. trace \in Seq(EntryType) /\ Linked(trace, set.ref_id_) /\ i \in DOMAIN trace
    BY <2>1, <2>2 DEF SetInv, IsTrace
  <2>4. NextUse(set, i) = S
    BY DEF NextUse
  <2>5. \A k : RefOf(set, k) = RefAt(trace, set.ref_id_, k)
    BY DEF RefOf, RefAt
  <2> HIDE DEF set, trace
  <2>6. i \in Nat
    BY <2>3
  <2>7. CASE NextUse(set, i) = {}
    <3>1. NoneAfter(trace, i, t)
      BY <2>4, <2>7 DEF NoneAfter
    <3>2. trace[i].next_ref = KMax /\ trace[i].priority = -RefAt(trace, set.ref_id_, i)
      BY <2>3, <3>1 DEF Linked
    <3> QED BY <2>5, <2>7, <3>2 DEF IsKnown, set, trace
  <2>8. CASE NextUse(set, i) # {}
    <3>1. ~NoneAfter(trace, i, t)
      BY <2>4, <2>8 DEF NoneAfter
    <3>2. PICK j : FirstAfter(trace, i, t, j)
      BY <2>3, <2>6, <3>1, FirstExists
    <3>3. Min(S) = j
      BY <2>3, <2>6, <3>2, FirstIsMin
    <3>4. /\ trace[i].next_ref = RefAt(trace, set.ref_id_, j)
          /\ trace[i].priority = KMax - RefAt(trace, set.ref_id_, j)
      BY <2>3, <3>2 DEF Linked
    <3>5. Min(NextUse(set, i)) = j
      BY <2>4, <3>3
    <3> QED BY <2>5, <2>8, <3>4, <3>5 DEF set, trace
  <2> QED BY <2>7, <2>8
<1> QED BY <1>1, InvariantHolds, PTL

(* What Process asserts: a set never holds more lines than it has ways,    *)
(* and none of them is both known and unknown.                             *)
THEOREM SetsNeverOverflow == Spec => []StackFits
<1>1. IInv => StackFits
  BY DEF IInv, CacheInv, SetInv, Fits, StackFits
<1> QED BY <1>1, InvariantHolds, PTL

(* A line in the set is known exactly while its next occurrence is in the  *)
(* trace, and its priority names that occurrence.                          *)
THEOREM StackAgreesWithTrace == Spec => []KnownUntilNextUse
<1>1. IInv => KnownUntilNextUse
  <2>1. SUFFICES ASSUME IInv, NEW s \in SetIndex
        PROVE  LET set == cache.sets_[s]
                   occurs(t) == {i \in DOMAIN set.lookahead_trace_ :
                                   set.lookahead_trace_[i].tag = t}
               IN  /\ \A t \in DOMAIN set.known_tags_ :
                        /\ occurs(t) # {}
                        /\ set.known_tags_[t] = KMax - RefOf(set, Min(occurs(t)))
                   /\ \A t \in DOMAIN set.unknown_tags_ : occurs(t) = {}
    BY DEF KnownUntilNextUse
  <2> DEFINE set == cache.sets_[s]
             trace == set.lookahead_trace_
             occurs(t) == {i \in DOMAIN trace : trace[i].tag = t}
             S(t) == {k \in 0 + 1 .. Len(trace) : trace[k].tag = t}
  <2>2. SetInv(set)
    BY <2>1 DEF IInv, CacheInv
  <2>3. trace \in Seq(EntryType) /\ KnownOK(set.known_tags_, trace, set.ref_id_)
        /\ UnknownOK(set.unknown_tags_, trace)
    BY <2>2 DEF SetInv, IsTrace
  <2>4. \A k : RefOf(set, k) = RefAt(trace, set.ref_id_, k)
    BY DEF RefOf, RefAt
  <2> HIDE DEF set, trace
  <2>5. \A t : occurs(t) = S(t)
    <3>1. DOMAIN trace = 0 + 1 .. Len(trace)
      BY <2>3
    <3> QED BY <3>1
  <2>6. ASSUME NEW t \in DOMAIN set.known_tags_
        PROVE  /\ occurs(t) # {}
               /\ set.known_tags_[t] = KMax - RefOf(set, Min(occurs(t)))
    <3>1. PICK j : /\ FirstAfter(trace, 0, t, j)
                   /\ set.known_tags_[t] = KMax - RefAt(trace, set.ref_id_, j)
      BY <2>3 DEF KnownOK
    <3>2. j \in S(t)
      BY <3>1 DEF FirstAfter
    <3>3. Min(S(t)) = j
      BY <2>3, <3>1, FirstIsMin
    <3>4. occurs(t) = S(t)
      BY <2>5
    <3> HIDE DEF occurs, S
    <3> QED BY <2>4, <3>1, <3>2, <3>3, <3>4
  <2>7. ASSUME NEW t \in DOMAIN set.unknown_tags_ PROVE occurs(t) = {}
    <3>1. NoneAfter(trace, 0, t)
      BY <2>3 DEF UnknownOK
    <3>2. S(t) = {}
      BY <3>1 DEF NoneAfter
    <3>3. occurs(t) = S(t)
      BY <2>5
    <3> QED BY <3>2, <3>3
  <2> QED BY <2>6, <2>7 DEF set, trace
<1> QED BY <1>1, InvariantHolds, PTL

-----------------------------------------------------------------------------
(* Counting references.                                                    *)

(* The entries of each set that are not decided yet, and of all of them.   *)
Waits(c) == [s \in SetIndex |-> Len(c.sets_[s].lookahead_trace_)]

AllWaiting(c) ==
    LET waiting(s) == Len(c.sets_[s].lookahead_trace_)
    IN  MapThenSumSet(waiting, SetIndex)

(* Every reference is counted or waits, counting in UINT32s.               *)
Counted(c) ==
    \E m \in Int : c.miss_hit_[1] + c.miss_hit_[2] + AllWaiting(c) = c.ref_id_ + m * Uint32

(* A set knows how many entries it has, and they are fewer than make it    *)
(* process some.                                                           *)
Balanced(c) ==
    \A s \in SetIndex :
        /\ Len(c.sets_[s].lookahead_trace_) = c.sets_[s].lookahead_ref_count_
        /\ Len(c.sets_[s].lookahead_trace_) < c.lookahead_distance_ + c.process_window_

(* The number of all waiting entries is the sum over the sets.             *)
LEMMA AllWaitingIs ==
    ASSUME NEW c
    PROVE  \E u : SumSteps(u, Waits(c), SetIndex) /\ AllWaiting(c) = u[SetIndex]
<1> DEFINE waiting(s) == Len(c.sets_[s].lookahead_trace_)
           P(u) == u = [T \in SUBSET SetIndex |->
                          IF T = {} THEN 0
                          ELSE waiting(CHOOSE x \in T : TRUE) + u[T \ {CHOOSE x \in T : TRUE}]]
           iter == CHOOSE u : P(u)
<1>1. AllWaiting(c) = iter[SetIndex]
  BY Zenon DEF AllWaiting, MapThenSumSet, MapThenFoldSet
<1>2. ASSUME NEW u PROVE SumSteps(u, Waits(c), SetIndex) <=> P(u)
  <2> DEFINE f == [T \in SUBSET SetIndex |->
                     IF T = {} THEN 0
                     ELSE waiting(CHOOSE x \in T : TRUE) + u[T \ {CHOOSE x \in T : TRUE}]]
             g == [T \in SUBSET SetIndex |->
                     IF T = {} THEN 0 ELSE Waits(c)[Picked(T)] + u[T \ {Picked(T)}]]
  <2>1. \A T \in SUBSET SetIndex : f[T] = g[T]
    BY DEF Waits, Picked
  <2>2. f = g
    <3>1. f = [T \in SUBSET SetIndex |-> f[T]] /\ g = [T \in SUBSET SetIndex |-> g[T]]
      OBVIOUS
    <3> HIDE DEF f, g
    <3> QED BY <2>1, <3>1
  <2> QED BY <2>2 DEF SumSteps
<1>3. P(iter)
  <2>1. PICK u : SumSteps(u, Waits(c), SetIndex)
    BY SetIndexFinite, SumDefined
  <2>2. P(u)
    BY <1>2, <2>1
  <2> HIDE DEF P
  <2> QED BY <2>2
<1> HIDE DEF P, iter
<1> QED BY <1>1, <1>2, <1>3

(* When one set changes, so much more or fewer entries wait.               *)
LEMMA AllWaitingMoves ==
    ASSUME NEW c, CacheInv(c), NEW d, CacheInv(d), NEW s \in SetIndex,
           \A q \in SetIndex \ {s} : d.sets_[q] = c.sets_[q]
    PROVE  /\ AllWaiting(c) \in Int /\ AllWaiting(d) \in Int
           /\ AllWaiting(d) = AllWaiting(c) + (Len(d.sets_[s].lookahead_trace_)
                                                 - Len(c.sets_[s].lookahead_trace_))
<1>1. Waits(c) \in [SetIndex -> Int] /\ Waits(d) \in [SetIndex -> Int]
  <2>1. \A q \in SetIndex : /\ Len(c.sets_[q].lookahead_trace_) \in Int
                            /\ Len(d.sets_[q].lookahead_trace_) \in Int
    BY DEF CacheInv, SetInv, IsTrace
  <2> QED BY <2>1 DEF Waits
<1>2. \A q \in SetIndex \ {s} : Waits(d)[q] = Waits(c)[q]
  BY DEF Waits
<1>3. PICK u : SumSteps(u, Waits(c), SetIndex) /\ AllWaiting(c) = u[SetIndex]
  BY AllWaitingIs
<1>4. PICK v : SumSteps(v, Waits(d), SetIndex) /\ AllWaiting(d) = v[SetIndex]
  BY AllWaitingIs
<1>5. /\ Waits(c)[s] = Len(c.sets_[s].lookahead_trace_)
      /\ Waits(d)[s] = Len(d.sets_[s].lookahead_trace_)
  BY DEF Waits
<1>6. /\ u[SetIndex] \in Int /\ v[SetIndex] \in Int
      /\ v[SetIndex] = u[SetIndex] + (Waits(d)[s] - Waits(c)[s])
  BY <1>1, <1>2, <1>3, <1>4, SetIndexFinite, SumChanges
<1> QED BY <1>3, <1>4, <1>5, <1>6

(* The counters and lengths of a cache are numbers.                        *)
LEMMA CountsAreNumbers ==
    ASSUME NEW c, CacheInv(c), NEW s \in SetIndex
    PROVE  /\ c.miss_hit_[1] \in Int /\ c.miss_hit_[2] \in Int /\ c.ref_id_ \in Nat
           /\ Len(c.sets_[s].lookahead_trace_) \in Nat
           /\ c.sets_[s].lookahead_ref_count_ \in Nat
           /\ c.lookahead_distance_ \in Nat /\ c.process_window_ \in Nat
<1>1. /\ c.miss_hit_ \in (0 .. Uint32 - 1) \X (0 .. Uint32 - 1) /\ c.ref_id_ \in Nat
      /\ c.lookahead_distance_ \in Nat /\ c.process_window_ \in Nat
  BY DEF CacheInv, CacheShape
<1>2. IsSet(c.sets_[s]) /\ IsTrace(c.sets_[s].lookahead_trace_, c.sets_[s].ref_id_)
  BY DEF CacheInv, SetInv
<1>3. c.miss_hit_[1] \in Int /\ c.miss_hit_[2] \in Int
  BY <1>1
<1>4. c.sets_[s].lookahead_ref_count_ \in Nat
  BY <1>2 DEF IsSet
<1>5. Len(c.sets_[s].lookahead_trace_) \in Nat
  BY <1>2 DEF IsTrace
<1> QED BY <1>1, <1>3, <1>4, <1>5

(* Process counts what it takes from the trace, and nothing else.          *)
LEMMA CountedOnwards ==
    ASSUME NEW c, CacheInv(c), NEW d, CacheInv(d), NEW s \in SetIndex,
           \A q \in SetIndex \ {s} : d.sets_[q] = c.sets_[q],
           d.ref_id_ = c.ref_id_, SameCount(d, c, s), Counted(c)
    PROVE  Counted(d)
<1> DEFINE a == c.miss_hit_[1]
           b == c.miss_hit_[2]
           x == d.miss_hit_[1]
           y == d.miss_hit_[2]
           k == Len(c.sets_[s].lookahead_trace_)
           l == Len(d.sets_[s].lookahead_trace_)
<1>1. /\ a \in Int /\ b \in Int /\ x \in Int /\ y \in Int /\ k \in Int /\ l \in Int
      /\ c.ref_id_ \in Int
  BY CountsAreNumbers
<1>2. PICK m \in Int : a + b + AllWaiting(c) = c.ref_id_ + m * Uint32
  BY DEF Counted
<1>3. PICK n \in Int : x + y + l = a + b + k + n * Uint32
  BY DEF SameCount, Total
<1>4. /\ AllWaiting(c) \in Int /\ AllWaiting(d) \in Int
      /\ AllWaiting(d) = AllWaiting(c) + (l - k)
  BY AllWaitingMoves
<1>5. /\ (m + n) * Uint32 = m * Uint32 + n * Uint32
      /\ m * Uint32 \in Int /\ n * Uint32 \in Int /\ m + n \in Int
  <2>1. Uint32 \in Int
    BY CounterAssumption
  <2> QED BY <2>1, Distribute
<1> HIDE DEF a, b, x, y, k, l
<1>6. x + y + AllWaiting(d) = c.ref_id_ + (m + n) * Uint32
  BY <1>1, <1>2, <1>3, <1>4, <1>5
<1>7. x + y + AllWaiting(d) = d.ref_id_ + (m + n) * Uint32
  BY <1>6
<1> QED BY <1>5, <1>7 DEF Counted, x, y

(* A reference is counted or waits after Access and Fetch, and fewer wait  *)
(* than make a set process some.                                           *)
LEMMA EnterCounts ==
    ASSUME CacheInv(cache), cache.ref_id_ < MaxRefs, NEW inst \in Insts,
           NEW addr \in Addrs \cup Insts, NEW access_type \in kAccessTypes,
           NEW is_fetch \in BOOLEAN, Enter(inst, addr, access_type, is_fetch),
           Counted(cache), Balanced(cache), cache.process_window_ > 0
    PROVE  Counted(cache') /\ Balanced(cache') /\ cache'.process_window_ > 0
<1> DEFINE d == Entered(cache, inst, addr, access_type, is_fetch)
           s == SetIndexOf(TagOf(addr))
           e == Process(d, s, cache.process_window_)
           len == Len(cache.sets_[s].lookahead_trace_)
           ld == cache.lookahead_distance_
           pw == cache.process_window_
<1>1. /\ s \in SetIndex /\ CacheInv(d) /\ d.ref_id_ = cache.ref_id_ + 1
      /\ d.miss_hit_ = cache.miss_hit_
      /\ d.lookahead_distance_ = ld /\ d.process_window_ = pw
      /\ d.sets_[s].lookahead_ref_count_ = cache.sets_[s].lookahead_ref_count_ + 1
      /\ Len(d.sets_[s].lookahead_trace_) = len + 1
      /\ \A q \in SetIndex \ {s} : d.sets_[q] = cache.sets_[q]
  BY EnteredKeeps
<1>2. cache' = IF d.sets_[s].lookahead_ref_count_ >= ld + pw THEN e ELSE d
  <2> DEFINE set == LookedAt(cache, inst, addr, access_type, is_fetch)
  <2>1. cache' = IF set.lookahead_ref_count_ >= ld + pw THEN e ELSE d
    BY DEF Enter, Entered, LookedAt, Horizon
  <2>2. d.sets_[s] = set
    BY EnteredKeeps
  <2> QED BY <2>1, <2>2
<1> HIDE DEF d, s
<1>3. /\ len \in Nat /\ ld \in Nat /\ pw \in Nat /\ cache.ref_id_ \in Nat
      /\ len = cache.sets_[s].lookahead_ref_count_ /\ len < ld + pw
      /\ cache.miss_hit_[1] \in Int /\ cache.miss_hit_[2] \in Int
  BY <1>1, CountsAreNumbers DEF Balanced
<1>4. Counted(d)
  <2>1. /\ AllWaiting(cache) \in Int /\ AllWaiting(d) \in Int
        /\ AllWaiting(d) = AllWaiting(cache) + 1
    <3>1. /\ AllWaiting(cache) \in Int /\ AllWaiting(d) \in Int
          /\ AllWaiting(d) = AllWaiting(cache) + (Len(d.sets_[s].lookahead_trace_) - len)
      BY <1>1, AllWaitingMoves
    <3> HIDE DEF len
    <3> QED BY <1>1, <1>3, <3>1
  <2>2. PICK m \in Int : cache.miss_hit_[1] + cache.miss_hit_[2] + AllWaiting(cache)
                           = cache.ref_id_ + m * Uint32
    BY DEF Counted
  <2> DEFINE a == cache.miss_hit_[1]
             b == cache.miss_hit_[2]
             r == cache.ref_id_
             mu == m * Uint32
  <2>3. mu \in Int /\ a \in Int /\ b \in Int /\ r \in Int /\ a + b + AllWaiting(cache) = r + mu
    BY <1>3, <2>2, CounterAssumption
  <2>4. d.miss_hit_[1] = a /\ d.miss_hit_[2] = b /\ d.ref_id_ = r + 1
    BY <1>1
  <2> HIDE DEF a, b, r, mu, len
  <2>5. a + b + AllWaiting(d) = (r + 1) + mu
    BY <1>3, <2>1, <2>3
  <2> QED BY <2>4, <2>5 DEF Counted, mu
<1>5. \A q \in SetIndex \ {s} :
        /\ Len(d.sets_[q].lookahead_trace_) = d.sets_[q].lookahead_ref_count_
        /\ Len(d.sets_[q].lookahead_trace_) < ld + pw
  BY <1>1 DEF Balanced
<1>6. CASE d.sets_[s].lookahead_ref_count_ >= ld + pw
  <2>1. cache' = e
    BY <1>2, <1>6
  <2>2. /\ CacheInv(e) /\ SameCount(e, d, s) /\ e.ref_id_ = d.ref_id_
        /\ e.lookahead_distance_ = ld /\ e.process_window_ = pw
        /\ e.sets_[s].lookahead_ref_count_ = ld
        /\ Len(e.sets_[s].lookahead_trace_) = Left(Len(d.sets_[s].lookahead_trace_), pw)
        /\ \A q \in SetIndex \ {s} : e.sets_[q] = d.sets_[q]
    <3>1. s \in SetIndex /\ CacheInv(d) /\ pw \in Nat
      BY <1>1, <1>3
    <3>2. /\ CacheInv(e) /\ SameCount(e, d, s) /\ e.ref_id_ = d.ref_id_
          /\ e.lookahead_distance_ = d.lookahead_distance_
          /\ e.process_window_ = d.process_window_
          /\ e.sets_[s].lookahead_ref_count_ = d.lookahead_distance_
          /\ Len(e.sets_[s].lookahead_trace_) = Left(Len(d.sets_[s].lookahead_trace_), pw)
          /\ \A q \in SetIndex \ {s} : e.sets_[q] = d.sets_[q]
      BY <3>1, ProcessKeeps
    <3> QED BY <1>1, <3>2
  <2>a. pw > 0
    OBVIOUS
  <2> HIDE DEF e, len, ld, pw
  <2>3. Len(d.sets_[s].lookahead_trace_) = ld + pw
    <3> DEFINE n == d.sets_[s].lookahead_ref_count_
               l == Len(d.sets_[s].lookahead_trace_)
    <3>1. n = len + 1 /\ l = len + 1 /\ n >= ld + pw
      BY <1>1, <1>3, <1>6
    <3> HIDE DEF n, l
    <3>2. l = ld + pw
      BY <1>3, <3>1
    <3> QED BY <3>2 DEF l
  <2>4. Left(ld + pw, pw) = ld /\ ld < ld + pw
    BY <1>3, <2>a DEF Left
  <2>5. Len(e.sets_[s].lookahead_trace_) = ld
    BY <2>2, <2>3, <2>4
  <2>6. Balanced(e)
    BY <1>5, <2>2, <2>4, <2>5 DEF Balanced
  <2>7. Counted(e)
    BY <1>1, <1>4, <2>2, CountedOnwards
  <2> QED BY <2>1, <2>2, <2>6, <2>7 DEF pw
<1>7. CASE ~(d.sets_[s].lookahead_ref_count_ >= ld + pw)
  <2>1. cache' = d
    BY <1>2, <1>7
  <2> HIDE DEF e, len, ld, pw
  <2>2. /\ Len(d.sets_[s].lookahead_trace_) = d.sets_[s].lookahead_ref_count_
        /\ Len(d.sets_[s].lookahead_trace_) < ld + pw
    BY <1>1, <1>3, <1>7
  <2>3. Balanced(d)
    BY <1>1, <1>5, <2>2 DEF Balanced
  <2> QED BY <1>1, <1>4, <2>1, <2>3 DEF pw
<1> QED BY <1>6, <1>7

(* Fini counts what waits, by induction over the sets.                     *)
LEMMA FiniCounts ==
    ASSUME CacheInv(cache), Counted(cache), Balanced(cache)
    PROVE  /\ Counted(AllProcessed)
           /\ \A s \in SetIndex : Len(AllProcessed.sets_[s].lookahead_trace_) = 0
           /\ AllProcessed.process_window_ = cache.process_window_
           /\ AllProcessed.ref_id_ = cache.ref_id_
<1>1. PICK u : FiniSteps(u, cache, Horizon, NumSets) /\ AllProcessed = u[NumSets]
  BY AllProcessedDefined
<1> DEFINE h == Horizon
           Remaining(n, s) == Len(u[n].sets_[s].lookahead_trace_)
           Good(n) == /\ Counted(u[n])
                      /\ \A s \in SetIndex :
                            IF s < n THEN Remaining(n, s) = 0 ELSE Remaining(n, s) < h
           S == {n \in Nat : n <= NumSets => Good(n)}
<1>2. NumSets \in Nat
  BY GeometryAssumption
<1>3. h \in Nat
  BY DEF CacheInv, CacheShape, Horizon
<1>4. \A n \in 0 .. NumSets :
         /\ CacheInv(u[n]) /\ u[n].ref_id_ = cache.ref_id_
         /\ u[n].process_window_ = cache.process_window_
  BY <1>1, <1>3, FiniStepsKeep
<1>5. u[0] = cache /\ \A n \in 1 .. NumSets : u[n] = Process(u[n - 1], n - 1, h)
  <2>1. u[0] = cache
    BY <1>1, <1>2 DEF FiniSteps
  <2>2. ASSUME NEW n \in 1 .. NumSets PROVE u[n] = Process(u[n - 1], n - 1, h)
    <3>1. n \in 0 .. NumSets /\ n # 0
      BY <1>2
    <3> QED BY <1>1, <3>1 DEF FiniSteps
  <2> QED BY <2>1, <2>2
<1>6. 0 \in S
  <2>1. \A s \in SetIndex : ~(s < 0)
    BY <1>2 DEF SetIndex
  <2>2. \A s \in SetIndex : Remaining(0, s) < h
    BY <1>5 DEF Balanced, Horizon
  <2>3. Good(0)
    BY <1>5, <2>1, <2>2
  <2> HIDE DEF Good
  <2> QED BY <2>3
<1> HIDE DEF h
<1>7. ASSUME NEW n \in S PROVE n + 1 \in S
  <2>1. n \in Nat /\ n + 1 \in Nat /\ (n <= NumSets => Good(n))
    OBVIOUS
  <2>2. SUFFICES ASSUME n + 1 <= NumSets PROVE Good(n + 1)
    BY <2>1
  <2>3. /\ n <= NumSets /\ n + 1 \in 1 .. NumSets /\ (n + 1) - 1 = n /\ n \in SetIndex
        /\ n \in 0 .. NumSets /\ n + 1 \in 0 .. NumSets
    BY <1>2, <2>1, <2>2 DEF SetIndex
  <2>4. Good(n)
    BY <2>1, <2>3
  <2>5. u[n + 1] = Process(u[n], n, h)
    BY <1>5, <2>3
  <2>6. CacheInv(u[n])
    BY <1>4, <2>3
  <2>7. /\ CacheInv(u[n + 1]) /\ SameCount(u[n + 1], u[n], n) /\ u[n + 1].ref_id_ = u[n].ref_id_
        /\ Remaining(n + 1, n) = Left(Remaining(n, n), h)
        /\ \A q \in SetIndex \ {n} : u[n + 1].sets_[q] = u[n].sets_[q]
    BY <1>3, <2>3, <2>5, <2>6, ProcessKeeps
  <2>8. Counted(u[n + 1])
    BY <2>3, <2>4, <2>6, <2>7, CountedOnwards
  <2>9. Remaining(n + 1, n) = 0
    <3>1. Remaining(n, n) \in Nat
      BY <2>3, <2>6, CountsAreNumbers
    <3>2. ~(n < n)
      BY <2>1
    <3>3. Remaining(n, n) < h
      BY <2>3, <2>4, <3>2
    <3> HIDE DEF Remaining
    <3> QED BY <1>3, <2>7, <3>1, <3>3 DEF Left
  <2>10. ASSUME NEW s \in SetIndex
         PROVE  IF s < n + 1 THEN Remaining(n + 1, s) = 0 ELSE Remaining(n + 1, s) < h
    <3>1. CASE s = n
      <4>1. s < n + 1
        BY <2>1, <3>1
      <4> QED BY <2>9, <3>1, <4>1
    <3>2. CASE s # n
      <4>1. Remaining(n + 1, s) = Remaining(n, s)
        BY <2>7, <3>2
      <4>2. s \in Int /\ (s < n + 1 <=> s < n)
        BY <1>2, <2>1, <3>2 DEF SetIndex
      <4>3. IF s < n THEN Remaining(n, s) = 0 ELSE Remaining(n, s) < h
        BY <2>4
      <4> HIDE DEF Remaining
      <4> QED BY <4>1, <4>2, <4>3
    <3> QED BY <3>1, <3>2
  <2> HIDE DEF Remaining
  <2> QED BY <2>8, <2>10
<1>8. S = Nat
  <2>1. S \in SUBSET Nat
    OBVIOUS
  <2> HIDE DEF S
  <2> QED BY <1>6, <1>7, <2>1, NatSetInduction
<1>9. Good(NumSets)
  <2> HIDE DEF Good
  <2> QED BY <1>2, <1>8
<1>10. \A s \in SetIndex : s < NumSets
  BY <1>2 DEF SetIndex
<1>11. NumSets \in 0 .. NumSets
  BY <1>2
<1> QED BY <1>1, <1>4, <1>9, <1>10, <1>11

(* The invariant of the counts.                                            *)
CountInv ==
    /\ Counted(cache)
    /\ cache.process_window_ > 0
    /\ IF finished THEN \A s \in SetIndex : Len(cache.sets_[s].lookahead_trace_) = 0
                   ELSE Balanced(cache)

(* A new cache has nothing to count.                                       *)
LEMMA NewCacheCounts ==
    ASSUME NEW ld \in Nat, NEW pw \in Nat, pw > 0
    PROVE  Counted(NewCache(ld, pw)) /\ Balanced(NewCache(ld, pw))
<1> DEFINE c == NewCache(ld, pw)
<1>1. /\ \A s \in SetIndex : c.sets_[s] = NewSet
      /\ c.ref_id_ = 0 /\ c.miss_hit_[1] = 0 /\ c.miss_hit_[2] = 0
      /\ c.lookahead_distance_ = ld /\ c.process_window_ = pw
  BY DEF NewCache, NewMissHit
<1>2. NewSet.lookahead_trace_ = << >> /\ NewSet.lookahead_ref_count_ = 0
  BY DEF NewSet
<1> HIDE DEF c
<1>3. Balanced(c)
  <2>1. Len(<< >>) = 0 /\ 0 < ld + pw
    OBVIOUS
  <2> QED BY <1>1, <1>2, <2>1 DEF Balanced
<1>4. PICK u : SumSteps(u, Waits(c), SetIndex) /\ AllWaiting(c) = u[SetIndex]
  BY AllWaitingIs
<1>5. \A s \in SetIndex : Waits(c)[s] = 0
  BY <1>1, <1>2 DEF Waits
<1>6. AllWaiting(c) = 0
  BY <1>4, <1>5, SetIndexFinite, SumOfZeros
<1>7. 0 + 0 + 0 = 0 + 0 * Uint32 /\ 0 \in Int
  BY CounterAssumption
<1>8. Counted(c)
  BY <1>1, <1>6, <1>7 DEF Counted
<1> QED BY <1>3, <1>8 DEF c

(* No reference is lost or counted twice, provided that a set processes at *)
(* least one reference whenever it has too many (with none, its trace      *)
(* grows beyond what lookahead_ref_count_ says and Fini leaves some).      *)
THEOREM NothingIsLost ==
    ASSUME \A knobs \in Knobs : knobs[2] > 0
    PROVE  Spec => []EveryReferenceCounted
<1>1. Init => CountInv
  <2>1. SUFFICES ASSUME Init PROVE CountInv
    OBVIOUS
  <2>2. PICK knobs \in Knobs : cache = NewCache(knobs[1], knobs[2])
    BY <2>1 DEF Init
  <2>3. knobs[1] \in Nat /\ knobs[2] \in Nat /\ knobs[2] > 0
    BY OptAssumption
  <2>4. cache.process_window_ = knobs[2]
    BY <2>2 DEF NewCache
  <2> QED BY <2>1, <2>2, <2>3, <2>4, NewCacheCounts DEF Init, CountInv
<1>2. IInv /\ CountInv /\ [Next]_vars => CountInv'
  <2>1. SUFFICES ASSUME IInv, CountInv, [Next]_vars PROVE CountInv'
    OBVIOUS
  <2>2. CacheInv(cache) /\ Counted(cache) /\ cache.process_window_ > 0
    BY <2>1 DEF IInv, CountInv
  <2>3. CASE Run
    <3>1. ~finished /\ finished' = finished /\ cache.ref_id_ < MaxRefs
      BY <2>3 DEF Run
    <3>2. Balanced(cache)
      BY <2>1, <3>1 DEF CountInv
    <3>3. PICK inst \in Insts :
            \/ \E addr \in Addrs, access_type \in kAccessTypes : Access(inst, addr, access_type)
            \/ Fetch(inst)
      BY <2>3 DEF Run
    <3>4. Counted(cache') /\ Balanced(cache') /\ cache'.process_window_ > 0
      <4>1. CASE \E addr \in Addrs, access_type \in kAccessTypes :
                    Access(inst, addr, access_type)
        <5>1. PICK addr \in Addrs, access_type \in kAccessTypes : Access(inst, addr, access_type)
          BY <4>1
        <5>2. Enter(inst, addr, access_type, FALSE) /\ addr \in Addrs \cup Insts
          BY <5>1 DEF Access
        <5> QED BY <2>2, <3>1, <3>2, <5>2, EnterCounts
      <4>2. CASE Fetch(inst)
        <5>1. Enter(inst, inst, kLoad, TRUE) /\ inst \in Addrs \cup Insts
              /\ kLoad \in kAccessTypes
          BY <4>2 DEF Fetch, kAccessTypes
        <5> QED BY <2>2, <3>1, <3>2, <5>1, EnterCounts
      <4> QED BY <3>3, <4>1, <4>2
    <3> QED BY <3>1, <3>4 DEF CountInv
  <2>4. CASE Fini
    <3>1. ~finished /\ finished' = TRUE /\ cache' = AllProcessed
      BY <2>4 DEF Fini, ProcessAllSets
    <3>2. Balanced(cache)
      BY <2>1, <3>1 DEF CountInv
    <3>3. /\ Counted(cache') /\ cache'.process_window_ > 0
          /\ \A s \in SetIndex : Len(cache'.sets_[s].lookahead_trace_) = 0
      BY <2>2, <3>1, <3>2, FiniCounts
    <3> QED BY <3>1, <3>3 DEF CountInv
  <2>5. CASE UNCHANGED vars
    <3>1. cache' = cache /\ finished' = finished
      BY <2>5 DEF vars
    <3> QED BY <2>1, <3>1 DEF CountInv
  <2> QED BY <2>1, <2>3, <2>4, <2>5 DEF Next
<1>3. IInv /\ CountInv => EveryReferenceCounted
  <2>1. SUFFICES ASSUME IInv, CountInv PROVE EveryReferenceCounted
    OBVIOUS
  <2>2. CacheInv(cache)
    BY <2>1 DEF IInv
  <2>3. PICK m \in Int : cache.miss_hit_[1] + cache.miss_hit_[2] + AllWaiting(cache)
                           = cache.ref_id_ + m * Uint32
    BY <2>1 DEF CountInv, Counted
  <2>4. cache.ref_id_ \in Int
    <3>1. cache \in CacheShape(cache)
      BY <2>2 DEF CacheInv
    <3> QED BY <3>1 DEF CacheShape
  <2>5. (cache.miss_hit_[1] + cache.miss_hit_[2] + AllWaiting(cache)) % Uint32
          = cache.ref_id_ % Uint32
    BY <2>3, <2>4, CounterAssumption, SameRemainder
  <2>6. \A s \in SetIndex :
          IF finished
          THEN Len(cache.sets_[s].lookahead_trace_) = 0
          ELSE /\ Len(cache.sets_[s].lookahead_trace_) = cache.sets_[s].lookahead_ref_count_
               /\ Len(cache.sets_[s].lookahead_trace_) < Horizon
    BY <2>1 DEF CountInv, Balanced, Horizon
  <2> QED BY <2>5, <2>6, Zenon DEF EveryReferenceCounted, AllWaiting
<1> QED BY <1>1, <1>2, <1>3, InvariantHolds, PTL DEF Spec

-----------------------------------------------------------------------------
(* The rows of the references that wait, when one enters, and what a cache *)
(* looks like from outside: the interface of these proofs for the levels   *)
(* of CacheSimulator.                                                      *)

(* Telling an entry of its next use changes nothing about its rows.        *)
LEMMA ToldRows ==
    ASSUME NEW trace, NEW ref, IsTrace(trace, ref), NEW next, NEW tag, NEW i \in DOMAIN trace
    PROVE  /\ \A by : Index(Told(trace, next, tag)[i], by) = Index(trace[i], by)
           /\ Told(trace, next, tag)[i].access_type = trace[i].access_type
<1> DEFINE e == trace[i]
           f == [e EXCEPT !.next_ref = next, !.priority = KMax - next]
           told == Told(trace, next, tag)[i]
<1>1. e \in EntryType
  BY DEF IsTrace
<1>2. told = f \/ told = e
  BY DEF Told
<1> HIDE DEF e, told
<1>3. f.inst_id = e.inst_id /\ f.epoch = e.epoch /\ f.access_type = e.access_type
  BY <1>1 DEF EntryType
<1> HIDE DEF f
<1>4. told.inst_id = e.inst_id /\ told.epoch = e.epoch /\ told.access_type = e.access_type
  BY <1>2, <1>3
<1> QED BY <1>4 DEF Index, e, told

(* From a set to a new one there is one more reference, which waits to be  *)
(* counted in a row.                                                       *)
WaitsOnce(set, new, by, row, access_type) ==
    LET ref == set.ref_id_ + 1
        waits(r, t) == WaitsAt(new.lookahead_trace_, new.ref_id_, by, r, t)
    IN  /\ ref \in Nat
        /\ \A r, t : /\ WaitsAt(set.lookahead_trace_, set.ref_id_, by, r, t) = waits(r, t) \ {ref}
                     /\ ref \in waits(r, t) <=> r = row /\ t = access_type
        /\ \A i \in DOMAIN new.lookahead_trace_ :
              \/ Index(new.lookahead_trace_[i], by) = row
              \/ \E j \in DOMAIN set.lookahead_trace_ :
                    Index(new.lookahead_trace_[i], by) = Index(set.lookahead_trace_[j], by)

(* The set of a reference after it has been looked at.                     *)
LEMMA LookedAtWaits ==
    ASSUME NEW set, SetInv(set), NEW tag, NEW inst_id, NEW addr_id,
           NEW access_type, NEW epoch, NEW by \in Forms
    PROVE  WaitsOnce(set, Lookahead(set, tag, inst_id, addr_id, access_type, epoch), by,
                     IF by = "inst" THEN inst_id ELSE epoch, access_type)
<1> DEFINE trace == set.lookahead_trace_
           ref == set.ref_id_
           told == Told(trace, ref + 1, tag)
           entry == EntryOf(tag, inst_id, addr_id, access_type, epoch, ref + 1)
           new == Lookahead(set, tag, inst_id, addr_id, access_type, epoch)
           row == IF by = "inst" THEN inst_id ELSE epoch
           long == Append(told, entry)
<1>1. /\ IsTrace(trace, ref) /\ ref \in Nat /\ ref + 1 \in Nat
      /\ trace \in Seq(EntryType) /\ DOMAIN trace = 1 .. Len(trace) /\ Len(trace) \in Nat
  BY DEF SetInv, IsTrace
<1>2. new.lookahead_trace_ = long /\ new.ref_id_ = ref + 1
  BY LookaheadDoes DEF SetOf
<1>3. Index(entry, by) = row /\ entry.access_type = access_type
  BY DEF EntryOf, Index, Forms
<1>4. /\ told \in Seq(EntryType) /\ Len(told) = Len(trace)
  BY <1>1, ToldProperties
<1> HIDE DEF entry, new, row, trace, ref
<1>5. \A i \in DOMAIN trace : /\ Index(told[i], by) = Index(trace[i], by)
                              /\ told[i].access_type = trace[i].access_type
  BY <1>1, ToldRows
<1> HIDE DEF told
<1>6. \A r, t : \A i \in DOMAIN trace : OfRow(told[i], by, r, t) <=> OfRow(trace[i], by, r, t)
  BY <1>5 DEF OfRow
<1>7. ASSUME NEW r, NEW t
      PROVE  /\ WaitsAt(trace, ref, by, r, t) = WaitsAt(long, ref + 1, by, r, t) \ {ref + 1}
             /\ ref + 1 \in WaitsAt(long, ref + 1, by, r, t) <=> r = row /\ t = access_type
  <2>1. /\ WaitsAt(trace, ref, by, r, t) = WaitsAt(long, ref + 1, by, r, t) \ {ref + 1}
        /\ ref + 1 \in WaitsAt(long, ref + 1, by, r, t) <=> OfRow(entry, by, r, t)
    BY <1>1, <1>4, <1>6, AppendWaits
  <2>2. OfRow(entry, by, r, t) <=> r = row /\ t = access_type
    BY <1>3 DEF OfRow
  <2> QED BY <2>1, <2>2
<1>8. ASSUME NEW i \in DOMAIN long
      PROVE  \/ Index(long[i], by) = row
             \/ \E j \in DOMAIN trace : Index(long[i], by) = Index(trace[j], by)
  <2>1. long[i] = entry \/ (i \in DOMAIN trace /\ long[i] = told[i])
    BY <1>1, <1>4
  <2> QED BY <1>3, <1>5, <2>1
<1> HIDE DEF long
<1> QED BY <1>1, <1>2, <1>7, <1>8 DEF WaitsOnce, new, row, trace, ref


(* The key of a reference in a profile.                                    *)
KeyBy(c, by, inst) == IF by = "inst" THEN inst ELSE Epoch(c.ref_id_)

(* A reference that is looked at counts for its row from then on.          *)
LEMMA EnteredMoves ==
    ASSUME NEW c, CacheInv(c), c.ref_id_ < MaxRefs, LedgerInv(c), NEW inst \in Insts,
           NEW addr \in Addrs \cup Insts, NEW access_type \in kAccessTypes,
           NEW is_fetch \in BOOLEAN, NEW by \in Forms
    PROVE  LET d == Entered(c, inst, addr, access_type, is_fetch)
               p == ProfileBy(c, by)
               q == ProfileBy(d, by)
               key == KeyBy(c, by, inst)
           IN  /\ MissSum(q) % Uint32 = d.miss_hit_[1]
               /\ q.map = KeysWith(p.map, key)
               /\ \A r, t : t \in kAccessTypes =>
                     SeenBy(d, by, r, t)
                       = SeenBy(c, by, r, t) + Once(r, t, Place(p.map, key), access_type)
               /\ \A s \in SetIndex : \A i \in DOMAIN d.sets_[s].lookahead_trace_ :
                     Index(d.sets_[s].lookahead_trace_[i], by) <= Len(q.map)
<1> DEFINE d == Entered(c, inst, addr, access_type, is_fetch)
           s == SetIndexOf(TagOf(addr))
           p == ProfileBy(c, by)
           q == ProfileBy(d, by)
           key == KeyBy(c, by, inst)
           place == Place(p.map, key)
           epoch == Epoch(c.ref_id_)
           insts == MapKey(c.of_inst_, inst)
           addrs == IF is_fetch THEN c.of_addr_ ELSE MapKey(c.of_addr_, addr)
           times == MapKey(c.of_time_, epoch)
           addr_id == IF is_fetch THEN 1 ELSE RowOf(addrs, addr)
           set == c.sets_[s]
           new == Lookahead(set, TagOf(addr), RowOf(insts, inst), addr_id, access_type,
                            RowOf(times, epoch))
           ref == set.ref_id_ + 1
<1>1. /\ s \in SetIndex /\ CacheInv(d)
      /\ d.miss_hit_ = c.miss_hit_ /\ d.of_inst_ = insts /\ d.of_time_ = times
      /\ d.sets_[s] = LookedAt(c, inst, addr, access_type, is_fetch)
      /\ \A u \in SetIndex \ {s} : d.sets_[u] = c.sets_[u]
  BY EnteredKeeps
<1>2. d.sets_[s] = new
  BY <1>1 DEF LookedAt
<1>3. /\ inst \in Nat /\ c.ref_id_ \in Nat /\ SetInv(set)
      /\ p \in ProfileType /\ Covered(p)
  BY <1>1, OptAssumption DEF CacheInv, CacheShape, ProfileBy
<1>4. key \in Nat
  BY <1>3, CounterAssumption DEF KeyBy, Epoch
<1>5. q = MapKey(p, key)
  BY <1>1 DEF ProfileBy, KeyBy
<1> HIDE DEF d, s, p, q, key, insts, times, addr_id, set, new, ref
<1>6. /\ q.map = KeysWith(p.map, key)
      /\ RowOf(q, key) = place
      /\ place \in 1 .. Len(q.map)
      /\ Len(p.map) <= Len(q.map)
      /\ \A r, t : t \in kAccessTypes => Seen(q, r, t) = Seen(p, r, t)
  BY <1>3, <1>4, <1>5, MapKeySees
<1>7. (IF by = "inst" THEN RowOf(insts, inst) ELSE RowOf(times, epoch)) = place
  BY <1>1, <1>6 DEF q, key, ProfileBy, KeyBy
<1>8. MissSum(q) % Uint32 = d.miss_hit_[1]
  <2>1. 0 \in CounterId /\ 2 \in CounterId
    BY DEF CounterId
  <2>2. MissSum(q) = MissSum(p)
    BY <1>3, <1>4, <1>5, <2>1, MapKeySum DEF MissSum
  <2> QED BY <1>1, <2>2 DEF LedgerInv, p
<1> HIDE DEF place, epoch
<1> DEFINE waits(r, t) == WaitsAt(new.lookahead_trace_, new.ref_id_, by, r, t)
<1>9. /\ ref \in Nat
      /\ \A r, t : /\ WaitsAt(set.lookahead_trace_, set.ref_id_, by, r, t) = waits(r, t) \ {ref}
                   /\ ref \in waits(r, t) <=> r = place /\ t = access_type
      /\ \A i \in DOMAIN new.lookahead_trace_ :
            \/ Index(new.lookahead_trace_[i], by) = place
            \/ \E j \in DOMAIN set.lookahead_trace_ :
                  Index(new.lookahead_trace_[i], by) = Index(set.lookahead_trace_[j], by)
  <2> DEFINE a == RowOf(insts, inst)
             b == RowOf(times, epoch)
             tag == TagOf(addr)
             row == IF by = "inst" THEN a ELSE b
  <2>1. new = Lookahead(set, tag, a, addr_id, access_type, b)
    BY DEF new
  <2>2. row = place
    BY <1>7
  <2> HIDE DEF a, b, tag
  <2>3. WaitsOnce(set, new, by, row, access_type)
    BY <1>3, <2>1, LookedAtWaits
  <2>4. WaitsOnce(set, new, by, place, access_type)
    BY <2>2, <2>3
  <2> QED BY <2>4 DEF WaitsOnce, ref
<1>10. ASSUME NEW r, NEW t \in kAccessTypes
       PROVE  SeenBy(d, by, r, t) = SeenBy(c, by, r, t) + Once(r, t, place, access_type)
  <2> DEFINE before == Cardinality(Undecided(d, by, r, t))
             after == Cardinality(Undecided(c, by, r, t))
             w == ref \in waits(r, t)
             o == Once(r, t, place, access_type)
             x == Seen(p, r, t)
  <2>1. /\ WaitsAt(c.sets_[s].lookahead_trace_, c.sets_[s].ref_id_, by, r, t)
             = WaitsAt(d.sets_[s].lookahead_trace_, d.sets_[s].ref_id_, by, r, t) \ {ref}
        /\ w <=> ref \in WaitsAt(d.sets_[s].lookahead_trace_, d.sets_[s].ref_id_, by, r, t)
    BY <1>2, <1>9 DEF set
  <2>2. /\ before \in Nat /\ after \in Nat
        /\ w => after = before - 1
        /\ ~w => after = before
    BY <1>1, <1>9, <2>1, OneWaitsLess
  <2>3. w <=> (r = place /\ t = access_type)
    BY <1>9
  <2> HIDE DEF w
  <2>4. (w => o = 1) /\ (~w => o = 0)
    BY <2>3 DEF Once
  <2>5. Seen(q, r, t) = x /\ x \in Int
    BY <1>3, <1>6, SeenNat
  <2>6. SeenBy(c, by, r, t) = x + after /\ SeenBy(d, by, r, t) = Seen(q, r, t) + before
    BY DEF SeenBy, p, q
  <2> HIDE DEF o, x, before, after
  <2>7. SeenBy(d, by, r, t) = SeenBy(c, by, r, t) + o
    BY <2>2, <2>4, <2>5, <2>6
  <2> QED BY <2>7 DEF o
<1>11. ASSUME NEW u \in SetIndex, NEW i \in DOMAIN d.sets_[u].lookahead_trace_
       PROVE  Index(d.sets_[u].lookahead_trace_[i], by) <= Len(q.map)
  <2>1. \A k \in DOMAIN c.sets_[u].lookahead_trace_ :
           Index(c.sets_[u].lookahead_trace_[k], by) <= Len(p.map)
    BY DEF LedgerInv, p
  <2>2. p.map \in Seq(Nat) /\ Len(p.map) \in Nat
    BY <1>3 DEF ProfileType
  <2>3. Len(q.map) \in Nat
    BY <1>4, <1>6, <2>2, PlaceIsIndex
  <2>4. ASSUME NEW k \in DOMAIN c.sets_[u].lookahead_trace_
        PROVE  Index(c.sets_[u].lookahead_trace_[k], by) \in Int
    <3>1. c.sets_[u].lookahead_trace_ \in Seq(EntryType)
      BY DEF CacheInv, SetInv, IsTrace
    <3>2. c.sets_[u].lookahead_trace_[k] \in EntryType
      BY <3>1
    <3> QED BY <3>2 DEF EntryType, Index
  <2>5. \/ Index(d.sets_[u].lookahead_trace_[i], by) = place
        \/ \E k \in DOMAIN c.sets_[u].lookahead_trace_ :
              Index(d.sets_[u].lookahead_trace_[i], by)
                = Index(c.sets_[u].lookahead_trace_[k], by)
    <3>1. CASE u = s
      BY <1>2, <1>9, <3>1 DEF set
    <3>2. CASE u # s
      BY <1>1, <3>2
    <3> QED BY <3>1, <3>2
  <2>6. \A k \in DOMAIN c.sets_[u].lookahead_trace_ :
           Index(c.sets_[u].lookahead_trace_[k], by) <= Len(q.map)
    BY <1>6, <2>1, <2>2, <2>3, <2>4
  <2> QED BY <1>6, <2>3, <2>5, <2>6
<1> QED BY <1>6, <1>8, <1>10, <1>11 DEF d, p, q, key, place


(* A reference changes the view of the cache, as it does that of every     *)
(* cache of the level, when it is looked at, and not when it is decided.   *)
LEMMA EnteredNotes ==
    ASSUME NEW c, CacheInv(c), c.ref_id_ < MaxRefs, LedgerInv(c), NEW inst \in Insts,
           NEW addr \in Addrs \cup Insts, NEW access_type \in kAccessTypes,
           NEW is_fetch \in BOOLEAN
    PROVE  LET d == Entered(c, inst, addr, access_type, is_fetch)
           IN  /\ LedgerInv(d)
               /\ OptView(d) = Noted(OptView(c), inst, addr, access_type, is_fetch)
<1> DEFINE d == Entered(c, inst, addr, access_type, is_fetch)
           epoch == Epoch(c.ref_id_)
           Moves(by) ==
             /\ MissSum(ProfileBy(d, by)) % Uint32 = d.miss_hit_[1]
             /\ ProfileBy(d, by).map = KeysWith(ProfileBy(c, by).map, KeyBy(c, by, inst))
             /\ \A r, t : t \in kAccessTypes =>
                   SeenBy(d, by, r, t) = SeenBy(c, by, r, t)
                     + Once(r, t, Place(ProfileBy(c, by).map, KeyBy(c, by, inst)), access_type)
             /\ \A s \in SetIndex : \A i \in DOMAIN d.sets_[s].lookahead_trace_ :
                   Index(d.sets_[s].lookahead_trace_[i], by) <= Len(ProfileBy(d, by).map)
<1>1. \A by \in Forms : Moves(by)
  BY EnteredMoves
<1>2. /\ d.ref_id_ = c.ref_id_ + 1
      /\ d.of_addr_ = (IF is_fetch THEN c.of_addr_ ELSE MapKey(c.of_addr_, addr))
  BY EnteredKeeps
<1>3. addr \in Nat /\ c.of_addr_ \in ProfileType /\ Covered(c.of_addr_)
  BY OptAssumption DEF CacheInv, CacheShape
<1> HIDE DEF d, epoch
<1>4. LedgerInv(d)
  BY <1>1 DEF LedgerInv
<1>5. d.of_addr_.map = IF is_fetch THEN c.of_addr_.map ELSE KeysWith(c.of_addr_.map, addr)
  <2>1. CASE is_fetch
    BY <1>2, <2>1
  <2>2. CASE ~is_fetch
    BY <1>2, <1>3, <2>2, MapKeySees
  <2> QED BY <2>1, <2>2
<1>6. ASSUME NEW by \in Forms
      PROVE  RowsSeenBy(d, by)
               = SeenOnce(RowsSeenBy(c, by), Place(ProfileBy(c, by).map, KeyBy(c, by, inst)),
                          access_type)
  <2> DEFINE place == Place(ProfileBy(c, by).map, KeyBy(c, by, inst))
  <2>1. ASSUME NEW r \in Nat \ {0}, NEW t \in kAccessTypes
        PROVE  SeenBy(d, by, r, t) = RowsSeenBy(c, by)[r][t] + Once(r, t, place, access_type)
    BY <1>1 DEF RowsSeenBy
  <2> HIDE DEF place
  <2>2. RowsSeenBy(d, by) = SeenOnce(RowsSeenBy(c, by), place, access_type)
    BY <2>1, Zenon DEF RowsSeenBy, SeenOnce
  <2> QED BY <2>2 DEF place
<1>7. "inst" \in Forms /\ "time" \in Forms
  BY DEF Forms
<1>8. /\ d.of_inst_.map = KeysWith(c.of_inst_.map, inst)
      /\ RowsSeenBy(d, "inst")
           = SeenOnce(RowsSeenBy(c, "inst"), Place(c.of_inst_.map, inst), access_type)
  BY <1>1, <1>6, <1>7 DEF ProfileBy, KeyBy
<1>9. /\ d.of_time_.map = KeysWith(c.of_time_.map, epoch)
      /\ RowsSeenBy(d, "time")
           = SeenOnce(RowsSeenBy(c, "time"), Place(c.of_time_.map, epoch), access_type)
  BY <1>1, <1>6, <1>7 DEF ProfileBy, KeyBy, epoch
<1>10. OptView(d) = Noted(OptView(c), inst, addr, access_type, is_fetch)
  BY <1>2, <1>5, <1>8, <1>9, Zenon DEF OptView, Noted, epoch
<1> QED BY <1>4, <1>10 DEF d

(* So does the whole of Access or Fetch.                                   *)
LEMMA EnterNotes ==
    ASSUME CacheInv(cache), cache.ref_id_ < MaxRefs, LedgerInv(cache), NEW inst \in Insts,
           NEW addr \in Addrs \cup Insts, NEW access_type \in kAccessTypes,
           NEW is_fetch \in BOOLEAN, Enter(inst, addr, access_type, is_fetch)
    PROVE  /\ LedgerInv(cache')
           /\ OptView(cache') = Noted(OptView(cache), inst, addr, access_type, is_fetch)
<1> DEFINE entered == Entered(cache, inst, addr, access_type, is_fetch)
           s == SetIndexOf(TagOf(addr))
<1>1. s \in SetIndex /\ CacheInv(entered)
  BY EnteredKeeps
<1>2. /\ LedgerInv(entered)
      /\ OptView(entered) = Noted(OptView(cache), inst, addr, access_type, is_fetch)
  BY EnteredNotes
<1>3. cache' = entered \/ cache' = Process(entered, s, cache.process_window_)
  BY DEF Enter, Entered, LookedAt
<1>4. cache.process_window_ \in Nat
  BY DEF CacheInv, CacheShape
<1> HIDE DEF entered, s
<1>5. KeepsLedger(entered, Process(entered, s, cache.process_window_))
  BY <1>1, <1>4, ProcessKeeps
<1> QED BY <1>2, <1>3, <1>5 DEF KeepsLedger

(* When nothing is left to decide the cache is as plain as the others.     *)
LEMMA AllDecided ==
    ASSUME NEW c, CacheInv(c), \A s \in SetIndex : c.sets_[s].lookahead_trace_ = << >>
    PROVE  OptView(c) = PlainView(c)
<1>1. ASSUME NEW by, NEW r, NEW t \in kAccessTypes
      PROVE  SeenBy(c, by, r, t) = Seen(ProfileBy(c, by), r, t)
  <2>1. \A s \in SetIndex :
           WaitsAt(c.sets_[s].lookahead_trace_, c.sets_[s].ref_id_, by, r, t) = {}
    <3>1. ASSUME NEW s \in SetIndex
          PROVE  WaitsAt(<< >>, c.sets_[s].ref_id_, by, r, t) = {}
      <4>1. c.sets_[s].ref_id_ \in Nat
        BY DEF CacheInv, SetInv, IsTrace
      <4>2. Len(<< >>) = 0
        OBVIOUS
      <4> QED BY <4>1, <4>2 DEF WaitsAt
    <3> QED BY <3>1
  <2>2. Undecided(c, by, r, t) = {}
    BY <2>1 DEF Undecided
  <2>3. Cardinality(Undecided(c, by, r, t)) = 0
    BY <2>2, FS_EmptySet
  <2>4. Seen(ProfileBy(c, by), r, t) \in Nat
    <3>1. ProfileBy(c, by) \in ProfileType
      BY DEF CacheInv, CacheShape, ProfileBy
    <3> QED BY <3>1, SeenNat
  <2> QED BY <2>3, <2>4 DEF SeenBy
<1>2. ASSUME NEW by PROVE RowsSeenBy(c, by) = SeenRows(ProfileBy(c, by))
  BY <1>1, Zenon DEF RowsSeenBy, SeenRows
<1>3. RowsSeenBy(c, "inst") = SeenRows(c.of_inst_) /\ RowsSeenBy(c, "time") = SeenRows(c.of_time_)
  BY <1>2 DEF ProfileBy
<1> QED BY <1>3, Zenon DEF OptView, PlainView

(* A new cache has seen nothing.                                           *)
LEMMA NewCacheNotes ==
    ASSUME NEW ld \in Nat, NEW pw \in Nat
    PROVE  LedgerInv(NewCache(ld, pw)) /\ OptView(NewCache(ld, pw)) = EmptyView
<1> DEFINE c == NewCache(ld, pw)
<1>1. /\ IsNewCache(c) /\ c.miss_hit_[1] = 0
      /\ c.of_inst_ = NewProfile /\ c.of_time_ = NewProfile
      /\ \A s \in SetIndex : c.sets_[s].lookahead_trace_ = << >>
  BY DEF NewCache, NewSet, IsNewCache, NewMissHit
<1>2. CacheInv(c)
  BY NewCacheOK
<1> HIDE DEF c
<1>3. OptView(c) = EmptyView
  BY <1>1, <1>2, AllDecided, NewCacheIsPlain
<1>4. \A by : ProfileBy(c, by) = NewProfile
  BY <1>1 DEF ProfileBy
<1>5. MissSum(NewProfile) % Uint32 = 0
  BY NewProfileTallies DEF Tallied
<1>6. LedgerInv(c)
  BY <1>1, <1>4, <1>5 DEF LedgerInv
<1> QED BY <1>3, <1>6 DEF c

-----------------------------------------------------------------------------
(* What the proofs about the hierarchy need to know of this cache: that it *)
(* has the view of the caches it is compared with, and, if it processes at *)
(* least one reference at a time, that it counts all references.           *)
Views(c, view) == CacheInv(c) /\ LedgerInv(c) /\ OptView(c) = view

Counts(c) == Counted(c) /\ Balanced(c) /\ c.process_window_ > 0

NothingWaits(c) == \A s \in SetIndex : c.sets_[s].lookahead_trace_ = << >>

(* A new cache.                                                            *)
LEMMA NewCacheViews ==
    ASSUME NEW ld \in Nat, NEW pw \in Nat
    PROVE  /\ Views(NewCache(ld, pw), EmptyView)
           /\ pw > 0 => Counts(NewCache(ld, pw))
           /\ NothingWaits(NewCache(ld, pw))
<1>1. Views(NewCache(ld, pw), EmptyView)
  BY NewCacheOK, NewCacheNotes DEF Views
<1>2. ASSUME pw > 0 PROVE Counts(NewCache(ld, pw))
  BY <1>2, NewCacheCounts DEF Counts, NewCache
<1>3. NothingWaits(NewCache(ld, pw))
  BY DEF NothingWaits, NewCache, NewSet
<1> QED BY <1>1, <1>2, <1>3

(* An access.                                                              *)
LEMMA AccessViews ==
    ASSUME NEW view, Views(cache, view), cache.ref_id_ < MaxRefs, NEW inst \in Insts,
           NEW addr \in Addrs, NEW access_type \in kAccessTypes,
           Access(inst, addr, access_type)
    PROVE  /\ Views(cache', Noted(view, inst, addr, access_type, FALSE))
           /\ Counts(cache) => Counts(cache')
<1>1. /\ CacheInv(cache) /\ LedgerInv(cache) /\ OptView(cache) = view
      /\ addr \in Addrs \cup Insts /\ Enter(inst, addr, access_type, FALSE)
  BY DEF Views, Access
<1>2. CacheInv(cache')
  BY <1>1, EnterKeeps
<1>3. /\ LedgerInv(cache')
      /\ OptView(cache') = Noted(view, inst, addr, access_type, FALSE)
  BY <1>1, EnterNotes
<1>4. ASSUME Counts(cache) PROVE Counts(cache')
  <2>1. Counted(cache) /\ Balanced(cache) /\ cache.process_window_ > 0
    BY <1>4 DEF Counts
  <2>2. Counted(cache') /\ Balanced(cache') /\ cache'.process_window_ > 0
    BY <1>1, <2>1, EnterCounts
  <2> QED BY <2>2 DEF Counts
<1> QED BY <1>2, <1>3, <1>4 DEF Views

(* A fetch.                                                                *)
LEMMA FetchViews ==
    ASSUME NEW view, Views(cache, view), cache.ref_id_ < MaxRefs, NEW inst \in Insts,
           Fetch(inst)
    PROVE  /\ Views(cache', Noted(view, inst, inst, kLoad, TRUE))
           /\ Counts(cache) => Counts(cache')
<1>1. /\ CacheInv(cache) /\ LedgerInv(cache) /\ OptView(cache) = view
      /\ inst \in Addrs \cup Insts /\ Enter(inst, inst, kLoad, TRUE)
      /\ kLoad \in kAccessTypes
  BY DEF Views, Fetch, kAccessTypes
<1>2. CacheInv(cache')
  BY <1>1, EnterKeeps
<1>3. /\ LedgerInv(cache')
      /\ OptView(cache') = Noted(view, inst, inst, kLoad, TRUE)
  BY <1>1, EnterNotes
<1>4. ASSUME Counts(cache) PROVE Counts(cache')
  <2>1. Counted(cache) /\ Balanced(cache) /\ cache.process_window_ > 0
    BY <1>4 DEF Counts
  <2>2. Counted(cache') /\ Balanced(cache') /\ cache'.process_window_ > 0
    BY <1>1, <2>1, EnterCounts
  <2> QED BY <2>2 DEF Counts
<1> QED BY <1>2, <1>3, <1>4 DEF Views

(* The end of the program: the view is the same, and the traces are empty. *)
LEMMA ProcessAllSetsViews ==
    ASSUME NEW view, Views(cache, view), ProcessAllSets
    PROVE  /\ Views(cache', view)
           /\ Counts(cache) => NothingWaits(cache')
<1>1. cache' = AllProcessed /\ CacheInv(cache) /\ LedgerInv(cache) /\ OptView(cache) = view
  BY DEF Views, ProcessAllSets
<1>2. CacheInv(AllProcessed) /\ KeepsLedger(cache, AllProcessed)
  BY <1>1, FiniKeeps
<1>3. Views(cache', view)
  BY <1>1, <1>2 DEF KeepsLedger, Views
<1>4. ASSUME Counts(cache) PROVE NothingWaits(cache')
  <2>1. \A s \in SetIndex : Len(AllProcessed.sets_[s].lookahead_trace_) = 0
    BY <1>1, <1>4, FiniCounts DEF Counts
  <2>2. ASSUME NEW s \in SetIndex PROVE AllProcessed.sets_[s].lookahead_trace_ = << >>
    <3>1. AllProcessed.sets_[s].lookahead_trace_ \in Seq(EntryType)
      BY <1>2 DEF CacheInv, SetInv, IsTrace
    <3>2. Len(AllProcessed.sets_[s].lookahead_trace_) = 0
      BY <2>1
    <3> QED BY <3>1, <3>2
  <2> QED BY <1>1, <2>2 DEF NothingWaits
<1> QED BY <1>3, <1>4

(* What is printed of the cache: its profiles are sound, and when nothing  *)
(* waits they have seen all that the view tells.                           *)
LEMMA ViewsSettled ==
    ASSUME NEW c, NEW view, Views(c, view)
    PROVE  /\ Settled(c)
           /\ c.ref_id_ = view.ref_id /\ c.of_inst_.map = view.inst
           /\ c.of_addr_.map = view.addr /\ c.of_time_.map = view.time
           /\ NothingWaits(c) => PlainView(c) = view
<1>1. CacheInv(c) /\ LedgerInv(c) /\ OptView(c) = view
  BY DEF Views
<1>2. /\ c.of_inst_ \in ProfileType /\ c.of_time_ \in ProfileType
      /\ Covered(c.of_inst_) /\ Covered(c.of_time_)
      /\ c.miss_hit_[1] \in Nat
  BY <1>1, CounterAssumption DEF CacheInv, CacheShape
<1>3. /\ MissSum(ProfileBy(c, "inst")) % Uint32 = c.miss_hit_[1]
      /\ MissSum(ProfileBy(c, "time")) % Uint32 = c.miss_hit_[1]
  BY <1>1 DEF LedgerInv, Forms
<1>4. Settled(c)
  BY <1>2, <1>3 DEF Settled, ProfileBy
<1>5. /\ c.ref_id_ = view.ref_id /\ c.of_inst_.map = view.inst
      /\ c.of_addr_.map = view.addr /\ c.of_time_.map = view.time
  BY <1>1 DEF OptView
<1>6. NothingWaits(c) => PlainView(c) = view
  BY <1>1, AllDecided DEF NothingWaits
<1> QED BY <1>4, <1>5, <1>6

-----------------------------------------------------------------------------
(* With the history variables of OptimalReference.                         *)

HInv == /\ IInv
        /\ DOMAIN used = SetIndex
        /\ \A s \in SetIndex : UsedSet(cache.sets_[s], used[s])

(* Neither history variable constrains the cache: without them its         *)
(* behaviours are those of OptimalCache.                                   *)
THEOREM HistoryIsHarmless == HSpec => Spec
<1>1. HInit => Init
  BY DEF HInit
<1>2. [HNext]_hvars => [Next]_vars
  <2>1. SUFFICES ASSUME [HNext]_hvars PROVE [Next]_vars
    OBVIOUS
  <2>2. CASE /\ ~finished
             /\ cache.ref_id_ < MaxRefs
             /\ \E inst \in Insts :
                  \/ \E addr \in Addrs, access_type \in kAccessTypes :
                        Access(inst, addr, access_type) /\ Remember(addr)
                  \/ Fetch(inst) /\ Remember(inst)
             /\ UNCHANGED finished
    BY <2>2 DEF Next, Run
  <2>3. CASE Fini /\ UNCHANGED <<cost, used>>
    BY <2>3 DEF Next
  <2>4. CASE UNCHANGED hvars
    BY <2>4 DEF hvars, vars
  <2> QED BY <2>1, <2>2, <2>3, <2>4 DEF HNext
<1> QED BY <1>1, <1>2, PTL DEF HSpec, Spec

(* A new set says nothing of when lines were used.                         *)
LEMMA NewSetUsed == UsedSet(NewSet, EmptyStack)
<1>1. DOMAIN EmptyStack = {} /\ DOMAIN << >> = {}
  BY DEF EmptyStack
<1>2. /\ NewSet.unknown_tags_ = EmptyStack /\ NewSet.unknown_tags_pool_ = EmptyStack
      /\ NewSet.lookahead_trace_ = << >>
  BY DEF NewSet
<1> QED BY <1>1, <1>2 DEF UsedSet, UsedOK

(* A repair sees how recently lines were last used: what the pool and the  *)
(* unknown lines say of it is never stale where a repair can look at it.   *)
THEOREM RepairsAreInformed == HSpec => []RepairsSeeLastUse
<1>1. HInit => \A s \in SetIndex : UsedSet(cache.sets_[s], used[s])
  <2>1. SUFFICES ASSUME HInit, NEW s \in SetIndex PROVE UsedSet(cache.sets_[s], used[s])
    OBVIOUS
  <2>2. used[s] = EmptyStack
    BY <2>1 DEF HInit
  <2>3. PICK knobs \in Knobs : cache = NewCache(knobs[1], knobs[2])
    BY <2>1 DEF HInit, Init
  <2>4. cache.sets_[s] = NewSet
    BY <2>3 DEF NewCache
  <2> QED BY <2>2, <2>4, NewSetUsed
<1>2. HInit => DOMAIN used = SetIndex
  BY DEF HInit
<1>3. ASSUME IInv, DOMAIN used = SetIndex,
             \A s \in SetIndex : UsedSet(cache.sets_[s], used[s]), cache.ref_id_ < MaxRefs,
             NEW inst \in Insts, NEW addr \in Addrs \cup Insts,
             NEW access_type \in kAccessTypes, NEW is_fetch \in BOOLEAN,
             Enter(inst, addr, access_type, is_fetch), Remember(addr)
      PROVE  /\ DOMAIN used' = SetIndex
             /\ \A s \in SetIndex : UsedSet(cache'.sets_[s], used'[s])
  <2> DEFINE s == SetIndexOf(TagOf(addr))
  <2>1. CacheInv(cache)
    BY <1>3 DEF IInv
  <2>2. /\ s \in SetIndex
        /\ \A use : UsedSet(cache.sets_[s], use) =>
              UsedSet(cache'.sets_[s], Put(use, TagOf(addr), cache'.sets_[s].ref_id_))
        /\ \A q \in SetIndex \ {s} : cache'.sets_[q] = cache.sets_[q]
    BY <1>3, <2>1, EnterUsed
  <2>3. used' = [used EXCEPT ![s] = Put(@, TagOf(addr), cache'.sets_[s].ref_id_)]
    BY <1>3 DEF Remember
  <2> HIDE DEF s
  <2>4. /\ DOMAIN used' = SetIndex
        /\ used'[s] = Put(used[s], TagOf(addr), cache'.sets_[s].ref_id_)
        /\ \A q \in SetIndex \ {s} : used'[q] = used[q]
    BY <1>3, <2>2, <2>3
  <2>5. UsedSet(cache'.sets_[s], used'[s])
    BY <1>3, <2>2, <2>4
  <2>6. \A q \in SetIndex \ {s} : UsedSet(cache'.sets_[q], used'[q])
    BY <1>3, <2>2, <2>4
  <2> QED BY <2>4, <2>5, <2>6
<1>4. /\ IInv /\ DOMAIN used = SetIndex
      /\ \A s \in SetIndex : UsedSet(cache.sets_[s], used[s])
      /\ [HNext]_hvars
      => /\ DOMAIN used' = SetIndex
         /\ \A s \in SetIndex : UsedSet(cache'.sets_[s], used'[s])
  <2>1. SUFFICES ASSUME IInv, DOMAIN used = SetIndex,
                        \A s \in SetIndex : UsedSet(cache.sets_[s], used[s]),
                        [HNext]_hvars
                 PROVE  /\ DOMAIN used' = SetIndex
                        /\ \A s \in SetIndex : UsedSet(cache'.sets_[s], used'[s])
    OBVIOUS
  <2>2. CASE /\ ~finished
             /\ cache.ref_id_ < MaxRefs
             /\ \E inst \in Insts :
                  \/ \E addr \in Addrs, access_type \in kAccessTypes :
                        Access(inst, addr, access_type) /\ Remember(addr)
                  \/ Fetch(inst) /\ Remember(inst)
             /\ UNCHANGED finished
    <3>1. PICK inst \in Insts :
                  \/ \E addr \in Addrs, access_type \in kAccessTypes :
                        Access(inst, addr, access_type) /\ Remember(addr)
                  \/ Fetch(inst) /\ Remember(inst)
      BY <2>2
    <3>2. CASE \E addr \in Addrs, access_type \in kAccessTypes :
                  Access(inst, addr, access_type) /\ Remember(addr)
      <4>1. PICK addr \in Addrs, access_type \in kAccessTypes :
                  Access(inst, addr, access_type) /\ Remember(addr)
        BY <3>2
      <4>2. Enter(inst, addr, access_type, FALSE) /\ addr \in Addrs \cup Insts
            /\ FALSE \in BOOLEAN
        BY <4>1 DEF Access
      <4> QED BY <1>3, <2>1, <2>2, <4>1, <4>2
    <3>3. CASE Fetch(inst) /\ Remember(inst)
      <4>1. Enter(inst, inst, kLoad, TRUE) /\ inst \in Addrs \cup Insts
            /\ kLoad \in kAccessTypes /\ TRUE \in BOOLEAN
        BY <3>3 DEF Fetch, kAccessTypes
      <4> QED BY <1>3, <2>1, <2>2, <3>3, <4>1
    <3> QED BY <3>1, <3>2, <3>3
  <2>3. CASE Fini /\ UNCHANGED <<cost, used>>
    <3>1. CacheInv(cache)
      BY <2>1 DEF IInv
    <3>2. cache' = AllProcessed /\ used' = used
      BY <2>3 DEF Fini, ProcessAllSets
    <3>3. \A s \in SetIndex : StaysRight(cache, AllProcessed, s)
      BY <3>1, FiniKeeps
    <3> QED BY <2>1, <3>2, <3>3 DEF StaysRight
  <2>4. CASE UNCHANGED hvars
    <3>1. cache' = cache /\ used' = used
      BY <2>4 DEF hvars
    <3> QED BY <2>1, <3>1
  <2> QED BY <2>1, <2>2, <2>3, <2>4 DEF HNext
<1>5. HInv => RepairsSeeLastUse
  <2>1. SUFFICES ASSUME HInv, NEW s \in SetIndex
        PROVE  LET set == cache.sets_[s]
                   traced == {set.lookahead_trace_[i].tag : i \in DOMAIN set.lookahead_trace_}
               IN  /\ \A t \in DOMAIN set.unknown_tags_ : set.unknown_tags_[t] = -used[s][t]
                   /\ \A t \in DOMAIN set.unknown_tags_pool_
                              \ (DOMAIN set.unknown_tags_ \cup traced) :
                         set.unknown_tags_pool_[t] = -used[s][t]
    BY DEF RepairsSeeLastUse
  <2> DEFINE set == cache.sets_[s]
             trace == set.lookahead_trace_
             traced == {trace[i].tag : i \in DOMAIN trace}
  <2>2. UsedOK(set.unknown_tags_, set.unknown_tags_pool_, trace, set.ref_id_, used[s])
    BY <2>1 DEF HInv, UsedSet
  <2>3. trace \in Seq(EntryType)
    BY <2>1 DEF HInv, IInv, CacheInv, SetInv, IsTrace
  <2> HIDE DEF set, trace
  <2>4. \A t : t \notin traced => NoneAfter(trace, 0, t)
    <3>1. \A k \in 0 + 1 .. Len(trace) : k \in DOMAIN trace
      BY <2>3
    <3> QED BY <3>1 DEF NoneAfter
  <2> HIDE DEF traced
  <2>5. \A t \in DOMAIN set.unknown_tags_ : set.unknown_tags_[t] = -used[s][t]
    BY <2>2 DEF UsedOK
  <2>6. \A t \in DOMAIN set.unknown_tags_pool_ \ (DOMAIN set.unknown_tags_ \cup traced) :
           set.unknown_tags_pool_[t] = -used[s][t]
    BY <2>2, <2>4 DEF UsedOK
  <2> QED BY <2>5, <2>6 DEF set, trace, traced
<1>6. HSpec => []HInv
  <2>1. HInit /\ IInv => HInv
    BY <1>1, <1>2 DEF HInv
  <2>2. HInv /\ IInv' /\ [HNext]_hvars => HInv'
    BY <1>4 DEF HInv
  <2>3. HSpec => []IInv
    BY HistoryIsHarmless, InvariantHolds, PTL
  <2> QED BY <2>1, <2>2, <2>3, PTL DEF HSpec
<1> QED BY <1>5, <1>6, PTL

-----------------------------------------------------------------------------
(* The misses are those of the best choice.                                *)

(* When the trace of a set is empty, it has counted as many misses as the  *)
(* choice that takes fewest.                                               *)
LEMMA CountsLeast ==
    ASSUME NEW set, SetInv(set), Len(set.lookahead_trace_) = 0,
           NEW use, NEW final, NEW m, OptSet(set, use, final, m)
    PROVE  Min({final[r] : r \in DOMAIN final}) = m
<1> DEFINE trace == set.lookahead_trace_
           rank == Rank(trace, set.ref_id_, use)
           known == DOMAIN set.known_tags_
           unknown == DOMAIN set.unknown_tags_
<1>1. PICK costs : CostChain(costs, trace, final) /\ BestSet(set, use, costs[0], m)
  BY DEF OptSet
<1>2. Len(trace) = 0
  OBVIOUS
<1>3. costs[0] = final
  BY <1>1, <1>2 DEF CostChain
<1>4. /\ UsedOK(set.unknown_tags_, set.unknown_tags_pool_, trace, set.ref_id_, use)
      /\ UsedWell(trace, set.ref_id_, use) /\ m \in Nat /\ Purse(final, DOMAIN use)
      /\ Least(final, rank, known \cup unknown, m)
      /\ Attained(final, rank, known, unknown, Free(trace, use), m)
  BY <1>1, <1>3 DEF BestSet, Best
<1>5. \A t : NoneAfter(trace, 0, t)
  BY <1>2 DEF NoneAfter
<1> HIDE DEF trace
<1>6. rank \in [DOMAIN use -> Int]
  <2>1. \A t \in DOMAIN use : use[t] \in Nat
    BY <1>4 DEF UsedWell
  <2>2. \A t \in DOMAIN use : rank[t] = -use[t]
    BY <1>5 DEF Rank
  <2>3. rank = [t \in DOMAIN use |-> rank[t]]
    BY DEF Rank
  <2> HIDE DEF rank
  <2> QED BY <2>1, <2>2, <2>3
<1>7. unknown \in SUBSET DOMAIN use /\ IsFiniteSet(unknown)
  BY <1>4 DEF UsedOK, SetInv, Fits
<1> HIDE DEF rank, known, unknown
<1>8. {} \in SUBSET Free(trace, use) /\ IsFiniteSet({}) /\ Within(rank, {}, unknown, 0)
  BY <1>6, <1>7, WithinNothing, FS_EmptySet
<1>9. PICK Q \in DOMAIN final : final[Q] <= m
  BY <1>4, <1>8 DEF Attained
<1>10. \A r \in DOMAIN final : m <= final[r] /\ final[r] \in Nat
  BY <1>4 DEF Least, Purse
<1> DEFINE S == {final[r] : r \in DOMAIN final}
<1>11. S \in SUBSET Int /\ m \in S /\ \A k \in S : m <= k
  <2>1. final[Q] = m
    BY <1>4, <1>9, <1>10
  <2> QED BY <1>10, <2>1
<1> HIDE DEF S
<1>12. Min(S) = m
  BY <1>11, MinIs
<1> QED BY <1>12 DEF S

(* The least misses of all sets are the sum over the sets.                 *)
LEMMA LeastMissesAre ==
    ASSUME NEW M \in [SetIndex -> Nat], \A s \in SetIndex : LeastMisses(s) = M[s]
    PROVE  \A v : SumSteps(v, M, SetIndex) => MapThenSumSet(LeastMisses, SetIndex) = v[SetIndex]
<1> DEFINE P(u) == u = [T \in SUBSET SetIndex |->
                          IF T = {} THEN 0
                          ELSE LeastMisses(CHOOSE x \in T : TRUE)
                                 + u[T \ {CHOOSE x \in T : TRUE}]]
           iter == CHOOSE u : P(u)
<1>1. MapThenSumSet(LeastMisses, SetIndex) = iter[SetIndex]
  BY Zenon DEF MapThenSumSet, MapThenFoldSet
<1>2. ASSUME NEW u PROVE SumSteps(u, M, SetIndex) <=> P(u)
  <2> DEFINE f == [T \in SUBSET SetIndex |->
                     IF T = {} THEN 0
                     ELSE LeastMisses(CHOOSE x \in T : TRUE) + u[T \ {CHOOSE x \in T : TRUE}]]
             g == [T \in SUBSET SetIndex |->
                     IF T = {} THEN 0 ELSE M[Picked(T)] + u[T \ {Picked(T)}]]
  <2>1. \A T \in SUBSET SetIndex : f[T] = g[T]
    BY DEF Picked
  <2>2. f = g
    <3>1. f = [T \in SUBSET SetIndex |-> f[T]] /\ g = [T \in SUBSET SetIndex |-> g[T]]
      OBVIOUS
    <3> HIDE DEF f, g
    <3> QED BY <2>1, <3>1
  <2> QED BY <2>2 DEF SumSteps
<1>3. SUFFICES ASSUME NEW v, SumSteps(v, M, SetIndex)
               PROVE  MapThenSumSet(LeastMisses, SetIndex) = v[SetIndex]
  OBVIOUS
<1>4. P(iter)
  <2>1. P(v)
    BY <1>2, <1>3
  <2> HIDE DEF P
  <2> QED BY <2>1
<1> HIDE DEF P, iter
<1>5. SumSteps(iter, M, SetIndex)
  BY <1>2, <1>4
<1>6. iter[SetIndex] = v[SetIndex]
  <2>1. 0 \in SetIndex /\ M \in [SetIndex -> Int]
    BY GeometryAssumption DEF SetIndex
  <2>2. M[0] - M[0] = 0
    BY <2>1
  <2>3. /\ iter[SetIndex] \in Int /\ v[SetIndex] \in Int
        /\ iter[SetIndex] = v[SetIndex] + (M[0] - M[0])
    BY <1>3, <1>5, <2>1, SetIndexFinite, SumChanges
  <2> QED BY <2>2, <2>3
<1> QED BY <1>1, <1>6

(* A new set has counted no miss, and no choice has taken one.             *)
LEMMA NewSetOptimal == OptSet(NewSet, EmptyStack, [r \in {{}} |-> 0], 0)
<1> DEFINE paid == [r \in {{}} |-> 0]
           rank == Rank(<< >>, 0, EmptyStack)
<1>1. /\ DOMAIN EmptyStack = {} /\ Len(<< >>) = 0
      /\ \A t : NoneAfter(<< >>, 0, t)
  BY DEF EmptyStack, NoneAfter
<1>2. /\ NewSet.known_tags_ = EmptyStack /\ NewSet.unknown_tags_ = EmptyStack
      /\ NewSet.unknown_tags_pool_ = EmptyStack /\ NewSet.lookahead_trace_ = << >>
      /\ NewSet.ref_id_ = 0
  BY DEF NewSet
<1>3. IsFiniteSet({}) /\ Cardinality({}) = 0
  BY FS_EmptySet
<1>4. Purse(paid, {})
  <2>1. NumWays \in Nat
    BY OptAssumption, GeometryAssumption
  <2>2. DOMAIN paid = {{}} /\ paid[{}] = 0
    OBVIOUS
  <2> HIDE DEF paid
  <2> QED BY <1>3, <2>1, <2>2 DEF Purse
<1>5. rank \in [{} -> Int]
  BY <1>1 DEF Rank
<1>6. Within(rank, {}, {}, 0)
  <2> HIDE DEF rank
  <2> QED BY <1>3, <1>5, WithinNothing
<1>7. Least(paid, rank, {}, 0)
  <2>1. 0 - 0 = 0
    OBVIOUS
  <2> HIDE DEF rank
  <2> QED BY <1>6, <2>1 DEF Least
<1>8. Attained(paid, rank, {}, {}, {}, 0)
  <2>1. {} \in DOMAIN paid /\ paid[{}] <= 0
    OBVIOUS
  <2>2. \A S \in SUBSET {} : {} \cup S \subseteq {}
    OBVIOUS
  <2> HIDE DEF paid, rank
  <2> QED BY <2>1, <2>2 DEF Attained
<1>9. Free(<< >>, EmptyStack) = {}
  BY <1>1 DEF Free
<1>10. UsedOK(EmptyStack, EmptyStack, << >>, 0, EmptyStack)
  <2>1. UsedSet(NewSet, EmptyStack)
    BY NewSetUsed
  <2> QED BY <1>2, <2>1 DEF UsedSet
<1>11. UsedWell(<< >>, 0, EmptyStack) /\ PoolKept(EmptyStack, EmptyStack, << >>, EmptyStack)
  BY <1>1, <1>9 DEF UsedWell, PoolKept
<1>12. {} \cup {} = {}
  OBVIOUS
<1> HIDE DEF paid, rank
<1>13. Best(EmptyStack, EmptyStack, EmptyStack, << >>, 0, EmptyStack, paid, 0)
  BY <1>1, <1>4, <1>7, <1>8, <1>9, <1>10, <1>11, <1>12 DEF Best, rank
<1>14. BestSet(NewSet, EmptyStack, paid, 0)
  BY <1>2, <1>13 DEF BestSet
<1> DEFINE costs == [i \in {0} |-> paid]
<1>15. costs[0] = paid
  OBVIOUS
<1> HIDE DEF costs
<1>16. CostChain(costs, << >>, paid)
  BY <1>1, <1>15 DEF CostChain
<1>17. OptSet(NewSet, EmptyStack, paid, 0)
  BY <1>2, <1>14, <1>15, <1>16 DEF OptSet
<1> QED BY <1>17 DEF paid

(* A new cache is as good as any choice.                                   *)
LEMMA NewCacheOptimal ==
    ASSUME NEW ld \in Nat, NEW pw \in Nat,
           NEW use, \A s \in SetIndex : use[s] = EmptyStack,
           NEW final, \A s \in SetIndex : final[s] = [r \in {{}} |-> 0]
    PROVE  Optimal(NewCache(ld, pw), use, final)
<1> DEFINE c == NewCache(ld, pw)
           M == [s \in SetIndex |-> 0]
<1>1. (\A s \in SetIndex : c.sets_[s] = NewSet) /\ c.miss_hit_[1] = 0
  BY DEF NewCache, NewMissHit
<1> HIDE DEF c
<1>2. M \in [SetIndex -> Nat] /\ \A s \in SetIndex : M[s] = 0
  OBVIOUS
<1> HIDE DEF M
<1>3. PICK u : SumSteps(u, M, SetIndex)
  BY SetIndexFinite, SumDefined
<1>4. u[SetIndex] = 0
  BY <1>2, <1>3, SetIndexFinite, SumOfZeros
<1>5. 0 = 0 + 0 * Uint32 /\ 0 \in Int
  BY CounterAssumption
<1>6. MakeUp(c.miss_hit_[1], M)
  BY <1>1, <1>3, <1>4, <1>5 DEF MakeUp
<1>7. \A s \in SetIndex : OptSet(c.sets_[s], use[s], final[s], M[s])
  BY <1>1, <1>2, NewSetOptimal
<1> QED BY <1>2, <1>6, <1>7 DEF Optimal, c

(* The invariant of the history: what it says of the cache.                *)
HistoryInv == /\ DOMAIN used = SetIndex /\ DOMAIN cost = SetIndex
              /\ Optimal(cache, used, cost)

(* A reference keeps the cache optimal.                                    *)
LEMMA EnterOptimal ==
    ASSUME CacheInv(cache), HistoryInv, cache.ref_id_ < MaxRefs,
           NEW inst \in Insts, NEW addr \in Addrs \cup Insts,
           NEW access_type \in kAccessTypes, NEW is_fetch \in BOOLEAN,
           Enter(inst, addr, access_type, is_fetch), Remember(addr)
    PROVE  HistoryInv'
<1> DEFINE tag == TagOf(addr)
           s == SetIndexOf(tag)
           later == Put(used[s], tag, cache'.sets_[s].ref_id_)
           paid == CostAfter(cost[s], tag)
<1>1. s \in SetIndex /\ \A q \in SetIndex \ {s} : cache'.sets_[q] = cache.sets_[q]
  BY EnterUsed
<1>2. \A use, final, m : OptSet(cache.sets_[s], use, final, m) =>
         \E n \in Nat :
            /\ OptSet(cache'.sets_[s], Put(use, tag, cache'.sets_[s].ref_id_),
                      CostAfter(final, tag), m + n)
            /\ MissesMore(cache, cache', n)
  BY EnterSetOptimal
<1>3. used' = [used EXCEPT ![s] = later] /\ cost' = [cost EXCEPT ![s] = paid]
  BY DEF Remember
<1>4. \A m : OptSet(cache.sets_[s], used[s], cost[s], m) =>
         \E n \in Nat : /\ OptSet(cache'.sets_[s], later, paid, m + n)
                       /\ MissesMore(cache, cache', n)
  BY <1>2
<1> HIDE DEF s, tag, later, paid
<1>5. DOMAIN used = SetIndex /\ DOMAIN cost = SetIndex /\ Optimal(cache, used, cost)
  BY DEF HistoryInv
<1>6. /\ DOMAIN used' = SetIndex /\ DOMAIN cost' = SetIndex
      /\ used'[s] = later /\ cost'[s] = paid
      /\ \A q \in SetIndex \ {s} : used'[q] = used[q] /\ cost'[q] = cost[q]
  BY <1>1, <1>3, <1>5
<1>7. \A m : OptSet(cache.sets_[s], used[s], cost[s], m) =>
         \E n \in Nat : /\ OptSet(cache'.sets_[s], used'[s], cost'[s], m + n)
                       /\ MissesMore(cache, cache', n)
  BY <1>4, <1>6
<1>8. OnlyOne(cache, cache', s, used, cost, used', cost')
  BY <1>1, <1>6, <1>7 DEF OnlyOne
<1>9. Optimal(cache', used', cost')
  BY <1>1, <1>5, <1>8, OptimalOnwards
<1> QED BY <1>6, <1>9 DEF HistoryInv

(* When every reference has been decided, the misses counted are those of  *)
(* the best choices.                                                       *)
LEMMA OptimalAtLast ==
    ASSUME CacheInv(cache), HistoryInv,
           \A s \in SetIndex : Len(cache.sets_[s].lookahead_trace_) = 0
    PROVE  cache.miss_hit_[1] = MapThenSumSet(LeastMisses, SetIndex) % Uint32
<1>1. PICK M \in [SetIndex -> Nat] :
         /\ \A s \in SetIndex : OptSet(cache.sets_[s], used[s], cost[s], M[s])
         /\ MakeUp(cache.miss_hit_[1], M)
  BY DEF HistoryInv, Optimal
<1>2. ASSUME NEW s \in SetIndex PROVE LeastMisses(s) = M[s]
  <2>1. SetInv(cache.sets_[s]) /\ Len(cache.sets_[s].lookahead_trace_) = 0
    BY DEF CacheInv
  <2>2. Min({cost[s][r] : r \in DOMAIN cost[s]}) = M[s]
    BY <1>1, <2>1, CountsLeast
  <2> QED BY <2>2 DEF LeastMisses
<1>3. PICK u : /\ SumSteps(u, M, SetIndex)
               /\ \E k \in Int : cache.miss_hit_[1] = u[SetIndex] + k * Uint32
  BY <1>1 DEF MakeUp
<1>4. MapThenSumSet(LeastMisses, SetIndex) = u[SetIndex]
  BY <1>2, <1>3, LeastMissesAre
<1>5. u[SetIndex] \in Int
  <2>1. 0 \in SetIndex /\ M \in [SetIndex -> Int]
    BY GeometryAssumption DEF SetIndex
  <2> QED BY <1>3, <2>1, SetIndexFinite, SumChanges
<1>6. cache.miss_hit_[1] \in 0 .. Uint32 - 1 /\ Uint32 \in Nat \ {0}
  <2>1. cache.miss_hit_ \in (0 .. Uint32 - 1) \X (0 .. Uint32 - 1)
    BY DEF CacheInv, CacheShape
  <2> QED BY <2>1, CounterAssumption
<1>7. PICK k \in Int : cache.miss_hit_[1] = u[SetIndex] + k * Uint32
  BY <1>3
<1>8. cache.miss_hit_[1] % Uint32 = u[SetIndex] % Uint32
  BY <1>5, <1>6, <1>7, SameRemainder
<1>9. cache.miss_hit_[1] % Uint32 = cache.miss_hit_[1]
  BY <1>6
<1> QED BY <1>4, <1>8, <1>9, Zenon

(* After Fini the cache has counted as many misses as the best replacement *)
(* would have had, provided that a set processes at least one reference    *)
(* whenever it has too many, whatever the lookahead distance: no lookahead *)
(* is too short.                                                           *)
THEOREM MissesAlwaysOptimal ==
    ASSUME \A knobs \in Knobs : knobs[2] > 0
    PROVE  HSpec => []MissesAreOptimal
<1>1. HInit => HistoryInv
  <2>1. SUFFICES ASSUME HInit PROVE HistoryInv
    OBVIOUS
  <2>2. /\ DOMAIN used = SetIndex /\ DOMAIN cost = SetIndex
        /\ \A s \in SetIndex : used[s] = EmptyStack /\ cost[s] = [r \in {{}} |-> 0]
    BY <2>1 DEF HInit
  <2>3. PICK knobs \in Knobs : cache = NewCache(knobs[1], knobs[2])
    BY <2>1 DEF HInit, Init
  <2>4. knobs[1] \in Nat /\ knobs[2] \in Nat
    BY OptAssumption
  <2> QED BY <2>2, <2>3, <2>4, NewCacheOptimal DEF HistoryInv
<1>2. IInv /\ HistoryInv /\ [HNext]_hvars => HistoryInv'
  <2>1. SUFFICES ASSUME IInv, HistoryInv, [HNext]_hvars PROVE HistoryInv'
    OBVIOUS
  <2>2. CacheInv(cache)
    BY <2>1 DEF IInv
  <2>3. CASE /\ ~finished
             /\ cache.ref_id_ < MaxRefs
             /\ \E inst \in Insts :
                  \/ \E addr \in Addrs, access_type \in kAccessTypes :
                        Access(inst, addr, access_type) /\ Remember(addr)
                  \/ Fetch(inst) /\ Remember(inst)
             /\ UNCHANGED finished
    <3>1. PICK inst \in Insts :
                  \/ \E addr \in Addrs, access_type \in kAccessTypes :
                        Access(inst, addr, access_type) /\ Remember(addr)
                  \/ Fetch(inst) /\ Remember(inst)
      BY <2>3
    <3>2. CASE \E addr \in Addrs, access_type \in kAccessTypes :
                  Access(inst, addr, access_type) /\ Remember(addr)
      <4>1. PICK addr \in Addrs, access_type \in kAccessTypes :
                  Access(inst, addr, access_type) /\ Remember(addr)
        BY <3>2
      <4>2. \E is_fetch \in BOOLEAN : Enter(inst, addr, access_type, is_fetch)
        BY <4>1 DEF Access
      <4>3. addr \in Addrs \cup Insts
        OBVIOUS
      <4> QED BY <2>1, <2>2, <2>3, <4>1, <4>2, <4>3, EnterOptimal
    <3>3. CASE Fetch(inst) /\ Remember(inst)
      <4>1. \E is_fetch \in BOOLEAN : Enter(inst, inst, kLoad, is_fetch)
        BY <3>3 DEF Fetch
      <4>2. inst \in Addrs \cup Insts /\ kLoad \in kAccessTypes
        BY DEF kAccessTypes
      <4> QED BY <2>1, <2>2, <2>3, <3>3, <4>1, <4>2, EnterOptimal
    <3> QED BY <3>1, <3>2, <3>3
  <2>4. CASE Fini /\ UNCHANGED <<cost, used>>
    <3>1. cache' = AllProcessed /\ used' = used /\ cost' = cost
      BY <2>4 DEF Fini, ProcessAllSets
    <3>2. \A use, final : Optimal(cache, use, final) => Optimal(AllProcessed, use, final)
      BY <2>2, FiniKeeps
    <3> QED BY <2>1, <3>1, <3>2 DEF HistoryInv
  <2>5. CASE UNCHANGED hvars
    <3>1. cache' = cache /\ used' = used /\ cost' = cost
      BY <2>5 DEF hvars
    <3> QED BY <2>1, <3>1 DEF HistoryInv
  <2> QED BY <2>1, <2>3, <2>4, <2>5 DEF HNext
<1>3. IInv /\ HistoryInv /\ EveryReferenceCounted => MissesAreOptimal
  <2>1. SUFFICES ASSUME IInv, HistoryInv, EveryReferenceCounted, finished
                 PROVE  cache.miss_hit_[1] = MapThenSumSet(LeastMisses, SetIndex) % Uint32
    BY Zenon DEF MissesAreOptimal
  <2>2. \A s \in SetIndex : Len(cache.sets_[s].lookahead_trace_) = 0
    BY <2>1, Zenon DEF EveryReferenceCounted
  <2>3. CacheInv(cache)
    BY <2>1 DEF IInv
  <2> QED BY <2>1, <2>2, <2>3, OptimalAtLast
<1>4. HSpec => []IInv /\ []EveryReferenceCounted
  BY HistoryIsHarmless, InvariantHolds, NothingIsLost, PTL
<1>5. HSpec => []HistoryInv
  BY <1>1, <1>2, <1>4, PTL DEF HSpec
<1> QED BY <1>3, <1>4, <1>5, PTL
=============================================================================
