----------------------------- MODULE LruCacheProofs -----------------------------
(***************************************************************************)
(* Proofs about LruCache, for every geometry, every associativity and      *)
(* every stream of references; and, at the end, about LruRefinement.       *)
(***************************************************************************)
EXTENDS LruRefinement, SequenceTheorems, BaseCacheProofs

-----------------------------------------------------------------------------
(* Lists.                                                                  *)

(* Erasing position k of a list shifts the elements after it.              *)
LEMMA EraseShifts ==
    ASSUME NEW S, NEW q \in Seq(S), NEW k \in 1 .. Len(q)
    PROVE  /\ Erase(q, k) \in Seq(S)
           /\ Len(Erase(q, k)) = Len(q) - 1
           /\ \A i \in 1 .. k - 1 : Erase(q, k)[i] = q[i]
           /\ \A i \in k .. Len(q) - 1 : Erase(q, k)[i] = q[i + 1]
<1> DEFINE front == SubSeq(q, 1, k - 1)
           back == SubSeq(q, k + 1, Len(q))
<1>1. front \in Seq(S) /\ Len(front) = k - 1 /\ \A i \in 1 .. k - 1 : front[i] = q[i]
  BY SubSeqProperties
<1>2. back \in Seq(S) /\ Len(back) = Len(q) - k
      /\ \A i \in 1 .. Len(q) - k : back[i] = q[k + i]
  BY SubSeqProperties
<1>3. Erase(q, k) = front \o back
  BY DEF Erase
<1> HIDE DEF front, back
<1>4. /\ front \o back \in Seq(S)
      /\ Len(front \o back) = Len(front) + Len(back)
      /\ \A i \in 1 .. Len(front) + Len(back) :
           (front \o back)[i] = IF i <= Len(front) THEN front[i]
                                                  ELSE back[i - Len(front)]
  BY <1>1, <1>2, ConcatProperties
<1>5. Len(front) + Len(back) = Len(q) - 1
  BY <1>1, <1>2
<1>6. ASSUME NEW i \in 1 .. k - 1 PROVE (front \o back)[i] = q[i]
  BY <1>1, <1>2, <1>4
<1>7. ASSUME NEW i \in k .. Len(q) - 1 PROVE (front \o back)[i] = q[i + 1]
  <2>1. i - (k - 1) \in 1 .. Len(q) - k /\ k + (i - (k - 1)) = i + 1
    OBVIOUS
  <2>2. back[i - (k - 1)] = q[i + 1]
    BY <1>2, <2>1
  <2> QED BY <1>1, <1>4, <1>5, <2>2
<1> QED BY <1>3, <1>4, <1>5, <1>6, <1>7

(* A new front shifts every element by one.                                *)
LEMMA PushFrontShifts ==
    ASSUME NEW S, NEW q \in Seq(S), NEW x \in S
    PROVE  /\ <<x>> \o q \in Seq(S)
           /\ Len(<<x>> \o q) = Len(q) + 1
           /\ (<<x>> \o q)[1] = x
           /\ \A i \in 2 .. Len(q) + 1 : (<<x>> \o q)[i] = q[i - 1]
OBVIOUS

(* A tag is a natural number and belongs to one of the sets.               *)
LEMMA AddrHasTag ==
    ASSUME NEW a \in Addrs \cup Insts
    PROVE  /\ a \in Nat
           /\ TagOf(a) \in Nat /\ TagOf(a) \in Tags
           /\ SetIndexOf(TagOf(a)) \in SetIndex
BY LruAssumption, SplitAddrInRange DEF Tags

(* Tags are natural numbers.                                               *)
LEMMA TagsSubsetNat == Tags \subseteq Nat
BY AddrHasTag DEF Tags

-----------------------------------------------------------------------------
(* One set.                                                                *)

(* Moving the element at k to the front keeps the list a permutation.      *)
LEMMA MoveToFront ==
    ASSUME NEW S, NEW q \in Seq(S), NEW k \in 1 .. Len(q)
    PROVE  LET m == <<q[k]>> \o Erase(q, k)
           IN  /\ m \in Seq(S)
               /\ Len(m) = Len(q)
               /\ m[1] = q[k]
               /\ \A i \in 2 .. k : m[i] = q[i - 1]
               /\ \A i \in k + 1 .. Len(q) : m[i] = q[i]
<1> DEFINE e == Erase(q, k)
           m == <<q[k]>> \o e
<1>1. q[k] \in S
  BY ElementOfSeq
<1>2. /\ e \in Seq(S)
      /\ Len(e) = Len(q) - 1
      /\ \A i \in 1 .. k - 1 : e[i] = q[i]
      /\ \A i \in k .. Len(q) - 1 : e[i] = q[i + 1]
  BY EraseShifts
<1> HIDE DEF e
<1>3. /\ m \in Seq(S)
      /\ Len(m) = Len(e) + 1
      /\ m[1] = q[k]
      /\ \A i \in 2 .. Len(e) + 1 : m[i] = e[i - 1]
  BY <1>1, <1>2, PushFrontShifts
<1> HIDE DEF m
<1>4. Len(m) = Len(q)
  BY <1>2, <1>3
<1>5. ASSUME NEW i \in 2 .. k PROVE m[i] = q[i - 1]
  <2>1. i - 1 \in 1 .. k - 1 /\ i \in 2 .. Len(e) + 1
    BY <1>2
  <2> QED BY <1>2, <1>3, <2>1
<1>6. ASSUME NEW i \in k + 1 .. Len(q) PROVE m[i] = q[i]
  <2>1. i - 1 \in k .. Len(q) - 1 /\ i \in 2 .. Len(e) + 1 /\ (i - 1) + 1 = i
    BY <1>2
  <2> QED BY <1>2, <1>3, <2>1
<1> QED BY <1>3, <1>4, <1>5, <1>6 DEF m, e

(* A hit keeps the lines, makes the one referenced the front, and leaves   *)
(* the set well formed at the new time.                                    *)
LEMMA FindHit ==
    ASSUME NEW set, NEW s, NEW tag \in Tags, NEW now \in Nat, NEW id \in Nat,
           id > now, IsSet(set), ContainersAgree(s, set),
           InRecencyOrder(set, now), IsHit(set, tag)
    PROVE  LET found == Find(set, tag, id)
           IN  /\ IsSet(found)
               /\ ContainersAgree(s, found)
               /\ InRecencyOrder(found, id)
               /\ RemembersFront(found)
               /\ Resident(found) = Resident(set)
<1> DEFINE q == set.tags_
           k == PositionOf(q, tag)
           m == <<tag>> \o Erase(q, k)
           life == [set.m_line_life_ EXCEPT ![tag].last = id]
           found == Find(set, tag, id)
<1>1. k \in 1 .. Len(q) /\ q[k] = tag
  BY DEF IsHit, Resident, PositionOf, IsSet
<1>2. q \in Seq(Tags)
  BY DEF IsSet
<1>3. /\ m \in Seq(Tags)
      /\ Len(m) = Len(q)
      /\ m[1] = tag
      /\ \A i \in 2 .. k : m[i] = q[i - 1]
      /\ \A i \in k + 1 .. Len(q) : m[i] = q[i]
  <2> HIDE DEF q, k
  <2>1. m = <<q[k]>> \o Erase(q, k)
    BY <1>1
  <2> QED BY <1>1, <1>2, <2>1, MoveToFront
<1>4. /\ found.tags_ = m
      /\ found.m_line_life_ = life
      /\ found.mru_tag_ = tag
      /\ found.mru_id_ = id
      /\ found = [tags_ |-> m, m_line_life_ |-> life, mru_tag_ |-> tag, mru_id_ |-> id]
  BY DEF Find, IsSet
<1> HIDE DEF m, k, q
<1>5. tag \in DOMAIN set.m_line_life_ /\ set.m_line_life_[tag] \in LineLife
  BY DEF IsHit, IsSet, ContainersAgree
<1>6. /\ DOMAIN life = DOMAIN set.m_line_life_
      /\ life[tag] = [first |-> set.m_line_life_[tag].first, last |-> id]
      /\ \A t \in DOMAIN life \ {tag} : life[t] = set.m_line_life_[t]
  BY <1>5 DEF LineLife
<1> HIDE DEF life
<1>7. Resident(found) = Resident(set)
  <2>1. ASSUME NEW i \in DOMAIN m PROVE \E j \in DOMAIN q : q[j] = m[i]
    <3>1. i \in 1 .. Len(q)
      BY <1>3
    <3>2. CASE i = 1
      BY <1>1, <1>2, <1>3, <3>2
    <3>3. CASE i \in 2 .. k
      <4>1. i - 1 \in DOMAIN q
        BY <3>3, <1>1, <1>2
      <4> QED BY <4>1, <1>3, <3>3
    <3>4. CASE i \in k + 1 .. Len(q)
      BY <1>1, <1>2, <1>3, <3>4
    <3>5. i = 1 \/ i \in 2 .. k \/ i \in k + 1 .. Len(q)
      BY <3>1, <1>1, <1>2
    <3> QED BY <3>2, <3>3, <3>4, <3>5
  <2>2. ASSUME NEW j \in DOMAIN q PROVE \E i \in DOMAIN m : m[i] = q[j]
    <3>1. j \in 1 .. Len(q)
      BY <1>2
    <3>2. CASE j < k
      <4>1. j + 1 \in 2 .. k /\ j + 1 \in 1 .. Len(q) /\ (j + 1) - 1 = j
        BY <3>1, <3>2, <1>1
      <4> QED BY <4>1, <1>3
    <3>3. CASE j = k
      BY <1>1, <1>3, <3>3
    <3>4. CASE j > k
      <4>1. j \in k + 1 .. Len(q)
        BY <3>1, <3>4, <1>1
      <4> QED BY <4>1, <1>3, <3>1
    <3> QED BY <3>1, <3>2, <3>3, <3>4, <1>1
  <2> QED BY <2>1, <2>2, <1>4 DEF Resident, q
<1>8. IsSet(found)
  <2>1. m \in Seq(Tags) /\ tag \in Nat /\ id \in Int
    BY <1>3, TagsSubsetNat
  <2>2. \A t \in DOMAIN life : life[t] \in LineLife
    BY <1>5, <1>6 DEF IsSet, LineLife
  <2> QED BY <1>4, <1>6, <2>1, <2>2 DEF IsSet
<1> DEFINE pos(i) == IF i = 1 THEN k ELSE IF i \in 2 .. k THEN i - 1 ELSE i
<1>9. ASSUME NEW i \in 1 .. Len(q)
      PROVE  pos(i) \in 1 .. Len(q) /\ m[i] = q[pos(i)]
  BY <1>1, <1>3
<1>10. ContainersAgree(s, found)
  <2>1. ASSUME NEW i \in 1 .. Len(q), NEW j \in 1 .. Len(q), m[i] = m[j]
        PROVE  i = j
    <3>1. pos(i) = pos(j)
      BY <2>1, <1>9, <1>2 DEF ContainersAgree, q
    <3> QED BY <3>1, <1>1
  <2>2. Len(m) <= NumWays /\ DOMAIN m = 1 .. Len(q)
    BY <1>3 DEF ContainersAgree, q
  <2>3. DOMAIN life = Resident(set) /\ \A t \in Resident(set) : SetIndexOf(t) = s
    BY <1>6 DEF ContainersAgree
  <2> QED BY <1>4, <1>7, <2>1, <2>2, <2>3 DEF ContainersAgree
<1>11. InRecencyOrder(found, id)
  <2>1. ASSUME NEW t \in Resident(set)
        PROVE  life[t].first <= life[t].last /\ life[t].last <= id
    <3>1. t \in DOMAIN life /\ set.m_line_life_[t] \in LineLife
          /\ set.m_line_life_[t].first <= set.m_line_life_[t].last
          /\ set.m_line_life_[t].last <= now
      BY <1>6 DEF ContainersAgree, IsSet, InRecencyOrder
    <3>2. CASE t = tag
      BY <3>1, <3>2, <1>6 DEF LineLife
    <3>3. CASE t # tag
      BY <3>1, <3>3, <1>6 DEF LineLife
    <3> QED BY <3>2, <3>3
  <2>2. ASSUME NEW i \in 1 .. Len(q), NEW j \in 1 .. Len(q), i < j
        PROVE  life[m[i]].last > life[m[j]].last
    <3>1. m[j] # tag
      <4>1. pos(j) # k
        BY <2>2, <1>1
      <4> QED BY <4>1, <1>1, <1>2, <1>9 DEF ContainersAgree, q
    <3>2. m[j] \in Resident(set) /\ m[i] \in Resident(set)
      BY <1>2, <1>9 DEF Resident, q
    <3>3. /\ life[m[j]] = set.m_line_life_[m[j]]
          /\ life[m[j]].last \in Nat /\ life[m[j]].last <= now
      BY <3>1, <3>2, <1>6 DEF ContainersAgree, IsSet, InRecencyOrder, LineLife
    <3>4. CASE i = 1
      BY <3>3, <3>4, <1>3, <1>6, <1>5
    <3>5. CASE i # 1
      <4>1. m[i] # tag
        <5>1. pos(i) # k
          BY <3>5, <1>1
        <5> QED BY <5>1, <1>1, <1>2, <1>9 DEF ContainersAgree, q
      <4>2. life[m[i]] = set.m_line_life_[m[i]]
        BY <4>1, <3>2, <1>6 DEF ContainersAgree
      <4>3. pos(i) < pos(j)
        BY <3>5, <2>2, <1>1
      <4>4. set.m_line_life_[q[pos(i)]].last > set.m_line_life_[q[pos(j)]].last
        BY <4>3, <1>2, <1>9 DEF InRecencyOrder, LastUse, q
      <4> QED BY <4>2, <4>4, <3>3, <1>9
    <3> QED BY <3>4, <3>5
  <2> QED BY <1>3, <1>4, <1>7, <2>1, <2>2 DEF InRecencyOrder, LastUse
<1>12. RemembersFront(found)
  BY <1>3, <1>4, <1>5, <1>6 DEF RemembersFront, LastUse
<1> QED BY <1>7, <1>8, <1>10, <1>11, <1>12

(* A miss only changes what is remembered as most recent.                  *)
LEMMA FindMiss ==
    ASSUME NEW set, NEW s, NEW tag \in Tags, NEW now \in Nat, NEW id \in Nat,
           id > now, IsSet(set), ContainersAgree(s, set),
           InRecencyOrder(set, now), ~IsHit(set, tag)
    PROVE  LET found == Find(set, tag, id)
           IN  /\ found = [tags_ |-> set.tags_, m_line_life_ |-> set.m_line_life_,
                           mru_tag_ |-> tag, mru_id_ |-> id]
               /\ IsSet(found)
               /\ ContainersAgree(s, found)
               /\ InRecencyOrder(found, now)
               /\ Resident(found) = Resident(set)
<1> DEFINE found == Find(set, tag, id)
<1>1. found = [tags_ |-> set.tags_, m_line_life_ |-> set.m_line_life_,
               mru_tag_ |-> tag, mru_id_ |-> id]
  BY DEF Find, IsSet
<1>2. tag \in Nat
  BY TagsSubsetNat
<1> HIDE DEF found
<1>3. IsSet(found)
  BY <1>1, <1>2 DEF IsSet
<1>4. Resident(found) = Resident(set)
  BY <1>1 DEF Resident
<1>5. ContainersAgree(s, found)
  BY <1>1, <1>4 DEF ContainersAgree
<1>6. InRecencyOrder(found, now)
  BY <1>1, <1>4 DEF InRecencyOrder, LastUse
<1> QED BY <1>1, <1>3, <1>4, <1>5, <1>6 DEF found

(* Being well formed at one time is being well formed at any later one.    *)
LEMMA OrderIsMonotone ==
    ASSUME NEW set, NEW s, NEW now \in Nat, NEW later \in Nat, now <= later,
           IsSet(set), ContainersAgree(s, set), InRecencyOrder(set, now)
    PROVE  InRecencyOrder(set, later)
<1>1. ASSUME NEW t \in Resident(set) PROVE set.m_line_life_[t].last <= later
  BY DEF ContainersAgree, IsSet, InRecencyOrder, LineLife
<1> QED BY <1>1 DEF InRecencyOrder

(* The lines Replace keeps, and the one it brings in: at most the line at  *)
(* the back of a full list goes.                                           *)
LEMMA ReplaceFills ==
    ASSUME NEW set, NEW s, NEW tag \in Tags, NEW now \in Nat, NEW id \in Nat,
           id > now, IsSet(set), ContainersAgree(s, set), SetIndexOf(tag) = s,
           InRecencyOrder(set, now), ~IsHit(set, tag),
           set.mru_tag_ = tag, set.mru_id_ = id
    PROVE  LET filled == Replace(set, tag, id)
           IN  /\ IsSet(filled)
               /\ ContainersAgree(s, filled)
               /\ InRecencyOrder(filled, id)
               /\ RemembersFront(filled)
               /\ Resident(filled) = (Resident(set) \ Victims(set)) \cup {tag}
<1> DEFINE q == set.tags_
           n == IF IsFull(set) THEN NumWays - 1 ELSE Len(q)
           stay == IF IsFull(set) THEN SubSeq(q, 1, NumWays - 1) ELSE q
           m == <<tag>> \o stay
           old == set.m_line_life_
           kept == DOMAIN old \ Victims(set)
           life == [t \in kept \cup {tag} |->
                       IF t = tag THEN [first |-> id, last |-> id] ELSE old[t]]
           filled == Replace(set, tag, id)
<1>1. q \in Seq(Tags) /\ Len(q) \in Nat /\ Len(q) <= NumWays /\ NumWays \in Nat \ {0}
  BY LruAssumption DEF IsSet, ContainersAgree
<1>2. n \in Nat /\ n <= Len(q) /\ n < NumWays
  BY <1>1 DEF IsFull
<1>3. stay \in Seq(Tags) /\ Len(stay) = n /\ \A i \in 1 .. n : stay[i] = q[i]
  <2>1. CASE IsFull(set)
    BY <1>1, <2>1, SubSeqProperties DEF IsFull
  <2>2. CASE ~IsFull(set)
    BY <1>1, <2>2
  <2> QED BY <2>1, <2>2
<1>4. filled = [tags_ |-> m, m_line_life_ |-> life, mru_tag_ |-> tag, mru_id_ |-> id]
  <2>1. filled = [set EXCEPT !.tags_ = m, !.m_line_life_ = life]
    BY DEF Replace
  <2> HIDE DEF m, life, filled
  <2> QED BY <2>1 DEF IsSet
<1> HIDE DEF filled
<1>5. Victims(set) = {q[i] : i \in n + 1 .. Len(q)}
  <2>1. CASE IsFull(set)
    <3>1. Len(q) = NumWays /\ n + 1 = NumWays
      BY <1>1, <2>1 DEF IsFull
    <3>2. n + 1 .. Len(q) = {NumWays}
      BY <3>1, <1>1
    <3> QED BY <2>1, <3>2 DEF Victims
  <2>2. CASE ~IsFull(set)
    <3>1. n + 1 .. Len(q) = {}
      BY <1>1, <2>2
    <3> QED BY <2>2, <3>1 DEF Victims
  <2> QED BY <2>1, <2>2
<1> HIDE DEF stay, n
<1>6. /\ m \in Seq(Tags)
      /\ Len(m) = n + 1
      /\ m[1] = tag
      /\ \A i \in 2 .. n + 1 : m[i] = q[i - 1] /\ i - 1 \in 1 .. n
  <2>1. ASSUME NEW i \in 2 .. n + 1 PROVE i - 1 \in 1 .. n
    BY <1>2
  <2> QED BY <1>2, <1>3, <2>1, PushFrontShifts
<1> HIDE DEF m, life, kept, old, q
<1>7. \A i, j \in 1 .. Len(q) : q[i] = q[j] => i = j
  BY <1>1 DEF ContainersAgree, q
<1>8. Resident(set) \ Victims(set) = {q[i] : i \in 1 .. n}
  <2>1. Resident(set) = {q[i] : i \in 1 .. Len(q)}
    BY <1>1 DEF Resident, q
  <2>2. ASSUME NEW i \in 1 .. n PROVE q[i] \in Resident(set) /\ q[i] \notin Victims(set)
    BY <1>1, <1>2, <1>5, <1>7, <2>1
  <2>3. ASSUME NEW i \in 1 .. Len(q), q[i] \notin Victims(set) PROVE i \in 1 .. n
    BY <1>1, <1>2, <1>5, <2>3
  <2> QED BY <2>1, <2>2, <2>3
<1>9. Resident(filled) = (Resident(set) \ Victims(set)) \cup {tag}
  <2>1. Resident(filled) = {m[i] : i \in 1 .. n + 1}
    <3>1. filled.tags_ = m /\ DOMAIN m = 1 .. n + 1
      BY <1>4, <1>6, <1>2
    <3> QED BY <3>1 DEF Resident
  <2>2. ASSUME NEW i \in 1 .. n PROVE q[i] \in {m[j] : j \in 1 .. n + 1}
    <3>1. i + 1 \in 2 .. n + 1 /\ i + 1 \in 1 .. n + 1 /\ (i + 1) - 1 = i
      BY <1>2
    <3> QED BY <3>1, <1>6
  <2>3. ASSUME NEW j \in 1 .. n + 1, j # 1 PROVE m[j] \in {q[i] : i \in 1 .. n}
    <3>1. j \in 2 .. n + 1
      BY <2>3, <1>2
    <3> QED BY <3>1, <1>6
  <2>4. 1 \in 1 .. n + 1
    BY <1>2
  <2> QED BY <1>6, <1>8, <2>1, <2>2, <2>3, <2>4
<1>10. /\ DOMAIN life = (Resident(set) \ Victims(set)) \cup {tag}
       /\ life[tag] = [first |-> id, last |-> id]
       /\ \A t \in Resident(set) \ Victims(set) : life[t] = old[t] /\ t # tag
  BY DEF life, kept, old, ContainersAgree, IsHit
<1>11. \A t \in Resident(set) : /\ old[t] \in LineLife /\ t \in Tags
                                 /\ old[t].first <= old[t].last
                                 /\ old[t].last <= now
                                 /\ SetIndexOf(t) = s
  BY DEF ContainersAgree, IsSet, InRecencyOrder, old
<1>12. IsSet(filled)
  <2>1. tag \in Nat /\ id \in Int
    BY TagsSubsetNat
  <2>2. \A t \in DOMAIN life : life[t] \in LineLife /\ t \in Tags
    BY <1>10, <1>11 DEF LineLife
  <2> QED BY <1>4, <1>6, <2>1, <2>2 DEF IsSet
<1>13. ContainersAgree(s, filled)
  <2>1. ASSUME NEW i \in 1 .. n + 1, NEW j \in 1 .. n + 1, m[i] = m[j] PROVE i = j
    <3>1. ASSUME NEW l \in 2 .. n + 1 PROVE m[l] # tag
      <4>1. m[l] \in Resident(set)
        BY <1>6, <1>8
      <4> QED BY <4>1 DEF IsHit
    <3>2. CASE i = 1 \/ j = 1
      BY <3>1, <3>2, <2>1, <1>2, <1>6
    <3>3. CASE i # 1 /\ j # 1
      <4>1. i \in 2 .. n + 1 /\ j \in 2 .. n + 1
        BY <3>3, <1>2
      <4>2. q[i - 1] = q[j - 1] /\ i - 1 \in 1 .. Len(q) /\ j - 1 \in 1 .. Len(q)
        BY <4>1, <2>1, <1>1, <1>2, <1>6
      <4>3. i - 1 = j - 1
        BY <4>2, <1>7
      <4> QED BY <4>1, <4>3
    <3> QED BY <3>2, <3>3
  <2>2. Len(m) <= NumWays /\ DOMAIN m = 1 .. n + 1
    BY <1>1, <1>2, <1>6
  <2> QED BY <1>4, <1>9, <1>10, <1>11, <2>1, <2>2 DEF ContainersAgree
<1>14. InRecencyOrder(filled, id)
  <2>1. ASSUME NEW t \in DOMAIN life
        PROVE  life[t].first <= life[t].last /\ life[t].last <= id
    BY <1>10, <1>11 DEF LineLife
  <2>2. ASSUME NEW i \in 1 .. n + 1, NEW j \in 1 .. n + 1, i < j
        PROVE  life[m[i]].last > life[m[j]].last
    <3>1. j \in 2 .. n + 1 /\ j - 1 \in 1 .. n /\ m[j] = q[j - 1]
      BY <2>2, <1>2, <1>6
    <3>2. q[j - 1] \in Resident(set) \ Victims(set) /\ life[m[j]] = old[q[j - 1]]
      BY <3>1, <1>8, <1>10
    <3>3. CASE i = 1
      BY <3>2, <3>3, <1>6, <1>10, <1>11 DEF LineLife
    <3>4. CASE i # 1
      <4>1. i \in 2 .. n + 1 /\ i - 1 \in 1 .. n /\ m[i] = q[i - 1]
        BY <3>4, <1>2, <1>6
      <4>2. life[m[i]] = old[q[i - 1]]
        BY <4>1, <1>8, <1>10
      <4>3. old[q[i - 1]].last > old[q[j - 1]].last
        <5>1. i - 1 \in DOMAIN q /\ j - 1 \in DOMAIN q /\ i - 1 < j - 1
          BY <3>1, <4>1, <2>2, <1>1, <1>2
        <5> QED BY <5>1 DEF InRecencyOrder, LastUse, q, old
      <4> QED BY <4>2, <4>3, <3>2
    <3> QED BY <3>3, <3>4
  <2> QED BY <1>2, <1>4, <1>6, <1>9, <1>10, <2>1, <2>2 DEF InRecencyOrder, LastUse
<1>15. RemembersFront(filled)
  BY <1>4, <1>6, <1>10 DEF RemembersFront, LastUse
<1> QED BY <1>9, <1>12, <1>13, <1>14, <1>15 DEF filled

(* One reference to a set, as AccessSingleLine and FetchSingleLine make    *)
(* it: Find, and Replace if the line is to be filled.                      *)
LEMMA SetAfterOK ==
    ASSUME NEW set, NEW s, NEW tag \in Tags, NEW now \in Nat, NEW id \in Nat,
           id > now, IsSet(set), ContainersAgree(s, set), SetIndexOf(tag) = s,
           InRecencyOrder(set, now), NEW may_fill \in BOOLEAN
    PROVE  LET is_fill == ~IsHit(set, tag) /\ may_fill
               after == SetAfter(set, tag, id, is_fill)
           IN  /\ IsSet(after)
               /\ ContainersAgree(s, after)
               /\ InRecencyOrder(after, id)
               /\ may_fill => RemembersFront(after)
               /\ Resident(after) = IF is_fill
                                    THEN (Resident(set) \ Victims(set)) \cup {tag}
                                    ELSE Resident(set)
<1> DEFINE found == Find(set, tag, id)
<1>1. CASE IsHit(set, tag)
  BY <1>1, FindHit DEF SetAfter
<1>2. CASE ~IsHit(set, tag)
  <2>1. /\ found = [tags_ |-> set.tags_, m_line_life_ |-> set.m_line_life_,
                    mru_tag_ |-> tag, mru_id_ |-> id]
        /\ IsSet(found)
        /\ ContainersAgree(s, found)
        /\ InRecencyOrder(found, now)
        /\ Resident(found) = Resident(set)
    BY <1>2, FindMiss
  <2> HIDE DEF found
  <2>2. /\ ~IsHit(found, tag)
        /\ found.mru_tag_ = tag /\ found.mru_id_ = id
        /\ Victims(found) = Victims(set)
    BY <1>2, <2>1 DEF IsHit, Victims, IsFull
  <2>3. CASE may_fill
    <3>1. /\ IsSet(Replace(found, tag, id))
          /\ ContainersAgree(s, Replace(found, tag, id))
          /\ InRecencyOrder(Replace(found, tag, id), id)
          /\ RemembersFront(Replace(found, tag, id))
          /\ Resident(Replace(found, tag, id))
                = (Resident(found) \ Victims(found)) \cup {tag}
      BY <2>1, <2>2, ReplaceFills
    <3> QED BY <1>2, <2>1, <2>2, <2>3, <3>1 DEF SetAfter, found
  <2>4. CASE ~may_fill
    <3>1. InRecencyOrder(found, id)
      BY <2>1, OrderIsMonotone
    <3> QED BY <1>2, <2>1, <2>4, <3>1 DEF SetAfter, found
  <2> QED BY <2>3, <2>4
<1> QED BY <1>1, <1>2

(* The statistics of a set stay integers.                                  *)
LEMMA SetLifeAfterOK ==
    ASSUME NEW life \in SetLifeType, NEW set, NEW s, IsSet(set), ContainersAgree(s, set),
           NEW id \in Nat, NEW is_fill \in BOOLEAN
    PROVE  SetLifeAfter(life, set, id, is_fill) \in SetLifeType
<1> DEFINE gone == EvictedLife(set)
<1>1. gone.first \in Int /\ gone.last \in Int
  <2>1. CASE IsFull(set)
    <3>1. set.tags_[NumWays] \in DOMAIN set.m_line_life_
      BY <2>1, LruAssumption DEF IsFull, IsSet, ContainersAgree, Resident
    <3> QED BY <2>1, <3>1 DEF EvictedLife, IsSet, LineLife
  <2>2. CASE ~IsFull(set)
    BY <2>2 DEF EvictedLife
  <2> QED BY <2>1, <2>2
<1> HIDE DEF gone
<1>2. set.mru_id_ \in Int
  BY DEF IsSet
<1> QED BY <1>1, <1>2 DEF SetLifeAfter, SetLifeType, gone

-----------------------------------------------------------------------------
(* The cache.                                                              *)

(* The inductive invariant: the safety properties themselves, taken        *)
(* together.  The recency order is what makes the structures' agreement    *)
(* useful, and neither survives a step without the types.                  *)
IInv == TypeOK /\ StructuresAgree /\ RecencyOrder /\ MruIsFront /\ RowsCoverIndices

(* A cache as constructed satisfies the invariant.                         *)
LEMMA InitIInv == Init => IInv
<1> SUFFICES ASSUME NEW junk \in [SetIndex -> InitialMruIds], cache = NewCache(junk)
             PROVE  IInv
  BY DEF Init
<1>1. /\ cache.sets_ = [s \in SetIndex |-> NewSet(junk[s])]
      /\ cache.ref_id_ = 0
      /\ cache.of_inst_ = NewProfile
      /\ cache.of_addr_ = NewProfile
      /\ cache.of_time_ = NewProfile
      /\ cache = [sets_       |-> cache.sets_,
                  v_set_life_ |-> [s \in SetIndex |-> NewSetLife],
                  ref_id_     |-> 0,
                  miss_hit_   |-> NewMissHit,
                  of_inst_    |-> NewProfile,
                  of_addr_    |-> NewProfile,
                  of_time_    |-> NewProfile]
  BY DEF NewCache
<1>2. ASSUME NEW s \in SetIndex
      PROVE  /\ IsSet(cache.sets_[s]) /\ ContainersAgree(s, cache.sets_[s])
             /\ InRecencyOrder(cache.sets_[s], 0) /\ RemembersFront(cache.sets_[s])
  <2>1. junk[s] \in Int
    BY LruAssumption
  <2>2. cache.sets_[s] = NewSet(junk[s])
    BY <1>1
  <2>3. << >> \in Seq(Tags) /\ Len(<< >>) = 0 /\ DOMAIN << >> = {}
    OBVIOUS
  <2>4. Resident(NewSet(junk[s])) = {}
    BY <2>3 DEF Resident, NewSet
  <2>5. IsSet(NewSet(junk[s]))
    BY <2>1, <2>3 DEF IsSet, NewSet
  <2>6. ContainersAgree(s, NewSet(junk[s]))
    BY <2>3, <2>4, LruAssumption DEF ContainersAgree, NewSet
  <2>7. InRecencyOrder(NewSet(junk[s]), 0) /\ RemembersFront(NewSet(junk[s]))
    BY <2>3, <2>4 DEF InRecencyOrder, RemembersFront, NewSet
  <2> QED BY <2>2, <2>5, <2>6, <2>7
<1>3. NewSetLife \in SetLifeType /\ NewMissHit \in (0 .. Uint32 - 1) \X (0 .. Uint32 - 1)
  BY CounterAssumption DEF NewSetLife, SetLifeType, NewMissHit
<1>4. TypeOK
  <2>1. cache.sets_ \in [SetIndex -> {cache.sets_[s] : s \in SetIndex}]
    BY <1>1
  <2> QED BY <1>1, <1>2, <1>3, <2>1, NewProfileOK DEF TypeOK
<1> QED BY <1>1, <1>2, <1>4, NewProfileOK
        DEF IInv, StructuresAgree, RecencyOrder, MruIsFront, RowsCoverIndices

(* One reference, of whatever kind, preserves the invariant; only the set  *)
(* of the line referenced changes.                                         *)
LEMMA ReferenceIInv ==
    ASSUME IInv, NEW inst \in Addrs \cup Insts, NEW addr \in Addrs \cup Insts,
           NEW access_type \in kAccessTypes, NEW is_fetch \in BOOLEAN,
           NEW may_fill \in BOOLEAN, WriteAllocate => may_fill,
           Reference(inst, addr, access_type, is_fetch, may_fill)
    PROVE  IInv'
<1> DEFINE tag == TagOf(addr)
           s == SetIndexOf(tag)
           set == cache.sets_[s]
           now == cache.ref_id_
           id == now + 1
           is_hit == IsHit(set, tag)
           is_mru == IsMru(set, tag)
           is_fill == ~is_hit /\ may_fill
           after == SetAfter(set, tag, id, is_fill)
           sets == [cache.sets_ EXCEPT ![s] = after]
           lives == [cache.v_set_life_ EXCEPT ![s] = SetLifeAfter(@, set, id, is_fill)]
           insts == CountKeyMru(cache.of_inst_, inst, access_type, is_hit, is_mru)
           addrs == IF is_fetch THEN cache.of_addr_
                    ELSE CountKeyMru(cache.of_addr_, addr, access_type, is_hit, is_mru)
           times == CountKeyMru(cache.of_time_, Epoch(now), access_type, is_hit, is_mru)
<1>1. cache' = [sets_ |-> sets, v_set_life_ |-> lives, ref_id_ |-> id,
                miss_hit_ |-> Inc(cache.miss_hit_, is_hit),
                of_inst_ |-> insts, of_addr_ |-> addrs, of_time_ |-> times]
  BY DEF Reference
<1>2. /\ inst \in Nat /\ addr \in Nat
      /\ tag \in Nat /\ tag \in Tags /\ s \in SetIndex
  BY AddrHasTag
<1>3. /\ now \in Nat /\ id \in Nat /\ id > now
      /\ is_hit \in BOOLEAN /\ is_mru \in BOOLEAN /\ is_fill \in BOOLEAN
  BY DEF IInv, TypeOK, IsHit, IsMru
<1>4. \A t \in SetIndex : /\ IsSet(cache.sets_[t])
                          /\ ContainersAgree(t, cache.sets_[t])
                          /\ InRecencyOrder(cache.sets_[t], now)
  BY DEF IInv, TypeOK, StructuresAgree, RecencyOrder
<1>5. /\ IsSet(after)
      /\ ContainersAgree(s, after)
      /\ InRecencyOrder(after, id)
      /\ may_fill => RemembersFront(after)
  <2> HIDE DEF tag, s, set, now, id
  <2> QED BY <1>2, <1>3, <1>4, SetAfterOK DEF s, set
<1> HIDE DEF after
<1>6. DOMAIN cache.sets_ = SetIndex /\ DOMAIN cache.v_set_life_ = SetIndex
  BY DEF IInv, TypeOK
<1>7. \A t \in SetIndex : sets[t] = IF t = s THEN after ELSE cache.sets_[t]
  BY <1>2, <1>6
<1>8. lives \in [SetIndex -> SetLifeType]
  <2>1. cache.v_set_life_ \in [SetIndex -> SetLifeType]
    BY DEF IInv, TypeOK
  <2>2. SetLifeAfter(cache.v_set_life_[s], set, id, is_fill) \in SetLifeType
    <3> HIDE DEF tag, s, now, id, is_fill
    <3> QED BY <1>2, <1>3, <1>4, <2>1, SetLifeAfterOK
  <2> HIDE DEF tag, s, set, now, id, is_fill
  <2> QED BY <1>2, <2>1, <2>2
<1>9. /\ insts \in ProfileType /\ Covered(insts)
      /\ addrs \in ProfileType /\ Covered(addrs)
      /\ times \in ProfileType /\ Covered(times)
  <2>1. /\ cache.of_inst_ \in ProfileType /\ Covered(cache.of_inst_)
        /\ cache.of_addr_ \in ProfileType /\ Covered(cache.of_addr_)
        /\ cache.of_time_ \in ProfileType /\ Covered(cache.of_time_)
    BY DEF IInv, TypeOK, RowsCoverIndices
  <2>2. Epoch(now) \in Nat
    BY <1>3, CounterAssumption DEF Epoch
  <2> HIDE DEF tag, s, set, now, id, is_hit, is_mru
  <2> QED BY <1>2, <1>3, <2>1, <2>2, CountKeyMruOK
<1>10. Inc(cache.miss_hit_, is_hit) \in (0 .. Uint32 - 1) \X (0 .. Uint32 - 1)
  <2>1. cache.miss_hit_ \in (0 .. Uint32 - 1) \X (0 .. Uint32 - 1)
    BY DEF IInv, TypeOK
  <2> HIDE DEF is_hit
  <2> QED BY <1>3, <2>1, IncOK
<1> HIDE DEF tag, s, set, id, is_hit, is_mru, is_fill, lives, insts, addrs, times
<1>11. /\ cache'.sets_ = sets /\ cache'.ref_id_ = id
       /\ cache'.of_inst_ = insts /\ cache'.of_addr_ = addrs /\ cache'.of_time_ = times
  BY <1>1
<1>12. ASSUME NEW t \in SetIndex
       PROVE  /\ IsSet(sets[t]) /\ ContainersAgree(t, sets[t])
              /\ InRecencyOrder(sets[t], id)
              /\ WriteAllocate => RemembersFront(sets[t])
  <2>1. CASE t = s
    BY <1>5, <1>7, <2>1
  <2>2. CASE t # s
    <3>1. sets[t] = cache.sets_[t]
      BY <1>7, <2>2
    <3>2. InRecencyOrder(cache.sets_[t], id)
      <4> HIDE DEF now
      <4> QED BY <1>3, <1>4, OrderIsMonotone
    <3>3. WriteAllocate => RemembersFront(cache.sets_[t])
      BY DEF IInv, MruIsFront
    <3> QED BY <1>4, <3>1, <3>2, <3>3
  <2> QED BY <2>1, <2>2
<1>13. TypeOK'
  <2>1. sets \in [SetIndex -> {sets[t] : t \in SetIndex}]
    BY <1>6
  <2> HIDE DEF sets
  <2>2. cache' \in [sets_       : [SetIndex -> {cache'.sets_[t] : t \in SetIndex}],
                    v_set_life_ : [SetIndex -> SetLifeType],
                    ref_id_     : Nat,
                    miss_hit_   : (0 .. Uint32 - 1) \X (0 .. Uint32 - 1),
                    of_inst_    : ProfileType,
                    of_addr_    : ProfileType,
                    of_time_    : ProfileType]
    BY <1>1, <1>3, <1>8, <1>9, <1>10, <1>11, <2>1
  <2>3. \A t \in SetIndex : IsSet(cache'.sets_[t])
    BY <1>11, <1>12
  <2> QED BY <2>2, <2>3 DEF TypeOK, IsSet
<1> HIDE DEF sets
<1>14. StructuresAgree'
  BY <1>11, <1>12 DEF StructuresAgree, ContainersAgree, Resident
<1>15. RecencyOrder'
  BY <1>11, <1>12 DEF RecencyOrder, InRecencyOrder, LastUse, Resident
<1>16. MruIsFront'
  BY <1>11, <1>12 DEF MruIsFront, RemembersFront, LastUse
<1>17. RowsCoverIndices'
  BY <1>9, <1>11 DEF RowsCoverIndices, Covered
<1> QED BY <1>13, <1>14, <1>15, <1>16, <1>17 DEF IInv

(* A reference to a set that evicts takes the least recently used line of  *)
(* a full set and no other.                                                *)
LEMMA ReferenceEvicts ==
    ASSUME IInv, NEW inst \in Addrs \cup Insts, NEW addr \in Addrs \cup Insts,
           NEW access_type \in kAccessTypes, NEW is_fetch \in BOOLEAN,
           NEW may_fill \in BOOLEAN,
           Reference(inst, addr, access_type, is_fetch, may_fill),
           NEW r \in SetIndex,
           NEW t \in Resident(cache.sets_[r]) \ Resident(cache'.sets_[r])
    PROVE  LET old == cache.sets_[r]
           IN  /\ IsFull(old)
               /\ Resident(old) \ Resident(cache'.sets_[r]) = {t}
               /\ \A u \in Resident(old) \ {t} :
                    old.m_line_life_[t].last < old.m_line_life_[u].last
<1> DEFINE tag == TagOf(addr)
           s == SetIndexOf(tag)
           set == cache.sets_[s]
           now == cache.ref_id_
           id == now + 1
           is_fill == ~IsHit(set, tag) /\ may_fill
           after == SetAfter(set, tag, id, is_fill)
<1>1. cache'.sets_ = [cache.sets_ EXCEPT ![s] = after]
  BY DEF Reference
<1>2. tag \in Tags /\ s \in SetIndex
  BY AddrHasTag
<1>3. now \in Nat /\ id \in Nat /\ id > now /\ DOMAIN cache.sets_ = SetIndex
  BY DEF IInv, TypeOK
<1>4. /\ IsSet(set) /\ ContainersAgree(s, set) /\ InRecencyOrder(set, now)
  BY <1>2 DEF IInv, TypeOK, StructuresAgree, RecencyOrder
<1>5. Resident(after) = IF is_fill THEN (Resident(set) \ Victims(set)) \cup {tag}
                                   ELSE Resident(set)
  <2> HIDE DEF tag, set, now, id
  <2> QED BY <1>2, <1>3, <1>4, SetAfterOK
<1> HIDE DEF after, now, id
<1>6. r = s
  BY <1>1, <1>2, <1>3
<1>7. cache.sets_[r] = set /\ cache'.sets_[r] = after
  BY <1>1, <1>2, <1>3, <1>6
<1>8. is_fill /\ t \in Victims(set) /\ t # tag
  BY <1>5, <1>7 DEF IsHit
<1>9. IsFull(set) /\ t = set.tags_[NumWays] /\ Victims(set) = {t}
  BY <1>8 DEF Victims
<1> HIDE DEF set, tag, is_fill
<1>10. Resident(set) \ Resident(after) = {t}
  BY <1>5, <1>7, <1>8, <1>9
<1>11. ASSUME NEW u \in Resident(set) \ {t}
       PROVE  set.m_line_life_[t].last < set.m_line_life_[u].last
  <2>1. NumWays \in DOMAIN set.tags_ /\ DOMAIN set.tags_ = 1 .. NumWays
    BY <1>4, <1>9, LruAssumption DEF IsFull, IsSet
  <2>2. PICK i \in 1 .. NumWays : set.tags_[i] = u
    BY <2>1 DEF Resident
  <2>3. i < NumWays
    BY <1>9, <2>2, LruAssumption
  <2>4. LastUse(set, i) > LastUse(set, NumWays)
    BY <1>4, <2>1, <2>2, <2>3 DEF InRecencyOrder
  <2>5. set.m_line_life_[u].last \in Nat /\ set.m_line_life_[t].last \in Nat
    BY <1>4, <1>7 DEF ContainersAgree, IsSet, LineLife
  <2> QED BY <1>9, <2>2, <2>4, <2>5 DEF LastUse
<1> QED BY <1>7, <1>9, <1>10, <1>11

(* Every step of the specification is one reference.                       *)
LEMMA NextIsReference ==
    ASSUME Next
    PROVE  \E inst \in Addrs \cup Insts, addr \in Addrs \cup Insts,
              access_type \in kAccessTypes, is_fetch, may_fill \in BOOLEAN :
              /\ WriteAllocate => may_fill
              /\ is_fetch => access_type = kLoad
              /\ Reference(inst, addr, access_type, is_fetch, may_fill)
<1>1. PICK inst \in Insts : (\E addr \in Addrs : DataReference(inst, addr)) \/ Fetch(inst)
  BY DEF Next
<1>2. CASE \E addr \in Addrs : DataReference(inst, addr)
  <2>1. PICK addr \in Addrs, access_type \in kAccessTypes :
            Reference(inst, addr, access_type, FALSE, Allocates(access_type))
    BY <1>2 DEF DataReference, AccessSingleLine, AccessMultipleLines
  <2>2. Allocates(access_type) \in BOOLEAN /\ (WriteAllocate => Allocates(access_type))
    BY LruAssumption DEF Allocates
  <2> QED BY <2>1, <2>2
<1>3. CASE Fetch(inst)
  <2>1. Reference(inst, inst, kLoad, TRUE, WriteAllocate)
    BY <1>3 DEF Fetch, FetchSingleLine, FetchMultipleLines
  <2>2. kLoad \in kAccessTypes /\ WriteAllocate \in BOOLEAN
    BY LruAssumption DEF kAccessTypes
  <2> QED BY <2>1, <2>2
<1> QED BY <1>1, <1>2, <1>3

(* A reference keeps the invariant.                                        *)
LEMMA NextIInv == IInv /\ [Next]_cache => IInv'
<1> SUFFICES ASSUME IInv, [Next]_cache PROVE IInv'
  OBVIOUS
<1>1. CASE Next
  BY <1>1, NextIsReference, ReferenceIInv
<1>2. CASE UNCHANGED cache
  BY <1>2 DEF IInv, TypeOK, StructuresAgree, RecencyOrder, MruIsFront, RowsCoverIndices,
              IsSet, ContainersAgree, InRecencyOrder, LastUse, RemembersFront, Resident, Covered
<1> QED BY <1>1, <1>2

(* The invariant holds in every reachable state of every cache.            *)
THEOREM InvariantHolds == Spec => []IInv
BY InitIInv, NextIInv, PTL DEF Spec

(* Type correctness, for every geometry and stream of references.          *)
THEOREM TypeCorrect == Spec => []TypeOK
BY InvariantHolds, PTL DEF IInv

(* A set's list and its life map always describe the same lines, at most   *)
(* NumWays of them, none twice, all of this set.                           *)
THEOREM StructuresAlwaysAgree == Spec => []StructuresAgree
BY InvariantHolds, PTL DEF IInv

(* The list is always in strict order of last use.                         *)
THEOREM AlwaysInRecencyOrder == Spec => []RecencyOrder
BY InvariantHolds, PTL DEF IInv

(* In a write-allocate cache what is remembered as most recently used is   *)
(* the front of the list.                                                  *)
THEOREM MruAlwaysFront == Spec => []MruIsFront
BY InvariantHolds, PTL DEF IInv

(* No profile is ever indexed past its rows.                               *)
THEOREM RowsAlwaysCover == Spec => []RowsCoverIndices
BY InvariantHolds, PTL DEF IInv

(* Only the least recently used line of a full set ever leaves it.         *)
THEOREM OnlyLeastRecentEvicted == Spec => EvictsLeastRecent
<1>1. IInv /\ [Next]_cache =>
        [\A s \in SetIndex :
           LET old == cache.sets_[s]
               gone == Resident(old) \ Resident(cache'.sets_[s])
           IN  \A t \in gone :
                 /\ IsFull(old)
                 /\ gone = {t}
                 /\ \A u \in Resident(old) \ {t} :
                      old.m_line_life_[t].last < old.m_line_life_[u].last]_cache
  BY NextIsReference, ReferenceEvicts
<1> QED BY <1>1, InvariantHolds, PTL DEF Spec, EvictsLeastRecent

-----------------------------------------------------------------------------
(* The profiles.                                                           *)

(* A reference is counted once, as a hit or a miss of its kind, and a hit  *)
(* once more as MRU or not.                                                *)
LEMMA GainsOf ==
    ASSUME NEW access_type \in kAccessTypes, NEW is_hit \in BOOLEAN, NEW is_mru \in BOOLEAN
    PROVE  LET gain(c) == Gain(c, access_type, is_hit, is_mru)
           IN  /\ \A c \in CounterId : gain(c) \in Nat
               /\ gain(0) + gain(2) = IF is_hit THEN 0 ELSE 1
               /\ gain(1) + gain(3) = IF is_hit THEN 1 ELSE 0
               /\ gain(1) = gain(4) + gain(5) /\ gain(3) = gain(6) + gain(7)
               /\ access_type = kLoad => \A c \in {2, 3, 6, 7} : gain(c) = 0
<1>1. CASE access_type = 0 /\ is_hit
  BY <1>1 DEF Gain, MissHitId, MruId, B2I, kLoad
<1>2. CASE access_type = 0 /\ ~is_hit
  BY <1>2 DEF Gain, MissHitId, MruId, B2I, kLoad
<1>3. CASE access_type = 1 /\ is_hit
  BY <1>3 DEF Gain, MissHitId, MruId, B2I, kLoad
<1>4. CASE access_type = 1 /\ ~is_hit
  BY <1>4 DEF Gain, MissHitId, MruId, B2I, kLoad
<1> QED BY <1>1, <1>2, <1>3, <1>4 DEF kAccessTypes, kLoad, kStore

(* Every profile of a cache as constructed sums up to zero.                *)
LEMMA InitProfiles == Init => ProfilesAgree
<1> SUFFICES ASSUME NEW junk \in [SetIndex -> InitialMruIds], cache = NewCache(junk)
             PROVE  ProfilesAgree
  BY DEF Init
<1>1. /\ cache.of_inst_ = NewProfile /\ cache.of_addr_ = NewProfile
      /\ cache.of_time_ = NewProfile /\ cache.ref_id_ = 0 /\ cache.miss_hit_ = <<0, 0>>
  BY DEF NewCache, NewMissHit
<1>2. \A c \in CounterId : ColumnSum(NewProfile, c) = 0
  BY NewProfileSum
<1>3. /\ 0 \in CounterId /\ 1 \in CounterId /\ 2 \in CounterId /\ 3 \in CounterId
      /\ 4 \in CounterId /\ 5 \in CounterId /\ 6 \in CounterId /\ 7 \in CounterId
  BY DEF CounterId
<1>4. 0 = 0 % Uint32
  BY CounterAssumption
<1> QED BY <1>1, <1>2, <1>3, <1>4 DEF ProfilesAgree

(* A reference is counted alike in the instruction and the time profile    *)
(* and the totals, and in the address profile unless it is a fetch.        *)
LEMMA ReferenceProfiles ==
    ASSUME IInv, ProfilesAgree, NEW inst \in Addrs \cup Insts, NEW addr \in Addrs \cup Insts,
           NEW access_type \in kAccessTypes, NEW is_fetch \in BOOLEAN,
           NEW may_fill \in BOOLEAN, is_fetch => access_type = kLoad,
           Reference(inst, addr, access_type, is_fetch, may_fill)
    PROVE  ProfilesAgree'
<1> DEFINE tag == TagOf(addr)
           set == cache.sets_[SetIndexOf(tag)]
           is_hit == IsHit(set, tag)
           is_mru == IsMru(set, tag)
           x(c) == ColumnSum(cache.of_inst_, c)
           y(c) == ColumnSum(cache.of_addr_, c)
           z(c) == ColumnSum(cache.of_time_, c)
           g(c) == Gain(c, access_type, is_hit, is_mru)
<1>1. /\ cache'.ref_id_ = cache.ref_id_ + 1
      /\ cache'.miss_hit_ = Inc(cache.miss_hit_, is_hit)
      /\ cache'.of_inst_ = CountKeyMru(cache.of_inst_, inst, access_type, is_hit, is_mru)
      /\ cache'.of_addr_ = IF is_fetch THEN cache.of_addr_
                           ELSE CountKeyMru(cache.of_addr_, addr, access_type, is_hit, is_mru)
      /\ cache'.of_time_ = CountKeyMru(cache.of_time_, Epoch(cache.ref_id_),
                                       access_type, is_hit, is_mru)
  BY DEF Reference
<1>2. /\ inst \in Nat /\ addr \in Nat /\ Epoch(cache.ref_id_) \in Nat
      /\ cache.ref_id_ \in Nat
      /\ is_hit \in BOOLEAN /\ is_mru \in BOOLEAN
      /\ cache.miss_hit_ \in (0 .. Uint32 - 1) \X (0 .. Uint32 - 1)
  <2>1. cache.ref_id_ \in Nat /\ cache.miss_hit_ \in (0 .. Uint32 - 1) \X (0 .. Uint32 - 1)
    BY DEF IInv, TypeOK
  <2>2. Epoch(cache.ref_id_) \in Nat
    BY <2>1, CounterAssumption DEF Epoch
  <2> QED BY <2>1, <2>2, AddrHasTag DEF IsHit, IsMru
<1>3. /\ cache.of_inst_ \in ProfileType /\ Covered(cache.of_inst_)
      /\ cache.of_addr_ \in ProfileType /\ Covered(cache.of_addr_)
      /\ cache.of_time_ \in ProfileType /\ Covered(cache.of_time_)
  BY DEF IInv, TypeOK, RowsCoverIndices
<1> HIDE DEF tag, set, is_hit, is_mru
<1>4. ASSUME NEW c \in CounterId
      PROVE  /\ x(c) \in Nat /\ y(c) \in Nat /\ z(c) \in Nat /\ g(c) \in Nat
             /\ ColumnSum(cache'.of_inst_, c) = x(c) + g(c)
             /\ ColumnSum(cache'.of_time_, c) = z(c) + g(c)
             /\ ColumnSum(cache'.of_addr_, c) = IF is_fetch THEN y(c) ELSE y(c) + g(c)
  <2>1. g(c) \in Nat
    BY <1>2, GainsOf
  <2>2. /\ x(c) \in Nat
        /\ ColumnSum(cache'.of_inst_, c) = x(c) + g(c)
    BY <1>1, <1>2, <1>3, CountKeyMruSum
  <2>3. /\ z(c) \in Nat
        /\ ColumnSum(cache'.of_time_, c) = z(c) + g(c)
    BY <1>1, <1>2, <1>3, CountKeyMruSum
  <2>4. /\ y(c) \in Nat
        /\ ColumnSum(CountKeyMru(cache.of_addr_, addr, access_type, is_hit, is_mru), c)
             = y(c) + g(c)
    BY <1>2, <1>3, CountKeyMruSum
  <2> QED BY <1>1, <2>1, <2>2, <2>3, <2>4
<1>5. /\ g(0) + g(2) = IF is_hit THEN 0 ELSE 1
      /\ g(1) + g(3) = IF is_hit THEN 1 ELSE 0
      /\ g(1) = g(4) + g(5) /\ g(3) = g(6) + g(7)
      /\ is_fetch => \A c \in {2, 3, 6, 7} : g(c) = 0
  BY <1>2, GainsOf
<1>6. /\ \A c \in CounterId : x(c) = z(c)
      /\ cache.miss_hit_[1] = (x(0) + x(2)) % Uint32
      /\ cache.miss_hit_[2] = (x(1) + x(3)) % Uint32
      /\ x(0) + x(1) + x(2) + x(3) = cache.ref_id_
      /\ x(1) = x(4) + x(5) /\ x(3) = x(6) + x(7)
      /\ \A c \in {2, 3, 6, 7} : y(c) = x(c)
      /\ \A c \in {0, 1, 4, 5} : y(c) <= x(c)
  BY DEF ProfilesAgree
<1>7. /\ 0 \in CounterId /\ 1 \in CounterId /\ 2 \in CounterId /\ 3 \in CounterId
      /\ 4 \in CounterId /\ 5 \in CounterId /\ 6 \in CounterId /\ 7 \in CounterId
  BY DEF CounterId
<1> DEFINE x1(c) == ColumnSum(cache'.of_inst_, c)
           y1(c) == ColumnSum(cache'.of_addr_, c)
           z1(c) == ColumnSum(cache'.of_time_, c)
<1> HIDE DEF x, y, z, g, x1, y1, z1
<1>8. \A c \in CounterId : /\ x(c) \in Nat /\ y(c) \in Nat /\ z(c) \in Nat /\ g(c) \in Nat
                           /\ x1(c) = x(c) + g(c) /\ z1(c) = z(c) + g(c)
                           /\ y1(c) = IF is_fetch THEN y(c) ELSE y(c) + g(c)
  BY <1>4 DEF x1, y1, z1
<1>9. /\ x(0) \in Nat /\ x(1) \in Nat /\ x(2) \in Nat /\ x(3) \in Nat
      /\ x(4) \in Nat /\ x(5) \in Nat /\ x(6) \in Nat /\ x(7) \in Nat
      /\ g(0) \in Nat /\ g(1) \in Nat /\ g(2) \in Nat /\ g(3) \in Nat
      /\ g(4) \in Nat /\ g(5) \in Nat /\ g(6) \in Nat /\ g(7) \in Nat
      /\ x1(0) = x(0) + g(0) /\ x1(1) = x(1) + g(1) /\ x1(2) = x(2) + g(2)
      /\ x1(3) = x(3) + g(3) /\ x1(4) = x(4) + g(4) /\ x1(5) = x(5) + g(5)
      /\ x1(6) = x(6) + g(6) /\ x1(7) = x(7) + g(7)
  BY <1>7, <1>8
<1>10. \A c \in CounterId : x1(c) = z1(c)
  BY <1>6, <1>8
<1>11. x1(1) = x1(4) + x1(5) /\ x1(3) = x1(6) + x1(7)
  BY <1>5, <1>6, <1>9
<1>12. x1(0) + x1(1) + x1(2) + x1(3) = cache.ref_id_ + 1
  <2>1. (g(0) + g(2)) + (g(1) + g(3)) = 1
    BY <1>5
  <2> QED BY <1>6, <1>9, <2>1
<1>13. \A c \in {2, 3, 6, 7} : y1(c) = x1(c)
  <2>1. \A c \in {2, 3, 6, 7} : c \in CounterId
    BY <1>7
  <2> QED BY <1>5, <1>6, <1>8, <2>1
<1>14. \A c \in {0, 1, 4, 5} : y1(c) <= x1(c)
  <2>1. \A c \in {0, 1, 4, 5} : c \in CounterId
    BY <1>7
  <2> QED BY <1>6, <1>8, <2>1
<1>15. /\ cache'.miss_hit_[1] = (x1(0) + x1(2)) % Uint32
       /\ cache'.miss_hit_[2] = (x1(1) + x1(3)) % Uint32
  <2> DEFINE misses == x(0) + x(2)
             hits == x(1) + x(3)
  <2>1. misses \in Nat /\ hits \in Nat
    BY <1>9
  <2>2. /\ ((misses % Uint32) + 1) % Uint32 = (misses + 1) % Uint32
        /\ ((hits % Uint32) + 1) % Uint32 = (hits + 1) % Uint32
    BY <2>1, CounterAssumption, CountModulo
  <2>3. /\ x1(0) + x1(2) = misses + (IF is_hit THEN 0 ELSE 1)
        /\ x1(1) + x1(3) = hits + (IF is_hit THEN 1 ELSE 0)
    BY <1>5, <1>9
  <2>4. cache.miss_hit_[1] = misses % Uint32 /\ cache.miss_hit_[2] = hits % Uint32
    BY <1>6
  <2>5. /\ cache'.miss_hit_[1] = IF is_hit THEN cache.miss_hit_[1]
                                 ELSE (cache.miss_hit_[1] + 1) % Uint32
        /\ cache'.miss_hit_[2] = IF is_hit THEN (cache.miss_hit_[2] + 1) % Uint32
                                 ELSE cache.miss_hit_[2]
    BY <1>1, <1>2 DEF Inc, B2I
  <2> HIDE DEF misses, hits
  <2>6. CASE is_hit
    BY <2>1, <2>2, <2>3, <2>4, <2>5, <2>6
  <2>7. CASE ~is_hit
    BY <2>1, <2>2, <2>3, <2>4, <2>5, <2>7
  <2> QED BY <2>6, <2>7
<1> QED BY <1>1, <1>10, <1>11, <1>12, <1>13, <1>14, <1>15 DEF ProfilesAgree, x1, y1, z1

(* The instruction, time and address profiles and the totals always tell   *)
(* the same story, for every stream of references.                         *)
THEOREM ProfilesAlwaysAgree == Spec => []ProfilesAgree
<1>1. IInv /\ ProfilesAgree /\ [Next]_cache => ProfilesAgree'
  <2> SUFFICES ASSUME IInv, ProfilesAgree, [Next]_cache PROVE ProfilesAgree'
    OBVIOUS
  <2>1. CASE Next
    BY <2>1, NextIsReference, ReferenceProfiles
  <2>2. CASE UNCHANGED cache
    BY <2>2 DEF ProfilesAgree
  <2> QED BY <2>1, <2>2
<1> QED BY <1>1, InitProfiles, InvariantHolds, PTL DEF Spec

-----------------------------------------------------------------------------
(* Life times.                                                             *)

(* When the lines of a set came in, and the sum LifeTimesAddUp takes.      *)
ArrivalOf(set) == [t \in Resident(set) |-> set.m_line_life_[t].first]

Arrivals(set) ==
    LET arrival(t) == set.m_line_life_[t].first
    IN  MapThenSumSet(arrival, Resident(set))

(* A set holds finitely many lines.                                        *)
LEMMA ResidentFinite ==
    ASSUME NEW set, IsSet(set)
    PROVE  IsFiniteSet(Resident(set))
<1> DEFINE q == set.tags_
<1>1. q \in Seq(Tags) /\ Len(q) \in Nat /\ DOMAIN q = 1 .. Len(q)
  BY DEF IsSet
<1>2. IsFiniteSet(DOMAIN q)
  BY <1>1, FS_Interval
<1>3. q \in Surjection(DOMAIN q, Resident(set))
  BY <1>1 DEF Surjection, Resident
<1> HIDE DEF q
<1> QED BY <1>2, <1>3, FS_Surjection

(* The sum of the arrivals is the sum over the lines of the set.           *)
LEMMA ArrivalsIs ==
    ASSUME NEW set, IsSet(set)
    PROVE  \E u : SumSteps(u, ArrivalOf(set), Resident(set)) /\ Arrivals(set) = u[Resident(set)]
<1> DEFINE arrival(t) == set.m_line_life_[t].first
           S == Resident(set)
           P(u) == u = [T \in SUBSET S |->
                          IF T = {} THEN 0
                          ELSE arrival(CHOOSE x \in T : TRUE) + u[T \ {CHOOSE x \in T : TRUE}]]
           iter == CHOOSE u : P(u)
<1>1. Arrivals(set) = iter[S]
  BY Zenon DEF Arrivals, MapThenSumSet, MapThenFoldSet
<1>2. ASSUME NEW u PROVE SumSteps(u, ArrivalOf(set), S) <=> P(u)
  <2> DEFINE f == [T \in SUBSET S |->
                     IF T = {} THEN 0
                     ELSE arrival(CHOOSE x \in T : TRUE) + u[T \ {CHOOSE x \in T : TRUE}]]
             g == [T \in SUBSET S |->
                     IF T = {} THEN 0 ELSE ArrivalOf(set)[Picked(T)] + u[T \ {Picked(T)}]]
  <2>1. \A T \in SUBSET S : f[T] = g[T]
    BY DEF ArrivalOf, Picked
  <2>2. f = g
    <3>1. f = [T \in SUBSET S |-> f[T]] /\ g = [T \in SUBSET S |-> g[T]]
      OBVIOUS
    <3> HIDE DEF f, g
    <3> QED BY <2>1, <3>1
  <2> QED BY <2>2 DEF SumSteps
<1>3. P(iter)
  <2>1. PICK u : SumSteps(u, ArrivalOf(set), S)
    BY ResidentFinite, SumDefined
  <2>2. P(u)
    BY <1>2, <2>1
  <2> HIDE DEF P
  <2> QED BY <2>2
<1> HIDE DEF P, iter
<1> QED BY <1>1, <1>2, <1>3

(* Sets of the same lines, come in at the same times, have the same sum.   *)
LEMMA ArrivalsSame ==
    ASSUME NEW set, IsSet(set), NEW other, IsSet(other), Resident(other) = Resident(set),
           \A t \in Resident(set) : other.m_line_life_[t].first = set.m_line_life_[t].first
    PROVE  Arrivals(other) = Arrivals(set)
<1> DEFINE S == Resident(set)
<1>1. PICK u : SumSteps(u, ArrivalOf(set), S) /\ Arrivals(set) = u[S]
  BY ArrivalsIs
<1>2. PICK v : SumSteps(v, ArrivalOf(other), S) /\ Arrivals(other) = v[S]
  BY ArrivalsIs
<1>3. IsFiniteSet(S) /\ S \in SUBSET S
  BY ResidentFinite
<1>4. \A t \in S : ArrivalOf(other)[t] = ArrivalOf(set)[t]
  BY DEF ArrivalOf
<1> HIDE DEF S
<1>5. v[S] = u[S]
  BY <1>1, <1>2, <1>3, <1>4, SumOverSubset
<1> QED BY <1>1, <1>2, <1>5

(* The sum of the arrivals of a set is that of all its lines but one, plus *)
(* the arrival of that one.                                                *)
LEMMA ArrivalsSplit ==
    ASSUME NEW set, IsSet(set), DOMAIN set.m_line_life_ = Resident(set),
           NEW t \in Resident(set),
           NEW z, \A r \in Resident(set) \ {t} : z[r] = set.m_line_life_[r].first,
           NEW v, SumSteps(v, z, Resident(set) \ {t})
    PROVE  /\ v[Resident(set) \ {t}] \in Int
           /\ Arrivals(set) = v[Resident(set) \ {t}] + set.m_line_life_[t].first
<1> DEFINE S == Resident(set)
           w == ArrivalOf(set)
<1>1. PICK u : SumSteps(u, w, S) /\ Arrivals(set) = u[S]
  BY ArrivalsIs
<1>2. IsFiniteSet(S)
  BY ResidentFinite
<1>3. w \in [S -> Int] /\ \A r \in S \ {t} : w[r] = z[r]
  BY DEF ArrivalOf, IsSet, LineLife
<1>4. w[t] = set.m_line_life_[t].first /\ t \in S
  BY DEF ArrivalOf
<1>5. \A r \in S \ {t} : z[r] = w[r]
  BY <1>3
<1>6. SumSteps(v, z, S \ {t})
  OBVIOUS
<1> HIDE DEF S, w
<1>7. v[S \ {t}] \in Int /\ u[S] = v[S \ {t}] + w[t]
  BY <1>1, <1>2, <1>3, <1>4, <1>5, <1>6, SumWithout
<1> QED BY <1>1, <1>4, <1>7 DEF S

(* Finding a line, or not, leaves the sum of the arrivals as it is.        *)
LEMMA ArrivalsFound ==
    ASSUME NEW set, NEW s, NEW tag \in Tags, NEW now \in Nat, NEW id \in Nat,
           id > now, IsSet(set), ContainersAgree(s, set), InRecencyOrder(set, now)
    PROVE  Arrivals(Find(set, tag, id)) = Arrivals(set)
<1> DEFINE found == Find(set, tag, id)
           old(t) == set.m_line_life_[t]
<1>1. IsSet(found) /\ Resident(found) = Resident(set)
  <2>1. CASE IsHit(set, tag)
    BY <2>1, FindHit
  <2>2. CASE ~IsHit(set, tag)
    BY <2>2, FindMiss
  <2> QED BY <2>1, <2>2
<1>2. DOMAIN set.m_line_life_ = Resident(set) /\ \A t \in Resident(set) : old(t) \in LineLife
  BY DEF ContainersAgree, IsSet
<1>3. \A t \in Resident(set) : found.m_line_life_[t].first = old(t).first
  <2>1. CASE IsHit(set, tag)
    <3> DEFINE life == [set.m_line_life_ EXCEPT ![tag].last = id]
    <3>1. found.m_line_life_ = life
      BY <2>1 DEF Find, IsSet
    <3>2. ASSUME NEW t \in Resident(set) PROVE life[t].first = old(t).first
      BY <1>2 DEF LineLife
    <3> HIDE DEF life, found
    <3> QED BY <3>1, <3>2
  <2>2. CASE ~IsHit(set, tag)
    <3>1. found.m_line_life_ = set.m_line_life_
      BY <2>2, FindMiss
    <3> HIDE DEF found
    <3> QED BY <3>1
  <2> QED BY <2>1, <2>2
<1> HIDE DEF found
<1> QED BY <1>1, <1>3, ArrivalsSame DEF found

(* A fill takes the arrival of the line evicted from the sum and adds that *)
(* of the line brought in.                                                 *)
LEMMA ArrivalsFilled ==
    ASSUME NEW set, NEW s, NEW tag \in Tags, NEW now \in Nat, NEW id \in Nat,
           id > now, IsSet(set), ContainersAgree(s, set), SetIndexOf(tag) = s,
           InRecencyOrder(set, now), ~IsHit(set, tag)
    PROVE  /\ EvictedLife(set).first \in Int /\ Arrivals(set) \in Int
           /\ Arrivals(Replace(Find(set, tag, id), tag, id))
                = Arrivals(set) - EvictedLife(set).first + id
<1> DEFINE found == Find(set, tag, id)
           after == Replace(found, tag, id)
           S == Resident(set)
           K == S \ Victims(set)
           old(t) == set.m_line_life_[t]
           life == [t \in K \cup {tag} |->
                      IF t = tag THEN [first |-> id, last |-> id] ELSE old(t)]
           z == [t \in K |-> old(t).first]
<1>1. /\ found = [tags_ |-> set.tags_, m_line_life_ |-> set.m_line_life_,
                  mru_tag_ |-> tag, mru_id_ |-> id]
      /\ IsSet(found) /\ ContainersAgree(s, found) /\ InRecencyOrder(found, now)
      /\ Resident(found) = S
  BY FindMiss
<1>2. DOMAIN set.m_line_life_ = S /\ \A t \in S : old(t) \in LineLife
  BY DEF ContainersAgree, IsSet
<1> HIDE DEF found
<1>3. /\ found.m_line_life_ = set.m_line_life_ /\ found.mru_tag_ = tag /\ found.mru_id_ = id
      /\ Victims(found) = Victims(set) /\ ~IsHit(found, tag)
  BY <1>1 DEF Victims, IsFull, IsHit
<1>4. /\ IsSet(after) /\ ContainersAgree(s, after)
      /\ Resident(after) = (Resident(found) \ Victims(found)) \cup {tag}
  BY <1>1, <1>3, ReplaceFills
<1>5. after.m_line_life_ = life
  <2> DEFINE kept == DOMAIN found.m_line_life_ \ Victims(found)
             new == [t \in kept \cup {tag} |->
                       IF t = tag THEN [first |-> id, last |-> id] ELSE found.m_line_life_[t]]
  <2>1. after.m_line_life_ = new
    BY <1>1 DEF Replace
  <2>2. kept = K
    BY <1>2, <1>3
  <2> HIDE DEF kept, K, after
  <2>3. new = life
    BY <1>3, <2>2
  <2> QED BY <2>1, <2>3
<1> HIDE DEF after
<1>6. /\ tag \notin K /\ Resident(after) = K \cup {tag}
      /\ DOMAIN after.m_line_life_ = Resident(after)
  BY <1>1, <1>3, <1>4 DEF IsHit, ContainersAgree
<1>7. /\ after.m_line_life_[tag].first = id
      /\ \A t \in K : z[t] = after.m_line_life_[t].first
  <2> HIDE DEF K
  <2> QED BY <1>5, <1>6
<1>8. PICK v : SumSteps(v, z, K)
  <2>1. IsFiniteSet(K)
    BY ResidentFinite, FS_Subset
  <2> HIDE DEF K, z
  <2> QED BY <2>1, SumDefined
<1> HIDE DEF z
<1>9. v[K] \in Int /\ Arrivals(after) = v[K] + id
  <2>1. K = Resident(after) \ {tag} /\ tag \in Resident(after)
    BY <1>6
  <2> HIDE DEF K
  <2>2. /\ v[Resident(after) \ {tag}] \in Int
        /\ Arrivals(after) = v[Resident(after) \ {tag}] + after.m_line_life_[tag].first
    BY <1>4, <1>6, <1>7, <1>8, <2>1, ArrivalsSplit
  <2> QED BY <1>7, <2>1, <2>2
<1>10. EvictedLife(set).first \in Int /\ Arrivals(set) = v[K] + EvictedLife(set).first
  <2>1. CASE IsFull(set)
    <3> DEFINE t == set.tags_[NumWays]
    <3>1. t \in S
      BY <2>1, LruAssumption DEF IsFull, IsSet, Resident
    <3>2. K = S \ {t} /\ EvictedLife(set) = old(t)
      BY <2>1 DEF Victims, EvictedLife
    <3>3. \A r \in S \ {t} : z[r] = old(r).first
      BY <3>2 DEF z
    <3>4. old(t).first \in Int
      BY <1>2, <3>1 DEF LineLife
    <3>5. SumSteps(v, z, S \ {t})
      BY <1>8, <3>2
    <3> HIDE DEF t
    <3>6. Arrivals(set) = v[S \ {t}] + set.m_line_life_[t].first
      BY <1>2, <3>1, <3>3, <3>5, ArrivalsSplit
    <3> QED BY <3>2, <3>4, <3>6
  <2>2. CASE ~IsFull(set)
    <3>1. K = S /\ EvictedLife(set).first = 0
      BY <2>2 DEF Victims, EvictedLife
    <3>2. PICK u : SumSteps(u, ArrivalOf(set), S) /\ Arrivals(set) = u[S]
      BY ArrivalsIs
    <3>3. \A r \in S : z[r] = ArrivalOf(set)[r]
      BY <3>1 DEF ArrivalOf, z
    <3>4. IsFiniteSet(S) /\ S \in SUBSET S
      BY ResidentFinite
    <3>5. SumSteps(v, z, S)
      BY <1>8, <3>1
    <3> HIDE DEF S
    <3>6. v[S] = u[S]
      BY <3>2, <3>3, <3>4, <3>5, SumOverSubset
    <3> QED BY <1>9, <3>1, <3>2, <3>6 DEF S
  <2> QED BY <2>1, <2>2
<1> HIDE DEF K
<1>11. Arrivals(after) = Arrivals(set) - EvictedLife(set).first + id /\ Arrivals(set) \in Int
  BY <1>9, <1>10
<1> QED BY <1>10, <1>11 DEF after, found

(* LifeTimesAddUp, of a cache given as an argument.                        *)
TimesInv(c) ==
    \A s \in SetIndex :
        c.v_set_life_[s].live_time + c.v_set_life_[s].dead_time = Arrivals(c.sets_[s])

(* The life times of a cache as constructed are those of no time.          *)
LEMMA InitLifeTimes == Init => TimesInv(cache)
<1> SUFFICES ASSUME NEW junk \in [SetIndex -> InitialMruIds], cache = NewCache(junk),
                    NEW s \in SetIndex
             PROVE  LET life == cache.v_set_life_[s]
                    IN  life.live_time + life.dead_time = Arrivals(cache.sets_[s])
  BY DEF Init, TimesInv
<1> DEFINE set == cache.sets_[s]
<1>1. cache.v_set_life_[s] = NewSetLife /\ set = NewSet(junk[s])
  BY DEF NewCache
<1>2. IsSet(set)
  BY InitIInv DEF Init, IInv, TypeOK
<1>3. Resident(set) = {}
  BY <1>1 DEF NewSet, Resident
<1>4. PICK u : SumSteps(u, ArrivalOf(set), Resident(set)) /\ Arrivals(set) = u[Resident(set)]
  BY <1>2, ArrivalsIs
<1> HIDE DEF set
<1>5. Arrivals(set) = 0
  BY <1>3, <1>4 DEF SumSteps
<1> QED BY <1>1, <1>5 DEF NewSetLife, set

(* A fill charges the life of the line evicted to the live and the dead    *)
(* time, which is what it takes from the arrivals and adds to them.        *)
LEMMA ReferenceLifeTimes ==
    ASSUME IInv, TimesInv(cache), NEW inst \in Addrs \cup Insts, NEW addr \in Addrs \cup Insts,
           NEW access_type \in kAccessTypes, NEW is_fetch \in BOOLEAN,
           NEW may_fill \in BOOLEAN, Reference(inst, addr, access_type, is_fetch, may_fill)
    PROVE  TimesInv(cache')
<1> DEFINE tag == TagOf(addr)
           s == SetIndexOf(tag)
           set == cache.sets_[s]
           now == cache.ref_id_
           id == now + 1
           is_fill == ~IsHit(set, tag) /\ may_fill
           after == SetAfter(set, tag, id, is_fill)
           old == cache.v_set_life_[s]
           new == SetLifeAfter(old, set, id, is_fill)
<1>1. /\ cache'.sets_ = [cache.sets_ EXCEPT ![s] = after]
      /\ cache'.v_set_life_ = [cache.v_set_life_ EXCEPT ![s] = new]
  BY DEF Reference
<1>2. tag \in Tags /\ s \in SetIndex
  BY AddrHasTag
<1>3. /\ now \in Nat /\ id \in Nat /\ id > now
      /\ DOMAIN cache.sets_ = SetIndex /\ DOMAIN cache.v_set_life_ = SetIndex
      /\ cache.v_set_life_ \in [SetIndex -> SetLifeType]
  BY DEF IInv, TypeOK
<1>4. /\ IsSet(set) /\ ContainersAgree(s, set) /\ InRecencyOrder(set, now)
  BY <1>2 DEF IInv, TypeOK, StructuresAgree, RecencyOrder
<1>5. old.live_time + old.dead_time = Arrivals(set) /\ old \in SetLifeType
  BY <1>2, <1>3 DEF TimesInv
<1>6. new.live_time + new.dead_time = Arrivals(after)
  <2>1. CASE is_fill
    <3> DEFINE gone == EvictedLife(set)
    <3>1. after = Replace(Find(set, tag, id), tag, id)
      BY <2>1 DEF SetAfter
    <3>2. /\ gone.first \in Int /\ Arrivals(set) \in Int
          /\ Arrivals(Replace(Find(set, tag, id), tag, id)) = Arrivals(set) - gone.first + id
      <4> HIDE DEF tag, set, now, id
      <4> QED BY <1>2, <1>3, <1>4, <2>1, ArrivalsFilled
    <3>3. gone.last \in Int
      <4>1. CASE IsFull(set)
        <5>1. set.tags_[NumWays] \in DOMAIN set.m_line_life_
          BY <1>4, <4>1, LruAssumption DEF IsFull, IsSet, ContainersAgree, Resident
        <5> QED BY <1>4, <4>1, <5>1 DEF EvictedLife, IsSet, LineLife
      <4>2. CASE ~IsFull(set)
        BY <4>2 DEF EvictedLife
      <4> QED BY <4>1, <4>2
    <3>4. /\ new.live_time = old.live_time + (gone.last - gone.first)
          /\ new.dead_time = old.dead_time + (id - gone.last)
      <4> HIDE DEF set, id, old
      <4> QED BY <2>1 DEF SetLifeAfter
    <3>5. old.live_time \in Int /\ old.dead_time \in Int
      BY <1>5 DEF SetLifeType
    <3> HIDE DEF gone, after, set, id, old, new
    <3>6. new.live_time + new.dead_time = (old.live_time + old.dead_time) - gone.first + id
      BY <1>3, <3>2, <3>3, <3>4, <3>5
    <3> QED BY <1>5, <3>1, <3>2, <3>6
  <2>2. CASE ~is_fill
    <3>1. after = Find(set, tag, id)
      BY <2>2 DEF SetAfter
    <3>2. Arrivals(Find(set, tag, id)) = Arrivals(set)
      <4> HIDE DEF tag, set, now, id
      <4> QED BY <1>2, <1>3, <1>4, ArrivalsFound
    <3>3. new.live_time = old.live_time + 0 /\ new.dead_time = old.dead_time + 0
      <4> HIDE DEF set, id, old
      <4> QED BY <2>2 DEF SetLifeAfter
    <3>4. old.live_time \in Int /\ old.dead_time \in Int
      BY <1>5 DEF SetLifeType
    <3> HIDE DEF after, set, id, old, new
    <3> QED BY <1>5, <3>1, <3>2, <3>3, <3>4
  <2> QED BY <2>1, <2>2
<1> HIDE DEF after, new
<1>7. ASSUME NEW t \in SetIndex
      PROVE  cache'.v_set_life_[t].live_time + cache'.v_set_life_[t].dead_time
               = Arrivals(cache'.sets_[t])
  <2>1. CASE t = s
    <3>1. cache'.sets_[t] = after /\ cache'.v_set_life_[t] = new
      BY <1>1, <1>2, <1>3, <2>1
    <3> QED BY <1>6, <3>1
  <2>2. CASE t # s
    <3>1. cache'.sets_[t] = cache.sets_[t] /\ cache'.v_set_life_[t] = cache.v_set_life_[t]
      BY <1>1, <1>2, <1>3, <2>2
    <3>2. cache.v_set_life_[t].live_time + cache.v_set_life_[t].dead_time
            = Arrivals(cache.sets_[t])
      BY DEF TimesInv
    <3> QED BY <3>1, <3>2
  <2> QED BY <2>1, <2>2
<1> QED BY <1>7 DEF TimesInv

(* The lifetime statistics of a set always account for all its time once.  *)
THEOREM LifeTimesAlwaysAddUp == Spec => []LifeTimesAddUp
<1>1. IInv /\ TimesInv(cache) /\ [Next]_cache => TimesInv(cache)'
  <2> SUFFICES ASSUME IInv, TimesInv(cache), [Next]_cache PROVE TimesInv(cache')
    OBVIOUS
  <2>1. CASE Next
    BY <2>1, NextIsReference, ReferenceLifeTimes
  <2>2. CASE UNCHANGED cache
    BY <2>2
  <2> QED BY <2>1, <2>2
<1>2. TimesInv(cache) => LifeTimesAddUp
  BY Zenon DEF TimesInv, LifeTimesAddUp, Arrivals
<1> QED BY <1>1, <1>2, InitLifeTimes, InvariantHolds, PTL DEF Spec

-----------------------------------------------------------------------------
(* Access intervals.                                                       *)

(* How often the sets were referenced, and the sum of it.                  *)
CountsOf(lives) == [s \in SetIndex |-> lives[s].access_count]

AllCounts(lives) ==
    LET count(s) == lives[s].access_count
    IN  MapThenSumSet(count, SetIndex)

(* The number of all references is the sum over the sets.                  *)
LEMMA AllCountsIs ==
    ASSUME NEW lives
    PROVE  \E u : SumSteps(u, CountsOf(lives), SetIndex) /\ AllCounts(lives) = u[SetIndex]
<1> DEFINE count(s) == lives[s].access_count
           P(u) == u = [T \in SUBSET SetIndex |->
                          IF T = {} THEN 0
                          ELSE count(CHOOSE x \in T : TRUE) + u[T \ {CHOOSE x \in T : TRUE}]]
           iter == CHOOSE u : P(u)
<1>1. AllCounts(lives) = iter[SetIndex]
  BY Zenon DEF AllCounts, MapThenSumSet, MapThenFoldSet
<1>2. ASSUME NEW u PROVE SumSteps(u, CountsOf(lives), SetIndex) <=> P(u)
  <2> DEFINE f == [T \in SUBSET SetIndex |->
                     IF T = {} THEN 0
                     ELSE count(CHOOSE x \in T : TRUE) + u[T \ {CHOOSE x \in T : TRUE}]]
             g == [T \in SUBSET SetIndex |->
                     IF T = {} THEN 0 ELSE CountsOf(lives)[Picked(T)] + u[T \ {Picked(T)}]]
  <2>1. \A T \in SUBSET SetIndex : f[T] = g[T]
    BY DEF CountsOf, Picked
  <2>2. f = g
    <3>1. f = [T \in SUBSET SetIndex |-> f[T]] /\ g = [T \in SUBSET SetIndex |-> g[T]]
      OBVIOUS
    <3> HIDE DEF f, g
    <3> QED BY <2>1, <3>1
  <2> QED BY <2>2 DEF SumSteps
<1>3. P(iter)
  <2>1. PICK u : SumSteps(u, CountsOf(lives), SetIndex)
    BY SetIndexFinite, SumDefined
  <2>2. P(u)
    BY <1>2, <2>1
  <2> HIDE DEF P
  <2> QED BY <2>2
<1> HIDE DEF P, iter
<1> QED BY <1>1, <1>2, <1>3

(* AccessIntervalsTelescope, of a cache given as an argument.              *)
IntervalsInv(c) ==
    /\ \A s \in SetIndex : \E junk \in InitialMruIds :
          c.sets_[s].mru_id_ = junk + c.v_set_life_[s].access_interval
    /\ AllCounts(c.v_set_life_) = c.ref_id_

(* No set of a cache as constructed has been referenced.                   *)
LEMMA InitIntervals == Init => IntervalsInv(cache)
<1> SUFFICES ASSUME NEW junk \in [SetIndex -> InitialMruIds], cache = NewCache(junk)
             PROVE  IntervalsInv(cache)
  BY DEF Init
<1>1. /\ cache.ref_id_ = 0
      /\ \A s \in SetIndex : cache.v_set_life_[s] = NewSetLife /\ cache.sets_[s] = NewSet(junk[s])
  BY DEF NewCache
<1>2. ASSUME NEW s \in SetIndex
      PROVE  cache.sets_[s].mru_id_ = junk[s] + cache.v_set_life_[s].access_interval
  <2>1. junk[s] \in Int
    BY LruAssumption
  <2>2. junk[s] = junk[s] + 0
    BY <2>1
  <2>3. NewSet(junk[s]).mru_id_ = junk[s] /\ NewSetLife.access_interval = 0
    BY DEF NewSet, NewSetLife
  <2>4. cache.sets_[s].mru_id_ = junk[s] /\ cache.v_set_life_[s].access_interval = 0
    BY <1>1, <2>3
  <2> QED BY <2>2, <2>4
<1>3. \A s \in SetIndex : junk[s] \in InitialMruIds
  OBVIOUS
<1>4. AllCounts(cache.v_set_life_) = 0
  <2>1. PICK u : /\ SumSteps(u, CountsOf(cache.v_set_life_), SetIndex)
                 /\ AllCounts(cache.v_set_life_) = u[SetIndex]
    BY AllCountsIs
  <2>2. \A s \in SetIndex : CountsOf(cache.v_set_life_)[s] = 0
    BY <1>1 DEF CountsOf, NewSetLife
  <2> QED BY <2>1, <2>2, SetIndexFinite, SumOfZeros
<1> QED BY <1>1, <1>2, <1>3, <1>4 DEF IntervalsInv

(* A reference is charged to its set, with the time since the one before.  *)
LEMMA ReferenceIntervals ==
    ASSUME IInv, IntervalsInv(cache),
           NEW inst \in Addrs \cup Insts, NEW addr \in Addrs \cup Insts,
           NEW access_type \in kAccessTypes, NEW is_fetch \in BOOLEAN,
           NEW may_fill \in BOOLEAN, Reference(inst, addr, access_type, is_fetch, may_fill)
    PROVE  IntervalsInv(cache')
<1> DEFINE tag == TagOf(addr)
           s == SetIndexOf(tag)
           set == cache.sets_[s]
           now == cache.ref_id_
           id == now + 1
           is_fill == ~IsHit(set, tag) /\ may_fill
           after == SetAfter(set, tag, id, is_fill)
           lives == cache.v_set_life_
           new == SetLifeAfter(lives[s], set, id, is_fill)
           after_lives == [lives EXCEPT ![s] = new]
<1>1. /\ cache'.sets_ = [cache.sets_ EXCEPT ![s] = after]
      /\ cache'.v_set_life_ = after_lives
      /\ cache'.ref_id_ = id
  BY DEF Reference
<1>2. tag \in Tags /\ s \in SetIndex
  BY AddrHasTag
<1>3. /\ now \in Nat /\ id \in Nat
      /\ DOMAIN cache.sets_ = SetIndex /\ lives \in [SetIndex -> SetLifeType]
  BY DEF IInv, TypeOK
<1>4. IsSet(set)
  BY <1>2 DEF IInv, TypeOK
<1>5. after.mru_id_ = id
  <2> DEFINE found == Find(set, tag, id)
  <2> HIDE DEF tag, set, id
  <2>1. found.mru_id_ = id /\ DOMAIN found = DOMAIN set
    BY <1>4 DEF Find, IsSet
  <2>2. Replace(found, tag, id).mru_id_ = found.mru_id_
    BY DEF Replace
  <2> HIDE DEF found
  <2> QED BY <2>1, <2>2 DEF SetAfter, found
<1>6. /\ new.access_interval = lives[s].access_interval + (id - set.mru_id_)
      /\ new.access_count = lives[s].access_count + 1
  <2> HIDE DEF set, id, lives
  <2> QED BY DEF SetLifeAfter
<1>7. /\ lives[s].access_interval \in Int /\ lives[s].access_count \in Int
      /\ set.mru_id_ \in Int
  BY <1>2, <1>3, <1>4 DEF SetLifeType, IsSet
<1>8. PICK junk \in InitialMruIds : set.mru_id_ = junk + lives[s].access_interval
  BY <1>2 DEF IntervalsInv
<1>9. after.mru_id_ = junk + new.access_interval
  <2>1. junk \in Int
    BY LruAssumption
  <2> HIDE DEF after, new, set, lives, id
  <2> QED BY <1>3, <1>5, <1>6, <1>7, <1>8, <2>1
<1>10. AllCounts(lives) = now
  BY DEF IntervalsInv
<1> HIDE DEF after, new, set, lives, now, id, s
<1>11. AllCounts(after_lives) = id
  <2>1. PICK u : SumSteps(u, CountsOf(lives), SetIndex) /\ AllCounts(lives) = u[SetIndex]
    BY AllCountsIs
  <2>2. PICK v : /\ SumSteps(v, CountsOf(after_lives), SetIndex)
                 /\ AllCounts(after_lives) = v[SetIndex]
    BY AllCountsIs
  <2>3. \A q \in SetIndex : lives[q].access_count \in Int
    BY <1>3 DEF SetLifeType
  <2>4. \A q \in SetIndex : after_lives[q] = IF q = s THEN new ELSE lives[q]
    BY <1>2, <1>3
  <2>5. /\ CountsOf(lives) \in [SetIndex -> Int]
        /\ CountsOf(after_lives) \in [SetIndex -> Int]
        /\ \A q \in SetIndex \ {s} : CountsOf(after_lives)[q] = CountsOf(lives)[q]
        /\ CountsOf(after_lives)[s] = CountsOf(lives)[s] + 1
        /\ CountsOf(lives)[s] \in Int
    <3> HIDE DEF after_lives
    <3> QED BY <1>2, <1>6, <1>7, <2>3, <2>4 DEF CountsOf
  <2> HIDE DEF after_lives
  <2>6. /\ u[SetIndex] \in Int /\ v[SetIndex] \in Int
        /\ v[SetIndex] = u[SetIndex] + (CountsOf(after_lives)[s] - CountsOf(lives)[s])
    BY <1>2, <2>1, <2>2, <2>5, SetIndexFinite, SumChanges
  <2> QED BY <1>3, <1>10, <2>1, <2>2, <2>5, <2>6 DEF id
<1>12. ASSUME NEW t \in SetIndex
       PROVE  \E j \in InitialMruIds :
                 cache'.sets_[t].mru_id_ = j + cache'.v_set_life_[t].access_interval
  <2>1. CASE t = s
    <3>1. cache'.sets_[t] = after /\ cache'.v_set_life_[t] = new
      BY <1>1, <1>2, <1>3, <2>1
    <3> QED BY <1>9, <3>1
  <2>2. CASE t # s
    <3>1. cache'.sets_[t] = cache.sets_[t] /\ cache'.v_set_life_[t] = lives[t]
      BY <1>1, <1>2, <1>3, <2>2
    <3> QED BY <3>1 DEF IntervalsInv, lives
  <2> QED BY <2>1, <2>2
<1>13. AllCounts(cache'.v_set_life_) = cache'.ref_id_
  BY <1>1, <1>11
<1> QED BY <1>12, <1>13 DEF IntervalsInv

(* The access intervals of a set always add up to the time of its last     *)
(* reference, and the references of the sets to those of the cache.        *)
THEOREM IntervalsAlwaysTelescope == Spec => []AccessIntervalsTelescope
<1>1. IInv /\ IntervalsInv(cache) /\ [Next]_cache => IntervalsInv(cache)'
  <2> SUFFICES ASSUME IInv, IntervalsInv(cache), [Next]_cache PROVE IntervalsInv(cache')
    OBVIOUS
  <2>1. CASE Next
    BY <2>1, NextIsReference, ReferenceIntervals
  <2>2. CASE UNCHANGED cache
    BY <2>2
  <2> QED BY <2>1, <2>2
<1>2. IntervalsInv(cache) => AccessIntervalsTelescope
  BY Zenon DEF IntervalsInv, AccessIntervalsTelescope, AllCounts
<1> QED BY <1>1, <1>2, InitIntervals, InvariantHolds, PTL DEF Spec

-----------------------------------------------------------------------------
(* The refinement: a write-allocate cache implements the stack-distance    *)
(* definition of LRU, for every geometry, associativity and stream of      *)
(* references.  (Without write-allocate the cache does not: a line that a  *)
(* store missed was referenced and is not resident.)                       *)

(* One set.                                                                *)

(* The list of a well-formed set counts its resident lines.                *)
LEMMA ResidentCount ==
    ASSUME NEW set, NEW s, IsSet(set), ContainersAgree(s, set)
    PROVE  /\ IsFiniteSet(Resident(set))
           /\ Cardinality(Resident(set)) = Len(set.tags_)
<1> DEFINE q == set.tags_
           n == Len(q)
           R == Resident(set)
<1>1. q \in Seq(Tags) /\ n \in Nat /\ DOMAIN q = 1 .. n
  BY DEF IsSet
<1>2. R = {q[i] : i \in 1 .. n} /\ \A i, j \in 1 .. n : q[i] = q[j] => i = j
  BY <1>1 DEF Resident, ContainersAgree
<1> DEFINE f == [i \in 1 .. n |-> q[i]]
<1> HIDE DEF q, n, R
<1>3. f \in Bijection(1 .. n, R)
  BY <1>2 DEF Bijection, Injection, Surjection, IsInjective
<1>4. ExistsBijection(1 .. n, R)
  <2> HIDE DEF f
  <2> QED BY <1>3 DEF ExistsBijection
<1>5. n \in Nat
  BY <1>1 DEF n
<1>6. IsFiniteSet(R)
  BY <1>4, <1>5, FS_NatBijection
<1>7. Cardinality(R) = n
  BY <1>4, <1>5, FS_CountingElements
<1> QED BY <1>6, <1>7 DEF n, q, R

(* The victim of a full set was used before every line that stays.         *)
LEMMA VictimIsOldest ==
    ASSUME NEW set, NEW s, NEW now \in Nat, IsSet(set), ContainersAgree(s, set),
           InRecencyOrder(set, now),
           NEW t \in Victims(set), NEW u \in Resident(set) \ {t}
    PROVE  /\ IsFull(set) /\ Victims(set) = {t} /\ t \in Resident(set)
           /\ set.m_line_life_[t].last < set.m_line_life_[u].last
<1>1. IsFull(set) /\ t = set.tags_[NumWays] /\ Victims(set) = {t}
  BY DEF Victims
<1>2. NumWays \in DOMAIN set.tags_ /\ DOMAIN set.tags_ = 1 .. NumWays
  BY <1>1, LruAssumption DEF IsFull, IsSet
<1>3. t \in Resident(set)
  BY <1>1, <1>2 DEF Resident
<1>4. PICK i \in 1 .. NumWays : set.tags_[i] = u
  BY <1>2 DEF Resident
<1>5. i < NumWays
  BY <1>1, <1>4, LruAssumption
<1>6. LastUse(set, i) > LastUse(set, NumWays)
  BY <1>2, <1>4, <1>5 DEF InRecencyOrder
<1>7. set.m_line_life_[u].last \in Nat /\ set.m_line_life_[t].last \in Nat
  BY <1>3 DEF ContainersAgree, IsSet, LineLife
<1> QED BY <1>1, <1>3, <1>4, <1>6, <1>7 DEF LastUse

(* After a reference that may fill, the line referenced is resident with   *)
(* the id of the reference as its last use, the other resident lines keep  *)
(* theirs, and a full set stays full.                                      *)
LEMMA SetAfterUse ==
    ASSUME NEW set, NEW s, NEW tag \in Tags, NEW now \in Nat, NEW id \in Nat,
           id > now, IsSet(set), ContainersAgree(s, set), SetIndexOf(tag) = s,
           InRecencyOrder(set, now)
    PROVE  LET after == SetAfter(set, tag, id, ~IsHit(set, tag))
           IN  /\ IsSet(after) /\ ContainersAgree(s, after)
               /\ IsHit(set, tag) => Resident(after) = Resident(set)
               /\ ~IsHit(set, tag) =>
                     Resident(after) = (Resident(set) \ Victims(set)) \cup {tag}
               /\ tag \in Resident(after)
               /\ after.m_line_life_[tag].last = id
               /\ \A t \in Resident(after) \ {tag} :
                    after.m_line_life_[t].last = set.m_line_life_[t].last
               /\ IsFull(set) => IsFull(after)
<1> DEFINE after == SetAfter(set, tag, id, ~IsHit(set, tag))
           found == Find(set, tag, id)
<1>1. /\ IsSet(after) /\ ContainersAgree(s, after)
      /\ IsHit(set, tag) => Resident(after) = Resident(set)
      /\ ~IsHit(set, tag) => Resident(after) = (Resident(set) \ Victims(set)) \cup {tag}
  <2>1. CASE IsHit(set, tag)
    BY <2>1, FindHit DEF SetAfter
  <2>2. CASE ~IsHit(set, tag)
    <3>1. /\ found = [tags_ |-> set.tags_, m_line_life_ |-> set.m_line_life_,
                      mru_tag_ |-> tag, mru_id_ |-> id]
          /\ IsSet(found)
          /\ ContainersAgree(s, found)
          /\ InRecencyOrder(found, now)
          /\ Resident(found) = Resident(set)
      BY <2>2, FindMiss
    <3>2. after = Replace(found, tag, id)
      BY <2>2 DEF SetAfter
    <3> HIDE DEF found, after
    <3>3. /\ ~IsHit(found, tag)
          /\ found.mru_tag_ = tag /\ found.mru_id_ = id
          /\ Victims(found) = Victims(set)
      BY <2>2, <3>1 DEF IsHit, Victims, IsFull
    <3>4. /\ IsSet(Replace(found, tag, id))
          /\ ContainersAgree(s, Replace(found, tag, id))
          /\ Resident(Replace(found, tag, id))
                = (Resident(found) \ Victims(found)) \cup {tag}
      BY <3>1, <3>3, ReplaceFills
    <3> QED BY <2>2, <3>1, <3>2, <3>3, <3>4
  <2> QED BY <2>1, <2>2
<1>2. tag \in Resident(after)
  BY <1>1 DEF IsHit
<1>3. ASSUME NEW t \in Resident(after)
      PROVE  after.m_line_life_[t].last
                = IF t = tag THEN id ELSE set.m_line_life_[t].last
  <2>1. DOMAIN after.m_line_life_ = Resident(after)
    BY <1>1 DEF ContainersAgree
  <2>2. CASE IsHit(set, tag)
    <3>1. after.m_line_life_ = [set.m_line_life_ EXCEPT ![tag].last = id]
      BY <2>2 DEF SetAfter, Find, IsSet
    <3>2. t \in DOMAIN set.m_line_life_ /\ set.m_line_life_[t] \in LineLife
      BY <1>1, <2>2 DEF ContainersAgree, IsSet
    <3> QED BY <3>1, <3>2 DEF LineLife
  <2>3. CASE ~IsHit(set, tag)
    <3>1. found = [tags_ |-> set.tags_, m_line_life_ |-> set.m_line_life_,
                   mru_tag_ |-> tag, mru_id_ |-> id]
      BY <2>3 DEF Find, IsSet
    <3>2. after = Replace(found, tag, id)
      BY <2>3 DEF SetAfter
    <3>3. after.m_line_life_
             = [u \in (DOMAIN found.m_line_life_ \ Victims(found)) \cup {tag} |->
                  IF u = tag THEN [first |-> id, last |-> id]
                             ELSE found.m_line_life_[u]]
      <4> HIDE DEF found
      <4> QED BY <3>1, <3>2 DEF Replace
    <3> HIDE DEF found, after
    <3>4. t \in (DOMAIN found.m_line_life_ \ Victims(found)) \cup {tag}
      BY <2>1, <3>3
    <3> QED BY <3>1, <3>3, <3>4
  <2> QED BY <2>2, <2>3
<1>4. ASSUME IsFull(set) PROVE IsFull(after)
  <2>1. /\ IsFiniteSet(Resident(set)) /\ Cardinality(Resident(set)) = NumWays
        /\ Cardinality(Resident(after)) = Len(after.tags_)
    BY <1>1, <1>4, ResidentCount DEF IsFull
  <2>2. CASE IsHit(set, tag)
    BY <1>1, <2>1, <2>2 DEF IsFull
  <2>3. CASE ~IsHit(set, tag)
    <3>1. PICK v : Victims(set) = {v} /\ v \in Resident(set)
      <4>1. NumWays \in DOMAIN set.tags_
        BY <1>4, LruAssumption DEF IsFull, IsSet
      <4> QED BY <1>4, <4>1 DEF Victims, Resident
    <3> DEFINE rest == Resident(set) \ {v}
    <3>2. tag \notin rest
      BY <2>3 DEF IsHit
    <3>3. IsFiniteSet(rest) /\ Cardinality(rest) = NumWays - 1
      BY <2>1, <3>1, FS_RemoveElement
    <3>4. Resident(after) = rest \cup {tag}
      BY <1>1, <2>3, <3>1
    <3> HIDE DEF rest, after
    <3>5. Cardinality(rest \cup {tag}) = Cardinality(rest) + 1
      BY <3>2, <3>3, FS_AddElement
    <3>6. Len(after.tags_) = NumWays
      BY <2>1, <3>3, <3>4, <3>5, LruAssumption
    <3> QED BY <3>6 DEF IsFull
  <2> QED BY <2>2, <2>3
<1> QED BY <1>1, <1>2, <1>3, <1>4

-----------------------------------------------------------------------------
(* The history.                                                            *)

(* What ResidentIsRecent says of one set.                                  *)
Recent(s, set, ref) ==
    LET ever == {t \in Tags : SetIndexOf(t) = s /\ ref[t] > 0}
    IN  /\ Resident(set) \subseteq ever
        /\ \A t \in Resident(set) : ref[t] = set.m_line_life_[t].last
        /\ \A t \in ever \ Resident(set) :
             /\ IsFull(set)
             /\ \A u \in Resident(set) : ref[u] > ref[t]

(* The recently used lines, for every set of the cache.                    *)
LEMMA RecentOfEverySet ==
    ResidentIsRecent <=> \A s \in SetIndex : Recent(s, cache.sets_[s], last_ref)
BY DEF ResidentIsRecent, Recent

(* A reference that fills keeps the resident lines the most recent ones.   *)
LEMMA TouchRecent ==
    ASSUME NEW set, NEW s, NEW tag \in Tags, NEW now \in Nat, NEW id \in Nat,
           id > now, IsSet(set), ContainersAgree(s, set), SetIndexOf(tag) = s,
           InRecencyOrder(set, now), NEW ref \in [Tags -> Nat],
           \A t \in Tags : ref[t] <= now, Recent(s, set, ref)
    PROVE  Recent(s, SetAfter(set, tag, id, ~IsHit(set, tag)), [ref EXCEPT ![tag] = id])
<1> DEFINE after == SetAfter(set, tag, id, ~IsHit(set, tag))
           new == [ref EXCEPT ![tag] = id]
<1>1. /\ IsSet(after) /\ ContainersAgree(s, after)
      /\ IsHit(set, tag) => Resident(after) = Resident(set)
      /\ ~IsHit(set, tag) => Resident(after) = (Resident(set) \ Victims(set)) \cup {tag}
      /\ tag \in Resident(after)
      /\ after.m_line_life_[tag].last = id
      /\ \A t \in Resident(after) \ {tag} :
           after.m_line_life_[t].last = set.m_line_life_[t].last
      /\ IsFull(set) => IsFull(after)
  BY SetAfterUse
<1>2. /\ new[tag] = id
      /\ \A t \in Tags \ {tag} : new[t] = ref[t]
      /\ \A t \in Tags : new[t] \in Nat /\ ref[t] \in Nat /\ ref[t] <= now
  OBVIOUS
<1> HIDE DEF after, new
<1>3. Resident(after) \subseteq Resident(set) \cup {tag} /\ Resident(set) \subseteq Tags
  BY <1>1 DEF Recent
<1>4. ASSUME NEW t \in Resident(after)
      PROVE  /\ t \in Tags /\ SetIndexOf(t) = s /\ new[t] > 0
             /\ new[t] = after.m_line_life_[t].last
  <2>1. CASE t = tag
    BY <1>1, <1>2, <2>1
  <2>2. CASE t # tag
    <3>1. t \in Resident(set)
      BY <1>3, <2>2
    <3> QED BY <1>1, <1>2, <2>2, <3>1 DEF Recent
  <2> QED BY <2>1, <2>2
<1>5. ASSUME NEW t \in Tags, SetIndexOf(t) = s, new[t] > 0, t \notin Resident(after)
      PROVE  IsFull(after) /\ \A u \in Resident(after) : new[u] > new[t]
  <2>1. t # tag /\ new[t] = ref[t]
    BY <1>1, <1>2, <1>5
  <2>2. IsFull(set) /\ \A u \in Resident(after) \ {tag} : ref[u] > ref[t]
    <3>1. CASE t \in Resident(set)
      <4>1. t \in Victims(set)
        BY <1>1, <1>5, <3>1
      <4>2. IsFull(set) /\ \A u \in Resident(set) \ {t} :
                set.m_line_life_[t].last < set.m_line_life_[u].last
        <5>1. IsFull(set)
          BY <4>1 DEF Victims
        <5> QED BY <4>1, <5>1, VictimIsOldest
      <4>3. \A u \in Resident(set) : ref[u] = set.m_line_life_[u].last
        BY DEF Recent
      <4> QED BY <1>2, <1>3, <1>5, <3>1, <4>2, <4>3
    <3>2. CASE t \notin Resident(set)
      BY <1>3, <1>5, <2>1, <3>2 DEF Recent
    <3> QED BY <3>1, <3>2
  <2>3. ASSUME NEW u \in Resident(after) PROVE new[u] > new[t]
    <3>1. CASE u = tag
      BY <1>2, <2>1, <3>1
    <3>2. CASE u # tag
      BY <1>2, <1>3, <2>1, <2>2, <3>2
    <3> QED BY <3>1, <3>2
  <2> QED BY <1>1, <2>2, <2>3
<1>6. Recent(s, after, new)
  BY <1>4, <1>5 DEF Recent
<1> QED BY <1>6 DEF after, new

(* The instance's operator is the standard one.                            *)
LEMMA AbstractCardinality ==
    ASSUME NEW S
    PROVE  Abstract!Cardinality(S) = Cardinality(S)
BY DEF Abstract!Cardinality, Cardinality

(* What the history remembers: no use later than now, and only finitely    *)
(* many lines used so far.                                                 *)
HistoryOK ==
    /\ last_ref \in [Tags -> Nat]
    /\ \A t \in Tags : last_ref[t] <= cache.ref_id_
    /\ IsFiniteSet({t \in Tags : last_ref[t] > 0})

(* The inductive invariant of the cache with its history.                  *)
HInv == IInv /\ HistoryOK /\ ResidentIsRecent

(* The cache finds a line exactly when the definition of LRU says it hits: *)
(* fewer than NumWays lines of the set were used since.                    *)
LEMMA HitIffRecent ==
    ASSUME HInv, NEW tag \in Tags
    PROVE  IsHit(cache.sets_[SetIndexOf(tag)], tag) <=> Abstract!Hits(tag)
<1> DEFINE s == SetIndexOf(tag)
           set == cache.sets_[s]
           R == Resident(set)
           rivals == Abstract!Rivals(tag)
           ever == {t \in Tags : last_ref[t] > 0}
<1>1. s \in SetIndex
  BY AddrHasTag DEF Tags
<1>2. IsSet(set) /\ ContainersAgree(s, set) /\ Recent(s, set, last_ref)
  BY <1>1, RecentOfEverySet DEF HInv, IInv, TypeOK, StructuresAgree
<1>3. last_ref \in [Tags -> Nat] /\ IsFiniteSet(ever)
  BY DEF HInv, HistoryOK
<1>4. rivals = {t \in Tags : SetIndexOf(t) = s /\ last_ref[t] > last_ref[tag]}
  BY DEF Abstract!Rivals
<1>5. rivals \subseteq ever
  BY <1>3, <1>4
<1> HIDE DEF rivals, ever
<1>6. IsFiniteSet(rivals) /\ Cardinality(rivals) \in Nat
  BY <1>3, <1>5, FS_Subset, FS_CardinalityType
<1>7. /\ IsFiniteSet(R) /\ Cardinality(R) = Len(set.tags_)
      /\ Cardinality(R) \in Nat /\ Cardinality(R) <= NumWays
  BY <1>2, ResidentCount, FS_CardinalityType DEF ContainersAgree
<1>8. Abstract!Hits(tag) <=> last_ref[tag] > 0 /\ Cardinality(rivals) < NumWays
  BY AbstractCardinality DEF Abstract!Hits, rivals
<1>9. CASE tag \in R
  <2>1. last_ref[tag] > 0
    BY <1>2, <1>9 DEF Recent
  <2>2. rivals \subseteq R \ {tag}
    <3> SUFFICES ASSUME NEW t \in rivals PROVE t \in R /\ t # tag
      OBVIOUS
    <3>1. t \in Tags /\ SetIndexOf(t) = s /\ last_ref[t] > last_ref[tag] /\ last_ref[t] > 0
      BY <1>3, <1>4
    <3> QED BY <1>2, <1>3, <1>9, <3>1 DEF Recent
  <2>3. IsFiniteSet(R \ {tag}) /\ Cardinality(R \ {tag}) = Cardinality(R) - 1
    BY <1>7, <1>9, FS_RemoveElement
  <2>4. Cardinality(rivals) <= Cardinality(R) - 1
    BY <2>2, <2>3, FS_Subset
  <2>5. Cardinality(rivals) < NumWays
    BY <1>6, <1>7, <2>4, LruAssumption
  <2> QED BY <1>8, <1>9, <2>1, <2>5 DEF IsHit
<1>10. CASE tag \notin R
  <2>1. ASSUME last_ref[tag] > 0 PROVE ~(Cardinality(rivals) < NumWays)
    <3>1. IsFull(set) /\ \A u \in R : last_ref[u] > last_ref[tag]
      BY <1>2, <1>10, <2>1 DEF Recent
    <3>2. R \subseteq rivals
      BY <1>2, <1>4, <3>1 DEF Recent
    <3>3. Cardinality(R) <= Cardinality(rivals) /\ Cardinality(R) = NumWays
      BY <1>6, <1>7, <3>1, <3>2, FS_Subset DEF IsFull
    <3> QED BY <1>6, <3>3, LruAssumption
  <2> QED BY <1>8, <1>10, <2>1 DEF IsHit
<1> QED BY <1>9, <1>10

-----------------------------------------------------------------------------
(* The cache with its history.                                             *)

(* The invariant holds at first.                                           *)
LEMMA HInitHInv == HInit => HInv
<1> SUFFICES ASSUME HInit PROVE HInv
  OBVIOUS
<1>1. IInv
  BY InitIInv DEF HInit
<1>2. last_ref = [t \in Tags |-> 0] /\ cache.ref_id_ = 0
  BY DEF HInit, Init, NewCache
<1>3. {t \in Tags : last_ref[t] > 0} = {}
  BY <1>2
<1>4. HistoryOK
  BY <1>2, <1>3, FS_EmptySet DEF HistoryOK
<1>5. ASSUME NEW s \in SetIndex PROVE Recent(s, cache.sets_[s], last_ref)
  <2>1. cache.sets_[s].tags_ = << >>
    BY DEF HInit, Init, NewCache, NewSet
  <2>2. Resident(cache.sets_[s]) = {}
    BY <2>1 DEF Resident
  <2>3. {t \in Tags : SetIndexOf(t) = s /\ last_ref[t] > 0} = {}
    BY <1>2
  <2> QED BY <2>2, <2>3 DEF Recent
<1> QED BY <1>1, <1>4, <1>5, RecentOfEverySet DEF HInv

(* In a write-allocate cache every reference may fill, whichever analysis  *)
(* call makes it, and the history remembers its line.                      *)
LEMMA HNextIsReference ==
    ASSUME HNext, WriteAllocate
    PROVE  \E inst, addr \in Addrs \cup Insts, access_type \in kAccessTypes,
              is_fetch \in BOOLEAN :
              Reference(inst, addr, access_type, is_fetch, TRUE) /\ Remember(addr)
<1>1. PICK inst \in Insts : \/ \E addr \in Addrs : DataReference(inst, addr) /\ Remember(addr)
                            \/ Fetch(inst) /\ Remember(inst)
  BY DEF HNext
<1>2. CASE \E addr \in Addrs : DataReference(inst, addr) /\ Remember(addr)
  <2>1. PICK addr \in Addrs, access_type \in kAccessTypes :
            /\ Reference(inst, addr, access_type, FALSE, Allocates(access_type))
            /\ Remember(addr)
    BY <1>2 DEF DataReference, AccessSingleLine, AccessMultipleLines
  <2>2. Allocates(access_type) = TRUE
    BY LruAssumption DEF Allocates
  <2> QED BY <2>1, <2>2
<1>3. CASE Fetch(inst) /\ Remember(inst)
  <2>1. Reference(inst, inst, kLoad, TRUE, WriteAllocate)
    BY <1>3 DEF Fetch, FetchSingleLine, FetchMultipleLines
  <2>2. kLoad \in kAccessTypes /\ WriteAllocate = TRUE
    BY LruAssumption DEF kAccessTypes
  <2> QED BY <1>3, <2>1, <2>2
<1> QED BY <1>1, <1>2, <1>3

(* One reference that may fill preserves the invariant.                    *)
LEMMA ReferenceHInv ==
    ASSUME HInv, NEW inst \in Addrs \cup Insts, NEW addr \in Addrs \cup Insts,
           NEW access_type \in kAccessTypes, NEW is_fetch \in BOOLEAN,
           Reference(inst, addr, access_type, is_fetch, TRUE), Remember(addr)
    PROVE  HInv'
<1> DEFINE tag == TagOf(addr)
           s == SetIndexOf(tag)
           set == cache.sets_[s]
           now == cache.ref_id_
           id == now + 1
           after == SetAfter(set, tag, id, ~IsHit(set, tag))
<1>1. IInv'
  BY ReferenceIInv DEF HInv
<1>2. /\ cache'.sets_ = [cache.sets_ EXCEPT ![s] = after]
      /\ cache'.ref_id_ = id
      /\ last_ref' = [last_ref EXCEPT ![tag] = id]
  BY DEF Reference, Remember
<1>3. tag \in Tags /\ s \in SetIndex
  BY AddrHasTag
<1>4. now \in Nat /\ id \in Nat /\ id > now /\ DOMAIN cache.sets_ = SetIndex
  BY DEF HInv, IInv, TypeOK
<1>5. IsSet(set) /\ ContainersAgree(s, set) /\ InRecencyOrder(set, now)
  BY <1>3 DEF HInv, IInv, TypeOK, StructuresAgree, RecencyOrder
<1>6. /\ last_ref \in [Tags -> Nat] /\ \A t \in Tags : last_ref[t] <= now
      /\ IsFiniteSet({t \in Tags : last_ref[t] > 0})
      /\ \A r \in SetIndex : Recent(r, cache.sets_[r], last_ref)
  BY RecentOfEverySet DEF HInv, HistoryOK
<1> HIDE DEF now, id
<1>7. Recent(s, after, last_ref')
  <2> HIDE DEF tag, set
  <2> QED BY <1>2, <1>3, <1>4, <1>5, <1>6, TouchRecent DEF set
<1> HIDE DEF after
<1>8. HistoryOK'
  <2>1. last_ref' \in [Tags -> Nat] /\ \A t \in Tags : last_ref'[t] <= id
    BY <1>2, <1>3, <1>4, <1>6
  <2>2. {t \in Tags : last_ref'[t] > 0} = {t \in Tags : last_ref[t] > 0} \cup {tag}
    BY <1>2, <1>3, <1>4, <1>6
  <2>3. IsFiniteSet({t \in Tags : last_ref'[t] > 0})
    BY <1>6, <2>2, FS_AddElement
  <2> QED BY <1>2, <2>1, <2>3 DEF HistoryOK
<1>9. ASSUME NEW r \in SetIndex PROVE Recent(r, cache'.sets_[r], last_ref')
  <2>1. CASE r = s
    BY <1>2, <1>3, <1>4, <1>7, <2>1
  <2>2. CASE r # s
    <3>1. cache'.sets_[r] = cache.sets_[r]
      BY <1>2, <1>4, <2>2
    <3>2. \A t \in Tags : SetIndexOf(t) = r => last_ref'[t] = last_ref[t]
      BY <1>2, <1>6, <2>2
    <3>3. Recent(r, cache.sets_[r], last_ref)
      BY <1>6
    <3> QED BY <3>1, <3>2, <3>3 DEF Recent
  <2> QED BY <2>1, <2>2
<1>10. ResidentIsRecent'
  BY <1>9 DEF ResidentIsRecent, Recent, Resident, IsFull
<1> QED BY <1>1, <1>8, <1>10 DEF HInv

(* Every step keeps it.                                                    *)
LEMMA HNextHInv ==
    ASSUME WriteAllocate
    PROVE  HInv /\ [HNext]_hvars => HInv'
<1> SUFFICES ASSUME HInv, [HNext]_hvars PROVE HInv'
  OBVIOUS
<1>1. CASE HNext
  BY <1>1, HNextIsReference, ReferenceHInv
<1>2. CASE UNCHANGED hvars
  <2>1. UNCHANGED cache /\ UNCHANGED last_ref
    BY <1>2 DEF hvars
  <2>2. IInv'
    BY <2>1, NextIInv DEF HInv
  <2> QED BY <2>1, <2>2 DEF HInv, HistoryOK, ResidentIsRecent, Resident, IsFull
<1> QED BY <1>1, <1>2

(* The history copies the references and constrains nothing: the cache     *)
(* that carries it is a cache of the specification.                        *)
THEOREM HistoryIsHarmless == HSpec => Spec
<1>1. HInit => Init
  BY DEF HInit
<1>2. [HNext]_hvars => [Next]_cache
  BY DEF HNext, Next, hvars
<1> QED BY <1>1, <1>2, PTL DEF HSpec, Spec

(* So it holds in every reachable state.                                   *)
LEMMA HInvariantHolds ==
    ASSUME WriteAllocate
    PROVE  HSpec => []HInv
BY HInitHInv, HNextHInv, PTL DEF HSpec

(* The resident lines of every set of a write-allocate cache are the       *)
(* NumWays (or fewer) last referenced ones.                                *)
THEOREM AlwaysResidentIsRecent ==
    ASSUME WriteAllocate
    PROVE  HSpec => []ResidentIsRecent
BY HInvariantHolds, PTL DEF HInv

(* Every step of the cache is a hit or a miss of the definition of LRU.    *)
LEMMA StepIsAbstract ==
    ASSUME WriteAllocate, HInv, HNext
    PROVE  Abstract!Next
<1>1. PICK inst \in Addrs \cup Insts, addr \in Addrs \cup Insts,
           access_type \in kAccessTypes, is_fetch \in BOOLEAN :
           Reference(inst, addr, access_type, is_fetch, TRUE) /\ Remember(addr)
  BY HNextIsReference
<1> DEFINE tag == TagOf(addr)
           set == cache.sets_[SetIndexOf(tag)]
           is_hit == IsHit(set, tag)
           misses == cache.miss_hit_[1]
           hits == cache.miss_hit_[2]
<1>2. tag \in Tags
  BY AddrHasTag
<1>3. is_hit <=> Abstract!Hits(tag)
  BY <1>2, HitIffRecent
<1>4. Abstract!Touch(tag)
  <2>1. cache'.ref_id_ = cache.ref_id_ + 1
    BY <1>1 DEF Reference
  <2> QED BY <1>1, <2>1 DEF Abstract!Touch, Remember
<1>5. cache'.miss_hit_ = Inc(cache.miss_hit_, is_hit)
  BY <1>1 DEF Reference
<1>6. cache.miss_hit_ \in (0 .. Uint32 - 1) \X (0 .. Uint32 - 1)
  BY DEF HInv, IInv, TypeOK
<1> HIDE DEF tag, is_hit
<1>7. CASE is_hit
  <2>1. cache'.miss_hit_[1] = misses /\ cache'.miss_hit_[2] = (hits + 1) % Uint32
    BY <1>5, <1>6, <1>7 DEF Inc, B2I
  <2> QED BY <1>2, <1>3, <1>4, <1>7, <2>1 DEF Abstract!Next, Abstract!Hit
<1>8. CASE ~is_hit
  <2>1. cache'.miss_hit_[1] = (misses + 1) % Uint32 /\ cache'.miss_hit_[2] = hits
    BY <1>5, <1>6, <1>8 DEF Inc, B2I
  <2> QED BY <1>2, <1>3, <1>4, <1>8, <2>1 DEF Abstract!Next, Abstract!Miss
<1> QED BY <1>7, <1>8

(* Every run of the write-allocate cache is a run of the stack-distance    *)
(* definition of LRU, hit for hit and miss for miss.                       *)
THEOREM LruImplementsStackDistance ==
    ASSUME WriteAllocate
    PROVE  HSpec => ImplementsLru
<1>1. HInit => Abstract!Init
  BY DEF HInit, Init, NewCache, NewMissHit, Abstract!Init
<1>2. HInv /\ [HNext]_hvars => [Abstract!Next]_Abstract!vars
  <2> SUFFICES ASSUME HInv, [HNext]_hvars PROVE [Abstract!Next]_Abstract!vars
    OBVIOUS
  <2>1. CASE HNext
    BY <2>1, StepIsAbstract
  <2>2. CASE UNCHANGED hvars
    BY <2>2 DEF hvars, Abstract!vars
  <2> QED BY <2>1, <2>2
<1> QED BY <1>1, <1>2, HInvariantHolds, PTL DEF HSpec, ImplementsLru, Abstract!Spec
=============================================================================
