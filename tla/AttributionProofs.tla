-------------------------- MODULE AttributionProofs --------------------------
(***************************************************************************)
(* Proofs about Attribution, for every program: whatever it loads, unloads,*)
(* allocates and frees, in whichever order, instructions are reported      *)
(* under their routines and addresses under the first call of malloc that  *)
(* returned them, and nested calls leave as many unfinished tags as there  *)
(* were of them.                                                           *)
(***************************************************************************)
EXTENDS Attribution, FiniteSetTheorems, SequenceTheorems, WellFoundedInduction, TLAPS

-----------------------------------------------------------------------------
(* The inductive invariant.                                                *)

TagType == [id : Nat \cup {Garbage}, addr : Heap \cup {Garbage}, size : Sizes]
BlockType == [addr : Heap, size : Sizes]
CallType == [size : Sizes, got : Heap \cup {None}]

Types ==
    /\ loads \in Seq(Images) /\ loaded \subseteq Images
    /\ object_tag \in Seq(TagType)
    /\ returned \in Seq(BlockType)
    /\ calls \in Seq(CallType)
    /\ id \in Nat \ {0} /\ nested \in Nat

(* Every tag is that of a routine of an image loaded before, and every     *)
(* such routine has one at its address.                                    *)
TagOf(r, img) == [name |-> r.name, image |-> img.name, size |-> r.size]

Tagged(addr) ==
    \E n \in DOMAIN loads : \E r \in loads[n].routines :
        r.addr = addr /\ routine_tag[addr] = TagOf(r, loads[n])

CodeOK ==
    /\ \A img \in loaded : \E n \in DOMAIN loads : loads[n] = img
    /\ DOMAIN routine_tag = {r.addr : r \in UNION {img.routines : img \in ToSet(loads)}}
    /\ \A addr \in DOMAIN routine_tag : Tagged(addr)

Unfinished(tags) == {n \in 1 .. Len(tags) : tags[n].addr = Garbage}

(* The innermost call has not got its block from another.                  *)
Pending == calls # << >> /\ calls[Len(calls)].got = None

(* There is a tag for every call; the last one is unfinished while the     *)
(* innermost call is to allocate, and that of what it called otherwise.    *)
Counts ==
    /\ Len(object_tag) = Len(returned) + Len(calls)
    /\ Len(object_tag) <= MaxMallocs
    /\ id = Len(returned) + 1
    /\ \A n \in 1 .. Len(calls) : n < Len(calls) => calls[n].got = None
    /\ calls # << >> =>
          (calls[Len(calls)].got = None <=> object_tag[Len(object_tag)].addr = Garbage)
    /\ Cardinality(Unfinished(object_tag)) = nested + (IF Pending THEN 1 ELSE 0)

(* Finished tags are in the order of their numbers.                        *)
InOrder ==
    /\ \A n \in 1 .. Len(object_tag) :
          object_tag[n].addr # Garbage => object_tag[n].id \in 1 .. id - 1
    /\ \A n, m \in 1 .. Len(object_tag) :
          n < m /\ object_tag[n].addr # Garbage /\ object_tag[m].addr # Garbage
            => object_tag[n].id < object_tag[m].id
    /\ \A n \in 1 .. Len(object_tag) : object_tag[n].addr = Garbage => object_tag[n].id = Garbage

(* The tag of the n-th call to return, as long as calls have not nested.   *)
Plain ==
    nested = 0 =>
        /\ Len(calls) <= 1
        /\ \A n \in 1 .. Len(returned) :
              /\ object_tag[n].id = n
              /\ object_tag[n].addr = returned[n].addr
              /\ object_tag[n].size = returned[n].size
        /\ calls # << >> => /\ calls[1].got = None
                            /\ object_tag[Len(object_tag)].size = calls[1].size

IInv == Types /\ CodeOK /\ Counts /\ InOrder /\ Plain


-----------------------------------------------------------------------------
(* Sequences.                                                              *)

(* Pushing an element to the back.                                         *)
LEMMA Pushed ==
    ASSUME NEW S, NEW q \in Seq(S), NEW e \in S
    PROVE  /\ Append(q, e) \in Seq(S)
           /\ Len(q) \in Nat /\ Len(Append(q, e)) = Len(q) + 1
           /\ \A n \in 1 .. Len(q) : Append(q, e)[n] = q[n]
           /\ Append(q, e)[Len(q) + 1] = e
OBVIOUS

(* Popping the element at the back.                                        *)
LEMMA Popped ==
    ASSUME NEW S, NEW q \in Seq(S), q # << >>
    PROVE  /\ Front(q) \in Seq(S)
           /\ Len(q) \in Nat \ {0} /\ Len(Front(q)) = Len(q) - 1
           /\ \A n \in 1 .. Len(q) - 1 : Front(q)[n] = q[n]
<1>1. Len(q) \in Nat \ {0} /\ q[1] \in S
  BY EmptySeq
<1> DEFINE k == Len(q) - 1
<1>2. k \in Int /\ 1 \in Int /\ k >= 0 /\ \A i \in 1 .. k : q[i] \in S
  BY <1>1
<1> HIDE DEF k
<1>3. /\ SubSeq(q, 1, k) \in Seq(S)
      /\ Len(SubSeq(q, 1, k)) = IF 1 <= k THEN k - 1 + 1 ELSE 0
      /\ \A n \in 1 .. k - 1 + 1 : SubSeq(q, 1, k)[n] = q[1 + n - 1]
  BY <1>2, SubSeqProperties
<1>4. Len(SubSeq(q, 1, k)) = k /\ k - 1 + 1 = k /\ \A n \in 1 .. k : 1 + n - 1 = n
  BY <1>2, <1>3
<1>5. \A n \in 1 .. k : SubSeq(q, 1, k)[n] = q[n]
  BY <1>3, <1>4
<1> QED BY <1>1, <1>3, <1>4, <1>5 DEF Front, k

(* Popping one and pushing another changes the last element alone.         *)
LEMMA Replaced ==
    ASSUME NEW S, NEW q \in Seq(S), q # << >>, NEW e \in S
    PROVE  LET p == Append(Front(q), e)
           IN  /\ p \in Seq(S) /\ Len(p) = Len(q) /\ Len(q) \in Nat \ {0}
               /\ \A n \in 1 .. Len(q) - 1 : p[n] = q[n]
               /\ p[Len(q)] = e
<1> DEFINE f == Front(q)
<1>1. /\ f \in Seq(S) /\ Len(q) \in Nat \ {0} /\ Len(f) = Len(q) - 1
      /\ \A n \in 1 .. Len(q) - 1 : f[n] = q[n]
  BY Popped
<1> HIDE DEF f
<1>2. /\ Append(f, e) \in Seq(S) /\ Len(Append(f, e)) = Len(f) + 1
      /\ \A n \in 1 .. Len(f) : Append(f, e)[n] = f[n]
      /\ Append(f, e)[Len(f) + 1] = e
  BY <1>1, Pushed
<1>3. Len(f) + 1 = Len(q)
  BY <1>1
<1>4. /\ Append(f, e) \in Seq(S) /\ Len(Append(f, e)) = Len(q) /\ Len(q) \in Nat \ {0}
      /\ \A n \in 1 .. Len(q) - 1 : Append(f, e)[n] = q[n]
      /\ Append(f, e)[Len(q)] = e
  BY <1>1, <1>2, <1>3
<1> QED BY <1>4 DEF f

(* The last element, and the number of elements.                           *)
LEMMA LastElement ==
    ASSUME NEW S, NEW q \in Seq(S), q # << >>
    PROVE  Last(q) = q[Len(q)] /\ q[Len(q)] \in S /\ Len(q) \in Nat \ {0} /\ Len(q) \in DOMAIN q
<1>1. Len(q) \in Nat \ {0}
  BY EmptySeq
<1> QED BY <1>1 DEF Last

-----------------------------------------------------------------------------
(* Tags.                                                                   *)

(* The unfinished tags are finitely many.                                  *)
LEMMA UnfinishedFinite ==
    ASSUME NEW tags \in Seq(TagType)
    PROVE  IsFiniteSet(Unfinished(tags)) /\ Cardinality(Unfinished(tags)) \in Nat
<1>1. Unfinished(tags) \in SUBSET (1 .. Len(tags)) /\ Len(tags) \in Int /\ 1 \in Int
  BY DEF Unfinished
<1>2. IsFiniteSet(1 .. Len(tags))
  BY <1>1, FS_Interval
<1> QED BY <1>1, <1>2, FS_Subset, FS_CardinalityType

(* A tag begun is one more unfinished.                                     *)
LEMMA UnfinishedBegun ==
    ASSUME NEW tags \in Seq(TagType), NEW tag \in TagType, tag.addr = Garbage
    PROVE  Cardinality(Unfinished(Append(tags, tag))) = Cardinality(Unfinished(tags)) + 1
<1> DEFINE more == Append(tags, tag)
<1>1. /\ Len(tags) \in Nat /\ Len(more) = Len(tags) + 1
      /\ \A n \in 1 .. Len(tags) : more[n] = tags[n]
      /\ more[Len(tags) + 1] = tag
  BY Pushed
<1> HIDE DEF more
<1>2. \A n : n \in 1 .. Len(more) <=> n \in 1 .. Len(tags) \/ n = Len(tags) + 1
  BY <1>1
<1>3. Len(tags) + 1 \notin 1 .. Len(tags)
  BY <1>1
<1>4. Unfinished(more) = Unfinished(tags) \cup {Len(tags) + 1}
      /\ Len(tags) + 1 \notin Unfinished(tags)
  BY <1>1, <1>2, <1>3 DEF Unfinished
<1>5. Cardinality(Unfinished(more)) = Cardinality(Unfinished(tags)) + 1
  BY <1>4, UnfinishedFinite, FS_AddElement
<1> QED BY <1>5 DEF more

(* Finishing the last tag is one less unfinished if it was.                *)
LEMMA UnfinishedEnded ==
    ASSUME NEW tags \in Seq(TagType), tags # << >>, NEW tag \in TagType, tag.addr # Garbage
    PROVE  Cardinality(Unfinished(Append(Front(tags), tag)))
             = IF tags[Len(tags)].addr = Garbage THEN Cardinality(Unfinished(tags)) - 1
                                                 ELSE Cardinality(Unfinished(tags))
<1> DEFINE new == Append(Front(tags), tag)
           k == Len(tags)
<1>1. /\ k \in Nat \ {0} /\ Len(new) = k
      /\ \A n \in 1 .. k - 1 : new[n] = tags[n]
      /\ new[k] = tag
  BY Replaced
<1> HIDE DEF new
<1>2. \A n : n \in 1 .. k <=> n \in 1 .. k - 1 \/ n = k
  BY <1>1
<1>3. k \notin 1 .. k - 1
  BY <1>1
<1>4. Unfinished(new) = Unfinished(tags) \ {k} /\ (k \in Unfinished(tags) <=> tags[k].addr = Garbage)
  BY <1>1, <1>2, <1>3 DEF Unfinished
<1>5. IF k \in Unfinished(tags) THEN Cardinality(Unfinished(new)) = Cardinality(Unfinished(tags)) - 1
                                ELSE Cardinality(Unfinished(new)) = Cardinality(Unfinished(tags))
  BY <1>4, UnfinishedFinite, FS_RemoveElement
<1> QED BY <1>4, <1>5 DEF new


-----------------------------------------------------------------------------
(* The steps of the traced program.                                        *)

(* Loading an image gives its routines their tags and keeps the others',   *)
(* unless they are at the same addresses.                                  *)
LEMMA LoadStep ==
    ASSUME IInv, NEW img \in Images, Load(img)
    PROVE  IInv'
<1>1. /\ routine_tag' = Routine(routine_tag, img) /\ loaded' = loaded \cup {img}
      /\ loads' = Append(loads, img)
      /\ UNCHANGED <<object_tag, id, blocks, calls, returned, nested>>
  BY DEF Load, dataVars
<1>2. Types /\ CodeOK /\ Counts /\ InOrder /\ Plain
  BY DEF IInv
<1>3. /\ loads' \in Seq(Images) /\ Len(loads) \in Nat /\ Len(loads') = Len(loads) + 1
      /\ \A n \in 1 .. Len(loads) : loads'[n] = loads[n]
      /\ loads'[Len(loads) + 1] = img
      /\ DOMAIN loads = 1 .. Len(loads) /\ DOMAIN loads' = 1 .. Len(loads')
  <2>1. loads \in Seq(Images)
    BY <1>2 DEF Types
  <2>2. loads' \in Seq(Images)
    BY <1>1, <2>1, Pushed
  <2> QED BY <1>1, <2>1, <2>2, Pushed
<1>4. /\ \A n \in DOMAIN loads : n \in DOMAIN loads' /\ loads'[n] = loads[n]
      /\ Len(loads) + 1 \in DOMAIN loads'
      /\ \A n \in DOMAIN loads' : n \in DOMAIN loads \/ n = Len(loads) + 1
  BY <1>3
<1>5. Types'
  BY <1>1, <1>2, <1>3 DEF Types
<1>6. CodeOK'
  <2>1. \A i \in loaded' : \E n \in DOMAIN loads' : loads'[n] = i
    BY <1>1, <1>2, <1>3, <1>4 DEF CodeOK
  <2>2. ToSet(loads') = ToSet(loads) \cup {img}
    BY <1>3, <1>4 DEF ToSet
  <2>3. DOMAIN routine_tag' = DOMAIN routine_tag \cup {r.addr : r \in img.routines}
    BY <1>1 DEF Routine
  <2>4. DOMAIN routine_tag' = {r.addr : r \in UNION {i.routines : i \in ToSet(loads')}}
    <3>1. DOMAIN routine_tag = {r.addr : r \in UNION {i.routines : i \in ToSet(loads)}}
      BY <1>2 DEF CodeOK
    <3> QED BY <2>2, <2>3, <3>1
  <2>5. ASSUME NEW addr \in DOMAIN routine_tag' PROVE Tagged(addr)'
    <3>1. CASE \E r \in img.routines : r.addr = addr
      <4> DEFINE r == CHOOSE r \in img.routines : r.addr = addr
      <4>1. r \in img.routines /\ r.addr = addr
        BY <3>1
      <4>2. routine_tag'[addr] = TagOf(r, img)
        BY <1>1, <2>3, <3>1 DEF Routine, TagOf
      <4> HIDE DEF r
      <4> QED BY <1>3, <1>4, <4>1, <4>2 DEF Tagged
    <3>2. CASE ~(\E r \in img.routines : r.addr = addr)
      <4>1. addr \in DOMAIN routine_tag /\ routine_tag'[addr] = routine_tag[addr]
        BY <1>1, <2>3, <3>2 DEF Routine
      <4>2. Tagged(addr)
        BY <1>2, <4>1 DEF CodeOK
      <4> QED BY <1>4, <4>1, <4>2 DEF Tagged
    <3> QED BY <3>1, <3>2
  <2> QED BY <2>1, <2>4, <2>5 DEF CodeOK
<1>7. Counts' /\ InOrder' /\ Plain'
  <2>1. Pending' <=> Pending
    BY <1>1 DEF Pending
  <2> QED BY <1>1, <1>2, <2>1 DEF Counts, InOrder, Plain
<1> QED BY <1>5, <1>6, <1>7 DEF IInv

(* Nothing happens to the tags of an image that is unloaded.               *)
LEMMA UnloadStep ==
    ASSUME IInv, NEW img \in Images, Unload(img)
    PROVE  IInv'
<1>1. /\ loaded' = loaded \ {img}
      /\ UNCHANGED <<routine_tag, loads, object_tag, id, blocks, calls, returned, nested>>
  BY DEF Unload, dataVars
<1>2. Types /\ CodeOK /\ Counts /\ InOrder /\ Plain
  BY DEF IInv
<1>3. \A addr : Tagged(addr)' <=> Tagged(addr)
  BY <1>1 DEF Tagged
<1>4. Types' /\ CodeOK'
  BY <1>1, <1>2, <1>3 DEF Types, CodeOK
<1>5. Pending' <=> Pending
  BY <1>1 DEF Pending
<1>6. Counts' /\ InOrder' /\ Plain'
  BY <1>1, <1>2, <1>5 DEF Counts, InOrder, Plain
<1> QED BY <1>4, <1>6 DEF IInv

(* Nor when a block is freed.                                              *)
LEMMA FreeBlockStep ==
    ASSUME IInv, NEW addr \in Heap, FreeBlock(addr)
    PROVE  IInv'
<1>1. UNCHANGED <<routine_tag, loads, loaded, object_tag, id, calls, returned, nested>>
  BY DEF FreeBlock, codeVars
<1>2. Types /\ CodeOK /\ Counts /\ InOrder /\ Plain
  BY DEF IInv
<1>3. \A a : Tagged(a)' <=> Tagged(a)
  BY <1>1 DEF Tagged
<1>4. Types' /\ CodeOK'
  BY <1>1, <1>2, <1>3 DEF Types, CodeOK
<1>5. Pending' <=> Pending
  BY <1>1 DEF Pending
<1>6. Counts' /\ InOrder' /\ Plain'
  BY <1>1, <1>2, <1>5 DEF Counts, InOrder, Plain
<1> QED BY <1>4, <1>6 DEF IInv

(* A call begins a tag at the back: a nested one while that of the call it *)
(* is made by is unfinished.                                               *)
LEMMA CallStep ==
    ASSUME IInv, NEW size \in Sizes, Call(size)
    PROVE  IInv'
<1> DEFINE tag == [id |-> Garbage, addr |-> Garbage, size |-> size]
           call == [size |-> size, got |-> None]
<1>1. /\ Len(object_tag) < MaxMallocs
      /\ calls # <<>> => Last(calls).got = None
      /\ object_tag' = Append(object_tag, tag)
      /\ calls' = Append(calls, call)
      /\ nested' = IF calls = <<>> THEN nested ELSE nested + 1
      /\ UNCHANGED <<id, blocks, returned, routine_tag, loaded, loads>>
  BY DEF Call, MallocBefore, codeVars
<1>2. Types /\ CodeOK /\ Counts /\ InOrder /\ Plain
  BY DEF IInv
<1>3. /\ tag \in TagType /\ tag.addr = Garbage /\ tag.id = Garbage /\ tag.size = size
      /\ call \in CallType /\ call.got = None /\ call.size = size
  BY DEF TagType, CallType
<1> HIDE DEF tag, call
<1>4. /\ object_tag \in Seq(TagType) /\ calls \in Seq(CallType) /\ nested \in Nat
      /\ returned \in Seq(BlockType) /\ Len(returned) \in Nat /\ id \in Nat \ {0}
  BY <1>2 DEF Types
<1> DEFINE k == Len(object_tag)
           d == Len(calls)
<1>5. /\ object_tag' \in Seq(TagType) /\ k \in Nat /\ Len(object_tag') = k + 1
      /\ \A n \in 1 .. k : object_tag'[n] = object_tag[n]
      /\ object_tag'[k + 1] = tag
  BY <1>1, <1>3, <1>4, Pushed
<1>6. /\ calls' \in Seq(CallType) /\ d \in Nat /\ Len(calls') = d + 1
      /\ \A n \in 1 .. d : calls'[n] = calls[n]
      /\ calls'[d + 1] = call /\ calls' # << >>
  BY <1>1, <1>3, <1>4, Pushed
<1>7. d = 0 <=> calls = << >>
  BY <1>4, EmptySeq
<1>8. calls # << >> => calls[d].got = None
  BY <1>1 DEF Last
<1>9. Pending' /\ (Pending <=> calls # << >>)
  BY <1>3, <1>6, <1>8 DEF Pending
<1>10. Types' /\ CodeOK'
  <2>1. \A a : Tagged(a)' <=> Tagged(a)
    BY <1>1 DEF Tagged
  <2>2. nested' \in Nat
    BY <1>1, <1>4
  <2> QED BY <1>1, <1>2, <1>5, <1>6, <2>1, <2>2 DEF Types, CodeOK
<1>11. /\ k = Len(returned) + d /\ k < MaxMallocs /\ id = Len(returned) + 1
       /\ \A n \in 1 .. d : n < d => calls[n].got = None
       /\ Cardinality(Unfinished(object_tag)) = nested + (IF Pending THEN 1 ELSE 0)
  BY <1>1, <1>2 DEF Counts
<1>12. Cardinality(Unfinished(object_tag')) = Cardinality(Unfinished(object_tag)) + 1
  BY <1>1, <1>3, <1>4, UnfinishedBegun
<1>13. Counts'
  <2>1. Len(object_tag') = Len(returned) + Len(calls') /\ Len(object_tag') <= MaxMallocs
    <3> HIDE DEF k, d
    <3> QED BY <1>4, <1>5, <1>6, <1>11, AttributionAssumption DEF k, d
  <2>2. ASSUME NEW n \in 1 .. Len(calls'), n < Len(calls') PROVE calls'[n].got = None
    <3>1. n \in 1 .. d /\ (n < d \/ n = d) /\ calls # << >>
      BY <1>6, <1>7, <2>2
    <3> HIDE DEF d
    <3> QED BY <1>6, <1>8, <1>11, <3>1
  <2>3. calls'[Len(calls')].got = None /\ object_tag'[Len(object_tag')].addr = Garbage
    BY <1>3, <1>5, <1>6
  <2>4. Cardinality(Unfinished(object_tag')) = nested' + 1
    <3>1. CASE calls = << >>
      BY <1>1, <1>4, <1>9, <1>11, <1>12, <3>1
    <3>2. CASE calls # << >>
      BY <1>1, <1>4, <1>9, <1>11, <1>12, <3>2
    <3> QED BY <3>1, <3>2
  <2> QED BY <1>1, <1>9, <1>11, <2>1, <2>2, <2>3, <2>4 DEF Counts
<1> HIDE DEF k, d
<1>14. \A n : n \in 1 .. k + 1 <=> n \in 1 .. k \/ n = k + 1
  BY <1>5
<1>15. InOrder'
  <2>1. /\ \A n \in 1 .. k : object_tag[n].addr # Garbage => object_tag[n].id \in 1 .. id - 1
        /\ \A n, m \in 1 .. k :
              n < m /\ object_tag[n].addr # Garbage /\ object_tag[m].addr # Garbage
                => object_tag[n].id < object_tag[m].id
        /\ \A n \in 1 .. k : object_tag[n].addr = Garbage => object_tag[n].id = Garbage
    BY <1>2 DEF InOrder, k
  <2> QED BY <1>1, <1>3, <1>5, <1>14, <2>1 DEF InOrder
<1>16. Plain'
  <2>1. SUFFICES ASSUME nested' = 0 PROVE Plain'
    BY DEF Plain
  <2>2. calls = << >> /\ nested = 0 /\ d = 0
    BY <1>1, <1>4, <1>7, <2>1
  <2>3. Len(returned) = k
    BY <1>4, <1>11, <2>2
  <2>4. \A n \in 1 .. k : /\ object_tag[n].id = n
                          /\ object_tag[n].addr = returned[n].addr
                          /\ object_tag[n].size = returned[n].size
    BY <1>2, <2>2, <2>3 DEF Plain
  <2>5. calls'[1] = call /\ Len(calls') = 1
    BY <1>6, <2>2
  <2> QED BY <1>1, <1>3, <1>5, <2>3, <2>4, <2>5 DEF Plain
<1> QED BY <1>10, <1>13, <1>15, <1>16 DEF IInv


(* Telling the last call what the call it made returned.                   *)
LEMMA Told ==
    ASSUME NEW q \in Seq(CallType), q # << >>, NEW a \in Heap
    PROVE  LET p == [q EXCEPT ![Len(q)].got = a]
           IN  /\ p \in Seq(CallType) /\ Len(p) = Len(q) /\ Len(q) \in Nat \ {0}
               /\ \A n \in 1 .. Len(q) : n < Len(q) => p[n] = q[n]
               /\ p[Len(q)].got = a
<1> DEFINE d == Len(q)
           p == [q EXCEPT ![d].got = a]
<1>1. d \in Nat \ {0} /\ q \in [1 .. d -> CallType] /\ d \in 1 .. d
  BY EmptySeq
<1>2. q[d] \in [size : Sizes, got : Heap \cup {None}]
  BY <1>1 DEF CallType
<1>3. [q[d] EXCEPT !.got = a] \in CallType /\ [q[d] EXCEPT !.got = a].got = a
  BY <1>2 DEF CallType
<1> HIDE DEF d
<1>4. p = [q EXCEPT ![d] = [q[d] EXCEPT !.got = a]]
  BY <1>1
<1>5. /\ p \in [1 .. d -> CallType]
      /\ \A n \in 1 .. d : n < d => p[n] = q[n]
      /\ p[d].got = a
  <2> DEFINE call == [q[d] EXCEPT !.got = a]
  <2>1. call \in CallType /\ call.got = a /\ p = [q EXCEPT ![d] = call]
    BY <1>3, <1>4
  <2> HIDE DEF call, p
  <2>2. \A n \in 1 .. d : n < d => n # d
    BY <1>1
  <2> QED BY <1>1, <2>1, <2>2
<1> HIDE DEF p
<1>6. p \in Seq(CallType) /\ Len(p) = d
  BY <1>1, <1>5
<1> QED BY <1>1, <1>5, <1>6 DEF p, d

(* A return finishes the tag at the back, whichever call that was begun    *)
(* by: its own, if it is the innermost one, which was unfinished then, or  *)
(* else that of the call it made.                                          *)
LEMMA ReturnStep ==
    ASSUME IInv, NEW addr \in Heap, Return(addr)
    PROVE  IInv'
<1> DEFINE k == Len(object_tag)
           d == Len(calls)
           tag == [id |-> id, addr |-> addr, size |-> Last(object_tag).size]
           block == [addr |-> addr, size |-> Last(calls).size]
<1>1. /\ calls # << >>
      /\ object_tag' = Append(Front(object_tag), tag) /\ id' = id + 1
      /\ returned' = Append(returned, block)
      /\ calls' = IF Len(calls) = 1 THEN << >>
                  ELSE [Front(calls) EXCEPT ![Len(calls) - 1].got = addr]
      /\ UNCHANGED <<nested, routine_tag, loaded, loads>>
  BY DEF Return, MallocAfter, codeVars
<1>2. Types /\ CodeOK /\ Counts /\ InOrder /\ Plain
  BY DEF IInv
<1>3. /\ object_tag \in Seq(TagType) /\ calls \in Seq(CallType) /\ nested \in Nat
      /\ returned \in Seq(BlockType) /\ id \in Nat \ {0}
  BY <1>2 DEF Types
<1>4. /\ k = Len(returned) + Len(calls) /\ k <= MaxMallocs /\ id = Len(returned) + 1
      /\ \A n \in 1 .. d : n < d => calls[n].got = None
      /\ calls[d].got = None <=> object_tag[k].addr = Garbage
      /\ Cardinality(Unfinished(object_tag)) = nested + (IF Pending THEN 1 ELSE 0)
  BY <1>1, <1>2 DEF Counts
<1>5. addr # Garbage /\ addr # None
  BY AttributionAssumption DEF Garbage, None
<1>6. Last(calls) = calls[d] /\ calls[d] \in CallType /\ d \in Nat \ {0}
  BY <1>1, <1>3, LastElement
<1>7. object_tag # << >>
  <2>1. Len(returned) \in Nat
    BY <1>3
  <2>2. k # 0
    BY <1>4, <1>6, <2>1
  <2> QED BY <2>2
<1>8. Last(object_tag) = object_tag[k] /\ object_tag[k] \in TagType /\ k \in Nat \ {0}
  BY <1>3, <1>7, LastElement
<1>9. /\ tag \in TagType /\ tag.id = id /\ tag.addr = addr /\ tag.size = object_tag[k].size
      /\ block \in BlockType /\ block.addr = addr /\ block.size = calls[d].size
  BY <1>3, <1>6, <1>8 DEF TagType, BlockType, CallType
<1> HIDE DEF tag, block
<1>10. /\ object_tag' \in Seq(TagType) /\ Len(object_tag') = k
       /\ \A n \in 1 .. k - 1 : object_tag'[n] = object_tag[n]
       /\ object_tag'[k] = tag
  BY <1>1, <1>3, <1>7, <1>9, Replaced
<1>11. Cardinality(Unfinished(object_tag'))
         = IF object_tag[k].addr = Garbage THEN Cardinality(Unfinished(object_tag)) - 1
                                           ELSE Cardinality(Unfinished(object_tag))
  BY <1>1, <1>3, <1>5, <1>7, <1>9, UnfinishedEnded
<1> DEFINE r == Len(returned)
<1>12. /\ returned' \in Seq(BlockType) /\ r \in Nat /\ Len(returned') = r + 1
       /\ \A n \in 1 .. r : returned'[n] = returned[n]
       /\ returned'[r + 1] = block
  BY <1>1, <1>3, <1>9, Pushed
<1>13. /\ calls' \in Seq(CallType) /\ Len(calls') = d - 1
       /\ \A n \in 1 .. d - 1 : n < d - 1 => calls'[n].got = None
       /\ calls' # << >> => calls'[Len(calls')].got = addr
  <2>1. CASE d = 1
    <3>1. calls' = << >>
      BY <1>1, <2>1
    <3>2. Len(calls') = d - 1 /\ \A n \in 1 .. d - 1 : FALSE
      BY <2>1, <3>1
    <3> QED BY <3>1, <3>2
  <2>2. CASE d # 1
    <3> DEFINE f == Front(calls)
    <3>1. /\ f \in Seq(CallType) /\ Len(f) = d - 1
          /\ \A n \in 1 .. d - 1 : f[n] = calls[n]
      BY <1>1, <1>3, Popped
    <3>2. calls' = [f EXCEPT ![Len(f)].got = addr]
      BY <1>1, <2>2, <3>1
    <3>3. f # << >>
      BY <1>6, <2>2, <3>1
    <3> HIDE DEF f
    <3>4. /\ calls' \in Seq(CallType) /\ Len(calls') = Len(f)
          /\ \A n \in 1 .. Len(f) : n < Len(f) => calls'[n] = f[n]
          /\ calls'[Len(f)].got = addr
      BY <3>1, <3>2, <3>3, Told
    <3>5. \A n \in 1 .. d - 1 : n \in 1 .. d /\ n < d
      BY <1>6
    <3>6. ASSUME NEW n \in 1 .. d - 1, n < d - 1 PROVE calls'[n].got = None
      <4>1. calls'[n] = f[n] /\ f[n] = calls[n]
        BY <3>1, <3>4, <3>6
      <4>2. calls[n].got = None
        BY <1>4, <3>5
      <4> QED BY <4>1, <4>2
    <3> QED BY <3>1, <3>4, <3>6
  <2> QED BY <2>1, <2>2
<1> HIDE DEF d, k, r
<1>14. ~Pending'
  BY <1>5, <1>13 DEF Pending
<1>15. Types' /\ CodeOK'
  <2>1. \A a : Tagged(a)' <=> Tagged(a)
    BY <1>1 DEF Tagged
  <2>2. id' \in Nat \ {0}
    BY <1>1, <1>3
  <2> QED BY <1>1, <1>2, <1>10, <1>12, <1>13, <2>1, <2>2 DEF Types, CodeOK
<1>16. Counts'
  <2>1. k = r + d
    BY <1>4 DEF r, d
  <2>2. Len(object_tag') = Len(returned') + Len(calls') /\ Len(object_tag') <= MaxMallocs
    BY <1>4, <1>6, <1>10, <1>12, <1>13, <2>1
  <2>3. id' = Len(returned') + 1
    BY <1>1, <1>4, <1>12 DEF r
  <2>4. \A n \in 1 .. Len(calls') : n < Len(calls') => calls'[n].got = None
    BY <1>13
  <2>5. calls' # << >> =>
          (calls'[Len(calls')].got = None <=> object_tag'[Len(object_tag')].addr = Garbage)
    BY <1>5, <1>9, <1>10, <1>13
  <2>6. Cardinality(Unfinished(object_tag)) \in Nat
    BY <1>3, UnfinishedFinite
  <2>7. Pending <=> object_tag[k].addr = Garbage
    BY <1>1, <1>4 DEF Pending, d
  <2>8. Cardinality(Unfinished(object_tag')) = nested'
    <3> DEFINE c == Cardinality(Unfinished(object_tag))
               e == Cardinality(Unfinished(object_tag'))
    <3>1. CASE Pending
      <4>1. c = nested + 1 /\ e = c - 1
        BY <1>4, <1>11, <2>7, <3>1
      <4> HIDE DEF c, e
      <4>2. e = nested
        BY <1>3, <4>1
      <4> QED BY <1>1, <4>2 DEF e
    <3>2. CASE ~Pending
      <4>1. c = nested + 0 /\ e = c
        BY <1>4, <1>11, <2>7, <3>2
      <4> HIDE DEF c, e
      <4>2. e = nested
        BY <1>3, <4>1
      <4> QED BY <1>1, <4>2 DEF e
    <3> QED BY <3>1, <3>2
  <2> HIDE DEF Pending
  <2>9. Cardinality(Unfinished(object_tag')) = nested' + 0
    BY <1>1, <1>3, <2>8
  <2> QED BY <1>14, <2>2, <2>3, <2>4, <2>5, <2>9 DEF Counts
<1>17. \A n : n \in 1 .. k <=> n \in 1 .. k - 1 \/ n = k
  BY <1>8
<1>18. InOrder'
  <2>1. /\ \A n \in 1 .. k : object_tag[n].addr # Garbage => object_tag[n].id \in 1 .. id - 1
        /\ \A n, m \in 1 .. k :
              n < m /\ object_tag[n].addr # Garbage /\ object_tag[m].addr # Garbage
                => object_tag[n].id < object_tag[m].id
        /\ \A n \in 1 .. k : object_tag[n].addr = Garbage => object_tag[n].id = Garbage
    BY <1>2 DEF InOrder, k
  <2>2. \A i \in 1 .. id - 1 : i \in 1 .. id' - 1 /\ i < id
    BY <1>1, <1>3
  <2>3. id \in 1 .. id' - 1
    BY <1>1, <1>3
  <2>4. ASSUME NEW n \in 1 .. k, object_tag'[n].addr # Garbage
        PROVE  object_tag'[n].id \in 1 .. id' - 1 /\ (n # k => object_tag'[n].id < id)
    <3>1. CASE n = k
      BY <1>9, <1>10, <2>3, <3>1
    <3>2. CASE n # k
      BY <1>10, <1>17, <2>1, <2>2, <2>4, <3>2
    <3> QED BY <3>1, <3>2
  <2>5. ASSUME NEW n \in 1 .. k, NEW m \in 1 .. k, n < m,
               object_tag'[n].addr # Garbage, object_tag'[m].addr # Garbage
        PROVE  object_tag'[n].id < object_tag'[m].id
    <3>1. n # k /\ n \in 1 .. k - 1
      BY <1>8, <2>5
    <3>2. CASE m = k
      BY <1>9, <1>10, <2>4, <2>5, <3>1, <3>2
    <3>3. CASE m # k
      BY <1>10, <1>17, <2>1, <2>5, <3>1, <3>3
    <3> QED BY <3>2, <3>3
  <2>6. \A n \in 1 .. k : object_tag'[n].addr = Garbage => object_tag'[n].id = Garbage
    BY <1>5, <1>9, <1>10, <1>17, <2>1
  <2> QED BY <1>10, <2>4, <2>5, <2>6 DEF InOrder
<1>19. Plain'
  <2>1. SUFFICES ASSUME nested' = 0 PROVE Plain'
    BY DEF Plain
  <2>2. /\ d <= 1
        /\ \A n \in 1 .. r :
              /\ object_tag[n].id = n
              /\ object_tag[n].addr = returned[n].addr
              /\ object_tag[n].size = returned[n].size
        /\ object_tag[k].size = calls[1].size
    BY <1>1, <1>2, <2>1 DEF Plain, d, k, r
  <2>3. d = 1 /\ k = r + d /\ id = r + 1
    <3>1. d = 1
      BY <1>6, <2>2
    <3>2. k = r + d /\ id = r + 1
      <4> HIDE DEF Unfinished, Pending
      <4> QED BY <1>4 DEF k, r, d
    <3> QED BY <3>1, <3>2
  <2>4. k = r + 1 /\ k - 1 = r /\ id = k
    BY <1>12, <2>3
  <2>5. calls' = << >>
    BY <1>1, <2>3 DEF d
  <2>6. Len(calls') <= 1
    BY <1>13, <2>3
  <2>7. ASSUME NEW n \in 1 .. Len(returned')
        PROVE  /\ object_tag'[n].id = n
               /\ object_tag'[n].addr = returned'[n].addr
               /\ object_tag'[n].size = returned'[n].size
    <3>1. CASE n = k
      BY <1>9, <1>10, <1>12, <2>2, <2>3, <2>4, <3>1
    <3>2. CASE n # k
      <4>1. n \in 1 .. r
        BY <1>12, <1>17, <2>4, <2>7, <3>2
      <4> QED BY <1>10, <1>12, <2>2, <2>4, <4>1
    <3> QED BY <3>1, <3>2
  <2> QED BY <2>5, <2>6, <2>7 DEF Plain
<1> QED BY <1>15, <1>16, <1>18, <1>19 DEF IInv

(* There are no tags at the beginning.                                     *)
LEMMA InitIInv ==
    ASSUME Init
    PROVE  IInv
<1>1. /\ routine_tag = [addr \in {} |-> Unknown] /\ object_tag = << >> /\ id = 1
      /\ loaded = {} /\ loads = << >> /\ blocks = {} /\ calls = << >> /\ returned = << >>
      /\ nested = 0
  BY DEF Init
<1>2. Types
  BY <1>1 DEF Types
<1>3. CodeOK
  BY <1>1 DEF CodeOK, ToSet
<1>4. Counts
  <2>1. Unfinished(object_tag) = {}
    BY <1>1 DEF Unfinished
  <2>2. ~Pending /\ Cardinality(Unfinished(object_tag)) = 0
    BY <1>1, <2>1, FS_EmptySet DEF Pending
  <2> QED BY <1>1, <2>2, AttributionAssumption DEF Counts
<1>5. InOrder /\ Plain
  BY <1>1 DEF InOrder, Plain
<1> QED BY <1>2, <1>3, <1>4, <1>5 DEF IInv

(* Every step keeps the invariant.                                         *)
LEMMA NextIInv ==
    ASSUME IInv, [Next]_vars
    PROVE  IInv'
<1>1. CASE \E img \in Images : Load(img)
  BY <1>1, LoadStep
<1>2. CASE \E img \in Images : Unload(img)
  BY <1>2, UnloadStep
<1>3. CASE \E size \in Sizes : Call(size)
  BY <1>3, CallStep
<1>4. CASE \E addr \in Heap : Return(addr)
  BY <1>4, ReturnStep
<1>5. CASE \E addr \in Heap : FreeBlock(addr)
  BY <1>5, FreeBlockStep
<1>6. CASE UNCHANGED vars
  <2>1. UNCHANGED <<routine_tag, object_tag, id, loaded, loads, calls, returned, nested>>
    BY <1>6 DEF vars
  <2>2. \A a : Tagged(a)' <=> Tagged(a)
    BY <2>1 DEF Tagged
  <2>3. Pending' <=> Pending
    BY <2>1 DEF Pending
  <2>4. Types' /\ CodeOK'
    BY <2>1, <2>2 DEF IInv, Types, CodeOK
  <2>5. Counts' /\ InOrder' /\ Plain'
    BY <2>1, <2>3 DEF IInv, Counts, InOrder, Plain
  <2> QED BY <2>4, <2>5 DEF IInv
<1> QED BY <1>1, <1>2, <1>3, <1>4, <1>5, <1>6 DEF Next

(* The invariant holds in every state of every run.                        *)
THEOREM InvariantHolds == Spec => []IInv
<1>1. Init => IInv
  BY InitIInv
<1>2. IInv /\ [Next]_vars => IInv'
  BY NextIInv
<1> QED BY <1>1, <1>2, PTL DEF Spec


-----------------------------------------------------------------------------
(* What the invariant says of the reports.                                 *)

(* Every nonempty set of natural numbers has a least element.              *)
LEMMA LeastNatural ==
    ASSUME NEW S \in SUBSET Nat, S # {}
    PROVE  \E x \in S : \A y \in S : x <= y
<1> DEFINE R == OpToRel(<, Nat)
<1>1. IsWellFoundedOn(R, Nat)
  BY NatLessThanWellFounded
<1>2. PICK x \in S : \A y \in S : ~(<<y, x>> \in R)
  <2> HIDE DEF R
  <2> QED BY <1>1, WFMin
<1>3. \A y \in S : ~(y < x)
  BY <1>2 DEF OpToRel
<1> QED BY <1>3

(* There are no more unfinished tags than tags.                            *)
LEMMA UnfinishedAtMost ==
    ASSUME NEW tags \in Seq(TagType)
    PROVE  Cardinality(Unfinished(tags)) <= Len(tags)
<1>1. Unfinished(tags) \in SUBSET (1 .. Len(tags)) /\ Len(tags) \in Nat
  BY DEF Unfinished
<1>2. IsFiniteSet(1 .. Len(tags)) /\ Cardinality(1 .. Len(tags)) = Len(tags)
  <2>1. 1 \in Int /\ Len(tags) \in Int
    BY <1>1
  <2>2. IsFiniteSet(1 .. Len(tags))
        /\ Cardinality(1 .. Len(tags)) = IF 1 > Len(tags) THEN 0 ELSE Len(tags) - 1 + 1
    BY <2>1, FS_Interval
  <2> QED BY <1>1, <2>2
<1> QED BY <1>1, <1>2, FS_Subset

(* There is a tag for every call begun, of the types declared, and a number*)
(* for every call that returned.                                           *)
THEOREM TypeCorrect == Spec => []TypeOK
<1>1. IInv => TypeOK
  <2>1. SUFFICES ASSUME IInv PROVE TypeOK
    OBVIOUS
  <2>2. Types /\ CodeOK /\ Counts /\ InOrder
    BY <2>1 DEF IInv
  <2> DEFINE k == Len(object_tag)
             r == Len(returned)
             d == Len(calls)
             u == Cardinality(Unfinished(object_tag))
  <2>3. /\ k \in Nat /\ r \in Nat /\ d \in Nat /\ id \in Nat \ {0} /\ nested \in Nat
        /\ DOMAIN object_tag = 1 .. k
        /\ \A n \in 1 .. k : object_tag[n] \in TagType
    BY <2>2 DEF Types
  <2>4. k = r + d /\ k <= MaxMallocs /\ id = r + 1 /\ u = nested + (IF Pending THEN 1 ELSE 0)
    BY <2>2 DEF Counts
  <2>5. u <= k
    BY <2>2, UnfinishedAtMost DEF Types
  <2>6. /\ \A n \in 1 .. k : object_tag[n].addr # Garbage => object_tag[n].id \in 1 .. id - 1
        /\ \A n \in 1 .. k : object_tag[n].addr = Garbage => object_tag[n].id = Garbage
    BY <2>2 DEF InOrder
  <2> HIDE DEF k, r, d, u
  <2>7. nested \in 0 .. MaxMallocs
    <3>1. nested <= u
      BY <2>3, <2>4
    <3>2. u \in Nat
      BY <2>3, <2>4
    <3> QED BY <2>3, <2>4, <2>5, <3>1, <3>2, AttributionAssumption
  <2>8. \A i \in 1 .. id - 1 : i \in 1 .. MaxMallocs
    BY <2>3, <2>4, AttributionAssumption
  <2>9. ASSUME NEW n \in 1 .. k
        PROVE  /\ object_tag[n].id \in 1 .. MaxMallocs \cup {Garbage}
               /\ object_tag[n].addr \in Heap \cup {Garbage}
               /\ object_tag[n].size \in Sizes
    <3>1. object_tag[n].addr \in Heap \cup {Garbage} /\ object_tag[n].size \in Sizes
      BY <2>3 DEF TagType
    <3>2. object_tag[n].id \in 1 .. MaxMallocs \/ object_tag[n].id = Garbage
      BY <2>6, <2>8
    <3> QED BY <3>1, <3>2
  <2>10. k = Len(returned) + Len(calls) /\ id = Len(returned) + 1
    BY <2>4 DEF r, d
  <2> QED BY <2>2, <2>3, <2>7, <2>9, <2>10 DEF TypeOK, CodeOK, k
<1> QED BY <1>1, InvariantHolds, PTL

(* A nested call costs one tag that is never finished, and the finished    *)
(* ones stay in the order of their numbers.                                *)
THEOREM UnfinishedTagsCounted == Spec => []UnfinishedTags
<1>1. IInv => UnfinishedTags
  <2>1. SUFFICES ASSUME IInv PROVE UnfinishedTags
    OBVIOUS
  <2>2. Types /\ Counts /\ InOrder
    BY <2>1 DEF IInv
  <2>3. DOMAIN object_tag = 1 .. Len(object_tag) /\ nested \in Nat
    BY <2>2 DEF Types
  <2> DEFINE unfinished == {n \in DOMAIN object_tag : object_tag[n].addr = Garbage}
             pending == IF calls = <<>> THEN 0 ELSE IF Last(calls).got = None THEN 1 ELSE 0
  <2>4. unfinished = Unfinished(object_tag)
    BY <2>3 DEF Unfinished
  <2>5. pending = IF Pending THEN 1 ELSE 0
    BY DEF Pending, Last
  <2>6. Cardinality(unfinished) = nested + pending
    BY <2>2, <2>4, <2>5 DEF Counts
  <2>7. \A n, m \in DOMAIN object_tag \ unfinished :
           n < m => object_tag[n].id < object_tag[m].id
    BY <2>2, <2>3 DEF InOrder
  <2> HIDE DEF unfinished, pending
  <2>8. UnfinishedTags <=>
          /\ Cardinality(unfinished) = nested + pending
          /\ \A n, m \in DOMAIN object_tag \ unfinished :
                n < m => object_tag[n].id < object_tag[m].id
    BY DEF UnfinishedTags, unfinished, pending
  <2> QED BY <2>6, <2>7, <2>8
<1> QED BY <1>1, InvariantHolds, PTL

(* As long as calls do not nest, the number reported for an address is that*)
(* of the first call that returned a block with it, however often blocks   *)
(* were freed and their memory returned again.                             *)
THEOREM MallocsNumbered == Spec => []NthMalloc
<1>1. IInv => NthMalloc
  <2>1. SUFFICES ASSUME IInv, nested = 0, calls = <<>>, NEW a
                 PROVE  LET owners == {n \in DOMAIN returned :
                                         Covers(returned[n].addr, returned[n].size, a)}
                        IN  MallocOf(a) = IF owners = {} THEN {-1}
                                          ELSE {CHOOSE n \in owners : \A m \in owners : n <= m}
    BY DEF NthMalloc
  <2>2. Types /\ Counts /\ Plain
    BY <2>1 DEF IInv
  <2>3. /\ Len(object_tag) = Len(returned) /\ Len(returned) \in Nat
        /\ DOMAIN object_tag = 1 .. Len(returned) /\ DOMAIN returned = 1 .. Len(returned)
        /\ \A n \in 1 .. Len(returned) : returned[n].addr \in Heap
    <3>1. Len(calls) = 0
      BY <2>1
    <3>2. Len(returned) \in Nat /\ Len(object_tag) = Len(returned) + Len(calls)
      BY <2>2 DEF Counts, Types
    <3>3. Len(object_tag) = Len(returned)
      BY <3>1, <3>2
    <3>4. DOMAIN object_tag = 1 .. Len(object_tag) /\ DOMAIN returned = 1 .. Len(returned)
      BY <2>2 DEF Types
    <3>5. \A n \in 1 .. Len(returned) : returned[n] \in BlockType
      BY <2>2, <3>4, ElementOfSeq DEF Types
    <3>6. \A n \in 1 .. Len(returned) : returned[n].addr \in Heap
      BY <3>5 DEF BlockType
    <3> QED BY <3>2, <3>3, <3>4, <3>6
  <2>4. \A n \in DOMAIN returned :
           /\ object_tag[n].id = n
           /\ object_tag[n].addr = returned[n].addr /\ object_tag[n].size = returned[n].size
           /\ object_tag[n].addr # Garbage
    BY <2>1, <2>2, <2>3, AttributionAssumption DEF Plain, Garbage
  <2> DEFINE owners == {n \in DOMAIN returned : Covers(returned[n].addr, returned[n].size, a)}
             found == {n \in DOMAIN object_tag :
                    object_tag[n].addr # Garbage /\ Covers(object_tag[n].addr, object_tag[n].size, a)}
             least == CHOOSE n \in owners : \A m \in owners : n <= m
             first == IF found = {} THEN Len(object_tag) + 1
                      ELSE CHOOSE x \in found : \A y \in found : x <= y
             before == {m \in DOMAIN object_tag : m < first /\ object_tag[m].addr = Garbage}
  <2>5. found = owners
    BY <2>3, <2>4
  <2>6. owners # {} => least \in owners
    <3>1. owners \in SUBSET Nat
      BY <2>3
    <3> HIDE DEF owners
    <3>2. owners # {} => \E x \in owners : \A y \in owners : x <= y
      BY <3>1, LeastNatural
    <3> QED BY <3>2
  <2>7. before = {}
    BY <2>3, <2>4
  <2>8. MallocOf(a) = {IF found = {} THEN -1 ELSE object_tag[first].id}
                        \cup {object_tag[n].id : n \in before}
    BY DEF MallocOf
  <2>9. found # {} => first = least
    BY <2>5
  <2>10. owners # {} => object_tag[least].id = least
    <3> HIDE DEF least
    <3>1. owners # {} => least \in DOMAIN returned
      BY <2>6
    <3> QED BY <2>4, <3>1
  <2> HIDE DEF found, before, first, least, owners
  <2>11. MallocOf(a) = {IF found = {} THEN -1 ELSE object_tag[first].id}
    BY <2>7, <2>8
  <2>12. MallocOf(a) = IF owners = {} THEN {-1} ELSE {least}
    BY <2>5, <2>9, <2>10, <2>11
  <2> QED BY <2>12 DEF owners, least
<1> QED BY <1>1, InvariantHolds, PTL

(* What is known of an image that has its place for itself: of all the tags*)
(* there are, the search finds exactly that of the routine of the address. *)
LEMMA OwnTagOnly ==
    ASSUME CodeOK, Types,
           NEW img \in loaded, \A n \in DOMAIN loads : loads[n] = img \/ ~Overlap(loads[n], img),
           NEW r \in img.routines, NEW a \in r.addr .. r.addr + r.size - 1,
           \A other \in UNION {im.routines : im \in ToSet(loads)} : a # other.addr + other.size
    PROVE  /\ {addr \in DOMAIN routine_tag : Covers(addr, routine_tag[addr].size, a)} = {r.addr}
           /\ routine_tag[r.addr] = TagOf(r, img)
<1>1. /\ img \in Images /\ DOMAIN loads = 1 .. Len(loads)
      /\ \A n \in DOMAIN loads : loads[n] \in Images
  BY DEF Types
<1>2. PICK n0 \in DOMAIN loads : loads[n0] = img
  BY DEF CodeOK
<1>3. \A n \in DOMAIN loads : \A x \in loads[n].routines :
         /\ x.addr \in Nat /\ x.size \in Nat \ {0} /\ a # x.addr + x.size
         /\ x \in UNION {im.routines : im \in ToSet(loads)}
  <2>1. ASSUME NEW n \in DOMAIN loads, NEW x \in loads[n].routines
        PROVE  x \in UNION {im.routines : im \in ToSet(loads)}
    <3>1. loads[n] \in ToSet(loads)
      BY DEF ToSet
    <3> QED BY <3>1
  <2> QED BY <1>1, <2>1, AttributionAssumption
<1>4. r.addr \in Nat /\ r.size \in Nat \ {0} /\ a \in Nat /\ r.addr <= a /\ a < r.addr + r.size
  BY <1>2, <1>3
<1>5. ASSUME NEW n \in DOMAIN loads, NEW x \in loads[n].routines, Covers(x.addr, x.size, a)
      PROVE  loads[n] = img /\ x = r
  <2>1. x.addr \in Nat /\ x.size \in Nat \ {0} /\ x.addr <= a /\ a < x.addr + x.size
    BY <1>3, <1>4, <1>5 DEF Covers
  <2>2. x.addr < r.addr + r.size /\ r.addr < x.addr + x.size
    BY <1>4, <2>1
  <2>3. loads[n] = img
    BY <2>2 DEF Overlap
  <2>4. x = r \/ x.addr + x.size <= r.addr \/ r.addr + r.size <= x.addr
    BY <1>1, <2>3, AttributionAssumption
  <2> QED BY <1>4, <2>1, <2>2, <2>3, <2>4
<1>6. ASSUME NEW addr \in DOMAIN routine_tag, Covers(addr, routine_tag[addr].size, a)
      PROVE  addr = r.addr /\ routine_tag[addr] = TagOf(r, img)
  <2>1. PICK n \in DOMAIN loads : \E x \in loads[n].routines :
            x.addr = addr /\ routine_tag[addr] = TagOf(x, loads[n])
    BY DEF CodeOK, Tagged
  <2>2. PICK x \in loads[n].routines :
            x.addr = addr /\ routine_tag[addr] = TagOf(x, loads[n])
    BY <2>1
  <2>3. Covers(x.addr, x.size, a)
    BY <1>6, <2>2 DEF TagOf
  <2> QED BY <1>5, <2>2, <2>3
<1>7. r.addr \in DOMAIN routine_tag
  BY <1>2, <1>3 DEF CodeOK
<1>8. routine_tag[r.addr].size \in Nat /\ Covers(r.addr, routine_tag[r.addr].size, a)
  <2>1. PICK n \in DOMAIN loads : \E x \in loads[n].routines :
            x.addr = r.addr /\ routine_tag[r.addr] = TagOf(x, loads[n])
    BY <1>7 DEF CodeOK, Tagged
  <2>2. PICK x \in loads[n].routines :
            x.addr = r.addr /\ routine_tag[r.addr] = TagOf(x, loads[n])
    BY <2>1
  <2>3. x.size \in Nat \ {0} /\ x.addr \in Nat
    BY <1>3
  <2>4. x.addr < r.addr + r.size /\ r.addr < x.addr + x.size
    BY <1>4, <2>2, <2>3
  <2>5. loads[n] = img
    BY <2>4 DEF Overlap
  <2>6. x = r \/ x.addr + x.size <= r.addr \/ r.addr + r.size <= x.addr
    BY <1>1, <2>5, AttributionAssumption
  <2>7. x = r
    BY <1>4, <2>3, <2>4, <2>6
  <2>8. routine_tag[r.addr].size = r.size
    BY <2>2, <2>7 DEF TagOf
  <2> QED BY <1>4, <2>8 DEF Covers
<1> QED BY <1>6, <1>7, <1>8

(* An instruction is reported under its own routine, except for the first  *)
(* byte after another one and for an image in the place of an unloaded one.*)
THEOREM RoutinesReported == Spec => []RoutineReported
<1>1. IInv => RoutineReported
  <2>1. SUFFICES ASSUME IInv,
                        NEW img \in loaded,
                        \A n \in DOMAIN loads : loads[n] = img \/ ~Overlap(loads[n], img),
                        NEW r \in img.routines, NEW a \in r.addr .. r.addr + r.size - 1,
                        \A other \in UNION {im.routines : im \in ToSet(loads)} :
                            a # other.addr + other.size
                 PROVE  RoutineOf(a) = [name |-> r.name, image |-> img.name]
    BY DEF RoutineReported
  <2>2. CodeOK /\ Types
    BY <2>1 DEF IInv
  <2>3. r.addr \in Nat
    BY <2>2, AttributionAssumption DEF Types
  <2> DEFINE found == {addr \in DOMAIN routine_tag : Covers(addr, routine_tag[addr].size, a)}
             first == CHOOSE x \in found : \A y \in found : x <= y
  <2>4. found = {r.addr} /\ routine_tag[r.addr] = TagOf(r, img)
    BY <2>1, <2>2, OwnTagOnly
  <2>5. RoutineOf(a) = IF found = {} THEN Unknown
                       ELSE [name |-> routine_tag[first].name, image |-> routine_tag[first].image]
    BY DEF RoutineOf
  <2> HIDE DEF found
  <2>6. first = r.addr
    <3>1. r.addr \in found /\ \A y \in found : r.addr <= y
      BY <2>3, <2>4
    <3>2. first \in found
      BY <3>1
    <3> QED BY <2>4, <3>2
  <2> HIDE DEF first
  <2> QED BY <2>4, <2>5, <2>6 DEF TagOf
<1> QED BY <1>1, InvariantHolds, PTL
=============================================================================
