------------------------------ MODULE Attribution ------------------------------
(***************************************************************************)
(* The tags by which the reports of cache.cpp name an instruction by its   *)
(* routine and a data address by the malloc() that returned it, and the    *)
(* searches of PrintOutput in them.  The environment is the traced         *)
(* program: it loads and unloads images, and calls and returns from        *)
(* malloc, of which every image may bring its own.  Pin calls Routine for  *)
(* the routines of an image before any of them runs; nothing is called     *)
(* when an image is unloaded or a block is freed.                          *)
(***************************************************************************)
EXTENDS Integers, FiniteSets, SequencesExt

CONSTANTS
    Images,     \* of the program: records of name, malloc (does it have one)
                \* and routines, the records of addr, size and name
    Heap,       \* the addresses malloc may return
    Sizes,      \* the sizes it is asked for
    MaxMallocs, \* bound on the calls of malloc
    MaxLoads    \* bound on the images loaded

(* Addresses and sizes are numbers, and the routines of an image are apart.*)
ASSUME AttributionAssumption ==
    /\ Heap \subseteq Nat /\ Sizes \subseteq Nat /\ MaxMallocs \in Nat
    /\ \A img \in Images : \A r \in img.routines : r.addr \in Nat /\ r.size \in Nat \ {0}
    /\ \A img \in Images : \A r1, r2 \in img.routines :
          r1 = r2 \/ r1.addr + r1.size <= r2.addr \/ r2.addr + r2.size <= r1.addr

VARIABLES
    routine_tag,    \* by first address
    object_tag,
    id,             \* static in MallocAfter
    loaded,         \* the images now in memory
    loads,          \* the images loaded so far, in order
    blocks,         \* the blocks allocated and not freed
    calls,          \* the calls of malloc in progress, the innermost last:
                    \* the size asked for and what a nested call returned
    returned,       \* the blocks of the calls that have returned, in order
    nested          \* how many calls of malloc called another

vars == <<routine_tag, object_tag, id, loaded, loads, blocks, calls, returned, nested>>
codeVars == <<routine_tag, loaded, loads>>
dataVars == <<object_tag, id, blocks, calls, returned, nested>>

None == -1          \* no address
Garbage == -2       \* a member that was never assigned

(* Both searches include the end of what they look in.                     *)
Covers(addr, size, a) == addr <= a /\ a <= addr + size

-----------------------------------------------------------------------------
(* Image hooks the malloc of the image; Routine is called for its routines *)
(* and overwrites the tags of the same address.                            *)
Routine(tags, img) ==
    [addr \in DOMAIN tags \cup {r.addr : r \in img.routines} |->
        IF \E r \in img.routines : r.addr = addr
        THEN LET r == CHOOSE r \in img.routines : r.addr = addr
             IN  [name |-> r.name, image |-> img.name, size |-> r.size]
        ELSE tags[addr]]

Overlap(img1, img2) ==
    \E r1 \in img1.routines, r2 \in img2.routines :
        r1.addr < r2.addr + r2.size /\ r2.addr < r1.addr + r1.size

Load(img) ==
    /\ img \notin loaded /\ Len(loads) < MaxLoads
    /\ \A other \in loaded : ~Overlap(img, other)
    /\ routine_tag' = Routine(routine_tag, img)
    /\ loaded' = loaded \cup {img}
    /\ loads' = Append(loads, img)
    /\ UNCHANGED dataVars

Unload(img) ==
    /\ img \in loaded /\ calls = <<>>
    /\ loaded' = loaded \ {img}
    /\ UNCHANGED <<routine_tag, loads, dataVars>>

-----------------------------------------------------------------------------
(* Bug: a call inside a call is not given a tag.                           *)
MallocBeforeOnce(size) ==
    object_tag' = IF calls = <<>>
                  THEN Append(object_tag, [id |-> Garbage, addr |-> Garbage, size |-> size])
                  ELSE object_tag

MallocBefore(size) ==
    object_tag' = Append(object_tag, [id |-> Garbage, addr |-> Garbage, size |-> size])

(* Bug: the tag is completed without removing the one it was.              *)
MallocAfterKeeps(addr) ==
    /\ object_tag' = Append(object_tag, [id |-> id, addr |-> addr, size |-> Last(object_tag).size])
    /\ id' = id + 1

(* Bug: the number is taken twice.                                         *)
MallocAfterTwice(addr) ==
    /\ object_tag' = Append(Front(object_tag),
                            [id |-> id + 1, addr |-> addr, size |-> Last(object_tag).size])
    /\ id' = id + 2

(* Whatever tag is at the back is taken for the one of this call.          *)
MallocAfter(addr) ==
    /\ object_tag' = Append(Front(object_tag),
                            [id |-> id, addr |-> addr, size |-> Last(object_tag).size])
    /\ id' = id + 1

(* malloc is called, by the program or by the malloc of another image.     *)
Call(size) ==
    /\ Len(calls) < Cardinality({img \in loaded : img.malloc})
    /\ Len(object_tag) < MaxMallocs
    /\ (calls # <<>> => Last(calls).got = None)
    /\ MallocBefore(size)
    /\ calls' = Append(calls, [size |-> size, got |-> None])
    /\ nested' = IF calls = <<>> THEN nested ELSE nested + 1
    /\ UNCHANGED <<id, blocks, returned, codeVars>>

(* A header separates a block from the next.                               *)
Free(addr, size) ==
    \A b \in blocks : addr > b.addr + b.size \/ addr + size < b.addr

(* It returns a block of its own, or the one the call it made returned: of *)
(* the calls that nest, those that pass on what the inner one did.         *)
Return(addr) ==
    /\ calls # <<>>
    /\ LET call == Last(calls)
       IN  /\ IF call.got = None THEN Free(addr, call.size) ELSE addr = call.got
           /\ MallocAfter(addr)
           /\ blocks' = blocks \cup {[addr |-> addr, size |-> call.size]}
           /\ returned' = Append(returned, [addr |-> addr, size |-> call.size])
    /\ calls' = IF Len(calls) = 1 THEN <<>>
                ELSE [Front(calls) EXCEPT ![Len(calls) - 1].got = addr]
    /\ UNCHANGED <<nested, codeVars>>

FreeBlock(addr) ==
    /\ \E b \in blocks : b.addr = addr
    /\ calls = <<>>
    /\ blocks' = {b \in blocks : b.addr # addr}
    /\ UNCHANGED <<object_tag, id, calls, returned, nested, codeVars>>

-----------------------------------------------------------------------------
Unknown == [name |-> "Unknown", image |-> "Unknown"]

(* Bug: the first byte of a routine is not compared.                       *)
RoutineOfInner(a) ==
    LET found == {addr \in DOMAIN routine_tag :
                    addr < a /\ Covers(addr, routine_tag[addr].size, a)}
    IN  IF found = {} THEN Unknown
        ELSE LET first == CHOOSE x \in found : \A y \in found : x <= y
             IN  [name |-> routine_tag[first].name, image |-> routine_tag[first].image]

(* The name and image reported for an instruction: of the first tag, in    *)
(* the order of addresses.                                                 *)
RoutineOf(a) ==
    LET found == {addr \in DOMAIN routine_tag : Covers(addr, routine_tag[addr].size, a)}
    IN  IF found = {} THEN Unknown
        ELSE LET first == CHOOSE x \in found : \A y \in found : x <= y
             IN  [name |-> routine_tag[first].name, image |-> routine_tag[first].image]

(* The ids that may be reported for a data address: that of the first tag  *)
(* in the order of the vector, or the garbage of an unfinished one before. *)
MallocOf(a) ==
    LET found == {n \in DOMAIN object_tag :
                    object_tag[n].addr # Garbage /\ Covers(object_tag[n].addr, object_tag[n].size, a)}
        first == IF found = {} THEN Len(object_tag) + 1
                 ELSE CHOOSE x \in found : \A y \in found : x <= y
    IN  {IF found = {} THEN -1 ELSE object_tag[first].id}
          \cup {object_tag[n].id : n \in {m \in DOMAIN object_tag :
                                            m < first /\ object_tag[m].addr = Garbage}}

Init ==
    /\ routine_tag = [addr \in {} |-> Unknown]
    /\ object_tag = <<>> /\ id = 1
    /\ loaded = {} /\ loads = <<>>
    /\ blocks = {} /\ calls = <<>> /\ returned = <<>> /\ nested = 0

Next ==
    \/ \E img \in Images : Load(img)
    \/ \E img \in Images : Unload(img)
    \/ \E size \in Sizes : Call(size)
    \/ \E addr \in Heap : Return(addr)
    \/ \E addr \in Heap : FreeBlock(addr)

Spec == Init /\ [][Next]_vars
-----------------------------------------------------------------------------
(***************************************************************************)
(* Properties.                                                             *)
(***************************************************************************)
(* Type correctness: a tag for every call of malloc that was begun, a      *)
(* number for every one that returned.                                     *)
TypeOK ==
    /\ DOMAIN routine_tag = {r.addr : r \in UNION {img.routines : img \in ToSet(loads)}}
    /\ Len(object_tag) = Len(returned) + Len(calls)
    /\ \A n \in DOMAIN object_tag :
         /\ object_tag[n].id \in 1 .. MaxMallocs \cup {Garbage}
         /\ object_tag[n].addr \in Heap \cup {Garbage}
         /\ object_tag[n].size \in Sizes
    /\ id = Len(returned) + 1
    /\ nested \in 0 .. MaxMallocs

(* An instruction of a loaded image is reported under its own routine,     *)
(* whatever was loaded elsewhere and in whichever order.  Two cases are    *)
(* left out: the first byte after another routine, since the search        *)
(* includes the end of a routine (RoutineAttributed is about that byte),   *)
(* and an image whose place an unloaded one had before it, whose tags      *)
(* remain.                                                                 *)
RoutineReported ==
    \A img \in loaded :
        (\A n \in DOMAIN loads : loads[n] = img \/ ~Overlap(loads[n], img)) =>
            \A r \in img.routines : \A a \in r.addr .. r.addr + r.size - 1 :
                (\A other \in UNION {im.routines : im \in ToSet(loads)} :
                    a # other.addr + other.size) =>
                    RoutineOf(a) = [name |-> r.name, image |-> img.name]

(* "additional information (function name/binary image for instruction"    *)
(* (cache.cpp 833): the first instruction of a routine is reported under   *)
(* that routine.  It does not hold: the search includes the end of the     *)
(* routine that is before it.                                              *)
RoutineAttributed ==
    \A img \in loaded : \A r \in img.routines :
        RoutineOf(r.addr) = [name |-> r.name, image |-> img.name]

(* "nth malloc() for address" (cache.cpp 834): when no malloc called       *)
(* another, the number reported for an address is that of the first call   *)
(* that returned a block with it, its end included, also after blocks were *)
(* freed and their memory was returned again.                              *)
NthMalloc ==
    nested = 0 /\ calls = <<>> =>
        \A a \in {addr + size : addr \in Heap, size \in Sizes} :
            LET owners == {n \in DOMAIN returned : Covers(returned[n].addr, returned[n].size, a)}
            IN  MallocOf(a) = IF owners = {} THEN {-1}
                              ELSE {CHOOSE n \in owners : \A m \in owners : n <= m}

(* What a nested call costs: the tag of the outer call is never finished,  *)
(* since its return overwrites the finished tag of the inner one.  So there*)
(* is one unfinished tag, whose garbage every later search compares, for   *)
(* every nested call there ever was, and one for the innermost call in     *)
(* progress; the finished ones are in the order of their numbers.  This    *)
(* holds for programs whose calls of malloc behave as Call and Return let  *)
(* them: each makes at most one inner call, whose block it hands on.       *)
UnfinishedTags ==
    LET unfinished == {n \in DOMAIN object_tag : object_tag[n].addr = Garbage}
        pending == IF calls = <<>> THEN 0 ELSE IF Last(calls).got = None THEN 1 ELSE 0
    IN  /\ Cardinality(unfinished) = nested + pending
        /\ \A n, m \in DOMAIN object_tag \ unfinished :
             n < m => object_tag[n].id < object_tag[m].id
=============================================================================
