------------------------------- MODULE LruCache -------------------------------
(***************************************************************************)
(* Cache<cache_set::LeastRecentlyUsed, ...> of cache.h: the realistic      *)
(* set-associative cache of the simulator.  One step is one analysis call  *)
(* of the pintool, a load, a store or an instruction fetch, executed       *)
(* completely: the simulator runs it on the traced thread without          *)
(* preemption points of its own.                                           *)
(*                                                                         *)
(* The variable "cache" is the C++ object; its fields have the names of    *)
(* the data members.                                                       *)
(***************************************************************************)
EXTENDS BaseCache, FiniteSetsExt

CONSTANTS
    NumWays,        \* num_ways_
    WriteAllocate,  \* the template argument Allocation is kWriteAllocate
    InitialMruIds,  \* what the uninitialised mru_id_ of a set may hold
    Addrs,          \* data addresses the traced program touches
    Insts,          \* addresses of its instructions
    Sizes,          \* sizes of its wide accesses
    MaxRefs         \* bound of the model: references simulated

VARIABLE cache

ASSUME LruAssumption ==
    /\ NumWays \in Nat \ {0}
    /\ WriteAllocate \in BOOLEAN
    /\ InitialMruIds \subseteq Int /\ InitialMruIds # {}
    /\ Addrs \subseteq Nat /\ Insts \subseteq Nat
    /\ Sizes \subseteq Nat

Tags == {TagOf(a) : a \in Addrs \cup Insts}

-----------------------------------------------------------------------------
(* class LeastRecentlyUsed: one set.  tags_ lists the resident tags, most  *)
(* recently used first; m_line_life_ records when each came in and when it *)
(* was last used.                                                          *)

(* Bug: a value that is no tag for a set that is still empty.              *)
NewSetNoTag(junk) ==
    [tags_ |-> << >>, m_line_life_ |-> << >>, mru_tag_ |-> -1, mru_id_ |-> junk]

NewSet(junk) ==
    [tags_ |-> << >>, m_line_life_ |-> << >>, mru_tag_ |-> 0, mru_id_ |-> junk]

Resident(set) == {set.tags_[i] : i \in DOMAIN set.tags_}
IsFull(set) == Len(set.tags_) = NumWays

(* The list without its element at position i.                             *)
Erase(tags, i) == SubSeq(tags, 1, i - 1) \o SubSeq(tags, i + 1, Len(tags))
PositionOf(tags, tag) == CHOOSE i \in DOMAIN tags : tags[i] = tag

IsHit(set, tag) == tag \in Resident(set)
IsMru(set, tag) == set.mru_tag_ = tag

(* Bug: a hit leaves the list as it is (FIFO replacement).                 *)
FindFifo(set, tag, id) ==
    LET seen == [set EXCEPT !.mru_tag_ = tag, !.mru_id_ = id]
    IN  IF IsHit(set, tag) THEN [seen EXCEPT !.m_line_life_[tag].last = id]
                           ELSE seen

(* Bug: the most recent tag is remembered on a hit only.                   *)
FindMruOnHit(set, tag, id) ==
    IF IsHit(set, tag)
    THEN [set EXCEPT
            !.mru_tag_ = tag, !.mru_id_ = id,
            !.tags_ = <<tag>> \o Erase(@, PositionOf(@, tag)),
            !.m_line_life_[tag].last = id]
    ELSE set

(* Find: on a hit the line moves to the front; hit or miss, the tag and    *)
(* the id are remembered as the most recent ones.                          *)
Find(set, tag, id) ==
    LET seen == [set EXCEPT !.mru_tag_ = tag, !.mru_id_ = id]
    IN  IF IsHit(set, tag)
        THEN [seen EXCEPT
                !.tags_ = <<tag>> \o Erase(@, PositionOf(@, tag)),
                !.m_line_life_[tag].last = id]
        ELSE seen

(* Bug: no life is erased from the map.                                    *)
VictimsNone(set) == {}

(* Replace: the least recently used line leaves a full set.                *)
Victims(set) == IF IsFull(set) THEN {set.tags_[NumWays]} ELSE {}

(* Bug: the life of the most recently used line is taken.                  *)
EvictedLifeOfFront(set) ==
    IF IsFull(set) THEN set.m_line_life_[set.tags_[1]] ELSE [first |-> 0, last |-> 0]

EvictedLife(set) ==
    IF IsFull(set) THEN set.m_line_life_[set.tags_[NumWays]]
                   ELSE [first |-> 0, last |-> 0]

(* Bug: the front of the list leaves, the most recently used line.         *)
ReplaceFront(set, tag, id) ==
    LET stay == IF IsFull(set) THEN Tail(set.tags_) ELSE set.tags_
        kept == {stay[i] : i \in DOMAIN stay}
    IN  [set EXCEPT
           !.tags_ = <<tag>> \o stay,
           !.m_line_life_ = [t \in kept \cup {tag} |->
                                IF t = tag THEN [first |-> id, last |-> id]
                                           ELSE @[t]]]

Replace(set, tag, id) ==
    LET kept == DOMAIN set.m_line_life_ \ Victims(set)
        stay == IF IsFull(set) THEN SubSeq(set.tags_, 1, NumWays - 1)
                               ELSE set.tags_
    IN  [set EXCEPT
           !.tags_ = <<tag>> \o stay,
           !.m_line_life_ = [t \in kept \cup {tag} |->
                                IF t = tag THEN [first |-> id, last |-> id]
                                           ELSE @[t]]]

-----------------------------------------------------------------------------
(* class Cache.                                                            *)

NewSetLife == [replace_count |-> 0, live_time |-> 0, dead_time |-> 0,
               access_count |-> 0, access_interval |-> 0]

(* Bug: a store that misses fills no line in a write-allocate cache.       *)
AllocatesLoads(access_type) == access_type = kLoad

Allocates(access_type) == access_type = kLoad \/ WriteAllocate

(* The statistics of a set after reference id finds it as "set".           *)
SetLifeAfter(life, set, id, is_fill) ==
    LET gone      == EvictedLife(set)
        if_fill(n) == IF is_fill THEN n ELSE 0
    IN  [replace_count   |-> life.replace_count + if_fill(1),
         live_time       |-> life.live_time + if_fill(gone.last - gone.first),
         dead_time       |-> life.dead_time + if_fill(id - gone.last),
         access_count    |-> life.access_count + 1,
         access_interval |-> life.access_interval + (id - set.mru_id_)]

SetAfter(set, tag, id, is_fill) ==
    IF is_fill THEN Replace(Find(set, tag, id), tag, id)
               ELSE Find(set, tag, id)

(* One reference to the line of addr, by the instruction at inst; a fetch  *)
(* is the only reference the address profile does not count.               *)
Reference(inst, addr, access_type, is_fetch, may_fill) ==
    LET tag    == TagOf(addr)
        s      == SetIndexOf(tag)
        set    == cache.sets_[s]
        id     == cache.ref_id_ + 1
        is_hit == IsHit(set, tag)
        is_mru == IsMru(set, tag)
        is_fill == ~is_hit /\ may_fill
    IN  cache' =
          [sets_       |-> [cache.sets_ EXCEPT ![s] = SetAfter(@, tag, id, is_fill)],
           v_set_life_ |-> [cache.v_set_life_ EXCEPT
                              ![s] = SetLifeAfter(@, set, id, is_fill)],
           ref_id_     |-> id,
           miss_hit_   |-> Inc(cache.miss_hit_, is_hit),
           of_inst_    |-> CountKeyMru(cache.of_inst_, inst, access_type, is_hit, is_mru),
           of_addr_    |-> IF is_fetch THEN cache.of_addr_
                           ELSE CountKeyMru(cache.of_addr_, addr, access_type, is_hit, is_mru),
           of_time_    |-> CountKeyMru(cache.of_time_, Epoch(cache.ref_id_),
                                       access_type, is_hit, is_mru)]

AccessSingleLine(inst, addr, access_type) ==
    Reference(inst, addr, access_type, FALSE, Allocates(access_type))

(* The line after the first one is ignored, whatever the size.             *)
AccessMultipleLines(inst, addr, size, access_type) ==
    AccessSingleLine(inst, addr, access_type)

FetchSingleLine(inst) == Reference(inst, inst, kLoad, TRUE, WriteAllocate)

FetchMultipleLines(inst, size) == FetchSingleLine(inst)

-----------------------------------------------------------------------------
NewCache(junk) ==
    [sets_       |-> [s \in SetIndex |-> NewSet(junk[s])],
     v_set_life_ |-> [s \in SetIndex |-> NewSetLife],
     ref_id_     |-> 0,
     miss_hit_   |-> NewMissHit,
     of_inst_    |-> NewProfile,
     of_addr_    |-> NewProfile,
     of_time_    |-> NewProfile]

Init == \E junk \in [SetIndex -> InitialMruIds] : cache = NewCache(junk)

(* The analysis calls the pintool inserts for a data access of inst to     *)
(* addr, and for inst itself.                                              *)
DataReference(inst, addr) ==
    \E access_type \in kAccessTypes :
        \/ AccessSingleLine(inst, addr, access_type)
        \/ \E size \in Sizes : AccessMultipleLines(inst, addr, size, access_type)

Fetch(inst) ==
    \/ FetchSingleLine(inst)
    \/ \E size \in Sizes : FetchMultipleLines(inst, size)

Next ==
    /\ cache.ref_id_ < MaxRefs
    /\ \E inst \in Insts :
         \/ \E addr \in Addrs : DataReference(inst, addr)
         \/ Fetch(inst)

Spec == Init /\ [][Next]_cache

-----------------------------------------------------------------------------
(***************************************************************************)
(* Properties.                                                             *)
(***************************************************************************)

LineLife == [first : Nat, last : Nat]

(* The life map of a set is a partial function from tags to lives.         *)
IsSet(set) ==
    /\ set \in [tags_ : Seq(Tags), m_line_life_ : {set.m_line_life_},
                mru_tag_ : Nat, mru_id_ : Int]
    /\ DOMAIN set.m_line_life_ \subseteq Tags
    /\ \A t \in DOMAIN set.m_line_life_ : set.m_line_life_[t] \in LineLife

SetLifeType == [replace_count : Nat, live_time : Int, dead_time : Int,
                access_count : Nat, access_interval : Int]

(* Type correctness: the shape of every field of the cache object.         *)
TypeOK ==
    /\ cache \in [sets_       : [SetIndex -> {cache.sets_[s] : s \in SetIndex}],
                  v_set_life_ : [SetIndex -> SetLifeType],
                  ref_id_     : Nat,
                  miss_hit_   : (0 .. Uint32 - 1) \X (0 .. Uint32 - 1),
                  of_inst_    : ProfileType,
                  of_addr_    : ProfileType,
                  of_time_    : ProfileType]
    /\ \A s \in SetIndex : IsSet(cache.sets_[s])

(* A set never holds more lines than it has ways, holds no line twice and  *)
(* no line of another set, and the two containers that describe it, the    *)
(* list of Find and the life map of Replace, describe the same lines: the  *)
(* map's operator[] never has to invent an entry.                          *)
ContainersAgree(s, set) ==
    /\ Len(set.tags_) <= NumWays
    /\ \A i, j \in DOMAIN set.tags_ : set.tags_[i] = set.tags_[j] => i = j
    /\ DOMAIN set.m_line_life_ = Resident(set)
    /\ \A t \in Resident(set) : SetIndexOf(t) = s

StructuresAgree == \A s \in SetIndex : ContainersAgree(s, cache.sets_[s])

(* The list is in order of last use, strictly, and no line was used before *)
(* it came in or later than now: the back of the list is the line Replace  *)
(* may evict.                                                              *)
LastUse(set, i) == set.m_line_life_[set.tags_[i]].last

InRecencyOrder(set, now) ==
    /\ \A i, j \in DOMAIN set.tags_ : i < j => LastUse(set, i) > LastUse(set, j)
    /\ \A t \in Resident(set) :
         /\ set.m_line_life_[t].first <= set.m_line_life_[t].last
         /\ set.m_line_life_[t].last <= now

RecencyOrder == \A s \in SetIndex : InRecencyOrder(cache.sets_[s], cache.ref_id_)

(* What a hit is reported as: in a write-allocate cache the remembered     *)
(* most recent tag and id are those of the front of the list, so that a    *)
(* hit counts as an MRU hit exactly when the line is at the front.         *)
RemembersFront(set) ==
    set.tags_ # << >> => /\ set.mru_tag_ = set.tags_[1]
                         /\ set.mru_id_ = LastUse(set, 1)

MruIsFront == WriteAllocate => \A s \in SetIndex : RemembersFront(cache.sets_[s])

(* The rows of a profile are accessed unchecked; every index Map has given *)
(* out has its row, and two keys never share one.                          *)
RowsCoverIndices ==
    Covered(cache.of_inst_) /\ Covered(cache.of_addr_) /\ Covered(cache.of_time_)

(* The lifetime statistics of a set account for all its time exactly once: *)
(* live and dead time together are the sum of the arrival times of the     *)
(* lines still resident.  (A fill of an empty way counts the time before   *)
(* it as dead time.)                                                       *)
LifeTimesAddUp ==
    \A s \in SetIndex :
        LET set == cache.sets_[s]
            life == cache.v_set_life_[s]
            arrival(t) == set.m_line_life_[t].first
        IN  life.live_time + life.dead_time = MapThenSumSet(arrival, Resident(set))

(* The access intervals of a set telescope: their sum is the id of its     *)
(* last reference less whatever mru_id_ held before the first one, and     *)
(* every reference was charged to one set.                                 *)
AccessIntervalsTelescope ==
    /\ \A s \in SetIndex : \E junk \in InitialMruIds :
          cache.sets_[s].mru_id_ = junk + cache.v_set_life_[s].access_interval
    /\ LET count(s) == cache.v_set_life_[s].access_count
       IN  MapThenSumSet(count, SetIndex) = cache.ref_id_

(* The instruction and the time profile tell the same story as the totals: *)
(* equal sums counter by counter, every hit classified once as MRU or not, *)
(* and the address profile lacks only fetches, which are loads.            *)
ProfilesAgree ==
    LET inst(c) == ColumnSum(cache.of_inst_, c)
        addr(c) == ColumnSum(cache.of_addr_, c)
    IN  /\ \A c \in CounterId : inst(c) = ColumnSum(cache.of_time_, c)
        /\ cache.miss_hit_[1] = (inst(0) + inst(2)) % Uint32
        /\ cache.miss_hit_[2] = (inst(1) + inst(3)) % Uint32
        /\ inst(0) + inst(1) + inst(2) + inst(3) = cache.ref_id_
        /\ inst(1) = inst(4) + inst(5) /\ inst(3) = inst(6) + inst(7)
        /\ \A c \in {2, 3, 6, 7} : addr(c) = inst(c)
        /\ \A c \in {0, 1, 4, 5} : addr(c) <= inst(c)

(* A step evicts at most one line, only from a full set, and that line was *)
(* used before every line that stays; in particular the line just          *)
(* referenced is never the victim.                                         *)
EvictsLeastRecent ==
    [][\A s \in SetIndex :
          LET old == cache.sets_[s]
              gone == Resident(old) \ Resident(cache'.sets_[s])
          IN  \A t \in gone :
                /\ IsFull(old)
                /\ gone = {t}
                /\ \A u \in Resident(old) \ {t} :
                     old.m_line_life_[t].last < old.m_line_life_[u].last]_cache
=============================================================================
