----------------------------- MODULE InfiniteCache -----------------------------
(***************************************************************************)
(* Cache<cache_set::Infinite, ...> of cache.h: the class Cache with sets   *)
(* that never evict, so that only first references miss.  The other three  *)
(* caches of a level are measured against it.                              *)
(*                                                                         *)
(* An infinite set has no most recent line: its Find reports no hit as MRU *)
(* and its mru_id() is always 0.                                           *)
(***************************************************************************)
EXTENDS BaseCache, FiniteSets

CONSTANTS Addrs, Insts, MaxRefs     \* as in LruCache

VARIABLE cache

-----------------------------------------------------------------------------
(* class Infinite: a set is the set of the tags it has seen.               *)

Find(tags, tag) == tag \in tags
Replace(tags, tag) == tags \cup {tag}

(* One reference; in a write-allocate cache every miss fills, so that      *)
(* Replace changes nothing on a hit.                                       *)
Reference(inst, addr, access_type, is_fetch) ==
    LET tag    == TagOf(addr)
        s      == SetIndexOf(tag)
        is_hit == Find(cache.sets_[s], tag)
        count(profile, key) == CountKeyMru(profile, key, access_type, is_hit, FALSE)
    IN  cache' = [cache EXCEPT
           !.sets_[s]  = Replace(@, tag),
           !.ref_id_   = @ + 1,
           !.miss_hit_ = Inc(@, is_hit),
           !.of_inst_  = count(@, inst),
           !.of_addr_  = IF is_fetch THEN @ ELSE count(@, addr),
           !.of_time_  = count(@, Epoch(cache.ref_id_))]

Access(inst, addr, access_type) == Reference(inst, addr, access_type, FALSE)
Fetch(inst) == Reference(inst, inst, kLoad, TRUE)

NewCache ==
    [sets_     |-> [s \in SetIndex |-> {}],
     ref_id_   |-> 0,
     miss_hit_ |-> NewMissHit,
     of_inst_  |-> NewProfile,
     of_addr_  |-> NewProfile,
     of_time_  |-> NewProfile]

Init == cache = NewCache
=============================================================================
