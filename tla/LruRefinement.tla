----------------------------- MODULE LruRefinement -----------------------------
(***************************************************************************)
(* LruCache implements LruReference.  The reference remembers when lines   *)
(* that are no longer resident were last used, which the cache object does *)
(* not: last_ref is a history variable that copies the stream of           *)
(* references and never constrains the cache.                              *)
(***************************************************************************)
EXTENDS LruCache

VARIABLE last_ref

hvars == <<cache, last_ref>>

HInit == Init /\ last_ref = [t \in Tags |-> 0]

Remember(addr) == last_ref' = [last_ref EXCEPT ![TagOf(addr)] = cache.ref_id_ + 1]

HNext ==
    /\ cache.ref_id_ < MaxRefs
    /\ \E inst \in Insts :
         \/ \E addr \in Addrs : DataReference(inst, addr) /\ Remember(addr)
         \/ Fetch(inst) /\ Remember(inst)

HSpec == HInit /\ [][HNext]_hvars

Abstract == INSTANCE LruReference WITH
    Lines   <- Tags,
    SetOf   <- SetIndexOf,
    Ways    <- NumWays,
    Range32 <- Uint32,
    clock   <- cache.ref_id_,
    misses  <- cache.miss_hit_[1],
    hits    <- cache.miss_hit_[2]

(* Every run of the write-allocate cache is a run of the stack-distance    *)
(* definition of LRU, hit for hit and miss for miss: eviction, the moves   *)
(* in the list and the split into sets are implementation only.            *)
ImplementsLru == Abstract!Spec

(* The link between the two: the lines of a set that are resident are the  *)
(* NumWays (or fewer) last referenced ones, and the life map knows when.   *)
ResidentIsRecent ==
    \A s \in SetIndex :
        LET set == cache.sets_[s]
            ever == {t \in Tags : SetIndexOf(t) = s /\ last_ref[t] > 0}
        IN  /\ Resident(set) \subseteq ever
            /\ \A t \in Resident(set) : last_ref[t] = set.m_line_life_[t].last
            /\ \A t \in ever \ Resident(set) :
                 /\ IsFull(set)
                 /\ \A u \in Resident(set) : last_ref[u] > last_ref[t]
=============================================================================
