------------------------- MODULE CacheSimulatorProofs -------------------------
(***************************************************************************)
(* Proofs about CacheSimulator, for every geometry of the three levels,    *)
(* every setting of the knobs and every traced program.                    *)
(*                                                                         *)
(* The invariant says that the four caches of a level show the same view:  *)
(* the same keys at the same indices, and as many references to each row,  *)
(* those included that wait in a trace to be decided.  "Rows" speaks of    *)
(* keys and rows for all caches alike; the proofs about one optimal cache  *)
(* are instantiated for the two of each level.                             *)
(***************************************************************************)
EXTENDS CacheSimulator, TLAPS

Rows == INSTANCE BaseCacheProofs WITH NumSets <- DL1NumSets

(* What the proofs about rows assume.                                      *)
LEMMA RowSizes ==
    /\ DL1NumSets \in Nat \ {0} /\ Rows!IsPower2(DL1NumSets)
    /\ LineSize \in Nat \ {0} /\ Rows!IsPower2(LineSize)
    /\ Kilo \in Nat \ {0} /\ InitialRows \in Nat \ {0} /\ Uint32 \in Nat \ {0}
BY SimulatorAssumption DEF Rows!IsPower2, DL1!IsPower2

(* The sizes of the caches, and the knobs.                                 *)
LEMMA Sizes ==
    /\ 1 \in Nat \ {0}
    /\ LineSize \in Nat \ {0} /\ Kilo \in Nat \ {0}
    /\ InitialRows \in Nat \ {0} /\ Uint32 \in Nat \ {0}
    /\ DL1NumSets \in Nat \ {0} /\ DL1NumWays \in Nat \ {0}
    /\ DL1NumSets * DL1NumWays \in Nat \ {0}
    /\ IL1NumSets \in Nat \ {0} /\ IL1NumWays \in Nat \ {0}
    /\ IL1NumSets * IL1NumWays \in Nat \ {0}
    /\ UL2NumSets \in Nat \ {0} /\ UL2NumWays \in Nat \ {0}
    /\ UL2NumSets * UL2NumWays \in Nat \ {0}
    /\ {<<KnobLookaheadDistance, KnobProcessWindow>>} \subseteq Nat \X Nat
    /\ MaxRefs \in Nat /\ KMax \in Nat /\ KMax > 2 * MaxRefs
    /\ Addrs \subseteq Nat /\ Insts \subseteq Nat
<1>1. DL1NumSets \in Nat \ {0} /\ DL1NumWays \in Nat \ {0}
  BY SimulatorAssumption
<1>2. DL1NumSets * DL1NumWays \in Nat \ {0}
  BY <1>1
<1>3. IL1NumSets \in Nat \ {0} /\ IL1NumWays \in Nat \ {0}
  BY SimulatorAssumption
<1>4. IL1NumSets * IL1NumWays \in Nat \ {0}
  BY <1>3
<1>5. UL2NumSets \in Nat \ {0} /\ UL2NumWays \in Nat \ {0}
  BY SimulatorAssumption
<1>6. UL2NumSets * UL2NumWays \in Nat \ {0}
  BY <1>5
<1> QED BY <1>1, <1>2, <1>3, <1>4, <1>5, <1>6, SimulatorAssumption

-----------------------------------------------------------------------------
(* The infinite cache and the real one count every reference at once.      *)

(* The fields of an infinite cache.                                        *)
IsInf(c) ==
    c = [sets_ |-> c.sets_, ref_id_ |-> c.ref_id_, miss_hit_ |-> c.miss_hit_,
         of_inst_ |-> c.of_inst_, of_addr_ |-> c.of_addr_, of_time_ |-> c.of_time_]

(* What they count, they count alike, and show the same of it.             *)
Alike(inf, lru) ==
    /\ IsInf(inf) /\ Rows!PlainInv(inf) /\ Rows!PlainInv(lru)
    /\ Rows!PlainView(lru) = Rows!PlainView(inf)

(* One more reference, which the real cache reports as is_hit.             *)
BothCount(inf, lru, new_inf, new_lru, inst, addr, access_type, is_fetch, is_hit) ==
    /\ Alike(new_inf, new_lru)
    /\ Rows!PlainView(new_inf)
           = Rows!Noted(Rows!PlainView(inf), inst, addr, access_type, is_fetch)
    /\ new_inf.ref_id_ = inf.ref_id_ + 1
    /\ new_lru.miss_hit_ = Rows!Inc(lru.miss_hit_, is_hit)

(* It is a plain step of both.                                             *)
LEMMA PlainStepsCount ==
    ASSUME NEW inf, NEW lru, Alike(inf, lru), NEW new_inf, NEW new_lru, IsInf(new_inf),
           NEW inst \in Nat, NEW addr \in Nat, NEW access_type \in Rows!kAccessTypes,
           NEW is_fetch \in BOOLEAN, NEW is_hit \in BOOLEAN,
           \E h, m \in BOOLEAN :
              Rows!PlainStep(inf, new_inf, inst, addr, access_type, is_fetch, h, m),
           \E m \in BOOLEAN :
              Rows!PlainStep(lru, new_lru, inst, addr, access_type, is_fetch, is_hit, m)
    PROVE  BothCount(inf, lru, new_inf, new_lru, inst, addr, access_type, is_fetch, is_hit)
<1>1. PICK h \in BOOLEAN, k \in BOOLEAN :
         Rows!PlainStep(inf, new_inf, inst, addr, access_type, is_fetch, h, k)
  OBVIOUS
<1>2. PICK m \in BOOLEAN :
         Rows!PlainStep(lru, new_lru, inst, addr, access_type, is_fetch, is_hit, m)
  OBVIOUS
<1>3. Rows!PlainInv(inf) /\ Rows!PlainInv(lru)
  BY DEF Alike
<1>4. /\ Rows!PlainInv(new_inf)
      /\ Rows!PlainView(new_inf)
             = Rows!Noted(Rows!PlainView(inf), inst, addr, access_type, is_fetch)
  BY <1>1, <1>3, RowSizes, Rows!PlainStepKeeps
<1>5. /\ Rows!PlainInv(new_lru)
      /\ Rows!PlainView(new_lru)
             = Rows!Noted(Rows!PlainView(lru), inst, addr, access_type, is_fetch)
  BY <1>2, <1>3, RowSizes, Rows!PlainStepKeeps
<1>6. new_inf.ref_id_ = inf.ref_id_ + 1
  BY <1>1 DEF Rows!PlainStep
<1>7. new_lru.miss_hit_ = Rows!Inc(lru.miss_hit_, is_hit)
  BY <1>2 DEF Rows!PlainStep
<1> QED BY <1>4, <1>5, <1>6, <1>7 DEF Alike, BothCount

(* How the real cache counts, in the first-level data cache.               *)
LEMMA SaLruDL1Counts ==
    /\ \A p, key, access_type, is_hit, is_mru :
          DL1!SaLru!CountKeyMru(p, key, access_type, is_hit, is_mru)
             = Rows!CountKeyMru(p, key, access_type, is_hit, is_mru)
    /\ \A miss_hit, is_hit : DL1!SaLru!Inc(miss_hit, is_hit) = Rows!Inc(miss_hit, is_hit)
    /\ \A ref_id : DL1!SaLru!Epoch(ref_id) = Rows!Epoch(ref_id)
    /\ DL1!SaLru!NewMissHit = Rows!NewMissHit /\ DL1!SaLru!NewProfile = Rows!NewProfile
    /\ DL1!SaLru!kLoad = Rows!kLoad /\ DL1!kLoad = Rows!kLoad
<1>1. ASSUME NEW p, NEW key, NEW access_type, NEW is_hit, NEW is_mru
      PROVE  DL1!SaLru!CountKeyMru(p, key, access_type, is_hit, is_mru)
                = Rows!CountKeyMru(p, key, access_type, is_hit, is_mru)
  BY Zenon DEF
     DL1!SaLru!CountKeyMru, Rows!CountKeyMru, DL1!SaLru!CountRowMru,
     Rows!CountRowMru, DL1!SaLru!CountRow, Rows!CountRow, DL1!SaLru!Bump,
     Rows!Bump, DL1!SaLru!MissHitId, Rows!MissHitId, DL1!SaLru!MruId,
     Rows!MruId, DL1!SaLru!B2I, Rows!B2I, DL1!SaLru!RowOf, Rows!RowOf,
     DL1!SaLru!MapKey, Rows!MapKey, DL1!SaLru!IsMapped, Rows!IsMapped,
     DL1!SaLru!NewRow, Rows!NewRow, DL1!SaLru!CounterId, Rows!CounterId
<1>2. ASSUME NEW miss_hit, NEW is_hit
      PROVE  DL1!SaLru!Inc(miss_hit, is_hit) = Rows!Inc(miss_hit, is_hit)
  BY Zenon DEF DL1!SaLru!Inc, Rows!Inc, DL1!SaLru!B2I, Rows!B2I
<1>3. /\ \A ref_id : DL1!SaLru!Epoch(ref_id) = Rows!Epoch(ref_id)
      /\ DL1!SaLru!NewMissHit = Rows!NewMissHit /\ DL1!SaLru!NewProfile = Rows!NewProfile
      /\ DL1!SaLru!kLoad = Rows!kLoad /\ DL1!kLoad = Rows!kLoad
  BY DEF
     DL1!SaLru!Epoch, Rows!Epoch, DL1!SaLru!NewMissHit, Rows!NewMissHit,
     DL1!SaLru!NewProfile, Rows!NewProfile, DL1!SaLru!NewRow, Rows!NewRow,
     DL1!SaLru!CounterId, Rows!CounterId, DL1!SaLru!kLoad, Rows!kLoad, DL1!kLoad
<1> QED BY <1>1, <1>2, <1>3

(* How the infinite cache counts, in the first-level data cache.           *)
LEMMA InfDL1Counts ==
    /\ \A p, key, access_type, is_hit, is_mru :
          DL1!Inf!CountKeyMru(p, key, access_type, is_hit, is_mru)
             = Rows!CountKeyMru(p, key, access_type, is_hit, is_mru)
    /\ \A miss_hit, is_hit : DL1!Inf!Inc(miss_hit, is_hit) = Rows!Inc(miss_hit, is_hit)
    /\ \A ref_id : DL1!Inf!Epoch(ref_id) = Rows!Epoch(ref_id)
    /\ DL1!Inf!NewMissHit = Rows!NewMissHit /\ DL1!Inf!NewProfile = Rows!NewProfile
    /\ DL1!Inf!kLoad = Rows!kLoad /\ DL1!kLoad = Rows!kLoad
<1>1. ASSUME NEW p, NEW key, NEW access_type, NEW is_hit, NEW is_mru
      PROVE  DL1!Inf!CountKeyMru(p, key, access_type, is_hit, is_mru)
                = Rows!CountKeyMru(p, key, access_type, is_hit, is_mru)
  BY Zenon DEF
     DL1!Inf!CountKeyMru, Rows!CountKeyMru, DL1!Inf!CountRowMru,
     Rows!CountRowMru, DL1!Inf!CountRow, Rows!CountRow, DL1!Inf!Bump,
     Rows!Bump, DL1!Inf!MissHitId, Rows!MissHitId, DL1!Inf!MruId, Rows!MruId,
     DL1!Inf!B2I, Rows!B2I, DL1!Inf!RowOf, Rows!RowOf, DL1!Inf!MapKey,
     Rows!MapKey, DL1!Inf!IsMapped, Rows!IsMapped, DL1!Inf!NewRow,
     Rows!NewRow, DL1!Inf!CounterId, Rows!CounterId
<1>2. ASSUME NEW miss_hit, NEW is_hit
      PROVE  DL1!Inf!Inc(miss_hit, is_hit) = Rows!Inc(miss_hit, is_hit)
  BY Zenon DEF DL1!Inf!Inc, Rows!Inc, DL1!Inf!B2I, Rows!B2I
<1>3. /\ \A ref_id : DL1!Inf!Epoch(ref_id) = Rows!Epoch(ref_id)
      /\ DL1!Inf!NewMissHit = Rows!NewMissHit /\ DL1!Inf!NewProfile = Rows!NewProfile
      /\ DL1!Inf!kLoad = Rows!kLoad /\ DL1!kLoad = Rows!kLoad
  BY DEF
     DL1!Inf!Epoch, Rows!Epoch, DL1!Inf!NewMissHit, Rows!NewMissHit,
     DL1!Inf!NewProfile, Rows!NewProfile, DL1!Inf!NewRow, Rows!NewRow,
     DL1!Inf!CounterId, Rows!CounterId, DL1!Inf!kLoad, Rows!kLoad, DL1!kLoad
<1> QED BY <1>1, <1>2, <1>3

(* An access of the first-level data cache.                                *)
LEMMA DL1CountsAccess ==
    ASSUME Alike(inf_dl1, sa_lru_dl1), NEW inst \in Nat, NEW addr \in Nat,
           NEW access_type \in Rows!kAccessTypes,
           DL1!Inf!Access(inst, addr, access_type), DL1!SaLru!AccessSingleLine(inst, addr, access_type)
    PROVE  BothCount(inf_dl1, sa_lru_dl1, inf_dl1', sa_lru_dl1',
                     inst, addr, access_type, FALSE, DL1!IsHit(addr))
<1> DEFINE tag == DL1!SaLru!TagOf(addr)
           set == sa_lru_dl1.sets_[DL1!SaLru!SetIndexOf(tag)]
           is_mru == DL1!SaLru!IsMru(set, tag)
           inf_tag == DL1!Inf!TagOf(addr)
           inf_hit == DL1!Inf!Find(inf_dl1.sets_[DL1!Inf!SetIndexOf(inf_tag)], inf_tag)
<1>1. DL1!IsHit(addr) = DL1!SaLru!IsHit(set, tag) /\ DL1!IsHit(addr) \in BOOLEAN
  BY DEF DL1!IsHit, DL1!TagOf, DL1!SetIndexOf, DL1!SaLru!TagOf, DL1!SaLru!SetIndexOf, DL1!SaLru!IsHit
<1>2. is_mru \in BOOLEAN /\ inf_hit \in BOOLEAN /\ FALSE \in BOOLEAN /\ TRUE \in BOOLEAN
  BY DEF DL1!SaLru!IsMru, DL1!Inf!Find
<1>3. Rows!PlainStep(sa_lru_dl1, sa_lru_dl1', inst, addr, access_type, FALSE,
                     DL1!SaLru!IsHit(set, tag), is_mru)
  BY SaLruDL1Counts DEF Rows!PlainStep, DL1!SaLru!AccessSingleLine, DL1!SaLru!Reference
<1>4. /\ IsInf(inf_dl1')
      /\ Rows!PlainStep(inf_dl1, inf_dl1', inst, addr, access_type, FALSE, inf_hit, FALSE)
  <2>1. IsInf(inf_dl1)
    BY DEF Alike
  <2> QED BY <2>1, InfDL1Counts
          DEF IsInf, Rows!PlainStep, DL1!Inf!Access, DL1!Inf!Reference
<1> HIDE DEF is_mru, inf_hit
<1>5. \E m \in BOOLEAN :
         Rows!PlainStep(sa_lru_dl1, sa_lru_dl1', inst, addr, access_type, FALSE,
                        DL1!IsHit(addr), m)
  BY <1>1, <1>2, <1>3
<1>6. \E h, m \in BOOLEAN :
         Rows!PlainStep(inf_dl1, inf_dl1', inst, addr, access_type, FALSE, h, m)
  BY <1>2, <1>4
<1>7. Rows!kLoad \in Rows!kAccessTypes
  BY DEF Rows!kAccessTypes
<1> QED BY <1>1, <1>2, <1>4, <1>5, <1>6, <1>7, PlainStepsCount

(* The two start alike, at the first-level data cache.                     *)
LEMMA DL1StartsAlike ==
    ASSUME DL1!Inf!Init, DL1!SaLru!Init
    PROVE  /\ Alike(inf_dl1, sa_lru_dl1) /\ Rows!PlainView(inf_dl1) = Rows!EmptyView
           /\ inf_dl1.ref_id_ = 0 /\ sa_lru_dl1.miss_hit_[1] = 0
<1>1. inf_dl1 = DL1!Inf!NewCache
  BY DEF DL1!Inf!Init
<1>2. PICK junk : sa_lru_dl1 = DL1!SaLru!NewCache(junk)
  BY DEF DL1!SaLru!Init
<1>3. IsInf(inf_dl1) /\ Rows!IsNewCache(inf_dl1)
  BY <1>1, InfDL1Counts DEF DL1!Inf!NewCache, IsInf, Rows!IsNewCache
<1>4. Rows!IsNewCache(sa_lru_dl1)
  BY <1>2, SaLruDL1Counts DEF DL1!SaLru!NewCache, Rows!IsNewCache
<1>5. /\ Rows!PlainInv(inf_dl1) /\ Rows!PlainView(inf_dl1) = Rows!EmptyView
      /\ Rows!PlainInv(sa_lru_dl1) /\ Rows!PlainView(sa_lru_dl1) = Rows!EmptyView
  BY <1>3, <1>4, RowSizes, Rows!NewCacheIsPlain
<1>6. inf_dl1.ref_id_ = 0 /\ sa_lru_dl1.miss_hit_[1] = 0
  BY <1>3, <1>4 DEF Rows!IsNewCache, Rows!NewMissHit
<1> QED BY <1>3, <1>5, <1>6 DEF Alike

(* How the real cache counts, in the first-level instruction cache.        *)
LEMMA SaLruIL1Counts ==
    /\ \A p, key, access_type, is_hit, is_mru :
          IL1!SaLru!CountKeyMru(p, key, access_type, is_hit, is_mru)
             = Rows!CountKeyMru(p, key, access_type, is_hit, is_mru)
    /\ \A miss_hit, is_hit : IL1!SaLru!Inc(miss_hit, is_hit) = Rows!Inc(miss_hit, is_hit)
    /\ \A ref_id : IL1!SaLru!Epoch(ref_id) = Rows!Epoch(ref_id)
    /\ IL1!SaLru!NewMissHit = Rows!NewMissHit /\ IL1!SaLru!NewProfile = Rows!NewProfile
    /\ IL1!SaLru!kLoad = Rows!kLoad /\ IL1!kLoad = Rows!kLoad
<1>1. ASSUME NEW p, NEW key, NEW access_type, NEW is_hit, NEW is_mru
      PROVE  IL1!SaLru!CountKeyMru(p, key, access_type, is_hit, is_mru)
                = Rows!CountKeyMru(p, key, access_type, is_hit, is_mru)
  BY Zenon DEF
     IL1!SaLru!CountKeyMru, Rows!CountKeyMru, IL1!SaLru!CountRowMru,
     Rows!CountRowMru, IL1!SaLru!CountRow, Rows!CountRow, IL1!SaLru!Bump,
     Rows!Bump, IL1!SaLru!MissHitId, Rows!MissHitId, IL1!SaLru!MruId,
     Rows!MruId, IL1!SaLru!B2I, Rows!B2I, IL1!SaLru!RowOf, Rows!RowOf,
     IL1!SaLru!MapKey, Rows!MapKey, IL1!SaLru!IsMapped, Rows!IsMapped,
     IL1!SaLru!NewRow, Rows!NewRow, IL1!SaLru!CounterId, Rows!CounterId
<1>2. ASSUME NEW miss_hit, NEW is_hit
      PROVE  IL1!SaLru!Inc(miss_hit, is_hit) = Rows!Inc(miss_hit, is_hit)
  BY Zenon DEF IL1!SaLru!Inc, Rows!Inc, IL1!SaLru!B2I, Rows!B2I
<1>3. /\ \A ref_id : IL1!SaLru!Epoch(ref_id) = Rows!Epoch(ref_id)
      /\ IL1!SaLru!NewMissHit = Rows!NewMissHit /\ IL1!SaLru!NewProfile = Rows!NewProfile
      /\ IL1!SaLru!kLoad = Rows!kLoad /\ IL1!kLoad = Rows!kLoad
  BY DEF
     IL1!SaLru!Epoch, Rows!Epoch, IL1!SaLru!NewMissHit, Rows!NewMissHit,
     IL1!SaLru!NewProfile, Rows!NewProfile, IL1!SaLru!NewRow, Rows!NewRow,
     IL1!SaLru!CounterId, Rows!CounterId, IL1!SaLru!kLoad, Rows!kLoad, IL1!kLoad
<1> QED BY <1>1, <1>2, <1>3

(* How the infinite cache counts, in the first-level instruction cache.    *)
LEMMA InfIL1Counts ==
    /\ \A p, key, access_type, is_hit, is_mru :
          IL1!Inf!CountKeyMru(p, key, access_type, is_hit, is_mru)
             = Rows!CountKeyMru(p, key, access_type, is_hit, is_mru)
    /\ \A miss_hit, is_hit : IL1!Inf!Inc(miss_hit, is_hit) = Rows!Inc(miss_hit, is_hit)
    /\ \A ref_id : IL1!Inf!Epoch(ref_id) = Rows!Epoch(ref_id)
    /\ IL1!Inf!NewMissHit = Rows!NewMissHit /\ IL1!Inf!NewProfile = Rows!NewProfile
    /\ IL1!Inf!kLoad = Rows!kLoad /\ IL1!kLoad = Rows!kLoad
<1>1. ASSUME NEW p, NEW key, NEW access_type, NEW is_hit, NEW is_mru
      PROVE  IL1!Inf!CountKeyMru(p, key, access_type, is_hit, is_mru)
                = Rows!CountKeyMru(p, key, access_type, is_hit, is_mru)
  BY Zenon DEF
     IL1!Inf!CountKeyMru, Rows!CountKeyMru, IL1!Inf!CountRowMru,
     Rows!CountRowMru, IL1!Inf!CountRow, Rows!CountRow, IL1!Inf!Bump,
     Rows!Bump, IL1!Inf!MissHitId, Rows!MissHitId, IL1!Inf!MruId, Rows!MruId,
     IL1!Inf!B2I, Rows!B2I, IL1!Inf!RowOf, Rows!RowOf, IL1!Inf!MapKey,
     Rows!MapKey, IL1!Inf!IsMapped, Rows!IsMapped, IL1!Inf!NewRow,
     Rows!NewRow, IL1!Inf!CounterId, Rows!CounterId
<1>2. ASSUME NEW miss_hit, NEW is_hit
      PROVE  IL1!Inf!Inc(miss_hit, is_hit) = Rows!Inc(miss_hit, is_hit)
  BY Zenon DEF IL1!Inf!Inc, Rows!Inc, IL1!Inf!B2I, Rows!B2I
<1>3. /\ \A ref_id : IL1!Inf!Epoch(ref_id) = Rows!Epoch(ref_id)
      /\ IL1!Inf!NewMissHit = Rows!NewMissHit /\ IL1!Inf!NewProfile = Rows!NewProfile
      /\ IL1!Inf!kLoad = Rows!kLoad /\ IL1!kLoad = Rows!kLoad
  BY DEF
     IL1!Inf!Epoch, Rows!Epoch, IL1!Inf!NewMissHit, Rows!NewMissHit,
     IL1!Inf!NewProfile, Rows!NewProfile, IL1!Inf!NewRow, Rows!NewRow,
     IL1!Inf!CounterId, Rows!CounterId, IL1!Inf!kLoad, Rows!kLoad, IL1!kLoad
<1> QED BY <1>1, <1>2, <1>3

(* A fetch from the first-level instruction cache.                         *)
LEMMA IL1CountsFetch ==
    ASSUME Alike(inf_il1, sa_lru_il1), NEW inst \in Nat,
           IL1!Inf!Fetch(inst), IL1!SaLru!FetchSingleLine(inst)
    PROVE  BothCount(inf_il1, sa_lru_il1, inf_il1', sa_lru_il1',
                     inst, inst, Rows!kLoad, TRUE, IL1!IsHit(inst))
<1> DEFINE tag == IL1!SaLru!TagOf(inst)
           set == sa_lru_il1.sets_[IL1!SaLru!SetIndexOf(tag)]
           is_mru == IL1!SaLru!IsMru(set, tag)
           inf_tag == IL1!Inf!TagOf(inst)
           inf_hit == IL1!Inf!Find(inf_il1.sets_[IL1!Inf!SetIndexOf(inf_tag)], inf_tag)
<1>1. IL1!IsHit(inst) = IL1!SaLru!IsHit(set, tag) /\ IL1!IsHit(inst) \in BOOLEAN
  BY DEF IL1!IsHit, IL1!TagOf, IL1!SetIndexOf, IL1!SaLru!TagOf, IL1!SaLru!SetIndexOf, IL1!SaLru!IsHit
<1>2. is_mru \in BOOLEAN /\ inf_hit \in BOOLEAN /\ FALSE \in BOOLEAN /\ TRUE \in BOOLEAN
  BY DEF IL1!SaLru!IsMru, IL1!Inf!Find
<1>3. Rows!PlainStep(sa_lru_il1, sa_lru_il1', inst, inst, Rows!kLoad, TRUE,
                     IL1!SaLru!IsHit(set, tag), is_mru)
  BY SaLruIL1Counts DEF Rows!PlainStep, IL1!SaLru!FetchSingleLine, IL1!SaLru!Reference
<1>4. /\ IsInf(inf_il1')
      /\ Rows!PlainStep(inf_il1, inf_il1', inst, inst, Rows!kLoad, TRUE, inf_hit, FALSE)
  <2>1. IsInf(inf_il1)
    BY DEF Alike
  <2> QED BY <2>1, InfIL1Counts
          DEF IsInf, Rows!PlainStep, IL1!Inf!Fetch, IL1!Inf!Reference
<1> HIDE DEF is_mru, inf_hit
<1>5. \E m \in BOOLEAN :
         Rows!PlainStep(sa_lru_il1, sa_lru_il1', inst, inst, Rows!kLoad, TRUE,
                        IL1!IsHit(inst), m)
  BY <1>1, <1>2, <1>3
<1>6. \E h, m \in BOOLEAN :
         Rows!PlainStep(inf_il1, inf_il1', inst, inst, Rows!kLoad, TRUE, h, m)
  BY <1>2, <1>4
<1>7. Rows!kLoad \in Rows!kAccessTypes
  BY DEF Rows!kAccessTypes
<1> QED BY <1>1, <1>2, <1>4, <1>5, <1>6, <1>7, PlainStepsCount

(* The two start alike, at the first-level instruction cache.              *)
LEMMA IL1StartsAlike ==
    ASSUME IL1!Inf!Init, IL1!SaLru!Init
    PROVE  /\ Alike(inf_il1, sa_lru_il1) /\ Rows!PlainView(inf_il1) = Rows!EmptyView
           /\ inf_il1.ref_id_ = 0 /\ sa_lru_il1.miss_hit_[1] = 0
<1>1. inf_il1 = IL1!Inf!NewCache
  BY DEF IL1!Inf!Init
<1>2. PICK junk : sa_lru_il1 = IL1!SaLru!NewCache(junk)
  BY DEF IL1!SaLru!Init
<1>3. IsInf(inf_il1) /\ Rows!IsNewCache(inf_il1)
  BY <1>1, InfIL1Counts DEF IL1!Inf!NewCache, IsInf, Rows!IsNewCache
<1>4. Rows!IsNewCache(sa_lru_il1)
  BY <1>2, SaLruIL1Counts DEF IL1!SaLru!NewCache, Rows!IsNewCache
<1>5. /\ Rows!PlainInv(inf_il1) /\ Rows!PlainView(inf_il1) = Rows!EmptyView
      /\ Rows!PlainInv(sa_lru_il1) /\ Rows!PlainView(sa_lru_il1) = Rows!EmptyView
  BY <1>3, <1>4, RowSizes, Rows!NewCacheIsPlain
<1>6. inf_il1.ref_id_ = 0 /\ sa_lru_il1.miss_hit_[1] = 0
  BY <1>3, <1>4 DEF Rows!IsNewCache, Rows!NewMissHit
<1> QED BY <1>3, <1>5, <1>6 DEF Alike

(* How the real cache counts, at the second level.                         *)
LEMMA SaLruUL2Counts ==
    /\ \A p, key, access_type, is_hit, is_mru :
          UL2!SaLru!CountKeyMru(p, key, access_type, is_hit, is_mru)
             = Rows!CountKeyMru(p, key, access_type, is_hit, is_mru)
    /\ \A miss_hit, is_hit : UL2!SaLru!Inc(miss_hit, is_hit) = Rows!Inc(miss_hit, is_hit)
    /\ \A ref_id : UL2!SaLru!Epoch(ref_id) = Rows!Epoch(ref_id)
    /\ UL2!SaLru!NewMissHit = Rows!NewMissHit /\ UL2!SaLru!NewProfile = Rows!NewProfile
    /\ UL2!SaLru!kLoad = Rows!kLoad /\ UL2!kLoad = Rows!kLoad
<1>1. ASSUME NEW p, NEW key, NEW access_type, NEW is_hit, NEW is_mru
      PROVE  UL2!SaLru!CountKeyMru(p, key, access_type, is_hit, is_mru)
                = Rows!CountKeyMru(p, key, access_type, is_hit, is_mru)
  BY Zenon DEF
     UL2!SaLru!CountKeyMru, Rows!CountKeyMru, UL2!SaLru!CountRowMru,
     Rows!CountRowMru, UL2!SaLru!CountRow, Rows!CountRow, UL2!SaLru!Bump,
     Rows!Bump, UL2!SaLru!MissHitId, Rows!MissHitId, UL2!SaLru!MruId,
     Rows!MruId, UL2!SaLru!B2I, Rows!B2I, UL2!SaLru!RowOf, Rows!RowOf,
     UL2!SaLru!MapKey, Rows!MapKey, UL2!SaLru!IsMapped, Rows!IsMapped,
     UL2!SaLru!NewRow, Rows!NewRow, UL2!SaLru!CounterId, Rows!CounterId
<1>2. ASSUME NEW miss_hit, NEW is_hit
      PROVE  UL2!SaLru!Inc(miss_hit, is_hit) = Rows!Inc(miss_hit, is_hit)
  BY Zenon DEF UL2!SaLru!Inc, Rows!Inc, UL2!SaLru!B2I, Rows!B2I
<1>3. /\ \A ref_id : UL2!SaLru!Epoch(ref_id) = Rows!Epoch(ref_id)
      /\ UL2!SaLru!NewMissHit = Rows!NewMissHit /\ UL2!SaLru!NewProfile = Rows!NewProfile
      /\ UL2!SaLru!kLoad = Rows!kLoad /\ UL2!kLoad = Rows!kLoad
  BY DEF
     UL2!SaLru!Epoch, Rows!Epoch, UL2!SaLru!NewMissHit, Rows!NewMissHit,
     UL2!SaLru!NewProfile, Rows!NewProfile, UL2!SaLru!NewRow, Rows!NewRow,
     UL2!SaLru!CounterId, Rows!CounterId, UL2!SaLru!kLoad, Rows!kLoad, UL2!kLoad
<1> QED BY <1>1, <1>2, <1>3

(* How the infinite cache counts, at the second level.                     *)
LEMMA InfUL2Counts ==
    /\ \A p, key, access_type, is_hit, is_mru :
          UL2!Inf!CountKeyMru(p, key, access_type, is_hit, is_mru)
             = Rows!CountKeyMru(p, key, access_type, is_hit, is_mru)
    /\ \A miss_hit, is_hit : UL2!Inf!Inc(miss_hit, is_hit) = Rows!Inc(miss_hit, is_hit)
    /\ \A ref_id : UL2!Inf!Epoch(ref_id) = Rows!Epoch(ref_id)
    /\ UL2!Inf!NewMissHit = Rows!NewMissHit /\ UL2!Inf!NewProfile = Rows!NewProfile
    /\ UL2!Inf!kLoad = Rows!kLoad /\ UL2!kLoad = Rows!kLoad
<1>1. ASSUME NEW p, NEW key, NEW access_type, NEW is_hit, NEW is_mru
      PROVE  UL2!Inf!CountKeyMru(p, key, access_type, is_hit, is_mru)
                = Rows!CountKeyMru(p, key, access_type, is_hit, is_mru)
  BY Zenon DEF
     UL2!Inf!CountKeyMru, Rows!CountKeyMru, UL2!Inf!CountRowMru,
     Rows!CountRowMru, UL2!Inf!CountRow, Rows!CountRow, UL2!Inf!Bump,
     Rows!Bump, UL2!Inf!MissHitId, Rows!MissHitId, UL2!Inf!MruId, Rows!MruId,
     UL2!Inf!B2I, Rows!B2I, UL2!Inf!RowOf, Rows!RowOf, UL2!Inf!MapKey,
     Rows!MapKey, UL2!Inf!IsMapped, Rows!IsMapped, UL2!Inf!NewRow,
     Rows!NewRow, UL2!Inf!CounterId, Rows!CounterId
<1>2. ASSUME NEW miss_hit, NEW is_hit
      PROVE  UL2!Inf!Inc(miss_hit, is_hit) = Rows!Inc(miss_hit, is_hit)
  BY Zenon DEF UL2!Inf!Inc, Rows!Inc, UL2!Inf!B2I, Rows!B2I
<1>3. /\ \A ref_id : UL2!Inf!Epoch(ref_id) = Rows!Epoch(ref_id)
      /\ UL2!Inf!NewMissHit = Rows!NewMissHit /\ UL2!Inf!NewProfile = Rows!NewProfile
      /\ UL2!Inf!kLoad = Rows!kLoad /\ UL2!kLoad = Rows!kLoad
  BY DEF
     UL2!Inf!Epoch, Rows!Epoch, UL2!Inf!NewMissHit, Rows!NewMissHit,
     UL2!Inf!NewProfile, Rows!NewProfile, UL2!Inf!NewRow, Rows!NewRow,
     UL2!Inf!CounterId, Rows!CounterId, UL2!Inf!kLoad, Rows!kLoad, UL2!kLoad
<1> QED BY <1>1, <1>2, <1>3

(* An access of the second level.                                          *)
LEMMA UL2CountsAccess ==
    ASSUME Alike(inf_ul2, sa_lru_ul2), NEW inst \in Nat, NEW addr \in Nat,
           NEW access_type \in Rows!kAccessTypes,
           UL2!Inf!Access(inst, addr, access_type), UL2!SaLru!AccessSingleLine(inst, addr, access_type)
    PROVE  BothCount(inf_ul2, sa_lru_ul2, inf_ul2', sa_lru_ul2',
                     inst, addr, access_type, FALSE, UL2!IsHit(addr))
<1> DEFINE tag == UL2!SaLru!TagOf(addr)
           set == sa_lru_ul2.sets_[UL2!SaLru!SetIndexOf(tag)]
           is_mru == UL2!SaLru!IsMru(set, tag)
           inf_tag == UL2!Inf!TagOf(addr)
           inf_hit == UL2!Inf!Find(inf_ul2.sets_[UL2!Inf!SetIndexOf(inf_tag)], inf_tag)
<1>1. UL2!IsHit(addr) = UL2!SaLru!IsHit(set, tag) /\ UL2!IsHit(addr) \in BOOLEAN
  BY DEF UL2!IsHit, UL2!TagOf, UL2!SetIndexOf, UL2!SaLru!TagOf, UL2!SaLru!SetIndexOf, UL2!SaLru!IsHit
<1>2. is_mru \in BOOLEAN /\ inf_hit \in BOOLEAN /\ FALSE \in BOOLEAN /\ TRUE \in BOOLEAN
  BY DEF UL2!SaLru!IsMru, UL2!Inf!Find
<1>3. Rows!PlainStep(sa_lru_ul2, sa_lru_ul2', inst, addr, access_type, FALSE,
                     UL2!SaLru!IsHit(set, tag), is_mru)
  BY SaLruUL2Counts DEF Rows!PlainStep, UL2!SaLru!AccessSingleLine, UL2!SaLru!Reference
<1>4. /\ IsInf(inf_ul2')
      /\ Rows!PlainStep(inf_ul2, inf_ul2', inst, addr, access_type, FALSE, inf_hit, FALSE)
  <2>1. IsInf(inf_ul2)
    BY DEF Alike
  <2> QED BY <2>1, InfUL2Counts
          DEF IsInf, Rows!PlainStep, UL2!Inf!Access, UL2!Inf!Reference
<1> HIDE DEF is_mru, inf_hit
<1>5. \E m \in BOOLEAN :
         Rows!PlainStep(sa_lru_ul2, sa_lru_ul2', inst, addr, access_type, FALSE,
                        UL2!IsHit(addr), m)
  BY <1>1, <1>2, <1>3
<1>6. \E h, m \in BOOLEAN :
         Rows!PlainStep(inf_ul2, inf_ul2', inst, addr, access_type, FALSE, h, m)
  BY <1>2, <1>4
<1>7. Rows!kLoad \in Rows!kAccessTypes
  BY DEF Rows!kAccessTypes
<1> QED BY <1>1, <1>2, <1>4, <1>5, <1>6, <1>7, PlainStepsCount

(* A fetch from the second level.                                          *)
LEMMA UL2CountsFetch ==
    ASSUME Alike(inf_ul2, sa_lru_ul2), NEW inst \in Nat,
           UL2!Inf!Fetch(inst), UL2!SaLru!FetchSingleLine(inst)
    PROVE  BothCount(inf_ul2, sa_lru_ul2, inf_ul2', sa_lru_ul2',
                     inst, inst, Rows!kLoad, TRUE, UL2!IsHit(inst))
<1> DEFINE tag == UL2!SaLru!TagOf(inst)
           set == sa_lru_ul2.sets_[UL2!SaLru!SetIndexOf(tag)]
           is_mru == UL2!SaLru!IsMru(set, tag)
           inf_tag == UL2!Inf!TagOf(inst)
           inf_hit == UL2!Inf!Find(inf_ul2.sets_[UL2!Inf!SetIndexOf(inf_tag)], inf_tag)
<1>1. UL2!IsHit(inst) = UL2!SaLru!IsHit(set, tag) /\ UL2!IsHit(inst) \in BOOLEAN
  BY DEF UL2!IsHit, UL2!TagOf, UL2!SetIndexOf, UL2!SaLru!TagOf, UL2!SaLru!SetIndexOf, UL2!SaLru!IsHit
<1>2. is_mru \in BOOLEAN /\ inf_hit \in BOOLEAN /\ FALSE \in BOOLEAN /\ TRUE \in BOOLEAN
  BY DEF UL2!SaLru!IsMru, UL2!Inf!Find
<1>3. Rows!PlainStep(sa_lru_ul2, sa_lru_ul2', inst, inst, Rows!kLoad, TRUE,
                     UL2!SaLru!IsHit(set, tag), is_mru)
  BY SaLruUL2Counts DEF Rows!PlainStep, UL2!SaLru!FetchSingleLine, UL2!SaLru!Reference
<1>4. /\ IsInf(inf_ul2')
      /\ Rows!PlainStep(inf_ul2, inf_ul2', inst, inst, Rows!kLoad, TRUE, inf_hit, FALSE)
  <2>1. IsInf(inf_ul2)
    BY DEF Alike
  <2> QED BY <2>1, InfUL2Counts
          DEF IsInf, Rows!PlainStep, UL2!Inf!Fetch, UL2!Inf!Reference
<1> HIDE DEF is_mru, inf_hit
<1>5. \E m \in BOOLEAN :
         Rows!PlainStep(sa_lru_ul2, sa_lru_ul2', inst, inst, Rows!kLoad, TRUE,
                        UL2!IsHit(inst), m)
  BY <1>1, <1>2, <1>3
<1>6. \E h, m \in BOOLEAN :
         Rows!PlainStep(inf_ul2, inf_ul2', inst, inst, Rows!kLoad, TRUE, h, m)
  BY <1>2, <1>4
<1>7. Rows!kLoad \in Rows!kAccessTypes
  BY DEF Rows!kAccessTypes
<1> QED BY <1>1, <1>2, <1>4, <1>5, <1>6, <1>7, PlainStepsCount

(* The two start alike, at the second level.                               *)
LEMMA UL2StartsAlike ==
    ASSUME UL2!Inf!Init, UL2!SaLru!Init
    PROVE  /\ Alike(inf_ul2, sa_lru_ul2) /\ Rows!PlainView(inf_ul2) = Rows!EmptyView
           /\ inf_ul2.ref_id_ = 0 /\ sa_lru_ul2.miss_hit_[1] = 0
<1>1. inf_ul2 = UL2!Inf!NewCache
  BY DEF UL2!Inf!Init
<1>2. PICK junk : sa_lru_ul2 = UL2!SaLru!NewCache(junk)
  BY DEF UL2!SaLru!Init
<1>3. IsInf(inf_ul2) /\ Rows!IsNewCache(inf_ul2)
  BY <1>1, InfUL2Counts DEF UL2!Inf!NewCache, IsInf, Rows!IsNewCache
<1>4. Rows!IsNewCache(sa_lru_ul2)
  BY <1>2, SaLruUL2Counts DEF UL2!SaLru!NewCache, Rows!IsNewCache
<1>5. /\ Rows!PlainInv(inf_ul2) /\ Rows!PlainView(inf_ul2) = Rows!EmptyView
      /\ Rows!PlainInv(sa_lru_ul2) /\ Rows!PlainView(sa_lru_ul2) = Rows!EmptyView
  BY <1>3, <1>4, RowSizes, Rows!NewCacheIsPlain
<1>6. inf_ul2.ref_id_ = 0 /\ sa_lru_ul2.miss_hit_[1] = 0
  BY <1>3, <1>4 DEF Rows!IsNewCache, Rows!NewMissHit
<1> QED BY <1>3, <1>5, <1>6 DEF Alike

-----------------------------------------------------------------------------
(* What the second level sees: a miss is one miss more, as long as the     *)
(* totals do not wrap around.                                              *)

(* A cache has no more misses than references.                             *)
LEMMA MissesBounded ==
    ASSUME NEW c, Rows!PlainInv(c)
    PROVE  c.miss_hit_[1] \in Nat /\ c.ref_id_ \in Nat /\ c.miss_hit_[1] <= c.ref_id_
<1> DEFINE p == c.of_inst_
           m == Rows!MissSum(p)
           n == Rows!SeenSum(p)
<1>1. /\ p \in Rows!ProfileType /\ Rows!Covered(p) /\ n = c.ref_id_
      /\ m % Uint32 = c.miss_hit_[1]
  BY DEF Rows!PlainInv, Rows!Tallied
<1>2. m \in Nat /\ n \in Nat /\ m <= n
  BY <1>1, RowSizes, Rows!SumsAreNumbers
<1> HIDE DEF m, n
<1>3. Uint32 \in Nat \ {0}
  BY RowSizes
<1>4. m % Uint32 \in Nat /\ m % Uint32 <= m
  BY <1>2, <1>3
<1> QED BY <1>1, <1>2, <1>4

(* The misses of a cache after one more reference.                         *)
LEMMA OneMissMore ==
    ASSUME MaxRefs < Uint32, NEW c, Rows!PlainInv(c), c.ref_id_ < MaxRefs,
           NEW is_hit \in BOOLEAN, NEW d, d.miss_hit_ = Rows!Inc(c.miss_hit_, is_hit)
    PROVE  /\ is_hit => d.miss_hit_[1] = c.miss_hit_[1]
           /\ ~is_hit => d.miss_hit_[1] = c.miss_hit_[1] + 1
<1> DEFINE m == c.miss_hit_[1]
<1>1. c.miss_hit_ \in (0 .. Uint32 - 1) \X (0 .. Uint32 - 1)
  BY DEF Rows!PlainInv
<1>2. c.miss_hit_ = <<c.miss_hit_[1], c.miss_hit_[2]>>
  BY <1>1
<1>3. CASE is_hit
  <2>1. Rows!B2I(is_hit) = 1
    BY <1>3 DEF Rows!B2I
  <2>2. d.miss_hit_ = [c.miss_hit_ EXCEPT ![2] = (c.miss_hit_[2] + 1) % Uint32]
    BY <2>1 DEF Rows!Inc
  <2>3. d.miss_hit_[1] = c.miss_hit_[1]
    BY <1>2, <2>2
  <2> QED BY <1>3, <2>3
<1>4. CASE ~is_hit
  <2>1. Rows!B2I(is_hit) = 0
    BY <1>4 DEF Rows!B2I
  <2>2. d.miss_hit_[1] = (m + 1) % Uint32
    BY <1>2, <2>1 DEF Rows!Inc
  <2>3. m \in Nat /\ c.ref_id_ \in Nat /\ m <= c.ref_id_
    BY MissesBounded
  <2> HIDE DEF m
  <2>4. (m + 1) % Uint32 = m + 1
    BY <2>3, Sizes
  <2> QED BY <1>4, <2>2, <2>4 DEF m
<1> QED BY <1>3, <1>4

-----------------------------------------------------------------------------
(* The report.                                                             *)

(* The three levels print in the same way.                                 *)
LEMMA SameOutput ==
    /\ \A ps : /\ DL1!PrintOutput(ps) = Rows!PrintOutput(ps)
               /\ IL1!PrintOutput(ps) = Rows!PrintOutput(ps)
               /\ UL2!PrintOutput(ps) = Rows!PrintOutput(ps)
    /\ \A row, name : DL1!Column(row, name) = Rows!Column(row, name)
    /\ DL1!kAccessTypes = Rows!kAccessTypes
<1>1. ASSUME NEW ps PROVE DL1!PrintOutput(ps) = Rows!PrintOutput(ps)
  BY Zenon DEF
     DL1!PrintOutput, Rows!PrintOutput, DL1!Keys, Rows!Keys, DL1!Row, Rows!Row,
     DL1!RowOf, Rows!RowOf, DL1!MissHitId, Rows!MissHitId, DL1!MruId, Rows!MruId,
     DL1!B2I, Rows!B2I, DL1!kAccessTypes, Rows!kAccessTypes, DL1!kLoad, Rows!kLoad,
     DL1!kStore, Rows!kStore
<1>2. ASSUME NEW ps PROVE IL1!PrintOutput(ps) = Rows!PrintOutput(ps)
  BY Zenon DEF
     IL1!PrintOutput, Rows!PrintOutput, IL1!Keys, Rows!Keys, IL1!Row, Rows!Row,
     IL1!RowOf, Rows!RowOf, IL1!MissHitId, Rows!MissHitId, IL1!MruId, Rows!MruId,
     IL1!B2I, Rows!B2I, IL1!kAccessTypes, Rows!kAccessTypes, IL1!kLoad, Rows!kLoad,
     IL1!kStore, Rows!kStore
<1>3. ASSUME NEW ps PROVE UL2!PrintOutput(ps) = Rows!PrintOutput(ps)
  BY Zenon DEF
     UL2!PrintOutput, Rows!PrintOutput, UL2!Keys, Rows!Keys, UL2!Row, Rows!Row,
     UL2!RowOf, Rows!RowOf, UL2!MissHitId, Rows!MissHitId, UL2!MruId, Rows!MruId,
     UL2!B2I, Rows!B2I, UL2!kAccessTypes, Rows!kAccessTypes, UL2!kLoad, Rows!kLoad,
     UL2!kStore, Rows!kStore
<1>4. ASSUME NEW row, NEW name PROVE DL1!Column(row, name) = Rows!Column(row, name)
  BY Zenon DEF DL1!Column, Rows!Column, DL1!Header, Rows!Header
<1>5. DL1!kAccessTypes = Rows!kAccessTypes
  BY DEF DL1!kAccessTypes, Rows!kAccessTypes, DL1!kLoad, Rows!kLoad, DL1!kStore, Rows!kStore
<1> QED BY <1>1, <1>2, <1>3, <1>4, <1>5

(* The total of a column is a sum over the cells that are printed.         *)
LEMMA TotalIs ==
    ASSUME NEW ps, Rows!SideBySide(ps), NEW name
    PROVE  LET cells == Rows!Cells(ps.inf.map)
           IN  \E u : /\ Rows!SumSteps(u, Rows!Printed(ps, name), cells)
                      /\ Total(Rows!PrintOutput(ps), name) = u[cells]
<1> DEFINE output == Rows!PrintOutput(ps)
           S == (DOMAIN output) \X DL1!kAccessTypes
           w == Rows!Printed(ps, name)
           cells == Rows!Cells(ps.inf.map)
           cell(k) == DL1!Column(output[k[1]][k[2]], name)
           P(u) == u = [T \in SUBSET S |->
                          IF T = {} THEN 0
                          ELSE cell(CHOOSE x \in T : TRUE) + u[T \ {CHOOSE x \in T : TRUE}]]
           iter == CHOOSE u : P(u)
<1>1. Total(output, name) = iter[S]
  BY Zenon DEF Total, MapThenSumSet, MapThenFoldSet
<1>2. S = cells
  <2>1. DOMAIN output = Rows!KeysOf(ps.inf.map)
    BY RowSizes, Rows!PrintedIs
  <2> QED BY <2>1, SameOutput DEF Rows!Cells
<1>3. \A k \in S : cell(k) = w[k]
  <2>1. \A k \in cells : w[k] = Rows!Column(output[k[1]][k[2]], name)
    BY DEF Rows!Printed
  <2> QED BY <1>2, <2>1, SameOutput
<1>4. ASSUME NEW u PROVE Rows!SumSteps(u, w, S) <=> P(u)
  <2> DEFINE f == [T \in SUBSET S |->
                     IF T = {} THEN 0
                     ELSE cell(CHOOSE x \in T : TRUE) + u[T \ {CHOOSE x \in T : TRUE}]]
             g == [T \in SUBSET S |->
                     IF T = {} THEN 0 ELSE w[Rows!Picked(T)] + u[T \ {Rows!Picked(T)}]]
  <2>1. ASSUME NEW T \in SUBSET S PROVE f[T] = g[T]
    <3>1. CASE T = {}
      BY <3>1
    <3>2. CASE T # {}
      <4> DEFINE x == CHOOSE y \in T : TRUE
      <4>1. x \in S
        BY <3>2
      <4>2. cell(x) = w[x]
        BY <1>3, <4>1
      <4>3. Rows!Picked(T) = x
        BY DEF Rows!Picked
      <4> HIDE DEF cell, w
      <4> QED BY <3>2, <4>2, <4>3
    <3> QED BY <3>1, <3>2
  <2>2. f = g
    <3>1. f = [T \in SUBSET S |-> f[T]] /\ g = [T \in SUBSET S |-> g[T]]
      OBVIOUS
    <3> HIDE DEF f, g
    <3> QED BY <2>1, <3>1
  <2> QED BY <2>2 DEF Rows!SumSteps
<1>5. P(iter)
  <2>1. Rows!IsFiniteSet(S)
    <3>1. ps.inf.map \in Seq(Nat)
      BY DEF Rows!SideBySide, Rows!ReadsAlike, Rows!ProfileType
    <3>2. Rows!IsFiniteSet(cells)
      BY <3>1, RowSizes, Rows!CellsFinite
    <3> QED BY <1>2, <3>2
  <2>2. PICK u : Rows!SumSteps(u, w, S)
    BY <2>1, RowSizes, Rows!SumDefined
  <2>3. P(u)
    BY <1>4, <2>2
  <2> HIDE DEF P
  <2> QED BY <2>3
<1>6. Rows!SumSteps(iter, w, S) /\ Total(output, name) = iter[S]
  BY <1>1, <1>4, <1>5
<1> HIDE DEF iter, S, w, output, cells, P
<1>7. Rows!SumSteps(iter, w, cells) /\ Total(output, name) = iter[cells]
  BY <1>2, <1>6
<1> QED BY <1>7 DEF w, output, cells

(* The rows of a report on four profiles that can be read side by side.    *)
LEMMA RowsAreConsistent ==
    ASSUME NEW ps, Rows!SideBySide(ps)
    PROVE  RowsConsistent(Rows!PrintOutput(ps))
<1> DEFINE output == Rows!PrintOutput(ps)
           map == ps.inf.map
<1>1. ASSUME NEW key \in DOMAIN output, NEW t \in Rows!kAccessTypes
      PROVE  LET row == output[key][t]
             IN  /\ \A name \in Names :
                       Rows!Column(row, name) \in 0 .. Rows!Column(row, "Reference")
                 /\ Rows!Column(row, "Hit")
                       = Rows!Column(row, "Hit-not-MRU") + Rows!Column(row, "Hit-MRU")
  <2>1. PICK i \in DOMAIN map : key = map[i]
    <3>1. key \in Rows!KeysOf(map)
      BY RowSizes, Rows!PrintedIs
    <3> QED BY <3>1 DEF Rows!KeysOf
  <2>2. output[key][t] = Rows!Row(ps, map[i], t)
    BY <2>1, RowSizes, Rows!PrintedIs
  <2> DEFINE row == output[key][t]
  <2>3. /\ Rows!Column(row, "Inf-miss") \in 0 .. Rows!Column(row, "Reference")
        /\ Rows!Column(row, "FA-OPT-miss") \in 0 .. Rows!Column(row, "Reference")
        /\ Rows!Column(row, "SA-OPT-miss") \in 0 .. Rows!Column(row, "Reference")
        /\ Rows!Column(row, "SA-LRU-miss") \in 0 .. Rows!Column(row, "Reference")
        /\ Rows!Column(row, "Hit")
              = Rows!Column(row, "Hit-not-MRU") + Rows!Column(row, "Hit-MRU")
    <3> HIDE DEF output
    <3> QED BY <2>2, RowSizes, Rows!RowBalances
  <2> HIDE DEF output
  <2> QED BY <2>3 DEF Names
<1> HIDE DEF output
<1> QED BY <1>1, SameOutput DEF RowsConsistent, output

(* A report is complete if the sums over its profiles are the totals.      *)
LEMMA OutputComplete ==
    ASSUME NEW ps, Rows!SideBySide(ps), NEW inf, NEW fa_opt, NEW sa_opt, NEW sa_lru,
           Rows!SeenSum(ps.inf) = inf.ref_id_, inf.ref_id_ < Uint32,
           Rows!MissSum(ps.inf) % Uint32 = inf.miss_hit_[1],
           Rows!MissSum(ps.fa_opt) % Uint32 = fa_opt.miss_hit_[1],
           Rows!MissSum(ps.sa_opt) % Uint32 = sa_opt.miss_hit_[1],
           Rows!MissSum(ps.sa_lru) % Uint32 = sa_lru.miss_hit_[1]
    PROVE  /\ RowsConsistent(Rows!PrintOutput(ps))
           /\ SumsToTotals(Rows!PrintOutput(ps), inf, fa_opt, sa_opt, sa_lru)
<1> DEFINE output == Rows!PrintOutput(ps)
<1>1. ASSUME NEW name
      PROVE  /\ name = "Reference" => Total(output, name) = Rows!SeenSum(ps.inf)
             /\ name = "Inf-miss" => Total(output, name) = Rows!MissSum(ps.inf) % Uint32
             /\ name = "FA-OPT-miss" => Total(output, name) = Rows!MissSum(ps.fa_opt) % Uint32
             /\ name = "SA-OPT-miss" => Total(output, name) = Rows!MissSum(ps.sa_opt) % Uint32
             /\ name = "SA-LRU-miss" => Total(output, name) = Rows!MissSum(ps.sa_lru) % Uint32
  <2>1. PICK u : /\ Rows!SumSteps(u, Rows!Printed(ps, name), Rows!Cells(ps.inf.map))
                 /\ Total(output, name) = u[Rows!Cells(ps.inf.map)]
    BY TotalIs
  <2>2. Rows!SeenSum(ps.inf) < Uint32
    OBVIOUS
  <2> HIDE DEF output
  <2> QED BY <2>1, <2>2, RowSizes, Rows!PrintedTotals
<1> HIDE DEF output
<1>2. SumsToTotals(output, inf, fa_opt, sa_opt, sa_lru)
  BY <1>1 DEF SumsToTotals
<1> QED BY <1>2, RowsAreConsistent DEF output

(* The four caches of a level when all references have been decided.       *)
AllAlike(inf, fa_opt, sa_opt, sa_lru) ==
    /\ Alike(inf, sa_lru)
    /\ Rows!Settled(fa_opt) /\ Rows!PlainView(fa_opt) = Rows!PlainView(inf)
    /\ Rows!Settled(sa_opt) /\ Rows!PlainView(sa_opt) = Rows!PlainView(inf)

InstOf(inf, fa_opt, sa_opt, sa_lru) ==
    [inf    |-> inf.of_inst_,    fa_opt |-> fa_opt.of_inst_,
     sa_opt |-> sa_opt.of_inst_, sa_lru |-> sa_lru.of_inst_]

TimeOf(inf, fa_opt, sa_opt, sa_lru) ==
    [inf    |-> inf.of_time_,    fa_opt |-> fa_opt.of_time_,
     sa_opt |-> sa_opt.of_time_, sa_lru |-> sa_lru.of_time_]

(* Their instruction and time reports are complete.                        *)
LEMMA LevelComplete ==
    ASSUME NEW inf, NEW fa_opt, NEW sa_opt, NEW sa_lru,
           AllAlike(inf, fa_opt, sa_opt, sa_lru), inf.ref_id_ < Uint32
    PROVE  \A ps \in {InstOf(inf, fa_opt, sa_opt, sa_lru), TimeOf(inf, fa_opt, sa_opt, sa_lru)} :
              /\ RowsConsistent(Rows!PrintOutput(ps))
              /\ SumsToTotals(Rows!PrintOutput(ps), inf, fa_opt, sa_opt, sa_lru)
<1> DEFINE inst == InstOf(inf, fa_opt, sa_opt, sa_lru)
           time == TimeOf(inf, fa_opt, sa_opt, sa_lru)
<1>1. /\ Rows!Tallied(inf.of_inst_, inf.miss_hit_[1], inf.ref_id_)
      /\ Rows!Tallied(inf.of_time_, inf.miss_hit_[1], inf.ref_id_)
      /\ Rows!Tallied(sa_lru.of_inst_, sa_lru.miss_hit_[1], sa_lru.ref_id_)
      /\ Rows!Tallied(sa_lru.of_time_, sa_lru.miss_hit_[1], sa_lru.ref_id_)
  BY DEF AllAlike, Alike, Rows!PlainInv
<1>2. ASSUME NEW c, Rows!PlainView(c) = Rows!PlainView(inf)
      PROVE  /\ c.of_inst_.map = inf.of_inst_.map
             /\ Rows!SeenRows(c.of_inst_) = Rows!SeenRows(inf.of_inst_)
             /\ c.of_time_.map = inf.of_time_.map
             /\ Rows!SeenRows(c.of_time_) = Rows!SeenRows(inf.of_time_)
  BY <1>2 DEF Rows!PlainView
<1>3. ASSUME NEW c, Rows!PlainView(c) = Rows!PlainView(inf),
             c.of_inst_ \in Rows!ProfileType, Rows!Covered(c.of_inst_),
             c.of_time_ \in Rows!ProfileType, Rows!Covered(c.of_time_)
      PROVE  /\ Rows!ReadsAlike(inf.of_inst_, c.of_inst_)
             /\ Rows!ReadsAlike(inf.of_time_, c.of_time_)
  BY <1>2, <1>3 DEF Rows!ReadsAlike
<1>4. Rows!ReadsAlike(inf.of_inst_, inf.of_inst_) /\ Rows!ReadsAlike(inf.of_time_, inf.of_time_)
  BY <1>1, <1>3 DEF Rows!Tallied
<1>5. /\ Rows!ReadsAlike(inf.of_inst_, sa_lru.of_inst_)
      /\ Rows!ReadsAlike(inf.of_time_, sa_lru.of_time_)
  BY <1>1, <1>3 DEF AllAlike, Alike, Rows!Tallied
<1>6. /\ Rows!ReadsAlike(inf.of_inst_, fa_opt.of_inst_)
      /\ Rows!ReadsAlike(inf.of_time_, fa_opt.of_time_)
  BY <1>3 DEF AllAlike, Rows!Settled
<1>7. /\ Rows!ReadsAlike(inf.of_inst_, sa_opt.of_inst_)
      /\ Rows!ReadsAlike(inf.of_time_, sa_opt.of_time_)
  BY <1>3 DEF AllAlike, Rows!Settled
<1>8. Rows!SideBySide(inst) /\ Rows!SideBySide(time)
  BY <1>1, <1>4, <1>5, <1>6, <1>7 DEF Rows!SideBySide, Rows!Tallied, InstOf, TimeOf
<1>9. /\ Rows!SeenSum(inst.inf) = inf.ref_id_
      /\ Rows!MissSum(inst.inf) % Uint32 = inf.miss_hit_[1]
      /\ Rows!MissSum(inst.fa_opt) % Uint32 = fa_opt.miss_hit_[1]
      /\ Rows!MissSum(inst.sa_opt) % Uint32 = sa_opt.miss_hit_[1]
      /\ Rows!MissSum(inst.sa_lru) % Uint32 = sa_lru.miss_hit_[1]
  BY <1>1 DEF AllAlike, Rows!Settled, Rows!Tallied, InstOf
<1>10. /\ Rows!SeenSum(time.inf) = inf.ref_id_
       /\ Rows!MissSum(time.inf) % Uint32 = inf.miss_hit_[1]
       /\ Rows!MissSum(time.fa_opt) % Uint32 = fa_opt.miss_hit_[1]
       /\ Rows!MissSum(time.sa_opt) % Uint32 = sa_opt.miss_hit_[1]
       /\ Rows!MissSum(time.sa_lru) % Uint32 = sa_lru.miss_hit_[1]
  BY <1>1 DEF AllAlike, Rows!Settled, Rows!Tallied, TimeOf
<1> HIDE DEF inst, time
<1>11. /\ RowsConsistent(Rows!PrintOutput(inst))
       /\ SumsToTotals(Rows!PrintOutput(inst), inf, fa_opt, sa_opt, sa_lru)
  BY <1>8, <1>9, OutputComplete
<1>12. /\ RowsConsistent(Rows!PrintOutput(time))
       /\ SumsToTotals(Rows!PrintOutput(time), inf, fa_opt, sa_opt, sa_lru)
  BY <1>8, <1>10, OutputComplete
<1> QED BY <1>11, <1>12 DEF inst, time

-----------------------------------------------------------------------------
(* What the hierarchy counts: the infinite and the real caches.            *)

(* The instruction being analysed, and what it may still do.               *)
CurrentType == [inst : Insts, calls : SUBSET DL1!kAccessTypes]

RealInv ==
    /\ Alike(inf_dl1, sa_lru_dl1) /\ Alike(inf_il1, sa_lru_il1) /\ Alike(inf_ul2, sa_lru_ul2)
    /\ inf_dl1.ref_id_ \in Nat /\ inf_il1.ref_id_ \in Nat /\ inf_ul2.ref_id_ \in Nat
    /\ inf_dl1.ref_id_ + inf_il1.ref_id_ <= MaxRefs
    /\ inf_ul2.ref_id_ <= inf_dl1.ref_id_ + inf_il1.ref_id_
    /\ current \in CurrentType

(* The second level has been sent the misses of the first two caches.      *)
Missed(simulated, lru) == IF simulated THEN lru.miss_hit_[1] ELSE 0

Filtered ==
    KnobUL2 => inf_ul2.ref_id_ = Missed(KnobDL1, sa_lru_dl1) + Missed(KnobIL1, sa_lru_il1)

(* Nothing has been counted when the program starts.                       *)
LEMMA RealInit ==
    ASSUME Init
    PROVE  RealInv /\ Filtered
<1>1. /\ Alike(inf_dl1, sa_lru_dl1) /\ inf_dl1.ref_id_ = 0 /\ sa_lru_dl1.miss_hit_[1] = 0
      /\ Alike(inf_il1, sa_lru_il1) /\ inf_il1.ref_id_ = 0 /\ sa_lru_il1.miss_hit_[1] = 0
      /\ Alike(inf_ul2, sa_lru_ul2) /\ inf_ul2.ref_id_ = 0
  BY DL1StartsAlike, IL1StartsAlike, UL2StartsAlike DEF Init, DL1!Init, IL1!Init, UL2!Init
<1>2. current \in CurrentType
  BY DEF Init, CurrentType
<1> QED BY <1>1, <1>2, Sizes DEF RealInv, Filtered, Missed

(* A reference to the first-level data cache, and what of it reaches the   *)
(* second level.                                                           *)
DL1Filters(is_hit) ==
    /\ Alike(inf_dl1', sa_lru_dl1') /\ Alike(inf_ul2', sa_lru_ul2')
    /\ inf_dl1'.ref_id_ = inf_dl1.ref_id_ + 1
    /\ sa_lru_dl1'.miss_hit_ = Rows!Inc(sa_lru_dl1.miss_hit_, is_hit)
    /\ inf_il1' = inf_il1 /\ sa_lru_il1' = sa_lru_il1
    /\ IF KnobUL2 /\ ~is_hit THEN inf_ul2'.ref_id_ = inf_ul2.ref_id_ + 1 ELSE inf_ul2' = inf_ul2

(* The second level keeps up with the misses of the data cache.            *)
LEMMA DL1FilterKeeps ==
    ASSUME RealInv, References < MaxRefs, KnobDL1, NEW is_hit \in BOOLEAN, DL1Filters(is_hit)
    PROVE  /\ current' \in CurrentType => RealInv'
           /\ MaxRefs < Uint32 /\ Filtered => Filtered'
<1> DEFINE n == inf_dl1.ref_id_
           k == inf_il1.ref_id_
           m == inf_ul2.ref_id_
           new_n == inf_dl1'.ref_id_
           new_k == inf_il1'.ref_id_
           new_m == inf_ul2'.ref_id_
           a == sa_lru_dl1.miss_hit_[1]
           b == sa_lru_dl1'.miss_hit_[1]
<1>1. /\ n \in Nat /\ k \in Nat /\ m \in Nat /\ n + k < MaxRefs /\ m <= n + k
      /\ new_n = n + 1 /\ new_k = k /\ MaxRefs \in Nat
      /\ new_m = IF KnobUL2 /\ ~is_hit THEN m + 1 ELSE m
  BY Sizes DEF RealInv, References, DL1Filters
<1>2. ASSUME current' \in CurrentType PROVE RealInv'
  <2>1. Alike(inf_il1', sa_lru_il1') /\ Alike(inf_dl1', sa_lru_dl1') /\ Alike(inf_ul2', sa_lru_ul2')
    BY DEF RealInv, DL1Filters
  <2> HIDE DEF n, k, m, new_n, new_k, new_m
  <2>2. /\ new_n \in Nat /\ new_k \in Nat /\ new_m \in Nat
        /\ new_n + new_k <= MaxRefs /\ new_k + new_n <= MaxRefs
        /\ new_m <= new_n + new_k /\ new_m <= new_k + new_n
    BY <1>1
  <2> QED BY <1>2, <2>1, <2>2 DEF RealInv, new_n, new_k, new_m
<1>3. ASSUME MaxRefs < Uint32, Filtered, KnobUL2
      PROVE  inf_ul2'.ref_id_ = Missed(KnobDL1, sa_lru_dl1') + Missed(KnobIL1, sa_lru_il1')
  <2> DEFINE o == Missed(KnobIL1, sa_lru_il1)
  <2>1. Rows!PlainInv(sa_lru_dl1) /\ sa_lru_dl1.ref_id_ = n
    BY DEF RealInv, Alike, Rows!PlainView
  <2>2. /\ is_hit => b = a
        /\ ~is_hit => b = a + 1
        /\ a \in Nat
    <3>1. sa_lru_dl1.ref_id_ < MaxRefs
      BY <1>1, <2>1
    <3>2. sa_lru_dl1'.miss_hit_ = Rows!Inc(sa_lru_dl1.miss_hit_, is_hit)
      BY DEF DL1Filters
    <3> QED BY <1>3, <2>1, <3>1, <3>2, OneMissMore, MissesBounded
  <2>3. o \in Nat
    <3>1. Rows!PlainInv(sa_lru_il1)
      BY DEF RealInv, Alike
    <3> QED BY <3>1, MissesBounded DEF Missed
  <2>4. /\ Missed(KnobDL1, sa_lru_dl1) = a /\ Missed(KnobDL1, sa_lru_dl1') = b
        /\ Missed(KnobIL1, sa_lru_il1') = o
    BY DEF Missed, DL1Filters
  <2>5. m = Missed(KnobDL1, sa_lru_dl1) + Missed(KnobIL1, sa_lru_il1)
    BY <1>3 DEF Filtered
  <2> HIDE DEF n, k, m, new_n, new_k, new_m, a, b, o
  <2>6. m = a + o
    BY <2>2, <2>3, <2>4, <2>5 DEF o
  <2>7. new_m = b + o /\ b + o = o + b
    BY <1>1, <1>3, <2>2, <2>3, <2>6
  <2> QED BY <2>4, <2>7 DEF new_m, o
<1> QED BY <1>2, <1>3 DEF Filtered

(* A reference to the first-level instruction cache, and what of it        *)
(* reaches the second level.                                               *)
IL1Filters(is_hit) ==
    /\ Alike(inf_il1', sa_lru_il1') /\ Alike(inf_ul2', sa_lru_ul2')
    /\ inf_il1'.ref_id_ = inf_il1.ref_id_ + 1
    /\ sa_lru_il1'.miss_hit_ = Rows!Inc(sa_lru_il1.miss_hit_, is_hit)
    /\ inf_dl1' = inf_dl1 /\ sa_lru_dl1' = sa_lru_dl1
    /\ IF KnobUL2 /\ ~is_hit THEN inf_ul2'.ref_id_ = inf_ul2.ref_id_ + 1 ELSE inf_ul2' = inf_ul2

(* The same for the instruction cache.                                     *)
LEMMA IL1FilterKeeps ==
    ASSUME RealInv, References < MaxRefs, KnobIL1, NEW is_hit \in BOOLEAN, IL1Filters(is_hit)
    PROVE  /\ current' \in CurrentType => RealInv'
           /\ MaxRefs < Uint32 /\ Filtered => Filtered'
<1> DEFINE n == inf_il1.ref_id_
           k == inf_dl1.ref_id_
           m == inf_ul2.ref_id_
           new_n == inf_il1'.ref_id_
           new_k == inf_dl1'.ref_id_
           new_m == inf_ul2'.ref_id_
           a == sa_lru_il1.miss_hit_[1]
           b == sa_lru_il1'.miss_hit_[1]
<1>1. /\ n \in Nat /\ k \in Nat /\ m \in Nat /\ n + k < MaxRefs /\ m <= n + k
      /\ new_n = n + 1 /\ new_k = k /\ MaxRefs \in Nat
      /\ new_m = IF KnobUL2 /\ ~is_hit THEN m + 1 ELSE m
  BY Sizes DEF RealInv, References, IL1Filters
<1>2. ASSUME current' \in CurrentType PROVE RealInv'
  <2>1. Alike(inf_dl1', sa_lru_dl1') /\ Alike(inf_il1', sa_lru_il1') /\ Alike(inf_ul2', sa_lru_ul2')
    BY DEF RealInv, IL1Filters
  <2> HIDE DEF n, k, m, new_n, new_k, new_m
  <2>2. /\ new_n \in Nat /\ new_k \in Nat /\ new_m \in Nat
        /\ new_n + new_k <= MaxRefs /\ new_k + new_n <= MaxRefs
        /\ new_m <= new_n + new_k /\ new_m <= new_k + new_n
    BY <1>1
  <2> QED BY <1>2, <2>1, <2>2 DEF RealInv, new_n, new_k, new_m
<1>3. ASSUME MaxRefs < Uint32, Filtered, KnobUL2
      PROVE  inf_ul2'.ref_id_ = Missed(KnobDL1, sa_lru_dl1') + Missed(KnobIL1, sa_lru_il1')
  <2> DEFINE o == Missed(KnobDL1, sa_lru_dl1)
  <2>1. Rows!PlainInv(sa_lru_il1) /\ sa_lru_il1.ref_id_ = n
    BY DEF RealInv, Alike, Rows!PlainView
  <2>2. /\ is_hit => b = a
        /\ ~is_hit => b = a + 1
        /\ a \in Nat
    <3>1. sa_lru_il1.ref_id_ < MaxRefs
      BY <1>1, <2>1
    <3>2. sa_lru_il1'.miss_hit_ = Rows!Inc(sa_lru_il1.miss_hit_, is_hit)
      BY DEF IL1Filters
    <3> QED BY <1>3, <2>1, <3>1, <3>2, OneMissMore, MissesBounded
  <2>3. o \in Nat
    <3>1. Rows!PlainInv(sa_lru_dl1)
      BY DEF RealInv, Alike
    <3> QED BY <3>1, MissesBounded DEF Missed
  <2>4. /\ Missed(KnobIL1, sa_lru_il1) = a /\ Missed(KnobIL1, sa_lru_il1') = b
        /\ Missed(KnobDL1, sa_lru_dl1') = o
    BY DEF Missed, IL1Filters
  <2>5. m = Missed(KnobDL1, sa_lru_dl1) + Missed(KnobIL1, sa_lru_il1)
    BY <1>3 DEF Filtered
  <2> HIDE DEF n, k, m, new_n, new_k, new_m, a, b, o
  <2>6. m = a + o
    BY <2>2, <2>3, <2>4, <2>5 DEF o
  <2>7. new_m = b + o /\ b + o = o + b
    BY <1>1, <1>3, <2>2, <2>3, <2>6
  <2> QED BY <2>4, <2>7 DEF new_m, o
<1> QED BY <1>2, <1>3 DEF Filtered

(* A step in which nothing is counted.                                     *)
LEMMA NothingCounted ==
    ASSUME RealInv, current' \in CurrentType,
           inf_dl1' = inf_dl1, sa_lru_dl1' = sa_lru_dl1, inf_il1' = inf_il1,
           sa_lru_il1' = sa_lru_il1, inf_ul2' = inf_ul2, sa_lru_ul2' = sa_lru_ul2
    PROVE  RealInv' /\ (Filtered => Filtered')
BY DEF RealInv, Filtered, Missed

(* A load or a store, and a fetch.                                         *)
LEMMA DataAccessCounts ==
    ASSUME RealInv, References < MaxRefs, current' \in CurrentType, NEW addr \in Addrs,
           NEW access_type \in Rows!kAccessTypes, DataAccess(current.inst, addr, access_type)
    PROVE  RealInv' /\ (MaxRefs < Uint32 /\ Filtered => Filtered')
<1> DEFINE inst == current.inst
<1>1. CASE KnobDL1
  <2>1. inst \in Nat /\ addr \in Nat
    BY Sizes DEF RealInv, CurrentType
  <2>2. PICK is_hit \in BOOLEAN : is_hit = DL1!IsHit(addr)
    <3>1. DL1!IsHit(addr) \in BOOLEAN
      BY DEF DL1!IsHit, DL1!TagOf, DL1!SetIndexOf, DL1!SaLru!IsHit
    <3> QED BY Zenon, <3>1
  <2>3. DL1!Access(inst, addr, access_type)
    BY <1>1 DEF DataAccess
  <2>4. BothCount(inf_dl1, sa_lru_dl1, inf_dl1', sa_lru_dl1',
                  inst, addr, access_type, FALSE, is_hit)
    <3>1. DL1!Inf!Access(inst, addr, access_type) /\ DL1!SaLru!AccessSingleLine(inst, addr, access_type)
      BY <2>3 DEF DL1!Access
    <3> QED BY <2>1, <2>2, <3>1, DL1CountsAccess DEF RealInv
  <2>5. ASSUME KnobUL2 /\ ~is_hit PROVE DL1Filters(is_hit)
    <3>1. UL2!Access(inst, addr, access_type)
      BY <1>1, <2>5, <2>2 DEF DataAccess
    <3>2. UL2!Inf!Access(inst, addr, access_type) /\ UL2!SaLru!AccessSingleLine(inst, addr, access_type)
      BY <3>1 DEF UL2!Access
    <3>3. BothCount(inf_ul2, sa_lru_ul2, inf_ul2', sa_lru_ul2',
                    inst, addr, access_type, FALSE, UL2!IsHit(addr))
      BY <2>1, <3>2, UL2CountsAccess DEF RealInv
    <3>4. inf_il1' = inf_il1 /\ sa_lru_il1' = sa_lru_il1
      BY DEF DataAccess, il1
    <3> QED BY <2>4, <2>5, <3>3, <3>4 DEF DL1Filters, BothCount
  <2>6. ASSUME ~(KnobUL2 /\ ~is_hit) PROVE DL1Filters(is_hit)
    <3>1. /\ inf_ul2' = inf_ul2 /\ sa_lru_ul2' = sa_lru_ul2
          /\ inf_il1' = inf_il1 /\ sa_lru_il1' = sa_lru_il1
      BY <2>6, <2>2 DEF DataAccess, ul2, il1
    <3> QED BY <2>4, <2>6, <3>1 DEF DL1Filters, BothCount, RealInv
  <2>7. DL1Filters(is_hit)
    BY <2>5, <2>6
  <2> QED BY <1>1, <2>1, <2>7, DL1FilterKeeps
<1>2. CASE ~KnobDL1
  <2>1. /\ inf_dl1' = inf_dl1 /\ sa_lru_dl1' = sa_lru_dl1
        /\ inf_il1' = inf_il1 /\ sa_lru_il1' = sa_lru_il1
        /\ inf_ul2' = inf_ul2 /\ sa_lru_ul2' = sa_lru_ul2
    BY <1>2 DEF DataAccess, dl1, il1, ul2
  <2> QED BY <2>1, NothingCounted
<1> QED BY <1>1, <1>2

(* A fetch counts one reference, and keeps the levels in step.             *)
LEMMA FetchCounts ==
    ASSUME RealInv, References < MaxRefs, current' \in CurrentType, NEW inst \in Insts,
           FetchInst(inst)
    PROVE  RealInv' /\ (MaxRefs < Uint32 /\ Filtered => Filtered')
<1>1. CASE KnobIL1
  <2>1. inst \in Nat
    BY Sizes
  <2>2. PICK is_hit \in BOOLEAN : is_hit = IL1!IsHit(inst)
    <3>1. IL1!IsHit(inst) \in BOOLEAN
      BY DEF IL1!IsHit, IL1!TagOf, IL1!SetIndexOf, IL1!SaLru!IsHit
    <3> QED BY Zenon, <3>1
  <2>3. IL1!Fetch(inst)
    BY <1>1 DEF FetchInst
  <2>4. BothCount(inf_il1, sa_lru_il1, inf_il1', sa_lru_il1',
                  inst, inst, Rows!kLoad, TRUE, is_hit)
    <3>1. IL1!Inf!Fetch(inst) /\ IL1!SaLru!FetchSingleLine(inst)
      BY <2>3 DEF IL1!Fetch
    <3> QED BY <2>1, <2>2, <3>1, IL1CountsFetch DEF RealInv
  <2>5. ASSUME KnobUL2 /\ ~is_hit PROVE IL1Filters(is_hit)
    <3>1. UL2!Fetch(inst)
      BY <1>1, <2>5, <2>2 DEF FetchInst
    <3>2. UL2!Inf!Fetch(inst) /\ UL2!SaLru!FetchSingleLine(inst)
      BY <3>1 DEF UL2!Fetch
    <3>3. BothCount(inf_ul2, sa_lru_ul2, inf_ul2', sa_lru_ul2',
                    inst, inst, Rows!kLoad, TRUE, UL2!IsHit(inst))
      BY <2>1, <3>2, UL2CountsFetch DEF RealInv
    <3>4. inf_dl1' = inf_dl1 /\ sa_lru_dl1' = sa_lru_dl1
      BY DEF FetchInst, dl1
    <3> QED BY <2>4, <2>5, <3>3, <3>4 DEF IL1Filters, BothCount
  <2>6. ASSUME ~(KnobUL2 /\ ~is_hit) PROVE IL1Filters(is_hit)
    <3>1. /\ inf_ul2' = inf_ul2 /\ sa_lru_ul2' = sa_lru_ul2
          /\ inf_dl1' = inf_dl1 /\ sa_lru_dl1' = sa_lru_dl1
      BY <2>6, <2>2 DEF FetchInst, ul2, dl1
    <3> QED BY <2>4, <2>6, <3>1 DEF IL1Filters, BothCount, RealInv
  <2>7. IL1Filters(is_hit)
    BY <2>5, <2>6
  <2> QED BY <1>1, <2>1, <2>7, IL1FilterKeeps
<1>2. CASE ~KnobIL1
  <2>1. /\ inf_dl1' = inf_dl1 /\ sa_lru_dl1' = sa_lru_dl1
        /\ inf_il1' = inf_il1 /\ sa_lru_il1' = sa_lru_il1
        /\ inf_ul2' = inf_ul2 /\ sa_lru_ul2' = sa_lru_ul2
    BY <1>2 DEF FetchInst, dl1, il1, ul2
  <2> QED BY <2>1, NothingCounted
<1> QED BY <1>1, <1>2

(* Every step of the program.                                              *)
LEMMA RealNext ==
    ASSUME RealInv, [Next]_vars
    PROVE  RealInv' /\ (MaxRefs < Uint32 /\ Filtered => Filtered')
<1>1. DL1!kLoad \in Rows!kAccessTypes /\ DL1!kStore \in Rows!kAccessTypes
  BY SameOutput DEF DL1!kAccessTypes
<1>2. CASE Fetch
  <2>1. PICK inst \in Insts : FetchInst(inst) /\ current' = [inst |-> inst, calls |-> {DL1!kLoad, DL1!kStore}]
    BY <1>2 DEF Fetch
  <2>2. current' \in CurrentType /\ References < MaxRefs
    BY <1>2, <2>1 DEF CurrentType, DL1!kAccessTypes, Fetch, Running
  <2> QED BY <2>1, <2>2, FetchCounts
<1>3. CASE Load
  <2>1. PICK addr \in Addrs : DataAccess(current.inst, addr, DL1!kLoad)
    BY <1>3 DEF Load
  <2>2. current' \in CurrentType /\ References < MaxRefs
    BY <1>3 DEF RealInv, CurrentType, DL1!kAccessTypes, Load, Running
  <2> QED BY <1>1, <2>1, <2>2, DataAccessCounts
<1>4. CASE Store
  <2>1. PICK addr \in Addrs : DataAccess(current.inst, addr, DL1!kStore)
    BY <1>4 DEF Store
  <2>2. current' \in CurrentType /\ References < MaxRefs
    BY <1>4 DEF RealInv, CurrentType, DL1!kAccessTypes, Store, Running
  <2> QED BY <1>1, <2>1, <2>2, DataAccessCounts
<1>5. CASE Fini
  <2>1. /\ inf_dl1' = inf_dl1 /\ sa_lru_dl1' = sa_lru_dl1
        /\ inf_il1' = inf_il1 /\ sa_lru_il1' = sa_lru_il1
        /\ inf_ul2' = inf_ul2 /\ sa_lru_ul2' = sa_lru_ul2
    BY <1>5 DEF Fini, dl1, il1, ul2, DL1!ProcessAllSets, IL1!ProcessAllSets, UL2!ProcessAllSets
  <2>2. current' \in CurrentType
    BY <1>5 DEF Fini, RealInv
  <2> QED BY <2>1, <2>2, NothingCounted
<1>6. CASE UNCHANGED vars
  <2>1. /\ inf_dl1' = inf_dl1 /\ sa_lru_dl1' = sa_lru_dl1
        /\ inf_il1' = inf_il1 /\ sa_lru_il1' = sa_lru_il1
        /\ inf_ul2' = inf_ul2 /\ sa_lru_ul2' = sa_lru_ul2
        /\ current' = current
    BY <1>6 DEF vars, dl1, il1, ul2
  <2>2. current' \in CurrentType
    BY <2>1 DEF RealInv
  <2> QED BY <2>1, <2>2, NothingCounted
<1> QED BY <1>2, <1>3, <1>4, <1>5, <1>6 DEF Next

(* What a step of the program is for the first-level data cache.           *)
DL1Step ==
    \/ UNCHANGED dl1 /\ (finished' = finished \/ ~KnobDL1)
    \/ /\ KnobDL1 /\ ~finished /\ ~finished' /\ inf_dl1.ref_id_ < MaxRefs
       /\ \E inst \in Insts, addr \in Addrs, access_type \in Rows!kAccessTypes :
             DL1!Access(inst, addr, access_type)
    \/ KnobDL1 /\ ~finished /\ finished' /\ DL1!ProcessAllSets

(* What a step of the program is for the first-level instruction cache.    *)
IL1Step ==
    \/ UNCHANGED il1 /\ (finished' = finished \/ ~KnobIL1)
    \/ /\ KnobIL1 /\ ~finished /\ ~finished' /\ inf_il1.ref_id_ < MaxRefs
       /\ \E inst \in Insts : IL1!Fetch(inst)
    \/ KnobIL1 /\ ~finished /\ finished' /\ IL1!ProcessAllSets

(* What a step of the program is for the second level.                     *)
UL2Step ==
    \/ UNCHANGED ul2 /\ (finished' = finished \/ ~KnobUL2)
    \/ /\ KnobUL2 /\ ~finished /\ ~finished' /\ inf_ul2.ref_id_ < MaxRefs
       /\ \/ \E inst \in Insts, addr \in Addrs, access_type \in Rows!kAccessTypes :
                UL2!Access(inst, addr, access_type)
          \/ \E inst \in Insts : UL2!Fetch(inst)
    \/ KnobUL2 /\ ~finished /\ finished' /\ UL2!ProcessAllSets

(* What a step of the hierarchy is to each of its levels.                  *)
LEMMA LevelSteps ==
    ASSUME RealInv, [Next]_vars
    PROVE  DL1Step /\ IL1Step /\ UL2Step
<1>1. DL1!kLoad \in Rows!kAccessTypes /\ DL1!kStore \in Rows!kAccessTypes
  BY SameOutput DEF DL1!kAccessTypes
<1>2. ASSUME References < MaxRefs
      PROVE  inf_dl1.ref_id_ < MaxRefs /\ inf_il1.ref_id_ < MaxRefs /\ inf_ul2.ref_id_ < MaxRefs
  BY <1>2, Sizes DEF RealInv, References
<1>3. current.inst \in Insts
  BY DEF RealInv, CurrentType
<1>4. CASE Fetch
  <2>1. PICK inst \in Insts : FetchInst(inst)
    BY <1>4 DEF Fetch
  <2>2. References < MaxRefs /\ ~finished /\ finished' = finished
    BY <1>4 DEF Fetch, Running
  <2> QED BY <1>2, <2>1, <2>2 DEF FetchInst, DL1Step, IL1Step, UL2Step
<1>5. ASSUME NEW addr \in Addrs, NEW access_type \in Rows!kAccessTypes,
             DataAccess(current.inst, addr, access_type), References < MaxRefs,
             ~finished, finished' = finished
      PROVE  DL1Step /\ IL1Step /\ UL2Step
  <2>1. DL1Step /\ IL1Step
    BY <1>2, <1>3, <1>5 DEF DataAccess, DL1Step, IL1Step
  <2>2. UL2Step
    BY <1>2, <1>3, <1>5 DEF DataAccess, UL2Step
  <2> QED BY <2>1, <2>2
<1>6. CASE Load
  <2>1. PICK addr \in Addrs : DataAccess(current.inst, addr, DL1!kLoad)
    BY <1>6 DEF Load
  <2>2. References < MaxRefs /\ ~finished /\ finished' = finished
    BY <1>6 DEF Load, Running
  <2> QED BY <1>1, <1>5, <2>1, <2>2
<1>7. CASE Store
  <2>1. PICK addr \in Addrs : DataAccess(current.inst, addr, DL1!kStore)
    BY <1>7 DEF Store
  <2>2. References < MaxRefs /\ ~finished /\ finished' = finished
    BY <1>7 DEF Store, Running
  <2> QED BY <1>1, <1>5, <2>1, <2>2
<1>8. CASE Fini
  BY <1>8 DEF Fini, DL1Step, IL1Step, UL2Step
<1>9. CASE UNCHANGED vars
  BY <1>9 DEF vars, DL1Step, IL1Step, UL2Step
<1> QED BY <1>4, <1>6, <1>7, <1>8, <1>9 DEF Next

(* What Fini prints of the first-level data cache is complete.             *)
DL1Printed ==
    \A output \in {DL1!ReportRest.inst, DL1!ReportRest.time} :
       /\ RowsConsistent(output)
       /\ SumsToTotals(output, inf_dl1', fa_opt_dl1', sa_opt_dl1', sa_lru_dl1')

(* What Fini prints of the first-level instruction cache is complete.      *)
IL1Printed ==
    \A output \in {IL1!ReportRest.inst, IL1!ReportRest.time} :
       /\ RowsConsistent(output)
       /\ SumsToTotals(output, inf_il1', fa_opt_il1', sa_opt_il1', sa_lru_il1')

(* What Fini prints of the second level is complete.                       *)
UL2Printed ==
    \A output \in {UL2!ReportRest.inst, UL2!ReportRest.time} :
       /\ RowsConsistent(output)
       /\ SumsToTotals(output, inf_ul2', fa_opt_ul2', sa_opt_ul2', sa_lru_ul2')

(* A report is complete if Fini prints all of each simulated level.        *)
LEMMA ReportStep ==
    ASSUME ReportsComplete, [Next]_vars, Fini => DL1Printed /\ IL1Printed /\ UL2Printed
    PROVE  ReportsComplete'
<1>1. CASE Fini
  <2>1. /\ report'.dl1 = DL1!ReportRest /\ report'.il1 = IL1!ReportRest
        /\ report'.ul2 = UL2!ReportRest
    BY <1>1 DEF Fini
  <2> QED BY <1>1, <2>1 DEF DL1Printed, IL1Printed, UL2Printed, ReportsComplete
<1>2. CASE Fetch \/ Load \/ Store
  <2>1. ~finished'
    BY <1>2 DEF Fetch, Load, Store, Running
  <2> QED BY <2>1 DEF ReportsComplete
<1>3. CASE UNCHANGED vars
  BY <1>3 DEF vars, dl1, il1, ul2, ReportsComplete
<1> QED BY <1>1, <1>2, <1>3 DEF Next

-----------------------------------------------------------------------------
(* The two optimal caches of the second level.                             *)

FaUL2 == INSTANCE OptimalCacheProofs WITH
    cache <- fa_opt_ul2, NumWays <- UL2NumSets * UL2NumWays, NumSets <- 1,
    Knobs <- {<<KnobLookaheadDistance, KnobProcessWindow>>}, cost <- 0, used <- 0
SaUL2 == INSTANCE OptimalCacheProofs WITH
    cache <- sa_opt_ul2, NumWays <- UL2NumWays, NumSets <- UL2NumSets,
    Knobs <- {<<KnobLookaheadDistance, KnobProcessWindow>>}, cost <- 0, used <- 0

(* What the proofs about them assume.                                      *)
LEMMA UL2Geometry ==
    /\ 1 \in Nat \ {0} /\ LineSize \in Nat \ {0} /\ Kilo \in Nat \ {0}
    /\ InitialRows \in Nat \ {0} /\ Uint32 \in Nat \ {0}
    /\ UL2NumSets \in Nat \ {0} /\ UL2NumWays \in Nat \ {0} /\ UL2NumSets * UL2NumWays \in Nat \ {0}
    /\ {<<KnobLookaheadDistance, KnobProcessWindow>>} \subseteq Nat \X Nat
    /\ MaxRefs \in Nat /\ KMax \in Nat /\ KMax > 2 * MaxRefs
    /\ Addrs \subseteq Nat /\ Insts \subseteq Nat
    /\ FaUL2!IsPower2(LineSize) /\ FaUL2!IsPower2(1)
    /\ SaUL2!IsPower2(LineSize) /\ SaUL2!IsPower2(UL2NumSets)
<1>1. 2^0 = 1
  OBVIOUS
<1>2. FaUL2!IsPower2(1)
  BY <1>1 DEF FaUL2!IsPower2
<1>3. FaUL2!IsPower2(LineSize) /\ SaUL2!IsPower2(LineSize) /\ SaUL2!IsPower2(UL2NumSets)
  BY SimulatorAssumption DEF DL1!IsPower2, FaUL2!IsPower2, SaUL2!IsPower2
<1> QED BY <1>2, <1>3, Sizes

(* The operations of the fully associative cache of the module are those   *)
(* the proofs are about.                                                   *)
LEMMA FaUL2Is ==
    /\ \A inst, addr, access_type :
          FaUL2!Access(inst, addr, access_type) = UL2!FaOpt!Access(inst, addr, access_type)
    /\ \A inst : FaUL2!Fetch(inst) = UL2!FaOpt!Fetch(inst)
    /\ FaUL2!ProcessAllSets = UL2!FaOpt!ProcessAllSets
    /\ \A ld, pw : FaUL2!NewCache(ld, pw) = UL2!FaOpt!NewCache(ld, pw)
<1>1. ASSUME NEW c, NEW s
      PROVE  FaUL2!ProcessOne(c, s) = UL2!FaOpt!ProcessOne(c, s)
  BY Zenon DEF
     FaUL2!ProcessOne, UL2!FaOpt!ProcessOne, FaUL2!IsHit, UL2!FaOpt!IsHit,
     FaUL2!CountRow, UL2!FaOpt!CountRow, FaUL2!Bump, UL2!FaOpt!Bump,
     FaUL2!MissHitId, UL2!FaOpt!MissHitId, FaUL2!B2I, UL2!FaOpt!B2I,
     FaUL2!Inc, UL2!FaOpt!Inc, FaUL2!ClearPool, UL2!FaOpt!ClearPool,
     FaUL2!EmptyStack, UL2!FaOpt!EmptyStack, FaUL2!Decide, UL2!FaOpt!Decide,
     FaUL2!Size, UL2!FaOpt!Size, FaUL2!Cardinality, UL2!FaOpt!Cardinality,
     FaUL2!Keep, UL2!FaOpt!Keep, FaUL2!Insert, UL2!FaOpt!Insert,
     FaUL2!IsKnown, UL2!FaOpt!IsKnown, FaUL2!Put, UL2!FaOpt!Put, FaUL2!Drop,
     UL2!FaOpt!Drop, FaUL2!ReplaceKnown, UL2!FaOpt!ReplaceKnown, FaUL2!Lowest,
     UL2!FaOpt!Lowest, FaUL2!ReplaceUnknown, UL2!FaOpt!ReplaceUnknown,
     FaUL2!Bypass, UL2!FaOpt!Bypass
<1>2. ASSUME NEW c, NEW s, NEW n
      PROVE  FaUL2!Process(c, s, n) = UL2!FaOpt!Process(c, s, n)
  BY Zenon, <1>1 DEF FaUL2!Process, UL2!FaOpt!Process
<1>3. ASSUME NEW set, NEW tag, NEW inst_id, NEW addr_id, NEW access_type, NEW epoch
      PROVE  FaUL2!Lookahead(set, tag, inst_id, addr_id, access_type, epoch)
               = UL2!FaOpt!Lookahead(set, tag, inst_id, addr_id, access_type, epoch)
  BY Zenon DEF
     FaUL2!Lookahead, UL2!FaOpt!Lookahead, FaUL2!Learn, UL2!FaOpt!Learn,
     FaUL2!Waiting, UL2!FaOpt!Waiting, FaUL2!IsKnown, UL2!FaOpt!IsKnown,
     FaUL2!ResolveNextUse, UL2!FaOpt!ResolveNextUse, FaUL2!Min, UL2!FaOpt!Min,
     FaUL2!BecomeKnown, UL2!FaOpt!BecomeKnown, FaUL2!Put, UL2!FaOpt!Put,
     FaUL2!Drop, UL2!FaOpt!Drop, FaUL2!Repairable, UL2!FaOpt!Repairable,
     FaUL2!Repair, UL2!FaOpt!Repair, FaUL2!Lowest, UL2!FaOpt!Lowest
<1>4. ASSUME NEW inst, NEW addr, NEW access_type
      PROVE  /\ FaUL2!Access(inst, addr, access_type)
               = UL2!FaOpt!Access(inst, addr, access_type)
             /\ FaUL2!Fetch(inst) = UL2!FaOpt!Fetch(inst)
  BY Zenon, <1>2, <1>3 DEF
     FaUL2!Access, UL2!FaOpt!Access, FaUL2!Fetch, UL2!FaOpt!Fetch, FaUL2!kLoad,
     UL2!FaOpt!kLoad, FaUL2!Enter, UL2!FaOpt!Enter, FaUL2!TagOf,
     UL2!FaOpt!TagOf, FaUL2!SetIndexOf, UL2!FaOpt!SetIndexOf, FaUL2!Epoch,
     UL2!FaOpt!Epoch, FaUL2!Horizon, UL2!FaOpt!Horizon, FaUL2!MapKey,
     UL2!FaOpt!MapKey, FaUL2!IsMapped, UL2!FaOpt!IsMapped, FaUL2!NewRow,
     UL2!FaOpt!NewRow, FaUL2!CounterId, UL2!FaOpt!CounterId, FaUL2!RowOf,
     UL2!FaOpt!RowOf
<1>5. ASSUME NEW ld, NEW pw
      PROVE  FaUL2!NewCache(ld, pw) = UL2!FaOpt!NewCache(ld, pw)
  BY Zenon DEF
     FaUL2!NewCache, UL2!FaOpt!NewCache, FaUL2!SetIndex, UL2!FaOpt!SetIndex,
     FaUL2!NewSet, UL2!FaOpt!NewSet, FaUL2!NewMissHit, UL2!FaOpt!NewMissHit,
     FaUL2!NewProfile, UL2!FaOpt!NewProfile, FaUL2!NewRow, UL2!FaOpt!NewRow,
     FaUL2!CounterId, UL2!FaOpt!CounterId, FaUL2!EmptyStack,
     UL2!FaOpt!EmptyStack
<1>6. FaUL2!ProcessAllSets = UL2!FaOpt!ProcessAllSets
  BY Zenon, <1>2 DEF
     FaUL2!ProcessAllSets, UL2!FaOpt!ProcessAllSets, FaUL2!AllProcessed,
     UL2!FaOpt!AllProcessed, FaUL2!Horizon, UL2!FaOpt!Horizon
<1> QED BY Zenon, <1>4, <1>5, <1>6

(* The proofs about it speak of keys and rows as those about all caches    *)
(* do.                                                                     *)
LEMMA FaUL2Rows ==
    /\ \A v, i, a, t, f : FaUL2!Noted(v, i, a, t, f) = Rows!Noted(v, i, a, t, f)
    /\ \A c : FaUL2!PlainView(c) = Rows!PlainView(c)
    /\ \A c : FaUL2!Settled(c) => Rows!Settled(c)
    /\ FaUL2!EmptyView = Rows!EmptyView
    /\ FaUL2!kAccessTypes = Rows!kAccessTypes /\ FaUL2!kLoad = Rows!kLoad
<1>1. ASSUME NEW v, NEW i, NEW a, NEW t, NEW f, NEW c
      PROVE  /\ FaUL2!Noted(v, i, a, t, f) = Rows!Noted(v, i, a, t, f)
             /\ FaUL2!PlainView(c) = Rows!PlainView(c)
             /\ FaUL2!Settled(c) = Rows!Settled(c)
             /\ FaUL2!EmptyView = Rows!EmptyView
             /\ FaUL2!kAccessTypes = Rows!kAccessTypes /\ FaUL2!kLoad = Rows!kLoad
  BY Zenon DEF
     FaUL2!Noted, Rows!Noted, FaUL2!KeysWith, Rows!KeysWith, FaUL2!SeenOnce,
     Rows!SeenOnce, FaUL2!Place, Rows!Place, FaUL2!Once, Rows!Once,
     FaUL2!Epoch, Rows!Epoch, FaUL2!kAccessTypes, Rows!kAccessTypes,
     FaUL2!kLoad, Rows!kLoad, FaUL2!kStore, Rows!kStore, FaUL2!PlainView,
     Rows!PlainView, FaUL2!SeenRows, Rows!SeenRows, FaUL2!Seen, Rows!Seen,
     FaUL2!MissHitId, Rows!MissHitId, FaUL2!B2I, Rows!B2I, FaUL2!Settled,
     Rows!Settled, FaUL2!ProfileType, Rows!ProfileType, FaUL2!CounterId,
     Rows!CounterId, FaUL2!Covered, Rows!Covered, FaUL2!MissSum, Rows!MissSum,
     FaUL2!ColumnSum, Rows!ColumnSum, FaUL2!EmptyView, Rows!EmptyView
<1> QED BY Zenon, <1>1

(* And those of the set-associative one.                                   *)
LEMMA SaUL2Is ==
    /\ \A inst, addr, access_type :
          SaUL2!Access(inst, addr, access_type) = UL2!SaOpt!Access(inst, addr, access_type)
    /\ \A inst : SaUL2!Fetch(inst) = UL2!SaOpt!Fetch(inst)
    /\ SaUL2!ProcessAllSets = UL2!SaOpt!ProcessAllSets
    /\ \A ld, pw : SaUL2!NewCache(ld, pw) = UL2!SaOpt!NewCache(ld, pw)
<1>1. ASSUME NEW c, NEW s
      PROVE  SaUL2!ProcessOne(c, s) = UL2!SaOpt!ProcessOne(c, s)
  BY Zenon DEF
     SaUL2!ProcessOne, UL2!SaOpt!ProcessOne, SaUL2!IsHit, UL2!SaOpt!IsHit,
     SaUL2!CountRow, UL2!SaOpt!CountRow, SaUL2!Bump, UL2!SaOpt!Bump,
     SaUL2!MissHitId, UL2!SaOpt!MissHitId, SaUL2!B2I, UL2!SaOpt!B2I,
     SaUL2!Inc, UL2!SaOpt!Inc, SaUL2!ClearPool, UL2!SaOpt!ClearPool,
     SaUL2!EmptyStack, UL2!SaOpt!EmptyStack, SaUL2!Decide, UL2!SaOpt!Decide,
     SaUL2!Size, UL2!SaOpt!Size, SaUL2!Cardinality, UL2!SaOpt!Cardinality,
     SaUL2!Keep, UL2!SaOpt!Keep, SaUL2!Insert, UL2!SaOpt!Insert,
     SaUL2!IsKnown, UL2!SaOpt!IsKnown, SaUL2!Put, UL2!SaOpt!Put, SaUL2!Drop,
     UL2!SaOpt!Drop, SaUL2!ReplaceKnown, UL2!SaOpt!ReplaceKnown, SaUL2!Lowest,
     UL2!SaOpt!Lowest, SaUL2!ReplaceUnknown, UL2!SaOpt!ReplaceUnknown,
     SaUL2!Bypass, UL2!SaOpt!Bypass
<1>2. ASSUME NEW c, NEW s, NEW n
      PROVE  SaUL2!Process(c, s, n) = UL2!SaOpt!Process(c, s, n)
  BY Zenon, <1>1 DEF SaUL2!Process, UL2!SaOpt!Process
<1>3. ASSUME NEW set, NEW tag, NEW inst_id, NEW addr_id, NEW access_type, NEW epoch
      PROVE  SaUL2!Lookahead(set, tag, inst_id, addr_id, access_type, epoch)
               = UL2!SaOpt!Lookahead(set, tag, inst_id, addr_id, access_type, epoch)
  BY Zenon DEF
     SaUL2!Lookahead, UL2!SaOpt!Lookahead, SaUL2!Learn, UL2!SaOpt!Learn,
     SaUL2!Waiting, UL2!SaOpt!Waiting, SaUL2!IsKnown, UL2!SaOpt!IsKnown,
     SaUL2!ResolveNextUse, UL2!SaOpt!ResolveNextUse, SaUL2!Min, UL2!SaOpt!Min,
     SaUL2!BecomeKnown, UL2!SaOpt!BecomeKnown, SaUL2!Put, UL2!SaOpt!Put,
     SaUL2!Drop, UL2!SaOpt!Drop, SaUL2!Repairable, UL2!SaOpt!Repairable,
     SaUL2!Repair, UL2!SaOpt!Repair, SaUL2!Lowest, UL2!SaOpt!Lowest
<1>4. ASSUME NEW inst, NEW addr, NEW access_type
      PROVE  /\ SaUL2!Access(inst, addr, access_type)
               = UL2!SaOpt!Access(inst, addr, access_type)
             /\ SaUL2!Fetch(inst) = UL2!SaOpt!Fetch(inst)
  BY Zenon, <1>2, <1>3 DEF
     SaUL2!Access, UL2!SaOpt!Access, SaUL2!Fetch, UL2!SaOpt!Fetch, SaUL2!kLoad,
     UL2!SaOpt!kLoad, SaUL2!Enter, UL2!SaOpt!Enter, SaUL2!TagOf,
     UL2!SaOpt!TagOf, SaUL2!SetIndexOf, UL2!SaOpt!SetIndexOf, SaUL2!Epoch,
     UL2!SaOpt!Epoch, SaUL2!Horizon, UL2!SaOpt!Horizon, SaUL2!MapKey,
     UL2!SaOpt!MapKey, SaUL2!IsMapped, UL2!SaOpt!IsMapped, SaUL2!NewRow,
     UL2!SaOpt!NewRow, SaUL2!CounterId, UL2!SaOpt!CounterId, SaUL2!RowOf,
     UL2!SaOpt!RowOf
<1>5. ASSUME NEW ld, NEW pw
      PROVE  SaUL2!NewCache(ld, pw) = UL2!SaOpt!NewCache(ld, pw)
  BY Zenon DEF
     SaUL2!NewCache, UL2!SaOpt!NewCache, SaUL2!SetIndex, UL2!SaOpt!SetIndex,
     SaUL2!NewSet, UL2!SaOpt!NewSet, SaUL2!NewMissHit, UL2!SaOpt!NewMissHit,
     SaUL2!NewProfile, UL2!SaOpt!NewProfile, SaUL2!NewRow, UL2!SaOpt!NewRow,
     SaUL2!CounterId, UL2!SaOpt!CounterId, SaUL2!EmptyStack,
     UL2!SaOpt!EmptyStack
<1>6. SaUL2!ProcessAllSets = UL2!SaOpt!ProcessAllSets
  BY Zenon, <1>2 DEF
     SaUL2!ProcessAllSets, UL2!SaOpt!ProcessAllSets, SaUL2!AllProcessed,
     UL2!SaOpt!AllProcessed, SaUL2!Horizon, UL2!SaOpt!Horizon
<1> QED BY Zenon, <1>4, <1>5, <1>6

(* The proofs about it speak of keys and rows as those about all caches    *)
(* do.                                                                     *)
LEMMA SaUL2Rows ==
    /\ \A v, i, a, t, f : SaUL2!Noted(v, i, a, t, f) = Rows!Noted(v, i, a, t, f)
    /\ \A c : SaUL2!PlainView(c) = Rows!PlainView(c)
    /\ \A c : SaUL2!Settled(c) => Rows!Settled(c)
    /\ SaUL2!EmptyView = Rows!EmptyView
    /\ SaUL2!kAccessTypes = Rows!kAccessTypes /\ SaUL2!kLoad = Rows!kLoad
<1>1. ASSUME NEW v, NEW i, NEW a, NEW t, NEW f, NEW c
      PROVE  /\ SaUL2!Noted(v, i, a, t, f) = Rows!Noted(v, i, a, t, f)
             /\ SaUL2!PlainView(c) = Rows!PlainView(c)
             /\ SaUL2!Settled(c) = Rows!Settled(c)
             /\ SaUL2!EmptyView = Rows!EmptyView
             /\ SaUL2!kAccessTypes = Rows!kAccessTypes /\ SaUL2!kLoad = Rows!kLoad
  BY Zenon DEF
     SaUL2!Noted, Rows!Noted, SaUL2!KeysWith, Rows!KeysWith, SaUL2!SeenOnce,
     Rows!SeenOnce, SaUL2!Place, Rows!Place, SaUL2!Once, Rows!Once,
     SaUL2!Epoch, Rows!Epoch, SaUL2!kAccessTypes, Rows!kAccessTypes,
     SaUL2!kLoad, Rows!kLoad, SaUL2!kStore, Rows!kStore, SaUL2!PlainView,
     Rows!PlainView, SaUL2!SeenRows, Rows!SeenRows, SaUL2!Seen, Rows!Seen,
     SaUL2!MissHitId, Rows!MissHitId, SaUL2!B2I, Rows!B2I, SaUL2!Settled,
     Rows!Settled, SaUL2!ProfileType, Rows!ProfileType, SaUL2!CounterId,
     Rows!CounterId, SaUL2!Covered, Rows!Covered, SaUL2!MissSum, Rows!MissSum,
     SaUL2!ColumnSum, Rows!ColumnSum, SaUL2!EmptyView, Rows!EmptyView
<1> QED BY Zenon, <1>1

(* The caches of the level show the same view ...                          *)
UL2Views(inf, fa_opt, sa_opt, sa_lru) ==
    /\ Alike(inf, sa_lru)
    /\ FaUL2!Views(fa_opt, Rows!PlainView(inf))
    /\ SaUL2!Views(sa_opt, Rows!PlainView(inf))

UL2Ok == UL2Views(inf_ul2, fa_opt_ul2, sa_opt_ul2, sa_lru_ul2)

(* ... and the optimal ones count all their references, or have decided    *)
(* them all.                                                               *)
UL2Count == FaUL2!Counts(fa_opt_ul2) /\ SaUL2!Counts(sa_opt_ul2)

UL2Done == FaUL2!NothingWaits(fa_opt_ul2) /\ SaUL2!NothingWaits(sa_opt_ul2)

(* What the view tells.                                                    *)
LEMMA UL2Shows ==
    ASSUME NEW inf, NEW fa_opt, NEW sa_opt, NEW sa_lru,
           UL2Views(inf, fa_opt, sa_opt, sa_lru)
    PROVE  /\ \A c \in {fa_opt, sa_opt, sa_lru} :
                 /\ c.ref_id_ = inf.ref_id_ /\ c.of_inst_.map = inf.of_inst_.map
                 /\ c.of_addr_.map = inf.of_addr_.map /\ c.of_time_.map = inf.of_time_.map
           /\ FaUL2!NothingWaits(fa_opt) /\ SaUL2!NothingWaits(sa_opt)
                 => AllAlike(inf, fa_opt, sa_opt, sa_lru)
<1> DEFINE view == Rows!PlainView(inf)
<1>1. \A c \in {inf, sa_lru} :
         /\ c.ref_id_ = view.ref_id /\ c.of_inst_.map = view.inst
         /\ c.of_addr_.map = view.addr /\ c.of_time_.map = view.time
  BY DEF UL2Views, Alike, Rows!PlainView
<1>2. Alike(inf, sa_lru) /\ FaUL2!Views(fa_opt, view) /\ SaUL2!Views(sa_opt, view)
  BY DEF UL2Views
<1> HIDE DEF view
<1>3. /\ \A c \in {fa_opt, sa_opt} :
            /\ c.ref_id_ = view.ref_id /\ c.of_inst_.map = view.inst
            /\ c.of_addr_.map = view.addr /\ c.of_time_.map = view.time
      /\ FaUL2!Settled(fa_opt)
      /\ FaUL2!NothingWaits(fa_opt) => FaUL2!PlainView(fa_opt) = view
      /\ SaUL2!Settled(sa_opt)
      /\ SaUL2!NothingWaits(sa_opt) => SaUL2!PlainView(sa_opt) = view
  BY <1>2, UL2Geometry, FaUL2!ViewsSettled, SaUL2!ViewsSettled
<1>4. /\ Rows!Settled(fa_opt) /\ Rows!PlainView(fa_opt) = FaUL2!PlainView(fa_opt)
      /\ Rows!Settled(sa_opt) /\ Rows!PlainView(sa_opt) = SaUL2!PlainView(sa_opt)
  BY Zenon, <1>3, FaUL2Rows, SaUL2Rows
<1>5. FaUL2!NothingWaits(fa_opt) /\ SaUL2!NothingWaits(sa_opt)
         => AllAlike(inf, fa_opt, sa_opt, sa_lru)
  BY <1>2, <1>3, <1>4 DEF AllAlike, view
<1> QED BY <1>1, <1>3, <1>5

(* So the keys of the four caches are at the same indices.                 *)
LEMMA UL2SameIndices == UL2Ok => UL2!SameIndices
BY UL2Shows DEF UL2Ok, UL2!SameIndices, UL2!InstProfiles, UL2!AddrProfiles, UL2!TimeProfiles

(* The program starts.                                                     *)
LEMMA UL2Starts ==
    ASSUME UL2!Init
    PROVE  /\ UL2Ok /\ UL2Done /\ (KnobProcessWindow # 0 => UL2Count)
           /\ inf_ul2.ref_id_ = 0 /\ sa_lru_ul2.miss_hit_[1] = 0
<1>1. /\ Alike(inf_ul2, sa_lru_ul2) /\ Rows!PlainView(inf_ul2) = Rows!EmptyView
      /\ inf_ul2.ref_id_ = 0 /\ sa_lru_ul2.miss_hit_[1] = 0
  BY UL2StartsAlike DEF UL2!Init
<1>2. /\ fa_opt_ul2 = FaUL2!NewCache(KnobLookaheadDistance, KnobProcessWindow)
      /\ sa_opt_ul2 = SaUL2!NewCache(KnobLookaheadDistance, KnobProcessWindow)
  BY FaUL2Is, SaUL2Is DEF UL2!Init
<1>3. /\ KnobLookaheadDistance \in Nat /\ KnobProcessWindow \in Nat
      /\ KnobProcessWindow # 0 => KnobProcessWindow > 0
  BY SimulatorAssumption
<1>4. /\ FaUL2!Views(fa_opt_ul2, FaUL2!EmptyView) /\ FaUL2!NothingWaits(fa_opt_ul2)
      /\ SaUL2!Views(sa_opt_ul2, SaUL2!EmptyView) /\ SaUL2!NothingWaits(sa_opt_ul2)
      /\ KnobProcessWindow > 0 => FaUL2!Counts(fa_opt_ul2) /\ SaUL2!Counts(sa_opt_ul2)
  BY <1>2, <1>3, UL2Geometry, FaUL2!NewCacheViews, SaUL2!NewCacheViews
<1> QED BY <1>1, <1>3, <1>4, FaUL2Rows, SaUL2Rows DEF UL2Ok, UL2Views, UL2Done, UL2Count

(* An access.                                                              *)
LEMMA UL2Accessed ==
    ASSUME UL2Ok, inf_ul2.ref_id_ < MaxRefs, NEW inst \in Insts, NEW addr \in Addrs,
           NEW access_type \in Rows!kAccessTypes, UL2!Access(inst, addr, access_type)
    PROVE  /\ UL2Ok' /\ (UL2Count => UL2Count')
           /\ inf_ul2'.ref_id_ = inf_ul2.ref_id_ + 1
           /\ sa_lru_ul2'.miss_hit_ = Rows!Inc(sa_lru_ul2.miss_hit_, UL2!IsHit(addr))
<1> DEFINE view == Rows!PlainView(inf_ul2)
           after == Rows!Noted(view, inst, addr, access_type, FALSE)
<1>1. Alike(inf_ul2, sa_lru_ul2) /\ FaUL2!Views(fa_opt_ul2, view) /\ SaUL2!Views(sa_opt_ul2, view)
  BY DEF UL2Ok, UL2Views
<1>2. fa_opt_ul2.ref_id_ < MaxRefs /\ sa_opt_ul2.ref_id_ < MaxRefs
  BY UL2Shows DEF UL2Ok
<1>3. BothCount(inf_ul2, sa_lru_ul2, inf_ul2', sa_lru_ul2',
                inst, addr, access_type, FALSE, UL2!IsHit(addr))
  BY Zenon, <1>1, Sizes, UL2CountsAccess DEF UL2!Access
<1>4. /\ FaUL2!Access(inst, addr, access_type) /\ access_type \in FaUL2!kAccessTypes
      /\ SaUL2!Access(inst, addr, access_type) /\ access_type \in SaUL2!kAccessTypes
  BY FaUL2Is, SaUL2Is, FaUL2Rows, SaUL2Rows DEF UL2!Access
<1> HIDE DEF view
<1>5. /\ FaUL2!Views(fa_opt_ul2', FaUL2!Noted(view, inst, addr, access_type, FALSE))
      /\ SaUL2!Views(sa_opt_ul2', SaUL2!Noted(view, inst, addr, access_type, FALSE))
      /\ FaUL2!Counts(fa_opt_ul2) => FaUL2!Counts(fa_opt_ul2')
      /\ SaUL2!Counts(sa_opt_ul2) => SaUL2!Counts(sa_opt_ul2')
  BY Zenon, <1>1, <1>2, <1>4, UL2Geometry, FaUL2!AccessViews, SaUL2!AccessViews
<1>6. FaUL2!Views(fa_opt_ul2', after) /\ SaUL2!Views(sa_opt_ul2', after)
  BY Zenon, <1>5, FaUL2Rows, SaUL2Rows
<1> QED BY Zenon, <1>3, <1>5, <1>6 DEF BothCount, UL2Ok, UL2Views, UL2Count, view

(* A fetch.                                                                *)
LEMMA UL2Fetched ==
    ASSUME UL2Ok, inf_ul2.ref_id_ < MaxRefs, NEW inst \in Insts, UL2!Fetch(inst)
    PROVE  /\ UL2Ok' /\ (UL2Count => UL2Count')
           /\ inf_ul2'.ref_id_ = inf_ul2.ref_id_ + 1
           /\ sa_lru_ul2'.miss_hit_ = Rows!Inc(sa_lru_ul2.miss_hit_, UL2!IsHit(inst))
<1> DEFINE view == Rows!PlainView(inf_ul2)
           after == Rows!Noted(view, inst, inst, Rows!kLoad, TRUE)
<1>1. Alike(inf_ul2, sa_lru_ul2) /\ FaUL2!Views(fa_opt_ul2, view) /\ SaUL2!Views(sa_opt_ul2, view)
  BY DEF UL2Ok, UL2Views
<1>2. fa_opt_ul2.ref_id_ < MaxRefs /\ sa_opt_ul2.ref_id_ < MaxRefs
  BY UL2Shows DEF UL2Ok
<1>3. BothCount(inf_ul2, sa_lru_ul2, inf_ul2', sa_lru_ul2',
                inst, inst, Rows!kLoad, TRUE, UL2!IsHit(inst))
  BY Zenon, <1>1, Sizes, UL2CountsFetch DEF UL2!Fetch
<1>4. FaUL2!Fetch(inst) /\ SaUL2!Fetch(inst)
  BY FaUL2Is, SaUL2Is DEF UL2!Fetch
<1> HIDE DEF view
<1>5. /\ FaUL2!Views(fa_opt_ul2', FaUL2!Noted(view, inst, inst, FaUL2!kLoad, TRUE))
      /\ SaUL2!Views(sa_opt_ul2', SaUL2!Noted(view, inst, inst, SaUL2!kLoad, TRUE))
      /\ FaUL2!Counts(fa_opt_ul2) => FaUL2!Counts(fa_opt_ul2')
      /\ SaUL2!Counts(sa_opt_ul2) => SaUL2!Counts(sa_opt_ul2')
  BY Zenon, <1>1, <1>2, <1>4, UL2Geometry, FaUL2!FetchViews, SaUL2!FetchViews
<1>6. FaUL2!Views(fa_opt_ul2', after) /\ SaUL2!Views(sa_opt_ul2', after)
  BY Zenon, <1>5, FaUL2Rows, SaUL2Rows
<1> QED BY Zenon, <1>3, <1>5, <1>6 DEF BothCount, UL2Ok, UL2Views, UL2Count, view

(* The end of the program, for this level.                                 *)
LEMMA UL2Processed ==
    ASSUME UL2Ok, UL2!ProcessAllSets
    PROVE  /\ UL2Ok' /\ (UL2Count => UL2Done')
           /\ inf_ul2' = inf_ul2 /\ sa_lru_ul2' = sa_lru_ul2
<1> DEFINE view == Rows!PlainView(inf_ul2)
<1>1. Alike(inf_ul2, sa_lru_ul2) /\ FaUL2!Views(fa_opt_ul2, view) /\ SaUL2!Views(sa_opt_ul2, view)
  BY DEF UL2Ok, UL2Views
<1>2. /\ FaUL2!ProcessAllSets /\ SaUL2!ProcessAllSets
      /\ inf_ul2' = inf_ul2 /\ sa_lru_ul2' = sa_lru_ul2
  BY FaUL2Is, SaUL2Is DEF UL2!ProcessAllSets
<1> HIDE DEF view
<1>3. /\ FaUL2!Views(fa_opt_ul2', view) /\ SaUL2!Views(sa_opt_ul2', view)
      /\ FaUL2!Counts(fa_opt_ul2) => FaUL2!NothingWaits(fa_opt_ul2')
      /\ SaUL2!Counts(sa_opt_ul2) => SaUL2!NothingWaits(sa_opt_ul2')
  BY <1>1, <1>2, UL2Geometry, FaUL2!ProcessAllSetsViews, SaUL2!ProcessAllSetsViews
<1> QED BY <1>1, <1>2, <1>3 DEF UL2Ok, UL2Views, UL2Count, UL2Done, view

(* In a run with a process window, an optimal cache of a simulated level   *)
(* has counted all references, and decided them when Fini has run.         *)
UL2Inv ==
    /\ UL2Ok
    /\ KnobProcessWindow # 0 /\ KnobUL2 /\ ~finished => UL2Count
    /\ KnobProcessWindow # 0 /\ (~KnobUL2 \/ finished) => UL2Done

(* Every step of the level keeps this.                                     *)
LEMMA UL2Kept ==
    ASSUME UL2Inv, UL2Step
    PROVE  UL2Inv'
<1>1. UL2Ok
  BY DEF UL2Inv
<1>2. CASE UNCHANGED ul2 /\ (finished' = finished \/ ~KnobUL2)
  BY <1>2 DEF ul2, UL2Inv, UL2Ok, UL2Count, UL2Done
<1>3. ASSUME KnobUL2, ~finished, ~finished', inf_ul2.ref_id_ < MaxRefs, NEW inst \in Insts,
             NEW addr \in Addrs, NEW access_type \in Rows!kAccessTypes,
             UL2!Access(inst, addr, access_type)
      PROVE  UL2Inv'
  BY <1>1, <1>3, UL2Accessed DEF UL2Inv
<1>4. ASSUME KnobUL2, ~finished, ~finished', inf_ul2.ref_id_ < MaxRefs, NEW inst \in Insts,
             UL2!Fetch(inst)
      PROVE  UL2Inv'
  BY <1>1, <1>4, UL2Fetched DEF UL2Inv
<1>5. CASE KnobUL2 /\ ~finished /\ finished' /\ UL2!ProcessAllSets
  BY <1>1, <1>5, UL2Processed DEF UL2Inv
<1> QED BY <1>2, <1>3, <1>4, <1>5 DEF UL2Step

(* What Fini prints of the level is complete.                              *)
LEMMA UL2Prints ==
    ASSUME UL2Ok', UL2Done', inf_ul2'.ref_id_ < Uint32
    PROVE  UL2Printed
<1> DEFINE i == InstOf(inf_ul2', fa_opt_ul2', sa_opt_ul2', sa_lru_ul2')
           t == TimeOf(inf_ul2', fa_opt_ul2', sa_opt_ul2', sa_lru_ul2')
<1>1. AllAlike(inf_ul2', fa_opt_ul2', sa_opt_ul2', sa_lru_ul2')
  BY UL2Shows DEF UL2Ok, UL2Done
<1>2. UL2!ReportRest.inst = UL2!PrintOutput(i) /\ UL2!ReportRest.time = UL2!PrintOutput(t)
  BY DEF UL2!ReportRest, UL2!InstProfiles, UL2!TimeProfiles, InstOf, TimeOf
<1>3. UL2!ReportRest.inst = Rows!PrintOutput(i) /\ UL2!ReportRest.time = Rows!PrintOutput(t)
  BY <1>2, SameOutput
<1> QED BY <1>1, <1>3, LevelComplete DEF UL2Printed

-----------------------------------------------------------------------------
(* The two optimal caches of the first-level data cache.                   *)

FaDL1 == INSTANCE OptimalCacheProofs WITH
    cache <- fa_opt_dl1, NumWays <- DL1NumSets * DL1NumWays, NumSets <- 1,
    Knobs <- {<<KnobLookaheadDistance, KnobProcessWindow>>}, cost <- 0, used <- 0
SaDL1 == INSTANCE OptimalCacheProofs WITH
    cache <- sa_opt_dl1, NumWays <- DL1NumWays, NumSets <- DL1NumSets,
    Knobs <- {<<KnobLookaheadDistance, KnobProcessWindow>>}, cost <- 0, used <- 0

(* What the proofs about them assume.                                      *)
LEMMA DL1Geometry ==
    /\ 1 \in Nat \ {0} /\ LineSize \in Nat \ {0} /\ Kilo \in Nat \ {0}
    /\ InitialRows \in Nat \ {0} /\ Uint32 \in Nat \ {0}
    /\ DL1NumSets \in Nat \ {0} /\ DL1NumWays \in Nat \ {0} /\ DL1NumSets * DL1NumWays \in Nat \ {0}
    /\ {<<KnobLookaheadDistance, KnobProcessWindow>>} \subseteq Nat \X Nat
    /\ MaxRefs \in Nat /\ KMax \in Nat /\ KMax > 2 * MaxRefs
    /\ Addrs \subseteq Nat /\ Insts \subseteq Nat
    /\ FaDL1!IsPower2(LineSize) /\ FaDL1!IsPower2(1)
    /\ SaDL1!IsPower2(LineSize) /\ SaDL1!IsPower2(DL1NumSets)
<1>1. 2^0 = 1
  OBVIOUS
<1>2. FaDL1!IsPower2(1)
  BY <1>1 DEF FaDL1!IsPower2
<1>3. FaDL1!IsPower2(LineSize) /\ SaDL1!IsPower2(LineSize) /\ SaDL1!IsPower2(DL1NumSets)
  BY SimulatorAssumption DEF DL1!IsPower2, FaDL1!IsPower2, SaDL1!IsPower2
<1> QED BY <1>2, <1>3, Sizes

(* The operations of the fully associative cache of the module are those   *)
(* the proofs are about.                                                   *)
LEMMA FaDL1Is ==
    /\ \A inst, addr, access_type :
          FaDL1!Access(inst, addr, access_type) = DL1!FaOpt!Access(inst, addr, access_type)
    /\ FaDL1!ProcessAllSets = DL1!FaOpt!ProcessAllSets
    /\ \A ld, pw : FaDL1!NewCache(ld, pw) = DL1!FaOpt!NewCache(ld, pw)
<1>1. ASSUME NEW c, NEW s
      PROVE  FaDL1!ProcessOne(c, s) = DL1!FaOpt!ProcessOne(c, s)
  BY Zenon DEF
     FaDL1!ProcessOne, DL1!FaOpt!ProcessOne, FaDL1!IsHit, DL1!FaOpt!IsHit,
     FaDL1!CountRow, DL1!FaOpt!CountRow, FaDL1!Bump, DL1!FaOpt!Bump,
     FaDL1!MissHitId, DL1!FaOpt!MissHitId, FaDL1!B2I, DL1!FaOpt!B2I,
     FaDL1!Inc, DL1!FaOpt!Inc, FaDL1!ClearPool, DL1!FaOpt!ClearPool,
     FaDL1!EmptyStack, DL1!FaOpt!EmptyStack, FaDL1!Decide, DL1!FaOpt!Decide,
     FaDL1!Size, DL1!FaOpt!Size, FaDL1!Cardinality, DL1!FaOpt!Cardinality,
     FaDL1!Keep, DL1!FaOpt!Keep, FaDL1!Insert, DL1!FaOpt!Insert,
     FaDL1!IsKnown, DL1!FaOpt!IsKnown, FaDL1!Put, DL1!FaOpt!Put, FaDL1!Drop,
     DL1!FaOpt!Drop, FaDL1!ReplaceKnown, DL1!FaOpt!ReplaceKnown, FaDL1!Lowest,
     DL1!FaOpt!Lowest, FaDL1!ReplaceUnknown, DL1!FaOpt!ReplaceUnknown,
     FaDL1!Bypass, DL1!FaOpt!Bypass
<1>2. ASSUME NEW c, NEW s, NEW n
      PROVE  FaDL1!Process(c, s, n) = DL1!FaOpt!Process(c, s, n)
  BY Zenon, <1>1 DEF FaDL1!Process, DL1!FaOpt!Process
<1>3. ASSUME NEW set, NEW tag, NEW inst_id, NEW addr_id, NEW access_type, NEW epoch
      PROVE  FaDL1!Lookahead(set, tag, inst_id, addr_id, access_type, epoch)
               = DL1!FaOpt!Lookahead(set, tag, inst_id, addr_id, access_type, epoch)
  BY Zenon DEF
     FaDL1!Lookahead, DL1!FaOpt!Lookahead, FaDL1!Learn, DL1!FaOpt!Learn,
     FaDL1!Waiting, DL1!FaOpt!Waiting, FaDL1!IsKnown, DL1!FaOpt!IsKnown,
     FaDL1!ResolveNextUse, DL1!FaOpt!ResolveNextUse, FaDL1!Min, DL1!FaOpt!Min,
     FaDL1!BecomeKnown, DL1!FaOpt!BecomeKnown, FaDL1!Put, DL1!FaOpt!Put,
     FaDL1!Drop, DL1!FaOpt!Drop, FaDL1!Repairable, DL1!FaOpt!Repairable,
     FaDL1!Repair, DL1!FaOpt!Repair, FaDL1!Lowest, DL1!FaOpt!Lowest
<1>4. ASSUME NEW inst, NEW addr, NEW access_type
      PROVE  FaDL1!Access(inst, addr, access_type)
               = DL1!FaOpt!Access(inst, addr, access_type)
  BY Zenon, <1>2, <1>3 DEF
     FaDL1!Access, DL1!FaOpt!Access, FaDL1!Enter, DL1!FaOpt!Enter, FaDL1!TagOf,
     DL1!FaOpt!TagOf, FaDL1!SetIndexOf, DL1!FaOpt!SetIndexOf, FaDL1!Epoch,
     DL1!FaOpt!Epoch, FaDL1!Horizon, DL1!FaOpt!Horizon, FaDL1!MapKey,
     DL1!FaOpt!MapKey, FaDL1!IsMapped, DL1!FaOpt!IsMapped, FaDL1!NewRow,
     DL1!FaOpt!NewRow, FaDL1!CounterId, DL1!FaOpt!CounterId, FaDL1!RowOf,
     DL1!FaOpt!RowOf
<1>5. ASSUME NEW ld, NEW pw
      PROVE  FaDL1!NewCache(ld, pw) = DL1!FaOpt!NewCache(ld, pw)
  BY Zenon DEF
     FaDL1!NewCache, DL1!FaOpt!NewCache, FaDL1!SetIndex, DL1!FaOpt!SetIndex,
     FaDL1!NewSet, DL1!FaOpt!NewSet, FaDL1!NewMissHit, DL1!FaOpt!NewMissHit,
     FaDL1!NewProfile, DL1!FaOpt!NewProfile, FaDL1!NewRow, DL1!FaOpt!NewRow,
     FaDL1!CounterId, DL1!FaOpt!CounterId, FaDL1!EmptyStack,
     DL1!FaOpt!EmptyStack
<1>6. FaDL1!ProcessAllSets = DL1!FaOpt!ProcessAllSets
  BY Zenon, <1>2 DEF
     FaDL1!ProcessAllSets, DL1!FaOpt!ProcessAllSets, FaDL1!AllProcessed,
     DL1!FaOpt!AllProcessed, FaDL1!Horizon, DL1!FaOpt!Horizon
<1> QED BY Zenon, <1>4, <1>5, <1>6

(* The proofs about it speak of keys and rows as those about all caches    *)
(* do.                                                                     *)
LEMMA FaDL1Rows ==
    /\ \A v, i, a, t, f : FaDL1!Noted(v, i, a, t, f) = Rows!Noted(v, i, a, t, f)
    /\ \A c : FaDL1!PlainView(c) = Rows!PlainView(c)
    /\ \A c : FaDL1!Settled(c) => Rows!Settled(c)
    /\ FaDL1!EmptyView = Rows!EmptyView
    /\ FaDL1!kAccessTypes = Rows!kAccessTypes /\ FaDL1!kLoad = Rows!kLoad
<1>1. ASSUME NEW v, NEW i, NEW a, NEW t, NEW f, NEW c
      PROVE  /\ FaDL1!Noted(v, i, a, t, f) = Rows!Noted(v, i, a, t, f)
             /\ FaDL1!PlainView(c) = Rows!PlainView(c)
             /\ FaDL1!Settled(c) = Rows!Settled(c)
             /\ FaDL1!EmptyView = Rows!EmptyView
             /\ FaDL1!kAccessTypes = Rows!kAccessTypes /\ FaDL1!kLoad = Rows!kLoad
  BY Zenon DEF
     FaDL1!Noted, Rows!Noted, FaDL1!KeysWith, Rows!KeysWith, FaDL1!SeenOnce,
     Rows!SeenOnce, FaDL1!Place, Rows!Place, FaDL1!Once, Rows!Once,
     FaDL1!Epoch, Rows!Epoch, FaDL1!kAccessTypes, Rows!kAccessTypes,
     FaDL1!kLoad, Rows!kLoad, FaDL1!kStore, Rows!kStore, FaDL1!PlainView,
     Rows!PlainView, FaDL1!SeenRows, Rows!SeenRows, FaDL1!Seen, Rows!Seen,
     FaDL1!MissHitId, Rows!MissHitId, FaDL1!B2I, Rows!B2I, FaDL1!Settled,
     Rows!Settled, FaDL1!ProfileType, Rows!ProfileType, FaDL1!CounterId,
     Rows!CounterId, FaDL1!Covered, Rows!Covered, FaDL1!MissSum, Rows!MissSum,
     FaDL1!ColumnSum, Rows!ColumnSum, FaDL1!EmptyView, Rows!EmptyView
<1> QED BY Zenon, <1>1

(* And those of the set-associative one.                                   *)
LEMMA SaDL1Is ==
    /\ \A inst, addr, access_type :
          SaDL1!Access(inst, addr, access_type) = DL1!SaOpt!Access(inst, addr, access_type)
    /\ SaDL1!ProcessAllSets = DL1!SaOpt!ProcessAllSets
    /\ \A ld, pw : SaDL1!NewCache(ld, pw) = DL1!SaOpt!NewCache(ld, pw)
<1>1. ASSUME NEW c, NEW s
      PROVE  SaDL1!ProcessOne(c, s) = DL1!SaOpt!ProcessOne(c, s)
  BY Zenon DEF
     SaDL1!ProcessOne, DL1!SaOpt!ProcessOne, SaDL1!IsHit, DL1!SaOpt!IsHit,
     SaDL1!CountRow, DL1!SaOpt!CountRow, SaDL1!Bump, DL1!SaOpt!Bump,
     SaDL1!MissHitId, DL1!SaOpt!MissHitId, SaDL1!B2I, DL1!SaOpt!B2I,
     SaDL1!Inc, DL1!SaOpt!Inc, SaDL1!ClearPool, DL1!SaOpt!ClearPool,
     SaDL1!EmptyStack, DL1!SaOpt!EmptyStack, SaDL1!Decide, DL1!SaOpt!Decide,
     SaDL1!Size, DL1!SaOpt!Size, SaDL1!Cardinality, DL1!SaOpt!Cardinality,
     SaDL1!Keep, DL1!SaOpt!Keep, SaDL1!Insert, DL1!SaOpt!Insert,
     SaDL1!IsKnown, DL1!SaOpt!IsKnown, SaDL1!Put, DL1!SaOpt!Put, SaDL1!Drop,
     DL1!SaOpt!Drop, SaDL1!ReplaceKnown, DL1!SaOpt!ReplaceKnown, SaDL1!Lowest,
     DL1!SaOpt!Lowest, SaDL1!ReplaceUnknown, DL1!SaOpt!ReplaceUnknown,
     SaDL1!Bypass, DL1!SaOpt!Bypass
<1>2. ASSUME NEW c, NEW s, NEW n
      PROVE  SaDL1!Process(c, s, n) = DL1!SaOpt!Process(c, s, n)
  BY Zenon, <1>1 DEF SaDL1!Process, DL1!SaOpt!Process
<1>3. ASSUME NEW set, NEW tag, NEW inst_id, NEW addr_id, NEW access_type, NEW epoch
      PROVE  SaDL1!Lookahead(set, tag, inst_id, addr_id, access_type, epoch)
               = DL1!SaOpt!Lookahead(set, tag, inst_id, addr_id, access_type, epoch)
  BY Zenon DEF
     SaDL1!Lookahead, DL1!SaOpt!Lookahead, SaDL1!Learn, DL1!SaOpt!Learn,
     SaDL1!Waiting, DL1!SaOpt!Waiting, SaDL1!IsKnown, DL1!SaOpt!IsKnown,
     SaDL1!ResolveNextUse, DL1!SaOpt!ResolveNextUse, SaDL1!Min, DL1!SaOpt!Min,
     SaDL1!BecomeKnown, DL1!SaOpt!BecomeKnown, SaDL1!Put, DL1!SaOpt!Put,
     SaDL1!Drop, DL1!SaOpt!Drop, SaDL1!Repairable, DL1!SaOpt!Repairable,
     SaDL1!Repair, DL1!SaOpt!Repair, SaDL1!Lowest, DL1!SaOpt!Lowest
<1>4. ASSUME NEW inst, NEW addr, NEW access_type
      PROVE  SaDL1!Access(inst, addr, access_type)
               = DL1!SaOpt!Access(inst, addr, access_type)
  BY Zenon, <1>2, <1>3 DEF
     SaDL1!Access, DL1!SaOpt!Access, SaDL1!Enter, DL1!SaOpt!Enter, SaDL1!TagOf,
     DL1!SaOpt!TagOf, SaDL1!SetIndexOf, DL1!SaOpt!SetIndexOf, SaDL1!Epoch,
     DL1!SaOpt!Epoch, SaDL1!Horizon, DL1!SaOpt!Horizon, SaDL1!MapKey,
     DL1!SaOpt!MapKey, SaDL1!IsMapped, DL1!SaOpt!IsMapped, SaDL1!NewRow,
     DL1!SaOpt!NewRow, SaDL1!CounterId, DL1!SaOpt!CounterId, SaDL1!RowOf,
     DL1!SaOpt!RowOf
<1>5. ASSUME NEW ld, NEW pw
      PROVE  SaDL1!NewCache(ld, pw) = DL1!SaOpt!NewCache(ld, pw)
  BY Zenon DEF
     SaDL1!NewCache, DL1!SaOpt!NewCache, SaDL1!SetIndex, DL1!SaOpt!SetIndex,
     SaDL1!NewSet, DL1!SaOpt!NewSet, SaDL1!NewMissHit, DL1!SaOpt!NewMissHit,
     SaDL1!NewProfile, DL1!SaOpt!NewProfile, SaDL1!NewRow, DL1!SaOpt!NewRow,
     SaDL1!CounterId, DL1!SaOpt!CounterId, SaDL1!EmptyStack,
     DL1!SaOpt!EmptyStack
<1>6. SaDL1!ProcessAllSets = DL1!SaOpt!ProcessAllSets
  BY Zenon, <1>2 DEF
     SaDL1!ProcessAllSets, DL1!SaOpt!ProcessAllSets, SaDL1!AllProcessed,
     DL1!SaOpt!AllProcessed, SaDL1!Horizon, DL1!SaOpt!Horizon
<1> QED BY Zenon, <1>4, <1>5, <1>6

(* The proofs about it speak of keys and rows as those about all caches    *)
(* do.                                                                     *)
LEMMA SaDL1Rows ==
    /\ \A v, i, a, t, f : SaDL1!Noted(v, i, a, t, f) = Rows!Noted(v, i, a, t, f)
    /\ \A c : SaDL1!PlainView(c) = Rows!PlainView(c)
    /\ \A c : SaDL1!Settled(c) => Rows!Settled(c)
    /\ SaDL1!EmptyView = Rows!EmptyView
    /\ SaDL1!kAccessTypes = Rows!kAccessTypes /\ SaDL1!kLoad = Rows!kLoad
<1>1. ASSUME NEW v, NEW i, NEW a, NEW t, NEW f, NEW c
      PROVE  /\ SaDL1!Noted(v, i, a, t, f) = Rows!Noted(v, i, a, t, f)
             /\ SaDL1!PlainView(c) = Rows!PlainView(c)
             /\ SaDL1!Settled(c) = Rows!Settled(c)
             /\ SaDL1!EmptyView = Rows!EmptyView
             /\ SaDL1!kAccessTypes = Rows!kAccessTypes /\ SaDL1!kLoad = Rows!kLoad
  BY Zenon DEF
     SaDL1!Noted, Rows!Noted, SaDL1!KeysWith, Rows!KeysWith, SaDL1!SeenOnce,
     Rows!SeenOnce, SaDL1!Place, Rows!Place, SaDL1!Once, Rows!Once,
     SaDL1!Epoch, Rows!Epoch, SaDL1!kAccessTypes, Rows!kAccessTypes,
     SaDL1!kLoad, Rows!kLoad, SaDL1!kStore, Rows!kStore, SaDL1!PlainView,
     Rows!PlainView, SaDL1!SeenRows, Rows!SeenRows, SaDL1!Seen, Rows!Seen,
     SaDL1!MissHitId, Rows!MissHitId, SaDL1!B2I, Rows!B2I, SaDL1!Settled,
     Rows!Settled, SaDL1!ProfileType, Rows!ProfileType, SaDL1!CounterId,
     Rows!CounterId, SaDL1!Covered, Rows!Covered, SaDL1!MissSum, Rows!MissSum,
     SaDL1!ColumnSum, Rows!ColumnSum, SaDL1!EmptyView, Rows!EmptyView
<1> QED BY Zenon, <1>1

(* The caches of the level show the same view ...                          *)
DL1Views(inf, fa_opt, sa_opt, sa_lru) ==
    /\ Alike(inf, sa_lru)
    /\ FaDL1!Views(fa_opt, Rows!PlainView(inf))
    /\ SaDL1!Views(sa_opt, Rows!PlainView(inf))

DL1Ok == DL1Views(inf_dl1, fa_opt_dl1, sa_opt_dl1, sa_lru_dl1)

(* ... and the optimal ones count all their references, or have decided    *)
(* them all.                                                               *)
DL1Count == FaDL1!Counts(fa_opt_dl1) /\ SaDL1!Counts(sa_opt_dl1)

DL1Done == FaDL1!NothingWaits(fa_opt_dl1) /\ SaDL1!NothingWaits(sa_opt_dl1)

(* What the view tells.                                                    *)
LEMMA DL1Shows ==
    ASSUME NEW inf, NEW fa_opt, NEW sa_opt, NEW sa_lru,
           DL1Views(inf, fa_opt, sa_opt, sa_lru)
    PROVE  /\ \A c \in {fa_opt, sa_opt, sa_lru} :
                 /\ c.ref_id_ = inf.ref_id_ /\ c.of_inst_.map = inf.of_inst_.map
                 /\ c.of_addr_.map = inf.of_addr_.map /\ c.of_time_.map = inf.of_time_.map
           /\ FaDL1!NothingWaits(fa_opt) /\ SaDL1!NothingWaits(sa_opt)
                 => AllAlike(inf, fa_opt, sa_opt, sa_lru)
<1> DEFINE view == Rows!PlainView(inf)
<1>1. \A c \in {inf, sa_lru} :
         /\ c.ref_id_ = view.ref_id /\ c.of_inst_.map = view.inst
         /\ c.of_addr_.map = view.addr /\ c.of_time_.map = view.time
  BY DEF DL1Views, Alike, Rows!PlainView
<1>2. Alike(inf, sa_lru) /\ FaDL1!Views(fa_opt, view) /\ SaDL1!Views(sa_opt, view)
  BY DEF DL1Views
<1> HIDE DEF view
<1>3. /\ \A c \in {fa_opt, sa_opt} :
            /\ c.ref_id_ = view.ref_id /\ c.of_inst_.map = view.inst
            /\ c.of_addr_.map = view.addr /\ c.of_time_.map = view.time
      /\ FaDL1!Settled(fa_opt)
      /\ FaDL1!NothingWaits(fa_opt) => FaDL1!PlainView(fa_opt) = view
      /\ SaDL1!Settled(sa_opt)
      /\ SaDL1!NothingWaits(sa_opt) => SaDL1!PlainView(sa_opt) = view
  BY <1>2, DL1Geometry, FaDL1!ViewsSettled, SaDL1!ViewsSettled
<1>4. /\ Rows!Settled(fa_opt) /\ Rows!PlainView(fa_opt) = FaDL1!PlainView(fa_opt)
      /\ Rows!Settled(sa_opt) /\ Rows!PlainView(sa_opt) = SaDL1!PlainView(sa_opt)
  BY Zenon, <1>3, FaDL1Rows, SaDL1Rows
<1>5. FaDL1!NothingWaits(fa_opt) /\ SaDL1!NothingWaits(sa_opt)
         => AllAlike(inf, fa_opt, sa_opt, sa_lru)
  BY <1>2, <1>3, <1>4 DEF AllAlike, view
<1> QED BY <1>1, <1>3, <1>5

(* So the keys of the four caches are at the same indices.                 *)
LEMMA DL1SameIndices == DL1Ok => DL1!SameIndices
BY DL1Shows DEF DL1Ok, DL1!SameIndices, DL1!InstProfiles, DL1!AddrProfiles, DL1!TimeProfiles

(* The program starts.                                                     *)
LEMMA DL1Starts ==
    ASSUME DL1!Init
    PROVE  /\ DL1Ok /\ DL1Done /\ (KnobProcessWindow # 0 => DL1Count)
           /\ inf_dl1.ref_id_ = 0 /\ sa_lru_dl1.miss_hit_[1] = 0
<1>1. /\ Alike(inf_dl1, sa_lru_dl1) /\ Rows!PlainView(inf_dl1) = Rows!EmptyView
      /\ inf_dl1.ref_id_ = 0 /\ sa_lru_dl1.miss_hit_[1] = 0
  BY DL1StartsAlike DEF DL1!Init
<1>2. /\ fa_opt_dl1 = FaDL1!NewCache(KnobLookaheadDistance, KnobProcessWindow)
      /\ sa_opt_dl1 = SaDL1!NewCache(KnobLookaheadDistance, KnobProcessWindow)
  BY FaDL1Is, SaDL1Is DEF DL1!Init
<1>3. /\ KnobLookaheadDistance \in Nat /\ KnobProcessWindow \in Nat
      /\ KnobProcessWindow # 0 => KnobProcessWindow > 0
  BY SimulatorAssumption
<1>4. /\ FaDL1!Views(fa_opt_dl1, FaDL1!EmptyView) /\ FaDL1!NothingWaits(fa_opt_dl1)
      /\ SaDL1!Views(sa_opt_dl1, SaDL1!EmptyView) /\ SaDL1!NothingWaits(sa_opt_dl1)
      /\ KnobProcessWindow > 0 => FaDL1!Counts(fa_opt_dl1) /\ SaDL1!Counts(sa_opt_dl1)
  BY <1>2, <1>3, DL1Geometry, FaDL1!NewCacheViews, SaDL1!NewCacheViews
<1> QED BY <1>1, <1>3, <1>4, FaDL1Rows, SaDL1Rows DEF DL1Ok, DL1Views, DL1Done, DL1Count

(* An access.                                                              *)
LEMMA DL1Accessed ==
    ASSUME DL1Ok, inf_dl1.ref_id_ < MaxRefs, NEW inst \in Insts, NEW addr \in Addrs,
           NEW access_type \in Rows!kAccessTypes, DL1!Access(inst, addr, access_type)
    PROVE  /\ DL1Ok' /\ (DL1Count => DL1Count')
           /\ inf_dl1'.ref_id_ = inf_dl1.ref_id_ + 1
           /\ sa_lru_dl1'.miss_hit_ = Rows!Inc(sa_lru_dl1.miss_hit_, DL1!IsHit(addr))
<1> DEFINE view == Rows!PlainView(inf_dl1)
           after == Rows!Noted(view, inst, addr, access_type, FALSE)
<1>1. Alike(inf_dl1, sa_lru_dl1) /\ FaDL1!Views(fa_opt_dl1, view) /\ SaDL1!Views(sa_opt_dl1, view)
  BY DEF DL1Ok, DL1Views
<1>2. fa_opt_dl1.ref_id_ < MaxRefs /\ sa_opt_dl1.ref_id_ < MaxRefs
  BY DL1Shows DEF DL1Ok
<1>3. BothCount(inf_dl1, sa_lru_dl1, inf_dl1', sa_lru_dl1',
                inst, addr, access_type, FALSE, DL1!IsHit(addr))
  BY Zenon, <1>1, Sizes, DL1CountsAccess DEF DL1!Access
<1>4. /\ FaDL1!Access(inst, addr, access_type) /\ access_type \in FaDL1!kAccessTypes
      /\ SaDL1!Access(inst, addr, access_type) /\ access_type \in SaDL1!kAccessTypes
  BY FaDL1Is, SaDL1Is, FaDL1Rows, SaDL1Rows DEF DL1!Access
<1> HIDE DEF view
<1>5. /\ FaDL1!Views(fa_opt_dl1', FaDL1!Noted(view, inst, addr, access_type, FALSE))
      /\ SaDL1!Views(sa_opt_dl1', SaDL1!Noted(view, inst, addr, access_type, FALSE))
      /\ FaDL1!Counts(fa_opt_dl1) => FaDL1!Counts(fa_opt_dl1')
      /\ SaDL1!Counts(sa_opt_dl1) => SaDL1!Counts(sa_opt_dl1')
  BY Zenon, <1>1, <1>2, <1>4, DL1Geometry, FaDL1!AccessViews, SaDL1!AccessViews
<1>6. FaDL1!Views(fa_opt_dl1', after) /\ SaDL1!Views(sa_opt_dl1', after)
  BY Zenon, <1>5, FaDL1Rows, SaDL1Rows
<1> QED BY Zenon, <1>3, <1>5, <1>6 DEF BothCount, DL1Ok, DL1Views, DL1Count, view

(* The end of the program, for this level.                                 *)
LEMMA DL1Processed ==
    ASSUME DL1Ok, DL1!ProcessAllSets
    PROVE  /\ DL1Ok' /\ (DL1Count => DL1Done')
           /\ inf_dl1' = inf_dl1 /\ sa_lru_dl1' = sa_lru_dl1
<1> DEFINE view == Rows!PlainView(inf_dl1)
<1>1. Alike(inf_dl1, sa_lru_dl1) /\ FaDL1!Views(fa_opt_dl1, view) /\ SaDL1!Views(sa_opt_dl1, view)
  BY DEF DL1Ok, DL1Views
<1>2. /\ FaDL1!ProcessAllSets /\ SaDL1!ProcessAllSets
      /\ inf_dl1' = inf_dl1 /\ sa_lru_dl1' = sa_lru_dl1
  BY FaDL1Is, SaDL1Is DEF DL1!ProcessAllSets
<1> HIDE DEF view
<1>3. /\ FaDL1!Views(fa_opt_dl1', view) /\ SaDL1!Views(sa_opt_dl1', view)
      /\ FaDL1!Counts(fa_opt_dl1) => FaDL1!NothingWaits(fa_opt_dl1')
      /\ SaDL1!Counts(sa_opt_dl1) => SaDL1!NothingWaits(sa_opt_dl1')
  BY <1>1, <1>2, DL1Geometry, FaDL1!ProcessAllSetsViews, SaDL1!ProcessAllSetsViews
<1> QED BY <1>1, <1>2, <1>3 DEF DL1Ok, DL1Views, DL1Count, DL1Done, view

(* In a run with a process window, an optimal cache of a simulated level   *)
(* has counted all references, and decided them when Fini has run.         *)
DL1Inv ==
    /\ DL1Ok
    /\ KnobProcessWindow # 0 /\ KnobDL1 /\ ~finished => DL1Count
    /\ KnobProcessWindow # 0 /\ (~KnobDL1 \/ finished) => DL1Done

(* Every step of the level keeps this.                                     *)
LEMMA DL1Kept ==
    ASSUME DL1Inv, DL1Step
    PROVE  DL1Inv'
<1>1. DL1Ok
  BY DEF DL1Inv
<1>2. CASE UNCHANGED dl1 /\ (finished' = finished \/ ~KnobDL1)
  BY <1>2 DEF dl1, DL1Inv, DL1Ok, DL1Count, DL1Done
<1>3. ASSUME KnobDL1, ~finished, ~finished', inf_dl1.ref_id_ < MaxRefs, NEW inst \in Insts,
             NEW addr \in Addrs, NEW access_type \in Rows!kAccessTypes,
             DL1!Access(inst, addr, access_type)
      PROVE  DL1Inv'
  BY <1>1, <1>3, DL1Accessed DEF DL1Inv
<1>5. CASE KnobDL1 /\ ~finished /\ finished' /\ DL1!ProcessAllSets
  BY <1>1, <1>5, DL1Processed DEF DL1Inv
<1> QED BY <1>2, <1>3, <1>5 DEF DL1Step

(* What Fini prints of the level is complete.                              *)
LEMMA DL1Prints ==
    ASSUME DL1Ok', DL1Done', inf_dl1'.ref_id_ < Uint32
    PROVE  DL1Printed
<1> DEFINE i == InstOf(inf_dl1', fa_opt_dl1', sa_opt_dl1', sa_lru_dl1')
           t == TimeOf(inf_dl1', fa_opt_dl1', sa_opt_dl1', sa_lru_dl1')
<1>1. AllAlike(inf_dl1', fa_opt_dl1', sa_opt_dl1', sa_lru_dl1')
  BY DL1Shows DEF DL1Ok, DL1Done
<1>2. DL1!ReportRest.inst = DL1!PrintOutput(i) /\ DL1!ReportRest.time = DL1!PrintOutput(t)
  BY DEF DL1!ReportRest, DL1!InstProfiles, DL1!TimeProfiles, InstOf, TimeOf
<1>3. DL1!ReportRest.inst = Rows!PrintOutput(i) /\ DL1!ReportRest.time = Rows!PrintOutput(t)
  BY <1>2, SameOutput
<1> QED BY <1>1, <1>3, LevelComplete DEF DL1Printed

-----------------------------------------------------------------------------
(* The two optimal caches of the first-level instruction cache.            *)

FaIL1 == INSTANCE OptimalCacheProofs WITH
    cache <- fa_opt_il1, NumWays <- IL1NumSets * IL1NumWays, NumSets <- 1,
    Knobs <- {<<KnobLookaheadDistance, KnobProcessWindow>>}, cost <- 0, used <- 0
SaIL1 == INSTANCE OptimalCacheProofs WITH
    cache <- sa_opt_il1, NumWays <- IL1NumWays, NumSets <- IL1NumSets,
    Knobs <- {<<KnobLookaheadDistance, KnobProcessWindow>>}, cost <- 0, used <- 0

(* What the proofs about them assume.                                      *)
LEMMA IL1Geometry ==
    /\ 1 \in Nat \ {0} /\ LineSize \in Nat \ {0} /\ Kilo \in Nat \ {0}
    /\ InitialRows \in Nat \ {0} /\ Uint32 \in Nat \ {0}
    /\ IL1NumSets \in Nat \ {0} /\ IL1NumWays \in Nat \ {0} /\ IL1NumSets * IL1NumWays \in Nat \ {0}
    /\ {<<KnobLookaheadDistance, KnobProcessWindow>>} \subseteq Nat \X Nat
    /\ MaxRefs \in Nat /\ KMax \in Nat /\ KMax > 2 * MaxRefs
    /\ Addrs \subseteq Nat /\ Insts \subseteq Nat
    /\ FaIL1!IsPower2(LineSize) /\ FaIL1!IsPower2(1)
    /\ SaIL1!IsPower2(LineSize) /\ SaIL1!IsPower2(IL1NumSets)
<1>1. 2^0 = 1
  OBVIOUS
<1>2. FaIL1!IsPower2(1)
  BY <1>1 DEF FaIL1!IsPower2
<1>3. FaIL1!IsPower2(LineSize) /\ SaIL1!IsPower2(LineSize) /\ SaIL1!IsPower2(IL1NumSets)
  BY SimulatorAssumption DEF DL1!IsPower2, FaIL1!IsPower2, SaIL1!IsPower2
<1> QED BY <1>2, <1>3, Sizes

(* The operations of the fully associative cache of the module are those   *)
(* the proofs are about.                                                   *)
LEMMA FaIL1Is ==
    /\ \A inst : FaIL1!Fetch(inst) = IL1!FaOpt!Fetch(inst)
    /\ FaIL1!ProcessAllSets = IL1!FaOpt!ProcessAllSets
    /\ \A ld, pw : FaIL1!NewCache(ld, pw) = IL1!FaOpt!NewCache(ld, pw)
<1>1. ASSUME NEW c, NEW s
      PROVE  FaIL1!ProcessOne(c, s) = IL1!FaOpt!ProcessOne(c, s)
  BY Zenon DEF
     FaIL1!ProcessOne, IL1!FaOpt!ProcessOne, FaIL1!IsHit, IL1!FaOpt!IsHit,
     FaIL1!CountRow, IL1!FaOpt!CountRow, FaIL1!Bump, IL1!FaOpt!Bump,
     FaIL1!MissHitId, IL1!FaOpt!MissHitId, FaIL1!B2I, IL1!FaOpt!B2I,
     FaIL1!Inc, IL1!FaOpt!Inc, FaIL1!ClearPool, IL1!FaOpt!ClearPool,
     FaIL1!EmptyStack, IL1!FaOpt!EmptyStack, FaIL1!Decide, IL1!FaOpt!Decide,
     FaIL1!Size, IL1!FaOpt!Size, FaIL1!Cardinality, IL1!FaOpt!Cardinality,
     FaIL1!Keep, IL1!FaOpt!Keep, FaIL1!Insert, IL1!FaOpt!Insert,
     FaIL1!IsKnown, IL1!FaOpt!IsKnown, FaIL1!Put, IL1!FaOpt!Put, FaIL1!Drop,
     IL1!FaOpt!Drop, FaIL1!ReplaceKnown, IL1!FaOpt!ReplaceKnown, FaIL1!Lowest,
     IL1!FaOpt!Lowest, FaIL1!ReplaceUnknown, IL1!FaOpt!ReplaceUnknown,
     FaIL1!Bypass, IL1!FaOpt!Bypass
<1>2. ASSUME NEW c, NEW s, NEW n
      PROVE  FaIL1!Process(c, s, n) = IL1!FaOpt!Process(c, s, n)
  BY Zenon, <1>1 DEF FaIL1!Process, IL1!FaOpt!Process
<1>3. ASSUME NEW set, NEW tag, NEW inst_id, NEW addr_id, NEW access_type, NEW epoch
      PROVE  FaIL1!Lookahead(set, tag, inst_id, addr_id, access_type, epoch)
               = IL1!FaOpt!Lookahead(set, tag, inst_id, addr_id, access_type, epoch)
  BY Zenon DEF
     FaIL1!Lookahead, IL1!FaOpt!Lookahead, FaIL1!Learn, IL1!FaOpt!Learn,
     FaIL1!Waiting, IL1!FaOpt!Waiting, FaIL1!IsKnown, IL1!FaOpt!IsKnown,
     FaIL1!ResolveNextUse, IL1!FaOpt!ResolveNextUse, FaIL1!Min, IL1!FaOpt!Min,
     FaIL1!BecomeKnown, IL1!FaOpt!BecomeKnown, FaIL1!Put, IL1!FaOpt!Put,
     FaIL1!Drop, IL1!FaOpt!Drop, FaIL1!Repairable, IL1!FaOpt!Repairable,
     FaIL1!Repair, IL1!FaOpt!Repair, FaIL1!Lowest, IL1!FaOpt!Lowest
<1>4. ASSUME NEW inst
      PROVE  FaIL1!Fetch(inst) = IL1!FaOpt!Fetch(inst)
  BY Zenon, <1>2, <1>3 DEF
     FaIL1!Fetch, IL1!FaOpt!Fetch, FaIL1!kLoad, IL1!FaOpt!kLoad, FaIL1!Enter,
     IL1!FaOpt!Enter, FaIL1!TagOf, IL1!FaOpt!TagOf, FaIL1!SetIndexOf,
     IL1!FaOpt!SetIndexOf, FaIL1!Epoch, IL1!FaOpt!Epoch, FaIL1!Horizon,
     IL1!FaOpt!Horizon, FaIL1!MapKey, IL1!FaOpt!MapKey, FaIL1!IsMapped,
     IL1!FaOpt!IsMapped, FaIL1!NewRow, IL1!FaOpt!NewRow, FaIL1!CounterId,
     IL1!FaOpt!CounterId, FaIL1!RowOf, IL1!FaOpt!RowOf
<1>5. ASSUME NEW ld, NEW pw
      PROVE  FaIL1!NewCache(ld, pw) = IL1!FaOpt!NewCache(ld, pw)
  BY Zenon DEF
     FaIL1!NewCache, IL1!FaOpt!NewCache, FaIL1!SetIndex, IL1!FaOpt!SetIndex,
     FaIL1!NewSet, IL1!FaOpt!NewSet, FaIL1!NewMissHit, IL1!FaOpt!NewMissHit,
     FaIL1!NewProfile, IL1!FaOpt!NewProfile, FaIL1!NewRow, IL1!FaOpt!NewRow,
     FaIL1!CounterId, IL1!FaOpt!CounterId, FaIL1!EmptyStack,
     IL1!FaOpt!EmptyStack
<1>6. FaIL1!ProcessAllSets = IL1!FaOpt!ProcessAllSets
  BY Zenon, <1>2 DEF
     FaIL1!ProcessAllSets, IL1!FaOpt!ProcessAllSets, FaIL1!AllProcessed,
     IL1!FaOpt!AllProcessed, FaIL1!Horizon, IL1!FaOpt!Horizon
<1> QED BY Zenon, <1>4, <1>5, <1>6

(* The proofs about it speak of keys and rows as those about all caches    *)
(* do.                                                                     *)
LEMMA FaIL1Rows ==
    /\ \A v, i, a, t, f : FaIL1!Noted(v, i, a, t, f) = Rows!Noted(v, i, a, t, f)
    /\ \A c : FaIL1!PlainView(c) = Rows!PlainView(c)
    /\ \A c : FaIL1!Settled(c) => Rows!Settled(c)
    /\ FaIL1!EmptyView = Rows!EmptyView
    /\ FaIL1!kAccessTypes = Rows!kAccessTypes /\ FaIL1!kLoad = Rows!kLoad
<1>1. ASSUME NEW v, NEW i, NEW a, NEW t, NEW f, NEW c
      PROVE  /\ FaIL1!Noted(v, i, a, t, f) = Rows!Noted(v, i, a, t, f)
             /\ FaIL1!PlainView(c) = Rows!PlainView(c)
             /\ FaIL1!Settled(c) = Rows!Settled(c)
             /\ FaIL1!EmptyView = Rows!EmptyView
             /\ FaIL1!kAccessTypes = Rows!kAccessTypes /\ FaIL1!kLoad = Rows!kLoad
  BY Zenon DEF
     FaIL1!Noted, Rows!Noted, FaIL1!KeysWith, Rows!KeysWith, FaIL1!SeenOnce,
     Rows!SeenOnce, FaIL1!Place, Rows!Place, FaIL1!Once, Rows!Once,
     FaIL1!Epoch, Rows!Epoch, FaIL1!kAccessTypes, Rows!kAccessTypes,
     FaIL1!kLoad, Rows!kLoad, FaIL1!kStore, Rows!kStore, FaIL1!PlainView,
     Rows!PlainView, FaIL1!SeenRows, Rows!SeenRows, FaIL1!Seen, Rows!Seen,
     FaIL1!MissHitId, Rows!MissHitId, FaIL1!B2I, Rows!B2I, FaIL1!Settled,
     Rows!Settled, FaIL1!ProfileType, Rows!ProfileType, FaIL1!CounterId,
     Rows!CounterId, FaIL1!Covered, Rows!Covered, FaIL1!MissSum, Rows!MissSum,
     FaIL1!ColumnSum, Rows!ColumnSum, FaIL1!EmptyView, Rows!EmptyView
<1> QED BY Zenon, <1>1

(* And those of the set-associative one.                                   *)
LEMMA SaIL1Is ==
    /\ \A inst : SaIL1!Fetch(inst) = IL1!SaOpt!Fetch(inst)
    /\ SaIL1!ProcessAllSets = IL1!SaOpt!ProcessAllSets
    /\ \A ld, pw : SaIL1!NewCache(ld, pw) = IL1!SaOpt!NewCache(ld, pw)
<1>1. ASSUME NEW c, NEW s
      PROVE  SaIL1!ProcessOne(c, s) = IL1!SaOpt!ProcessOne(c, s)
  BY Zenon DEF
     SaIL1!ProcessOne, IL1!SaOpt!ProcessOne, SaIL1!IsHit, IL1!SaOpt!IsHit,
     SaIL1!CountRow, IL1!SaOpt!CountRow, SaIL1!Bump, IL1!SaOpt!Bump,
     SaIL1!MissHitId, IL1!SaOpt!MissHitId, SaIL1!B2I, IL1!SaOpt!B2I,
     SaIL1!Inc, IL1!SaOpt!Inc, SaIL1!ClearPool, IL1!SaOpt!ClearPool,
     SaIL1!EmptyStack, IL1!SaOpt!EmptyStack, SaIL1!Decide, IL1!SaOpt!Decide,
     SaIL1!Size, IL1!SaOpt!Size, SaIL1!Cardinality, IL1!SaOpt!Cardinality,
     SaIL1!Keep, IL1!SaOpt!Keep, SaIL1!Insert, IL1!SaOpt!Insert,
     SaIL1!IsKnown, IL1!SaOpt!IsKnown, SaIL1!Put, IL1!SaOpt!Put, SaIL1!Drop,
     IL1!SaOpt!Drop, SaIL1!ReplaceKnown, IL1!SaOpt!ReplaceKnown, SaIL1!Lowest,
     IL1!SaOpt!Lowest, SaIL1!ReplaceUnknown, IL1!SaOpt!ReplaceUnknown,
     SaIL1!Bypass, IL1!SaOpt!Bypass
<1>2. ASSUME NEW c, NEW s, NEW n
      PROVE  SaIL1!Process(c, s, n) = IL1!SaOpt!Process(c, s, n)
  BY Zenon, <1>1 DEF SaIL1!Process, IL1!SaOpt!Process
<1>3. ASSUME NEW set, NEW tag, NEW inst_id, NEW addr_id, NEW access_type, NEW epoch
      PROVE  SaIL1!Lookahead(set, tag, inst_id, addr_id, access_type, epoch)
               = IL1!SaOpt!Lookahead(set, tag, inst_id, addr_id, access_type, epoch)
  BY Zenon DEF
     SaIL1!Lookahead, IL1!SaOpt!Lookahead, SaIL1!Learn, IL1!SaOpt!Learn,
     SaIL1!Waiting, IL1!SaOpt!Waiting, SaIL1!IsKnown, IL1!SaOpt!IsKnown,
     SaIL1!ResolveNextUse, IL1!SaOpt!ResolveNextUse, SaIL1!Min, IL1!SaOpt!Min,
     SaIL1!BecomeKnown, IL1!SaOpt!BecomeKnown, SaIL1!Put, IL1!SaOpt!Put,
     SaIL1!Drop, IL1!SaOpt!Drop, SaIL1!Repairable, IL1!SaOpt!Repairable,
     SaIL1!Repair, IL1!SaOpt!Repair, SaIL1!Lowest, IL1!SaOpt!Lowest
<1>4. ASSUME NEW inst
      PROVE  SaIL1!Fetch(inst) = IL1!SaOpt!Fetch(inst)
  BY Zenon, <1>2, <1>3 DEF
     SaIL1!Fetch, IL1!SaOpt!Fetch, SaIL1!kLoad, IL1!SaOpt!kLoad, SaIL1!Enter,
     IL1!SaOpt!Enter, SaIL1!TagOf, IL1!SaOpt!TagOf, SaIL1!SetIndexOf,
     IL1!SaOpt!SetIndexOf, SaIL1!Epoch, IL1!SaOpt!Epoch, SaIL1!Horizon,
     IL1!SaOpt!Horizon, SaIL1!MapKey, IL1!SaOpt!MapKey, SaIL1!IsMapped,
     IL1!SaOpt!IsMapped, SaIL1!NewRow, IL1!SaOpt!NewRow, SaIL1!CounterId,
     IL1!SaOpt!CounterId, SaIL1!RowOf, IL1!SaOpt!RowOf
<1>5. ASSUME NEW ld, NEW pw
      PROVE  SaIL1!NewCache(ld, pw) = IL1!SaOpt!NewCache(ld, pw)
  BY Zenon DEF
     SaIL1!NewCache, IL1!SaOpt!NewCache, SaIL1!SetIndex, IL1!SaOpt!SetIndex,
     SaIL1!NewSet, IL1!SaOpt!NewSet, SaIL1!NewMissHit, IL1!SaOpt!NewMissHit,
     SaIL1!NewProfile, IL1!SaOpt!NewProfile, SaIL1!NewRow, IL1!SaOpt!NewRow,
     SaIL1!CounterId, IL1!SaOpt!CounterId, SaIL1!EmptyStack,
     IL1!SaOpt!EmptyStack
<1>6. SaIL1!ProcessAllSets = IL1!SaOpt!ProcessAllSets
  BY Zenon, <1>2 DEF
     SaIL1!ProcessAllSets, IL1!SaOpt!ProcessAllSets, SaIL1!AllProcessed,
     IL1!SaOpt!AllProcessed, SaIL1!Horizon, IL1!SaOpt!Horizon
<1> QED BY Zenon, <1>4, <1>5, <1>6

(* The proofs about it speak of keys and rows as those about all caches    *)
(* do.                                                                     *)
LEMMA SaIL1Rows ==
    /\ \A v, i, a, t, f : SaIL1!Noted(v, i, a, t, f) = Rows!Noted(v, i, a, t, f)
    /\ \A c : SaIL1!PlainView(c) = Rows!PlainView(c)
    /\ \A c : SaIL1!Settled(c) => Rows!Settled(c)
    /\ SaIL1!EmptyView = Rows!EmptyView
    /\ SaIL1!kAccessTypes = Rows!kAccessTypes /\ SaIL1!kLoad = Rows!kLoad
<1>1. ASSUME NEW v, NEW i, NEW a, NEW t, NEW f, NEW c
      PROVE  /\ SaIL1!Noted(v, i, a, t, f) = Rows!Noted(v, i, a, t, f)
             /\ SaIL1!PlainView(c) = Rows!PlainView(c)
             /\ SaIL1!Settled(c) = Rows!Settled(c)
             /\ SaIL1!EmptyView = Rows!EmptyView
             /\ SaIL1!kAccessTypes = Rows!kAccessTypes /\ SaIL1!kLoad = Rows!kLoad
  BY Zenon DEF
     SaIL1!Noted, Rows!Noted, SaIL1!KeysWith, Rows!KeysWith, SaIL1!SeenOnce,
     Rows!SeenOnce, SaIL1!Place, Rows!Place, SaIL1!Once, Rows!Once,
     SaIL1!Epoch, Rows!Epoch, SaIL1!kAccessTypes, Rows!kAccessTypes,
     SaIL1!kLoad, Rows!kLoad, SaIL1!kStore, Rows!kStore, SaIL1!PlainView,
     Rows!PlainView, SaIL1!SeenRows, Rows!SeenRows, SaIL1!Seen, Rows!Seen,
     SaIL1!MissHitId, Rows!MissHitId, SaIL1!B2I, Rows!B2I, SaIL1!Settled,
     Rows!Settled, SaIL1!ProfileType, Rows!ProfileType, SaIL1!CounterId,
     Rows!CounterId, SaIL1!Covered, Rows!Covered, SaIL1!MissSum, Rows!MissSum,
     SaIL1!ColumnSum, Rows!ColumnSum, SaIL1!EmptyView, Rows!EmptyView
<1> QED BY Zenon, <1>1

(* The caches of the level show the same view ...                          *)
IL1Views(inf, fa_opt, sa_opt, sa_lru) ==
    /\ Alike(inf, sa_lru)
    /\ FaIL1!Views(fa_opt, Rows!PlainView(inf))
    /\ SaIL1!Views(sa_opt, Rows!PlainView(inf))

IL1Ok == IL1Views(inf_il1, fa_opt_il1, sa_opt_il1, sa_lru_il1)

(* ... and the optimal ones count all their references, or have decided    *)
(* them all.                                                               *)
IL1Count == FaIL1!Counts(fa_opt_il1) /\ SaIL1!Counts(sa_opt_il1)

IL1Done == FaIL1!NothingWaits(fa_opt_il1) /\ SaIL1!NothingWaits(sa_opt_il1)

(* What the view tells.                                                    *)
LEMMA IL1Shows ==
    ASSUME NEW inf, NEW fa_opt, NEW sa_opt, NEW sa_lru,
           IL1Views(inf, fa_opt, sa_opt, sa_lru)
    PROVE  /\ \A c \in {fa_opt, sa_opt, sa_lru} :
                 /\ c.ref_id_ = inf.ref_id_ /\ c.of_inst_.map = inf.of_inst_.map
                 /\ c.of_addr_.map = inf.of_addr_.map /\ c.of_time_.map = inf.of_time_.map
           /\ FaIL1!NothingWaits(fa_opt) /\ SaIL1!NothingWaits(sa_opt)
                 => AllAlike(inf, fa_opt, sa_opt, sa_lru)
<1> DEFINE view == Rows!PlainView(inf)
<1>1. \A c \in {inf, sa_lru} :
         /\ c.ref_id_ = view.ref_id /\ c.of_inst_.map = view.inst
         /\ c.of_addr_.map = view.addr /\ c.of_time_.map = view.time
  BY DEF IL1Views, Alike, Rows!PlainView
<1>2. Alike(inf, sa_lru) /\ FaIL1!Views(fa_opt, view) /\ SaIL1!Views(sa_opt, view)
  BY DEF IL1Views
<1> HIDE DEF view
<1>3. /\ \A c \in {fa_opt, sa_opt} :
            /\ c.ref_id_ = view.ref_id /\ c.of_inst_.map = view.inst
            /\ c.of_addr_.map = view.addr /\ c.of_time_.map = view.time
      /\ FaIL1!Settled(fa_opt)
      /\ FaIL1!NothingWaits(fa_opt) => FaIL1!PlainView(fa_opt) = view
      /\ SaIL1!Settled(sa_opt)
      /\ SaIL1!NothingWaits(sa_opt) => SaIL1!PlainView(sa_opt) = view
  BY <1>2, IL1Geometry, FaIL1!ViewsSettled, SaIL1!ViewsSettled
<1>4. /\ Rows!Settled(fa_opt) /\ Rows!PlainView(fa_opt) = FaIL1!PlainView(fa_opt)
      /\ Rows!Settled(sa_opt) /\ Rows!PlainView(sa_opt) = SaIL1!PlainView(sa_opt)
  BY Zenon, <1>3, FaIL1Rows, SaIL1Rows
<1>5. FaIL1!NothingWaits(fa_opt) /\ SaIL1!NothingWaits(sa_opt)
         => AllAlike(inf, fa_opt, sa_opt, sa_lru)
  BY <1>2, <1>3, <1>4 DEF AllAlike, view
<1> QED BY <1>1, <1>3, <1>5

(* So the keys of the four caches are at the same indices.                 *)
LEMMA IL1SameIndices == IL1Ok => IL1!SameIndices
BY IL1Shows DEF IL1Ok, IL1!SameIndices, IL1!InstProfiles, IL1!AddrProfiles, IL1!TimeProfiles

(* The program starts.                                                     *)
LEMMA IL1Starts ==
    ASSUME IL1!Init
    PROVE  /\ IL1Ok /\ IL1Done /\ (KnobProcessWindow # 0 => IL1Count)
           /\ inf_il1.ref_id_ = 0 /\ sa_lru_il1.miss_hit_[1] = 0
<1>1. /\ Alike(inf_il1, sa_lru_il1) /\ Rows!PlainView(inf_il1) = Rows!EmptyView
      /\ inf_il1.ref_id_ = 0 /\ sa_lru_il1.miss_hit_[1] = 0
  BY IL1StartsAlike DEF IL1!Init
<1>2. /\ fa_opt_il1 = FaIL1!NewCache(KnobLookaheadDistance, KnobProcessWindow)
      /\ sa_opt_il1 = SaIL1!NewCache(KnobLookaheadDistance, KnobProcessWindow)
  BY FaIL1Is, SaIL1Is DEF IL1!Init
<1>3. /\ KnobLookaheadDistance \in Nat /\ KnobProcessWindow \in Nat
      /\ KnobProcessWindow # 0 => KnobProcessWindow > 0
  BY SimulatorAssumption
<1>4. /\ FaIL1!Views(fa_opt_il1, FaIL1!EmptyView) /\ FaIL1!NothingWaits(fa_opt_il1)
      /\ SaIL1!Views(sa_opt_il1, SaIL1!EmptyView) /\ SaIL1!NothingWaits(sa_opt_il1)
      /\ KnobProcessWindow > 0 => FaIL1!Counts(fa_opt_il1) /\ SaIL1!Counts(sa_opt_il1)
  BY <1>2, <1>3, IL1Geometry, FaIL1!NewCacheViews, SaIL1!NewCacheViews
<1> QED BY <1>1, <1>3, <1>4, FaIL1Rows, SaIL1Rows DEF IL1Ok, IL1Views, IL1Done, IL1Count

(* A fetch.                                                                *)
LEMMA IL1Fetched ==
    ASSUME IL1Ok, inf_il1.ref_id_ < MaxRefs, NEW inst \in Insts, IL1!Fetch(inst)
    PROVE  /\ IL1Ok' /\ (IL1Count => IL1Count')
           /\ inf_il1'.ref_id_ = inf_il1.ref_id_ + 1
           /\ sa_lru_il1'.miss_hit_ = Rows!Inc(sa_lru_il1.miss_hit_, IL1!IsHit(inst))
<1> DEFINE view == Rows!PlainView(inf_il1)
           after == Rows!Noted(view, inst, inst, Rows!kLoad, TRUE)
<1>1. Alike(inf_il1, sa_lru_il1) /\ FaIL1!Views(fa_opt_il1, view) /\ SaIL1!Views(sa_opt_il1, view)
  BY DEF IL1Ok, IL1Views
<1>2. fa_opt_il1.ref_id_ < MaxRefs /\ sa_opt_il1.ref_id_ < MaxRefs
  BY IL1Shows DEF IL1Ok
<1>3. BothCount(inf_il1, sa_lru_il1, inf_il1', sa_lru_il1',
                inst, inst, Rows!kLoad, TRUE, IL1!IsHit(inst))
  BY Zenon, <1>1, Sizes, IL1CountsFetch DEF IL1!Fetch
<1>4. FaIL1!Fetch(inst) /\ SaIL1!Fetch(inst)
  BY FaIL1Is, SaIL1Is DEF IL1!Fetch
<1> HIDE DEF view
<1>5. /\ FaIL1!Views(fa_opt_il1', FaIL1!Noted(view, inst, inst, FaIL1!kLoad, TRUE))
      /\ SaIL1!Views(sa_opt_il1', SaIL1!Noted(view, inst, inst, SaIL1!kLoad, TRUE))
      /\ FaIL1!Counts(fa_opt_il1) => FaIL1!Counts(fa_opt_il1')
      /\ SaIL1!Counts(sa_opt_il1) => SaIL1!Counts(sa_opt_il1')
  BY Zenon, <1>1, <1>2, <1>4, IL1Geometry, FaIL1!FetchViews, SaIL1!FetchViews
<1>6. FaIL1!Views(fa_opt_il1', after) /\ SaIL1!Views(sa_opt_il1', after)
  BY Zenon, <1>5, FaIL1Rows, SaIL1Rows
<1> QED BY Zenon, <1>3, <1>5, <1>6 DEF BothCount, IL1Ok, IL1Views, IL1Count, view

(* The end of the program, for this level.                                 *)
LEMMA IL1Processed ==
    ASSUME IL1Ok, IL1!ProcessAllSets
    PROVE  /\ IL1Ok' /\ (IL1Count => IL1Done')
           /\ inf_il1' = inf_il1 /\ sa_lru_il1' = sa_lru_il1
<1> DEFINE view == Rows!PlainView(inf_il1)
<1>1. Alike(inf_il1, sa_lru_il1) /\ FaIL1!Views(fa_opt_il1, view) /\ SaIL1!Views(sa_opt_il1, view)
  BY DEF IL1Ok, IL1Views
<1>2. /\ FaIL1!ProcessAllSets /\ SaIL1!ProcessAllSets
      /\ inf_il1' = inf_il1 /\ sa_lru_il1' = sa_lru_il1
  BY FaIL1Is, SaIL1Is DEF IL1!ProcessAllSets
<1> HIDE DEF view
<1>3. /\ FaIL1!Views(fa_opt_il1', view) /\ SaIL1!Views(sa_opt_il1', view)
      /\ FaIL1!Counts(fa_opt_il1) => FaIL1!NothingWaits(fa_opt_il1')
      /\ SaIL1!Counts(sa_opt_il1) => SaIL1!NothingWaits(sa_opt_il1')
  BY <1>1, <1>2, IL1Geometry, FaIL1!ProcessAllSetsViews, SaIL1!ProcessAllSetsViews
<1> QED BY <1>1, <1>2, <1>3 DEF IL1Ok, IL1Views, IL1Count, IL1Done, view

(* In a run with a process window, an optimal cache of a simulated level   *)
(* has counted all references, and decided them when Fini has run.         *)
IL1Inv ==
    /\ IL1Ok
    /\ KnobProcessWindow # 0 /\ KnobIL1 /\ ~finished => IL1Count
    /\ KnobProcessWindow # 0 /\ (~KnobIL1 \/ finished) => IL1Done

(* Every step of the level keeps this.                                     *)
LEMMA IL1Kept ==
    ASSUME IL1Inv, IL1Step
    PROVE  IL1Inv'
<1>1. IL1Ok
  BY DEF IL1Inv
<1>2. CASE UNCHANGED il1 /\ (finished' = finished \/ ~KnobIL1)
  BY <1>2 DEF il1, IL1Inv, IL1Ok, IL1Count, IL1Done
<1>4. ASSUME KnobIL1, ~finished, ~finished', inf_il1.ref_id_ < MaxRefs, NEW inst \in Insts,
             IL1!Fetch(inst)
      PROVE  IL1Inv'
  BY <1>1, <1>4, IL1Fetched DEF IL1Inv
<1>5. CASE KnobIL1 /\ ~finished /\ finished' /\ IL1!ProcessAllSets
  BY <1>1, <1>5, IL1Processed DEF IL1Inv
<1> QED BY <1>2, <1>4, <1>5 DEF IL1Step

(* What Fini prints of the level is complete.                              *)
LEMMA IL1Prints ==
    ASSUME IL1Ok', IL1Done', inf_il1'.ref_id_ < Uint32
    PROVE  IL1Printed
<1> DEFINE i == InstOf(inf_il1', fa_opt_il1', sa_opt_il1', sa_lru_il1')
           t == TimeOf(inf_il1', fa_opt_il1', sa_opt_il1', sa_lru_il1')
<1>1. AllAlike(inf_il1', fa_opt_il1', sa_opt_il1', sa_lru_il1')
  BY IL1Shows DEF IL1Ok, IL1Done
<1>2. IL1!ReportRest.inst = IL1!PrintOutput(i) /\ IL1!ReportRest.time = IL1!PrintOutput(t)
  BY DEF IL1!ReportRest, IL1!InstProfiles, IL1!TimeProfiles, InstOf, TimeOf
<1>3. IL1!ReportRest.inst = Rows!PrintOutput(i) /\ IL1!ReportRest.time = Rows!PrintOutput(t)
  BY <1>2, SameOutput
<1> QED BY <1>1, <1>3, LevelComplete DEF IL1Printed

-----------------------------------------------------------------------------
(* The hierarchy.                                                          *)
SimInv == RealInv /\ DL1Inv /\ IL1Inv /\ UL2Inv

(* It holds when the program starts, when nothing is printed yet ...       *)
LEMMA SimInit ==
    ASSUME Init
    PROVE  SimInv /\ Filtered /\ ReportsComplete
<1>1. DL1!Init /\ IL1!Init /\ UL2!Init /\ ~finished
  BY DEF Init
<1>2. DL1Inv /\ IL1Inv /\ UL2Inv
  BY <1>1, DL1Starts, IL1Starts, UL2Starts DEF DL1Inv, IL1Inv, UL2Inv
<1> QED BY <1>1, <1>2, RealInit DEF SimInv, ReportsComplete

(* ... and every step keeps it.                                            *)
LEMMA SimNext == SimInv /\ [Next]_vars => SimInv'
BY RealNext, LevelSteps, DL1Kept, IL1Kept, UL2Kept DEF SimInv

(* The four caches of every level keep the same view of what they have     *)
(* been sent.                                                              *)
THEOREM SimInvariant == Spec => []SimInv
BY SimInit, SimNext, PTL DEF Spec

(* Hence the four caches of a level can be printed side by side at any     *)
(* time: PrintOutput reads the rows of all four at the indices of the      *)
(* infinite one.                                                           *)
THEOREM SameIndicesAlways == Spec => []SameIndices
<1>1. SimInv => SameIndices
  BY DL1SameIndices, IL1SameIndices, UL2SameIndices
     DEF SimInv, SameIndices, DL1Inv, IL1Inv, UL2Inv
<1> QED BY <1>1, SimInvariant, PTL

(* The second level sees exactly the misses of the first, in each of its   *)
(* four caches, as long as the 32-bit miss counters do not wrap around.    *)
THEOREM SecondLevelSeesMisses == MaxRefs < Uint32 => (Spec => []L2SeesL1Misses)
<1> SUFFICES ASSUME MaxRefs < Uint32 PROVE Spec => []L2SeesL1Misses
  OBVIOUS
<1>1. SimInv /\ Filtered /\ [Next]_vars => (SimInv /\ Filtered)'
  BY SimNext, RealNext DEF SimInv
<1>2. SimInv /\ Filtered => L2SeesL1Misses
  BY UL2Shows DEF SimInv, UL2Inv, UL2Ok, Filtered, Missed, L2SeesL1Misses
<1> QED BY <1>1, <1>2, SimInit, PTL DEF Spec

(* When Fini has run, the rows of every report are consistent and sum to   *)
(* the totals of the four caches, if no counter can wrap around and the    *)
(* optimal caches process at least one reference at a time.                *)
THEOREM ReportsAlwaysComplete ==
    MaxRefs < Uint32 /\ KnobProcessWindow # 0 => (Spec => []ReportsComplete)
<1> SUFFICES ASSUME MaxRefs < Uint32, KnobProcessWindow # 0
             PROVE  Spec => []ReportsComplete
  OBVIOUS
<1>1. ASSUME SimInv, SimInv', ReportsComplete, [Next]_vars PROVE ReportsComplete'
  <2>1. ASSUME Fini PROVE DL1Printed /\ IL1Printed /\ UL2Printed
    <3>1. DL1Ok' /\ DL1Done' /\ IL1Ok' /\ IL1Done' /\ UL2Ok' /\ UL2Done'
      BY <1>1, <2>1 DEF SimInv, DL1Inv, IL1Inv, UL2Inv, Fini
    <3>2. inf_dl1'.ref_id_ < Uint32 /\ inf_il1'.ref_id_ < Uint32 /\ inf_ul2'.ref_id_ < Uint32
      BY <1>1, Sizes DEF SimInv, RealInv
    <3> QED BY <3>1, <3>2, DL1Prints, IL1Prints, UL2Prints
  <2> QED BY <1>1, <2>1, ReportStep
<1> QED BY <1>1, SimInit, SimNext, PTL DEF Spec
=============================================================================
