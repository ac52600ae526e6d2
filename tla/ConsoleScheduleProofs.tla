------------------------ MODULE ConsoleScheduleProofs ------------------------
(***************************************************************************)
(* Theorems about ConsoleSchedule for every TTL, threshold, period and     *)
(* skew its assumptions admit, any number of agents and a clock of any     *)
(* range.                                                                  *)
(***************************************************************************)
EXTENDS ConsoleSchedule, TtlCacheProofs, PnlQueriesProofs, FiniteSetTheorems

(***************************************************************************)
(* What the crons rely on: an entry is the agent's last frame, good for    *)
(* the TTL from its arrival, and no entry means no frame within the TTL.   *)
(* An agent is steady only if its last frame's clock is fit.               *)
(***************************************************************************)
EntryOf(k) ==
    /\ store[k] # Absent =>
          /\ framed[k] \in Nat
          /\ store[k].expiresAt = framed[k] + Ttl
          /\ \E f \in Frames : /\ store[k].value.ts = framed[k] + f.skew
                               /\ Behind(f.skew) => steady[k] = Never
    /\ steady[k] # Never => framed[k] # Never
    /\ store[k] = Absent => framed[k] = Never \/ now - framed[k] >= Ttl
    /\ framed[k] # Never => framed[k] <= raised[k]
    /\ raised[k] <= now

Entries == now <= MaxNow /\ \A k \in Keys : EntryOf(k)

BaseInv == ScheduleTypeOK /\ Entries

LEMMA ConstantTypes ==
    /\ Ttl \in Nat \ {0} /\ Ttl \in Ttls /\ Threshold \in Nat
    /\ HbEvery \in Nat \ {0} /\ SnapEvery \in Nat \ {0} /\ Lag \in Nat
    /\ Lag < HbEvery /\ Lag < SnapEvery
    /\ \A f \in Frames : f.skew \in Int /\ f.equity \in BOOLEAN
    /\ Nothing \notin Keys /\ Find \notin Keys /\ Nothing # Find
    /\ MaxNow \in Nat /\ Never \notin Int /\ Null \notin Values
  BY ScheduleConstants, CacheConstants

\* A frame that arrives is a value of the cache.
LEMMA FrameIsValue ==
    ASSUME BaseInv, NEW f \in Frames
    PROVE  [ts |-> now + f.skew, equity |-> f.equity] \in Values
<1>1. now \in 0..MaxNow
  BY ConstantTypes DEF BaseInv, Entries, ScheduleTypeOK, CacheTypeOK
<1> QED
  BY <1>1, ScheduleConstants

\* Every step is a step of the cache, or leaves it alone.
LEMMA CacheMoves ==
    ASSUME BaseInv, [ScheduleNext]_svars
    PROVE  [CacheNext]_cacheVars
<1>1. ASSUME NEW k \in Keys, Telemetry(k) PROVE CacheNext
  <2>1. PICK f \in Frames : Setex(k, Ttl, [ts |-> now + f.skew, equity |-> f.equity])
    BY <1>1 DEF Telemetry
  <2> QED
    BY <2>1, FrameIsValue, ConstantTypes DEF CacheNext
<1>2. ASSUME NEW k \in Keys, HbCheck(k) \/ SnapTake(k) PROVE CacheNext
  BY <1>2 DEF HbCheck, SnapTake, CacheNext
<1>3. ASSUME Evict \/ Passes PROVE CacheNext
  BY <1>3 DEF Evict, Passes, CacheNext
<1>4. ASSUME NEW k \in Keys, Announced(k) \/ Left(k) \/ HbLands(k) \/ HbDone(k)
      PROVE  UNCHANGED cacheVars
  BY <1>4 DEF Announced, Left, HbLands, HbDone
<1>5. ASSUME HbFires \/ HbFound \/ HbFails \/ SnapFires \/ UNCHANGED svars
      PROVE  UNCHANGED cacheVars
  BY <1>5 DEF HbFires, HbFound, HbFails, SnapFires, svars
<1> QED
  BY <1>1, <1>2, <1>3, <1>4, <1>5 DEF ScheduleNext

\* What get finds is the agent's last frame, not yet a TTL old; when it finds
\* nothing there was none within the TTL.
LEMMA FoundIsFresh ==
    ASSUME BaseInv, NEW k \in Keys
    PROVE  /\ Found(k) # Null => /\ framed[k] \in Nat
                                 /\ now < framed[k] + Ttl
                                 /\ framed[k] <= raised[k] /\ raised[k] <= now
                                 /\ Found(k) \in Values
                                 /\ \E f \in Frames :
                                       /\ Found(k).ts = framed[k] + f.skew
                                       /\ Behind(f.skew) => steady[k] = Never
           /\ Found(k) = Null => framed[k] = Never \/ now - framed[k] >= Ttl
<1>1. store[k] \in Entry \cup {Absent} /\ now \in Nat
  BY DEF BaseInv, ScheduleTypeOK, CacheTypeOK
<1>2. EntryOf(k) /\ framed[k] \in Nat \cup {Never}
  BY DEF BaseInv, Entries, ScheduleTypeOK
<1>3. CASE store[k] = Absent
  BY <1>2, <1>3 DEF Found, EntryOf
<1>4. CASE store[k] # Absent
  <2>1. /\ framed[k] \in Nat /\ store[k].expiresAt = framed[k] + Ttl
        /\ framed[k] <= raised[k] /\ raised[k] <= now
        /\ \E f \in Frames : /\ store[k].value.ts = framed[k] + f.skew
                             /\ Behind(f.skew) => steady[k] = Never
    BY <1>2, <1>4, ConstantTypes DEF EntryOf
  <2>2. store[k].value \in Values
    BY <1>1, <1>4 DEF Entry
  <2>3. CASE Overdue(k)
    BY <1>1, <2>1, <2>3, ConstantTypes DEF Found, Overdue
  <2>4. CASE ~Overdue(k)
    <3>1. Found(k) = store[k].value
      BY <1>4, <2>4 DEF Found
    <3>2. now < framed[k] + Ttl
      BY <1>1, <1>4, <2>1, <2>4, ConstantTypes DEF Overdue
    <3>3. Found(k) # Null
      BY <3>1, <2>2, ConstantTypes
    <3> QED
      BY <2>1, <2>2, <3>1, <3>2, <3>3
  <2> QED
    BY <2>3, <2>4
<1> QED
  BY <1>3, <1>4

\* The heartbeat's test: an EA that fails it has had no frame within the TTL, or
\* its last one was dated by a clock that is not fit; one that passes has had one.
LEMMA StaleIsOld ==
    ASSUME BaseInv, NEW k \in Keys
    PROVE  /\ Stale(k) => \/ framed[k] = Never \/ now - framed[k] >= Ttl
                          \/ steady[k] = Never
           /\ ~Stale(k) => framed[k] \in Nat /\ now < framed[k] + Ttl
                           /\ framed[k] <= raised[k]
<1>1. CASE Found(k) = Null
  BY <1>1, FoundIsFresh DEF Stale
<1>2. CASE Found(k) # Null
  <2>1. PICK f \in Frames : /\ Found(k).ts = framed[k] + f.skew
                            /\ Behind(f.skew) => steady[k] = Never
    BY <1>2, FoundIsFresh
  <2>2. framed[k] \in Nat /\ now < framed[k] + Ttl /\ now \in Nat /\ framed[k] <= raised[k]
    BY <1>2, FoundIsFresh DEF BaseInv, ScheduleTypeOK, CacheTypeOK
  <2>3. f.skew \in Int
    BY ConstantTypes
  <2>4. Stale(k) => Behind(f.skew)
    BY <1>2, <2>1, <2>2, <2>3, ConstantTypes DEF Stale, Age, Behind
  <2> QED
    BY <2>1, <2>2, <2>4
<1> QED
  BY <1>1, <1>2


------------------------------------------------------------------------------
\* Types and entries

LEMMA PointType ==
    ASSUME BaseInv, NEW k \in Keys, Usable(k)
    PROVE  Recorded(k) \in Point
<1>1. Found(k) \in Values /\ now \in Nat
  BY FoundIsFresh DEF Usable, BaseInv, ScheduleTypeOK, CacheTypeOK
<1>2. Found(k).ts \in Int
  BY <1>1, ScheduleConstants
<1> QED
  BY <1>1, <1>2 DEF Recorded, Point

LEMMA TypeKept ==
    ASSUME BaseInv, [ScheduleNext]_svars
    PROVE  ScheduleTypeOK'
<1>1. CacheTypeOK'
  BY CacheMoves, CacheTypeNext DEF BaseInv, ScheduleTypeOK
<1>a. now \in Nat
  BY DEF BaseInv, ScheduleTypeOK, CacheTypeOK
<1>2. ASSUME NEW k \in Keys, Telemetry(k) PROVE ScheduleTypeOK'
  <2>1. PICK f \in Frames : steady' = [steady EXCEPT ![k] = SteadySince(k, f.skew)]
    BY <1>2 DEF Telemetry
  <2>2. SteadySince(k, f.skew) \in Nat \cup {Never}
    BY <1>a DEF SteadySince, BaseInv, ScheduleTypeOK
  <2> QED
    BY <1>1, <1>2, <1>a, <2>1, <2>2 DEF Telemetry, BaseInv, ScheduleTypeOK, hb, snap
<1>3. ASSUME NEW k \in Keys, Announced(k) \/ Left(k) PROVE ScheduleTypeOK'
  BY <1>1, <1>3, <1>a DEF Announced, Left, BaseInv, ScheduleTypeOK, hb, snap
<1>4. ASSUME NEW k \in Keys, HbCheck(k) \/ HbLands(k) \/ HbDone(k) PROVE ScheduleTypeOK'
  BY <1>1, <1>4 DEF HbCheck, HbLands, HbDone, BaseInv, ScheduleTypeOK, presence, snap
<1>5. ASSUME NEW k \in Keys, SnapTake(k) PROVE ScheduleTypeOK'
  <2>1. /\ snapTodo' \in SUBSET snapTodo
        /\ points' = points \/ (Usable(k) /\ points' = points \cup {Recorded(k)})
        /\ verdict' \in [Keys -> {"none", "due", "point", "failed", "unusable"}]
    BY <1>5 DEF SnapTake, Reached, BaseInv, ScheduleTypeOK
  <2>2. points' \in SUBSET Point
    BY <2>1, PointType DEF BaseInv, ScheduleTypeOK
  <2> QED
    BY <1>1, <1>5, <2>1, <2>2 DEF SnapTake, BaseInv, ScheduleTypeOK, presence, hb
<1>6. CASE HbFires \/ HbFound \/ HbFails
  BY <1>1, <1>6, ConstantTypes
     DEF HbFires, HbFound, HbFails, HbStart, BaseInv, ScheduleTypeOK, presence, snap
<1>7. CASE SnapFires
  <2>1. /\ snapTodo' \in SUBSET Keys /\ snapNext' = snapNext + SnapEvery
        /\ verdict' \in [Keys -> {"none", "due", "point", "failed", "unusable"}]
    BY <1>7 DEF SnapFires
  <2> QED
    BY <1>1, <1>7, <2>1, ConstantTypes DEF SnapFires, BaseInv, ScheduleTypeOK, presence, hb
<1>8. CASE Evict \/ Passes \/ UNCHANGED svars
  BY <1>1, <1>8 DEF Evict, Passes, svars, BaseInv, ScheduleTypeOK, presence, hb, snap
<1> QED
  BY <1>2, <1>3, <1>4, <1>5, <1>6, <1>7, <1>8 DEF ScheduleNext

\* Dropping overdue entries keeps what is said of entries.
LEMMA EvictionKeeps ==
    ASSUME BaseInv, NEW j \in Keys,
           store'[j] = store[j] \/ (Overdue(j) /\ store'[j] = Absent),
           UNCHANGED <<now, framed, raised, steady>>
    PROVE  EntryOf(j)'
<1>1. EntryOf(j) /\ now \in Nat
  BY DEF BaseInv, Entries, ScheduleTypeOK, CacheTypeOK
<1>2. CASE store'[j] = store[j]
  BY <1>1, <1>2 DEF EntryOf
<1>3. CASE Overdue(j) /\ store'[j] = Absent
  BY <1>1, <1>3, ConstantTypes DEF EntryOf, Overdue
<1> QED
  BY <1>2, <1>3

LEMMA EntriesKept ==
    ASSUME BaseInv, [ScheduleNext]_svars
    PROVE  Entries'
<1>a. now \in Nat /\ now <= MaxNow /\ \A k \in Keys : EntryOf(k)
  BY DEF BaseInv, Entries, ScheduleTypeOK, CacheTypeOK
<1>1. ASSUME NEW k \in Keys, Telemetry(k) PROVE Entries'
  <2>1. PICK f \in Frames :
          /\ Setex(k, Ttl, [ts |-> now + f.skew, equity |-> f.equity])
          /\ steady' = [steady EXCEPT ![k] = SteadySince(k, f.skew)]
    BY <1>1 DEF Telemetry
  <2>2. /\ store'[k] = [value |-> [ts |-> now + f.skew, equity |-> f.equity],
                         expiresAt |-> now + Ttl]
        /\ \A j \in Keys \ {k} : store'[j] = store[j]
        /\ now' = now
    BY <2>1 DEF Setex, BaseInv, ScheduleTypeOK, CacheTypeOK
  <2>3. /\ framed'[k] = now /\ raised'[k] = now
        /\ \A j \in Keys \ {k} : /\ framed'[j] = framed[j] /\ raised'[j] = raised[j]
                                  /\ steady'[j] = steady[j]
    BY <1>1, <2>1 DEF Telemetry, BaseInv, ScheduleTypeOK
  <2>4. store'[k] # Absent
    <3>1. store'[k] \in Entry
      BY <2>2, FrameIsValue, EntryShape, ConstantTypes, <1>a
    <3> QED
      BY <3>1, CacheConstants DEF Entry
  <2>5. Behind(f.skew) => steady'[k] = Never
    <3>1. steady'[k] = SteadySince(k, f.skew)
      BY <2>1 DEF BaseInv, ScheduleTypeOK
    <3> QED
      BY <3>1 DEF SteadySince
  <2>6. EntryOf(k)'
    <3>1. store'[k].value.ts = framed'[k] + f.skew
      BY <2>2, <2>3
    <3>2. now # Never
      BY <1>a, ConstantTypes
    <3> QED
      BY <2>2, <2>3, <2>4, <2>5, <3>1, <3>2, <1>a DEF EntryOf, Behind
  <2>7. \A j \in Keys \ {k} : EntryOf(j)'
    BY <2>2, <2>3, <1>a DEF EntryOf, Behind
  <2> QED
    BY <2>2, <2>6, <2>7, <1>a DEF Entries
<1>2. ASSUME NEW k \in Keys, Announced(k) \/ Left(k) PROVE Entries'
  <2>1. /\ UNCHANGED <<store, now, framed, steady>>
        /\ \A j \in Keys : raised'[j] = raised[j] \/ raised'[j] = now
    BY <1>2 DEF Announced, Left, BaseInv, ScheduleTypeOK, cacheVars
  <2>2. ASSUME NEW j \in Keys PROVE EntryOf(j)'
    <3>1. framed[j] \in Nat \cup {Never} /\ raised[j] \in Nat
      BY DEF BaseInv, ScheduleTypeOK
    <3> QED
      BY <2>1, <3>1, <1>a DEF EntryOf, Behind
  <2> QED
    BY <2>1, <2>2, <1>a DEF Entries
<1>3. ASSUME NEW k \in Keys, HbCheck(k) \/ SnapTake(k) PROVE Entries'
  <2>1. /\ UNCHANGED <<now, framed, raised, steady>>
        /\ \A j \in Keys : store'[j] = store[j] \/ (Overdue(j) /\ store'[j] = Absent)
    BY <1>3 DEF HbCheck, SnapTake, Get, presence, BaseInv, ScheduleTypeOK, CacheTypeOK
  <2> QED
    BY <2>1, EvictionKeeps, <1>a DEF Entries
<1>4. CASE Evict
  <2>1. /\ UNCHANGED <<now, framed, raised, steady>>
        /\ \A j \in Keys : store'[j] = store[j] \/ (Overdue(j) /\ store'[j] = Absent)
    BY <1>4 DEF Evict, Sweep, Swept, Overdue, presence
  <2> QED
    BY <2>1, EvictionKeeps, <1>a DEF Entries
<1>5. CASE Passes
  <2>1. UNCHANGED <<store, framed, raised, steady>> /\ now' = now + 1 /\ now < MaxNow
    BY <1>5 DEF Passes, Tick, presence
  <2>2. ASSUME NEW j \in Keys PROVE EntryOf(j)'
    <3>1. framed[j] \in Nat \cup {Never} /\ raised[j] \in Nat
      BY DEF BaseInv, ScheduleTypeOK
    <3> QED
      BY <2>1, <3>1, <1>a, ConstantTypes DEF EntryOf, Behind
  <2> QED
    BY <2>1, <2>2, <1>a, ConstantTypes DEF Entries
<1>6. ASSUME UNCHANGED <<cacheVars, raised, framed, steady>> PROVE Entries'
  BY <1>6, <1>a DEF cacheVars, Entries, EntryOf, Behind
<1>7. ASSUME NEW k \in Keys, HbLands(k) \/ HbDone(k) PROVE Entries'
  BY <1>6, <1>7 DEF HbLands, HbDone, presence
<1>8. CASE HbFires \/ HbFound \/ HbFails \/ SnapFires \/ UNCHANGED svars
  BY <1>6, <1>8 DEF HbFires, HbFound, HbFails, SnapFires, svars, presence
<1> QED
  BY <1>1, <1>2, <1>3, <1>4, <1>5, <1>7, <1>8 DEF ScheduleNext

LEMMA BaseInit == ScheduleInit => BaseInv
<1> SUFFICES ASSUME ScheduleInit PROVE BaseInv
  OBVIOUS
<1>1. ScheduleTypeOK
  <2>1. hbNext \in Nat /\ snapNext \in Nat
    BY ConstantTypes DEF ScheduleInit
  <2> QED
    BY <2>1 DEF ScheduleInit, CacheInit, ScheduleTypeOK, CacheTypeOK
<1>2. Entries
  BY ConstantTypes DEF ScheduleInit, CacheInit, Entries, EntryOf
<1> QED
  BY <1>1, <1>2 DEF BaseInv

LEMMA BaseNext == BaseInv /\ [ScheduleNext]_svars => BaseInv'
  BY TypeKept, EntriesKept DEF BaseInv

LEMMA BaseHolds == ScheduleSpec => []BaseInv
  BY BaseInit, BaseNext, PTL DEF ScheduleSpec

\* Documents, crons, cache and points keep their types.
THEOREM ScheduleTypeCorrect == ScheduleSpec => []ScheduleTypeOK
  BY BaseHolds, PTL DEF BaseInv

\* Under the crons too, the cache is a lease map.
THEOREM CronsSeeLease == ScheduleSpec => ImplementsLease
<1>1. ScheduleInit => CacheInit
  BY DEF ScheduleInit
<1> QED
  BY <1>1, BaseHolds, CacheMoves, CacheIsLease, PTL DEF ScheduleSpec, CacheSpec

------------------------------------------------------------------------------
(***************************************************************************)
(* The heartbeat on the clock.  A run that is under way, or an update it   *)
(* sent, started at most Lag ago, and the next run is due within a period. *)
(***************************************************************************)
HbOnTime ==
    /\ HbStart <= now /\ now <= hbNext
    /\ ~HbOver => now <= HbStart + Lag

LEMMA ClockTypes ==
    ASSUME BaseInv
    PROVE  /\ now \in Nat /\ hbNext \in Nat /\ snapNext \in Nat
           /\ \A k \in Keys : raised[k] \in Nat /\ raised[k] <= now
  BY DEF BaseInv, Entries, EntryOf, ScheduleTypeOK, CacheTypeOK

LEMMA OnTimeNext ==
    ASSUME BaseInv, HbOnTime, [ScheduleNext]_svars
    PROVE  HbOnTime'
<1>a. now \in Nat /\ hbNext \in Nat
  BY ClockTypes
<1>1. CASE HbFires
  BY <1>1, <1>a, ConstantTypes DEF HbFires, HbOnTime, HbStart, cacheVars
<1>2. CASE Passes
  BY <1>2, <1>a, ConstantTypes DEF Passes, Tick, HbOnTime, HbOver, HbStart, hb
<1>3. ASSUME UNCHANGED <<now, hbNext>>, ~HbOver PROVE HbOnTime'
  BY <1>3, <1>a DEF HbOnTime, HbStart
<1>4. ASSUME NEW k \in Keys, HbCheck(k) \/ HbLands(k) \/ HbDone(k) PROVE HbOnTime'
  BY <1>3, <1>4, ConstantTypes DEF HbCheck, HbLands, HbDone, Get, HbOver, cacheVars
<1>5. CASE HbFound \/ HbFails
  BY <1>3, <1>5, ConstantTypes DEF HbFound, HbFails, HbOver, cacheVars
<1>6. CASE UNCHANGED <<hb, now>>
  BY <1>6 DEF HbOnTime, HbOver, HbStart, hb
<1> QED
  BY <1>1, <1>2, <1>4, <1>5, <1>6
     DEF ScheduleNext, Telemetry, Setex, Announced, Left, SnapTake, Get, SnapFires, Evict,
         Sweep, svars, cacheVars

\* Between two runs nothing is awaited and no update is on its way.
LEMMA RunIsOver ==
    ASSUME BaseInv, HbOnTime, HbFires
    PROVE  HbOver
  BY ClockTypes, ConstantTypes DEF HbOnTime, HbFires, HbStart

LEMMA OnTimeInit == ScheduleInit => HbOnTime
  BY BaseInit, ClockTypes, ConstantTypes
     DEF ScheduleInit, CacheInit, HbOnTime, HbOver, HbStart

(***************************************************************************)
(* FreshSurvives speaks of the moment an update lands, and the check it    *)
(* rests on was earlier.  What the check saw is kept in Doubt: an update   *)
(* on its way is for an agent that is silent or not steady, or has become  *)
(* steady only since the run began.                                        *)
(***************************************************************************)
DoubtOf(k) ==
    \/ framed[k] = Never \/ now - framed[k] >= Ttl
    \/ steady[k] = Never \/ steady[k] >= HbStart

Doubt == \A k \in hbSent : DoubtOf(k)

FreshInv == BaseInv /\ HbOnTime /\ Doubt

LEMMA DoubtNext ==
    ASSUME FreshInv, [ScheduleNext]_svars
    PROVE  Doubt'
<1>a. /\ BaseInv /\ HbOnTime /\ Doubt /\ now \in Nat /\ hbNext \in Nat
      /\ framed \in [Keys -> Nat \cup {Never}] /\ steady \in [Keys -> Nat \cup {Never}]
      /\ hbSent \in SUBSET Keys /\ Never \notin Int /\ HbStart \in Int /\ HbStart <= now
  BY ClockTypes, ConstantTypes DEF FreshInv, BaseInv, ScheduleTypeOK, HbOnTime, HbStart
<1>1. ASSUME NEW k \in Keys, Telemetry(k) PROVE Doubt'
  <2>1. PICK f \in Frames : steady' = [steady EXCEPT ![k] = SteadySince(k, f.skew)]
    BY <1>1 DEF Telemetry
  <2>2. /\ framed' = [framed EXCEPT ![k] = now]
        /\ UNCHANGED <<hbSent, now, hbNext>>
    BY <1>1 DEF Telemetry, Setex, hb
  <2>3. k \in hbSent => DoubtOf(k)'
    <3>1. steady'[k] = SteadySince(k, f.skew)
      BY <1>a, <2>1
    <3>2. \/ SteadySince(k, f.skew) \in {Never, now}
          \/ /\ SteadySince(k, f.skew) = steady[k]
             /\ steady[k] # Never /\ now - framed[k] < Ttl
      BY DEF SteadySince
    <3>3. framed[k] = Never => steady[k] = Never
      BY <1>a DEF BaseInv, Entries, EntryOf
    <3> QED
      BY <1>a, <2>2, <3>1, <3>2, <3>3, ConstantTypes DEF Doubt, DoubtOf, HbStart
  <2>4. \A j \in hbSent \ {k} : DoubtOf(j)'
    BY <1>a, <2>1, <2>2 DEF Doubt, DoubtOf, HbStart
  <2> QED
    BY <2>2, <2>3, <2>4 DEF Doubt
<1>2. ASSUME NEW k \in Keys, HbCheck(k) PROVE Doubt'
  <2>1. UNCHANGED <<now, framed, steady, hbNext>>
    BY <1>2 DEF HbCheck, Get, presence
  <2>2. hbSent' = hbSent \/ (Stale(k) /\ hbSent' = hbSent \cup {k})
    BY <1>2 DEF HbCheck
  <2>3. Stale(k) => DoubtOf(k)
    BY <1>a, StaleIsOld DEF DoubtOf
  <2> QED
    BY <1>a, <2>1, <2>2, <2>3 DEF Doubt, DoubtOf, HbStart
<1>3. CASE HbFires
  BY <1>a, <1>3, RunIsOver DEF HbFires, HbOver, Doubt
<1>4. CASE Passes
  <2>1. now' = now + 1 /\ UNCHANGED <<framed, steady, hbNext, hbSent>>
    BY <1>4 DEF Passes, Tick, presence, hb
  <2> QED
    BY <1>a, <2>1, ConstantTypes DEF Doubt, DoubtOf, HbStart
<1>5. ASSUME hbSent' \in SUBSET hbSent, UNCHANGED <<now, framed, steady, hbNext>>
      PROVE  Doubt'
  BY <1>a, <1>5 DEF Doubt, DoubtOf, HbStart
<1>6. ASSUME NEW k \in Keys, HbLands(k) \/ HbDone(k) \/ Announced(k) \/ Left(k) \/ SnapTake(k)
      PROVE  Doubt'
  BY <1>5, <1>6
     DEF HbLands, HbDone, Announced, Left, SnapTake, Get, cacheVars, presence, hb
<1>7. CASE HbFound \/ HbFails \/ SnapFires \/ Evict \/ UNCHANGED svars
  BY <1>5, <1>7
     DEF HbFound, HbFails, SnapFires, Evict, Sweep, svars, cacheVars, presence, hb
<1> QED
  BY <1>1, <1>2, <1>3, <1>4, <1>6, <1>7 DEF ScheduleNext

LEMMA FreshHolds == ScheduleSpec => []FreshInv
<1>1. ScheduleInit => FreshInv
  BY BaseInit, OnTimeInit DEF FreshInv, ScheduleInit, Doubt
<1>2. FreshInv /\ [ScheduleNext]_svars => FreshInv'
  BY BaseNext, OnTimeNext, DoubtNext DEF FreshInv
<1> QED
  BY <1>1, <1>2, PTL DEF ScheduleSpec

\* However frames fall between a check and its update, the heartbeat never takes an
\* EA offline that has been sending steadily for longer than a run takes.
THEOREM SteadyAgentsSurvive == ScheduleSpec => FreshSurvives
<1> DEFINE Fresh == \A k \in hbSent \ hbSent' : online[k] /\ ~online'[k] => ~Steady(k)
<1>1. FreshInv /\ [ScheduleNext]_svars => Fresh
  <2> SUFFICES ASSUME FreshInv, NEW k \in hbSent PROVE ~Steady(k)
    OBVIOUS
  <2>1. /\ now \in Nat /\ hbNext \in Nat /\ k \in Keys
        /\ framed[k] \in Nat \cup {Never} /\ steady[k] \in Nat \cup {Never}
        /\ steady[k] # Never => framed[k] # Never
        /\ now <= HbStart + Lag /\ DoubtOf(k)
    BY ClockTypes
       DEF FreshInv, BaseInv, Entries, EntryOf, ScheduleTypeOK, HbOnTime, HbOver, Doubt
  <2> QED
    BY <2>1, ConstantTypes DEF Steady, DoubtOf, HbStart
<1>2. FreshInv /\ [ScheduleNext]_svars => [Fresh]_svars
  BY <1>1
<1> QED
  BY <1>2, FreshHolds, PTL DEF ScheduleSpec, FreshSurvives

(***************************************************************************)
(* NoticedInTime is not inductive: what bounds an agent's time online is   *)
(* the run it met last.  An agent is still to be met by the current run    *)
(* until it has passed the check or its update has landed; it is online    *)
(* only if the last run it met started less than a TTL after it was        *)
(* raised, or a run that failed started no earlier.                        *)
(***************************************************************************)
Unmet(k) == hbAwaits = Find \/ k \in hbTodo \/ k \in hbSent

MetSince(k) == IF Unmet(k) THEN HbStart - HbEvery ELSE HbStart

MetEarly ==
    \A k \in Keys : online[k] => \/ MetSince(k) < raised[k] + Ttl
                                 \/ hbFailed # Never /\ hbFailed >= MetSince(k)

NoticeInv == BaseInv /\ HbOnTime /\ MetEarly

LEMMA MetNext ==
    ASSUME NoticeInv, [ScheduleNext]_svars
    PROVE  MetEarly'
<1> SUFFICES ASSUME NEW k \in Keys, online'[k]
             PROVE  \/ MetSince(k)' < raised'[k] + Ttl
                    \/ hbFailed' # Never /\ hbFailed' >= MetSince(k)'
  BY DEF MetEarly
<1>a. /\ BaseInv /\ HbOnTime
      /\ now \in Nat /\ hbNext \in Nat /\ raised[k] \in Nat /\ raised[k] <= now
      /\ HbStart \in Int /\ HbStart = hbNext - HbEvery /\ HbStart <= now
      /\ online[k] => \/ MetSince(k) < raised[k] + Ttl
                      \/ hbFailed # Never /\ hbFailed >= MetSince(k)
  BY ClockTypes, ConstantTypes DEF NoticeInv, HbOnTime, MetEarly, HbStart
<1>b. hbNext' = hbNext => /\ HbStart' = HbStart
                          /\ MetSince(k)' \in Int /\ MetSince(k)' <= HbStart
                          /\ (Unmet(k)' <=> Unmet(k)) => MetSince(k)' = MetSince(k)
  BY <1>a, ConstantTypes DEF MetSince, HbStart
<1>1. ASSUME NEW j \in Keys, Telemetry(j) \/ Announced(j) \/ Left(j)
      PROVE  \/ MetSince(k)' < raised'[k] + Ttl
             \/ hbFailed' # Never /\ hbFailed' >= MetSince(k)'
  <2>1. UNCHANGED <<hbNext, hbAwaits, hbTodo, hbSent, hbFailed>>
    BY <1>1 DEF Telemetry, Announced, Left, hb
  <2>2. \/ raised'[k] = now
        \/ online[k] /\ raised'[k] = raised[k]
    BY <1>1 DEF Telemetry, Announced, Left, NoticeInv, BaseInv, ScheduleTypeOK
  <2>3. MetSince(k)' = MetSince(k)
    BY <1>b, <2>1 DEF Unmet
  <2> QED
    BY <1>a, <1>b, <2>1, <2>2, <2>3, ConstantTypes
<1>2. CASE HbFires
  <2>1. ~Unmet(k)
    BY <1>2, <1>a, RunIsOver, ConstantTypes DEF HbOver, Unmet
  <2>2. /\ online[k] /\ raised' = raised /\ hbFailed' = hbFailed
        /\ hbAwaits' = Find /\ hbNext' = hbNext + HbEvery
    BY <1>2 DEF HbFires, presence
  <2>3. MetSince(k)' = MetSince(k)
    BY <1>a, <2>1, <2>2, ConstantTypes DEF MetSince, Unmet, HbStart
  <2> QED
    BY <1>a, <2>2, <2>3
<1>3. ASSUME NEW j \in Keys, HbCheck(j)
      PROVE  \/ MetSince(k)' < raised'[k] + Ttl
             \/ hbFailed' # Never /\ hbFailed' >= MetSince(k)'
  <2>1. UNCHANGED <<hbNext, raised, online, hbFailed>>
    BY <1>3 DEF HbCheck, presence
  <2>2. CASE j = k /\ ~Stale(k)
    <3>1. framed[k] \in Nat /\ now < framed[k] + Ttl /\ framed[k] <= raised[k]
      BY <1>a, <2>2, StaleIsOld
    <3> QED
      BY <1>a, <1>b, <2>1, <3>1, ConstantTypes
  <2>3. CASE j # k \/ Stale(k)
    <3>1. Unmet(k)' <=> Unmet(k)
      BY <1>3, <2>3, ConstantTypes DEF HbCheck, Unmet
    <3> QED
      BY <1>a, <1>b, <2>1, <3>1
  <2> QED
    BY <2>2, <2>3
<1>4. ASSUME NEW j \in Keys, HbLands(j) \/ HbDone(j)
      PROVE  \/ MetSince(k)' < raised'[k] + Ttl
             \/ hbFailed' # Never /\ hbFailed' >= MetSince(k)'
  <2>1. UNCHANGED <<hbNext, raised, hbFailed>> /\ online[k] /\ (HbLands(j) => j # k)
    BY <1>4 DEF HbLands, HbDone, presence, NoticeInv, BaseInv, ScheduleTypeOK
  <2>2. Unmet(k)' <=> Unmet(k)
    BY <1>4, <2>1, ConstantTypes DEF HbLands, HbDone, Unmet
  <2> QED
    BY <1>a, <1>b, <2>1, <2>2
<1>5. CASE HbFound
  <2>1. UNCHANGED <<hbNext, raised, hbFailed, online>> /\ Unmet(k) /\ Unmet(k)'
    BY <1>5 DEF HbFound, presence, Unmet
  <2> QED
    BY <1>a, <1>b, <2>1
<1>6. CASE HbFails
  <2>1. hbNext' = hbNext /\ hbFailed' = HbStart
    BY <1>6 DEF HbFails
  <2> QED
    BY <1>a, <1>b, <2>1, ConstantTypes
<1>7. CASE UNCHANGED <<hb, online, raised>>
  <2>1. UNCHANGED <<hbNext, hbFailed, online, raised>> /\ (Unmet(k)' <=> Unmet(k))
    BY <1>7 DEF hb, Unmet
  <2> QED
    BY <1>a, <1>b, <2>1
<1> QED
  BY <1>1, <1>2, <1>3, <1>4, <1>5, <1>6, <1>7
     DEF ScheduleNext, SnapTake, SnapFires, Evict, Passes, svars, presence

\* No agent stays online longer than TTL, period and run time together without
\* a frame or an announcement, or longer than period and run time after the start
\* of the last run that failed.
THEOREM DeadAgentsNoticed == ScheduleSpec => []NoticedInTime
<1>1. ScheduleInit => NoticeInv
  BY BaseInit, OnTimeInit, ConstantTypes, ClockTypes
     DEF ScheduleInit, CacheInit, NoticeInv, MetEarly, MetSince, Unmet, HbStart
<1>2. NoticeInv /\ [ScheduleNext]_svars => NoticeInv'
  BY BaseNext, OnTimeNext, MetNext DEF NoticeInv
<1>3. NoticeInv => NoticedInTime
  <2> SUFFICES ASSUME NoticeInv, NEW k \in Keys, online[k]
               PROVE  \/ now - raised[k] < Ttl + HbEvery + Lag
                      \/ hbFailed # Never /\ now - hbFailed <= HbEvery + Lag
    BY DEF NoticedInTime
  <2>1. /\ now \in Nat /\ hbNext \in Nat /\ raised[k] \in Nat
        /\ hbFailed \in Int \cup {Never}
        /\ \/ MetSince(k) < raised[k] + Ttl
           \/ hbFailed # Never /\ hbFailed >= MetSince(k)
    BY ClockTypes DEF NoticeInv, BaseInv, ScheduleTypeOK, MetEarly
  <2>2. MetSince(k) \in Int /\ now <= MetSince(k) + HbEvery + Lag
    <3>1. Unmet(k) => ~HbOver
      BY ConstantTypes DEF Unmet, HbOver
    <3> QED
      BY <2>1, <3>1, ConstantTypes DEF NoticeInv, HbOnTime, MetSince, HbStart
  <2> QED
    BY <2>1, <2>2, ConstantTypes
<1> QED
  BY <1>1, <1>2, <1>3, PTL DEF ScheduleSpec

------------------------------------------------------------------------------
\* Points

\* Every point of the last step is an earlier one or shows what is cached now.
LEMMA PointsGrow ==
    ASSUME [ScheduleNext]_svars
    PROVE  \/ UNCHANGED points
           \/ \E k \in Keys : SnapTake(k) /\ Usable(k) /\ points' = points \cup {Recorded(k)}
<1>1. ASSUME NEW k \in Keys, SnapTake(k)
      PROVE  \/ UNCHANGED points
             \/ Usable(k) /\ points' = points \cup {Recorded(k)}
  BY <1>1 DEF SnapTake
<1> QED
  BY <1>1 DEF ScheduleNext, Telemetry, Announced, Left, HbCheck, HbLands, HbDone, HbFires,
              HbFound, HbFails, SnapFires, Evict, Passes, svars, snap

\* A point shows what the EA sent within the TTL before it was recorded.
THEOREM PointsShowFrames == ScheduleSpec => []PointsAreFresh
<1>1. ScheduleInit => PointsAreFresh
  BY DEF ScheduleInit, PointsAreFresh
<1>2. BaseInv /\ PointsAreFresh /\ [ScheduleNext]_svars => PointsAreFresh'
  <2> SUFFICES ASSUME BaseInv, PointsAreFresh, [ScheduleNext]_svars
               PROVE  PointsAreFresh'
    OBVIOUS
  <2>1. ASSUME NEW k \in Keys, Usable(k)
        PROVE  \E f \in Frames : /\ Recorded(k).at + f.skew - Ttl < Recorded(k).ts
                                 /\ Recorded(k).ts <= Recorded(k).at + f.skew
    <3>1. PICK f \in Frames : Found(k).ts = framed[k] + f.skew
      BY <2>1, FoundIsFresh DEF Usable
    <3>2. /\ framed[k] \in Nat /\ now \in Nat /\ framed[k] <= now
          /\ now < framed[k] + Ttl /\ f.skew \in Int
      <4>1. raised[k] \in Nat /\ now \in Nat
        BY ClockTypes
      <4> QED
        BY <2>1, <4>1, FoundIsFresh, ConstantTypes DEF Usable
    <3> QED
      BY <3>1, <3>2, ConstantTypes DEF Recorded
  <2> QED
    BY <2>1, PointsGrow DEF PointsAreFresh
<1> QED
  BY <1>1, <1>2, BaseHolds, PTL DEF ScheduleSpec

(***************************************************************************)
(* OnceAMinute speaks of the points since the last run started.  A run     *)
(* that is under way started at most Lag ago, so that no point of it is as *)
(* young as the next run, and an agent is due exactly while it is to do.   *)
(***************************************************************************)
SnapOnTime ==
    /\ snapNext - SnapEvery <= now /\ now <= snapNext
    /\ snapTodo # {} => now <= snapNext - SnapEvery + Lag
    /\ \A p \in points : p.at < snapNext

Taken(k) == {p \in points : p.agent = k /\ p.at >= snapNext - SnapEvery}

Sampled ==
    \A k \in Keys :
        /\ verdict[k] = "due" <=> k \in snapTodo
        /\ verdict[k] \notin {"point", "failed"} => Taken(k) = {}
        /\ verdict[k] = "failed" => Taken(k) = {} \/ \E p \in points : Taken(k) = {p}
        /\ verdict[k] = "point" => \E p \in points : Taken(k) = {p}

SampleInv == BaseInv /\ SnapOnTime /\ Sampled

LEMMA SnapClock ==
    ASSUME SampleInv
    PROVE  /\ now \in Nat /\ snapNext \in Nat
           /\ \A p \in points : p.agent \in Keys /\ p.at \in Nat
           /\ snapTodo # {} => now < snapNext
  BY ClockTypes, ConstantTypes
     DEF SampleInv, SnapOnTime, BaseInv, ScheduleTypeOK, Point

LEMMA SnapTakeKeeps ==
    ASSUME SampleInv, NEW k \in Keys, SnapTake(k)
    PROVE  SnapOnTime' /\ Sampled'
<1>1. /\ k \in snapTodo /\ snapTodo' = snapTodo \ {k} /\ UNCHANGED <<now, snapNext>>
      /\ verdict'[k] \in {"point", "failed", "unusable"}
      /\ \A j \in Keys \ {k} : verdict'[j] = verdict[j]
      /\ \/ points' = points \cup {Recorded(k)} /\ verdict'[k] # "unusable"
         \/ points' = points /\ verdict'[k] # "point"
  BY DEF SnapTake, Reached, Get, SampleInv, BaseInv, ScheduleTypeOK
<1>2. Recorded(k).agent = k /\ Recorded(k).at = now
  BY DEF Recorded
<1>3. snapNext - SnapEvery <= now /\ now < snapNext
  BY <1>1, SnapClock DEF SampleInv, SnapOnTime
<1>4. SnapOnTime'
  BY <1>1, <1>2, <1>3, SnapClock DEF SampleInv, SnapOnTime
<1>5. Taken(k) = {}
  BY <1>1 DEF SampleInv, Sampled
<1>6. \A j \in Keys \ {k} : Taken(j)' = Taken(j)
  BY <1>1, <1>2 DEF Taken
<1>7. \/ Taken(k)' = {Recorded(k)} /\ Recorded(k) \in points' /\ verdict'[k] # "unusable"
      \/ Taken(k)' = {} /\ verdict'[k] # "point"
  BY <1>1, <1>2, <1>3, <1>5 DEF Taken
<1>8. Sampled'
  BY <1>1, <1>6, <1>7 DEF SampleInv, Sampled
<1> QED
  BY <1>4, <1>8

LEMMA SampleNext == SampleInv /\ [ScheduleNext]_svars => SampleInv'
<1> SUFFICES ASSUME SampleInv, [ScheduleNext]_svars PROVE SnapOnTime' /\ Sampled'
  BY BaseNext DEF SampleInv
<1>1. ASSUME NEW k \in Keys, SnapTake(k) PROVE SnapOnTime' /\ Sampled'
  BY <1>1, SnapTakeKeeps
<1>2. CASE SnapFires
  <2>1. /\ now = snapNext /\ snapNext' = now + SnapEvery /\ UNCHANGED <<now, points>>
        /\ verdict' = [k \in Keys |-> IF k \in snapTodo' THEN "due" ELSE "none"]
    BY <1>2 DEF SnapFires, cacheVars
  <2>2. SnapOnTime'
    BY <2>1, SnapClock, ConstantTypes DEF SampleInv, SnapOnTime
  <2>3. ASSUME NEW k \in Keys PROVE Taken(k)' = {}
    BY <2>1, SnapClock, ConstantTypes DEF Taken, SampleInv, SnapOnTime
  <2>4. Sampled'
    BY <2>1, <2>3 DEF Sampled
  <2> QED
    BY <2>2, <2>4
<1>3. CASE UNCHANGED snap /\ (now' = now \/ Passes)
  <2>1. SnapOnTime'
    BY <1>3, SnapClock, ConstantTypes DEF SampleInv, SnapOnTime, snap, Passes, Tick
  <2>2. Sampled'
    BY <1>3 DEF SampleInv, Sampled, Taken, snap
  <2> QED
    BY <2>1, <2>2
<1> QED
  BY <1>1, <1>2, <1>3
     DEF ScheduleNext, Telemetry, Setex, Announced, Left, HbFires, HbFound, HbFails, HbCheck,
         HbLands, HbDone, Get, Evict, Sweep, Passes, svars, cacheVars

\* Each run takes one point of every instance it found, except where the frame
\* was unusable or that instance's own write failed.
THEOREM PointsOnceAMinute == ScheduleSpec => []OnceAMinute
<1>1. ScheduleInit => SampleInv
  BY BaseInit, ConstantTypes
     DEF ScheduleInit, CacheInit, SampleInv, SnapOnTime, Sampled, Taken
<1>2. SampleInv => OnceAMinute
  <2> SUFFICES ASSUME SampleInv, NEW k \in Keys
               PROVE  /\ snapTodo = {} => verdict[k] # "due"
                      /\ Cardinality(Taken(k)) \in CASE verdict[k] = "point"  -> {1}
                                                     [] verdict[k] = "failed" -> {0, 1}
                                                     [] OTHER                 -> {0}
    BY DEF OnceAMinute, Taken
  <2>1. Taken(k) = {} => Cardinality(Taken(k)) = 0
    BY FS_EmptySet
  <2>2. ASSUME NEW p \in points, Taken(k) = {p} PROVE Cardinality(Taken(k)) = 1
    BY <2>2, FS_Singleton
  <2>3. CASE verdict[k] = "point"
    BY <2>2, <2>3 DEF SampleInv, Sampled
  <2>4. CASE verdict[k] = "failed"
    BY <2>1, <2>2, <2>4 DEF SampleInv, Sampled
  <2>5. CASE verdict[k] \notin {"point", "failed"}
    BY <2>1, <2>5 DEF SampleInv, Sampled
  <2> QED
    BY <2>3, <2>4, <2>5 DEF SampleInv, Sampled
<1> QED
  BY <1>1, <1>2, SampleNext, PTL DEF ScheduleSpec

------------------------------------------------------------------------------
\* What the queries answer from the points

LEMMA PointsFinite == ScheduleSpec => []IsFiniteSet(points)
<1>1. ScheduleInit => IsFiniteSet(points)
  BY FS_EmptySet DEF ScheduleInit
<1>2. IsFiniteSet(points) /\ [ScheduleNext]_svars => IsFiniteSet(points)'
  BY PointsGrow, FS_AddElement
<1> QED
  BY <1>1, <1>2, PTL DEF ScheduleSpec

LEMMA PointsOfShape ==
    ASSUME ScheduleTypeOK, IsFiniteSet(points), NEW k \in Keys
    PROVE  IsFiniteSet(PointsOf(k)) /\ \A p \in PointsOf(k) : p.ts \in Int
<1>1. PointsOf(k) \in SUBSET points
  BY DEF PointsOf
<1> QED
  BY <1>1, FS_Subset DEF ScheduleTypeOK, Point

\* However the crons, frames and failures interleave and whatever the clocks say,
\* the chart of every agent shows its newest points.
THEOREM ChartsAreNewest == ScheduleSpec => []ChartIsNewest
<1>1. ScheduleTypeOK /\ IsFiniteSet(points) => ChartIsNewest
  <2> SUFFICES ASSUME ScheduleTypeOK, IsFiniteSet(points), NEW k \in Keys,
                      NEW limit \in 1..(Cap + 1), NEW chart \in getPnlHistory(PointsOf(k), limit)
               PROVE  IsChart(chart, PointsOf(k), limit)
    BY DEF ChartIsNewest
  <2>1. limit \in Nat \ {0}
    BY QueryTypes
  <2> QED
    BY <2>1, PointsOfShape, ChartIsRight
<1> QED
  BY <1>1, PointsFinite, ScheduleTypeCorrect, PTL

\* And its summary has the last point of each wanted day.
THEOREM SummariesAreDaily == ScheduleSpec => []SummaryIsDaily
<1>1. ScheduleTypeOK /\ IsFiniteSet(points) => SummaryIsDaily
  BY PointsOfShape, SummaryIsRight DEF SummaryIsDaily
<1> QED
  BY <1>1, PointsFinite, ScheduleTypeCorrect, PTL

==============================================================================
