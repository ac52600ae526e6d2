------------------------------- MODULE TtlCache -------------------------------
(***************************************************************************)
(* The in-process cache of src/src/common/cache/ttl-cache.ts: a Map whose  *)
(* entries carry an absolute deadline, evicted by the reader that meets    *)
(* them too late and by a periodic sweep.  Time is counted in seconds.     *)
(***************************************************************************)
EXTENDS Naturals

CONSTANTS Keys, Values,
          Ttls,     \* ttlSeconds a caller may pass
          Null,     \* get's answer when there is nothing to return
          Absent,   \* the Map has no entry
          MaxNow    \* bound: Date.now()

ASSUME CacheConstants ==
    /\ Ttls \subseteq Nat
    /\ MaxNow \in Nat
    /\ Null \notin Values
    /\ Absent \notin [value : Values, expiresAt : Nat]

VARIABLES store,    \* the Map: key -> entry
          now,      \* Date.now()
          timer,    \* sweepTimer is running
          answer    \* what the last get returned

cacheVars == <<store, now, timer, answer>>

Entry == [value : Values, expiresAt : Nat]

CacheTypeOK ==
    /\ store \in [Keys -> Entry \cup {Absent}]
    /\ now \in Nat
    /\ timer \in BOOLEAN
    /\ answer \in Values \cup {Null}

CacheInit ==
    /\ store = [k \in Keys |-> Absent]
    /\ now = 0
    /\ timer = TRUE
    /\ answer = Null

Setex(k, ttl, v) ==
    /\ store' = [store EXCEPT ![k] = [value |-> v, expiresAt |-> now + ttl]]
    /\ UNCHANGED <<now, timer, answer>>

\* Mutant: an entry is still good in the second in which it expires.
Overdue_Strict(k) == store[k] # Absent /\ store[k].expiresAt < now

\* get: the entry's deadline has come.
Overdue(k) == store[k] # Absent /\ store[k].expiresAt <= now

Found(k) == IF store[k] = Absent \/ Overdue(k) THEN Null ELSE store[k].value

\* get, which evicts an entry it finds overdue.
Get(k) ==
    /\ answer' = Found(k)
    /\ store' = IF Overdue(k) THEN [store EXCEPT ![k] = Absent] ELSE store
    /\ UNCHANGED <<now, timer>>

Del(k) ==
    /\ store' = [store EXCEPT ![k] = Absent]
    /\ UNCHANGED <<now, timer, answer>>

\* Mutant: a sweep whose test is inverted.
Swept_Inverted == {k \in Keys : store[k] # Absent /\ store[k].expiresAt > now}

\* The entries a sweep deletes, by a comparison of its own.
Swept == {k \in Keys : store[k] # Absent /\ store[k].expiresAt <= now}

Sweep ==
    /\ timer
    /\ store' = [k \in Keys |-> IF k \in Swept THEN Absent ELSE store[k]]
    /\ UNCHANGED <<now, timer, answer>>

Dispose ==
    /\ timer' = FALSE
    /\ UNCHANGED <<store, now, answer>>

Tick ==
    /\ now < MaxNow
    /\ now' = now + 1
    /\ UNCHANGED <<store, timer, answer>>

CacheNext ==
    \/ \E k \in Keys, ttl \in Ttls, v \in Values : Setex(k, ttl, v)
    \/ \E k \in Keys : Get(k) \/ Del(k)
    \/ Sweep \/ Dispose
    \/ Tick

CacheSpec == CacheInit /\ [][CacheNext]_cacheVars

------------------------------------------------------------------------------
Live(k) == store[k] # Absent /\ now < store[k].expiresAt

Lease == INSTANCE LeaseMap WITH
    value <- [k \in Keys |-> IF Live(k) THEN store[k].value ELSE Null],
    left  <- [k \in Keys |-> IF Live(k) THEN store[k].expiresAt - now ELSE 0]

\* The cache is a lease map: absolute deadlines, the two ways of evicting and
\* dispose cannot be told from counting each entry down and dropping it at 0.
ImplementsLease == Lease!LeaseSpec

\* While the sweep timer runs, an entry nobody reads again does not stay in the
\* Map for ever: once overdue it is evicted or replaced, or dispose is called.
OverdueEvicted == \A k \in Keys : Overdue(k) ~> (~Overdue(k) \/ ~timer)

==============================================================================
