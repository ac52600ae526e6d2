---------------------------- MODULE TtlCacheProofs ----------------------------
(***************************************************************************)
(* The cache implements a lease map for every set of keys, values and      *)
(* lifetimes and for a clock of any range.                                 *)
(***************************************************************************)
EXTENDS TtlCache, TLAPS

LEMMA EntryShape ==
    ASSUME NEW v \in Values, NEW n \in Nat
    PROVE  [value |-> v, expiresAt |-> n] \in Entry
  BY DEF Entry

LEMMA CacheTypeNext == CacheTypeOK /\ [CacheNext]_cacheVars => CacheTypeOK'
<1> SUFFICES ASSUME CacheTypeOK, [CacheNext]_cacheVars PROVE CacheTypeOK'
  OBVIOUS
<1>1. ASSUME NEW k \in Keys, NEW ttl \in Ttls, NEW v \in Values, Setex(k, ttl, v)
      PROVE  CacheTypeOK'
  <2>1. now + ttl \in Nat
    BY CacheConstants DEF CacheTypeOK
  <2>2. [value |-> v, expiresAt |-> now + ttl] \in Entry
    BY <2>1, EntryShape
  <2> QED
    BY <1>1, <2>2 DEF Setex, CacheTypeOK
<1>2. ASSUME NEW k \in Keys, Get(k) PROVE CacheTypeOK'
  <2>1. Found(k) \in Values \cup {Null}
    BY DEF Found, CacheTypeOK, Entry
  <2> QED
    BY <1>2, <2>1 DEF Get, CacheTypeOK
<1>3. ASSUME NEW k \in Keys, Del(k) PROVE CacheTypeOK'
  BY <1>3 DEF Del, CacheTypeOK
<1>4. CASE Sweep
  BY <1>4 DEF Sweep, CacheTypeOK
<1>5. CASE Tick
  BY <1>5 DEF Tick, CacheTypeOK
<1>6. CASE Dispose \/ UNCHANGED cacheVars
  BY <1>6, Zenon DEF Dispose, cacheVars, CacheTypeOK
<1> QED
  BY <1>1, <1>2, <1>3, <1>4, <1>5, <1>6 DEF CacheNext

\* The Map holds well-formed entries only, and get answers a value or null.
THEOREM CacheTypeCorrect == CacheSpec => []CacheTypeOK
<1>1. CacheInit => CacheTypeOK
  BY DEF CacheInit, CacheTypeOK
<1> QED
  BY <1>1, CacheTypeNext, PTL DEF CacheSpec

------------------------------------------------------------------------------
\* The lease map's view of the cache.
Seen == [k \in Keys |-> IF Live(k) THEN store[k].value ELSE Null]
Span == [k \in Keys |-> IF Live(k) THEN store[k].expiresAt - now ELSE 0]

\* An entry is live or overdue, and is a record in both cases.
LEMMA LiveOrOverdue ==
    ASSUME CacheTypeOK, NEW k \in Keys, store[k] # Absent
    PROVE  /\ store[k] \in Entry
           /\ store[k].expiresAt \in Nat
           /\ Live(k) <=> ~Overdue(k)
  BY DEF CacheTypeOK, Entry, Live, Overdue

\* Evicting overdue entries is invisible.
LEMMA EvictionUnseen ==
    ASSUME CacheTypeOK, NEW K \in SUBSET {k \in Keys : Overdue(k)},
           store' = [k \in Keys |-> IF k \in K THEN Absent ELSE store[k]],
           now' = now
    PROVE  Seen' = Seen /\ Span' = Span
<1>1. \A k \in Keys : Live(k)' <=> Live(k)
  BY LiveOrOverdue DEF Live, Overdue, CacheTypeOK
<1>2. \A k \in Keys : Live(k) => store'[k] = store[k]
  BY LiveOrOverdue DEF Live, Overdue, CacheTypeOK
<1> QED
  BY <1>1, <1>2 DEF Seen, Span

LEMMA SetexGrants ==
    ASSUME CacheTypeOK, NEW k \in Keys, NEW ttl \in Ttls, NEW v \in Values, Setex(k, ttl, v)
    PROVE  Lease!Grant(k, v, ttl)
<1>1. ttl \in Nat /\ now \in Nat
  BY CacheConstants DEF CacheTypeOK
<1>2. [value |-> v, expiresAt |-> now + ttl] # Absent
  BY <1>1, EntryShape, CacheConstants DEF Entry
<1>3. /\ store'[k] = [value |-> v, expiresAt |-> now + ttl]
      /\ \A j \in Keys \ {k} : store'[j] = store[j]
      /\ now' = now
  BY DEF Setex, CacheTypeOK
<1>4. /\ Live(k)' <=> ttl > 0
      /\ \A j \in Keys \ {k} : Live(j)' <=> Live(j)
  BY <1>1, <1>2, <1>3 DEF Live
<1>5. Seen' = [Seen EXCEPT ![k] = IF ttl > 0 THEN v ELSE Null]
  <2>1. Seen'[k] = IF ttl > 0 THEN v ELSE Null
    BY <1>3, <1>4 DEF Seen
  <2>2. \A j \in Keys \ {k} : Seen'[j] = Seen[j]
    BY <1>3, <1>4 DEF Seen
  <2> QED
    BY <2>1, <2>2 DEF Seen
<1>6. Span' = [Span EXCEPT ![k] = ttl]
  <2>1. Span'[k] = ttl
    BY <1>1, <1>3, <1>4 DEF Span
  <2>2. \A j \in Keys \ {k} : Span'[j] = Span[j]
    BY <1>3, <1>4 DEF Span
  <2> QED
    BY <2>1, <2>2 DEF Span
<1> QED
  BY <1>5, <1>6 DEF Lease!Grant, Setex, Seen, Span

LEMMA GetLooks ==
    ASSUME CacheTypeOK, NEW k \in Keys, Get(k)
    PROVE  Lease!Look(k)
<1>1. \E K \in SUBSET {j \in Keys : Overdue(j)} :
         store' = [j \in Keys |-> IF j \in K THEN Absent ELSE store[j]]
  <2>1. CASE Overdue(k)
    <3>1. store' = [j \in Keys |-> IF j \in {k} THEN Absent ELSE store[j]]
      BY <2>1 DEF Get, CacheTypeOK
    <3>2. {k} \in SUBSET {j \in Keys : Overdue(j)}
      BY <2>1
    <3> QED
      BY <3>1, <3>2
  <2>2. CASE ~Overdue(k)
    <3>1. store' = [j \in Keys |-> IF j \in {} THEN Absent ELSE store[j]]
      BY <2>2 DEF Get, CacheTypeOK
    <3>2. {} \in SUBSET {j \in Keys : Overdue(j)}
      OBVIOUS
    <3> QED
      BY <3>1, <3>2
  <2> QED
    BY <2>1, <2>2
<1>2. Seen' = Seen /\ Span' = Span
  BY <1>1, EvictionUnseen DEF Get
<1>3. answer' = Seen[k]
  BY LiveOrOverdue DEF Get, Found, Seen, Live
<1> QED
  BY <1>2, <1>3 DEF Lease!Look, Seen, Span

LEMMA DelRevokes ==
    ASSUME CacheTypeOK, NEW k \in Keys, Del(k)
    PROVE  Lease!Revoke(k)
<1>1. /\ ~Live(k)'
      /\ \A j \in Keys \ {k} : store'[j] = store[j] /\ (Live(j)' <=> Live(j))
      /\ now' = now
  BY DEF Del, Live, CacheTypeOK
<1>2. Seen' = [Seen EXCEPT ![k] = Null]
  BY <1>1 DEF Seen
<1>3. Span' = [Span EXCEPT ![k] = 0]
  BY <1>1 DEF Span
<1> QED
  BY <1>2, <1>3 DEF Lease!Revoke, Del, Seen, Span

LEMMA TickLapses ==
    ASSUME CacheTypeOK, Tick
    PROVE  Lease!Lapse
<1>1. store' = store /\ now' = now + 1 /\ now \in Nat
  BY DEF Tick, CacheTypeOK
<1>2. ASSUME NEW k \in Keys
      PROVE  /\ Span[k] > 0 <=> Live(k)
             /\ Span[k] > 1 <=> Live(k)'
             /\ Live(k)' => Live(k)
             /\ Span'[k] = IF Span[k] > 0 THEN Span[k] - 1 ELSE 0
             /\ Seen'[k] = IF Span[k] > 1 THEN Seen[k] ELSE Null
  <2>1. CASE store[k] = Absent
    BY <1>1, <2>1 DEF Span, Seen, Live
  <2>2. CASE store[k] # Absent
    <3>1. store[k].expiresAt \in Nat
      BY <2>2, LiveOrOverdue
    <3> QED
      BY <1>1, <2>2, <3>1 DEF Span, Seen, Live
  <2> QED
    BY <2>1, <2>2
<1>3. Span' = [k \in Keys |-> IF Span[k] > 0 THEN Span[k] - 1 ELSE 0]
  BY <1>2 DEF Span
<1>4. Seen' = [k \in Keys |-> IF Span[k] > 1 THEN Seen[k] ELSE Null]
  BY <1>2 DEF Seen
<1> QED
  BY <1>3, <1>4 DEF Lease!Lapse, Tick, Seen, Span

LEMMA CacheStep ==
    CacheTypeOK /\ [CacheNext]_cacheVars => [Lease!LeaseNext]_<<Seen, Span, answer>>
<1> SUFFICES ASSUME CacheTypeOK, [CacheNext]_cacheVars
             PROVE  Lease!LeaseNext \/ UNCHANGED <<Seen, Span, answer>>
  OBVIOUS
<1>1. ASSUME NEW k \in Keys, NEW ttl \in Ttls, NEW v \in Values, Setex(k, ttl, v)
      PROVE  Lease!LeaseNext
  BY <1>1, SetexGrants DEF Lease!LeaseNext
<1>2. ASSUME NEW k \in Keys, Get(k) \/ Del(k) PROVE Lease!LeaseNext
  BY <1>2, GetLooks, DelRevokes DEF Lease!LeaseNext
<1>3. CASE Tick
  BY <1>3, TickLapses DEF Lease!LeaseNext
<1>4. CASE Sweep
  <2>1. Swept \in SUBSET {k \in Keys : Overdue(k)}
    BY DEF Swept, Overdue
  <2> QED
    BY <1>4, <2>1, EvictionUnseen DEF Sweep
<1>5. CASE Dispose \/ UNCHANGED cacheVars
  BY <1>5 DEF Dispose, cacheVars, Seen, Span, Live
<1> QED
  BY <1>1, <1>2, <1>3, <1>4, <1>5 DEF CacheNext

\* Readers of the cache cannot tell it from a lease map.
THEOREM CacheIsLease == CacheSpec => ImplementsLease
<1>1. CacheInit => Lease!LeaseInit
  BY DEF CacheInit, Lease!LeaseInit, Live
<1> QED
  BY <1>1, CacheStep, CacheTypeCorrect, PTL
     DEF CacheSpec, ImplementsLease, Lease!LeaseSpec, Seen, Span

==============================================================================
