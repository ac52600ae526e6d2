--------------------------- MODULE ConsoleSchedule ---------------------------
(***************************************************************************)
(* The crons that read the telemetry cache, on a clock: checkHeartbeat and *)
(* recordPnlSnapshots (src/src/console/console.scheduler.ts), with         *)
(* recordPnlPoint and the queries over its points                          *)
(* (src/src/console/console.service.ts), during one life of the process.   *)
(*                                                                         *)
(* The cache is TtlCache, the gateway's instance of it.  A frame's ts is   *)
(* the broker server's time: this host's, displaced by a skew.  How a      *)
(* frame's update may be delayed or lost is ConsolePresence's matter; here *)
(* it takes effect at once.  A cron's run awaits Mongo at every step, and  *)
(* what it sends takes effect later, but within Lag of the run's start.    *)
(***************************************************************************)
EXTENDS TtlCache, PnlQueries

CONSTANTS
    Ttl,        \* TELEMETRY_TTL_SECONDS
    Threshold,  \* OFFLINE_THRESHOLD_MS
    HbEvery,    \* period of checkHeartbeat
    SnapEvery,  \* period of recordPnlSnapshots
    Lag,        \* bound: a run, and what it sent, is over within this time
    Senders,    \* bound: the agents whose bridge connects
    Frames,     \* bound: frames by skew, a broker's clock minus this host's, and
                \* by equity, whether account.equity is a number
    Never,      \* no such moment yet
    Nothing, Find   \* what a run awaits, when it is not an agent's update

ASSUME ScheduleConstants ==
    /\ Ttl \in Nat \ {0} /\ Ttl \in Ttls
    /\ HbEvery \in Nat \ {0} /\ SnapEvery \in Nat \ {0}
    /\ Lag \in Nat /\ Lag < HbEvery /\ Lag < SnapEvery
    /\ Threshold \in Nat
    /\ Frames \subseteq [skew : Int, equity : BOOLEAN]
    /\ Values \subseteq [ts : Int, equity : BOOLEAN]
    /\ \A t \in 0..MaxNow, f \in Frames :
          [ts |-> t + f.skew, equity |-> f.equity] \in Values
    /\ Never \notin Int
    /\ Nothing \notin Keys /\ Find \notin Keys /\ Nothing # Find

VARIABLES
    online,    \* document: online
    raised,    \* agent -> when its document was last set online
    framed,    \* agent -> when its last frame arrived
    steady,    \* agent -> since when its frames come in time, by a fit clock
    hbNext,    \* when checkHeartbeat fires next
    hbAwaits,  \* what the current run awaits: its find, an agent's writes
    hbTodo,    \* instances the current run has found and not reached
    hbSent,    \* agents whose offline update is on its way
    hbFailed,  \* when the last run that failed had begun
    snapNext,  \* when recordPnlSnapshots fires next
    snapTodo,  \* instances the current run has found and not reached
    verdict,   \* agent -> what the last snapshot run did about it
    points     \* ea-pnl-points

presence == <<online, raised, framed, steady>>
hb       == <<hbNext, hbAwaits, hbTodo, hbSent, hbFailed>>
snap     == <<snapNext, snapTodo, verdict, points>>
svars    == <<cacheVars, presence, hb, snap>>

Point == [agent : Keys, ts : Int, at : Nat]

ScheduleTypeOK ==
    /\ CacheTypeOK
    /\ online \in [Keys -> BOOLEAN]
    /\ raised \in [Keys -> Nat]
    /\ framed \in [Keys -> Nat \cup {Never}]
    /\ steady \in [Keys -> Nat \cup {Never}]
    /\ hbNext \in Nat /\ hbAwaits \in Keys \cup {Nothing, Find}
    /\ hbTodo \in SUBSET Keys /\ hbSent \in SUBSET Keys
    /\ hbFailed \in Int \cup {Never}
    /\ snapNext \in Nat /\ snapTodo \in SUBSET Keys
    /\ verdict \in [Keys -> {"none", "due", "point", "failed", "unusable"}]
    /\ points \in SUBSET Point

\* The process starts at any moment between two runs, with documents that
\* earlier runs left online.
ScheduleInit ==
    /\ CacheInit
    /\ online \in [Keys -> BOOLEAN]
    /\ raised = [k \in Keys |-> 0]
    /\ framed = [k \in Keys |-> Never]
    /\ steady = [k \in Keys |-> Never]
    /\ hbNext \in 0..(HbEvery - 1) /\ hbAwaits = Nothing
    /\ hbTodo = {} /\ hbSent = {} /\ hbFailed = Never
    /\ snapNext \in 0..(SnapEvery - 1) /\ snapTodo = {}
    /\ verdict = [k \in Keys |-> "none"]
    /\ points = {}

------------------------------------------------------------------------------
\* The gateway's part

\* By this clock a cached frame would be too old for the heartbeat.
Behind(d) == Ttl - d > Threshold

\* Since when frames come in time and by a clock that is fit for the threshold.
SteadySince(k, d) ==
    IF Behind(d) THEN Never
    ELSE IF steady[k] # Never /\ now - framed[k] < Ttl THEN steady[k] ELSE now

\* console:telemetry
Telemetry(k) ==
    /\ k \in Senders
    /\ \E f \in Frames :
          /\ Setex(k, Ttl, [ts |-> now + f.skew, equity |-> f.equity])
          /\ steady' = [steady EXCEPT ![k] = SteadySince(k, f.skew)]
    /\ online' = [online EXCEPT ![k] = TRUE]
    /\ raised' = [raised EXCEPT ![k] = now]
    /\ framed' = [framed EXCEPT ![k] = now]
    /\ UNCHANGED <<hb, snap>>

\* bridge:register and console:status set an instance online without a frame.
Announced(k) ==
    /\ k \in Senders
    /\ online' = [online EXCEPT ![k] = TRUE]
    /\ raised' = [raised EXCEPT ![k] = now]
    /\ UNCHANGED <<cacheVars, framed, steady, hb, snap>>

\* console:offline, console:status and handleDisconnect
Left(k) ==
    /\ k \in Senders
    /\ online' = [online EXCEPT ![k] = FALSE]
    /\ UNCHANGED <<cacheVars, raised, framed, steady, hb, snap>>

------------------------------------------------------------------------------
\* checkHeartbeat

HbStart == hbNext - HbEvery

\* The cron fires and sends its find.
HbFires ==
    /\ now = hbNext
    /\ hbNext' = hbNext + HbEvery
    /\ hbAwaits' = Find
    /\ UNCHANGED <<cacheVars, presence, hbTodo, hbSent, hbFailed, snap>>

HbFound ==
    /\ hbAwaits = Find
    /\ hbAwaits' = Nothing
    /\ hbTodo' = {k \in Keys : online[k]}
    /\ UNCHANGED <<cacheVars, presence, hbNext, hbSent, hbFailed, snap>>

Age(k) == now - Found(k).ts

\* Mutant: an instance without a cached frame passes for fresh.
Stale_CachedOnly(k) == Found(k) # Null /\ Age(k) > Threshold

\* Mutant: the threshold is as short as the TTL.
Stale_ShortThreshold(k) == Found(k) = Null \/ Age(k) > Ttl

\* The cached telemetry is missing, or older than OFFLINE_THRESHOLD_MS.
Stale(k) == Found(k) = Null \/ Age(k) > Threshold

\* The next instance: its cached frame is read, and if it is stale the update
\* that takes it offline is sent and awaited.
HbCheck(k) ==
    /\ hbAwaits = Nothing /\ k \in hbTodo
    /\ Get(k)
    /\ hbTodo' = hbTodo \ {k}
    /\ hbAwaits' = IF Stale(k) THEN k ELSE Nothing
    /\ hbSent' = IF Stale(k) THEN hbSent \cup {k} ELSE hbSent
    /\ UNCHANGED <<presence, hbNext, hbFailed, snap>>

\* The update takes effect, whatever has arrived since the check.
HbLands(k) ==
    /\ k \in hbSent
    /\ hbSent' = hbSent \ {k}
    /\ online' = [online EXCEPT ![k] = FALSE]
    /\ UNCHANGED <<cacheVars, raised, framed, steady, hbNext, hbAwaits, hbTodo, hbFailed, snap>>

\* The update and the audit entry after it were answered, and the loop goes on.
HbDone(k) ==
    /\ hbAwaits = k /\ k \notin hbSent
    /\ hbAwaits' = Nothing
    /\ UNCHANGED <<cacheVars, presence, hbNext, hbTodo, hbSent, hbFailed, snap>>

\* The find, an update or an audit entry is rejected.  An update that was
\* rejected may take effect all the same.
HbFails ==
    /\ hbAwaits # Nothing
    /\ hbAwaits' = Nothing
    /\ hbTodo' = {}
    /\ \E lost \in SUBSET {hbAwaits} : hbSent' = hbSent \ lost
    /\ hbFailed' = HbStart
    /\ UNCHANGED <<cacheVars, presence, hbNext, snap>>

------------------------------------------------------------------------------
\* recordPnlSnapshots

SnapFires ==
    /\ now = snapNext
    /\ snapNext' = snapNext + SnapEvery
    /\ \E found \in {{}, {k \in Keys : online[k]}} :    \* {}: the find fails
          /\ snapTodo' = found
          /\ verdict' = [k \in Keys |-> IF k \in found THEN "due" ELSE "none"]
    /\ UNCHANGED <<cacheVars, presence, hb, points>>

\* Mutant: the instance behind one that fails is never reached.
Reached_Aborted(k, ok) == IF ok THEN snapTodo \ {k} ELSE {}

\* An exception of one instance is caught and the loop goes on.
Reached(k, ok) == snapTodo \ {k}

\* recordPnlPoint: there is a cached frame and its equity is a number.
Usable(k) == Found(k) # Null /\ Found(k).equity

\* Mutant: the point is stored without a time.
Recorded_Undated(k) == [agent |-> k, ts |-> Null, at |-> now]

Recorded(k) == [agent |-> k, ts |-> Found(k).ts, at |-> now]

\* A create that was rejected may have stored its point.
SnapTake(k) ==
    /\ k \in snapTodo
    /\ Get(k)
    /\ \E ok \in BOOLEAN :
          /\ snapTodo' = Reached(k, ok)
          /\ IF Usable(k)
             THEN /\ verdict' = [verdict EXCEPT ![k] = IF ok THEN "point" ELSE "failed"]
                  /\ points' \in {points \cup {Recorded(k)}} \cup IF ok THEN {} ELSE {points}
             ELSE /\ ok
                  /\ verdict' = [verdict EXCEPT ![k] = "unusable"]
                  /\ UNCHANGED points
    /\ UNCHANGED <<presence, hb, snapNext>>

------------------------------------------------------------------------------

\* The cache's own timer.
Evict == Sweep /\ UNCHANGED <<presence, hb, snap>>

HbOver == hbAwaits = Nothing /\ hbTodo = {} /\ hbSent = {}

\* Crons fire on time and their runs are over within Lag.
Passes ==
    /\ now < hbNext /\ (HbOver \/ now < HbStart + Lag)
    /\ now < snapNext /\ (snapTodo = {} \/ now < snapNext - SnapEvery + Lag)
    /\ Tick
    /\ UNCHANGED <<presence, hb, snap>>

ScheduleNext ==
    \/ \E k \in Keys : Telemetry(k) \/ Announced(k) \/ Left(k)
                         \/ HbCheck(k) \/ HbLands(k) \/ HbDone(k) \/ SnapTake(k)
    \/ HbFires \/ HbFound \/ HbFails
    \/ SnapFires
    \/ Evict \/ Passes

ScheduleSpec == ScheduleInit /\ [][ScheduleNext]_svars

\* setInterval keeps calling the cache's sweep.
FairSchedule == ScheduleSpec /\ WF_svars(Evict)

------------------------------------------------------------------------------
\* Correctness

\* Its frames have come in time, by a fit clock, since before the run began.
Steady(k) ==
    /\ steady[k] # Never /\ now - steady[k] > Lag
    /\ now - framed[k] < Ttl

\* An EA that keeps sending is not declared dead.  The heartbeat's update lands
\* after the check it rests on and overwrites what came in between, so it may hit
\* an EA that has only just come back; but one whose frames have followed each
\* other within the TTL for longer than a run takes is safe, if its broker's clock
\* is not so far behind that the threshold of 5 min is passed within the TTL.
FreshSurvives ==
    [][\A k \in hbSent \ hbSent' : online[k] /\ ~online'[k] => ~Steady(k)]_svars

\* An instance that is dead is declared so in time: none stays online longer than
\* TTL, heartbeat period and run time without a frame or an announcement, unless
\* runs failed; then the first that does not fail finds it.
NoticedInTime ==
    \A k \in Keys : online[k] =>
        \/ now - raised[k] < Ttl + HbEvery + Lag
        \/ hbFailed # Never /\ now - hbFailed <= HbEvery + Lag

\* A point shows what the EA sent within the TTL before it was recorded, as the
\* broker's clock had it: no older frame, from a bridge long gone, is sampled.
PointsAreFresh ==
    \A p \in points : \E f \in Frames :
        p.at + f.skew - Ttl < p.ts /\ p.ts <= p.at + f.skew

\* "Points are recorded once a minute while online": when a run has ended, each
\* instance it found has one point of this run, unless its frame was unusable or
\* its own write failed; another instance's failure costs it nothing, and there is
\* never a second point.
OnceAMinute ==
    \A k \in Keys :
        LET taken == {p \in points : p.agent = k /\ p.at >= snapNext - SnapEvery}
        IN  /\ snapTodo = {} => verdict[k] # "due"
            /\ Cardinality(taken) \in CASE verdict[k] = "point"  -> {1}
                                        [] verdict[k] = "failed" -> {0, 1}
                                        [] OTHER                 -> {0}

PointsOf(k) == {p \in points : p.agent = k}

\* getPnlHistory shows the newest points in ascending order, at most as many as
\* it was asked for and never more than the cap, whatever order the broker's
\* clock gives them.  (A limit below 1 is no limit: the code passes it on.)
ChartIsNewest ==
    \A k \in Keys, limit \in 1..(Cap + 1) :
        \A chart \in getPnlHistory(PointsOf(k), limit) : IsChart(chart, PointsOf(k), limit)

\* getPnlDailySummary has the last point of each requested day, both ends
\* included.  A bound that cannot be parsed is as good as none, except where it
\* leaves no bound at all: such a request gets no day instead of every day.
SummaryIsDaily ==
    \A k \in Keys :
        LET days == {DayOf(p) : p \in PointsOf(k)}
        IN  \A start, end \in {NotGiven, Unparsable} \cup days :
                \A rows \in getPnlDailySummary(PointsOf(k), start, end) :
                    IsSummary(rows, PointsOf(k), {d \in days : Wanted(d, start, end)})

==============================================================================
