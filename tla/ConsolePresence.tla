--------------------------- MODULE ConsolePresence ---------------------------
(***************************************************************************)
(* Who decides that an EA is online, and listed: the gateway's handlers    *)
(* (BridgeGateway), ConsoleScheduler.checkHeartbeat                        *)
(* (src/src/console/console.scheduler.ts) and ConsoleService.hideInstance  *)
(* (src/src/console/console.service.ts), all over the same documents.      *)
(*                                                                         *)
(* The heartbeat's cron starts a run every 30 s whether or not the last    *)
(* one has ended.  An awaited operation is one step when it takes effect;  *)
(* a REST handler touches nothing but Mongo, so its resumption needs no    *)
(* step of its own.                                                        *)
(***************************************************************************)
EXTENDS BridgeGateway

CONSTANT Runs    \* bound: heartbeat runs that overlap

VARIABLES
    hbPc,    \* run -> where checkHeartbeat awaits
    hbTodo,  \* run -> instances of its find it has not reached
    hbAt,    \* run -> the instance whose update it awaits
    hidePc,  \* agent -> where a hideInstance request for it awaits
    hider    \* agent -> the user of that request

heartbeat == <<hbPc, hbTodo, hbAt>>
hide      == <<hidePc, hider>>
pvars     == <<vars, heartbeat, hide>>

PresenceTypeOK ==
    /\ TypeOK
    /\ hbPc \in [Runs -> {"idle", "find", "loop", "write", "written", "orphan"}]
    /\ hbTodo \in [Runs -> SUBSET Agents]
    /\ hbAt \in [Runs -> Agents \cup {NoAgent}]
    /\ hidePc \in [Agents -> {"idle", "owned", "checked", "reply", "orphan"}]
    /\ hider \in [Agents -> Users \cup {Missing}]

PresenceInit ==
    /\ Init
    /\ hbPc = [r \in Runs |-> "idle"]
    /\ hbTodo = [r \in Runs |-> {}]
    /\ hbAt = [r \in Runs |-> NoAgent]
    /\ hidePc = [a \in Agents |-> "idle"]
    /\ hider = [a \in Agents |-> Missing]

------------------------------------------------------------------------------
\* checkHeartbeat

\* The cron fires: find({ online: true }) is sent.
HbStart(r) ==
    /\ hbPc[r] = "idle"
    /\ hbPc' = [hbPc EXCEPT ![r] = "find"]
    /\ UNCHANGED <<vars, hbTodo, hbAt, hide>>

HbFind(r) ==
    /\ hbPc[r] = "find"
    /\ hbPc' = [hbPc EXCEPT ![r] = "loop"]
    /\ hbTodo' = [hbTodo EXCEPT ![r] = {a \in Agents : online[a]}]
    /\ UNCHANGED <<vars, hbAt, hide>>

\* Mutant: an instance without cached telemetry passes for fresh.
IsStale_CacheOnly(a) == cache[a] = "old"

\* The cached telemetry is missing, or older than OFFLINE_THRESHOLD_MS.
IsStale(a) == cache[a] # "recent"

\* The loop runs on, past fresh instances, to the next stale one.
HbCheck(r) ==
    /\ hbPc[r] = "loop"
    /\ \E a \in hbTodo[r], fresh \in SUBSET hbTodo[r] :
          /\ IsStale(a)
          /\ \A b \in fresh : ~IsStale(b)
          /\ hbPc' = [hbPc EXCEPT ![r] = "write"]
          /\ hbTodo' = [hbTodo EXCEPT ![r] = @ \ (fresh \cup {a})]
          /\ hbAt' = [hbAt EXCEPT ![r] = a]
    /\ UNCHANGED <<vars, hide>>

RunEnds(r) ==
    /\ hbPc' = [hbPc EXCEPT ![r] = "idle"]
    /\ hbTodo' = [hbTodo EXCEPT ![r] = {}]
    /\ hbAt' = [hbAt EXCEPT ![r] = NoAgent]

\* The loop runs to its end: whatever is left of it is fresh.
HbDone(r) ==
    /\ hbPc[r] = "loop"
    /\ \A a \in hbTodo[r] : ~IsStale(a)
    /\ RunEnds(r)
    /\ UNCHANGED <<vars, hide>>

\* updateOne({ agentId }, { online: false }) takes effect.
HbWrite(r) ==
    /\ hbPc[r] \in {"write", "orphan"}
    /\ online' = [online EXCEPT ![hbAt[r]] = FALSE]
    /\ IF hbPc[r] = "write"
       THEN hbPc' = [hbPc EXCEPT ![r] = "written"] /\ UNCHANGED <<hbTodo, hbAt>>
       ELSE RunEnds(r)
    /\ UNCHANGED <<process, owner, hidden, hide>>

\* The run emits console:status and awaits the audit entry bridge_disconnect.
HbEmit(r) ==
    /\ hbPc[r] = "written"
    /\ hbPc' = [hbPc EXCEPT ![r] = "loop"]
    /\ UNCHANGED <<vars, hbTodo, hbAt, hide>>

\* An awaited operation fails and the exception ends the whole run; a lost
\* update may still be on its way.
HbAbort(r) ==
    /\ hbPc[r] # "idle"
    /\ \/ RunEnds(r)
       \/ /\ hbPc[r] = "write"
          /\ hbPc' = [hbPc EXCEPT ![r] = "orphan"]
          /\ UNCHANGED <<hbTodo, hbAt>>
    /\ UNCHANGED <<vars, hide>>

------------------------------------------------------------------------------
\* hideInstance

HideTo(a, step) == hidePc' = [hidePc EXCEPT ![a] = step]

HideEnds(a) == HideTo(a, "idle") /\ hider' = [hider EXCEPT ![a] = Missing]

\* Mutant: agentId and userId are passed in the wrong order.
HideOwned_Swapped(a, u) ==
    /\ hidePc[a] = "idle"
    /\ owner[a] = u
    /\ HideTo(a, "owned")
    /\ hider' = [hider EXCEPT ![a] = a]
    /\ UNCHANGED <<vars, heartbeat>>

\* requireOwnership finds the document with user u as its owner; anything else
\* ends the request with 404 or 403.
HideOwned(a, u) ==
    /\ hidePc[a] = "idle"
    /\ owner[a] = u
    /\ HideTo(a, "owned")
    /\ hider' = [hider EXCEPT ![a] = u]
    /\ UNCHANGED <<vars, heartbeat>>

\* findOne: an online instance is refused with 409.
HideCheck(a) ==
    /\ hidePc[a] = "owned"
    /\ IF online[a] THEN HideEnds(a) ELSE HideTo(a, "checked") /\ UNCHANGED hider
    /\ UNCHANGED <<vars, heartbeat>>

\* Mutant: the update trusts the check before it.
Hideable_Unchecked(a) == owner[a] = hider[a]

\* The filter { agentId, userId, online: false } matches.
Hideable(a) == owner[a] = hider[a] /\ ~online[a]

HideUpdate(a) ==
    /\ hidePc[a] \in {"checked", "orphan"}
    /\ hidden' = [hidden EXCEPT ![a] = @ \/ Hideable(a)]
    /\ IF hidePc[a] = "checked" THEN HideTo(a, "reply") /\ UNCHANGED hider
                                ELSE HideEnds(a)
    /\ UNCHANGED <<process, owner, online, heartbeat>>

\* The audit entry instance_hidden is written; { hidden: true } is returned.
HideReply(a) ==
    /\ hidePc[a] = "reply"
    /\ HideEnds(a)
    /\ UNCHANGED <<vars, heartbeat>>

HideError(a) ==
    /\ hidePc[a] # "idle"
    /\ \/ HideEnds(a)
       \/ hidePc[a] = "checked" /\ HideTo(a, "orphan") /\ UNCHANGED hider
    /\ UNCHANGED <<vars, heartbeat>>

------------------------------------------------------------------------------

\* A restart ends runs and requests; their updates may be on their way.
PresenceRestart ==
    LET hbKept == {r \in Runs : hbPc[r] \in {"write", "orphan"}}
        hideKept == {a \in Agents : hidePc[a] \in {"checked", "orphan"}}
    IN  /\ Restart
        /\ hbPc' = [r \in Runs |-> IF r \in hbKept THEN "orphan" ELSE "idle"]
        /\ hbTodo' = [r \in Runs |-> {}]
        /\ hbAt' = [r \in Runs |-> IF r \in hbKept THEN hbAt[r] ELSE NoAgent]
        /\ hidePc' = [a \in Agents |-> IF a \in hideKept THEN "orphan" ELSE "idle"]
        /\ hider' = [a \in Agents |-> IF a \in hideKept THEN hider[a] ELSE Missing]

Heartbeat(r) ==
    \/ HbStart(r) \/ HbFind(r) \/ HbCheck(r) \/ HbDone(r)
    \/ HbWrite(r) \/ HbEmit(r) \/ HbAbort(r)

Hide(a) ==
    \/ \E u \in Users : HideOwned(a, u)
    \/ HideCheck(a) \/ HideUpdate(a) \/ HideReply(a) \/ HideError(a)

PresenceNext ==
    \/ Serve /\ UNCHANGED <<heartbeat, hide>>
    \/ PresenceRestart
    \/ \E r \in Runs : Heartbeat(r)
    \/ \E a \in Agents : Hide(a)

PresenceSpec == PresenceInit /\ [][PresenceNext]_pvars

(***************************************************************************)
(* Mongo answers every operation it is sent and a handler that may resume  *)
(* does; the crons keep firing, a closed socket's disconnect event comes,  *)
(* a cached frame that is not replaced reaches its TTL, and neither        *)
(* Mongo's errors nor restarts stop every heartbeat run for ever: a step   *)
(* that a run could take again and again is taken.                         *)
(***************************************************************************)
PresenceFairness ==
    /\ \A h \in Handlers, s \in Sockets : WF_pvars(
          /\ DbWrite(h, s) \/ Reply(h, s) \/ MongoError(h, s) \/ Drop(h, s)
          /\ UNCHANGED <<heartbeat, hide>>)
    /\ \A s \in Sockets : WF_pvars(
          /\ DbFind(s) \/ RegisterRejected(s) \/ RegisterSkipped(s)
             \/ RegisterAccepted(s)
          /\ UNCHANGED <<heartbeat, hide>>)
    /\ \A s \in Sockets : WF_pvars(LateDisconnect(s) /\ UNCHANGED <<heartbeat, hide>>)
    /\ WF_pvars(Sweep /\ UNCHANGED <<heartbeat, hide>>)
    /\ \A a \in Agents : WF_pvars(CacheExpire(a) /\ UNCHANGED <<heartbeat, hide>>)
    /\ \A r \in Runs :
          /\ WF_pvars(HbStart(r)) /\ WF_pvars(HbEmit(r) \/ HbAbort(r))
          /\ SF_pvars(HbFind(r)) /\ SF_pvars(HbWrite(r))
          /\ SF_pvars(HbCheck(r) \/ HbDone(r))

FairPresence == PresenceSpec /\ PresenceFairness

------------------------------------------------------------------------------
\* Correctness

\* An online EA is listed: no order of hiding, reconnecting, heartbeats, lost
\* or delayed updates and restarts leaves a document online and hidden.
HiddenMeansOffline == \A a \in Agents : online[a] => ~hidden[a]

\* An agent that nobody can be speaking for any more is eventually shown
\* offline for good, whatever crashes, errors and late updates came before.
GhostHeals ==
    \A a \in Agents :
        <>[](\A s \in Sockets : AgentOf(s) = a => ~Open(s)) => <>[](~online[a])

\* "Online instances are refused": a request that goes on to report
\* { hidden: true } has hidden the instance.
HideIsHonest ==
    [][\A a \in Agents : hidePc[a] = "checked" /\ hidePc'[a] = "reply"
          => hidden'[a]]_pvars

==============================================================================
