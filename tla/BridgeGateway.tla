---------------------------- MODULE BridgeGateway ----------------------------
(***************************************************************************)
(* The bridge side of ConsoleGateway (src/src/console/console.gateway.ts): *)
(* sockets, the owner map bridgeSockets, the command room of each agent,   *)
(* the telemetry cache, and the fields of an ea-instances document that    *)
(* the gateway's handlers write.                                           *)
(*                                                                         *)
(* Node runs a handler without interruption up to its next await.  An      *)
(* awaited Mongo operation is therefore two steps of the model, the moment *)
(* it takes effect (DbFind, DbWrite) and the moment the handler resumes    *)
(* (the Register* actions, Reply); every other handler may run in between, *)
(* and operations of two handlers, sent over different connections of the  *)
(* driver's pool, take effect in either order.                             *)
(***************************************************************************)
EXTENDS Naturals, FiniteSets

CONSTANTS
    Sockets,      \* socket.io connection ids; an id is never used twice
    Agents,       \* EA instances (agentId)
    Users,        \* SafetyScore user ids
    Claims,       \* what the token presented on a socket says, see ClaimSet
    Claimed,      \* agents whose document exists, with an owner, at the start
    KickModes,    \* when the disconnect event of a socket the server closes is
                  \* handled: "sync", inside the closing call, or "late"
    Frames,       \* ts of a telemetry frame when it arrives: "recent" or "old"
    Sends,        \* bound: the frames each bridge sends
    MaxInFlight,  \* bound: event handlers awaiting Mongo at the same time
    NoSocket,     \* bridgeSockets has no entry
    NoAgent,      \* agent claim of a browser's token
    Missing,      \* there is no ea-instances document
    Unclaimed     \* the document's userId is null

\* Required fields complete: licenseKey, accountLogin and symbol are present.
ClaimSet == [user : Users, agent : Agents \cup {NoAgent},
             complete : BOOLEAN, expires : BOOLEAN]

ASSUME ConstantsOK ==
    /\ Claims \in [Sockets -> ClaimSet]
    /\ Claimed \subseteq Agents
    /\ KickModes \subseteq {"sync", "late"} /\ KickModes # {}
    /\ Frames \subseteq {"recent", "old"}
    /\ Sends \in [Sockets -> SUBSET {"register", "telemetry", "statusOn", "statusOff", "offline"}]
    /\ MaxInFlight \in Nat
    /\ NoSocket \notin Sockets
    /\ NoAgent \notin Agents
    /\ Missing \notin Users /\ Unclaimed \notin Users /\ Missing # Unclaimed

VARIABLES
    conn,           \* life of each socket
    expiry,         \* tokenExpiresAt passed, and expiryNotified
    bridgeSockets,  \* agent -> socket registered as its current bridge
    bridgeRoom,     \* agent -> members of the room `bridge:<agentId>`
    cache,          \* agent -> telemetryCache entry
    pc,             \* handler -> socket -> where that handler awaits
    found,          \* socket -> userId read by its register handler
    owner,          \* document: userId, or Missing when there is no document
    online,         \* document: online
    hidden          \* document: hiddenAt # null

process  == <<conn, expiry, bridgeSockets, bridgeRoom, cache, pc, found>>
document == <<owner, online, hidden>>
vars     == <<process, document>>

Handlers == {"register", "telemetry", "statusOn", "statusOff", "offline",
             "disconnect"}
\* Handlers whose update sets online: true (and hiddenAt: null).
Raising  == {"register", "telemetry", "statusOn"}
\* Handlers of the frames a bridge sends once it is connected.
Events   == Handlers \ {"disconnect"}
\* "orphan": the update is on its way and nobody awaits it any more.
Steps    == {"idle", "find", "found", "write", "written", "orphan"}

AgentOf(s)  == Claims[s].agent
IsBridge(s) == AgentOf(s) # NoAgent
Open(s)     == conn[s] \in {"verifying", "ready"}

TypeOK ==
    /\ conn \in [Sockets -> {"new", "verifying", "ready", "kicked", "closed"}]
    /\ expiry \in [Sockets -> {"valid", "expired", "notified"}]
    /\ bridgeSockets \in [Agents -> Sockets \cup {NoSocket}]
    /\ bridgeRoom \in [Agents -> SUBSET Sockets]
    /\ cache \in [Agents -> {"none", "recent", "old"}]
    /\ pc \in [Handlers -> [Sockets -> Steps]]
    /\ found \in [Sockets -> Users \cup {Missing, Unclaimed}]
    /\ owner \in [Agents -> Users \cup {Missing, Unclaimed}]
    /\ online \in [Agents -> BOOLEAN]
    /\ hidden \in [Agents -> BOOLEAN]

(***************************************************************************)
(* The process starts empty; the documents are what earlier runs left: any *)
(* owner, and online even though nobody is connected.                      *)
(***************************************************************************)
InitProcess ==
    /\ conn = [s \in Sockets |-> "new"]
    /\ expiry = [s \in Sockets |-> "valid"]
    /\ bridgeSockets = [a \in Agents |-> NoSocket]
    /\ bridgeRoom = [a \in Agents |-> {}]
    /\ cache = [a \in Agents |-> "none"]
    /\ pc = [h \in Handlers |-> [s \in Sockets |-> "idle"]]
    /\ found = [s \in Sockets |-> Missing]

InitDocument ==
    /\ owner \in [Agents -> Users \cup {Missing, Unclaimed}]
    /\ \A a \in Agents : (a \in Claimed) = (owner[a] \in Users)
    /\ online \in [Agents -> BOOLEAN]
    /\ hidden \in [Agents -> BOOLEAN]
    /\ \A a \in Agents : /\ online[a] => ~hidden[a]
                         /\ owner[a] = Missing => ~online[a] /\ ~hidden[a]

Init == InitProcess /\ InitDocument

------------------------------------------------------------------------------
\* Disconnection

\* Mutant: handleDisconnect without its owner check.
Owns_NoOwnerCheck(s) == IsBridge(s)

\* handleDisconnect acts only for the socket bridgeSockets holds.
Owns(s) == IsBridge(s) /\ bridgeSockets[AgentOf(s)] = s

Marked(K, life) == [s \in Sockets |-> IF s \in K THEN life ELSE conn[s]]

\* handleDisconnect has run for the sockets in K up to its await: an owner's
\* entry is deleted, its offline update sent.  base is the rest of the step.
Unowned(K) == [a \in Agents |->
    IF \E s \in K : Owns(s) /\ AgentOf(s) = a THEN NoSocket ELSE bridgeSockets[a]]
Offlining(K, base) == [base EXCEPT !["disconnect"] =
    [s \in Sockets |-> IF s \in K /\ Owns(s) THEN "write" ELSE @[s]]]

\* The sockets in K are gone, in a handler that leaves pc as base.
HandleDisconnect(K, base) ==
    /\ conn' = Marked(K, "closed")
    /\ bridgeRoom' = [a \in Agents |-> bridgeRoom[a] \ K]
    /\ bridgeSockets' = Unowned(K)
    /\ pc' = Offlining(K, base)

\* socket.disconnect(true) on the sockets in K, from inside a handler.
ServerDisconnect(K, base) ==
    \/ /\ "sync" \in KickModes
       /\ HandleDisconnect(K, base)
    \/ /\ "late" \in KickModes
       /\ conn' = Marked(K, "kicked")
       /\ bridgeRoom' = [a \in Agents |-> bridgeRoom[a] \ K]
       /\ pc' = base
       /\ UNCHANGED bridgeSockets

\* A connection is lost, or its client leaves.
Disconnect(s) ==
    /\ Open(s)
    /\ HandleDisconnect({s}, pc)
    /\ UNCHANGED <<expiry, cache, found, document>>

\* The disconnect event of a socket the server closed earlier.
LateDisconnect(s) ==
    /\ conn[s] = "kicked"
    /\ HandleDisconnect({s}, pc)
    /\ UNCHANGED <<expiry, cache, found, document>>

------------------------------------------------------------------------------
\* Connection

\* handleConnection up to its await: the token is being verified, client.data
\* is still empty, so every event of the socket is ignored.
Connect(s) ==
    /\ conn[s] = "new"
    /\ conn' = [conn EXCEPT ![s] = "verifying"]
    /\ UNCHANGED <<expiry, bridgeSockets, bridgeRoom, cache, pc, found, document>>

\* The token is valid: its claims become client.data.
Verified(s) ==
    /\ conn[s] = "verifying"
    /\ conn' = [conn EXCEPT ![s] = "ready"]
    /\ UNCHANGED <<expiry, bridgeSockets, bridgeRoom, cache, pc, found, document>>

\* No token, or an invalid one.
Rejected(s) ==
    /\ conn[s] = "verifying"
    /\ conn' = [conn EXCEPT ![s] = "closed"]
    /\ UNCHANGED <<expiry, bridgeSockets, bridgeRoom, cache, pc, found, document>>

\* tokenExpiresAt passes.
ExpireToken(s) ==
    /\ conn[s] = "ready" /\ Claims[s].expires
    /\ expiry[s] = "valid"
    /\ expiry' = [expiry EXCEPT ![s] = "expired"]
    /\ UNCHANGED <<conn, bridgeSockets, bridgeRoom, cache, pc, found, document>>

Expired(e) == {s \in Sockets : conn[s] = "ready" /\ expiry[s] = e}

\* Mutant: expiryNotified is never set.
Notified_Never == expiry

\* auth:expired has been sent to the newly expired sockets.
Notified == [s \in Sockets |-> IF s \in Expired("expired") THEN "notified" ELSE expiry[s]]

\* sweepExpiredSockets: the sockets notified by an earlier sweep are closed.
Sweep ==
    /\ Expired("expired") \cup Expired("notified") # {}
    /\ ServerDisconnect(Expired("notified"), pc)
    /\ expiry' = Notified
    /\ UNCHANGED <<cache, found, document>>

------------------------------------------------------------------------------
\* bridge:register

Busy == {e \in Events \X Sockets : pc[e[1]][e[2]] # "idle"}

\* A frame of a verified bridge reaches its handler.
Receives(h, s) ==
    /\ conn[s] = "ready"
    /\ IsBridge(s)
    /\ h \in Sends[s]
    /\ pc[h][s] = "idle"
    /\ Cardinality(Busy) < MaxInFlight

\* The handler ends.
Ended(h, s) == [pc EXCEPT ![h][s] = "idle"]
Forgotten(h, s) == IF h = "register" THEN [found EXCEPT ![s] = Missing] ELSE found

\* The payload agrees with the token: findOne is sent.
Register(s) ==
    /\ Receives("register", s)
    /\ pc' = [pc EXCEPT !["register"][s] = "find"]
    /\ UNCHANGED <<conn, expiry, bridgeSockets, bridgeRoom, cache, found, document>>

\* The payload names another agent than the token: the socket is closed.
RegisterMismatch(s) ==
    /\ Receives("register", s)
    /\ ServerDisconnect({s}, pc)
    /\ UNCHANGED <<expiry, cache, found, document>>

\* Mutant: the lock reads the document's agentId for its userId.
DbFind_WrongField(s) ==
    /\ pc["register"][s] = "find"
    /\ pc' = [pc EXCEPT !["register"][s] = "found"]
    /\ found' = [found EXCEPT ![s] = AgentOf(s)]
    /\ UNCHANGED <<conn, expiry, bridgeSockets, bridgeRoom, cache, document>>

\* findOne takes effect.
DbFind(s) ==
    /\ pc["register"][s] = "find"
    /\ pc' = [pc EXCEPT !["register"][s] = "found"]
    /\ found' = [found EXCEPT ![s] = owner[AgentOf(s)]]
    /\ UNCHANGED <<conn, expiry, bridgeSockets, bridgeRoom, cache, document>>

\* Mutant: the ownership lock compares nothing.
Foreign_NoLock(s) == FALSE

\* existing.userId is set and is another user's.
Foreign(s) == found[s] \in Users \ {Claims[s].user}

\* Mutant: claims are not checked for the fields a document requires.
Complete_Ignored(s) == TRUE

\* Every required field is in the claims, or in the agentId.
Complete(s) == Claims[s].complete

\* The ownership lock rejects the registration and closes the socket.
RegisterRejected(s) ==
    /\ pc["register"][s] = "found"
    /\ Foreign(s)
    /\ ServerDisconnect({r \in {s} : Open(r)}, Ended("register", s))
    /\ found' = Forgotten("register", s)
    /\ UNCHANGED <<expiry, cache, document>>

\* A required field is missing.
RegisterSkipped(s) ==
    /\ pc["register"][s] = "found"
    /\ ~Foreign(s)
    /\ ~Complete(s)
    /\ pc' = Ended("register", s)
    /\ found' = Forgotten("register", s)
    /\ UNCHANGED <<conn, expiry, bridgeSockets, bridgeRoom, cache, document>>

\* Mutant: a takeover leaves the stale socket connected.
Stale_NotKicked(s) == {}

\* The socket a registration displaces, if it is still connected.
Stale(s) == {r \in Sockets \ {s} : r = bridgeSockets[AgentOf(s)] /\ Open(r)}

\* The registration is valid: the stale socket is kicked, then s becomes the
\* agent's bridge, connected or not, and joins its room, which socket.io ignores
\* once s is closed; the upsert is sent.  A synchronous kick runs handleDisconnect
\* while the entry is still the stale socket's.
RegisterAccepted(s) ==
    LET a == AgentOf(s)
        sent == [pc EXCEPT !["register"][s] = "write"]
    IN  /\ pc["register"][s] = "found"
        /\ ~Foreign(s)
        /\ Complete(s)
        /\ \/ /\ "sync" \in KickModes
              /\ conn' = Marked(Stale(s), "closed")
              /\ pc' = Offlining(Stale(s), sent)
           \/ /\ "late" \in KickModes
              /\ conn' = Marked(Stale(s), "kicked")
              /\ pc' = sent
        /\ bridgeSockets' = [bridgeSockets EXCEPT ![a] = s]
        /\ bridgeRoom' = [bridgeRoom EXCEPT ![a] = (@ \ Stale(s)) \cup {r \in {s} : Open(r)}]
        /\ UNCHANGED <<expiry, cache, found, document>>

------------------------------------------------------------------------------
\* The other frames of a bridge

\* console:telemetry, cached before the update is sent.
Telemetry(s) ==
    /\ Receives("telemetry", s)
    /\ \E ts \in Frames : cache' = [cache EXCEPT ![AgentOf(s)] = ts]
    /\ pc' = [pc EXCEPT !["telemetry"][s] = "write"]
    /\ UNCHANGED <<conn, expiry, bridgeSockets, bridgeRoom, found, document>>

\* console:status, online or not, and console:offline.
Announce(h, s) ==
    /\ h \in {"statusOn", "statusOff", "offline"}
    /\ Receives(h, s)
    /\ pc' = [pc EXCEPT ![h][s] = "write"]
    /\ UNCHANGED <<conn, expiry, bridgeSockets, bridgeRoom, cache, found, document>>

\* The cached frame gets older than the heartbeat accepts, or its TTL ends.
CacheAge(a) ==
    /\ cache[a] = "recent"
    /\ cache' = [cache EXCEPT ![a] = "old"]
    /\ UNCHANGED <<conn, expiry, bridgeSockets, bridgeRoom, pc, found, document>>

CacheExpire(a) ==
    /\ cache[a] # "none"
    /\ cache' = [cache EXCEPT ![a] = "none"]
    /\ UNCHANGED <<conn, expiry, bridgeSockets, bridgeRoom, pc, found, document>>

------------------------------------------------------------------------------
\* Mongo

\* The update of handler h of socket s takes effect.  Only register upserts.
DbWrite(h, s) ==
    LET a == AgentOf(s)
    IN  /\ pc[h][s] \in {"write", "orphan"}
        /\ pc' = [pc EXCEPT ![h][s] = IF @ = "write" THEN "written" ELSE "idle"]
        /\ owner' = IF h = "register" THEN [owner EXCEPT ![a] = Claims[s].user]
                                      ELSE owner
        /\ IF h # "register" /\ owner[a] = Missing
           THEN UNCHANGED <<online, hidden>>
           ELSE /\ online' = [online EXCEPT ![a] = h \in Raising]
                /\ hidden' = [hidden EXCEPT ![a] = @ /\ h \notin Raising]
        /\ UNCHANGED <<conn, expiry, bridgeSockets, bridgeRoom, cache, found>>

\* The handler resumes after its update and emits console:status to the
\* browsers watching the agent, which changes nothing here.
Reply(h, s) ==
    /\ pc[h][s] = "written"
    /\ pc' = Ended(h, s)
    /\ found' = Forgotten(h, s)
    /\ UNCHANGED <<conn, expiry, bridgeSockets, bridgeRoom, cache, document>>

\* The awaited operation fails; the exception ends the handler.  An update
\* reported lost may have taken effect, or still be on its way.
MongoError(h, s) ==
    /\ pc[h][s] \in {"find", "write", "written"}
    /\ \/ pc' = Ended(h, s)
       \/ pc[h][s] = "write" /\ pc' = [pc EXCEPT ![h][s] = "orphan"]
    /\ found' = Forgotten(h, s)
    /\ UNCHANGED <<conn, expiry, bridgeSockets, bridgeRoom, cache, document>>

\* An update nobody awaits is lost.
Drop(h, s) ==
    /\ pc[h][s] = "orphan"
    /\ pc' = Ended(h, s)
    /\ UNCHANGED <<conn, expiry, bridgeSockets, bridgeRoom, cache, found, document>>

\* The process ends and starts again: the documents are all that is left, with
\* the updates on their way to them.
Restart ==
    /\ conn' = [s \in Sockets |-> IF conn[s] = "new" THEN "new" ELSE "closed"]
    /\ bridgeSockets' = [a \in Agents |-> NoSocket]
    /\ bridgeRoom' = [a \in Agents |-> {}]
    /\ cache' = [a \in Agents |-> "none"]
    /\ pc' = [h \in Handlers |-> [s \in Sockets |->
           IF pc[h][s] \in {"write", "orphan"} THEN "orphan" ELSE "idle"]]
    /\ found' = [s \in Sockets |-> Missing]
    /\ UNCHANGED <<expiry, document>>

------------------------------------------------------------------------------

SocketStep(s) ==
    \/ Connect(s) \/ Verified(s) \/ Rejected(s)
    \/ Disconnect(s) \/ LateDisconnect(s) \/ ExpireToken(s)
    \/ Register(s) \/ RegisterMismatch(s) \/ DbFind(s)
    \/ RegisterRejected(s) \/ RegisterSkipped(s) \/ RegisterAccepted(s)
    \/ Telemetry(s)

HandlerStep(h, s) ==
    \/ Announce(h, s)
    \/ DbWrite(h, s) \/ Reply(h, s) \/ MongoError(h, s) \/ Drop(h, s)

Serve ==
    \/ \E s \in Sockets : SocketStep(s)
    \/ \E h \in Handlers, s \in Sockets : HandlerStep(h, s)
    \/ \E a \in Agents : CacheAge(a) \/ CacheExpire(a)
    \/ Sweep

Next == Serve \/ Restart

Spec == Init /\ [][Next]_vars

------------------------------------------------------------------------------
\* Correctness

Bridging(s) == Open(s) /\ IsBridge(s)

\* A connected bridge is in the command room of its agent exactly when the
\* gateway holds it for the agent's current bridge, and in no other room: a
\* command reaches the current bridge, and no second bridge executes it, in
\* every order of takeovers, disconnections, sweeps and late answers of Mongo.
LiveRoute ==
    \A a \in Agents, s \in Sockets :
        Open(s) => (s \in bridgeRoom[a] <=> bridgeSockets[a] = s)

\* The bridge that receives the commands of an agent claimed before the process
\* started presented that agent's claim, its owner's user id and every required
\* field: the lock's answer is still true when the handler acts on it.
RouteOwner ==
    \A a \in Claimed, s \in Sockets :
        s \in bridgeRoom[a] => /\ AgentOf(s) = a
                               /\ Claims[s].user = owner[a]
                               /\ Claims[s].complete

\* The owner of a claimed agent never changes: no registration, however it is
\* interleaved with others or delayed in Mongo, writes another user's id.
OwnerLock == [][\A a \in Claimed : owner'[a] = owner[a]]_vars

\* bridgeSockets holds "the CURRENT bridge connection" of an agent: a socket
\* that is connected.
OwnerIsCurrent ==
    \A a \in Agents : bridgeSockets[a] # NoSocket => Open(bridgeSockets[a])

\* "If instance already exists under a different userId, reject": no
\* registration writes its user's id over another user's.
OwnerNeverReassigned ==
    [][\A a \in Agents : owner[a] \in Users => owner'[a] = owner[a]]_vars

\* A socket whose token has expired does not stay connected: two sweeps close
\* it, whatever it and the other sockets do in between.
ExpiredSocketLeaves ==
    \A s \in Sockets : expiry[s] = "expired" ~> ~Open(s)

\* What ConsoleService may rely on when it sends a command to `bridge:<agentId>`.
Route == INSTANCE CommandRoute WITH
    Bridges <- Sockets,
    Home    <- [s \in Sockets |-> AgentOf(s)],
    route   <- [a \in Agents |-> {s \in bridgeRoom[a] : Open(s)}],
    retired <- {s \in Sockets : conn[s] \in {"kicked", "closed"}}

\* The gateway implements that promise: every step of it attaches one bridge in
\* place of the last, retires bridges for good, or changes no route.
ImplementsCommandRoute == Route!Spec

==============================================================================
