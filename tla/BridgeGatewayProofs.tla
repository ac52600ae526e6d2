------------------------- MODULE BridgeGatewayProofs -------------------------
(***************************************************************************)
(* Theorems about BridgeGateway for every set of sockets, agents and       *)
(* users, every assignment of claims and both ways of handling a kick.     *)
(***************************************************************************)
EXTENDS BridgeGateway, TLAPS

PcType == [Handlers -> [Sockets -> Steps]]

\* Setting one entry of pc, and what HandleDisconnect does to it, keep its type.
LEMMA PcSet ==
    ASSUME NEW p \in PcType, NEW h \in Handlers, NEW s \in Sockets, NEW x \in Steps
    PROVE  [p EXCEPT ![h][s] = x] \in PcType
  BY DEF PcType

LEMMA PcOfflining ==
    ASSUME NEW base \in PcType, NEW K
    PROVE  Offlining(K, base) \in PcType
<1>1. "disconnect" \in Handlers /\ "write" \in Steps
  BY DEF Handlers, Steps
<1>2. base["disconnect"] \in [Sockets -> Steps]
  BY <1>1 DEF PcType
<1> QED
  BY <1>1, <1>2 DEF PcType, Offlining

\* Disconnecting a set of sockets keeps the types of what it changes.
LEMMA DisconnectType ==
    ASSUME TypeOK, NEW K, NEW base \in PcType, HandleDisconnect(K, base)
    PROVE  /\ conn' \in [Sockets -> {"new", "verifying", "ready", "kicked", "closed"}]
           /\ bridgeSockets' \in [Agents -> Sockets \cup {NoSocket}]
           /\ bridgeRoom' \in [Agents -> SUBSET Sockets]
           /\ pc' \in PcType
<1>1. pc' \in PcType
  BY PcOfflining DEF HandleDisconnect
<1> QED
  BY <1>1 DEF TypeOK, HandleDisconnect, Marked, Unowned

LEMMA ServerDisconnectType ==
    ASSUME TypeOK, NEW K, NEW base \in PcType, ServerDisconnect(K, base)
    PROVE  /\ conn' \in [Sockets -> {"new", "verifying", "ready", "kicked", "closed"}]
           /\ bridgeSockets' \in [Agents -> Sockets \cup {NoSocket}]
           /\ bridgeRoom' \in [Agents -> SUBSET Sockets]
           /\ pc' \in PcType
<1>1. CASE HandleDisconnect(K, base)
  BY <1>1, DisconnectType
<1>2. CASE /\ conn' = Marked(K, "kicked")
           /\ bridgeRoom' = [a \in Agents |-> bridgeRoom[a] \ K]
           /\ pc' = base
           /\ UNCHANGED bridgeSockets
  BY <1>2 DEF TypeOK, Marked
<1> QED
  BY <1>1, <1>2 DEF ServerDisconnect

LEMMA EndedType ==
    ASSUME TypeOK, NEW h \in Handlers, NEW s \in Sockets
    PROVE  /\ Ended(h, s) \in PcType
           /\ Forgotten(h, s) \in [Sockets -> Users \cup {Missing, Unclaimed}]
<1>1. pc \in PcType /\ "idle" \in Steps
  BY DEF TypeOK, PcType, Steps
<1> QED
  BY <1>1, PcSet DEF Ended, Forgotten, TypeOK

\* A socket step that belongs to a handler belongs to one of an agent's bridge.
LEMMA ClaimsType ==
    ASSUME NEW s \in Sockets
    PROVE  /\ Claims[s].user \in Users
           /\ AgentOf(s) \in Agents \cup {NoAgent}
           /\ IsBridge(s) => AgentOf(s) \in Agents
           /\ Claims[s].complete \in BOOLEAN
  BY ConstantsOK DEF ClaimSet, AgentOf, IsBridge

\* Only a bridge's handlers are ever in flight.
BridgeTasks == \A h \in Handlers, s \in Sockets : pc[h][s] # "idle" => IsBridge(s)

LEMMA TypeSocketStep ==
    ASSUME TypeOK, BridgeTasks, NEW s \in Sockets, SocketStep(s)
    PROVE  TypeOK'
<1>1. pc \in PcType /\ "register" \in Handlers /\ "telemetry" \in Handlers
  BY DEF TypeOK, PcType, Handlers
<1>2. {"idle", "find", "found", "write"} \subseteq Steps
  BY DEF Steps
<1>a. CASE Connect(s) \/ Verified(s) \/ Rejected(s) \/ ExpireToken(s)
  BY <1>a DEF TypeOK, Connect, Verified, Rejected, ExpireToken, document
<1>b. CASE Disconnect(s) \/ LateDisconnect(s)
  <2>1. HandleDisconnect({s}, pc)
    BY <1>b DEF Disconnect, LateDisconnect
  <2> QED
    BY <1>b, <1>1, <2>1, DisconnectType
       DEF TypeOK, PcType, Disconnect, LateDisconnect, document
<1>c. CASE Register(s)
  <2>1. pc' \in PcType
    BY <1>c, <1>1, <1>2, PcSet DEF Register
  <2> QED
    BY <1>c, <2>1 DEF TypeOK, PcType, Register, document
<1>d. CASE RegisterMismatch(s)
  BY <1>d, <1>1, ServerDisconnectType
     DEF TypeOK, PcType, RegisterMismatch, document
<1>e. CASE DbFind(s)
  <2>1. pc' \in PcType
    BY <1>e, <1>1, <1>2, PcSet DEF DbFind
  <2>2. Missing \in Users \cup {Missing, Unclaimed}
    OBVIOUS
  <2>3. owner[AgentOf(s)] \in Users \cup {Missing, Unclaimed}
    BY <1>e, <1>1, ClaimsType DEF TypeOK, BridgeTasks, DbFind
  <2> QED
    BY <1>e, <2>1, <2>2, <2>3 DEF TypeOK, PcType, DbFind, document
<1>f. CASE RegisterRejected(s)
  BY <1>f, <1>1, EndedType, ServerDisconnectType
     DEF TypeOK, PcType, RegisterRejected, document
<1>g. CASE RegisterSkipped(s)
  BY <1>g, <1>1, EndedType DEF TypeOK, PcType, RegisterSkipped, document
<1>h. CASE RegisterAccepted(s)
  <2> DEFINE sent == [pc EXCEPT !["register"][s] = "write"]
  <2>1. sent \in PcType
    BY <1>1, <1>2, PcSet
  <2>2. Offlining(Stale(s), sent) \in PcType
    BY <2>1, PcOfflining
  <2>3. pc' \in PcType
    BY <1>h, <2>1, <2>2 DEF RegisterAccepted
  <2>4. conn' \in [Sockets -> {"new", "verifying", "ready", "kicked", "closed"}]
    BY <1>h DEF TypeOK, RegisterAccepted, Marked
  <2> QED
    BY <1>h, <2>3, <2>4 DEF TypeOK, PcType, RegisterAccepted, document
<1>i. CASE Telemetry(s)
  <2>1. pc' \in PcType
    BY <1>i, <1>1, <1>2, PcSet DEF Telemetry
  <2>2. cache' \in [Agents -> {"none", "recent", "old"}]
    BY <1>i, ConstantsOK DEF TypeOK, Telemetry
  <2> QED
    BY <1>i, <2>1, <2>2 DEF TypeOK, PcType, Telemetry, document
<1> QED
  BY <1>a, <1>b, <1>c, <1>d, <1>e, <1>f, <1>g, <1>h, <1>i DEF SocketStep

LEMMA TypeHandlerStep ==
    ASSUME TypeOK, NEW h \in Handlers, NEW s \in Sockets, HandlerStep(h, s)
    PROVE  TypeOK'
<1>1. pc \in PcType
  BY DEF TypeOK, PcType
<1>2. {"idle", "write", "written", "orphan"} \subseteq Steps
  BY DEF Steps
<1>a. CASE Announce(h, s)
  <2>1. pc' \in PcType
    BY <1>a, <1>1, <1>2, PcSet DEF Announce
  <2> QED
    BY <1>a, <2>1 DEF TypeOK, PcType, Announce, document
<1>b. CASE DbWrite(h, s)
  <2>1. pc' \in PcType
    BY <1>b, <1>1, <1>2, PcSet DEF DbWrite
  <2>2. owner' \in [Agents -> Users \cup {Missing, Unclaimed}]
    BY <1>b, ClaimsType DEF TypeOK, DbWrite
  <2>3. ASSUME NEW a, NEW b \in BOOLEAN
        PROVE  [online EXCEPT ![a] = b] \in [Agents -> BOOLEAN]
    BY Zenon DEF TypeOK
  <2>4. online' \in [Agents -> BOOLEAN]
    <3>1. (h \in Raising) \in BOOLEAN
      OBVIOUS
    <3>2. online' = online \/ online' = [online EXCEPT ![AgentOf(s)] = h \in Raising]
      BY <1>b, Zenon DEF DbWrite
    <3> QED
      BY <2>3, <3>1, <3>2, Zenon DEF TypeOK
  <2>5. hidden' \in [Agents -> BOOLEAN]
    BY <1>b DEF TypeOK, DbWrite
  <2> QED
    BY <1>b, <2>1, <2>2, <2>4, <2>5 DEF TypeOK, PcType, DbWrite
<1>c. CASE Reply(h, s)
  BY <1>c, EndedType DEF TypeOK, PcType, Reply, document
<1>d. CASE MongoError(h, s)
  <2>1. pc' \in PcType
    BY <1>d, <1>1, <1>2, EndedType, PcSet DEF MongoError
  <2> QED
    BY <1>d, <2>1, EndedType DEF TypeOK, PcType, MongoError, document
<1>e. CASE Drop(h, s)
  BY <1>e, EndedType DEF TypeOK, PcType, Drop, document
<1> QED
  BY <1>a, <1>b, <1>c, <1>d, <1>e DEF HandlerStep

LEMMA TypeNext == TypeOK /\ BridgeTasks /\ [Next]_vars => TypeOK'
<1> SUFFICES ASSUME TypeOK, BridgeTasks, [Next]_vars PROVE TypeOK'
  OBVIOUS
<1>1. ASSUME NEW s \in Sockets, SocketStep(s) PROVE TypeOK'
  BY <1>1, TypeSocketStep
<1>2. ASSUME NEW h \in Handlers, NEW s \in Sockets, HandlerStep(h, s) PROVE TypeOK'
  BY <1>2, TypeHandlerStep
<1>3. ASSUME NEW a \in Agents, CacheAge(a) \/ CacheExpire(a) PROVE TypeOK'
  BY <1>3 DEF TypeOK, CacheAge, CacheExpire, document
<1>4. CASE Sweep
  <2>1. pc \in PcType
    BY DEF TypeOK, PcType
  <2>2. expiry' \in [Sockets -> {"valid", "expired", "notified"}]
    BY <1>4 DEF TypeOK, Sweep, Notified
  <2> QED
    BY <1>4, <2>1, <2>2, ServerDisconnectType DEF TypeOK, PcType, Sweep, document
<1>5. CASE Restart
  <2>1. pc' \in [Handlers -> [Sockets -> Steps]]
    BY <1>5 DEF Restart, Steps
  <2> QED
    BY <1>5, <2>1 DEF TypeOK, Restart, document
<1>6. CASE UNCHANGED vars
  BY <1>6 DEF TypeOK, vars, process, document
<1> QED
  BY <1>1, <1>2, <1>3, <1>4, <1>5, <1>6 DEF Next, Serve

\* A handler starts for a bridge that is connected, or held for its agent's
\* current one.
MayStart(s) == IsBridge(s) /\ (conn[s] = "ready" \/ bridgeSockets[AgentOf(s)] = s)

LEMMA OffliningStarts ==
    ASSUME NEW K, NEW base \in PcType, pc' = Offlining(K, base),
           NEW h \in Handlers, NEW t \in Sockets, base[h][t] = "idle", pc'[h][t] # "idle"
    PROVE  MayStart(t)
  BY DEF Offlining, Owns, PcType, MayStart, Handlers

LEMMA SocketStarts ==
    ASSUME TypeOK, NEW s \in Sockets, SocketStep(s), NEW h \in Handlers, NEW t \in Sockets,
           pc[h][t] = "idle", pc'[h][t] # "idle"
    PROVE  MayStart(t)
<1>1. "register" \in Handlers /\ "telemetry" \in Handlers /\ "disconnect" \in Handlers
  BY DEF Handlers
<1>2. pc \in PcType
  BY DEF TypeOK, PcType
<1>a. CASE UNCHANGED pc
  BY <1>a
<1>b. CASE Register(s) \/ Telemetry(s)
  BY <1>b, <1>1, <1>2 DEF Register, Telemetry, Receives, PcType, MayStart
<1>c. CASE DbFind(s)
  BY <1>c, <1>1, <1>2 DEF DbFind, PcType
<1>e. CASE Disconnect(s) \/ LateDisconnect(s)
  BY <1>e, <1>2, OffliningStarts DEF Disconnect, LateDisconnect, HandleDisconnect
<1>f. CASE RegisterMismatch(s)
  BY <1>f, <1>2, OffliningStarts DEF RegisterMismatch, ServerDisconnect, HandleDisconnect
<1>g. CASE RegisterRejected(s) \/ RegisterSkipped(s)
  <2>1. Ended("register", s) \in PcType
    BY <1>1, EndedType
  <2>2. Ended("register", s)[h][t] = "idle"
    BY <1>1, <1>2 DEF Ended, PcType
  <2> QED
    BY <1>g, OffliningStarts, <2>1, <2>2
       DEF RegisterRejected, RegisterSkipped, ServerDisconnect, HandleDisconnect
<1>h. CASE RegisterAccepted(s)
  <2> DEFINE sent == [pc EXCEPT !["register"][s] = "write"]
  <2>1. sent \in PcType
    BY <1>1, <1>2, PcSet DEF Steps
  <2>2. sent[h][t] = "idle"
    BY <1>h, <1>1, <1>2 DEF PcType, RegisterAccepted
  <2>3. pc' = sent \/ pc' = Offlining(Stale(s), sent)
    BY <1>h DEF RegisterAccepted
  <2> QED
    BY OffliningStarts, <2>1, <2>2, <2>3
<1> QED
  BY <1>a, <1>b, <1>c, <1>e, <1>f, <1>g, <1>h
     DEF SocketStep, Connect, Verified, Rejected, ExpireToken

LEMMA TaskStarts ==
    ASSUME TypeOK, [Next]_vars, NEW h \in Handlers, NEW t \in Sockets,
           pc[h][t] = "idle", pc'[h][t] # "idle"
    PROVE  MayStart(t)
<1>1. ASSUME NEW s \in Sockets, SocketStep(s) PROVE MayStart(t)
  BY <1>1, SocketStarts
<1>2. ASSUME NEW g \in Handlers, NEW s \in Sockets, HandlerStep(g, s) PROVE MayStart(t)
  <2>1. CASE Announce(g, s)
    BY <2>1 DEF Announce, Receives, TypeOK, MayStart
  <2>2. CASE DbWrite(g, s) \/ Reply(g, s) \/ MongoError(g, s) \/ Drop(g, s)
    BY <2>2 DEF DbWrite, Reply, MongoError, Drop, Ended, TypeOK
  <2> QED
    BY <1>2, <2>1, <2>2 DEF HandlerStep
<1>3. CASE UNCHANGED pc
  BY <1>3
<1>4. CASE Sweep
  <2>1. pc \in PcType
    BY DEF TypeOK, PcType
  <2> QED
    BY <1>4, <2>1, OffliningStarts DEF Sweep, ServerDisconnect, HandleDisconnect
<1>5. CASE Restart
  BY <1>5 DEF Restart
<1> QED
  BY <1>1, <1>2, <1>3, <1>4, <1>5
     DEF Next, Serve, CacheAge, CacheExpire, vars, process

LEMMA TasksNext == TypeOK /\ BridgeTasks /\ [Next]_vars => BridgeTasks'
  BY TaskStarts DEF BridgeTasks, MayStart, IsBridge, AgentOf

LEMMA TypeInit == Init => TypeOK /\ BridgeTasks
  BY DEF Init, InitProcess, InitDocument, TypeOK, Steps, BridgeTasks

LEMMA TasksCorrect == Spec => [](TypeOK /\ BridgeTasks)
  BY TypeInit, TypeNext, TasksNext, PTL DEF Spec

\* Every variable keeps its type, whatever the sockets and Mongo do.
THEOREM TypeCorrect == Spec => []TypeOK
  BY TasksCorrect, PTL

------------------------------------------------------------------------------
(***************************************************************************)
(* LiveRoute is not inductive: a socket that only now connects must not    *)
(* already have a seat (Seated), and a register handler must not resume    *)
(* for such a socket and give it one (Underway).                           *)
(***************************************************************************)
Early(s) == conn[s] \in {"new", "verifying"}

Seated ==
    \A a \in Agents, s \in Sockets :
        s \in bridgeRoom[a] \/ bridgeSockets[a] = s => AgentOf(s) = a /\ ~Early(s)

Underway == \A h \in Handlers, s \in Sockets : pc[h][s] # "idle" => ~Early(s)

RouteInv == TypeOK /\ BridgeTasks /\ Seated /\ Underway /\ LiveRoute

\* No step makes a socket new again.
LEMMA EarlyBefore ==
    ASSUME TypeOK, [Next]_vars, NEW t \in Sockets, Early(t)'
    PROVE  Early(t)
<1>1. ASSUME NEW s \in Sockets, SocketStep(s) PROVE Early(t)
  BY <1>1 DEF Early, TypeOK, SocketStep, Connect, Verified, Rejected, Disconnect,
       LateDisconnect, ExpireToken, Register, RegisterMismatch, DbFind, RegisterRejected,
       RegisterSkipped, RegisterAccepted, Telemetry, ServerDisconnect, HandleDisconnect, Marked
<1>2. CASE UNCHANGED conn
  BY <1>2 DEF Early
<1>3. CASE Sweep
  BY <1>3 DEF Early, TypeOK, Sweep, ServerDisconnect, HandleDisconnect, Marked
<1>4. CASE Restart
  BY <1>4 DEF Early, TypeOK, Restart
<1> QED
  BY <1>1, <1>2, <1>3, <1>4
     DEF Next, Serve, HandlerStep, Announce, DbWrite, Reply, MongoError, Drop,
         CacheAge, CacheExpire, vars, process

LEMMA UnderwayNext ==
    ASSUME RouteInv, [Next]_vars
    PROVE  Underway'
<1> SUFFICES ASSUME NEW h \in Handlers, NEW s \in Sockets, pc'[h][s] # "idle", Early(s)'
             PROVE  FALSE
  BY DEF Underway
<1>1. Early(s)
  BY EarlyBefore DEF RouteInv
<1>2. CASE pc[h][s] # "idle"
  BY <1>1, <1>2 DEF RouteInv, Underway
<1>3. CASE pc[h][s] = "idle"
  <2>1. MayStart(s)
    BY <1>3, TaskStarts DEF RouteInv
  <2> QED
    BY <1>1, <2>1, ClaimsType DEF MayStart, Early, RouteInv, Seated
<1> QED
  BY <1>2, <1>3

\* Disconnecting sockets unseats them and nobody else.
LEMMA DisconnectRoute ==
    ASSUME RouteInv, NEW K, NEW base, HandleDisconnect(K, base)
    PROVE  Seated' /\ LiveRoute'
<1>1. \A a \in Agents, s \in Sockets :
         /\ s \in bridgeRoom'[a] => s \in bridgeRoom[a]
         /\ bridgeSockets'[a] = s => bridgeSockets[a] = s
         /\ Early(s)' => Early(s)
  BY ConstantsOK DEF HandleDisconnect, Unowned, Marked, Early, RouteInv, TypeOK
<1>2. Seated'
  BY <1>1 DEF RouteInv, Seated, AgentOf
<1>3. ASSUME NEW a \in Agents, NEW s \in Sockets, Open(s)'
      PROVE  s \in bridgeRoom'[a] <=> bridgeSockets'[a] = s
  <2>1. s \notin K /\ Open(s)
    BY <1>3 DEF HandleDisconnect, Marked, Open, RouteInv, TypeOK
  <2>2. s \in bridgeRoom'[a] <=> s \in bridgeRoom[a]
    BY <2>1 DEF HandleDisconnect
  <2>3. bridgeSockets'[a] = s <=> bridgeSockets[a] = s
    BY <2>1, ConstantsOK DEF HandleDisconnect, Unowned, Owns
  <2> QED
    BY <2>1, <2>2, <2>3 DEF RouteInv, LiveRoute
<1> QED
  BY <1>2, <1>3 DEF LiveRoute

LEMMA ServerDisconnectRoute ==
    ASSUME RouteInv, NEW K, NEW base, ServerDisconnect(K, base)
    PROVE  Seated' /\ LiveRoute'
<1>1. CASE HandleDisconnect(K, base)
  BY <1>1, DisconnectRoute
<1>2. CASE /\ conn' = Marked(K, "kicked")
           /\ bridgeRoom' = [a \in Agents |-> bridgeRoom[a] \ K]
           /\ UNCHANGED bridgeSockets
  <2>1. Seated'
    BY <1>2 DEF RouteInv, TypeOK, Seated, Marked, Early, AgentOf
  <2>2. LiveRoute'
    BY <1>2 DEF RouteInv, TypeOK, LiveRoute, Marked, Open
  <2> QED
    BY <2>1, <2>2
<1> QED
  BY <1>1, <1>2 DEF ServerDisconnect

\* A valid registration seats its socket in place of the open one before it.
LEMMA AcceptedRoute ==
    ASSUME RouteInv, NEW s \in Sockets, RegisterAccepted(s)
    PROVE  Seated' /\ LiveRoute'
<1> DEFINE a == AgentOf(s)
<1>1. "register" \in Handlers /\ pc["register"][s] # "idle"
  BY DEF RegisterAccepted, Handlers
<1>2. a \in Agents /\ ~Early(s)
  BY <1>1, ClaimsType DEF RouteInv, BridgeTasks, Underway
<1>3. \A t \in Sockets : /\ conn'[t] = conn[t] \/ conn'[t] \in {"kicked", "closed"}
                         /\ t \in Stale(s) => ~Open(t)'
  BY DEF RegisterAccepted, Marked, Open, RouteInv, TypeOK
<1>4. /\ bridgeSockets' = [bridgeSockets EXCEPT ![a] = s]
      /\ bridgeRoom' = [bridgeRoom EXCEPT ![a] = (@ \ Stale(s)) \cup {r \in {s} : Open(r)}]
  BY DEF RegisterAccepted
<1>5. Seated'
  BY <1>2, <1>3, <1>4 DEF RouteInv, TypeOK, Seated, Early, AgentOf
<1>6. ASSUME NEW b \in Agents, NEW t \in Sockets, Open(t)'
      PROVE  t \in bridgeRoom'[b] <=> bridgeSockets'[b] = t
  <2>1. Open(t) /\ t \notin Stale(s)
    BY <1>3, <1>6 DEF Open
  <2>2. t \in bridgeRoom[b] <=> bridgeSockets[b] = t
    BY <2>1 DEF RouteInv, LiveRoute
  <2>3. CASE b = a
    BY <1>2, <1>4, <2>1, <2>2, <2>3 DEF Stale, RouteInv, TypeOK
  <2>4. CASE b # a
    BY <1>4, <2>2, <2>4 DEF RouteInv, TypeOK
  <2> QED
    BY <2>3, <2>4
<1> QED
  BY <1>5, <1>6 DEF LiveRoute

LEMMA RouteNext == RouteInv /\ [Next]_vars => RouteInv'
<1> SUFFICES ASSUME RouteInv, [Next]_vars PROVE Seated' /\ LiveRoute'
  BY TypeNext, TasksNext, UnderwayNext DEF RouteInv
<1>1. ASSUME NEW s \in Sockets, SocketStep(s) PROVE Seated' /\ LiveRoute'
  <2>1. CASE Disconnect(s) \/ LateDisconnect(s)
    BY <2>1, DisconnectRoute DEF Disconnect, LateDisconnect
  <2>2. CASE RegisterMismatch(s) \/ RegisterRejected(s)
    BY <2>2, ServerDisconnectRoute DEF RegisterMismatch, RegisterRejected
  <2>3. CASE RegisterAccepted(s)
    BY <2>3, AcceptedRoute
  <2>4. CASE Connect(s) \/ Verified(s) \/ Rejected(s)
    BY <2>4 DEF Connect, Verified, Rejected, RouteInv, TypeOK, Seated, LiveRoute, Early,
                Open, AgentOf
  <2>5. CASE UNCHANGED <<conn, bridgeSockets, bridgeRoom>>
    BY <2>5 DEF RouteInv, Seated, LiveRoute, Early, Open, AgentOf
  <2> QED
    BY <1>1, <2>1, <2>2, <2>3, <2>4, <2>5
       DEF SocketStep, ExpireToken, Register, DbFind, RegisterSkipped, Telemetry
<1>2. CASE UNCHANGED <<conn, bridgeSockets, bridgeRoom>>
  BY <1>2 DEF RouteInv, Seated, LiveRoute, Early, Open, AgentOf
<1>3. CASE Sweep
  BY <1>3, ServerDisconnectRoute DEF Sweep
<1>4. CASE Restart
  BY <1>4, ConstantsOK DEF Restart, RouteInv, TypeOK, Seated, LiveRoute, Early, Open, AgentOf
<1> QED
  BY <1>1, <1>2, <1>3, <1>4
     DEF Next, Serve, HandlerStep, Announce, DbWrite, Reply, MongoError, Drop,
         CacheAge, CacheExpire, vars, process

LEMMA RouteInit == Init => RouteInv
  BY TypeInit, ConstantsOK
     DEF Init, InitProcess, RouteInv, Seated, Underway, LiveRoute, Early, Open

LEMMA RouteCorrect == Spec => []RouteInv
  BY RouteInit, RouteNext, PTL DEF Spec

\* A connected bridge receives its agent's commands exactly when the gateway
\* holds it for the current bridge, in every reachable state.
THEOREM RouteIsLive == Spec => []LiveRoute
<1>1. RouteInv => LiveRoute
  BY DEF RouteInv
<1> QED
  BY <1>1, RouteCorrect, PTL

------------------------------------------------------------------------------
(***************************************************************************)
(* The ownership lock checks, then acts.  For an agent claimed before the  *)
(* process started the check stays true until the act: what a handler read *)
(* is still the owner, and an update on its way names that owner.          *)
(***************************************************************************)
Sent == {"write", "written", "orphan"}

LockHolds(s) ==
    /\ pc["register"][s] = "found" => found[s] = owner[AgentOf(s)]
    /\ pc["register"][s] \in Sent => Claims[s].user = owner[AgentOf(s)]

LockInv ==
    /\ \A a \in Claimed : owner[a] \in Users
    /\ \A s \in Sockets : AgentOf(s) \in Claimed => LockHolds(s)
    /\ RouteOwner

\* The registration passes the lock and has every field.
Accepting(s) == pc["register"][s] = "found" /\ ~Foreign(s) /\ Claims[s].complete

\* All that a step may do to what LockInv speaks of.
LockMoves ==
    /\ \A s \in Sockets :
          /\ pc'["register"][s] = "found" =>
                \/ pc["register"][s] = "found" /\ found'[s] = found[s]
                \/ found'[s] = owner[AgentOf(s)]
          /\ pc'["register"][s] \in Sent => pc["register"][s] \in Sent \/ Accepting(s)
    /\ \/ owner' = owner
       \/ \E s \in Sockets : /\ pc["register"][s] \in Sent
                             /\ owner' = [owner EXCEPT ![AgentOf(s)] = Claims[s].user]
    /\ \A a \in Agents, s \in Sockets :
          s \in bridgeRoom'[a] => \/ s \in bridgeRoom[a]
                                  \/ AgentOf(s) = a /\ Accepting(s)

LEMMA DisconnectMoves ==
    ASSUME TypeOK, NEW K, NEW base \in PcType, ServerDisconnect(K, base) \/ HandleDisconnect(K, base)
    PROVE  /\ pc'["register"] = base["register"]
           /\ \A a \in Agents : bridgeRoom'[a] \subseteq bridgeRoom[a]
<1>1. "register" \in Handlers
  BY DEF Handlers
<1>2. Offlining(K, base)["register"] = base["register"]
  BY <1>1 DEF Offlining, PcType
<1>3. pc' = base \/ pc' = Offlining(K, base)
  BY DEF ServerDisconnect, HandleDisconnect
<1> QED
  BY <1>2, <1>3 DEF ServerDisconnect, HandleDisconnect

LEMMA SocketMoves ==
    ASSUME TypeOK, NEW s \in Sockets, SocketStep(s)
    PROVE  LockMoves
<1>1. "register" \in Handlers /\ "telemetry" \in Handlers
  BY DEF Handlers
<1>2. pc \in PcType
  BY DEF TypeOK, PcType
<1>3. owner' = owner
  BY DEF SocketStep, Connect, Verified, Rejected, Disconnect, LateDisconnect, ExpireToken,
         Register, RegisterMismatch, DbFind, RegisterRejected, RegisterSkipped,
         RegisterAccepted, Telemetry, document
<1>a. CASE UNCHANGED <<pc, found, bridgeRoom>>
  BY <1>3, <1>a DEF LockMoves
<1>b. CASE Register(s) \/ Telemetry(s)
  BY <1>1, <1>2, <1>3, <1>b DEF LockMoves, Register, Telemetry, PcType, Sent
<1>c. CASE DbFind(s)
  BY <1>1, <1>2, <1>3, <1>c DEF LockMoves, DbFind, TypeOK, PcType, Sent
<1>d. CASE Disconnect(s) \/ LateDisconnect(s) \/ RegisterMismatch(s)
  <2>1. UNCHANGED found
    BY <1>d DEF Disconnect, LateDisconnect, RegisterMismatch
  <2>2. /\ pc'["register"] = pc["register"]
        /\ \A a \in Agents : bridgeRoom'[a] \subseteq bridgeRoom[a]
    BY <1>d, <1>2, DisconnectMoves DEF Disconnect, LateDisconnect, RegisterMismatch
  <2> QED
    BY <1>3, <2>1, <2>2 DEF LockMoves
<1>e. CASE RegisterRejected(s) \/ RegisterSkipped(s)
  <2> DEFINE base == Ended("register", s)
  <2>1. base \in PcType
    BY <1>1, EndedType
  <2>2. /\ pc'["register"] = base["register"]
        /\ \A a \in Agents : bridgeRoom'[a] \subseteq bridgeRoom[a]
    <3>1. CASE RegisterRejected(s)
      BY <3>1, <2>1, DisconnectMoves DEF RegisterRejected
    <3>2. CASE RegisterSkipped(s)
      BY <3>2 DEF RegisterSkipped
    <3> QED
      BY <1>e, <3>1, <3>2
  <2>3. found' = [found EXCEPT ![s] = Missing]
    BY <1>e DEF RegisterRejected, RegisterSkipped, Forgotten
  <2>4. \A t \in Sockets : base["register"][t] = IF t = s THEN "idle" ELSE pc["register"][t]
    BY <1>1, <1>2 DEF Ended, PcType
  <2> QED
    BY <1>3, <2>2, <2>3, <2>4 DEF LockMoves, TypeOK, Sent
<1>f. CASE RegisterAccepted(s)
  <2> DEFINE sent == [pc EXCEPT !["register"][s] = "write"]
  <2>1. sent \in PcType
    BY <1>1, <1>2, PcSet DEF Steps
  <2>2. pc'["register"] = sent["register"]
    <3>1. Offlining(Stale(s), sent)["register"] = sent["register"]
      BY <1>1, <2>1 DEF Offlining, PcType
    <3> QED
      BY <1>f, <3>1 DEF RegisterAccepted
  <2>3. \A t \in Sockets : sent["register"][t] = IF t = s THEN "write" ELSE pc["register"][t]
    BY <1>1, <1>2 DEF PcType
  <2>4. Accepting(s) /\ UNCHANGED found
    BY <1>f DEF RegisterAccepted, Accepting, Complete
  <2>5. \A a \in Agents, t \in Sockets :
           t \in bridgeRoom'[a] => t \in bridgeRoom[a] \/ (a = AgentOf(s) /\ t = s)
    BY <1>f DEF RegisterAccepted, TypeOK
  <2> QED
    BY <1>3, <2>2, <2>3, <2>4, <2>5 DEF LockMoves, Sent
<1> QED
  BY <1>a, <1>b, <1>c, <1>d, <1>e, <1>f
     DEF SocketStep, Connect, Verified, Rejected, ExpireToken

LEMMA HandlerMoves ==
    ASSUME TypeOK, NEW h \in Handlers, NEW s \in Sockets, HandlerStep(h, s)
    PROVE  LockMoves
<1>1. "register" \in Handlers
  BY DEF Handlers
<1>2. UNCHANGED bridgeRoom
  BY DEF HandlerStep, Announce, DbWrite, Reply, MongoError, Drop
<1>a. CASE Announce(h, s)
  BY <1>a, <1>1, <1>2 DEF Announce, TypeOK, LockMoves, document
<1>b. CASE DbWrite(h, s)
  <2>1. h = "register" => pc["register"][s] \in Sent
    BY <1>b DEF DbWrite, Sent
  <2>2. \A t \in Sockets : /\ pc'["register"][t] \in Sent => pc["register"][t] \in Sent
                           /\ pc'["register"][t] = "found" => pc["register"][t] = "found"
    BY <1>b, <1>1 DEF DbWrite, TypeOK, Sent
  <2>3. UNCHANGED found
    BY <1>b DEF DbWrite
  <2>4. \/ owner' = owner
        \/ /\ pc["register"][s] \in Sent
           /\ owner' = [owner EXCEPT ![AgentOf(s)] = Claims[s].user]
    BY <1>b, <2>1 DEF DbWrite
  <2> QED
    BY <1>2, <2>2, <2>3, <2>4 DEF LockMoves
<1>c. CASE Reply(h, s) \/ MongoError(h, s) \/ Drop(h, s)
  <2>1. UNCHANGED owner
    BY <1>c DEF Reply, MongoError, Drop, document
  <2>2. \A t \in Sockets : \/ pc'["register"][t] = pc["register"][t]
                           \/ /\ h = "register" /\ t = s
                              /\ pc'["register"][t] \in {"idle", "orphan"}
                              /\ pc'["register"][t] = "orphan" => pc["register"][t] = "write"
    BY <1>c, <1>1 DEF Reply, MongoError, Drop, Ended, TypeOK
  <2>3. \A t \in Sockets : found'[t] = found[t] \/ (h = "register" /\ t = s)
    BY <1>c DEF Reply, MongoError, Drop, Forgotten, TypeOK
  <2>4. pc'["register"][s] = "found" => h # "register"
    BY <1>c, <1>1 DEF Reply, MongoError, Drop, Ended, TypeOK
  <2> QED
    BY <1>2, <2>1, <2>2, <2>3, <2>4 DEF LockMoves, Sent
<1> QED
  BY <1>a, <1>b, <1>c DEF HandlerStep

LEMMA NextMoves == TypeOK /\ [Next]_vars => LockMoves
<1> SUFFICES ASSUME TypeOK, [Next]_vars PROVE LockMoves
  OBVIOUS
<1>1. ASSUME NEW s \in Sockets, SocketStep(s) PROVE LockMoves
  BY <1>1, SocketMoves
<1>2. ASSUME NEW h \in Handlers, NEW s \in Sockets, HandlerStep(h, s) PROVE LockMoves
  BY <1>2, HandlerMoves
<1>3. CASE UNCHANGED <<pc, found, owner, bridgeRoom>>
  BY <1>3 DEF LockMoves
<1>4. CASE Sweep
  BY <1>4, DisconnectMoves DEF Sweep, LockMoves, TypeOK, PcType, document
<1>5. CASE Restart
  <2>1. "register" \in Handlers
    BY DEF Handlers
  <2> QED
    BY <1>5, <2>1 DEF Restart, LockMoves, TypeOK, Sent, document
<1> QED
  BY <1>1, <1>2, <1>3, <1>4, <1>5
     DEF Next, Serve, CacheAge, CacheExpire, vars, process, document

\* A registration that passes the lock is the owner's.
LEMMA AcceptingOwner ==
    ASSUME LockInv, NEW s \in Sockets, AgentOf(s) \in Claimed, Accepting(s)
    PROVE  Claims[s].user = owner[AgentOf(s)]
  BY DEF LockInv, LockHolds, Accepting, Foreign

LEMMA LockKeepsOwner ==
    ASSUME TypeOK, LockInv, [Next]_vars, NEW a \in Claimed
    PROVE  owner'[a] = owner[a]
  BY NextMoves, ConstantsOK DEF LockMoves, LockInv, LockHolds, TypeOK

LEMMA LockNext == RouteInv /\ LockInv /\ [Next]_vars => LockInv'
<1> SUFFICES ASSUME RouteInv, LockInv, [Next]_vars PROVE LockInv'
  OBVIOUS
<1>1. TypeOK /\ LockMoves
  BY NextMoves DEF RouteInv
<1>2. \A a \in Claimed : owner'[a] = owner[a]
  BY <1>1, LockKeepsOwner
<1>3. ASSUME NEW s \in Sockets, AgentOf(s) \in Claimed PROVE LockHolds(s)'
  BY <1>1, <1>2, <1>3, AcceptingOwner
     DEF LockMoves, LockInv, LockHolds, AgentOf
<1>4. ASSUME NEW a \in Claimed, NEW s \in Sockets, s \in bridgeRoom'[a]
      PROVE  /\ AgentOf(s) = a
             /\ Claims[s].user = owner'[a]
             /\ Claims[s].complete
  <2>1. a \in Agents
    BY ConstantsOK
  <2>2. CASE s \in bridgeRoom[a]
    BY <1>2, <2>2 DEF LockInv, RouteOwner
  <2>3. CASE AgentOf(s) = a /\ Accepting(s)
    BY <1>2, <2>3, AcceptingOwner DEF Accepting
  <2> QED
    BY <1>1, <1>4, <2>1, <2>2, <2>3 DEF LockMoves
<1> QED
  BY <1>2, <1>3, <1>4 DEF LockInv, RouteOwner, AgentOf

LEMMA LockInit == Init => LockInv
  BY ConstantsOK DEF Init, InitProcess, InitDocument, LockInv, LockHolds, RouteOwner, Handlers,
                     Sent

LEMMA LockCorrect == Spec => [](RouteInv /\ LockInv)
  BY RouteInit, RouteNext, LockInit, LockNext, PTL DEF Spec

\* The bridge in a claimed agent's command room is its owner's.
THEOREM RouteIsOwners == Spec => []RouteOwner
<1>1. RouteInv /\ LockInv => RouteOwner
  BY DEF LockInv
<1> QED
  BY <1>1, LockCorrect, PTL

\* No step of any execution changes the owner of a claimed agent.
THEOREM OwnerIsLocked == Spec => OwnerLock
<1>1. RouteInv /\ LockInv /\ [Next]_vars => [\A a \in Claimed : owner'[a] = owner[a]]_vars
  BY LockKeepsOwner DEF RouteInv
<1> QED
  BY <1>1, LockCorrect, PTL DEF Spec, OwnerLock

------------------------------------------------------------------------------
(***************************************************************************)
(* The gateway implements CommandRoute.  What it calls the route of an     *)
(* agent is the connected part of its room; a socket that is not early and *)
(* not open is retired.                                                    *)
(***************************************************************************)
Routed  == [a \in Agents |-> {s \in bridgeRoom[a] : Open(s)}]
Retired == {s \in Sockets : conn[s] \in {"kicked", "closed"}}
RouteStep == Route!Next \/ UNCHANGED <<Routed, Retired>>

LEMMA Lives ==
    ASSUME TypeOK, NEW s \in Sockets
    PROVE  /\ Open(s) => s \notin Retired
           /\ Early(s) => s \notin Retired
           /\ ~Open(s) /\ ~Early(s) => s \in Retired
  BY DEF TypeOK, Open, Early, Retired

LEMMA DetachIsStep ==
    ASSUME NEW STATE B, B \in SUBSET Sockets, B \cap Retired = {},
           Retired' = Retired \cup B,
           Routed' = [a \in Agents |-> Routed[a] \ B]
    PROVE  RouteStep
<1>1. PICK C \in SUBSET Sockets : C = B
  OBVIOUS
<1>2. Route!Detach(C)
  BY <1>1 DEF Route!Detach, Routed, Retired
<1> QED
  BY <1>2 DEF Route!Next, RouteStep

\* Sockets that lose their connection and their seats are a Detach.
LEMMA DetachSteps ==
    ASSUME TypeOK, NEW K, NEW life \in {"kicked", "closed"},
           conn' = Marked(K, life),
           bridgeRoom' = [a \in Agents |-> bridgeRoom[a] \ K]
    PROVE  RouteStep
<1> DEFINE B == {s \in Sockets : s \in K /\ s \notin Retired}
<1>1. \A s \in Sockets : /\ Open(s)' <=> Open(s) /\ s \notin K
                         /\ s \in Retired' <=> s \in Retired \/ s \in K
  BY DEF TypeOK, Marked, Open, Retired
<1>2. Retired' = Retired \cup B
  BY <1>1 DEF Retired
<1>3. Routed' = [a \in Agents |-> Routed[a] \ B]
  <2>1. ASSUME NEW a \in Agents
        PROVE  {s \in bridgeRoom'[a] : Open(s)'} = {s \in bridgeRoom[a] : Open(s)} \ B
    BY <1>1, Lives DEF TypeOK
  <2> QED
    BY <2>1 DEF Routed
<1>4. B \cap Retired = {} /\ B \in SUBSET Sockets
  OBVIOUS
<1> HIDE DEF B
<1> QED
  BY <1>2, <1>3, <1>4, DetachIsStep

LEMMA DisconnectSteps ==
    ASSUME TypeOK, NEW K, NEW base, ServerDisconnect(K, base) \/ HandleDisconnect(K, base)
    PROVE  RouteStep
  BY DetachSteps DEF ServerDisconnect, HandleDisconnect

\* A takeover is an Attach; by a socket that is gone already, a Detach of the
\* one before it.
LEMMA AcceptedSteps ==
    ASSUME RouteInv, NEW s \in Sockets, RegisterAccepted(s)
    PROVE  RouteStep
<1> DEFINE a == AgentOf(s)
           R == Stale(s)
<1>1. "register" \in Handlers /\ pc["register"][s] # "idle"
  BY DEF RegisterAccepted, Handlers
<1>2. a \in Agents /\ ~Early(s) /\ TypeOK
  BY <1>1, ClaimsType DEF RouteInv, BridgeTasks, Underway
<1>3. /\ conn' = Marked(R, "closed") \/ conn' = Marked(R, "kicked")
      /\ bridgeRoom' = [bridgeRoom EXCEPT ![a] = (@ \ R) \cup {r \in {s} : Open(r)}]
      /\ R \subseteq Sockets /\ s \notin R
  BY DEF RegisterAccepted, Stale
<1>4. \A t \in Sockets : /\ Open(t)' <=> Open(t) /\ t \notin R
                         /\ t \in Retired' <=> t \in Retired \/ t \in R
  BY <1>2, <1>3 DEF TypeOK, Marked, Open, Retired
<1>5. \A t \in Sockets : t \in R <=> t # s /\ t \in bridgeRoom[a] /\ Open(t)
  BY <1>2 DEF RouteInv, LiveRoute, Stale
<1>6. R = Routed[a] \ {s}
  BY <1>2, <1>3, <1>5 DEF Routed, TypeOK
<1>7. Retired' = Retired \cup R
  BY <1>3, <1>4 DEF Retired
<1>8. \A b \in Agents \ {a} : Routed'[b] = Routed[b] /\ Routed[b] \cap R = {}
  <2> TAKE b \in Agents \ {a}
  <2>1. \A t \in R : t \notin bridgeRoom[b]
    BY <1>2, <1>3, <1>5 DEF RouteInv, Seated
  <2> QED
    BY <1>2, <1>3, <1>4, <2>1 DEF Routed, TypeOK
<1>9. CASE Open(s)
  <2>1. Routed'[a] = {s}
    BY <1>2, <1>3, <1>4, <1>5, <1>9 DEF Routed, TypeOK
  <2>2. Routed' = [Routed EXCEPT ![a] = {s}]
    BY <1>2, <1>8, <2>1 DEF Routed
  <2>3. s \notin Retired
    BY <1>2, <1>9, Lives
  <2>4. Route!Attach(s)
    BY <1>2, <1>6, <1>7, <2>2, <2>3 DEF Route!Attach, Routed, Retired
  <2> QED
    BY <2>4 DEF Route!Next, RouteStep
<1>10. CASE ~Open(s)
  <2>1. Routed'[a] = {}
    BY <1>2, <1>3, <1>4, <1>5, <1>10 DEF Routed, TypeOK
  <2>2. Routed[a] \ R = {}
    BY <1>2, <1>6, <1>10 DEF Routed
  <2>3. Routed' = [b \in Agents |-> Routed[b] \ R]
    BY <1>2, <1>8, <2>1, <2>2 DEF Routed
  <2>4. R \cap Retired = {}
    BY <1>2, <1>3, <1>5, Lives
  <2>5. R \in SUBSET Sockets
    BY <1>3
  <2> HIDE DEF R
  <2> QED
    BY <1>7, <2>3, <2>4, <2>5, DetachIsStep
<1> QED
  BY <1>9, <1>10

LEMMA RestartSteps ==
    ASSUME TypeOK, Restart
    PROVE  RouteStep
<1> DEFINE B == {s \in Sockets : Open(s)}
<1>1. \A s \in Sockets : s \in Retired' <=> s \in Retired \/ Open(s)
  BY DEF TypeOK, Restart, Open, Retired
<1>2. Retired' = Retired \cup B
  BY <1>1 DEF Retired
<1>3. Routed' = [a \in Agents |-> Routed[a] \ B]
  BY DEF TypeOK, Restart, Routed
<1>4. B \cap Retired = {} /\ B \in SUBSET Sockets
  BY Lives
<1> HIDE DEF B
<1> QED
  BY <1>2, <1>3, <1>4, DetachIsStep

LEMMA NextSteps == RouteInv /\ [Next]_vars => RouteStep
<1> SUFFICES ASSUME RouteInv, [Next]_vars PROVE RouteStep
  OBVIOUS
<1>1. TypeOK
  BY DEF RouteInv
<1>2. CASE UNCHANGED <<conn, bridgeRoom>>
  BY <1>2 DEF RouteStep, Routed, Retired, Open
<1>3. ASSUME NEW s \in Sockets, SocketStep(s) PROVE RouteStep
  <2>1. CASE Disconnect(s) \/ LateDisconnect(s) \/ RegisterMismatch(s)
             \/ RegisterRejected(s)
    BY <1>1, <2>1, DisconnectSteps
       DEF Disconnect, LateDisconnect, RegisterMismatch, RegisterRejected
  <2>2. CASE RegisterAccepted(s)
    BY <2>2, AcceptedSteps
  <2>3. CASE Connect(s) \/ Verified(s)
    <3>1. /\ Early(s)
          /\ UNCHANGED bridgeRoom
          /\ \A t \in Sockets \ {s} : conn'[t] = conn[t]
          /\ conn'[s] \in {"verifying", "ready"}
      BY <1>1, <2>3 DEF Connect, Verified, Early, TypeOK
    <3>2. \A a \in Agents : s \notin bridgeRoom[a] /\ bridgeRoom[a] \subseteq Sockets
      BY <3>1 DEF RouteInv, Seated, TypeOK
    <3>3. Routed' = Routed
      BY <3>1, <3>2 DEF Routed, Open
    <3>4. Retired' = Retired
      BY <3>1 DEF Retired, Early
    <3> QED
      BY <3>3, <3>4 DEF RouteStep
  <2>4. CASE Rejected(s)
    <3>1. Early(s)
      BY <2>4 DEF Rejected, Early
    <3>2. bridgeRoom' = [a \in Agents |-> bridgeRoom[a] \ {s}]
      BY <2>4, <3>1 DEF Rejected, RouteInv, Seated, TypeOK
    <3>3. conn' = Marked({s}, "closed")
      BY <1>1, <2>4 DEF Rejected, Marked, TypeOK
    <3> QED
      BY <1>1, <3>2, <3>3, DetachSteps
  <2> QED
    BY <1>2, <1>3, <2>1, <2>2, <2>3, <2>4
       DEF SocketStep, ExpireToken, Register, DbFind, RegisterSkipped, Telemetry
<1>4. CASE Sweep
  BY <1>1, <1>4, DisconnectSteps DEF Sweep
<1>5. CASE Restart
  BY <1>1, <1>5, RestartSteps
<1> QED
  BY <1>2, <1>3, <1>4, <1>5
     DEF Next, Serve, HandlerStep, Announce, DbWrite, Reply, MongoError, Drop,
         CacheAge, CacheExpire, vars, process

\* Commands are routed as CommandRoute promises, for any number of bridges.
THEOREM GatewayImplementsRoute == Spec => ImplementsCommandRoute
<1>1. Init => Route!Init
  BY DEF Init, InitProcess, Route!Init
<1>2. RouteInv /\ [Next]_vars => [Route!Next]_<<Routed, Retired>>
  BY NextSteps DEF RouteStep
<1> QED
  BY <1>1, <1>2, RouteCorrect, PTL
     DEF Spec, ImplementsCommandRoute, Route!Spec, Routed, Retired

==============================================================================
