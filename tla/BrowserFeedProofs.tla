--------------------------- MODULE BrowserFeedProofs ---------------------------
(***************************************************************************)
(* Theorems about BrowserFeed, for every set of sockets, agents and users. *)
(* Its steps are steps of the gateway, or leave the gateway alone, or      *)
(* close the socket of a stranger who subscribed, which no step of the     *)
(* gateway alone does when the disconnect event comes late (Expulsion).    *)
(***************************************************************************)
EXTENDS BrowserFeed, BridgeGatewayProofs

Under == RouteInv /\ LockInv

\* What a rejected subscribe does to the gateway.
Expulsion ==
    \E K \in SUBSET Sockets :
        /\ ServerDisconnect(K, pc)
        /\ UNCHANGED <<expiry, cache, found, document>>

LEMMA UnderSteps == [FeedNext]_fvars => [Next]_vars \/ Expulsion
<1> SUFFICES ASSUME [FeedNext]_fvars PROVE [Next]_vars \/ Expulsion
  OBVIOUS
<1>1. ASSUME NEW s \in Sockets, NEW a \in Agents, BrowserStep(s, a)
      PROVE  UNCHANGED vars \/ Expulsion
  <2>1. CASE SubRejected(s, a)
    <3>1. {r \in {s} : Open(r)} \in SUBSET Sockets
      OBVIOUS
    <3> QED
      BY <2>1, <3>1 DEF SubRejected, Expulsion
  <2> QED
    BY <1>1, <2>1
       DEF BrowserStep, Subscribe, SubFind, SubAccepted, SubFails, Unsubscribe
<1>2. FeedServe \/ FeedRestart => Next
  BY DEF FeedServe, FeedRestart, Next
<1>3. UNCHANGED fvars => UNCHANGED vars
  BY DEF fvars
<1> QED
  BY <1>1, <1>2, <1>3 DEF FeedNext

\* An expulsion keeps what the gateway's steps keep.
LEMMA ExpulsionKeeps ==
    ASSUME Under, Expulsion
    PROVE  Under'
<1>1. PICK K \in SUBSET Sockets : /\ ServerDisconnect(K, pc)
                                  /\ UNCHANGED <<expiry, cache, found, document>>
  BY DEF Expulsion
<1>2. TypeOK /\ pc \in PcType
  BY DEF Under, RouteInv, TypeOK, PcType
<1>3. TypeOK'
  BY <1>1, <1>2, ServerDisconnectType DEF TypeOK, PcType, document
<1>4. Seated' /\ LiveRoute'
  BY <1>1, ServerDisconnectRoute DEF Under
<1>5. \A s \in Sockets : Early(s)' => Early(s)
  BY <1>1, <1>2 DEF Early, TypeOK, ServerDisconnect, HandleDisconnect, Marked
<1>6. ASSUME NEW h \in Handlers, NEW s \in Sockets, pc'[h][s] # "idle"
      PROVE  IsBridge(s) /\ ~Early(s)
  <2>1. CASE pc[h][s] # "idle"
    BY <2>1 DEF Under, RouteInv, BridgeTasks, Underway
  <2>2. CASE pc[h][s] = "idle"
    <3>1. pc' = Offlining(K, pc)
      BY <1>1, <1>6, <2>2 DEF ServerDisconnect, HandleDisconnect
    <3>2. IsBridge(s) /\ bridgeSockets[AgentOf(s)] = s
      BY <1>2, <1>6, <2>2, <3>1 DEF Offlining, Owns, PcType, Handlers
    <3> QED
      BY <3>2, ClaimsType DEF Under, RouteInv, Seated
  <2> QED
    BY <2>1, <2>2
<1>7. BridgeTasks' /\ Underway'
  BY <1>5, <1>6 DEF BridgeTasks, Underway, IsBridge, AgentOf
<1>8. LockInv'
  <2>1. /\ pc'["register"] = pc["register"]
        /\ \A a \in Agents : bridgeRoom'[a] \subseteq bridgeRoom[a]
    BY <1>1, <1>2, DisconnectMoves
  <2>2. owner' = owner /\ found' = found
    BY <1>1 DEF document
  <2> QED
    BY <2>1, <2>2, ConstantsOK DEF Under, LockInv, LockHolds, RouteOwner, AgentOf
<1> QED
  BY <1>3, <1>4, <1>7, <1>8 DEF Under, RouteInv

LEMMA UnderHolds == FeedSpec => []Under
<1>1. FeedInit => Under
  BY RouteInit, LockInit DEF FeedInit, Under
<1>2. Under /\ [FeedNext]_fvars => Under'
  BY UnderSteps, ExpulsionKeeps, RouteNext, LockNext DEF Under
<1> QED
  BY <1>1, <1>2, PTL DEF FeedSpec

\* Watching does not disturb the routing of commands: closing the socket of a
\* stranger, be it a browser or a bridge that subscribed to its own agent before
\* that agent was its user's, retires it and changes no other's route.
THEOREM FeedKeepsRoute == FeedSpec => ImplementsCommandRoute
<1>1. FeedInit => Route!Init
  BY DEF FeedInit, Init, InitProcess, Route!Init
<1>2. Under /\ [FeedNext]_fvars => [Route!Next]_<<Routed, Retired>>
  <2>1. TypeOK /\ Expulsion => RouteStep
    BY DisconnectSteps DEF Expulsion
  <2> QED
    BY <2>1, UnderSteps, NextSteps DEF RouteStep, Under, RouteInv
<1> QED
  BY <1>1, <1>2, UnderHolds, PTL
     DEF FeedSpec, ImplementsCommandRoute, Route!Spec, Routed, Retired

------------------------------------------------------------------------------
\* Types

RoomTypes ==
    /\ viewers \in [Agents -> SUBSET Sockets]
    /\ current \in [Agents -> SUBSET Sockets]
    /\ sub \in [Sockets -> [Agents -> {"idle", "early", "find", "found"}]]
    /\ instance \in [Sockets -> [Agents -> Users \cup {Missing, Unclaimed}]]

LEMMA SubEndsType ==
    ASSUME RoomTypes, NEW s \in Sockets, NEW a \in Agents, SubEnds(s, a)
    PROVE  /\ sub' \in [Sockets -> [Agents -> {"idle", "early", "find", "found"}]]
           /\ instance' \in [Sockets -> [Agents -> Users \cup {Missing, Unclaimed}]]
  BY DEF SubEnds, RoomTypes

LEMMA RoomTypesNext ==
    ASSUME Under, RoomTypes, [FeedNext]_fvars
    PROVE  RoomTypes'
<1>1. ASSUME NEW s \in Sockets, NEW a \in Agents, BrowserStep(s, a) PROVE RoomTypes'
  <2>1. CASE Subscribe(s, a)
    BY <2>1 DEF Subscribe, RoomTypes
  <2>2. CASE SubFind(s, a)
    BY <2>2 DEF SubFind, RoomTypes, Under, RouteInv, TypeOK
  <2>3. CASE SubRejected(s, a)
    <3>1. viewers' \in [Agents -> SUBSET Sockets] /\ current' = current
      BY <2>3 DEF SubRejected, Remaining, RoomTypes
    <3> QED
      BY <2>3, <3>1, SubEndsType DEF SubRejected, RoomTypes
  <2>4. CASE SubAccepted(s, a)
    <3>1. viewers' \in [Agents -> SUBSET Sockets] /\ current' \in [Agents -> SUBSET Sockets]
      BY <2>4 DEF SubAccepted, Hydrated, RoomTypes
    <3> QED
      BY <2>4, <3>1, SubEndsType DEF SubAccepted, RoomTypes
  <2>5. CASE SubFails(s, a)
    BY <2>5, SubEndsType DEF SubFails, RoomTypes
  <2>6. CASE Unsubscribe(s, a)
    BY <2>6 DEF Unsubscribe, RoomTypes
  <2> QED
    BY <1>1, <2>1, <2>2, <2>3, <2>4, <2>5, <2>6 DEF BrowserStep
<1>2. CASE FeedServe
  BY <1>2 DEF FeedServe, Remaining, Refreshed, RoomTypes
<1>3. CASE FeedRestart
  BY <1>3 DEF FeedRestart, RoomTypes
<1>4. CASE UNCHANGED fvars
  BY <1>4 DEF fvars, feed, RoomTypes
<1> QED
  BY <1>1, <1>2, <1>3, <1>4 DEF FeedNext

LEMMA RoomsTyped == FeedSpec => [](Under /\ RoomTypes)
<1>1. FeedInit => RoomTypes
  BY DEF FeedInit, RoomTypes
<1> QED
  BY <1>1, UnderHolds, RoomTypesNext, PTL DEF FeedSpec

\* Rooms, subscribes in flight and the gateway under them keep their types.
THEOREM FeedTypeCorrect == FeedSpec => []FeedTypeOK
<1>1. Under /\ RoomTypes => FeedTypeOK
  BY DEF Under, RouteInv, RoomTypes, FeedTypeOK
<1> QED
  BY <1>1, RoomsTyped, PTL

------------------------------------------------------------------------------
(***************************************************************************)
(* Who watches.  What a subscribe read of its agent's owner holds until it *)
(* is used: for ever if the agent was claimed at the start (ReadHolds),    *)
(* and otherwise that it has an owner at all.                              *)
(***************************************************************************)
ReadHolds ==
    \A s \in Sockets, a \in Agents : sub[s][a] = "found" =>
        /\ a \in Claimed => instance[s][a] = owner[a]
        /\ instance[s][a] \in Users => owner[a] \in Users

WatchInv == Under /\ RoomTypes /\ ReadHolds /\ OwnersView /\ RegisteredFirst

\* No step takes an owner away, or changes that of a claimed agent.
LEMMA OwnersStay ==
    ASSUME Under, [FeedNext]_fvars
    PROVE  /\ \A a \in Claimed : owner'[a] = owner[a]
           /\ \A a \in Agents : owner[a] \in Users => owner'[a] \in Users
<1>1. CASE Expulsion
  BY <1>1 DEF Expulsion, document
<1>2. CASE [Next]_vars
  <2>1. \A a \in Claimed : owner'[a] = owner[a]
    BY <1>2, LockKeepsOwner DEF Under, RouteInv
  <2>2. \A a \in Agents : owner[a] \in Users => owner'[a] \in Users
    BY <1>2, NextMoves, ClaimsType DEF LockMoves, Under, RouteInv, TypeOK
  <2> QED
    BY <2>1, <2>2
<1> QED
  BY <1>1, <1>2, UnderSteps

\* A step that reads no owner and admits nobody keeps the invariant.
LEMMA QuietWatch ==
    ASSUME WatchInv, [FeedNext]_fvars,
           \A s \in Sockets, a \in Agents : sub'[s][a] = "found" =>
               sub[s][a] = "found" /\ instance'[s][a] = instance[s][a],
           \A a \in Agents : viewers'[a] \subseteq viewers[a]
    PROVE  ReadHolds' /\ OwnersView' /\ RegisteredFirst'
<1>1. /\ \A a \in Claimed : a \in Agents /\ owner'[a] = owner[a]
      /\ \A a \in Agents : owner[a] \in Users => owner'[a] \in Users
  BY OwnersStay, ConstantsOK DEF WatchInv
<1>2. ReadHolds'
  BY <1>1 DEF WatchInv, ReadHolds
<1>3. OwnersView' /\ RegisteredFirst'
  BY <1>1 DEF WatchInv, OwnersView, RegisteredFirst
<1> QED
  BY <1>2, <1>3

LEMMA WatchStep ==
    ASSUME WatchInv, NEW s \in Sockets, NEW a \in Agents, BrowserStep(s, a)
    PROVE  ReadHolds' /\ OwnersView' /\ RegisteredFirst'
<1>1. [FeedNext]_fvars
  BY DEF FeedNext
<1>2. CASE Subscribe(s, a) \/ SubFails(s, a) \/ Unsubscribe(s, a)
  <2>1. \A t \in Sockets, b \in Agents : sub'[t][b] = "found" =>
               sub[t][b] = "found" /\ instance'[t][b] = instance[t][b]
    BY <1>2 DEF Subscribe, SubFails, Unsubscribe, SubEnds, WatchInv, RoomTypes
  <2>2. \A b \in Agents : viewers'[b] \subseteq viewers[b]
    BY <1>2 DEF Subscribe, SubFails, Unsubscribe, WatchInv, RoomTypes
  <2> QED
    BY <1>1, <2>1, <2>2, QuietWatch
<1>3. CASE SubRejected(s, a)
  <2>1. \A t \in Sockets, b \in Agents : sub'[t][b] = "found" =>
               sub[t][b] = "found" /\ instance'[t][b] = instance[t][b]
    BY <1>3 DEF SubRejected, SubEnds, WatchInv, RoomTypes
  <2>2. \A b \in Agents : viewers'[b] \subseteq viewers[b]
    BY <1>3 DEF SubRejected, Remaining, WatchInv, RoomTypes
  <2> QED
    BY <1>1, <2>1, <2>2, QuietWatch
<1>4. CASE SubFind(s, a)
  <2>1. UNCHANGED <<owner, viewers>>
    BY <1>4 DEF SubFind, vars, document
  <2>2. /\ instance' = [instance EXCEPT ![s][a] = owner[a]]
        /\ sub' = [sub EXCEPT ![s][a] = "found"]
    BY <1>4 DEF SubFind
  <2>3. ReadHolds'
    BY <2>1, <2>2 DEF WatchInv, ReadHolds, RoomTypes
  <2> QED
    BY <2>1, <2>3 DEF WatchInv, OwnersView, RegisteredFirst
<1>5. CASE SubAccepted(s, a)
  <2>1. /\ UNCHANGED owner
        /\ viewers' = [viewers EXCEPT ![a] = @ \cup {r \in {s} : Open(r)}]
        /\ sub[s][a] = "found" /\ instance[s][a] = Claims[s].user
    BY <1>5 DEF SubAccepted, Owned, vars, document
  <2>2. /\ a \in Claimed => Claims[s].user = owner[a]
        /\ owner[a] \in Users
    BY <2>1, ClaimsType DEF WatchInv, ReadHolds
  <2>3. ReadHolds'
    BY <1>5, <2>1 DEF SubAccepted, SubEnds, WatchInv, ReadHolds, RoomTypes
  <2>4. OwnersView' /\ RegisteredFirst'
    BY <2>1, <2>2, ConstantsOK DEF WatchInv, OwnersView, RegisteredFirst, RoomTypes
  <2> QED
    BY <2>3, <2>4
<1> QED
  BY <1>2, <1>3, <1>4, <1>5 DEF BrowserStep

LEMMA WatchHolds == FeedSpec => []WatchInv
<1>1. FeedInit => ReadHolds /\ OwnersView /\ RegisteredFirst
  BY ConstantsOK DEF FeedInit, ReadHolds, OwnersView, RegisteredFirst
<1>2. WatchInv /\ [FeedNext]_fvars => ReadHolds' /\ OwnersView' /\ RegisteredFirst'
  <2> SUFFICES ASSUME WatchInv, [FeedNext]_fvars
               PROVE  ReadHolds' /\ OwnersView' /\ RegisteredFirst'
    OBVIOUS
  <2>1. CASE FeedServe \/ FeedRestart \/ UNCHANGED fvars
    <3>1. \A t \in Sockets, b \in Agents : sub'[t][b] = "found" =>
               sub[t][b] = "found" /\ instance'[t][b] = instance[t][b]
      BY <2>1 DEF FeedServe, FeedRestart, fvars, feed, WatchInv, RoomTypes
    <3>2. \A b \in Agents : viewers'[b] \subseteq viewers[b]
      BY <2>1 DEF FeedServe, FeedRestart, fvars, feed, Remaining, WatchInv, RoomTypes
    <3> QED
      BY <3>1, <3>2, QuietWatch
  <2> QED
    BY <2>1, WatchStep DEF FeedNext
<1> QED
  BY <1>1, <1>2, RoomsTyped, PTL DEF FeedSpec, WatchInv

\* Whoever watches a claimed agent is its owner.
THEOREM OwnersWatch == FeedSpec => []OwnersView
  BY WatchHolds, PTL DEF WatchInv

\* Nobody watches an agent whose registration has not been stored.
THEOREM StoredFirst == FeedSpec => []RegisteredFirst
  BY WatchHolds, PTL DEF WatchInv

------------------------------------------------------------------------------
(***************************************************************************)
(* What is watched.  Only a subscribe adds a viewer, and hydrates it; a    *)
(* frame is sent to the viewers of its moment.                             *)
(***************************************************************************)
SightInv == Under /\ RoomTypes /\ ViewersCurrent

\* An agent whose entry appears in the cache was sent a frame.
LEMMA FrameComes ==
    ASSUME Under, Serve, NEW a \in Agents, cache[a] = "none", cache'[a] # "none"
    PROVE  Framed(a)
<1>1. TypeOK /\ "telemetry" \in Handlers
  BY DEF Under, RouteInv, Handlers
<1>2. PICK s \in Sockets : Telemetry(s)
  BY <1>1 DEF Serve, SocketStep, HandlerStep, Connect, Verified, Rejected, Disconnect,
       LateDisconnect, ExpireToken, Register, RegisterMismatch, DbFind, RegisterRejected,
       RegisterSkipped, RegisterAccepted, Announce, DbWrite, Reply, MongoError, Drop,
       CacheAge, CacheExpire, Sweep, TypeOK
<1>3. AgentOf(s) = a
  BY <1>1, <1>2 DEF Telemetry, TypeOK
<1>4. pc["telemetry"][s] = "idle" /\ pc'["telemetry"][s] = "write"
  BY <1>1, <1>2 DEF Telemetry, Receives, TypeOK
<1> QED
  BY <1>3, <1>4 DEF Framed

LEMMA SightServe ==
    ASSUME SightInv, FeedServe
    PROVE  ViewersCurrent'
<1> SUFFICES ASSUME NEW a \in Agents, cache'[a] # "none", NEW s \in viewers'[a]
             PROVE  s \in current'[a]
  BY DEF ViewersCurrent
<1>1. s \in viewers[a]
  BY DEF FeedServe, Remaining, SightInv, RoomTypes
<1>2. CASE Framed(a)
  BY <1>1, <1>2 DEF FeedServe, Refreshed
<1>3. CASE ~Framed(a)
  BY <1>1, <1>3, FrameComes DEF FeedServe, Refreshed, SightInv, ViewersCurrent
<1> QED
  BY <1>2, <1>3

LEMMA SightStep ==
    ASSUME SightInv, NEW s \in Sockets, NEW a \in Agents, BrowserStep(s, a)
    PROVE  ViewersCurrent'
<1>1. UNCHANGED cache
  BY DEF BrowserStep, Subscribe, SubFind, SubRejected, SubAccepted, SubFails, Unsubscribe,
         vars, process
<1>2. CASE SubAccepted(s, a)
  <2>1. /\ viewers' = [viewers EXCEPT ![a] = @ \cup {r \in {s} : Open(r)}]
        /\ current' = Hydrated(s, a)
    BY <1>2 DEF SubAccepted
  <2> QED
    BY <1>1, <2>1 DEF SightInv, RoomTypes, ViewersCurrent, Hydrated
<1>3. CASE ~SubAccepted(s, a)
  <2>1. /\ current' = current
        /\ \A b \in Agents : viewers'[b] \subseteq viewers[b]
    BY <1>3 DEF BrowserStep, Subscribe, SubFind, SubRejected, Remaining, SubFails,
                Unsubscribe, SightInv, RoomTypes
  <2> QED
    BY <1>1, <2>1 DEF SightInv, ViewersCurrent
<1> QED
  BY <1>2, <1>3

\* A viewer has the frame the cache holds.
THEOREM ViewersUpToDate == FeedSpec => []ViewersCurrent
<1>1. FeedInit => ViewersCurrent
  BY DEF FeedInit, ViewersCurrent, Init, InitProcess
<1>2. SightInv /\ [FeedNext]_fvars => ViewersCurrent'
  <2> SUFFICES ASSUME SightInv, [FeedNext]_fvars PROVE ViewersCurrent'
    OBVIOUS
  <2>1. CASE FeedRestart
    BY <2>1 DEF FeedRestart, Restart, ViewersCurrent
  <2>2. CASE UNCHANGED fvars
    BY <2>2 DEF fvars, feed, vars, process, SightInv, ViewersCurrent
  <2> QED
    BY <2>1, <2>2, SightServe, SightStep DEF FeedNext
<1>3. SightInv /\ [FeedNext]_fvars /\ (Under /\ RoomTypes)' => SightInv'
  BY <1>2 DEF SightInv
<1>4. FeedInit /\ Under /\ RoomTypes => SightInv
  BY <1>1 DEF SightInv
<1>5. SightInv => ViewersCurrent
  BY DEF SightInv
<1> QED
  BY <1>3, <1>4, <1>5, RoomsTyped, PTL DEF FeedSpec

==============================================================================
