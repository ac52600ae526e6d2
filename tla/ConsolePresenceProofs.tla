------------------------ MODULE ConsolePresenceProofs ------------------------
(***************************************************************************)
(* Theorems about ConsolePresence, for every set of sockets, agents, users *)
(* and overlapping heartbeat runs.                                         *)
(***************************************************************************)
EXTENDS ConsolePresence, BridgeGatewayProofs

(***************************************************************************)
(* No document is online and hidden.  The invariant needs nothing but the  *)
(* types of the two fields: the handlers that raise online clear hiddenAt  *)
(* in the same update, and hideInstance's update tests online when it      *)
(* takes effect.                                                           *)
(***************************************************************************)
FieldTypes == online \in [Agents -> BOOLEAN] /\ hidden \in [Agents -> BOOLEAN]

ListedInv == FieldTypes /\ HiddenMeansOffline

LEMMA ListedHandlerStep ==
    ASSUME ListedInv, NEW h \in Handlers, NEW s \in Sockets, HandlerStep(h, s)
    PROVE  ListedInv'
<1>1. CASE UNCHANGED <<online, hidden>>
  BY <1>1, Zenon DEF ListedInv, FieldTypes, HiddenMeansOffline
<1>2. CASE DbWrite(h, s) /\ ~UNCHANGED <<online, hidden>>
  <2> DEFINE a == AgentOf(s)
  <2>1. /\ online' = [online EXCEPT ![a] = h \in Raising]
        /\ hidden' = [hidden EXCEPT ![a] = @ /\ h \notin Raising]
    BY <1>2, Zenon DEF DbWrite
  <2>2. CASE h \in Raising
    <3>1. /\ online' = [online EXCEPT ![a] = TRUE]
          /\ hidden' = [hidden EXCEPT ![a] = FALSE]
      BY <2>1, <2>2, Zenon
    <3> QED
      BY <3>1 DEF ListedInv, FieldTypes, HiddenMeansOffline
  <2>3. CASE h \notin Raising
    <3>1. /\ online' = [online EXCEPT ![a] = FALSE]
          /\ hidden' = [hidden EXCEPT ![a] = @ /\ TRUE]
      <4>1. (h \in Raising) = FALSE /\ (h \notin Raising) = TRUE
        BY <2>3
      <4> QED
        BY <2>1, <4>1, Zenon
    <3>2. hidden' = hidden
      BY <3>1 DEF ListedInv, FieldTypes
    <3> QED
      BY <3>1, <3>2 DEF ListedInv, FieldTypes, HiddenMeansOffline
  <2> QED
    BY <2>2, <2>3
<1> QED
  BY <1>1, <1>2
     DEF HandlerStep, Announce, Reply, MongoError, Drop, document

LEMMA ListedNext == ListedInv /\ [PresenceNext]_pvars => ListedInv'
<1> SUFFICES ASSUME ListedInv, [PresenceNext]_pvars PROVE ListedInv'
  OBVIOUS
<1>1. CASE UNCHANGED <<online, hidden>>
  BY <1>1, Zenon DEF ListedInv, FieldTypes, HiddenMeansOffline
<1>2. ASSUME NEW h \in Handlers, NEW s \in Sockets, HandlerStep(h, s) PROVE ListedInv'
  BY <1>2, ListedHandlerStep
<1>3. ASSUME NEW s \in Sockets, SocketStep(s) PROVE UNCHANGED <<online, hidden>>
  BY <1>3 DEF SocketStep, Connect, Verified, Rejected, Disconnect, LateDisconnect,
       ExpireToken, Register, RegisterMismatch, DbFind, RegisterRejected, RegisterSkipped,
       RegisterAccepted, Telemetry, document
<1>4. CASE Serve
  BY <1>1, <1>2, <1>3, <1>4 DEF Serve, CacheAge, CacheExpire, Sweep, document
<1>5. ASSUME NEW r \in Runs, Heartbeat(r) PROVE ListedInv'
  <2>1. CASE HbWrite(r)
    BY <2>1 DEF HbWrite, ListedInv, FieldTypes, HiddenMeansOffline
  <2>2. CASE ~HbWrite(r)
    BY <1>1, <1>5, <2>2
       DEF Heartbeat, HbStart, HbFind, HbCheck, HbDone, HbEmit, HbAbort, vars, document
  <2> QED
    BY <2>1, <2>2
<1>6. ASSUME NEW a \in Agents, Hide(a) PROVE ListedInv'
  <2>1. CASE HideUpdate(a)
    <3>1. /\ online' = online
          /\ hidden' = [hidden EXCEPT ![a] = @ \/ Hideable(a)]
      BY <2>1, Zenon DEF HideUpdate
    <3>2. CASE Hideable(a)
      <4>1. hidden' = [hidden EXCEPT ![a] = TRUE]
        BY <3>1, <3>2, Zenon
      <4> QED
        BY <3>1, <3>2, <4>1 DEF Hideable, ListedInv, FieldTypes, HiddenMeansOffline
    <3>3. CASE ~Hideable(a)
      <4>1. hidden' = [hidden EXCEPT ![a] = @ \/ FALSE]
        BY <3>1, <3>3, Zenon
      <4>2. hidden' = hidden
        BY <4>1 DEF ListedInv, FieldTypes
      <4> QED
        BY <1>1, <3>1, <4>2
    <3> QED
      BY <3>2, <3>3
  <2>2. CASE ~HideUpdate(a)
    BY <1>1, <1>6, <2>2
       DEF Hide, HideOwned, HideCheck, HideReply, HideError, vars, document
  <2> QED
    BY <2>1, <2>2
<1> QED
  BY <1>1, <1>4, <1>5, <1>6
     DEF PresenceNext, PresenceRestart, Restart, pvars, vars, document

\* An online EA is never hidden from its owner's list.
THEOREM OnlineIsListed == PresenceSpec => []HiddenMeansOffline
<1>1. PresenceInit => ListedInv
  BY Zenon DEF PresenceInit, Init, InitDocument, ListedInv, FieldTypes, HiddenMeansOffline
<1>2. ListedInv => HiddenMeansOffline
  BY DEF ListedInv
<1> QED
  BY <1>1, <1>2, ListedNext, PTL DEF PresenceSpec

------------------------------------------------------------------------------
(***************************************************************************)
(* Types.  A step of the gateway keeps the gateway's types as it does on   *)
(* its own; a heartbeat run and a hideInstance request touch one field of  *)
(* the documents each.                                                     *)
(***************************************************************************)
RunTypes ==
    /\ hbPc \in [Runs -> {"idle", "find", "loop", "write", "written", "orphan"}]
    /\ hbTodo \in [Runs -> SUBSET Agents]
    /\ hbAt \in [Runs -> Agents \cup {NoAgent}]

HideTypes ==
    /\ hidePc \in [Agents -> {"idle", "owned", "checked", "reply", "orphan"}]
    /\ hider \in [Agents -> Users \cup {Missing}]

PresenceInv == TypeOK /\ BridgeTasks /\ RunTypes /\ HideTypes

LEMMA GatewayTypes ==
    ASSUME PresenceInv, [Next]_vars
    PROVE  TypeOK' /\ BridgeTasks'
  BY TypeNext, TasksNext DEF PresenceInv

LEMMA HeartbeatTypes ==
    ASSUME PresenceInv, NEW r \in Runs, Heartbeat(r)
    PROVE  PresenceInv'
<1>1. HideTypes'
  BY DEF PresenceInv, HideTypes, Heartbeat, HbStart, HbFind, HbCheck, HbDone, HbWrite, HbEmit,
         HbAbort, hide
<1>2. RunTypes'
  <2>1. CASE HbStart(r) \/ HbFind(r)
    BY <2>1 DEF HbStart, HbFind, PresenceInv, RunTypes
  <2>2. CASE HbCheck(r)
    BY <2>2 DEF HbCheck, PresenceInv, RunTypes
  <2>3. CASE HbDone(r) \/ HbWrite(r) \/ HbEmit(r) \/ HbAbort(r)
    BY <2>3 DEF HbDone, HbWrite, HbEmit, HbAbort, RunEnds, PresenceInv, RunTypes
  <2> QED
    BY <2>1, <2>2, <2>3 DEF Heartbeat
<1>3. TypeOK' /\ BridgeTasks'
  <2>1. CASE HbWrite(r)
    <3>1. online' \in [Agents -> BOOLEAN]
      BY <2>1, Zenon DEF HbWrite, PresenceInv, TypeOK
    <3> QED
      BY <2>1, <3>1 DEF HbWrite, PresenceInv, TypeOK, BridgeTasks, IsBridge, AgentOf, process
  <2>2. CASE UNCHANGED vars
    BY <2>2, GatewayTypes
  <2> QED
    BY <2>1, <2>2 DEF Heartbeat, HbStart, HbFind, HbCheck, HbDone, HbEmit, HbAbort
<1> QED
  BY <1>1, <1>2, <1>3 DEF PresenceInv

LEMMA HideRequestTypes ==
    ASSUME PresenceInv, NEW a \in Agents, Hide(a)
    PROVE  PresenceInv'
<1>1. RunTypes'
  BY DEF PresenceInv, RunTypes, Hide, HideOwned, HideCheck, HideUpdate, HideReply, HideError,
         heartbeat
<1>2. HideTypes'
  BY DEF PresenceInv, HideTypes, Hide, HideOwned, HideCheck, HideUpdate, HideReply, HideError,
         HideTo, HideEnds
<1>3. TypeOK' /\ BridgeTasks'
  <2>1. CASE HideUpdate(a)
    <3>1. hidden' \in [Agents -> BOOLEAN]
      BY <2>1, Zenon DEF HideUpdate, PresenceInv, TypeOK
    <3> QED
      BY <2>1, <3>1 DEF HideUpdate, PresenceInv, TypeOK, BridgeTasks, IsBridge, AgentOf, process
  <2>2. CASE UNCHANGED vars
    BY <2>2, GatewayTypes
  <2> QED
    BY <2>1, <2>2 DEF Hide, HideOwned, HideCheck, HideReply, HideError
<1> QED
  BY <1>1, <1>2, <1>3 DEF PresenceInv

LEMMA PresenceTypesNext == PresenceInv /\ [PresenceNext]_pvars => PresenceInv'
<1> SUFFICES ASSUME PresenceInv, [PresenceNext]_pvars PROVE PresenceInv'
  OBVIOUS
<1>1. CASE UNCHANGED <<heartbeat, hide>> /\ [Next]_vars
  BY <1>1, GatewayTypes DEF PresenceInv, RunTypes, HideTypes, heartbeat, hide
<1>2. CASE PresenceRestart
  <2>1. TypeOK' /\ BridgeTasks'
    BY <1>2, GatewayTypes DEF PresenceRestart, Next
  <2>2. RunTypes' /\ HideTypes'
    BY <1>2 DEF PresenceRestart, PresenceInv, RunTypes, HideTypes
  <2> QED
    BY <2>1, <2>2 DEF PresenceInv
<1> QED
  BY <1>1, <1>2, HeartbeatTypes, HideRequestTypes DEF PresenceNext, Next, pvars

\* Sockets, documents, heartbeat runs and hide requests keep their types.
THEOREM PresenceTypeCorrect == PresenceSpec => []PresenceTypeOK
<1>1. PresenceInit => PresenceInv
  BY TypeInit DEF PresenceInit, PresenceInv, RunTypes, HideTypes
<1>2. PresenceInv => PresenceTypeOK
  BY DEF PresenceInv, RunTypes, HideTypes, PresenceTypeOK
<1> QED
  BY <1>1, <1>2, PresenceTypesNext, PTL DEF PresenceSpec

------------------------------------------------------------------------------
(***************************************************************************)
(* Routing while heartbeats run and instances are hidden.  Those write to  *)
(* documents only, never to what the gateway's process holds.              *)
(***************************************************************************)
LEMMA Apart == [PresenceNext]_pvars => [Next]_vars \/ UNCHANGED process
<1>1. ASSUME NEW r \in Runs, Heartbeat(r) PROVE UNCHANGED process
  BY <1>1 DEF Heartbeat, HbStart, HbFind, HbCheck, HbDone, HbWrite, HbEmit, HbAbort, vars
<1>2. ASSUME NEW a \in Agents, Hide(a) PROVE UNCHANGED process
  BY <1>2 DEF Hide, HideOwned, HideCheck, HideUpdate, HideReply, HideError, vars
<1> QED
  BY <1>1, <1>2 DEF PresenceNext, PresenceRestart, Next, pvars

LEMMA RouteApart == RouteInv /\ PresenceInv' /\ [PresenceNext]_pvars => RouteInv'
<1>1. RouteInv /\ PresenceInv' /\ UNCHANGED process => RouteInv'
  BY DEF RouteInv, PresenceInv, Underway, Seated, LiveRoute, Early, Open, IsBridge, AgentOf,
         process
<1> QED
  BY <1>1, Apart, RouteNext

LEMMA RouteHolds == PresenceSpec => []RouteInv
<1>1. PresenceInit => RouteInv /\ PresenceInv
  BY RouteInit, TypeInit DEF PresenceInit, PresenceInv, RunTypes, HideTypes
<1> QED
  BY <1>1, PresenceTypesNext, RouteApart, PTL DEF PresenceSpec

\* Neither heartbeats nor hiding disturb the routing of commands: overlapping
\* runs, late updates and restarts included, it stays what CommandRoute promises.
THEOREM PresenceKeepsRoute == PresenceSpec => ImplementsCommandRoute
<1>1. PresenceInit => Route!Init
  BY DEF PresenceInit, Init, InitProcess, Route!Init
<1>2. RouteInv /\ [PresenceNext]_pvars => [Route!Next]_<<Routed, Retired>>
  <2>1. UNCHANGED process => RouteStep
    BY DEF process, RouteStep, Routed, Retired, Open
  <2> QED
    BY <2>1, Apart, NextSteps DEF RouteStep
<1> QED
  BY <1>1, <1>2, RouteHolds, PTL
     DEF PresenceSpec, ImplementsCommandRoute, Route!Spec, Routed, Retired

==============================================================================
