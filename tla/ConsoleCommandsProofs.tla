------------------------ MODULE ConsoleCommandsProofs ------------------------
(***************************************************************************)
(* Theorems about ConsoleCommands, for every set of sockets, agents, users *)
(* and requests.  Every step of it is a step of the gateway or leaves the  *)
(* gateway alone, so the invariants of BridgeGatewayProofs hold here; this *)
(* module adds what a request knows while it is served.                    *)
(***************************************************************************)
EXTENDS ConsoleCommands, BridgeGatewayProofs

\* What the gateway, and the locks of its registrations, rest on.
GatewayInv == RouteInv /\ LockInv

LEMMA GatewayStep == [CommandsNext]_cvars => [Next]_vars
  BY DEF CommandsNext, CommandsRestart, Request, Command, CmdOwned, CmdOnline, CmdSend,
         CmdStore, CmdAudit, CmdRefused, CmdDrop, CmdReply, CmdError, BulkFind, BulkSend,
         BulkAudit, BulkAuditFails, BulkDone, Next, cvars

\* Requests only ever make the gateway stutter: what holds of the gateway on its
\* own, its promise to route commands included, holds of it while it serves them.
THEOREM CommandsRunGateway == CommandsSpec => Spec
<1>1. CommandsInit => Init
  BY DEF CommandsInit
<1> QED
  BY <1>1, GatewayStep, PTL DEF CommandsSpec, Spec

\* While requests are served, commands are routed as CommandRoute promises.
THEOREM CommandsKeepRoute == CommandsSpec => ImplementsCommandRoute
  BY CommandsRunGateway, GatewayImplementsRoute, PTL

LEMMA GatewayHolds == CommandsSpec => []GatewayInv
<1>1. CommandsInit => GatewayInv
  BY RouteInit, LockInit DEF CommandsInit, GatewayInv
<1>2. GatewayInv /\ [CommandsNext]_cvars => GatewayInv'
  BY GatewayStep, RouteNext, LockNext DEF GatewayInv
<1> QED
  BY <1>1, <1>2, PTL DEF CommandsSpec

------------------------------------------------------------------------------
\* Types

RequestTypes ==
    /\ step \in [Requests -> {"new", "owned", "online", "store", "orphan", "audit",
                              "loop", "reply"} \cup Final]
    /\ listed \in [Requests -> SUBSET Agents]
    /\ seenOn \in [Requests -> SUBSET Agents]
    /\ sent \in [Requests -> SUBSET Agents]
    /\ got \in [Requests -> SUBSET (Agents \X Sockets)]
    /\ results \in [Requests -> [Agents -> {"none", "ok", "offline"}]]
    /\ audited \in [Requests -> SUBSET Agents]
    /\ settings \in [Agents -> Requests \cup {NoRequest}]

LEMMA DispatchTypes ==
    ASSUME RequestTypes, TypeOK, NEW r \in Requests, NEW a \in Agents, Dispatch(r, a)
    PROVE  /\ sent' \in [Requests -> SUBSET Agents]
           /\ got' \in [Requests -> SUBSET (Agents \X Sockets)]
<1>1. {a} \X {s \in bridgeRoom[a] : Open(s)} \subseteq Agents \X Sockets
  BY DEF TypeOK
<1> QED
  BY <1>1 DEF Dispatch, RequestTypes

LEMMA CommandTypes ==
    ASSUME RequestTypes, TypeOK, NEW r \in Requests, NEW a \in Agents, Command(r, a)
    PROVE  RequestTypes'
<1>1. CASE CmdSend(r, a)
  BY <1>1, DispatchTypes DEF CmdSend, Goes, RequestTypes
<1>2. CASE CmdOwned(r, a) \/ CmdOnline(r, a)
  BY <1>2 DEF CmdOwned, CmdOnline, Goes, Final, RequestTypes
<1>5. CASE CmdStore(r, a)
  BY <1>5 DEF CmdStore, Goes, Final, RequestTypes
<1>6. CASE CmdAudit(r, a)
  BY <1>6 DEF CmdAudit, Goes, Final, RequestTypes
<1>3. CASE BulkAudit(r, a)
  BY <1>3 DEF BulkAudit, Succeeds, Goes, RequestTypes
<1>4. CASE BulkAuditFails(r, a)
  BY <1>4 DEF BulkAuditFails, Succeeds, Goes, RequestTypes
<1> QED
  BY <1>1, <1>2, <1>3, <1>4, <1>5, <1>6 DEF Command

LEMMA ReportedType ==
    ASSUME RequestTypes, NEW r \in Requests, NEW off
    PROVE  Reported(r, off) \in [Requests -> [Agents -> {"none", "ok", "offline"}]]
  BY DEF Reported, RequestTypes

LEMMA RequestStepTypes ==
    ASSUME RequestTypes, TypeOK, NEW r \in Requests, Request(r)
    PROVE  RequestTypes'
<1>1. CASE BulkSend(r)
  <2>1. PICK a \in Todo(r) \cap seenOn[r], off \in SUBSET (Todo(r) \ seenOn[r]) :
            Dispatch(r, a) /\ results' = Reported(r, off)
    BY <1>1 DEF BulkSend
  <2>2. a \in Agents
    BY DEF RequestTypes
  <2> QED
    BY <1>1, <2>1, <2>2, DispatchTypes, ReportedType DEF BulkSend, Goes, RequestTypes
<1>2. CASE BulkDone(r)
  BY <1>2, ReportedType DEF BulkDone, Goes, RequestTypes
<1>3. CASE BulkFind(r)
  BY <1>3, CommandsOK DEF BulkFind, Goes, RequestTypes, AskSet
<1>4. CASE CmdRefused(r) \/ CmdDrop(r) \/ CmdReply(r) \/ CmdError(r)
  BY <1>4 DEF CmdRefused, CmdDrop, CmdReply, CmdError, Goes, Final, RequestTypes
<1> QED
  BY <1>1, <1>2, <1>3, <1>4 DEF Request

LEMMA RestartTypes ==
    ASSUME RequestTypes, CommandsRestart
    PROVE  RequestTypes'
  BY DEF CommandsRestart, RequestTypes, Final

LEMMA RequestsTyped == CommandsSpec => [](GatewayInv /\ RequestTypes)
<1>1. CommandsInit => RequestTypes
  BY DEF CommandsInit, RequestTypes
<1>2. GatewayInv /\ RequestTypes /\ [CommandsNext]_cvars => RequestTypes'
  <2> SUFFICES ASSUME GatewayInv, RequestTypes, [CommandsNext]_cvars PROVE RequestTypes'
    OBVIOUS
  <2>1. TypeOK
    BY DEF GatewayInv, RouteInv
  <2>2. CASE UNCHANGED <<requests, settings>>
    BY <2>2 DEF RequestTypes, requests
  <2> QED
    BY <2>1, <2>2, CommandTypes, RequestStepTypes, RestartTypes DEF CommandsNext, cvars
<1> QED
  BY <1>1, <1>2, GatewayHolds, PTL DEF CommandsSpec

\* Requests keep their types, and so does the gateway they run over.
THEOREM CommandsTypeCorrect == CommandsSpec => []CommandsTypeOK
<1>1. GatewayInv /\ RequestTypes => CommandsTypeOK
  BY DEF GatewayInv, RouteInv, RequestTypes, CommandsTypeOK
<1> QED
  BY <1>1, RequestsTyped, PTL

------------------------------------------------------------------------------
(***************************************************************************)
(* Who is served.  A request past its ownership check, and a bulk request  *)
(* for what it lists, is the owner's: the owner of a claimed agent stays,  *)
(* so the answer of the check is still true whenever it is used.           *)
(***************************************************************************)
Entitled ==
    \A r \in Requests, a \in Claimed :
        /\ Single(r, a) /\ step[r] \in {"owned", "online", "store", "orphan"}
           => owner[a] = Ask[r].user
        /\ a \in listed[r] => owner[a] = Ask[r].user

\* A request emits to each agent once.
SentOnce ==
    \A r \in Requests :
        /\ \A d \in got[r] : d[1] \in sent[r]
        /\ Ask[r].kind # "bulk" /\ step[r] \in {"new", "owned", "online"}
           => sent[r] = {}

\* A push that stores settings has emitted them, and they can be applied live.
Storing ==
    \A r \in Requests, a \in Agents :
        Single(r, a) /\ step[r] \in {"store", "orphan"}
        => a \in sent[r] /\ Ask[r].live

CommandsInv ==
    /\ GatewayInv /\ RequestTypes
    /\ Entitled /\ SentOnce /\ Storing
    /\ OwnersBridgeOnly /\ OneBridgeEach /\ StoredWasSent

\* The gateway's part of a step keeps the owners of claimed agents.
LEMMA OwnersStay ==
    ASSUME GatewayInv, [CommandsNext]_cvars
    PROVE  \A a \in Claimed : owner'[a] = owner[a]
  BY GatewayStep, LockKeepsOwner DEF GatewayInv, RouteInv

\* A delivery reaches at most one bridge, and a claimed agent's is its owner's.
LEMMA Delivery ==
    ASSUME GatewayInv, NEW a \in Agents, NEW s \in Sockets, s \in bridgeRoom[a], Open(s)
    PROVE  /\ bridgeSockets[a] = s
           /\ a \in Claimed => AgentOf(s) = a /\ Claims[s].user = owner[a]
  BY DEF GatewayInv, RouteInv, LockInv, LiveRoute, RouteOwner

\* Emitting to an agent of the user, for the first time, keeps what is said of
\* deliveries.
LEMMA DispatchKeeps ==
    ASSUME CommandsInv, NEW r \in Requests, NEW a \in Agents, Dispatch(r, a),
           a \notin sent[r], a \in Claimed => owner[a] = Ask[r].user
    PROVE  /\ OwnersBridgeOnly' /\ OneBridgeEach'
           /\ \A q \in Requests : sent[q] \subseteq sent'[q]
           /\ \A q \in Requests : \A d \in got'[q] : d[1] \in sent'[q]
           /\ \A q \in Requests \ {r} : sent'[q] = sent[q]
           /\ sent'[r] = sent[r] \cup {a}
<1> DEFINE D == {a} \X {s \in bridgeRoom[a] : Open(s)}
<1>1. /\ \A q \in Requests \ {r} : sent'[q] = sent[q] /\ got'[q] = got[q]
      /\ sent'[r] = sent[r] \cup {a}
      /\ got'[r] = got[r] \cup D
  BY DEF Dispatch, CommandsInv, RequestTypes
<1>2. ASSUME NEW d \in D
      PROVE  /\ d = <<a, bridgeSockets[a]>>
             /\ a \in Claimed => AgentOf(d[2]) = a /\ Claims[d[2]].user = Ask[r].user
  <2>1. PICK s \in bridgeRoom[a] : Open(s) /\ d = <<a, s>>
    OBVIOUS
  <2>2. s \in Sockets
    BY DEF CommandsInv, GatewayInv, RouteInv, TypeOK
  <2> QED
    BY <2>1, <2>2, Delivery DEF CommandsInv
<1>3. \A d \in got[r] : d[1] # a
  BY DEF CommandsInv, SentOnce
<1>4. OwnersBridgeOnly'
  BY <1>1, <1>2 DEF CommandsInv, OwnersBridgeOnly, AgentOf
<1>5. OneBridgeEach'
  BY <1>1, <1>2, <1>3 DEF CommandsInv, OneBridgeEach
<1> HIDE DEF D
<1>6. \A q \in Requests : \A d \in got'[q] : d[1] \in sent'[q]
  BY <1>1, <1>2 DEF CommandsInv, SentOnce
<1> QED
  BY <1>1, <1>4, <1>5, <1>6

\* What the other steps of a request leave alone.
LEMMA QuietKeeps ==
    ASSUME CommandsInv, UNCHANGED <<sent, got>>
    PROVE  /\ OwnersBridgeOnly' /\ OneBridgeEach'
           /\ \A q \in Requests : \A d \in got'[q] : d[1] \in sent'[q]
  BY DEF CommandsInv, OwnersBridgeOnly, OneBridgeEach, SentOnce, AgentOf

Kept == /\ Entitled' /\ SentOnce' /\ Storing'
        /\ OwnersBridgeOnly' /\ OneBridgeEach' /\ StoredWasSent'

LEMMA CommandKeeps ==
    ASSUME CommandsInv, NEW r \in Requests, NEW a \in Agents, Command(r, a)
    PROVE  Kept
<1>1. CASE CmdOwned(r, a)
  <2>1. UNCHANGED <<owner, sent, got, listed, settings>>
    BY <1>1 DEF CmdOwned, vars, document
  <2>2. \A q \in Requests \ {r} : step'[q] = step[q]
    BY <1>1 DEF CmdOwned, Goes, CommandsInv, RequestTypes
  <2>3. /\ step[r] = "new" /\ Single(r, a)
        /\ step'[r] \in {"owned", "error"}
        /\ step'[r] = "owned" => owner[a] = Ask[r].user
    BY <1>1 DEF CmdOwned, Goes, CommandsInv, RequestTypes, Allowed
  <2>4. \A b \in Agents : Single(r, b) => b = a
    BY <2>3, CommandsOK DEF Single
  <2> QED
    BY <2>1, <2>2, <2>3, <2>4, QuietKeeps, ConstantsOK
       DEF CommandsInv, Kept, Entitled, SentOnce, Storing, StoredWasSent, Single
<1>2. CASE CmdOnline(r, a)
  <2>1. UNCHANGED <<owner, sent, got, listed, settings>>
    BY <1>2 DEF CmdOnline, vars, document
  <2>2. \A q \in Requests \ {r} : step'[q] = step[q]
    BY <1>2 DEF CmdOnline, Goes, CommandsInv, RequestTypes
  <2>3. step[r] = "owned" /\ step'[r] \in {"online", "error"}
    BY <1>2 DEF CmdOnline, Goes, CommandsInv, RequestTypes
  <2> QED
    BY <2>1, <2>2, <2>3, QuietKeeps
       DEF CommandsInv, Kept, Entitled, SentOnce, Storing, StoredWasSent, Single
<1>3. CASE CmdSend(r, a)
  <2>1. UNCHANGED <<owner, listed, settings>>
    BY <1>3 DEF CmdSend, vars, document
  <2>2. \A q \in Requests \ {r} : step'[q] = step[q]
    BY <1>3 DEF CmdSend, Goes, CommandsInv, RequestTypes
  <2>3. /\ step[r] = "online" /\ Single(r, a) /\ Dispatch(r, a)
        /\ step'[r] \in {"store", "audit"}
        /\ step'[r] = "store" => Ask[r].live
    BY <1>3 DEF CmdSend, Goes, CommandsInv, RequestTypes, Refused
  <2>4. sent[r] = {}
    BY <2>3 DEF CommandsInv, SentOnce, Single
  <2>5. a \in Claimed => owner[a] = Ask[r].user
    BY <2>3 DEF CommandsInv, Entitled
  <2>6. /\ OwnersBridgeOnly' /\ OneBridgeEach'
        /\ \A q \in Requests : sent[q] \subseteq sent'[q]
        /\ \A q \in Requests : \A d \in got'[q] : d[1] \in sent'[q]
        /\ \A q \in Requests \ {r} : sent'[q] = sent[q]
        /\ a \in sent'[r]
    BY <2>3, <2>4, <2>5, DispatchKeeps
  <2>7. \A b \in Agents : Single(r, b) => b = a
    BY <2>3, CommandsOK DEF Single
  <2>8. Entitled'
    BY <2>1, <2>2, <2>3 DEF CommandsInv, Entitled, Single
  <2>9. SentOnce'
    BY <2>2, <2>3, <2>6 DEF CommandsInv, SentOnce
  <2>10. Storing'
    BY <2>2, <2>3, <2>6, <2>7 DEF CommandsInv, Storing, Single
  <2>11. StoredWasSent'
    BY <2>1, <2>6, ConstantsOK DEF CommandsInv, StoredWasSent, RequestTypes
  <2> QED
    BY <2>6, <2>8, <2>9, <2>10, <2>11 DEF Kept
<1>4. CASE CmdStore(r, a)
  <2>1. UNCHANGED <<owner, sent, got, listed>>
    BY <1>4 DEF CmdStore, vars, document
  <2>2. \A q \in Requests \ {r} : step'[q] = step[q]
    BY <1>4 DEF CmdStore, Goes, CommandsInv, RequestTypes
  <2>3. /\ step[r] \in {"store", "orphan"} /\ Single(r, a)
        /\ step'[r] \in {"audit", "lost"}
        /\ settings' = [settings EXCEPT ![a] = r]
    BY <1>4 DEF CmdStore, Goes, CommandsInv, RequestTypes
  <2>4. /\ a \in Claimed => owner[a] = Ask[r].user
        /\ Ask[r].live /\ a \in sent[r]
    BY <2>3 DEF CommandsInv, Entitled, Storing
  <2>5. StoredWasSent'
    BY <2>1, <2>3, <2>4, ConstantsOK DEF CommandsInv, StoredWasSent, RequestTypes
  <2> QED
    BY <2>1, <2>2, <2>3, <2>5, QuietKeeps
       DEF CommandsInv, Kept, Entitled, SentOnce, Storing, Single
<1>5. CASE CmdAudit(r, a) \/ BulkAudit(r, a) \/ BulkAuditFails(r, a)
  <2>1. UNCHANGED <<owner, sent, got, listed, settings>>
    BY <1>5 DEF CmdAudit, BulkAudit, BulkAuditFails, vars, document
  <2>2. \A q \in Requests \ {r} : step'[q] = step[q]
    BY <1>5 DEF CmdAudit, BulkAudit, BulkAuditFails, Goes, CommandsInv, RequestTypes
  <2>3. step'[r] \in {"reply", "loop"}
    BY <1>5 DEF CmdAudit, BulkAudit, BulkAuditFails, Goes, CommandsInv, RequestTypes
  <2> QED
    BY <2>1, <2>2, <2>3, QuietKeeps
       DEF CommandsInv, Kept, Entitled, SentOnce, Storing, StoredWasSent, Single
<1> QED
  BY <1>1, <1>2, <1>3, <1>4, <1>5 DEF Command

LEMMA RequestKeeps ==
    ASSUME CommandsInv, NEW r \in Requests, Request(r)
    PROVE  Kept
<1>1. CASE CmdRefused(r) \/ CmdDrop(r) \/ CmdReply(r) \/ CmdError(r) \/ BulkDone(r)
  <2>1. UNCHANGED <<owner, sent, got, listed, settings>>
    BY <1>1 DEF CmdRefused, CmdDrop, CmdReply, CmdError, BulkDone, vars, document
  <2>2. \A q \in Requests \ {r} : step'[q] = step[q]
    BY <1>1 DEF CmdRefused, CmdDrop, CmdReply, CmdError, BulkDone, Goes, CommandsInv,
                RequestTypes
  <2>3. \/ step'[r] \in {"error", "lost", "ok", "reply"}
        \/ step[r] = "store" /\ step'[r] = "orphan"
    BY <1>1 DEF CmdRefused, CmdDrop, CmdReply, CmdError, BulkDone, Goes, CommandsInv,
                RequestTypes
  <2> QED
    BY <2>1, <2>2, <2>3, QuietKeeps
       DEF CommandsInv, Kept, Entitled, SentOnce, Storing, StoredWasSent, Single
<1>2. CASE BulkFind(r)
  <2>1. UNCHANGED <<owner, sent, got, settings>>
    BY <1>2 DEF BulkFind, vars, document
  <2>2. /\ \A q \in Requests \ {r} : step'[q] = step[q] /\ listed'[q] = listed[q]
        /\ step'[r] = "loop"
        /\ \A a \in listed'[r] : owner[a] = Ask[r].user
    BY <1>2 DEF BulkFind, Goes, CommandsInv, RequestTypes, Allowed
  <2> QED
    BY <2>1, <2>2, QuietKeeps
       DEF CommandsInv, Kept, Entitled, SentOnce, Storing, StoredWasSent, Single
<1>3. CASE BulkSend(r)
  <2>1. UNCHANGED <<owner, listed, settings>>
    BY <1>3 DEF BulkSend, vars, document
  <2>2. /\ \A q \in Requests \ {r} : step'[q] = step[q]
        /\ step'[r] = "audit"
    BY <1>3 DEF BulkSend, Goes, CommandsInv, RequestTypes
  <2>3. PICK a \in Agents : Dispatch(r, a) /\ a \in listed[r] /\ a \notin sent[r]
    BY <1>3 DEF BulkSend, Todo, CommandsInv, RequestTypes
  <2>4. a \in Claimed => owner[a] = Ask[r].user
    BY <2>3 DEF CommandsInv, Entitled
  <2>5. /\ OwnersBridgeOnly' /\ OneBridgeEach'
        /\ \A q \in Requests : sent[q] \subseteq sent'[q]
        /\ \A q \in Requests : \A d \in got'[q] : d[1] \in sent'[q]
        /\ \A q \in Requests \ {r} : sent'[q] = sent[q]
    BY <2>3, <2>4, DispatchKeeps
  <2>6. StoredWasSent'
    BY <2>1, <2>5, ConstantsOK DEF CommandsInv, StoredWasSent, RequestTypes
  <2> QED
    BY <2>1, <2>2, <2>5, <2>6
       DEF CommandsInv, Kept, Entitled, SentOnce, Storing, Single
<1> QED
  BY <1>1, <1>2, <1>3 DEF Request

\* A step of the gateway, and a restart, move no request forward.
LEMMA GatewayKeeps ==
    ASSUME CommandsInv, [CommandsNext]_cvars,
           UNCHANGED <<listed, sent, got, settings>>,
           \A q \in Requests :
               \/ step'[q] = step[q]
               \/ step'[q] = "lost"
               \/ step[q] = "store" /\ step'[q] = "orphan"
    PROVE  Kept
<1>1. \A a \in Claimed : owner'[a] = owner[a]
  BY OwnersStay DEF CommandsInv
<1> QED
  BY <1>1, QuietKeeps
     DEF CommandsInv, Kept, Entitled, SentOnce, Storing, StoredWasSent, Single

LEMMA CommandsKept == CommandsSpec => []CommandsInv
<1>1. GatewayInv /\ RequestTypes /\ CommandsInit => CommandsInv
  BY ConstantsOK DEF CommandsInit, CommandsInv, Entitled, SentOnce, Storing,
     OwnersBridgeOnly, OneBridgeEach, StoredWasSent
<1>2. CommandsInv /\ [CommandsNext]_cvars => Kept
  <2> SUFFICES ASSUME CommandsInv, [CommandsNext]_cvars PROVE Kept
    OBVIOUS
  <2>1. CASE UNCHANGED <<requests, settings>>
    BY <2>1, GatewayKeeps DEF requests
  <2>2. CASE CommandsRestart
    <3>1. \A q \in Requests :
               \/ step'[q] = step[q]
               \/ step'[q] = "lost"
               \/ step[q] = "store" /\ step'[q] = "orphan"
      BY <2>2 DEF CommandsRestart
    <3> QED
      BY <2>2, <3>1, GatewayKeeps DEF CommandsRestart
  <2> QED
    BY <2>1, <2>2, CommandKeeps, RequestKeeps DEF CommandsNext, cvars
<1>3. /\ CommandsInv /\ [CommandsNext]_cvars /\ (GatewayInv /\ RequestTypes)'
      => CommandsInv'
  BY <1>2 DEF Kept, CommandsInv
<1> QED
  BY <1>1, <1>3, RequestsTyped, PTL DEF CommandsSpec

\* Commands for a claimed agent reach bridges of the user who asked, and no
\* others.
THEOREM OnlyOwnersBridges == CommandsSpec => []OwnersBridgeOnly
  BY CommandsKept, PTL DEF CommandsInv

\* Each command is executed by one bridge at most.
THEOREM OneBridgeExecutes == CommandsSpec => []OneBridgeEach
  BY CommandsKept, PTL DEF CommandsInv

\* What is stored as a claimed agent's settings was sent to it by its owner.
THEOREM SettingsWereSent == CommandsSpec => []StoredWasSent
  BY CommandsKept, PTL DEF CommandsInv

\* Whatever step emits a command emits that one alone, into the agent's room.
LEMMA SendingStep ==
    ASSUME CommandsInv, [CommandsNext]_cvars, NEW r \in Requests, NEW a \in Agents,
           a \in sent'[r] \ sent[r]
    PROVE  Dispatch(r, a)
<1>1. ASSUME NEW q \in Requests, NEW b \in Agents, Dispatch(q, b) PROVE Dispatch(r, a)
  <2>1. q = r /\ b = a
    BY <1>1 DEF Dispatch, CommandsInv, RequestTypes
  <2> QED
    BY <1>1, <2>1
<1>2. ASSUME NEW q \in Requests, NEW b \in Agents, Command(q, b) PROVE Dispatch(r, a)
  <2>1. sent' = sent \/ Dispatch(q, b)
    BY <1>2 DEF Command, CmdOwned, CmdOnline, CmdSend, CmdStore, CmdAudit, BulkAudit,
         BulkAuditFails
  <2> QED
    BY <1>1, <2>1
<1>3. ASSUME NEW q \in Requests, Request(q) PROVE Dispatch(r, a)
  <2>1. CASE BulkSend(q)
    <3>1. PICK b \in Agents : Dispatch(q, b)
      BY <2>1 DEF BulkSend, Todo, CommandsInv, RequestTypes
    <3> QED
      BY <1>1, <3>1
  <2>2. CASE ~BulkSend(q)
    <3>1. sent' = sent
      BY <1>3, <2>2 DEF Request, CmdRefused, CmdDrop, CmdReply, CmdError, BulkFind, BulkDone
    <3> QED
      BY <3>1
  <2> QED
    BY <2>1, <2>2
<1> QED
  BY <1>2, <1>3 DEF CommandsNext, CommandsRestart, cvars, requests

\* A command reaches its agent's registered bridge, if that is connected, and
\* nobody else.  The room is right by LiveRoute, and there is no delivery of an
\* earlier emission to confuse it with.
THEOREM CommandsReachCurrent == CommandsSpec => SentToCurrent
<1>1. ASSUME CommandsInv, [CommandsNext]_cvars, NEW r \in Requests, NEW a \in Agents,
             a \in sent'[r] \ sent[r]
      PROVE  {d \in got'[r] : d[1] = a}
                 = {a} \X {s \in Sockets : bridgeSockets[a] = s /\ Open(s)}
  <2> DEFINE D == {a} \X {s \in bridgeRoom[a] : Open(s)}
  <2>1. got'[r] = got[r] \cup D
    BY <1>1, SendingStep DEF Dispatch, CommandsInv, RequestTypes
  <2>2. \A d \in got[r] : d[1] # a
    BY <1>1 DEF CommandsInv, SentOnce
  <2>3. \A d \in D : d[1] = a
    OBVIOUS
  <2>4. {s \in bridgeRoom[a] : Open(s)} = {s \in Sockets : bridgeSockets[a] = s /\ Open(s)}
    BY <1>1 DEF CommandsInv, GatewayInv, RouteInv, LiveRoute, TypeOK
  <2>5. D = {a} \X {s \in Sockets : bridgeSockets[a] = s /\ Open(s)}
    BY <2>4
  <2> HIDE DEF D
  <2>6. {d \in got'[r] : d[1] = a} = D
    BY <2>1, <2>2, <2>3
  <2> QED
    BY <2>5, <2>6
<1>2. CommandsInv /\ [CommandsNext]_cvars =>
         [\A r \in Requests, a \in Agents :
             a \in sent'[r] \ sent[r] =>
                 {d \in got'[r] : d[1] = a}
                     = {a} \X {s \in Sockets : bridgeSockets[a] = s /\ Open(s)}]_cvars
  BY <1>1
<1> QED
  BY <1>2, CommandsKept, PTL DEF CommandsSpec, SentToCurrent

------------------------------------------------------------------------------
(***************************************************************************)
(* The audit log and the summaries.  What a request has emitted, audited   *)
(* and reported depends on where it is: a single command has emitted       *)
(* before it awaits its audit entry, and a bulk command whose audit entry  *)
(* is pending has one emitted agent without a result, otherwise none.      *)
(***************************************************************************)
SingleBook(r) ==
    /\ step[r] # "loop"
    /\ sent[r] \subseteq Ask[r].agents
    /\ step[r] \in {"new", "owned", "online"} => sent[r] = {}
    /\ step[r] \in {"store", "audit"} => sent[r] = Ask[r].agents
    /\ step[r] \in {"reply", "ok"} => audited[r] = Ask[r].agents

\* The agents of which a bulk command says the wrong thing, or nothing yet.
Unsettled(r) == {a \in sent[r] : results[r][a] # "ok"}

Consistent(r) ==
    \A a \in Agents : /\ results[r][a] = "ok" => a \in sent[r]
                      /\ results[r][a] = "offline" => a \in listed[r] \ seenOn[r]

BulkBook(r) ==
    /\ step[r] \in {"new", "loop", "audit", "reply"} \cup Final
    /\ step[r] \in {"new", "error"} => sent[r] = {}
    /\ step[r] = "new" => results[r] = [a \in Agents |-> "none"]
    /\ step[r] \in {"loop", "audit", "reply", "ok"} =>
          sent[r] \subseteq seenOn[r] /\ seenOn[r] \subseteq listed[r] /\ Consistent(r)
    /\ step[r] = "audit" => \E a \in sent[r] : results[r][a] = "none" /\ Unsettled(r) = {a}
    /\ step[r] \in {"loop", "reply", "ok"} => Unsettled(r) = {}
    /\ step[r] \in {"reply", "ok"} => \A a \in listed[r] : results[r][a] # "none"

Book(r) ==
    /\ audited[r] \subseteq sent[r]
    /\ Ask[r].kind # "bulk" => SingleBook(r)
    /\ Ask[r].kind = "bulk" => BulkBook(r)

Books == RequestTypes /\ \A r \in Requests : Book(r)

\* A request of which nothing changes keeps its book.
LEMMA BookStays ==
    ASSUME NEW r \in Requests, Book(r),
           step'[r] = step[r], listed'[r] = listed[r], seenOn'[r] = seenOn[r],
           sent'[r] = sent[r], results'[r] = results[r], audited'[r] = audited[r]
    PROVE  Book(r)'
  BY DEF Book, SingleBook, BulkBook, Unsettled, Consistent

\* So does one that a restart ends.
LEMMA BookEnds ==
    ASSUME NEW r \in Requests, Book(r),
           step'[r] = "lost" \/ (step[r] \in {"store", "orphan"} /\ step'[r] = "orphan"),
           listed'[r] = listed[r], seenOn'[r] = seenOn[r],
           sent'[r] = sent[r], results'[r] = results[r], audited'[r] = audited[r]
    PROVE  Book(r)'
  BY DEF Book, SingleBook, BulkBook, Unsettled, Consistent, Final

\* A step that is request r's alone.
OnlyMoves(r) ==
    \A q \in Requests \ {r} :
        /\ step'[q] = step[q] /\ listed'[q] = listed[q] /\ seenOn'[q] = seenOn[q]
        /\ sent'[q] = sent[q] /\ results'[q] = results[q] /\ audited'[q] = audited[q]

LEMMA OneMoves ==
    ASSUME RequestTypes, NEW r \in Requests,
           Request(r) \/ \E a \in Agents : Command(r, a)
    PROVE  OnlyMoves(r)
<1>1. ASSUME NEW a \in Agents, Command(r, a) PROVE OnlyMoves(r)
  BY <1>1 DEF Command, CmdOwned, CmdOnline, CmdSend, CmdStore, CmdAudit, BulkAudit,
       BulkAuditFails, Succeeds, Goes, Dispatch, OnlyMoves, RequestTypes
<1>2. CASE Request(r)
  BY <1>2 DEF Request, CmdRefused, CmdDrop, CmdReply, CmdError, BulkFind, BulkSend,
       BulkDone, Reported, Goes, Dispatch, OnlyMoves, RequestTypes
<1> QED
  BY <1>1, <1>2

\* The steps of a single command.
LEMMA SingleBooks ==
    ASSUME Books, NEW r \in Requests, NEW a \in Agents, Command(r, a),
           Ask[r].kind # "bulk"
    PROVE  Book(r)'
<1>1. Book(r) /\ RequestTypes
  BY DEF Books
<1>2. /\ ~BulkAudit(r, a) /\ ~BulkAuditFails(r, a)
      /\ Single(r, a) => Ask[r].agents = {a}
  BY CommandsOK DEF BulkAudit, BulkAuditFails, Auditing, Single
<1>3. CASE CmdOwned(r, a) \/ CmdOnline(r, a)
  BY <1>1, <1>3 DEF CmdOwned, CmdOnline, Goes, Book, SingleBook, RequestTypes
<1>4. CASE CmdSend(r, a)
  BY <1>1, <1>2, <1>4 DEF CmdSend, Dispatch, Goes, Book, SingleBook, RequestTypes
<1>5. CASE CmdStore(r, a)
  BY <1>1, <1>2, <1>5 DEF CmdStore, Goes, Book, SingleBook, RequestTypes
<1>6. CASE CmdAudit(r, a)
  BY <1>1, <1>2, <1>6 DEF CmdAudit, Goes, Book, SingleBook, RequestTypes
<1> QED
  BY <1>2, <1>3, <1>4, <1>5, <1>6 DEF Command

\* The audit entry of a bulk command settles the agent that is pending.
LEMMA BulkAuditBooks ==
    ASSUME Books, NEW r \in Requests, NEW a \in Agents, Command(r, a),
           Ask[r].kind = "bulk"
    PROVE  Book(r)'
<1>1. Book(r) /\ RequestTypes
  BY DEF Books
<1>2. /\ a \in sent[r] /\ results[r][a] = "none" /\ step[r] = "audit"
      /\ step'[r] = "loop"
      /\ results'[r] = [results[r] EXCEPT ![a] = "ok"]
      /\ audited'[r] \subseteq audited[r] \cup {a}
      /\ UNCHANGED <<listed, seenOn, sent>>
  <2>1. BulkAudit(r, a) \/ BulkAuditFails(r, a)
    BY DEF Command, CmdOwned, CmdOnline, CmdSend, CmdStore, CmdAudit, Single
  <2>2. Auditing(r, a) /\ Succeeds(r, a) /\ Goes(r, "loop") /\ UNCHANGED <<listed, seenOn, sent>>
    BY <2>1 DEF BulkAudit, BulkAuditFails
  <2>3. audited'[r] \subseteq audited[r] \cup {a}
    BY <1>1, <2>1 DEF BulkAudit, BulkAuditFails, RequestTypes
  <2> QED
    BY <1>1, <2>2, <2>3 DEF Auditing, Succeeds, Goes, RequestTypes
<1>3. results'[r][a] = "ok" /\ \A b \in Agents \ {a} : results'[r][b] = results[r][b]
  BY <1>1, <1>2 DEF RequestTypes
<1>4. Unsettled(r) = {a}
  BY <1>1, <1>2 DEF Book, BulkBook, Unsettled
<1>5. Unsettled(r)' = {}
  BY <1>1, <1>2, <1>3, <1>4 DEF Unsettled, RequestTypes
<1>6. Consistent(r)'
  BY <1>1, <1>2, <1>3 DEF Consistent, Book, BulkBook
<1> QED
  BY <1>1, <1>2, <1>5, <1>6 DEF Book, BulkBook

\* The steps a single and a bulk command share.
LEMMA SharedBooks ==
    ASSUME Books, NEW r \in Requests,
           CmdRefused(r) \/ CmdDrop(r) \/ CmdReply(r) \/ CmdError(r)
    PROVE  Book(r)'
<1>1. Book(r) /\ RequestTypes
  BY DEF Books
<1>2. UNCHANGED <<listed, seenOn, sent, results, audited>>
  BY DEF CmdRefused, CmdDrop, CmdReply, CmdError
<1>3. CASE CmdRefused(r)
  <2>1. step[r] = "online" /\ step'[r] = "error" /\ Ask[r].kind # "bulk"
    BY <1>1, <1>3 DEF CmdRefused, Refused, Goes, RequestTypes
  <2> QED
    BY <1>1, <1>2, <2>1 DEF Book, SingleBook
<1>4. CASE CmdDrop(r)
  <2>1. step[r] = "orphan" /\ step'[r] = "lost"
    BY <1>1, <1>4 DEF CmdDrop, Goes, RequestTypes
  <2> QED
    BY <1>1, <1>2, <2>1, BookEnds
<1>5. CASE CmdReply(r)
  <2>1. step[r] = "reply" /\ step'[r] = "ok"
    BY <1>1, <1>5 DEF CmdReply, Goes, RequestTypes
  <2> QED
    BY <1>1, <1>2, <2>1 DEF Book, SingleBook, BulkBook, Unsettled, Consistent, Final
<1>6. CASE CmdError(r)
  <2>1. /\ step[r] = "store" /\ step'[r] = "orphan"
        \/ /\ step'[r] = "error"
           /\ Ask[r].kind = "bulk" => step[r] \in {"new", "owned", "store"}
    BY <1>1, <1>6 DEF CmdError, Goes, RequestTypes
  <2> QED
    BY <1>1, <1>2, <2>1 DEF Book, SingleBook, BulkBook, Final
<1> QED
  BY <1>3, <1>4, <1>5, <1>6

LEMMA BulkFindBooks ==
    ASSUME Books, NEW r \in Requests, BulkFind(r)
    PROVE  Book(r)'
<1>1. Book(r) /\ RequestTypes
  BY DEF Books
<1>2. /\ step[r] = "new" /\ Ask[r].kind = "bulk" /\ step'[r] = "loop"
      /\ seenOn'[r] \subseteq listed'[r]
      /\ UNCHANGED <<sent, results, audited>>
  BY <1>1 DEF BulkFind, Goes, RequestTypes
<1>3. sent[r] = {} /\ results[r] = [a \in Agents |-> "none"]
  BY <1>1, <1>2 DEF Book, BulkBook
<1> QED
  BY <1>1, <1>2, <1>3 DEF Book, BulkBook, Unsettled, Consistent

\* The loop emits to one more agent, which is then the pending one.
LEMMA BulkSendBooks ==
    ASSUME Books, NEW r \in Requests, BulkSend(r)
    PROVE  Book(r)'
<1>1. Book(r) /\ RequestTypes
  BY DEF Books
<1>2. step[r] = "loop" /\ step'[r] = "audit" /\ UNCHANGED <<listed, seenOn, audited>>
  BY <1>1 DEF BulkSend, Goes, RequestTypes
<1>3. Ask[r].kind = "bulk"
  BY <1>1, <1>2 DEF Book, SingleBook
<1>4. PICK a \in Todo(r) \cap seenOn[r], off \in SUBSET (Todo(r) \ seenOn[r]) :
          Dispatch(r, a) /\ results' = Reported(r, off)
  BY DEF BulkSend
<1>5. /\ sent'[r] = sent[r] \cup {a}
      /\ a \in Agents /\ a \in seenOn[r] /\ a \notin sent[r] /\ results[r][a] = "none"
      /\ \A b \in Agents : results'[r][b] = IF b \in off THEN "offline" ELSE results[r][b]
      /\ \A b \in off : b \in listed[r] \ seenOn[r] /\ b \notin sent[r]
  BY <1>1, <1>4 DEF Dispatch, Reported, Todo, RequestTypes
<1>6. /\ sent[r] \subseteq seenOn[r] /\ seenOn[r] \subseteq listed[r]
      /\ Consistent(r) /\ Unsettled(r) = {}
  BY <1>1, <1>2, <1>3 DEF Book, BulkBook
<1>7. results'[r][a] = "none" /\ Unsettled(r)' = {a}
  <2>1. results'[r][a] = "none"
    BY <1>5
  <2>2. \A b \in sent[r] : results'[r][b] = "ok"
    BY <1>1, <1>5, <1>6 DEF Unsettled, RequestTypes
  <2> QED
    BY <1>5, <2>1, <2>2 DEF Unsettled
<1>8. Consistent(r)'
  BY <1>2, <1>5, <1>6 DEF Consistent
<1> QED
  BY <1>1, <1>2, <1>3, <1>5, <1>6, <1>7, <1>8 DEF Book, BulkBook, Final

\* What the loop leaves behind is reported offline.
LEMMA BulkDoneBooks ==
    ASSUME Books, NEW r \in Requests, BulkDone(r)
    PROVE  Book(r)'
<1>1. Book(r) /\ RequestTypes
  BY DEF Books
<1>2. /\ step[r] = "loop" /\ step'[r] = "reply" /\ UNCHANGED <<listed, seenOn, sent, audited>>
      /\ Todo(r) \cap seenOn[r] = {}
  BY <1>1 DEF BulkDone, Goes, RequestTypes
<1>3. Ask[r].kind = "bulk"
  BY <1>1, <1>2 DEF Book, SingleBook
<1>4. \A a \in Agents : results'[r][a] = IF a \in Todo(r) THEN "offline" ELSE results[r][a]
  BY <1>1 DEF BulkDone, Reported, RequestTypes
<1>5. /\ sent[r] \subseteq seenOn[r] /\ seenOn[r] \subseteq listed[r]
      /\ Consistent(r) /\ Unsettled(r) = {}
  BY <1>1, <1>2, <1>3 DEF Book, BulkBook
<1>6. \A a \in sent[r] : a \in Agents /\ results'[r][a] = "ok"
  BY <1>1, <1>4, <1>5 DEF Todo, Unsettled, RequestTypes
<1>7. Unsettled(r)' = {}
  BY <1>2, <1>6 DEF Unsettled
<1>8. Consistent(r)'
  BY <1>2, <1>4, <1>5 DEF Consistent, Todo
<1>9. \A a \in listed[r] : results'[r][a] # "none"
  BY <1>1, <1>4, <1>6 DEF Todo, RequestTypes
<1> QED
  BY <1>1, <1>2, <1>3, <1>5, <1>7, <1>8, <1>9 DEF Book, BulkBook

LEMMA BooksNext ==
    ASSUME Books, RequestTypes', [CommandsNext]_cvars
    PROVE  Books'
<1> SUFFICES ASSUME NEW q \in Requests PROVE Book(q)'
  BY DEF Books
<1>1. Book(q) /\ RequestTypes
  BY DEF Books
<1>2. CASE UNCHANGED <<requests, settings>>
  BY <1>1, <1>2, BookStays DEF requests
<1>3. CASE CommandsRestart
  <2>1. /\ UNCHANGED <<listed, seenOn, sent, results, audited>>
        /\ \/ step'[q] = step[q] \/ step'[q] = "lost"
           \/ step[q] \in {"store", "orphan"} /\ step'[q] = "orphan"
    BY <1>3 DEF CommandsRestart
  <2> QED
    BY <1>1, <2>1, BookStays, BookEnds
<1>4. ASSUME NEW r \in Requests, Request(r) \/ \E a \in Agents : Command(r, a)
      PROVE  Book(q)'
  <2>1. Book(r)'
    BY <1>4, SingleBooks, BulkAuditBooks, SharedBooks, BulkFindBooks, BulkSendBooks,
       BulkDoneBooks DEF Request
  <2>2. OnlyMoves(r)
    BY <1>1, <1>4, OneMoves
  <2>3. CASE q = r
    BY <2>1, <2>3
  <2>4. CASE q # r
    BY <1>1, <2>2, <2>4, BookStays DEF OnlyMoves
  <2> QED
    BY <2>3, <2>4
<1> QED
  BY <1>2, <1>3, <1>4 DEF CommandsNext, cvars

LEMMA BooksHold == CommandsSpec => []Books
<1>1. CommandsInit /\ RequestTypes => Books
  BY DEF CommandsInit, Books, Book, SingleBook, BulkBook
<1>2. Books /\ (RequestTypes)' /\ [CommandsNext]_cvars => Books'
  BY BooksNext
<1> QED
  BY <1>1, <1>2, RequestsTyped, PTL DEF CommandsSpec

\* The audit log names only what was emitted, and every accepted command.
THEOREM AuditIsTrue == CommandsSpec => []AuditTrail
<1>1. Books => AuditTrail
  BY DEF Books, Book, SingleBook, AuditTrail
<1> QED
  BY <1>1, BooksHold, PTL

\* The summary of a bulk command is complete and says what was done.
THEOREM BulkIsReported == CommandsSpec => []BulkReported
<1>1. Books => BulkReported
  <2> SUFFICES ASSUME Books, NEW r \in Requests, Ask[r].kind = "bulk"
               PROVE  /\ step[r] = "error" => sent[r] = {}
                      /\ step[r] = "ok" => results[r] = [a \in Agents |->
                             CASE a \in sent[r] -> "ok"
                               [] a \in listed[r] \ sent[r] -> "offline"
                               [] OTHER -> "none"]
    BY DEF BulkReported
  <2>1. Book(r) /\ RequestTypes
    BY DEF Books
  <2>2. ASSUME step[r] = "ok", NEW a \in Agents
        PROVE  results[r][a] = CASE a \in sent[r] -> "ok"
                                 [] a \in listed[r] \ sent[r] -> "offline"
                                 [] OTHER -> "none"
    <3>1. /\ results[r][a] \in {"none", "ok", "offline"}
          /\ Consistent(r) /\ Unsettled(r) = {} /\ sent[r] \subseteq listed[r]
          /\ a \in listed[r] => results[r][a] # "none"
      BY <2>1, <2>2 DEF Book, BulkBook, RequestTypes
    <3>2. CASE a \in sent[r]
      BY <3>1, <3>2 DEF Unsettled
    <3>3. CASE a \notin sent[r]
      BY <3>1, <3>3 DEF Consistent
    <3> QED
      BY <3>2, <3>3
  <2>3. results[r] \in [Agents -> {"none", "ok", "offline"}]
    BY <2>1 DEF RequestTypes
  <2> QED
    BY <2>1, <2>2, <2>3 DEF Book, BulkBook
<1> QED
  BY <1>1, BooksHold, PTL

==============================================================================
