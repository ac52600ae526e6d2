--------------------------- MODULE ConsoleCommands ---------------------------
(***************************************************************************)
(* The commands of ConsoleService (src/src/console/console.service.ts):    *)
(* single commands, pushSettings, and the bulk commands of fanOutCommand,  *)
(* over the documents and command rooms of BridgeGateway.                  *)
(*                                                                         *)
(* A request checks what it needs in Mongo, emits to the room of an agent, *)
(* and writes to Mongo what it did; the gateway, and other requests, run   *)
(* in between.  A read is one step, its resumption another only where the  *)
(* handler then touches the process; an audit entry whose write fails, or  *)
(* is cut off by a restart, was written before that or never.              *)
(***************************************************************************)
EXTENDS BridgeGateway

CONSTANTS
    Requests,    \* bound: the requests users make, each once
    Ask,         \* what each of them asks, see AskSet
    NoRequest    \* currentSettings is what it was at the start

\* Bulk commands: killAll asks for every agent of the user, stopAccount for
\* those of one account.  Live settings have only ALLOWED_SETTINGS_KEYS.
AskSet == [kind : {"command", "settings", "bulk"}, user : Users,
           agents : SUBSET Agents, live : BOOLEAN]

ASSUME CommandsOK ==
    /\ Ask \in [Requests -> AskSet]
    /\ \A r \in Requests : Ask[r].kind # "bulk" => \E a \in Agents : Ask[r].agents = {a}
    /\ NoRequest \notin Requests

VARIABLES
    step,      \* request -> where it is
    listed,    \* bulk request -> the instances its find returned
    seenOn,    \* bulk request -> those of them that were online then
    sent,      \* request -> agents a command was emitted for
    got,       \* request -> <<agent, socket>>: the sockets it was delivered to
    results,   \* bulk request -> agent -> its entry in the summary
    audited,   \* request -> agents with an audit entry of this request
    settings   \* document: the push whose settings are currentSettings

requests == <<step, listed, seenOn, sent, got, results, audited>>
cvars    == <<vars, requests, settings>>

Final == {"ok", "error", "lost"}

CommandsTypeOK ==
    /\ TypeOK
    /\ step \in [Requests -> {"new", "owned", "online", "store", "orphan", "audit",
                              "loop", "reply"} \cup Final]
    /\ listed \in [Requests -> SUBSET Agents]
    /\ seenOn \in [Requests -> SUBSET Agents]
    /\ sent \in [Requests -> SUBSET Agents]
    /\ got \in [Requests -> SUBSET (Agents \X Sockets)]
    /\ results \in [Requests -> [Agents -> {"none", "ok", "offline"}]]
    /\ audited \in [Requests -> SUBSET Agents]
    /\ settings \in [Agents -> Requests \cup {NoRequest}]

CommandsInit ==
    /\ Init
    /\ step = [r \in Requests |-> "new"]
    /\ listed = [r \in Requests |-> {}]
    /\ seenOn = [r \in Requests |-> {}]
    /\ sent = [r \in Requests |-> {}]
    /\ got = [r \in Requests |-> {}]
    /\ results = [r \in Requests |-> [a \in Agents |-> "none"]]
    /\ audited = [r \in Requests |-> {}]
    /\ settings = [a \in Agents |-> NoRequest]

Goes(r, there) == step' = [step EXCEPT ![r] = there]

\* sendCommandToBridge: whoever is connected and in the agent's room gets it.
Dispatch(r, a) ==
    /\ sent' = [sent EXCEPT ![r] = @ \cup {a}]
    /\ got' = [got EXCEPT ![r] = @ \cup ({a} \X {s \in bridgeRoom[a] : Open(s)})]

------------------------------------------------------------------------------
\* One command, or a push of settings, for agent a

Single(r, a) == Ask[r].kind # "bulk" /\ a \in Ask[r].agents

\* Mutant: any user may command any instance that exists.
Allowed_Anyone(r, a) == owner[a] # Missing

\* requireOwnership finds the caller's instance.
Allowed(r, a) == owner[a] = Ask[r].user

CmdOwned(r, a) ==
    /\ step[r] = "new" /\ Single(r, a)
    /\ Goes(r, IF Allowed(r, a) THEN "owned" ELSE "error")
    /\ UNCHANGED <<vars, listed, seenOn, sent, got, results, audited, settings>>

\* requireOnline.
CmdOnline(r, a) ==
    /\ step[r] = "owned" /\ Single(r, a)
    /\ Goes(r, IF online[a] THEN "online" ELSE "error")
    /\ UNCHANGED <<vars, listed, seenOn, sent, got, results, audited, settings>>

\* Mutant: settings are stored whatever their keys.
Refused_Never(r) == FALSE

\* validateSettingsKeys finds a key that cannot be applied live, or is unknown.
Refused(r) == Ask[r].kind = "settings" /\ ~Ask[r].live

CmdRefused(r) ==
    /\ step[r] = "online" /\ Refused(r)
    /\ Goes(r, "error")
    /\ UNCHANGED <<vars, listed, seenOn, sent, got, results, audited, settings>>

\* The command is emitted; settings are then stored, a command audited.
CmdSend(r, a) ==
    /\ step[r] = "online" /\ Single(r, a)
    /\ ~Refused(r)
    /\ Dispatch(r, a)
    /\ Goes(r, IF Ask[r].kind = "settings" THEN "store" ELSE "audit")
    /\ UNCHANGED <<vars, listed, seenOn, results, audited, settings>>

\* Mutant: the audit entry of a push is forgotten.
CmdStore_NoAudit(r, a) ==
    /\ step[r] \in {"store", "orphan"} /\ Single(r, a)
    /\ settings' = [settings EXCEPT ![a] = r]
    /\ Goes(r, IF step[r] = "store" THEN "reply" ELSE "lost")
    /\ UNCHANGED <<vars, listed, seenOn, sent, got, results, audited>>

\* Mutant: the agentId is stored for the settings.
CmdStore_Swapped(r, a) ==
    /\ step[r] \in {"store", "orphan"} /\ Single(r, a)
    /\ settings' = [settings EXCEPT ![a] = a]
    /\ Goes(r, IF step[r] = "store" THEN "audit" ELSE "lost")
    /\ UNCHANGED <<vars, listed, seenOn, sent, got, results, audited>>

\* updateOne({ agentId }, { currentSettings }) takes effect.
CmdStore(r, a) ==
    /\ step[r] \in {"store", "orphan"} /\ Single(r, a)
    /\ settings' = [settings EXCEPT ![a] = r]
    /\ Goes(r, IF step[r] = "store" THEN "audit" ELSE "lost")
    /\ UNCHANGED <<vars, listed, seenOn, sent, got, results, audited>>

\* An update nobody awaits is lost.
CmdDrop(r) ==
    /\ step[r] = "orphan"
    /\ Goes(r, "lost")
    /\ UNCHANGED <<vars, listed, seenOn, sent, got, results, audited, settings>>

CmdAudit(r, a) ==
    /\ step[r] = "audit" /\ Single(r, a)
    /\ audited' = [audited EXCEPT ![r] = @ \cup {a}]
    /\ Goes(r, "reply")
    /\ UNCHANGED <<vars, listed, seenOn, sent, got, results, settings>>

\* The commandId is returned, or the summary of a bulk command.
CmdReply(r) ==
    /\ step[r] = "reply"
    /\ Goes(r, "ok")
    /\ UNCHANGED <<vars, listed, seenOn, sent, got, results, audited, settings>>

\* An awaited operation fails, and the request with it; an update reported
\* lost may still be on its way.  A bulk command awaits its find like this.
CmdError(r) ==
    /\ step[r] \in {"new", "owned", "store"}
          \cup IF Ask[r].kind = "bulk" THEN {} ELSE {"audit", "reply"}
    /\ \/ Goes(r, "error")
       \/ step[r] = "store" /\ Goes(r, "orphan")
    /\ UNCHANGED <<vars, listed, seenOn, sent, got, results, audited, settings>>

------------------------------------------------------------------------------
\* Bulk commands

\* find({ userId }) of killAll, find({ userId, accountLogin }) of stopAccount.
BulkFind(r) ==
    LET mine == {a \in Ask[r].agents : Allowed(r, a)}
    IN  /\ step[r] = "new" /\ Ask[r].kind = "bulk"
        /\ listed' = [listed EXCEPT ![r] = mine]
        /\ seenOn' = [seenOn EXCEPT ![r] = {a \in mine : online[a]}]
        /\ Goes(r, "loop")
        /\ UNCHANGED <<vars, sent, got, results, audited, settings>>

\* Instances the loop of fanOutCommand has not reached.
Todo(r) == {a \in listed[r] \ sent[r] : results[r][a] = "none"}

\* Mutant: offline instances are passed over.
Reported_Skipped(r, off) == results

\* Offline instances are reported.
Reported(r, off) == [results EXCEPT ![r] =
    [a \in Agents |-> IF a \in off THEN "offline" ELSE @[a]]]

\* The loop runs on, past instances that were offline, to the next one that was
\* online, emits the command and awaits the audit entry.
BulkSend(r) ==
    /\ step[r] = "loop"
    /\ \E a \in Todo(r) \cap seenOn[r], off \in SUBSET (Todo(r) \ seenOn[r]) :
          /\ Dispatch(r, a)
          /\ results' = Reported(r, off)
    /\ Goes(r, "audit")
    /\ UNCHANGED <<vars, listed, seenOn, audited, settings>>

\* The instance whose audit entry is awaited.
Auditing(r, a) ==
    /\ step[r] = "audit" /\ Ask[r].kind = "bulk"
    /\ a \in sent[r] /\ results[r][a] = "none"

Succeeds(r, a) == results' = [results EXCEPT ![r][a] = "ok"]

BulkAudit(r, a) ==
    /\ Auditing(r, a)
    /\ audited' = [audited EXCEPT ![r] = @ \cup {a}]
    /\ Succeeds(r, a)
    /\ Goes(r, "loop")
    /\ UNCHANGED <<vars, listed, seenOn, sent, got, settings>>

\* Mutant: the exception of a failed audit entry is not caught.
BulkAuditFails_Uncaught(r, a) ==
    /\ Auditing(r, a)
    /\ Goes(r, "error")
    /\ UNCHANGED <<vars, listed, seenOn, sent, got, results, audited, settings>>

\* The audit entry fails, written or not: the loop goes on.
BulkAuditFails(r, a) ==
    /\ Auditing(r, a)
    /\ \E lands \in SUBSET {a} : audited' = [audited EXCEPT ![r] = @ \cup lands]
    /\ Succeeds(r, a)
    /\ Goes(r, "loop")
    /\ UNCHANGED <<vars, listed, seenOn, sent, got, settings>>

\* The loop has reached the last instance; what is left was offline.
BulkDone(r) ==
    /\ step[r] = "loop"
    /\ Todo(r) \cap seenOn[r] = {}
    /\ results' = Reported(r, Todo(r))
    /\ Goes(r, "reply")
    /\ UNCHANGED <<vars, listed, seenOn, sent, got, audited, settings>>

------------------------------------------------------------------------------

\* A restart ends the requests being served; an update may be on its way.
CommandsRestart ==
    /\ Restart
    /\ step' = [r \in Requests |->
           CASE step[r] \in {"new"} \cup Final -> step[r]
             [] step[r] \in {"store", "orphan"} -> "orphan"
             [] OTHER -> "lost"]
    /\ UNCHANGED <<listed, seenOn, sent, got, results, audited, settings>>

Command(r, a) ==
    \/ CmdOwned(r, a) \/ CmdOnline(r, a) \/ CmdSend(r, a)
    \/ CmdStore(r, a) \/ CmdAudit(r, a)
    \/ BulkAudit(r, a) \/ BulkAuditFails(r, a)

Request(r) ==
    \/ CmdRefused(r) \/ CmdDrop(r) \/ CmdReply(r) \/ CmdError(r)
    \/ BulkFind(r) \/ BulkSend(r) \/ BulkDone(r)

CommandsNext ==
    \/ Serve /\ UNCHANGED <<requests, settings>>
    \/ CommandsRestart
    \/ \E r \in Requests : Request(r) \/ \E a \in Agents : Command(r, a)

CommandsSpec == CommandsInit /\ [][CommandsNext]_cvars

\* A request that may run on does, and Mongo answers every operation.
FairCommands ==
    /\ CommandsSpec
    /\ \A r \in Requests : WF_cvars(Request(r) \/ \E a \in Agents : Command(r, a))

------------------------------------------------------------------------------
\* Correctness

\* A command for an agent claimed before the process started is delivered to
\* nobody but that agent's bridge under a token of the user who asked for it,
\* although the checks of the request and of the registration were made at
\* other times than the delivery.
OwnersBridgeOnly ==
    \A r \in Requests : \A d \in got[r] :
        d[1] \in Claimed => /\ AgentOf(d[2]) = d[1]
                            /\ Claims[d[2]].user = Ask[r].user

\* No two bridges execute the same command, whatever takes over from what while
\* the request is served.
OneBridgeEach ==
    \A r \in Requests : \A d, e \in got[r] : d[1] = e[1] => d = e

\* A command reaches the bridge that is registered for its agent, if that one is
\* connected, and nobody else: the room it is emitted to and the map registrations
\* go by agree at that moment, whatever disconnects and takeovers came before.
SentToCurrent ==
    [][\A r \in Requests, a \in Agents :
          a \in sent'[r] \ sent[r] =>
              {d \in got'[r] : d[1] = a}
                  = {a} \X {s \in Sockets : bridgeSockets[a] = s /\ Open(s)}]_cvars

\* The stored settings of a claimed agent are its owner's, can be applied live
\* and were sent to the agent before, across errors, restarts and updates that
\* land after the request was given up.
StoredWasSent ==
    \A a \in Claimed : settings[a] # NoRequest =>
        LET r == settings[a]
        IN  Ask[r].user = owner[a] /\ Ask[r].live /\ a \in sent[r]

\* "Offline instances are reported, never silently skipped": the summary of a
\* bulk command names every instance it found, ok exactly if the command was
\* emitted, and "an audit-write failure must never destroy the
\* per-agent results": a bulk command that emitted anything ends without error.
BulkReported ==
    \A r \in Requests : Ask[r].kind = "bulk" =>
        /\ step[r] = "error" => sent[r] = {}
        /\ step[r] = "ok" => results[r] = [a \in Agents |->
               CASE a \in sent[r] -> "ok" [] a \in listed[r] \ sent[r] -> "offline"
                 [] OTHER -> "none"]

\* The audit log names only commands that were emitted, and a user who was told
\* that a single command was accepted finds it there.
AuditTrail ==
    \A r \in Requests :
        /\ audited[r] \subseteq sent[r]
        /\ Ask[r].kind # "bulk" /\ step[r] = "ok" => audited[r] = Ask[r].agents

\* "The emergency path": a bulk command reaches every instance it found online,
\* whatever fails on the way, unless the process restarts.
EmergencyReachesAll ==
    \A r \in Requests, a \in Agents :
        a \in seenOn[r] ~> a \in sent[r] \/ step[r] = "lost"

==============================================================================
