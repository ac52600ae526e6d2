----------------------------- MODULE BrowserFeed -----------------------------
(***************************************************************************)
(* The browser side of ConsoleGateway (src/src/console/console.gateway.ts) *)
(* over its bridge side: the room `agent:<agentId>` of each agent, who may *)
(* join it, and which of its members have the frame the cache holds.       *)
(*                                                                         *)
(* Sockets whose token carries no agent claim are browsers.  They connect, *)
(* expire, are swept and leave as BridgeGateway says.  A bridge may        *)
(* subscribe as well, see Watches.                                         *)
(***************************************************************************)
EXTENDS BridgeGateway

CONSTANT Watches   \* bound: the agents each socket subscribes to

\* An accepted subscribe sets client.data.agentId.  For a browser nothing reads it:
\* the handlers that would ask for isBridge first.  A bridge is assumed to
\* subscribe to its own agent at most, so that it stays what its token says.
ASSUME WatchesOK ==
    /\ Watches \in [Sockets -> SUBSET Agents]
    /\ \A s \in Sockets : IsBridge(s) => Watches[s] \subseteq {AgentOf(s)}

VARIABLES
    viewers,   \* agent -> members of the room `agent:<agentId>`
    current,   \* agent -> sockets that were sent the frame the cache holds
    sub,       \* socket -> agent -> where client:subscribe awaits
    instance   \* socket -> agent -> userId read by that handler

feed  == <<viewers, current, sub, instance>>
fvars == <<vars, feed>>

FeedTypeOK ==
    /\ TypeOK
    /\ viewers \in [Agents -> SUBSET Sockets]
    /\ current \in [Agents -> SUBSET Sockets]
    /\ sub \in [Sockets -> [Agents -> {"idle", "early", "find", "found"}]]
    /\ instance \in [Sockets -> [Agents -> Users \cup {Missing, Unclaimed}]]

FeedInit ==
    /\ Init
    /\ viewers = [a \in Agents |-> {}]
    /\ current = [a \in Agents |-> {}]
    /\ sub = [s \in Sockets |-> [a \in Agents |-> "idle"]]
    /\ instance = [s \in Sockets |-> [a \in Agents |-> Missing]]

------------------------------------------------------------------------------
\* What the steps of the bridge side do to browsers

\* A socket that is closed leaves its rooms.
Remaining == [a \in Agents |-> {s \in viewers[a] : Open(s)'}]

\* A frame of agent a was put in the cache and sent to the room.
Framed(a) == \E s \in Sockets : /\ AgentOf(s) = a
                                /\ pc["telemetry"][s] = "idle"
                                /\ pc'["telemetry"][s] = "write"

Refreshed == [a \in Agents |-> IF Framed(a) THEN viewers[a] ELSE current[a]]

FeedServe ==
    /\ Serve
    /\ viewers' = Remaining
    /\ current' = Refreshed
    /\ UNCHANGED <<sub, instance>>

FeedRestart ==
    /\ Restart
    /\ viewers' = [a \in Agents |-> {}]
    /\ current' = [a \in Agents |-> {}]
    /\ sub' = [s \in Sockets |-> [a \in Agents |-> "idle"]]
    /\ instance' = [s \in Sockets |-> [a \in Agents |-> Missing]]

------------------------------------------------------------------------------
\* client:subscribe and client:unsubscribe

SubEnds(s, a) ==
    /\ sub' = [sub EXCEPT ![s][a] = "idle"]
    /\ instance' = [instance EXCEPT ![s][a] = Missing]

\* The handler reads client.data.userId and sends findOne.  While the token is
\* being verified the userId is undefined, which no document's userId equals.
Subscribe(s, a) ==
    /\ Open(s) /\ a \in Watches[s]
    /\ sub[s][a] = "idle"
    /\ sub' = [sub EXCEPT ![s][a] = IF conn[s] = "ready" THEN "find" ELSE "early"]
    /\ UNCHANGED <<vars, viewers, current, instance>>

\* Mutant: the caller is compared with the agent's id.
SubFind_WrongField(s, a) ==
    /\ sub[s][a] = "find"
    /\ sub' = [sub EXCEPT ![s][a] = "found"]
    /\ instance' = [instance EXCEPT ![s][a] = a]
    /\ UNCHANGED <<vars, viewers, current>>

\* findOne takes effect.
SubFind(s, a) ==
    /\ sub[s][a] = "find"
    /\ sub' = [sub EXCEPT ![s][a] = "found"]
    /\ instance' = [instance EXCEPT ![s][a] = owner[a]]
    /\ UNCHANGED <<vars, viewers, current>>

\* Mutant: an instance without an owner is anybody's.
Owned_NullBypass(s, a) == instance[s][a] \in {Claims[s].user, Unclaimed}

\* The instance exists and its userId is the caller's.
Owned(s, a) == instance[s][a] = Claims[s].user

\* Forbidden: the socket is closed.
SubRejected(s, a) ==
    /\ sub[s][a] = "early" \/ (sub[s][a] = "found" /\ ~Owned(s, a))
    /\ ServerDisconnect({r \in {s} : Open(r)}, pc)
    /\ viewers' = Remaining
    /\ SubEnds(s, a)
    /\ UNCHANGED <<expiry, cache, found, document, current>>

\* Mutant: a new viewer waits for the next frame.
Hydrated_Never(s, a) == current

\* console:hydrate carries the cached frame, if there is one.
Hydrated(s, a) ==
    IF cache[a] = "none" THEN current
    ELSE [current EXCEPT ![a] = @ \cup {r \in {s} : Open(r)}]

\* The socket joins the room and is sent the cached frame, unless it was closed
\* during the await: then socket.io ignores both.
SubAccepted(s, a) ==
    /\ sub[s][a] = "found" /\ Owned(s, a)
    /\ viewers' = [viewers EXCEPT ![a] = @ \cup {r \in {s} : Open(r)}]
    /\ current' = Hydrated(s, a)
    /\ SubEnds(s, a)
    /\ UNCHANGED vars

\* findOne fails and the exception ends the handler.
SubFails(s, a) ==
    /\ sub[s][a] # "idle"
    /\ SubEnds(s, a)
    /\ UNCHANGED <<vars, viewers, current>>

\* client:unsubscribe awaits nothing, and does not stop a subscribe in flight.
Unsubscribe(s, a) ==
    /\ Open(s)
    /\ viewers' = [viewers EXCEPT ![a] = @ \ {s}]
    /\ UNCHANGED <<vars, current, sub, instance>>

BrowserStep(s, a) ==
    \/ Subscribe(s, a) \/ SubFind(s, a) \/ SubRejected(s, a)
    \/ SubAccepted(s, a) \/ SubFails(s, a) \/ Unsubscribe(s, a)

FeedNext ==
    \/ FeedServe
    \/ FeedRestart
    \/ \E s \in Sockets, a \in Agents : BrowserStep(s, a)

FeedSpec == FeedInit /\ [][FeedNext]_fvars

------------------------------------------------------------------------------
\* Correctness

\* "Only allow the owner to subscribe": whoever watches an agent claimed before
\* the process started is its owner, although the answer of the ownership check
\* is used after an await, and the viewer stays, while bridges of others register
\* for the same agent.
OwnersView ==
    \A a \in Claimed : \A s \in viewers[a] : Claims[s].user = owner[a]

\* "This MUST land before any client:subscribe for the same agentId succeeds":
\* nobody watches an agent whose registration has not been stored.
RegisteredFirst == \A a \in Agents : viewers[a] # {} => owner[a] \in Users

\* Whoever watches an agent has the frame the cache holds, whether it joined
\* before the frame came or after: no frame falls between hydration and the room.
ViewersCurrent ==
    \A a \in Agents : cache[a] # "none" => viewers[a] \subseteq current[a]

\* "Reject when instance is missing, unclaimed, or owned by a different user",
\* and only then: client:subscribe never closes the socket of the owner.
OnlyStrangersRejected ==
    [][\/ FeedRestart
       \/ \A a \in Claimed, s \in Sockets :
              SubRejected(s, a) /\ Open(s) => Claims[s].user # owner[a]]_fvars

==============================================================================
