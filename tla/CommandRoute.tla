----------------------------- MODULE CommandRoute -----------------------------
(***************************************************************************)
(* What the gateway promises about commands: each agent's commands go to   *)
(* one connected bridge at most, the last one that attached to the agent's *)
(* room, and a bridge that was displaced or has left receives none again.  *)
(***************************************************************************)
CONSTANTS Bridges, Agents, Home   \* Home: bridge -> the agent of its token

VARIABLES route,    \* agent -> the connected bridges that receive its commands
          retired   \* bridges that are gone for good

Init == route = [a \in Agents |-> {}] /\ retired = {}

\* b takes its agent's route over from whichever bridge had it.
Attach(b) ==
    /\ b \notin retired
    /\ Home[b] \in Agents
    /\ retired' = retired \cup (route[Home[b]] \ {b})
    /\ route' = [route EXCEPT ![Home[b]] = {b}]

\* Bridges leave, or are made to.
Detach(B) ==
    /\ B \cap retired = {}
    /\ retired' = retired \cup B
    /\ route' = [a \in Agents |-> route[a] \ B]

Next ==
    \/ \E b \in Bridges : Attach(b)
    \/ \E B \in SUBSET Bridges : Detach(B)

Spec == Init /\ [][Next]_<<route, retired>>

==============================================================================
