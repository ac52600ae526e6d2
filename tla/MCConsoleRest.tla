---------------------------- MODULE MCConsoleRest ----------------------------
\* A small instance of ConsoleRest: u1, who owns a1 and a2 and whose token t1
\* expires at 3; u2 with t2, who owns nothing; a client without a token.  Limits
\* of 1 and 2 in a window of 2.
EXTENDS ConsoleRest

CONSTANTS t1, t2, u1, u2, a1, a2, c1, kill1, kill2, killTold, other, all,
          stale, anon, remove, state, page

MCClaims == [t \in Tokens |->
    [user |-> IF t = t1 THEN u1 ELSE u2, signed |-> TRUE,
     exp |-> IF t = t1 THEN 3 ELSE 9]]

MCOwner == [a \in Agents |-> u1]

\* kill1 and kill2 are for a1 and a2.  killTold has "false" for confirm and all has
\* none, in a chunked body that is no JSON; stale has the cookie without the header,
\* page a body that is not JSON.
MCAsk == [q \in Requests |->
    [handler |-> CASE q = remove -> "removeInstance" [] q = state -> "getState"
                   [] q = all -> "killAll" [] OTHER -> "killSwitch",
     agent   |-> CASE q = all -> Global [] q = kill2 -> a2 [] OTHER -> a1,
     token   |-> CASE q = other -> t2 [] q = anon -> NoToken [] OTHER -> t1,
     client  |-> c1,
     flag    |-> CASE q \in {remove, state, all} -> "absent"
                   [] q = killTold -> "text" [] OTHER -> "true",
     cookie  |-> q = stale, header |-> FALSE,
     sized   |-> q \notin {remove, state, all}, json |-> q \notin {remove, state, all, page}]]

\* Three of any of the requests, or five of two agents' kill switches: enough for
\* the end of one's block to stop the other's timers.
MCPlans == {[requests |-> Requests, asks |-> 3],
            [requests |-> Requests \cap {kill1, kill2}, asks |-> 5]}

=============================================================================
