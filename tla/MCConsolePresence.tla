------------------------- MODULE MCConsolePresence -------------------------
\* Small instances of ConsolePresence: bridges s1 and s2 of users u1 and u2
\* with tokens for the same agent; the token of s1 expires during a run.
EXTENDS ConsolePresence

CONSTANTS s1, s2, a1, u1, u2, h1, h2

MCClaims == [s \in Sockets |->
    [user     |-> IF s = s2 THEN u2 ELSE u1,
     agent    |-> a1,
     complete |-> TRUE,
     expires  |-> s = s1]]

MCSends == [s \in Sockets |->
    {"register", "telemetry", "statusOn", "statusOff", "offline"}]

=============================================================================
