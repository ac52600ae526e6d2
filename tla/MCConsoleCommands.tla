------------------------- MODULE MCConsoleCommands -------------------------
\* Small instances of ConsoleCommands.  Bridges s1 and s2 of u1 present tokens
\* for a1, s3 of u1 one for a2.  Requests: u1 pushes live settings to a1 (p1)
\* and settings that need a restart (p2); u2, to whom nothing belongs, commands
\* a1 (c1); u1 kills all instances (k1).
EXTENDS ConsoleCommands

CONSTANTS s1, s2, s3, a1, a2, u1, u2, c1, p1, p2, k1

MCClaims == [s \in Sockets |->
    [user     |-> u1,
     agent    |-> IF s = s3 THEN a2 ELSE a1,
     complete |-> TRUE,
     expires  |-> FALSE]]

MCAsk == [r \in Requests |->
    [kind   |-> CASE r = c1 -> "command" [] r = k1 -> "bulk" [] OTHER -> "settings",
     user   |-> IF r = c1 THEN u2 ELSE u1,
     agents |-> IF r = k1 THEN Agents ELSE {a1},
     live   |-> r # p2]]

MCSends == [s \in Sockets |-> {"register"}]

=============================================================================
