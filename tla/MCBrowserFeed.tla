--------------------------- MODULE MCBrowserFeed ---------------------------
\* Small instances of BrowserFeed: u1's bridge s1 of agent a2, which has no owner
\* yet and which s1 itself watches, u1's browser s2, which watches a1, and u2's
\* bridge s3 of a1.  a1 is u1's or u2's: s2 or s3 is a stranger to it.
EXTENDS BrowserFeed

CONSTANTS s1, s2, s3, a1, a2, u1, u2

MCClaims == [s \in Sockets |->
    [user     |-> IF s = s3 THEN u2 ELSE u1,
     agent    |-> CASE s = s1 -> a2 [] s = s2 -> NoAgent [] s = s3 -> a1,
     complete |-> TRUE,
     expires  |-> FALSE]]

MCSends == [s \in Sockets |->
    IF s = s3 THEN {"register", "telemetry"} ELSE {"register"}]

MCWatches == [s \in Sockets |->
    CASE s = s1 -> {a2} [] s = s2 -> {a1} [] s = s3 -> {}]

\* No document is online or hidden at the start: what they say of that makes no
\* difference to browsers.
MCFeedInit == FeedInit /\ \A a \in Agents : ~online[a] /\ ~hidden[a]

MCFeedSpec == MCFeedInit /\ [][FeedNext]_fvars

=============================================================================
