-------------------------- MODULE MCBridgeGateway --------------------------
\* Small instances of BridgeGateway.  u1's bridges s1 and s3 and u2's bridges s2
\* and s4 present tokens for the same agent; that of s4 lacks a required field,
\* and s4 alone sends other frames too.  Only the token of s1 expires during a run.
EXTENDS BridgeGateway

CONSTANTS s1, s2, s3, s4, a1, u1, u2

MCClaims == [s \in Sockets |->
    [user     |-> IF s \in {s2, s4} THEN u2 ELSE u1,
     agent    |-> a1,
     complete |-> s # s4,
     expires  |-> s = s1]]

MCSends == [s \in Sockets |->
    IF s = s4 THEN {"register", "telemetry", "statusOff"} ELSE {"register"}]

=============================================================================
