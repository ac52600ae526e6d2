SPECIFICATION FairCommands
CONSTANTS
    s1 = s1  s2 = s2  s3 = s3
    a1 = a1  a2 = a2
    u1 = u1  u2 = u2
    c1 = c1  p1 = p1  p2 = p2  k1 = k1
    Sockets = {s1, s3}
    Agents = {a1, a2}
    Users = {u1, u2}
    Requests = {k1}
    Claims <- MCClaims
    Ask <- MCAsk
    Claimed = {a1, a2}
    KickModes = {"sync"}
    Frames = {}
    Sends <- MCSends
    MaxInFlight = 1
    NoSocket = NoSocket
    NoAgent = NoAgent
    Missing = Missing
    Unclaimed = Unclaimed
    NoRequest = NoRequest
INVARIANTS BulkReported
PROPERTIES EmergencyReachesAll
CHECK_DEADLOCK FALSE
