SPECIFICATION Spec
CONSTANTS
    s1 = s1  s2 = s2  s3 = s3  s4 = s4
    a1 = a1
    u1 = u1  u2 = u2
    Sockets = {s1, s3, s4}
    Agents = {a1}
    Users = {u1, u2}
    Claims <- MCClaims
    Claimed = {a1}
    KickModes = {"sync", "late"}
    Frames = {"recent"}
    Sends <- MCSends
    MaxInFlight = 2
    NoSocket = NoSocket
    NoAgent = NoAgent
    Missing = Missing
    Unclaimed = Unclaimed
INVARIANTS TypeOK LiveRoute RouteOwner
PROPERTIES OwnerLock ImplementsCommandRoute
CHECK_DEADLOCK FALSE
