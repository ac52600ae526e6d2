SPECIFICATION MCFeedSpec
CONSTANTS
    s1 = s1  s2 = s2  s3 = s3
    a1 = a1  a2 = a2
    u1 = u1  u2 = u2
    Sockets = {s1, s2, s3}
    Agents = {a1, a2}
    Users = {u1, u2}
    Claims <- MCClaims
    Claimed = {a1}
    KickModes = {"sync"}
    Frames = {"old"}
    Sends <- MCSends
    Watches <- MCWatches
    MaxInFlight = 1
    NoSocket = NoSocket
    NoAgent = NoAgent
    Missing = Missing
    Unclaimed = Unclaimed
INVARIANTS FeedTypeOK OwnersView RegisteredFirst ViewersCurrent
CHECK_DEADLOCK FALSE
