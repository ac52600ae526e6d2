SPECIFICATION FairPresence
CONSTANTS
    s1 = s1  s2 = s2
    a1 = a1
    u1 = u1  u2 = u2
    h1 = h1  h2 = h2
    Sockets = {s1}
    Agents = {a1}
    Users = {u1, u2}
    Runs = {h1}
    Claims <- MCClaims
    Claimed = {a1}
    KickModes = {"sync"}
    Frames = {"recent"}
    Sends <- MCSends
    MaxInFlight = 1
    NoSocket = NoSocket
    NoAgent = NoAgent
    Missing = Missing
    Unclaimed = Unclaimed
INVARIANTS PresenceTypeOK HiddenMeansOffline
PROPERTIES GhostHeals ExpiredSocketLeaves
CHECK_DEADLOCK FALSE
