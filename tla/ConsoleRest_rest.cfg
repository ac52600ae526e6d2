SPECIFICATION RestSpec
CONSTANTS
    t1 = t1  t2 = t2
    u1 = u1  u2 = u2
    a1 = a1  a2 = a2
    c1 = c1
    kill1 = kill1  kill2 = kill2  killTold = killTold  other = other
    all = all  stale = stale  anon = anon  remove = remove
    state = state  page = page
    Requests = {kill1, kill2, other, all, stale, anon, remove, state, page}
    Tokens = {t1, t2}
    Users = {u1, u2}
    Agents = {a1, a2}
    Clients = {c1}
    Ask <- MCAsk
    Claims <- MCClaims
    Owner <- MCOwner
    Window = 2
    CommandLimit = 1
    BulkLimit = 1
    DefaultLimit = 2
    NoToken = NoToken
    NoUser = NoUser
    Global = Global
    NoReply = NoReply
    MaxNow = 3
    Plans <- MCPlans
INVARIANTS RestTypeOK OwnBudget LimitHolds CommandsServed NoLoginAdvice
CHECK_DEADLOCK FALSE
