----------------------------- MODULE ConsoleRest -----------------------------
(***************************************************************************)
(* How a REST request is answered: the middleware of src/src/main.ts, the  *)
(* throttler guard, the token guard, validation, ConsoleController's       *)
(* handlers with the checks of ConsoleService, and HttpErrorFilter.        *)
(*                                                                         *)
(* A request is one step.  It touches the throttler's buckets when it      *)
(* arrives; what its awaits allow in between is ConsoleCommands' matter.   *)
(***************************************************************************)
EXTENDS Integers, FiniteSets

CONSTANTS
    Requests,      \* bound: the requests clients make, again and again
    Ask,           \* what each of them is, see AskSet
    Tokens, Users, Agents, Clients,
    Claims,        \* what a token says, see ClaimSet
    Owner,         \* agent -> userId of its instance
    Window,        \* ttl of every limit
    CommandLimit, BulkLimit, DefaultLimit,
    NoToken,       \* no bearer token in the Authorization header
    NoUser,        \* the user_id claim is missing
    Global,        \* the route has no agentId
    NoReply,
    MaxNow,        \* bound: Date.now()
    Plans          \* bound: which requests a behaviour has, and how many in all

Commands == {"killSwitch", "killReset", "masterEnable", "closeBuy", "closeSell",
             "pushSettings"}
Bulk     == {"stopAccount", "killAll"}
Reads    == {"getState", "getAuditLog", "getPnlHistory", "getPnlDailySummary",
             "getCurrentSettings"}
Handlers == Commands \cup Bulk \cup Reads \cup {"listInstances", "removeInstance"}
Mutating == Commands \cup Bulk \cup {"removeInstance"}
OfAgent  == Handlers \ (Bulk \cup {"listInstances"})

\* flag: the JSON value of confirm or enabled, "text" being any other value that
\* JavaScript holds for true, such as "false", or what a form has.  cookie and
\* header: XSRF-TOKEN and X-CSRF-Token.  sized: Content-Length is above 0, which it
\* is not for a chunked body.  json: Content-Type is application/json.  Settings
\* that are pushed have the keys the service knows.
AskSet == [handler : Handlers, agent : Agents \cup {Global},
           token : Tokens \cup {NoToken}, client : Clients,
           flag : {"true", "false", "text", "absent"},
           cookie : BOOLEAN, header : BOOLEAN, sized : BOOLEAN, json : BOOLEAN]

\* signed: by SafetyScore, for this audience.
ClaimSet == [user : Users \cup {NoUser}, signed : BOOLEAN, exp : Nat]

ASSUME RestConstants ==
    /\ Ask \in [Requests -> AskSet]
    /\ \A q \in Requests : (Ask[q].handler \in OfAgent) = (Ask[q].agent # Global)
    /\ Claims \in [Tokens -> ClaimSet]
    /\ Owner \in [Agents -> Users]
    /\ Window \in Nat \ {0}
    /\ {CommandLimit, BulkLimit, DefaultLimit} \subseteq Nat \ {0}
    /\ MaxNow \in Nat
    /\ Plans \subseteq [requests : SUBSET Requests, asks : Nat]
    /\ Global \notin Agents /\ NoToken \notin Tokens /\ NoUser \notin Users

VARIABLES
    now,
    isProd,   \* NODE_ENV is production
    doc,      \* agent -> its document: missing, or online or not
    hits,     \* bucket -> the hits counted in it
    frozen,   \* bucket -> those of its hits that no timer takes away any more
    until,    \* bucket -> when its block ends, 0 if it is not blocked
    asked,    \* <<handler, caller, agent>> -> every hit since the process started
    passed,   \* those of them the throttler let pass
    plan,     \* the plan of this behaviour
    asks,     \* requests made so far
    reply     \* the answer to the request that has just been served

restVars == <<now, isProd, doc, hits, frozen, until, asked, passed, plan, asks, reply>>

\* Who a request is counted for: its token, else its client.
Sender(q) == IF Ask[q].token # NoToken THEN Ask[q].token ELSE Ask[q].client

Askers  == UNION {{Ask[q].handler} \X {Sender(q)} \X {Ask[q].agent, Global} : q \in Requests}
\* One request for the same thing: the how-manieth, and when.
Hit     == [no : Nat, at : Nat]
Codes   == {"ok", "BAD_REQUEST", "AUTH_REQUIRED", "AUTH_TOKEN_INVALID", "FORBIDDEN",
            "NOT_FOUND", "CONFLICT", "RATE_LIMITED", "none"}
Replies == [to : Requests, status : {200, 400, 401, 403, 404, 409, 415, 429, 500},
            code : Codes, message : {"data", "own", "generic", "retry", "login"}]

\* Every answer has a code that says what it is about, never HTTP_ERROR.
RestTypeOK ==
    /\ now \in Nat /\ isProd \in BOOLEAN
    /\ doc \in [Agents -> {"missing", "offline", "online"}]
    /\ hits \in [Askers -> SUBSET Hit] /\ frozen \in [Askers -> SUBSET Hit]
    /\ until \in [Askers -> Nat]
    /\ asked \in [Askers -> SUBSET Hit] /\ passed \in [Askers -> SUBSET Hit]
    /\ plan \in Plans /\ asks \in Nat
    /\ reply \in Replies \cup {NoReply}

RestInit ==
    /\ now = 0 /\ isProd \in BOOLEAN
    /\ doc \in [Agents -> {"missing", "offline", "online"}]
    /\ hits = [b \in Askers |-> {}] /\ frozen = [b \in Askers |-> {}]
    /\ until = [b \in Askers |-> 0]
    /\ asked = [b \in Askers |-> {}] /\ passed = [b \in Askers |-> {}]
    /\ plan \in Plans /\ asks = 0
    /\ reply = NoReply

------------------------------------------------------------------------------
\* ConsoleThrottlerGuard and the library's storage

\* Mutant: the @Throttle decorators are forgotten.
Limit_Undecorated(h) == DefaultLimit

Limit(h) ==
    CASE h \in Bulk -> BulkLimit
      [] h \in {"killSwitch", "killReset", "closeBuy", "closeSell", "removeInstance"}
            -> CommandLimit
      [] OTHER -> DefaultLimit

\* Mutant: the bucket is the token's alone.
getTracker_TokenOnly(q) ==
    <<Ask[q].handler, Sender(q), Global>>

\* Requests with a bearer are counted per token and agentId, the others per
\* client (ip and device), and all of them per handler.
getTracker(q) ==
    <<Ask[q].handler, Sender(q), IF Ask[q].token # NoToken THEN Ask[q].agent ELSE Global>>

\* Who asks for what: the budgets that should be apart.
Asker(q) ==
    <<Ask[q].handler, Sender(q), IF Ask[q].token # NoToken THEN Ask[q].agent ELSE Global>>

Asked(q) == [no |-> Cardinality(asked[Asker(q)]) + 1, at |-> now]

\* A hit leaves its bucket when its timer fires.
Running(b) == {x \in hits[b] : now < x.at + Window}

\* The hits its bucket counts when a request is made now.
Counted(q) == Running(getTracker(q)) \cup frozen[getTracker(q)] \cup {Asked(q)}

\* A bucket is blocked by the hit above its limit.  Until the block ends nothing
\* is counted.  Then it starts afresh, and clearExpirationTimes cancels the timers
\* of every bucket, since they are kept per throttler and there is one throttler.
Throttled(q) ==
    LET b == getTracker(q)
        full == Cardinality(Counted(q)) > Limit(Ask[q].handler)
    IN  IF until[b] = 0 THEN full ELSE now < until[b]

Count(q) ==
    LET b == getTracker(q)
    IN  CASE until[b] = 0 ->
               /\ hits' = [hits EXCEPT ![b] = Counted(q)]
               /\ until' = [until EXCEPT ![b] = IF Throttled(q) THEN now + Window ELSE 0]
               /\ UNCHANGED frozen
          [] until[b] # 0 /\ Throttled(q) -> UNCHANGED <<hits, frozen, until>>
          [] until[b] # 0 /\ ~Throttled(q) ->
               /\ hits' = [hits EXCEPT ![b] = {Asked(q)}]
               /\ frozen' = [c \in Askers |-> IF c = b THEN {} ELSE frozen[c] \cup Running(c)]
               /\ until' = [until EXCEPT ![b] = 0]

------------------------------------------------------------------------------
\* The other checks, in the order a request meets them

\* The content type check of src/src/main.ts.
Unsupported(q) == Ask[q].handler \in Mutating /\ Ask[q].sized /\ ~Ask[q].json

\* Mutant: a client without the cookie must send the header as well.
CsrfMissing_Always(q) == Ask[q].handler \in Mutating /\ ~Ask[q].header

\* RequiredHeadersMiddleware
CsrfMissing(q) ==
    Ask[q].handler \in Mutating /\ Ask[q].cookie /\ ~Ask[q].header

verifySafetyScoreToken(t) ==
    Claims[t].signed /\ now < Claims[t].exp /\ Claims[t].user # NoUser

\* ValidationPipe with enableImplicitConversion.
Converted(flag) == flag \in {"true", "text"}

Invalid(q) ==
    \/ Ask[q].handler \in {"killSwitch", "killAll"} /\ ~Converted(Ask[q].flag)
    \/ Ask[q].handler = "masterEnable" /\ Ask[q].flag = "absent"

UserOf(q) == Claims[Ask[q].token].user

------------------------------------------------------------------------------
\* HttpErrorFilter

\* Mutant: 429 has no code of its own.
defaultCode_No429(status) ==
    CASE status = 400 -> "BAD_REQUEST" [] status = 401 -> "AUTH_UNAUTHORIZED"
      [] status = 403 -> "FORBIDDEN"   [] status = 404 -> "NOT_FOUND"
      [] status = 409 -> "CONFLICT"    [] status = 422 -> "UNPROCESSABLE_ENTITY"
      [] status >= 500 -> "INTERNAL_ERROR"
      [] status \notin {400, 401, 403, 404, 409, 422} /\ status < 500 -> "HTTP_ERROR"

defaultCode(status) ==
    CASE status = 400 -> "BAD_REQUEST" [] status = 401 -> "AUTH_UNAUTHORIZED"
      [] status = 403 -> "FORBIDDEN"   [] status = 404 -> "NOT_FOUND"
      [] status = 409 -> "CONFLICT"    [] status = 422 -> "UNPROCESSABLE_ENTITY"
      [] status = 429 -> "RATE_LIMITED" [] status >= 500 -> "INTERNAL_ERROR"
      [] status \notin {400, 401, 403, 404, 409, 422, 429} /\ status < 500 -> "HTTP_ERROR"

\* Mutant: validation messages are not disabled in production.
Rejection_Listed == "list"

\* message of a failed validation: a list, unless disableErrorMessages is set.
Rejection == IF isProd THEN "text" ELSE "list"

\* The message sent for an exception whose body has a text or a list of texts.
Message(status, body) ==
    CASE status = 429 -> "retry"
      [] status # 429 /\ ~isProd -> "own"
      [] isProd /\ status \in {400, 401, 422} -> IF body = "text" THEN "own" ELSE "login"
      [] isProd /\ status \notin {400, 401, 422, 429} -> "generic"

Answer(q, status, code, body) ==
    [to |-> q, status |-> status, code |-> code, message |-> Message(status, body)]

\* An exception whose body has no code of its own.
Refusal(q, status, body) == Answer(q, status, defaultCode(status), body)

Done(q) == [to |-> q, status |-> 200, code |-> "ok", message |-> "data"]

\* Answers the filter has no part in: the middleware's own, and those to errors
\* that are no HttpException, such as Mongo's.
Bare(q, status) == [to |-> q, status |-> status, code |-> "none", message |-> "generic"]

------------------------------------------------------------------------------

\* getState: there may be no cached telemetry.
getState(q) == {Done(q), Refusal(q, 400, "text")}

\* removeInstance: an online instance is not hidden.
removeInstance(q) ==
    IF doc[Ask[q].agent] = "online" THEN {Refusal(q, 409, "text")} ELSE {Done(q)}

\* A command needs an online instance.
requireOnline(q) ==
    IF doc[Ask[q].agent] = "online" THEN {Done(q)} ELSE {Refusal(q, 404, "text")}

\* What the service makes of a request that has passed every other check; it asks
\* first whether the agent's instance exists and is the caller's.
Served(q) ==
    LET a == Ask[q]
    IN  CASE a.handler \notin OfAgent -> {Done(q)}
          [] a.handler \in OfAgent /\ doc[a.agent] = "missing" -> {Refusal(q, 404, "text")}
          [] a.handler \in OfAgent /\ doc[a.agent] # "missing" /\ Owner[a.agent] # UserOf(q)
               -> {Refusal(q, 403, "text")}
          [] OTHER -> CASE a.handler \in Commands -> requireOnline(q)
                        [] a.handler = "removeInstance" -> removeInstance(q)
                        [] a.handler = "getState" -> getState(q)
                        [] OTHER -> {Done(q)}

\* A request passes the middleware, the throttler, the token guard and validation
\* on its way to the service.
Outcomes(q) ==
    LET a == Ask[q]
    IN  IF Unsupported(q) THEN {Bare(q, 415)}
        ELSE IF CsrfMissing(q) THEN {Refusal(q, 400, "text")}
        ELSE IF Throttled(q) THEN {Refusal(q, 429, "text")}
        ELSE IF a.token = NoToken THEN {Answer(q, 401, "AUTH_REQUIRED", "text")}
        ELSE IF ~verifySafetyScoreToken(a.token)
             THEN {Answer(q, 401, "AUTH_TOKEN_INVALID", "text")}
        ELSE IF Invalid(q) THEN {Refusal(q, 400, Rejection)}
        ELSE Served(q) \cup {Bare(q, 500)}

Request(q) ==
    /\ q \in plan.requests /\ asks < plan.asks
    /\ asks' = asks + 1
    /\ asked' = [asked EXCEPT ![Asker(q)] = @ \cup {Asked(q)}]
    /\ reply' \in Outcomes(q)
    /\ IF ~Unsupported(q) /\ ~CsrfMissing(q)
       THEN /\ Count(q)
            /\ passed' = IF Throttled(q) THEN passed
                         ELSE [passed EXCEPT ![Asker(q)] = @ \cup {Asked(q)}]
       ELSE UNCHANGED <<hits, frozen, until, passed>>
    /\ UNCHANGED <<now, isProd, doc, plan>>

\* An instance registers, comes online or goes offline.
Changes(a) ==
    /\ \E state \in {"offline", "online"} : doc' = [doc EXCEPT ![a] = state]
    /\ reply' = NoReply
    /\ UNCHANGED <<now, isProd, hits, frozen, until, asked, passed, plan, asks>>

Tick ==
    /\ now < MaxNow
    /\ now' = now + 1
    /\ reply' = NoReply
    /\ UNCHANGED <<isProd, doc, hits, frozen, until, asked, passed, plan, asks>>

\* The process ends and starts again; buckets are in its memory.
Restart ==
    /\ hits' = [b \in Askers |-> {}] /\ frozen' = [b \in Askers |-> {}]
    /\ until' = [b \in Askers |-> 0]
    /\ asked' = [b \in Askers |-> {}] /\ passed' = [b \in Askers |-> {}]
    /\ reply' = NoReply
    /\ UNCHANGED <<now, isProd, doc, plan, asks>>

RestNext ==
    \/ \E q \in Requests : Request(q)
    \/ \E a \in Agents : Changes(a)
    \/ Tick \/ Restart

RestSpec == RestInit /\ [][RestNext]_restVars

------------------------------------------------------------------------------
\* Correctness

Since(q, t) == {x \in asked[Asker(q)] : x.at > t}

\* "so ten EAs never share one command budget": who is refused for asking too
\* often has itself asked this for this EA, with this token, more often than the
\* limit since the process started, whatever others asked; and unless the end of
\* another's block has stopped its timers it has done so in the last two windows,
\* and not waited for a whole one.
OwnBudget ==
    reply # NoReply /\ reply.status = 429 =>
        LET q == reply.to
            limit == Limit(Ask[q].handler)
        IN  /\ Cardinality(asked[Asker(q)]) > limit
            /\ frozen[Asker(q)] = {} => /\ Cardinality(Since(q, now - 2 * Window)) > limit
                                        /\ Cardinality(Since(q, now - Window)) > 1

\* "All commands and bulk endpoints have throttles": of what one sender asks for
\* one EA, no more than the limit passes in any window while the process runs, in
\* whatever order blocks begin, end and begin again; the two commands that change
\* no position have the default limit.
LimitHolds ==
    \A b \in Askers :
        LET passes == Cardinality({x \in passed[b] : x.at > now - Window})
        IN  /\ b[1] \in Bulk => passes <= BulkLimit
            /\ b[1] \in Commands \ {"masterEnable", "pushSettings"} => passes <= CommandLimit
            /\ passes <= Limit(b[1])

\* The request is well formed and its sender may ask for it now.
Entitled(q) ==
    LET a == Ask[q]
    IN  /\ a.handler \in Mutating => (a.sized => a.json) /\ (a.cookie => a.header)
        /\ a.token # NoToken /\ Claims[a.token].signed
        /\ Claims[a.token].user \in Users /\ now < Claims[a.token].exp
        /\ a.handler \in OfAgent => /\ doc[a.agent] # "missing"
                                    /\ Owner[a.agent] = UserOf(q)

\* A command is carried out for those who are entitled to it, while its EA is
\* online, and for nobody else; and nothing but the budget and Mongo's errors
\* keeps the owner of an EA from its kill switch: no check of the six before the
\* service refuses what another would let pass.
CommandsServed ==
    reply # NoReply /\ Ask[reply.to].handler \in Commands =>
        LET q == reply.to
            rightful == Entitled(q) /\ doc[Ask[q].agent] = "online"
        IN  /\ reply.status = 200 => rightful
            /\ rightful /\ Ask[q].flag = "true" => reply.status \in {200, 429, 500}

\* This service keeps no accounts: no client is told "Invalid email or password.",
\* the filter's fallback when an error of production has no text of its own.
NoLoginAdvice == reply # NoReply => reply.message # "login"

\* "confirm must be true to execute kill switch"
KillIsConfirmed ==
    reply # NoReply /\ Ask[reply.to].handler \in {"killSwitch", "killAll"} =>
        (reply.status = 200 => Ask[reply.to].flag = "true")

==============================================================================
