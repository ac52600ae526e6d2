--------------------------- MODULE ConsoleRestProofs ---------------------------
(***************************************************************************)
(* Theorems about ConsoleRest, for every set of requests, tokens, claims,  *)
(* agents and limits.  A reply is made and judged in the same state: every *)
(* other step takes it away, so an invariant about replies needs to be     *)
(* shown of the outcomes of one request only.  OwnBudget relates the reply *)
(* to what was asked before, and needs an invariant of the buckets.        *)
(***************************************************************************)
EXTENDS ConsoleRest, FiniteSetTheorems, TLAPS

\* The shapes of answers.
LEMMA Answers ==
    ASSUME NEW q \in Requests, NEW status, NEW code, NEW body
    PROVE  /\ Answer(q, status, code, body).to = q
           /\ Answer(q, status, code, body).status = status
           /\ Answer(q, status, code, body).message = Message(status, body)
           /\ Refusal(q, status, body).to = q
           /\ Refusal(q, status, body).status = status
           /\ Refusal(q, status, body).message = Message(status, body)
           /\ Bare(q, status).to = q
           /\ Bare(q, status).status = status
           /\ Bare(q, status).message = "generic"
           /\ Done(q).to = q /\ Done(q).status = 200 /\ Done(q).message = "data"
  BY DEF Answer, Refusal, Bare, Done

\* Steps that serve no request leave no reply.
LEMMA RepliesAreFresh ==
    ASSUME [RestNext]_restVars
    PROVE  \/ \E q \in Requests : reply' \in Outcomes(q) /\ UNCHANGED <<now, isProd, doc>>
           \/ reply' = NoReply
           \/ UNCHANGED restVars
  BY DEF RestNext, Request, Changes, Tick, Restart

------------------------------------------------------------------------------
\* A text is passed on, and what is no text is not sent in production.
LEMMA TextIsKept ==
    ASSUME NEW status \in {400, 401, 403, 404, 409, 429}
    PROVE  Message(status, "text") # "login"
  BY DEF Message

LEMMA RejectionIsKept == isProd \in BOOLEAN => Message(400, Rejection) # "login"
  BY DEF Message, Rejection

LEMMA ServedWithoutAdvice ==
    ASSUME isProd \in BOOLEAN, NEW q \in Requests, NEW x \in Served(q)
    PROVE  x.message # "login"
  BY Answers, TextIsKept DEF Served, getState, removeInstance, requireOnline

LEMMA OutcomesWithoutAdvice ==
    ASSUME isProd \in BOOLEAN, NEW q \in Requests, NEW x \in Outcomes(q)
    PROVE  x.message # "login"
<1>1. \/ x = Bare(q, 415)
      \/ x \in {Refusal(q, 400, "text"), Refusal(q, 429, "text")}
      \/ x \in {Answer(q, 401, "AUTH_REQUIRED", "text"),
                Answer(q, 401, "AUTH_TOKEN_INVALID", "text")}
      \/ x = Refusal(q, 400, Rejection)
      \/ x \in Served(q)
      \/ x = Bare(q, 500)
  BY DEF Outcomes
<1> QED
  BY <1>1, Answers, TextIsKept, RejectionIsKept, ServedWithoutAdvice

\* No client of this service is ever advised about a login.
THEOREM NobodyIsAdvised == RestSpec => []NoLoginAdvice
<1> DEFINE Inv == isProd \in BOOLEAN /\ NoLoginAdvice
<1>1. RestInit => Inv
  BY DEF RestInit, NoLoginAdvice
<1>2. Inv /\ [RestNext]_restVars => Inv'
  <2> SUFFICES ASSUME Inv, [RestNext]_restVars PROVE Inv'
    OBVIOUS
  <2>1. UNCHANGED isProd
    BY DEF RestNext, Request, Changes, Tick, Restart, restVars
  <2>2. reply' # NoReply => reply'.message # "login"
    BY RepliesAreFresh, OutcomesWithoutAdvice DEF NoLoginAdvice, restVars
  <2> QED
    BY <2>1, <2>2 DEF NoLoginAdvice
<1> QED
  BY <1>1, <1>2, PTL DEF RestSpec

------------------------------------------------------------------------------
\* What CommandsServed says of one answer, in the state it is made in.
Rightful(q) == Entitled(q) /\ doc[Ask[q].agent] = "online"

Fair(x) ==
    Ask[x.to].handler \in Commands =>
        /\ x.status = 200 => Rightful(x.to)
        /\ Rightful(x.to) /\ Ask[x.to].flag = "true" => x.status \in {200, 429, 500}

LEMMA AskShape ==
    ASSUME NEW q \in Requests
    PROVE  /\ Ask[q] \in AskSet
           /\ Ask[q].token \in Tokens \cup {NoToken}
           /\ Ask[q].token # NoToken => Claims[Ask[q].token] \in ClaimSet
           /\ Ask[q].token # NoToken => Claims[Ask[q].token].user \in Users \cup {NoUser}
           /\ Ask[q].handler \in Commands =>
                 Ask[q].handler \in OfAgent /\ Ask[q].handler \in Mutating
  BY RestConstants DEF AskSet, ClaimSet, Commands, OfAgent, Mutating, Handlers, Bulk

\* The checks before the service keep nobody out who is entitled, and only those.
LEMMA ChecksAreFair ==
    ASSUME NEW q \in Requests, NEW x \in Outcomes(q), Ask[q].handler \in Commands
    PROVE  \/ /\ x \in Served(q)
              /\ ~Unsupported(q) /\ ~CsrfMissing(q)
              /\ Ask[q].token # NoToken /\ verifySafetyScoreToken(Ask[q].token)
           \/ x.status \in {429, 500} /\ x.to = q
           \/ /\ x.status \in {400, 401, 415} /\ x.to = q
              /\ Rightful(q) => Ask[q].flag # "true"
<1>1. CASE Unsupported(q) \/ CsrfMissing(q)
  <2>1. x.status \in {400, 415} /\ x.to = q
    BY <1>1, Answers DEF Outcomes
  <2>2. ~Rightful(q)
    BY <1>1 DEF Unsupported, CsrfMissing, Rightful, Entitled
  <2> QED
    BY <2>1, <2>2
<1>2. CASE ~Unsupported(q) /\ ~CsrfMissing(q) /\ Throttled(q)
  BY <1>2, Answers DEF Outcomes
<1>3. CASE /\ ~Unsupported(q) /\ ~CsrfMissing(q) /\ ~Throttled(q)
           /\ Ask[q].token = NoToken \/ ~verifySafetyScoreToken(Ask[q].token)
  <2>1. x.status = 401 /\ x.to = q
    BY <1>3, Answers DEF Outcomes
  <2>2. ~Rightful(q)
    BY <1>3, RestConstants DEF Rightful, Entitled, verifySafetyScoreToken
  <2> QED
    BY <2>1, <2>2
<1>4. CASE /\ ~Unsupported(q) /\ ~CsrfMissing(q) /\ ~Throttled(q)
           /\ Ask[q].token # NoToken /\ verifySafetyScoreToken(Ask[q].token)
  <2>1. CASE Invalid(q)
    <3>1. x.status = 400 /\ x.to = q
      BY <1>4, <2>1, Answers DEF Outcomes
    <3>2. Ask[q].flag # "true"
      BY <2>1 DEF Invalid, Converted
    <3> QED
      BY <3>1, <3>2
  <2>2. CASE ~Invalid(q)
    BY <1>4, <2>2, Answers DEF Outcomes
  <2> QED
    BY <2>1, <2>2
<1> QED
  BY <1>1, <1>2, <1>3, <1>4

\* The service serves exactly the owners of online instances.
LEMMA ServiceIsFair ==
    ASSUME NEW q \in Requests, NEW x \in Served(q), Ask[q].handler \in Commands,
           ~Unsupported(q), ~CsrfMissing(q),
           Ask[q].token # NoToken, verifySafetyScoreToken(Ask[q].token)
    PROVE  x.to = q /\ (x.status = 200 <=> Rightful(q))
<1>1. CASE doc[Ask[q].agent] = "missing" \/ Owner[Ask[q].agent] # UserOf(q)
  BY <1>1, Answers, AskShape DEF Served, Rightful, Entitled
<1>2. CASE doc[Ask[q].agent] # "missing" /\ Owner[Ask[q].agent] = UserOf(q)
  <2>1. x \in requireOnline(q)
    <3>1. Ask[q].handler \in OfAgent /\ Ask[q].handler \in Commands
      BY AskShape
    <3>2. Served(q) = requireOnline(q)
      BY <1>2, <3>1 DEF Served, Commands
    <3> QED
      BY <3>2
  <2>2. Entitled(q)
    BY <1>2, AskShape
       DEF Entitled, Unsupported, CsrfMissing, verifySafetyScoreToken, UserOf
  <2> QED
    BY <2>1, <2>2, Answers DEF requireOnline, Rightful
<1> QED
  BY <1>1, <1>2

LEMMA OutcomesAreOwn ==
    ASSUME NEW q \in Requests, NEW x \in Outcomes(q)
    PROVE  x.to = q
<1>1. ASSUME NEW y \in Served(q) PROVE y.to = q
  BY <1>1, Answers DEF Served, getState, removeInstance, requireOnline
<1>2. \/ x \in Served(q)
      \/ \E status, code, body : \/ x = Bare(q, status)
                                \/ x = Answer(q, status, code, body)
                                \/ x = Refusal(q, status, body)
  BY DEF Outcomes
<1> QED
  BY <1>1, <1>2, Answers

LEMMA OutcomesAreFair ==
    ASSUME NEW q \in Requests, NEW x \in Outcomes(q)
    PROVE  x.to = q /\ Fair(x)
<1>1. CASE Ask[q].handler \in Commands
  BY <1>1, ChecksAreFair, ServiceIsFair DEF Fair
<1> QED
  BY <1>1, OutcomesAreOwn DEF Fair

\* Commands are carried out for the owners of online instances and nobody else.
THEOREM CommandsAreServed == RestSpec => []CommandsServed
<1>1. RestInit => CommandsServed
  BY DEF RestInit, CommandsServed
<1>2. CommandsServed /\ [RestNext]_restVars => CommandsServed'
  <2> SUFFICES ASSUME CommandsServed, [RestNext]_restVars PROVE CommandsServed'
    OBVIOUS
  <2>1. CASE UNCHANGED restVars
    BY <2>1 DEF CommandsServed, Entitled, UserOf, restVars
  <2>2. CASE reply' = NoReply
    BY <2>2 DEF CommandsServed
  <2>3. ASSUME NEW q \in Requests, reply' \in Outcomes(q), UNCHANGED <<now, isProd, doc>>
        PROVE  CommandsServed'
    <3>1. reply'.to = q /\ Fair(reply')
      BY <2>3, OutcomesAreFair
    <3> QED
      BY <2>3, <3>1 DEF CommandsServed, Fair, Rightful, Entitled, UserOf
  <2> QED
    BY <2>1, <2>2, <2>3, RepliesAreFresh
<1> QED
  BY <1>1, <1>2, PTL DEF RestSpec

------------------------------------------------------------------------------
\* Types

LEMMA Constants ==
    /\ Window \in Nat \ {0}
    /\ CommandLimit \in Nat \ {0} /\ BulkLimit \in Nat \ {0} /\ DefaultLimit \in Nat \ {0}
  BY RestConstants

LEMMA AskerType ==
    ASSUME NEW q \in Requests
    PROVE  /\ getTracker(q) \in Askers /\ Asker(q) = getTracker(q)
           /\ Asker(q)[1] = Ask[q].handler
  BY DEF Asker, getTracker, Askers

\* A throttled bucket keeps what it has, an open one counts the request.
LEMMA CountShape ==
    ASSUME NEW q \in Requests, Count(q),
           hits \in [Askers -> SUBSET Hit], until \in [Askers -> Nat]
    PROVE  LET b == getTracker(q)
           IN  \/ UNCHANGED <<hits, frozen, until>>
               \/ \E H \in {Counted(q), {Asked(q)}}, t \in {0, now + Window} :
                     /\ hits' = [hits EXCEPT ![b] = H]
                     /\ until' = [until EXCEPT ![b] = t]
                     /\ t # 0 => until[b] = 0 /\ H = Counted(q) /\ Throttled(q)
                     /\ \/ frozen' = frozen
                        \/ /\ t = 0
                           /\ frozen' = [c \in Askers |-> IF c = b THEN {}
                                                         ELSE frozen[c] \cup Running(c)]
<1> DEFINE b == getTracker(q)
<1>1. CASE until[b] = 0
  BY <1>1 DEF Count
<1>2. CASE until[b] # 0 /\ Throttled(q)
  BY <1>2 DEF Count
<1>3. CASE until[b] # 0 /\ ~Throttled(q)
  BY <1>3 DEF Count
<1> QED
  BY <1>1, <1>2, <1>3

LEMMA ServedInReplies ==
    ASSUME NEW q \in Requests, NEW x \in Served(q), isProd \in BOOLEAN
    PROVE  x \in Replies
<1>1. /\ Done(q) \in Replies
      /\ \A status \in {400, 403, 404, 409} : Refusal(q, status, "text") \in Replies
  BY DEF Done, Refusal, Answer, Message, defaultCode, Replies, Codes
<1> QED
  BY <1>1 DEF Served, getState, removeInstance, requireOnline

LEMMA OutcomesInReplies ==
    ASSUME NEW q \in Requests, NEW x \in Outcomes(q), isProd \in BOOLEAN
    PROVE  x \in Replies
<1>1. /\ Bare(q, 415) \in Replies /\ Bare(q, 500) \in Replies
      /\ Refusal(q, 400, "text") \in Replies /\ Refusal(q, 429, "text") \in Replies
      /\ Refusal(q, 400, Rejection) \in Replies
      /\ Answer(q, 401, "AUTH_REQUIRED", "text") \in Replies
      /\ Answer(q, 401, "AUTH_TOKEN_INVALID", "text") \in Replies
  BY DEF Bare, Refusal, Answer, Message, defaultCode, Replies, Codes, Rejection
<1> QED
  BY <1>1, ServedInReplies DEF Outcomes

(***************************************************************************)
(* What the throttler knows of one bucket.  It never counts what was not   *)
(* asked, and while a block lasts more than the limit is on record, the    *)
(* last of them when the block began; if no hit is frozen, they were asked *)
(* in the window before.  The numbers tell requests of the same moment     *)
(* apart.                                                                  *)
(***************************************************************************)
Before(b) == {x \in asked[b] : x.at > until[b] - 2 * Window}

Blocked(b) ==
    /\ Cardinality(asked[b]) > Limit(b[1])
    /\ \E x \in asked[b] : x.at = until[b] - Window
    /\ frozen[b] = {} => Cardinality(Before(b)) > Limit(b[1])

Bucket(b) ==
    /\ IsFiniteSet(asked[b]) /\ hits[b] \subseteq asked[b] /\ frozen[b] \subseteq asked[b]
    /\ \A x \in asked[b] : x.no <= Cardinality(asked[b])
    /\ until[b] # 0 => Blocked(b)

RestInv == RestTypeOK /\ OwnBudget /\ \A b \in Askers : Bucket(b)

LEMMA RestInitHolds == RestInit => RestInv
<1> SUFFICES ASSUME RestInit PROVE RestInv
  OBVIOUS
<1>1. RestTypeOK /\ OwnBudget
  BY DEF RestInit, RestTypeOK, OwnBudget
<1>2. ASSUME NEW b \in Askers PROVE Bucket(b)
  BY FS_EmptySet DEF RestInit, Bucket
<1> QED
  BY <1>1, <1>2 DEF RestInv

LEMMA RestTypeKept ==
    ASSUME RestInv, [RestNext]_restVars
    PROVE  RestTypeOK'
<1>a. RestTypeOK
  BY DEF RestInv
<1>1. ASSUME NEW q \in Requests, Request(q) PROVE RestTypeOK'
  <2>1. reply' \in Replies /\ asks' \in Nat /\ UNCHANGED <<now, isProd, doc, plan>>
    BY <1>1, <1>a, OutcomesInReplies DEF Request, RestTypeOK
  <2>2. Asked(q) \in Hit
    <3>1. /\ Asker(q) \in Askers /\ IsFiniteSet(asked[Asker(q)])
      BY AskerType DEF RestInv, Bucket
    <3>2. Cardinality(asked[Asker(q)]) \in Nat
      BY <3>1, FS_CardinalityType
    <3> QED
      BY <3>2, <1>a DEF Asked, Hit, RestTypeOK
  <2>3. asked' \in [Askers -> SUBSET Hit]
    BY <1>1, <1>a, <2>2, AskerType DEF Request, RestTypeOK
  <2>4. passed' \in [Askers -> SUBSET Hit]
    BY <1>1, <1>a, <2>2, AskerType DEF Request, RestTypeOK
  <2>5. /\ hits' \in [Askers -> SUBSET Hit] /\ until' \in [Askers -> Nat]
        /\ frozen' \in [Askers -> SUBSET Hit]
    <3>1. /\ Counted(q) \in SUBSET Hit /\ {Asked(q)} \in SUBSET Hit
          /\ \A c \in Askers : Running(c) \in SUBSET Hit
      BY <1>a, <2>2, AskerType DEF Counted, Running, RestTypeOK
    <3>2. CASE Count(q)
      BY <3>1, <3>2, <1>a, CountShape, Constants DEF RestTypeOK
    <3>3. CASE UNCHANGED <<hits, frozen, until>>
      BY <3>3, <1>a DEF RestTypeOK
    <3> QED
      BY <1>1, <3>2, <3>3 DEF Request
  <2> QED
    BY <2>1, <2>3, <2>4, <2>5, <1>a DEF RestTypeOK
<1>2. ASSUME NEW a \in Agents, Changes(a) PROVE RestTypeOK'
  BY <1>2, <1>a DEF Changes, RestTypeOK
<1>3. CASE Tick
  BY <1>3, <1>a DEF Tick, RestTypeOK
<1>4. CASE Restart
  BY <1>4, <1>a DEF Restart, RestTypeOK
<1>5. CASE UNCHANGED restVars
  BY <1>5, <1>a DEF restVars, RestTypeOK
<1> QED
  BY <1>1, <1>2, <1>3, <1>4, <1>5 DEF RestNext

\* A request is new to the record of its asker, which it grows by one.
LEMMA AskedIsNew ==
    ASSUME RestInv, NEW q \in Requests, Request(q)
    PROVE  LET b == Asker(q)
           IN  /\ asked'[b] = asked[b] \cup {Asked(q)} /\ Asked(q) \notin asked[b]
               /\ IsFiniteSet(asked'[b])
               /\ Cardinality(asked[b]) \in Nat
               /\ Cardinality(asked'[b]) = Cardinality(asked[b]) + 1
               /\ \A x \in asked'[b] : x.no <= Cardinality(asked'[b]) /\ x.at \in Nat
               /\ \A c \in Askers \ {b} : asked'[c] = asked[c]
<1> DEFINE b == Asker(q)
<1>1. b \in Askers /\ Bucket(b) /\ asked \in [Askers -> SUBSET Hit] /\ now \in Nat
  BY AskerType DEF RestInv, RestTypeOK
<1>2. asked' = [asked EXCEPT ![b] = @ \cup {Asked(q)}]
  BY DEF Request
<1>3. Cardinality(asked[b]) \in Nat
  BY <1>1, FS_CardinalityType DEF Bucket
<1>4. Asked(q).no = Cardinality(asked[b]) + 1 /\ Asked(q).at = now
  BY DEF Asked
<1>5. \A x \in asked[b] : x.no \in Nat /\ x.at \in Nat /\ x.no <= Cardinality(asked[b])
  BY <1>1 DEF Bucket, Hit
<1>6. Asked(q) \notin asked[b]
  BY <1>3, <1>4, <1>5
<1>7. IsFiniteSet(asked'[b]) /\ Cardinality(asked'[b]) = Cardinality(asked[b]) + 1
  BY <1>1, <1>2, <1>6, FS_AddElement DEF Bucket
<1> QED
  BY <1>1, <1>2, <1>3, <1>4, <1>5, <1>6, <1>7

\* What a request counts was asked, and within the window if no hit is frozen.
LEMMA CountedIsAsked ==
    ASSUME RestInv, NEW q \in Requests, Request(q)
    PROVE  /\ Counted(q) \subseteq asked'[Asker(q)]
           /\ frozen[Asker(q)] = {} =>
                 Counted(q) \subseteq {x \in asked'[Asker(q)] : x.at > now - Window}
<1>1. /\ hits[Asker(q)] \subseteq asked[Asker(q)] /\ frozen[Asker(q)] \subseteq asked[Asker(q)]
      /\ now \in Nat
  BY AskerType DEF RestInv, RestTypeOK, Bucket
<1>2. Asked(q).at = now
  BY DEF Asked
<1>3. \A x \in asked'[Asker(q)] : x.at \in Nat
  BY AskedIsNew
<1> QED
  BY <1>1, <1>2, <1>3, AskedIsNew, AskerType, Constants DEF Counted, Running

\* A record that grows stays a record of its block.
LEMMA BlockedGrows ==
    ASSUME NEW b \in Askers, Blocked(b), IsFiniteSet(asked'[b]),
           asked[b] \subseteq asked'[b], until'[b] = until[b], frozen[b] \subseteq frozen'[b]
    PROVE  Blocked(b)'
<1> DEFINE Old == Before(b)
           New == {x \in asked'[b] : x.at > until[b] - 2 * Window}
<1>1. IsFiniteSet(New)
  BY FS_Subset
<1>2. Cardinality(Old) <= Cardinality(New) /\ Cardinality(New) \in Nat
      /\ Cardinality(Old) \in Nat
  <2>1. Old \in SUBSET New
    BY DEF Before
  <2> QED
    BY <1>1, <2>1, FS_Subset, FS_CardinalityType
<1>3. /\ Cardinality(asked[b]) <= Cardinality(asked'[b]) /\ Cardinality(asked[b]) \in Nat
      /\ Cardinality(asked'[b]) \in Nat
  <2>1. asked[b] \in SUBSET asked'[b]
    OBVIOUS
  <2> QED
    BY <2>1, FS_Subset, FS_CardinalityType
<1>4. Limit(b[1]) \in Nat
  BY Constants DEF Limit
<1>5. Before(b)' = New
  BY DEF Before
<1>6. Cardinality(asked'[b]) > Limit(b[1])
  BY <1>3, <1>4 DEF Blocked
<1>7. \E x \in asked'[b] : x.at = until'[b] - Window
  BY DEF Blocked
<1>8. frozen'[b] = {} => Cardinality(New) > Limit(b[1])
  <2> HIDE DEF New
  <2> QED
    BY <1>2, <1>4 DEF Blocked
<1> HIDE DEF New
<1> QED
  BY <1>5, <1>6, <1>7, <1>8 DEF Blocked

LEMMA LimitType ==
    ASSUME NEW h
    PROVE  Limit(h) \in Nat \ {0}
  BY Constants DEF Limit

\* A request that makes its bucket full leaves the record a block needs.
LEMMA BlockBegins ==
    ASSUME RestInv, NEW q \in Requests, Request(q),
           until[getTracker(q)] = 0, Throttled(q)
    PROVE  /\ Cardinality(asked'[Asker(q)]) > Limit(Ask[q].handler)
           /\ \E x \in asked'[Asker(q)] : x.at = now
           /\ frozen[Asker(q)] = {} =>
                 Cardinality({x \in asked'[Asker(q)] : x.at > now - Window})
                     > Limit(Ask[q].handler)
<1> DEFINE All == asked'[Asker(q)]
           Recent == {x \in All : x.at > now - Window}
<1>1. Cardinality(Counted(q)) > Limit(Ask[q].handler)
  BY DEF Throttled
<1>2. IsFiniteSet(All) /\ IsFiniteSet(Recent)
  <2>1. IsFiniteSet(All) /\ Recent \in SUBSET All
    BY AskedIsNew
  <2> QED
    BY <2>1, FS_Subset
<1>3. \A X : IsFiniteSet(X) /\ Counted(q) \subseteq X => Cardinality(X) > Limit(Ask[q].handler)
  <2> SUFFICES ASSUME NEW X, IsFiniteSet(X), Counted(q) \subseteq X
               PROVE  Cardinality(X) > Limit(Ask[q].handler)
    OBVIOUS
  <2>1. Counted(q) \in SUBSET X
    OBVIOUS
  <2>2. /\ Cardinality(Counted(q)) <= Cardinality(X)
        /\ Cardinality(Counted(q)) \in Nat /\ Cardinality(X) \in Nat
    BY <2>1, FS_Subset, FS_CardinalityType
  <2> QED
    BY <1>1, <2>2, LimitType
<1>4. Asked(q) \in All /\ Asked(q).at = now
  BY AskedIsNew DEF Asked
<1> QED
  BY <1>2, <1>3, <1>4, CountedIsAsked

\* What a request makes of the buckets it is not counted in.
LEMMA OthersKept ==
    ASSUME RestInv, NEW q \in Requests, Request(q), NEW b \in Askers, b # Asker(q)
    PROVE  /\ asked'[b] = asked[b] /\ hits'[b] = hits[b] /\ until'[b] = until[b]
           /\ frozen'[b] \in {frozen[b], frozen[b] \cup Running(b)}
<1>1. RestTypeOK /\ asked'[b] = asked[b]
  BY AskedIsNew DEF RestInv
<1>2. CASE Count(q)
  BY <1>1, <1>2, CountShape, AskerType DEF RestTypeOK
<1>3. CASE UNCHANGED <<hits, frozen, until>>
  BY <1>1, <1>3
<1> QED
  BY <1>2, <1>3 DEF Request

LEMMA BucketsKept ==
    ASSUME RestInv, [RestNext]_restVars, NEW b \in Askers
    PROVE  Bucket(b)'
<1>a. RestTypeOK /\ Bucket(b)
  BY DEF RestInv
<1>1. ASSUME NEW q \in Requests, Request(q) PROVE Bucket(b)'
  <2>1. CASE b # Asker(q)
    <3>1. /\ asked'[b] = asked[b] /\ hits'[b] = hits[b] /\ until'[b] = until[b]
          /\ frozen'[b] \subseteq asked[b] /\ frozen[b] \subseteq frozen'[b]
      BY <1>1, <1>a, <2>1, OthersKept DEF Bucket, Running
    <3>2. until'[b] # 0 => Blocked(b)'
      BY <3>1, <1>a, BlockedGrows DEF Bucket
    <3> QED
      BY <3>1, <3>2, <1>a DEF Bucket
  <2>2. CASE b = Asker(q)
    <3>1. /\ IsFiniteSet(asked'[b]) /\ asked[b] \subseteq asked'[b]
          /\ \A x \in asked'[b] : x.no <= Cardinality(asked'[b])
      BY <1>1, <2>2, AskedIsNew
    <3>2. CASE UNCHANGED <<hits, frozen, until>>
      BY <3>1, <3>2, <1>a, BlockedGrows DEF Bucket
    <3>3. ASSUME NEW H \in {Counted(q), {Asked(q)}}, NEW t \in {0, now + Window},
                 hits' = [hits EXCEPT ![getTracker(q)] = H],
                 until' = [until EXCEPT ![getTracker(q)] = t],
                 t # 0 => until[getTracker(q)] = 0 /\ H = Counted(q) /\ Throttled(q),
                 frozen'[b] \in {frozen[b], {}},
                 t # 0 => frozen'[b] = frozen[b]
          PROVE  Bucket(b)'
      <4>1. hits'[b] = H /\ until'[b] = t
        BY <2>2, <3>3, <1>a, AskerType DEF RestTypeOK
      <4>2. H \subseteq asked'[b] /\ frozen'[b] \subseteq asked'[b]
        BY <1>1, <1>a, <2>2, <3>1, <3>3, CountedIsAsked, AskedIsNew DEF Bucket
      <4>3. CASE t = 0
        BY <3>1, <4>1, <4>2, <4>3 DEF Bucket
      <4>4. CASE t # 0
        <5>1. /\ Cardinality(asked'[b]) > Limit(b[1])
              /\ \E x \in asked'[b] : x.at = now
              /\ frozen'[b] = {} =>
                    Cardinality({x \in asked'[b] : x.at > now - Window}) > Limit(b[1])
          BY <1>1, <2>2, <3>3, <4>4, BlockBegins, AskerType
        <5>2. until'[b] - 2 * Window = now - Window /\ until'[b] - Window = now
          BY <4>1, <4>4, <3>3, <1>a, Constants DEF RestTypeOK
        <5>3. Before(b)' = {x \in asked'[b] : x.at > now - Window}
          BY <5>2 DEF Before
        <5>4. Blocked(b)'
          BY <5>1, <5>2, <5>3 DEF Blocked
        <5> QED
          BY <3>1, <4>1, <4>2, <5>4 DEF Bucket
      <4> QED
        BY <4>3, <4>4
    <3>4. CASE Count(q)
      <4>1. CASE UNCHANGED <<hits, frozen, until>>
        BY <3>2, <4>1
      <4>2. ASSUME NEW H \in {Counted(q), {Asked(q)}}, NEW t \in {0, now + Window},
                   hits' = [hits EXCEPT ![getTracker(q)] = H],
                   until' = [until EXCEPT ![getTracker(q)] = t],
                   t # 0 => until[getTracker(q)] = 0 /\ H = Counted(q) /\ Throttled(q),
                   \/ frozen' = frozen
                   \/ /\ t = 0
                      /\ frozen' = [c \in Askers |-> IF c = getTracker(q) THEN {}
                                                     ELSE frozen[c] \cup Running(c)]
            PROVE  Bucket(b)'
        <5>1. frozen'[b] \in {frozen[b], {}} /\ (t # 0 => frozen'[b] = frozen[b])
          BY <2>2, <4>2, AskerType
        <5> QED
          BY <3>3, <4>2, <5>1
      <4> QED
        BY <3>4, <4>1, <4>2, <1>a, CountShape DEF RestTypeOK
    <3> QED
      BY <1>1, <3>2, <3>4 DEF Request
  <2> QED
    BY <2>1, <2>2
<1>2. CASE Restart
  <2>1. hits'[b] = {} /\ frozen'[b] = {} /\ until'[b] = 0 /\ asked'[b] = {}
    BY <1>2 DEF Restart
  <2> QED
    BY <2>1, FS_EmptySet DEF Bucket
<1>3. CASE UNCHANGED <<hits, frozen, until, asked>>
  BY <1>3, <1>a DEF Bucket, Blocked, Before
<1> QED
  BY <1>1, <1>2, <1>3 DEF RestNext, Changes, Tick, restVars

\* Only the throttler answers 429.
LEMMA ThrottledOnly ==
    ASSUME NEW q \in Requests, NEW x \in Outcomes(q), x.status = 429
    PROVE  ~Unsupported(q) /\ ~CsrfMissing(q) /\ Throttled(q) /\ x.to = q
<1>1. ASSUME NEW y \in Served(q) PROVE y.status # 429
  BY <1>1, Answers DEF Served, getState, removeInstance, requireOnline
<1>2. Refusal(q, 400, Rejection).status = 400
  BY Answers
<1> QED
  BY <1>1, <1>2, Answers, OutcomesAreOwn DEF Outcomes

\* A request that is throttled has been asked too often.
LEMMA ThrottledIsOwn ==
    ASSUME RestInv, NEW q \in Requests, Request(q), Throttled(q)
    PROVE  /\ Cardinality(asked'[Asker(q)]) > Limit(Ask[q].handler)
           /\ frozen[Asker(q)] = {} =>
                /\ Cardinality({x \in asked'[Asker(q)] : x.at > now - 2 * Window})
                      > Limit(Ask[q].handler)
                /\ Cardinality({x \in asked'[Asker(q)] : x.at > now - Window}) > 1
<1> DEFINE b == Asker(q)
           All == asked'[b]
           Lately == {x \in All : x.at > now - 2 * Window}
           Recent == {x \in All : x.at > now - Window}
<1>1. /\ b \in Askers /\ b = getTracker(q) /\ b[1] = Ask[q].handler
      /\ now \in Nat /\ until[b] \in Nat /\ Bucket(b)
  BY AskerType DEF RestInv, RestTypeOK
<1>2. Limit(Ask[q].handler) \in Nat \ {0}
  BY LimitType
<1>3. /\ IsFiniteSet(All) /\ Cardinality(All) \in Nat
      /\ IsFiniteSet(Lately) /\ Cardinality(Lately) \in Nat
      /\ IsFiniteSet(Recent) /\ Cardinality(Recent) \in Nat
  <2>1. IsFiniteSet(All)
    BY AskedIsNew
  <2>2. Lately \in SUBSET All /\ Recent \in SUBSET All
    OBVIOUS
  <2> QED
    BY <2>1, <2>2, FS_Subset, FS_CardinalityType
<1>4. \A x \in All : x.at \in Nat
  BY AskedIsNew
<1>5. CASE until[b] = 0
  <2>1. /\ Cardinality(All) > Limit(Ask[q].handler)
        /\ frozen[b] = {} => Cardinality(Recent) > Limit(Ask[q].handler)
    BY <1>1, <1>5, BlockBegins
  <2>2. Recent \in SUBSET Lately
    BY <1>1, <1>4, Constants
  <2>3. Cardinality(Recent) <= Cardinality(Lately)
    BY <1>3, <2>2, FS_Subset
  <2> HIDE DEF All, Lately, Recent
  <2> QED
    BY <1>2, <1>3, <2>1, <2>3 DEF All, Lately, Recent
<1>6. CASE until[b] # 0
  <2>1. now < until[b] /\ Blocked(b)
    BY <1>1, <1>6 DEF Throttled, Bucket
  <2>2. Cardinality(All) > Limit(Ask[q].handler)
    <3>1. Cardinality(asked[b]) > Limit(Ask[q].handler)
      BY <1>1, <2>1 DEF Blocked
    <3>2. Cardinality(All) = Cardinality(asked[b]) + 1 /\ Cardinality(asked[b]) \in Nat
      BY AskedIsNew
    <3> HIDE DEF All
    <3> QED
      BY <1>2, <3>1, <3>2
  <2>3. frozen[b] = {} => Cardinality(Lately) > Limit(Ask[q].handler)
    <3>1. frozen[b] = {} => Cardinality(Before(b)) > Limit(Ask[q].handler)
      BY <1>1, <2>1 DEF Blocked
    <3>2. Before(b) \in SUBSET Lately
      BY <1>1, <1>4, <2>1, AskedIsNew, Constants DEF Before
    <3>3. Cardinality(Before(b)) <= Cardinality(Lately) /\ Cardinality(Before(b)) \in Nat
      BY <1>3, <3>2, FS_Subset, FS_CardinalityType
    <3> HIDE DEF Lately
    <3> QED
      BY <1>2, <1>3, <3>1, <3>3
  <2>4. Cardinality(Recent) > 1
    <3>1. PICK x \in asked[b] : x.at = until[b] - Window
      BY <2>1 DEF Blocked
    <3>2. x \in Recent
      BY <1>1, <1>4, <2>1, <3>1, AskedIsNew, Constants
    <3>3. Asked(q) \in Recent /\ Asked(q) \notin {x}
      BY <1>1, <3>1, AskedIsNew, Constants DEF Asked
    <3>4. IsFiniteSet({x}) /\ Cardinality({x}) = 1
      BY FS_Singleton
    <3> DEFINE y == Asked(q)
    <3> HIDE DEF y
    <3>5. y \notin {x}
      BY <3>3 DEF y
    <3>6. IsFiniteSet({x} \cup {y}) /\ Cardinality({x} \cup {y}) = Cardinality({x}) + 1
      BY <3>4, <3>5, FS_AddElement
    <3>7. {x} \cup {y} \in SUBSET Recent
      BY <3>2, <3>3 DEF y
    <3>8. Cardinality({x} \cup {y}) <= Cardinality(Recent)
      BY <1>3, <3>7, FS_Subset
    <3>9. Cardinality({x} \cup {y}) = 2
      BY <3>4, <3>6
    <3>10. Cardinality(Recent) \in Nat
      BY <1>3
    <3> HIDE DEF Recent
    <3> QED
      BY <3>8, <3>9, <3>10
  <2> HIDE DEF All, Lately, Recent
  <2> QED
    BY <2>2, <2>3, <2>4 DEF All, Lately, Recent
<1> QED
  BY <1>5, <1>6

\* A request that is refused does not thaw its bucket.
LEMMA ThrottledStaysFrozen ==
    ASSUME NEW q \in Requests, Count(q), Throttled(q)
    PROVE  frozen' = frozen
  BY DEF Count

LEMMA OwnBudgetKept ==
    ASSUME RestInv, [RestNext]_restVars
    PROVE  OwnBudget'
<1>1. ASSUME NEW q \in Requests, Request(q), reply'.status = 429 PROVE OwnBudget'
  <2>1. reply' \in Outcomes(q) /\ now' = now
    BY <1>1 DEF Request
  <2>2. ~Unsupported(q) /\ ~CsrfMissing(q) /\ Throttled(q) /\ reply'.to = q
    BY <1>1, <2>1, ThrottledOnly
  <2>3. frozen' = frozen
    BY <1>1, <2>2, ThrottledStaysFrozen DEF Request
  <2>4. /\ Cardinality(asked'[Asker(q)]) > Limit(Ask[q].handler)
        /\ frozen'[Asker(q)] = {} =>
             /\ Cardinality(Since(q, now - 2 * Window)') > Limit(Ask[q].handler)
             /\ Cardinality(Since(q, now - Window)') > 1
    BY <1>1, <2>1, <2>2, <2>3, ThrottledIsOwn DEF Since, Asker
  <2>5. Asker(q)' = Asker(q) /\ Limit(Ask[q].handler)' = Limit(Ask[q].handler)
    BY DEF Asker, Sender, Limit
  <2> QED
    BY <2>1, <2>2, <2>4, <2>5 DEF OwnBudget, Since
<1>2. CASE reply' = NoReply \/ reply'.status # 429
  BY <1>2 DEF OwnBudget
<1>3. CASE UNCHANGED restVars
  BY <1>3 DEF restVars, OwnBudget, Since, Asker, RestInv
<1> QED
  BY <1>1, <1>2, <1>3 DEF RestNext, Changes, Tick, Restart

LEMMA RestInvHolds == RestSpec => []RestInv
<1>1. RestInv /\ [RestNext]_restVars => RestInv'
  BY RestTypeKept, OwnBudgetKept, BucketsKept DEF RestInv, Askers, Sender
<1> QED
  BY <1>1, RestInitHolds, PTL DEF RestSpec

\* Every request is answered in one of the known ways, and what the throttler
\* keeps are records of requests.
THEOREM RestTypeCorrect == RestSpec => []RestTypeOK
  BY RestInvHolds, PTL DEF RestInv

\* Nobody is refused for what others asked: who gets 429 has itself asked more
\* often than the limit; within two windows, and more than once within one, unless
\* the end of another's block has stopped the timers of its hits.
THEOREM BudgetsAreOwn == RestSpec => []OwnBudget
  BY RestInvHolds, PTL DEF RestInv

------------------------------------------------------------------------------
(***************************************************************************)
(* The budget holds.  An open bucket counts every request that has passed  *)
(* within the window, so that one more passes only below the limit; a      *)
(* blocked one opens when no request that has passed is left in it.        *)
(***************************************************************************)
Passes(b) == {x \in passed[b] : x.at > now - Window}

Gate(b) ==
    /\ IsFiniteSet(passed[b]) /\ \A x \in passed[b] : x.at <= now
    /\ until[b] = 0 => Passes(b) \subseteq hits[b]
    /\ until[b] # 0 => \A x \in passed[b] : x.at + Window <= until[b]
    /\ Cardinality(Passes(b)) <= Limit(b[1])

GateInv == \A b \in Askers : Gate(b)

\* Requests that pass become older, or are forgotten by a restart.
LEMMA GateAges ==
    ASSUME RestTypeOK, NEW b \in Askers, Gate(b), passed'[b] = passed[b],
           hits'[b] = hits[b], until'[b] = until[b], now' \in Nat, now' >= now
    PROVE  Gate(b)'
<1> DEFINE P == Passes(b)
           Q == {x \in passed[b] : x.at > now' - Window}
<1>1. \A x \in passed[b] : x.at \in Nat
  BY DEF RestTypeOK, Hit
<1>2. Passes(b)' = Q /\ Q \in SUBSET P
  BY <1>1, Constants DEF Passes, RestTypeOK
<1>3. IsFiniteSet(P)
  BY FS_Subset DEF Gate, Passes
<1>4. Cardinality(Q) <= Cardinality(P) /\ Cardinality(Q) \in Nat /\ Cardinality(P) \in Nat
  BY <1>2, <1>3, FS_Subset, FS_CardinalityType
<1>5. Cardinality(Q) <= Limit(b[1])
  BY <1>4, LimitType DEF Gate
<1>6. \A x \in passed[b] : x.at <= now'
  BY <1>1 DEF Gate, RestTypeOK
<1> HIDE DEF P, Q
<1> QED
  BY <1>2, <1>5, <1>6 DEF Gate, P

\* The set of requests that have passed within the window, after one more.
LEMMA PassesOne ==
    ASSUME RestInv, NEW q \in Requests, Request(q), Gate(Asker(q)),
           passed' = [passed EXCEPT ![Asker(q)] = @ \cup {Asked(q)}]
    PROVE  LET b == Asker(q)
           IN  /\ IsFiniteSet(passed'[b]) /\ \A x \in passed'[b] : x.at <= now'
               /\ passed'[b] = passed[b] \cup {Asked(q)}
               /\ Passes(b)' = Passes(b) \cup {Asked(q)}
<1> DEFINE b == Asker(q)
<1>1. RestTypeOK /\ b \in Askers
  BY AskerType DEF RestInv
<1>2. now' = now /\ now \in Nat /\ Asked(q).at = now
  BY <1>1 DEF Request, RestTypeOK, Asked
<1>3. passed'[b] = passed[b] \cup {Asked(q)}
  BY <1>1 DEF RestTypeOK
<1>4. IsFiniteSet(passed'[b])
  BY <1>3, FS_AddElement DEF Gate
<1>5. \A x \in passed'[b] : x.at <= now'
  BY <1>2, <1>3 DEF Gate
<1>6. Passes(b)' = Passes(b) \cup {Asked(q)}
  BY <1>2, <1>3, Constants DEF Passes
<1> QED
  BY <1>3, <1>4, <1>5, <1>6

LEMMA GateRequest ==
    ASSUME RestInv, GateInv, NEW q \in Requests, Request(q),
           ~Unsupported(q), ~CsrfMissing(q)
    PROVE  Gate(Asker(q))'
<1> DEFINE b == Asker(q)
<1>1. /\ RestTypeOK /\ b \in Askers /\ b = getTracker(q) /\ b[1] = Ask[q].handler
      /\ Gate(b) /\ Count(q)
  BY AskerType DEF RestInv, GateInv, Request
<1>2. /\ now' = now /\ now \in Nat /\ until[b] \in Nat
      /\ \A x \in passed[b] : x.at \in Nat
      /\ Asked(q).at = now
  BY <1>1 DEF Request, RestTypeOK, Hit, Asked
<1>3. CASE Throttled(q)
  <2>1. passed' = passed /\ Passes(b)' = Passes(b)
    BY <1>1, <1>2, <1>3 DEF Request, Passes
  <2>2. CASE until[b] = 0
    <3>1. until'[b] = now + Window /\ until'[b] # 0
      BY <1>1, <1>2, <1>3, <2>2, Constants DEF Count, RestTypeOK
    <3>2. \A x \in passed[b] : x.at + Window <= now + Window
      BY <1>1, <1>2, Constants DEF Gate
    <3> QED
      BY <1>1, <1>2, <2>1, <3>1, <3>2 DEF Gate
  <2>3. CASE until[b] # 0
    <3>1. UNCHANGED <<hits, until>>
      BY <1>1, <1>3, <2>3 DEF Count
    <3> QED
      BY <1>1, <1>2, <2>1, <3>1 DEF Gate
  <2> QED
    BY <2>2, <2>3
<1>4. CASE ~Throttled(q)
  <2>1. /\ IsFiniteSet(passed'[b]) /\ \A x \in passed'[b] : x.at <= now'
        /\ Passes(b)' = Passes(b) \cup {Asked(q)}
    BY <1>1, <1>4, PassesOne DEF Request
  <2>2. CASE until[b] = 0
    <3>1. until'[b] = 0 /\ hits'[b] = Counted(q)
      BY <1>1, <1>4, <2>2 DEF Count, RestTypeOK
    <3>2. Passes(b)' \in SUBSET Counted(q)
      BY <1>1, <1>2, <2>1, <2>2, Constants DEF Counted, Running, Gate, Passes
    <3>3. IsFiniteSet(Counted(q)) /\ Cardinality(Counted(q)) <= Limit(Ask[q].handler)
      <4>1. IsFiniteSet(asked'[b])
        BY AskedIsNew
      <4>2. Counted(q) \in SUBSET asked'[b]
        BY CountedIsAsked
      <4>3. IsFiniteSet(Counted(q))
        BY <4>1, <4>2, FS_Subset
      <4>4. Cardinality(Counted(q)) \in Nat
        BY <4>3, FS_CardinalityType
      <4> QED
        BY <1>1, <1>4, <2>2, <4>3, <4>4, LimitType DEF Throttled
    <3>4. Cardinality(Passes(b)') <= Limit(b[1])
      <4>1. /\ Cardinality(Passes(b)') <= Cardinality(Counted(q))
            /\ Cardinality(Passes(b)') \in Nat /\ Cardinality(Counted(q)) \in Nat
        BY <3>2, <3>3, FS_Subset, FS_CardinalityType
      <4> QED
        BY <1>1, <3>3, <4>1, LimitType
    <3> QED
      BY <2>1, <3>1, <3>2, <3>4 DEF Gate
  <2>3. CASE until[b] # 0
    <3>1. until[b] <= now
      BY <1>1, <1>2, <1>4, <2>3 DEF Throttled
    <3>2. Passes(b) = {}
      BY <1>1, <1>2, <2>3, <3>1, Constants DEF Gate, Passes
    <3>3. hits'[b] = {Asked(q)} /\ until'[b] = 0
      BY <1>1, <1>4, <2>3 DEF Count, RestTypeOK
    <3>4. Passes(b)' = {Asked(q)}
      BY <2>1, <3>2
    <3>5. Cardinality(Passes(b)') <= Limit(b[1])
      <4>1. Cardinality({Asked(q)}) = 1
        BY FS_Singleton
      <4>2. Cardinality(Passes(b)') = 1
        BY <3>4, <4>1, Zenon
      <4> QED
        BY <4>2, LimitType
    <3> QED
      BY <2>1, <3>3, <3>4, <3>5 DEF Gate
  <2> QED
    BY <2>2, <2>3
<1> QED
  BY <1>3, <1>4

LEMMA GateKept ==
    ASSUME RestInv, GateInv, [RestNext]_restVars, NEW b \in Askers
    PROVE  Gate(b)'
<1>a. RestTypeOK /\ Gate(b) /\ now \in Nat
  BY DEF RestInv, RestTypeOK, GateInv
<1>1. ASSUME NEW q \in Requests, Request(q) PROVE Gate(b)'
  <2>1. now' = now
    BY <1>1 DEF Request
  <2>2. CASE Unsupported(q) \/ CsrfMissing(q)
    BY <1>1, <1>a, <2>1, <2>2, GateAges DEF Request
  <2>3. CASE ~Unsupported(q) /\ ~CsrfMissing(q) /\ b = Asker(q)
    BY <1>1, <2>3, GateRequest
  <2>4. CASE ~Unsupported(q) /\ ~CsrfMissing(q) /\ b # Asker(q)
    <3>1. passed'[b] = passed[b]
      BY <1>1, <1>a, <2>4 DEF Request, RestTypeOK
    <3>2. hits'[b] = hits[b] /\ until'[b] = until[b]
      BY <1>1, <2>4, OthersKept
    <3> QED
      BY <1>a, <2>1, <3>1, <3>2, GateAges
  <2> QED
    BY <2>2, <2>3, <2>4
<1>2. CASE Restart
  <2>1. hits'[b] = {} /\ until'[b] = 0 /\ passed'[b] = {} /\ Passes(b)' = {}
    BY <1>2 DEF Restart, Passes
  <2> QED
    BY <2>1, FS_EmptySet, LimitType DEF Gate
<1>3. CASE UNCHANGED <<hits, until, passed>> /\ now' \in Nat /\ now' >= now
  BY <1>3, <1>a, GateAges
<1> QED
  BY <1>1, <1>2, <1>3, <1>a DEF RestNext, Changes, Tick, restVars

\* The documented limits hold for every sender, EA and handler, in every window.
THEOREM LimitsHold == RestSpec => []LimitHolds
<1>1. RestInit => GateInv
  <2> SUFFICES ASSUME RestInit, NEW b \in Askers PROVE Gate(b)
    BY DEF GateInv
  <2>1. hits[b] = {} /\ until[b] = 0 /\ passed[b] = {} /\ Passes(b) = {}
    BY DEF RestInit, Passes
  <2> QED
    BY <2>1, FS_EmptySet, LimitType DEF Gate
<1>2. RestInv /\ GateInv /\ [RestNext]_restVars => GateInv'
  BY GateKept DEF GateInv, Askers, Sender
<1>3. GateInv => LimitHolds
  BY DEF GateInv, Gate, Passes, LimitHolds, Limit, Commands, Bulk
<1> QED
  BY <1>1, <1>2, <1>3, RestInvHolds, PTL DEF RestSpec

==============================================================================
