# Verification of run-bot-backend

run-bot-backend is a NestJS process between trading EAs and the browsers of
their owners. A Go *bridge* beside each EA keeps a socket.io connection to the
namespace `/console`; browsers use the same namespace and a REST API. MongoDB
keeps a document per EA (`ea-instances`), an audit log and PnL points.
Everything else lives in the memory of one process.

This directory holds TLA+ modules translated from `src/src/`, the TLC
configurations that check them on small instances, and proofs of theorems about
them that TLAPS checks. `PROJECT.json` lists the components, the runs, the lines
each definition stands for, the mutants, the findings, the hazards and the
theorems.

## 1. Inventory

| Component | State | Operations | Talks to |
|---|---|---|---|
| ConsoleGateway, bridge side (`console.gateway.ts`) | `client.data` per socket, `bridgeSockets`, rooms `bridge:<agentId>`, `telemetryCache` | `handleConnection`, `handleDisconnect`, `bridge:register`, `console:telemetry`, `console:status`, `console:offline`, `console:ack` | Mongo documents, browsers' rooms |
| ConsoleGateway, browser side | rooms `agent:<agentId>` | `client:subscribe`, `client:unsubscribe`, hydration | documents, cache |
| Token sweep (`sweepExpiredSockets`, cron 15 s) | `tokenExpiresAt`, `expiryNotified` per socket | notify, then kick | every socket |
| Telemetry cache (`ttl-cache.ts`) | a Map with deadlines, a timer | `setex`, `get`, `del`, `sweep`, `dispose` | read by gateway, heartbeat, service |
| Heartbeat (`console.scheduler.ts`, cron 30 s) | none between runs | find the online instances, mark the stale ones offline, audit | documents, cache, audit log |
| PnL snapshots (cron 60 s) | `ea-pnl-points` | sample each online instance | documents, cache |
| ConsoleService (`console.service.ts`) | none | commands, settings, bulk commands, `hideInstance`, queries | documents, audit log, `bridge:` rooms |
| ConsoleController and DTOs | none | routing, limits, validation | ConsoleService |
| SafetyScore token and guard | cached public key | verify, copy claims | gateway, controller |
| Throttler guard | library buckets | choose a bucket per token and agent | REST requests |
| Socket adapter, headers middleware, error filter, bootstrap | none | filters and wiring | every request |

What is hard here is not any single handler but their interleaving. Node runs a
handler up to its next `await`; every handler of the gateway, the service and
the crons awaits Mongo, and each decides on something it read before an await.
Operations sent over different connections of the driver's pool take effect in
either order; an operation may fail after it took effect; the process may
restart with updates on their way. What makes each part correct:

- *bridge side*: commands for an agent reach one connected bridge, its owner's,
  the last that registered; the owner never changes hands; a displaced socket
  can do no more harm;
- *presence* (gateway, heartbeat, hiding): an online EA is listed, and an EA
  nobody speaks for becomes offline, whatever was lost on the way;
- *token sweep*: an expired socket goes, others stay;
- *cache*: a reader sees the last value for its lifetime and not a second more;
- *commands*: what is sent reaches the registered bridge, what is reported, audited
  and stored was sent;
- *browser side*: viewers are the owner's, and none misses the frame the cache
  holds;
- *crons on a clock*: who sends steadily stays online, who is gone is noticed in time, and
  each instance found online has one point a minute, of a frame no older than the TTL;
- *queries*: charts and daily summaries show what was recorded;
- *REST*: a request is refused for a reason of its own, never for what others asked;
  no budget lets more than its limit pass, and the owner's kill switch passes.

The hazards behind these, each at its line, are in `PROJECT.json`.

## 2. Modules

| Module | Models |
|---|---|
| `BridgeGateway` | the bridge side, the token sweep, and the document fields its handlers write |
| `CommandRoute` | abstract: who receives an agent's commands |
| `ConsolePresence` | extends `BridgeGateway` with heartbeat runs and `hideInstance` |
| `ConsoleCommands` | extends `BridgeGateway` with single commands, settings and bulk commands |
| `BrowserFeed` | extends `BridgeGateway` with the browser side |
| `TtlCache` | the cache |
| `LeaseMap` | abstract: a map whose entries last a given time |
| `PnlQueries` | the answers of the two PnL queries, and what they should be |
| `ConsoleSchedule` | extends `TtlCache` and `PnlQueries` with the heartbeat and the PnL snapshots on a clock |
| `ConsoleRest` | middleware, throttler, token guard, validation, handlers and error filter for one request at a time |

`MC<module>` has the values a run gives to a module's constants, `<module>Proofs`
its theorems. `TtlCache` and `PnlQueries` are checked as part of `ConsoleSchedule`.

### BridgeGateway

`conn[s]` is a socket's life: `new`, `verifying` (inside `handleConnection`'s
await), `ready`, then `closed`, or `kicked` when the server closed it and its
disconnect event has not been handled. `bridgeSockets`, `bridgeRoom` and `cache`
are the gateway's fields. `pc[h][s]` says where handler `h` of socket `s` awaits:

    idle -> find -> found -> write -> written -> idle        bridge:register
    idle -> write -> written -> idle                         the other handlers

`find` and `write` are operations on their way, `found` and `written` their
results on the way back, so whatever else may run between the moment an
operation takes effect and the moment its handler resumes does. `orphan` is an
update nobody awaits any more, because its handler failed or the process
restarted; it still takes effect, or is lost. An agent's document is `owner`
(`Missing`: no document, `Unclaimed`: userId null), `online` and `hidden`.
Only the upsert of `bridge:register` creates a document; the `updateOne` of the
other handlers changes none that is missing.

`RegisterAccepted` is the part of `onBridgeRegister` between its two awaits, in
the order of the code: kick the stale socket, store the new one, join the room,
send the upsert. It does not ask whether the socket is still connected, because
the code does not; only socket.io ignores the join of a socket that is closed.

*Kicks.* The code leaves to socket.io when the disconnect event of a socket the
server closes is handled. With the in-memory adapter (`main.ts`: "single
instance, no Redis adapter") and socket.io 4.8.1 of the lockfile it runs inside
`disconnectSockets`; the gateway's comments expect it afterwards. `KickModes`
names the cases a run allows, `"sync"` and `"late"`.

*Abstractions.* The token is its outcome and its claims. Frames carry no
content but what they change. The emission of `console:status` when a handler
resumes changes nothing in the process and is left out; so are `console:ack`
and frames dropped for a foreign agentId, which change nothing. One call of a
handler per socket is in flight, which the code does not limit. A rejected update in `handleDisconnect`
is a promise nobody awaits: `MongoError` is the case in which the process
survives it and `Restart` the one in which it does not.

### ConsolePresence

A heartbeat run is `find`, then `loop`, and for each stale instance `write` and
`written`. `HbCheck` takes the loop from one await to the next in one step, as
the code does, past the fresh instances. Cron starts a run whether or not the
last has ended; `Runs` is the set of runs that may overlap. Any failure ends
the whole run. The age of a cached frame is one of two classes, `recent` and
`old` (OFFLINE_THRESHOLD_MS), and `none` stands for no entry or one past its
TTL; a frame may arrive old, since its time stamp is the broker server's.

A `hideInstance` request holds its user in `hider` and passes the ownership
check (`HideOwned`), the online check (`HideCheck`), the conditional update
(`HideUpdate`) and the audit entry (`HideReply`).

### ConsoleCommands

`step[r]` is where request `r` is: `new`, `owned` and `online` after its two
checks, `store` and `audit` while it awaits an update and an audit entry, `loop`
between the instances of a bulk command, `reply`, then `ok` or `error`; `lost`
when a restart ended it, `orphan` while its update is still on its way. `sent[r]`
are the agents a command was emitted for and `got[r]` the deliveries: whoever was
connected and in the agent's room at that moment. `CmdSend` is the synchronous
stretch after the online check; the five single commands differ in name and value only
and are one action. `BulkSend` takes the loop of `fanOutCommand` past the
instances that were offline to the next emission, as one step, because nothing is
awaited in between. `settings[a]` names the push whose settings are stored. The
account of an agent is fixed, so a bulk command's scope is a set of agents.

### BrowserFeed

Sockets without an agent claim are browsers; a bridge may subscribe as well. An
accepted subscribe sets `client.data.agentId` (`console.gateway.ts:358`): nothing
reads it for a browser, and for a bridge it is what the token says already, since
`WatchesOK` lets a bridge subscribe to its own agent only. `viewers[a]` is the room
`agent:<agentId>`, `current[a]` the sockets that were sent the frame the cache now
holds, by hydration or through the room. `sub[s][a]` says where `client:subscribe`
awaits: `find` and `found` around its `findOne`, and `early` for a handler that
started while the token was being verified, whose `callerId` is undefined
(`SubFind` has nothing to tell such a handler apart from a stranger's).
`SubAccepted` is what follows the await: join, read the cache, hydrate. It does
not ask whether the socket is still connected, because the code does not; socket.io
ignores both for one that is closed. `SubRejected` closes a stranger, which for a
bridge is a disconnection like any other. `FeedServe` adds to every step of the
bridge side what it means to viewers: a closed socket leaves its rooms (`Remaining`),
a new frame goes to the room. `current` is of frames only; `console:status` and
`console:ack` go to the same room and are left out.

### TtlCache

Entries carry absolute deadlines; `get` evicts an overdue entry it meets,
`sweep` evicts all of them while the timer runs. `LeaseMap` has neither
deadlines nor evictions: it counts each entry down and drops it at 0. Nothing in
the source calls `del` or `dispose`: `Del` and `Dispose` are in the module and its
theorem, in no run.

### ConsoleSchedule and PnlQueries

One life of the process on a clock that `Passes` advances. Frames arrive
(`Telemetry`), instances are announced online without a frame (`Announced`) or go
offline (`Left`). A cron fires exactly when it is due (`hbNext`, `snapNext`),
finds the online documents and takes them one by one; a run, and what it sent, is
over within `Lag`. The heartbeat is split where it awaits Mongo: `HbFires` sends the
find, `HbFound` has its result, `HbCheck` reads the cache and sends a stale
instance's update, `HbLands` is the moment this takes effect, `HbDone` the end of
update and audit entry. Frames and announcements may come in between all of these.
`HbFails` rejects the find, an update or an audit entry and ends the run, and the
update takes effect later or never.
`HbCheck` and `SnapTake` read the cache through `TtlCache`'s `Get`, so its
eviction is part of them. A frame is its `ts`, in the broker server's time (this
host's, displaced by a skew), and whether `account.equity` is a number; `Frames` has
those that a run may see, with any skew. `steady[k]` is history: since when an agent's
frames have followed each other within the TTL, by clocks that are fit (`Behind`: a
frame would pass the threshold while it is still cached).
`verdict[k]` is what the last snapshot run did about an instance. A write of a point
that is rejected may have stored it. Points are
records of agent, `ts` and the moment of storing. The gateway's updates take effect
at once here: what happens when they do not is `ConsolePresence`'s question.

`getPnlHistory` and `getPnlDailySummary` filter, sort, cut and group the way the
queries do. Mongo leaves the order of points with the same `ts` open, so `Sorted` is
the set of all orders it may return and a query has a set of answers. A bound of the summary is a day, absent, or a text that cannot be
parsed. `IsChart` and `IsSummary` say what the answers should be without sorting
or grouping; the run compares every answer with them on every set of points that is
reached.

### ConsoleRest

A request is one step, in the order in which it meets the checks: content type,
CSRF header, throttler (which counts it), token guard, validation, the handler
with the service's ownership and online checks, and the error filter that writes
its answer. `Outcomes` is the set of answers a request can get; any service call
may also fail with a Mongo error. `reply` is the answer just given. The routes
differ in limit, method, validation and service checks, which are functions of
the handler's name. `hits`, `frozen` and `until` are the storage of the throttler's library
(@nestjs/throttler 6.4.0 of the lockfile) as the guard uses it. A bucket is a set of
hits, records with a time, each of which leaves when its timer fires a window later.
The library keeps the timers of all buckets in one list per throttler name, of which
this program has one, and when a block ends it cancels the whole list: the hits that
other buckets have then are `frozen`, and stay until such a bucket's own block ends.
Two variables are history, kept by who asked for what and independently of the
buckets: `asked` has every request since the process started, `passed` those the
throttler let pass. Hits are numbered in the order of their asker's requests, which
tells those of one moment apart. `sized` tells whether a body has a Content-Length
above 0, which is what the content type check looks at, so that a chunked body passes
it. `plan` bounds a behaviour: which requests it has, and how many.
A malformed JSON body, which the parser refuses before any of this, is left out,
and the content of settings and frames is data.

## 3. What the runs check

| Run | Checks | Bounds |
|---|---|---|
| `route` | `TypeOK`, `LiveRoute`, `RouteOwner`, `OwnerLock`, `ImplementsCommandRoute` | 3 sockets of 2 users, one without the required fields that sends telemetry and status frames as well, 1 agent that either of them has claimed, 2 frames in flight, both kick modes |
| `presence` | `PresenceTypeOK`, `HiddenMeansOffline`, `GhostHeals`, `ExpiredSocketLeaves` | 1 expiring socket, every frame, one in flight, a heartbeat run and a hide request at a time |
| `commands` | `CommandsTypeOK`, `OwnersBridgeOnly`, `OneBridgeEach`, `StoredWasSent`, `AuditTrail`, `SentToCurrent` | 2 bridges of one agent, 3 requests of 2 users at once, one registration in flight |
| `bulk` | `BulkReported`, `EmergencyReachesAll` | 2 agents with a bridge each, one bulk command |
| `feed` | `FeedTypeOK`, `OwnersView`, `RegisteredFirst`, `ViewersCurrent` | a browser of one user that watches an agent of that user or of another, another user's bridge of that agent, and a bridge that watches its own unclaimed agent |
| `schedule` | `ScheduleTypeOK`, `NoticedInTime`, `PointsAreFresh`, `OnceAMinute`, `ChartIsNewest`, `SummaryIsDaily`, `FreshSurvives`, `ImplementsLease`, `OverdueEvicted` | clock to 3, TTL 2, threshold 4, heartbeats every tick and snapshots every 2, runs over within their tick; skews -2 (just fit) and -3 (too far behind); one agent with a bridge and one without; a day of 3 ticks, charts of at most 1 point |
| `rest` | `RestTypeOK`, `OwnBudget`, `LimitHolds`, `CommandsServed`, `NoLoginAdvice` | 3 requests of 9 kinds, or 5 of two agents' kill switches; limits of 1 and 2 in a window of 2, clock to 3 |

- `LiveRoute`: a connected socket is in a command room exactly when it is the
  stored bridge of that agent. No second bridge ever executes a command, and no
  stored, connected bridge misses one.
- `RouteOwner`, `OwnerLock`: the check-then-act of the ownership lock is safe for
  an agent that already has an owner.
- `ImplementsCommandRoute`: each step attaches one bridge in place of the last,
  retires bridges for good, or changes no route.
- `HiddenMeansOffline`: no order of hiding, reconnecting, heartbeats and late
  updates leaves an EA online and missing from its owner's list.
- `GhostHeals`: if from some time on no socket of an agent is connected, from
  some time on its document is offline.
- `ExpiredSocketLeaves`: a socket whose token has expired is closed, or leaves.
- `OwnersBridgeOnly`, `OneBridgeEach`: although a request checks ownership and
  status at other times than it emits, its command reaches one bridge at most, under
  its user's token.
- `SentToCurrent`: a command that is emitted reaches the bridge registered for its
  agent, if it is connected, and nobody else: the room and `bridgeSockets` agree.
- `StoredWasSent`: what is stored as settings was sent, by the owner, and can be
  applied live, even when the update lands after its request was given up.
- `AuditTrail`: the audit log names only what was emitted, and an accepted single
  command is in it. (A bulk command's entry may be missing, by design.)
- `BulkReported`, `EmergencyReachesAll`: the summary of a bulk command names every
  instance it found, and a failing audit entry stops neither it nor the loop.
- `OwnersView`, `RegisteredFirst`: only the owner watches a claimed agent, although the
  viewer stays while bridges of others register for it, and nobody one whose
  registration has not been stored.
- `ViewersCurrent`: a viewer has the frame the cache holds, whether it
  joined before or after it came.
- `FreshSurvives`: the heartbeat's update overwrites what came since its check, and may
  hit an EA that has only just come back; but never one whose frames have followed each
  other within the TTL for longer than a run takes, by clocks fit for the threshold. In
  the program's numbers: an EA that sends at least every 60 s, whose broker's clock is
  at most four minutes behind. One further behind is outside this promise, and the run
  has such frames too.
- `NoticedInTime`: no instance is online for TTL, period and run time (90 s and the time
  of a run) without a frame or an announcement, except after a run that failed; then the
  next one that does not fail finds it.
- `PointsAreFresh`, `OnceAMinute`: points are of frames within the TTL, and each
  instance a run finds has one, unless its own frame or write was at fault.
- `ChartIsNewest`, `SummaryIsDaily`: the queries' answers are the newest points in
  ascending order, and the last point of each requested day.
- `ImplementsLease`, `OverdueEvicted`: what the crons read is a lease map, and
  entries nobody reads do not stay for ever.
- `OwnBudget`: who is refused for asking too often has itself asked the same thing for
  the same EA more often than the limit since the process started; and, unless the end
  of another's block has stopped its timers, within two windows and more than once
  within one.
- `LimitHolds`: in no window does more than the limit pass of what one sender asks for
  one EA, however blocks begin and end, while the process runs.
- `CommandsServed`: a command is carried out for the owner of an online EA and
  nobody else, and the owner's is refused for its budget or Mongo's errors only.
- `NoLoginAdvice`: no answer is the filter's "Invalid email or password.".

*Why the bounds are enough.* A takeover involves the stale socket and the new one,
which are the owner's, and what may interfere is a stranger or a bridge that is
refused: hence three sockets of one agent. Every map of the gateway is keyed by agentId and no
handler touches two agents, so one agent is enough for TLC. Three of the owner's
bridges in a row, many agents, and more sockets in `presence`, are left to the
proofs as far as safety goes; liveness is checked for the one socket of that run.
`Sends` limits the
frames of a bridge to those the run's properties depend on: no frame but
`register` changes the route. `MaxInFlight` bounds the frames awaiting Mongo, counting updates that
were given up, and each handler has one call in flight per socket. In `schedule` an
entry lives for two ticks, so that 3 ticks see it arrive, be read, expire, be evicted
and replaced; an instance nobody speaks for is due at tick 3 and can be missed by a
run that fails; two points of two skews come in another order than their `ts`, and two
exceed a chart of one. Snapshots are due at ticks 1 and 3.
A run lasts one instant there, in which frames still come
between its steps; longer ones are left to the proofs. In `rest` a limit of 1 is
exceeded by the second request and blocks for a window, after which the third passes;
five requests of two agents let the end of one's block freeze the hit of the other,
which a later request then meets; the token of the owner expires when the clock
reaches its end. In `feed` no token expires, and no document is online or hidden at
the start: neither makes a difference to viewers that a disconnection does not make.
Sockets are not symmetric, since their claims differ.

*Fairness.* A Mongo operation that was sent takes effect, fails or is lost, and a
handler, or a request, that may resume does (weak fairness): Node's queue and the
driver's timeouts. The crons keep firing: the token sweep and the heartbeat, and
the cache's own timer. A closed socket's disconnect event comes, and a cached
frame that is not replaced reaches its TTL (weak fairness). For `GhostHeals` the
heartbeat's own operations need strong fairness: errors and restarts may interrupt
it for ever often, but not every time. Nothing is assumed about bridges and
browsers: they need not connect, register, or leave.
Deadlock is not checked: sockets are used once, clocks and requests are bounded, and
when all is done the process may rightly stop.

## 4. Where the code and its comments disagree

Five runs end in a violation that TLC must find.

- `dead_owner`: a registration resumes after its socket disconnected, becomes the
  stored bridge and evicts a healthy one.
- `claim_race`: two users register an agent without an owner at the same time;
  both pass the lock, and the later upsert wins.
- `hide_race`: an EA reconnects during `hideInstance`; nothing is hidden, the
  request goes on to the audit entry and to `{ hidden: true }`.
- `early_subscribe`: socket.io delivers events while `handleConnection` awaits the
  token's verification; an owner's `client:subscribe` that comes then finds no
  userId and its socket is closed, although the comment rejects only strangers.
- `unconfirmed_kill`: implicit conversion makes `true` of any text, so
  `{"confirm":"false"}` passes the check that confirm must be true.

Met while modelling, without a run:

- With the in-memory adapter the stale socket's disconnect handler runs inside the
  kick, before the new entry is stored (`console.gateway.ts:189`): it passes the owner
  check, so the kicked socket's offline update *is* sent. The comments at :46-48 ("a
  stale socket's late disconnect can no longer mark the agent offline") and :97 and the
  test "a kicked socket disconnecting later does NOT mark the agent offline"
  (`console.gateway.spec.ts:422`) describe only the order that this adapter does not
  produce. The update precedes the upsert of the takeover, but on a pool of connections
  it may land after it: the agent is then offline until its next frame. `route` has both
  orders (`"sync"`, `"late"`), and the routing is right in both.
- The throttler's comment says "so ten EAs never share one command budget"
  (`console-throttler.guard.ts:11`). Budgets are apart, their timers are not: after the
  end of any block the hits other buckets had count until their own block ends, so an
  EA may be refused for requests it made long ago (`OwnBudget`). The library also cuts
  the end of a block to whole seconds.
- A frame may arrive between the heartbeat's check and its update, which then
  marks a live EA offline until its next frame. An instance may go offline while a
  bulk command audits another; the command is then emitted to an empty room and
  reported as sent.
- A `limit` of 0 or below is no limit for `getPnlHistory` (`Math.min` keeps it and
  Mongo reads it so), which the comment at `console.service.ts:540` does not expect.
- `docs/DEPLOY-v2.md:18` says "All commands and bulk endpoints have throttles (10-20
  per minute)": master-enable and settings have the default of 60.
- An unsubscription does not stop a subscription that awaits its check. A bridge that
  subscribed to another agent of its user would have its agentId rebound
  (`console.gateway.ts:358`), and speak for that agent from then on.
- The stop-all routes of different accounts share one bucket of 10 per minute, since
  they have no agentId (`console-throttler.guard.ts:23`).
- Errors of Mongo are no `HttpException`, so the filter does not write their answer.
- The filter's comment says that production is generic except for 401
  (`http-error.filter.ts:111`); a 400 passes its own message as well.
- `ttl-cache.ts` says `dispose` is for shutdown; nothing calls it.

## 5. What is proved

For all values of the constants within the named assumptions: all sets of sockets,
agents, users and requests, every assignment of claims, both kick modes, any
number of handlers in flight, every TTL, threshold, period, skew, window and limit.
Every invariant and safety property of the passing runs is proved.

*The gateway* (`BridgeGatewayProofs`)

- `TypeCorrect`. `TypeOK` alone is not inductive: the register handler of a socket
  without an agent would read the owner of no agent. The induction adds
  `BridgeTasks`: only bridges' handlers are in flight.
- `RouteIsLive`. The invariant `RouteInv` adds `Seated` (a socket in a room or in
  `bridgeSockets` is past its verification and bound to that agent) and `Underway`
  (so is a socket with a handler in flight); without them a socket that only now
  connects could already hold a seat. One lemma covers every way of
  disconnecting, one the takeover.
- `RouteIsOwners`, `OwnerIsLocked`. The invariant `LockInv` says that what a
  register handler read of a claimed agent is still its owner, and that an update
  on its way, awaited or not, names that owner. `LockMoves` states once what a
  step may do to these, and the induction uses nothing else.
- `GatewayImplementsRoute`. The mapping takes an agent's route to be its room's
  connected sockets and the retired bridges to be the sockets that were closed. From
  `RouteInv`, a disconnection, sweep or restart is a `Detach`, and a takeover an
  `Attach`, or a `Detach` of the stale bridge when the new socket has already gone.

*Commands* (`ConsoleCommandsProofs`): `CommandsTypeCorrect`, `OnlyOwnersBridges`,
`OneBridgeExecutes`, `SettingsWereSent`, `CommandsReachCurrent`. Every step of
`ConsoleCommands` is a step of the gateway or leaves it alone (`CommandsRunGateway`),
so the gateway's theorems carry over, the routing among them (`CommandsKeepRoute`).
`Entitled` says that a request past its check is still the owner's, `SentOnce`
that it has not emitted to its next agent, `Storing` that what it stores it has
sent. `CommandsReachCurrent` combines `SentOnce` with the gateway's `LiveRoute`: there
is no earlier delivery to an agent whose turn has come, and its room is right.
`AuditIsTrue` and `BulkIsReported` have an invariant per request, `Book`,
over its own fields only: what each place in a handler implies about what was sent,
audited and reported. A step moves one request, so a lemma per action is enough.

*Presence* (`ConsolePresenceProofs`): `OnlineIsListed` is inductive with the types
of the two fields; `PresenceTypeCorrect` takes the gateway's part from its own
type theorem. Heartbeats and hiding do take steps the gateway does not, but only on
documents (`Apart`), so `PresenceKeepsRoute`: the routing is still `CommandRoute`'s.

*Browsers* (`BrowserFeedProofs`): `FeedTypeCorrect`; `OwnersWatch` from
`OwnerIsLocked` and the claim that a check which said "owner" named the owner;
`StoredFirst`, since an owner never disappears; `ViewersUpToDate`, since whatever
changes the cache sends the room the same frame in the same step. The one step of
subscribers that touches the gateway, closing a stranger, is a `Detach` of
`CommandRoute`, also when that is a bridge with a seat (`FeedKeepsRoute`).

*The clock* (`TtlCacheProofs`, `ConsoleScheduleProofs`): `CacheTypeCorrect`,
`CacheIsLease` and, for the crons, `CronsSeeLease`: evictions stutter, the rest map
one to one. `BaseInv` adds to the types that each cached entry is the last frame,
with its deadline. `SteadyAgentsSurvive` is about the moment an update lands, long
after its check: `Doubt` keeps what the check saw, that an update on its way is for an
agent that was silent or not steady then and can have become steady only since the run
began, and a run is over before that counts.
`DeadAgentsNoticed`: `HbOnTime` says when runs fire and end, `MetEarly` that the last
run an instance met started less than a TTL after it was raised, or that a run which
failed started no earlier. `PointsShowFrames`
from the entries. `PointsOnceAMinute`: `Sampled` counts the points of the current
run for what is done of it and says there are none for what is not.

*Charts and summaries* (`PnlQueriesProofs`): `ChartIsRight` and `SummaryIsRight` say
that every answer the queries may give is what it should be, for every finite set
of points, bounds of any kind and limits from 1, whatever order Mongo gives to
points with the same `ts`. A sorted answer is a bijection, so that a cut leaves out
only what is not newer (`LimitedShape`), and the last row of a day exists since a
finite day has a greatest position (`LastOfDay`). `AnswersExist` shows that there
is an answer: a point's rank, the number of those that sort before it, orders any
finite set (`SortExists`). `ChartsAreNewest` and `SummariesAreDaily` apply this to
the points the crons record, which stay finite and well formed (`PointsFinite`).

*Requests* (`ConsoleRestProofs`): `NobodyIsAdvised` and `CommandsAreServed` look at
the outcomes of one request, check by check; the invariant is about the last reply.
`RestTypeCorrect` and `BudgetsAreOwn` need to know what a bucket's state says of
the past, since `OwnBudget` compares a reply with the requests that were made
and a block outlives the hits that led to it. `Bucket` says that a bucket counts
only what was asked, and `Blocked` that while a block lasts, its asker's record has
more than the limit, the last of it when the block began, and if none of its hits is
frozen, in the window before that. Two windows are then the longest time between those
requests and a refusal. `LimitsHold`
is the other direction, from `Gate`: an open bucket counts every request that
passed within the window, and a block ends only when the last of them has left it.

The theorems use `ConstantsOK`, `CommandsOK`, `CacheConstants`, `QueryConstants`,
`ScheduleConstants`, `RestConstants` and `WatchesOK`, which TLC evaluates in the runs. `MaxInFlight`, `Sends`,
`MaxNow`, `Frames`, `Watches` (within `WatchesOK`) and `Plans` are constants of any value.

Only model-checked: liveness (`ExpiredSocketLeaves`, `GhostHeals`,
`OverdueEvicted`, `EmergencyReachesAll`), which is out of the prover's reach.

## 6. What is left

- Two presence questions at once: the timed heartbeat over delayed updates, which
  would join `ConsolePresence` and `ConsoleSchedule`.
- The order of `console:status` emissions and updates, once a document says what
  viewers may rely on.

## 7. Not modelled

- Cryptography, and the framework's handling of anything but the flags of
  `kill-switch.dto.ts`; the cached public key, which keeps a failed import.
- Origins and the socket adapter: an allowlist applied once per connection.
- The lists of `getAllInstances`, `getAuditLog` and `getCurrentSettings`, copied
  from Mongo; `getInstanceStatus`, which has no caller.
- Environment validation, CORS, logging, wiring and one-line helpers.
- More than one process, since the code runs one by design; the bridge program,
  whose retries are not in this repository; `test/`, `docs/` and `docker` files.
