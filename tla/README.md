# A verification project for analytics-system

TLA+ models of the analytics platform in `src/`, checked with TLC on small
instances, and theorems about them proved with TLAPS for every value of the
constants. `PROJECT.json` is the index: which definition models which lines, what
each run checks, the hazards the properties are there for.

## The system

Ticks flow from the exchange to clients through five programs; a sixth issues
tokens. All six are built on one library (`common/`) and one pattern of start-up
and shutdown.

    exchange --ws--> market-data-collector --raw topic--> preprocessor
        preprocessor --> Redis (partial bars), TimescaleDB (table), Kafka (candles topic)
        TimescaleDB, candles topic --> analytics-api --gRPC--> api-gateway --HTTP--> clients
        TimescaleDB --> query-service
        auth (PostgreSQL) <--gRPC-- api-gateway

| Component | State | Operations | What is hard | What makes it correct |
|---|---|---|---|---|
| preprocessor, aggregator (`aggregator/manager.go`) | `buckets`: the open bar of every interval and symbol, under one mutex | `Process` a tick, `flushExpired` every second, `FlushAll` on `Close` | two goroutines and the shutdown, each over several remote calls under the mutex; crash between two calls; bars closed by the wall clock but placed by event time | no tick lost or counted twice, one bar per window, bars published only when over, restores bring back what was saved |
| preprocessor, bar (`candle.go`, `types.go`) | one OHLCV record | create, update, save, restore | borders of windows | prices and volume summarise the ticks |
| preprocessor, stores (`storage/*`, `multisink.go`) | Redis keys with expiry, table with a unique key, topic | `Save`, `LoadAt`, `DeleteAt`, two `FlushCandle` | one of two sinks fails; a call applied but reported as failed | keys unique, rows immutable, sinks agree |
| market-data-collector | connection, two bounded channels, pingers | `run`, `readLoop`, `Start`/`Stop`, router, `Publish` | reconnects, two channels that drop, close racing connect, pingers left behind, sends applied but reported as failed | a topic keeps the order of the feed, nothing is used after its close, a signal ends it |
| common: Kafka consumer | session, marks, committed offset | `Consume`, `ConsumeClaim` | a partition that moves while its old owner is at work on a message, crash, handler errors | an offset is committed only after its handler; the log is committed in the end |
| common: Kafka producer, backoff | attempt counter, pause | publish, retry | applied but reported as failed; zero figures | no silent loss, pauses between attempts |
| auth | `users`, `refresh_tokens` | login, refresh, logout, revoke, register, validate | check-then-act over two statements, retried inserts, ignored errors | a refresh token is used once; a revoked token stays revoked |
| api-gateway | validation cache, limiters | JWT, RBAC and rate-limit middleware, four routes, two sweeps | stale cache entries, a sweep that deletes the entry a request holds, interceptors behind it | no one is let in on an expired token; the rate limit holds |
| analytics-api | up to five goroutines and three channels per call | `GetCandles`, `StreamCandles`, `SubscribeCandles`, `ListSymbols` | close racing send, blocked senders, one session at a time, rows added between pages | order, nothing lost inside, goroutines end, a listing is complete |
| query-service | none | one SELECT | replacements in the order of a map | independent of that order |
| lifecycle (`main.go`, `app.go`, `httpserver`) | errgroup, servers, open resources | start, cancel, graceful stop, close | what closes before what, a handler that does not end, a server nobody stops | nothing is closed under its users; a signal ends the process |
| configuration (`config.go`, `loader.go`) | the loaded keys | file, defaults, environment | keys the environment cannot set, defaults nobody applies | a program starts only with what it needs |
| logging, telemetry, metrics, protobuf | none that is read back | | | |

The aggregator is the heart: it is the only component that turns events into
durable state, it does so from two goroutines over four remote systems, and the
repository has no tests. It is modelled first, whole, and proved about. The auth
service comes second: its requests share a table with no transaction around them.
Then come the way in (collector and consumer group), the gateway, the ways out
(live and stored candles) and the life of a process, the same for all six.

## Modules

| Module | What it is |
|---|---|
| `Candle` | operators: `Align` (AlignToInterval), `NewBar` (newCandleState), `Updated` (update), `Restored` (ToProto then LoadAt) |
| `CandleHistory` | one bar beside the list of its ticks |
| `MCCandleHistory` | its instance for TLC |
| `CandleStore` | the abstract specification: what the readers of the table and the topic are promised |
| `Aggregator` | the preprocessor: manager, stores, sinks, consumer, clock, crashes, shutdown, restart |
| `MCAggregator` | its instances; four `.cfg` files choose budgets and bounds |
| `CandleTheorems` | lemmas about `Align` |
| `CandleHistoryProofs` | theorems of `CandleHistory`: windows, prices, volume |
| `AggregatorProofs` | in three parts: types, places and bars published on time; the contents of every copy of a bar and the refinement of `CandleStore`; no tick lost or counted twice, Redis and sinks in step, when nothing fails |
| `AuthTokens` | the auth service: requests side by side over `refresh_tokens` |
| `MCAuthTokens` | its instances; two `.cfg` files choose budgets and bounds |
| `AuthProofs` | types, revocation, stored tokens, and the chain of a session |
| `Collector` | the market-data-collector: reader, channels, router, retried send, the loop of `Run` |
| `ConsumerGroup` | `common/kafka/consumer` with the replicas of one group over one partition |
| `Ingest` | the composition of the two: the log of the group is the raw topic of the collector |
| `MCIngest`, `IngestProofs` | its instance; types, order, closes, pingers, commits |
| `Gateway` | the api-gateway's middlewares, routes and sweeps, with the auth service's interceptors |
| `MCGateway`, `GatewayProofs` | its instance; types, who is let in, that guarded nobody is, and the rate limit |
| `CandleStreams` | the two live calls of the analytics-api |
| `TableReads` | `ListSymbols` of the analytics-api and `ExecuteSQL` of the query-service |
| `ReadApis`, `MCReadApis` | both in one specification; its two instances |
| `ReadApisProofs` | types, order and completeness of the live calls, parameters at their places, complete listings |
| `ServiceLifecycle`, `MCServiceLifecycle` | start-up, tasks, shutdown and exit of any of the six programs; its instance |
| `ServiceLifecycleProofs` | types, the order of the closes, answered requests, pauses |

`ReadApis` explores its two halves one beside the other, never interleaved: they share
no state, so the interleavings would only multiply the states.

Definitions with the comment *Mutant* are never used by a specification. Each is
one of the definitions it stands before with a plausible mistake in it, and shows
that a property can fail.

### How Aggregator corresponds to the code

A step is one remote call, or the work between two of them that nobody else can
see because `m.mu` is held.

| Code | Model |
|---|---|
| `m.buckets`, `m.mu`, `m.now()` | `buckets`, `holder`, `now` |
| where the mutex's holder stands | `todo` (bars to go through), `cur` (the bar it is at), `stage` (the remote call to make next), `sinkErr` (`firstErr` of MultiSink) |
| `Process` | `BeginProcess`; for every interval `Restore`, `Create`, `Extend` or `Replace`, then `Save`; `EndProcess` |
| `flushOne` | `FlushToTable`, `FlushToTopic`, `Forget`, and `AfterFlush` for what its caller does next |
| `flushLoop`, `flushExpired` | `FlushRead` (reads the clock, outside the mutex), `BeginFlush`, `PickBar`, `EndFlush` |
| `Close`, `FlushAll` | `CloseConsumer`, `BeginFlushAll`, `PickBar`, `EndFlushAll` |
| `ConsumeClaim` marks the message, sarama commits | `EndProcess` (`Marked`), `AutoCommit`, `LoseSession` |
| SIGTERM, container restart, death | `Stop`, `Restart`, `Crash` |
| collector, wall clock | `Produce`, `Tick` |

*Data.* A bar is the start of its window and, for each offset of the raw topic, how
often it took that tick. Prices and volume are a function of those ticks, which is
what `CandleHistory` is about, so that a lost, repeated or misplaced tick is visible
in the bar itself. The topic of candles is a set of bars: order and repeated copies
of one message are not told apart.

*Remote calls.* Every call may return an error (`io`), and a call that returned
one may have taken effect or not, except a read. A call of Redis or TimescaleDB
under a context that was cancelled fails at once (`Cancelled`, `ContextCall`); a
Kafka send does not look at its context.

*Budgets.* `Budget[k]` bounds how many disturbances of a kind happen: `crash`,
`stop`, `session` (offsets lost), `io`, `clock` (a tick out of time order or ahead
of the local clock). A cut-off call (`cut`) needs no budget: it follows from a
stop. The proofs hold for every budget.

### How AuthTokens corresponds to the code

Every SQL statement commits by itself, so a step is one statement with the work
up to the next, and steps of several requests interleave.

| Code | Model |
|---|---|
| `refresh_tokens` (`id`, `jti`, `revoked_at`) | `rows`; `try` tells apart the ids of rows with one `jti` |
| a handler goroutine | `req[p]`: its operation `op`, the statement it is `at`, the token it came with (`tok`), the one it generated (`new`), failed attempts (`tries`) |
| `Parse` on the way in | `held \ expired` in `BeginFind`; `RevokeToken` accepts any held token |
| `FindByUsername` and the password | `FindUser` |
| `ExistsByUsername` | `UserExists` |
| `FindByJTI`, the check of `revoked_at` | `FindToken`, `Usable` |
| `RevokeByJTI` in `Refresh`; in `Logout` and `RevokeToken` | `RevokeOld`; `RevokeToken` |
| `Store` under `backoff.Execute` | `StoreToken`, `Answer`, `Retry` |
| a context cancelled, a process dead | `Vanish` |

`parent` (which token was refreshed into which), `ended` (tokens ended by a
logout or a revocation) and `late` (the token was revoked already when the request
came) are history. A statement may fail (`io`) and then have taken effect or not.
Calls come past the interceptors, with an access token of their own.
`Register` is two steps only: the check for the name fails for a free name as it
does for a taken one (see Disagreements), so the INSERT into `users` is never
reached, `users` never changes, and the accounts are those put in by hand
(`Accounts`).

### How Ingest corresponds to the code

A step of `Collector` is what one goroutine does up to its next wait: on a channel, on
the exchange or on Kafka.

| Code | Model |
|---|---|
| the loop of `app.Run`, `WSManager.Start` and its cancel | `app`; `StartStream`, `RouterEnds`, `StopLoop`, `CloseAll` |
| `connector.run`, `connect`, `subscribe`, `readLoop` | `runner`; `CheckGoesOn`, `CheckStops`, `Connect`, `ConnectFails`, `Subscribe`, `SubscribeFails`, `ReadNext`, `Receive`, `ReadFails`, `ReadStops` |
| `startPinger`, `cancelPing` | `pinging` (of the open connection), `leaked` (of closed ones) |
| the channel of `ws.go`, that of `client.go`, their `default` branches | `raw`, `out`, `dropped`; `Forward`, `ForwardEnds` |
| `DispatchRouter.Run`, the processors, `Publish` inside `backoff.Execute` | `Route`, `Send`, `SendFails`, `GiveUp`; `cur`, `failed` |
| a topic at the broker | `topic` |

A message is its place in the feed. No buffer or topic holds text; the feed gives
the event type, and `malformed` stands for a trade that does not parse. A read
blocked on the socket ends after a signal because the pinger is gone and no pong
extends the deadline any more (`ReadStops`).

| Code | Model |
|---|---|
| `group.Consume`, a session | `Join`, `session[m].alive` |
| `ConsumeClaim`, the handler, `MarkMessage` | `Fetch`, `HandlerAccepts` or `HandlerRefuses`; `fetched`, `busy`, `marked` |
| sarama: commit in the background and at the end of a session | `Commit`, `EndSession` |
| the coordinator: assignment, a missed heartbeat | `owner`, `Evict`, `NoticeEviction` |
| a process that dies | `Crash` |

The coordinator gives a partition to one member, but a member it has evicted goes
on with the message it holds: `owner` and `alive` differ in between, and its
late commit is refused.

### How Gateway corresponds to the code

| Code | Model |
|---|---|
| a request in the chain | `slot[s]`: where it is (`at`), what it asks for (`q`), when it was let in, the limiter entry it holds |
| `JWTMiddleware`, `JWTCache.Get`, `Put`, `cleanupLoop` | `NoBearer`, `LookUp`, `Validated`, `ValidationFails`, `SweepCache` |
| `RBACMiddleware`, `findMatchingRoles` | `RBACPasses`, `Forbidden`, `RequiredRoles` |
| `RateLimitMiddleware`: `LoadOrStore`, `Allow`, the cleanup | `LoadEntry`, `Admit`, `TooMany`, `SweepBegins`, `SweepLooks`, `SweepDeletes` |
| `routes.go`, the handlers | `Routes`, `HandlersOf`, `CallService`, `CallSucceeds`, `CallFails`, `Unserved` |
| `UnaryJWTInterceptor`, the RBAC interceptor of auth | `CallPasses`, when `guarded` |

`limiters` maps an identity to an entry and `entries` holds the buckets, because a
request may go on with an entry that the sweep has deleted. The clock is coarse:
it stands still while a request is between two accesses to the limiter. `guarded` is
chosen once: with the interceptors, as the repository starts the auth service, or
without them, which shows what the gateway does when its calls are answered.

### How CandleStreams and TableReads correspond to the code

| Code | Model |
|---|---|
| `StreamCandles`, `SubscribeCandles` and their client | `rpc`, `gone`, `got`; `SendEvent`, `SendAnswer`, `SendLost` (taken when the client has left), `Return`, `Leave` |
| the goroutine of the requests | `requests`; `Subscribe`, `Acknowledge`, `RequestsEnd` (close of the answers), `CancelStream` (the cancel after it) |
| `ConsumeCandles`, `ConsumeClaim` | `reader`, `inbox`; `Skip`, `Take`, `Hand`, each with `MarkMessage` |
| the loop of `Consume` over the sessions | `SessionBegins`, `SessionRefused`, `SessionEnds` (its context is done), `SessionBreaks` (Kafka ends it), `SessionFails`, `PauseEnds` |
| what the group has marked, what of it is committed | `position`, `committed`; `Release`; `marked`, `again` (history) |
| the relay, `sentCount`, `ackCount`, flow control | `relay`, `carried`, `answers`, `counts`; `RelayTakes`, `RelaySends`, `RelayLooks`, `RelayWarns`, `RelayPanics`, `RelayEnds` |

An event is its offset. sarama holds the group's lock for one `group.Consume`, that is
for one session; between two of them any call that waits may be next. The group's
offset is one for all calls of the process: an event that one call's session marks as
foreign is not seen by the others. When a session ends, Kafka may refuse its last marks
(at most `MaxLost`, counted in `breaks`), and the events come again, to whoever is next.
Other processes of the group are not modelled: docker-compose.yml starts one.

| Code | Model |
|---|---|
| `ExecuteSQL`: server, use case, `isSafeSelect` | `Execute`, `Admitted`, `IsSafeSelect` |
| one turn of the loop of `prepareQuery`, `ReplaceAll` | `PrepareQuery`, `Bind`, `Replaced` |
| the query at the database | `RunQuery`, `Answer` |
| `ListSymbols` and a client that follows its tokens | `BeginListing`, `ListSymbols`, `Selected` (what the statement gives), `Page`, `ListFails` |
| the preprocessor's first row of a symbol | `Insert` |

A query is the list of what follows its colons. A name is the sequence of its
letters, since what matters is whether one name begins another, and whether a digit
comes next: `PositionRead` is the position the database reads when what is left of a
name follows `$1` at once. A text is taken to have no positions of its own, and no
colons inside quotes.

### How ServiceLifecycle corresponds to the code

A program is data: `Config(p)` says which keys have a default, which are known to
viper at all and which are required; `App(p)` gives the steps of its `Run` in order
and the goroutines of its errgroup; `Kind(s)` says of a step how it may end and
what its close works with.

| Code | Model |
|---|---|
| `main`: load, signal context, exit code | `LoadConfig`, `Signal`, `Exit` |
| `Load`: file, defaults, environment | `Loaded` |
| the first half of `Run` | `Open`, `OpenFails`; with retries `AttemptFails`, `GiveUp`, `FirstPause`, `NextPause` |
| `errgroup.Go`, `Wait`, what `Run` makes of the error | `StartTasks`, `Return`, `WaitReturns`, `RunResult` |
| `httpserver.Run`, its requests, `Shutdown` | `ListenFails`, `RequestArrives`, `RequestEnds`, `Drain`, `Drained`, `DrainTimesOut` |
| the loops of collector and preprocessor; `grpcServer.Serve` | `LoopStops`, `TaskFails` |
| the deferred closes | `opened`, `Close` |

### Properties

Of one bar: `WindowOfFirstTick`, `SummarisesPrices`, `SumsVolumes`.

Under every disturbance:

- `CountsDeliveredTicks`: no copy of a bar, in memory, in Redis, in the table or on
  the topic, counts a tick more often than it was delivered, or one of another symbol.
- `OneBarPerWindow`: all starts are on the grid, and no window has two rows or two
  partial bars. Four writers and readers compute the key by themselves.
- `TicksInWindow`: if ticks come in time order, none from the future, in one
  session, a bar holds ticks of its own window only. `update` does not check it.
- `PublishedWhenOver`: except at shutdown, a bar is published only when its window
  is over, though the flush loop judges by a clock it read before it waited.
- `PromiseKept`: the outputs implement `CandleStore`.

While no call fails and nothing crashes (`Faultless`), whatever else happens:

- `RedisMirrorsMemory`, `NoTickLost`, `NoTickTwice`, `SinksAgree`.

Under fairness: `EveryTickPublished`.

Of the auth service, under every disturbance:

- `RevokedIsRefused`: who comes with a token that is revoked by then gets past no
  check, whatever other requests do between its statements.
- `HeldIsStored`: a token that was given out has its row.
- `CopiesAgree`: rows that retries of `Login` left of one `jti` are revoked together,
  so it does not matter that `FindByJTI` reads any one of them.

While nothing fails and nobody goes away: `UsedIsRevoked` (a token that was replaced
is revoked) and `SessionKept` (a token that was replaced has a successor that the
client holds or is about to get). Under fairness: `RevokeSurvivesErrors`.

Of the way in:

- `TopicInOrder`: a topic holds its messages in the order of the feed, a second copy
  next to the first, over reconnects, drops and sends applied but reported as failed.
- `ClosedWhenIdle`: when `Run` closes the producer and the connector, the reader has
  ended and everything it read is dealt with. Nothing else keeps `Close` from racing
  `connect`.
- `PingersBounded`: only refused subscriptions leave a pinger behind, one each, and
  none outlives its stream.
- `CommittedIsDelivered`: through rebalances, evictions and crashes the group
  passes over no message that no handler has returned for.
- Under fairness: `CollectorStops`, `LogIsCommitted`.

Of the gateway:

- `RateBound`: over any stretch of time an identity gets at most two full buckets and
  what drips in meanwhile. The sweep may delete the entry a request has just used;
  the bound says what that costs.
- `AuthorisedWhileValid`: behind the JWT check a token had not expired when it was let
  in, on the word of the auth service or of the cache.
- `GuardedLetsNobodyIn`: with the interceptors of the auth service in front of
  `ValidateToken`, no request passes.

Of the ways out:

- `NothingLostInside`: what a client has, and what is on its way to one that stays, is
  in order but for what Kafka gives again, and without a gap but for what the session
  of another call took, through every goroutine, channel and session.
- `GoroutinesEnd`: when a method has returned its goroutines end, but for the three ways
  out that the code leaves open (below).
- `BoundByName`: whatever the order of the map, the positions the database reads are
  those of the values, unless a digit follows a parameter's name in a longer one; and
  each name has its own value if no parameter's name begins another.
- `ListingMissesTokensOnly`: a listing is in order, without repetition, and misses
  nothing that was there from the start but the symbols it used as tokens.

Of a process: `DependentsClosedFirst` (nothing is closed under what works with it),
`RequestAnswered` (a request is cut only if it outlasts the graceful stop),
`PausesWhenConfigured`, and under fairness `SignalEnds` for the programs without a gRPC
server.

### Disagreements

Three runs expect a violation; each is a statement of the source that the code
does not keep.

- `agg_restore`: `Process` "updates the corresponding bar", but the tick that
  restores a bar from Redis is not added to it.
- `auth_reuse`: a token that was used is to be refused as "already used or revoked",
  but two requests that read it before either revokes it both get a successor.
- `reads_stuck`: `Consume` blocks "until the context is cancelled", but its handler
  waits for room in a channel that nobody reads any more, and holds the consumer
  group of the whole process.

Others follow from a definition of a model, or were met in translating the code;
no run is spent on them.

*preprocessor.* A shutdown publishes every open bar, though `kafkasink.go:21` speaks
of finished candles. The insert ignores a conflict (`timescale.go:79`), and under lag
what it ignores is a second bar of the window with other ticks in it. A message
whose handler fails is passed over by the commit of the next one, though
`kafka/interface.go:28-30` says it is not committed.

*collector.* Its README (`src/services/market-data-collector/README.md`, lines 18-19) promises a blocking send, so that no message is
lost; the code drops at two channels (`Receive`, `Forward`). Environment variables
are documented as `COLLECTOR_`, the code reads `MARKETDATA_`.

*auth.* `ExistsByUsername` (`user.go:48`) compares the error of a pool of pgx 5 with
`ErrNoRows` of pgx 3, so every registration fails. The default secret `""` passes
`Validate`, and `NewHS256` then refuses it.

*gateway.* It validates tokens over a call that carries none, and the interceptor of
the auth service refuses it: with the services as configured every request gets 401
(`GuardedLetsNobodyIn`), those of the "Public endpoints" (`routes.go:26`) too, which
stand behind the JWT check like all others. The rule on `GET /candles` matches no
route. `ValidateToken` gives no user name, so the limiter counts by address. The
shipped configuration has no `telemetry.service_name`, so the program does not start.

*analytics-api.* `GetCandles` passes the protocol's name of the interval where
`interval.Duration` wants `1m`, so every call fails (`GetCandlesAnswers`); the streams
read topics named likewise, which nobody writes. Without a token `ListSymbols` sends
a statement with `$2` and one value (`ListFails`). A page's token is the first
symbol of the next page, which then begins after it. When a subscriber ends its
requests while an event is on its way, the relay sends into a closed channel and
the process is gone (`RelayPanics`). All calls share one consumer group, whose lock
one session holds, so one client gets events and the others wait; and when Kafka ends
that session another call's may pass over events the first client asked for.

*query-service.* Parameters are replaced as text (`repo.go:149`): with `p1` replaced
first, `:p10` becomes `$10`, a position without a value or with another parameter's;
with `p10` first all is well. The order is that of a map. `rows.Err` is not looked at after the loop: a result cut off by a
lost connection is answered as a whole one.

*lifecycle.* Run functions, the collector's apart, ask whether the context of the
errgroup is cancelled, which the first failed task has done: the failure is logged
as a clean shutdown and the process exits with 0 (`RunResult`). Nobody stops the
gRPC servers: a signal does not end auth, analytics-api or query-service. No pause
is configured with a multiplier, and `backoff.Config.ApplyDefaults` is called by
nobody: the first retry waits, the others do not (`NextPause`). A limit of zero is the
library's fifteen minutes. `required_acks` other than all contradicts the idempotent
producer (`SaramaConfigBuilt`).

`UsedIsRevoked` and `SessionKept` are stated without faults because `Refresh` goes on
when its revocation fails and cannot take it back when its INSERT does.

Because `Process` does not add the restoring tick and loses bars of a failed flush,
`NoTickLost` is stated for runs without crash or failed call. It is not vacuous
there: lag, redelivery, late and future ticks, shutdowns with their restart and
every interleaving with the flush loop remain.

## Runs and bounds

| Run | Instance | Shows |
|---|---|---|
| `candle_history` | 3 ticks, 3 prices, 4 instants, duration 3 | the three bar properties |
| `agg_faults` | 1 interval of 2, clock to 4, 2 ticks, one crash and one failed call | the five properties that hold under every disturbance |
| `agg_disorder` | intervals of 1 and 3, clock to 3, 2 ticks, one lost session, one misplaced tick | the four properties of fault-free runs |
| `agg_live` | 1 interval of 2, clock to 3, 2 ticks, one SIGTERM, fairness | `EveryTickPublished` |
| `agg_restore` | 1 interval of 2, 2 ticks, one crash | the disagreement |
| `auth_tokens` | 2 requests, 2 names of which one has an account, 2 tokens, 2 attempts, one failed statement, one request cut off, fairness | the six invariants of `AuthTokens` and `RevokeSurvivesErrors` |
| `auth_reuse` | the same with 3 tokens and no fault; requests are symmetric | the disagreement |
| `ingest` | a feed of trade, depth, trade; channels of 1; one failed call; 2 members, one rebalance or crash, one refused message; fairness | order, closes, pingers, commits; that the collector stops and the log is committed |
| `gateway` | 2 requests at once out of 4 kinds, 2 tokens of which one expires, one address, rate, burst and ttl 1, clock to 4, guarded or not; slots are symmetric | the three properties of `Gateway` |
| `read_apis` | one call of either kind, each for a symbol of its own, 4 events, channels of 1, window 1, one session broken, refused or ended without its last mark; 10 queries with at most 3 parameters; 4 symbols, pages of 1; fairness | the properties of the ways out |
| `reads_stuck` | one `StreamCandles` call, the same log | the disagreement |
| `service_lifecycle` | the six programs, every file and environment over 7 keys, 2 attempts, one request, fairness | the properties of a process |

Why the bounds are enough to be interesting: two ticks suffice to open and extend,
or open and replace, a bar, and one lets the flush loop compete for it. A clock of
4 passes the end of two windows of 2 and the expiry of a Redis key (twice the
interval); with a clock of 3 the interval of 3 still ends. One failed call can be
either sink, the save, the load or the delete, and one crash falls between any two
steps, including in the flush at shutdown. Intervals of 1 and 3 nest as 5m and 15m
do: one tick ends the bar of one and extends that of the other. One symbol is
enough because symbols share nothing but the mutex; the proofs are for any number
of symbols, intervals, ticks and disturbances.

Two requests are enough for every race over one token, since a request touches the
rows of the token it came with and of the one it makes only; two tokens give a
login and a refresh, or two logins, and three of `auth_reuse` two refreshes of one
token. With two attempts a failed
one can be followed by a success, and with one failed statement the retry of
`Login` leaves two rows of one `jti`. The proofs are for any numbers.

Of the collector, three messages over channels of one fill both channels, so that a
message is dropped at either; depth between two trades goes to the other topic. One
failed call may be a connect, a subscription, a read or a send, applied or not, and
the signal comes at any point of it. Two members are enough for a handover with a
late handler; one rebalance makes every message before the commit come again.

In the gateway the time is what matters: with a ttl of 1 and a clock to 4 an entry
can be used, expire, be looked at by the sweep, be used again and be deleted, and one
more burst be spent from the new one; the token that expires at 2 is in the cache
past its time. A second address would share nothing with the first. The assumption
`2 * Burst <= Rate * (Ttl + 1)` says that two buckets drip in before an entry can be
dropped; the code's figures (10, 5 per second, 10 minutes) keep it by far. That one
bucket does is not enough: with a burst of 2, rate 1 and ttl 2 TLC finds the bound
exceeded.

Of the live calls, two compete for the group, each for another symbol: three events
of one fill a channel of one and the reader's hands, and the one of the other lies
between them. One break (`MaxBreaks`) is enough for a session to be taken over by the
other call, which passes over an event the first one lacks, and with one mark lost
(`MaxLost`) for an event to come twice; both states are reached. Of the four symbols in
pages of one, a listing gives one, skips one, gives one and skips the last (tokens 1,
3, 5), two borders, and rows are inserted before, between and after the pages. The
names of the queries begin one another, with a digit after it or not, are repeated, or
have no parameter. For a process, two failed attempts show a first and a second
pause; more than one request would be waited for alike.

Deadlock is checked in the runs of `Aggregator`, `CandleHistory` and `Gateway`, whose
systems never stop. It is not checked in those of `AuthTokens`, where tokens run out
(`MaxIds`) and a request that would generate another waits for ever: a bound of the
model; nor in `service_lifecycle`, `ingest` and `read_apis`, where processes exit,
stop, crash or wait for clients that do nothing.

## Fairness

`FairSpec` assumes of `Aggregator`:

- weak fairness of the clock, of the steps of whoever holds the mutex (`Work`: a
  remote call returns), of the flush loop's timer, of the consumer's close, and of
  the restart (`restart: always` in docker-compose.yml);
- strong fairness of the three actions that take the mutex. Go's `sync.Mutex` goes
  into starvation mode after one millisecond and hands the lock to the first
  waiter, so whoever keeps asking gets it even when others ask too.

Nothing is assumed of the producer, the commit in the background, SIGTERM,
crashes or lost sessions.

`FairSpec` of `AuthTokens` assumes weak fairness of every request's next statement: it
returns, with an error at the latest when the request's context ends. That
clients come, cancel or let tokens expire is not assumed.

`Spec` of `Ingest` assumes weak fairness of what the goroutines of the collector can
do by themselves (`CollectorProgress`) and of each member's joining, fetching,
handling, committing and noticing. Not assumed: that the exchange sends anything,
that a connection or a send fails or a retry is given up before the signal, that a
rebalance comes or that a handler refuses. That a read ends after a signal is the
read deadline of `ws.go`; that `Send` may always succeed in the end is the bound on
faults.

`StreamFairness` is weak fairness of each call of the analytics-api by itself, since
its goroutines wait for one another and Go runs what can run. Clients may do
nothing, and nothing is assumed of Kafka (`KafkaActs`). `GoroutinesEnd` asks in addition that the group be free again and again of
other calls: one that is never left keeps it for good.

`FairSpec` of `ServiceLifecycle` is weak fairness of `Progress`: a goroutine that can
run does, a connection attempt returns, the timer of the graceful stop fires.
Whether a handler ends or a task fails is open. Nothing is assumed of `Gateway`,
whose properties are safety.

## Proofs

All theorems are of the form `Spec => []P`, for any symbols, intervals, durations,
bounds and budgets that satisfy `AggregatorAssumption` and `NoneAssumption`; for
any requests, accounts, tokens, attempts and budgets that satisfy `AuthAssumption`;
for any values that satisfy the named assumptions at the head of `Gateway`, of
`Collector` and `Ingest`, and of `CandleStreams` and `TableReads`; and for the six
programs with any file, environment and number of attempts (`ServiceLifecycle`, whose
programs are not parameters but what the repository ships). Every invariant a run
checks is stated by a theorem.

- **The grid** (`CandleTheorems`): an instant lies in the window it is aligned to,
  aligning twice changes nothing, and the window is unique.
- **One bar** (`CandleHistoryProofs`): `WindowCorrect`, `PricesCorrect` and
  `VolumeCorrect`. The reference of the last is a sum by recursion over the ticks, about
  which nothing can be proved by induction here. `VolumeInv` goes around it: there
  is a function with the sum's equations, and every one that has them ends with the
  bar's volume; a step extends the function by one place, and the sum is one of them.
- **Places** (`AggregatorProofs`): `Placed` is `TypeOK` with where the holder of the
  mutex can be: the stage determines whether there is a current bar, that the
  current bar is in `todo` and open, that a bar to be flushed is over unless the
  shutdown flushes it, and the offsets' order. `TypeOK` alone is not inductive: that
  `buckets[cur]` is a bar when it is saved follows from the stage.
  `PublishesOnTime` needs in addition that the flush loop's instant is not after
  the clock, and that no bar of its `todo` was replaced since it took the mutex.
- **Contents** (second part of `AggregatorProofs`): `StoreInv` says of every bar, open or
  stored, what `CountsDeliveredTicks` and `TicksInWindow` say, and adds how
  deliveries relate to the position in the log, so that a tick in hand has been
  delivered once more than any bar has counted it. `Implements` maps a step that
  writes a row to `Record`, one that publishes to `Publish`, `BeginProcess` to
  `Deliver` and every other to a stutter.
- **Loss** (third part): `LossInv` adds, for runs without fault, the
  relation of Redis to memory at each stage, that each bar in the hands of a
  flush is in the table before it is on the topic, and that a tick is counted, in
  hand, or not delivered. `MirrorCorrect` is needed for the rest: it is because
  Redis holds nothing but open bars that `Restore` cannot bring back a bar that
  was published and count its ticks a second time.

- **Tokens** (`AuthProofs`): `IInv` adds to `TypeOK` what the properties rest on:
  `Pending`, a token that is still to be stored is known only to the request that
  generated it, so nobody can have revoked a row that a later attempt doubles;
  `Presented`, requests come with tokens that are held; `LateIsRevoked`, what was
  revoked on arrival still is when it is looked up. `RevokedIsRefused` then
  follows from `CopiesAgree`: the row that `FindByJTI` reads speaks for all. `Chain` adds,
  for runs without fault, `Handover`: the old token is revoked before its successor is
  stored, and the successor's INSERT finds its id free.

- **Who is let in** (`GatewayProofs`): `IInv` is `TypeOK`, `CacheHonest` (an entry of the
  cache says the expiry of its token), `AuthorisedWhileValid` and
  `GuardedLetsNobodyIn`. The cache may say yes at the instant of expiry itself,
  when `Parse` says no already: hence `<=` and not `<`. Guarded, the call of
  `ValidateToken` carries no token, `Validated` is never enabled
  (`NoAnswerWhenGuarded`), and only it fills the cache.
- **The rate limit** (`GatewayProofs`): `RateBound` counts what was let in, and `RateInv`
  relates it to what still can be: `InHand` is what an address may spend at once, from
  its entry and, when a deletion is decided or done, from the full bucket that will
  replace it. `SpendOK`: what passed since any instant, and what is in hand, are within
  two bursts and the drip. `StaleOK`: a request holds a deleted entry in the tick of its
  deletion only, since the clock stands still meanwhile. `SeenOK`: nothing passed since
  the entry was last seen, so that in the ttl that makes the sweep delete it two
  bursts have dripped in. `PastOK` keeps the bound for stretches that are over. `Owned`
  and `Sweeping` say that no two addresses share an entry and what the sweep has decided.
- **The way in** (`IngestProofs`): the collector and the group have an inductive
  invariant each. `CInv` adds to the types `Stages` (which goroutine can be alive when
  the loop of `Run` is where, and what its end leaves empty) and `InOrder`: topics,
  the message at the processor, the second channel and the first hold, in this
  order, messages of rising places, none beyond what was read. `TopicInOrder` alone
  is not inductive: it needs all that is still on its way. `GInv` adds `SessionsOK`:
  whatever a member has marked, or fetched before the message it holds, was given
  to a handler that returned; a member that lost its partition keeps it all the
  same. The two meet in `Inductive`: a step of one leaves the other's variables
  alone, and `GInv` says nothing of the log.

- **The ways out** (`ReadApisProofs`): three invariants that share no variables, so a
  step of one half leaves the others alone. `StreamInv` is about `Pipeline`, what the
  client has with what is on its way: every step but `Hand` and `SendLost` moves events
  along it (`RelayWarns` puts a warning between them), `Hand` adds the event at the
  position at its end, and `SendLost` happens only to a call of which nothing more is
  asked than what its client has (`WholeStreams`). `NothingLostInside` alone is not
  inductive: that nothing is left out before the next event needs `UpToPosition` (of a
  call that is served the pipeline is complete to the position, but for what other
  sessions marked, and beyond the position there is only what comes again), which
  needs `OneSession` (no other call moves the position) and `HandsWanted` (a reader that
  waits for room stands at an event of its symbol). A session that loses marks sets the
  position back and adds the events to `again` (`SetBack`). `Marked` bounds the count of
  the events sent. `BindInv`: a place that
  is taken begins with the name of its value (`PlaceOfValue`), each value has a place
  (`ValueUsed`), and a name the loop has been through begins no place that is left
  (`NoneMissed`); if no name begins another, beginning with a name is being it. Unless a
  digit is left over (`LeftOver`), the position read is the one written.
  `ListingInv`: what was given is below the next token (`BelowToken`), and everything from
  the first token to the last that was there all along was given or was a token
  (`GivenToToken`).
- **A process** (`ServiceLifecycleProofs`): the steps of every program have rising ranks
  (`Rising`), and a close works only with what has a lower one (`UsesEarlier`). `IInv`:
  what is open is in this order and without a gap (`InOrder`, `NoGap`), complete until the
  closes begin (`KeptOpen`), and `Stages` says which tasks and requests there can be in
  each phase. `RequestAnswered` and `PausesWhenConfigured` are parts of it.

Only model-checked: what needs fairness (`EveryTickPublished`, `RevokeSurvivesErrors`,
`CollectorStops`, `LogIsCommitted`, `GoroutinesEnd`, `SignalEnds`), because the prover
knows nothing of ENABLED, and the violations.

## Not modelled, and the plan

- The statement of `QueryCandles`: nothing reaches it, because the check of the
  interval before it fails for every request. Its `time > start`, where
  `analytics.proto:26` says inclusive, would matter once that is repaired.
- The INSERT of `Register`, for the same reason.
- Handlers of the gateway without a route: `Me`, `Logout`, `GetSymbols`, `GetOrderBook`.
- Two preprocessors over one Redis: `Aggregator` has one consumer. After a rebalance
  the old replica still holds bars that the new one restores; `ConsumerGroup` has the
  two replicas, but not their bars.
- Several partitions, floating point, jitter, bodies and rows of answers, logs,
  metrics and spans, generated protobuf code.

What is left of the plan: two aggregators over one Redis and one table, each with its
own `buckets`, on top of `ConsumerGroup`.
