# SPX Ops Dashboard: TLA+ models, checks and proofs

The repository is a Node server that keeps market data of several vendors
fresh, computes a trading signal from it, pushes alerts to Telegram and serves
a dashboard that polls it. This directory models the parts that run
concurrently with themselves (timers, overlapping refreshes, shared snapshots,
lazily made stores, senders, the polling page) and the decision that is computed
from what they left behind, up to the order on the home page. Paths below are
relative to `src/apps/api/` unless they start with `src/`.

## The system

All server code runs on one event loop. What interleaves is what happens
between two `await`s: the handlers read shared module state, await HTTP, Redis,
files or Telegram, and write shared state afterwards.

| Part | State it keeps | Operations | Talks to | Models |
| --- | --- | --- | --- | --- |
| Adaptive scheduler (`scheduler/adaptive-refresh-scheduler.js`) | a timer per endpoint, mode, quota, turbo hold, backoff | start, stop, timer callback, recordSuccess/Failure, updateQuota, updatePriceContext | calls `onRefresh`, fed by the refresh loop | `AdaptiveScheduler` |
| Refresh loop (`scheduler/live-refresh-scheduler.js`) | outstanding polls, warmup date | `runUwEndpointRefresh`, warmups, FMP price job, seeding | scheduler, provider, queue, price buffer, alerts | `LiveRefresh`, `SignalJobs` |
| UW provider (`providers/uw-api-provider.js`, `state/uwProvider.js`) | the stored snapshot | `fetchUwApiSnapshot`, `refreshUwProvider`, `readUwProvider` | UW API, snapshot store | `UwProvider` |
| UW snapshot store (`storage/uwSnapshotStore.js`) | memory snapshot, Redis client, its flags | read, write, restore | Redis, server start | `UwSnapshotStore` |
| Flow queue (`scheduler/flow-recent-queue.js`) | trades, remembered ids | append, evict | refresh loop | `FlowRecentQueue` |
| A/B watcher, trade-plan alerts, dedupe store (`state/ab-state-watcher.js`, `alerts/telegram-*.js`, `state/telegramAlertDedupeStore.js`, webhook in `routes/index.js`) | last order seen, key to time of send | detect, check, send, mark | signal pipeline, Telegram | `TelegramAlerts` |
| TradingView and Theta stores (`state/tvSnapshotStore.js`, `state/thetaSnapshotStore.js`), Theta bridge (`src/scripts/spx-bridge.mjs`) | a lazily made store object; the bridge's retries | read, write, connect, fall back, push | Redis, files, `/ingest/theta`, the webhook | `SignalStores`, `SnapshotRegister` |
| Price history, premium queue, pre-market alert (`state/price-history-buffer.js`, `algorithms/premium-acceleration-queue.js`, `alerts/pre-market-snapshot.js`) | two bounded queues, the flag of the day | push, windows, send once | refresh loop, `getCurrentSignal`, Telegram | `SignalJobs` |
| Signal pipeline (`decision_engine/current-signal.js`, `master-engine.js`) | none of its own | `getCurrentSignal`, `runMasterEngine` | every store, every engine | `SignalInputs`, `MasterGates`, `MasterRules`, `CommandCentre`, `Dashboard`, `OrderChain` |
| Decision gates, rules, raw note v2 (`decision_engine/*.js`, `rules/`, `raw-note-v2/`) | none | pure functions | the pipeline | `MasterGates`, `MasterRules`, `CommandCentre` |
| Dealer conclusion (`decision_engine/dealer-conclusion-engine.js`) | none | chain to walls, regime, path | bridge, pipeline | `ThetaDealer` |
| Engines and normalizer on UW data (`engines/`, `normalizer/uw-api-normalizer.js`) | none | pure functions | the pipeline | `UwFactors`, `CommandCentre` |
| Institutional algorithms (`decision_engine/algorithms/`), formatter and home view | none | pure functions | the pipeline | `PriceContract`, `GammaRegime`, `DealerWalls`, `FlowBehavior`, `PriceValidation`, `AbOrder`, `MarketRegime`, `HomeView` |
| Web front end (`src/apps/web/app.js`) | shown signal, timer, requests | poll, retry, hide, reload | `GET /signals/current` | `PageRefresh` |

What is hard here: a chain of timers that must neither double nor die; a
snapshot read before forty requests and written back after them by several
callers; a connection whose retries outlive the callers waiting for it; a store
object that is replaced while calls hold it; a bridge whose interval does not
wait for its retries; a check and a mark with a send between them; queues pushed
after an await with data read before it; and a decision spread over some forty
engines that answer for the same data one after another, each with its own
treatment of what is missing. `PROJECT.json` lists these as hazards, each with
its line and the properties that cover it.

What makes each part correct:

- scheduler: quota decides the mode before anything else; a hold is kept; shed
  or stopped endpoints have no timer; a chain ends only when its endpoint is
  skipped; a closed market drains; a live chain polls again and again;
- refresh loop: the scheduler counts the runs that exist, a chain of timer and run
  is doubled only by a change of mode beside a run, and all endpoints of the store
  are kept asked for;
- provider: `last_update` and `status` never promise more than the entries
  hold; what was fetched is not lost to a call that nobody overtook;
- UW store: memory and Redis part only by a set that is under way, failed or
  expired; snapshots reach Redis in order; the server gets through its start;
- TradingView and Theta stores: whatever they are kept in, readers see the last
  snapshot written; only overlap or a fault loses an acknowledged one;
- alerts: suppressed only if delivered, repeated within the window only by a task
  that was overtaken, announced when it matters;
- queues: no trade with an id twice, none dropped early; premiums out of order only by
  overlap; no trend from the copies of a cold start;
- decision: a ready plan rests on fresh Theta data away from events; no demo
  scenario trades; the final decision is open only on real data; the page offers
  nothing that another part of the same answer prohibits; walls and levels are
  those of the data;
- page: one chain of polls, never an older signal after a newer one, and in the end
  what the server knows.

## Modules

State machines:

| Module | State | Actions and the code they stand for |
| --- | --- | --- |
| `AdaptiveScheduler` | `phase` (wall clock), `started`, `mode`, `usage`, `turboLeft`, `trigger`, `due`, `running`, `status`, `penalty`, `backoff` | `Start`, `Stop`, `UpdateQuota`, `UpdatePriceContext` are the public methods, `EvaluateMode` being `_evaluateMode` with `_setMode`; `TimerSkipsRun`, `TimerStartsRun` the timer callback up to its await; `RunSucceeds`, `RunFails` the rest of it with recordSuccess or recordFailure and the next timer; `Tick`, `AdvancePhase` the clock |
| `LiveRefresh` (on top of `AdaptiveScheduler`) | the scheduler's, `left`, `poll` (runs of one endpoint in slots), history | `PollStarts` to `PollEnds` are `runUwEndpointRefresh`, of which two may be out for one endpoint; `WarmupStarts` the warmups; `SchedulerAlone` what the scheduler does without the loop |
| `UwProvider` | `now`, `configured`, `memory`, `call` | `StartFetch` reads the snapshot and sorts endpoints into cached and to ask; `EndpointAnswers`, `EndpointFails` one request; `FinishFetch` assembles and writes; `RewriteRefreshed` is the second write of `refreshUwProvider`; `RefreshUnconfigured` the early returns |
| `UwSnapshotStore` | `redis`, `memory`, client flags, `op`, `booted`, history | `WriteSnapshot`, `ReadCold`, `ReadWarm` the calls; `Connect*`, `Poll*` the steps of `getRedisClient`; `SetServed`, `GetServed`, `ReplyArrives`, `CommandFails` the command behind it, its reply and its rejection; `RedisExpires`; `Crash` a restart with its restore |
| `TelegramAlerts` | `market`, `lastState`, `task`, `dedupe`, history | `StartTask`, `DetectChange`, `CheckPlan`, `ComputeFails`, `SendSucceeds`, `SendFails` are the pieces of the two microtasks between awaits |
| `FlowRecentQueue` | `now`, `tape`, `page`, `queue`, `seen` | `AppendPage` is `append` with `_evict`; `Fetch` the page a refresh brings; `Restart` a new process |
| `SignalStores` | `store` (the singleton), `redis`, `disk`, `memory`, `call`, `push`, `bridge`, faults | `BeginRead`, `Arrive`, `Connected`, `Refused` are `getStore` and `initializeStore`; `Take`, `Put`, `Fill`, `WriteFails` read and write (a file is emptied, then filled); `BeginPush`, `Accepted`, `PostFails`, `PostAgain` the senders and `postWithRetry`; `Expire`, `Restart` the TTL and the process |
| `SnapshotRegister` | `kept`, `offered`, `writing`, `contended`, `faults` | the abstract store that `SignalStores` implements: `Offer`, `Write`, `Written`, `Fault` |
| `SignalJobs` | the stored `feed`, `fetch` of each refresh, `prices`, `premiums`, `call`, `warm`, the flag `sent`, clock, history | `FetchBegins`, `Answered`, `FetchEnds` are `fetchUwApiSnapshot`, which writes back what it read; `PollBegins`, `PollEnds`, `FmpPoll`, `ColdStart` the polls and the seeding; `BeginClient`, `RefreshBegins`, `Gather`, `Finish`, `Return` the pieces of `getCurrentSignal` between its awaits; `Minute` with `MaybeSend`, and `EndJob`, the pre-market job |
| `Dashboard` | `tv`, `theta`, `feeds`, `left`, `signal` | `Webhook`, `BridgePush`, `BridgeFails` store; `Feed` is what FMP and UW answer; `Signal` decides (`Answer` of `CommandCentre`); `Tick` the clock |
| `OrderChain` | `queue`, `page` | `ServePage` runs the institutional part of `getCurrentSignal` in its order (`Located`, `Judged`, `Ordered`, `PageOf`) and pushes the premium; `DeliverPage` hands the answer to the client; `AgeQueue` lets time pass |
| `PageRefresh` | `version`, `phase`, `hidden`, `timers`, `requests`, `handle`, `got`, `shown` | `FirstOk`, `FirstFails` the first load; `PollOk`, `PollFails` (a poll that is lost, or whose answer cannot be rendered), `PollTimer`, `RetryTimer` the chain of polls; `Turn` hides and shows the page, `Reload` loads it again; `Change` and `Serve` are the server, an answer or its loss |

Operators (no state), each named for the function it translates: `PriceContract`,
`GammaRegime`, `FlowBehavior`, `AbOrder`, `PriceValidation`, `MarketRegime`,
`HomeView` extend one another in the order of the calls, with `DealerWalls`
beside them, below `OrderChain`; `ThetaDealer`, `SignalInputs`, `MasterGates`,
`MasterRules`, `UwFactors`, `CommandCentre` below `Dashboard`; `Values` below
both has `??` and the `Number(null)` of the code, the stable `sort` and
the `filter` of arrays. The engines hand on records as
the code does: in `MasterGates` the record of a call takes up what each engine
found (`Mastered` is `runMasterEngine`, `With` the record with one more finding), in
`CommandCentre` the record of Unusual Whales does (`Manned`, `Noted`).

`LiveRefresh` extends `AdaptiveScheduler` and conjoins its actions with those of
the loop. `SignalStores` states `RegisterSpec == Register!Spec` under the mapping
kept = what a read that begins now would find. Each `MC` module gives a component
small tables and named values; components whose constants need none are checked as
they stand. An operator whose comment calls it a mutant is a plausible wrong form of
the one it stands beside, which the property named in `PROJECT.json` refutes.

Abstractions. A snapshot is the times its parts were fetched, or its number in
the order of building; a trade is its position on the tape; an order keeps the
fields that are compared. Instants that code compares with the clock are kept as
ticks left or ages. Prices are whole points, premiums millions or hundreds of
thousands, ratios tenths: each unit fine enough for every threshold of the code
to have values on both sides. Interpolated levels and clamped scores are rounded
to such a unit. Message texts, logs, wording and layout are left out.

Outside `src/`: the Redis client (redis 5) retries a failing connection with
its default strategy, so `connect()` stays pending and emits `error`; a rejected
`connect()` comes from errors it does not retry. Commands on one client take
effect in the order they are sent, those of two clients in any order, and any of
them may be rejected. What a process sent before it died has taken effect or is
lost by the time the next one has connected. Unusual Whales dates its trades, but
may leave out an id. Telegram accepts or rejects a message. A
browser runs a page's timers, and fires `fetch` answers or errors.

Environment assumed: `UW_IGNORE_MARKET_HOURS` unset, Telegram enabled and
configured in `TelegramAlerts`, UW configured in `LiveRefresh` (in `UwProvider`
both cases); in `Dashboard` the stores are shared ones, the answer of a request
is short against a tick; in `OrderChain` one call runs at a time (`SignalJobs`
has calls that overlap) and the injected values of acceptance tests
(`mock_spot` and the like in a scenario) are not used.

## Runs

Bounds are constants named in each module; every run explores all behaviours
within them.

| Run | Shows | Instance |
| --- | --- | --- |
| `AdaptiveScheduler` | `SchedulerInv` (types, mode follows quota and hold, what is stopped or shed is quiet, backoff means failing), `DropsOutOnlyWhenSkipped`, and two liveness properties | a critical and a shed endpoint, all seven phases, quota at 0, 80 (rounded up) and 90 percent, two overlapping runs per endpoint |
| `LiveRefresh` | `LoopInv` (types, runs counted, one chain unless spurred), `AllEndpointsAskedFor` | one polled endpoint with two runs at a time, one only fetched along, the warmup as another poller |
| `UwProvider` | `ProviderInv`, `LiveDataIsRecent` under overlap, `UndisturbedCallAdvances` | a core endpoint with a short TTL, another with a longer one, two callers (symmetric), four instants |
| `UwSnapshotStore` | `StoreInv` (types and agreement), `WarmWritesInOrder`, `SchedulerStarts` with a Redis that can be reached (`RedisReachable`) but whose connections and commands fail at any time | three outstanding calls, four snapshots, one restart |
| `TelegramAlerts` | `AlertsInv`, `RepeatedOnlyWhenOvertaken`, `HighSeverityAlwaysAnnounced` | two tasks of each kind, three orders that cross every check, two plans, two signals, a window of two ticks |
| `FlowRecentQueue` | `QueueInv`, `YoungTradesKept` under overlap | two refreshes, pages of two, limit three, four trades of which one has no id, six instants, age two, memory three |
| `SignalStores` | `StoresInv`, `OlderOnlyAfterOverlap`, the refinement `RegisterSpec`, `CallsAndPushesEnd` | five setups of store and mode, one reader, two snapshots with two attempts each, two faults |
| `SignalJobs` | `JobsInv` with refreshes that overlap, `SeedingKeepsTrends` | one client, the pre-market job and one poller, each of which may refresh the feed, two answers of UW with a move of the price between them, three prices and two premiums kept, three instants |
| `SignalJobsPreMarket` | violated: `SnapshotArrives` | the pre-market job alone, fair |
| `Dashboard` | the six properties of the decision | eight events of the webhook, five option chains and a failing terminal, seven states of FMP and UW, three demo scenarios, six ticks to the close |
| `OrderChain` | types and six properties of the order | six sets of prices, five structures, six flows, four tapes, a queue of three entries |
| `PageRefresh` | `PageInv`, `NeverGoesBack`, `CatchesUp` | four signals of the server, the second one not to be rendered, four names for timers and requests |

Why the bounds are enough. Two overlapping runs, callers, tasks, requests or
pollers are the least that interleave, and every race found needs no more; each
table, TTL and window has two distinct values where the code compares two;
counters reach one step past each limit (backoff doubles into its maximum, the
tape is longer than page and queue, time passes age and memory, six ticks pass
both ends of the ban around an event and the end of trading). The inputs of
`Dashboard` and `OrderChain` are not ranges: each set holds a member on each
side of every comparison the properties depend on (long, short and mixed gamma;
walls far, near and missing; prices live, stale, of another ticker, absent;
flows of both signs, close, mixed, missing) and the run takes their product.
What is proved (below) holds for every bound.

Each property of a passing run has a mutant in `PROJECT.json`: a plausible wrong
form of a mapped definition with which TLC finds the property violated.

### Properties that hold for a reason worth knowing

- `NothingIsAuthorised`: no answer ever permits a strategy, gives a share of a
  position or counts as executable. `runMasterEngine` hands the sentinel no
  allowed setups, so that no event is ever `matched`, which every permission,
  the READY gate and the actionable state ask for. The mutant hands them over.
- `LivePlansAreShort`: a live call starts from the default mock scenario, whose
  bearish greeks no feed replaces, so that the regime never leans long.
- `UnblockedIsGrounded`: the final decision is blocked beside every ready plan:
  a plan needs Theta, and a Theta snapshot stands before the price of FMP, without
  which the health matrix blocks.
- `HomeObeysFlow` holds between engines that do not read each other: matrix,
  card and gates compute the state, the flow engine the prohibition.
- `SeedingKeepsTrends`: the copies a cold start adds carry the time of now, which is
  as far from the instant a window looks for as the window is long, and the first
  of equally close entries counts. They change no trend while the newest entry is
  less than two windows old; with an older one, which only a poll without a spot
  leaves, a window without a trend may report that the price is flat. They count
  only towards the number of entries that unlocks the page.
- `LoopInv`: a run that changes the mode re-arms the timer of its own endpoint
  too, and the timer its end sets replaces that one. Only another poll that
  changes the mode while the run is out starts a second run beside it.
- `StoreInv`: a set that fails leaves memory and Redis apart for good, a write
  that began beside a cold read or a connection being made may be overtaken; the
  property names these cases and claims that there are no others.
- `DarkpoolLevelIsTraded`: the center of a cluster is a mean with positive
  weights, so that it stays between the lowest and the highest print whatever the
  order in which prints join; the mutant weighs the old center with the whole.
- `ReadyNeedsFreshTheta` speaks of Theta only: a TradingView event keeps the
  staleness it arrived with and never ages (`signal-formatter` and the
  normalizer know this, `SYSTEM_DECISION_LOGIC.md` does not).

### Violated: a finding

`SnapshotArrives`: `maybeSendPreMarketSnapshot` passes a text where
`sendTelegramReal` takes an object with a text; Telegram refuses the message,
the flag of the day is taken back, and every minute of the window fails alike.

### Other disagreements met while modelling

They are stated here, and the properties are worded to what the code does.

Scheduling and data:
- `_scheduleEndpoint` sets no timer for an endpoint without an interval at the
  moment, and a change of phase sets none
  (`adaptive-refresh-scheduler.js:519`, against `:84` and `:174`): a server
  started while the market is closed polls nothing until some change of mode.
- A failed request is part of a resolved snapshot; the scheduler records a
  success and its backoff never applies to the UW API
  (`live-refresh-scheduler.js:201`).
- Minimal mode is to ask for spot, flow and net premium only
  (`live-refresh-scheduler.js:12`, `adaptive-refresh-scheduler.js:22`). It sheds the
  timers of the other endpoints, but a poll of a critical one asks for whatever has
  expired: `MinimalModeSheds` is about timers, not requests.
- The provider writes the whole snapshot back after the requests, so the slower
  of two calls restores older entries (`uw-api-provider.js:680`), and the premium
  queue may then go back to an older premium.
- With an unreachable Redis the start awaits a restore that never ends
  (`storage/uwSnapshotStore.js:99`, `server.js:120`). `withFreshness` reports
  only a live provider as stale.
- Only the new page of trades is sorted, not the queue (`flow-recent-queue.js:112`),
  and a row without an id is appended each time its page comes (`:99`).
- The dedupe store is to prevent repeated alerts within its window
  (`alerts/telegram-ab-alert.js:10`). It is read before the await of a send and
  marked after it (`:271` and `:280`, and `routes/index.js:386` for a webhook), so
  that two tasks that overlap both deliver the alert.
  `RepeatedOnlyWhenOvertaken` claims what is left: that nothing but such an overlap
  repeats one.
- The connect of one call can undo the memory fallback of another, a write that
  was acknowledged may have gone to a store that has since been replaced, and a
  torn file makes every read throw until the next write.
- A UW poll pushes a cached spot with the time of now; the historical volatility
  is computed from one sample per request but annualised as daily; the flag of
  the pre-market day is in memory, although the comment says restart-safe.

Decision:
- A missing number counts as 0 through `Number(null)` in many helpers: no Theta
  spot makes the external spot 0; missing bounds of the expected move make every
  spot an expansion; absent flow can support a ready long order; a heartbeat
  without structure replaces a confirmed one; a stop may be 0.
- A ready plan may stand around a spot of 0: the chain of one strike without open
  interest, behind an event without a price, has the external spot 0 and passes
  every gate. No property therefore asks a ready plan for a spot.
- `price_available`, which lets FMP become the external spot, is set by nobody,
  against `S_LEVEL_COMMAND_ENGINE.md`; no FMP key gives low risk where a failed
  request gives medium.
- A plan enriched by the projection gets the put wall as stop and the call wall as
  first target whatever its direction; a plan that is blocked becomes complete
  by it. The flow tree takes the dealer's own side after the dealer tree took the
  other. A condor is never allowed.
- The UW dealer asks for `gex` and `dex`, the normalizer names them otherwise:
  the dealer is neutral and mixed always. `uwApi.raw` is read for dark-pool rows
  and set nowhere. The nearest dark-pool support is the heaviest cluster.
- The confidence score cannot reach its threshold (60 of 80); the degradation is
  BLOCKED wherever a Theta snapshot exists; the health of the data never becomes
  an error by Theta.
- In the institutional part the strike at the money is the rounded spot, so that
  the trigger is always `locked`; `_notInLockZone2` reads a field nobody sets;
  plan B may be READY in the opposite direction of plan A; `homepage_locked`
  locks nothing; plan mode EXECUTABLE ignores the capital gate; a label
  BULL_DIVERGENCE may stand over an executable short plan.
- The page: a failure of the first load is final; the pace of the server
  (`ui_poll_ms`) is read under another name and never applies.

## Fairness

- `AdaptiveScheduler`, `LiveRefresh`: expired timers run and awaits settle (the
  event loop and HTTP timeouts of the platform) and time passes. Nothing is
  assumed of starts, stops, quota reports, prices or phases. In `LiveRefresh`
  time is strongly fair because a poll that runs to its end keeps the clock from
  ticking for those steps only.
- `UwSnapshotStore`: each outstanding call makes a step it can make: polls end
  after 3 s, a command is answered or rejected, and a connection settles if Redis
  is reachable.
- `TelegramAlerts`: awaits settle and time passes; the market need not move.
- `SignalStores`: a call of the store goes on (a connection settles, Redis and
  the file answer) and a sender gets an answer or a timeout; nothing is assumed
  of readers, faults or of senders building snapshots.
- `SignalJobs` (the violated run): time passes, calls and the job go on.
- `PageRefresh`: the page's timers and answers run, requests get an answer or an
  error, and one that is made again and again is answered at last (strong
  fairness of an answer that is not lost: an outage ends).

`Dashboard`, `OrderChain`, `FlowRecentQueue`, `UwProvider` state safety only.

## Proofs

TLAPS checks these for every value of the constants that their assumptions
allow. Each assumption is evaluated by TLC in the runs of its module.

`LiveRefresh_proofs` holds what is proved of the scheduler and of the loop
(assumptions: tables, bounds and orders of the constants). `TypeCorrect` proves
the types; `SchedulerInvariant` proves `SchedulerInv`, which is inductive: that a
shed endpoint has no timer needs that the mode follows quota and hold (a timer is
set by what the mode says at that moment), and that backoff means failing needs
the penalty beside the status. `EvaluateModeInv` and `RearmedInv` are its two
halves, one for the change of mode and one for the next timer of a chain.
`MinimalModeShedsTimers` and `TurboHoldRespected` are parts of it worth a name.
`ChainKept` proves `DropsOutOnlyWhenSkipped` from it, `DropStep` with one case per
action. `LoopInvariant` proves `LoopInv` for any number of slots: the scheduler's
count of runs goes with the polls that are out (`CountStep`), and the one chain of
an endpoint that was not spurred (`ChainStep`) needs the types of the scheduler,
that it has no timer before its start (`StoppedIsQuiet`, kept inside the loop by
`LoopKeepsScheduler`), and that nothing is polled then (`StopMeansNoPoll`).

`UwProvider_proofs` (core endpoints are endpoints, TTLs are natural numbers).
`ProviderInvariant` proves `ProviderInv`: every snapshot, the stored one and the
one each call took as its base, is `Sound`, and what a call has gathered is sound
beside its base and nowhere older than it. It is needed because a call writes
what it assembled long after it read its base: `LiveDataIsRecent` alone says
nothing of calls under way. `LiveIsRecent` follows. `UndisturbedAdvances` proves
the action property `UndisturbedCallAdvances`: that a call only ever replaces an
entry of its base by a newer one is what a step that ends the call needs.

`UwFeeds_proofs` has the two places where UW data is kept. For `UwSnapshotStore`,
`StoreInvariant` proves `StoreInv` and `WritesInOrder` proves `WarmWritesInOrder`,
with Redis reachable or not. Both need what holds of the calls under way while
nothing contends (`LineInv`): the sets stand in one line on one client, the newest
last, with nothing as new in Redis (`CalmLine`); the newest snapshot is among them
unless its set was lost (`NewestNotForgotten`); and what a get has picked up is
what Redis holds or has lost since (`RepliesAreTrue`). For
`FlowRecentQueue` (an id is remembered at least as long as a trade may be in the
queue), `QueueInvariant` proves `QueueInv`: that a trade is in the queue once
needs `Remembers`, that whatever is in the queue is still remembered, too old to
come again, or without an id. `YoungStay` proves `YoungTradesKept`. Both rest on `Ascending`, the
page in the order of the tape, whose existence for a finite set (`CanSort`) is
shown by a least counterexample.

`SignalStores_proofs` (at least one snapshot and attempt; names of store, reader
and request differ). The invariant `IInv` adds to `StoresInv` that whatever is
held was built (`Grounded`); that a call between two steps holds a store that was
made, and without faults the one that is in use (`Held`); that senders that never
met are alone and write the newest snapshot (`Alone`); and that a waiting sender
has an attempt left (`AttemptLeft`). Each step is proved to keep it and to be a
step of the register or a stutter, so that `StoresInvariant`,
`StoresImplementRegister` (the refinement) and `OlderNeedsOverlap` follow
together.

`TelegramAlerts_proofs` (a window and a signal at least, no task of both kinds).
`MarkedIfTold` is the heart: the dedupe store equals the history of what Telegram
accepted, though checks and marks of tasks interleave; with `Engaged` (a task
under way has its signal and an alert to send) and the types it is inductive and
gives `AlertsInvariant`. `HighSeverityAnnounced` proves the action property.
`RepeatNeedsOvertaking` proves `RepeatedOnlyWhenOvertaken` for any number of tasks of
both kinds: the alert a task is sending is unmarked unless another task marked it
since (`Unmarked`), which each send of another task, each next alert of the same one
and each tick keeps.

`SignalJobs_proofs` (limits are positive, the job is no client). `JobsInvariant`
proves `JobsInv`, although refreshes write back what they read. The order of the
premiums needs that refreshes that never met are under way one at a time and
write nothing older than they find (`Straight`), that nothing that was read is then
newer than the snapshot (`NotNewer`) and no version newer than the last answer
(`Answers`), and that calls that never met hold their premium one at a time and no
older than the queue (`OneAtATime`); the flag needs that
an attempt is made only until one has delivered (`FirstDelivery`). `SeedingKeepsEveryTrend`
proves `SeedingKeepsTrends` for every buffer, window and number of copies that
the buffer has room for (10 and 300 in the code): `CopiesKeepPrice` says that a
window finds the price it would have found without them, while the newest entry
before them is less than two windows old and not from the future (`Aged`).

`Decision_proofs` proves every safety property of `Dashboard` and `OrderChain`,
for any set of events, chains, feeds, prices, flows and tapes.
- `Dashboard` (a calendar and a price as FMP has them; a default scenario with
  both greeks negative, as in `mock-scenarios.js`). `DashboardInvariant` proves
  `DashboardInv`: an answer on its way was decided from what is stored now. The
  properties are then facts about `Answer`, and `Stages` says what the record of
  a call holds after each engine of `runMasterEngine`, so that a proof names only
  the engines it needs: `ReadyOnFreshTheta`, `EventsHoldPlans`,
  `ScenariosDoNotTrade`, `NoAuthorisation` (from `NothingMatches`), `LiveIsShort`
  (from the greeks of the scenario), `UnblockedStands`.
- `OrderChain` (rows of whole numbers; a short window no longer than the long
  one). A page is a function of its inputs and is kept until it is delivered, so
  that each property is inductive by itself; `PageStep` reduces it to the page
  `ServePage` makes, `JudgedIs` and `PageShows` name its parts. `HomeObeys`,
  `ReadyStands`, `ExecutableStands` and `TrapHolds` follow the case distinctions of
  matrix, gates and regime; `WallsBracket` needs `FirstOfHeaviest`, that the
  heaviest row of a set exists and is one of them. `LevelIsTraded` needs that
  arranging loses and invents no row (`AllRanks`, `ArrangedRows`), that the clusters
  exist (`ClustersExist`), and that joining keeps every center between two prints
  (`JoinedTraded`, the mean of `MeanBetween`). `ChainTypes` proves the types: the
  queue of premiums keeps its bound and its order in time.

Three forms were chosen for these proofs and mean the same as the code: a choice
among overlapping conditions is a chain of `IF` (the order of the code's
`if`s), sorting is `Arranged` of `Values` (of equal rows the earlier stays first, as in
JavaScript, where `SortSeq` by a strict comparison has no value), and what a loop
builds is a recursive function. What such a function computes is proved by
minimal counterexample from the well-foundedness of the natural numbers, since
the induction theorems of the library take an operator.

`PageRefresh_proofs`. `PageInvariant` proves `PageInv` for any number of versions
and names: one chain of timer and request, the timer set with the pace of the
newest signal, and nothing under way newer than it. `OneChainOnly`,
`PacedByTheNewest` and `ShownAdvances` (`NeverGoesBack`) follow.

Only model-checked is liveness, which is out of the prover's reach:
`KeepsPolling`, `ClosedMarketDrains`, `AllEndpointsAskedFor`, `SchedulerStarts`,
`CallsAndPushesEnd`, `CatchesUp`, and the violated `SnapshotArrives`. Every
invariant and every action property of a passing run is stated by a theorem.

## Not modelled

- What a page shows: rendering in `src/apps/web/app.js` beyond the polling loop,
  cards, texts and layout of formatter and home view, and the display algorithms
  (`flow-conflict-engine.js`, `control-side-engine.js`, `price-trigger-engine.js`,
  `trade-execution-card.js`, `volatility-engine.js`), which no gate reads.
- Jobs and tables without effect on a decision: the refresh policy and the news
  job of Brave, the refresh log, the Theta job's health report.
- The earlier path for DOM summaries of Unusual Whales (reader, ingest and its
  store): proofs of concept and discovery tools; the store repeats the pattern of
  the Theta store.
- The Python bridge and the HTTP clients; parsing of vendor payloads beyond the
  factors that decisions read; `uw-normalizer.js`, whose walls and dark-pool
  levels are inputs of `OrderChain`.
- Rows of trades without a time of execution: Unusual Whales dates its trades.
- File mode of the UW store (`SignalStores` has the file mode of the others), and
  operations that only tests call (`clear*`, `reset`).
- Authentication, static files and read-only routes; the shape checks in
  `src/packages`.
- Values injected for acceptance tests in the institutional part.

Worth doing next: calls of `getCurrentSignal` that overlap in `OrderChain`, with
the price buffer of `SignalJobs` as its input; the dark-pool levels of the
normalizer in place of their input sets.
