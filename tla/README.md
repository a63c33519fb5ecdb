# ProberMesh in TLA+

ProberMesh is one Go program with two modes. A **server** keeps track of live
agents, hands out what to probe, aggregates what was measured and exposes it to
Prometheus. Many **agents** report themselves, fetch targets, probe them with
ICMP and HTTP, and report the results. This directory holds TLA+ modules of that
system, TLC configurations that check them on small instances, and TLAPS proofs
of the properties that matter most. Every definition is translated from the code
under `src/`; PROJECT.json (`map`) names the lines each one stands for.

Run `tlc -config X.cfg MCX.tla` for a configuration, `tlapm XProofs.tla` for the
proofs of a module.

## 1. The system

### Components, their state and operations

| Component | Code | State | Operations |
|---|---|---|---|
| Register of live agents | `server/healthdot.go` | `agentPool` (go-cache: region+ip -> version, with a lifetime), `discoverPool` (region -> ips), `ready`, the series `agent_is_alive` | `report` (RPC), `dot` (ticker), the cache's janitor and its `OnEvicted` callback, `getDiscoverPoolSnapshot` |
| Target pool | `server/pool.go` | `pool` (region -> probe type -> entry) | `loadPool`, `reloadPool`, `updatePool` (ticker), `getPool` (RPC), `getTargets` (HTTP) |
| Configuration and reload | `config/config.go`, `server.go:243` | `cfg` | `InitConfig`, `ReloadConfig`, `reloadConfig`; `UnmarshalYAML` with its defaults |
| Aggregator | `server/aggregator.go` | `queue`, two hold caches | `Enqueue` (RPC), `agg` (ticker), `reset`, `dotHTTP`, `dotICMP`, `setCache`, `clean` (callback) |
| Metrics | `server/metric.go` | the Prometheus registry | set and delete, by the two above |
| RPC client of an agent | `agent/rpc.go` | `cli` | `Call`, `getCli`, `closeCli`, shared by all goroutines of the agent |
| Health check | `agent/healthcheck.go` | `ready` | heartbeat every 10 s |
| Target manager | `agent/target.go` | `targets`, `ready`, the points of `batchSend` | `start`, `prober`, `getTargets`, `batchSend` |
| Probes | `agent/prober.go`, `http_response.go`, `http.go`, `icmp.go` | one goroutine per target and round | `dispatch`, `send`, `probeHTTP`, `probeICMP` |
| Self upgrade | `upgrade/upgrade.go`, `server/update.go`, `agent/update.go` | the order `su`, `UpgradeMap`; the binary on an agent's disk | `Bind` (HTTP), `GetSelfUpgrade`, `SelfUpgradeSuccess` (RPC), `Upgrade` |
| Task group | `server/task.go`, `agent/cmd.go` | `tasks` (go-cache) | `task` (HTTP), `getTask`, `flushDisk`, `taskRun` |
| Server and agent start/stop | `server/server.go`, `server/rpc.go`, `agent/agent.go` | a `run.Group` of actors, one context | start, shutdown on a signal or when an actor returns |
| Region and address of an agent | `agent/net.go` | -- | cloud metadata queries |

### How they interact

```
 agent                                server
 healthCheck.report ---Report-------> healthDot.report --> agentPool, discoverPool
                                          janitor --OnEvicted--> discoverPool
                                          updatePool <--snapshot-- discoverPool
 getTargets --------GetTargetPool---> getPool <-- pool <-- loadPool <-- cfg <-- /-/reload
 prober -> probe goroutines -> ptsChan -> batchSend
 batchSend --ProberResultReport-----> Enqueue -> queue -> agg -> gauges -> hold caches
                                                                   ^-- clean <-- janitor
 startUpgradeCheck --GetSelfUpgrade-> su, UpgradeMap <-- /-/upgrade
 Upgrade's hook --SelfUpgradeSuccess-> UpgradeMap;  SIGTERM, supervisor
 util.Wait ---------GetSelfTask-----> getTask <-- tasks <-- /-/task
 taskRun -----------ReportTaskResult-> flushDisk
```

All RPCs of an agent share one connection. Calls are tried up to three times, and
a try that timed out may still be handled. `Report` and `ProberResultReport` are
therefore received at least once when they succeed, perhaps when they fail, and
perhaps late.

### What is hard

* **Callbacks after the fact.** go-cache collects expired entries under its lock
  and runs the eviction callbacks after releasing it. Heartbeats and aggregation
  rounds run in between (`healthdot.go:49`, `aggregator.go:65`).
* **Critical sections that end too early.** `agg` unlocks before it resets the
  queue (`aggregator.go:134-137`); `GetSelfUpgrade` reads the order without the
  lock while `Bind` writes it (`rpc.go:42-58`), and `update` writes the URL back after
  it (`update.go:44-55`); the eviction callback writes the series outside the mutex
  (`healthdot.go:45`).
* **Snapshots.** `updatePool` writes from a copy of the discovery map, while
  reloads replace the pool it writes to.
* **At-least-once calls with shared connections.** Any caller whose tries all
  failed closes the connection that others may have dialled since.
* **Bounded buffers.** A channel of 10, a batch of 5000; the only reader of the
  channel is the goroutine that makes the blocking report.
* **Crashes by design.** Every upgrade ends in SIGTERM, whether it worked or not. A
  call that reaches a server before its components exist ends the server.
* **Starts and stops of many parts.** Both processes are groups of actors that wait
  for each other's first step through channels (`agent.go:64`, `target.go:63-75`,
  `pool.go:138`), and must all see one context to end.
* **Two clocks.** A task is in the cache for as long as an agent sleeps between two
  polls, and nothing else keeps it from being run twice (`task.go:46`,
  `agent.go:118`).

PROJECT.json lists the hazards at their lines, with the properties that cover
each, or why none does.

### What makes each component correct

* Register: an agent in the discovery map has a cache entry or a callback on its
  way; the dead leave the map for good, the living come back into it and stay;
  regions are never forgotten; the series follows the agent.
* Target pool: http entries (in static mode all) are the configured ones,
  discovered ones follow the discovery map, reloads take effect.
* Queue: each accepted batch is aggregated exactly once.
* Aggregation: published numbers are those of the results, in whatever order they
  came; series of what has gone away go away, those of what is there stay.
* RPC client: a nil result means handled; no leaked connection; calls return;
  a failure is not for ever.
* Report path: nothing taken is lost while there is room, nothing acknowledged is
  repeated, no goroutine stays.
* Upgrade: a forced order once, a normal one never backwards, every agent settles.
* Task group: a process runs a task once, and misses one only for a reason.
* Probes: a verdict is what the file asks for, through defaults, redirects and
  compression, where the repository does not contradict itself about that.
* Processes: started in order, ended by a signal; a reload request is answered; what
  holds of a component holds of it in a process that starts, crashes and restarts.

## 2. The modules

| Module | Models | Built on |
|---|---|---|
| `HealthDot` | the register: heartbeats that travel, cache, expiry, sweep, callbacks one by one | |
| `HealthGauge` | the same with `h.m`, `dot`'s scan and the callback in its two halves; **implements `HealthDot`** | `HealthDot` |
| `TargetsPool` | configuration, pool, both reloaders, `updatePool` region by region, `start` | an environment for the discovery map |
| `Discovery` | register + pool + agents' target lists, end to end; **implements `TargetsPool`**, whose environment it thereby justifies | `HealthDot`, `TargetsPool` |
| `ServerLife` | a server from start to exit: calls before the components exist, reload requests, run group, signal, `Shutdown`, crash and restart | `TargetsPool` |
| `AggQueue` | `Enqueue` against `agg`/`reset`, the slice header word by word | |
| `Rpc` | abstract: what a caller of `rpcCli.Call` may rely on | |
| `RpcCli` | the client: shared connection, dial, tries, timeouts, close; **implements `Rpc`** | `Rpc` |
| `ReportPath` | rounds of probes, channel, `batchSend`, shutdown; its reports are calls of `Rpc` | `Rpc` |
| `AgentLife` | an agent from start to exit: first heartbeat, first targets, the `ready` field, run group, signal | `ReportPath` |
| `Config` | operators: an http section of the file and what becomes of it | |
| `HttpProbe` | operators: the verdict of an http probe and of a ping, in the order of the code's returns | `Config` |
| `Aggregate` | the loop of `agg` and the gauges of `dotHTTP`/`dotICMP`, fed by `HttpProbe` | `HttpProbe` |
| `MetricHold` | series, hold cache, janitor and `clean` against the publisher | |
| `Upgrade` | orders, unlocked answers, download, hook, SIGTERM, restarts | |
| `TaskGroup` | tasks with their lifetime, matching, polls with retries, restarts; the only module that counts time | |

`MC*` modules give TLC its instances; `*Proofs` modules hold the theorems.

### State and actions against the code

* **HealthDot.** `Report(k, v)` is `healthDot.report` under its mutex, whole. A
  heartbeat is on the `wire` between the agent and `Report`, so one of a process
  that has since stopped can still arrive. `Expire` marks an entry, `Sweep` is
  `DeleteExpired`'s critical section, `OnEvicted` a callback; the janitor sweeps
  again only after all callbacks. The cache key has no version
  (`healthdot.go:58`). Entries may expire under a running agent: the lifetime is
  a ratio times an interval of the server, the heartbeat an interval of the agent.
* **HealthGauge.** `DotBegin` locks and takes the list, `DotSet` writes one
  series, `DotEnd` unlocks. `CallbackGauge` (line 45) writes without the lock,
  `CallbackDelete` (47-49) waits for it.
* **TargetsPool.** `updatePool` is a small state machine: snapshot, one
  critical section per region, wait for `ready` after the first round only. A
  reload is two steps, `ReloadConfig` then `ReloadPool`, and the second runs
  whether or not the first failed. `StartLoad` is `pool.start()` and may come after
  the first round of `updatePool`, which `newTargetsPool` has already started.
* **ServerLife.** `missing` holds the components that are not made yet: the RPC server
  listens from `Boot` on, register and aggregator are made by actors of the run
  group. `Take` is the reload actor's receive and also the first half of a reload
  (`ReloadConfig`), `Answer` its second half. `Gone` empties everything but the
  file. `Exit` needs what `g.Run` needs: `pool.start` has loaded, reload and http
  actors have returned, the tickers are past their current round.
* **AggQueue.** A slice header is two words, `arr` and `len`. `append` under the
  lock loads both, and stores both; `reset` stores both without the lock; each in
  either order. That is what a Go build may do with this data race. An access
  beyond the array is `corrupt`, after which nothing is promised or modelled.
* **RpcCli.** Every attempt of every call is an element of `sent` until it is
  handled or lost; attempts outliving their call become `stale`. `up` is the state
  of network and server, which changes at will. Only the newest attempt's answer
  can end a call.
* **ReportPath.** `Receive`, `Report`, `Quit` are the three cases of `batchSend`'s
  select; during a report nobody reads the channel. `Send` and `GiveUp` are the
  two cases of `send`. `Prober` may begin a round after the context is cancelled, as
  `util.Wait` calls its function before it looks.
* **AgentLife.** `start` is the position in `targetManager.start`, `sync` that of the
  goroutine it makes. `CloseReady` closes the channel and clears the field in one
  step, `ReadReady` is the read of the field: after it, `stuck`. The other actors
  need one call of `util.Wait` to see the context, so only health check and `start`
  decide when `Exit` is possible. `GoroutinesEnd` ends what is no actor with the
  process: `batchSend`, the probes, a report under way.
* **Config, HttpProbe, Aggregate.** The agents' configuration is `HttpConf` of a
  section of the file. A probe's circumstances (what the target answered, how
  long it took, what its body is packed with) are a record; `HttpResult` gives what
  `probeHTTP` returns, and `NoReader` is `getDecompressionReader`: of `gzip` it looks at
  the body at once, of `br` and `deflate` only when that is read (`BodyRead`). `Added`
  is the body of `agg`'s inner loop, folded over the queue. A value is a
  numerator and a denominator.
* **MetricHold.** A round publishes any of the reported series one after the
  other, `WithLabelValues(..).Set` and `setCache` being two steps. Loss rate,
  jitter and the histogram never enter the hold cache (`Unheld`).
* **Upgrade.** `BindStart` takes the lock and clears the map, `BindField` is one
  assignment of the JSON decoder, which leaves fields alone that the body does not
  name. The four reads of an answer are steps of their own. A handler that `Bind` has
  left may read and write the URL long after (`Linger`, `CheckURL`, `WriteURL`); one
  that does so at once changes nothing. `AskFails`, `HookLost`, `InstallFails`,
  `WriteFails`, `ServerRestart` are the failures.
* **TaskGroup.** `Tick` is time: it counts `age` of the tasks held up to `Life` and
  `timer` of the agents down from `Interval`, both 10 s in the code. A poll that is
  due is not late; a call may last any number of ticks, and an answer takes at least
  one. `Finish` is the end of `util.Wait`'s function. `excused` collects who may miss
  what: whoever was inside a poll, failed, got another task, or restarted.

## 3. What TLC checks

All bounds are constants of the configurations, or the `MC` module beside them.

| Run | Instance | States | Shows |
|---|---|---|---|
| `healthgauge` | 1 region, 2 agents, 1 version | 54,304 | `NoGhost`; `DeadForgotten`, `LiveStaysDiscovered`; it implements `HealthDot` *with its fairness* (`Spec`); `LiveShownUp` |
| `healthgauge_down` | 1 agent, 1 version | -- | `DownReset` is violated (finding 1) |
| `server` | 1 region, 1 address, 2 good files (one with repeated entries) and a bad one, both discovery modes, 2 reload requests | 67,573 | `PoolAsConfigured`, `DynamicIsVisited`, `EmptyRegionDropped`, `SettledRegionListed` across crashes and restarts; `ReloadAnswered`, `ShutdownEnds` |
| `discovery` | 1 region, 1 agent, 2 files and a bad one | 141,288 | the register keeps `TargetsPool`'s assumptions (`PoolSafeSpec`); `DeadNotProbed`, `LiveProbed` end to end |
| `aggqueue` | 3 handlers | 5,206 | `ExactlyOnce` without an overlap, `CleanCounted` with any |
| `aggqueue_lost` | 3 handlers | -- | `TakenIsCounted` is violated (finding 2) |
| `rpccli` | 2 callers, 2 tries, 2 connections | 93,872 | it implements `Rpc` (`AtLeastOnce`); `NoLeak`, `CallsReturn`, `AloneRecovers` |
| `agent` | 1 target, 3 rounds, channel of 1, 2 points | 116,942 | `Kept`, `AckedIsOver`, `ProbesEnd`, `Delivered` in a process that starts and ends; `StartedInOrder`, `StopEnds` |
| `aggregate` | 8 sections of a file, 12 http and 4 icmp circumstances, 2 keys, up to 3 results | 461,588 | `FailuresCounted`, `MeanOfSuccesses`, `AnyOrder`, `JudgedAsConfigured` |
| `metrichold` | 2 held series, 1 not held | 28,544 | `NoLeak`, `SilentRemoved`, `LiveShown` |
| `upgrade` | 1 agent, 2 versions, 3 order bodies (forced; newer, not forced; one that only stops forcing), 1 handler that lingers after `Bind` | 216,323 | `ForcedOnce`, `MarkedHasTried`, `OnlyNewer`, `ForcedSettles`, `NormalSettles` |
| `taskgroup` | 2 agents (one with the region flag), 3 tasks of which 2 share a text and one names an ident, lifetime and interval of 3 ticks | 742,392 | `AtMostOnce`, `MissedForAReason` |

Every checked property has a mutant of a modelled definition, the kind of change
a bug in that code would make, under which TLC finds it violated. Mutants stand
above the definition they replace and are used by no other.

**Why the bounds are enough.** A region with two agents has the case where one is
evicted while the other's callback is outstanding, and the emptied region; a version
is only a label of the series (a second one was checked with one agent). A region is
updated in a step of its own and reads no other: one shows it; the same configuration
with two regions and one request was checked once (307,805 states), and what is proved
of the pool holds for any number. An address more adds no case, as `updatePool` only
copies sets. Two reload requests have one waiting while the other is served. The eight
sections give every option of an http entry each of its cases (absent, empty, at a
boundary, set; of compression gzip, deflate for all whose reader does not look, and a
name that is none), the answers every check a failure, with and without redirects. Three
ticks leave room for a poll to fall before, between and after a post and the end of a
task; three tasks have the replaced one and the choice between two. Three handlers
have one enqueue before, one during and one after a reset. Two callers have one
closing what the other dialled; a third one can do no more to a caller than the
second. Two tries have a late first attempt beside a second. With two points the batch
is full while a third result arrives. Three results have two successes and a failure
in every order. Agents of an upgrade do not meet but in `UpgradeMap`, by their own
key, so one agent against all orders is the interesting case; one handler that lingers
is left behind by any order and writes over any later one. The proofs do not depend on
any of this.

### Fairness, and why the code justifies it

* Periodic work is weakly fair: `util.Wait` calls its function again and again,
  the janitor and Go's tickers go on, a goroutine that can run does.
* What waits for a mutex held only for short steps is strongly fair
  (`LockedReport`, `CallbackDelete`, `DotBegin`, `AggLock`): Go's mutex has a
  starvation mode.
* An entry of a **dead** agent expires; nothing says that one of a live agent does
  or does not. `MetricHold` likewise: an entry expires unless it is renewed again
  and again.
* `RpcCli`: tries time out (a timer runs whatever the network does), requests are
  handled only while the network is well. Nothing makes anyone call.
* `ReportPath`: `batchSend` picks the ticker's case at some time although results
  keep coming, which Go's `select` does at random; nothing makes a send succeed.
* `Upgrade`: of calls and downloads made again and again some get through (strong
  fairness); a handler that lingers goes on some time; the supervisor restarts what has
  a binary (README.md:245 requires it).
* `ServerLife`, `AgentLife`: goroutines of a process that is there run on. A reload
  request that waits is taken unless the reload actor leaves (strong: the runtime
  serves the senders of a channel in their order). `updatePool`'s round is fair only
  until the context is cancelled, and like the rest only in a server that is up: nothing
  makes a crashed one restart, and nothing makes a signal come.
* `TaskGroup` is about safety only and has no fairness.
* Operators (reloads, orders, tasks, shutdown), networks and crashes have none.

Properties that need the environment to calm down say so as `<>[]` premises: an
agent that stays up, no more orders, no more reloads.

`CHECK_DEADLOCK FALSE` stands where the system may stop: every batch aggregated,
the agent's process over.

## 4. What is proved

For all values of the constants, under the named `ASSUME`s of the modules, which
say that sentinels are not values and that bounds are numbers, and of `TaskGroup` that
a task stays no longer than an agent sleeps, as its two 10 s do. One theorem has a
premise of its own: `MissedForAReasonAlways` needs the two times to be equal.

| Module | Theorems | Argument |
|---|---|---|
| `HealthProofs` | `TypeCorrect`; `NoGhostAlways`; `ReadyHasRegionAlways`; `RegionsAreKept`; `GaugeImplements`; `GaugeNoGhost`; `PoolEnvironmentKept` | `NoGhost` is inductive with the type invariant: only `Sweep` takes a key from the cache and it enters it in `evicted`; only `OnEvicted` takes it from there and it deletes. Refinement: each step of `HealthGauge` is a step of `HealthDot` or leaves its variables alone; every step of the register in `Discovery` is one of `TargetsPool`'s environment steps or a stutter |
| `TargetsPoolProofs` | `TypeCorrect`; `PoolAsConfiguredAlways`; `ReloadTakesEffectAlways`; `DynamicIsVisitedAlways`; `LifeTypeCorrect`; `LifePoolAsConfigured`; `LifeDynamicIsVisited` | `loadPool`'s fold is related to `Configured` by a lemma; `DynamicIsVisited` needs that the snapshot's regions are discovered ones, since `UpdateRegion` writes from the snapshot. `LifeStep`: a step of a server is one of `TargetsPool`, leaves it alone, boots it or empties it |
| `AggQueueProofs` | `TypeCorrect`; `ExactlyOnceAlways` | invariant under `~overlap`: what is loaded, what is stored and what is wiped, word by word, account for each batch once; between the words of one access the header is not sound, so the plain property is not inductive |
| `RpcCliProofs` | `TypeCorrect`; `NoLeakAlways`; `Implements` | `UnderWay` ties a caller's position to its request, connection and attempts; with it each step maps to one of `Rpc` or a stutter |
| `ReportPathProofs` | `TypeCorrect`; `KeptAlways`; `AckedIsOverAlways`; `LifeTypeCorrect`; `LifeKept`; `LifeAckedIsOver`; `StartedInOrderAlways` | `HandledIsReceived`: what the server has handled of the call under way it has received. Without it an acknowledged batch could not be dropped safely. `AckedIsOver` needs that the channel holds nothing twice, that it shares nothing with the batch, and that what is in either has been sent by its one goroutine. `LifeStep`: a step of an agent is one of `ReportPath`, leaves it alone, or is the exit |
| `AggregationProofs` | `TypeCorrect`; `JudgedAsConfiguredAlways`; `FailuresCountedAlways`; `MeanOfSuccessesAlways`; `AnyOrderAlways`; `HoldTypeCorrect`; `NoLeakAlways` | `Faithful`: what is queued is what the probe of its circumstances reports, so a verdict need be compared with the file once, where it is given. `FromBatch`: the gauges are those of the last batch. Over the fold of `agg`'s loop, by induction: `CountedTill` (a container counts the successes and failures of its place, and keeps the first reason), `MeasuredTill` (a stage is there if a success measured it, and its sum lies between n times every lower and n times every upper bound of what n successes measured), `Balanced` (the last results of a queue may be in its own history or in that of the queue backwards). `NoLeak`: an exposed held series is in the cache, evicted, or just being entered |
| `UpgradeProofs` | `TypeCorrect`; `ForcedOnceAlways`; `MarkedHasTriedAlways`; `OnlyNewerAlways` | seven conjuncts: where an agent is decides how often it has tried, whether it has reported, and that the `force` it read is the order's; a mark is lost only to a new order. `OlderYet`, `OrderedMd5`: since the order in memory came, what an agent was told and its checksum are the order's, whatever has become of the URL |
| `TaskGroupProofs` | `TypeCorrect`; `AtMostOnceAlways`; `MissedForAReasonAlways` | `SleepsItOut`: the age of a task that is there and the time an agent that has run it still sleeps add up to more than the lifetime; it starts to hold because an answer takes a tick, and needs `Life <= Interval`. `Reached`: the age of a task and the time an agent that waits for it still sleeps add up to no more than the lifetime, so it wakes before the task goes; needs `Life = Interval`, which is why the two 10 s must be equal |

**Induction over data.** The library's induction theorems take an operator, which no
installed prover can instantiate. `AggregationProofs` does without: `WFMin` and the
well-foundedness of strict inclusion of finite sets give a least element of every set
of naturals (`LeastNat`), and that gives `PrefixInduction`, which speaks of the *set* of
positions where a fact holds. `FoldLeft` is a `CHOOSE` of a recursive function;
`FoldGoesThrough` and `SumGoesThrough` show that there is one, and `ContainersHistory`
and `SumHistory` turn the fold into a sequence of states, one per result.

**Assumed of the constants of `Aggregate`** (`AggregateAssumption`): sections are what the
decoder can give (any integers as codes and as `limit`, which may be negative);
circumstances are what a probe can observe (status codes, times and loss natural; a
first request that is the last where there is no redirect, `RequestsAssumption`); and a
body is smaller than `MaxInt`, since a negative limit becomes `MaxInt - 1`. Rounds have
any size: `MaxResults` is any natural.

**Only model-checked:** liveness, and nothing else (the provers have no fairness and no
`ENABLED`): the ten `~>` and `<>` properties, and the fairness of `HealthDot`'s `Spec` in
the refinement, whose safety is `GaugeImplements`. Every other property of a passing run
is a theorem.

## 5. What the checks found

1. **`healthgauge_down`.** `metric.go:80` says the series of an agent that went
   offline is to be reset to 0. The callback writes 0 at line 45, before it takes
   `h.m`; `dot` may hold it with a list from before the sweep and then write 1.
   The agent is gone, so nothing writes 0 again. (`LiveShownUp`: the opposite race
   heals with the next tick.)
2. **`aggqueue_lost`.** `agg` releases `a.m` and then empties the queue. A batch
   enqueued in between was acknowledged and is in no count, although
   `server_receive_points` is "number of reported points received by the server".

Three liveness properties hold only with an excuse, which names the disagreement:

* `StopEnds`: an agent whose `start` reads `t.ready` after the other goroutine has
  cleared it never probes and never ends on a signal (`target.go:71`, `:75`).
* `ShutdownEnds`: a reload request that waits for the reload actor when that leaves
  is never served, and `Shutdown` waits for it (`server.go:154`, `:196`).
* `EmptyRegionDropped`: such a server goes on answering its agents, without
  `updatePool`.

Noticed on the way:

* Server: a call that comes before `newHealthDot` or `newAggregator` ends the process
  (`server.go:71`).
* Tasks: `=` compares the text with the whole ident, of region, separator and address
  (`task.go:115`; README.md:229 promises a match with the region), so that it matches
  only the agent whose ident is spelled out, U+00FE included, and `!=` all others; the
  ident is built from the flag, so an agent that found its region by itself matches no
  `=~` (`agent.go:121`); an agent restarted while a task is there runs it again
  (`agent.go:127`); the first result is lost with the directory that `flushDisk`
  creates (`task.go:139`).
* Upgrades: a report lost on its way makes a forced upgrade run again (the excuse in
  `ForcedOnce`), although README.md:245 says once; an order whose URL the server
  rejects is in force all the same; the handler of an order may write its URL over a
  newer order's (`update.go:55`), whose checksum then keeps it from being installed
  (`OnlyNewer`) until it is posted again; versions compare as strings (`upgrade.go:56`);
  before any order an agent older than its server is told to upgrade from an empty
  URL; an ident does not hold the region of the flag, so that agents with one private
  address share one (`agent/update.go:24`).
* Configuration: `config.go:85` says status codes default to 2xx; the default is 200
  alone (`:111`, and `config_isolation_test.go:50`), and an empty list means 2xx.
  `JudgedAsConfigured` asks for the 2xx of the comment and names the codes 201 to 299 as
  `Disputed`, of which it claims nothing: without that TLC finds it violated. A scalar under
  `fail_if_body_matches_regexp`, as in the example at README.md:167, is no list.
* Probes: a redirect that is not followed, of a valid code, is a success where `br` or
  `deflate` is asked for and a failure where `gzip` is (`http.go:243-251`,
  `http_response.go:276`; line 221: "if we cannot decompress it it's a failure"): the
  other case `Disputed` names. A request over TLS, the first or one in between, whose
  final response is not, panics the agent; body patterns are never compiled on
  the agent and header matchers never parse; a ping nobody answers is a success with
  times of 0, which enter the mean, and `icmp_failed` stays 0 (`FailuresCounted` and
  `MeanOfSuccesses` take it as the code reports it).
* Metrics: loss, jitter and histogram series are never deleted though `metric.go` says
  so; a body that cannot be read counts as a failure with the reason "success", which
  `FailuresCounted` accepts; a stage only some successes measured is divided by all of
  them; `http_status_code` is the average over all results, 0 of failed ones included.

## 6. What is not modelled

* **Parsing and formatting**: YAML, flags, durations, JSON, msgpack. A file is a
  sequence of entries, or one that does not parse; `Config` starts from a decoded
  section. The check of an `Accept-Encoding` header against `compression`
  (`config.go:200-250`) is left out: it compares weights inside a string. Keys joined
  with `\xfe` (the letter U+00FE) are tuples: no region or address is taken to hold it.
* **Probe internals**: sockets, DNS, proxies, the round-trip tracer, ICMP packets,
  header and body matchers. `HttpProbe` starts from what they observed.
* **Task output**: the child process, its output, `ReportTaskResult` and the file.
* **Time**, but for `TaskGroup`: durations are not numbers; a lifetime or a timeout is
  an action that may happen, and premises say when it does not.
* **Region and address detection** (`agent/net.go`): six commands race for the first
  answer before anything starts; which one is right is outside the program.
* Command line, unit files, dashboards.

## 7. Plan

Done: the register and its gauge, pool and reload, discovery end to end, the server
and the agent from start to exit, queue, RPC client, report path, defaults of an http
entry, verdicts, aggregation and series, upgrade, task group; the proofs of section 4.

Left, in this order:

1. *Two regions* end to end in `Discovery`; two agents under one ident in `Upgrade`.
2. `ReportPath` on `RpcCli` instead of `Rpc`.
