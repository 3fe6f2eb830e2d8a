# PolarLink in TLA+

A verification development for PolarLink, the cold-chain backend in this
repository: TLA+ models of its components, TLC configurations that check them on
small instances, and theorems about them checked by TLAPS.

    tlc -config MCCargoCustody_concurrent.cfg MCCargoCustody
    tlapm CargoCustodyProofs.tla

Paths below are relative to `backend/src` unless they start with another
directory of the repository.

## 1. The system

PolarLink follows temperature-controlled air cargo. Sensors in unit load devices
(ULDs) send temperature readings, over MQTT or as signed HTTP requests. The
backend adds up how long each ULD was too warm, raises alerts, opens operational
workflows and keeps a digital twin in a ONE Record server. Ground staff record
custody events of each air waybill (scan out, scan in, verification, reload),
which form a hash-linked ledger and decide whether a load must be stopped.

The backend is one Node.js process: handlers interleave at every `await` and
nowhere else. There is no lock in the code. Its stores are Redis
(`platform/redis.js`, in the memory of the process when no server answers) and
PostgreSQL (`platform/postgres.js`, likewise). No store is used with a
transaction.

### Components

| component | state | operations | what makes it hard | correct when |
|---|---|---|---|---|
| Cargo custody service, `services/cargoService.js` | none of its own | scanOut, scanIn, verify, reload, recordEvent, seeding | reads state and latest event at the start, writes both many awaits later; incidents add three calls; `routes/api.js` 199-233 catches nothing | the chain does not fork, no event is forgotten, a critical risk stops the load, a stop decision rests on the state it is recorded against |
| Cargo repository and ledger stores, `repositories/cargoRepository.js`, `platform/postgres.js` | `cargo:*` list and state keys; event, state and evidence tables | appendEvent, getLatestEvent, getState, saveState | two stores written one after the other; reads write back; only the state has a durable fall-back | the two stores agree but for what a crash cut off |
| Audit store, `platform/postgres.js` | audit table, primary key type and millisecond | log, list | an insert is rejected by its key; it outlives Redis | nothing is announced that is not on the trail |
| Redis client, `platform/redis.js` | the connection, or a map in memory | the commands used by the repositories | everything is gone after a restart without a server | - |
| Exposure rules, `domain/exposure.js`, `domain/rules.js` | none | computeExposureState | gaps, repeated and late timestamps, rounding at every reading, rules that allow no minute | but for rounding minutes are neither lost nor charged twice; a status improves only where none were counted |
| Telemetry pipeline, `services/telemetryPipeline.js` | none of its own | process | state read, three awaits, state written; every call after the save may be rejected | a breach is announced; twin and state agree |
| MQTT consumer and dead letters, `services/mqttConsumer.js`, `repositories/dlqRepository.js` | `mqtt:dead-letter` | message handler, push | messages are not processed in order; QoS 0, no redelivery; nothing reads the list | every message is processed or kept |
| IoT HTTP ingestion, `routes/api.js` 42-92 | none | POST /integrations/iot/http | process is called outside the `try` | a request cannot take others down |
| Exposure repository, `repositories/exposureRepository.js` | exposure state per ULD, fleet status, telemetry, alert history | getState, saveState, appendAlert, resetState | reset deletes one of several copies | the copies agree |
| Action orchestrator and operations, `services/actionOrchestrator.js`, `repositories/operationsRepository.js` | actions, workflows, ledgers, open lists | orchestrate, verify, escalate, cargo incident | checks open items, then creates them; escalation rewrites what it read | one workflow per breach; verified actions stay verified |
| Notifications and alerts, `services/notificationRouter.js`, `services/alertService.js`, `repositories/subscriptionRepository.js` | subscriptions | publishNotifications, handleAlert | many recipients, each may fail | - |
| ONE Record service, `services/oneRecordService.js` | the twin per ULD | upsertTwin, syncOperationalState | local and remote copy | the twin agrees with the state |
| Reconciliation and verification queue, `services/reconciliationService.js`, `repositories/verificationQueueRepository.js` | jobs, reports | enqueue, drain, reconcile | repairs from a comparison made some awaits ago; two queue implementations with different retries | repair never undoes a newer reading |
| Request integrity, `services/requestIntegrityService.js` | replay keys | assertTrustedRequest | freshness, look-up and store are three moments of a clock; a key lives as long as the window | a reading is taken once, and not refused when it was lost |
| ONE Record authentication, `services/oneRecordAuthService.js`, and the unused `oneRecordClient.js` | a token cache | getAccessToken | expiry between check and use | no expired token is sent |
| Weather, risk, flight, messaging clients; `risk-service/app.py` | weather cache, circuit breakers | look-ups | a rejection reaches the caller | - |
| Operational context and decisions, `domain/context.js`, `domain/decision.js`; analytics | none | pure functions | thresholds that ask for an action twice | - |
| HTTP routes and read models, `routes/api.js`, `services/cargoService.js` 144-340 | none, but a read may write a state back to Redis | views of cargo, alerts, tasks | built from several reads of stores that lag each other | a view shows what was answered before it was asked for |
| Frontend store and provider, `frontend/src/store/use-aero-store.ts`, `frontend/src/components/providers/RealtimeProvider.tsx`, `frontend/src/main.tsx` | tasks, offline queue, synchronization status | markTaskCompleted, flushQueue, socket events, 10 s poll | the queue is emptied by a timer; poll and socket overwrite each other | the screen converges to the server; the status follows the network |
| Realtime service, `frontend/src/services/realtimeService.ts`, and the control tower page | sockets, timers, flights, ULDs, alerts | connect, reconnect, poll, simulate; mount, unmount | closing a socket opens another; nothing is cleared | a start leaves one loop, and comes to a connection or to polling |
| Custody page, `frontend/src/pages/CargoCustodyPage.tsx` | a shipment, a feed, a replay, requests in flight | load, action, socket events, replay player | answers are applied in the order they come, by closures of old renders | it shows the shipment selected, as it is |
| Other pages, simulator, broker, scripts, `infra`, `skills` | - | - | presentation and demo traffic | - |

### Interactions

A reading takes the path MQTT consumer or HTTP route -> `TelemetryPipeline.process`
-> weather -> exposure repository (read) -> exposure rules -> risk service ->
exposure repository (write) -> orchestrator -> ONE Record service -> verification
queue -> audit store -> alert history -> notification router -> sockets. A custody request takes
the path route -> cargo service -> cargo repository -> Redis, event table,
evidence table, Redis again, state table -> audit store -> for an incident alert
history, orchestrator, notification router. The two paths share the alert
history, the operations repository and the audit store. Reconciliation reads and
writes the exposure repository and the twin, for the jobs readings and status requests
queue. At
start, `server.js` 179-184 starts reconciliation, custody seeding and the MQTT
consumer together.

The hazards these paths are exposed to, each at its line and with the properties
that cover it, are in the `hazards` list of `PROJECT.json`.

## 2. Plan

The order is that of importance to a user: custody decides whether a load is
stopped, exposure decides whether medicine is discarded; everything else is
derived from these two.

| step | modules | abstract specification | runs | theorems |
|---|---|---|---|---|
| 1, done | `CustodyRules`, `CargoCustody`, `CustodyChain` | `CustodyChain`: one growing chain per cargo | concurrent, serial | types, all seven invariants, one chain with one writer, the refinement of `CustodyChain` |
| 2, done | `ExposureRules`, `TelemetryPipeline` | - | readings | types, recoveries, monotone exposure, breach announced, alerts audited, minutes counted |
| 3, done | `Reconciliation`: state, twin and remote copy under readings, resets, client updates, verification jobs of both queues | - | repair, reset | types, convergence, remote agreement, dated breaches, repair keeps minutes |
| 4, done | `ActionLedger`, `DecisionRules`: actions and workflows of both paths, completion, acknowledgement, escalation | - | actions | types, duplicates need overlap, open packages, progress audited and kept |
| 5, done | `ReadingIntake`: a clock, replay keys, weather cache and breaker, token cache | - | intake | types, replays, refusals, expired tokens |
| 6, done | `OperatorConsole`: tasks, ULDs, alerts, queue, poll and socket of a browser tab | - | console | types, status, synchronization |
| 7, done | `ReadModels`, `CargoViews`: the dashboard's reads over the custody stores | - | views | alerts listed, replays open, timelines catch up, answers shown |
| 8, done | `CargoSeeding`: the demo events before the first answer | - | seeding | demo events once and first, readers see them |
| 9, done | `CustodyPage`, `FlightFeed`: two pages of the browser | - | shipment, flights | the page is current at rest; one loop per start, the page shows the service |

`CargoViews` extends `CargoCustody` and so composes the reads with the very actions
that write. `Reconciliation` and `TelemetryPipeline` both extend `ExposureRules` and share the
computation of a state; each keeps of a reading what its stores see of it, because
their product is out of TLC's reach. In the same way `ActionLedger` has in full what
the first two models reduce to the sets `holds` and `responses`.

The type invariant of a module with proofs is proved for every value of the constants and not
repeated by its run.

## 3. The custody models

`CustodyRules` holds the pure functions of `cargoService.js`: the risk points, the
integrity points, `chainBroken`, `buildState`, the reload check. A request body is
reduced to the facts these functions look at (match flags, camera findings,
weight in kg, timestamp in minutes, seal). The scores are the code's, point for
point, because `CriticalStopsLoad` depends on how the two tables relate.

`CargoCustody` runs the rules between reads and writes. Each value of `pc[r]` is an
awaited call of a request in flight:

| action | code |
|---|---|
| Begin | a route of `routes/api.js` 199-233, or the seeding, enters the service |
| GetState, LoadState, FillState | `cargoRepository.getState`: Redis, the state table on a miss, the write-back |
| Decide | `verify` infers the action; `reload` judges the state it read |
| GetLatestEvent | `getLatestEvent`, and the event and state `recordEvent` builds before its next await (381-442) |
| PushEvent, InsertEvent, SaveEvidence | `cargoRepository.appendEvent` |
| SetState, UpsertState | `cargoRepository.saveState` |
| LogEvent | `auditStore.log` of the event, and the test for an incident |
| AppendAlert, OrchestrateCargoIncident, LogIncident | 456-503: alert, workflow, notifications and incident audit |
| Crash | a rejected call nobody catches, or the end of the process for any other reason, and the restart |

`verify` and `reload` read the state twice, once to decide and once in
`recordEvent`, so the first read has its own stages. A hash is represented by the id of
the event it is the hash of, so two events never hash alike; the code hashes cargo,
timestamp, action, location, handler and predecessor, and the model assumes that
distinct requests differ in one of them. `pushed`, `overlap` and `epoch` are
observations: they record history and guard nothing (the `epoch` field of an event
is copied from the counter and read by properties only).

`CustodyChain` says what a custody ledger promises, in one action: append behind
the tip.

### Runs

| run | instance | shows |
|---|---|---|
| concurrent | three requests on one or two air waybills, two of them in flight at a time, a crash that may lose Redis; retention 2 | the seven safety invariants below hold |
| serial | the same service, one request at a time, Redis keeps its data, the ledger store may be lost; 2 first bodies and 66 second ones | `CriticalStopsLoad`; the ledger implements `CustodyChain`; every request ends |

- `ForkNeedsOverlap`: forks arise only from overlap or from a lost Redis. Without these the
  ledger is "append-only, hash-linked", as README.md 171 has it: `OneWriterOneChain` proves
  `HashLinkedChain` and `OneGenesisEvent` for one request at a time over a Redis that keeps
  its data. Both are false otherwise: two overlapping requests link to the same event, and
  after a loss of Redis the chain starts over although the event table holds its past,
  since `getLatestEvent` has no durable fall-back.
- `LostUpdateNeedsOverlap`, `LatestEventRules`: an answered event is neither forgotten
  nor overruled by an older state, unless another request on the cargo overlapped.
  The write-back of `getState` is the step that makes this non-trivial.
- `GapNeedsCrash`, `StateIsLedgered`: how far the two stores may drift apart, and in
  which order they are filled.
- `StaleReloadNeedsOverlap`: what a reload decides on is what it is recorded against.
- `AnsweredIncidentHandled`: an answered request that broke the chain left its alert,
  its actions and its audit entry.
- `CriticalStopsLoad`: the risk table and the integrity table are separate; no body
  of 85 risk points escapes the stop. The margin is one point. A score the client
  supplies in the body does escape, and the property says so.

Three requests are enough for a fork that a third request then extends, for an event
between a read and a write-back, and for a state that a reload read and another
request replaced; two in flight are enough because every property speaks of pairs.
One crash suffices to separate two incarnations of Redis. The bodies are chosen so
that each request can either agree or conflict with the one before: another seal,
another weight, a failed verification, another cargo.

## 4. The telemetry models

`ExposureRules` holds `computeExposureState` and the alert edges. Times are
milliseconds and the stored exposure is in hundredths of a minute, to which
`toFixed(2)` (`domain/exposure.js` 39-41) rounds the sum at every reading. The sum is a
binary fraction, which is as good as exact but for a sum half-way between two hundredths: there the
fraction next to it decides whether `toFixed` goes up. The constant `TiesUp` says for which sums it does; in
the run 0 + 0.005 is stored as 0.01 and 5.17 + 0.005 as 5.17, as in JavaScript, and the proofs hold for any
choice. Phases, weather and positions are left out: they do not enter the status.

`TelemetryPipeline` is `process`, with one action for each call that changes state:

| action | code, `services/telemetryPipeline.js` |
|---|---|
| Arrive | `mqttConsumer.js` 22-35 or the HTTP route starts `process`, which asks for the weather |
| GetState | `exposureRepository.getState` and `computeExposureState` |
| SaveState | the risk is known; `saveState`, and `shouldCreateOperationalResponse` |
| Orchestrate | `actionOrchestrator.orchestrate`, as far as a breach opens its workflow |
| UpsertTwin | `oneRecordService.upsertTwin`, the local twin |
| EnqueueVerification | the verification job |
| LogTelemetry | the audit event and the alert decision |
| AppendAlert, Notify | `appendAlert`, `publishNotifications` |
| FailMqtt, DeadLetter | a rejected call of an MQTT reading, and its dead-letter entry |
| FailHttp | the same on the HTTP route, where it is unhandled and ends the process |
| Crash | any other end of the process |

Risk level and context, which only widen `shouldCreateOperationalResponse`, are a
free choice (`other`). Calls that read nothing back and that no property mentions
(the timeline entry, the sockets) belong to the action they follow.

### Runs

| run | instance | shows |
|---|---|---|
| readings | three readings of a ULD with 60 allowable minutes and one with none, two in flight, over MQTT or HTTP, arriving in any order; one rejected call or crash, which may lose Redis | the properties below hold |

- `BreachIsAnnounced`: alerts mark edges, and the edge is judged on a status read
  before several awaits; still a breach is always announced unless a reading that
  crossed the edge failed after its state was stored. That exception is real: the
  reading is not retried, and the readings after it see no edge.
- `TimeIsCounted`: the minutes add up but for their rounding, over readings of
  which some failed: what is charged exceeds the time between the first and the last reading,
  and the 5 minutes of the first, by half a hundredth of a minute (0.3 seconds) for each reading after
  the first at most, and falls short of it by no more if all were hot and none came late. The bound is
  reached: a second hot reading 10 seconds after the first leaves 5.17 minutes and not
  5.1666, and readings less than 0.3 seconds apart count nothing at all, however many they are. The
  property is stated for readings stored in time order without
  interleaving; `domain/exposure.js` 18 charges 5 minutes for a late reading and
  moves the reference time back, so the sum is off by design otherwise.
- `RecoveryNeedsNoMinutes`: exposure only accumulates, so nothing recovers but a
  ULD that may spend no minute too warm, was in breach for heat that was then rounded to 0.00
  minutes (line 46: any heat is a breach), and is cold at the next reading. For every other ULD the
  branch of `shouldEmitAlert` at line 176 is dead, and the "Recovery alert" of
  `docs/scenarios.md` 23 is not emitted.
- `ExposureNeverFallsAlone`: the stored minutes fall only when an overtaken reading
  writes its stale state, or with Redis.
- `AlertIsAudited`, that no alert is stored without an audit event of its reading, is proved
  (`AlertsAudited`) and not repeated by the run.
- `EveryReadingEnds`: every reading is processed, dead-lettered or cut off.

Readings at 0, 30, 45 and 100 minutes take the first ULD below the warning
(48 minutes), past it, past the breach (60) directly or by way of the warning, and
beyond the gap of 30 minutes; one after 10 seconds is rounded up and another 0.3 seconds later is a
tie that is lost. The ULD without an allowance breaches at once, or 0.2 seconds after a cold
reading, with nothing counted, and is then cold again. Three readings give an
overtaken reading a predecessor and a successor. That twin and state agree is a matter of
verification and is checked there (section 5).

## 5. The reconciliation model

`Reconciliation` keeps the three copies of a ULD's state: `exposure` (Redis, with the
fleet status), `twin` (Redis) and `remote` (the ONE Record server), and the
verification jobs that compare the first two and repair one of them.

| action | code |
|---|---|
| ReadState, SaveState, UpsertTwin, SetTwin, EnqueueVerification | the calls of `process` that touch these stores, for a reading |
| RejectReading | `orchestrate` rejects; the reading goes no further |
| ReadStatus | GET `/uld/:id/status` or `/fleet`, which queue a job |
| Reset | `resetState`: the state, not the twin |
| FetchAnswer, CacheAnswer | GET `/ulds/:id`: fetch the remote copy, put it in the place of the twin |
| UpdateRemote | PATCH `/ulds/:id` by a client |
| VerifyGetState, ReadTwin, FetchRemote, FetchFails, CacheTwin | `verify` up to the comparison; `getUld` also replaces the twin |
| PatchRemote, PatchTwin | `syncOperationalState`: the remote copy, then the twin |
| RestoreState | `saveState` with the twin, when no state was found |
| LogVerification, FailAttempt | the end of a job, or of one of its three attempts |
| Disconnect | the connection to Redis breaks; `platform/redis.js` 100 never makes it again |
| Crash | the end of the process; Redis keeps or loses its data, BullMQ restarts active jobs |

`compareStates` looks at temperature, risk level and minutes; `temp` stands for the first
two. `Deployments` are the four combinations of with and without a ONE Record
server, Redis or memory: without a server the twin in Redis is the only copy, in memory
the local queue runs one job at a time.

| run | instance | shows |
|---|---|---|
| repair | one ULD, readings at 0 and 30 minutes of which the second breaches, one request, one failure, all deployments, two jobs at a time, `FairSpec` | the properties below; `CHECK_DEADLOCK FALSE`, since a system without readings or requests rests |
| reset | memory only, no failure | `ResetClears` (`docs/api.md` 23) is violated: the next verification restores the state from the twin |

- `VerificationConverges`: once a ULD is quiet, state and twin agree within the
  thresholds, however readings and jobs interleaved, unless the last verification was
  lost, dropped or overlapped, or a request put an older copy in the place of the
  twin. The exceptions are real. A job's id is the ULD and the millisecond, and BullMQ
  ignores a second job of a known id even when the first has already read the state.
- `RemoteAgrees`: the server then has the state of the twin, unless a remote call
  failed (`syncOperationalState` stores the twin anyway) or a client changed the copy.
- `UndatedBreachWasRestored`: the node sent to the server has no `breachedAt`; only a
  state restored from there can be in breach without a date.
- `RepairKeepsMinutes`: a repair lowers the minutes of a state only when something else
  was stored during the verification.
- `BacklogClears`: with or without a connection the backlog empties again and again.

Two readings and a request give three jobs, so that one can be dropped and two can
overlap; a reading, a reset or an answer may fall between any two calls of a job.

## 6. The action model

`ActionLedger` has the actions and workflows of one target, each of which is stored twice:
`actions` is the list `uld:<t>:actions`, never changed after creation; `index` is the hash
`actions:index`, where progress is written. `DecisionRules` has what a response is made
of: the context flags, the local risk score in hundredths, `buildDecisionPackage` and the
incident templates.

| action | code, `services/actionOrchestrator.js` and `repositories/operationsRepository.js` |
|---|---|
| Begin | a reading or an incident calls the orchestrator, an operator completes an action, a WhatsApp command arrives |
| GetOpenActions, GetOpenWorkflows | the two reads of `orchestrate` and `orchestrateCargoIncident` |
| AppendAction, SetAction, LogAction | `persistAction`: list, index and timeline, audit |
| AppendWorkflow, LogWorkflow | `persistWorkflow` |
| GetActions | a command reads the list and works on its first entry, or on all |
| GetAction | `acknowledgeAction`, `completeAction` read the index |
| SetUpdatedAction, LogUpdatedAction, AttachCommunication | the write, its audit event and the communication |
| Reject, Crash, FailCommand | a rejected audit insert; the end of the process; the undefined `extractTargetId` |

Run *actions*: one target; first a breach or an incident, then any two of a breach, a
reading shortly before it, another incident and the four operator requests, all three
in flight; one rejected insert or crash; `Builds` both without and with
`extractTargetId`, which is called in `routes/api.js` 325 and defined nowhere. Without it
the code behind the commands is never reached.

- `DuplicatesNeedOverlap`: an action, or a workflow, is opened twice only by overlapping
  requests, an action also by a package that names it twice ("Expedite loading" does
  occur twice, `domain/decision.js`). The other side of it: list entries stay ASSIGNED, so that an
  action once verified is never opened again.
- `PackageIsOpen`: an answered response has left every action and workflow of its package listed,
  even those another request was to create, and an action of its target is pending in the index
  unless an operator completed it, or its creator is about to write it there or was stopped
  before. Neither acknowledgement nor escalation closes an action, whatever was read and written in between.
  It is not promised that something is pending: after a completion a second breach is answered with the
  listed action and nothing to do (`services/actionOrchestrator.js` 15-21).
- `ProgressIsKept`: progress is lost only to `/done` and `/escalate`, which write list
  entries over the index, or between overlapping requests.
- `ProgressIsAudited`: every change is logged or was cut off.

Three requests let one create while one completes and one escalates. Reads are bounded
in the code (200 actions of 500 kept); the model stays below both. Redis keeps its data
here: its loss empties list and index together. No template is automated, workflows
never leave OPEN (`docs/scenarios.md` 24 speaks of completing one; no operation does), and
acknowledgement by a Twilio status needs an action id that nothing stores. 0 degrees at
the last reading counts as no temperature (`domain/context.js`), and the model does the
same. A remote risk service answers what it likes; the packages of the run are those of
the local fallback.

## 7. The intake model

`ReadingIntake` has what `TelemetryPipeline` leaves out because it is about time. A clock
ticks between any two calls.

| action | code |
|---|---|
| Receive, LookUp, Store | `assertTrustedRequest`: freshness, replay key, `setEx`; then validation |
| RefuseOnError | Redis rejects: 400, with or without the key stored |
| ReceiveMessage | `mqttConsumer.js`: no check; dead letter or `process` |
| AskWeather, FetchWeather, FailWeather, RejectWeather | `weatherService.js`: cache, breaker, remote |
| Save | the rest of `process` up to the twin |
| ReadToken, IssueToken, KeepToken, MissToken | `oneRecordAuthService.js` |
| Answer, Tick, Crash | the 202 answer, time, the end of the process |

Run *intake*: two posts of one event, an MQTT message, a clock of four ticks with
windows of one, two failures, Redis or memory; `CHECK_DEADLOCK FALSE`, since every
request may have been answered.

- `TakenTwiceNeedsStampOrLag`: each request has a timestamp of its own (`x-timestamp`), while the key is that of
  event id and nonce. A delivery is taken a second time only after the key of the first had lived, and then only
  if it was stamped after that key was stored, or if between its freshness check and its look-up more
  time passed than lay between its timestamp and that store. So a request that is repeated as it was, by a client
  whose clock is not ahead, is not taken twice by a look-up that comes at once; an event that is
  stamped anew is refused for the life of the key only, and taken again after it. With a timestamp
  ahead of the clock the same happens without a new stamp: the request is still fresh when its key is gone.
- `RefusedRetryWasTaken`: a retry refused as a replay was stored, unless an earlier delivery left its
  key and came to nothing: the key is stored before the body is validated and before
  `process`, which on the HTTP route may end the process.
- `ExpiredTokenNeedsLag`: an expired token is sent only when the token server's answer
  was slower than the slack, or from the in-memory store, which never expires a key.

Two posts are enough for a first delivery and its retry; windows of one tick against a
clock of four reach both sides of every boundary.

## 8. The console model

`OperatorConsole` is a browser tab: what its `screen` shows of tasks and ULDs, its
`alerts`, the offline `queue` and its storage, `syncStatus`, the socket, polls, and the
listeners of `RealtimeProvider` and `SyncRecoveryEffect`. The server is its
`actions:index`, `fleet:status` (`server`) and `alerts:history` (`history`), and the
emissions that are due after each entry is stored: a bag, since two requests may emit
in the other order, and one may be rejected in between and never emit.

| action | code |
|---|---|
| SetAction, SaveFleetStatus, AppendAlert, PublishNotification | an entry the server stores, and whose emission is due; a notification is stored nowhere |
| Emit, LoseEmission | `io.emit` to the sockets connected now; a call before it is rejected |
| HandleEntry, HandleAlert | `socket.on("action")`, `("telemetry")`, `("alert")`: `replaceById`, `updateUlds`, the list cut at its limit |
| StartPoll, ReadLists, FinishPoll, FailPoll | the interval, `/control-tower` on the server, `mergeControlCenter`, the failure |
| Connect, ConnectError, Disconnect | the socket's events |
| GoOffline, GoOnline | the listeners of the browser's events; `GoOnline` may start two flushes |
| FinishFlush | the timer of `flushQueue`: the queue is emptied, nothing is sent |
| markTaskCompleted, Reload | the operator; a new tab over the stored queue |

Run *console*: two actions, a ULD, an alert and a notification, a ULD and an alert every
tab begins with, three entries stored, one mark, one poll and two flushes at a time, any
number of reloads, and an alert list of two.

- `StatusFollowsNetwork`: "offline" is shown only off line, and always then unless a
  socket to a local server is up, whatever the order of browser, socket, poll and timer
  events.
- `SyncedShowsServer`: with nothing under way, each list of which the latest answer was
  fresh, without an event missed or overtaken since, shows the server's entries but for
  what the operator marked. It is the most the code allows: an older poll overwrites a
  newer event until the next poll, and an empty answer replaces nothing, so that the
  seeds stay on the screen.

Three entries give an action two changes that may be emitted in the other order
while another one is polled. The operator's own completions never reach the server;
the model has no such action because the code has none. Two more things the model
shows and no property forbids: an alert stored before a poll and emitted after it is
listed twice, and notifications vanish at the next poll, whose answer knows only the
stored alerts.

## 9. The views

`ReadModels` has the pure functions that make payloads of shipments and tasks: summary,
flights, graph, stakeholders, assistant context, two copilot answers. `CargoViews` extends
`CargoCustody` with a page that asks for one view at a time; every store it is built from
is read in a step of its own:

| action | code |
|---|---|
| Ask, OpenReplay | a page asks; a replay link it was offered is opened |
| ReadAlerts | `getAlerts`, `listPendingActions` |
| ReadIndex, ReadLedgerList | `listCargo`: Redis, or the ledger store when the index is empty |
| ReadState, ReadLedgerState, WriteBack | `getState`, which writes back |
| ReadEvidence, ReadReplayEvidence | stored evidence of a cargo, of an event |
| ReadHistory, ReadLedgerHistory | `getHistory`, and the answer |
| BeginRequest, StepRequest, CrashServer | `CargoCustody`, with the view's share |

A view kind stands for every payload read in the same way: "control-tower" also for
`/stakeholders` and `/ai-ops`, "control-center" for `/cargo-graph`, "chain-of-custody" for
`/cargo/location` and the copilot's answer on one cargo.

Run *views*: two scans of an air waybill and one of another, two views and any offered
replay, a crash that may lose Redis; limits of one shipment and one event, so that the
truncation of the live feed happens.

- `AnsweredEventIsShown`: what a request was answered with is in every view asked for
  afterwards, in every figure computed from it, unless requests overlapped or a view's
  write-back raced with one, or Redis was lost: the list then leaves out what is not in
  the new index.
- `AlertedCargoIsListed`: no alert or task is shown for a cargo that is not listed.
- `TimelineCatchesUp`: a timeline is never behind the state it is shown with.
- `OfferedReplayOpens`: an offered replay opens with its markers, unless Redis was lost
  before its evidence was durable, or has trimmed the event.

The first and the third are of a durable ledger store (`~LedgerMayBeLost`): the in-memory one
may take the event away between two reads. `MayBeTrimmed` is the list of a cargo
that has reached the length Redis keeps (`Retention`); the proofs, which fix no
retention, showed that the properties needed it.

Limits of 250, 100, 300 and 50 rows are not reached. Rows of the ledger store are taken
in the order the answer sorts them in, and reads the code starts together (`Promise.all`)
are taken one after the other in the listed order. The in-memory ledger keeps no replay metadata. The
drawing of `getReplayFrame` is left out. Five routes (`/analytics/overview`,
`/thermal-map`, `/exposure/overview`, `/interventions/board`, `/audit/overview`) call
builders that are defined nowhere, and have nothing to model but that they end the
process, which `Crash` covers.

## 10. Seeding and pages

### Seeding

`CargoSeeding` has `ensureSeedData`, which every read and every `recordEvent` calls first.
The events of the instance are three of two shipments; `recordEvent` is its push and its
saved state.

| action | code, `services/cargoService.js` |
|---|---|
| Call, ListCargo, EnsureSeedData | 43-59: the flag, the awaited listing, the flag again |
| PushSeed, SaveSeed | 60-63: `recordEvent` of the next seed event; its own call finds the flag set |
| ReadControlCenter, PushEvent, SaveEvent | what a request does once the seeding lets it pass |
| Restart | the process ends, also on a rejected call, since neither `server.js` 182 nor a route catches one |

Run *seeding*: the start of the server, a reader, a request on the first shipment and a
restart; `CHECK_DEADLOCK FALSE`, since every call may have been answered.

- `SeedsComeOnceAndFirst`: demo events are recorded twice only by two first calls that
  both asked the empty repository, or after a restart before the first state was saved; and a
  request's state is replaced by that of a seed event only when the
  request passed during the seeding (`early`) or two seedings overlapped.
- `ReaderSeesSeeds`: a reader misses shipments only when it passed during the seeding, or
  when a restart cut it short: the next start finds cargo and never records the rest.

All these exceptions are reached. Three events and four calls let every pair of them meet
before, between and after the events.

### The custody page

`CustodyPage` is the page from its mount on; the backend is a version per shipment.
At this commit `App.tsx` 99 redirects `/cargo-custody`, and nothing else shows the
page; the model is of the page as the repository's README describes its use. Activity feed
and replay player are left out.

| action | code, `frontend/src/pages/CargoCustodyPage.tsx` |
|---|---|
| Select | a click on the list (380), the effect of `selectedCargoId` (162-165), and that of the socket (196-235), which is given up for a new one |
| ReadPart, ShowShipment, FailLoad | `loadShipment`: four requests answered by the backend one by one, applied together |
| ShowList, FailBoot | `bootstrap` |
| SubmitAction, Post, AnswerPost, GoOnToLoad, FailTask | `submitAction`, step by step, and the `finally` |
| AskCopilot, AnswerCopilot | `askCopilot` |
| Connect, Disconnect, HearEvent | the socket |
| RecordElsewhere | another client's event |

Run *shipment*: two shipments with one event each, two loads and one list request at a time,
two of the four parts. `excuse` and `late` are observations.

- `ShownIsCurrent`: at rest the page shows the shipment selected, every part of it up to
  date, but for four reasons, each of which occurs: a slower answer came last, the last
  load failed, an event fell between two sockets, or an action went on to load its own
  shipment after another one was selected.
- `BusyEnds`: the buttons come back, under the fairness of section 11.

Two loads are one that is overtaken and one that overtakes.

### The flight feed

`FlightFeed` is the realtime service, an object that outlives its page, and the control
tower page. Sockets are named only to tell the remembered one from others; timeouts and
pollings are counted. The backend of the repository serves no `/ws`; the model lets the server
accept or refuse.

| action | code |
|---|---|
| Mount, Unmount | the effect of `ControlTowerPage.tsx` 57-88, with `start` and `stop` |
| Reconnect, OnOpen, OnClose | `connect` and its handlers, `attemptReconnect`, `startPolling` (24-74) |
| FlightUpdate, UldUpdate, AlertMessage | `handleMessage` (76-117) |
| Simulate | the interval of `startSimulation` |

Run *flights*: two mounts (React's strict mode alone makes two), a ULD, a flight of the
simulation and one of the server, at most two reconnections; `CHECK_DEADLOCK FALSE`, since an
unmounted page whose service only polls rests.

- `LoopPerStart`: every call of `start` leaves exactly one socket, timeout or polling behind, for
  good: `stop` closes a socket, whose `onclose` opens the next. It is exactly one because an
  error does not reconnect besides the close that follows it.
- `PageShowsService`: the page has the service's flights and alerts, but for simulated alerts,
  which are emitted as `alert` while it listens to `alerts`.
- `ConnectsOrPolls`: the attempts end in a socket or in polling.

Polling calls methods the class does not define; its callbacks change nothing.

## 11. Fairness

The custody and telemetry models assume weak fairness of the next step of every request or reading that
has arrived, and of nothing else: not of arrivals, not of failures, not of crashes.
The justification is that Node.js runs every continuation whose promise has settled,
and that the promises settle: the Redis and PostgreSQL clients answer, reject or lose
their connection, the remote clients have timeouts. A call that fails instead is a
`FailMqtt`, `FailHttp` or `Crash` step, which also ends the request. Weak fairness
is enough because nothing disables the pending step of a request but its failure.

`Reconciliation` assumes weak fairness of the worker as a whole: some step of some job
happens while there is a job. `drainLocal` loops until the queue is empty and BullMQ
hands out what waits; of readings, requests and answers nothing is assumed.

The browser resolves or rejects every request of `CustodyPage` (each has a timeout of eight
seconds, so an answer or a failure of the action under way is weakly fair) and fires the
timeouts of `FlightFeed`; each socket that connects opens or closes, and one that is
closing closes. The other models state safety only and assume no fairness.

## 12. Proofs

TLAPS checks the following for every number of requests, cargo, readings, ULDs, shipments,
demo events, crashes and any rule values, from the named assumptions on the constants alone
(ids differ from the reserved values and from each other where the code keeps them in
different lists; bodies are well-formed, and no package names a workflow twice, as none of
`domain/decision.js` does; bounds are positive; `WarningPercent` is 1..100, `TiesUp` any set of pairs of naturals;
the alerts a tab begins with are finitely many, and so are the cargos a page lists; "no shipment" is no shipment and no request
for one).

| theorem | module | by |
|---|---|---|
| `TypeCorrect`: `Spec => []TypeOK` | `CargoCustodyProofs` | `TypeInv`: types, and a request past the read of the latest event has built its own event |
| `ForkSafety`: `Spec => []ForkNeedsOverlap` | `CargoCustodyProofs` | `ForkInv` |
| `GapSafety`: `Spec => []GapNeedsCrash` | `CargoCustodyProofs` | `GapInv` |
| `IncidentSafety`: `Spec => []AnsweredIncidentHandled` | `CargoCustodyProofs` | `IncidentInv` |
| `OneWriterOneChain`: one request at a time, Redis kept: `Spec => [](HashLinkedChain /\ OneGenesisEvent)` | `CargoCustodyProofs` | `SerialInv`, `GapInv`, `ForkInv` |
| `ChainRefinement`: one request at a time, Redis kept: `Spec => ImplementsChain` | `CargoCustodyProofs` | `SerialInv`, step by step |
| `ReloadSafety`: `Spec => []StaleReloadNeedsOverlap` | `CargoCustodyProofs` | `ReloadInv` |
| `CriticalSafety`: `Spec => []CriticalStopsLoad` | `CargoCustodyProofs` | `ReloadInv`, and the arithmetic of the two tables |
| `LedgerSafety`: `Spec => []StateIsLedgered` | `CargoCustodyProofs` | `LedgeredInv` |
| `LostUpdateSafety`: `Spec => []LostUpdateNeedsOverlap` | `CargoCustodyProofs` | `TouchInv` |
| `LatestEventSafety`: `Spec => []LatestEventRules` | `CargoCustodyProofs` | `LatestInv` |
| `AlertsListed`: `SpecWithViews => []AlertedCargoIsListed` | `CargoViewsProofs` | `IndexInv` |
| `ReplaysOpen`: `SpecWithViews => []OfferedReplayOpens` | `CargoViewsProofs` | `LinksInv`, `ReplayInv` |
| `TimelinesCatchUp`: `SpecWithViews => []TimelineCatchesUp` | `CargoViewsProofs` | `ShownInv`, `TimelineInv` |
| `AnswersShown`: `SpecWithViews => []AnsweredEventIsShown` | `CargoViewsProofs` | `StoredInv`, `DoneIndexed`, `AnswersInv` |
| `ReadingsTypeCorrect`: `Spec => []TypeOK` | `TelemetryProofs` | `TypeOK` is inductive |
| `NoOtherRecovery`: `Spec => []RecoveryNeedsNoMinutes` | `TelemetryProofs` | `SoundInv` |
| `ExposureMonotone`: `Spec => ExposureNeverFallsAlone` | `TelemetryProofs` | `OvertakeInv` |
| `AlertsAudited`: `Spec => []AlertIsAudited` | `TelemetryProofs` | `AuditInv`: a reading about to be judged for an alert is on the trail |
| `BreachAnnounced`: `Spec => []BreachIsAnnounced` | `TelemetryProofs` | `BreachInv` |
| `MinutesAddUp`: `Spec => []TimeIsCounted` | `TelemetryProofs` | `Rounding`, `TimeInv`, with `OvertakeInv` |
| `ReconciliationTypeCorrect`: `Spec => []TypeOK` | `ReconciliationProofs` | `TypeOK` is inductive |
| `ConvergenceSafety`: `Spec => []VerificationConverges` | `ReconciliationProofs` | `SettleInv` |
| `RemoteSafety`: `Spec => []RemoteAgrees` | `ReconciliationProofs` | `SettleInv` |
| `DateSafety`: `Spec => []UndatedBreachWasRestored` | `ReconciliationProofs` | `DateInv`, `FreshInv` |
| `RepairSafety`: `Spec => RepairKeepsMinutes` | `ReconciliationProofs` | `DateInv`, `FreshInv`, and a step lemma |
| `IntakeTypeCorrect`: `Spec => []TypeOK` | `IntakeProofs` | `TypeInv`: types, a received post has its event, nothing was observed in the future |
| `ReplaySafety`: `Spec => []TakenTwiceNeedsStampOrLag` | `IntakeProofs` | `ReplayInv` |
| `RefusalSafety`: `Spec => []RefusedRetryWasTaken` | `IntakeProofs` | `AccountInv` |
| `ExpiredTokenSafety`: `Spec => []ExpiredTokenNeedsLag` | `IntakeProofs` | `TokenInv` |
| `ActionsTypeCorrect`: `Spec => []TypeOK` | `ActionProofs` | `HoldsInv`: what a request holds is of its package and its stage |
| `ActionsOpenedOnce`: `Spec => []DuplicateActionNeedsOverlap` | `ActionProofs` | `ActionsMade`, `ActionsSeen` |
| `WorkflowsOpenedOnce`: `Spec => []DuplicateWorkflowNeedsOverlap` | `ActionProofs` | `WorkflowsMade`, `WorkflowsSeen` |
| `OpenedOnce`: `Spec => []DuplicatesNeedOverlap` | `ActionProofs` | the two above |
| `AnsweredPackageOpen`: `Spec => []PackageIsOpen` | `ActionProofs` | `PackageInv`, `IndexInv`, `CompletedInv` |
| `ProgressLogged`: `Spec => []ProgressIsAudited` | `ActionProofs` | `AuditInv` |
| `ProgressOfActionsKept`: `Spec => ProgressIsKept` | `ActionProofs` | `ProgressWritten`, `ReadsLast`, and a step lemma |
| `ConsoleTypeCorrect`: `Spec => []TypeOK` | `ConsoleProofs` | `Types`: what is in each list, on its way and in a poll |
| `StatusSafety`: `Spec => []StatusFollowsNetwork` | `ConsoleProofs` | inductive with the types |
| `SyncSafety`: `Spec => []SyncedShowsServer` | `ConsoleProofs` | `SyncInv` |
| `SeedsOnce`: `SeedingSpec => []SeedsComeOnceAndFirst` | `EdgeProofs` | `SeedingInv`, `SeedsInOrder` |
| `ReadersSee`: `SeedingSpec => []ReaderSeesSeeds` | `EdgeProofs` | `SeedingInv`, `SeedsGetStored` |
| `PageCatchesUp`: `PageSpec => []ShownIsCurrent` | `EdgeProofs` | `PageInv` |
| `LoopsAddUp`: `FeedSpec => []LoopPerStart` | `EdgeProofs` | `FeedInv` |
| `PageIsCurrent`: `FeedSpec => []PageShowsService` | `EdgeProofs` | `FeedInv` |

*Forks.* That two pushed events with one predecessor overlapped is not inductive: it
does not say why the event about to be pushed has no rival. `ForkInv` adds that the
rivals of a request between its read of the latest event and its push all overlap it
(`PushReady`); this is true at the read because nothing links to the head of the list
yet, or because an empty list means that no event of this Redis incarnation
exists (`HeadIsUnlinked`, `HeadWasPushed`), and it stays true because requests in
flight together are recorded as overlapping (`InFlightOverlap`) and nobody links to
an event before it is pushed (`PushedFirst`).

*Gaps and one writer.* `GapInv` says that every event pushed or built links to `GENESIS` or
to an event pushed before it (`PushedInOrder`, `AboutToWrite`), and a pushed event whose
request is past its insertion is in the ledger; what is missing has its request at
"insert" or cut off. With one request in flight the event about to be pushed
links to the head of the list at the push, not only at the read (`TipRead`); this
makes each push an `Append` of `CustodyChain` behind the tip, and all other steps stutters.
Neither assumption can be dropped (section 3).

*Incidents.* `IncidentInv` follows the alert, the holds and the audit entry of an incident
along the stages that write them. The first two count only for events of the current Redis
incarnation; the epoch an event carries never exceeds the current one, which a loss of Redis
therefore leaves behind.

*Reloads.* `ReloadInv` is `PlanInv`, what a request has decided and built so far, and `AloneInv`. The
latter says that a request which has run alone on its cargo since it
read the state would read the same state again, in Redis or, behind a miss, in the
ledger store. It survives the steps of others because those are on other cargo
(`StepFrame`, `OthersKnow`), and the steps of the request itself by the order of reads
and write-backs (`ReadsKnow`, `WritesKnow`). With it the second read agrees with the
first. `CriticalRiskStops` is the numeric lemma: 85 risk points with an unbroken chain
cost at least 31 integrity points. For a reload the integrity is computed with the
body's action and the risk with the one decided on, hence `CriticalReloadStops`.

*States.* A state in either store, or held by a request on its way to one, comes from an
event of the durable ledger with its evidence (`Shown`, `Backed`): a write-back copies a state that
was shown, a write follows the insertion. `TouchInv` says of an answered request
nobody overlapped that every state stored or under way on its cargo was built on the
one it left; the durable state keeps its handler even when Redis is lost, and while the
request itself is in flight nobody else touches the cargo (`AloneInFlight`).
`LatestInv` says that while its event is the newest, Redis holds its state, so whoever reads
the cargo finds that state there; hence nobody is on the way to load and write back an older
one, and nobody stores another without having pushed another event first (`Restoring`).

*Views.* A view's write-back is the one step of `CargoViews` that touches a store, and it may put an
older state there. `CustodyInv` is what of the custody invariants survives that: all but
what requests know of each other's writes (`AloneInv`). `TrailInv` adds the list of Redis event by
event: what was pushed in this incarnation of Redis is in it, once, unless the list is full. The
tower reads alerts and holds before the list, and whoever leaves one has put the
state in the index before (`KeepsIndex`), from where only a restart takes it, which ends the view too. A
replay looks for evidence before it looks through the history; what is in neither was
linked in an earlier Redis, and nothing stores evidence of that any more (`Unproven`). A state
that is shown is that of a ledgered event (`ShownInv`); the head of the list is
not before it, and where the list is empty the event is of a lost Redis, so that the first row of the
ledger store is not before it either (`HistoriesLead`). Requests that push between two
reads do not reverse that order (`NotBeforeStays`). What a request that ran alone was answered
with stays in both stores (`StoredInv`): a view that loads the cargo's state from the ledger store
and writes it back has read it after the answer, or has the request in `raced`; and while the
event is the newest nobody else is at the cargo, for whoever touched the state it is built on has
ended (`TouchedPast`). `AnswersInv` follows that from the store into what a view has read, and
`RowShowsHandler` and `FiguresShow` from there into the figures of a page. That a sorted list exists, which
`CHOOSE` needs, follows from a least set without one: the provers have no induction over an
operator, but strict inclusion of finite sets is well-founded.

*Exposure.* `SoundInv` accounts for every status by its minutes: BREACH means more
minutes than allowed, or heat under a rule that allows none; AT_RISK at least the warning share. As every reading adds to the
minutes it was judged on, no judgement improves a status but where nothing was counted, and no other reading
reaches the alert with OK. `OvertakeInv` says that the state a reading was judged on is still
stored unless a reading that overlaps it has stored another.

*Breaches.* `BreachInv` traces a breach back to its cause: a stored state in breach
has among the stored readings one that crossed the edge (`BreachHasCause`), and such
a reading, once processed, has left alert and workflow (`CausesHandled`), which only
disappear together with the state, when Redis is lost.

*Minutes.* `Rounding` is the arithmetic of `toFixed` in hundredths: a sum loses or gains at most half of one,
is never less than what was stored before, and stays what it is when whole hundredths are added, for any
`TiesUp`. With it `TimeIsCounted` is inductive once the stored state is known to carry the time of the
reading stored last (`StoredTime`); that the reading about to be stored was judged on that very
state, unless the two overlap, is `OvertakeInv`.

*Convergence.* What a ULD looks like once it is quiet says nothing of the way there, so
`Settled` follows the verification that will be its last: a ULD that is not in doubt has at
most one under way, and once no reading is under way and no job waits (`Expected`), each
stage of that verification knows its part. `OnTrack` is the part about state and twin: the
state that was read is still stored, or was reset; a fetched or restored copy is the
twin; after the audit they agree within the thresholds. `InSync` is the part about the
remote copy. A stored state, an overlapping job, a lost or dropped one each either put
the ULD in doubt or leave a job behind that is still expected; that a waiting job is in the
queue (`JobsInv`) is what makes the last case true. The remote copy equals the node of the twin
only because a node has no date to lose (`RemoteInv`).

*Dates and minutes.* `DateInv` says where an undated state can come from: without a
server nothing is undated, readings date their breaches, and a job whose state was not
found has its ULD among the missing. `FreshInv` says that what an undisturbed
verification has read is still stored, or was reset. So a restore overwrites nothing that a
verification did not see, and a repair that lowers minutes was disturbed.

*Replays.* `KeyLives` gives every stored key its full life unless it is stored anew;
`LookedInVain` says of a post between look-up and store that each key stored for its event
before had lived out its time. `AccountInv` carries the reason for a refusal: every key,
and every refusal for one, has a stored reading, a spoiled event or a delivery still at work
behind it. `TokenInv` relates the end of a cached token to its issue and to the delay of the
answer.

*Actions.* That a duplicate needs overlapping requests does not say why the action about to be
listed is no duplicate. `ActionsSeen` does: whatever another request has listed that
was never in flight with this one was listed before this one read the list, so it is not among
what is left to create. `ActionsMade` is the same of a request's own actions, which leaves the
package that names one twice. `PackageInv` says that what is no longer left to create is
listed, `IndexInv` that an entry missing in the index is the one its creator
is about to write. `CompletedInv` says that an entry that reads VERIFIED, in the index or in the hands of
a request about to write it, goes back to a completion: an acknowledgement writes that status only where it has
read it. Progress comes from a request that wrote it (`ProgressWritten`), and an operator about
to write has read the entry last, or another has written since and overlapped it
(`ReadsLast`); each write is logged next (`AuditInv`).

*The console.* `LastWord` speaks of everything on its way to the screen: no emission contradicts the
server; without one the last event in the inbox has the server's value; without
either the screen shows it, or the operator has marked it. `AlertsArrive` is the same of a
list whose order and length the screen cuts. Both hold of a list only while it is in
`synced`, which a poll enters and a missed or overtaken event leaves.

*Seeding.* Without `overlapped`, one call records seeds at most, and while it does nobody else is
between question and answer (`AloneInSeeding`); a request that did not pass a
seeding finds it over for good (`PastSeeding`), so its state stays (`LateStates`). Without
`broken`, every seeding that began has stored all shipments or is still at it
(`SeedsGetStored`). Without either, a seeding that starts is the first and goes through
its events in order, so that none ahead of it is in a ledger (`SeedsInOrder`).

*The custody page.* What holds at rest says nothing of the way there. `ScreenInv` therefore
speaks of every moment at which no event is on its way on the socket: either the
newest load is not overtaken, is of the selected shipment, and what it has read is still so, or no
such load is left and the screen is right. `LateFirst` says that overtaken loads are the
older ones; `ActionInv`, that an action has one request for the list or one load under way, never
both.

*The flight feed.* `FeedInv` is close to what it proves: each call of `start` has its socket,
timeout or polling (`LoopsCounted`), and the page differs from the service by simulated alerts
only (`PageIsTold`).

Proved of the model, of course: that the model is the code's is the reader's to judge,
with the `map` of `PROJECT.json`, which names the lines of every definition.

### Only model-checked

Every invariant and action property of the passing runs is proved.
`EveryRequestEnds`, `EveryReadingEnds`, `BacklogClears`, `BusyEnds` and `ConnectsOrPolls` are
liveness properties, which the prover does not reach. `HashLinkedChain` and `OneGenesisEvent`
are false unless requests come one at a time and Redis keeps its data; `ResetClears` is
false.

### Mutants

Each module keeps, next to some definitions, a variant that a plausible mistake would
have produced ("Mutant of ..."). Nothing uses them; put in the place of the
original, each makes TLC report the property that `PROJECT.json` pairs it with.

## 13. Not modelled, and why

More than half of the repository's code is the frontend's pages, maps, styles and
components, and much of the rest contracts, demonstration data, configuration and
messages. The models cover the state the program keeps and the decisions it takes,
about a third of all lines; the following is left out.

- `minTempC`: the exposure rules carry it and `computeExposureState` never looks at it.
- `stopLoad` and `chainBroken` are recomputed by every event, so a clean scan after a
  violation lifts a stop. The model does the same. No document or comment says whether
  a stop should last, so nothing is claimed about it.
- `shouldCreateOperationalResponse` does not look at the minutes left: a ULD at risk that comes
  within its last minute without another edge gets no "Expedite loading", although the
  package would name it. `TelemetryPipeline` leaves the response a free choice.
- A query of a dead process that PostgreSQL still executes after the new process has
  started: the model ends a request's effects with its process.
- Redis partly losing writes (its persistence is configured outside the code): it keeps
  everything or nothing.
- ONE Record shipment graphs (`oneRecordService.js` 73-139, 208-232) and the text of the
  twin: remote look-ups whose answers no modelled decision uses. `oneRecordClient.js`, with a
  token cache of its own, is used by nothing.
- Flights, messages and notifications to subscribers: their only influence on the
  modelled state is an answer or a rejection, which the models choose freely.
- The activity feed and the replay player of the custody page; the pages other than those of
  section 10, maps and UI components, which fetch a payload, or keep selections and filters
  only; the table of landing sites and the telemetry history of `realtimeService.ts`.
- Analytics, simulator, broker, scripts, `server.js` and `app.js`: no state that a
  modelled decision depends on.
