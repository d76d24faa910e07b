# TLA+ model of AgentRouter Observatory

AgentRouter Observatory monitors AI accounts. A Bun process (the *hub*) runs
browser checks, polls quotas, stores everything in SQLite, and notifies a
Telegram chat; *collectors* on other machines read their local session
statistics and upload them to the hub in signed batches over a private network.
This directory holds TLA+ modules of the parts of that system whose correctness
depends on order, failure and time, the TLC configurations that check them, and
theorems about them that TLAPS proves.

Source paths below are relative to the repository; `queue.ts`, `server.ts`,
`client.ts` and `daemon.ts` are in `src/collector/`, `delivery.ts`, `store.ts`
and `events.ts` in `src/observatory/`.

## 1. Inventory

### Parts, their state and their operations

| Part | State | Operations | What makes it hard | Correct when |
|---|---|---|---|---|
| Collector queue (`queue.ts`) | one file per batch, two copies of `{dropped, halted}` with a generation, retry count and next drain time in memory | load and repair, enqueue, peek, statistics, drainStep, unhalt, clear, resetRetries | a crash or an I/O error between any two writes; an awaited upload during which the batch can be purged | the state can always be read again; halts and drop counts survive; limits hold; FIFO; every batch leaves |
| Upload client (`client.ts`) | none | one signed request, response to verdict | lost and late answers, timeouts | a verdict is never better than what the hub did |
| Collector daemon (`daemon.ts`) | queue, cycle latch, timer | runOnce, start, stop | a cycle's deadline leaves work running behind it | cycles go on and do not overlap; what is collected is delivered or counted |
| Session adapter (`session-adapter.ts`) | cursor | pages of session summaries | the database changes between pages | a session is reported once, none is skipped |
| Hub endpoint: admission (`server.ts`) | in-flight counter, token bucket per host | admit, refuse, identify, read, persist, deadline | the deadline races three awaits; leases are released from two places; buckets are purged | leases are exact; one request per host; the rate holds; no commit after a 503 |
| Hub endpoint: ledger and merge (`server.ts`, `store.ts`) | accepted batches, hosts, sessions | claimCollectorBatch, newer-only merge | repeated, late and reordered batches; key rotation | applied once; the row never regresses; a conflict has a cause |
| Notification outbox (`delivery.ts`, `store.ts`) | delivery rows with status, attempts and lease; pass boundary | record, claim, mark sent or failed, prune | several passes interleave; leases run out during a send; crashes | sent means arrived; no duplicate without a cause; everything settles |
| Observatory coordinator (`observatory/coordinator.ts`) | trackers, loops | ingest, record a run, digests, prune | overlapping probes, claim and route in two transactions | every change is told once |
| Event trackers (`events.ts`) | quota, provider and balance epochs | evaluate transitions | the row keeps less than the transition returned; repeated fingerprints | one event per incident, a recovery only after it, no silent drop |
| Policies and digests (`observatory/policies.ts`) | policies, digest watermark per target | resolve, dispatch, due slot | a snapshot is read back as a rule; set-back clocks | the most specific row decides; one digest per slot |
| Check coordinator (`coordinator.ts`) | cycle claim, cancellation, loops | runCycle, stopCycle, grant and poll loops, healing | loops and user requests meet in awaits | one cycle at a time; every account is checked again |
| Read sessions (`agentrouter-session.ts`, `endpoint-poller.ts`) | read process, its requests | poll, heal, close | timeouts, a process that does not exit | nothing is left behind a close |
| Browser worker, challenges (`account-checker.ts`, `challenges.ts`, `scripts/agentrouter-worker.mjs`) | worker, pipe, profile, challenge | start, cancel, time out, kill; publish, complete | cancel, timeout and exit race | a shown challenge is the running worker's |
| Accounts (`accounts.ts`) | one JSON file; sessions and profiles per account | load, change, write; remove | no lock around load-modify-write; ids are used again | the file loads; no account inherits another's sessions |
| Screenshots (`screenshot-retention.ts`) | a directory | capture, name, serve, prune, remove | workers are killed, unlinks fail, ids are prefixes | what a run names is there and whole |
| Telegram notifier (`telegram.ts`) | alert state in a file, offset | processRun, processEndpointObservation, command listener | state is compared before awaits and written after them by two writers | no grant or command is passed over |
| Codex quota (`omp-quota.ts`) | state file | poll, compare, tell | saved first, told later | a drop is told once |
| Balances (`storage.ts`, `observatory/`) | runs, credits, grants, tracker, mirrors | saveRun, record, backfill, poll | two databases, records lost between them | both agree with what was observed |
| Direct collectors (`antigravity/`, `chatgpt/`, `commandcode/`) | accounts, snapshots, latch, pending logins | probe one or all, edit, login | probes overlap; answers leave fields out | a gain was one; a round ends; a verifier is used once |
| Legacy import (`legacy-importer.ts`) | ledger, items | stage, verify, commit | the source changes under the copy | a completed batch brought its rows |
| Database tools (`scripts/db-*.mjs`) | backups, locks | backup, restore, clean-up | the server writes on, tools die | what is deleted is in a copy |
| Dashboard page (`web/dashboard.js`) | selection, requests, timers | select, reload, refresh, stream | answers in any order, lost events | the page shows what was asked for last, and catches up |
| Settings, API, protocol, authentication, configuration, host and session trackers | files, tables | queries, parsing, HTTP | little: stateless, one atomic write, or called by tests only | - |

### How the parts interact

A daemon cycle reads sessions through the adapter, enqueues them as batches and
calls `drainStep(uploadQueuedBatch)` once. The client's request passes the hub's
admission, its identity and signature checks, and ends in one transaction that
claims the batch in the ledger and merges it. The hub's answer becomes a verdict
(accepted, duplicate, conflict, poison, auth, retry), which decides what the
queue does with the batch. Independently, the coordinators record events; recording
an event and the pending delivery that the policies ask for is one transaction,
after which a pass over the outbox sends what it can. The retention loop prunes
events and settled deliveries.

The hazards this code is exposed to, each at its line and with the properties
that watch it, are listed in `PROJECT.json`.

## 2. Modules

| Module | Models | Composed with |
|---|---|---|
| `CollectorQueue` | the durable queue, write by write | part of `Services` |
| `CollectorQueueProofs` | its theorems | extends `CollectorQueue` |
| `DeliveryOutbox` | the outbox table and overlapping passes over it | - |
| `DeliveryOutboxProofs` | its theorems | extends `DeliveryOutbox` |
| `CollectorAdmission` | admission, awaits and deadline of hub requests | - |
| `CollectorAdmissionProofs` | its theorems | extends `CollectorAdmission` |
| `BatchDelivery` | what the pipeline promises for a batch (abstract) | - |
| `CollectorPipeline` | daemon, queue (as a set), client, network, ledger, merge | instantiates `BatchDelivery` |
| `CollectorPipelineProofs` | its theorems, the refinement among them | extends `CollectorPipeline` |
| `CheckCycles` | check coordinator, browser worker, challenges, read sessions and their poll loop | - |
| `CheckCyclesProofs` | its theorems | extends `CheckCycles` |
| `CollectorDaemon` | the daemon's cycle and timers over the pages of the session adapter | part of `Services` |
| `DirectAccounts` | probes of the accounts the hub asks itself | part of `Services` and `Observatory` |
| `LiveView` | how an open dashboard keeps up with the server | part of `Services` |
| `QuotaAlerts`, `ProviderAlerts` | the trackers of one quota window, of one provider | parts of `Observatory` |
| `NotificationPolicies`, `DigestSlots` | which events are delivered; the digests of one policy | parts of `Observatory` |
| `GrantAlerts`, `CommandListener` | Telegram's alert state of one account; the chat's commands | parts of `Observatory` |
| `CodexQuota`, `BalanceLedger` | the weekly Codex quota; one account's balance in both databases | parts of `Observatory` |
| `DirectLogins` | the login that adds an Antigravity account | part of `Observatory` |
| `SnapshotImport` | the legacy import | part of `Observatory` |
| `DatabaseMaintenance` | backup, restore and clean-up of the database | part of `Observatory` |
| `DatabaseMaintenanceProofs` | the theorem of the clean-up | extends `DatabaseMaintenance` |
| `AccountView` | the account page of the dashboard | part of `Observatory` |
| `AccountFiles`, `Screenshots` | the account file and the sessions on disk; the screenshots | parts of `Observatory` |
| `AlertProofs` | the theorems of the parts that tell of something: policies, digests, grants, alerts, balances | extends `Observatory` |
| `ObservatoryProofs` | the theorems of its other parts | extends `Observatory`, instantiates `DatabaseMaintenanceProofs` |
| `Observatory`, `Services` | compositions for the runs | instantiate the above |
| `MC...` | instances for TLC: symmetry sets | extends the module it names |

`Observatory` and `Services` put modules that share no state into one
specification: `part` is chosen in `Init`, only that part takes steps, the others
keep one initial state. A behaviour of the composition is thus a behaviour of one
part, and its fairness is stated for the steps of that part over that part's
variables (`WF_daemonVars(part = "daemon" /\ Daemon!Fire)`). Their configurations
say `CHECK_DEADLOCK FALSE`, because parts come to rest when their bounds are used up
(all updates answered, a page closed, a daemon stopped).

Definitions whose name begins like a neighbouring one and that are commented
"Mutant" are deliberately wrong variants of it; no specification uses them. Each
is a plausible bug, and each property is violated by at least one of them.

### CollectorQueue

JavaScript runs an operation of the queue to completion unless it awaits, and
only the upload is awaited; but the process can die between two durable writes,
and a write can fail. So the step is *one durable write*. `op` is the operation
under way: its name, its phase (`"body"`: unlink, purge, evict or store;
`"backup"` and `"primary"`: the two writes of `persistState`) and the state it is
persisting. No other operation begins until it ends, and `Crash` may come at
any point. `primary` and `backup` are the two copies on disk, `mem` the state
in memory, `files` the batch files, `inFlight` and `upload` drainStep's latch and
batch, `retries` and `wait` the backoff (`wait` is `nextDrainAllowedAt - clock()`).

A write is done, fails without effect (`"failed"`), or changes the disk and then
throws (`"late"`: the directory sync failed). `writeAtomic`'s temporary file is
invisible: rename makes the write appear whole or not at all.

| Code | Actions |
|---|---|
| constructor, `loadState`, repair | `Start`, `LoadFresh`, `LoadSelect`, `LoadRefused`, then `WriteBackup`, `WritePrimary` |
| `enqueue` | `BeginEnqueue`, `PurgeOne`, `EvictOldest`, `StoreBatch` |
| `size`, `totalBytes`, `getStats`; `peek` | `BeginScan`, `PurgeOne`, `DropCorrupt`, `EndSize`, `EndScan` |
| `drainStep` up to the await | `BeginDrain`, `PurgeOne`, `DropCorrupt`, `StartUpload`, `EndScan` |
| `drainStep` after it | `Acknowledged`, `Poisoned`, `Conflict`, `Unauthorized`, `Retry`, `Gone` |
| `unhalt`, `clear`, `resetRetries` | `BeginUnhalt`; `BeginClear`, `ClearOne`, `ClearState`; `ResetRetries` |

The environment lets time pass (`Tick`), and damages a state copy or a batch file.
Three variables are history: `fate` (what became of each batch), `haltOwed` (a
conflict halt was reported and no operator's order has been given since) and
`budget`, the counters that bound the environment, whose flag `ruined` says that
the only readable state copy was damaged: from then on a start may find nothing
it can read, and `LoadRefused` (`STATE_REPAIR_REQUIRED`) is what it should do.

### DeliveryOutbox

`rows` is the deliveries table by event, `passes` the calls of
`processOutboxOnce` under way. A pass is `"claiming"` while it runs JavaScript
(nothing else does then; that is `Quiet`) and `"sending"` while it awaits a send.
Time is relative: `ttl` counts a lease down, `ahead` is how far
`lastPassBoundaryMs` leads the clock, and `retryable` is the set of rows whose
`last_attempt_at` is before the boundary of the pass. A tick is one millisecond
for the boundary and any unit for the lease; both counters saturate.

| Code | Actions |
|---|---|
| `recordEvent` + `routeStoredEvent` + `recordDeliveryAttempt` | `Record` |
| boundary of `processOutboxOnce` | `BeginPass` |
| `claimDeliveryLease`, missing event, missing notifier | `Claim`, `NothingToClaim` |
| the send; `markDeliverySent` / `markDeliveryFailed` with the token fence | `Arrive`, `Answer` |
| `pruneRetention` | `Age`, `Prune` |
| a restart of the hub | `Restart` |

`Arrive` may happen several times in one send: the Telegram transport repeats a
request whose answer it lost. `copies`, `expired` and `lost` are history.

### CollectorAdmission

`req` holds each request's phase (the await its core is in), its leases, the
`released` and `aborted` flags and its answer; `buckets` is the table of token
buckets, `globalInFlight` the counter. `Deadline` is the timer: it aborts,
releases and answers 503 while the core may be in any of its awaits; the core then
goes on until it looks at the signal. A tick of the clock is the time in which a
host earns one token (2 s), so tokens are whole; fractions of a token admit
nothing. `debt` is history: admissions of a host that time has not repaid.

### CollectorPipeline

One session of one host, from the collector to the hub's row. `content` is what
each batch says about the session, `queued` and `halted` the queue seen from
outside (its crash safety is `CollectorQueue`'s subject), `slots` the requests
and answers on the network, `attempt` the slot the client is waiting on, `ledger`
the accepted batches with the key they were signed with, `session` and
`watermark` the hub's rows. A request that the client gave up stays in its slot
and may still be handled, after newer ones. `Restart` may rotate the key.

`BatchDelivery` is the promise: `Submit`, `Apply` (once), `Acknowledge` (only what
was applied), `GiveUp`. Under the mapping `outstanding <- queued`,
`applications <- merges` every step of the pipeline is one of these or a stutter;
`merges` counts how often the transaction went on to merge a batch.

### CheckCycles

A step is what runs between two awaits; the cycle, the worker process, the poll loop
and the read process interleave. `claimed`, `running`, `cancelReq`, `aborted` are the
coordinator's flags, `pc`, `todo`, `acct` say where `runCycle` awaits; `wk` and `pipe` are
the worker and the lines it printed that were not read yet; `broker` is what the
dashboard shows; `session` and `monitor` are what the logins left behind; `profile` says
which browser holds an account's Chrome profile; `poll`, `reader` are the minute loop and
the read-session transport. A heal is a cycle the poll loop starts for one account.

| Code | Actions |
|---|---|
| `runCycle`, its callers | `RunCycle`, `Grant`, `Heal` (in `ReadDead`); `Prepare`, `PrepareFails`, `StartCheck`, `SkipRest`, `RunLost`, `Recorded` |
| `stopCycle`, `runSingleAccountCheck` | `StopCycle`, `CheckTimeout`, `Consume`, `CheckEnds` |
| the challenge broker | `Consume`, `ChallengeExpires` |
| the worker script | `Launch`, `LaunchFails`, `Login`, `MobileChallenge`, `SliderChallenge`, `Authenticated`, `Verified`, `Collected`, `WorkerFails`, `Killed`, `OrphanExits` |
| endpoint poller, read sessions | `PollStart`, `PollAccount`, `Fetched`, `ReaderStarts`, `Blocked`, `ReadRequest`, `ReadOpens`, `ReadOk`, `ReadDead`, `ReadFails`, `PollEnds` |
| shutdown | `Shutdown`, `CloseReader` |

### CollectorDaemon

`source` is what a read of each session meets (absent, sound, too many messages,
corrupt), `cycle` where `runOnce` is with its cursor, the rows of its page and what it
reported, `sched` the timer. `Fire` begins a cycle, `Work` is what it does without
waiting for anything (`OpenQueue`, `QueryPage`, `Unreadable`, `ReadSession`, `EndPage`);
`LoadIdentityKey`, `EnqueueBatch`, `EnqueueFailure` and `Drain` await, and `Deadline` may end
the cycle in any of them. `Write` is OMP. `cycle.steady` is history: the sessions that
were there throughout the cycle.

### QuotaAlerts, ProviderAlerts, BalanceLedger

One step is one observation in one transaction: the tracker's row is read, the
transition evaluated, the row and the events written, and an event is new only if its
fingerprint is. `QuotaAlerts` lets observations come in any order of time;
`ProviderAlerts` writes the row as the store does, with one flag for the incident
level and none for `degraded`, so that the transition reads back less than it returned.
`BalanceLedger` follows one account through both databases: `saveRun` with its credit row
and grant, `recordAgentRouterRun` some time later or never (`Crash`, `Lost`),
`saveEndpointObservation` of the poller, and at `Start` the backfills for rows of older
versions. `SetBack` sets the clock back.

### NotificationPolicies, DigestSlots

`rules` holds the stored policy of each target. `Put` stores what the route stores: the
whole policy that the sent rule resolves to alone; `resolveEffectivePolicy` reads it back
as a rule in its layer. Three of nine scopes (global, event type, identity) stand for
the order. `DigestSlots` has the retention loop's pass (`ProcessDueDigests`), edits and
deletions of the schedule (`Edit`), retention (`Prune`) and a clock that may be set back
by a minute (`SetBack`). Its `claims` are history.

### GrantAlerts, CommandListener, CodexQuota

`GrantAlerts`: `mem` is Telegram's state of an account, `disk` the file, `run` and `poll`
the two handlers; each saves a snapshot taken after its first await and renames it
later (`Written`, `Renamed`), so that the older one may be renamed last. A message
arrives and is answered, arrives unanswered, or does not arrive. `told` counts arrivals.
`CommandListener`: `kind` lists the updates that arrived, `confirmed` what Telegram forgot,
`batch` what was fetched, `sent` the pages of the present answer; a page that fails
leaves the update where it is, and `Stop` loses the offset. `CodexQuota`: `Load`, `Probed`,
`SaveSeen` or `SaveFailure`, `processOmpQuotaTransition` are the awaits of one poll.

### DirectAccounts, DirectLogins

`DirectAccounts` is one module for three collectors that differ in what they keep of an
answer without credits (`AntigravityKept`, `ChatgptKept`, `CommandCodeKept`) and in the
order of comparing, ingesting and storing; the provider is chosen in `Init`. `probe` holds
the loop's probe and the one made by hand, `probing`, `round` and `todo` the round of
`probeAll`. `rises` and `overlapped` are history: amounts the credits rose to, and whether
two probes of one account overlapped. In `DirectLogins` a start keeps a verifier under a
nonce, `exchangeAntigravityCode` takes it before the request to the provider, `Exchanged`
is the answer, `Restart` forgets the verifiers.

### SnapshotImport, DatabaseMaintenance

The importer's awaits are `Begin`, `OpenFile`, `Stage` (the copy, which may be torn by a
write), `Verify` and `Commit` (one transaction over ledger, items and rows), while
`OpenSource`, `WriteSource` and `CloseSource` are the old checker. The maintenance tools
`Call`, `Lock`, `Begin`, `Check`, `Snapshot`, `Publish` and `Finish`, or `Die` and leave their
locks, while the server `Record`s runs; `removed` is history.

### AccountView, LiveView

`page` is the account page (selection, panel, request number, what is rendered), `loads`
the answers it waits for, `cores` the reloads of the list under a refresh and under a
dialog. `data` is what the observatory pages show, by family; the timer, the ticker and
the reload buttons ask, and each answer carries the version the server had when it
answered.

### AccountFiles, Screenshots

`jobs` are the requests that have loaded the account file and not written it yet: each
holds the list it will write. `upsert` and `remove` load and change, `write` replaces the
file, `deleteFiles` takes the sessions and the profile of a removed account one after
the other. `loadAccounts`, `startCheck`, `runWorker`, `checkEnds` are a cycle, which loads the
accounts before it is shown as running and saves a token at its end. An id is a
sequence of what the hyphens of a name separate, because ids are built from names and
screenshots are found by prefix. A request to save names an id of the
file, a new one or none. `files` carry
the number of the account they were written for, `excused` the ids whose removal was cut
short or overlapped. `Screenshots` has a capture (`startCapture`, `writeScreenshot`,
`killed`), the run that names it (`saveRun`), the passes of `pruneOnce` and
`deleteAccountScreenshots` file by file (`unlinkNext`), downloads, and a directory whose
permissions may be changed or that may be replaced by a link (`rootChanges`).

## 3. Runs

| Run | Asks | Bounds | States |
|---|---|---|---|
| `queue_durability` | Is the state readable, are drops and halts right, is nothing uploaded after a conflict, whatever crashes and fails? | 2 batches, room for 1, retention 1, 2 crashes, 2 failing writes, 1 damage, 1 order | 1.3 M |
| `outbox_safety` | Does sent mean arrived and stay so; have duplicates and extra retries a cause? | 2 events, 2 passes of 2 items, 2 retries, 1 slow send, boundary 1 ahead | 643 k |
| `outbox_liveness` | Does every delivery settle? | 2 events, 1 pass, 1 crash, 1 slow send | 219 k |
| `outbox_same_pass` | Does the comment on the pass boundary hold? (violated) | as `outbox_safety`, 1 crash | - |
| `outbox_prune` | Does the comment on pruned deliveries hold? (violated) | same | - |
| `admission` | Are leases exact and returned, hosts single, rates bounded, 503s final? | 3 requests, 3 hosts, 2 in flight, 2 buckets, burst 1 | 387 k |
| `pipeline_safety` | Exactly-once, halts only by rotation, no regress at the hub? | 2 batches, 2 keys, 2 slots, 3 activities | 1.1 M |
| `pipeline_liveness` | Does every batch settle? | same, activity abstracted to 0 | 75 k |
| `check_cycles` | One cycle at a time, no stale challenge, nothing behind a close, every account checked again and again? | 2 accounts, 1 challenge per worker, 1 stop | 413 k |
| `observatory` | See the table below | see below | 1.5 M |
| `services` | Do the daemon, the queue, the probing rounds and the dashboard go on? | 3 sessions in pages of 1, 2 writes, 2 stops; 2 batches of sizes 1 and 2, room for 2, 1 crash, 1 failing write; 1 account, 1 failure; 1 change, 1 failure, 1 reload | 136 k |
| `direct_credits` | Is an Antigravity gain one? (violated) | 1 account, credits up to 1 | - |

The parts of `observatory` and their properties:

| Part | Property | Says | Bounds |
|---|---|---|---|
| quota, provider, codex | `AlertsTold` | a drop to a threshold is told whatever was told before; an outage opens and closes once; a Codex drop is told once unless the process ends | 7 levels around the thresholds, 3 times; 2 incidents; 2 faults, 1 crash |
| policies | `SpecificRowDecides` | the row of the most specific scope decides alone and no resolution throws | every sequence of writes of 3 scopes |
| digests | `DigestsOnce` | no slot twice, times only grow | hourly, daily and interval slots over 9 ticks, 1 set-back |
| grants | `GrantsTold` | the mark stays behind grants that did not arrive; without a mishap each arrives at most once | 2 runs, 1 grant each, 1 poll, 1 crash |
| direct, logins | `GainsRose`, `VerifierOnce` | a gain was one when probes did not overlap; one exchange per verifier | 1 account; 2 nonces |
| listener | `NoCommandLost` | no update is confirmed before it was done with | 3 updates, batches of 2, answers of 2 pages, 2 failures, 1 stop |
| import | `ImportsMatch` | a completed batch stands for all the rows of its file | 2 importers, 2 secrets, 1 edit |
| maintenance | `DeletedBackedUp` | every deleted run is in a published copy | 2 tools, 2 names, 3 runs, 1 death |
| page | `AccountShown` | the page shows what was asked for last | 2 accounts, 3 views, 2 edits |
| ledger | `LedgerAgrees` | the grants, drops and dips told are those the observations show; every run and grant has one row; the deltas of the polls add up | 3 balances, 3 checks, 1 mishap |
| files | `FilesKept` | the file loads; no account finds another's sessions | 2 editors, 2 accounts, 2 edits, 1 cycle, 1 failure |
| shots | `ShotsThere` | what a run names is there and whole until it is due | 2 ids of which one is a prefix, 3 times, 1 removal, 2 faults |

Why the bounds are enough to be interesting. In the queue one place and two
batches make every enqueue of the second batch an eviction; two crashes reach a
crash during the repair of an earlier crash, and two faults a failure after a
half-done write. The outbox needs two passes and a boundary one ahead for all
its races: an expired lease taken over, an answer that comes too late, a second
pass in the same millisecond. `outbox_safety` has no crashes because a restart
there is a lease that runs out with nobody to answer, which `outbox_liveness`
covers. Admission needs more requests than the global limit and more hosts than
buckets. The pipeline needs two batches for reordering, two keys for a rotation
and two slots for a late request beside the current one. `check_cycles` needs two
accounts for a cycle that is stopped between them and for two browsers on one
profile or port. The daemon needs three sessions for a cursor with one before and
one behind it. The quota levels lie below, between and above each threshold and
its hysteresis; two incidents meet a repeated fingerprint; the ticks of the digests
reach the second slot of every schedule; two importers and two tools meet on one
name; the two ids of the screenshots are the case in which a prefix matches both.
The theorems below remove the bounds from every safety property of the passing runs.

The symmetry sets (passes, requests, hosts, slots) permute model values that no
definition orders; runs that check liveness use none.

### What the three violated runs show

- `outbox_same_pass`: `delivery.ts:149` says the guard against claiming a row
  again in the call that failed it "still holds because the boundary is fixed for
  the whole call". When a second pass starts in the millisecond of an earlier
  boundary, its own boundary is one ahead of the clock, and a row that fails in
  this call has `last_attempt_at` before it. The call claims it again; without a
  notifier it burns all retries of the row at once. The property leaves out the
  case of another pass taking the row.
- `outbox_prune`: `types.ts:647` lists failed deliveries among those a prune
  removes; `store.ts:5052` removes sent and silenced ones only. Failed deliveries
  without a retry left stay, and keep their events (`store.ts:5040`).
- `direct_credits`: `antigravity/collector.ts:280` stores an answer without credits
  as 0. The next answer that names them is larger, and a gain is announced for an
  account whose credits never rose. The collectors of ChatGPT and Command Code keep
  null in its place, which announces nothing wrong (`GainsRose`) but lets the gain
  after it pass in silence.

### Fairness

- Queue: an operation that began goes on and ends (synchronous code), a crashed
  collector is started again (systemd), an upload settles (the client has a total
  timeout), time passes, and each cycle reads the statistics (`daemon.ts:167`),
  halted or not: strong fairness, since other operations come in between. Nothing is
  assumed of the operator, the hub or the drain itself: a batch that is never uploaded
  leaves by retention.
- Daemon: its timers fire, the deadline's among them (`Fire`, `Deadline`), and code
  that awaits nothing runs on (`Work`). No await is assumed to settle.
- Outbox: a turn of the event loop ends, a send settles (12 s timeout, three
  attempts), time passes and passes recur, since every poll whose probe
  succeeds ends in one. If every probe fails for ever, nothing starts a pass: the
  `collector_failure` branch of `pollOnce` records its event without one.
- Admission: only the timer of each request fires. No await is assumed to settle.
- Pipeline: the daemon drains in every cycle, an attempt times out, lost requests
  leave the network; a hub that is asked again and again answers with a verdict
  in time some day. The last one is strong fairness on `Persist` and `Receive` of the
  current attempt: a hub that refuses for ever would leave a batch to retention.
- Checks: the awaits of a cycle settle; the total timeout fires and the hard kill
  follows it (`CheckTimeout`, `Killed` once asked); orphaned browsers exit; the poll
  loop's requests time out. The grant loop goes round and meets no cycle now and
  then, the files are readable and a check is recorded when tried again and again:
  strong fairness on `Grant`, on `Prepare` of all accounts and on `Recorded`. The worker
  itself, the operator and the challenges are owed nothing: a login may hang for ever.
- Direct accounts: every request of a probe has a timeout (`ProbeStep`), and the loop
  comes round (`probeAll("loop")`).
- Dashboard: its timers fire; the browser hands over events that came, connects
  again, and settles every request, with an answer or an error.

## 4. Theorems

Every safety property of the passing runs is a theorem of its specification, for every
value of the constants that satisfies the assumptions: any number of batches, keys, slots,
requests, passes, accounts, crashes, faults and edits, and any limits. A property is
seldom inductive: what it says of the present state does not tell what the next step
makes of it. Each theorem therefore rests on an invariant that is (the modules state it
before their lemmas), which TLC checked on the instance of the run first.

Assumptions. `QueueAssumption`, `AdmissionAssumption`, `OutboxAssumption`,
`PipelineAssumption`, `CheckAssumption` and `ObservatoryAssumption` say that limits are numbers, quota
levels percentages, and the queue's batches and the outbox's passes finite in number, and what the modules use
stand-ins for: no tool is 0, no editor `"cycle"`, no balance -1; the alarm of a low
balance is armed again at or above the threshold (55 and 50 in the code).
`DigestsOnceHolds` has a hypothesis of its own, below.

**Queue** (`CollectorQueueProofs`). That one of the copies is readable and that they do
not differ under one generation says nothing of what the next write makes of them.
`CopiesInv` adds what the order of writes guarantees: the backup is never behind the
primary; memory is never behind the primary and at most one generation behind the
backup; during the second write of a persist the backup *is* the state in memory; a
persist either rewrites the state in memory or its successor. From `TypeCorrect` and
`CopiesCorrect` follow

- `AlwaysRecoverable` (`StateRecoverable`), with `ReadableInv`: no start is
  refused, unless the only readable copy was damaged;
- `GenerationsCorrect` (`GenerationsGrow`): a restart never adopts an older state;
- `HaltCorrect` (`HaltStands`), with `HaltInv`: once a halt is owed it is set in
  every readable copy, in memory and in the state being persisted; and with it
  `ConflictStopsUploads` (`NoUploadAfterConflict`);
- `DropsCounted` (`DropCountBounds`), with `CountInv`: from the unlink to the first durable
  write only the state being persisted counts the drop, from there to the second one
  memory and the backup do, and what a crash or a failed write loses is one count;
- `UploadsInOrder` (`InFlightIsOldest`): the batch under upload is the oldest. It needs
  only that an uploaded batch was queued, so that no enqueue brings it back.

**Admission** (`CollectorAdmissionProofs`). `FlagsInv` says of one request what its flags
say of each other: between admission and its end it holds both leases or neither, and
without them it goes on only behind the answer of the deadline. `LeaseInv` relates the
counters to the set of holders, one request per host; `DebtInv` bounds what a host owes by
what its bucket lacks, the time not yet credited included, which is why purging an
idle bucket, which is full, forgives nothing. From them follow `LeasesCorrect`
(`LeasesAccounted`) and `CommitsCorrect` (`CommitUnderLease`).

**Outbox** (`DeliveryOutboxProofs`). `EventInv`: as long as the lease of a row has not run
out in a send, the pass that sends it is the one that holds it (`Fenced`); and a row with a
copy in the chat is settled, or the only pass that could still fail it knows of the
copy (`Delivered`). From it follow `DuplicatesCaused` (`DuplicateNeedsCause`) and
`SentIsTrue` (`SentStays`).

**Pipeline** (`CollectorPipelineProofs`). `PipelineInv` joins the type invariant
to `BatchInv` (queue, ledger and acknowledgements follow and exclude each other),
`TrafficInv` (an answer on the network is true of the hub; without it a late
answer could acknowledge a batch that was never applied) and `AttemptInv` (the
current attempt is signed with the current key; without it a conflict could be
read from an answer to an older key, and a halt would not imply a rotation).
From it follow `DeliversCorrect` (the refinement of `BatchDelivery`),
`HaltCorrect` (`HaltIsRotation`) and `NeverRegresses` (`HubNeverRegresses`);
`CloseCorrect` (`HubShowsClose`) also needs `RowInv`: the row's activity is that
of a batch that was applied, so a close with the highest activity cannot be
refused by a row of an even later one.

**Checks** (`CheckCyclesProofs`). `ChecksInv`: a cycle that is anywhere has claimed the
slot (`CycleInv`); a worker runs during a check only and its output tells of challenges
it has shown (`WorkInv`); a read is for the account that the minute loop waits for
(`ReadInv`). From it follow `OneCycleAtATime` (`OneCycle`), `ChallengesAreCurrent`
(`ChallengesCurrent`) and `ReaderStaysClosed` (`NoReaderAfterClose`).

**Database tools** (`DatabaseMaintenanceProofs`). That deleted runs are in a copy says
nothing of what the next clean-up deletes. `WriterInv` adds what the clean-up knows from
`BEGIN IMMEDIATE` to `COMMIT`: it holds the write lock, and what it staged and then
published is what is in the database. It also needs that a published copy stays
(`CopiesStay`: every writer refuses a name that is taken). The locks of the maintenance
directories play no part in `DeletedBackedUpCorrect`.

**The parts of `Observatory`.** The theorems are about the composition that the run
checks: of a part's variables it takes that part's steps and no others, and its invariant
is that of the part. In `AlertProofs`:

- `AlertsToldHolds` (`AlertsTold`) of a quota, a provider and the weekly quota. `QuotaInv`: a
  fingerprint that was used is behind the epoch of its alarm, or the alarm is marked
  under it; a fall to a threshold thus finds its fingerprint unused. `IncidentInv`: the
  flag of the row is the outage that was told, although the row keeps less than the
  transition returned, and the recovery of a standing outage is not used up. `WeekInv`:
  the file holds the last observation, and a drop not told yet is owed by the poll
  that is about to tell it.
- `SpecificRowDecidesHolds`: a stored row is one whose quiet hours are atomic (`PolicyInv`).
- `DigestsOnceHolds`, under `EventsOutlive`: events are kept for at least an interval and
  twice the time the clock is set back. `DigestInv`: every claim is in the table or so old
  that the clock cannot come back to its slot. The hypothesis is one on the operator's
  settings: a retention of less than a week beside a digest interval of a week
  (both accepted) breaks it, and TLC then finds the digest told twice.
- `GrantsToldHolds`. `GrantInv`: every mark that may come back, from the file or from a
  write under way, is behind what was told; without a mishap only the group that is
  being marked is told beyond the mark.
- `LedgerAgreesHolds` (`LedgerAgrees`). `BalanceInv`: the runs of an older version have no
  rows until the first start, and afterwards all have one; with a clock that is not
  set back runs end, and are recorded, in order (`TimeInv`), and the tracker is what the
  observations come to: low if the balance was and has not been well above since, with
  the number of dips as its epoch (`TrackInv`). It stands on its own from run to run, so
  that records and processes lost in between do not matter.

In `ObservatoryProofs`:

- `DeletedBackedUpHolds` carries the theorem of the database tools over.
- `VerifierOnceHolds`: a nonce is pending, then with the provider, then answered, never two
  of these (`NonceInv`), however exchanges overlap.
- `ImportsMatchHolds`: a completed batch has its rows among the items, an item one
  value under its secret (`ImportInv`).
- `AccountShownHolds`: the property is inductive itself, once the types of the page and of
  its requests are known (`PageInv`).
- `GainsRoseHolds`: the snapshot and what a probe was told were the credits once, the one
  before the other, as long as probes do not overlap (`GainInv`).
- `NoCommandLostHolds`: all that is passed is done with and the batch follows it without a
  gap (`ListenerInv`).
- `ShotsThereHolds`: a capture has its file, and its name to itself, until a removal
  takes it; what a removal has passed is gone (`ShotInv`).
- `FilesKeptHolds` (`FilesKept`). `FileInv`: a list that is to be written and was not
  overtaken has every account of the file but the one to be removed; sessions on disk,
  and the accounts of a cycle that may write more, are those of an account in the
  file, unless its id is being removed or its removal was cut short or overlapped; what
  a removal has passed is gone. Only so does the next account with the id find
  nothing.

**Model-checked only.** Liveness (`QueueServes`, `EveryDeliverySettles`,
`LeasesReturn`, `EveryBatchSettles`, `AccountsChecked`, `KeepsCycling`, `LatchReturns`,
`Refreshed`): the prover does not handle fairness and ENABLED. The three properties
that the code violates have counterexamples instead of proofs.

## 5. What is not modelled

- Bytes: checksums, HMAC signatures, canonical JSON, file modes, HTTP parsing.
  A copy, a file or a request is readable or not, accepted or refused.
- What is computed of data: sums and shares of usage, charts, wording, the parsing
  of provider pages, of answers and of subprocess output (`omp-usage.ts`).
- `settings.ts`: each save replaces one whole file by a rename and reads nothing back
  first, so no two steps of it can disagree; fields that a request leaves out go back
  to their defaults.
- `evaluateHostTransition` and `evaluateSessionTransition` (`events.ts`), `saveScreenshot`
  and the periodic scheduler of `screenshot-retention.ts`: only tests call them. The
  prune of screenshots therefore happens once per start of the process.
- The loops of the observatory coordinator and the scheduler of the check
  coordinator: what they call may come at any time in the models.
- The refresh of access tokens, encryption at rest, and a Telegram message's transport
  beyond its outcomes.
- The operator's repair of a queue that refused to start: `"repair"` is final.
- Several collectors in one pipeline: batches of different hosts share only the
  admission counters, which `CollectorAdmission` models with several hosts.
- The parts marked `not_modelled` in `PROJECT.json`, each with its reason.

Met while modelling, and outside the properties: a digest that is claimed and not yet
routed when the process ends is lost (`DigestsOnce` says at most once); two probes of one
account that overlap may announce one gain twice or a gain that is none; a removal of
the id `a` takes the screenshots of `a-b` with it (`swept` allows for it); of two
overlapping edits of the account file the earlier one is lost (`FilesKept` claims that
the file can be loaded, not that no edit is lost); with a clock that is set back the
balance tracker ignores newer runs.

## 6. Plan

Done: the path of a batch (queue, admission, ledger and merge, the daemon's cycle), of a
notification (trackers, policies, digests, outbox, Telegram's alert state), of a check
(cycles, worker, challenges, read sessions, account and session files, screenshots,
balances in both databases), the direct accounts, the import, the database tools and
the two pages of the dashboard with a state of their own; and, of all of them, the
theorems for every safety property that a run finds to hold. Next, in order:

1. The loops of the observatory coordinator with the unawaited ingestion, composed with
   the outbox: that every recorded event meets a pass.
2. The refresh of tokens in the direct collectors against concurrent probes.

## 7. Running

    tlc -config QueueDurability.cfg MCCollectorQueue
    tlapm CollectorQueueProofs.tla

Each run of the table names its module and `.cfg` in `PROJECT.json`; each takes
a few minutes at most. The proofs of `AlertProofs` and `ObservatoryProofs` take about a
quarter of an hour each when they are checked from nothing, the others less.
