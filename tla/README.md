# A verification project for ThreatOrbit

TLA+ models of the parts of ThreatOrbit in which several actors share state, the TLC runs
that check them on small instances, and TLAPS proofs of what matters most for every
instance. Paths below are relative to `src/dashboard_api/` unless they say otherwise.

## 1. The system

ThreatOrbit is a security-operations platform: a FastAPI service (`src/dashboard_api`, where
nearly all state and logic live), two companion services (`src/threat_api`,
`src/log_api`), a log collector for hosts (`src/collector`) and a Next.js client
(`src/frontend`). The dashboard API keeps everything in one relational database: SQLite in
WAL mode by default, Postgres by choice. There may be several replicas. What runs concurrently
is

* request threads of the API, each with its own connection;
* background loops of each replica (`main.py`): connector scheduler, engine, hunts, ATT&CK
  refresh, health monitor, gated by a lease in the database (`leader.py`);
* syslog, TLS and file listeners (`log_listeners.py`);
* the threads of a detection drain (`detection_pool.py`);
* the audit-sink worker (`audit_sink.py`) and fire-and-forget webhook threads
  (`webhooks.py`).

They interact through rows of the database and hardly ever through memory, so the
question is always the same: what one transaction has read may have changed before it writes.

### Inventory

| Component | State | Operations | What is hard | What makes it correct |
|---|---|---|---|---|
| Event queue (`event_queue.py`) | `events.processed`, `claimed_by`, `claimed_at` | insert, claim, complete, requeue, depth | claims that outlive their lease; updates by id without a second test | an event is done iff it was detected; nothing is lost; repeats have a known cause |
| Worker pool (`detection_pool.py`) | thread-local batches | drain: requeue, claim, detect, commit, join | threads that die, drains that overlap | disjoint batches; a drain leaves nothing claimable |
| Ingest (`ingest.py`, `routers/siem.py`) | the backlog | 429 check, insert, inline detection | the check is not atomic with the insert; who drains after a refusal | bounded backlog; a refusal ends |
| Rules (`rule_engine.py`, `engine.py`) | alerts | evaluate per batch, aggregation in a window | a burst cut into batches | a group over the threshold in the window alerts |
| Audit sink (`audit_sink.py`) | `audit_log`, `audit_sink_cursor`, lease `audit-sink` | audit, drain, post, save | failover overlap, failed posts, restarts, commit order | at least once, in order, never dropped |
| Playbooks (`playbook_engine.py`, `routers/soar.py`) | `playbooks`, `playbook_runs` | run, auto-trigger, pause, approve, reject, edit, revert | two deciders, edits during a pause, several approvals | nothing acts behind an unsigned approval; effects once; verdicts final |
| Leader lease (`leader.py`, `main.py`) | `leader_lease` | acquire, test, release | a holder that works past its lease | one replica runs a job at a time |
| Connectors (`connectors.py`) | `connectors.status`, `last_run`, `next_allowed_at`, `state`; `last_state` in memory | scheduled run, manual run, pause, reset, back-off | overlapping runs, stale rows, restarts, a validator shared in memory | one scheduler at a time; a healthy sync is left alone, a dead one retried; a saved validator stands for imported data |
| IOC lifecycle, TI matching (`ioc_lifecycle.py`, `ingest.py`, `routers/cti.py`) | `iocs.status`, `last_seen`, `ioc_sightings`, `events.ti_checked`, R-TIMATCH alerts | decay pass, sighting, known-good mark, match | a pass that writes at its end what it decided at its start; passes of the scheduler and of ingest calls over one batch | known-good stays; a batch is examined once; one standing alert per value; what is seen again is active again |
| Log collector (`src/collector`) | `{inode, offset}` in memory and in a state file | look, read, ship, save | rotation between two looks; a death or a lost answer between shipping and saving | no line skipped; a repeat has a cause; the agent catches up |
| S3 pull (`s3_pull.py`) | a cursor in `settings` | list, ingest in order, store the cursor | an object that fails; overlapping passes; a cursor stored once at the end | nothing behind the cursor is lost; the bucket drains |
| File watcher, listeners (`log_listeners.py`) | offsets in memory of every replica | scan, ingest; receive | offsets move before the ingest; a new leader knows no offsets | a line passed is ingested or known to be lost |
| Webhooks (`webhooks.py`, `routers/config.py`) | `webhooks.status`, delivery threads | dispatch, attempt, save the outcome, pause, resume, delete, test | status written after a pause | a paused webhook stays paused and gets nothing |
| Hunts (`hunting.py`, `routers/siem.py`) | `saved_hunts.last_scheduled` | run when due or when asked, alert on what is new | a watermark of one-second resolution, runs that overlap, a page limit | a new match is reported, and not for ever |
| Sessions, MFA (`auth.py`, `routers/auth.py`, `mfa.py`) | `token_epoch`, `sessions`, `mfa_last_counter` | login, change password, revoke, enrol | read-modify-write of epoch and counter | a revoked session stays revoked |
| Cases (`routers/soar.py`, `escalation.py`, `engine.py`) | `cases`, `case_escalations` | create, note, evidence, task, link, merge, split, escalate | every list is a JSON column read, extended and written back without a lock | an entry survives what comes later |
| Live event stream (`events_stream.py`) | queues in memory | publish | a queue at its limit | best effort |
| Alerts, notifications, suppressions | rows | triage, roll up, suppress | retries of idempotent updates | triage is consistent |
| CTI graph, actors, ATT&CK, enrichment, STIX/TAXII/MISP/Sigma, assets, scoring, reports, compliance, billing, SSO/SAML/SCIM, tenancy, backup, configuration, companion services, client, deployment | mostly reference data and single writes | | | out of scope: see section 7 |

`PROJECT.json` lists every component with its status, and under `hazards` what in this code is
hard to test, each at its line, with the property that covers it or the reason why none does.

## 2. The modules

| Module | What it is |
|---|---|
| `EventQueue` | the SQL statements of `event_queue.py` as operators on a table |
| `WorkQueue` | abstract: an at-least-once work queue |
| `Detection` | drains, inline detection and backpressure over one `EventQueue`; implements `WorkQueue` |
| `MCDetection` | instances of `Detection` for TLC |
| `DetectionProofs` | theorems about `Detection` |
| `Outbox` | abstract: an ordered, at-least-once log |
| `AuditSink` | the audit outbox, its replicas, cursor and lease; implements `Outbox` on SQLite |
| `MCAuditSink` | instances of `AuditSink` for TLC |
| `AuditSinkProofs` | theorems about `AuditSink` |
| `SignOff` | abstract: runs that wait for a signature |
| `Playbook`, `MCPlaybook` | the runs of one playbook, their approvals, and instances; implements `SignOff` |
| `Cases` | the record of each case and the requests that add to it |
| `MCSoar` | `Playbook` and `Cases` side by side in one instance |
| `PlaybookProofs` | theorems about `Playbook`, `Cases` and `MCSoar` |
| `Connectors`, `MCConnectors` | connector syncs, the schedulers of all replicas and their lease, and instances |
| `ConnectorsProofs` | theorems about `Connectors` |
| `Intake` | abstract: a source whose items are taken in at least once, and recorded |
| `Collector` | the log collector, its file and its state file; implements `Intake` |
| `S3Pull` | the agentless pull of all replicas; implements `Intake` |
| `LogWatch` | the file watchers of all replicas; implements `Intake` |
| `IocLifecycle` | one indicator, the matching and decay passes |
| `Webhooks` | webhooks and their delivery threads |
| `Hunts` | one scheduled hunt |
| `MCServices` | the six components before this one, side by side in one instance |
| `LogSourcesProofs` | theorems about `Collector`, `S3Pull` and `LogWatch`, which take logs in |
| `MatchingProofs` | theorems about `Hunts` and `IocLifecycle`, which match what is stored |
| `ServicesProofs` | theorems about `Webhooks`, and about the six components together in `MCServices` |
| `Counting` | lemmas on how the size of a set changes, for the counting arguments |

**What an action is.** One committed transaction, or one read that another transaction can
follow. SQLite has one writer: from the first `INSERT` or `UPDATE` of a transaction to its
commit nobody else writes, so such a transaction is one action. A `SELECT` that runs before the
first write of its transaction takes no lock, so the read and the rest are two actions. This
is why an ingest with parsed lines is one action (`IngestLines`: its `INSERT` comes first)
and one without is two (`SelectUnlocked`, `CommitUnlocked`), and why a decision on a run is
two (`ReadRun`, then `Approve` or `Reject`).

**Slips.** A definition whose comment begins with `(slip)` is a mistake the code could have
made in the definition that follows it. It is not part of the model. Replacing the
definition by its slip must break the property `PROJECT.json` names under `mutants`: that is
how each property is known to say something about the code.

### Detection

State: `queue` is the `events` table with the four columns the queue uses; `thread` is each pool
thread with the batch it holds in memory; `producer` each ingest thread. `fired` counts committed
detection passes per event. `outlived`, `unlocked`, `heard` and `todo` remember what the
properties need of the past and guide no action.

| Action | Code |
|---|---|
| `StartDrain` | `run_pool` up to the start of its threads, with `requeue_stale` and its commit |
| `ThreadClaim`, `ThreadExit` | `claim_locked` under `BEGIN IMMEDIATE`, with and without rows |
| `ThreadCommit` | `run_detection(claimed=...)` and the commit of its alerts and of `complete` |
| `ThreadFail` | an exception or a death: nothing is committed, the claim stays |
| `EndDrain` | the join |
| `Admit` | `_ingest_core`: the depth is read on a connection of its own; listeners skip it |
| `IngestLines` | `ingest_lines`: insert, inline claim, detection, commit |
| `SelectUnlocked`, `CommitUnlocked` | the same without a parsed line |
| `Tick` | the clock of `_now()` |

A claim outlives its lease when `Tick` takes the clock past it, with a drain or an inline pass
free to claim the rows again. Rows that carry one timestamp come back in any order
(`IsBatch`).

### AuditSink

State: `open` holds the uncommitted rows of `audit_log`, `committed` the others, `cursor` is
`audit_sink_cursor.last_id`, `lease` the holder of `audit-sink`, `drainer` the local variables
of `drain_once` in each replica, `sent` what the endpoint has received.

`Audit`, `CommitAudit` and `RollbackAudit` are the audited transactions; `Acquire`, `ReadCursor`,
`ReadRows`, `PostOk`, `PostFails`, `Save` and `PassRaises` the worker; `LeaseRunsOut` and
`Restart` the world. The lease carries no clock: it may run out at any moment, also in the
middle of a pass, because one pass may take 200 posts of 5 s, the lease lasts 60 s and is
renewed only between passes. `OneWriter` is TRUE on SQLite. A timeout is a failed post that the
endpoint may have taken (`PostFails`).

### Playbook

State: `playbook` (its steps, enabled, idle or running), `run` (the rows of `playbook_runs`),
`decider` (what each approve or reject request has read). A step is its kind: `action` for all
kinds with an effect, `condition`, `approval`. `Executed`, `StatusAfter` and `Effects` are
`_exec_from`: the results it appends, the status it returns, the steps that took effect.
`RunPlaybook` and `AutoTrigger` start a run, `ReadRun` with `Approve` or `Reject` is
`resolve_approval`, `Edit` is the update and the revert of a playbook. `acted` counts effects and
`raced` remembers runs that two decisions were under way on at once.

### Cases

State: `opened` are the cases there are, `lists` their columns `war_room`, `tasks`, `evidence` and
`linked_cases`, `call` what each request has read. `Add`, `Link`, `Merge` and `Split` are the reads of the
endpoints, `ReadOther` the `SELECT` of the second case, which another commit may precede, and
`CommitAdd`, `CommitLink`, `CommitMerge`, `CommitSplit` their `UPDATE`s and commits. An entry is the number
of the request that made it. A note of a playbook's step is a request like any other, since a run
that was resumed notes on a case others know. `owed` is what requests have added that had the list to
themselves (`alone`). The two requests of an overlap lose entries to one another in the code and in
the model; the property is about all the others.

### Connectors

State: `conn` is the `connectors` table, `loop` the scheduler thread of each replica with the rows
its tick has read and not run yet, `run` each sync under way (of a scheduler or of a request
thread), `lease` the holder of `background`. The feed is its version, `feed`; `stored` holds the
versions that have been imported whole; a validator is the version it came with. A version in
`oversized` is larger than a fetch keeps (`_BULK_FEED_MAX_BYTES`, `_BULK_MAX_PER_FEED`): its beginning is
imported and its validator saved like any other. `last_state`, the
attribute of the fetcher function, has no variable of its own: what matters is what each sync will
find in it, which is the `tag` of its record, and a fetch sets the tag of every sync of the
process that has not read it yet (`FetchAnswers`).

| Action | Code |
|---|---|
| `Acquire`, `LeaseRunsOut` | the engine loop's `leader.acquire`; the expiry, under a live holder only when that loop stalls |
| `CheckLease`, `ReadDue`, `EndTick` | a tick of `_connector_scheduler`: the lease is tested once, the rows are read once |
| `RunNext`, `RunNextRaises` | the next row of the loop: `status='running'`, or the handler around `run_connector` |
| `Ask`, `RunNow` | `run_now`: the read of the row, and `status='running'` |
| `Fetch`, `FetchFails`, `Import`, `ImportFails` | the fetch and the import of `run_connector` |
| `Finish`, `BackOff`, `Error`, `Raise` | its three writes at the end, and the failure of the last |
| `Pause`, `ResetState` | the endpoints; a resume writes the same columns as a pause |
| `Crash`, `Boot` | the death of a process, and its start with `reset_stuck_connectors` |
| `Tick` | time: ages grow, back-offs shrink |

Times are kept as distances from now, capped where the code no longer tells them apart
(`Old`), so time is unbounded and liveness can be checked. A connector that never ran has age
`Old`: the code takes it for due and for stuck.

### Collector

State: `logfile` is the file at the path, `mem` and `disk` are `Checkpoint.data` and the state file,
`agent` the local variables of `run_pass`. `received` counts what the server took.

| Action | Code |
|---|---|
| `BeginLine`, `EndLine`, `Rotate`, `Truncate` | the program that writes the log, between any two looks of the agent |
| `StartAgent` | `Checkpoint.__init__` |
| `OpenPass`, `StatFile`, `ReadLines` | the three looks of `run_pass` and `read_new_lines` at the path |
| `ShipAccepted`, `AnswerLost`, `ShipRefused` | `Shipper.ship` and its error path |
| `SaveCheckpoint`, `SaveFails`, `AgentDies` | `Checkpoint.save`, and the end of the process anywhere |

The code tells contents apart by inode and size. A content that has grown past an offset remembered
for another one cannot be recognised by it; the model marks these (`spliced`) and the properties
except them, so that what is left is what the code can promise.

### S3Pull, LogWatch

Both run in every replica and ask for the lease once per tick, so a change of leader lets two passes
overlap. In `S3Pull`, `BeginTick` (the test), `ReadPullCursor`, `ListObjects`, `PullObject` or
`ObjectFails` per object, `EndOfList` and `SavePullCursor` are `poll` step by step. `poison` are the
objects that always fail, `late` those put behind a cursor or in the way of a pass that has passed
their place. In `LogWatch`, `SizeFile` and `ReadFile` are the two looks of `scan_log_dir` and
`IngestLines` what follows; `IngestFails` and `WatcherDies` drop the lines read, which the code has
no record of (`dropped`). A half-written line is read by the code as two events; the model writes
lines whole.

### IocLifecycle

State: `ioc` is the row of one indicator, `unchecked` and `checked` the events that carry its value,
`sighted` and `standing` what the passes have produced. A matching pass is `ReadUnchecked`, `LookUp`
(is the value known), `TakeRow` (the `UPDATE` in `record_sighting`, which holds the row until the
commit: `rowLock`), `TestStanding` and `CommitMatch`; `AbortMatch` rolls it back. The pass looks at four
columns of an event (`SrcIp`, `DestIp`, `DestHost`, `Url` are the events that have the value there) and
records a sighting for each that has the value (`Places`). A decay pass is
`ScoreIoc` and `WriteStatus`. The decay curve is reduced to `fresh`: above its rule's revoke score
or not. A sighting adds 8 to the confidence; in the model that makes the indicator fresh.

### Webhooks

`Dispatch` reads the subscribers, `PickNext`, `Attempt`, `Blocked` and `SaveOutcome` are `_deliver` and
`_post_with_retry`, `Test` the test endpoint, which also sends to a paused webhook. `paused` is what
the operators asked for last and `inFlight` the pauses a delivery had been ahead of.

### Hunts

The clock counts seconds, the resolution of the timestamps. An event is dated (`DateClue`) before it
is committed (`StoreClue`). A run is `BeginRun` (the loop of the leader) or `AskRun`
(`POST /siem/hunts/run-scheduled`, any replica), `ReadHunt`, `Search` and `FinishRun`. A search sees the
last `Window` (24 hours in the code) before the moment it runs, whatever the hunt's schedule, and of these
the newest `PageSize` events, counted before they are matched (`InWindow`, `IsPage`). The events the code
cannot report are `belated` (committed after the look that covers their second), `crowded` (left out of a
full page) and `aged` (older than the window when the search ran).

### MCSoar

Playbooks and cases share no row a property relates, so the instance explores the union of their
behaviours, as `MCServices` does. `SoarComposes` proves that a behaviour of the instance is one of each.

### MCServices

The six components share no rows. What couples them is the lease, and each lets its holder change at
any step, which is more than the lease itself allows. So their product adds nothing to their union,
and the instance explores the union: `part` picks the component a behaviour is about.
`ServicesCompose` proves that a behaviour of the instance is one of each component.

### The abstract specifications

`WorkQueue`, `Outbox`, `Intake` and `SignOff` say what a component promises, without the means. They come
from what the docstrings promise, with the exceptions the code leaves open. In `Intake`, `taken` counts how
often each item came in, `passed` are the items the records say are dealt with, `excused` those they may
pass all the same and `mishaps` counts what has gone wrong. Records may move back, but never past an item
that was neither taken in nor excused, and an item comes in again only while mishaps explain it.

| | items | records | excused | mishaps |
|---|---|---|---|---|
| `Collector` | lines of the file | the checkpoint in memory and the state file (`Shipped`) | lines of spliced contents | faults of the agent, replaced files |
| `S3Pull` | keys | the cursor | objects put behind it | aborted passes, changes of leader |
| `LogWatch` | lines of the file | the offsets of all watchers (`GonePast`) | lines dropped, hidden files | changes of leader |

In `SignOff` a run is its status, the count of the effects of each of its steps, and whether two
decisions have overlapped on it. It does not say which steps a signature is for: that is
`SignedBeforeActing`, and false with two gates.

## 3. The runs

Every run finishes in two or three minutes at most with two workers.

| Run | Instance | Shows |
|---|---|---|
| `detection` | 4 events, 2 drains of one thread, 2 clients, one thread death, clock to 3, lease 1 | the safety properties of the queue |
| `detection_live` | 3 events, one drain of 2 threads, one listener | every event is detected in the end; refinement of `WorkQueue` |
| `detection_burst` | one client, one line per request | **violated**: a burst in several requests never alerts |
| `detection_shed` | one client, no drain | **violated**: refusals never end in live mode |
| `audit_sink` | 2 replicas, 3 rows, batches of 2, 2 faults, SQLite | delivery in order, at least once, in the end |
| `audit_sink_postgres` | 1 replica, 2 rows, no faults, Postgres | **violated**: a row is dropped |
| `playbook` | 2 runs, 2 deciders, 1 alert, 1 edit, at most one approval per definition; 3 cases, 2 of them open, 2 analysts, 3 requests | approvals, effects, verdicts; the record of a case |
| `playbook_two_gates` | 1 run, two approvals | **violated**: acts behind an unsigned approval |
| `connectors` | 2 replicas, 1 connector, 1 request thread, 1 fault, 1 version | schedulers take turns; validators lie for two reasons only (another sync's, or a feed imported in part); an enabled connector is synced for ever |
| `connectors_state` | 1 replica, no fault | **violated**: a validator is saved for data that was never imported |
| `connectors_stuck` | 1 replica, no fault, interval above the stuck limit | **violated**: a sync that has just begun is taken for dead |
| `services` | collector: 2 inodes, 2 contents of 3 lines, 2 faults; pull: 2 replicas, 3 keys, pages of 2; watcher: 2 replicas, 2 contents of 2 lines; 2 events, 2 matching passes, a decay pass, 2 acts; 2 webhooks, 2 deliveries of 2 attempts, 2 switches; 2 matching events, 2 loops, a request, 3 seconds | collectors lose nothing they could know of, passes may overlap without losing objects, marks and pauses hold but for one race each, hunts report what they claim to have seen |

**Bounds and why they are enough.** *Detection*: batches of 2, an inline limit of 1 and requests of
up to 2 lines leave a backlog for drains to fight over; a lease of 1 and a clock to 3 let a claim
run out (to 4 in `detection_live`, so that one made after the first tick does too); two clients are
the least that overshoot a limit of 1 together, and 4 events the least with which they reach
the bound of `BacklogBounded`; one death leaves a claim behind. *AuditSink*: 3 rows in batches of 2 need two passes; 2 faults allow a failed post and a
restart in one history; a third replica adds no overlap that two do not have. *Playbook*: two
deciders are the least that race; the definitions put actions before and behind an
approval, a condition behind an approval, and a condition alone; one edit changes the steps
under a waiting run. *Cases*: a case to add to, one to merge or link and one to split off; two requests
to overlap and a third to be the victim, or the witness, of the overlap. *Connectors*: two replicas are needed for a take-over and two syncs for an
overlap, which a scheduler and a request give on one connector; one fault is a crash, a stall
of the lease, a failed write or a version larger than a fetch keeps; one version beside "no validator" is enough to tell imported from
not imported; interval and stuck limit of 1 make both tests meaningful, and `RunAge`, the age of a
sync, is kept only where a property reads it. *Services*: two contents of three lines let an offset be short of, at
and past the end of another content, and an inode come back (the third line
leaves room for a file that is replaced between two looks of one pass: a `Misleading` that overlooks
that time would hold with two lines and fails with three); three keys with pages of two leave an
object for a second pass and a gap for a late one; two replicas, two matching passes and a decay
pass are the least that overlap; the analyst may mark and a sighting follow, or mark and unmark; two attempts tell the last from the
others; three seconds give a run, its search and the commit of an event a second each, and with a window of one
second an event can be too old for the first search after it; of the two events one has the value
in one column and one in two, as where `src_ip` = `dest_ip`. Counters are bounded by `MaxTime`, `MaxFails`, `MaxLines`, `MaxId`,
`MaxFaults`, `MaxVersion`, `MaxEdits` and `MaxCalls`, and in `Services.cfg` by the constants whose names begin with
`Max`, `WatchGen` and `WatchLen`; ids are never reused.

**Deadlock** is off in every run: an instance that has used up its bounded clock, events, rows or
edits rests.

**Symmetry** is used in the two runs that check only invariants and action properties
(`detection`, `playbook`): events, drains, clients, runs and deciders are interchangeable there (cases and analysts would be,
but are few enough).

### Properties

* `DetectedIffProcessed`, `RepeatHasCause`, `BatchesDisjoint`, `DrainComplete`,
  `BacklogBounded`, `BacklogDrains`, `AtLeastOnce`, and the refuted `BurstAlerts` and
  `SheddingEnds`, in `Detection`.
* `NeverDropped`, `RepeatHasCause`, `InOrder`, `EventuallyDelivered`, in `AuditSink`.
* `SignedBeforeActing`, `NoStepLost`, `HaltIsFinal`, `ActsOnce`, `VerdictIsFinal`, in `Playbook`, and
  `AutoOnce`, which is part of its inductive invariant and only proved; `RecordKept`, in `Cases`.
* `TurnsHaveCause`, `LiesHaveCause`, `KeepsSyncing`, and the refuted `ValidatorHasData` and
  `NeverPreempted`, in `Connectors`.
* `NoLineSkipped`, `RepeatsArePaidFor`, `CatchesUp`, in `Collector`; `NothingOvertaken`,
  `RepeatsAreExplained`, `BucketDrained`, in `S3Pull`; `PassedLineAccounted`,
  `RepeatsFollowHandover`, in `LogWatch`.
* `KnownGoodKept`, `SightedOncePerPlace`, `OneStandingAlert`, `SightingRevives`, in `IocLifecycle`.
* `PauseHolds`, in `Webhooks`; `NewsReported`, `RepeatsBounded`, in `Hunts`.

Each is preceded in its module by a comment that says what it means for the code. Several
name the exceptions the code leaves open rather than assume them away: an event may be
detected twice, but only after a claim outlived its lease or an unlocked read; a run
may act twice, but only if two decisions overlapped. Where a comment of the code promises more than
the property with its exception, the exception is the difference: "never re-ship a line"
(`Checkpoint` in the collector) against `RepeatsArePaidFor`, "Known-good is left untouched"
(`decay_iocs`) against `KnownGoodKept`, "a batch is examined exactly once, the count means what it says"
(`match_threat_intel`) against `SightedOncePerPlace` (two passes over one batch, and two columns with one
value), and "the alert now fires on matches newer than the last scheduled run" (`run_due_scheduled_hunts`)
against `NewsReported`.

## 4. Fairness

* `DrainFairness` (`detection_live`): a live pool thread is scheduled, the clock moves, and
  somebody keeps calling `POST /siem/detection/drain`. Nothing in live mode does so by itself,
  which is what `detection_shed` is about, so this is an assumption about the operator. Nothing
  is assumed of producers or of the fate of threads.
* `ProducerFairness` (`detection_shed`): a client that is refused retries, an admitted request ends.
* `FairSpec` of `AuditSink`: a started worker keeps polling (`_POLL_SECONDS`), an open transaction
  ends, a lease that nobody alive holds runs out. That the endpoint answers in the end
  follows from the bound on faults. No fairness makes a replica write an audit row, and only
  `ship()` starts a worker, so `EventuallyDelivered` excepts the time in which no replica has
  started one: after a restart the rows left over wait for the next audited action, although the
  module's documentation says that the poll catches them (`audit_sink.py`, lines 14-16).
* `FairSpec` of `Connectors` (`connectors`): the engine loop and the scheduler of a live replica are
  scheduled (both are `while True` loops whose handlers swallow every exception), a sync under way
  proceeds (its fetch has a time-out), time passes, and the lease of a holder that is dead or was
  renamed runs out. Nobody is relied on to restart a replica, to ask for a sync or to reset one, and
  faults may go unused: `KeepsSyncing` supposes that some replica stays up, and
  says nothing of a connector that is paused again and again.
* `Fairness` of `MCServices` (`services`): the agent keeps making passes and is restarted by its
  supervisor (`Agent`; weak); the scheduler of the leader keeps polling the bucket (`Poll`; weak); a
  matching pass that has begun commits or rolls back, and is begun again (weak); a decay pass is
  begun again and its `UPDATE` gets the row in the end, although matching passes take it again and
  again (strong: Postgres queues those who wait for a row in the order they came). Nobody is relied
  on to write, mark or report anything, and the webhooks, hunts and watchers have no liveness property.

## 5. Findings

1. `detection_burst`: a rule counts within a claimed batch, not within its window
   (`engine.py:446` against `rule_engine.py:12-15`).
2. `detection_shed`: in live mode backpressure, once on, stays on (`routers/siem.py:1018`).
3. `audit_sink_postgres`: ids commit out of order on Postgres and the cursor drops a row
   (`audit_sink.py:101` against `audit_sink.py:17-18`).
4. `playbook_two_gates`: the second approval of a run is not honoured
   (`playbook_engine.py:555` against `README.md:455`).
5. `connectors_state`: two syncs of one process share `last_state`, so one saves the other's validator,
   and the feed answers "not modified" for data that was never imported (`connectors.py:2264`
   against `connectors.py:1911-1912` and `routers/connectors.py:271-273`).
6. `connectors_stuck`: the age of a run is measured from the end of the previous one, so a connector
   whose interval is longer than the stuck limit is picked again while a manual sync of it has just
   begun (`connectors.py:2486` against `connectors.py:2390-2393`).

Three more divergences are exceptions named in a property of a passing run:

* A scheduled hunt may have a schedule of up to a week (`routers/siem.py:1533`) but always searches the last
  24 hours (`hunting.py:411`), and sets `last_scheduled` all the same: what is older is never reported.
  The same holds after a day without a leader (`aged` in `NewsReported`).
* A feed cut at `_BULK_FEED_MAX_BYTES` (`connectors.py:1944`) or by its parser leaves its validator behind
  (`connectors.py:1951-1953`), the "truncated import" that `routers/connectors.py:271-273` offers a reset for
  (`oversized` in `LiesHaveCause`).
* An event with `src_ip` = `dest_ip` is two sightings of the address (`ingest.py:1249-1251`; `Places` in
  `SightedOncePerPlace`).

## 6. Proofs

The theorems of the seven `...Proofs` modules and the lemmas of `Counting` hold for every value of the constants that satisfies
the named assumptions (`QueueAssumption`, `DetectionAssumption`, `SinkAssumption`,
`PlaybookAssumption`, `CaseAssumption`, `ConnectorsAssumption`, `CollectorAssumption`, `S3Assumption`,
`WatchAssumption`, `LifecycleAssumption`, `WebhookAssumption`, `HuntAssumption`: finite sets, distinct
model values, natural bounds; for `Detection` also one thread and one row per batch at least, which
`run_pool` sees to). Where a theorem has a hypothesis of its own (`OneWriter`, `SingleGate`), it is named
below with the run that shows why it is needed.

**Detection.** `TypeCorrect` first. The safety invariants are not inductive: what is missing is who
owns a batch that a thread holds in memory. `BatchOwned` says that an event in the batch of a pool
thread is still pending under that very thread's claim, unless its lease ran out (`outlived`) or an
unlocked inline claim processed it meanwhile (`unlocked`); so a second claim must have waited for
the lease, and a second detection pass has a cause. `SelectedUnlocked` says that an ingest thread
holds only events it read outside the write lock. `IInv` is the conjunction of `TypeOK`,
`DetectedIffProcessed`, `BatchOwned`, `SelectedUnlocked`, `BatchesDisjoint` and `RepeatHasCause`;
`InvStep` has one step per action, and the lemmas `DetectKeeps` and `NoDetectKeeps` carry the two
facts about detection passes through every action. For the refinement, `HeldPresent` adds that a
batch in memory is of events that exist; then each action maps to a step of `WorkQueue` that adds
and serves, or to a stutter.

`DrainIsComplete`: `DrainComplete` speaks of a drain all of whose threads are done; `DoneCovered` speaks of
one thread. A thread is done when it finds nothing to claim, so at that moment every event of its
drain's `todo` is `Covered`: processed, under somebody's claim, or in `outlived`. No later step uncovers
one, since the only way back to an unclaimed row is a lease that ran out (`CoveredStays`).
`BacklogIsBounded`: the depth alone is not inductive, because a request that was let in adds its rows
later. `BacklogInv` reserves them: the depth, and `Surplus` for each request let in, stay within the
bound, and the lines of listeners, whom nobody counts in, come on top (`heard`). A request leaves in the
queue what it adds less what its inline pass takes out, which is at most `Surplus` (`IngestDepth`).

**AuditSink.** With `OneWriter`, at most one row is open and it has the largest id, so rows commit
in the order of their ids (`InvCorrect`). Then no committed row beyond a cursor can have been
missed by the read that saved it: everything at or below `cursor`, `drainer[r].cursor` and
`drainer[r].last` is delivered if committed, and the rows still to post are the first ones behind
`last`. `CursorIsSafe` and `ImplementsOutbox` follow. `OneWriter` is needed: the run
`audit_sink_postgres` is the counterexample without it. `RepeatHasCauseTheorem` needs no `OneWriter`. Until
something is disturbed (a failed post, a restart, a lease lost in the middle of a pass) passes do not
overlap, and `OnePass` says what that means: the busy worker holds the lease, works from the cursor as
it stands, and nothing beyond the cursor has been delivered but by itself in this pass.
`AheadOfLast` says that what it has still to post was not part of that.

**Connectors.** `TypeCorrect` needs `RunHasConnector` (a sync under way is of a connector) beside the
types. `TurnsHaveCause` speaks of two replicas and follows from `TurnHeld`, which speaks of one: a
scheduler in a tick holds the lease, or is in `lapsed`. `LiesHaveCause` speaks of the table, but
what a `Finish` writes there was read by a tick or a request long before, so soundness is
an invariant of every copy of a validator: in the table (`StateSound`), in the rows a tick has yet to
run (`TodoSound`), and in the syncs (`RunSound`), where the one exception is the version in hand
between its fetch and its import. Sound means: imported whole, or in `oversized`, or the connector is in
`crossed`. A fetch that overwrites another sync's copy puts that sync's
connector into `crossed`, and every other step keeps the copies sound.

**Playbook.** A decision writes back the row it read, so everything rests on what it still knows when
it writes. `Known` says that the run exists, that its trigger and alert are those read, and that,
unless two decisions overlapped on it (`raced`), the row is the one read. `Overlapped` says that two
decisions on one run are in `raced`. `DoneOnce` says that a run outside `raced` has done nothing
twice and, where it waits, nothing behind the step it waits at. With these `ActsOnce`, `AutoOnce` and
the action property `VerdictIsFinal` are inductive. The lemmas about `Executed` (what a stretch of
steps appends, and where it stops) carry the argument through approvals. `PlaybookTypes` needs that
`MaxSteps`, a maximum over the definitions, exists (`MaxIsGreatest`).

`SignedBeforeActing`, `NoStepLost` and `HaltIsFinal` need `RowsOrdered`: the results of a run that waits are
those of the steps before its approval, in order and none of them failed (`Waits`); those of a run that
has ended are of consecutive steps, all skipped behind one that halted the run, and none taken behind an
unsigned approval (`Ended`). They are proved under `SingleGate`: an approval, in whichever definition,
stands at one place. With two gates in a definition they are false (`playbook_two_gates`), and an edit
that moves the gate back while a run waits amounts to a second gate.

`ImplementsSignOff` needs no `SingleGate`. A start and a decision write one row and count the effects of
one set of steps (`Written`), which is an `Act` of `SignOff` (`WrittenActs`). A start finds a run without
effects (`RowsKnown`). A decision on a run outside `raced` finds the row it read (`Known`), so the
run still waits, and the steps it takes lie behind the one it waits at, where by `DoneOnce` nothing has
happened: a `Sign`, or with a rejection a `Refuse`. Inside `raced` it is a `DecideAgain`, and the read that
puts a run into `raced` is an `Overlap`.

**Cases.** `CaseTypes` are the types. A request writes lists it read earlier. `RecordKept` needs that what
is owed was there when it read: `MineOwed` for its first case, `TheirsOwed` for the second one. Only a commit that is alone adds to
what is owed, and by `Apart` no other request is then under way on that list of that case, so no copy
grows stale in the sense that matters. `NothingBefore` says that a case not yet opened owes
nothing, which a split needs. `CommitStep` is the one lemma about commits; each kind of commit is
shown to be an instance of it.

**Collector.** Every number the collector keeps, in memory, in the state file or in the hands of a
pass, claims that the lines of one content up to it were received. `OffsetsReal` says that
such a number does not pass the lines there are, `ClaimsTrue` that the claim is true unless the
content is in `spliced`, and `SpliceKnown` that a number which could be taken for one about the
file at the path, and is not, has put that content there. `NoLineSkipped` follows
(`NoLineSkippedTheorem`). `RepeatsArePaidFor` is a budget: a line is received once, and once more per
fault of the agent and per file replaced. It is inductive with `HeavyCovered`: a line that has
used up the budget is behind every number a pass may start from, and with `StaleLook`: a pass that
works with the inode of a file replaced meanwhile has something left to spend on the lines of the new one.
`CollectorIsIntake` maps every step to one of `Intake`, which may do all at once that a step may do: what is
received is what was shipped, `RepeatsArePaidFor` after the step bounds what was received before it, and
`NoLineSkipped` after the step is what `Record` asks.

**S3Pull.** `NothingOvertaken` speaks of the stored cursor. A pass carries two more claims of the same
kind: everything up to its `last`, and everything before the first object it has yet to fetch
(`PassesTrue`). Whichever replica stores its `last` over whichever cursor, the claim it stores is
true: this is why passes may overlap and the cursor may move back. `RepeatsAreExplained` counts: each
fetch of an object, made or possible, is the first or has its cause. `Fetchers` are the replicas that may
still fetch it or store a cursor before it, and `FetchesPaid` bounds the fetches made plus their
number by one plus the passes aborted and the changes of leader. `PullIsIntake` and, below, `WatchIsIntake`
follow the pattern of `CollectorIsIntake`.

**LogWatch.** `WatchersReal` says what a watcher's memory means (its offset counts lines that exist,
a scan starts where the last one stopped, an offset that hides a replaced file is in `hidden`), from
which `PassedLineAccounted` is inductive. `RepeatsFollowHandover` counts as in `S3Pull`: the deliveries of a
line and the watchers that may still ingest it (`MayIngest`) are at most one more than the handovers.

**IocLifecycle.** `StandingAlert`: a pass that is to raise an alert holds the row and found none
standing (`RaiseUnderLock`). `Sightings`: an event in the hands of one pass is unmarked and was not
sighted before (`HeldBatches`), and the pass adds `Places` of it at its commit. `KnownGood`: no decay pass that scored before the mark is left, or the mark
is in `overtaken` (`NoneWillUndo`).

**Webhooks.** `PauseHolds` is inductive beside the types, which need `AttemptsLeft`.

**Hunts.** A run makes two claims besides the one in the table: what it read there, and, once its
search is over, its own date, whose events are reported, in its hands, or in one of the three sets the
code cannot report (`LooksCover`). Overlapping
runs store true claims in any order, as in `S3Pull`. `RepeatsBounded` counts: a run beside the leader's is
paid for by a stray (`RunsPaid`), and `CountsPaid` bounds the times an event was counted as new, the runs
that may yet count it (`Counters`) and those that will, when they end, make the table say again that it is
new (`Resetters`).

**The composed instances.** A step of `MCServices` is a step of the component `part` names and leaves the
variables of the others alone (`OneMoves`), so the instance implements all six at once (`ServicesCompose`),
and likewise `SoarComposes`. `ServicesTypes` and `SoarTypes`, the type invariants the runs check, and
`ServicesAreSafe` and `SoarIsSafe`, their safety properties in one statement each, follow from the theorems of the
components.

**Only model-checked:** liveness (`BacklogDrains`, `EventuallyDelivered`, `KeepsSyncing`, `CatchesUp`,
`BucketDrained`, `SightingRevives`), which needs fairness and `ENABLED`. Every invariant and every action
property of the passing runs is the statement of a theorem. **Only proved:** `AutoOnce`, and that `Collector`,
`S3Pull` and `LogWatch` implement `Intake` and `Playbook` implements `SignOff` (`CollectorTakesIn`, `PullTakesIn`,
`WatchTakesIn`, `SignedOff`): the runs check the invariants these rest on, and the theorems what is said beyond.
No module declares a `RECURSIVE` operator, and no theorem says what a recursive definition
computes.

## 7. What is not modelled

Parsing of log lines, the rule language, scoring and decay arithmetic (over reals), reports,
format conversions and reference data: they compute, they do not interact. HTTP, SQL translation
and cryptography are trusted. Calls to third-party services appear only through their outcome.
Deletions of rows by retention jobs are left out, and so is the creation, edit and deletion of
connectors; statuses that no code tells apart (`idle`, `ok`, `error`) are one. Election switched off
(`DASHBOARD_LEADER_ELECTION=0`) is not modelled: every replica would then lead.

In the modelled components: an append larger than one read of the file watcher, and half-written
lines (above); hunts that group their matches (they return before the count of new matches is made,
so after its first run such a hunt never alerts) and the CTI
watchlists, which notify instead of alerting; indicators below the alerting severity, two rows of one
value (`iocs.value` is not unique), and a sighting after which the confidence is still below the revoke
score; a provider that reuses an ETag for other content; lines of a log that were unread when it was
rotated (the collector does not go back to the old file, and `NoLineSkipped` is about the offsets it keeps); signatures and secrets of webhooks.

Of cases, the tier, the owner, the status, the conclusion, the entities and the alert count are left
out: of two escalations at once the later one records a tier the case had already left.

Sessions, alerts and notifications are small rows edited by single requests. Their two
read-then-write windows (`routers/auth.py:128` and `532`) are listed as hazards without a property. The
live event stream is best effort by design, and the archive is one transaction beside an upload.

## 8. Where a next step would go

1. The tiers and hand-offs of cases, and what the engine opens a case for.
2. Sign-in, with the identity providers and permissions it depends on.
3. The session of the client (`src/frontend/lib/auth-context.tsx`): an answer to the check of an old token
   that comes in after a new sign-in.
