# Web-Watcher in TLA+

A verification project for Web-Watcher, the website and GitHub monitor under
`src/src/web_watcher` (paths below are relative to that directory; `README` alone
is the repository's own). The modules are translated from the Python source; TLC
checks them on small instances, TLAPS proves theorems about ten of them for every
instance.

## 1. Inventory

| Component | State it keeps | Operations | Talks to |
|---|---|---|---|
| Target scheduling and leases (`repository.py`, `scheduled_runner.py`) | `targets` rows: status, `next_allowed_at`, failures, `lease_owner`/`lease_until`/`claim_token` | `claim_targets`, `finalize_execution`, `release_target_lease`, `run_once` | adapters, policy, rule cache, signals and events |
| Rule synchronisation (`scheduled_runner.py`, `rule_parser.py`) | snapshot of the rules file, `_rule_cache`, rows of `targets` | `reload_rules`, `sync_rules` | writes `targets` rows outside the lease protocol |
| Fetch policy and execution semantics (`fetch_policy.py`, `execution_semantics.py`, `fetcher.py`) | none of its own | `prepare_request`, `evaluate_response`, `transition_for`, `fetch` | called by every adapter |
| Host rate limiter (`host_rate_limiter.py`, `repository.py`) | `host_rate_limits` rows; `_active_claims` in memory | acquire, renew, release, update, reap | policy, adapters, `run_once` |
| Adapters: web, RSS, GitHub | target metadata: baselines, ETags, sub-resource states | `execute` | fetcher, policy, limiter |
| Change detection (`dom_extractor.py`, `dynamic_noise.py`, `rule_evaluator.py`, ...) | none: reads and returns the metadata | extract, filter noise, compare, evaluate triggers | web and RSS adapters |
| Signals, events, correlation (`event_correlator.py`, `repository.py`) | `signals`, `events`, `event_signals`, `entities` | correlate, persist, deduplicate, link | `finalize_execution`, pipeline, notifications |
| Single-shot pipeline (`pipeline.py`, `pipeline_runner.py`) | the same tables | observe, correlate, commit, investigate, notify | correlator, investigation, notifications |
| Retention (`retention.py`) | none | delete old events, notifications, results | the same tables |
| Investigation (`investigation_*.py`) | `investigation_results` | poll, run, record, retry | planner, engine, correlator's dispatcher |
| Notification dispatch (`notification_dispatcher.py`, `notify --retry` in `cli_handlers.py`) | `notifications` rows: status, payload (`retry_count`), dispatch lease and token | create, claim, send, finalize, release; put back by an operator | silencer, channel senders |
| Alert silencer (`alert_silencer.py`) | two histories in memory | `should_silence`, `record_dispatch` | dispatcher |
| Rule registry and evaluation (`rule_registry.py`, `rule_evaluator.py`) | `rule_registry` rows | enable, disable, set priority; triggers | `run_once` filters by it; web adapter |
| Storage schema and migrations (`storage.py`, `storage_schema.py`, `repository.py`) | `schema_version` rows, the tables and their columns | script, migrations, checks before operations | every process that opens the file |
| Digest, export, formatting, AI providers, CLI, web UI, presets | - | I/O | all |

**What is hard.** Several worker processes share one SQLite file, each with its
own connection. Python's `sqlite3` begins a transaction at the first
INSERT/UPDATE, so a SELECT before it is outside, although `with
self.connection:` surrounds both. Workers are slower than their leases, die
between two steps, and go on with a `now` taken at the start of the run. Rows are
written back whole by code that has no claim. Backoff, isolation and failure count
are computed in two places. Host claims live in the table and, half of them, in
memory. Signals are correlated before they are stored, against events that another
process may delete. An ETag and the baseline it stands for are separate fields, and
one composite outcome decides about five sub-resources. Every process brings the
schema up to date on its own, statement by statement. Each of these is a hazard of
`PROJECT.json`, at its line.

**What makes each component correct.**
Leases: nobody takes an unexpired lease, a worker that was overtaken stores
nothing, results are stored in the order of the claims. Rule synchronisation: no
old claim comes back over a new one. Policy: a failure is followed by its
delay, repeated failure by isolation, and monitoring goes on. Limiter: no request
inside a host's window, save the repetition of one whose claim was taken, and a live
claim is not taken away. Adapters: the server's 304
never hides a change that was not compared, a change is not reported again within the
adapter's memory and not passed over, the baseline catches up with the page. Ledger: a stored signal has an
event that fits it, a baseline has its signals, nothing refers to what is gone.
Investigation: retries are bounded until there is a result, and every eligible event is dealt with. Dispatch:
"delivered" is true, or the message was silenced for the sake of another; a notification is
given up only after all its attempts, each one is settled. Schema: an open repository has the columns
its statements name, and everyone gets it open.

## 2. Modules

| Module | Models |
|---|---|
| `FencedStore` | the promise of the `targets` and of the `notifications` table, abstractly: numbered claims, results accepted under the current one |
| `TargetLease` | the lease protocol with any number of workers and targets; refines `FencedStore` |
| `RuleSync` | `TargetLease` composed with the rule synchronisation at the start of every run, which breaks its promise |
| `FetchPolicy` | `evaluate_response`, the adapters' outcome, `transition_for`, as operators |
| `TargetLifecycle` | one target through time: `FetchPolicy`, a daemon, the rules file, the registry, the batch commands |
| `GitHubSubresources` | the GitHub adapter's sub-resources and composite outcome, over `FetchPolicy` |
| `ContentTracking` | baselines, ETags and signals of the web and the RSS adapter |
| `SignalLedger` | signals, events, links, notifications, results: scheduler runs, pipelines, retention |
| `InvestigationWorker` | investigation workers and the correlator's dispatcher |
| `NotificationDispatch` | notifications, several dispatchers, their silencers, operators running `notify --retry` |
| `FencedDispatch` | `NotificationDispatch` with a record of its claims, for the refinement of `FencedStore` (proved, in no run) |
| `HostClaims` | host claims and windows, workers, the two kinds of adapter, repeated requests |
| `SchemaSetup` | schema script, migrations and column checks, several processes |
| `TargetLeaseProofs`, `GitHubSubresourcesProofs`, `ContentTrackingProofs`, `SignalLedgerProofs`, `NotificationDispatchProofs` (with `FencedDispatch`), `HostClaimsProofs`, `SchemaSetupProofs` | theorems about the module each is named after |
| `RetryProofs` | lemmas about `FetchPolicy`, theorems about `TargetLifecycle` and `InvestigationWorker`, the two components that retry with growing delays |
| `MC*` | constants, symmetry and small data for TLC |

`TargetLease` and `RuleSync` say *who* may store a result and when;
`FetchPolicy`, `TargetLifecycle` and `GitHubSubresources` *what* scheduling it
stores; `ContentTracking` and `GitHubSubresources` what baseline and which signals;
`SignalLedger` what becomes of the signals; `InvestigationWorker` and
`NotificationDispatch` what becomes of the events. Each takes from its neighbours
only their possible outcomes, loss of the result included (`Discard`, `Abandon`,
`Rollback`, `Crash`).

Definitions introduced by "A mutant:" are plausible bugs of the definition they
precede. They are used by no specification; each is listed in `PROJECT.json` with
the property that fails when the definition is replaced by it.

### TargetLease
A worker goes `idle -> started -> selected -> running` through `run_once`.
`Start` takes the run's only `now`. `ClaimSelect` is the SELECT of
`claim_targets`, `ClaimUpdate` the transaction of all its UPDATEs, which re-test
the lease and not the status, and hand out every selected row whatever
`rowcount` says (the `Target` object then carries a token that is not in the row).
`Commit` is `finalize_execution` with a matching token, `Release`
`release_target_lease`, `Rejected` either of them with another token,
`RolledBack` the `except` of `finalize_execution`. `Crash` loses the worker's
locals and leaves its leases. The targets of a run are worked on in any order,
which is more than the code does. `finalize_execution` reads the token before it
updates; as its UPDATE repeats the test, one step has the same outcomes. Signals
and events written in the same transaction are in `SignalLedger`. NULL is 0; a token
is the number of its claim call, shared by the targets of the call, as tokens are
only compared together with the target's id.

### RuleSync
Between `Start` and the claim, a worker with a rules file walks over its rules,
twice if the file has changed, reads each target (`SyncRead`) and writes the whole
row back (`SyncSave`). Targets of rules exist already (`TargetLifecycle` inserts
them); edits of url, interval, tags and metadata touch no column of the model. Any
number of workers do this beside each other and beside those that hold leases.

### FetchPolicy and TargetLifecycle
Responses are classes of status codes; "other" is 5xx and every code without a
branch; "noStatus" is a fetch without status code. Delays are small integers.
Jitter is any value within its ratio. The web and RSS adapters pass no
`Retry-After` on, so `Transitions` calls `EvaluateResponse` without. The outcomes
after a 200 (changed, unchanged, selector not found, transform error) all store
the same scheduling columns. `TargetLifecycle` counts time relatively (`wait`,
`lease`, `age`), so its behaviours are unbounded and liveness means something;
`sync_rules` (`Insert`) and `claim_targets` are one step each there. `rule` says
whether the file lists the rule and the registry has it enabled (no entry counts as
enabled; priority and group are left out; tags filter in the same way); a target
claimed without a rule in the filtered cache is released again (`Filtered`).
The operator edits the file, switches the rule, and runs `batch-enable`,
`batch-retag` (read in `BatchRead`, written back in `BatchSave`) and `batch-delete`.
`owed`, `late`, `cause` and `stale` record what the last stored response demands,
independently of the row: `owed` counts down the least delay of `README`'s table from the
response on, `late` says how far the run's `now` lay behind it, `cause` what has become of
the failure since, and `stale` whether a batch command still has an older copy in its hands.

### GitHubSubresources
`Start` reads the row at the claim; the sub-resources watched are fetched in the
order of `execute` (`First`), one step each (`FetchReleases`, ...), with `Change` of the
repository in between. `Evaluations` collects what `evaluate_response` says of each,
`Composite` is the outcome of lines 690-704, `Worst` the choice among the failures,
`WithStates` the penalties stored for the next run (`Asked` skips a sub-resource
that serves one). `Finish` is the rest of `execute` and `finalize_execution`,
`Abandon` a run that stores nothing, `Enable` the operator's `batch-enable`. Time
passes between runs only. `emitted` is the memory of fingerprints, one for all
sub-resources, cut to its last `EmittedCap` (100) with each report (`Latest`). A release has
a tag, which is compared, and a time of publication, which is only in its fingerprint; the
fingerprints of pull requests, issues and commits contain the time of the fetch and equal no
other. `Last-Modified` and the target's own ETag (written, never sent) are left out.

### ContentTracking
`kind` is what `_resolve_adapter` makes of the target. A value of a page is a text
with noise, or `Missing`; `Fetch` is a run up to the result of `execute`, `Commit`
stores row and signals, `Discard` loses both. `Suppressed` is the false-positive
guard, `Triggered` the rule's triggers, `KeepsMetadata` the TRANSFORM_ERROR that
leaves the old baseline, `Remembered` the first `FeedCap` entries of a feed. A
known ETag is answered 304. An answer has an ETag or none, as the server pleases; `bare`
records that the last one had none, `seen` which rule it was compared by.

### SignalLedger
`Correlate` is the loop of `_commit_or_release` over the signals of a result,
`Finalize` the transaction with its positional merge of plans, `Rollback` and
`Crash` its failures. A flow (`Receive`/`Observe`, `CorrelateFlow`, `CommitPlan`,
`Pick`, `Investigate`, `Notify`) is one call of the pipeline, each step against the
database as it is by then. `SweepEvents`, `SweepNotifications`, `SweepSelected` are
retention. The scheduler names an entity by the target's id, the tables by a number:
different values, unless a rule's id is itself a numeral. One channel;
`close_event` has no caller and is left out. No tick passes between a correlation and its
commit: with the 29 days between window and retention, it would take as many for retention
to reach an event that was just chosen.

### InvestigationWorker
`Poll` is the query of `fetch_uninvestigated_events`: the earliest `BatchSize` events that
are due, a set, which the worker takes in the order of `created_at` (events are numbered in
it; `Earliest`). `Begin` reads the event's last result, a run ends in one of the engine's statuses (`Runs`) or raises (`RunFails`),
`Save` writes a row whose id is unique: an `IntegrityError` is not caught and ends the
worker, `Restart` brings it back. A status FAILED, TIMEOUT or BUDGET_EXCEEDED of the
engine is stored like a success. The worker is the one of the library.

### NotificationDispatch
`Select`/`Claim` split `claim_notifications` as above; here the UPDATE's
`rowcount` is looked at. `Send` is the channel's answer, `Deliver`/`Fail`/`Suppress` the
three endings of `dispatch_one`, `Abort` an exception it does not handle: it ends the
batch, whose other rows stay leased, and its own row is released, or stays leased when the
`finally` fails (an SQLite error there ends in a NameError, as `sqlite3` is not
imported). What the silencer has by then depends on how far the dispatch had come
(`Interrupted`). `Crash` is the death of the process, silencer included. `ListFailed` and
`Requeue` are `notify --retry`, which reads failed rows and puts each back to pending
without a look at its token. `Guarded` dispatchers have
an `AlertSilencer`: `since` is its cooldown per key, `history` the texts let through,
entered before they are sent. Texts are compared by the relation `Similar`; an
identical text is exempt, as in the code. The limit of 20 texts is left out. A failure
of a sender may still have reached the channel: `_retry_urlopen` posts up to three
times; for `accepted` the sender's word counts. `create_notification` happens once per row. Rows with equal `created_at` come
in any order, which is more than a real table does. `FencedDispatch` numbers the calls of
`claim_notifications` and remembers under which number a dispatcher holds a row and the
row's last result was stored; its steps are those of `NotificationDispatch`.

### HostClaims
`Prepare` is `FetchPolicy.prepare_request` for the host of the target's URL,
`PrepareApi` the GitHub adapter's own claims of the API host; each sends the first request
of a fetch, `SendAgain` the repetitions by which the fetcher answers timeouts and connection
errors (up to `Attempts` requests under one claim); `Answer` is the return
of the fetch (with the web adapters' `finally`), `Limited`/`Accepted`/`Failed` the
branches of `evaluate_response`, `Close` the GitHub adapter's `finally`, `Reap`
the reaping in `run_once`. The reaping in the limiter's constructor is the same
step with a fresh `now`. All times of a run count from its start, as in the code.
After a response that makes `evaluate_response` raise, the GitHub adapter ends; the
model lets it also send its next request.

### SchemaSetup
A table is the set of its columns that were added later, with `id` for the rest. `Open`
to `SetVersion` are the constructor of `Repository`, one step per statement:
sqlite3 begins no transaction for DDL, and `executescript` commits first. `UseTargets`
and `UseNotifications` are the checks before an operation (`_init_target_table`,
`_init_notification_table`); CREATE and the reading of the columns are one step there, as
a table that exists stays. A column or version that another process has added meanwhile
raises, and ends the process, as nothing catches it. `Init` has a new file and every
file whose recorded versions are true. Missing columns are added in any order, which is
more than the code does. `WriteFails` is a statement that gets no lock within
`busy_timeout`, or meets a full disk.

## 3. What is checked

| Run | Instance | Result |
|---|---|---|
| `lease` | 2 workers, 2 targets, clock to 3, 3 claims, lease 1 tick, cooldown longer than interval; symmetric | types, `LeaseInv`, `OvertakenIsFenced`, `LeaseProtected`, `ResultsFenced`, `ImplementsFencedStore` hold (about 480 000 states) |
| `sync` | 2 workers, 1 target, 1 rule, clock to 4, 2 claims | `NewLeaseStays` is violated |
| `lifecycle` | 3 failures to isolation, 3 rungs, runs up to 2 ticks, lease 3 | types, `FailureDelayed`, `EscalatedIsIsolated`, `KeepsBeingChecked` hold (820 000) |
| `lifecycle_backoff` | same | `BackoffIsTemporary` is violated |
| `dispatch` | 2 dispatchers, 1 of them with a silencer, batches of 2, 2 similar notifications of one key, 1 of them without a configured channel, 2 attempts, lease 1, batches up to 2 ticks, 1 fault; 2 operators putting back 2 rows while the table has 1 | types, `SilencedForAnother`, `LeaseExclusive`, `NoEarlyFailure`, `ResultsFenced`, `Settles` hold (390 000) |
| `dispatch_silenced` | same, without faults and operators | `DeliveredMeansAccepted` is violated |
| `hosts` | 2 workers, 2 hosts, lease 2, up to 2 requests of up to 1 tick in a fetch, clock to 4 | types, `WindowRespected`, `ClaimKept` hold (1 500 000) |
| `ledger` | 1 worker with results of 2 signals or none, 1 pipeline, retention, 2 fingerprints of different importance, clock to 2, 3 events | types, `NoDangling`, `EventFitsItsSignals`, `BaselineBacked`, `StoredIsLinked` hold (980 000) |
| `github` | releases and stars with 4 changes, these and pull requests with 2, commits and issues with 3; 2 fingerprints remembered; 2 failures to isolation | `NoBlindEtag`, `ReportedOnce`, `MovesAreReported`, `FailureOfAnyCounts` hold (1 260 000) |
| `content` | 2 extractors, 3 values (2 texts, one with 2 kinds of noise) or none, or a feed of up to 2 entries of which 1 is remembered; answers with and without ETag; 2 changes, 1 edit of the rule | `EtagMeansBaseline`, `KnownEntriesStored`, `TriggeredChangeStored`, `CatchesUp` hold (1 260 000) |
| `investigation` | 2 workers, 1 dispatcher, 1 eligible event behind one that is not, 2 retries, 1 crash | types, `RetriesBounded`, `EveryEligibleSettles` hold (150 000) |
| `schema` | 2 processes, 2 later columns in each of two tables, 1 crash, 1 failing statement, any old file | types, `OpenIsComplete`, `OpensAgain` hold (31 000) |

Deadlock is checked except where a bound stops the system: `ledger` (events ever created, clock), `content` (changes of the page while a
run is complete) and `investigation` (all events dealt with, nothing left to poll).

**Symmetry.** `lease` permutes workers and targets; all its properties are safety
properties that quantify over both, so this is sound. No other run uses symmetry.

**Bounds.** Two actors suffice for the races here: a claim is compared with one
row, and a third actor can only do to it what the second does. A lease of one tick
on a clock of three leaves room for a claim, its expiry, a second claim that is
accepted and the return of the first worker; the proofs remove the bounds
altogether. `MaxClaims` and `MaxTime` are guards of `ClaimUpdate` and `Tick`
only. In `lifecycle`, the failure count is capped at one rung past the ladder,
where all larger counts behave alike, and runs are shorter than the lease, as one
daemon's runs do not overlap. In `dispatch`, `MaxAge` lets a batch outlive its lease
and be overtaken, which counts as the fault, like a crash or an aborted batch; two
notifications of one key in one batch let each be silenced because of the other, or of
itself, and leave one leased when the other is aborted. Operators come in while the table
has one row (`MaxRows`), which is what their race with a dispatcher, and with each other, is
about: `notify --retry` treats each row by itself. In
`hosts`, the window of 1 or 2 ticks and the lease of 2 make claims and windows
end in either order, and a repeated request can find its claim expired or gone. In `ledger`, an event ages past retention (`MaxAge` 1) between a
pipeline's steps; the correlation window is 0, which is less than `MaxAge` as in the
defaults (24 h, 30 days): `retention --max-age-days` below a day would break
`StoredIsLinked`. A result of two
signals, of which either may be a duplicate, is the smallest whose positions can slip; with
three events the first can be in the table, through the pipeline or an earlier run, when the
second is not. In `github`, the ladder (2), the backoff (1)
and a Retry-After (3) differ, so a wrong choice among them shows; four changes, with a
memory of two, let a release come back both while it is remembered and when it is forgotten;
a release can be published again under its tag. In `content`, two
changes take a page there and back, and a cap of 1 lets an entry fall out of the
window. In `schema`, two columns let a process die, or collide, in the middle of a table.

**Fairness.** `TargetLifecycle`: time passes, `run_once` is called again and again
(`handle_daemon`), inserts what is missing, and each run ends, because fetches have
timeouts; how it ends and what the operator does is left open. `NotificationDispatch`:
time passes and each dispatcher's loop goes on (`run_forever`); the channel may refuse
for ever, which is why `Settles` asks for delivered *or* failed. Faults, and rows that
operators put back, are finitely many: two dispatchers whose every batch outlives its lease can hand one notification
to each other without end, as no result of theirs is ever accepted.
`ContentTracking`: the target is fetched again and again, not every fetch fails, and
not every run that has an answer is lost (strong fairness of `Fetch` and of a `Commit`
with an answer): without these the baseline of course stays old. `InvestigationWorker`: each
worker's loop goes on, a dead worker is restarted, time passes; crashes are bounded.
`SchemaSetup`: statements return, and a command that ended is run again; nobody is obliged
to use or close what is open. Crashes and errors are finitely many; collisions are not
bounded, they end because each leaves one column or version less to add.

**Properties that hold where one might doubt it.** A host claim is renewed without a
look at the window, and a request repeated without asking, but whoever sets a window also
clears the claim that could have been renewed (`WindowRespected`; the exception is a
repetition whose claim was lost meanwhile). A retry count is written back from a stale
payload, but it never exceeds the attempts made (`NoEarlyFailure`). A lost run
leaves a target in RECOVERING, from where it is claimed again
(`KeepsBeingChecked`). The links of a result are found by position, and stay aligned
with duplicates among the signals (`EventFitsItsSignals`). Retention deletes events in
the hands of a pipeline, which looks them up again before it writes (`NoDangling`). A
404 of one sub-resource is not lost among successes without news
(`FailureOfAnyCounts`).

## 4. What disagrees with the code

1. A target in BACKOFF is never selected again (`lifecycle_backoff`).
2. With two workers, `sync_rules` writes lease columns it read earlier over a claim made
   meanwhile: a token that has expired comes back over a live one, although `README.md:249`
   says that an expired worker cannot modify the lease a new worker holds (`sync`). With
   two workers nothing of `TargetLease` carries over to `RuleSync`.
3. A silenced notification is stored as delivered, where `models.py:58-61` and
   `notification_dispatcher.py:34` say suppressed (`dispatch_silenced`).
   `SilencedForAnother` says what is left of the promise: such a row has another message of
   its key, sent or tried, as its reason.

Seen while reading and modelling, without a run:

*Scheduling.* `claim_targets`, documented as atomic, returns targets that another worker
leased or finished since its SELECT; the fence keeps the surplus result out, the page is
fetched twice. A timeout or DNS failure makes `evaluate_response` compare `200 <= None`: no
failure is counted and no delay stored, while `README.md:236` has "5xx / 超时 / DNS 失败"
increment `consecutive_failures` and enter backoff or cooldown (`FetchRaises`; a property
that asks for it of every failed fetch is violated by the first). A result stored
between the read and the write of `batch-enable` or `batch-retag` is overwritten, with its
delay and its failure count: the exception of `FailureDelayed` and `EscalatedIsIsolated`. A delay
counts from the start of the run, so that it is shorter by what the run took until the
response (`late`).
`batch-disable` uses `TargetStatus.DISABLED`, which does not exist. `batch-retag`
re-inserts a row deleted since it was read. Targets without a rule in the cache are
claimed and released in every run: they take places of `LIMIT 100`, and a cooldown of
theirs becomes RECOVERING without a probe. A rules file that does not parse raises out
of `sync_rules` and ends the daemon.

*Hosts.* `claim_until` counts from the start of the run, so late in a long run a claim is
born expired and two workers can send to one host at once. The GitHub adapter records
the limits of `api.github.com` under the host of the target's URL. The fetcher repeats a
request under the claim it has, or no longer has: the repetition may fall into a window
recorded since (`WindowRespected` names the exception).

*GitHub.* The default `watch_types` name "tags", which has no code. A run that skips a
sub-resource, or ends NOT_MODIFIED, does not keep the states it was to "persist ... so
next run can resume independently", so a penalty lasts one run; with a 304 of one
sub-resource, new baselines of the others are dropped too. A target in cooldown becomes
RECOVERING and NORMAL without a request if releases are skipped or not watched. A release
whose body is null raises in every run. Pull requests and issues compare the states of
different items, and their fingerprints contain the time of the fetch; they push the
fingerprints of releases and stars out of the memory they share, so that a release that
comes back after 100 other reports is sent again.

*Content.* An answer without ETag keeps the old ETag, and a later 304 hides an uncompared
page (`bare` in `EtagMeansBaseline` and `Agrees`). A page that lacks some of its values
stores its ETag and keeps the older baseline, so that what changed beside the gap is passed
over while the server answers 304. A rule edited is not
evaluated before the page changes. A 304 does not renew the time of the last
observation: a change after a quiet period misses its trigger's time window while the
baseline moves on. Slow drift below a threshold never fires. Entries of a feed beyond the
fiftieth are new at every fetch; an empty or broken feed empties the baseline.

*Ledger.* Signals of a scheduler run never join an open event: the run looks for the
target's id among the numbers of entities (`scheduled_runner.py:436`), so each signal opens
an event and a notification of its own, though the correlator "aggregates signals into
domain events" (`OpenEvents(t, ...)` in `SignalLedger`). The pipeline drops suppressed signals, though its docstring says that it persists
raw signals. Retention's filter by importance compares with `str()` of an enum
("Importance.X") and matches nothing. The rules of cross-target correlation list ids that
never equal the entities of the signals; with numeric ids, the key of a group is built
with `'-'.join` over integers, and the TypeError ends `run_once`.

*Set-up.* Migration 3 passes over every `OperationalError` as "Column already exists" and is
recorded although its statement may have failed; the column then stays missing
(`OpenIsComplete` excepts this case with `errors = 0`). Two processes that open a new or old file at the same moment can end with
"duplicate column name" or an `IntegrityError`; the next start succeeds (`OpensAgain`).
`docker_run.py:50` calls `_get_connection`, which `Repository` does not have: the
container's command ends with an AttributeError (GA_FINAL_VALIDATION_REPORT.md:262 names
this call as the one that initialises the schema). The doctor reads `PRAGMA user_version`,
which nothing sets, and reports version 0 of every file.

*Investigation.* The `worker` command builds the worker without adapter, planner or engine:
it never investigates. Events that are not eligible stay in front of the queue and starve
later ones once they fill a batch. A duplicate row id kills the worker. A stored result has no
`retry_count`, so whoever fails next on that event begins to count anew: with three workers
and the dispatcher of a correlation, an event is tried more often than `max_retries` and the
other workers explain (found when the proof of an unconditional bound failed;
`RetriesBounded` therefore speaks of events without a result).

*Notifications.* A notification that failed for good can be claimed and sent again, as the
UPDATE re-tests the lease but not the status. A dispatcher that dies after the channel
accepted sends again after its lease, though `models.py:64-66` says the fields keep
a crash from duplicating side effects. `next_retry_after` is stored and never
read. Messages are silenced in favour of a similar one that may have failed. `notify --retry`
leaves `retry_count` as it is, so that a row put back has one attempt left, and takes the
token from a dispatcher that is sending. The web and RSS adapters pass no
`Retry-After` to the policy. `finalize_execution` is split by a commit in
`get_or_create_entity`.

## 5. What is proved

Every theorem is `Spec => ...` for all values of the constants under the assumptions
that the modules name. Assumptions on constants are what the code fixes or its
defaults satisfy; TLC evaluates them in the runs.

| Module | Theorems: what they state | Assumptions |
|---|---|---|
| `TargetLeaseProofs` | `TypeCorrect`: `TypeOK`. `LeaseInvariant`: `LeaseInv`. `OvertakenWorkersAreFenced`: `OvertakenIsFenced`. `LeasesAreProtected`: `LeaseProtected`. `ResultsAreFenced`: `ResultsFenced`. `LeaseImplementsFencedStore`: `ImplementsFencedStore` | NULL is no worker, delays are positive, bounds are naturals |
| `RetryProofs`, `TargetLifecycle` | `TypeCorrect`: `TypeOK`. `FailuresDelay`: `FailureDelayed`. `EscalationIsolates`: `EscalatedIsIsolated`. `LifecycleInvariant` | the ladder ascends; the base backoff is at most the largest one and the first rung (30, 600 and 1800 s; nothing overrides them) |
| same, `InvestigationWorker` | `InvestigationTypeCorrect`: `InvestigationTypeOK`. `RetriesAreBounded`: `RetriesBounded`. `AttemptsInvariant` | finitely many workers, at least one, none of them a correlator's dispatcher; sizes and delays are positive |
| `GitHubSubresourcesProofs` | `TypeCorrect`: `TypeOK` (of that module). `NoEtagIsBlind`: `NoBlindEtag`. `ReportsAreNew`: `ReportedOnce`. `NoMoveIsSilent`: `MovesAreReported`. `AnyFailureCounts`: `FailureOfAnyCounts`. `GitHubInvariant` | the ladder ascends; the number of stars is a natural |
| `ContentTrackingProofs` | `KnownWasReported`: `KnownEntriesStored`. `TriggeredChangesAreStored`: `TriggeredChangeStored`. `EtagsMeanBaselines`: `EtagMeansBaseline`. `ContentInvariant` | those of the module |
| `SignalLedgerProofs` | `TypeCorrect`: `TypeOK`. `NothingDangles`: `NoDangling`. `EventsFit`: `EventFitsItsSignals`. `BaselinesAreBacked`: `BaselineBacked`. `EveryStoredSignalIsLinked`: `StoredIsLinked`. `LedgerInvariant` | the correlation window is shorter than retention; finitely many targets |
| `NotificationDispatchProofs` | `TypeCorrect`: `TypeOK`. `LeasesAreExclusive`: `LeaseExclusive`. `FailuresAreEarned`: `NoEarlyFailure`. `SilencingHasAReason`: `SilencedForAnother`. `ResultsAreFenced`: `ResultsFenced`. `DispatchInvariant`. `DispatchIsFenced`: `RecordedSpec => DispatchImplementsFencedStore` | those of the module; finitely many dispatchers |
| `HostClaimsProofs` | `TypeCorrect`: `TypeOK`. `WindowsAreRespected`: `WindowRespected`. `ClaimsAreKept`: `ClaimKept`. `ClaimInvariant` | those of the module |
| `SchemaSetupProofs` | `TypeCorrect`: `TypeOK`. `OpenRepositoriesAreComplete`: `OpenIsComplete` | bounds are naturals, `id` is none of the later columns |

No property above is inductive. The arguments, which are the comments and the lemmas of
the proof modules in short:

- **`TargetLease`.** `TokensIssued` makes a fresh token different from every remembered
  one. `TokenNewerThanAccepted` gives `OvertakenIsFenced`: a token in the row is newer
  than the last accepted one, so an older holder cannot match. `HolderIsOwner` and
  `LeaseComplete` tie the three lease columns together; `OnlyRunningHolds` says that
  claims start from empty hands and that a lease that has expired for a worker's
  clock has expired. The refinement maps `issued` to `claims` and `current` to
  `token`: `ClaimUpdate` is a `Grant` of the rows it leases, `Commit` an `Accept`,
  `Release` a `Withdraw`, all else stutters.
- **`TargetLifecycle`.** The facts about `EvaluateResponse` and `Transitions`
  (`EvaluationFacts`, `TransitionFacts`) bound each delay from below: the jittered power
  of two (`PowerOfTwo`, `LessJitter`, `BackoffsFacts`) and the rung of the ladder
  (`RungFacts`), whichever wins. The strengthening is `AbsentOwesNothing`, a row
  that was deleted and inserted again owes no delay of its former life, and `CopyFits`: what
  a batch command has read keeps the delay owed, up to `late`, and the isolation, unless a
  result was stored since (`stale`).
- **`GitHubSubresources`.** `MetaFits` says that the memory is the end of what was sent
  (`Trails`) and that nothing stands in it twice within its reach (`Spaced`). `RunFits` says
  the second also of what a run in progress will have sent, and that a sub-resource not yet
  asked is as it was read, while a baseline has moved only to what was sent or is reported.
  `Finish` drops the states only when it reports nothing, so memory and reports stay in
  step (`StoredFacts`). `EvalsFit` ties each evaluation to the set of outcomes, and
  `WorstIsWorst` shows that the choice of the last among the most severe finds one, so that
  the composite outcome and the stored delay stem from the same failure.
- **`ContentTracking`.** `KnownInHand` and `ReportsInHand` say of a result in a worker's
  hands what the properties say of the row, so that `Commit` hands it over;
  `Remembered` needs the longest prefix below the cap, found by the least-number
  principle. `EInv`, for `EtagsMeanBaselines`, says that the ETag in hand goes with the
  baseline in hand unless the last answer was bare, and that the baseline of a page has all
  of its values or none (`BaseIsWhole`), which takes care of partial pages.
- **`SignalLedger`.** `PlansHold` is the core: between `Correlate` and `CommitPlan` of a
  flow, the event it chose stays, of its entity, type and importance. Retention cannot
  delete it, since a commit comes before the next tick and the window is shorter than
  retention; other commits only raise importance. `WholeTypes` adds that an event of
  type `content_change` never exceeds the importance whose signals it aggregates.
  `InHand` says that signals of a result join no event, which makes the positional
  merge of plans and rows align.
- **`NotificationDispatch`.** `HoldsInBatch` and `LeaseExact` date a token by the age
  of its batch; two holders within their leases would have one row leased twice.
  `TokensDiffer` extends this to tokens that have expired.
  `PayloadsAreOld` orders the count in a payload below the attempts made, and bounds it by
  the retries that the policy and the operators gave.
  `SilencersAreTrue` ties the two histories to what was accepted or attempted.
  The refinement (`Traced`) does not need tokens that are never used twice: a fresh token
  differs from those remembered, so equal tokens always mean the same claim. `Claim` is a
  `Grant`, an ending of `dispatch_one` whose token matches an `Accept`, a `Requeue` and
  an `Abort` whose release succeeds a `Withdraw`; a stale ending, `Crash` and all else
  stutter. This is stronger than
  `ResultsFenced`: a row that is claimed again after a failure takes no result of an earlier
  claim any more.
- **`InvestigationWorker`.** `RowsNumbered`: as long as an event has no result, its rows are
  the attempts 1, 2, ..., n, and the id of each says so. `RowsInHand`: a failed attempt in a
  worker's hands has a number up to n + 1, and if it is not n + 1 its id is taken, so that the
  `IntegrityError` fences it off. `AttemptsCounted`: an attempt begins only while n is below
  `max_retries`; from there on each further row uses up one of the workers that were already
  trying, of which there are at most all but the one that stored the last row. n and the
  workers trying together never exceed `RetryBound`. That the first event of a batch
  exists is a least counterexample.
- **`HostClaims`.** `RenewableIsOpen`: what a holder can renew lies outside the window even
  by its old clock, because setting a window clears the claim. `ClaimedIsOpen` says it of
  every claim, which is what a repeated request relies on; `RunsBeganInThePast` compares
  the clocks.
- **`SchemaSetup`.** `RecordedIsDone` says of a recorded version that all migrations up to
  it are done (one alone would not do, as only the largest version is read), `Knows` what
  a process may rely on where it is, `KnowsStable` that this stays true while others work,
  as columns are only ever added.

Each proof of a step has one lemma or step per action. Facts about exponentials and
greatest elements, which would need induction, come from `FS_SUBSET` (2^n counts the
subsets of n things) and from `NatLessThanWellFounded` (a least counterexample), as
the library's induction theorems cannot be instantiated.

Only model-checked:

- liveness, which the prover does not cover: `KeepsBeingChecked`, `Settles`, `CatchesUp`,
  `EveryEligibleSettles`, `OpensAgain`;
- the three disagreements at the head of section 4, which are behaviours TLC finds.

## 6. What is not modelled, and why

- **Cross-target correlation** (`scheduled_runner.py:766-1010`,
  `cross_target_correlator.py`): with the ids that reach it no group ever forms (above);
  a model of it would have no behaviour.
- **Extraction, transforms, hashing, textual diffs, formatting of messages and cards,
  enrichment, digest, export**: pure functions of data that no property tells apart, or
  that only read.
- **AI providers, tools and evidence of an investigation**: external; the worker
  sees that a run fails or which status it ends in.
- **The rest of the CLI, the web UI, the doctor**. Of the commands that write, those that
  touch the protocols are modelled: `targets batch-*`, `registry enable`, `disable` and
  `remove`, `rules enable` and `disable` (`EditFile`), `notify --retry`, `retention`, and
  `reload`, which syncs as a run does. Not modelled, since no property reads what they
  write: the priority and group of a registry entry (`cli_handlers.py:1151-1169`), user
  presets (`cli_handlers.py:912-938`), the files that templates write. The web UI and the
  remaining commands only read, print and send digests.
- **FetchService and the older adapters** (`fetch_service.py`, `adapters.py`,
  `github_repository_adapter.py`): nothing in the package constructs them but tests.
- **Paths the runner does not take with the repository as it is**: `commit_target_execution`
  (it prefers `finalize_execution`), the unfenced branch of `dispatch_one`,
  targets without a claim, `update_target_status`.
- **The order among more rows than a LIMIT** in `claim_targets`: it needs a filter per
  row and a clock without bound.

## 7. Plan

The components that carry state are modelled, and every safety property that a run checks
is proved; liveness stays with TLC. What remains open are the gaps of section 6, and
the hazards of `PROJECT.json` that no property covers, each with its reason there.
