# Formal models of pktSNMP

TLA+ models of [pktSNMP](../src/README.md), an SNMP collection and alerting
server (FastAPI, SQLite), the TLC runs that check them on small instances, and
the theorems about them that TLAPS has checked for every value of the constants.
Every definition is translated from the Python, SQL and TypeScript under `src/`;
the table "map" of `PROJECT.json` gives the lines each one stands for.

    tlasany M.tla                        parse a module
    tlc -workers 2 -config R.cfg MCx     run one of the configurations below
    tlapm X_proofs.tla                   check the proofs of a component

## 1. The system

pktSNMP is one process (`app/server.py` starts uvicorn with one worker) with many
coroutines and a few threads, and one SQLite database, `pktsnmp.db`, that all of
them open connections to. A second store (SQLite, DuckDB or ClickHouse) keeps the
samples. The coroutines hardly share variables; what they share are **rows**. A
connection in autocommit makes every statement a transaction; a connection that
has written holds the one write lock of the database until it commits, and others
wait for it up to the busy timeout and then raise. Two consequences recur in every
model: *a value read in one statement may be stale in the next*, and *what is not
committed is rolled back by a restart*.

| Component | State it keeps | Operations | What makes it correct |
|---|---|---|---|
| Account lockout (`auth/lockout.py`, `api/auth.py`, `api/users.py`) | `users.failed_login_count`, `lockout_count`, `locked_until`, `is_locked` | password check of a login and of a password change, unlock, reset, deactivate, delete | every wrong password counted once; a lock stops the guessing; only an administrator lifts the permanent one |
| Address throttle (`auth/throttle.py`) | `address_failures`, `address_blocks` | check, count and block inside the same requests | an address never reaches its limit unblocked; a sign-in gives nothing back |
| Alert engine (`alerts/engine.py`, `alerts/cleanup.py`, `api/alerts.py`) | `alert_events`, `alert_rules`; writes `devices.status` | a sweep of all rules every 60 s in one transaction, daily cleanup, toggle and delete of rules | cooldown; a silent device is alerted; an event is resolved when, and only when, the device reports; the status shown agrees with the events |
| Poll engine (`snmp/poll_engine.py`) | in memory: devices, `next_poll`; writes `devices.status`, `last_seen` | poll of each due device, reload, status update | no change missed, every enabled device polled again and again, spaced and bounded |
| Devices, hierarchy, credentials (`api/snmp.py`) | `devices`, `collectors`, `snmp_credentials`, four hierarchy tables | CRUD, import, HA pairing, rename of a unit, the tree of the dashboard | references valid; a request changes what it was asked to; every device counted once |
| Collectors and OpenTelemetry (`api/snmp.py`, `snmp/collector_push.py`, `snmp/otelcol_config.py`) | row of the collector; two files and a service on its host | push of a configuration over SSH, SSH settings, ingest with a token, heartbeat | the row says what the host has; the operator's configuration survives |
| Migrations (`database.py`, `migrations/*.sql`) | the schema, `_migrations` | apply the scripts that are not recorded, at every start | applied in order, once, completely, whatever was interrupted |
| Time-series storage (`storage/*`) | `snmp_poll_results`, `snmp_latest`, `snmp_traps` | bulk ingest, backfill, charts, retention | accepted data stays; the latest value is the newest one; retention removes only what is old |
| Resonance limiter and breaker (`integrations/resonance/*`, `api/resonance.py`) | `resonance_rate`, `resonance_breaker` | consume, assert closed, record success or failure | no call while the breaker is open; the limit holds up to the requests in flight |
| Resonance data operations (`api/resonance_data.py`) | – ; writes `alert_events`, `alert_rules` | calls of the assistant, the grant it is shown | it writes only where a person is trusted to, and reports what is there |
| Self-update (`self_update.py`, `api/system.py`) | files of the install directory, `self_update_*` settings | check, apply by hand or in the window, restart | the directory holds one release, old or new |
| Backup (`backup.py`, `api/system.py`) | snapshot directories | snapshot, verify, rotate, scheduler, restore, export, import | a snapshot taken for good is whole; rotation keeps the newest |
| Managed access lock (`main.py`, `api/suite.py`) | settings `direct_ui_locked`, `lock_heartbeat_at`, `hub_redirect_url`, `suite_token` | middleware on every request, hub's lock and heartbeat | a dead hub cannot lock users out for ever; nobody is let in early |
| Settings (`api/settings.py`, `frontend/src/pages/Settings.tsx`) | `settings`; the state of the page | load, silent reload, type, save | what was meant is stored; masks never are |
| Logging (`logging_handler.py`, `log_forward.py`) | two queues, `app_logs` | emit, flush, trim, forward, reconfigure, stop | no line lost silently; order; one forwarder |
| Sessions and SAML, trap receiver, widgets and reports, packaging | – | – | see section 8 |

**How they interact.** The poll engine and the ingest endpoint write the device
rows the alert engine evaluates, and the alert engine writes the status back: two
writers of one column, one of them working on a copy read earlier (`AlertEngine`
holds all of them). Administrators delete and disable rules and devices under a
running sweep. The cleanup deletes the events the cooldown is decided on. Login
and password change share one account row and one address counter
(`LoginLockout` holds both). The self-update replaces the scripts the next start
will migrate with (`Migrations` lets a newer release take over between starts).
The assistant and the pages of people acknowledge and toggle the same rows
(`Assistant`). The backup copies a database all others write (`Backups`).

**Hard behaviours** are listed one by one, each at its line and with the
properties that would catch it going wrong, as "hazards" in `PROJECT.json`; section
6 names those no property covers.

## 2. Modules

| Module | Models | Composed with |
|---|---|---|
| `GuessBudget` | what the lockout promises: a budget of `2 * Limit` guesses per account, half of it for a timed lock, and a bounded number of stragglers | implemented by `LoginLockout` |
| `LoginLockout` | requests, lockout, throttle, administrator, clock, restarts | – |
| `AlertEngine` | sweep, poll engine's and ingest's writes, administrator, cleanup, clock, restarts | alert engine × poll engine × device table × rule table |
| `Polling` | the loop, its polls and strays, reload signal, semaphore, sleep | poll engine × device table |
| `Inventory` | overlapping requests on devices, hierarchy, credentials; the tree | – |
| `Collectors` | a push step by step with every failure, SSH settings, the patch | row × host of the collector |
| `CollectorHealth` | deliveries and heartbeats with right and wrong tokens | – |
| `Schema`, `Migrations` | the statements of the 29 scripts; `init_db` statement by statement, stops, upgrades | – |
| `TimeSeries` | batches, the latest-value table, backfill, retention on one shared connection | ingest × retention |
| `Charts` | bucketed, capped history and the alerts laid over it | – |
| `ResonanceGate` | requests for codes and tests, limiter, breaker, answers of resonance, clock | limiter × breaker × endpoints |
| `Assistant` | calls of the assistant, clicks of people, the gates, paging | data operations × alerts × settings × users |
| `Release` | check, download, swap path by path, record, exit, service manager | updater × process × disk |
| `Backups` | two runs, scheduler, rotation, restore, export, import, the WAL | – |
| `Access` | middleware, hub, suite token | middleware × hub × administrators |
| `Settings` | pages of two browsers over the rows | frontend × API |
| `LogStore`, `LogForward` | the two handlers of the logger and their threads | – |
| `MC*` | values of the constants for TLC, and instances beside one another | |
| `*_proofs` | theorems and their proofs | |

**`part`.** Several `MC` modules hold two or three components that share no state.
A variable `part`, which never changes, says which of them a behaviour is of, and
the others stand still at one of their initial states: the run explores the sum of
the state spaces, not their product, and a property of a part is the one of its
module under `part = "..."`. Such a module EXTENDS one of its parts and instances the
others, so that a run checks, and a theorem proves, one and the same definition.
`MCAlertDown` holds `AlertEngine` and `Settings`; `MCAlertLive`, which extends it and where
`Settings` stands still, `AlertEngine` with a trap rule, two instances of it with a
`device_down` rule (`Probed`, `Reported`) and `Inventory`; `MCMain`, beside a `Release`
that stands still, `Migrations` and `Access`; `MCCollectors` `Collectors` and
`CollectorHealth`; `MCResonance` three kinds of behaviour of `ResonanceGate`, told apart by
who makes the requests; `MCTimeSeries` `TimeSeries` and `Charts`, beside a `Polling` that stands still; `MCBackups` `LogForward`, `LogStore` and
`Backups`.

In every module a request is a coroutine (or thread) whose record `request[q]`,
`task[t]`, `run[r]`, `visitor[v]`... holds its locals and, as `pc` or `at`, where it is. One
action is what happens between two points at which others may run: a statement on
the database, a command on a remote host, an await. `alone`, `raced`, `moved`, `late`
and the like are histories, named as such at the variable: they say that somebody
else was at the same rows, and appear only in properties.

### 2.1 LoginLockout

| `pc` | Step | Code |
|---|---|---|
| idle | `Arrive` | a POST to `/auth/login` or `/users/me/password` |
| address | `CheckAddress` | `throttle.blocked_seconds`: 429 |
| account | `ReadAccount` | the SELECT of the row, `lockout.describe`: 423, 404, 400 |
| verify | `WrongPassword`, `RightPassword`, `DatabaseBusy` | `verify_password` on the hash that was read; the UPDATE of `record_failure`; `record_success` with the rest of its transaction |
| reread | `RereadAccount` | the SELECT at the end of `record_failure`, which raises when the row is gone |
| charge | `CountFailure`, `DatabaseBusy` | `throttle.record_failure`, one transaction |

Times are kept as the time left or passed, because the code only compares them
with the database's clock; `Tick` moves them all. `wrong` and `late` are
histories: wrong passwords counted since the last reset, and checks made while
the account was locked.

### 2.2 AlertEngine

`sweep` is the locals of `_evaluate_rules`: the rules it read, then the devices
(`rows`, a copy), the rule it is at and the subjects still to do. `before` is
empty or what a rollback restores: the first write of a sweep opens the
transaction its one `commit` closes, and while it is open no other writer can
write (`Unlocked`). Rows are visible to the sweep in `device` and `open`; the
other actions only run when these are committed.

The eleven rule types are grouped by how they fire and resolve (`Kinds`). The
arithmetic on samples is a free choice of outcomes: fire, resolve or say nothing.
`device_down` is modelled exactly, on the status and the age of `last_seen` the
sweep has read. Ages saturate at `Horizon`, greater than every threshold. `quiet`
is a history: how long ago a report of the device was last recorded.

### 2.3 Migrations

`process` is `init_db` at a file and a statement. `executescript` commits each
statement, so `schema` changes with each `Execute`; `Record` writes the row of
`_migrations`. `Outcome` is what SQLite answers (compared with SQLite 3.40 on
the scripts themselves, stopped after every statement): a missing name, a
duplicate column, an existing table. A duplicate column ends the script and
counts as applied; any other error ends the process, which systemd starts again.
`schema` maps each name to the name its contents had first, so that the renames of
011 and 017 can be followed. What the module assumes of scripts (`RunsThrough`: they run
one after another on any release an install can start from; `EndsAgain`: one that has
run is run again without a difference, or ends at a duplicate column) is an operator,
and TLC evaluates it for the 29 in the run `main`. `cut` counts the scripts stopped half way, after a
statement that cannot be run twice.

### 2.4 ResonanceGate

One step per statement of `limiter.py`: `Count` (upsert and commit), `Compare` (a
SELECT of its own) for the user's bucket and then the global one, `AssertClosed`,
`Call` (what resonance will answer is chosen when the call goes out),
`RecordSuccess`, or `ReadFailures` and `WriteFailure`. A test counts in a bucket of
its own, goes past the breaker and records only a success. `Abandon` is a locked
database or a stopped process.

Counts saturate one above what the code compares them with. The time left of a
pause is cut down to whole seconds by `CAST(... AS INTEGER)`, so the last tick of a
pause may count as closed: `AssertClosed` leaves both outcomes open. `admitted`,
`spent`, `knocks` and `misses` are histories.

### 2.5 Polling

`loop` is where `_poll_loop` is: it loads the devices (`Load`, `LoadFails`), starts a
round of those that are due, gathers it, and sleeps until the next is due, a signal
or five seconds (`Sleep`, `Wake`). `poll` are the polls of the round, `stray` those left
behind when a status could not be written and the gather raised (`RoundFails`): they
go on beside the next round, with the semaphore of the old one. A change of the
devices commits first and signals after (`ChangeDevices`, `Signal`). `next` are
countdowns.

### 2.6 Inventory

Requests that read rows in one statement and write in a later one: `CreateDevice`
with `LinkPartner`, `LookAtDevice` and `UpdateDevice` (the whole row is written back,
`Merge`), `DeleteDevice`, import, units, credentials (`CountUsers` and
`DeleteCredential`), collectors. Foreign keys are enforced as SQLite does (`Refers`);
the hierarchy is text in the device rows. `SubtreeAlerts` and `Number` are the
dashboard's tree, as recursive functions.

### 2.7 Collectors and CollectorHealth

A push runs `read`, `backup`, `write` (opening truncates: `OpenConfig`), `finish`,
`restart`, `verify`, `record`; every command may fail, each failure is an action or
a disjunct with what the code then does (`FinishConfig`, `UndoRestart`, `Break`). A
configuration is the set of its receivers and, per pipeline, those it names; `Patch`
is `patch_config`. What the beginning of a file may be read as is one of `Stumps`. The
service may exit by itself and be started again at any moment (`Exit`, `StartAgain`):
`Verify` reads what runs when it asks, and `exited` is the history of that. `unsafe` is a history: a backup failed, the way back could not be taken,
or two pushes overlapped. `CollectorHealth` has what `collector_auth`, ingest and
heartbeat write, and what the page says of it.

### 2.8 TimeSeries and Charts

Every task uses the one connection of the backend: `store` is what it sees, `disk`
what has been committed, and *any* task's commit commits everything. `Insert` and
`Upsert` are the two statements of a batch, `Prune` deletes a chunk. A restart reads
`disk` and backfills the latest-value table. `Charts` is the two queries behind a
chart as operators over arbitrary sets of points and alerts; the alerts' times are
compared as the texts they are, so that the window they are shown for is one of days.

### 2.9 Assistant

A call goes through `Session`, `Switch` (is the integration on), `Allowed` (the role
levels), `Trusted` (for a write), and the statements of its operation; `Click` is the
same operation by a person in the interface. Settings, roles, devices and rules
change in between (`ChangeSetting`, `ChangeAccount`, `ChangeDevice`, `Fire`). Lists of
events and devices are paged, rules are listed whole (`Chosen`), and each is cut to a
size (`Fit`). A caller may be the hub, who has no row in `users`: the foreign key of
`acked_by` rejects what it acknowledges (`Acknowledge`).

### 2.10 Release

A release is its number, the install directory three paths that are swapped one by
one (`Remove`, `Copy`) and the packages. `Arrive` are the requests, `Wake` the hourly
loop in automatic mode. A process that is killed (`Kill`) or exits (`Exit`) ends all
tasks; `Start` is systemd. `cut` and `tangled` are histories: a swap ended before its
end; two swaps met.

### 2.11 Backups, Access, Settings, logging

`Backups`: a run opens the copy, which is of no use until it is complete (`OpenCopy`,
`CopyDatabase`), verifies, copies the rest, lists the directories and removes the oldest
one by one, of which any may stay, whole or in part (`Removed`); the content of a
database is the number of its last commit. `Access`: the middleware's three reads and the
release, the hub that locks and polls, the administrator who reads or replaces the
suite token. `Settings`: what `Settings.tsx` keeps (`shows`, `dirty`), its two kinds of
loading, which may fail (`LoadFails`), and what the API makes of a save. `LogStore` and `LogForward`: queue, worker
thread, trimmed table; forwarders that replace one another.


## 3. Runs

Twelve runs. A property of a run is the conjunction of the named parts in the third
column, each stated with its comment in the module it belongs to.

| Run | Property | Parts | Question |
|---|---|---|---|
| `login_lockout` | `LockoutKept` | `TypeOK`, `EveryGuessCounted`, `FewLateChecks`, `AddressBelowLimit` | are all wrong passwords counted, and how many are still checked after the lock |
| | `ForgivenKept` | `OnlyAdminLifts`, `FailuresForgivenByTimeOnly` | what takes a lock or a failure away |
| | `GuessBudgetKept` | `Budget!Spec` | does the lockout implement `GuessBudget` |
| `alert_down` | `AlertsKept` | `TypeOK`, `CooldownRespected` | cooldown under rollbacks, cleanup and restarts |
| | `ResolvedByReport`, `FiredShowsDown` | | an event is resolved after a report only; a sweep commits a new event with the device shown down |
| | `FormKept`, `TypedIsSaved` | `TypeOK`, `MeantIsStored` of `Settings` | two browsers: a setting is what was meant, typed text that no reload overtook, silent or failed, reaches the server |
| `alert_live` | `SilentIsAlerted`, `AnsweringIsResolved` | `DownIsAlerted` and `BackIsResolved`, for a polled device and for one a collector reports | liveness of `device_down` |
| | `CooldownOfTraps` | `CooldownRespected` for a trap rule | no second alert for a trap that stays in the table |
| | `TreeKept` | `TypeOK`, `TreeAddsUp` of `Inventory` | references valid, each device counted once, at its own place |
| | `ChangesKept` | `OnlyAsked`, `PartnerKept`, `RenameCarries`, `CredentialKept` | overlapping requests change what they were asked to |
| `main` | `SchemaKept` | `TypeOK`, `InOrder`, `HierarchyKept` | scripts in order; the levels of the hierarchy keep their contents through 011 and 017 |
| | `ServesComplete`, `StartsUp` | | what serves has all of every script if none was cut; the start succeeds |
| | `LockHolds` | `TypeOK`, `ShutOut`, `LockSurvives`, `TokenKept` of `Access` | nobody in early |
| | `LockEnds` | `NobodyStranded`, `HubLearns` | nobody shut out for ever |
| `migrations_cut` (violated) | `SafeToRepeat` | | section 6 |
| `resonance` | `GateKept` | `TypeOK`, `LimitKept`, `FewKnocks`, `OpensSoon` | what gets through limiter and breaker although each is two statements |
| | `ShareKept` | | one user cannot take the allowance of all |
| | `PausesAgain` | | lost updates do not keep the breaker closed for ever |
| `collectors` | `SyncedIsRunning` | | a row that says "synced" has its configuration on the host, whole, and running unless the service exited after it was found active |
| | `ConfigKept` | `TypeOK`, `ForeignKept`, `ConfigAccepted` | the operator's receivers and pipelines survive; the collector can read the file |
| | `RowRight` | `KeyStaysDeleted`; `TypeOK`, `SeenIsOnline` of `CollectorHealth` | a deleted key stays deleted; a collector that reports is online |
| `time_series` | `LatestKept` | `TypeOK`, `LatestHasRow`, `LatestIsNewest` | the latest value is that of the newest row |
| | `OldIsRemoved` | `AcceptedIsKept`, `PruneIsWhole` | accepted rows stay; a cleanup that succeeded leaves nothing old |
| | `ChartKept` | `TypeOK`, `ChartReachesNow`, `AlertsOfTheDays` of `Charts` | no limit cuts a series short of now, but a full chart; the alerts are those of the days after the first, exactly, or the oldest of them |
| `polling` | `RoundsKept` | `TypeOK`, `SignalNotMissed`, `ConcurrencyKept` | no change missed, semaphore respected |
| | `PollsAreSpaced` | | a device that answered waits its interval |
| | `PolledAsEnabled` | `PolledAgain`, `LeftAlone` | the devices polled come to be the enabled ones |
| `release` | `DiskKept` | `TypeOK`, `OneRelease`, `VersionBehindApp` | the directory holds one release, or half a swap that shows |
| | `NowIsNewer` | | "Update now" replaces nothing by what is not newer |
| | `UpdatesArrive` | `ReplacedIsRestarted`, `AutoCatchesUp` | an update ends in a restart; the automatic mode gets to the newest release |
| `assistant` | `AcksComplete` | `TypeOK`, `NoneLeftOpen` | "acknowledge all" leaves nothing open of what there was, unless the database rejects it, which is the hub's lot alone |
| | `WritesTrusted` | `NoTrustNoWrite`, `OfferedWhenDone`, `FirstAckKept`, `FlipsUnlessRaced` | writes where a person is trusted; other people's work stays |
| | `AnswersRight` | `PageAdvances`, `UnknownIsCounted` | paging moves on; a device of unknown status is in the summary |
| `backups` | `SnapshotsKept` | `TypeOK`, `GoodIsWhole`, `NewestKept` | a usable snapshot is whole; rotation leaves the directories changed last and what it could not remove |
| | `GoesOn` | `SchedulerGoesOn` | the scheduler survives its failures |
| | `LogsKept` | `TypeOK`, `LogsAreNewest`, `StopFlushes` of `LogStore` | the log table holds the newest rows, the end of the process flushes |
| | `LinesKept` | `TypeOK`, `EveryLineCounted`, `ArrivesInOrder`, `OneForwarder` of `LogForward` | every line sent, dropped or failed once, in order, through one forwarder |

**Mutants.** Each property of a passing run has at least one mutant (84 in all): a
definition `X` changed the way a plausible bug would change the code (`X_...` next
to `X`), under which the same run finds the property violated. There is one
for each named part, so that no part is carried by another.

### Bounds

Each run takes one to four minutes; the constants are those of the `.cfg` files.

* **Login.** Two requests are enough for every race of a check with a lock; two
  wrong passwords lock (`Limit = 2`), so that a count and a lockout are different;
  one tick of lock and of block; three failures of an address within two ticks, so
  that a failure ages once before it is forgotten.
* **Alerts.** One device, one `device_down` rule alone or beside a sample rule. Ages go
  up to `Horizon = 2` with thresholds of one tick: below, at and above a threshold are
  told apart, the code tells nothing else apart.
* **Inventory.** Three device ids, of which two are there: a pair, a parent and its
  child, or two strangers, with room for one more. Three units on two levels. Two
  requests, each of two statements.
* **Migrations.** All 29 scripts. `MaxCuts = 1`: at most one is cut in half (the
  properties speak of none, or are violated by one). `Oldest = 2`: an install starts
  from a release that has the tables the start-up seeds.
* **Access.** Two visitors and two administrators (one may release what the other
  read), one tick of heartbeat age, one failed read.
* **Resonance.** Two requests are enough for a lost update and for a late call.
  Thresholds 2 and 3, so that config errors and transient ones open at different
  counts; pauses of two ticks, the shortest with a tick that surely counts as open.
  The bounds in `LimitKept`, `FewKnocks` and `OpensSoon` are reached: one less is
  violated. A behaviour has two calls of one person, a call of each of two people, or
  tests beside one call: a limit knows its bucket only, and the breaker knows nobody.
  For `ShareKept` a person may make one call in a window and all three, and windows take
  two ticks, so that a user's window and the global one start apart.
* **Collectors.** Two requests, two devices whose labels differ in case only, in two
  pipelines; the operator has a receiver and a pipeline of his own, and the file has
  one of ours from earlier. A file that was cut off is unreadable or reads as its
  receivers without pipelines, the case in which ours are there and used by nobody; the
  proofs take any beginning that names no receiver it does not define.
* **Time series.** Two tasks, two series of which one is unknown to the catalogue, two
  ages beyond now, chunks of one row; at the
  last moment a batch arrives only while nothing else is being done. Charts: any points
  of three series up to age 3, of which one interface shows two; two buckets of a series,
  three of a chart and one alert, so that every limit is met.
* **Polling.** Two devices over a semaphore of one, so that one poll waits for the
  other; intervals and sleep of one tick.
* **Release.** Three releases (one may appear during a swap to another), two faults,
  one person and the hourly loop.
* **Assistant.** Two calls or clicks of two people and the hub, two events of one rule on
  pages of two rows and a budget of two rows, one change of the surroundings. The one
  rule is never cut; the proof takes any rules.
* **Backups.** Timer and button, in behaviours of two kinds. *Rotation*: three names a run
  can take (minutes) under a count of one or two, so that a directory is evicted by a
  third; two faults, so that a copy fails and a directory stays; nothing writes the
  database. *Copying*: a count of one and one minute, and everything writes, restores and
  imports. The proof takes any number of minutes and any count. Logging: three
  records, a queue of one, a table of two rows, two threads, one reconfiguration.

Symmetry: requests (`login_lockout`, `collectors`, `assistant`), addresses and
passwords (`login_lockout`), tasks (`time_series`), pages (`alert_down`): runs that check
safety only, and no property names one of them.

`CHECK_DEADLOCK FALSE` is said of two runs, whose inputs end: `assistant` (`MaxChanges`, events
are not fired again) and `alert_live` (the ids of `Inventory` are used up). In all
others TLC checks that something can always happen.

## 4. Fairness

Safety properties assume none. The liveness properties assume this, and the code gives it:

* **Alerts.** `WF(Tick)`, `WF(SweepStep)`: time passes, and the loop of the engine goes on:
  its exceptions are caught (`engine.py:67`). `<>[](sweep.pc # "starting")`: the process
  is not restarted for ever; the engine waits 15 s after each start, so a process
  restarted every 10 s never sweeps. `SF` on polls and status writes *while the
  sweep sleeps*: the sweep holds the write lock for a fraction of its 60 s, so a write
  finds the database free again and again; under weak fairness it could meet the
  transaction every time. `SF(EvaluateDown)`: the busy timeout or an exception may
  skip a rule in one sweep (`RuleFails`), not in all. Resolution of a collector's device
  assumes in its premise that data arrives again and again while no sweep runs.
* **Migrations.** `WF(StartUp)`: systemd restarts the service. `StartsUp` assumes that stops
  and upgrades end, and that no script was cut.
* **Access.** `WF(Tick)`, `WF(VisitorStep(v))`: visitors go on coming, each request of one
  goes on. `HubLearns` says in its premise that the hub goes on polling.
* **Polling.** `WF(LoopStep)`, `WF(Signal)`, `WF(Tick)`, and for each device `WF(RoundStep)`,
  `WF(StrayStep)`: polls have timeouts, the event loop runs what is ready, a request
  that has committed a change signals it. That reloads do not fail for ever (`~lost`) is
  in the premise.
* **Release.** `WF(TaskStep(t))`, `WF(Start)`, `WF(Wake)`: a thread goes on, systemd starts the
  process again, the loop wakes. That somebody goes on looking for releases is in
  the premise of `AutoCatchesUp`: the loop itself never asks GitHub (section 6).
* **Backups.** `WF(RunStep(Timer))`: the scheduler's thread goes on.
* **Resonance.** None: the premise of `PausesAgain` says that failures go on being recorded.

## 5. Theorems

Checked by `tlapm` for all values of the constants under the `ASSUME`s of the modules:
limits and times are positive, thresholds below `Horizon`, names distinct, sets of
requests finite. TLC evaluates each `ASSUME` in the run of its module. "property" in
`PROJECT.json` names what a run checks of the same definition. A proof module EXTENDS the
module whose run checks what it proves (`MCBackups`, `MCCollectors`, `MCAlertLive`,
`MCTimeSeries`), and so holds the theorems of several components; the name in
parentheses says which.

**LoginLockout** (`LoginLockout_proofs`): `LockoutHolds`, `ForgivenHolds`, `BudgetKept`.
`TypeInv` is the type invariant with the shape of a request per `pc`. On top of it:
`Counted` is inductive with the types, as the UPDATE reads and writes the row in one
step. `FewLate` needs the sum `late + Cardinality(Checking)`: a request past the lock
check is still in `Checking` or has been counted in `late`, and the one whose failure
closed the account is in neither. `BelowLimit`: rows of an address occupy slots; below the
limit a slot is free, so `CHOOSE` finds one and the count grows by exactly one.
`AdminLifts`, `TimeForgives` go by cases over the actions. `BudgetKept` is the refinement:
each step of the login is a step of `GuessBudget` or a stutter, under
`budget = 2 * Limit - (Limit * lockouts + count)`, which uses `Counted` (the count is
below the limit) and `FewLate` (a straggler is left).

**AlertEngine** (`AlertEngine_proofs`): `AlertsHold`, `ReportedThenResolved`, `FiredThenDown`.
`CooldownInv` says of the rows *and of the rollback image* that events of a rule and a
subject are more than the cooldown apart; a restart brings the image back after the
clock has moved. It holds for every assignment of kinds to rules; `TrapsHold` carries it over
to the behaviours of `MCAlertLive`, whose `part` says which of them has the trap rule. `ReportInv` follows the row of an unreported device
through its three copies (table, rollback image, the sweep's snapshot), each of which
says "down" as long as an event is open that is older than the last report. `FiredInv`: as
long as the transaction is open, a device for which the sweep has opened a
`device_down` event is shown down. Both need `OneDownRule`, at most one `device_down`
rule: with two, one resolves what the other fired (section 6), and the statements
are false.

**ResonanceGate** (`ResonanceGate_proofs`): `GateHolds`, from
`LimitHolds` (`BucketInv`: up to the limit, those let through and those still to compare
are at most the count and the other requests, which could have been counted before
the window opened; above the limit nobody gets through),
`ShareHolds` (`ShareInv`: a global window meets a window of the user that was there before,
then one more that lasts as long, and no third; each with at most `UserLimit` and the
other requests in flight; `Stage` are these three, `Flow` the requests of the user that
can still reach the global count),
`FewKnocksMade` (`KnockInv` adds to the calls made in a pause those past the breaker that
still have to be made; the one that opened it is neither) and
`OpensInTime` (`MissInv`: only errors that read a count of zero can be recorded without a
pause, and once something is counted no request becomes one of them), which assumes a
config threshold of at most two. The code's is two.

**Polling** (`Polling_proofs`): `RoundsHold`, `SpacedAlways`. `RoundInv`: a signal is pending, or the
loop has yet to load, or what it loaded is what is enabled; the polls that ask hold
slots. `Paced` relates three numbers for each device: its countdown and the ticks
since it answered add up to its interval at least, as long as no round was abandoned;
then there are no strays either.

**LogForward** (`LogForward_proofs`): `LinesHold`. `LineInv`: what has arrived, the line being
sent and the queue are, in this order, a part of `given`; given = sent + dropped +
failed + queued + the one being sent, for each forwarder, also across replacement.

**LogStore** (`LogForward_proofs`): `LogsHold`. `FileInv`: the table is a rising sequence of the
newest records written, all of them until it is full (`Holds`); what is in it is older
than what is in the thread's batch, and that older than what is queued (`OnTheWay`), so that
appending a batch and trimming leave the newest. `Ending`: once the thread has seen the stop, what is queued was emitted
after it.

**Backups** (`LogForward_proofs`): `SnapshotsHold`. `Tables`: every snapshot that is good is in the listing of directories by
mtime. `Runs`: what a run has copied is a state that the database was in since it began,
and the directory of a run that nobody met is the newest, in the listing that it works
through as well; what it has listed (`all`) is what it has dealt with, what it could not
remove (`stuck`) and what it has yet to go through. `SaveInv` adds that a run recorded as `alone` is the only one at work.

**Release** (`Main_proofs`): `DiskHolds`, `NowLeadsForward`. `Numbered`: no release on the disk is newer than the
newest, and a task replaces paths by one it downloaded. `Swaps`: at most one swap is
under way unless two met (`tangled`), and `Progress` says which of the three paths it has
replaced; with none under way the directory is `Whole`, unless one was `cut`. `Asleep`:
a process that is down has no tasks. `NowLeadsForward` is `NowIsNewer`:
as long as nobody disturbed an "Update now" since its click, what it asked GitHub is newer
than what is installed, at each of its awaits (`Forward`, `AllForward`).

**Migrations** (`Main_proofs`): `AppliedInOrder`, `ServedComplete`, `SchemaHolds`, for any scripts that
`RunsThrough` and `EndsAgain` hold of. `Course(script, schemas)` is what a script makes of a set of schemas
statement by statement, and `Whole[n]` what the first `n` scripts make of an empty
database. `SchemaInv` says where a database is whose scripts were never cut: between two scripts it
is `Settled`, all of the recorded ones and no more, or also the next one up to a point from which it
can be run again; inside a script it is `Within`, in its `Course`, or past it and
executing again what changes nothing; `Standing` says which of them at each `pc`. `SchemaHolds` has the
hypothesis that an *undisturbed* install ends with each level of the hierarchy in place (`InPlace`), a
computation on 29 scripts that the run makes, and concludes that every start that
serves does, whatever stops, failures and upgrades came before. `Whole` and `Course` are
recursive functions on numbers; that they are defined everywhere comes from a least
number at which they would not be (`HasLeast`).

**Collectors** (`Collectors_proofs`): `SyncedHolds`, `ConfigHolds`.
`PushInv`: a request that nobody disturbed (`Fine`) and is past `write` has its patch in the
file; every file and every backup is the one the operator had or one that the collector
accepts (`Legal`); the service runs what it was last started on, or has `exited`; unless `unsafe`, one push is on the host at a time, the file is `Sound`, that is, has
all that is the operator's, except while it is being rewritten, and then the backup is.

**CollectorHealth** (`Collectors_proofs`): `RowHolds`, from `DeletedKeyStays` and `SeenHolds`. That a
deleted key stays deleted follows from `PushInv`. `HealthInv`: failures stand if and only if
one was refused since the last success, and none stand when a delivery arrives that saw no refusal
since its token was looked at.

**Assistant** (`Assistant_proofs`): `AcksHold`, `WritesHold`, `AnswersHold`. `CallInv` says of each request, point by
point, what it may be about (`Placed`), what its gates have seen of the roles that may write
(`Gated`) and of the rule that is to be switched (`AsRead`), all unless the table was written
since, and of "acknowledge all" that what was open when it came has been dealt with when it
answers, or when the database has rejected somebody, which is never but the hub (`Paid`,
`Clears`). `Granted`: a panel that is current offers writes if and only if
somebody may write. `AnswersHold` is about the only two statements that tell (`TellerIs`). Of a page
it needs what two recursive functions make of a list, `Descending` and `Fit`: a list of ids (`ListsAreRows`)
and a cut that keeps its bytes within the budget after every row (`FitIs`, `Right`). That they are
defined everywhere, and this of each step, goes up to the length of the list, or the size of the set, by a
least number at which it would not hold (`UpTo`, `Recursion`). Of the summary, `CountInv`: what has been counted is so
unless a device changed since. It assumes that the rows are finitely many
(`RowsAssumption`).

**Access** (`Main_proofs`): `LockIsKept`. `ManagedInv`: the age of the heartbeat
is the time for which the hub was silent, or there is none and that is long. `VisitorInv`: whoever has read
the settings since the application was open knows it, and who is about to take the lock
away has found a silent hub or was overtaken. `TokenInv`: an administrator about to write a token has
seen that there is none, or was overtaken.

**Settings** (`AlertEngine_proofs`): `FormHolds`, of both `FormKept` and `TypedIsSaved` (`TypedHolds`). `RowsRight`: a
row opens to the word that was meant. `Right`: a page shows answers of the server, never a
sealed secret, or what was typed; and what was typed is shown unless a silent reload is
on its way or overtook it, or a reload failed and made the page count as clean.

**Inventory** (`AlertEngine_proofs`): `ChangesHold`, `TreeHolds`. `StockInv`: rows name rows that there are
(`Sound`, proved for all reachable states); a request that is at work (`Ongoing`) has read what is still so,
unless its histories `moved` and `refiled` say that somebody wrote it since (`Current`).
Then each of the four parts of `ChangesKept` goes by cases over the statement that writes.
`FiledInv` adds that each unit is an org or below one of the level above, and that ids are never given
again. Deleting a unit keeps it because `Below` leaves nothing out (`BelowClosed`): a unit
below one that was reached and not reached itself would be deeper than there are levels.
The numbers at the branches (`TreeAddsUp`) need no induction over steps beyond `Sound`. `MapThenSumSet`
takes its elements in an order `CHOOSE` picks; `SumIs` and `SumTakes` show that any may be taken out first,
by induction over sets of devices (`SetBySet`, from the least size of a set it fails for). The devices
that are drawn fall into layers by their distance from the top, none in two (`LayersAre`,
`LayersApart`, `DrawnIs`); as a child is filed where its parent is, what a layer counts at a branch is the devices
of its own that are down and what the next layer counts (`LayerCounts`), and so down to the
last (`TreeCounts`). A ring of parents is in no layer.

**TimeSeries** (`Polling_proofs`): `OldHolds`, `LatestHolds`. `StoreInv`: the rows that the disk
has and the shared connection lacks are older than the latest cutoff used, `pruned`; so are, of
a batch that was inserted and not answered yet, the rows that neither has; no cleanup at
work has a cutoff beyond `pruned`. That a cleanup ends with nothing too old needs the tables
finite: only then is a chunk smaller than asked for the last one. `LatestInv` adds for the last
values: nothing is newer than `now` (`InTime`); each last value is of a row, or of one
that was old enough to be pruned (`Backed`); and every row of a series that is not `late` is
reached by its last value, or is in the batch of a task that has yet to write it
(`Ahead`), on the connection and, for longer, on the disk. The last of a
series' points in a list and the newest of its rows exist because a set of naturals has
a least and a greatest element (`HasLeast`, `HasGreatest`, from the library's `WFMin`).

**Charts** (`Polling_proofs`): `ChartHolds`. No induction over steps beyond the type and that the
points are finitely many: any finite set of points is cut right. If a point of a series is
cut, the greatest one cut has exactly the shown ones after it, so that they are a full
slice (`SliceIsFull`, `ListIsFull` for the alerts); which alerts are compared as inside
the window is a matter of their day (`DayIs`).

**Only model-checked, and why.**

* Liveness, which TLAPS cannot prove under fairness: `StartsUp`, `SilentIsAlerted`,
  `AnsweringIsResolved`, `PausesAgain`, `PolledAsEnabled`, `ReplacedIsRestarted`, `AutoCatchesUp`,
  `GoesOn`, `LockEnds`.
  A theorem states every other property of the runs that pass.
* That the 29 scripts are as `RunsThrough`, `EndsAgain` and `InPlace` say: a computation, which
  TLC makes.

## 6. Disagreements of code and text

**Shown by a run.** `migrations_cut`, in "findings" of `PROJECT.json`: `executescript` commits
statement by statement. A start-up stopped after the first `ALTER TABLE ... ADD COLUMN`
of a script meets "duplicate column name" on the next start, takes the script for
applied, and serves without the rest of it; stopped between the two renames of 011
or 017 it never starts again. `database.py:27` says "Safe to call multiple times".

**Met while modelling.** The models do what the code does; the properties above hold
with these, or say so in a premise.

* *Lockout.* A request that read the account before it was locked still has its
  password checked, against `lockout.py:11`, `auth.py:61` and `ADMIN_GUIDE.md:32`.
  `FewLateChecks` bounds how many.
* *Alerts.* The first failed poll fires `device_down` whatever the silence threshold is
  (`engine.py:154`; `Alerts.tsx:335` speaks of the threshold), for devices outside the
  rule's scope too (`engine.py:149`; `Alerts.tsx:338`). Two `device_down` rules resolve
  each other's events (`engine.py:190`; `README.md:561`).
* *Polling.* `next_poll` keeps removed devices (`poll_engine.py:587`): their due time never
  moves, so the loop no longer sleeps. This is the one hazard without a property: a
  round that finds nothing due does nothing. Saving settings or a credential does not
  signal a reload. `snmp_poll_max_concurrency` 0 makes a semaphore nobody enters. An
  override of 0 or less polls without pause. The first `_load_settings` is outside the
  `try`. A status that cannot be written leaves an answering device "down".
* *Collectors.* `collector_push.py:247` reports "Original config restored." also where the
  restore failed. `is-active` is asked once, as soon as the restart has returned
  (`collector_push.py:251`): a unit that exits a moment later, because of the file it was
  given, is recorded as synced, and `SyncedIsRunning` excuses it (`exited`). CSV import
  answers "--5" with 500.
* *Time series.* `retention_days_raw <= 0` disables the scheduled cleanup, but the manual
  one (`api/snmp.py:1870`) deletes everything. Rows of a batch that failed stay in the
  shared transaction, and another task commits them. `snmp_latest` is never pruned. The
  alerts over a chart are the 500 oldest of its window (`snmp.py:1655`), not those that reach now.
* *Charts.* `snmp.py:1638` promises "alert events in the same time window". `fired_at`
  (`datetime('now')`, with a space) is compared as text with an ISO time (with a `T`;
  `snmp.py:1548`, `1643`): alerts of the first day of the window are missing, all of them
  when the window lies within a day, as that of one or six hours mostly does, and alerts of
  its last day are shown though they came after its end. `sqlite_ts.py:14-20` tells of the
  same mismatch as of a bug ("broke silently"), and `alerts.py:48-52` and
  `resonance_data.py:814-816` avoid it with `datetime(?)`. `AlertsOfTheDays` states what is
  shown instead, exactly.
* *Release.* The loop in automatic mode applies what was recorded, but never asks GitHub.
  `VERSION` is missing during a swap and reads as 0.0.0. A `Record` that fails after the
  swap means no restart; `pip` that fails half way leaves the packages of both. One
  update's `os._exit` kills another's swap.
* *Backups.* `backup_rotation_count` 0 deletes the snapshot just taken, a negative one raises. Two
  runs in one minute share a directory (`backup.py:10`). Rotation goes by the mtime of
  directories (`backup.py:160-170`), and failed ones count, although `backup.py:117` says
  "not counting it as a usable backup": a run whose copy is bad may evict the last usable
  snapshot, which `NewestKept` does not ask about. What `rmtree` could not remove is
  reported as removed (`backup.py:169`), so that more than `keep` may stay, and a part of it,
  being newer, may stand for a whole one at the next rotation. A copy that is cut off
  leaves a file that looks like one. Restore copies over a live WAL database; the
  export is a plain copy (`system.py:259`), unlike `backup.py:76`.
* *Access.* `get_settings` swallows a token read that fails. A visitor releases the lock
  unconditionally, on an age read earlier. `direct_ui_locked` is in no defaults,
  `hub_settings_managed` can be written by anybody who may write settings; `server.py`
  ignores the SSL settings.
* *Assistant.* Every acknowledgement for the hub fails: the id 0 of its caller is no row of
  `users`, which `acked_by` names (`001_initial.sql:114`) with foreign keys enforced
  (`database.py:23`), although `resonance.py:213-215` says that "anything recording who
  acted stores that same synthetic id"; the person gets an error and the events stay open,
  in the panel and in the interface alike. `NoneLeftOpen` excuses this caller and no other.
  `ackAlertEvent` answers "Acknowledged alert" also where somebody else came between its
  SELECT and its UPDATE, which then changes nothing (`resonance_data.py:1223-1237`). The number
  "acknowledge all" reports was counted before its UPDATE (`resonance_data.py:1262-1276`).
  `toggleAlertRule` says "Administrators only, as in the interface"
  (`resonance_data.py:1298`), and neither asks for one: the comment in its body says
  "available to any signed-in person" (`resonance_data.py:1309`). `listAlertRules` has no
  offset: rules that are cut off cannot be asked for.
* *Settings.* The page looks whether it is dirty before it awaits the answer; a stale page
  overwrites what another saved. A reload after a save that fails leaves the form as it is
  and counts it as clean (`Settings.tsx:1001-1007`: `finally`, no `catch`): text of other
  sections that was typed and not saved is dropped by the next silent reload, a minute
  later. `TypedIsSaved` excuses what a reload overtook this way (`overtaken`). The form sends the keys of the address limits
  (`Settings.tsx:1078`), which are in no defaults, so that POST `/bulk` answers 400
  (`settings.py:303`), against `ADMIN_GUIDE.md:38`.
* *Logging.* Level DEBUG has no effect, the logger "pktsnmp" stays at INFO. The trim keeps
  one row less than it says. A replaced forwarder's queued lines are lost; overlapping
  reloads may leave the older settings live; no forwarder is closed at the end.

## 7. Plan

| Step | What | Why next |
|---|---|---|
| done | safety of `LoginLockout`, `AlertEngine`, `ResonanceGate`, `Polling`, `LogForward`, `LogStore`, `Backups`, `Release`, `Collectors`, `CollectorHealth`, `Assistant`, `Access`, `Settings`, `TimeSeries`, `Charts` and `Inventory`; refinement of `GuessBudget` | |
| 1 | creating and editing rules and collectors; the order of start and stop of the services | the last operations of components modelled in part |

## 8. Not modelled, and why

* **Sessions and SAML** (refresh, logout, auto-login): stateless tokens from one row each.
* **Trap receiver:** decodes a datagram and appends a row; `AlertEngine` reads it as the
  newest matching trap.
* **Widgets, reports, IP lookups, dashboards, user API keys:** queries and single
  statements that nothing else decides on.
* **SNMP encoding, parsing of OpenTelemetry payloads, the OID catalogue:** data without
  state; their effect on the device row is in `AlertEngine`.
* **Start scripts, installer, packaging.** `systemd` is in `Release` and `Migrations` as what
  starts the process again.
* **Of components modelled in part:** creating users (touches nothing a request in
  flight reads; ids are never reused); the arithmetic of sample rules (a free choice of
  outcomes), editing and importing rules; creating and editing collectors, CSV
  exports; the encryptions of legacy secrets and `seed_admin` (one transaction each);
  traps and the DuckDB and ClickHouse backends (one statement per call); the upsert
  that reports load failures to resonance; the order in which background services
  start and stop; pages other than Settings; read operations of the assistant beyond
  the three lists and the summary.
