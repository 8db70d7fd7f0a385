# SmartValve AI Twin: TLA+ models and proofs

This directory holds the formal models of SmartValve AI Twin. Paths are relative to the repository's
root unless they name a module here. `src/smartvalve/` is the Python package.

## 1. The system

SmartValve diagnoses a valve from a *baseline* and a *current* full-stroke test. A dashboard (or any
HTTP client) posts a test to an API process. The API checks the caller, validates the data, compares
the two current-versus-position signatures, runs a transparent rule cascade and a hydraulic model,
and appends the run with its result to a hash-chained SQLite table. Operators back that database up
and restore it offline. `make demo` runs API and dashboard under one launcher.

```
 dashboard/app.py -> service/client.py --HTTP--> service/app.py --> service/auth.py
                                                   |  |  \--> pipeline.py: signature -> diagnosis -> network twin
                                                   |  \-----> data/contract.py (quality gate of uploads)
                                                   v
 launcher.py supervises API, dashboard     storage/repository.py == SQLite (WAL) == storage/backup.py
```

### Inventory

| Component | State it keeps | Operations | What is hard | What makes it correct |
|---|---|---|---|---|
| Run repository, `storage/repository.py` | table `diagnostic_runs`, two triggers, SQLite's write lock | `initialize` with migration and backfill, `record`, `verify_chain`, `list`, `get`, `ping` | request threads and several processes on one database, failed statements, lock timeouts, crashes, clocks set back, a migration under concurrent start-up | one unbroken chain; receipts are durable; an error leaves no row; history is never rewritten; the migration is atomic; nothing hangs |
| Backup, `storage/backup.py` | snapshot and manifest files, temporary and staged files | `create_backup`, `verify_backup`, `restore_backup` | running beside a database in WAL mode; OSError or kill between any two renames; files altered between check and use | snapshots are complete; failures clean up or roll back; only what was signed is put in place; old data is never lost |
| Launcher, `launcher.py` | two child processes, its list of them, two signal handlers | start, wait until ready, watch, terminate | signals at any moment, nested handlers, children that ignore SIGTERM | nothing it started and listed outlives it; the stack comes down as a whole |
| Diagnosis, `diagnosis/rules.py` | none | `diagnose` | order and mutual exclusion of the rules, thresholds, missing measurements | worse evidence never clears a finding or improves a status; the decision state says when a person must look |
| API, `service/app.py` | request and error counters, route metrics, rate windows, its repository and authenticator | middleware, permission check, endpoints, `/health/ready`, `/metrics` | event loop and worker threads; early returns and exceptions in the middleware; window arithmetic | every accepted run is recorded under the caller's identity; counters add up; no more than the limit per window |
| Authentication, `service/auth.py` | none (PyJWT caches keys) | `authenticate`, `ready` | order of checks, role and scope union, configuration errors | permissions come only from verified claims |
| Client, `service/client.py` | none | one call per endpoint | a timeout does not say whether the run was recorded | one call is one request; a run that was answered is in the log |
| Data contract, `data/contract.py` | none | `validate_valve_frame` | penalties and violations decide separately | a frame with violations is never accepted |
| Artifact cache, `data/external.py` | downloaded files, `.part` files, `manifest.json` | `sync_artifacts`, `artifact_status` | concurrent syncs, a kill between file and manifest | what an undisturbed sync left is whole and kept; status calls verified only what was recorded |
| Dashboard, `dashboard/app.py` | one session: the run shown, the parameters it was made with | execute, switch source or page, upload, reload | every interaction abandons the running script and starts it again; calls that block, fail or are lost meanwhile | the page says truly what it shows; one click is one run; the page comes to rest |
| Benchmark, `experiments/benchmark.py` | none | profiles, grouped split, scoring of the cascade | rounding and clamping of the split, findings recognised by their words | development and holdout share nothing; every diagnosis is counted under its own class |
| Signature, simulation, network twin, public data sets, Cranfield benchmark, PDF, pipeline | none | pure numerical functions, parsing and layout | floating point | outside this project |

The components meet in five places. `_persisted_diagnostic_response` hands a finished run to
`RunRepository.record` (one call per request thread). The backup reads the live database through
SQLite and the restore replaces its files while the API is down. The launcher knows API and
dashboard only as processes. The CSV endpoint lets the quality verdict decide whether the pipeline
runs at all. The dashboard's script waits in the client for the API's answer and keeps the run it
brought in the session.

`PROJECT.json` lists the hazards line by line, with the properties that would show each going wrong.

## 2. Modules

| Module | Models | Lines it stands on |
|---|---|---|
| `ChainRows` | a row, its digests, sealing, the verifier `VerifyChainRows`, and the declarative reading `Chain` | `repository.py` 15-104, 127-151 |
| `AuditChain` | API processes that open and migrate one database, and `record()` calls in their threads | `repository.py` 108-336, `app.py` 340-347 |
| `ChainTampering` | the repository with one edit of its table behind its back, and what `verify_chain_rows` says then | `repository.py` 60-104; the edit is external |
| `AuditLog` | what a caller is promised: an append-only log, without hashes, locks, migrations or HTTP. `AuditChain` and `Service` implement it | abstract |
| `Backup` | backup and restore beside an API that appends, checkpoints, stops and is killed | `backup.py` 61-309 |
| `Launcher` | `main`, `stop_stack`, `_terminate`, the children | `launcher.py` 14-94 |
| `Service` | the API process: middleware, permission check, endpoints, event loop and worker threads | `app.py` |
| `Auth` | settings a deployment starts with, principals and permissions (no state) | `auth.py` |
| `DataContract` | violations, score and verdict of an uploaded frame (no state) | `contract.py` 80-144 |
| `Diagnosis` | the cascade, health score, NE 107 status, decision state, and a valve that wears | `rules.py` 35-166 |
| `ArtifactCache` | any number of `sync_artifacts` at once and `artifact_status` beside them | `external.py` 77-158 |
| `Console` | one session of the dashboard with its client, in front of an API that records | `dashboard/app.py` 740-1001, 1392-1408; `client.py` |
| `Benchmark` | the scorer: profiles, matrix, split, predicted class, counts (no state) | `benchmark.py` 25-128, 258-318 |
| `MCAuditChain`, `MCChainVerify`, `MCService`, `MCDiagnosis`, `MCArtifacts` | small instances for TLC | |
| `AuditChainProofs`, `ChainVerifierProofs`, `ServiceProofs`, `DiagnosisProofs`, `ArtifactCacheProofs`, `BackupProofs`, `LauncherProofs`, `ConsoleProofs` | theorems and proofs | |

### How state and actions correspond to the code

**ChainRows.** SHA-256 is assumed free of collisions. The digest of a document is the tagged document.
The digest of a record is the sequence of everything ever chained into it, which is exactly what
hashing the previous digest with the new material makes it depend on. A stored result (`Documents`) is a body and
an `audit` member; the code parses it, drops that member and hashes the canonical form of the rest, which is `Canonical`.
So two texts that differ in the member or in formatting only have one digest, as in the code. The request is
hashed as the stored text, which may be blank. The four columns `operator_id`,
`evidence_grade`, `baseline_sha256` and `data_sha256` are always written together and are one
column `labels`. The columns `asset_id`, `status`, `health_score` and other extracts are written from the result and are not hashed
by the code either, so an edit of one of them is outside what verification can see, in the model as
in the program. `Malformed` stands for a document with no canonical form: NaN in a result, text in
a legacy row that does not parse. `ReadRow` is one pass of the verifier's loop; `VerifyChainRows` folds it over the
table, and `Broken` with `VerdictOn` is the declarative reading it is held against. `Chain` says that each row was sealed on
the row before it, where a blank request counts as `{}` (`Filled`), because that is what the migration hashes.

**AuditChain.** `rows` is the table in rowid order, `triggers` and `columns` its schema, `lock` SQLite's
single write lock. `service[s]` is a process in `RunRepository.__init__`; each statement up to the
first `UPDATE` commits by itself, because Python's `sqlite3` opens a transaction only before a
statement that modifies rows. From that `UPDATE` until the end of the `with` block everything is one
transaction, which is the variable `draft`: the table as that connection sees it. With nothing to
backfill there is no such transaction, and the two `CREATE TRIGGER`s commit one by one
(`CreateTrigger`). `call[c]` follows a `record()`: hashed, locked (`BEGIN IMMEDIATE`), read (the newest
digest), inserted, committed, acked. `RecordFails` is any `sqlite3.Error` before the commit, a busy timeout
among them; `OpenFails` the exceptions of `initialize`; `Crash` a kill at any point. What a kill leaves is
SQLite's promise under `synchronous=FULL`: the committed rows. `SealLegacy` is the row as the `UPDATE` leaves it: hashed with
`{}` for a blank request, which stays blank in the table.

**ChainTampering** adds one action of somebody with access to the file, what `tests/test_backup.py` does by hand: the
triggers are dropped, one transaction overwrites a column of a row, deletes a row or exchanges two, and the triggers are
put back. `edit` is the first row that was touched, or `Unseen` when nothing that was hashed has changed: the `audit` member of a
result, or a blank request that became `{}`. Everything of `AuditChain` goes on before and after it. The newest row is not deleted, because a chain that
ends early is a chain; and `run_id` stays unique, as the primary key demands.

**Backup.** A database's content is the sequence of its records. The write-ahead log carries the main
file it was started on; beside any other main file the content is `Damaged`. `disk` is the target's three
files, `vault` the backup directory, `staged` what a restore has moved aside, `copy` its temporary
file. A failed backup goes through its except clause one unlink at a time (`UnlinkSnapshot`, `UnlinkManifest`), also
from the sync of the directory after the manifest's rename (`written`), and each unlink may raise (`UnlinkRaises`).
Each rename is an action and each can be the last one (`CrashRestore`) or raise
(`RestoreFails`, which leads to `Unstage`, one file per step, in reverse order). A stored file can be altered at
any time (`Damage`). As the documentation asks, the API is not started during a restore and a restore
is not begun while the API is up.

**Service**, which extends `Auth` and `DataContract`. `settings` is what `lifespan` built the
authenticator from; `Start` has the checks of `build_authenticator` as its guard. A request (`step`) is new,
before the permission check, in its handler, about to record, recording, a response on its way out,
or answered. `Pass`, `Admit` and `Refuse` are the middleware on the way in: each is one action because the
middleware does not await between reading and writing a window. `Answer` is the middleware on the
way out, which counts. Checks and most endpoints run in worker threads and interleave freely. The CSV
endpoint is a coroutine: from `AnalyseUpload` until its run is committed it has no await, and `loop`
says that it blocks the event loop, so nobody arrives and no answer leaves meanwhile. `lock` is SQLite's
write lock seen from this process; what the database does under it is `AuditChain`. `runs` are the rows it adds, oldest first. A status 500
stands for an unhandled exception: it is an error, and is counted under no route. `RejectBody` is a body that
FastAPI cannot parse, refused (400 for a form, 422 for JSON) before the dependency that asks who calls. The permission check itself may end in
a 500 (`MayRaise`): `compare_digest` of a key that is not ASCII, an error of the key server that nothing catches. The result of a computation is left
open (a run, 422, 500, 503), but for the gate on uploads. `window` holds the times of a remote address, and `admitted`
is a history variable with all of them. Two facts of the code that the model keeps: an empty
`X-Operator-ID` is a `local-demo` even in production, and a token whose signing key cannot be fetched
is refused like a bad one.

**Launcher.** Only the innermost `_terminate` is kept. That is exact: `stop_stack` ends in
`SystemExit`, which unwinds every frame between it and `main`, so no outer `_terminate` is resumed.
A signal that finds no handler ends the launcher (`Killed`).

**Diagnosis.** All thresholds are integers in the units the module names, so no comparison is
rounded. `Ratio` keeps the code's rule that what cannot be divided counts as unchanged. The state
machine is a valve tested again and again while one kind of evidence at a time gets worse.

**Benchmark** extends it. A run of the matrix has a load group, a seed, a fault and a severity; what the
simulator and the signature make of it is any evidence. A finding is its words, because that is what
`prediction_from_diagnosis` looks at. There is no state; its statements are assumptions of `MCDiagnosis` (TLC
evaluates them in both diagnosis runs) and theorems.

**ArtifactCache.** A file is what stands at each of its chunk positions, the publisher's version it came from,
so a file mixed of two downloads, or cut off, is different from a whole one. `handle` follows the open
descriptor through a rename: a sync that was writing the `.part` file another one renamed goes on writing,
into the target. `EndOfBody` may come before the last chunk, because a read with a size returns nothing
when the connection closed early. `WriteManifest` after another sync's may leave its own records or an
unparsable mixture. The variables from `clean` on are history: a sync is clean while it is alone and
no body was cut, `trusted` are the targets it put in place.

**Console.** Streamlit's part is external: an interaction that arrives while the script runs waits, the script is
abandoned at its next write to the session or the page (`Yielding` lists where that is) and started again with the
new widgets (`Interrupt`); a blocking call to the API is not interrupted. `Start` to `ShowUpload` are the script
in its order, `Record`, `Respond` and `Refuse` what the API does with a call, also after the client has given it up.
`calls` numbers the requests, `log` the runs recorded; `clicks`, `torn` and `missed` are history.

## 3. What is checked

| Run | Instance and bounds | What it shows |
|---|---|---|
| `audit_chain` | two processes, two calls, a new database or a legacy one (sound, or with a blank request, of two rows; or three rows with one that does not parse), a clock set back, a refused payload; 61,616 states | `TypeOK`, `ChainIntact`, `MigrationAtomic`, `ServingVerifies`, `ReceiptsDurable`, `FailedLeavesNoRow`, `HistoryOnlyGrows`, `ImplementsAuditLog`, `StartUpEnds`, `EveryCallAnswered` |
| `audit_blank_request` (violated) | one process, a legacy table whose second request is blank | the migrated chain is reported broken |
| `chain_verify` | one process, two calls, a new database or a legacy one with no or two rows, one with a blank request or none, so up to four rows; two clocks, labels and payloads, one edit of any row; 312,313 states | `VerdictExact`, `EditLocated` |
| `service` | four requests (see below) of two remote addresses, limit 2, window 2 ticks, clock up to 2, six settings in production; 124,111 states | `TypeOK`, `RateLimited`, `RefusalsJustified`, `CountersBalance`, `RunsAreEarned`, `ServesAuditLog`, `ProductionGuarded`, `EveryRequestAnswered` |
| `backup_restore` | two backup names, one record; 2.0 million states | `TypeOK`, `SnapshotComplete`, `FailedBackupNeverMisleads`, `RestoredIsSigned`, `NoForeignLog`, `PreviousKept`, `FailedRestoreChangesNothing` |
| `restore_atomic` (violated) | one backup, one record | a killed restore can leave no database |
| `launcher` | three signals; 1,070 states | `ListedChildrenStopped`, `AskedBeforeKilled`, `StackComesDown` |
| `launcher_orphan` (violated) | one signal | a dashboard that is not listed yet is left running |
| `diagnosis` | a value on each side of every threshold; 36,864 states | `WearNeverClears`, `WearNeverImproves`, `SlowRuleUnreachable` |
| `diagnosis_review` (violated) | the same | a test under a supply out of specification can be called normal |
| `artifacts` | two syncs, two artifacts of two chunks, two publisher versions, two calls, one alteration; 2.3 million states | `TrustedWhole`, `UnforcedKeeps`, `StatusTells` |
| `console` | two settings of the form, three calls, four interactions; 634,573 states | `PageTellsTruth`, `OneRecordPerClick`, `PageSettles` |

Every property of a passing run has a mutant: the module holds, beside the definition, a plausible
slip (`... A slip: ...`), and under that slip the property fails in the same run. The slips are never
part of a specification.

**Why the bounds are enough.** Two calls are one that holds the lock and one that waits, in one process or in two, or one that
starts after a failure of the other. Two processes are enough for every pairwise race of the migration, and the
malformed legacy row has a good one on either side, so a partial backfill has something to undo.
The clock stands behind the newest legacy row when the calls are made, and in `chain_verify` two values make it run
backwards between any two. A blank request is found by the verifier at the first or the second row. An edit meets chains of one to four
rows, at the first, a middle or the last row, and up to two runs are recorded after it. Two backups allow one to be written, or altered, while the other is
restored; the one record is in the log or, after a checkpoint, in the main file, and an empty database is a content of its own.
The callers of `service` are a viewer with the right key and a verified token (a simulation), one with a wrong key and a verified
operator's token (a CSV with a violation), one with the right key and a refused token (a clean CSV), and one with neither
(`/metrics`). So with a key the first and the third record a run and the second is refused with 401; with tokens the first is
refused for its role, the second is stopped by the quality gate and the third by its token, and no run is recorded: what is
recorded with tokens is left to the proofs (`RunsEarned`, `OnlyOperatorsRecord`). One address alone meets the limit.
Its three requests are one more than the limit, the clock reaches the tick at which
the first of them leaves the window, and two CSVs and a simulation compete for the loop and the lock.
The settings are an accepted and a refused one for each check of a key, of a JWKS URL and of an algorithm. Three signals are one to stop
the launcher, one inside the handler and one inside the clean-up. Two syncs give every pair of overlapping calls and a sync
after a failed or killed one; two artifacts and two chunks put a failure before, between and after the files and
within one. Four interactions are a click, two that interrupt it and one more; three calls let an old answer come after
a newer call. The proofs of section 4 remove the bounds
altogether for every invariant and action property of the repository with its verifier, of the API, of the artifact cache, of
backup and restore, of the launcher, of the console and of the diagnosis.
A symmetry set (the two syncs) is used in `artifacts` only, which checks no liveness.

**Fairness.** `AuditChain!FairSpec`: a thread that can take a step of `initialize` or `record` takes one in
the end. The operating system schedules threads, and SQLite's 10 s busy timeout ends each wait for the lock (`OpenFails` and
`RecordFails` are part of the fair actions for that reason). Nothing is assumed about requests that
arrive, processes that start and kills. `Service!FairSpec` is one weak fairness condition on the work of
all requests together: the event loop and the worker threads are not all kept from running for ever,
and the 10 s on a busy database pass. It does not say which of them runs. `Launcher!FairSpec`: the launcher's own thread runs and each of
its waits has a deadline; a child that was sent SIGKILL ends. Nothing makes a child end because it
was asked to. `Console!FairSpec`: the thread that runs the script runs, and a call that stays without an answer ends by its timeout. The 45 s are
those of each operation on the connection (connect, write, one read), so an answer that trickles in may take longer than that;
that it comes to an end is assumed. Nothing else is assumed of the API, and nothing of the operator. `Backup`, `ArtifactCache` and `Diagnosis` have only safety properties and
no fairness.

**Deadlock** is checked for the repository (processes can always be started or killed, under an edit too) and for backups
(the API can always be started or stopped), not for the launcher, the API, the artifact cache and the console,
which end: their requests, calls and interactions are used up.

### Disagreements found

* `audit_blank_request`: the migration seals a legacy row over `request_json or "{}"` (`storage/repository.py:212`) and does
  not store that text (231-249); the verifier hashes what is stored (67, 71). A legacy row whose request is blank is thus migrated
  into a chain that the program reports as broken, against `docs/architecture.md:45` and `CHANGELOG.md:41`, which have the
  migrated records in a verifiable chain. `ServingVerifies` and `ServingProcessVerifies` say that nothing else breaks it, and that the
  first such row is the one that is named. (The program's own column has the default `{}`.)
* `restore_atomic`: `restore_backup` is documented as atomic (`storage/backup.py:257`,
  `docs/architecture.md:47`). It renames the old main file away before it renames the new one into
  place; a kill in between leaves no database, and the next start of the API creates an empty one. The
  old files are still there under their staged names (`PreviousKept`).
* `launcher_orphan`: `docs/architecture.md:50` says `make demo` supervises both processes together. A signal
  between `Popen` of the dashboard and `processes.append` leaves the dashboard running.
* `diagnosis_review`: the model card (`experiments/benchmark.py:393`) says a supply out of specification
  gives `needs_review`. With no other deviation the code says `normal`.

Met while modelling, and stated as conditions of the properties instead of runs of their own:

* What GET `/v1/runs/{run_id}` returns includes the `audit` member of the stored result, which no hash covers: an edit of it is never
  found (`EditLocated` says so, for `edit = Unseen`).
* The clean-up of a failed backup may itself raise (`storage/backup.py:186-187`) and leave a whole pair behind the error; it then verifies, as the
  snapshot it is (`FailedBackupNeverMisleads`).
* `data/external.py:91` says "Download artifacts atomically; never replace a valid cache implicitly". A download whose
  connection closes early is renamed into place as it is, and two syncs at once can write into each other's files
  after the rename. `TrustedWhole` and `UnforcedKeeps` say what holds without these, and both conditions are needed.
* `dashboard/app.py:897` says that only a click on execute calls the API and writes to the audit chain. Two uploaded
  files are posted again, and recorded again, by every rerun of the validation page (`dashboard/app.py:1394`).
* A run whose answer comes while another interaction waits is recorded and not shown, and an interaction between
  `dashboard/app.py:935` and 936 leaves the new run beside the old parameters (`missed` and `torn` in `Console`).

## 4. What is proved

All proofs are checked by TLAPS and hold for every value of the constants under the modules' named
assumptions: `ColumnAssumption` and `BlankAssumption` (the blank default is no digest, no label and no payload, `{}` is a
payload, a malformed document is none), `RepositoryAssumption` (run ids are fresh, legacy rows are
unsealed and have distinct ids, processes, calls and the free lock are different things),
`ProductionAssumption` and `ServiceAssumption` (a limit and a window of at least one, finitely many requests for
the endpoints there are, with frames the data contract can be asked about) and
`MeasurementAssumption` (measurements are integers or missing).

**`AuditChainProofs`**: `TypeCorrect`, `ChainStaysIntact`, `ReceiptsStay`, `FailuresLeaveNoRow`,
`MigrationIsAtomic`, `HistoryNeverRewritten`. None of the properties is inductive. `ChainIntact` alone
does not say why the head a call has read is still the head when it commits, or why the copies of the
backfill are not stale. The inductive invariant `IInv` adds:

* `LockInv`: the lock is held by exactly the call in its transaction, or the process in its backfill;
* `ProtectInv`: calls run in serving processes, serving implies both triggers, and once the update
  trigger exists the table is a chain of sealed rows, those with a blank request sealed over `{}`;
* `LegacyInv`: before that the table is the old one, unsealed, with distinct ids;
* `HeadInv`: what a call read under the lock is still the head;
* `EntryInv`: the row a call carries, from hashing to receipt, and whether it is stored;
* `PendingInv`: a process's copies equal the stored rows until it takes the lock, unless the triggers
  have appeared, in which case its `UPDATE` aborts;
* `DraftInv`: inside the transaction the rows before the next copy form a chain, the rest are untouched,
  and `previous` is the digest before the next copy.

One lemma per action shows that it preserves `IInv`; the hard ones are `BackfillRowInv` (one more row on
the chain) and `CommitInv`. `Invariance` puts them together. The module begins with the lemmas about
sealing and appending that both rest on (`SealedIsValid`, `ChainAppend`).

Two more results of the module rest on `IInv`. `SchemaComplete`: whoever computes or stores digests has first added all
columns they need, although several processes may be altering the table at once (`ColumnsInv`: a process that alters
has at least the missing ones on its list). And `RepositoryIsALog`: the whole of `AuditChain` implements `AuditLog`. Under the mapping
the commit of a call is `Record`, its return is `Acknowledge`, its failure is `Fail`, and the end of a process loses the
calls it was serving; opening, the migration, the lock, reading the head and inserting are stutters,
because they store no new row and a seal is not part of an entry. Each of these steps
is a lemma that uses `IInv`, mostly to know which row a commit makes visible.

**`ChainVerifierProofs`**: `ServingProcessVerifies`, `EditsAreLocated`, `VerdictsAreExact`, and `VerifierIsExact`, from which
they follow: for every sequence of rows the loop and the declarative reading agree. That is induction over the table. The
library's induction theorems cannot be instantiated here, so the module proves a least-number principle for a set of
naturals (`LeastNatural`, from the well-foundedness of <), and takes the least number of rows on which loop and reading
disagree. `VerdictOfOneMore` unfolds the recursive function by one row, `VerdictWalks` says what it returns while no row was
broken, and where it stays after one was. `ServingVerifies` then is `ProtectInv` read by the loop: of a chain exactly the rows
with a blank request are not valid (`ChainVerdict`), which is the bug above, stated and not assumed away.

For an edit the invariant is `TamperInv`: up to the edit, and after one that is `Unseen`, the table is a chain; otherwise the edited
row is broken, and before it only rows with a blank request are. That it is broken at all is `EditBreaks`, one case for each kind of
edit. Hashing is injective on what is hashed, so an overwritten column no longer fits the row's own digest unless what
was hashed is the same as before (`PassedUnhashed`); in that case every digest still fits (`UnhashedSealed`, `UnseenEdit`). A deleted or exchanged row
leaves a row that names a digest of another length as its previous one (`DigestLength`: in a chain the digest of row i has chained i
materials). Rows appended later do not touch the rows before them, so a broken row stays the first.

**`ServiceProofs`**: `ServiceTypes`, `LimitHolds`, `RefusalsAreJustified`, `CountersAddUp`, `RunsEarned`,
`ServiceIsALog`, `OutcomeTold`, `Guarded`, `OnlyOperatorsRecord`, `RepairsNeverHurt`: every safety property of the run, for any number of requests, addresses and
settings, any limit and window. The invariant has a part for each group, and one lemma shows that every step keeps it:

* `StepInv`: which statuses, endpoints and uploads a step of a request allows; no request moves before start-up;
* `PrincipalInv`: a request past the check has the principal of its caller, who may do what it asks (`ServedKept`:
  no step but a passed check lets a request past it, and settings do not change under it);
* `RunInv`: a run belongs to a diagnostic that answers 200, and the other way round (`RunsAnswered`);
* `RateInv`: a window is the tail of the admissions, in order, at most `Limit` long, and what it no longer
  holds is a window old. `RateLimited` alone does not say that the limiter's memory is right.
  `PrunedWindow` and `AdmittedWindow` carry the arithmetic;
* `TallyInv`: the counters against the set of requests, for every route and not only those already used.

`ServiceIsALog` is the refinement of `AuditLog` once more, now for whoever calls the API: a diagnostic is submitted when its
result is decided on, the end of `record()` is `Record`, and `Answer` is `Acknowledge` or `Fail`. Admission, refusal, the check of the
permission, the loop and the lock are stutters, and no other request ever touches the log. `OutcomeSteps` says what
each action does to an outcome; that a 200 acknowledges what is logged is `RunInv`.

Two results go beyond the run. `OnlyOperatorsRecord` opens the permission in `RunsAreEarned`: with tokens, every
run was asked for with a diagnose or admin scope or by an operator or administrator, so viewers and auditors leave none.
`RepairsNeverHurt` is about any two frames, duplicates without a bound: with less wrong, the verdict is no worse.

**`DiagnosisProofs`**: `FindingsPersist`, `StatusPersists`, `SlowRuleShadowed`, for every measurement instead of
a grid, from the lemma that shorter travel loses more and one case per rule.

The same module has the scorer's theorems, which rest on the findings of the cascade: `SplitKeepsGroupsApart` for every
number of load groups, and `PredictionsExact` for every measurement (the cascade's findings and the words the scorer
looks for fit together without a gap: each finding is counted under the class it is about, `ClassMeant`).

**`ArtifactCacheProofs`**: `TrustedStaysWhole`, `ValidFilesKept`, `StatusTellsTruth`, for any number of syncs, artifacts, chunks,
versions and alterations, under `BoundsAssumption` (at least one of each) and `AbsentAssumption` (no file is no file). Two invariants carry them:

* `Core`: a clean sync is the only one that runs; descriptors are open only while receiving and lead to files
  that exist; what a clean sync has received so far is of one version; nobody holds a trusted target open; a
  clean sync that does not force is after something missing. The last two are why nothing is overwritten;
* `Recorded`: what an alteration left is recorded nowhere (contents put there from outside are new, `AlterIsNew`); a
  clean sync has a file and its digest for every artifact it is done with; after it nothing runs and the
  manifest is the files; a reader that has been undisturbed since holds that manifest.

**`BackupProofs`**: all seven safety properties of `Backup`, and `NothingTwice`, for any number of backups and records, under
`BackupAssumption` (no file and damaged bytes are two things, and neither is a content or a log). The invariant:

* `Typed`: among the types, that a log which lies beside a main file is its own (`Database`), for the target and for what
  it was when the restore began;
* `ApiInv`: the API is up only while no restore runs, over a main file and a log;
* `Moved`: each file of the old database is in its place or moved aside, which one according to how far the restore is.
  `PreviousKept` alone does not exclude that a rollback puts a log back beside another main file;
* `Signed`: what verification and the second check have established by each step of the restore. The copy may differ
  from the backup that was verified until it is checked against the manifest that was kept in memory;
* `PairInv`: which of the two files a backup, its clean-up and a killed or raised one can have left. Together with `Damage`, which
  may hit either file at any time, it is why a pair that verifies after an error is the whole snapshot;
* `Grown`: a backup that is copying began with a prefix of what the database holds now. Appending extends the content
  (`PrefixOfLonger`), a checkpoint and the end of the API leave it alone (`ContentOf`).

`NothingTwice` adds what comes of backups, restores and new runs in the long run: a database, and every backup that verifies,
holds its records in the order in which they were appended and none of them twice, although a restore takes the database
back to an older state and the API goes on from there. `OrderInv` says it of every place where records are kept: the three
files in place and moved aside, snapshots, stored pairs, and the manifest a restore goes by. It was checked on the
states of `backup_restore` before it was proved; no run repeats it.

**`LauncherProofs`**: `LauncherTypes`, `ChildrenStopped`, `KilledWereAsked` for any number of signals (`SignalAssumption`: there are
finitely many). `AwaitInv` says that a
`_terminate` which waits has asked every listed child, and which ones it has seen end, so that beginning it anew
inside a handler loses nothing. `MainInv` says at which places of `main` a handler is installed: only past the finally
clause can a signal end the launcher that has brought the stack down, and there all listed children are dealt with.

**`ConsoleProofs`**: `ClicksRecordOnce` and `PageIsTrue`, for any number of interactions, calls and settings, under
`ConsoleAssumption` (`NoRun` is no number). The invariant follows a click through the system: `Clicked` (a click has at most
one call, and the one being executed has none yet), `Logged` (the log is the recorded calls, each once), `Executing` (the
call the script is about is the latest execution and was made with the script's widgets), `SessionInv` (what the run
in the session is, and what may have been executed after it) and `PageInv` (what the page has of both). The API's side of
`Console` (`Record`, `Respond`, `Refuse`: a call is recorded at most once, and answered only when it was) is an assumption about the
process, of the kind that `ServiceIsALog` and `RepositoryIsALog` prove of it; that every behaviour of the log is one of `Console`'s API is
not proved.

Only model-checked: liveness under fairness (`EveryCallAnswered`, `StartUpEnds`, `EveryRequestAnswered`, `StackComesDown`,
`PageSettles`), which is out of the prover's reach.

## 5. What is not modelled

See `components` in `PROJECT.json`. The numerical stages (signature extraction, simulation, network twin, the benchmark's
ratios and correlations) are floating-point functions without state; the PDF, the layout of the dashboard and the
deployment files are presentation and configuration. Of the dashboard, what it reads through timed caches (run list, audit
page, benchmark, PDF) is left out; of the artifact cache, that a digest is read from a file that may change
meanwhile, and the allow-list, which the listed artifacts pass. In modelled parts: confidence, resistance and texts of the diagnosis;
the extracts of a result that are stored in columns of their own; permissions of files; bodies,
headers and correlation ids of responses, requests cancelled at shut-down, the moments at which one `/metrics` reads each
number, a `SMARTVALVE_RATE_LIMIT_PER_MINUTE` that is not a number; the unlink of the temporary file in the `finally` clause of
`restore_backup`, which may raise after the outcome is settled.

## 6. Plan

Done: `ChainRows`, `AuditChain` with `AuditLog`, `Backup`, `Launcher`, `Diagnosis` with `Benchmark`, `Service` with `Auth` and
`DataContract`, `ArtifactCache`, `Console`, and the proofs above. Next:

1. `Signature`: the stroke segmentation and stagnation runs as folds over a quantised stroke, checked against
   a declarative reading over all short strokes.
