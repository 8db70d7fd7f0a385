------------------------------ MODULE AuditChain ------------------------------
(***************************************************************************)
(* The run repository: API processes open one SQLite database, migrate it  *)
(* to the sealed schema if it predates it, and then append diagnostic runs *)
(* from their request threads (storage/repository.py).                     *)
(*                                                                         *)
(* SQLite's part is what the code asks of it: statements outside a         *)
(* transaction commit one by one, one connection at a time holds the write *)
(* lock, a connection that cannot get it in 10 s raises, and what was not  *)
(* committed when a connection fails or a process dies never happened.     *)
(***************************************************************************)
EXTENDS ChainRows

CONSTANTS
    Services,       \* API processes over the database
    Calls,          \* calls of record(); a call is named by its run_id
    Columns,        \* the columns of the sealed schema
    LegacyColumns,  \* the columns an older database already has
    LegacyRows,     \* what such a database may hold, all of it unsealed
    Jobs,           \* contents of a run: clock, labels, request and result
    Free            \* the write lock is held by no one

ASSUME RepositoryAssumption ==
    /\ Calls \subseteq RunIds
    /\ Services \intersect Calls = {}
    /\ Free \notin Services \union Calls
    /\ LegacyColumns \subseteq Columns
    /\ Columns # {}
    /\ Jobs \subseteq [created_at : Times, labels : Labels,
                       request_json : Payloads \union {Malformed},
                       result_json : Payloads \union {Malformed}]
    /\ LegacyRows \subseteq Seq(Rows)
    /\ \A old \in LegacyRows :
         \A i \in 1 .. Len(old) :
            /\ old[i].record_sha256 = Blank
            /\ old[i].run_id \notin Calls
            /\ \A j \in 1 .. Len(old) : old[i].run_id = old[j].run_id => i = j

VARIABLES
    \* the database
    rows,       \* committed rows of diagnostic_runs in rowid order
    columns,    \* columns of the table; {} while there is no table
    triggers,   \* which append-only triggers exist
    lock,       \* connection that holds the write lock
    \* each API process, in RunRepository.__init__
    service,    \* how far it is
    missing,    \* columns it found missing
    pending,    \* its copies, by rowid, of the unsealed rows still to update
    previous,   \* digest its next update builds on
    draft,      \* the table as its open transaction sees it
    \* each call of record()
    call,       \* how far it is
    owner,      \* the API process it runs in
    entry,      \* the row it is writing; its seal, once it is answered
    head        \* the digest it read under the lock

database == <<rows, columns, triggers, lock>>
opening == <<service, missing, pending, previous, draft>>
recording == <<call, owner, entry, head>>
vars == <<database, opening, recording>>

Kinds == {"update", "delete"}

Opening == {"created", "altering", "scanned", "backfilling", "sealing"}

InRecord == {"hashed", "locked", "read", "inserted", "committed"}

InTransaction == {"locked", "read", "inserted"}

NoRows == <<>>

NoOwner == Free

NoEntry == Free

Init ==
    /\ \/ rows = NoRows /\ columns = {}
       \/ rows \in LegacyRows /\ columns = LegacyColumns
    /\ triggers = {}
    /\ lock = Free
    /\ service = [s \in Services |-> "down"]
    /\ missing = [s \in Services |-> {}]
    /\ pending = [s \in Services |-> NoRows]
    /\ previous = [s \in Services |-> GENESIS_HASH]
    /\ draft = [s \in Services |-> NoRows]
    /\ call = [c \in Calls |-> "idle"]
    /\ owner = [c \in Calls |-> NoOwner]
    /\ entry = [c \in Calls |-> NoEntry]
    /\ head = [c \in Calls |-> GENESIS_HASH]

-----------------------------------------------------------------------------
\* initialize(): each statement up to the first UPDATE commits by itself.

\* A statement that changes the database needs the lock; one that finds
\* nothing to do (IF NOT EXISTS) does not.
CanWrite(noop) == noop \/ lock = Free

\* CREATE TABLE IF NOT EXISTS
CreateTable(s) ==
    /\ service[s] = "down"
    /\ CanWrite(columns # {})
    /\ columns' = IF columns = {} THEN Columns ELSE columns
    /\ service' = [service EXCEPT ![s] = "created"]
    /\ UNCHANGED <<rows, triggers, lock, missing, pending, previous, draft, recording>>

\* PRAGMA table_info: the set the ALTER statements go by from here on.
ReadColumns(s) ==
    /\ service[s] = "created"
    /\ missing' = [missing EXCEPT ![s] = Columns \ columns]
    /\ service' = [service EXCEPT ![s] = "altering"]
    /\ UNCHANGED <<database, pending, previous, draft, recording>>

\* ALTER TABLE ADD COLUMN, which raises when the column is there already.
\* The code goes through them in a fixed order; here in any.
AddColumn(s, col) ==
    /\ service[s] = "altering"
    /\ col \in missing[s]
    /\ col \notin columns
    /\ lock = Free
    /\ columns' = columns \union {col}
    /\ missing' = [missing EXCEPT ![s] = @ \ {col}]
    /\ UNCHANGED <<rows, triggers, lock, service, pending, previous, draft, recording>>

\* The first SELECT of the backfill copies the unsealed rows, by rowid; with
\* none the backfill is over.
ScanPending(s) ==
    /\ service[s] = "altering"
    /\ missing[s] = {}
    /\ LET unsealed == {i \in 1 .. Len(rows) : rows[i].record_sha256 = Blank}
       IN  /\ pending' = [pending EXCEPT ![s] = [i \in unsealed |-> rows[i]]]
           /\ service' = [service EXCEPT
                ![s] = IF unsealed = {} THEN "sealing" ELSE "scanned"]
    /\ UNCHANGED <<database, missing, previous, draft, recording>>

\* The second SELECT: the newest digest already there.
ScanHead(s) ==
    /\ service[s] = "scanned"
    /\ LET sealed == {i \in 1 .. Len(rows) : rows[i].record_sha256 # Blank}
       IN  \/ sealed = {} /\ previous' = [previous EXCEPT ![s] = GENESIS_HASH]
           \/ \E newest \in sealed :
                /\ \A i \in sealed : i <= newest
                /\ previous' = [previous EXCEPT ![s] = rows[newest].record_sha256]
    /\ service' = [service EXCEPT ![s] = "backfilling"]
    /\ UNCHANGED <<database, missing, pending, draft, recording>>

Labelled(row) == [row EXCEPT !.labels = IF @ = Blank THEN LegacyLabels ELSE @]

\* A slip: blank labels are hashed and stored as they are.
SealLegacyBlank(row, prev) ==
    [Sealed(Filled(row), prev) EXCEPT !.request_json = row.request_json]

\* The legacy row as the UPDATE leaves it: labels are filled in, a blank
\* request is hashed as {} and stays blank.
SealLegacy(row, prev) ==
    [Sealed(Filled(Labelled(row)), prev) EXCEPT !.request_json = row.request_json]

\* UPDATE ... WHERE run_id = ?
Updated(table, old, new) ==
    [j \in 1 .. Len(table) |-> IF table[j].run_id = old.run_id THEN new ELSE table[j]]

\* The oldest of the copied rows is sealed in the table that the process sees;
\* the first UPDATE opens the transaction the rest of initialize() runs in.
UpdateOldest(s) ==
    /\ service[s] = "backfilling"
    /\ lock \in {Free, s}
    /\ lock' = s
    /\ \E i \in DOMAIN pending[s] :
         LET old == pending[s][i]
             new == SealLegacy(old, previous[s])
         IN  /\ \A j \in DOMAIN pending[s] : i <= j
             /\ old.result_json # Malformed
             /\ draft' = [draft EXCEPT
                  ![s] = Updated(IF lock = s THEN draft[s] ELSE rows, old, new)]
             /\ previous' = [previous EXCEPT ![s] = new.record_sha256]
             /\ pending' = [pending EXCEPT
                  ![s] = [j \in DOMAIN pending[s] \ {i} |-> pending[s][j]]]
    /\ UNCHANGED <<columns, triggers, service, missing, recording>>

\* A slip: no trigger stands in the way of the UPDATE.
BackfillRowUnguarded(s) == UpdateOldest(s) /\ UNCHANGED rows

\* A slip: every UPDATE commits by itself.
BackfillRowAutocommit(s) ==
    "update" \notin triggers /\ UpdateOldest(s) /\ rows' = draft'[s]

\* One pass of the loop; the trigger of another process would abort it.
BackfillRow(s) == "update" \notin triggers /\ UpdateOldest(s) /\ UNCHANGED rows

\* Both CREATE TRIGGERs inside the backfill's transaction, and its commit.
CommitBackfill(s) ==
    /\ service[s] = "backfilling"
    /\ lock = s
    /\ DOMAIN pending[s] = {}
    /\ rows' = draft[s]
    /\ triggers' = Kinds
    /\ lock' = Free
    /\ draft' = [draft EXCEPT ![s] = NoRows]
    /\ service' = [service EXCEPT ![s] = "serving"]
    /\ UNCHANGED <<columns, missing, pending, previous, recording>>

\* With nothing to seal each CREATE TRIGGER IF NOT EXISTS commits alone.
CreateTrigger(s) ==
    /\ service[s] = "sealing"
    /\ CanWrite(triggers = Kinds)
    /\ LET next == IF "update" \in triggers THEN "delete" ELSE "update"
       IN  /\ triggers' = triggers \union {next}
           /\ service' = [service EXCEPT
                ![s] = IF next = "delete" THEN "serving" ELSE "sealing"]
    /\ UNCHANGED <<rows, columns, lock, missing, pending, previous, draft, recording>>

\* What is left of an API process that is gone: nothing of its start-up, no
\* transaction of its own or of its calls, and no one to answer those.
Forget(s) ==
    /\ service' = [service EXCEPT ![s] = "down"]
    /\ missing' = [missing EXCEPT ![s] = {}]
    /\ pending' = [pending EXCEPT ![s] = NoRows]
    /\ previous' = [previous EXCEPT ![s] = GENESIS_HASH]
    /\ draft' = [draft EXCEPT ![s] = NoRows]
    /\ call' = [c \in Calls |-> IF owner[c] = s /\ call[c] \in InRecord
                                THEN "lost" ELSE call[c]]
    /\ lock' = IF lock = s \/ (lock \in Calls /\ owner[lock] = s) THEN Free ELSE lock
    /\ UNCHANGED <<columns, triggers, owner, entry, head>>

\* A slip: the last commit was still in the page cache (synchronous OFF).
StopUnsynced(s) ==
    Forget(s) /\ rows' = IF rows = NoRows THEN rows ELSE SubSeq(rows, 1, Len(rows) - 1)

\* What was committed stays: _connect asks for synchronous FULL.
Stop(s) == Forget(s) /\ UNCHANGED rows

\* The next copied row does not parse, or its UPDATE meets the trigger.
NextRowRaises(s) ==
    \E i \in DOMAIN pending[s] :
        /\ \A j \in DOMAIN pending[s] : i <= j
        /\ pending[s][i].result_json = Malformed \/ "update" \in triggers

\* A slip: a column that is there already does not end the start-up.
OpenFailsNoDuplicate(s) ==
    /\ \/ service[s] = "backfilling" /\ NextRowRaises(s)
       \/ service[s] \in {"altering", "backfilling", "sealing"} /\ lock \notin {Free, s}
    /\ Stop(s)

\* An exception in initialize() ends the start-up: a column that another
\* process added first, a row whose result does not parse, a trigger that
\* aborts the UPDATE, or a lock that stays taken for 10 s.
OpenFails(s) ==
    /\ \/ service[s] = "altering" /\ missing[s] \intersect columns # {}
       \/ service[s] = "backfilling" /\ NextRowRaises(s)
       \/ service[s] \in {"altering", "backfilling", "sealing"} /\ lock \notin {Free, s}
    /\ Stop(s)

\* The process is killed, or its machine stops, at any point.
Crash(s) == service[s] # "down" /\ Stop(s)

-----------------------------------------------------------------------------
\* record()

\* The endpoint stamps created_at, and record() hashes the canonical request
\* and result before it touches the database; what has no canonical form is
\* refused, and an audit member that the result has is dropped.
Submit(s, c, job) ==
    /\ service[s] = "serving"
    /\ call[c] = "idle"
    /\ owner' = [owner EXCEPT ![c] = s]
    /\ IF Malformed \in {job.request_json, job.result_json}
       THEN /\ call' = [call EXCEPT ![c] = "failed"]
            /\ UNCHANGED entry
       ELSE /\ call' = [call EXCEPT ![c] = "hashed"]
            /\ entry' = [entry EXCEPT ![c] =
                 [run_id |-> c, created_at |-> job.created_at, labels |-> job.labels,
                  request_json |-> job.request_json,
                  result_json |-> [body |-> job.result_json, audit |-> Blank],
                  request_sha256 |-> Sha256Text(job.request_json),
                  result_sha256 |-> Sha256Text(job.result_json),
                  previous_record_sha256 |-> Blank, record_sha256 |-> Blank]]
    /\ UNCHANGED <<database, opening, head>>

\* A slip: no BEGIN IMMEDIATE, so the head is read with no lock held.
BeginAutocommit(c) ==
    /\ call[c] = "hashed"
    /\ call' = [call EXCEPT ![c] = "locked"]
    /\ UNCHANGED <<database, opening, owner, entry, head>>

BeginImmediate(c) ==
    /\ call[c] = "hashed"
    /\ lock = Free
    /\ lock' = c
    /\ call' = [call EXCEPT ![c] = "locked"]
    /\ UNCHANGED <<rows, columns, triggers, opening, owner, entry, head>>

\* A slip: the newest row by wall clock instead of by rowid.
ReadHeadByClock(c) ==
    /\ call[c] = "locked"
    /\ IF rows = NoRows
       THEN head' = [head EXCEPT ![c] = GENESIS_HASH]
       ELSE \E i \in 1 .. Len(rows) :
              /\ \A j \in 1 .. Len(rows) : rows[j].created_at <= rows[i].created_at
              /\ head' = [head EXCEPT ![c] = rows[i].record_sha256]
    /\ call' = [call EXCEPT ![c] = "read"]
    /\ UNCHANGED <<database, opening, owner, entry>>

ReadHead(c) ==
    /\ call[c] = "locked"
    /\ head' = [head EXCEPT ![c] = HeadOf(rows)]
    /\ call' = [call EXCEPT ![c] = "read"]
    /\ UNCHANGED <<database, opening, owner, entry>>

\* The seal is stored with the result as well, as its audit member.
WithAudit(row) ==
    [row EXCEPT !.result_json = [body |-> @.body, audit |-> row.record_sha256]]

Insert(c) ==
    /\ call[c] = "read"
    /\ entry' = [entry EXCEPT ![c] = WithAudit(Sealed(@, head[c]))]
    /\ call' = [call EXCEPT ![c] = "inserted"]
    /\ UNCHANGED <<database, opening, owner, head>>

\* A slip: the statement is tried again after it has committed.
CommitRetried(c) ==
    /\ call[c] = "inserted"
    /\ rows' = Append(rows, entry[c])
    /\ lock' = Free
    /\ \E p \in {"hashed", "committed"} : call' = [call EXCEPT ![c] = p]
    /\ UNCHANGED <<columns, triggers, opening, owner, entry, head>>

Commit(c) ==
    /\ call[c] = "inserted"
    /\ rows' = Append(rows, entry[c])
    /\ lock' = Free
    /\ call' = [call EXCEPT ![c] = "committed"]
    /\ UNCHANGED <<columns, triggers, opening, owner, entry, head>>

\* The seal goes back to the endpoint and into its response.
Return(c) ==
    /\ call[c] = "committed"
    /\ call' = [call EXCEPT ![c] = "acked"]
    /\ UNCHANGED <<database, opening, owner, entry, head>>

\* A slip: a step that raises after the commit, reported as a failed record.
RecordFailsLate(c) ==
    /\ \/ call[c] = "hashed" /\ lock # Free
       \/ call[c] \in InTransaction \union {"committed"}
    /\ lock' = IF lock = c THEN Free ELSE lock
    /\ call' = [call EXCEPT ![c] = "failed"]
    /\ UNCHANGED <<rows, columns, triggers, opening, owner, entry, head>>

\* A slip: no busy timeout, and a failed call leaves its transaction open.
RecordFailsHolding(c) ==
    /\ call[c] \in InTransaction
    /\ call' = [call EXCEPT ![c] = "failed"]
    /\ UNCHANGED <<database, opening, owner, entry, head>>

\* An sqlite3.Error before the commit: the lock stayed taken for 10 s, or a
\* statement failed.  The transaction is rolled back, the endpoint raises.
RecordFails(c) ==
    /\ \/ call[c] = "hashed" /\ lock # Free
       \/ call[c] \in InTransaction
    /\ lock' = IF lock = c THEN Free ELSE lock
    /\ call' = [call EXCEPT ![c] = "failed"]
    /\ UNCHANGED <<rows, columns, triggers, opening, owner, entry, head>>

-----------------------------------------------------------------------------

Open(s) ==
    \/ ReadColumns(s)
    \/ \E col \in Columns : AddColumn(s, col)
    \/ ScanPending(s)
    \/ ScanHead(s)
    \/ BackfillRow(s)
    \/ CommitBackfill(s)
    \/ CreateTrigger(s)
    \/ OpenFails(s)

Work(c) ==
    \/ BeginImmediate(c)
    \/ ReadHead(c)
    \/ Insert(c)
    \/ Commit(c)
    \/ Return(c)
    \/ RecordFails(c)

Next ==
    \/ \E s \in Services : CreateTable(s) \/ Open(s) \/ Crash(s)
    \/ \E s \in Services, c \in Calls, job \in Jobs : Submit(s, c, job)
    \/ \E c \in Calls : Work(c)

Spec == Init /\ [][Next]_vars

\* A thread that runs keeps running: the operating system schedules it, and
\* the busy timeout ends every wait for the lock.  Nothing makes a process
\* start, fail or accept a call.
FairSpec ==
    /\ Spec
    /\ \A s \in Services : WF_vars(Open(s))
    /\ \A c \in Calls : WF_vars(Work(c))

-----------------------------------------------------------------------------
\* Type correctness of every variable; a call's entry is a row once hashed.
TypeOK ==
    /\ rows \in Seq(Rows)
    /\ columns \subseteq Columns
    /\ triggers \subseteq Kinds
    /\ lock \in Services \union Calls \union {Free}
    /\ service \in [Services -> {"down", "serving"} \union Opening]
    /\ missing \in [Services -> SUBSET Columns]
    /\ DOMAIN pending = Services
    /\ \A s \in Services :
         /\ DOMAIN pending[s] \subseteq 1 .. Len(rows)
         /\ \A i \in DOMAIN pending[s] : pending[s][i] \in Rows
    /\ previous \in [Services -> Digests]
    /\ draft \in [Services -> Seq(Rows)]
    /\ call \in [Calls -> {"idle", "acked", "failed", "lost"} \union InRecord]
    /\ owner \in [Calls -> Services \union {NoOwner}]
    /\ entry \in [Calls -> Rows \union {NoEntry}]
    /\ head \in [Calls -> Digests]

\* No fork, gap or reordering: once the append-only triggers exist, every row
\* is sealed on the row before it, whatever threads, processes, failed
\* transactions and crashes went before (the lock and head of record(), the
\* single transaction of the backfill).  A migrated row whose request is blank
\* is linked like the others, sealed over {}; whether the verifier can see
\* that is what ServingVerifies says.
ChainIntact == triggers # {} => Chain(rows)

\* A process that answers requests answers over a complete schema, with both
\* triggers, and GET /v1/audit/verify accepts all that is stored, whatever
\* clocks, migrations and concurrent start-ups made of it, with one exception:
\* at the first migrated row whose request is blank it reports a break, for
\* the migration hashes {} there and the verifier the stored text.
ServingVerifies ==
    (\E s \in Services : service[s] = "serving") =>
        /\ columns = Columns
        /\ triggers = Kinds
        /\ VerifyChainRows(rows) = VerdictOn(rows, BlankRequests(rows))

\* The documentation has the older records migrated to a hash chain that can
\* be verified: without the exception.
MigratedVerifies ==
    (\E s \in Services : service[s] = "serving") => VerifyChainRows(rows).valid

\* The seal a caller was given stays in the database: its row is there, as
\* sealed, after every later failure and restart.
ReceiptsDurable ==
    \A c \in Calls : call[c] = "acked" => \E i \in 1 .. Len(rows) : rows[i] = entry[c]

\* A record() that raised recorded nothing, so the caller may run it again.
FailedLeavesNoRow ==
    \A c \in Calls : call[c] = "failed" => \A i \in 1 .. Len(rows) : rows[i].run_id # c

\* What a row says of a run, apart from its seal: the migration may fill in
\* blank labels and must not touch the rest.
Facts(row) ==
    [run_id |-> row.run_id, created_at |-> row.created_at,
     labels |-> IF row.labels = Blank THEN LegacyLabels ELSE row.labels,
     request_json |-> row.request_json, result_json |-> row.result_json]

\* History only grows: no step drops or reorders a row, alters what a run
\* said, or rewrites a seal; the migration may only fill in blank ones.
HistoryOnlyGrows ==
    [][\A i \in 1 .. Len(rows) :
         /\ i <= Len(rows')
         /\ Facts(rows'[i]) = Facts(rows[i])
         /\ rows[i].record_sha256 # Blank => rows'[i] = rows[i]]_vars

\* The migration is all or nothing: no one ever sees a table in which some
\* rows are sealed and others are not.
MigrationAtomic ==
    \A i, j \in 1 .. Len(rows) :
        rows[i].record_sha256 = Blank => rows[j].record_sha256 = Blank

\* No start-up hangs: it ends with a process that serves or one that is gone,
\* even when another process migrates the database under it.
StartUpEnds ==
    \A s \in Services : service[s] \in Opening ~> service[s] \in {"serving", "down"}

\* The abstract log holds the facts of the rows; a call is open in it from
\* its submission to its answer.
Audit == INSTANCE AuditLog WITH
    log <- [i \in 1 .. Len(rows) |-> Facts(rows[i])],
    outcome <- [c \in Calls |-> IF call[c] \in InRecord THEN "open" ELSE call[c]]

\* Every step of threads, locks, transactions and migrations is a step of the
\* append-only log, or invisible in it.
ImplementsAuditLog == Audit!Spec

\* Every call that starts is answered with a seal or an error, or dies with
\* its process: no thread waits for the lock for ever.
EveryCallAnswered == Audit!EventuallyAnswered
=============================================================================
