-------------------------------- MODULE Backup --------------------------------
(***************************************************************************)
(* Signed snapshots of the run database and their restoration              *)
(* (storage/backup.py), beside an API that appends to that database.       *)
(*                                                                         *)
(* What a database holds is the sequence of records in it; bytes that are  *)
(* no database any more are Damaged.  SQLite's part: a write-ahead log     *)
(* belongs to the main file it was started on and makes garbage of any     *)
(* other, and a main file that is missing is created empty, its log thrown *)
(* away.  Renames are atomic, and each can raise OSError or be the last    *)
(* thing the process does.                                                 *)
(***************************************************************************)
EXTENDS Naturals, Sequences

CONSTANTS
    Backups,        \* names of backup files
    MaxRecords,     \* bound on the records that are ever appended
    Missing,        \* there is no such file
    Damaged         \* the file was altered outside the program

Records == 1 .. MaxRecords

Contents == Seq(Records)

\* A write-ahead log continues the main file that it was started on.
Logs == [base : Contents, frames : Contents]

ASSUME BackupAssumption ==
    /\ MaxRecords \in Nat
    /\ Missing # Damaged
    /\ Missing \notin Contents /\ Damaged \notin Contents /\ Missing \notin Logs

VARIABLES
    disk,       \* the target: main file, write-ahead log and its index
    api,        \* "up" or "down"
    next,       \* the record that the API appends next
    vault,      \* backup directory: a snapshot and a manifest per name
    making,     \* how far create_backup is
    made,       \* the name it writes
    snapshot,   \* its temporary copy, inspected
    floor,      \* what the database held when it started; Missing if a
                \* restore ran meanwhile
    restoring,  \* how far restore_backup is
    chosen,     \* the backup it restores
    signed,     \* the manifest that verification authenticated
    copy,       \* its temporary copy of the backup
    staged,     \* the files it moved aside, under their original names
    before      \* the target when it started

service == <<disk, api, next>>
create == <<making, made, snapshot, floor>>
restore == <<restoring, chosen, signed, copy, staged, before>>
vars == <<service, vault, create, restore>>

Files == {"db", "wal", "shm"}

NoFiles == [f \in Files |-> Missing]

Index == "index"

\* The rows a connection sees: main file and log together.
Content(d) ==
    IF d["db"] \in {Missing, Damaged} \/ d["wal"] = Missing THEN d["db"]
    ELSE IF d["wal"].base = d["db"] THEN d["db"] \o d["wal"].frames
    ELSE Damaged

IsDatabase(content) == content \notin {Missing, Damaged}

Init ==
    /\ disk = NoFiles
    /\ api = "down"
    /\ next = 1
    /\ vault = [b \in Backups |-> [db |-> Missing, manifest |-> Missing]]
    /\ making = "idle" /\ made = Missing /\ snapshot = Missing /\ floor = Missing
    /\ restoring = "idle" /\ chosen = Missing /\ signed = Missing /\ copy = Missing
    /\ staged = NoFiles /\ before = NoFiles

\* Between its call and its return or exception; the last two are the except clause.
Creating ==
    making \in {"copying", "copied", "published", "written", "unlinking", "unlinked"}

\* Until it returns, and then for good, the copy has been taken and accepted.
Inspected == {"copied", "published", "written", "done"}

Restoring == restoring \in {"verified", "copied", "staging", "published", "rollback"}

-----------------------------------------------------------------------------
\* The API over SQLite in WAL mode; once it is started, an earlier restore
\* is history (what a kill left under staged names is not looked at again).
\* The operator does not start it while a restore runs, nor restores while
\* it is up, as the documentation asks.

StartApi ==
    /\ api = "down"
    /\ ~ Restoring
    /\ Content(disk) # Damaged
    /\ LET main == IF disk["db"] = Missing THEN <<>> ELSE disk["db"]
           log == IF disk["db"] = Missing \/ disk["wal"] = Missing
                  THEN [base |-> main, frames |-> <<>>] ELSE disk["wal"]
       IN  disk' = [f \in Files |->
             CASE f = "db" -> main [] f = "wal" -> log [] f = "shm" -> Index]
    /\ api' = "up"
    /\ restoring' = "idle" /\ chosen' = Missing /\ signed' = Missing /\ copy' = Missing
    /\ staged' = NoFiles /\ before' = NoFiles
    /\ UNCHANGED <<next, vault, create>>

AppendRecord ==
    /\ api = "up"
    /\ next <= MaxRecords
    /\ disk' = [disk EXCEPT !["wal"].frames = Append(@, next)]
    /\ next' = next + 1
    /\ UNCHANGED <<api, vault, create, restore>>

Checkpoint ==
    /\ api = "up"
    /\ disk["wal"].frames # <<>>
    /\ disk' = [disk EXCEPT !["db"] = Content(disk),
                            !["wal"] = [base |-> Content(disk), frames |-> <<>>]]
    /\ UNCHANGED <<api, next, vault, create, restore>>

\* The last connection closes and folds the log into the main file.
StopApi ==
    /\ api = "up"
    /\ disk' = [NoFiles EXCEPT !["db"] = Content(disk)]
    /\ api' = "down"
    /\ UNCHANGED <<next, vault, create, restore>>

\* The process is killed: log and index stay behind.
KillApi ==
    /\ api = "up"
    /\ api' = "down"
    /\ UNCHANGED <<disk, next, vault, create, restore>>

\* A stored backup or manifest is altered in transfer or on the medium.
Damage(b) ==
    /\ \E part \in {"db", "manifest"} :
         /\ vault[b][part] # Missing
         /\ vault' = [vault EXCEPT ![b][part] = Damaged]
    /\ UNCHANGED <<service, create, restore>>

-----------------------------------------------------------------------------
\* create_backup

\* The name is new (time and uuid4), and the source has to be a file.
BeginBackup(b) ==
    /\ ~ Creating
    /\ vault[b] = [db |-> Missing, manifest |-> Missing]
    /\ disk["db"] # Missing
    /\ making' = "copying"
    /\ made' = b
    /\ snapshot' = Missing
    /\ floor' = IF Restoring THEN Missing ELSE Content(disk)
    /\ UNCHANGED <<service, vault, restore>>

\* A slip: the main file is copied, without its log.
TakeSnapshotOfMainFile ==
    /\ making = "copying"
    /\ IsDatabase(Content(disk))
    /\ snapshot' = disk["db"]
    /\ making' = "copied"
    /\ UNCHANGED <<service, vault, made, floor, restore>>

\* A slip: the copy is published without being inspected.
TakeSnapshotUninspected ==
    /\ making = "copying"
    /\ snapshot' = Content(disk)
    /\ making' = "copied"
    /\ UNCHANGED <<service, vault, made, floor, restore>>

\* SQLite's online backup reads one committed state; inspect_snapshot then
\* has to accept the copy, which no one else can see yet.
TakeSnapshot ==
    /\ making = "copying"
    /\ IsDatabase(Content(disk))
    /\ snapshot' = Content(disk)
    /\ making' = "copied"
    /\ UNCHANGED <<service, vault, made, floor, restore>>

PublishSnapshot ==
    /\ making = "copied"
    /\ vault' = [vault EXCEPT ![made].db = snapshot]
    /\ making' = "published"
    /\ UNCHANGED <<service, made, snapshot, floor, restore>>

\* The manifest signs the bytes of the published file, read again, and the
\* record count and chain head of the copy that was inspected.
WriteManifest ==
    /\ making = "published"
    /\ vault[made].db # Missing
    /\ vault' = [vault EXCEPT
         ![made].manifest = [sha256 |-> vault[made].db, anchor |-> snapshot]]
    /\ making' = "written"
    /\ UNCHANGED <<service, made, snapshot, floor, restore>>

\* The directory is synced once more, and the pair is reported.
FinishBackup ==
    /\ making = "written"
    /\ making' = "done"
    /\ UNCHANGED <<service, vault, made, snapshot, floor, restore>>

\* The copy fails inspection: a BackupError, past the except clause.
RejectSnapshot ==
    /\ making = "copying"
    /\ making' = "failed" /\ floor' = Missing
    /\ UNCHANGED <<service, vault, made, snapshot, restore>>

\* sqlite3.Error or OSError: the except clause takes over.  The last place
\* is the sync of the directory in which the manifest is already named.
BackupFails ==
    /\ making \in {"copying", "copied", "published", "written"}
    /\ making' = "unlinking"
    /\ UNCHANGED <<service, vault, made, snapshot, floor, restore>>

UnlinkSnapshot ==
    /\ making = "unlinking"
    /\ vault' = [vault EXCEPT ![made].db = Missing]
    /\ making' = "unlinked"
    /\ UNCHANGED <<service, made, snapshot, floor, restore>>

\* A slip: the manifest is taken for gone with its snapshot.
UnlinkManifestForgotten ==
    /\ making = "unlinked"
    /\ making' = "failed"
    /\ UNCHANGED <<service, vault, made, snapshot, floor, restore>>

\* Nothing is left, and the BackupError is raised.
UnlinkManifest ==
    /\ making = "unlinked"
    /\ vault' = [vault EXCEPT ![made].manifest = Missing]
    /\ making' = "failed" /\ snapshot' = Missing /\ floor' = Missing
    /\ UNCHANGED <<service, made, restore>>

\* One of the three unlinks raises: the two of the except clause, or, with
\* everything else done, that of the temporary file in the finally clause.
UnlinkRaises ==
    /\ making \in {"written", "unlinking", "unlinked"}
    /\ making' = "raised"
    /\ UNCHANGED <<service, vault, made, snapshot, floor, restore>>

CrashBackup ==
    /\ Creating
    /\ making' = "crashed"
    /\ UNCHANGED <<service, vault, made, snapshot, floor, restore>>

-----------------------------------------------------------------------------
\* verify_backup and restore_backup

\* The eight checks: an authentic manifest that names these bytes, and bytes
\* that are an intact database with the signed count and head.
Verified(b) ==
    /\ vault[b].manifest \notin {Missing, Damaged}
    /\ vault[b].db = vault[b].manifest.sha256
    /\ IsDatabase(vault[b].db)
    /\ vault[b].db = vault[b].manifest.anchor

TargetExists == \E f \in Files : disk[f] # Missing

BeginRestore(b, replace_existing) ==
    /\ ~ Restoring
    /\ api = "down"
    /\ Verified(b)
    /\ replace_existing \/ ~ TargetExists
    /\ restoring' = "verified"
    /\ chosen' = b
    /\ signed' = vault[b].manifest
    /\ copy' = Missing
    /\ staged' = NoFiles
    /\ before' = disk
    /\ floor' = Missing
    /\ UNCHANGED <<service, vault, making, made, snapshot>>

CopyBackup ==
    /\ restoring = "verified"
    /\ vault[chosen].db # Missing
    /\ copy' = vault[chosen].db
    /\ restoring' = "copied"
    /\ UNCHANGED <<service, vault, create, chosen, signed, staged, before>>

\* A slip: the copy is trusted because the backup was verified before.
CheckCopyTrusting ==
    /\ restoring = "copied"
    /\ restoring' = "staging"
    /\ UNCHANGED <<service, vault, create, chosen, signed, copy, staged, before>>

\* The copy is checked again, against the manifest that was authenticated.
CheckCopy ==
    /\ restoring = "copied"
    /\ restoring' = IF copy = signed.sha256 /\ copy = signed.anchor
                    THEN "staging" ELSE "failed"
    /\ UNCHANGED <<service, vault, create, chosen, signed, copy, staged, before>>

StagingOrder == <<"db", "wal", "shm">>

\* A slip: the log and its index stay where they are.
ToStageMainOnly == IF disk["db"] # Missing THEN {"db"} ELSE {}

\* The file of the target that is moved aside next, if there is one.
ToStage ==
    {f \in Files : disk[f] # Missing /\
        \E i \in 1 .. 3 : StagingOrder[i] = f /\
            \A j \in 1 .. i - 1 : disk[StagingOrder[j]] = Missing}

\* A slip: the old file is removed instead of moved.
StageFileUnlinked ==
    /\ restoring = "staging"
    /\ \E f \in ToStage : disk' = [disk EXCEPT ![f] = Missing]
    /\ UNCHANGED <<api, next, vault, create, restore>>

StageFile ==
    /\ restoring = "staging"
    /\ \E f \in ToStage :
         /\ disk' = [disk EXCEPT ![f] = Missing]
         /\ staged' = [staged EXCEPT ![f] = disk[f]]
    /\ UNCHANGED <<api, next, vault, create, restoring, chosen, signed, copy, before>>

PublishRestore ==
    /\ restoring = "staging"
    /\ ToStage = {}
    /\ disk' = [disk EXCEPT !["db"] = copy]
    /\ copy' = Missing
    /\ restoring' = "published"
    /\ UNCHANGED <<api, next, vault, create, chosen, signed, staged, before>>

\* The directory is synced, or that fails and is reported; either way the
\* restored database is in place and the staged files are removed.
FinishRestore ==
    /\ restoring = "published"
    /\ restoring' \in {"done", "unsynced"}
    /\ staged' = NoFiles
    /\ UNCHANGED <<service, vault, create, chosen, signed, copy, before>>

\* A slip: what was moved aside is not put back.
RestoreFailsNoRollback ==
    /\ restoring \in {"verified", "copied", "staging"}
    /\ restoring' = "failed"
    /\ UNCHANGED <<service, vault, create, chosen, signed, copy, staged, before>>

\* OSError before the restored database is in place.
RestoreFails ==
    /\ restoring \in {"verified", "copied", "staging"}
    /\ restoring' = "rollback"
    /\ UNCHANGED <<service, vault, create, chosen, signed, copy, staged, before>>

\* The file that was moved aside last is put back first.
Unstage ==
    /\ restoring = "rollback"
    /\ \E i \in 1 .. 3 :
         LET f == StagingOrder[i]
         IN  /\ staged[f] # Missing
             /\ \A j \in i + 1 .. 3 : staged[StagingOrder[j]] = Missing
             /\ disk' = [disk EXCEPT ![f] = staged[f]]
             /\ staged' = [staged EXCEPT ![f] = Missing]
    /\ UNCHANGED <<api, next, vault, create, restoring, chosen, signed, copy, before>>

EndRollback ==
    /\ restoring = "rollback"
    /\ staged = NoFiles
    /\ restoring' = "failed"
    /\ copy' = Missing
    /\ UNCHANGED <<service, vault, create, chosen, signed, staged, before>>

\* The process is killed, or putting a file back raises as well: whatever is
\* staged stays under its temporary name.
CrashRestore ==
    /\ Restoring
    /\ restoring' = "crashed"
    /\ UNCHANGED <<service, vault, create, chosen, signed, copy, staged, before>>

-----------------------------------------------------------------------------

Next ==
    \/ StartApi \/ AppendRecord \/ Checkpoint \/ StopApi \/ KillApi
    \/ \E b \in Backups : Damage(b) \/ BeginBackup(b)
    \/ TakeSnapshot \/ PublishSnapshot \/ WriteManifest \/ FinishBackup
    \/ RejectSnapshot \/ BackupFails \/ UnlinkSnapshot \/ UnlinkManifest \/ UnlinkRaises
    \/ CrashBackup
    \/ \E b \in Backups, replace_existing \in BOOLEAN : BeginRestore(b, replace_existing)
    \/ CopyBackup \/ CheckCopy \/ StageFile \/ PublishRestore \/ FinishRestore
    \/ RestoreFails \/ Unstage \/ EndRollback \/ CrashRestore

Spec == Init /\ [][Next]_vars

-----------------------------------------------------------------------------
Blobs == Contents \union {Missing, Damaged}

IsTarget(d) ==
    /\ d["db"] \in Blobs
    /\ d["wal"] \in Logs \union {Missing}
    /\ d["shm"] \in {Index, Missing}

\* Type correctness; a snapshot that was taken is a database, and the log of
\* an API that is up belongs to its main file.
TypeOK ==
    /\ DOMAIN disk = Files /\ IsTarget(disk)
    /\ DOMAIN staged = Files /\ IsTarget(staged)
    /\ DOMAIN before = Files /\ IsTarget(before)
    /\ api \in {"up", "down"}
    /\ next \in 1 .. MaxRecords + 1
    /\ \A b \in Backups :
         /\ vault[b].db \in Blobs
         /\ vault[b].manifest \in [sha256 : Blobs, anchor : Contents] \union {Missing, Damaged}
    /\ making \in {"idle", "copying", "copied", "published", "written", "done",
                   "unlinking", "unlinked", "failed", "raised", "crashed"}
    /\ restoring \in {"idle", "verified", "copied", "staging", "published", "rollback",
                      "done", "unsynced", "failed", "crashed"}
    /\ making \in Inspected => snapshot \in Contents
    /\ api = "up" => disk["wal"] # Missing /\ disk["wal"].base = disk["db"]

IsPrefixOf(s, t) == Len(s) <= Len(t) /\ SubSeq(t, 1, Len(s)) = s

\* An online backup misses nothing: it holds every record that had been
\* committed when it began, whether or not the log had been folded in.
SnapshotComplete ==
    making \in Inspected /\ floor # Missing =>
        IsPrefixOf(floor, snapshot)

\* A backup command that reports an error and could clean up has left neither
\* file, wherever it failed, the sync after the manifest's rename included.  If
\* an unlink raised as well, or the command was killed, files may be left; they
\* pass verification only as the whole snapshot that was taken.
FailedBackupNeverMisleads ==
    /\ making = "failed" => vault[made] = [db |-> Missing, manifest |-> Missing]
    /\ making \in {"unlinking", "unlinked", "raised", "crashed"} /\ Verified(made) =>
         /\ vault[made].db = snapshot
         /\ floor # Missing => IsPrefixOf(floor, snapshot)

\* What a finished restore put in place is what the manifest vouches for:
\* that snapshot, whole, with nothing of the old database's log on top, even
\* if the backup file was altered after it had been verified.
RestoredIsSigned ==
    restoring \in {"published", "done", "unsynced"} => Content(disk) = signed.anchor

\* No log ever ends up beside a main file it does not belong to, whichever
\* of the two operations failed or was killed between two renames.
NoForeignLog == Content(disk) # Damaged

\* Until the restored database is in place, each file of the old one is still
\* there, under its own or under its staged name, and a crash leaves it there.
PreviousKept ==
    restoring \in {"verified", "copied", "staging", "rollback", "crashed"} =>
        \A f \in Files : before[f] \in {disk[f], staged[f]}

\* A restore that reports failure before publishing has changed nothing.
FailedRestoreChangesNothing ==
    [][restoring' = "failed" /\ restoring # "failed" => disk' = before]_vars

\* restore_backup is documented to be atomic: once it is over, however it
\* ended, and until the API is started, the target holds the old database or
\* the restored one.
RestoreAtomic ==
    restoring \in {"done", "unsynced", "failed", "crashed"} =>
        Content(disk) \in {Content(before), signed.anchor}
=============================================================================
