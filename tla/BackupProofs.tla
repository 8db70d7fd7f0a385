----------------------------- MODULE BackupProofs -----------------------------
(***************************************************************************)
(* What backup and restore keep to for any number of backups and records:  *)
(* no log meets a foreign main file, a finished restore is what was        *)
(* signed, the old database is never lost, and a failed operation leaves   *)
(* things as they were.                                                    *)
(***************************************************************************)
EXTENDS Backup, SequenceTheorems, TLAPS

Manifests == [sha256 : Contents \union {Missing, Damaged}, anchor : Contents]

Stored == Contents \union Logs \union {Missing, Index}

\* Three files, or some of them, with no damage done to any.
Filed(d) ==
    /\ d \in [Files -> Stored]
    /\ d["db"] \in Contents \union {Missing}
    /\ d["wal"] \in Logs \union {Missing}
    /\ d["shm"] \in {Index, Missing}

\* The log beside a main file is its own.
Database(d) ==
    /\ Filed(d)
    /\ d["db"] # Missing /\ d["wal"] # Missing => d["wal"].base = d["db"]

Typed ==
    /\ Database(disk) /\ Database(before) /\ Filed(staged)
    /\ api \in {"up", "down"} /\ next \in 1 .. MaxRecords + 1
    /\ vault \in [Backups -> [db : Contents \union {Missing, Damaged},
                              manifest : Manifests \union {Missing, Damaged}]]
    /\ making # "idle" => made \in Backups
    /\ making \in {"idle", "copying", "copied", "published", "written", "done",
                   "unlinking", "unlinked", "failed", "raised", "crashed"}
    /\ restoring \in {"idle", "verified", "copied", "staging", "published", "rollback",
                      "done", "unsynced", "failed", "crashed"}
    /\ making \in Inspected => snapshot \in Contents

\* The API is up only while no restore runs, over a main file and its log.
ApiInv ==
    /\ restoring # "idle" => api = "down"
    /\ api = "up" => disk["db"] # Missing /\ disk["wal"] # Missing

\* Each file of the old database is either in its place or moved aside.
Moved ==
    /\ restoring \in {"verified", "copied", "staging", "rollback"} =>
        \A f \in Files : \/ disk[f] = before[f] /\ staged[f] = Missing
                         \/ disk[f] = Missing /\ staged[f] = before[f]
    /\ restoring \in {"verified", "copied"} => disk = before
    /\ restoring = "published" => \A f \in Files : staged[f] = before[f]
    /\ restoring = "crashed" => \A f \in Files : before[f] \in {disk[f], staged[f]}

\* What is about to be put in place, and then is in place, is what was signed.
Signed ==
    /\ restoring \in {"verified", "copied"} => signed.sha256 = signed.anchor /\ signed.anchor \in Contents
    /\ restoring = "staging" => copy = signed.anchor /\ signed.anchor \in Contents
    /\ restoring \in {"published", "done", "unsynced"} =>
        disk["db"] = signed.anchor /\ signed.anchor \in Contents /\ disk["wal"] = Missing

\* Since the backup began the database has only grown.
Grown ==
    /\ floor # Missing => floor \in Contents
    /\ making = "copying" /\ floor # Missing =>
        ~ Restoring /\ disk["db"] # Missing /\ IsPrefixOf(floor, Content(disk))

\* What is there of the pair that is, or was last, being made: nothing before it is
\* published; a manifest that is readable is its own; the clean-up goes in order.
PairInv ==
    /\ making \in {"copying", "copied", "failed"} => vault[made].db = Missing
    /\ making \in {"copying", "copied", "published", "failed"} => vault[made].manifest = Missing
    /\ making # "idle" /\ vault[made].manifest \notin {Missing, Damaged} =>
         /\ vault[made].manifest.anchor = snapshot
         /\ floor # Missing => IsPrefixOf(floor, snapshot)
    /\ making = "unlinked" => vault[made].db = Missing

IInv == Typed /\ ApiInv /\ Moved /\ Signed /\ Grown /\ SnapshotComplete /\ PairInv

-----------------------------------------------------------------------------
LEMMA EmptyIsContent == <<>> \in Contents
  BY DEF Contents

\* What a connection sees of a database.
LEMMA ContentOf ==
    ASSUME NEW d, Database(d)
    PROVE  /\ Content(d) \in Contents \union {Missing}
           /\ Content(d) = Missing <=> d["db"] = Missing
           /\ d["wal"] = Missing => Content(d) = d["db"]
           /\ d["db"] # Missing /\ d["wal"] # Missing =>
                /\ d["db"] \in Contents /\ d["wal"].frames \in Contents
                /\ Content(d) = d["db"] \o d["wal"].frames
<1>1. CASE d["db"] = Missing
  BY <1>1, BackupAssumption DEF Content, Database, Filed
<1>2. CASE d["db"] # Missing /\ d["wal"] = Missing
  BY <1>2, BackupAssumption DEF Content, Database, Filed
<1>3. CASE d["db"] # Missing /\ d["wal"] # Missing
  <2>1. d["db"] \in Contents /\ d["wal"].frames \in Contents /\ d["wal"].base = d["db"]
    BY <1>3 DEF Database, Filed, Logs
  <2>2. d["db"] # Damaged
    BY <2>1, BackupAssumption
  <2>3. Content(d) = d["db"] \o d["wal"].frames
    BY <1>3, <2>1, <2>2 DEF Content
  <2>4. d["db"] \o d["wal"].frames \in Contents
    BY <2>1, ConcatProperties DEF Contents
  <2> QED
    BY <1>3, <2>1, <2>3, <2>4, BackupAssumption
<1> QED
  BY <1>1, <1>2, <1>3

LEMMA PrefixItself ==
    ASSUME NEW s \in Contents
    PROVE  IsPrefixOf(s, s)
<1>1. SubSeq(s, 1, Len(s)) = s /\ Len(s) \in Nat
  BY SubSeqFull, LenProperties DEF Contents
<1> QED
  BY <1>1 DEF IsPrefixOf

LEMMA PrefixOfLonger ==
    ASSUME NEW s \in Contents, NEW t \in Contents, NEW r \in Records, IsPrefixOf(s, t)
    PROVE  IsPrefixOf(s, Append(t, r))
<1>1. Len(s) \in Nat /\ Len(t) \in Nat /\ Len(Append(t, r)) = Len(t) + 1 /\ Len(s) <= Len(t)
  BY LenProperties DEF IsPrefixOf, Contents
<1>2. \A i \in 1 .. Len(t) : Append(t, r)[i] = t[i]
  BY <1>1 DEF Contents
<1>3. /\ Len(SubSeq(t, 1, Len(s))) = Len(s)
      /\ \A i \in 1 .. Len(s) : SubSeq(t, 1, Len(s))[i] = t[i]
  BY <1>1 DEF Contents
<1>4. /\ SubSeq(Append(t, r), 1, Len(s)) \in Contents
      /\ Len(SubSeq(Append(t, r), 1, Len(s))) = Len(s)
      /\ \A i \in 1 .. Len(s) : SubSeq(Append(t, r), 1, Len(s))[i] = Append(t, r)[i]
  BY <1>1 DEF Contents
<1>5. SubSeq(t, 1, Len(s)) = s
  BY DEF IsPrefixOf
<1>6. \A i \in 1 .. Len(s) : SubSeq(Append(t, r), 1, Len(s))[i] = s[i]
  BY <1>1, <1>2, <1>3, <1>4, <1>5
<1>7. SubSeq(Append(t, r), 1, Len(s)) = s
  BY <1>4, <1>6, SeqEqual DEF Contents
<1> QED
  BY <1>1, <1>7 DEF IsPrefixOf

LEMMA InitInv == Init => IInv
<1> SUFFICES ASSUME Init PROVE IInv
  OBVIOUS
<1>1. Typed
  BY BackupAssumption DEF Init, Typed, Database, Filed, NoFiles, Files, Stored, Inspected
<1>2. ApiInv /\ Moved /\ Signed /\ Grown /\ SnapshotComplete /\ PairInv
  BY DEF Init, ApiInv, Moved, Signed, Grown, SnapshotComplete, PairInv, Inspected
<1> QED
  BY <1>1, <1>2 DEF IInv

-----------------------------------------------------------------------------
(* The backup *)

LEMMA DamageInv ==
    ASSUME IInv, NEW b \in Backups, Damage(b)
    PROVE  IInv'
<1>1. UNCHANGED <<service, create, restore>>
  BY DEF Damage
<1>2. PICK part \in {"db", "manifest"} :
        vault[b][part] # Missing /\ vault' = [vault EXCEPT ![b][part] = Damaged]
  BY DEF Damage
<1>3. vault' \in [Backups -> [db : Contents \union {Missing, Damaged},
                              manifest : Manifests \union {Missing, Damaged}]]
  BY <1>2 DEF IInv, Typed
<1>4. Typed'
  BY <1>1, <1>3 DEF IInv, Typed, service, create, restore
<1>5. PairInv'
  <2> DEFINE pair == vault[made]
             paired == vault'[made]
  <2>1. ASSUME making # "idle"
        PROVE  /\ pair.db = Missing => paired.db = Missing
               /\ pair.manifest = Missing => paired.manifest = Missing
               /\ paired.manifest \in {pair.manifest, Damaged}
    BY <1>2, <2>1 DEF IInv, Typed
  <2>2. making' = making /\ made' = made /\ snapshot' = snapshot /\ floor' = floor
    BY <1>1 DEF create
  <2>3. CASE making = "idle"
    BY <2>2, <2>3 DEF PairInv
  <2>4. CASE making # "idle"
    BY <2>1, <2>2, <2>4 DEF IInv, PairInv
  <2> QED
    BY <2>3, <2>4
<1>6. ApiInv' /\ Moved' /\ Signed' /\ Grown' /\ SnapshotComplete'
  BY <1>1 DEF IInv, ApiInv, Moved, Signed, Grown, SnapshotComplete, Restoring, Content,
              service, create, restore
<1> QED
  BY <1>4, <1>5, <1>6 DEF IInv

\* The steps of a backup leave the database and its restoration alone.
LEMMA BackupStepInv ==
    ASSUME IInv, Typed', PairInv', UNCHANGED <<service, restore>>, floor' \in {floor, Missing},
           making' = "copying" => making = "copying",
           making' \in Inspected =>
                \/ making \in Inspected /\ snapshot' = snapshot
                \/ making = "copying" /\ snapshot' = Content(disk)
    PROVE  IInv'
<1>1. ApiInv' /\ Moved' /\ Signed'
  BY DEF IInv, ApiInv, Moved, Signed, service, restore
<1>2. Grown' /\ SnapshotComplete'
  BY DEF IInv, Grown, SnapshotComplete, Restoring, Content, Inspected, service, restore
<1> QED
  BY <1>1, <1>2 DEF IInv

LEMMA BeginBackupInv ==
    ASSUME IInv, NEW b \in Backups, BeginBackup(b)
    PROVE  IInv'
<1>1. /\ UNCHANGED <<service, vault, restore>> /\ making' = "copying" /\ made' = b
      /\ floor' = IF Restoring THEN Missing ELSE Content(disk)
      /\ disk["db"] # Missing
  BY DEF BeginBackup
<1>2. Typed' /\ ApiInv' /\ Moved' /\ Signed' /\ SnapshotComplete'
  BY <1>1 DEF IInv, Typed, ApiInv, Moved, Signed, SnapshotComplete, Inspected, service, restore
<1>5. PairInv'
  BY <1>1 DEF BeginBackup, PairInv
<1>3. ~ Restoring => Content(disk) \in Contents /\ IsPrefixOf(Content(disk), Content(disk))
  BY <1>1, ContentOf, PrefixItself DEF IInv, Typed
<1>4. Grown'
  BY <1>1, <1>3 DEF Grown, Restoring, Content, service, restore
<1> QED
  BY <1>2, <1>4, <1>5 DEF IInv

LEMMA CreateInv ==
    ASSUME IInv, TakeSnapshot \/ PublishSnapshot \/ WriteManifest \/ FinishBackup
    PROVE  IInv'
<1>1. CASE TakeSnapshot
  <2>1. snapshot' = Content(disk) /\ snapshot' \in Contents
    BY <1>1, ContentOf DEF TakeSnapshot, IsDatabase, IInv, Typed
  <2>2. Typed'
    BY <1>1, <2>1 DEF TakeSnapshot, IInv, Typed, Inspected, service, restore
  <2>3. PairInv'
    BY <1>1 DEF TakeSnapshot, IInv, PairInv
  <2> QED
    BY <1>1, <2>1, <2>2, <2>3, BackupStepInv DEF TakeSnapshot, Inspected
<1>2. CASE PublishSnapshot
  <2>1. made \in Backups /\ snapshot \in Contents
    BY <1>2 DEF PublishSnapshot, IInv, Typed, Inspected
  <2>2. Typed'
    BY <1>2, <2>1 DEF PublishSnapshot, IInv, Typed, Inspected, service, restore
  <2>3. vault'[made].manifest = vault[made].manifest
    BY <1>2, <2>1 DEF PublishSnapshot, IInv, Typed
  <2>4. PairInv'
    BY <1>2, <2>3 DEF PublishSnapshot, IInv, PairInv
  <2> QED
    BY <1>2, <2>2, <2>4, BackupStepInv DEF PublishSnapshot, Inspected
<1>3. CASE WriteManifest
  <2>1. made \in Backups /\ snapshot \in Contents
    BY <1>3 DEF WriteManifest, IInv, Typed, Inspected
  <2>2. [sha256 |-> vault[made].db, anchor |-> snapshot] \in Manifests
    BY <2>1 DEF Manifests, IInv, Typed
  <2>3. Typed'
    BY <1>3, <2>1, <2>2 DEF WriteManifest, IInv, Typed, Inspected, service, restore
  <2>4. vault'[made].manifest = [sha256 |-> vault[made].db, anchor |-> snapshot]
    BY <1>3, <2>1 DEF WriteManifest, IInv, Typed
  <2>5. floor # Missing => IsPrefixOf(floor, snapshot)
    BY <1>3 DEF WriteManifest, IInv, SnapshotComplete, Inspected
  <2>6. PairInv'
    BY <1>3, <2>4, <2>5 DEF WriteManifest, PairInv
  <2> QED
    BY <1>3, <2>3, <2>6, BackupStepInv DEF WriteManifest, Inspected
<1>4. CASE FinishBackup
  <2>1. Typed' /\ PairInv'
    BY <1>4 DEF FinishBackup, IInv, Typed, PairInv, Inspected, service, restore
  <2> QED
    BY <1>4, <2>1, BackupStepInv DEF FinishBackup, Inspected
<1> QED
  BY <1>1, <1>2, <1>3, <1>4

\* A backup that ends otherwise: the exceptions, the clean-up, the kill.
LEMMA FailInv ==
    ASSUME IInv,
           \/ RejectSnapshot \/ BackupFails \/ UnlinkSnapshot \/ UnlinkManifest
           \/ UnlinkRaises \/ CrashBackup
    PROVE  IInv'
<1>1. CASE RejectSnapshot
  <2>1. Typed' /\ PairInv'
    BY <1>1 DEF RejectSnapshot, IInv, Typed, PairInv, Inspected, service, restore
  <2> QED
    BY <1>1, <2>1, BackupStepInv DEF RejectSnapshot, Inspected
<1>2. CASE BackupFails \/ UnlinkRaises \/ CrashBackup
  <2>1. Typed' /\ PairInv'
    BY <1>2 DEF BackupFails, UnlinkRaises, CrashBackup, Creating, IInv, Typed, PairInv,
                Inspected, service, restore
  <2> QED
    BY <1>2, <2>1, BackupStepInv DEF BackupFails, UnlinkRaises, CrashBackup, Inspected
<1>3. CASE UnlinkSnapshot
  <2>1. made \in Backups
    BY <1>3 DEF UnlinkSnapshot, IInv, Typed
  <2>2. Typed'
    BY <1>3, <2>1 DEF UnlinkSnapshot, IInv, Typed, Inspected, service, restore
  <2>3. vault'[made].manifest = vault[made].manifest /\ vault'[made].db = Missing
    BY <1>3, <2>1 DEF UnlinkSnapshot, IInv, Typed
  <2>4. PairInv'
    BY <1>3, <2>3 DEF UnlinkSnapshot, IInv, PairInv
  <2> QED
    BY <1>3, <2>2, <2>4, BackupStepInv DEF UnlinkSnapshot, Inspected
<1>4. CASE UnlinkManifest
  <2>1. made \in Backups /\ vault[made].db = Missing
    BY <1>4 DEF UnlinkManifest, IInv, Typed, PairInv
  <2>2. Typed'
    BY <1>4, <2>1 DEF UnlinkManifest, IInv, Typed, Inspected, service, restore
  <2>3. vault'[made].manifest = Missing /\ vault'[made].db = Missing
    BY <1>4, <2>1 DEF UnlinkManifest, IInv, Typed
  <2>4. PairInv'
    BY <1>4, <2>3 DEF UnlinkManifest, PairInv
  <2> QED
    BY <1>4, <2>2, <2>4, BackupStepInv DEF UnlinkManifest, Inspected
<1> QED
  BY <1>1, <1>2, <1>3, <1>4

-----------------------------------------------------------------------------
(* The API *)

\* An API step that keeps the database a database and loses none of its records.
LEMMA ApiStepInv ==
    ASSUME IInv, ~ Restoring, api' \in {"up", "down"}, next' \in 1 .. MaxRecords + 1,
           UNCHANGED <<vault, create>>, Database(before'), Filed(staged'),
           Database(disk'), api' = "up" => disk'["db"] # Missing /\ disk'["wal"] # Missing,
           restoring' = "idle",
           making = "copying" /\ floor # Missing =>
                disk'["db"] # Missing /\ IsPrefixOf(floor, Content(disk'))
    PROVE  IInv'
<1>1. Typed'
  BY DEF IInv, Typed, Inspected, create
<1>2. ApiInv' /\ Moved' /\ Signed'
  BY DEF ApiInv, Moved, Signed
<1>3. Grown' /\ SnapshotComplete' /\ PairInv'
  BY DEF IInv, Grown, SnapshotComplete, PairInv, Inspected, Restoring, Content, create
<1> QED
  BY <1>1, <1>2, <1>3 DEF IInv

LEMMA NoFilesFiled == Filed(NoFiles) /\ \A f \in Files : NoFiles[f] = Missing
  BY DEF Filed, NoFiles, Files, Stored

LEMMA StartApiInv == ASSUME IInv, StartApi PROVE IInv'
<1> DEFINE main == IF disk["db"] = Missing THEN <<>> ELSE disk["db"]
           log == IF disk["db"] = Missing \/ disk["wal"] = Missing
                  THEN [base |-> main, frames |-> <<>>] ELSE disk["wal"]
<1>1. disk' = [f \in Files |-> CASE f = "db" -> main [] f = "wal" -> log [] f = "shm" -> Index]
  BY DEF StartApi
<1>2. disk'["db"] = main /\ disk'["wal"] = log /\ disk'["shm"] = Index
  BY <1>1 DEF Files
<1>3. main \in Contents /\ log \in Logs /\ log.base = main
  BY EmptyIsContent DEF IInv, Typed, Database, Filed, Logs
<1>4. \A f \in Files : disk'[f] \in Stored
  BY <1>2, <1>3 DEF Files, Stored
<1>5. Database(disk')
  BY <1>1, <1>2, <1>3, <1>4 DEF Database, Filed
<1>6. main # Missing /\ log # Missing
  BY <1>3, BackupAssumption
<1>7. ASSUME making = "copying", floor # Missing
      PROVE  disk'["db"] # Missing /\ IsPrefixOf(floor, Content(disk'))
  <2>1. disk["db"] # Missing /\ IsPrefixOf(floor, Content(disk))
    BY <1>7 DEF IInv, Grown
  <2>2. CASE disk["wal"] = Missing
    <3>1. Content(disk) = main /\ log.frames = <<>>
      BY <2>1, <2>2, ContentOf DEF IInv, Typed
    <3>2. Content(disk') = main \o <<>>
      BY <1>2, <1>5, <1>6, <3>1, ContentOf
    <3> QED
      BY <1>2, <1>3, <1>6, <2>1, <3>1, <3>2, ConcatEmptySeq DEF Contents
  <2>3. CASE disk["wal"] # Missing
    BY <1>2, <1>5, <2>1, <2>3, ContentOf DEF IInv, Typed
  <2> QED
    BY <2>2, <2>3
<1>8. ~ Restoring /\ api' = "up" /\ restoring' = "idle" /\ next' = next
      /\ UNCHANGED <<vault, create>> /\ staged' = NoFiles /\ before' = NoFiles
  BY DEF StartApi
<1>9. Filed(staged') /\ Database(before')
  BY <1>8, NoFilesFiled DEF Database, Files
<1> QED
  BY <1>2, <1>5, <1>6, <1>7, <1>8, <1>9, ApiStepInv DEF IInv, Typed

LEMMA ApiUp ==
    ASSUME IInv, api = "up"
    PROVE  /\ ~ Restoring /\ restoring = "idle"
           /\ disk["db"] \in Contents /\ disk["wal"] \in Logs /\ disk["wal"].base = disk["db"]
           /\ disk["wal"].frames \in Contents /\ disk["shm"] \in Stored
           /\ Content(disk) \in Contents /\ Content(disk) = disk["db"] \o disk["wal"].frames
<1>1. restoring = "idle" /\ disk["db"] # Missing /\ disk["wal"] # Missing
  BY DEF IInv, ApiInv, Typed
<1>2. disk["db"] \in Contents /\ disk["wal"] \in Logs /\ disk["wal"].base = disk["db"]
      /\ disk["shm"] \in Stored
  BY <1>1 DEF IInv, Typed, Database, Filed, Stored
<1> QED
  BY <1>1, <1>2, ContentOf DEF Restoring, IInv, Typed, Logs

\* Appending to the log is appending to what a connection sees.
LEMMA LongerContent ==
    ASSUME IInv, api = "up", next \in Records
    PROVE  disk["db"] \o Append(disk["wal"].frames, next) = Append(Content(disk), next)
<1> DEFINE s == disk["db"]
           t == disk["wal"].frames
<1>1. s \in Contents /\ t \in Contents /\ Content(disk) = s \o t
  BY ApiUp
<1>2. s \o Append(t, next) = Append(s \o t, next)
  <2> HIDE DEF s, t
  <2>1. s \in Seq(Records) /\ t \in Seq(Records) /\ <<next>> \in Seq(Records)
    BY <1>1 DEF Contents
  <2>2. Append(t, next) = t \o <<next>> /\ Append(s \o t, next) = (s \o t) \o <<next>>
    BY <2>1, ConcatProperties, AppendIsConcat
  <2> QED
    BY <2>1, <2>2, ConcatAssociative
<1> QED
  BY <1>1, <1>2

LEMMA LongerLog ==
    ASSUME NEW log \in Logs, NEW frames \in Contents
    PROVE  /\ [log EXCEPT !.frames = frames] \in Logs
           /\ [log EXCEPT !.frames = frames].base = log.base
           /\ [log EXCEPT !.frames = frames].frames = frames
  BY DEF Logs

LEMMA AppendInv == ASSUME IInv, AppendRecord PROVE IInv'
<1> DEFINE longer == [disk["wal"] EXCEPT !.frames = Append(@, next)]
<1>1. /\ api = "up" /\ next \in Records /\ next' = next + 1 /\ next' \in 1 .. MaxRecords + 1
      /\ disk' = [disk EXCEPT !["wal"] = longer]
      /\ UNCHANGED <<api, vault, create, restore>>
  BY BackupAssumption DEF AppendRecord, IInv, Typed, Records
<1>2. longer.base = disk["db"] /\ longer.frames = Append(disk["wal"].frames, next)
      /\ longer.frames \in Contents /\ longer \in Logs
  <2>1. disk["wal"] \in Logs /\ disk["wal"].frames \in Contents /\ disk["wal"].base = disk["db"]
    BY <1>1, ApiUp
  <2>2. Append(disk["wal"].frames, next) \in Contents
    BY <1>1, <2>1, AppendProperties DEF Contents
  <2> QED
    BY <2>1, <2>2, LongerLog
<1>3. disk'["db"] = disk["db"] /\ disk'["wal"] = longer /\ disk'["shm"] = disk["shm"]
      /\ longer # Missing /\ disk["db"] # Missing
  BY <1>1, <1>2, ApiUp, BackupAssumption DEF IInv, Typed, Database, Filed, Files
<1>4. Database(disk')
  BY <1>1, <1>2, <1>3 DEF IInv, Typed, Database, Filed, Stored
<1>5. ASSUME making = "copying", floor # Missing
      PROVE  disk'["db"] # Missing /\ IsPrefixOf(floor, Content(disk'))
  <2>1. floor \in Contents /\ IsPrefixOf(floor, Content(disk))
    BY <1>5 DEF IInv, Grown
  <2>2. Content(disk') = disk["db"] \o Append(disk["wal"].frames, next)
    BY <1>2, <1>3, <1>4, ContentOf
  <2>3. disk["db"] \o Append(disk["wal"].frames, next) = Append(Content(disk), next)
    BY <1>1, LongerContent
  <2>4. IsPrefixOf(floor, Append(Content(disk), next))
    BY <1>1, <2>1, ApiUp, PrefixOfLonger
  <2> QED
    BY <1>3, <2>2, <2>3, <2>4
<1> QED
  BY <1>1, <1>3, <1>4, <1>5, ApiUp, ApiStepInv DEF IInv, Typed, restore

LEMMA CheckpointInv == ASSUME IInv, Checkpoint PROVE IInv'
<1> DEFINE main == Content(disk)
           log == [base |-> main, frames |-> <<>>]
<1>1. /\ api = "up" /\ disk' = [disk EXCEPT !["db"] = main, !["wal"] = log]
      /\ UNCHANGED <<api, next, vault, create, restore>>
  BY DEF Checkpoint
<1>2. main \in Contents /\ log \in Logs /\ main # Missing /\ log # Missing
  BY <1>1, ApiUp, EmptyIsContent, BackupAssumption DEF Logs
<1>3. disk'["db"] = main /\ disk'["wal"] = log /\ disk'["shm"] = disk["shm"]
  BY <1>1 DEF IInv, Typed, Database, Filed, Files
<1>4. Database(disk')
  <2>1. disk["shm"] \in {Index, Missing} /\ DOMAIN disk' = Files /\ disk' = [f \in Files |-> disk'[f]]
    BY <1>1 DEF IInv, Typed, Database, Filed
  <2>2. \A f \in Files : disk'[f] \in Stored
    BY <1>2, <1>3, <2>1 DEF Files, Stored
  <2>3. log.base = main
    OBVIOUS
  <2>4. disk' \in [Files -> Stored]
    BY <2>1, <2>2
  <2> HIDE DEF log, main
  <2> QED
    BY <1>2, <1>3, <2>1, <2>3, <2>4 DEF Database, Filed
<1>5. Content(disk') = main
  <2>1. Content(disk') = disk'["db"] \o disk'["wal"].frames
    BY <1>2, <1>3, <1>4, ContentOf
  <2>2. Content(disk') = main \o <<>>
    BY <1>3, <2>1
  <2> QED
    BY <1>2, <2>2, ConcatEmptySeq DEF Contents
<1>6. making = "copying" /\ floor # Missing => IsPrefixOf(floor, Content(disk'))
  BY <1>5 DEF IInv, Grown
<1> QED
  BY <1>1, <1>2, <1>3, <1>4, <1>6, ApiUp, ApiStepInv DEF IInv, Typed, restore

LEMMA StopApiInv == ASSUME IInv, StopApi \/ KillApi PROVE IInv'
<1>1. api = "up" /\ api' = "down" /\ UNCHANGED <<next, vault, create, restore>>
  BY DEF StopApi, KillApi
<1>2. CASE StopApi
  <2>1. disk' = [f \in Files |-> IF f = "db" THEN Content(disk) ELSE Missing]
    BY <1>2 DEF StopApi, NoFiles
  <2>2. disk'["db"] = Content(disk) /\ disk'["wal"] = Missing /\ disk'["shm"] = Missing
    BY <2>1 DEF Files
  <2>3. Content(disk) \in Contents /\ Content(disk) # Missing
    BY <1>1, ApiUp, BackupAssumption
  <2>4. Database(disk')
    BY <2>1, <2>2, <2>3 DEF Database, Filed, Stored
  <2>5. Content(disk') = Content(disk)
    BY <2>2, <2>4, ContentOf
  <2>6. making = "copying" /\ floor # Missing => IsPrefixOf(floor, Content(disk'))
    BY <2>5 DEF IInv, Grown
  <2> QED
    BY <1>1, <2>2, <2>3, <2>4, <2>6, ApiUp, ApiStepInv DEF IInv, Typed, restore
<1>3. CASE KillApi
  <2>1. disk' = disk
    BY <1>3 DEF KillApi
  <2>2. making = "copying" /\ floor # Missing => disk["db"] # Missing /\ IsPrefixOf(floor, Content(disk))
    BY DEF IInv, Grown
  <2> QED
    BY <1>1, <2>1, <2>2, ApiUp, ApiStepInv DEF IInv, Typed, restore
<1> QED
  BY <1>2, <1>3

-----------------------------------------------------------------------------
(* The restoration *)

\* While a restore runs the API is down, and no backup counts on the old database.
LEMMA WhileRestoring ==
    ASSUME IInv, Restoring
    PROVE  api = "down" /\ ~ (making = "copying" /\ floor # Missing)
  BY DEF IInv, ApiInv, Grown, Restoring

\* A step of a restore keeps what does not concern it.
LEMMA RestoreStepInv ==
    ASSUME IInv, Restoring, UNCHANGED <<api, next, vault, create>>,
           Database(disk'), Database(before'), Filed(staged'), Moved', Signed',
           restoring' \in {"idle", "verified", "copied", "staging", "published", "rollback",
                           "done", "unsynced", "failed", "crashed"}
    PROVE  IInv'
<1>1. Typed'
  BY DEF IInv, Typed, Inspected, create
<1>2. ApiInv' /\ Grown' /\ SnapshotComplete' /\ PairInv'
  BY WhileRestoring DEF IInv, ApiInv, Grown, SnapshotComplete, PairInv, Inspected, create
<1> QED
  BY <1>1, <1>2 DEF IInv

LEMMA BeginRestoreInv ==
    ASSUME IInv, NEW b \in Backups, NEW replace_existing \in BOOLEAN,
           BeginRestore(b, replace_existing)
    PROVE  IInv'
<1>1. /\ UNCHANGED <<service, vault, making, made, snapshot>> /\ api = "down"
      /\ restoring' = "verified" /\ signed' = vault[b].manifest
      /\ staged' = NoFiles /\ before' = disk /\ floor' = Missing
  BY DEF BeginRestore
<1>2. vault[b].manifest \in Manifests /\ vault[b].manifest.sha256 = vault[b].manifest.anchor
  BY DEF BeginRestore, Verified, IInv, Typed
<1>3. Typed'
  BY <1>1, NoFilesFiled DEF IInv, Typed, Inspected, service
<1>4. Moved'
  BY <1>1, NoFilesFiled DEF Moved, service
<1>5. Signed'
  BY <1>1, <1>2 DEF Signed, Manifests
<1>6. ApiInv' /\ Grown' /\ SnapshotComplete' /\ PairInv'
  BY <1>1 DEF IInv, ApiInv, Grown, SnapshotComplete, PairInv, service
<1> QED
  BY <1>3, <1>4, <1>5, <1>6 DEF IInv

\* The steps of a restore that leave the files in place.
LEMMA RestoreInPlaceInv ==
    ASSUME IInv, CopyBackup \/ CheckCopy \/ RestoreFails \/ EndRollback \/ CrashRestore
    PROVE  IInv'
<1>1. Restoring /\ UNCHANGED <<disk, api, next, vault, create, signed, staged, before>>
  BY DEF CopyBackup, CheckCopy, RestoreFails, EndRollback, CrashRestore, Restoring, service
<1>2. Database(disk') /\ Database(before') /\ Filed(staged')
  BY <1>1 DEF IInv, Typed
<1>3. /\ restoring' \in {"copied", "staging", "failed", "rollback", "crashed"}
      /\ restoring' = "copied" => restoring = "verified"
      /\ restoring' = "staging" => restoring = "copied" /\ copy' = copy /\ copy = signed.anchor
      /\ restoring' = "rollback" => restoring \in {"verified", "copied", "staging"}
      /\ restoring' = "crashed" =>
            restoring \in {"verified", "copied", "staging", "published", "rollback"}
  BY DEF CopyBackup, CheckCopy, RestoreFails, EndRollback, CrashRestore, Restoring
<1>4. Moved'
  BY <1>1, <1>3 DEF IInv, Moved, Files
<1>5. Signed'
  BY <1>1, <1>3 DEF IInv, Signed
<1> QED
  BY <1>1, <1>2, <1>3, <1>4, <1>5, RestoreStepInv

\* A file that is moved aside, or back, is one of the three, and leaves a database: the
\* main file goes first and comes back last.
LEMMA StageInv == ASSUME IInv, StageFile PROVE IInv'
<1>1. PICK f \in ToStage : disk' = [disk EXCEPT ![f] = Missing]
                            /\ staged' = [staged EXCEPT ![f] = disk[f]]
  BY DEF StageFile
<1>2. /\ restoring = "staging" /\ restoring' = "staging" /\ Restoring
      /\ UNCHANGED <<api, next, vault, create, signed, copy, before>>
  BY DEF StageFile, Restoring
<1>3. f \in Files /\ disk[f] # Missing /\ (f = "db" \/ disk["db"] = Missing)
  BY DEF ToStage, StagingOrder, Files
<1>4. Filed(disk') /\ disk'["db"] = Missing
  BY <1>1, <1>3 DEF IInv, Typed, Database, Filed, Files, Stored
<1>5. Filed(staged')
  BY <1>1, <1>3 DEF IInv, Typed, Database, Filed, Files, Stored
<1>6. Moved'
  BY <1>1, <1>2, <1>3 DEF IInv, Typed, Database, Filed, Moved
<1>7. Signed'
  BY <1>2 DEF IInv, Signed
<1> QED
  BY <1>2, <1>4, <1>5, <1>6, <1>7, RestoreStepInv DEF Database, IInv, Typed

LEMMA PublishRestoreInv == ASSUME IInv, PublishRestore PROVE IInv'
<1>1. /\ restoring = "staging" /\ restoring' = "published" /\ Restoring
      /\ disk' = [disk EXCEPT !["db"] = copy] /\ ToStage = {}
      /\ UNCHANGED <<api, next, vault, create, signed, staged, before>>
  BY DEF PublishRestore, Restoring
<1>2. \A f \in Files : disk[f] = Missing
  BY <1>1 DEF ToStage, StagingOrder, Files
<1>3. copy = signed.anchor /\ copy \in Contents
  BY <1>1 DEF IInv, Signed
<1>4. disk'["db"] = copy /\ disk'["wal"] = Missing
  BY <1>1, <1>2 DEF IInv, Typed, Database, Filed, Files
<1>5. Database(disk')
  BY <1>1, <1>3, <1>4 DEF IInv, Typed, Database, Filed, Files, Stored
<1>6. Moved'
  BY <1>1, <1>2 DEF IInv, Moved
<1>7. Signed'
  BY <1>1, <1>3, <1>4 DEF Signed
<1> QED
  BY <1>1, <1>5, <1>6, <1>7, RestoreStepInv DEF IInv, Typed

LEMMA FinishRestoreInv == ASSUME IInv, FinishRestore PROVE IInv'
<1>1. /\ restoring = "published" /\ restoring' \in {"done", "unsynced"} /\ Restoring
      /\ staged' = NoFiles
      /\ UNCHANGED <<disk, api, next, vault, create, signed, copy, before>>
  BY DEF FinishRestore, Restoring, service
<1>2. Moved' /\ Signed'
  BY <1>1 DEF IInv, Moved, Signed
<1> QED
  BY <1>1, <1>2, NoFilesFiled, RestoreStepInv DEF IInv, Typed

LEMMA UnstageInv == ASSUME IInv, Unstage PROVE IInv'
<1>0. PICK i \in 1 .. 3 :
         /\ staged[StagingOrder[i]] # Missing
         /\ disk' = [disk EXCEPT ![StagingOrder[i]] = staged[StagingOrder[i]]]
         /\ staged' = [staged EXCEPT ![StagingOrder[i]] = Missing]
  BY DEF Unstage
<1>a. StagingOrder[i] \in Files
  BY DEF StagingOrder, Files
<1>1. PICK f \in Files : staged[f] # Missing /\ disk' = [disk EXCEPT ![f] = staged[f]]
                          /\ staged' = [staged EXCEPT ![f] = Missing]
  BY <1>0, <1>a
<1>2. /\ restoring = "rollback" /\ restoring' = "rollback" /\ Restoring
      /\ UNCHANGED <<api, next, vault, create, signed, copy, before>>
  BY DEF Unstage, Restoring
<1>3. Filed(disk') /\ Filed(staged')
  BY <1>1 DEF IInv, Typed, Database, Filed, Files, Stored
<1>4. Moved'
  BY <1>1, <1>2 DEF IInv, Typed, Database, Filed, Moved
<1>5. \A g \in Files : disk'[g] \in {before[g], Missing}
  BY <1>2, <1>4 DEF Moved
<1>6. Database(disk')
  BY <1>3, <1>5 DEF IInv, Typed, Database, Files
<1>7. Signed'
  BY <1>2 DEF Signed
<1> QED
  BY <1>2, <1>3, <1>4, <1>6, <1>7, RestoreStepInv DEF IInv, Typed

-----------------------------------------------------------------------------
LEMMA StepInv == IInv /\ [Next]_vars => IInv'
<1> SUFFICES ASSUME IInv, [Next]_vars PROVE IInv'
  OBVIOUS
<1>1. CASE UNCHANGED vars
  BY <1>1 DEF IInv, Typed, ApiInv, Moved, Signed, Grown, SnapshotComplete,
              PairInv, Inspected, Restoring, Content, vars, service, create,
              restore
<1> QED
  BY <1>1, DamageInv, BeginBackupInv, CreateInv, FailInv, StartApiInv, AppendInv, CheckpointInv,
     StopApiInv, BeginRestoreInv, RestoreInPlaceInv, StageInv, PublishRestoreInv,
     FinishRestoreInv, UnstageInv DEF Next

\* Types, the database and what is moved aside, the copy and its signature, the running
\* backup: what every state keeps to (backup.py:123-309).
THEOREM Invariance == Spec => []IInv
  BY InitInv, StepInv, PTL DEF Spec

-----------------------------------------------------------------------------
LEMMA TypesImplied == ASSUME IInv PROVE TypeOK
<1>1. ASSUME NEW d, Filed(d) PROVE DOMAIN d = Files /\ IsTarget(d)
  BY <1>1 DEF Filed, IsTarget, Blobs
<1>2. /\ DOMAIN disk = Files /\ IsTarget(disk) /\ DOMAIN staged = Files /\ IsTarget(staged)
      /\ DOMAIN before = Files /\ IsTarget(before)
  BY <1>1 DEF IInv, Typed, Database
<1>3. ASSUME NEW b \in Backups
      PROVE  /\ vault[b].db \in Blobs
             /\ vault[b].manifest \in [sha256 : Blobs, anchor : Contents] \union {Missing, Damaged}
  BY DEF IInv, Typed, Blobs, Manifests
<1>4. api = "up" => disk["wal"] # Missing /\ disk["wal"].base = disk["db"]
  BY DEF IInv, ApiInv, Typed, Database
<1> QED
  BY <1>2, <1>3, <1>4 DEF TypeOK, IInv, Typed

\* Every state is typed, a snapshot that was taken is a database, and the log of an API
\* that is up belongs to its main file (repository.py:121-139, backup.py:123-309).
THEOREM TypeCorrectness == Spec => []TypeOK
  BY Invariance, TypesImplied, PTL

\* create_backup misses nothing that was committed when it began, for any number of
\* records and however often the log was folded in meanwhile (backup.py:149-163).
THEOREM SnapshotsAreComplete == Spec => []SnapshotComplete
<1>1. IInv => SnapshotComplete
  BY DEF IInv
<1> QED
  BY Invariance, <1>1, PTL

\* create_backup that raises has removed both halves of the pair, wherever it failed; if
\* its clean-up raises too, or it is killed, what it leaves verifies only as the whole
\* snapshot it took (backup.py:97-109, 147-190).
THEOREM FailedBackupIsHarmless == Spec => []FailedBackupNeverMisleads
<1>1. IInv => FailedBackupNeverMisleads
  <2> SUFFICES ASSUME IInv PROVE FailedBackupNeverMisleads
    OBVIOUS
  <2>1. ASSUME making = "failed" PROVE vault[made] = [db |-> Missing, manifest |-> Missing]
    BY <2>1 DEF IInv, Typed, PairInv
  <2>2. ASSUME making # "idle", Verified(made)
        PROVE  vault[made].db = snapshot /\ (floor # Missing => IsPrefixOf(floor, snapshot))
    BY <2>2 DEF IInv, PairInv, Verified
  <2> QED
    BY <2>1, <2>2 DEF FailedBackupNeverMisleads
<1> QED
  BY Invariance, <1>1, PTL

\* What restore_backup puts in place is what the authenticated manifest signs, whatever
\* happened to the backup file after it was verified (backup.py:249-309).
THEOREM RestoredAsSigned == Spec => []RestoredIsSigned
<1>1. IInv => RestoredIsSigned
  BY ContentOf DEF IInv, Typed, Signed, RestoredIsSigned
<1> QED
  BY Invariance, <1>1, PTL

\* restore_backup moves all three files aside and back in an order that never leaves a
\* log beside another main file (backup.py:290-309).
THEOREM LogsStayWithTheirFile == Spec => []NoForeignLog
<1>1. IInv => NoForeignLog
  BY ContentOf, BackupAssumption DEF IInv, Typed, NoForeignLog
<1> QED
  BY Invariance, <1>1, PTL

\* Until it has published, restore_backup has every file of the old database, in place
\* or moved aside, and so has a crash (backup.py:274-303).
THEOREM OldDatabaseKept == Spec => []PreviousKept
<1>1. IInv => PreviousKept
  BY DEF IInv, Typed, Database, Filed, Moved, PreviousKept, Files
<1> QED
  BY Invariance, <1>1, PTL

\* restore_backup that reports failure before it published has changed nothing, be it
\* the copy that was refused or a rollback that came to its end (backup.py:280-303).
THEOREM FailureChangesNothing == Spec => FailedRestoreChangesNothing
<1>1. ASSUME IInv, [Next]_vars, restoring' = "failed", restoring # "failed"
      PROVE  disk' = before
  <2>1. CASE EndRollback
    <3>1. \A f \in Files : disk[f] = before[f]
      BY <1>1, <2>1 DEF EndRollback, IInv, Moved, NoFiles
    <3>2. disk = before
      BY <1>1, <3>1 DEF IInv, Typed, Database, Filed
    <3> QED
      BY <2>1, <3>2 DEF EndRollback, service
  <2>2. CASE CheckCopy
    BY <1>1, <2>2 DEF CheckCopy, IInv, Moved, service
  <2>3. ~ (EndRollback \/ CheckCopy) => FALSE
    BY <1>1 DEF Next, vars, service, create, restore, StartApi, AppendRecord, Checkpoint,
       StopApi, KillApi, Damage, BeginBackup, TakeSnapshot, PublishSnapshot, WriteManifest,
       FinishBackup, RejectSnapshot, BackupFails, UnlinkSnapshot, UnlinkManifest,
       UnlinkRaises, CrashBackup, BeginRestore, CopyBackup, StageFile, PublishRestore,
       FinishRestore, RestoreFails, Unstage, CrashRestore
  <2> QED
    BY <2>1, <2>2, <2>3
<1>2. [Next]_vars /\ IInv => [restoring' = "failed" /\ restoring # "failed" => disk' = before]_vars
  BY <1>1
<1> QED
  BY Invariance, <1>2, PTL DEF Spec, FailedRestoreChangesNothing

-----------------------------------------------------------------------------
(* Records across restores *)

\* The records in s come in the order in which they were appended, each once, and n is
\* later than them all.
InOrder(s, n) ==
    /\ \A i \in 1 .. Len(s) : s[i] < n
    /\ \A i, j \in 1 .. Len(s) : i < j => s[i] < s[j]

Orderly(d, n) ==
    /\ d["db"] # Missing => InOrder(d["db"], n)
    /\ d["wal"] # Missing =>
         InOrder(d["wal"].base, n) /\ InOrder(d["wal"].base \o d["wal"].frames, n)

OrderlyPair(pair, n) ==
    /\ IsDatabase(pair.db) => InOrder(pair.db, n)
    /\ pair.manifest \notin {Missing, Damaged} => InOrder(pair.manifest.anchor, n)

\* So it is wherever records are kept: in place, aside, in the vault, in a snapshot that
\* is not published yet, and in what a restore goes by.
OrderInv ==
    /\ Orderly(disk, next) /\ Orderly(staged, next) /\ Orderly(before, next)
    /\ \A b \in Backups : OrderlyPair(vault[b], next)
    /\ making \in Inspected => InOrder(snapshot, next)
    /\ restoring \in {"verified", "copied", "staging", "published", "done", "unsynced"} =>
         InOrder(signed.anchor, next)

LEMMA InOrderLater ==
    ASSUME NEW s \in Contents, NEW n \in Nat, InOrder(s, n)
    PROVE  InOrder(s, n + 1)
  BY BackupAssumption DEF InOrder, Contents, Records

LEMMA InOrderAppended ==
    ASSUME NEW s \in Contents, NEW n \in Records, InOrder(s, n)
    PROVE  InOrder(Append(s, n), n + 1)
<1>1. /\ Len(s) \in Nat /\ Len(Append(s, n)) = Len(s) + 1
      /\ \A i \in 1 .. Len(s) : Append(s, n)[i] = s[i] /\ s[i] \in Nat
      /\ Append(s, n)[Len(s) + 1] = n
  BY BackupAssumption DEF Contents, Records
<1>2. n \in Nat
  BY BackupAssumption DEF Records
<1> QED
  BY <1>1, <1>2 DEF InOrder

LEMMA OrderlyLater ==
    ASSUME NEW d, Filed(d), NEW n \in Nat, Orderly(d, n)
    PROVE  Orderly(d, n + 1)
<1>1. d["db"] # Missing => InOrder(d["db"], n + 1)
  BY InOrderLater DEF Orderly, Filed
<1>2. ASSUME d["wal"] # Missing
      PROVE  InOrder(d["wal"].base, n + 1) /\ InOrder(d["wal"].base \o d["wal"].frames, n + 1)
  <2>1. d["wal"].base \in Contents /\ d["wal"].frames \in Contents
    BY <1>2 DEF Filed, Logs
  <2>2. d["wal"].base \o d["wal"].frames \in Contents
    BY <2>1, ConcatProperties DEF Contents
  <2> QED
    BY <1>2, <2>1, <2>2, InOrderLater DEF Orderly
<1> QED
  BY <1>1, <1>2 DEF Orderly

LEMMA EmptyInOrder == ASSUME NEW n PROVE InOrder(<<>>, n)
  BY DEF InOrder

\* What a connection sees is in order.
LEMMA ContentInOrder ==
    ASSUME NEW d, Database(d), NEW n, Orderly(d, n), d["db"] # Missing
    PROVE  InOrder(Content(d), n)
<1>1. CASE d["wal"] = Missing
  BY <1>1, ContentOf DEF Orderly
<1>2. CASE d["wal"] # Missing
  BY <1>2, ContentOf DEF Orderly, Database
<1> QED
  BY <1>1, <1>2

LEMMA OrderInit == Init => OrderInv
  BY DEF Init, OrderInv, Orderly, OrderlyPair, NoFiles, Files, IsDatabase, Inspected

\* The operations of the API.
LEMMA StartOrder == ASSUME IInv, OrderInv, StartApi PROVE OrderInv'
<1> DEFINE main == IF disk["db"] = Missing THEN <<>> ELSE disk["db"]
           log == IF disk["db"] = Missing \/ disk["wal"] = Missing
                  THEN [base |-> main, frames |-> <<>>] ELSE disk["wal"]
<1>1. disk' = [f \in Files |-> CASE f = "db" -> main [] f = "wal" -> log [] f = "shm" -> Index]
      /\ UNCHANGED <<next, vault, create>> /\ restoring' = "idle"
      /\ staged' = NoFiles /\ before' = NoFiles
  BY DEF StartApi
<1>2. disk'["db"] = main /\ disk'["wal"] = log
  BY <1>1 DEF Files
<1>3. InOrder(main, next) /\ main \in Contents
  BY EmptyInOrder, EmptyIsContent DEF OrderInv, Orderly, IInv, Typed, Database, Filed
<1>4. InOrder(log.base, next) /\ InOrder(log.base \o log.frames, next)
  <2>1. CASE disk["db"] = Missing \/ disk["wal"] = Missing
    <3>1. log.base = main /\ log.frames = <<>>
      BY <2>1
    <3>2. main \o <<>> = main
      BY <1>3, ConcatEmptySeq DEF Contents
    <3> QED
      BY <1>3, <3>1, <3>2
  <2>2. CASE ~ (disk["db"] = Missing \/ disk["wal"] = Missing)
    BY <2>2 DEF OrderInv, Orderly
  <2> QED
    BY <2>1, <2>2
<1>5. Orderly(disk', next)
  <2> HIDE DEF main, log
  <2> QED
    BY <1>2, <1>3, <1>4 DEF Orderly
<1>6. Orderly(staged', next) /\ Orderly(before', next)
  BY <1>1, NoFilesFiled DEF Orderly, Files
<1> QED
  BY <1>1, <1>5, <1>6 DEF OrderInv, create

LEMMA AppendOrder == ASSUME IInv, OrderInv, AppendRecord PROVE OrderInv'
<1> DEFINE longer == [disk["wal"] EXCEPT !.frames = Append(@, next)]
<1>1. /\ api = "up" /\ next \in Records /\ next \in Nat /\ next' = next + 1
      /\ disk' = [disk EXCEPT !["wal"] = longer]
      /\ UNCHANGED <<vault, create, restore>>
  BY BackupAssumption DEF AppendRecord, IInv, Typed, Records
<1>2. disk["wal"] \in Logs /\ disk["db"] \in Contents /\ disk["wal"].frames \in Contents
      /\ disk["wal"].base = disk["db"] /\ Content(disk) \in Contents
      /\ Content(disk) = disk["db"] \o disk["wal"].frames
  BY <1>1, ApiUp
<1>3. disk["db"] # Missing /\ disk["wal"] # Missing
  BY <1>2, BackupAssumption
<1>4. disk'["db"] = disk["db"] /\ disk'["wal"] = longer
  BY <1>1 DEF IInv, Typed, Database, Filed, Files
<1>5. longer.base = disk["db"] /\ longer.frames = Append(disk["wal"].frames, next)
  BY <1>2 DEF Logs
<1>6. disk["db"] \o Append(disk["wal"].frames, next) = Append(Content(disk), next)
  BY <1>1, LongerContent
<1>7. InOrder(disk["db"], next) /\ InOrder(Content(disk), next)
  BY <1>3, ContentInOrder DEF IInv, Typed, OrderInv, Orderly
<1>8. InOrder(disk["db"], next + 1) /\ InOrder(Append(Content(disk), next), next + 1)
  BY <1>1, <1>2, <1>7, InOrderLater, InOrderAppended
<1>9. Orderly(disk', next + 1)
  <2> HIDE DEF longer
  <2> QED
    BY <1>4, <1>5, <1>6, <1>8 DEF Orderly
<1>10. Orderly(staged, next + 1) /\ Orderly(before, next + 1)
  BY <1>1, OrderlyLater DEF OrderInv, IInv, Typed, Database
<1>11. ASSUME NEW b \in Backups PROVE OrderlyPair(vault[b], next + 1)
  BY <1>1, InOrderLater DEF OrderInv, OrderlyPair, IInv, Typed, Manifests, IsDatabase
<1>12. making \in Inspected => InOrder(snapshot, next + 1)
  BY <1>1, InOrderLater DEF OrderInv, IInv, Typed
<1>13. restoring = "idle"
  BY <1>1, ApiUp
<1> QED
  BY <1>1, <1>9, <1>10, <1>11, <1>12, <1>13 DEF OrderInv, create, restore

LEMMA FoldOrder == ASSUME IInv, OrderInv, Checkpoint \/ StopApi \/ KillApi PROVE OrderInv'
<1>1. api = "up" /\ UNCHANGED <<next, vault, create, restore>>
  BY DEF Checkpoint, StopApi, KillApi
<1>2. Content(disk) \in Contents /\ InOrder(Content(disk), next)
  <2>1. disk["db"] # Missing
    BY <1>1, ApiUp, BackupAssumption
  <2> QED
    BY <1>1, <2>1, ApiUp, ContentInOrder DEF IInv, Typed, OrderInv
<1>3. Orderly(disk', next)
  <2>1. CASE Checkpoint
    <3> DEFINE main == Content(disk)
               log == [base |-> main, frames |-> <<>>]
    <3>1. disk'["db"] = main /\ disk'["wal"] = log
      BY <2>1 DEF Checkpoint, IInv, Typed, Database, Filed, Files
    <3>2. log.base = main /\ log.frames = <<>> /\ main \o <<>> = main
      BY <1>2, ConcatEmptySeq DEF Contents
    <3>3. InOrder(main, next)
      BY <1>2
    <3> HIDE DEF main, log
    <3> QED
      BY <3>1, <3>2, <3>3 DEF Orderly
  <2>2. CASE StopApi
    BY <1>2, <2>2 DEF StopApi, NoFiles, Files, Orderly
  <2>3. CASE KillApi
    BY <2>3 DEF KillApi, OrderInv
  <2> QED
    BY <2>1, <2>2, <2>3
<1> QED
  BY <1>1, <1>3 DEF OrderInv, create, restore

\* The steps of a backup, and damage to what is stored.
LEMMA BackupOrder ==
    ASSUME IInv, OrderInv,
           \/ \E b \in Backups : Damage(b) \/ BeginBackup(b)
           \/ TakeSnapshot \/ PublishSnapshot \/ WriteManifest \/ FinishBackup
           \/ RejectSnapshot \/ BackupFails \/ UnlinkSnapshot \/ UnlinkManifest
           \/ UnlinkRaises \/ CrashBackup
    PROVE  OrderInv'
<1>1. UNCHANGED <<disk, next, restore>>
  BY DEF Damage, BeginBackup, TakeSnapshot, PublishSnapshot, WriteManifest, FinishBackup,
         RejectSnapshot, BackupFails, UnlinkSnapshot, UnlinkManifest, UnlinkRaises,
         CrashBackup, service
<1>2. making' \in Inspected => InOrder(snapshot', next)
  <2>1. CASE TakeSnapshot
    <3>1. disk["db"] # Missing /\ snapshot' = Content(disk)
      BY <2>1, ContentOf DEF TakeSnapshot, IsDatabase, IInv, Typed
    <3> QED
      BY <3>1, ContentInOrder DEF IInv, Typed, OrderInv
  <2>2. CASE \E b \in Backups : Damage(b)
    BY <2>2 DEF Damage, OrderInv, create
  <2>3. CASE \E b \in Backups : BeginBackup(b)
    BY <2>3 DEF BeginBackup, Inspected
  <2>4. CASE PublishSnapshot \/ WriteManifest \/ FinishBackup
    BY <2>4 DEF PublishSnapshot, WriteManifest, FinishBackup, OrderInv, Inspected
  <2>5. CASE \/ RejectSnapshot \/ BackupFails \/ UnlinkSnapshot \/ UnlinkManifest
             \/ UnlinkRaises \/ CrashBackup
    BY <2>5 DEF RejectSnapshot, BackupFails, UnlinkSnapshot, UnlinkManifest, UnlinkRaises,
                CrashBackup, Inspected
  <2> QED
    BY <2>1, <2>2, <2>3, <2>4, <2>5
<1>3. ASSUME NEW b \in Backups PROVE OrderlyPair(vault'[b], next)
  <2> DEFINE shape == [db : Contents \union {Missing, Damaged},
                       manifest : Manifests \union {Missing, Damaged}]
  <2>1. OrderlyPair(vault[b], next) /\ vault \in [Backups -> shape]
    BY DEF OrderInv, IInv, Typed
  <2>2. CASE \E c \in Backups : Damage(c)
    BY <2>1, <2>2 DEF Damage, OrderlyPair, IsDatabase
  <2>3. CASE vault' = vault
    BY <2>1, <2>3
  <2>4. CASE PublishSnapshot
    <3>1. made \in Backups /\ InOrder(snapshot, next) /\ vault' = [vault EXCEPT ![made].db = snapshot]
      BY <2>4 DEF PublishSnapshot, OrderInv, IInv, Typed, Inspected
    <3> QED
      BY <2>1, <3>1 DEF OrderlyPair
  <2>5. CASE WriteManifest
    <3>1. /\ made \in Backups /\ InOrder(snapshot, next)
          /\ vault' = [vault EXCEPT
                ![made].manifest = [sha256 |-> vault[made].db, anchor |-> snapshot]]
      BY <2>5 DEF WriteManifest, OrderInv, IInv, Typed, Inspected
    <3> QED
      BY <2>1, <3>1 DEF OrderlyPair
  <2>6. CASE UnlinkSnapshot
    <3>1. made \in Backups /\ vault' = [vault EXCEPT ![made].db = Missing]
      BY <2>6 DEF UnlinkSnapshot, IInv, Typed
    <3> QED
      BY <2>1, <3>1 DEF OrderlyPair, IsDatabase
  <2>7. CASE UnlinkManifest
    <3>1. made \in Backups /\ vault' = [vault EXCEPT ![made].manifest = Missing]
      BY <2>7 DEF UnlinkManifest, IInv, Typed
    <3> QED
      BY <2>1, <3>1 DEF OrderlyPair
  <2> QED
    BY <2>2, <2>3, <2>4, <2>5, <2>6, <2>7 DEF BeginBackup, TakeSnapshot, FinishBackup,
       RejectSnapshot, BackupFails, UnlinkRaises, CrashBackup
<1> QED
  BY <1>1, <1>2, <1>3 DEF OrderInv, restore

\* The steps of a restore.
LEMMA RestoreOrder ==
    ASSUME IInv, OrderInv,
           \/ \E b \in Backups, replace_existing \in BOOLEAN : BeginRestore(b, replace_existing)
           \/ CopyBackup \/ CheckCopy \/ StageFile \/ PublishRestore \/ FinishRestore
           \/ RestoreFails \/ Unstage \/ EndRollback \/ CrashRestore
    PROVE  OrderInv'
<1>1. UNCHANGED <<next, vault, making, snapshot>>
  BY DEF BeginRestore, CopyBackup, CheckCopy, StageFile, PublishRestore, FinishRestore,
         RestoreFails, Unstage, EndRollback, CrashRestore, service, create
<1>2. CASE \E b \in Backups, replace_existing \in BOOLEAN : BeginRestore(b, replace_existing)
  <2>1. PICK b \in Backups, replace_existing \in BOOLEAN : BeginRestore(b, replace_existing)
    BY <1>2
  <2>2. /\ signed' = vault[b].manifest /\ vault[b].manifest \notin {Missing, Damaged}
        /\ disk' = disk /\ before' = disk /\ staged' = NoFiles
    BY <2>1 DEF BeginRestore, Verified, service
  <2>3. InOrder(signed'.anchor, next) /\ Orderly(staged', next)
    BY <2>2, NoFilesFiled DEF OrderInv, OrderlyPair, Orderly, Files
  <2> QED
    BY <1>1, <2>2, <2>3 DEF OrderInv
<1>3. CASE CopyBackup \/ CheckCopy \/ RestoreFails \/ EndRollback \/ CrashRestore
  <2>1. /\ UNCHANGED <<disk, signed, staged, before>>
        /\ restoring \in {"verified", "copied", "staging", "published", "rollback"}
        /\ restoring = "rollback" => restoring' \in {"failed", "crashed"}
    BY <1>3 DEF CopyBackup, CheckCopy, RestoreFails, EndRollback, CrashRestore, Restoring, service
  <2> QED
    BY <1>1, <2>1 DEF OrderInv
<1>4. CASE StageFile
  <2>1. PICK f \in ToStage : disk' = [disk EXCEPT ![f] = Missing]
                              /\ staged' = [staged EXCEPT ![f] = disk[f]]
    BY <1>4 DEF StageFile
  <2>2. UNCHANGED <<signed, before, restoring>> /\ restoring = "staging" /\ f \in Files
    BY <1>4 DEF StageFile, ToStage
  <2>3. Orderly(disk', next) /\ Orderly(staged', next)
    BY <2>1, <2>2 DEF OrderInv, Orderly, IInv, Typed, Database, Filed, Files
  <2> QED
    BY <1>1, <2>2, <2>3 DEF OrderInv
<1>5. CASE PublishRestore
  <2>1. /\ disk' = [disk EXCEPT !["db"] = copy] /\ copy = signed.anchor
        /\ UNCHANGED <<signed, staged, before>> /\ restoring = "staging"
    BY <1>5 DEF PublishRestore, IInv, Signed
  <2>2. Orderly(disk', next)
    BY <2>1 DEF OrderInv, Orderly, IInv, Typed, Database, Filed, Files
  <2> QED
    BY <1>1, <2>1, <2>2 DEF OrderInv
<1>6. CASE FinishRestore
  <2>1. UNCHANGED <<disk, signed, before>> /\ restoring = "published" /\ staged' = NoFiles
    BY <1>6 DEF FinishRestore, service
  <2>2. Orderly(staged', next)
    BY <2>1, NoFilesFiled DEF Orderly, Files
  <2> QED
    BY <1>1, <2>1, <2>2 DEF OrderInv
<1>7. CASE Unstage
  <2>1. PICK i \in 1 .. 3 :
           /\ disk' = [disk EXCEPT ![StagingOrder[i]] = staged[StagingOrder[i]]]
           /\ staged' = [staged EXCEPT ![StagingOrder[i]] = Missing]
    BY <1>7 DEF Unstage
  <2>2. UNCHANGED <<signed, before, restoring>> /\ restoring = "rollback"
        /\ StagingOrder[i] \in Files
    BY <1>7 DEF Unstage, StagingOrder, Files
  <2>3. Orderly(disk', next) /\ Orderly(staged', next)
    BY <2>1, <2>2 DEF OrderInv, Orderly, IInv, Typed, Database, Filed, Files
  <2> QED
    BY <1>1, <2>2, <2>3 DEF OrderInv
<1> QED
  BY <1>2, <1>3, <1>4, <1>5, <1>6, <1>7

\* A record the API appended is in the database at most once and in the order of the
\* appends, and so it is in every backup that verifies: whatever is backed up, restored
\* and appended to a restored database, no run comes twice.
RecordsOnce ==
    /\ IsDatabase(Content(disk)) => InOrder(Content(disk), next)
    /\ \A b \in Backups : Verified(b) => InOrder(vault[b].db, next)

\* Restoring an old snapshot and appending to it never makes a database, nor a backup of
\* one, in which a run is repeated or comes before an older one (backup.py:123-309).
THEOREM NothingTwice == Spec => []RecordsOnce
<1>1. IInv /\ OrderInv /\ [Next]_vars => OrderInv'
  <2> SUFFICES ASSUME IInv, OrderInv, [Next]_vars PROVE OrderInv'
    OBVIOUS
  <2>1. CASE UNCHANGED vars
    BY <2>1 DEF OrderInv, vars, service, create, restore
  <2> QED
    BY <2>1, StartOrder, AppendOrder, FoldOrder, BackupOrder, RestoreOrder DEF Next
<1>2. IInv /\ OrderInv => RecordsOnce
  <2> SUFFICES ASSUME IInv, OrderInv PROVE RecordsOnce
    OBVIOUS
  <2>1. ASSUME IsDatabase(Content(disk)) PROVE InOrder(Content(disk), next)
    <3>1. disk["db"] # Missing
      BY <2>1, ContentOf DEF IsDatabase, IInv, Typed
    <3> QED
      BY <3>1, ContentInOrder DEF IInv, Typed, OrderInv
  <2>2. ASSUME NEW b \in Backups, Verified(b) PROVE InOrder(vault[b].db, next)
    BY <2>2 DEF Verified, OrderInv, OrderlyPair
  <2> QED
    BY <2>1, <2>2 DEF RecordsOnce
<1>3. Spec => []OrderInv
  BY Invariance, OrderInit, <1>1, PTL DEF Spec
<1> QED
  BY Invariance, <1>2, <1>3, PTL
=============================================================================
