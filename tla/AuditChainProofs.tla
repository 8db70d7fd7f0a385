--------------------------- MODULE AuditChainProofs ---------------------------
(***************************************************************************)
(* The run repository keeps its chain intact and its history unchanged,    *)
(* for any number of API processes, calls, columns and legacy rows.        *)
(***************************************************************************)
EXTENDS AuditChain, TLAPS

-----------------------------------------------------------------------------
(* Sealing a row and extending a chain *)

\* Sealing a row on a digest gives a row that the verifier accepts on top of
\* that digest, and leaves alone what the run said.
LEMMA SealedIsValid ==
    ASSUME NEW row \in Rows, row.labels \in Labels, row.request_json # Blank,
           row.result_json # Malformed, NEW digest \in Digests
    PROVE  /\ Sealed(row, digest) \in Rows
           /\ RowValid(Sealed(row, digest), digest)
           /\ Sealed(row, digest).record_sha256 \in Digests
           /\ Sealed(row, digest).run_id = row.run_id
           /\ Sealed(row, digest).created_at = row.created_at
           /\ Sealed(row, digest).labels = row.labels
           /\ Sealed(row, digest).request_json = row.request_json
           /\ Sealed(row, digest).result_json = row.result_json
<1>0. Canonical(row.result_json) \in Payloads /\ row.request_json \in Payloads
  BY DEF Rows, Documents, Canonical
<1>1. MaterialOf(row) \in Material
  BY <1>0 DEF MaterialOf, Material, Rows
<1>2. RecordHash(digest, MaterialOf(row)) \in Digests
  BY <1>1 DEF RecordHash, Digests
<1>3. /\ Sha256Text(row.request_json) \in {Sha256Text(p) : p \in Payloads}
      /\ Sha256Text(Canonical(row.result_json)) \in {Sha256Text(p) : p \in Payloads}
  BY <1>0
<1>4. MaterialOf(Sealed(row, digest)) = MaterialOf(row)
  BY DEF MaterialOf, Sealed, Rows
<1> QED
  BY <1>2, <1>3, <1>4 DEF Sealed, Rows, RowValid

\* A row that has a request is sealed on a digest exactly when the verifier
\* accepts it there.
LEMMA FilledRow ==
    ASSUME NEW row \in Rows
    PROVE  /\ row.request_json # Blank => Filled(row) = row
           /\ Filled(row) \in Rows
           /\ Filled(row).request_json # Blank
           /\ Filled(row).request_json =
                (IF row.request_json = Blank THEN EmptyObject ELSE row.request_json)
           /\ [Filled(row) EXCEPT !.request_json = row.request_json] = row
           /\ Filled(row).run_id = row.run_id
           /\ Filled(row).created_at = row.created_at
           /\ Filled(row).labels = row.labels
           /\ Filled(row).result_json = row.result_json
           /\ Filled(row).request_sha256 = row.request_sha256
           /\ Filled(row).result_sha256 = row.result_sha256
           /\ Filled(row).previous_record_sha256 = row.previous_record_sha256
           /\ Filled(row).record_sha256 = row.record_sha256
  BY ColumnAssumption DEF Filled, Rows

\* The migration seals a legacy row on the digest before it, blank request or
\* not, and fills in nothing but the labels and the seal.
LEMMA LegacySealed ==
    ASSUME NEW row \in Rows, row.result_json # Malformed, NEW digest \in Digests
    PROVE  /\ SealLegacy(row, digest) \in Rows
           /\ SealedOn(SealLegacy(row, digest), digest)
           /\ SealLegacy(row, digest).record_sha256 \in Digests
           /\ SealLegacy(row, digest).run_id = row.run_id
           /\ Facts(SealLegacy(row, digest)) = Facts(row)
<1> DEFINE labelled == Labelled(row)
           sealed == Sealed(Filled(labelled), digest)
           new == SealLegacy(row, digest)
<1>1. /\ labelled \in Rows /\ labelled.labels \in Labels
      /\ labelled.labels = (IF row.labels = Blank THEN LegacyLabels ELSE row.labels)
      /\ labelled.labels # Blank
      /\ labelled.run_id = row.run_id /\ labelled.created_at = row.created_at
      /\ labelled.request_json = row.request_json /\ labelled.result_json = row.result_json
  BY ColumnAssumption DEF Labelled, Rows
<1>2. new = [sealed EXCEPT !.request_json = row.request_json]
  BY DEF SealLegacy
<1> HIDE DEF labelled
<1>3. /\ Filled(labelled) \in Rows /\ Filled(labelled).labels \in Labels
      /\ Filled(labelled).request_json # Blank /\ Filled(labelled).result_json # Malformed
      /\ Filled(labelled).run_id = row.run_id /\ Filled(labelled).created_at = row.created_at
      /\ Filled(labelled).labels = labelled.labels
      /\ Filled(labelled).result_json = row.result_json
      /\ Filled(labelled).request_json =
           (IF row.request_json = Blank THEN EmptyObject ELSE row.request_json)
  BY <1>1, FilledRow
<1>4. /\ sealed \in Rows /\ RowValid(sealed, digest) /\ sealed.record_sha256 \in Digests
      /\ sealed.run_id = row.run_id /\ sealed.created_at = row.created_at
      /\ sealed.labels = labelled.labels /\ sealed.result_json = row.result_json
      /\ sealed.request_json =
           (IF row.request_json = Blank THEN EmptyObject ELSE row.request_json)
  BY <1>3, SealedIsValid
<1> HIDE DEF sealed, new
<1>5. /\ new \in Rows /\ new.run_id = row.run_id /\ new.created_at = row.created_at
      /\ new.labels = labelled.labels /\ new.request_json = row.request_json
      /\ new.result_json = row.result_json /\ new.record_sha256 = sealed.record_sha256
  BY <1>2, <1>4 DEF Rows
<1>6. Filled(new) = sealed
  <2>1. Filled(new) = [sealed EXCEPT !.request_json =
                         IF row.request_json = Blank THEN EmptyObject ELSE row.request_json]
    BY <1>2, <1>4, <1>5 DEF Filled, Rows
  <2> QED
    BY <2>1, <1>4 DEF Rows
<1>7. Facts(new) = Facts(row)
  BY <1>1, <1>5 DEF Facts
<1> QED
  BY <1>4, <1>5, <1>6, <1>7 DEF new, SealedOn

\* The seal in the audit member of a stored result is not part of what the
\* row was sealed over.
LEMMA AuditUnhashed ==
    ASSUME NEW row \in Rows, NEW digest, row.request_json # Blank,
           RowValid(row, digest), row.record_sha256 \in Digests
    PROVE  /\ WithAudit(row) \in Rows
           /\ SealedOn(WithAudit(row), digest)
           /\ WithAudit(row).record_sha256 = row.record_sha256
           /\ WithAudit(row).run_id = row.run_id
           /\ WithAudit(row).labels = row.labels
           /\ WithAudit(row).request_json = row.request_json
           /\ WithAudit(row).result_json # Malformed
<1> DEFINE new == WithAudit(row)
<1>1. row.result_json \in Documents
  BY DEF RowValid, Rows
<1>2. /\ new.result_json = [body |-> row.result_json.body, audit |-> row.record_sha256]
      /\ new.run_id = row.run_id /\ new.created_at = row.created_at
      /\ new.labels = row.labels /\ new.request_json = row.request_json
      /\ new.request_sha256 = row.request_sha256 /\ new.result_sha256 = row.result_sha256
      /\ new.previous_record_sha256 = row.previous_record_sha256
      /\ new.record_sha256 = row.record_sha256
  BY DEF WithAudit, Rows
<1>3. new.result_json \in Documents /\ Canonical(new.result_json) = Canonical(row.result_json)
  BY <1>1, <1>2 DEF Documents, Canonical
<1>4. new.result_json # Malformed
  BY <1>3, BlankAssumption
<1>5. new \in Rows
  BY <1>3 DEF WithAudit, Rows
<1> HIDE DEF new
<1>6. Filled(new) = new
  BY <1>2, <1>5, FilledRow
<1>7. MaterialOf(new) = MaterialOf(row)
  BY <1>2, <1>3 DEF MaterialOf
<1>8. RowValid(new, digest)
  BY <1>2, <1>3, <1>4, <1>7 DEF RowValid
<1> QED
  BY <1>2, <1>4, <1>5, <1>6, <1>8 DEF new, SealedOn

\* A table without positions is empty.
LEMMA EmptyTable ==
    ASSUME NEW table \in Seq(Rows), 1 .. Len(table) = {}
    PROVE  table = <<>>
<1>1. Len(table) = 0
  <2>1. Len(table) \in Nat
    OBVIOUS
  <2>2. 1 \notin 1 .. Len(table)
    OBVIOUS
  <2> QED
    BY <2>1, <2>2
<1> QED
  BY <1>1

\* A digest that is stored and not blank is one.
LEMMA StoredDigest ==
    ASSUME NEW table \in Seq(Rows), NEW i \in 1 .. Len(table),
           table[i].record_sha256 # Blank
    PROVE  table[i].record_sha256 \in Digests
<1>1. table[i] \in Rows
  OBVIOUS
<1> QED
  BY <1>1 DEF Rows

\* A chain stays a chain when a row that is valid on its head is appended.
LEMMA ChainAppend ==
    ASSUME NEW table \in Seq(Rows), Chain(table),
           NEW row \in Rows, SealedOn(row, HeadOf(table))
    PROVE  Chain(Append(table, row))
<1> DEFINE longer == Append(table, row)
<1>1. SUFFICES ASSUME NEW i \in 1 .. Len(longer)
               PROVE  SealedOn(longer[i], DigestBefore(longer, i))
  BY DEF Chain
<1>2. /\ Len(longer) = Len(table) + 1
      /\ longer[Len(table) + 1] = row
      /\ \A j \in 1 .. Len(table) : longer[j] = table[j]
  OBVIOUS
<1>3. CASE i \in 1 .. Len(table)
  <2>1. DigestBefore(longer, i) = DigestBefore(table, i)
    BY <1>2, <1>3 DEF DigestBefore
  <2> QED
    BY <1>2, <1>3, <2>1 DEF Chain
<1>4. CASE i = Len(table) + 1
  <2>1. DigestBefore(longer, i) = HeadOf(table)
    BY <1>2, <1>4 DEF DigestBefore, HeadOf
  <2> QED
    BY <1>2, <1>4, <2>1
<1> QED
  BY <1>1, <1>2, <1>3, <1>4

-----------------------------------------------------------------------------
(* The inductive invariant *)

\* Every row has a digest, and is valid on the digest before it.
SealedChain(table) ==
    /\ Chain(table)
    /\ \A i \in 1 .. Len(table) : table[i].record_sha256 \in Digests

\* The write lock is held by the call in its transaction, or by the process
\* in the middle of its backfill, and by no one else.
LockInv ==
    /\ \A c \in Calls : call[c] \in InTransaction <=> lock = c
    /\ \A s \in Services : lock = s => service[s] = "backfilling"

\* A call runs in a process that serves, and a process serves only once the
\* triggers exist; from then on the table is a sealed chain.
ProtectInv ==
    /\ \A c \in Calls : call[c] \in InRecord =>
         owner[c] \in Services /\ service[owner[c]] = "serving"
    /\ \A s \in Services : service[s] = "serving" => triggers = Kinds
    /\ "delete" \in triggers => "update" \in triggers
    /\ "update" \in triggers => SealedChain(rows)
    /\ (\E c \in Calls : call[c] # "idle") => triggers = Kinds

\* Until the triggers exist the table is the older program's.
LegacyInv ==
    "update" \notin triggers =>
        /\ \A i \in 1 .. Len(rows) : rows[i].record_sha256 = Blank
        /\ \A i, j \in 1 .. Len(rows) : rows[i].run_id = rows[j].run_id => i = j

\* The head that a call reads stays the head until it commits.
HeadInv == \A c \in Calls : call[c] \in {"read", "inserted"} => head[c] = HeadOf(rows)

\* The row a call writes, and that none of its is stored before the commit.
EntryInv ==
    \A c \in Calls :
        /\ call[c] \in InRecord \union {"acked"} =>
             /\ entry[c] \in Rows
             /\ entry[c].run_id = c
             /\ entry[c].labels \in Labels
             /\ entry[c].request_json # Blank
             /\ entry[c].result_json # Malformed
        /\ call[c] = "inserted" =>
             SealedOn(entry[c], head[c]) /\ entry[c].record_sha256 \in Digests
        /\ call[c] \in {"idle", "hashed", "failed"} \union InTransaction =>
             \A i \in 1 .. Len(rows) : rows[i].run_id # c

\* What a process copied before it takes the lock is still what is stored,
\* unless another process has installed the triggers in the meantime.
PendingInv ==
    "update" \notin triggers =>
        \A s \in Services :
            /\ service[s] = "sealing" => rows = NoRows
            /\ service[s] \in {"scanned", "backfilling"} /\ lock # s =>
                 /\ DOMAIN pending[s] = 1 .. Len(rows)
                 /\ \A i \in 1 .. Len(rows) : pending[s][i] = rows[i]
            /\ service[s] = "backfilling" /\ lock # s => previous[s] = GENESIS_HASH

\* Inside the backfill's transaction the rows before the next copy are
\* sealed into a chain, the rest are untouched.
Backfilled(s) == (1 .. Len(rows)) \ DOMAIN pending[s]

DraftInv ==
    \A s \in Services : lock = s =>
        /\ "update" \notin triggers
        /\ Len(draft[s]) = Len(rows)
        /\ \A i \in DOMAIN pending[s], j \in 1 .. Len(rows) : i <= j => j \in DOMAIN pending[s]
        /\ \A i \in DOMAIN pending[s] : pending[s][i] = rows[i] /\ draft[s][i] = rows[i]
        /\ \A i \in Backfilled(s) :
             /\ SealedOn(draft[s][i], DigestBefore(draft[s], i))
             /\ draft[s][i].record_sha256 \in Digests
             /\ Facts(draft[s][i]) = Facts(rows[i])
        /\ \A i \in DOMAIN pending[s] : (\A j \in DOMAIN pending[s] : i <= j) =>
             previous[s] = DigestBefore(draft[s], i)

IInv ==
    /\ TypeOK
    /\ LockInv
    /\ ProtectInv
    /\ LegacyInv
    /\ HeadInv
    /\ EntryInv
    /\ PendingInv
    /\ DraftInv

-----------------------------------------------------------------------------
\* The invariant holds of a new database and of one an older program left.
LEMMA InitInv == Init => IInv
<1> SUFFICES ASSUME Init PROVE IInv
  OBVIOUS
<1> USE RepositoryAssumption DEF Init
<1>1. rows \in Seq(Rows)
  <2>1. NoRows \in Seq(Rows)
    BY DEF NoRows
  <2>2. LegacyRows \subseteq Seq(Rows)
    OBVIOUS
  <2> QED
    BY <2>1, <2>2
<1>2. \A i \in 1 .. Len(rows) : rows[i].record_sha256 = Blank /\ rows[i].run_id \notin Calls
  BY DEF NoRows
<1>3. \A i, j \in 1 .. Len(rows) : rows[i].run_id = rows[j].run_id => i = j
  BY DEF NoRows
<1>4. TypeOK
  BY <1>1 DEF TypeOK, NoRows, Kinds, Opening, InRecord, NoOwner, NoEntry, Digests, GENESIS_HASH
<1>5. LockInv
  BY DEF LockInv, InTransaction
<1>6. ProtectInv
  BY DEF ProtectInv, InRecord
<1>7. LegacyInv
  BY <1>2, <1>3 DEF LegacyInv
<1>8. HeadInv /\ PendingInv /\ DraftInv
  BY DEF HeadInv, PendingInv, DraftInv
<1>9. EntryInv
  BY <1>2 DEF EntryInv, InRecord, InTransaction
<1> QED
  BY <1>4, <1>5, <1>6, <1>7, <1>8, <1>9 DEF IInv

\* The variables are functions over the processes and the calls.
Shape ==
    /\ DOMAIN service = Services /\ DOMAIN missing = Services /\ DOMAIN pending = Services
    /\ DOMAIN previous = Services /\ DOMAIN draft = Services
    /\ DOMAIN call = Calls /\ DOMAIN owner = Calls /\ DOMAIN entry = Calls
    /\ DOMAIN head = Calls
    /\ Free \notin Calls /\ Free \notin Services
    /\ \A c \in Calls : c \notin Services

\* Every variable is a function over its processes or calls.
LEMMA ShapeFact == TypeOK => Shape
  BY RepositoryAssumption DEF TypeOK, Shape

\* CREATE TABLE IF NOT EXISTS preserves the invariant: it touches no row.
LEMMA CreateTableInv ==
    ASSUME IInv, NEW s \in Services, CreateTable(s) PROVE IInv'
<1> USE DEF CreateTable, recording, database, opening
<1>0. Shape
  BY ShapeFact DEF IInv
<1>1. TypeOK'
  BY <1>0 DEF IInv, Shape, TypeOK, Opening, InRecord
<1>2. LockInv'
  BY <1>0 DEF IInv, Shape, LockInv, InTransaction
<1>3. ProtectInv'
  BY <1>0 DEF IInv, Shape, ProtectInv, InRecord
<1>4. LegacyInv'
  BY <1>0 DEF IInv, Shape, LegacyInv
<1>5. HeadInv'
  BY <1>0 DEF IInv, Shape, HeadInv
<1>6. EntryInv'
  BY <1>0 DEF IInv, Shape, EntryInv, InRecord, InTransaction
<1>7. PendingInv'
  BY <1>0 DEF IInv, Shape, PendingInv
<1>8. DraftInv'
  BY <1>0 DEF IInv, Shape, DraftInv, Backfilled
<1> QED
  BY <1>1, <1>2, <1>3, <1>4, <1>5, <1>6, <1>7, <1>8 DEF IInv

\* Reading the columns of the table preserves the invariant.
LEMMA ReadColumnsInv ==
    ASSUME IInv, NEW s \in Services, ReadColumns(s) PROVE IInv'
<1> USE DEF ReadColumns, recording, database, opening
<1>0. Shape
  BY ShapeFact DEF IInv
<1>1. TypeOK'
  BY <1>0 DEF IInv, Shape, TypeOK, Opening, InRecord
<1>2. LockInv'
  BY <1>0 DEF IInv, Shape, LockInv, InTransaction
<1>3. ProtectInv'
  BY <1>0 DEF IInv, Shape, ProtectInv, InRecord
<1>4. LegacyInv'
  BY <1>0 DEF IInv, Shape, LegacyInv
<1>5. HeadInv'
  BY <1>0 DEF IInv, Shape, HeadInv
<1>6. EntryInv'
  BY <1>0 DEF IInv, Shape, EntryInv, InRecord, InTransaction
<1>7. PendingInv'
  BY <1>0 DEF IInv, Shape, PendingInv
<1>8. DraftInv'
  BY <1>0 DEF IInv, Shape, DraftInv, Backfilled
<1> QED
  BY <1>1, <1>2, <1>3, <1>4, <1>5, <1>6, <1>7, <1>8 DEF IInv

\* ALTER TABLE preserves the invariant, whoever else is migrating.
LEMMA AddColumnInv ==
    ASSUME IInv, NEW s \in Services, NEW col \in Columns, AddColumn(s, col) PROVE IInv'
<1> USE DEF AddColumn, recording, database, opening
<1>0. Shape
  BY ShapeFact DEF IInv
<1>1. TypeOK'
  BY <1>0 DEF IInv, Shape, TypeOK, Opening, InRecord
<1>2. LockInv'
  BY <1>0 DEF IInv, Shape, LockInv, InTransaction
<1>3. ProtectInv'
  BY <1>0 DEF IInv, Shape, ProtectInv, InRecord
<1>4. LegacyInv'
  BY <1>0 DEF IInv, Shape, LegacyInv
<1>5. HeadInv'
  BY <1>0 DEF IInv, Shape, HeadInv
<1>6. EntryInv'
  BY <1>0 DEF IInv, Shape, EntryInv, InRecord, InTransaction
<1>7. PendingInv'
  BY <1>0 DEF IInv, Shape, PendingInv
<1>8. DraftInv'
  BY <1>0 DEF IInv, Shape, DraftInv, Backfilled
<1> QED
  BY <1>1, <1>2, <1>3, <1>4, <1>5, <1>6, <1>7, <1>8 DEF IInv

\* The copies a process takes of the unsealed rows are all of the table.
LEMMA ScanPendingInv ==
    ASSUME IInv, NEW s \in Services, ScanPending(s) PROVE IInv'
<1> USE DEF ScanPending, recording, database, opening
<1>0. Shape
  BY ShapeFact DEF IInv
<1>1. TypeOK'
  BY <1>0 DEF IInv, Shape, TypeOK, Opening, InRecord
<1>2. LockInv'
  BY <1>0 DEF IInv, Shape, LockInv, InTransaction
<1>3. ProtectInv'
  BY <1>0 DEF IInv, Shape, ProtectInv, InRecord
<1>4. LegacyInv'
  BY <1>0 DEF IInv, Shape, LegacyInv
<1>5. HeadInv'
  BY <1>0 DEF IInv, Shape, HeadInv
<1>6. EntryInv'
  BY <1>0 DEF IInv, Shape, EntryInv, InRecord, InTransaction
<1>7. PendingInv'
  <2>1. ASSUME "update" \notin triggers
        PROVE  {i \in 1 .. Len(rows) : rows[i].record_sha256 = Blank} = 1 .. Len(rows)
    BY <2>1 DEF IInv, LegacyInv
  <2>2. 1 .. Len(rows) = {} => rows = NoRows
    BY EmptyTable DEF IInv, TypeOK, NoRows
  <2> QED
    BY <1>0, <2>1, <2>2 DEF IInv, Shape, PendingInv
<1>8. DraftInv'
  BY <1>0 DEF IInv, Shape, DraftInv, Backfilled, LockInv
<1> QED
  BY <1>1, <1>2, <1>3, <1>4, <1>5, <1>6, <1>7, <1>8 DEF IInv

\* With nothing sealed yet, the backfill starts from the genesis hash.
LEMMA ScanHeadInv ==
    ASSUME IInv, NEW s \in Services, ScanHead(s) PROVE IInv'
<1> USE DEF ScanHead, recording, database, opening
<1>0. Shape
  BY ShapeFact DEF IInv
<1>1. TypeOK'
  <2>1. GENESIS_HASH \in Digests
    BY DEF GENESIS_HASH, Digests
  <2>2. \A i \in 1 .. Len(rows) : rows[i].record_sha256 # Blank => rows[i].record_sha256 \in Digests
    BY StoredDigest DEF IInv, TypeOK
  <2>3. previous'[s] \in Digests
    BY <1>0, <2>1, <2>2 DEF Shape
  <2> QED
    BY <2>3 DEF IInv, TypeOK, Opening
<1>2. LockInv'
  BY <1>0 DEF IInv, Shape, LockInv, InTransaction
<1>3. ProtectInv'
  BY <1>0 DEF IInv, Shape, ProtectInv, InRecord
<1>4. LegacyInv'
  BY <1>0 DEF IInv, Shape, LegacyInv
<1>5. HeadInv'
  BY <1>0 DEF IInv, Shape, HeadInv
<1>6. EntryInv'
  BY <1>0 DEF IInv, Shape, EntryInv, InRecord, InTransaction
<1>7. PendingInv'
  BY <1>0 DEF IInv, Shape, PendingInv, LegacyInv
<1>8. DraftInv'
  BY <1>0 DEF IInv, Shape, DraftInv, Backfilled, LockInv
<1> QED
  BY <1>1, <1>2, <1>3, <1>4, <1>5, <1>6, <1>7, <1>8 DEF IInv

\* A trigger created outside a transaction finds nothing left to seal.
LEMMA CreateTriggerInv ==
    ASSUME IInv, NEW s \in Services, CreateTrigger(s) PROVE IInv'
<1> USE DEF CreateTrigger, recording, database, opening, CanWrite
<1>0. Shape
  BY ShapeFact DEF IInv
<1>1. TypeOK'
  BY <1>0 DEF IInv, Shape, TypeOK, Kinds
<1>2. LockInv'
  BY <1>0 DEF IInv, Shape, LockInv, InTransaction
<1>3. ProtectInv'
  <2>1. ASSUME "update" \notin triggers PROVE SealedChain(rows)
    BY <2>1 DEF IInv, PendingInv, SealedChain, Chain, NoRows
  <2>2. /\ triggers \subseteq triggers' /\ triggers' \subseteq Kinds
        /\ "update" \in triggers'
    BY DEF IInv, TypeOK, Kinds
  <2>6. service'[s] = "serving" => triggers' = Kinds
    <3>1. CASE "update" \in triggers
      <4>1. "delete" \in triggers'
        BY <3>1
      <4> QED
        BY ONLY <2>2, <4>1 DEF Kinds
    <3>2. CASE "update" \notin triggers
      BY <1>0, <3>2 DEF Shape
    <3> QED
      BY <3>1, <3>2
  <2>3. SealedChain(rows')
    BY <2>1 DEF IInv, ProtectInv
  <2>4. \A t \in Services : t # s => service'[t] = service[t]
    BY <1>0 DEF Shape
  <2>5. \A c \in Calls : call[c] \in InRecord => service[owner[c]] = "serving" /\ owner[c] # s
    BY DEF IInv, ProtectInv
  <2> QED
    BY <1>0, <2>2, <2>3, <2>4, <2>5, <2>6 DEF IInv, Shape, ProtectInv
<1>4. LegacyInv'
  BY <1>0 DEF IInv, Shape, LegacyInv
<1>5. HeadInv'
  BY <1>0 DEF IInv, Shape, HeadInv
<1>6. EntryInv'
  BY <1>0 DEF IInv, Shape, EntryInv, InRecord, InTransaction
<1>7. PendingInv'
  BY <1>0 DEF IInv, Shape, PendingInv
<1>8. DraftInv'
  BY <1>0 DEF IInv, Shape, DraftInv, Backfilled, Kinds
<1> QED
  BY <1>1, <1>2, <1>3, <1>4, <1>5, <1>6, <1>7, <1>8 DEF IInv

\* The inductive core of the migration: one more row is sealed on the chain
\* that the transaction has built so far.
LEMMA BackfillRowInv ==
    ASSUME IInv, NEW s \in Services, BackfillRow(s) PROVE IInv'
<1> USE DEF recording, database, opening
<1>0. Shape
  BY ShapeFact DEF IInv
<1> DEFINE table == IF lock = s THEN draft[s] ELSE rows
           new(i) == SealLegacy(pending[s][i], previous[s])
<1>1. PICK i \in DOMAIN pending[s] :
        /\ \A j \in DOMAIN pending[s] : i <= j
        /\ pending[s][i].result_json # Malformed
        /\ draft' = [draft EXCEPT ![s] = [j \in 1 .. Len(table) |->
             IF table[j].run_id = pending[s][i].run_id THEN new(i) ELSE table[j]]]
        /\ previous' = [previous EXCEPT ![s] = new(i).record_sha256]
        /\ pending' = [pending EXCEPT ![s] =
             [j \in DOMAIN pending[s] \ {i} |-> pending[s][j]]]
  BY DEF BackfillRow, UpdateOldest, Updated
<1>2. /\ service[s] = "backfilling" /\ lock \in {Free, s} /\ "update" \notin triggers
      /\ lock' = s
      /\ UNCHANGED <<rows, columns, triggers, service, missing, recording>>
  BY DEF BackfillRow, UpdateOldest
<1>3. /\ rows \in Seq(Rows) /\ table \in Seq(Rows) /\ previous[s] \in Digests
      /\ DOMAIN pending[s] \subseteq 1 .. Len(rows)
      /\ pending[s][i] \in Rows
  BY DEF IInv, TypeOK
<1>4. /\ Len(table) = Len(rows)
      /\ \A j \in 1 .. Len(rows) : table[j].run_id = rows[j].run_id
      /\ pending[s][i] = rows[i] /\ table[i] = rows[i]
      /\ \A j \in DOMAIN pending[s] : pending[s][j] = rows[j] /\ table[j] = rows[j]
  <2>1. CASE lock = s
    BY <1>3, <2>1 DEF IInv, DraftInv, Backfilled, Facts
  <2>2. CASE lock # s
    BY <1>2, <1>3, <2>2 DEF IInv, PendingInv
  <2> QED
    BY <2>1, <2>2
<1>5. \A j \in 1 .. Len(rows) : j > i => j \in DOMAIN pending[s]
  <2>1. CASE lock = s
    BY <1>3, <2>1 DEF IInv, DraftInv
  <2>2. CASE lock # s
    BY <1>2, <1>3, <2>2 DEF IInv, PendingInv
  <2> QED
    BY <2>1, <2>2
<1>6. previous[s] = DigestBefore(table, i)
  <2>1. CASE lock = s
    BY <1>1, <2>1 DEF IInv, DraftInv
  <2>2. CASE lock # s
    <3>1. 1 \in DOMAIN pending[s] /\ previous[s] = GENESIS_HASH
      BY <1>2, <1>3, <2>2 DEF IInv, PendingInv
    <3>2. i = 1
      BY <1>1, <1>3, <3>1
    <3> QED
      BY <3>1, <3>2 DEF DigestBefore
  <2> QED
    BY <2>1, <2>2
<1>7. /\ new(i) \in Rows
      /\ SealedOn(new(i), previous[s])
      /\ new(i).record_sha256 \in Digests
      /\ new(i).run_id = rows[i].run_id
      /\ Facts(new(i)) = Facts(rows[i])
  <2>1. new(i) = SealLegacy(rows[i], previous[s])
    BY <1>4
  <2>2. rows[i] \in Rows /\ rows[i].result_json # Malformed
    BY <1>1, <1>3, <1>4
  <2> HIDE DEF new
  <2> QED
    BY <1>3, <2>1, <2>2, LegacySealed
<1> HIDE DEF table, new
<1>8. /\ draft'[s] \in Seq(Rows)
      /\ Len(draft'[s]) = Len(rows)
      /\ draft'[s][i] = new(i)
      /\ \A j \in 1 .. Len(rows) : j # i => draft'[s][j] = table[j]
  <2>1. \A j \in 1 .. Len(rows) : table[j].run_id = pending[s][i].run_id <=> j = i
    BY <1>2, <1>3, <1>4 DEF IInv, LegacyInv
  <2>2. draft'[s] = [j \in 1 .. Len(rows) |-> IF j = i THEN new(i) ELSE table[j]]
    BY <1>0, <1>1, <1>4, <2>1 DEF Shape
  <2>3. \A j \in 1 .. Len(rows) : (IF j = i THEN new(i) ELSE table[j]) \in Rows
    BY <1>3, <1>4, <1>7
  <2> QED
    BY <1>3, <1>4, <2>2, <2>3
<1>9. /\ DOMAIN pending'[s] = DOMAIN pending[s] \ {i}
      /\ \A j \in DOMAIN pending'[s] : pending'[s][j] = pending[s][j]
      /\ \A t \in Services : t # s => pending'[t] = pending[t] /\ previous'[t] = previous[t]
      /\ previous'[s] = new(i).record_sha256
  BY <1>0, <1>1 DEF Shape
<1>10. TypeOK'
  <2>1. previous' \in [Services -> Digests] /\ draft' \in [Services -> Seq(Rows)]
    BY <1>0, <1>1, <1>7, <1>8 DEF IInv, TypeOK, Shape
  <2>2. DOMAIN pending' = Services
    BY <1>0, <1>1 DEF Shape
  <2> QED
    BY <1>2, <1>9, <2>1, <2>2 DEF IInv, TypeOK
<1>11. LockInv'
  BY <1>0, <1>2 DEF IInv, Shape, LockInv, InTransaction
<1>12. ProtectInv' /\ LegacyInv' /\ HeadInv' /\ EntryInv'
  BY <1>2 DEF IInv, ProtectInv, LegacyInv, HeadInv, EntryInv
<1>13. PendingInv'
  BY <1>0, <1>2, <1>9 DEF IInv, Shape, PendingInv
<1>14. DraftInv'
  <2>1. \A j \in 1 .. Len(rows) : j \in Backfilled(s)' <=> j <= i
    BY <1>1, <1>2, <1>3, <1>5, <1>9 DEF Backfilled
  <2>2. \A j \in 1 .. Len(rows) : j <= i => DigestBefore(draft'[s], j) = DigestBefore(table, j)
    BY <1>3, <1>8 DEF DigestBefore
  <2>3. ASSUME NEW j \in 1 .. Len(rows), j < i
        PROVE  /\ SealedOn(table[j], DigestBefore(table, j))
               /\ table[j].record_sha256 \in Digests
               /\ Facts(table[j]) = Facts(rows[j])
    <3>1. j \notin DOMAIN pending[s]
      BY <1>1, <1>3, <2>3
    <3>2. lock = s
      BY <1>2, <3>1 DEF IInv, PendingInv
    <3> QED
      BY <3>1, <3>2 DEF IInv, DraftInv, Backfilled, table
  <2>4. ASSUME NEW j \in Backfilled(s)'
        PROVE  /\ SealedOn(draft'[s][j], DigestBefore(draft'[s], j))
               /\ draft'[s][j].record_sha256 \in Digests
               /\ Facts(draft'[s][j]) = Facts(rows[j])
    <3>1. j \in 1 .. Len(rows) /\ j <= i
      BY <1>2, <2>1, <2>4 DEF Backfilled
    <3>2. CASE j = i
      BY <1>6, <1>7, <1>8, <2>2, <3>1, <3>2
    <3>3. CASE j < i
      BY <1>8, <2>2, <2>3, <3>1, <3>3
    <3> QED
      BY <1>3, <3>1, <3>2, <3>3
  <2>5. ASSUME NEW k \in DOMAIN pending'[s], \A j \in DOMAIN pending'[s] : k <= j
        PROVE  previous'[s] = DigestBefore(draft'[s], k)
    <3>1. k \in 1 .. Len(rows) /\ k > i
      BY <1>1, <1>3, <1>9
    <3>2. i + 1 \in DOMAIN pending'[s]
      BY <1>3, <1>5, <1>9, <3>1
    <3>3. k = i + 1
      BY <1>3, <2>5, <3>1, <3>2
    <3> QED
      BY <1>3, <1>8, <1>9, <3>3 DEF DigestBefore
  <2>6. \A j \in DOMAIN pending'[s], k \in 1 .. Len(rows) : j <= k => k \in DOMAIN pending'[s]
    BY <1>1, <1>3, <1>5, <1>9
  <2>7. \A j \in DOMAIN pending'[s] : pending'[s][j] = rows[j] /\ draft'[s][j] = rows[j]
    BY <1>3, <1>4, <1>8, <1>9
  <2>8. rows' = rows /\ "update" \notin triggers' /\ lock' = s /\ Len(draft'[s]) = Len(rows)
    BY <1>2, <1>8
  <2> QED
    BY <2>4, <2>5, <2>6, <2>7, <2>8 DEF DraftInv, Backfilled
<1> QED
  BY <1>10, <1>11, <1>12, <1>13, <1>14 DEF IInv

\* The backfill's commit turns the old table into a sealed chain at once.
LEMMA CommitBackfillInv ==
    ASSUME IInv, NEW s \in Services, CommitBackfill(s) PROVE IInv'
<1> USE DEF CommitBackfill, recording, database, opening
<1>0. Shape
  BY ShapeFact DEF IInv
<1>a. /\ SealedChain(draft[s])
      /\ "update" \notin triggers
      /\ Len(draft[s]) = Len(rows)
      /\ \A i \in 1 .. Len(rows) : draft[s][i].run_id = rows[i].run_id
  BY DEF IInv, DraftInv, Backfilled, SealedChain, Chain, Facts
<1>b. \A c \in Calls : call[c] = "idle"
  BY <1>a DEF IInv, ProtectInv, Kinds
<1>1. TypeOK'
  <2>1. draft[s] \in Seq(Rows) /\ NoRows \in Seq(Rows)
    BY DEF IInv, TypeOK, NoRows
  <2> QED
    BY <1>0, <1>a, <2>1 DEF IInv, Shape, TypeOK, Kinds
<1>2. LockInv'
  BY <1>0, <1>b DEF IInv, Shape, LockInv, InTransaction
<1>3. ProtectInv'
  BY <1>0, <1>a, <1>b DEF IInv, Shape, ProtectInv, InRecord, Kinds
<1>4. LegacyInv'
  BY DEF LegacyInv, Kinds
<1>5. HeadInv'
  BY <1>b DEF HeadInv
<1>6. EntryInv'
  BY <1>a, <1>b DEF IInv, EntryInv, InRecord, InTransaction
<1>7. PendingInv'
  BY DEF PendingInv, Kinds
<1>8. DraftInv'
  BY <1>0 DEF DraftInv, Shape
<1> QED
  BY <1>1, <1>2, <1>3, <1>4, <1>5, <1>6, <1>7, <1>8 DEF IInv

\* Losing a process, by an exception or a kill, loses nothing committed.
LEMMA StopInv ==
    ASSUME IInv, NEW s \in Services, Stop(s) PROVE IInv'
<1> USE DEF Stop, recording, database, opening, Forget
<1>0. Shape
  BY ShapeFact DEF IInv
<1>1. TypeOK'
  <2>1. GENESIS_HASH \in Digests /\ NoRows \in Seq(Rows)
    BY DEF GENESIS_HASH, Digests, NoRows
  <2>2. DOMAIN NoRows = {}
    BY DEF NoRows
  <2> QED
    BY <1>0, <2>1, <2>2 DEF IInv, Shape, TypeOK, InRecord
<1>2. LockInv'
  BY <1>0 DEF IInv, Shape, LockInv, InTransaction, InRecord
<1>3. ProtectInv'
  BY <1>0 DEF IInv, Shape, ProtectInv, InRecord
<1>4. LegacyInv'
  BY <1>0 DEF IInv, Shape, LegacyInv
<1>5. HeadInv'
  BY <1>0 DEF IInv, Shape, HeadInv
<1>6. EntryInv'
  BY <1>0 DEF IInv, Shape, EntryInv, InRecord, InTransaction
<1>7. PendingInv'
  BY <1>0 DEF IInv, Shape, PendingInv
<1>8. DraftInv'
  BY <1>0 DEF IInv, Shape, DraftInv, Backfilled
<1> QED
  BY <1>1, <1>2, <1>3, <1>4, <1>5, <1>6, <1>7, <1>8 DEF IInv

\* Hashing a run before the database is touched preserves the invariant.
LEMMA SubmitInv ==
    ASSUME IInv, NEW s \in Services, NEW c \in Calls, NEW job \in Jobs, Submit(s, c, job) PROVE IInv'
<1> USE DEF Submit, recording, database, opening
<1>0. Shape
  BY ShapeFact DEF IInv
<1>a. ASSUME call'[c] = "hashed"
      PROVE  /\ entry'[c] \in Rows
             /\ entry'[c].run_id = c
             /\ entry'[c].labels \in Labels
             /\ entry'[c].request_json # Blank
             /\ entry'[c].result_json # Malformed
  <2>1. job \in [created_at : Times, labels : Labels,
                  request_json : Payloads \union {Malformed},
                  result_json : Payloads \union {Malformed}] /\ c \in RunIds
    BY RepositoryAssumption
  <2>2. Malformed \notin {job.request_json, job.result_json}
    BY <1>0, <1>a DEF Shape
  <2>3. job.request_json \in Payloads /\ job.result_json \in Payloads
    BY <2>1, <2>2
  <2>4. [body |-> job.result_json, audit |-> Blank] \in Documents
    BY <2>3 DEF Documents
  <2>5. [body |-> job.result_json, audit |-> Blank] # Malformed
    BY <2>4, BlankAssumption
  <2> QED
    BY <1>0, <2>1, <2>2, <2>3, <2>4, <2>5, ColumnAssumption DEF Shape, Rows
<1>1. TypeOK'
  <2>1. TypeOK
    BY DEF IInv
  <2>2. call' \in [Calls -> {"idle", "acked", "failed", "lost"} \union InRecord]
    BY <2>1 DEF TypeOK, InRecord
  <2>3. call' = [call EXCEPT ![c] = "hashed"] \/ entry' = entry
    OBVIOUS
  <2>4. entry' \in [Calls -> Rows \union {NoEntry}]
    <3>1. CASE entry' = entry
      BY <2>1, <3>1 DEF TypeOK
    <3>2. CASE call' = [call EXCEPT ![c] = "hashed"]
      <4>1. entry'[c] \in Rows
        BY <1>0, <1>a, <3>2 DEF Shape
      <4>2. DOMAIN entry' = Calls /\ \A d \in Calls \ {c} : entry'[d] = entry[d]
        BY <1>0 DEF Shape
      <4>3. entry' = [d \in Calls |-> entry'[d]]
        BY <1>0, <3>2, <2>1 DEF Shape, TypeOK
      <4> HIDE DEF Submit
      <4> QED
        BY <2>1, <4>1, <4>2, <4>3 DEF TypeOK
    <3> QED
      BY <2>3, <3>1, <3>2
  <2>5. owner' \in [Calls -> Services \union {NoOwner}]
    BY <2>1 DEF TypeOK
  <2>6. UNCHANGED <<database, opening, head>>
    OBVIOUS
  <2> HIDE DEF Submit
  <2> QED
    BY <2>1, <2>2, <2>4, <2>5, <2>6 DEF TypeOK
<1>2. LockInv'
  BY <1>0 DEF IInv, Shape, LockInv, InTransaction
<1>3. ProtectInv'
  BY <1>0 DEF IInv, Shape, ProtectInv, InRecord
<1>4. LegacyInv'
  BY <1>0 DEF IInv, Shape, LegacyInv
<1>5. HeadInv'
  BY <1>0 DEF IInv, Shape, HeadInv
<1>6. EntryInv'
  BY <1>0, <1>a DEF IInv, Shape, EntryInv, InRecord, InTransaction
<1>7. PendingInv'
  BY <1>0 DEF IInv, Shape, PendingInv
<1>8. DraftInv'
  BY <1>0 DEF IInv, Shape, DraftInv, Backfilled
<1> QED
  BY <1>1, <1>2, <1>3, <1>4, <1>5, <1>6, <1>7, <1>8 DEF IInv

\* The call that takes the lock is the only one in a transaction.
LEMMA BeginImmediateInv ==
    ASSUME IInv, NEW c \in Calls, BeginImmediate(c) PROVE IInv'
<1> USE DEF BeginImmediate, recording, database, opening
<1>0. Shape
  BY ShapeFact DEF IInv
<1>1. TypeOK'
  BY <1>0 DEF IInv, Shape, TypeOK, Opening, InRecord
<1>2. LockInv'
  BY <1>0 DEF IInv, Shape, LockInv, InTransaction
<1>3. ProtectInv'
  BY <1>0 DEF IInv, Shape, ProtectInv, InRecord
<1>4. LegacyInv'
  BY <1>0 DEF IInv, Shape, LegacyInv
<1>5. HeadInv'
  BY <1>0 DEF IInv, Shape, HeadInv
<1>6. EntryInv'
  BY <1>0 DEF IInv, Shape, EntryInv, InRecord, InTransaction
<1>7. PendingInv'
  BY <1>0 DEF IInv, Shape, PendingInv
<1>8. DraftInv'
  BY <1>0 DEF IInv, Shape, DraftInv, Backfilled
<1> QED
  BY <1>1, <1>2, <1>3, <1>4, <1>5, <1>6, <1>7, <1>8 DEF IInv

\* The head is read under the lock, so it is the head of the table.
LEMMA ReadHeadInv ==
    ASSUME IInv, NEW c \in Calls, ReadHead(c) PROVE IInv'
<1> USE DEF ReadHead, recording, database, opening
<1>0. Shape
  BY ShapeFact DEF IInv
<1>1. TypeOK'
  <2>1. HeadOf(rows) \in Digests
    BY DEF IInv, TypeOK, ProtectInv, SealedChain, HeadOf, GENESIS_HASH, Digests, Kinds
  <2> QED
    BY <1>0, <2>1 DEF IInv, Shape, TypeOK, InRecord
<1>2. LockInv'
  BY <1>0 DEF IInv, Shape, LockInv, InTransaction
<1>3. ProtectInv'
  BY <1>0 DEF IInv, Shape, ProtectInv, InRecord
<1>4. LegacyInv'
  BY <1>0 DEF IInv, Shape, LegacyInv
<1>5. HeadInv'
  BY <1>0 DEF IInv, Shape, HeadInv
<1>6. EntryInv'
  BY <1>0 DEF IInv, Shape, EntryInv, InRecord, InTransaction
<1>7. PendingInv'
  BY <1>0 DEF IInv, Shape, PendingInv
<1>8. DraftInv'
  BY <1>0 DEF IInv, Shape, DraftInv, Backfilled
<1> QED
  BY <1>1, <1>2, <1>3, <1>4, <1>5, <1>6, <1>7, <1>8 DEF IInv

\* The row that a call inserts is valid on the head it read.
LEMMA InsertInv ==
    ASSUME IInv, NEW c \in Calls, Insert(c) PROVE IInv'
<1> USE DEF Insert, recording, database, opening
<1>0. Shape
  BY ShapeFact DEF IInv
<1>a. /\ entry'[c] \in Rows
      /\ SealedOn(entry'[c], head[c])
      /\ entry'[c].record_sha256 \in Digests
      /\ entry'[c].run_id = entry[c].run_id
      /\ entry'[c].labels = entry[c].labels
      /\ entry'[c].request_json # Blank
      /\ entry'[c].result_json # Malformed
  <2>1. /\ entry[c] \in Rows /\ entry[c].labels \in Labels /\ entry[c].request_json # Blank
        /\ entry[c].result_json # Malformed /\ head[c] \in Digests
    BY DEF IInv, TypeOK, EntryInv, InRecord
  <2> DEFINE sealed == Sealed(entry[c], head[c])
  <2>2. entry'[c] = WithAudit(sealed)
    BY <1>0 DEF Shape
  <2>3. /\ sealed \in Rows /\ RowValid(sealed, head[c]) /\ sealed.record_sha256 \in Digests
        /\ sealed.run_id = entry[c].run_id /\ sealed.labels = entry[c].labels
        /\ sealed.request_json # Blank
    BY <2>1, SealedIsValid
  <2> HIDE DEF sealed
  <2> QED
    BY <2>2, <2>3, AuditUnhashed
<1>1. TypeOK'
  BY <1>0, <1>a DEF IInv, Shape, TypeOK, InRecord
<1>2. LockInv'
  BY <1>0 DEF IInv, Shape, LockInv, InTransaction
<1>3. ProtectInv'
  BY <1>0 DEF IInv, Shape, ProtectInv, InRecord
<1>4. LegacyInv'
  BY <1>0 DEF IInv, Shape, LegacyInv
<1>5. HeadInv'
  BY <1>0 DEF IInv, Shape, HeadInv
<1>6. EntryInv'
  BY <1>0, <1>a DEF IInv, Shape, EntryInv, InRecord, InTransaction
<1>7. PendingInv'
  BY <1>0 DEF IInv, Shape, PendingInv
<1>8. DraftInv'
  BY <1>0 DEF IInv, Shape, DraftInv, Backfilled
<1> QED
  BY <1>1, <1>2, <1>3, <1>4, <1>5, <1>6, <1>7, <1>8 DEF IInv

\* A commit appends one row that is valid on the newest one.
LEMMA CommitInv ==
    ASSUME IInv, NEW c \in Calls, Commit(c) PROVE IInv'
<1> USE DEF Commit, recording, database, opening
<1>0. Shape
  BY ShapeFact DEF IInv
<1>a. /\ rows \in Seq(Rows) /\ entry[c] \in Rows /\ entry[c].run_id = c
      /\ SealedOn(entry[c], HeadOf(rows))
      /\ entry[c].record_sha256 \in Digests
      /\ triggers = Kinds /\ SealedChain(rows)
  BY DEF IInv, TypeOK, EntryInv, HeadInv, ProtectInv, InRecord, Kinds
<1>b. /\ rows' \in Seq(Rows)
      /\ Len(rows') = Len(rows) + 1
      /\ rows'[Len(rows) + 1] = entry[c]
      /\ \A i \in 1 .. Len(rows) : rows'[i] = rows[i]
  BY <1>a
<1>c. SealedChain(rows')
  BY <1>a, <1>b, ChainAppend DEF SealedChain
<1>d. lock = c /\ \A d \in Calls : d # c => call[d] \notin InTransaction
  BY DEF IInv, LockInv, InTransaction
<1>1. TypeOK'
  BY <1>0, <1>a, <1>b DEF IInv, Shape, TypeOK, InRecord
<1>2. LockInv'
  BY <1>0, <1>d DEF IInv, Shape, LockInv, InTransaction
<1>3. ProtectInv'
  BY <1>0, <1>a, <1>c DEF IInv, Shape, ProtectInv, InRecord, Kinds
<1>4. LegacyInv'
  BY <1>a DEF LegacyInv, Kinds
<1>5. HeadInv'
  BY <1>0, <1>d DEF HeadInv, Shape, InTransaction
<1>6. EntryInv'
  <2>1. ASSUME NEW d \in Calls, d # c
        PROVE  /\ call'[d] = call[d] /\ entry'[d] = entry[d]
               /\ (\A i \in 1 .. Len(rows) : rows[i].run_id # d) =>
                    \A i \in 1 .. Len(rows') : rows'[i].run_id # d
    BY <1>0, <1>a, <1>b, <2>1 DEF Shape, IInv, TypeOK
  <2>2. call'[c] = "committed" /\ entry'[c] = entry[c]
    BY <1>0 DEF Shape
  <2> QED
    BY <2>1, <2>2 DEF IInv, EntryInv, InRecord, InTransaction, HeadInv
<1>7. PendingInv'
  BY <1>a DEF PendingInv, Kinds
<1>8. DraftInv'
  BY <1>0, <1>d DEF IInv, Shape, DraftInv
<1> QED
  BY <1>1, <1>2, <1>3, <1>4, <1>5, <1>6, <1>7, <1>8 DEF IInv

\* A call is answered with a seal only after its row is stored.
LEMMA ReturnInv ==
    ASSUME IInv, NEW c \in Calls, Return(c) PROVE IInv'
<1> USE DEF Return, recording, database, opening
<1>0. Shape
  BY ShapeFact DEF IInv
<1>1. TypeOK'
  BY <1>0 DEF IInv, Shape, TypeOK, Opening, InRecord
<1>2. LockInv'
  BY <1>0 DEF IInv, Shape, LockInv, InTransaction
<1>3. ProtectInv'
  BY <1>0 DEF IInv, Shape, ProtectInv, InRecord
<1>4. LegacyInv'
  BY <1>0 DEF IInv, Shape, LegacyInv
<1>5. HeadInv'
  BY <1>0 DEF IInv, Shape, HeadInv
<1>6. EntryInv'
  BY <1>0 DEF IInv, Shape, EntryInv, InRecord, InTransaction
<1>7. PendingInv'
  BY <1>0 DEF IInv, Shape, PendingInv
<1>8. DraftInv'
  BY <1>0 DEF IInv, Shape, DraftInv, Backfilled
<1> QED
  BY <1>1, <1>2, <1>3, <1>4, <1>5, <1>6, <1>7, <1>8 DEF IInv

\* A call that fails gives up the lock and has stored nothing.
LEMMA RecordFailsInv ==
    ASSUME IInv, NEW c \in Calls, RecordFails(c) PROVE IInv'
<1> USE DEF RecordFails, recording, database, opening
<1>0. Shape
  BY ShapeFact DEF IInv
<1>1. TypeOK'
  BY <1>0 DEF IInv, Shape, TypeOK, Opening, InRecord
<1>2. LockInv'
  BY <1>0 DEF IInv, Shape, LockInv, InTransaction
<1>3. ProtectInv'
  BY <1>0 DEF IInv, Shape, ProtectInv, InRecord, InTransaction
<1>4. LegacyInv'
  BY <1>0 DEF IInv, Shape, LegacyInv
<1>5. HeadInv'
  BY <1>0 DEF IInv, Shape, HeadInv
<1>6. EntryInv'
  BY <1>0 DEF IInv, Shape, EntryInv, InRecord, InTransaction
<1>7. PendingInv'
  BY <1>0 DEF IInv, Shape, PendingInv
<1>8. DraftInv'
  BY <1>0 DEF IInv, Shape, DraftInv, Backfilled
<1> QED
  BY <1>1, <1>2, <1>3, <1>4, <1>5, <1>6, <1>7, <1>8 DEF IInv

-----------------------------------------------------------------------------
\* Every step of the repository preserves the inductive invariant.
LEMMA NextInv == IInv /\ [Next]_vars => IInv'
<1> SUFFICES ASSUME IInv, [Next]_vars PROVE IInv'
  OBVIOUS
<1>1. ASSUME NEW s \in Services, CreateTable(s) \/ Open(s) \/ Crash(s) PROVE IInv'
  <2>1. CASE CreateTable(s)
    BY <2>1, CreateTableInv
  <2>2. CASE ReadColumns(s)
    BY <2>2, ReadColumnsInv
  <2>3. CASE \E col \in Columns : AddColumn(s, col)
    BY <2>3, AddColumnInv
  <2>4. CASE ScanPending(s)
    BY <2>4, ScanPendingInv
  <2>5. CASE ScanHead(s)
    BY <2>5, ScanHeadInv
  <2>6. CASE BackfillRow(s)
    BY <2>6, BackfillRowInv
  <2>7. CASE CommitBackfill(s)
    BY <2>7, CommitBackfillInv
  <2>8. CASE CreateTrigger(s)
    BY <2>8, CreateTriggerInv
  <2>9. CASE OpenFails(s) \/ Crash(s)
    BY <2>9, StopInv DEF OpenFails, Crash
  <2> QED
    BY <1>1, <2>1, <2>2, <2>3, <2>4, <2>5, <2>6, <2>7, <2>8, <2>9 DEF Open
<1>2. ASSUME NEW s \in Services, NEW c \in Calls, NEW job \in Jobs, Submit(s, c, job)
      PROVE  IInv'
  BY <1>2, SubmitInv
<1>3. ASSUME NEW c \in Calls, Work(c) PROVE IInv'
  BY <1>3, BeginImmediateInv, ReadHeadInv, InsertInv, CommitInv, ReturnInv, RecordFailsInv
     DEF Work
<1>4. CASE UNCHANGED vars
  <2> USE <1>4 DEF vars, database, opening, recording
  <2>1. TypeOK' /\ LockInv' /\ ProtectInv' /\ LegacyInv'
    BY DEF IInv, TypeOK, LockInv, ProtectInv, LegacyInv
  <2>2. HeadInv' /\ EntryInv' /\ PendingInv'
    BY DEF IInv, HeadInv, EntryInv, PendingInv
  <2>3. DraftInv'
    BY DEF IInv, DraftInv, Backfilled
  <2> QED
    BY <2>1, <2>2, <2>3 DEF IInv
<1> QED
  BY <1>1, <1>2, <1>3, <1>4 DEF Next

\* The inductive invariant holds in every behaviour of the repository.
THEOREM Invariance == Spec => []IInv
<1>1. Init => IInv
  BY InitInv
<1>2. IInv /\ [Next]_vars => IInv'
  BY NextInv
<1> QED
  BY <1>1, <1>2, PTL DEF Spec

\* Type correctness: rows, digests, locks and the state of every process and
\* call stay in their sets.
THEOREM TypeCorrect == Spec => []TypeOK
<1>1. IInv => TypeOK
  BY DEF IInv
<1> QED
  BY <1>1, Invariance, PTL

\* The chain of the run repository is intact from the moment the triggers
\* exist, for any number of threads, processes, failures and legacy rows.
THEOREM ChainStaysIntact == Spec => []ChainIntact
<1>1. IInv => ChainIntact
  BY DEF IInv, TypeOK, ProtectInv, SealedChain, ChainIntact, Kinds
<1> QED
  BY <1>1, Invariance, PTL

\* From the commit on the row of a call is stored as it was sealed.
ReceiptInv ==
    \A c \in Calls : call[c] \in {"committed", "acked"} =>
        \E i \in 1 .. Len(rows) : rows[i] = entry[c]

\* No step takes a committed row away: only the backfill rewrites rows, and
\* while it may run no call has begun.
LEMMA ReceiptStep == IInv /\ ReceiptInv /\ [Next]_vars => ReceiptInv'
<1> SUFFICES ASSUME IInv, ReceiptInv, [Next]_vars PROVE ReceiptInv'
  OBVIOUS
<1> USE DEF database, opening, recording
<1>0. Shape /\ rows \in Seq(Rows)
  BY ShapeFact DEF IInv, TypeOK
<1>1. CASE UNCHANGED vars
  BY <1>1 DEF vars, ReceiptInv
<1>2. ASSUME NEW s \in Services, CommitBackfill(s) PROVE ReceiptInv'
  <2>1. \A c \in Calls : call[c] = "idle"
    BY <1>2 DEF CommitBackfill, IInv, DraftInv, ProtectInv, Kinds
  <2> QED
    BY <1>2, <2>1 DEF CommitBackfill, ReceiptInv
<1>3. ASSUME NEW s \in Services, Stop(s) PROVE ReceiptInv'
  BY <1>0, <1>3 DEF Stop, Forget, Shape, ReceiptInv
<1>4. ASSUME NEW s \in Services, CreateTable(s) \/ Open(s) \/ Crash(s),
             ~ CommitBackfill(s), ~ Stop(s)
      PROVE  ReceiptInv'
  BY <1>4 DEF CreateTable, Open, Crash, ReadColumns, AddColumn, ScanPending, ScanHead,
     BackfillRow, UpdateOldest, CreateTrigger, OpenFails, ReceiptInv
<1>5. ASSUME NEW s \in Services, NEW c \in Calls, NEW job \in Jobs, Submit(s, c, job)
      PROVE  ReceiptInv'
  BY <1>0, <1>5 DEF Submit, Shape, ReceiptInv
<1>6. ASSUME NEW c \in Calls, Commit(c) PROVE ReceiptInv'
  <2>1. entry[c] \in Rows
    BY <1>6 DEF Commit, IInv, EntryInv, InRecord
  <2>2. /\ Len(rows') = Len(rows) + 1 /\ rows'[Len(rows) + 1] = entry[c]
        /\ \A i \in 1 .. Len(rows) : rows'[i] = rows[i]
        /\ Len(rows) \in Nat
    BY <1>0, <1>6, <2>1 DEF Commit
  <2> QED
    BY <1>0, <1>6, <2>2 DEF Commit, Shape, ReceiptInv
<1>7. ASSUME NEW c \in Calls, Return(c) PROVE ReceiptInv'
  BY <1>0, <1>7 DEF Return, Shape, ReceiptInv
<1>8. ASSUME NEW c \in Calls, BeginImmediate(c) \/ ReadHead(c) \/ Insert(c) \/ RecordFails(c)
      PROVE  ReceiptInv'
  BY <1>0, <1>8 DEF BeginImmediate, ReadHead, Insert, RecordFails, Shape, ReceiptInv
<1> QED
  BY <1>1, <1>2, <1>3, <1>4, <1>5, <1>6, <1>7, <1>8 DEF Next, Work

\* It holds in every behaviour.
LEMMA ReceiptInvariance == Spec => []ReceiptInv
<1>1. Init => ReceiptInv
  BY DEF Init, ReceiptInv
<1> QED
  BY <1>1, ReceiptStep, Invariance, PTL DEF Spec

\* The row behind every seal that a caller was given is stored for good.
THEOREM ReceiptsStay == Spec => []ReceiptsDurable
<1>1. ReceiptInv => ReceiptsDurable
  BY DEF ReceiptInv, ReceiptsDurable
<1> QED
  BY <1>1, ReceiptInvariance, PTL

\* A call that raised has recorded nothing.
THEOREM FailuresLeaveNoRow == Spec => []FailedLeavesNoRow
<1>1. IInv => FailedLeavesNoRow
  BY DEF IInv, EntryInv, FailedLeavesNoRow
<1> QED
  BY <1>1, Invariance, PTL

\* No one ever sees a half-migrated table.
THEOREM MigrationIsAtomic == Spec => []MigrationAtomic
<1>1. IInv => MigrationAtomic
  BY BlankAssumption DEF IInv, ProtectInv, LegacyInv, SealedChain, MigrationAtomic
<1> QED
  BY <1>1, Invariance, PTL

\* A step may add a row at the end and fill in blank seals, and may change
\* nothing else in the history.
THEOREM HistoryNeverRewritten == Spec => HistoryOnlyGrows
<1> DEFINE Grows ==
      \A i \in 1 .. Len(rows) :
         /\ i <= Len(rows')
         /\ Facts(rows'[i]) = Facts(rows[i])
         /\ rows[i].record_sha256 # Blank => rows'[i] = rows[i]
<1>1. ASSUME IInv, Next PROVE Grows
  <2>0. rows \in Seq(Rows)
    BY <1>1 DEF IInv, TypeOK
  <2>1. ASSUME NEW s \in Services, CommitBackfill(s) PROVE Grows
    BY <1>1, <2>0, <2>1 DEF CommitBackfill, IInv, DraftInv, LegacyInv, Backfilled
  <2>2. ASSUME NEW c \in Calls, Commit(c) PROVE Grows
    <3>1. entry[c] \in Rows
      BY <1>1, <2>2 DEF Commit, IInv, EntryInv, InRecord
    <3> QED
      BY <2>0, <2>2, <3>1 DEF Commit
  <2>3. ASSUME rows' = rows PROVE Grows
    BY <2>0, <2>3
  <2>4. ASSUME NEW s \in Services, CreateTable(s) \/ Open(s) \/ Crash(s), ~ CommitBackfill(s)
        PROVE  rows' = rows
    BY <2>4 DEF CreateTable, Open, Crash, ReadColumns, AddColumn, ScanPending, ScanHead,
                BackfillRow, CreateTrigger, OpenFails, Stop, database
  <2>5. ASSUME NEW s \in Services, NEW c \in Calls, NEW job \in Jobs, Submit(s, c, job)
        PROVE  rows' = rows
    BY <2>5 DEF Submit, database
  <2>6. ASSUME NEW c \in Calls, Work(c), ~ Commit(c) PROVE rows' = rows
    BY <2>6 DEF Work, BeginImmediate, ReadHead, Insert, Return, RecordFails, database
  <2> QED
    BY <1>1, <2>1, <2>2, <2>3, <2>4, <2>5, <2>6 DEF Next
<1>2. IInv /\ [Next]_vars => [Grows]_vars
  BY <1>1
<1> QED
  BY <1>2, Invariance, PTL DEF Spec, HistoryOnlyGrows

-----------------------------------------------------------------------------
(* The schema *)

\* A process that goes on to the backfill has added every column it missed,
\* and no column is ever dropped.
ColumnsInv ==
    \A s \in Services :
        /\ service[s] = "altering" => Columns \ columns \subseteq missing[s]
        /\ service[s] \in {"scanned", "backfilling", "sealing", "serving"} => columns = Columns

\* Columns are only added, by whatever process: none that was read or added
\* before goes missing.
LEMMA ColumnsStep == IInv /\ ColumnsInv /\ [Next]_vars => ColumnsInv'
<1> SUFFICES ASSUME IInv, ColumnsInv, [Next]_vars PROVE ColumnsInv'
  OBVIOUS
<1>0. Shape /\ columns \subseteq Columns /\ missing \in [Services -> SUBSET Columns]
  BY ShapeFact DEF IInv, TypeOK
<1> USE DEF database, opening, recording, Shape
<1>1. CASE UNCHANGED vars
  BY <1>1 DEF vars, ColumnsInv
<1>2. ASSUME NEW s \in Services, CreateTable(s) PROVE ColumnsInv'
  <2>1. columns' = columns \/ columns' = Columns
    BY <1>2 DEF CreateTable
  <2> QED
    BY <1>0, <1>2, <2>1 DEF CreateTable, ColumnsInv
<1>3. ASSUME NEW s \in Services, ReadColumns(s) PROVE ColumnsInv'
  BY <1>0, <1>3 DEF ReadColumns, ColumnsInv
<1>4. ASSUME NEW s \in Services, NEW col \in Columns, AddColumn(s, col) PROVE ColumnsInv'
  <2>1. columns' = columns \union {col} /\ columns' \subseteq Columns
    BY <1>0, <1>4 DEF AddColumn
  <2>2. \A t \in Services : missing'[t] = IF t = s THEN missing[t] \ {col} ELSE missing[t]
    BY <1>0, <1>4 DEF AddColumn
  <2>3. service' = service
    BY <1>4 DEF AddColumn
  <2> QED
    BY <1>0, <2>1, <2>2, <2>3 DEF ColumnsInv
<1>5. ASSUME NEW s \in Services, ScanPending(s) PROVE ColumnsInv'
  BY <1>0, <1>5 DEF ScanPending, ColumnsInv
<1>6. ASSUME NEW s \in Services, ScanHead(s) PROVE ColumnsInv'
  BY <1>0, <1>6 DEF ScanHead, ColumnsInv
<1>7. ASSUME NEW s \in Services, BackfillRow(s) PROVE ColumnsInv'
  BY <1>0, <1>7 DEF BackfillRow, UpdateOldest, ColumnsInv
<1>8. ASSUME NEW s \in Services, CommitBackfill(s) PROVE ColumnsInv'
  BY <1>0, <1>8 DEF CommitBackfill, ColumnsInv
<1>9. ASSUME NEW s \in Services, CreateTrigger(s) PROVE ColumnsInv'
  BY <1>0, <1>9 DEF CreateTrigger, ColumnsInv
<1>10. ASSUME NEW s \in Services, Stop(s) PROVE ColumnsInv'
  BY <1>0, <1>10 DEF Stop, Forget, ColumnsInv
<1>11. ASSUME NEW s \in Services, NEW c \in Calls, NEW job \in Jobs, Submit(s, c, job)
       PROVE  ColumnsInv'
  BY <1>11 DEF Submit, ColumnsInv
<1>12. ASSUME NEW c \in Calls, Work(c) PROVE ColumnsInv'
  BY <1>12 DEF Work, BeginImmediate, ReadHead, Insert, Commit, Return, RecordFails, ColumnsInv
<1> QED
  BY <1>1, <1>2, <1>3, <1>4, <1>5, <1>6, <1>7, <1>8, <1>9, <1>10, <1>11, <1>12
     DEF Next, Open, OpenFails, Crash

\* A process that serves has the whole schema under it.
LEMMA SchemaComplete == Spec => []ColumnsInv
<1>1. Init => ColumnsInv
  BY DEF Init, ColumnsInv
<1>2. IInv /\ ColumnsInv /\ [Next]_vars => ColumnsInv'
  BY ColumnsStep
<1> QED
  BY <1>1, <1>2, Invariance, PTL DEF Spec

-----------------------------------------------------------------------------
(* The refinement of the append-only log: the threads, locks, transactions *)
(* and migrations of the repository are invisible to whoever reads the log *)
(* and the answers.                                                        *)

\* The mapped variables, under names of their own.
LogOf(table) == [i \in 1 .. Len(table) |-> Facts(table[i])]

OutcomeOf(calls) == [c \in Calls |-> IF calls[c] \in InRecord THEN "open" ELSE calls[c]]

\* The log has one entry per row, and an entry has the run_id of its row.
LEMMA LogEntries ==
    ASSUME NEW table \in Seq(Rows)
    PROVE  /\ Len(LogOf(table)) = Len(table)
           /\ \A i \in 1 .. Len(table) : LogOf(table)[i] = Facts(table[i])
           /\ \A i \in 1 .. Len(table) : LogOf(table)[i].run_id = table[i].run_id
  BY DEF LogOf, Facts

\* Two tables that say the same of every run are the same log.
LEMMA SameLog ==
    ASSUME NEW old \in Seq(Rows), NEW new \in Seq(Rows), Len(old) = Len(new),
           \A i \in 1 .. Len(old) : Facts(new[i]) = Facts(old[i])
    PROVE  LogOf(new) = LogOf(old)
  BY DEF LogOf

\* A call is logged exactly when a row has its run_id.
LEMMA LoggedRow ==
    ASSUME rows \in Seq(Rows), NEW c \in Calls
    PROVE  Audit!Logged(c) <=> \E i \in 1 .. Len(rows) : rows[i].run_id = c
  BY LogEntries DEF Audit!Logged, LogOf

-----------------------------------------------------------------------------
\* A step that changes neither what the rows say nor any answer.
Invisible == LogOf(rows') = LogOf(rows) /\ OutcomeOf(call') = OutcomeOf(call)

\* The initial database holds no record of any call.
LEMMA InitRefines == Init => Audit!Init
<1> SUFFICES ASSUME Init PROVE Audit!Init
  OBVIOUS
<1>1. rows \in Seq(Rows)
  BY InitInv DEF IInv, TypeOK
<1>2. \A i \in 1 .. Len(rows) : rows[i].run_id \notin Calls
  BY RepositoryAssumption DEF Init, NoRows
<1>3. \A c \in Calls : ~ Audit!Logged(c)
  BY <1>1, <1>2, LoggedRow
<1>4. \A c \in Calls : call[c] = "idle"
  BY DEF Init
<1> QED
  BY <1>3, <1>4 DEF Audit!Init, InRecord

\* A start-up step says and answers nothing, the commit of the backfill
\* included: a sealed row says what it said before.
LEMMA OpeningRefines ==
    ASSUME IInv, IInv', NEW s \in Services,
           \/ CreateTable(s) \/ ReadColumns(s) \/ (\E col \in Columns : AddColumn(s, col))
           \/ ScanPending(s) \/ ScanHead(s) \/ BackfillRow(s) \/ CommitBackfill(s)
           \/ CreateTrigger(s)
    PROVE  Invisible
<1>1. call' = call
  BY DEF CreateTable, ReadColumns, AddColumn, ScanPending, ScanHead, BackfillRow, UpdateOldest,
         CommitBackfill, CreateTrigger, recording, database
<1>2. CASE CommitBackfill(s)
  <2>1. /\ rows \in Seq(Rows) /\ rows' \in Seq(Rows) /\ Len(rows') = Len(rows)
        /\ \A i \in 1 .. Len(rows) : Facts(rows'[i]) = Facts(rows[i])
    BY <1>2 DEF CommitBackfill, IInv, TypeOK, DraftInv, Backfilled
  <2> QED
    BY <2>1, <1>1, SameLog DEF Invisible
<1>3. CASE ~ CommitBackfill(s)
  <2>1. rows' = rows
    BY <1>3 DEF CreateTable, ReadColumns, AddColumn, ScanPending, ScanHead, BackfillRow,
         UpdateOldest, CreateTrigger, database
  <2> QED
    BY <2>1, <1>1 DEF Invisible
<1> QED
  BY <1>2, <1>3

\* Losing a process loses the answers of its open calls, and nothing else.
LEMMA StopRefines ==
    ASSUME IInv, NEW s \in Services, Stop(s)
    PROVE  Audit!Lose \/ Invisible
<1> DEFINE lost == {c \in Calls : owner[c] = s /\ call[c] \in InRecord}
<1>1. rows' = rows
  BY DEF Stop
<1>2. \A c \in Calls : call'[c] = IF c \in lost THEN "lost" ELSE call[c]
  BY DEF Stop, Forget
<1>3. OutcomeOf(call') = [c \in Calls |-> IF c \in lost THEN "lost" ELSE OutcomeOf(call)[c]]
  BY <1>2 DEF OutcomeOf, InRecord
<1>4. lost \subseteq {c \in Calls : OutcomeOf(call)[c] = "open"}
  BY DEF OutcomeOf
<1>5. CASE lost = {}
  BY <1>5, <1>3, <1>1 DEF Invisible, OutcomeOf
<1>6. CASE lost # {}
  BY <1>6, <1>3, <1>4, <1>1 DEF Audit!Lose, OutcomeOf, LogOf
<1> QED
  BY <1>5, <1>6

\* A commit puts exactly one record of an open call at the end of the log.
LEMMA CommitRefines ==
    ASSUME IInv, IInv', NEW c \in Calls, Commit(c)
    PROVE  Audit!Record(c)
<1>1. rows \in Seq(Rows) /\ rows' \in Seq(Rows)
  BY DEF IInv, TypeOK
<1>2. rows' = Append(rows, entry[c]) /\ entry[c] \in Rows /\ entry[c].run_id = c
  BY DEF Commit, IInv, EntryInv, InRecord
<1>3. /\ Len(rows') = Len(rows) + 1
      /\ \A i \in 1 .. Len(rows) : rows'[i] = rows[i]
      /\ rows'[Len(rows) + 1].run_id = c
  BY <1>1, <1>2
<1>4. ~ Audit!Logged(c)
  BY <1>1, LoggedRow DEF Commit, IInv, EntryInv, InTransaction
<1>5. OutcomeOf(call)[c] = "open" /\ OutcomeOf(call') = OutcomeOf(call)
  BY DEF Commit, OutcomeOf, InRecord, IInv, TypeOK
<1>6. /\ Len(LogOf(rows')) = Len(LogOf(rows)) + 1
      /\ \A i \in 1 .. Len(LogOf(rows)) : LogOf(rows')[i] = LogOf(rows)[i]
      /\ LogOf(rows')[Len(LogOf(rows)) + 1].run_id = c
  BY <1>1, <1>3, LogEntries
<1> QED
  BY <1>4, <1>5, <1>6 DEF Audit!Record, LogOf, OutcomeOf

\* Every other step of a call starts it, answers it, or is invisible.
LEMMA CallRefines ==
    ASSUME IInv, ReceiptInv, NEW c \in Calls,
           \/ \E s \in Services, job \in Jobs : Submit(s, c, job)
           \/ BeginImmediate(c) \/ ReadHead(c) \/ Insert(c) \/ Return(c) \/ RecordFails(c)
    PROVE  Audit!Submit(c) \/ Audit!Acknowledge(c) \/ Audit!Fail(c) \/ Invisible
<1>1. rows' = rows /\ rows \in Seq(Rows)
  BY DEF Submit, BeginImmediate, ReadHead, Insert, Return, RecordFails, database, IInv, TypeOK
<1>2. DOMAIN call = Calls
  BY DEF IInv, TypeOK
<1>3. CASE \E s \in Services, job \in Jobs : Submit(s, c, job)
  <2>1. \E o \in {"open", "failed"} :
          OutcomeOf(call') = [OutcomeOf(call) EXCEPT ![c] = o]
    BY <1>2, <1>3 DEF Submit, OutcomeOf, InRecord
  <2>2. OutcomeOf(call)[c] = "idle"
    BY <1>3 DEF Submit, OutcomeOf, InRecord
  <2> QED
    BY <2>1, <2>2, <1>1 DEF Audit!Submit, OutcomeOf, LogOf
<1>4. CASE BeginImmediate(c) \/ ReadHead(c) \/ Insert(c)
  <2>1. OutcomeOf(call') = OutcomeOf(call)
    BY <1>2, <1>4 DEF BeginImmediate, ReadHead, Insert, OutcomeOf, InRecord
  <2> QED
    BY <2>1, <1>1 DEF Invisible
<1>5. CASE Return(c)
  <2>1. Audit!Logged(c)
    <3>1. PICK i \in 1 .. Len(rows) : rows[i] = entry[c]
      BY <1>5 DEF Return, ReceiptInv
    <3>2. entry[c].run_id = c
      BY <1>5 DEF Return, IInv, EntryInv, InRecord
    <3> QED
      BY <3>1, <3>2, <1>1, LoggedRow
  <2>2. OutcomeOf(call)[c] = "open" /\ OutcomeOf(call') = [OutcomeOf(call) EXCEPT ![c] = "acked"]
    BY <1>2, <1>5 DEF Return, OutcomeOf, InRecord
  <2> QED
    BY <2>1, <2>2, <1>1 DEF Audit!Acknowledge, OutcomeOf, LogOf
<1>6. CASE RecordFails(c)
  <2>1. ~ Audit!Logged(c)
    BY <1>6, <1>1, LoggedRow DEF RecordFails, IInv, EntryInv, InTransaction
  <2>2. OutcomeOf(call)[c] = "open" /\ OutcomeOf(call') = [OutcomeOf(call) EXCEPT ![c] = "failed"]
    BY <1>2, <1>6 DEF RecordFails, OutcomeOf, InRecord, InTransaction
  <2> QED
    BY <2>1, <2>2, <1>1 DEF Audit!Fail, OutcomeOf, LogOf
<1> QED
  BY <1>3, <1>4, <1>5, <1>6

\* Every step of the repository is a step of the log or invisible in it.
LEMMA StepRefines == IInv /\ IInv' /\ ReceiptInv /\ [Next]_vars => [Audit!Next]_(Audit!vars)
<1> SUFFICES ASSUME IInv, IInv', ReceiptInv, [Next]_vars PROVE Audit!Next \/ Invisible
  BY DEF Audit!vars, Invisible, LogOf, OutcomeOf
<1>1. CASE UNCHANGED vars
  BY <1>1 DEF vars, database, recording, Invisible
<1>2. CASE \E s \in Services : CreateTable(s) \/ Open(s) \/ Crash(s)
  BY <1>2, OpeningRefines, StopRefines DEF Open, OpenFails, Crash, Audit!Next
<1>3. CASE \E s \in Services, c \in Calls, job \in Jobs : Submit(s, c, job)
  BY <1>3, CallRefines DEF Audit!Next
<1>4. CASE \E c \in Calls : Work(c)
  BY <1>4, CallRefines, CommitRefines DEF Work, Audit!Next
<1> QED
  BY <1>1, <1>2, <1>3, <1>4 DEF Next

\* The run repository implements the append-only log that its callers rely on.
THEOREM RepositoryIsALog == Spec => ImplementsAuditLog
<1>1. Init => Audit!Init
  BY InitRefines
<1>2. IInv /\ IInv' /\ ReceiptInv /\ [Next]_vars => [Audit!Next]_(Audit!vars)
  BY StepRefines
<1> QED
  BY <1>1, <1>2, Invariance, ReceiptInvariance, PTL DEF Spec, ImplementsAuditLog, Audit!Spec
=============================================================================
