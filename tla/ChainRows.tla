------------------------------ MODULE ChainRows ------------------------------
(***************************************************************************)
(* The rows of table diagnostic_runs, the hash that links them, and the    *)
(* verifier that reads the chain back (storage/repository.py).             *)
(*                                                                         *)
(* A row keeps the columns the chain is about.  operator_id,               *)
(* evidence_grade, baseline_sha256 and data_sha256 always travel together  *)
(* and are the one column labels; the other columns are never hashed.      *)
(*                                                                         *)
(* A result document is what json.loads makes of result_json: its body,    *)
(* which is put into canonical form and hashed, and its audit member,      *)
(* which is dropped before that, as is the formatting of the text.  The    *)
(* request is hashed as the text that is stored.                           *)
(*                                                                         *)
(* SHA-256 is taken to be free of collisions: the digest of a text is the  *)
(* tagged text, and the digest of a record is the sequence of everything   *)
(* that was ever hashed into it, which is what chaining the previous       *)
(* digest into the next makes it depend on.                                *)
(***************************************************************************)
EXTENDS Integers, Sequences, FiniteSetsExt

CONSTANTS
    RunIds,         \* uuid4 run identifiers
    Times,          \* values of the wall clock in created_at
    Labels,         \* operator, grade and dataset digests of a run
    LegacyLabels,   \* what the migration writes where those were blank
    Payloads,       \* JSON documents that have a canonical form
    EmptyObject,    \* the one of them that is {}
    Malformed,      \* a stored or computed document that has none (NaN, bad JSON)
    Blank           \* the text ''; no audit member, in a result

ASSUME ColumnAssumption ==
    /\ LegacyLabels \in Labels
    /\ Blank \notin Labels
    /\ EmptyObject \in Payloads
    /\ Malformed \notin Payloads
    /\ Blank \notin Payloads

-----------------------------------------------------------------------------

Sha256Text(text) == <<"sha256", text>>

\* Everything _record_hash joins after the previous hash.
Material ==
    [run_id : RunIds, created_at : Times, labels : Labels,
     request_sha256 : {Sha256Text(p) : p \in Payloads},
     result_sha256 : {Sha256Text(p) : p \in Payloads}]

Digests == Seq(Material)

\* The stored results.
Documents == [body : Payloads, audit : Digests \union {Blank}]

ASSUME BlankAssumption == Blank \notin Digests /\ Malformed \notin Documents

GENESIS_HASH == <<>>

RecordHash(previous, material) == Append(previous, material)

\* A stored row; the digest columns are blank until the row is sealed.
Rows ==
    [run_id : RunIds, created_at : Times, labels : Labels \union {Blank},
     request_json : Payloads \union {Blank}, result_json : Documents \union {Malformed},
     request_sha256 : {Sha256Text(p) : p \in Payloads} \union {Blank},
     result_sha256 : {Sha256Text(p) : p \in Payloads} \union {Blank},
     previous_record_sha256 : Digests \union {Blank},
     record_sha256 : Digests \union {Blank}]

\* pop("audit") and the canonical form of the rest.
Canonical(document) == document.body

MaterialOf(row) ==
    [run_id |-> row.run_id, created_at |-> row.created_at, labels |-> row.labels,
     request_sha256 |-> Sha256Text(row.request_json),
     result_sha256 |-> Sha256Text(Canonical(row.result_json))]

\* The row with its digest columns computed on top of the digest `previous`.
Sealed(row, previous) ==
    [row EXCEPT !.request_sha256 = Sha256Text(row.request_json),
                !.result_sha256 = Sha256Text(Canonical(row.result_json)),
                !.previous_record_sha256 = previous,
                !.record_sha256 = RecordHash(previous, MaterialOf(row))]

\* What record() and the migration's SELECT take for the digest to build on.
HeadOf(rows) ==
    IF rows = <<>> THEN GENESIS_HASH ELSE rows[Len(rows)].record_sha256

-----------------------------------------------------------------------------
\* The verifier.

\* A slip: the stored result is not hashed again.
RowValidStoredResult(row, previous) ==
    /\ row.result_json # Malformed
    /\ row.previous_record_sha256 = previous
    /\ row.request_sha256 = Sha256Text(row.request_json)
    /\ row.record_sha256 =
           RecordHash(previous, [MaterialOf(row) EXCEPT !.result_sha256 = row.result_sha256])

\* One pass of the loop body; Malformed stands for every exception it catches.
RowValid(row, previous) ==
    /\ row.result_json # Malformed
    /\ row.previous_record_sha256 = previous
    /\ row.request_sha256 = Sha256Text(row.request_json)
    /\ row.result_sha256 = Sha256Text(Canonical(row.result_json))
    /\ row.record_sha256 = RecordHash(previous, MaterialOf(row))

NoRun == "none"

\* The loop's outcome before it has read a row.
Unread ==
    [valid |-> TRUE, checked_records |-> 0,
     first_invalid_run_id |-> NoRun, head_record_sha256 |-> GENESIS_HASH]

\* A slip: the head that is reported is that of the row that failed.
ReadRowPastBreak(before, row) ==
    LET valid == RowValid(row, before.head_record_sha256)
    IN  IF ~ before.valid THEN before
        ELSE [valid |-> valid,
              checked_records |-> before.checked_records + 1,
              first_invalid_run_id |-> IF valid THEN NoRun ELSE row.run_id,
              head_record_sha256 |-> row.record_sha256]

\* The loop's outcome with one more row: a broken row ends it, and every row
\* after that one goes unread.
ReadRow(before, row) ==
    IF ~ before.valid THEN before
    ELSE IF RowValid(row, before.head_record_sha256)
    THEN [valid |-> TRUE, checked_records |-> before.checked_records + 1,
          first_invalid_run_id |-> NoRun,
          head_record_sha256 |-> RecordHash(before.head_record_sha256, MaterialOf(row))]
    ELSE [valid |-> FALSE, checked_records |-> before.checked_records + 1,
          first_invalid_run_id |-> row.run_id,
          head_record_sha256 |-> before.head_record_sha256]

\* verify_chain_rows: Walk[i] is the outcome over the first i rows.
VerifyChainRows(rows) ==
    LET Walk[i \in 0 .. Len(rows)] ==
          IF i = 0 THEN Unread ELSE ReadRow(Walk[i - 1], rows[i])
    IN  Walk[Len(rows)]

\* The reference reading: the digest that the row before a row stores, and the
\* rows that are not valid on top of it.
DigestBefore(rows, i) ==
    IF i = 1 THEN GENESIS_HASH ELSE rows[i - 1].record_sha256

Broken(rows) == {i \in 1 .. Len(rows) : ~ RowValid(rows[i], DigestBefore(rows, i))}

\* The verdict on rows of which `broken` are not valid: the first is named.
VerdictOn(rows, broken) ==
    IF broken = {}
    THEN [valid |-> TRUE, checked_records |-> Len(rows),
          first_invalid_run_id |-> NoRun, head_record_sha256 |-> HeadOf(rows)]
    ELSE [valid |-> FALSE, checked_records |-> Min(broken),
          first_invalid_run_id |-> rows[Min(broken)].run_id,
          head_record_sha256 |-> DigestBefore(rows, Min(broken))]

-----------------------------------------------------------------------------
\* The migration reads {} for a request that is blank, and leaves it blank.

Filled(row) == [row EXCEPT !.request_json = IF @ = Blank THEN EmptyObject ELSE @]

\* The row's seal was computed on top of that digest.
SealedOn(row, previous) == RowValid(Filled(row), previous)

Chain(rows) == \A i \in 1 .. Len(rows) : SealedOn(rows[i], DigestBefore(rows, i))

BlankRequests(rows) == {i \in 1 .. Len(rows) : rows[i].request_json = Blank}
=============================================================================
