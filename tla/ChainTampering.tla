---------------------------- MODULE ChainTampering ----------------------------
(***************************************************************************)
(* The run repository with one edit of its table made behind its back: a   *)
(* column overwritten, a row deleted, two rows exchanged.  The API goes on *)
(* recording, failing and restarting before and after the edit, and        *)
(* verify_chain_rows can be asked at any moment.                           *)
(***************************************************************************)
EXTENDS AuditChain, SequencesExt

VARIABLE edit       \* rowid of the first row the edit changed; 0 while there is
                    \* none, Unseen if no hash was ever taken of what it changed

tamperVars == <<vars, edit>>

Unseen == -1

\* Other values of one column, the digests of other rows among them.  A run_id
\* stays unique, as the primary key of the table.
Overwritten(row) ==
    {[row EXCEPT !.run_id = x] :
        x \in RunIds \ (Calls \union {rows[i].run_id : i \in 1 .. Len(rows)})}
    \union {[row EXCEPT !.created_at = x] : x \in Times}
    \union {[row EXCEPT !.labels = x] : x \in Labels}
    \union {[row EXCEPT !.request_json = x] : x \in Payloads \union {Blank}}
    \union {[row EXCEPT !.result_json = x] :
               x \in {Malformed} \union
                  [body : Payloads,
                   audit : {Blank} \union {rows[i].record_sha256 : i \in 1 .. Len(rows)}]}
    \union {[row EXCEPT !.request_sha256 = Sha256Text(x)] : x \in Payloads}
    \union {[row EXCEPT !.result_sha256 = Sha256Text(x)] : x \in Payloads}
    \union {[row EXCEPT !.record_sha256 = rows[i].record_sha256] : i \in 1 .. Len(rows)}
    \union {[row EXCEPT !.previous_record_sha256 = rows[i].record_sha256] :
               i \in 1 .. Len(rows)}

Overwrite(i) ==
    \E row \in Overwritten(rows[i]) \ {rows[i]} : rows' = [rows EXCEPT ![i] = row]

\* The newest row is left alone: no later row shows that it was there.
Delete(i) == i < Len(rows) /\ rows' = RemoveAt(rows, i)

Exchange(i) ==
    \E j \in i + 1 .. Len(rows) : rows' = [rows EXCEPT ![i] = rows[j], ![j] = rows[i]]

\* What the seal of a row was computed from, beside the digest before it.
Hashed(row) ==
    [Filled(row) EXCEPT !.result_json = IF @ = Malformed THEN @ ELSE Canonical(@)]

\* The edit is a transaction of its own; it drops the triggers of a sealed
\* table and puts them back.
Tamper ==
    /\ edit = 0
    /\ triggers = Kinds
    /\ lock = Free
    /\ \E i \in 1 .. Len(rows) :
         \/ /\ Overwrite(i)
            /\ edit' = IF Hashed(rows'[i]) = Hashed(rows[i]) THEN Unseen ELSE i
         \/ /\ Delete(i) \/ Exchange(i)
            /\ edit' = i
    /\ UNCHANGED <<columns, triggers, lock, opening, recording>>

InitTampering == Init /\ edit = 0

NextTampering == (Next /\ UNCHANGED edit) \/ Tamper

SpecTampering == InitTampering /\ [][NextTampering]_tamperVars

\* The loop's verdict is the reference reading of whatever is stored: valid
\* exactly when every row is valid on the one before, and otherwise naming the
\* first row that is not, with the digest of the last good row as the head.
VerdictExact == VerifyChainRows(rows) = VerdictOn(rows, Broken(rows))

\* Verification finds every edit of what was hashed, deletion and exchange, and
\* stops at the first row that was touched, not somewhere after it; no run
\* recorded later, failure or restart hides it.  Only a blank request before
\* it ends the verification earlier.  What was never hashed can be edited
\* without a trace: the audit member and the formatting of a stored result,
\* which GET /v1/runs/{run_id} returns; and writing {} for a blank request
\* makes that row valid.
EditLocated ==
    /\ edit > 0 =>
          LET earlier == {i \in BlankRequests(rows) : i < edit}
          IN  VerifyChainRows(rows) = VerdictOn(rows, earlier \union {edit})
    /\ edit = Unseen => VerifyChainRows(rows) = VerdictOn(rows, BlankRequests(rows))
=============================================================================
