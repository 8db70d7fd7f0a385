----------------------------- MODULE MCAuditChain -----------------------------
(***************************************************************************)
(* Small instances of the run repository for TLC.                          *)
(***************************************************************************)
EXTENDS AuditChain

CONSTANTS l1, l2, l3, ok, given, legacy

MCRunIds == Calls \union {l1, l2, l3}

MCTimes == 1 .. 2

Parsed == [body |-> ok, audit |-> Blank]

\* The older program ran under a clock that was set back between two runs.
Old(id, at, request, result) ==
    [run_id |-> id, created_at |-> at, labels |-> Blank,
     request_json |-> request, result_json |-> result,
     request_sha256 |-> Blank, result_sha256 |-> Blank,
     previous_record_sha256 |-> Blank, record_sha256 |-> Blank]

Sound == <<Old(l1, 2, ok, Parsed), Old(l2, 1, ok, Parsed)>>

WithBlankRequest == <<Old(l1, 2, ok, Parsed), Old(l2, 1, Blank, Parsed)>>

WithBadResult ==
    <<Old(l1, 1, ok, Parsed), Old(l2, 1, ok, Malformed), Old(l3, 1, ok, Parsed)>>

\* A database of an older program: sound, with a request that is blank, or
\* with a result that never parsed.
MCLegacyRows == {Sound, WithBlankRequest, WithBadResult}

\* Only the one whose request is blank.
MCBlankRequest == {WithBlankRequest}

Job(at, result) ==
    [created_at |-> at, labels |-> given, request_json |-> ok, result_json |-> result]

\* The clock stands behind the newest legacy row; a result may have NaN.
MCJobs == {Job(1, ok), Job(1, Malformed)}
=============================================================================
