---------------------------- MODULE MCChainVerify ----------------------------
(***************************************************************************)
(* A small instance of the repository under an edit, for TLC.              *)
(***************************************************************************)
EXTENDS ChainTampering

CONSTANTS old1, old2, other, p, q, given, legacy

MCRunIds == Calls \union {old1, old2, other}

MCTimes == 1 .. 2

\* An unsealed row of an older program.
Old(id, at, request) ==
    [run_id |-> id, created_at |-> at, labels |-> Blank,
     request_json |-> request, result_json |-> [body |-> p, audit |-> Blank],
     request_sha256 |-> Blank, result_sha256 |-> Blank,
     previous_record_sha256 |-> Blank, record_sha256 |-> Blank]

\* An older database, empty or with two runs, the request of the first or of
\* neither blank.
MCLegacyRows ==
    {<<>>} \union {<<Old(old1, 2, request), Old(old2, 1, p)>> : request \in {p, Blank}}

\* Two runs that agree in nothing but their labels.
MCJobs ==
    {[created_at |-> 1, labels |-> given, request_json |-> p, result_json |-> q],
     [created_at |-> 2, labels |-> given, request_json |-> q, result_json |-> p]}
=============================================================================
