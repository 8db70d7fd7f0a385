------------------------------- MODULE Service -------------------------------
(***************************************************************************)
(* The API process (service/app.py): the middleware that every request     *)
(* passes twice, the permission check, the endpoints, and the database     *)
(* lock they share.                                                        *)
(*                                                                         *)
(* The middleware and the CSV endpoint run on the event loop, and nothing  *)
(* else runs there until they await; checks and the other endpoints run in *)
(* worker threads.  From a CSV's analysis to the commit of its run there   *)
(* is no await, so the loop waits with it for the database (variable loop). *)
(***************************************************************************)
EXTENDS Naturals, Sequences, FiniteSets, Auth, DataContract

CONSTANTS
    Requests,       \* requests, each with what it asks for
    Ask,            \* Ask[r]: the endpoint, the remote address, the caller, the upload
    Remotes,        \* remote addresses
    Settings,       \* settings a deployment may have
    AllowReview,    \* SMARTVALVE_ALLOW_REVIEW_DATA
    Limit,          \* requests of a remote address in a window, at least one
    Window,         \* the 60 seconds of the window, in ticks
    MaxTime,        \* bound on the clock
    Free            \* no request

Diagnostics == {"simulation", "cranfield", "csv"}

\* Paths outside /v1/ need no permission and are not limited.
Open == {"probe", "metrics"}

Endpoints == Diagnostics \union Open \union {"evidence", "sample", "records"}

ASSUME ServiceAssumption ==
    /\ Limit \in Nat \ {0} /\ Window \in Nat \ {0} /\ MaxTime \in Nat
    /\ AllowReview \in BOOLEAN
    /\ IsFiniteSet(Requests) /\ Free \notin Requests
    /\ \A r \in Requests :
         /\ Ask[r].endpoint \in Endpoints /\ Ask[r].remote \in Remotes
         /\ Ask[r].upload.form \in {200, 413, 415, 422}
         /\ Ask[r].upload.baseline \in Frames /\ Ask[r].upload.current \in Frames
    /\ \A settings \in Settings : settings.mode \in {"api_key", "oidc"}

VARIABLES
    settings,   \* what the authenticator was built from; mode "none" before start-up
    clock,      \* time.monotonic()
    window,     \* rate_windows
    admitted,   \* history: the times at which requests of a remote were let in
    request_count, error_count, route_metrics,
    loop,       \* the request whose code blocks the event loop, or Free
    lock,       \* the request that holds the database's write lock, or Free
    runs,       \* the recorded runs, oldest first; a run is named by its request
    step,       \* how far each request is
    principal,  \* request.state.principal
    status      \* the status of its response; 500 is an unhandled exception

counters == <<request_count, error_count, route_metrics>>
limiter == <<clock, window, admitted>>
vars == <<settings, limiter, counters, loop, lock, runs, step, principal, status>>

Statuses == {0, 200, 400, 401, 403, 404, 413, 415, 422, 429, 500, 503}

Steps == {"new", "permission", "handler", "record", "recording", "response", "answered"}

Init ==
    /\ settings = [mode |-> "none"]
    /\ clock = 0
    /\ window = [m \in Remotes |-> <<>>] /\ admitted = window
    /\ request_count = 0 /\ error_count = 0
    /\ route_metrics = <<>>
    /\ loop = Free /\ lock = Free /\ runs = <<>>
    /\ step = [r \in Requests |-> "new"]
    /\ principal = [r \in Requests |-> NoPrincipal]
    /\ status = [r \in Requests |-> 0]

\* lifespan(): a deployment with other settings does not start.
Start(s) ==
    /\ settings.mode = "none"
    /\ Accepted(s)
    /\ settings' = s
    /\ UNCHANGED <<limiter, counters, loop, lock, runs, step, principal, status>>

Tick ==
    /\ clock < MaxTime
    /\ clock' = clock + 1
    /\ UNCHANGED <<settings, window, admitted, counters, loop, lock, runs, step, principal, status>>

-----------------------------------------------------------------------------
\* The middleware, on the way in.

Arrives(r) ==
    /\ settings.mode # "none"
    /\ loop = Free
    /\ step[r] = "new"
    /\ request_count' = request_count + 1
    /\ UNCHANGED <<settings, clock, route_metrics, loop, lock, runs, principal>>

Limited(r) == Production /\ Ask[r].endpoint \notin Open

\* The first n times of a window have left it, and the next has not.
Expired(w, n) ==
    /\ \A i \in 1 .. n : w[i] + Window <= clock
    /\ n < Len(w) => w[n + 1] + Window > clock

\* What is left of a window, the only member.
Pruned(w) == {SubSeq(w, n + 1, Len(w)) : n \in {k \in 0 .. Len(w) : Expired(w, k)}}

GoesOn(r) ==
    /\ step' = [step EXCEPT ![r] = IF Ask[r].endpoint \in Open THEN "handler" ELSE "permission"]
    /\ UNCHANGED <<error_count, status>>

Pass(r) ==
    /\ Arrives(r)
    /\ ~ Limited(r)
    /\ GoesOn(r)
    /\ UNCHANGED <<window, admitted>>

LetIn(r, w) ==
    /\ window' = [window EXCEPT ![Ask[r].remote] = Append(w, clock)]
    /\ admitted' = [admitted EXCEPT ![Ask[r].remote] = Append(@, clock)]

\* A slip: the limit is compared before the request is counted.
AdmitOneMore(r) ==
    /\ Arrives(r)
    /\ Limited(r)
    /\ \E w \in Pruned(window[Ask[r].remote]) : Len(w) <= Limit /\ LetIn(r, w)
    /\ GoesOn(r)

Admit(r) ==
    /\ Arrives(r)
    /\ Limited(r)
    /\ \E w \in Pruned(window[Ask[r].remote]) : Len(w) < Limit /\ LetIn(r, w)
    /\ GoesOn(r)

TurnAway(r) ==
    /\ error_count' = error_count + 1
    /\ step' = [step EXCEPT ![r] = "answered"]
    /\ status' = [status EXCEPT ![r] = 429]
    /\ UNCHANGED admitted

\* A slip: old times are dropped only when a request is let in.
RefuseUnpruned(r) ==
    /\ Arrives(r)
    /\ Limited(r)
    /\ Len(window[Ask[r].remote]) >= Limit
    /\ UNCHANGED window
    /\ TurnAway(r)

Refuse(r) ==
    /\ Arrives(r)
    /\ Limited(r)
    /\ \E w \in Pruned(window[Ask[r].remote]) :
         Len(w) >= Limit /\ window' = [window EXCEPT ![Ask[r].remote] = w]
    /\ TurnAway(r)

-----------------------------------------------------------------------------
\* Between the two passes of the middleware.

Respond(r, code) ==
    /\ step' = [step EXCEPT ![r] = "response"]
    /\ status' = [status EXCEPT ![r] = code]

Permission(endpoint) ==
    IF endpoint \in Diagnostics THEN DIAGNOSE_PERMISSION
    ELSE IF endpoint = "records" THEN AUDIT_PERMISSION
    ELSE READ_PERMISSION

\* A body that is not JSON or not a form is refused before anyone is asked
\* who is calling.
RejectBody(r) ==
    /\ step[r] = "permission"
    /\ Ask[r].endpoint \in Diagnostics
    /\ \E code \in {400, 422} : Respond(r, code)
    /\ UNCHANGED <<settings, limiter, counters, loop, lock, runs, principal>>

\* Keys that cannot be fetched make a good token look like a bad one, or raise.
CheckPermission(r) ==
    /\ step[r] = "permission"
    /\ LET who == Authenticate(settings, Ask[r].caller) IN
         \/ /\ who = NoPrincipal \/ settings.mode = "oidc"
            /\ Respond(r, 401)
            /\ UNCHANGED principal
         \/ /\ MayRaise(settings, Ask[r].caller)
            /\ Respond(r, 500)
            /\ UNCHANGED principal
         \/ /\ who # NoPrincipal
            /\ ~ Can(who, Permission(Ask[r].endpoint))
            /\ Respond(r, 403)
            /\ UNCHANGED principal
         \/ /\ who # NoPrincipal
            /\ Can(who, Permission(Ask[r].endpoint))
            /\ principal' = [principal EXCEPT ![r] = who]
            /\ step' = [step EXCEPT ![r] = "handler"]
            /\ UNCHANGED status
    /\ UNCHANGED <<settings, limiter, counters, loop, lock, runs>>

\* What an endpoint that records nothing may answer.
ReadStatuses ==
    [metrics |-> {200}, probe |-> {200, 503}, records |-> {200, 404, 422, 500},
     evidence |-> {200, 422, 500, 503}, sample |-> {200, 422, 500, 503}]

HandleRead(r) ==
    /\ step[r] = "handler"
    /\ Ask[r].endpoint \notin Diagnostics
    /\ \E code \in ReadStatuses[Ask[r].endpoint] : Respond(r, code)
    /\ UNCHANGED <<settings, limiter, counters, loop, lock, runs, principal>>

\* diagnose_simulation and diagnose_cranfield up to record(): a field or a
\* value out of bounds, a missing file, another exception, or a run.
Compute(r) ==
    /\ step[r] = "handler"
    /\ Ask[r].endpoint \in {"simulation", "cranfield"}
    /\ \/ \E code \in {422, 500, 503} : Respond(r, code)
       \/ step' = [step EXCEPT ![r] = "record"] /\ UNCHANGED status
    /\ UNCHANGED <<settings, limiter, counters, loop, lock, runs, principal>>

Verdicts(upload) == {Verdict(upload.baseline), Verdict(upload.current)}

\* An upload whose frames may go to the pipeline.
FitForDiagnosis(upload) ==
    /\ "REJECTED" \notin Verdicts(upload)
    /\ AllowReview \/ Verdicts(upload) = {"ACCEPTED"}

\* diagnose_csv up to record(): the form comes first (its name, its type, its
\* size), then the frames, then whatever the pipeline raises.
AnalyseUpload(r) ==
    /\ step[r] = "handler"
    /\ Ask[r].endpoint = "csv"
    /\ loop = Free
    /\ LET upload == Ask[r].upload IN
         \/ /\ upload.form # 200
            /\ Respond(r, upload.form)
            /\ UNCHANGED loop
         \/ /\ upload.form = 200
            /\ \E code \in {422, 500} : Respond(r, code)
            /\ UNCHANGED loop
         \/ /\ upload.form = 200
            /\ FitForDiagnosis(upload)
            /\ step' = [step EXCEPT ![r] = "record"]
            /\ loop' = r
            /\ UNCHANGED status
    /\ UNCHANGED <<settings, limiter, counters, lock, runs, principal>>

\* record(): the write lock, then the row.
BeginRecord(r) ==
    /\ step[r] = "record"
    /\ lock = Free
    /\ lock' = r
    /\ step' = [step EXCEPT ![r] = "recording"]
    /\ UNCHANGED <<settings, limiter, counters, loop, runs, principal, status>>

RunOf(r) == [run_id |-> r, operator_id |-> principal[r].operator_id]

\* Whoever runs on the loop leaves it with the response.
Release(holder, r) == IF holder = r THEN Free ELSE holder

\* A slip: the endpoint waits on the loop for its own answer.
EndRecordOnLoop(r) ==
    /\ step[r] = "recording"
    /\ runs' = Append(runs, RunOf(r))
    /\ lock' = Free
    /\ Respond(r, 200)
    /\ UNCHANGED <<settings, limiter, counters, loop, principal>>

EndRecord(r) ==
    /\ step[r] = "recording"
    /\ runs' = Append(runs, RunOf(r))
    /\ lock' = Free
    /\ loop' = Release(loop, r)
    /\ Respond(r, 200)
    /\ UNCHANGED <<settings, limiter, counters, principal>>

\* A slip: the transaction is not rolled back.
RecordFailsCommitted(r) ==
    /\ step[r] \in {"record", "recording"}
    /\ lock' = Release(lock, r)
    /\ loop' = Release(loop, r)
    /\ runs' = IF lock = r THEN Append(runs, RunOf(r)) ELSE runs
    /\ Respond(r, 500)
    /\ UNCHANGED <<settings, limiter, counters, principal>>

\* A slip: the connection is left open with its transaction.
RecordFailsOpen(r) ==
    /\ step[r] \in {"record", "recording"}
    /\ loop' = Release(loop, r)
    /\ Respond(r, 500)
    /\ UNCHANGED <<settings, limiter, counters, lock, runs, principal>>

\* sqlite3 raises: the lock does not come within 10 s, or a statement fails.
RecordFails(r) ==
    /\ step[r] \in {"record", "recording"}
    /\ lock' = Release(lock, r)
    /\ loop' = Release(loop, r)
    /\ Respond(r, 500)
    /\ UNCHANGED <<settings, limiter, counters, runs, principal>>

-----------------------------------------------------------------------------
\* The middleware, on the way out.  An unhandled exception is an error of no
\* route.

Route(r) == <<Ask[r].endpoint, status[r]>>

Count(route) == IF route \in DOMAIN route_metrics THEN route_metrics[route] ELSE 0

Counted(r) ==
    route_metrics' = IF status[r] = 500
                       THEN route_metrics
                       ELSE [route \in DOMAIN route_metrics \union {Route(r)} |->
                               Count(route) + (IF route = Route(r) THEN 1 ELSE 0)]

Leaves(r) ==
    /\ step[r] = "response"
    /\ loop = Free
    /\ step' = [step EXCEPT ![r] = "answered"]
    /\ UNCHANGED <<settings, limiter, request_count, loop, lock, runs, principal, status>>

\* A slip: the exception is counted where it is caught and as a response.
AnswerCountsTwice(r) ==
    /\ Leaves(r)
    /\ error_count' = IF status[r] = 500 THEN error_count + 2
                      ELSE IF status[r] >= 400 THEN error_count + 1
                      ELSE error_count
    /\ Counted(r)

Answer(r) ==
    /\ Leaves(r)
    /\ error_count' = IF status[r] >= 400 THEN error_count + 1 ELSE error_count
    /\ Counted(r)

-----------------------------------------------------------------------------
Work(r) ==
    \/ RejectBody(r) \/ CheckPermission(r) \/ HandleRead(r) \/ Compute(r) \/ AnalyseUpload(r)
    \/ BeginRecord(r) \/ EndRecord(r) \/ RecordFails(r) \/ Answer(r)

Next ==
    \/ \E s \in Settings : Start(s)
    \/ Tick
    \/ \E r \in Requests : Pass(r) \/ Admit(r) \/ Refuse(r) \/ Work(r)

Spec == Init /\ [][Next]_vars

\* Some thread, or the event loop, runs whenever one of them can; and the 10 s
\* on a busy database pass.
FairSpec == Spec /\ WF_vars(\E r \in Requests : Work(r))
-----------------------------------------------------------------------------
\* Types; and the lock belongs to the request that records, the event loop to
\* the CSV that is to be recorded.
TypeOK ==
    /\ settings = [mode |-> "none"] \/ settings \in Settings
    /\ clock \in 0 .. MaxTime
    /\ window \in [Remotes -> Seq(0 .. MaxTime)] /\ admitted \in [Remotes -> Seq(0 .. MaxTime)]
    /\ request_count \in Nat /\ error_count \in Nat
    /\ route_metrics \in [DOMAIN route_metrics -> Nat]
    /\ step \in [Requests -> Steps]
    /\ status \in [Requests -> Statuses]
    /\ \A r \in Requests : step[r] = "recording" <=> lock = r
    /\ \A r \in Requests :
         step[r] \in {"record", "recording"} /\ Ask[r].endpoint = "csv" <=> loop = r

\* The limit of the middleware: of Limit + 1 requests of a remote address that
\* are let in, the last comes a whole window after the first, however the
\* requests of all remote addresses arrive and whatever was refused.
RateLimited ==
    \A m \in Remotes : \A i \in 1 .. Len(admitted[m]) :
        i + Limit <= Len(admitted[m]) => admitted[m][i + Limit] >= admitted[m][i] + Window

\* No one is refused too early: a 429 is only given when a window ago or
\* later Limit requests of the same remote address were let in.
RefusalsJustified ==
    [][\A r \in Requests : step[r] = "new" /\ step'[r] = "answered" =>
          LET a == admitted[Ask[r].remote] IN
              Len(a) >= Limit /\ a[Len(a) - Limit + 1] + Window > clock]_vars

Answered(r) == step[r] = "answered"

\* /metrics adds up, however requests overlap and leave the middleware: every
\* arrival is counted, every answer from 400 up is one error, and every answer
\* is counted under its route, except refusals and unhandled exceptions.
CountersBalance ==
    /\ request_count = Cardinality({r \in Requests : step[r] # "new"})
    /\ error_count = Cardinality({r \in Requests : Answered(r) /\ status[r] >= 400})
    /\ \A r \in Requests : Answered(r) =>
         Count(Route(r)) = IF status[r] \in {429, 500} THEN 0
                           ELSE Cardinality({q \in Requests : Answered(q) /\ Route(q) = Route(r)})
    /\ \A route \in DOMAIN route_metrics : \E r \in Requests : Answered(r) /\ Route(r) = route

\* A run in the database is an explicit diagnostic command of a caller who
\* may diagnose, under the name that caller was given, and on uploads without
\* a violation unless the deployment takes data for review.
RunsAreEarned ==
    \A i \in 1 .. Len(runs) : LET ask == Ask[runs[i].run_id] IN
        /\ ask.endpoint \in Diagnostics
        /\ Can(Authenticate(settings, ask.caller), DIAGNOSE_PERMISSION)
        /\ runs[i].operator_id = Authenticate(settings, ask.caller).operator_id
        /\ ask.endpoint = "csv" =>
             \A frame \in {ask.upload.baseline, ask.upload.current} :
                 Violations(frame) = 0 \/ (AllowReview /\ Score(frame) >= 7000)

Commands == {r \in Requests : Ask[r].endpoint \in Diagnostics}

\* What the caller of a diagnostic knows: its call is open from the moment a
\* result is decided on, a run or an error, to the answer that brings it.
Outcome(r) ==
    CASE step[r] \in {"record", "recording", "response"} -> "open"
      [] step[r] = "answered" /\ status[r] = 200 -> "acked"
      [] step[r] = "answered" /\ status[r] # 200 -> "failed"
      [] OTHER -> "idle"

Audit == INSTANCE AuditLog WITH
    Calls <- Commands,
    log <- runs,
    outcome <- [r \in Commands |-> Outcome(r)]

\* Over HTTP the API keeps the promise of the repository: whatever runs on the
\* loop or in threads, a diagnostic appends its run at most once and answers
\* 200 if and only if it did, and no other request touches the log.
ServesAuditLog == Audit!Spec

\* In production no request under /v1/ gets behind the permission check unless
\* it shows the key of a deployment that has a strong one, or a verified token.
ProductionGuarded ==
    \A r \in Requests :
        /\ Production /\ Ask[r].endpoint \notin Open
        /\ \/ step[r] \in {"handler", "record", "recording"}
           \/ step[r] \in {"response", "answered"} /\ status[r] = 200
        => \/ settings.mode = "api_key" /\ settings.key = "strong" /\ Ask[r].caller.key = "right"
           \/ settings.mode = "oidc" /\ Ask[r].caller.token = "verified"

\* Every request that arrives is answered: no CSV on the event loop and no
\* record() on the lock keeps the others waiting for ever.
EveryRequestAnswered ==
    \A r \in Requests : step[r] # "new" ~> step[r] = "answered"
=============================================================================
