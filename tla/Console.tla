------------------------------- MODULE Console -------------------------------
(***************************************************************************)
(* One browser session of the operations console (dashboard/app.py) and    *)
(* its HTTP client, in front of the API that records diagnostic runs.      *)
(*                                                                         *)
(* Streamlit runs the whole page script once for every interaction, in one *)
(* thread per session, with the state of all widgets.  An interaction that *)
(* arrives while the script runs is left waiting; the script is then       *)
(* abandoned, by an exception, at its next write to the session state or   *)
(* to the page, and run again from its first line.  A call to the API      *)
(* blocks the script and cannot be abandoned.  When a second interaction   *)
(* arrives behind a waiting click, the library may keep or drop the click. *)
(*                                                                         *)
(* A run is named by the position of its call in calls.  The layout of the *)
(* page is left out, and so is what it reads through timed caches.         *)
(***************************************************************************)
EXTENDS Naturals, Sequences

CONSTANTS
    Values,             \* what the form can be set to
    Default,            \* what a new form is set to
    NoRun,              \* the session holds no run, or no parameters
    MaxCalls,           \* bound: calls to the API that record a run
    MaxInteractions     \* bound: interactions of the operator

ASSUME ConsoleAssumption ==
    /\ Default \in Values
    /\ NoRun \notin Nat
    /\ MaxCalls \in Nat
    /\ MaxInteractions \in Nat

Sources == {"simulation", "cranfield"}
Parameters == [source : Sources, value : Values]
Pages == {"overview", "diagnosis", "validation"}    \* the other two render like the first

\* Everything the script reads from the widgets.
Widgets == [parameters : Parameters, page : Pages, uploads : BOOLEAN]

VARIABLES
    browser,            \* the widgets as the browser last sent them
    waiting,            \* "none", "rerun", or "click": a rerun with the button pressed
    interactions,       \* bounded counter
    script,             \* where the script is
    widgets,            \* the widgets it runs with
    call,               \* the call that it waits for; 0 if there is none
    active_diagnostic,  \* session state: the run
    active_parameters,  \* session state: what it was made with
    page,               \* what the browser shows: content, run, pending
    calls,              \* calls that reached the API: kind, parameters, click, state
    log,                \* the runs the API recorded, oldest first
    clicks,             \* history: clicks that started an execution
    torn,               \* history: the run in the session came without its parameters
    missed              \* history: an execution later than that run was given up

session == <<active_diagnostic, active_parameters, torn, missed>>
operator == <<browser, interactions>>
api == <<calls, log>>
vars == <<operator, waiting, script, widgets, call, session, page, api, clicks>>

Fresh ==
    [parameters |-> [source |-> "simulation", value |-> Default],
     page |-> "overview", uploads |-> FALSE]

Blank == [content |-> "blank", run |-> NoRun, pending |-> FALSE]

Init ==
    /\ browser = Fresh /\ widgets = Fresh
    /\ waiting = "rerun"
    /\ interactions = 0
    /\ script = "idle" /\ call = 0
    /\ active_diagnostic = NoRun /\ active_parameters = NoRun /\ torn = FALSE
    /\ missed = FALSE
    /\ page = Blank
    /\ calls = <<>> /\ log = <<>>
    /\ clicks = 0

-----------------------------------------------------------------------------
(* The operator *)

Interact(sent) ==
    /\ interactions < MaxInteractions
    /\ interactions' = interactions + 1
    /\ browser' = sent
    /\ UNCHANGED <<script, widgets, call, session, page, api, clicks>>

\* A rerun is asked for; a click that waits may be lost by it.
Ask == waiting' \in {"rerun", waiting} \ {"none"}

\* The form is submitted: its settings and the button reach the script together.
Execute(value) ==
    /\ Interact([browser EXCEPT !.parameters.value = value])
    /\ waiting' = "click"

\* The source is chosen outside the form, which is replaced by a new one.
SwitchSource(source) ==
    /\ browser.parameters.source # source
    /\ Interact([browser EXCEPT !.parameters = [source |-> source, value |-> Default]])
    /\ Ask

\* A page that is left forgets its uploads.
Turn(to) ==
    /\ browser.page # to
    /\ Interact([browser EXCEPT !.page = to, !.uploads = FALSE])
    /\ Ask

\* Both files are there; the page offers them below a run only.
Upload ==
    /\ page.content = "run" /\ browser.page = "validation" /\ ~ browser.uploads
    /\ Interact([browser EXCEPT !.uploads = TRUE])
    /\ Ask

\* A new session: nothing of the old one is kept, and no one waits for its call.
Reload ==
    /\ interactions < MaxInteractions
    /\ interactions' = interactions + 1
    /\ browser' = Fresh /\ widgets' = Fresh
    /\ waiting' = "rerun"
    /\ script' = "idle" /\ call' = 0
    /\ active_diagnostic' = NoRun /\ active_parameters' = NoRun /\ torn' = FALSE
    /\ missed' = FALSE
    /\ page' = Blank
    /\ UNCHANGED <<api, clicks>>

-----------------------------------------------------------------------------
(* The script *)

RunWith(execute_diagnosis) ==
    /\ widgets' = browser
    /\ waiting' = "none"
    /\ script' = IF execute_diagnosis THEN "execute" ELSE "page"
    /\ clicks' = IF waiting = "click" THEN clicks + 1 ELSE clicks
    /\ call' = 0

Run == RunWith(waiting = "click")

Start ==
    /\ script = "idle" /\ waiting # "none"
    /\ Run
    /\ UNCHANGED <<operator, session, page, api>>

\* Where the script may be when it is abandoned: not while it waits for the API.
Yielding == {"execute", "store run", "store parameters", "refused", "page", "body",
             "uploaded"}

\* A plausible slip: the button stays pressed until its run has been stored.
InterruptClicked ==
    /\ script \in Yielding /\ waiting # "none"
    /\ RunWith(waiting = "click" \/ script = "store run")
    /\ torn' = (torn \/ script = "store parameters")
    /\ missed' = (missed \/ script = "store run")
    /\ UNCHANGED <<operator, active_diagnostic, active_parameters, page, api>>

\* The script is abandoned where it would write, and starts again.
Interrupt ==
    /\ script \in Yielding /\ waiting # "none"
    /\ Run
    /\ torn' = (torn \/ script = "store parameters")
    /\ missed' = (missed \/ script = "store run")
    /\ UNCHANGED <<operator, active_diagnostic, active_parameters, page, api>>

\* Where the script gets when no interaction waits.
At(place) == script = place /\ waiting = "none"

\* _send passes the request on to the API, once.
Send(kind) ==
    /\ Len(calls) < MaxCalls
    /\ calls' = Append(calls, [kind |-> kind, parameters |-> widgets.parameters,
                               click |-> clicks, state |-> "sent"])
    /\ call' = Len(calls)'
    /\ UNCHANGED <<operator, waiting, widgets, session, page, log, clicks>>

PostDiagnostic == script = "execute" /\ Send("click") /\ script' = "posting"
PostUpload ==
    /\ script = "body" /\ widgets.page = "validation" /\ widgets.uploads
    /\ Send("upload") /\ script' = "uploading"

\* The script goes on without a change to anything but itself and the page.
Go(place) ==
    /\ script' = place
    /\ UNCHANGED <<operator, waiting, widgets, active_diagnostic, active_parameters, torn,
                   api, clicks>>

\* An answer becomes a RemoteTwinRun; an error status an ApiClientError.
TakeAnswer ==
    /\ script \in {"posting", "uploading"}
    /\ calls[call].state = "answered"
    /\ Go(IF script = "posting" THEN "store run" ELSE "uploaded")
    /\ UNCHANGED <<call, missed, page>>

TakeRefusal ==
    /\ script \in {"posting", "uploading"}
    /\ calls[call].state = "refused"
    /\ Go(IF script = "posting" THEN "refused" ELSE "uploaded")
    /\ call' = 0
    /\ UNCHANGED <<missed, page>>

\* A plausible slip: the timeout covers only the wait until the API takes the request up.
TimeOutConnecting ==
    /\ script \in {"posting", "uploading"}
    /\ calls[call].state = "sent"
    /\ Go(IF script = "posting" THEN "refused" ELSE "uploaded")
    /\ call' = 0
    /\ missed' = (missed \/ script = "posting")
    /\ UNCHANGED page

\* The script goes on without the call, with which the API may go on.
GiveUp ==
    /\ script \in {"posting", "uploading"}
    /\ Go(IF script = "posting" THEN "refused" ELSE "uploaded")
    /\ call' = 0
    /\ missed' = (missed \/ script = "posting")
    /\ UNCHANGED page

\* The connection breaks, or one operation on it - to connect, to write, to wait for
\* the next part of the answer - takes 45 seconds.
TimeOut == GiveUp

\* The answer is not the JSON of a run: ValueError, KeyError or TypeError, which the
\* page does not catch; Streamlit shows them where the script stopped.
Unreadable == GiveUp /\ calls[call].state = "answered"

\* The API cannot be reached.
Unreachable ==
    /\ \/ script = "execute" /\ Go("refused")
       \/ script = "body" /\ widgets.page = "validation" /\ widgets.uploads /\ Go("uploaded")
    /\ UNCHANGED <<call, missed, page>>

StoreRun ==
    /\ At("store run")
    /\ active_diagnostic' = call
    /\ script' = "store parameters"
    /\ missed' = FALSE
    /\ UNCHANGED <<operator, waiting, widgets, call, active_parameters, torn, page, api, clicks>>

StoreParameters ==
    /\ At("store parameters")
    /\ active_parameters' = widgets.parameters
    /\ torn' = FALSE
    /\ script' = "page" /\ call' = 0
    /\ UNCHANGED <<operator, waiting, widgets, active_diagnostic, missed, page, api, clicks>>

\* The error is shown in place of the page: st.stop().
ShowError ==
    /\ At("refused")
    /\ Go("idle")
    /\ page' = [content |-> "error", run |-> NoRun, pending |-> FALSE]
    /\ UNCHANGED <<call, missed>>

ShowWelcome ==
    /\ At("page") /\ active_diagnostic = NoRun
    /\ Go("idle")
    /\ page' = [content |-> "welcome", run |-> NoRun, pending |-> FALSE]
    /\ UNCHANGED <<call, missed>>

\* A plausible slip: only another source counts as parameters yet to be executed.
ShowRunOfSource ==
    /\ At("page") /\ active_diagnostic # NoRun
    /\ Go("body")
    /\ page' = [content |-> "run", run |-> active_diagnostic,
                pending |-> active_parameters = NoRun
                            \/ active_parameters.source # widgets.parameters.source]
    /\ UNCHANGED <<call, missed>>

ShowRun ==
    /\ At("page") /\ active_diagnostic # NoRun
    /\ Go("body")
    /\ page' = [content |-> "run", run |-> active_diagnostic,
                pending |-> active_parameters # widgets.parameters]
    /\ UNCHANGED <<call, missed>>

\* The rest of the page writes nothing but the page.
ShowBody ==
    /\ At("body") /\ ~ (widgets.page = "validation" /\ widgets.uploads)
    /\ Go("idle")
    /\ UNCHANGED <<call, missed, page>>

ShowUpload ==
    /\ At("uploaded")
    /\ Go("idle")
    /\ call' = 0
    /\ UNCHANGED <<missed, page>>

-----------------------------------------------------------------------------
(* The API *)

Move(c, from, to) ==
    /\ calls[c].state = from
    /\ calls' = [calls EXCEPT ![c].state = to]
    /\ UNCHANGED <<operator, waiting, script, widgets, call, session, page, clicks>>

Record(c) == Move(c, "sent", "recorded") /\ log' = Append(log, c)
Respond(c) == Move(c, "recorded", "answered") /\ UNCHANGED log
Refuse(c) == Move(c, "sent", "refused") /\ UNCHANGED log

Operator ==
    \/ \E value \in Values : Execute(value)
    \/ \E source \in Sources : SwitchSource(source)
    \/ \E to \in Pages : Turn(to)
    \/ Upload \/ Reload

Script ==
    \/ Start \/ Interrupt
    \/ PostDiagnostic \/ PostUpload \/ Unreachable \/ TakeAnswer \/ TakeRefusal
    \/ StoreRun \/ StoreParameters
    \/ ShowError \/ ShowWelcome \/ ShowRun \/ ShowBody \/ ShowUpload

Api == \E c \in 1 .. Len(calls) : Record(c) \/ Respond(c) \/ Refuse(c)

Next == Operator \/ Script \/ TimeOut \/ Unreadable \/ Api

Spec == Init /\ [][Next]_vars

\* The script's thread runs, and a call to a silent API ends by its timeout.  The 45
\* seconds are of each operation, so that an answer which trickles in comes to an end
\* is assumed too; nothing else is assumed of the API, and nothing of the operator.
FairSpec == Spec /\ WF_vars(Script) /\ WF_vars(TimeOut)

-----------------------------------------------------------------------------
TypeOK ==
    /\ browser \in Widgets /\ widgets \in Widgets
    /\ waiting \in {"none", "rerun", "click"}
    /\ interactions \in 0 .. MaxInteractions
    /\ script \in {"idle", "execute", "posting", "store run", "store parameters",
                   "refused", "page", "body", "uploading", "uploaded"}
    /\ call \in 0 .. Len(calls)
    /\ active_diagnostic \in 1 .. Len(calls) \cup {NoRun}
    /\ active_parameters \in Parameters \cup {NoRun}
    /\ page \in [content : {"blank", "welcome", "error", "run"},
                 run : 1 .. Len(calls) \cup {NoRun}, pending : BOOLEAN]
    /\ calls \in Seq([kind : {"click", "upload"}, parameters : Parameters,
                      click : 0 .. clicks,
                      state : {"sent", "recorded", "answered", "refused"}])
    /\ log \in Seq(1 .. Len(calls))
    /\ clicks \in 0 .. MaxInteractions
    /\ torn \in BOOLEAN /\ missed \in BOOLEAN

InLog(c) == \E i \in 1 .. Len(log) : log[i] = c

\* What the operator can rely on when the page has settled on a run.  The run is in
\* the audit chain.  Unless an execution timed out or was abandoned after its answer
\* came, every later one was refused: nothing newer of this session is recorded.
\* And when the page does not say that the sidebar's parameters are yet to be
\* executed (dashboard/app.py:1000), the run was made with exactly these, unless its
\* script was abandoned between the two assignments (dashboard/app.py:935).
PageTellsTruth ==
    script = "idle" /\ waiting = "none" /\ page.content = "run" =>
        /\ InLog(page.run) /\ calls[page.run].kind = "click"
        /\ ~ missed => \A c \in page.run + 1 .. Len(calls) :
              calls[c].kind = "click" => calls[c].state = "refused"
        /\ ~ page.pending /\ ~ torn =>
              calls[page.run].parameters = browser.parameters

\* The console and its client never execute twice for one click: whatever times
\* out, is refused or is abandoned by the next interaction, two runs recorded by the
\* execute button come from two clicks on it.
OneRecordPerClick ==
    \A i, j \in 1 .. Len(log) :
        /\ i # j
        /\ calls[log[i]].kind = "click" /\ calls[log[j]].kind = "click"
        => calls[log[i]].click # calls[log[j]].click

\* However the API behaves, a page that the operator leaves alone comes to rest:
\* with a run, with an error or with the welcome.
PageSettles == waiting # "none" \/ script # "idle" ~> waiting = "none" /\ script = "idle"
=============================================================================
