----------------------------- MODULE ConsoleProofs -----------------------------
(***************************************************************************)
(* What an operator of the console can rely on for any number of           *)
(* interactions and calls: no click is executed twice, and a page that has *)
(* settled on a run says what it shows.                                    *)
(***************************************************************************)
EXTENDS Console, SequenceTheorems, TLAPS

Call == [kind : {"click", "upload"}, parameters : Parameters, click : Nat,
         state : {"sent", "recorded", "answered", "refused"}]

Typed ==
    /\ browser \in Widgets /\ widgets \in Widgets
    /\ calls \in Seq(Call) /\ log \in Seq(Nat) /\ clicks \in Nat
    /\ active_diagnostic \in (1 .. Len(calls)) \union {NoRun}

\* A click has at most one call; that of the click being executed is yet to come.
Clicked ==
    /\ \A c \in 1 .. Len(calls) :
         /\ calls[c].click \in Nat /\ calls[c].click <= clicks
         /\ script = "execute" => calls[c].click < clicks
    /\ \A c, d \in 1 .. Len(calls) :
         c # d /\ calls[c].kind = "click" /\ calls[d].kind = "click" => calls[c].click # calls[d].click

IsRecorded(c) == calls[c].state \in {"recorded", "answered"}

\* The log holds each call that is recorded, once.
Logged ==
    /\ \A i \in 1 .. Len(log) : log[i] \in 1 .. Len(calls) /\ IsRecorded(log[i])
    /\ \A i, j \in 1 .. Len(log) : i # j => log[i] # log[j]
    /\ \A c \in 1 .. Len(calls) : IsRecorded(c) => InLog(c)

\* The execution that the script is about is the latest, with the script's parameters.
Executing ==
    /\ script \in {"posting", "store run", "store parameters"} =>
         /\ call \in 1 .. Len(calls)
         /\ calls[call].kind = "click" /\ calls[call].parameters = widgets.parameters
         /\ \A c \in 1 .. Len(calls) : c > call => calls[c].kind # "click"
    /\ script \in {"store run", "store parameters"} => calls[call].state = "answered"
    /\ script = "store parameters" => active_diagnostic = call

\* The run of the session, what may have been executed after it, and its parameters.
SessionInv ==
    active_diagnostic # NoRun =>
        /\ calls[active_diagnostic].kind = "click"
        /\ calls[active_diagnostic].state = "answered"
        /\ ~ missed => \A c \in 1 .. Len(calls) :
             c > active_diagnostic /\ calls[c].kind = "click" =>
                calls[c].state = "refused" \/ (c = call /\ script \in {"posting", "store run"})
        /\ ~ torn /\ script # "store parameters" =>
             active_parameters = calls[active_diagnostic].parameters

\* What a page with a run shows is the session's, compared with the script's widgets.
PageInv ==
    /\ script \in {"body", "uploading", "uploaded"} \/ (script = "idle" /\ page.content = "run") =>
         /\ page.run = active_diagnostic /\ active_diagnostic # NoRun
         /\ ~ page.pending => active_parameters = widgets.parameters
    /\ waiting = "none" => widgets = browser

IInv == Typed /\ Clicked /\ Logged /\ Executing /\ SessionInv /\ PageInv

-----------------------------------------------------------------------------
LEMMA InitInv == Init => IInv
<1> SUFFICES ASSUME Init PROVE IInv
  OBVIOUS
<1>1. Fresh \in Widgets
  BY ConsoleAssumption DEF Fresh, Widgets, Parameters, Sources, Pages
<1>2. calls = <<>> /\ log = <<>> /\ Len(calls) = 0 /\ Len(log) = 0 /\ 1 .. 0 = {}
  BY DEF Init
<1> QED
  BY <1>1, <1>2 DEF Init, IInv, Typed, Clicked, Logged, Executing, SessionInv, PageInv, Blank

\* A step that leaves the API alone and starts no execution.
LEMMA ApiQuiet ==
    ASSUME IInv, UNCHANGED <<calls, log, clicks>>, script' = "execute" => script = "execute"
    PROVE  Clicked' /\ Logged'
  BY DEF IInv, Clicked, Logged, IsRecorded, InLog

LEMMA OperatorInv == ASSUME IInv, Operator PROVE IInv'
<1>1. ASSUME NEW sent \in Widgets, Interact(sent), waiting' # "none" PROVE IInv'
  <2>1. /\ browser' = sent
        /\ UNCHANGED <<script, widgets, call, session, page, api, clicks>>
    BY <1>1 DEF Interact
  <2> QED
    BY <1>1, <2>1, ApiQuiet DEF session, api, IInv, Typed, Executing, SessionInv, PageInv
<1>2. Ask => waiting' # "none"
  BY DEF Ask
<1>3. ASSUME NEW value \in Values, Execute(value) PROVE IInv'
  <2>1. [browser EXCEPT !.parameters.value = value] \in Widgets
    BY DEF IInv, Typed, Widgets, Parameters
  <2> QED
    BY <1>1, <1>3, <2>1 DEF Execute
<1>4. ASSUME NEW source \in Sources, SwitchSource(source) PROVE IInv'
  <2>1. [browser EXCEPT !.parameters = [source |-> source, value |-> Default]] \in Widgets
    BY ConsoleAssumption DEF IInv, Typed, Widgets, Parameters
  <2> QED
    BY <1>1, <1>2, <1>4, <2>1 DEF SwitchSource
<1>5. ASSUME NEW to \in Pages, Turn(to) PROVE IInv'
  <2>1. [browser EXCEPT !.page = to, !.uploads = FALSE] \in Widgets
    BY DEF IInv, Typed, Widgets
  <2> QED
    BY <1>1, <1>2, <1>5, <2>1 DEF Turn
<1>6. CASE Upload
  <2>1. [browser EXCEPT !.uploads = TRUE] \in Widgets
    BY DEF IInv, Typed, Widgets
  <2> QED
    BY <1>1, <1>2, <1>6, <2>1 DEF Upload
<1>7. CASE Reload
  <2>1. Fresh \in Widgets
    BY ConsoleAssumption DEF Fresh, Widgets, Parameters, Sources, Pages
  <2>2. Clicked' /\ Logged'
    BY <1>7, ApiQuiet DEF Reload, api
  <2> QED
    BY <1>7, <2>1, <2>2 DEF Reload, api, IInv, Typed, Executing, SessionInv, PageInv, Blank
<1> QED
  BY <1>3, <1>4, <1>5, <1>6, <1>7 DEF Operator

-----------------------------------------------------------------------------
(* The script *)

\* A click that is taken up is newer than every call so far.
LEMMA RunInv == ASSUME IInv, Start \/ Interrupt PROVE IInv'
<1>1. /\ widgets' = browser /\ waiting' = "none" /\ script' \in {"execute", "page"}
      /\ call' = 0 /\ clicks' \in {clicks, clicks + 1}
      /\ script' = "execute" => clicks' = clicks + 1
      /\ UNCHANGED <<operator, active_diagnostic, active_parameters, page, api>>
  BY DEF Start, Interrupt, Run, RunWith, session
<1>2. Typed'
  BY <1>1 DEF operator, api, IInv, Typed
<1>3. Clicked'
  BY <1>1 DEF api, IInv, Typed, Clicked
<1>4. Logged'
  BY <1>1 DEF api, IInv, Logged, IsRecorded, InLog
<1>5. Executing' /\ PageInv'
  BY <1>1 DEF operator, Executing, PageInv
<1>6. /\ missed \/ script = "store run" => missed'
      /\ torn \/ script = "store parameters" => torn'
      /\ script # "posting"
  <2>1. CASE Start
    BY <2>1 DEF Start, session
  <2>2. CASE Interrupt
    <3>1. script \in Yielding /\ torn' = (torn \/ script = "store parameters")
          /\ missed' = (missed \/ script = "store run")
      BY <2>2 DEF Interrupt
    <3> QED
      BY <3>1, Zenon DEF Yielding
  <2> QED
    BY <2>1, <2>2
<1>7. SessionInv'
  BY <1>1, <1>6 DEF api, IInv, SessionInv
<1> QED
  BY <1>2, <1>3, <1>4, <1>5, <1>7 DEF IInv

\* One more call, under the number of the latest click.
LEMMA SendInv == ASSUME IInv, PostDiagnostic \/ PostUpload PROVE IInv'
<1> DEFINE n == Len(calls) + 1
<1>1. PICK kind \in {"click", "upload"} :
        /\ Send(kind)
        /\ kind = "click" => script = "execute" /\ script' = "posting"
        /\ kind = "upload" => script = "body" /\ script' = "uploading"
  BY DEF PostDiagnostic, PostUpload
<1> DEFINE new == [kind |-> kind, parameters |-> widgets.parameters, click |-> clicks, state |-> "sent"]
<1>2. /\ calls' = Append(calls, new) /\ call' = Len(calls')
      /\ UNCHANGED <<operator, waiting, widgets, session, page, log, clicks>>
  BY <1>1 DEF Send
<1>3. new \in Call
  BY DEF Call, IInv, Typed, Widgets
<1>4. /\ calls' \in Seq(Call) /\ Len(calls) \in Nat /\ Len(calls') = n /\ calls'[n] = new
      /\ \A c \in 1 .. Len(calls) : calls'[c] = calls[c] /\ c \in 1 .. n
      /\ \A c \in 1 .. n : c \in 1 .. Len(calls) \/ c = n
      /\ n \in 1 .. n
  BY <1>2, <1>3, AppendProperties, LenProperties DEF IInv, Typed
<1> HIDE DEF n
<1>5. new.kind = kind /\ new.parameters = widgets.parameters /\ new.click = clicks /\ new.state = "sent"
  OBVIOUS
<1> HIDE DEF new
<1>6. Typed'
  BY <1>2, <1>4 DEF operator, session, IInv, Typed
<1>7. Clicked'
  <2>1. \A c \in 1 .. n :
          calls'[c].click \in Nat /\ calls'[c].click <= clicks' /\ script' # "execute"
    BY <1>1, <1>2, <1>4, <1>5 DEF IInv, Typed, Clicked
  <2>2. kind = "click" => \A c \in 1 .. Len(calls) : calls[c].click # clicks
    BY <1>1 DEF IInv, Typed, Clicked
  <2> QED
    BY <1>4, <1>5, <2>1, <2>2 DEF IInv, Clicked
<1>8. Logged'
  BY <1>2, <1>4, <1>5 DEF IInv, Logged, IsRecorded, InLog
<1>9. Executing'
  <2>1. \A c \in 1 .. n : ~ c > n
    BY <1>4 DEF n
  <2> QED
    BY <1>1, <1>2, <1>4, <1>5, <2>1 DEF Executing
<1>10. SessionInv'
  BY <1>1, <1>2, <1>4, <1>5 DEF session, IInv, Typed, SessionInv
<1>11. PageInv'
  BY <1>1, <1>2 DEF operator, session, IInv, PageInv
<1> QED
  BY <1>6, <1>7, <1>8, <1>9, <1>10, <1>11 DEF IInv

\* Answers, refusals, the end of a wait, and no connection at all.
LEMMA AnswerInv ==
    ASSUME IInv, TakeAnswer \/ TakeRefusal \/ TimeOut \/ Unreadable \/ Unreachable
    PROVE  IInv'
<1>1. /\ script' \in {"store run", "refused", "uploaded"}
      /\ script' = "uploaded" => script \in {"uploading", "body"}
      /\ script \in {"posting", "uploading", "execute", "body"}
      /\ UNCHANGED <<operator, waiting, widgets, active_diagnostic, active_parameters, torn, api,
                     clicks, page>>
  BY DEF TakeAnswer, TakeRefusal, TimeOut, Unreadable, GiveUp, Unreachable, Go
<1>2. Typed' /\ Clicked' /\ Logged' /\ PageInv'
  BY <1>1, ApiQuiet DEF operator, api, IInv, Typed, PageInv
<1>3. Executing'
  BY <1>1 DEF TakeAnswer, TakeRefusal, TimeOut, Unreadable, GiveUp, Unreachable, Go, api, IInv,
     Executing
<1>4. script = "posting" =>
        \/ missed'
        \/ script' = "store run" /\ call' = call
        \/ calls[call].state = "refused"
  BY DEF TakeAnswer, TakeRefusal, TimeOut, Unreadable, GiveUp, Unreachable, Go
<1>5. missed => missed'
  BY DEF TakeAnswer, TakeRefusal, TimeOut, Unreadable, GiveUp, Unreachable
<1>6. SessionInv'
  BY <1>1, <1>4, <1>5 DEF api, IInv, Executing, SessionInv
<1> QED
  BY <1>2, <1>3, <1>6 DEF IInv

\* The run and its parameters, one after the other.
LEMMA StoreInv == ASSUME IInv, StoreRun \/ StoreParameters PROVE IInv'
<1>1. CASE StoreRun
  <2>1. Clicked' /\ Logged'
    BY <1>1, ApiQuiet DEF StoreRun, At, api
  <2> QED
    BY <1>1, <2>1 DEF StoreRun, At, operator, api, IInv, Typed, Executing, SessionInv, PageInv
<1>2. CASE StoreParameters
  <2>1. Clicked' /\ Logged'
    BY <1>2, ApiQuiet DEF StoreParameters, At, api
  <2> QED
    BY <1>2, <2>1 DEF StoreParameters, At, operator, api, IInv, Typed, Executing, SessionInv, PageInv
<1> QED
  BY <1>1, <1>2

\* The page and its end.
LEMMA ShowInv ==
    ASSUME IInv, ShowError \/ ShowWelcome \/ ShowRun \/ ShowBody \/ ShowUpload
    PROVE  IInv'
<1>1. /\ script \in {"refused", "page", "body", "uploaded"} /\ script' \in {"idle", "body"}
      /\ missed' = missed
      /\ UNCHANGED <<operator, waiting, widgets, active_diagnostic, active_parameters, torn, api,
                     clicks>>
  BY DEF ShowError, ShowWelcome, ShowRun, ShowBody, ShowUpload, At, Go
<1>2. Typed' /\ Clicked' /\ Logged' /\ Executing' /\ SessionInv'
  BY <1>1, ApiQuiet DEF operator, api, IInv, Typed, Executing, SessionInv
<1>3. PageInv'
  <2>1. CASE ShowError \/ ShowWelcome
    BY <1>1, <2>1 DEF ShowError, ShowWelcome, At, Go, operator, IInv, PageInv
  <2>2. CASE ShowRun
    BY <1>1, <2>2 DEF ShowRun, At, Go, operator, IInv, PageInv
  <2>3. CASE ShowBody \/ ShowUpload
    BY <1>1, <2>3 DEF ShowBody, ShowUpload, At, Go, operator, IInv, PageInv
  <2> QED
    BY <2>1, <2>2, <2>3
<1> QED
  BY <1>2, <1>3 DEF IInv

-----------------------------------------------------------------------------
(* The API *)

\* A call moves on, and nothing else of it or of another call changes.
LEMMA MoveKeeps ==
    ASSUME IInv, NEW c \in 1 .. Len(calls), NEW from, NEW to \in {"recorded", "answered", "refused"},
           Move(c, from, to)
    PROVE  /\ calls' \in Seq(Call) /\ Len(calls') = Len(calls)
           /\ \A d \in 1 .. Len(calls) :
                /\ calls'[d].kind = calls[d].kind /\ calls'[d].click = calls[d].click
                /\ calls'[d].parameters = calls[d].parameters
                /\ calls'[d].state = IF d = c THEN to ELSE calls[d].state
<1>1. calls' = [calls EXCEPT ![c].state = to] /\ calls \in Seq(Call) /\ calls[c] \in Call
  BY ElementOfSeq DEF Move, IInv, Typed
<1>2. [calls[c] EXCEPT !.state = to] \in Call
  BY <1>1 DEF Call
<1>3. calls' \in Seq(Call) /\ Len(calls') = Len(calls)
      /\ \A d \in 1 .. Len(calls) :
           calls'[d] = IF d = c THEN [calls[c] EXCEPT !.state = to] ELSE calls[d]
  BY <1>1, <1>2, ExceptSeq
<1>4. ASSUME NEW d \in 1 .. Len(calls)
      PROVE  /\ calls'[d].kind = calls[d].kind /\ calls'[d].click = calls[d].click
             /\ calls'[d].parameters = calls[d].parameters
             /\ calls'[d].state = IF d = c THEN to ELSE calls[d].state
  BY <1>1, <1>3 DEF Call
<1> QED
  BY <1>3, <1>4

LEMMA MoveInv ==
    ASSUME IInv, NEW c \in 1 .. Len(calls), Record(c) \/ Respond(c) \/ Refuse(c)
    PROVE  IInv'
<1>1. PICK from \in {"sent", "recorded"}, to \in {"recorded", "answered", "refused"} :
        /\ Move(c, from, to)
        /\ \/ from = "sent" /\ to = "recorded" /\ log' = Append(log, c)
           \/ from = "recorded" /\ to = "answered" /\ log' = log
           \/ from = "sent" /\ to = "refused" /\ log' = log
  BY DEF Record, Respond, Refuse
<1>2. /\ calls[c].state = from
      /\ UNCHANGED <<operator, waiting, script, widgets, call, session, page, clicks>>
  BY <1>1 DEF Move
<1>3. /\ calls' \in Seq(Call) /\ Len(calls') = Len(calls)
      /\ \A d \in 1 .. Len(calls) :
           /\ calls'[d].kind = calls[d].kind /\ calls'[d].click = calls[d].click
           /\ calls'[d].parameters = calls[d].parameters
           /\ calls'[d].state = IF d = c THEN to ELSE calls[d].state
  BY <1>1, MoveKeeps
<1>4. Typed'
  <2>1. log' \in Seq(Nat)
    <3>1. log \in Seq(Nat) /\ c \in Nat
      BY DEF IInv, Typed
    <3>2. Append(log, c) \in Seq(Nat)
      BY <3>1, AppendProperties
    <3> QED
      BY <1>1, <3>1, <3>2
  <2> QED
    BY <1>2, <1>3, <2>1 DEF operator, session, IInv, Typed
<1>5. Clicked'
  BY <1>2, <1>3 DEF IInv, Clicked
<1>6. Executing' /\ SessionInv'
  BY <1>1, <1>2, <1>3 DEF session, IInv, Typed, Executing, SessionInv
<1>7. PageInv'
  BY <1>2 DEF operator, session, IInv, PageInv
<1>8. Logged'
  <2>1. CASE log' = log /\ ((from = "recorded" /\ to = "answered") \/ (from = "sent" /\ to = "refused"))
    <3>1. \A d \in 1 .. Len(calls) : IsRecorded(d)' <=> IsRecorded(d)
      BY <1>2, <1>3, <2>1 DEF IsRecorded
    <3> QED
      BY <1>3, <2>1, <3>1 DEF IInv, Logged, IsRecorded, InLog
  <2>2. CASE from = "sent" /\ to = "recorded" /\ log' = Append(log, c)
    <3>1. /\ Len(log) \in Nat /\ Len(log') = Len(log) + 1 /\ log'[Len(log) + 1] = c
          /\ \A i \in 1 .. Len(log) : log'[i] = log[i]
      BY <2>2, AppendProperties, LenProperties DEF IInv, Typed
    <3>2. \A i \in 1 .. Len(log) : log[i] # c
      BY <1>2, <2>2 DEF IInv, Logged, IsRecorded
    <3>3. \A d \in 1 .. Len(calls) : IsRecorded(d)' <=> IsRecorded(d) \/ d = c
      BY <1>2, <1>3, <2>2 DEF IsRecorded
    <3>4. \A i \in 1 .. Len(log') : i \in 1 .. Len(log) \/ i = Len(log) + 1
      BY <3>1
    <3>5. \A i \in 1 .. Len(log') :
            log'[i] \in 1 .. Len(calls) /\ calls'[log'[i]].state \in {"recorded", "answered"}
      BY <3>1, <3>3, <3>4 DEF IInv, Logged, IsRecorded
    <3>6. \A i, j \in 1 .. Len(log') : i # j => log'[i] # log'[j]
      BY <3>1, <3>2, <3>4 DEF IInv, Logged
    <3>7. \A d \in 1 .. Len(calls) : IsRecorded(d)' => InLog(d)'
      BY <3>1, <3>3 DEF IInv, Logged, InLog
    <3> QED
      BY <1>3, <3>5, <3>6, <3>7 DEF Logged, IsRecorded
  <2> QED
    BY <1>1, <2>1, <2>2
<1> QED
  BY <1>4, <1>5, <1>6, <1>7, <1>8 DEF IInv

-----------------------------------------------------------------------------
LEMMA StepInv == IInv /\ [Next]_vars => IInv'
<1> SUFFICES ASSUME IInv, [Next]_vars PROVE IInv'
  OBVIOUS
<1>1. CASE UNCHANGED vars
  BY <1>1 DEF vars, operator, session, api, IInv, Typed, Clicked, Logged, Executing, SessionInv,
     PageInv, IsRecorded, InLog
<1> QED
  BY <1>1, OperatorInv, RunInv, SendInv, AnswerInv, StoreInv, ShowInv, MoveInv
     DEF Next, Script, Api

\* Calls, log, what the script executes, what the session holds and what the page shows
\* (dashboard/app.py:740-1001, 1392-1408; client.py).
THEOREM Invariance == Spec => []IInv
  BY InitInv, StepInv, PTL DEF Spec

\* However many interactions interrupt the script, and whatever times out or is refused,
\* two runs recorded by the execute button come from two clicks (dashboard/app.py:932-941).
THEOREM ClicksRecordOnce == Spec => []OneRecordPerClick
<1>1. IInv => OneRecordPerClick
  BY DEF IInv, Logged, Clicked, OneRecordPerClick
<1> QED
  BY Invariance, <1>1, PTL

\* A page that has settled on a run shows a recorded one, nothing newer of the session is
\* recorded unless an execution was given up, and it was made with the sidebar's parameters
\* unless the page says otherwise (dashboard/app.py:918-1001).
THEOREM PageIsTrue == Spec => []PageTellsTruth
<1>1. ASSUME IInv, script = "idle", waiting = "none", page.content = "run"
      PROVE  /\ InLog(page.run) /\ calls[page.run].kind = "click"
             /\ ~ missed => \A c \in page.run + 1 .. Len(calls) :
                   calls[c].kind = "click" => calls[c].state = "refused"
             /\ ~ page.pending /\ ~ torn => calls[page.run].parameters = browser.parameters
  <2>1. /\ page.run = active_diagnostic /\ page.run \in 1 .. Len(calls) /\ widgets = browser
        /\ ~ page.pending => active_parameters = widgets.parameters
    BY <1>1 DEF IInv, PageInv, Typed
  <2>2. InLog(page.run) /\ calls[page.run].kind = "click"
    BY <1>1, <2>1, ConsoleAssumption DEF IInv, Logged, IsRecorded, SessionInv, PageInv
  <2>3. ASSUME ~ missed, NEW c \in page.run + 1 .. Len(calls), calls[c].kind = "click"
        PROVE  calls[c].state = "refused"
    <3>1. c \in 1 .. Len(calls) /\ c > active_diagnostic
      BY <1>1, <2>1, LenProperties DEF IInv, Typed
    <3> QED
      BY <1>1, <2>1, <2>3, <3>1 DEF IInv, SessionInv, PageInv
  <2>4. ~ page.pending /\ ~ torn => calls[page.run].parameters = browser.parameters
    BY <1>1, <2>1 DEF IInv, SessionInv, PageInv
  <2> QED
    BY <2>2, <2>3, <2>4
<1>2. IInv => PageTellsTruth
  BY <1>1 DEF PageTellsTruth
<1> QED
  BY Invariance, <1>2, PTL

=============================================================================
