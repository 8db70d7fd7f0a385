---------------------------- MODULE LauncherProofs ----------------------------
(***************************************************************************)
(* The launcher takes its listed children down, however many signals       *)
(* arrive while it does, and kills none that it has not asked to end.      *)
(***************************************************************************)
EXTENDS Launcher, TLAPS

Stopped(c) == child[c] \in {"killed", "gone"}

\* A _terminate that waits has asked every listed child, and has seen to the
\* end of those it no longer waits for.
AwaitInv ==
    stop = "awaiting" => \A c \in processes : child[c] # "running" /\ (c \in awaited \/ Stopped(c))

\* What is left to do after the finally clause, and when a signal can still
\* end the launcher at once.
MainInv ==
    /\ main = "restoring" => \A c \in processes : Stopped(c)
    /\ main = "exited" => stop = "none"
    /\ main \in {"installed", "finally"} \union InTry => handled = Signals
    /\ main \in {"start", "api", "installed"} \union InTry => code = "none"

\* The API is listed at once, the dashboard only after it was started.
ListInv ==
    /\ main = "start" => stop = "none"
    /\ main # "start" => "api" \in processes
    /\ main = "spawned" => child["dashboard"] # "none"

Kept == TypeOK /\ AwaitInv /\ MainInv /\ ListedChildrenStopped

IInv == Kept /\ ListInv

LEMMA InitInv == Init => IInv
<1> SUFFICES ASSUME Init PROVE IInv
  OBVIOUS
<1>1. TypeOK
  <2>1. 0 \in 0 .. MaxSignals
    BY SignalAssumption
  <2> QED
    BY <2>1 DEF Init, TypeOK, Children
<1> QED
  BY <1>1 DEF Init, Kept, IInv, AwaitInv, MainInv, ListInv, ListedChildrenStopped, InTry

\* The list of children follows the children.
LEMMA ListStep == ASSUME IInv, Next PROVE ListInv'
<1>1. "dashboard" \in Children /\ \A c \in Children : child[c] # "none" => child'[c] # "none"
  BY DEF Next, Launch, StartApi, InstallHandler, EnterTry, ApiAnswers, WaitFails, BeginFinally,
     SpawnDashboard, ListDashboard, ChildEnded, AskAll, Await, HandlerEnds, FinallyEnds,
     RestoreHandler, Signal, Killed, ChildExits, supervision, termination, Kept, IInv, TypeOK, Children
<1>2. (main # "start" /\ "api" \in processes) => "api" \in processes'
  BY DEF Next, Launch, StartApi, InstallHandler, EnterTry, ApiAnswers, WaitFails, BeginFinally,
     SpawnDashboard, ListDashboard, ChildEnded, AskAll, Await, HandlerEnds, FinallyEnds,
     RestoreHandler, Signal, Killed, ChildExits, supervision, termination, At, Children
<1>3. main = "start" => stop = "none"
  BY DEF IInv, ListInv
<1>4. main = "start" => StartApi \/ main' = main
  BY <1>3 DEF Next, Launch, InstallHandler, EnterTry, ApiAnswers, WaitFails,
     SpawnDashboard, ListDashboard, ChildEnded, AskAll, Await, HandlerEnds, FinallyEnds,
     RestoreHandler, Signal, ChildExits, supervision, At
<1>5. main' = "spawned" => SpawnDashboard \/ main = "spawned"
  BY DEF Next, Launch, StartApi, InstallHandler, EnterTry, ApiAnswers, WaitFails, BeginFinally,
     ListDashboard, ChildEnded, AskAll, Await, HandlerEnds, FinallyEnds,
     RestoreHandler, Signal, Killed, ChildExits, supervision, At
<1>6. main' # main => StartApi \/ (main # "start" /\ (SpawnDashboard \/ main' # "spawned"))
  BY <1>4, <1>5
<1>7. main' = "start" => main = "start" /\ stop' = "none"
  BY DEF Next, Launch, StartApi, InstallHandler, EnterTry, ApiAnswers, WaitFails, BeginFinally,
     SpawnDashboard, ListDashboard, ChildEnded, AskAll, Await, HandlerEnds, FinallyEnds,
     RestoreHandler, Signal, Killed, ChildExits, supervision, termination, At, IInv, ListInv
<1>8. StartApi => "api" \in processes' /\ main' # "spawned"
  BY DEF StartApi
<1>9. SpawnDashboard => child'["dashboard"] # "none"
  BY <1>1 DEF SpawnDashboard, Kept, IInv, TypeOK
<1> QED
  BY <1>1, <1>2, <1>6, <1>7, <1>8, <1>9 DEF IInv, ListInv

\* Steps of main() up to the try statement and inside it.
LEMMA StartInv ==
    ASSUME IInv, StartApi \/ InstallHandler \/ EnterTry \/ ApiAnswers \/ SpawnDashboard \/ ListDashboard
    PROVE  Kept'
<1>1. CASE StartApi
  BY <1>1 DEF StartApi, At, termination, Kept, IInv, TypeOK, AwaitInv, MainInv, ListedChildrenStopped,
     Stopped, Children, Signals, Alive, InTry
<1>2. CASE InstallHandler
  BY <1>2 DEF InstallHandler, At, termination, Kept, IInv, TypeOK, AwaitInv, MainInv,
     ListedChildrenStopped, Stopped, Children, Signals, Alive, InTry
<1>3. CASE EnterTry \/ ApiAnswers
  BY <1>3 DEF EnterTry, ApiAnswers, At, termination, Kept, IInv, TypeOK, AwaitInv, MainInv,
     ListedChildrenStopped, Stopped, Children, Signals, Alive, InTry
<1>4. CASE SpawnDashboard
  <2>1. TypeOK'
    BY <1>4 DEF SpawnDashboard, At, termination, Kept, IInv, TypeOK, Children, Alive, InTry
  <2> QED
    BY <1>4, <2>1 DEF SpawnDashboard, At, termination, Kept, IInv, AwaitInv, MainInv,
       ListedChildrenStopped, InTry
<1>5. CASE ListDashboard
  BY <1>5 DEF ListDashboard, At, termination, Kept, IInv, ListInv, TypeOK, AwaitInv, MainInv,
     ListedChildrenStopped, Stopped, Children, Signals, Alive, InTry
<1> QED
  BY <1>1, <1>2, <1>3, <1>4, <1>5

\* Into the finally clause, and out of it.
LEMMA FinallyInv ==
    ASSUME IInv, WaitFails \/ ChildEnded \/ FinallyEnds \/ RestoreHandler
    PROVE  Kept'
<1>1. CASE WaitFails \/ ChildEnded
  BY <1>1 DEF WaitFails, ChildEnded, BeginFinally, At, Kept, IInv, TypeOK, AwaitInv, MainInv,
     ListedChildrenStopped, Stopped, Children, Signals, Alive, InTry
<1>2. CASE FinallyEnds
  BY <1>2 DEF FinallyEnds, Kept, IInv, TypeOK, AwaitInv, MainInv, ListedChildrenStopped, Stopped, InTry
<1>3. CASE RestoreHandler
  BY <1>3 DEF RestoreHandler, At, termination, Kept, IInv, TypeOK, AwaitInv, MainInv,
     ListedChildrenStopped, Stopped, Children, Signals, Alive, InTry
<1> QED
  BY <1>1, <1>2, <1>3

\* _terminate, and the SystemExit that ends it in a handler.
LEMMA TerminateInv ==
    ASSUME IInv, AskAll \/ (\E c \in Children : Await(c)) \/ HandlerEnds
    PROVE  Kept'
<1>1. CASE AskAll
  BY <1>1 DEF AskAll, supervision, Kept, IInv, TypeOK, AwaitInv, MainInv, ListedChildrenStopped, Stopped,
     Children, Alive, InTry
<1>2. ASSUME NEW c \in Children, Await(c) PROVE Kept'
  <2>1. /\ main' = main /\ processes' = processes /\ handled' = handled /\ stop' = stop
        /\ code' = code /\ inHandler' = inHandler /\ signals' = signals
        /\ stop = "awaiting" /\ awaited' = awaited \ {c}
        /\ \/ child[c] = "gone" /\ child' = child
           \/ child[c] # "gone" /\ child' = [child EXCEPT ![c] = "killed"]
    BY <1>2 DEF Await, supervision
  <2>2. Stopped(c)' /\ \A d \in Children \ {c} : child'[d] = child[d]
    BY <2>1 DEF Kept, IInv, TypeOK, Stopped
  <2>3. child' \in [Children -> Alive \union {"none", "killed", "gone"}]
    BY <2>1 DEF Kept, IInv, TypeOK
  <2>4. TypeOK'
    BY <2>1, <2>2, <2>3 DEF Kept, IInv, TypeOK, Stopped
  <2>5. AwaitInv' /\ MainInv' /\ ListedChildrenStopped'
    BY <2>1, <2>2 DEF Kept, IInv, TypeOK, AwaitInv, MainInv, ListedChildrenStopped, Stopped
  <2> QED
    BY <2>4, <2>5 DEF Kept, IInv
<1>3. CASE HandlerEnds
  BY <1>3 DEF HandlerEnds, Kept, IInv, TypeOK, AwaitInv, MainInv, ListedChildrenStopped, Stopped, InTry
<1> QED
  BY <1>1, <1>2, <1>3

\* A signal that finds no handler after the stack was brought down finds it down.
LEMMA SignalInv == ASSUME IInv, NEW sig \in Signals, Signal(sig) PROVE Kept'
<1>1. CASE sig \in handled
  BY <1>1, SignalAssumption DEF Signal, supervision, Kept, IInv, TypeOK, AwaitInv, MainInv,
     ListedChildrenStopped, Stopped
<1>2. CASE sig \notin handled
  <2>1. code # "none" => main = "restoring"
    BY <1>2 DEF Signal, Kept, IInv, TypeOK, MainInv, InTry
  <2>2. /\ main' = "exited" /\ stop' = "none" /\ inHandler' = FALSE /\ awaited' = {}
        /\ code' \in {code, "killed"} /\ (code = "none" => code' = "killed")
        /\ signals' \in 0 .. MaxSignals
        /\ UNCHANGED <<child, processes, handled>>
    BY <1>2, SignalAssumption DEF Signal, Killed, Kept, IInv, TypeOK
  <2>3. TypeOK'
    BY <2>2 DEF Kept, IInv, TypeOK
  <2>4. ListedChildrenStopped'
    BY <2>1, <2>2 DEF Kept, IInv, MainInv, ListedChildrenStopped, Stopped
  <2> QED
    BY <2>2, <2>3, <2>4 DEF Kept, IInv, AwaitInv, MainInv, InTry
<1> QED
  BY <1>1, <1>2

LEMMA ChildExitsInv == ASSUME IInv, NEW c \in Children, ChildExits(c) PROVE Kept'
  BY DEF ChildExits, supervision, termination, Kept, IInv, TypeOK, AwaitInv, MainInv,
     ListedChildrenStopped, Stopped, Alive

LEMMA StepInv == IInv /\ [Next]_vars => IInv'
<1> SUFFICES ASSUME IInv, [Next]_vars PROVE IInv'
  OBVIOUS
<1>1. CASE UNCHANGED vars
  BY <1>1 DEF vars, supervision, termination, Kept, IInv, ListInv, TypeOK, AwaitInv, MainInv,
     ListedChildrenStopped, Stopped
<1> QED
  BY <1>1, ListStep, StartInv, FinallyInv, TerminateInv, SignalInv, ChildExitsInv
     DEF Next, Launch, IInv

\* Types, what a _terminate has done so far, and what main() may still do (launcher.py:14-94).
THEOREM Invariance == Spec => []IInv
  BY InitInv, StepInv, PTL DEF Spec

-----------------------------------------------------------------------------
\* Type correctness of the launcher, for any number of signals: what is listed was
\* started, and only a _terminate waits (launcher.py:14-94).
THEOREM LauncherTypes == Spec => []TypeOK
<1>1. IInv => TypeOK
  BY DEF Kept, IInv
<1> QED
  BY Invariance, <1>1, PTL

\* However many signals arrive while _terminate runs, and one inside the other, main()
\* does not end before every child it listed is gone or killed (launcher.py:14-26, 64-94).
THEOREM ChildrenStopped == Spec => []ListedChildrenStopped
<1>1. IInv => ListedChildrenStopped
  BY DEF Kept, IInv
<1> QED
  BY Invariance, <1>1, PTL

\* _terminate, however often it is begun anew, kills only a child that a terminate()
\* before it has asked (launcher.py:14-26).
THEOREM KilledWereAsked == Spec => AskedBeforeKilled
<1>1. ASSUME IInv, [Next]_vars, NEW c \in Children, child'[c] = "killed", child[c] # "killed"
      PROVE  child[c] = "asked"
  <2>1. PICK d \in Children : Await(d)
    BY <1>1 DEF Next, Launch, vars, supervision, termination, StartApi, InstallHandler, EnterTry,
       ApiAnswers, WaitFails, BeginFinally, SpawnDashboard, ListDashboard, ChildEnded, AskAll,
       HandlerEnds, FinallyEnds, RestoreHandler, Signal, Killed, ChildExits, Kept, IInv, TypeOK, Children
  <2>2. c = d /\ c \in awaited /\ stop = "awaiting" /\ child[c] # "gone"
    BY <1>1, <2>1 DEF Await, Kept, IInv, TypeOK
  <2>3. c \in processes /\ child[c] \notin {"running", "none"}
    BY <1>1, <2>2 DEF Kept, IInv, TypeOK, AwaitInv
  <2> QED
    BY <1>1, <2>2, <2>3 DEF Kept, IInv, TypeOK, Alive
<1>2. IInv /\ [Next]_vars =>
        [\A c \in Children : child'[c] = "killed" /\ child[c] # "killed" => child[c] = "asked"]_vars
  BY <1>1
<1> QED
  BY Invariance, <1>2, PTL DEF Spec, AskedBeforeKilled
=============================================================================
