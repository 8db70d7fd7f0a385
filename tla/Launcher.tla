------------------------------- MODULE Launcher -------------------------------
(***************************************************************************)
(* The local stack of `make demo` (launcher.py): one process starts the    *)
(* API, waits until it answers, starts the dashboard, and brings both down *)
(* when one of them ends or when it is signalled itself.                   *)
(*                                                                         *)
(* Python runs a signal handler on top of whatever the main thread is      *)
(* doing, another handler included.  stop_stack ends in SystemExit, which  *)
(* unwinds every frame above main(), so only the innermost run of          *)
(* _terminate is ever resumed, and it is the only one that is kept.        *)
(***************************************************************************)
EXTENDS Naturals

CONSTANT MaxSignals     \* bound on the signals that the launcher receives

ASSUME SignalAssumption == MaxSignals \in Nat

VARIABLES
    child,      \* the API and the dashboard, as operating-system processes
    main,       \* how far main() is
    processes,  \* the children in main's list
    handled,    \* signals that stop_stack is installed for
    stop,       \* how far the innermost _terminate is; "none" if there is none
    inHandler,  \* whether stop_stack runs it; otherwise the finally clause
    awaited,    \* the children that it still has to wait for
    code,       \* what first brought the stack down
    signals     \* signals received so far

supervision == <<main, processes, handled>>
termination == <<stop, inHandler, awaited>>
vars == <<child, supervision, termination, code, signals>>

Children == {"api", "dashboard"}

Signals == {"INT", "TERM"}

InTry == {"waiting", "ready", "spawned", "watching"}

Alive == {"running", "asked"}

Init ==
    /\ child = [c \in Children |-> "none"]
    /\ main = "start" /\ processes = {} /\ handled = {}
    /\ stop = "none" /\ inHandler = FALSE /\ awaited = {}
    /\ code = "none" /\ signals = 0

-----------------------------------------------------------------------------
\* main(), which runs while no handler does.

At(place) == main = place /\ stop = "none"

StartApi ==
    /\ At("start")
    /\ child' = [child EXCEPT !["api"] = "running"]
    /\ processes' = {"api"}
    /\ main' = "api"
    /\ UNCHANGED <<handled, termination, code, signals>>

\* SIGINT first, then SIGTERM.
InstallHandler ==
    /\ At("api")
    /\ handled' = IF handled = {} THEN {"INT"} ELSE Signals
    /\ main' = IF handled = {} THEN "api" ELSE "installed"
    /\ UNCHANGED <<child, processes, termination, code, signals>>

EnterTry ==
    /\ At("installed")
    /\ main' = "waiting"
    /\ UNCHANGED <<child, processes, handled, termination, code, signals>>

\* A slip: the dashboard is listed before there is one.
ApiAnswersListing ==
    /\ At("waiting")
    /\ main' = "ready"
    /\ processes' = Children
    /\ UNCHANGED <<child, handled, termination, code, signals>>

\* _wait_for_api returns: its API answers on port 8000, or another server that
\* has the port does, even if the API has ended since it was polled.
ApiAnswers ==
    /\ At("waiting")
    /\ main' = "ready"
    /\ UNCHANGED <<child, processes, handled, termination, code, signals>>

BeginFinally(why) ==
    /\ main' = "finally"
    /\ stop' = "asking"
    /\ code' = why
    /\ UNCHANGED <<child, processes, handled, inHandler, awaited, signals>>

\* _wait_for_api raises: the API has ended, or 30 s have passed.
WaitFails == At("waiting") /\ BeginFinally("error")

SpawnDashboard ==
    /\ At("ready")
    /\ child' = [child EXCEPT !["dashboard"] = "running"]
    /\ main' = "spawned"
    /\ UNCHANGED <<processes, handled, termination, code, signals>>

ListDashboard ==
    /\ At("spawned")
    /\ processes' = Children
    /\ main' = "watching"
    /\ UNCHANGED <<child, handled, termination, code, signals>>

\* The polling loop sees that a child has ended.
ChildEnded ==
    /\ At("watching")
    /\ \E c \in processes : child[c] = "gone"
    /\ BeginFinally("child")

\* The end of the finally clause: SIGINT's handler goes first, then SIGTERM's.
RestoreHandler ==
    /\ At("restoring")
    /\ handled' = IF handled = Signals THEN {"TERM"} ELSE {}
    /\ main' = IF handled = {} THEN "exited" ELSE "restoring"
    /\ UNCHANGED <<child, processes, termination, code, signals>>

-----------------------------------------------------------------------------
\* _terminate(processes)

\* A slip: only the first process of the list is asked.
AskAllFirstOnly ==
    /\ stop = "asking"
    /\ child' = [child EXCEPT !["api"] = IF @ = "running" THEN "asked" ELSE @]
    /\ stop' = "awaiting"
    /\ awaited' = processes
    /\ UNCHANGED <<supervision, inHandler, code, signals>>

\* SIGTERM for every listed child that is alive.
AskAll ==
    /\ stop = "asking"
    /\ child' = [c \in Children |->
         IF c \in processes /\ child[c] = "running" THEN "asked" ELSE child[c]]
    /\ stop' = "awaiting"
    /\ awaited' = processes
    /\ UNCHANGED <<supervision, inHandler, code, signals>>

\* A slip: when the time is up the child is left to itself.
AwaitWithoutKill(c) ==
    /\ stop = "awaiting"
    /\ c \in awaited
    /\ awaited' = awaited \ {c}
    /\ UNCHANGED <<child, supervision, stop, inHandler, code, signals>>

\* The child has ended, or its share of the 5 s is over and it is killed.
Await(c) ==
    /\ stop = "awaiting"
    /\ c \in awaited
    /\ \/ child[c] = "gone" /\ UNCHANGED child
       \/ child[c] # "gone" /\ child' = [child EXCEPT ![c] = "killed"]
    /\ awaited' = awaited \ {c}
    /\ UNCHANGED <<supervision, stop, inHandler, code, signals>>

\* stop_stack raises SystemExit: inside the try that leads to the finally
\* clause, which terminates once more; outside of it main() is over.
HandlerEnds ==
    /\ stop = "awaiting" /\ awaited = {} /\ inHandler
    /\ main' = IF main \in InTry THEN "finally" ELSE "exited"
    /\ stop' = IF main \in InTry THEN "asking" ELSE "none"
    /\ inHandler' = FALSE
    /\ code' = "signal"
    /\ UNCHANGED <<child, processes, handled, awaited, signals>>

FinallyEnds ==
    /\ stop = "awaiting" /\ awaited = {} /\ ~ inHandler
    /\ main' = "restoring"
    /\ stop' = "none"
    /\ UNCHANGED <<child, processes, handled, inHandler, awaited, code, signals>>

-----------------------------------------------------------------------------

Killed ==
    /\ main' = "exited" /\ stop' = "none"
    /\ code' = IF code = "none" THEN "killed" ELSE code
    /\ inHandler' = FALSE /\ awaited' = {}
    /\ UNCHANGED <<child, processes, handled>>

\* A slip: a second signal exits at once.
SignalTwiceExits(sig) ==
    /\ main \notin {"start", "exited"}
    /\ signals < MaxSignals
    /\ signals' = signals + 1
    /\ IF sig \in handled /\ ~ inHandler
       THEN /\ stop' = "asking" /\ inHandler' = TRUE /\ awaited' = {}
            /\ UNCHANGED <<child, supervision, code>>
       ELSE /\ main' = "exited" /\ stop' = "none" /\ code' = "signal"
            /\ inHandler' = FALSE /\ awaited' = {}
            /\ UNCHANGED <<child, processes, handled>>

\* A signal runs stop_stack, on top of a _terminate if there is one; before the
\* handler is installed, and after it was taken out, it ends the launcher.
Signal(sig) ==
    /\ main \notin {"start", "exited"}
    /\ signals < MaxSignals
    /\ signals' = signals + 1
    /\ IF sig \in handled
       THEN /\ stop' = "asking" /\ inHandler' = TRUE /\ awaited' = {}
            /\ UNCHANGED <<child, supervision, code>>
       ELSE Killed

\* A child ends by itself, because it was asked to, or because it was killed.
ChildExits(c) ==
    /\ child[c] \in Alive \union {"killed"}
    /\ child' = [child EXCEPT ![c] = "gone"]
    /\ UNCHANGED <<supervision, termination, code, signals>>

Launch ==
    \/ StartApi \/ InstallHandler \/ EnterTry
    \/ ApiAnswers \/ WaitFails
    \/ SpawnDashboard \/ ListDashboard
    \/ ChildEnded
    \/ AskAll \/ (\E c \in Children : Await(c))
    \/ HandlerEnds \/ FinallyEnds \/ RestoreHandler

Next ==
    \/ Launch
    \/ \E sig \in Signals : Signal(sig)
    \/ \E c \in Children : ChildExits(c)

Spec == Init /\ [][Next]_vars

\* The launcher's thread is scheduled and each of its waits has a deadline;
\* SIGKILL is final.  A child may ignore SIGTERM or run for ever.
FairSpec ==
    /\ Spec
    /\ WF_vars(Launch)
    /\ \A c \in Children : WF_vars(child[c] = "killed" /\ ChildExits(c))

-----------------------------------------------------------------------------
\* Type correctness; what is listed was started, and only a _terminate waits.
TypeOK ==
    /\ child \in [Children -> Alive \union {"none", "killed", "gone"}]
    /\ main \in {"start", "api", "installed", "finally", "restoring", "exited"} \union InTry
    /\ processes \subseteq Children
    /\ handled \subseteq Signals
    /\ stop \in {"none", "asking", "awaiting"}
    /\ inHandler \in BOOLEAN
    /\ awaited \subseteq processes
    /\ code \in {"none", "error", "child", "signal", "killed"}
    /\ signals \in 0 .. MaxSignals
    /\ \A c \in processes : child[c] # "none"
    /\ stop # "awaiting" => awaited = {}

\* Whatever brings the stack down, and however many signals arrive while it
\* goes down, main() does not end before each child it has listed is gone or
\* has been sent SIGKILL.  (A signal that finds no handler ends it at once.)
ListedChildrenStopped ==
    main = "exited" /\ code # "killed" =>
        \A c \in processes : child[c] \in {"killed", "gone"}

\* A child is killed only after it was asked to end and did not.
AskedBeforeKilled ==
    [][\A c \in Children :
         child'[c] = "killed" /\ child[c] # "killed" => child[c] = "asked"]_vars

Down == main = "exited" /\ \A c \in processes : child[c] = "gone"

\* The stack comes down as a whole: once the launcher handles a signal, or a
\* listed child ends while the launcher waits or watches, the launcher and all
\* listed children end, those that ignore SIGTERM included.  (The exception is
\* a signal before its handler was installed.)
StackComesDown ==
    (stop # "none" \/ (main \in InTry /\ \E c \in processes : child[c] = "gone"))
        ~> (Down \/ code = "killed")

\* make demo is documented to supervise API and dashboard together: once the
\* launcher has stopped the stack in its own way, neither is left running.
SupervisedTogether ==
    main = "exited" /\ code # "killed" => \A c \in Children : child[c] \notin Alive
=============================================================================
