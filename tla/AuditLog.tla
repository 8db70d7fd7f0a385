------------------------------- MODULE AuditLog -------------------------------
(***************************************************************************)
(* What the run repository promises its callers, without hashes, locks,    *)
(* transactions or migrations: an append-only log of records, in which     *)
(* each accepted call appears at most once, and a call that is answered    *)
(* with a seal is in the log for good.                                     *)
(***************************************************************************)
EXTENDS Sequences, Naturals

CONSTANT Calls      \* calls of record(); a call is named by its run_id

VARIABLES
    log,        \* the records, oldest first; a record has a run_id
    outcome     \* what the caller of each record() knows

vars == <<log, outcome>>

Logged(c) == \E i \in 1 .. Len(log) : log[i].run_id = c

Init ==
    /\ \A c \in Calls : ~ Logged(c)
    /\ outcome = [c \in Calls |-> "idle"]

\* The call starts, or its payload has no canonical form and it is refused.
Submit(c) ==
    /\ outcome[c] = "idle"
    /\ \E o \in {"open", "failed"} : outcome' = [outcome EXCEPT ![c] = o]
    /\ UNCHANGED log

\* The log grows by exactly one record of an open call, at the end.
Record(c) ==
    /\ outcome[c] = "open"
    /\ ~ Logged(c)
    /\ Len(log') = Len(log) + 1
    /\ \A i \in 1 .. Len(log) : log'[i] = log[i]
    /\ log'[Len(log) + 1].run_id = c
    /\ UNCHANGED outcome

Acknowledge(c) ==
    /\ outcome[c] = "open"
    /\ Logged(c)
    /\ outcome' = [outcome EXCEPT ![c] = "acked"]
    /\ UNCHANGED log

\* The caller gets an error, and nothing was recorded.
Fail(c) ==
    /\ outcome[c] = "open"
    /\ ~ Logged(c)
    /\ outcome' = [outcome EXCEPT ![c] = "failed"]
    /\ UNCHANGED log

\* The service dies under open calls: recorded or not, no one is told.
Lose ==
    \E lost \in SUBSET {c \in Calls : outcome[c] = "open"} :
        /\ lost # {}
        /\ outcome' = [c \in Calls |-> IF c \in lost THEN "lost" ELSE outcome[c]]
        /\ UNCHANGED log

Next ==
    \/ \E c \in Calls : Submit(c) \/ Record(c) \/ Acknowledge(c) \/ Fail(c)
    \/ Lose

Answered(c) == outcome[c] \in {"acked", "failed", "lost"}

Spec == Init /\ [][Next]_vars

\* No call stays open for ever: the caller gets a seal or an error.
EventuallyAnswered == \A c \in Calls : outcome[c] = "open" ~> Answered(c)
=============================================================================
