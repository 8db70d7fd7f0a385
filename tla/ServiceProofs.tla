---------------------------- MODULE ServiceProofs ----------------------------
(***************************************************************************)
(* The API process limits, counts, checks and records as it should for any *)
(* number of requests, remote addresses and settings, any limit and any    *)
(* window.                                                                 *)
(***************************************************************************)
EXTENDS Service, FiniteSetTheorems, SequenceTheorems, TLAPS

\* A step and the status go together.
StepInv ==
    /\ settings.mode # "none" => settings \in Settings /\ Accepted(settings)
    /\ \A r \in Requests :
         /\ step[r] # "new" => settings.mode # "none"
         /\ step[r] = "response" => status[r] \in Statuses \ {0, 429}
         /\ step[r] = "answered" => status[r] \in Statuses \ {0}
         /\ step[r] \in {"permission", "record", "recording"} => Ask[r].endpoint \notin Open
         /\ step[r] \in {"record", "recording"} =>
              /\ Ask[r].endpoint \in Diagnostics
              /\ Ask[r].endpoint = "csv" => FitForDiagnosis(Ask[r].upload)

\* A request that is past the permission check and has not failed since.
Served(r) ==
    \/ step[r] \in {"handler", "record", "recording"}
    \/ step[r] \in {"response", "answered"} /\ status[r] = 200

\* Such a request has the principal of its caller, who may do what it asks.
PrincipalInv ==
    /\ DOMAIN principal = Requests
    /\ \A r \in Requests : Served(r) /\ Ask[r].endpoint \notin Open =>
         /\ principal[r] = Authenticate(settings, Ask[r].caller)
         /\ principal[r] # NoPrincipal
         /\ Can(principal[r], Permission(Ask[r].endpoint))

\* The runs there can be: a request, and a name that a caller is given.
Runs ==
    [run_id : Requests,
     operator_id : {Authenticate(s, Ask[r].caller).operator_id : s \in Settings, r \in Requests}]

\* A run in the database belongs to a diagnostic that answers 200.
Right(run) ==
    LET r == run.run_id IN
    /\ r \in Requests
    /\ step[r] \in {"response", "answered"} /\ status[r] = 200
    /\ Ask[r].endpoint \in Diagnostics
    /\ Ask[r].endpoint = "csv" => FitForDiagnosis(Ask[r].upload)
    /\ run.operator_id = principal[r].operator_id

Recorded(r) == \E i \in 1 .. Len(runs) : runs[i].run_id = r

RunInv ==
    /\ runs \in Seq(Runs)
    /\ \A i \in 1 .. Len(runs) : Right(runs[i])
    /\ \A r \in Requests :
         /\ step[r] \in {"response", "answered"} /\ status[r] = 200
         /\ Ask[r].endpoint \in Diagnostics
         => Recorded(r)

\* A window holds the latest admissions in order, at most Limit of them; those
\* it no longer holds are a whole window old.
Windowed(a, w) ==
    /\ Len(w) <= Limit /\ Len(w) <= Len(a)
    /\ \A i \in 1 .. Len(w) : w[i] = a[Len(a) - Len(w) + i]
    /\ \A i \in 1 .. Len(a) - Len(w) : a[i] + Window <= clock
    /\ \A i \in 1 .. Len(a) : a[i] <= clock

RateInv ==
    /\ \A m \in Remotes : Windowed(admitted[m], window[m])
    /\ RateLimited

Uncounted == {429, 500}

Tally(route) == {r \in Requests : Answered(r) /\ Route(r) = route}

\* CountersBalance, for every route and not only those of an answer.
ArrivalsCounted == request_count = Cardinality({r \in Requests : step[r] # "new"})

Errors == {r \in Requests : Answered(r) /\ status[r] >= 400}

AnswersCounted ==
    /\ error_count = Cardinality(Errors)
    /\ \A route \in Endpoints \X Statuses :
         Count(route) = IF route[2] \in Uncounted THEN 0 ELSE Cardinality(Tally(route))
    /\ \A route \in DOMAIN route_metrics : \E r \in Requests : Answered(r) /\ Route(r) = route

TallyInv == ArrivalsCounted /\ AnswersCounted

IInv == TypeOK /\ StepInv /\ PrincipalInv /\ RunInv /\ RateInv /\ TallyInv

-----------------------------------------------------------------------------
\* The window of a remote address.

\* What pruning leaves is a window, shorter or equal, of requests that are in
\* it still; and if anything is left, its first time is less than a window old.
LEMMA PrunedWindow ==
    ASSUME clock \in Nat, Window \in Nat,
           NEW a \in Seq(0 .. MaxTime), NEW v \in Seq(0 .. MaxTime), Windowed(a, v),
           NEW w \in Pruned(v)
    PROVE  /\ w \in Seq(0 .. MaxTime)
           /\ Windowed(a, w)
           /\ w # <<>> => w[1] + Window > clock
<1>1. PICK n \in 0 .. Len(v) : Expired(v, n) /\ w = SubSeq(v, n + 1, Len(v))
  BY DEF Pruned
<1>2. Len(v) \in Nat /\ Len(a) \in Nat /\ \A i \in 1 .. Len(v) : v[i] \in 0 .. MaxTime
  BY LenProperties, ElementOfSeq
<1>3. /\ w \in Seq(0 .. MaxTime)
      /\ Len(w) = Len(v) - n
      /\ \A i \in 1 .. Len(w) : w[i] = v[n + i]
  <2>1. \A i \in n + 1 .. Len(v) : v[i] \in 0 .. MaxTime
    BY <1>2
  <2>2. n + 1 \in Int /\ Len(v) \in Int
    BY <1>2
  <2>3. /\ SubSeq(v, n + 1, Len(v)) \in Seq(0 .. MaxTime)
        /\ Len(SubSeq(v, n + 1, Len(v))) =
             IF n + 1 <= Len(v) THEN Len(v) - (n + 1) + 1 ELSE 0
        /\ \A i \in 1 .. Len(v) - (n + 1) + 1 :
             SubSeq(v, n + 1, Len(v))[i] = v[(n + 1) + i - 1]
    BY <2>1, <2>2, SubSeqProperties
  <2> QED
    BY <1>1, <1>2, <2>3
<1>4. Windowed(a, w)
  <2>1. \A i \in 1 .. Len(w) : w[i] = a[Len(a) - Len(w) + i]
    BY <1>2, <1>3 DEF Windowed
  <2>2. ASSUME NEW i \in 1 .. Len(a) - Len(w) PROVE a[i] + Window <= clock
    <3>1. CASE i <= Len(a) - Len(v)
      BY <1>2, <3>1 DEF Windowed
    <3>2. CASE i > Len(a) - Len(v)
      <4> DEFINE k == i - (Len(a) - Len(v))
      <4>1. k \in 1 .. n /\ i = Len(a) - Len(v) + k
        BY <1>2, <1>3, <3>2 DEF Windowed
      <4> HIDE DEF k
      <4>2. v[k] + Window <= clock
        BY <1>1, <4>1 DEF Expired
      <4>3. k \in 1 .. Len(v)
        BY <1>2, <4>1
      <4> QED
        BY <4>1, <4>2, <4>3 DEF Windowed
    <3> HIDE DEF Windowed
    <3>3. i \in Int /\ Len(a) - Len(v) \in Int
      BY <1>2, <1>3
    <3> QED
      BY <3>1, <3>2, <3>3
  <2> QED
    BY <1>2, <1>3, <2>1, <2>2, ServiceAssumption DEF Windowed
<1>5. ASSUME w # <<>> PROVE w[1] + Window > clock
  <2>1. Len(w) > 0
    BY <1>3, <1>5
  <2>2. n < Len(v) /\ w[1] = v[n + 1]
    BY <1>2, <1>3, <2>1
  <2> QED
    BY <1>1, <2>2 DEF Expired
<1> QED
  BY <1>3, <1>4, <1>5

\* So it is for the window of each remote address.
LEMMA RemoteWindow ==
    ASSUME TypeOK, RateInv, NEW m \in Remotes, NEW w \in Pruned(window[m])
    PROVE  /\ w \in Seq(0 .. MaxTime)
           /\ Windowed(admitted[m], w)
           /\ w # <<>> => w[1] + Window > clock
<1>1. /\ window[m] \in Seq(0 .. MaxTime) /\ admitted[m] \in Seq(0 .. MaxTime)
      /\ Windowed(admitted[m], window[m])
      /\ clock \in Nat /\ Window \in Nat
  BY ServiceAssumption DEF TypeOK, RateInv
<1> QED
  BY <1>1, PrunedWindow

\* Letting a request in keeps the window and the distance of Limit requests.
LEMMA AdmittedWindow ==
    ASSUME clock \in 0 .. MaxTime,
           NEW a \in Seq(0 .. MaxTime), NEW w \in Seq(0 .. MaxTime), Windowed(a, w),
           Len(w) < Limit,
           \A i \in 1 .. Len(a) : i + Limit <= Len(a) => a[i + Limit] >= a[i] + Window
    PROVE  LET b == Append(a, clock) IN
           /\ b \in Seq(0 .. MaxTime) /\ Append(w, clock) \in Seq(0 .. MaxTime)
           /\ Windowed(b, Append(w, clock))
           /\ \A i \in 1 .. Len(b) : i + Limit <= Len(b) => b[i + Limit] >= b[i] + Window
<1> DEFINE b == Append(a, clock)
           u == Append(w, clock)
<1>1. /\ b \in Seq(0 .. MaxTime) /\ u \in Seq(0 .. MaxTime)
      /\ Len(b) = Len(a) + 1 /\ Len(u) = Len(w) + 1
      /\ \A i \in 1 .. Len(a) : b[i] = a[i]
      /\ \A i \in 1 .. Len(w) : u[i] = w[i]
      /\ b[Len(a) + 1] = clock /\ u[Len(w) + 1] = clock
  OBVIOUS
<1>2. Len(a) \in Nat /\ Len(w) \in Nat /\ Limit \in Nat \ {0} /\ Window \in Nat \ {0}
  BY LenProperties, ServiceAssumption
<1>3. /\ \A i \in 1 .. Len(a) : a[i] \in 0 .. MaxTime
      /\ \A i \in 1 .. Len(w) : w[i] \in 0 .. MaxTime
      /\ MaxTime \in Nat
  BY ElementOfSeq, ServiceAssumption
<1> HIDE DEF b, u
<1>4. Windowed(b, u)
  <2>1. Len(u) <= Limit /\ Len(u) <= Len(b)
    BY <1>1, <1>2 DEF Windowed
  <2>2. \A i \in 1 .. Len(u) : u[i] = b[Len(b) - Len(u) + i]
    <3>1. ASSUME NEW i \in 1 .. Len(w) PROVE u[i] = b[Len(b) - Len(u) + i]
      <4>1. Len(a) - Len(w) + i \in 1 .. Len(a) /\ Len(b) - Len(u) + i = Len(a) - Len(w) + i
        BY <1>1, <1>2 DEF Windowed
      <4>2. w[i] = a[Len(a) - Len(w) + i]
        BY DEF Windowed
      <4> QED
        BY <1>1, <4>1, <4>2
    <3>2. u[Len(u)] = b[Len(b) - Len(u) + Len(u)]
      BY <1>1, <1>2
    <3> QED
      BY <1>1, <1>2, <3>1, <3>2
  <2>3. ASSUME NEW i \in 1 .. Len(b) - Len(u) PROVE b[i] + Window <= clock
    <3>1. i \in 1 .. Len(a) - Len(w) /\ i \in 1 .. Len(a)
      BY <1>1, <1>2
    <3> QED
      BY <1>1, <3>1 DEF Windowed
  <2>4. ASSUME NEW i \in 1 .. Len(b) PROVE b[i] <= clock
    <3>1. CASE i \in 1 .. Len(a)
      BY <1>1, <3>1 DEF Windowed
    <3>2. CASE i = Len(a) + 1
      BY <1>1, <1>3, <3>2
    <3> QED
      BY <1>1, <1>2, <3>1, <3>2
  <2> QED
    BY <2>1, <2>2, <2>3, <2>4 DEF Windowed
<1>5. ASSUME NEW i \in 1 .. Len(b), i + Limit <= Len(b) PROVE b[i + Limit] >= b[i] + Window
  <2>1. CASE i + Limit <= Len(a)
    <3>1. i \in 1 .. Len(a) /\ i + Limit \in 1 .. Len(a)
      BY <1>2, <2>1
    <3> QED
      BY <1>1, <2>1, <3>1
  <2>2. CASE i + Limit = Len(a) + 1
    <3>1. i \in 1 .. Len(a) - Len(w) /\ i \in 1 .. Len(a)
      BY <1>2, <2>2 DEF Windowed
    <3>2. a[i] + Window <= clock /\ b[i] = a[i]
      BY <1>1, <3>1 DEF Windowed
    <3> QED
      BY <1>1, <1>2, <1>3, <2>2, <3>1, <3>2
  <2>3. i + Limit \in Int /\ Len(a) \in Int /\ i + Limit <= Len(a) + 1
    BY <1>1, <1>2, <1>5
  <2> QED
    BY <2>1, <2>2, <2>3
<1> QED
  BY <1>1, <1>4, <1>5 DEF b, u

-----------------------------------------------------------------------------
\* One lemma for each part of the invariant.

\* The codes of a response.
LEMMA Codes ==
    /\ {200, 400, 401, 403, 422, 500, 503} \subseteq Statuses \ {0, 429}
    /\ \A r \in Requests : Ask[r].upload.form \in Statuses \ {0, 429}
    /\ \A r \in Requests : Ask[r].endpoint \notin Diagnostics =>
         ReadStatuses[Ask[r].endpoint] \subseteq Statuses \ {0, 429}
<1>1. {200, 400, 401, 403, 422, 500, 503} \subseteq Statuses \ {0, 429}
  BY DEF Statuses
<1>2. ASSUME NEW r \in Requests PROVE Ask[r].upload.form \in Statuses \ {0, 429}
  <2>1. Ask[r].upload.form \in {200, 413, 415, 422}
    BY ServiceAssumption
  <2> QED
    BY <2>1 DEF Statuses
<1>3. ASSUME NEW r \in Requests, Ask[r].endpoint \notin Diagnostics
      PROVE  ReadStatuses[Ask[r].endpoint] \subseteq Statuses \ {0, 429}
  <2>1. Ask[r].endpoint \in {"metrics", "probe", "records", "evidence", "sample"}
    BY <1>3, ServiceAssumption DEF Endpoints, Open
  <2> QED
    BY <2>1 DEF ReadStatuses, Statuses
<1> QED
  BY <1>1, <1>2, <1>3

\* A response of a request that holds neither the lock nor the loop keeps the
\* types.
LEMMA TypesOfAResponse ==
    ASSUME TypeOK, NEW r \in Requests, step[r] \in {"permission", "handler"},
           NEW code \in Statuses \ {0, 429}, Respond(r, code),
           UNCHANGED <<settings, limiter, counters, loop, lock, runs>>
    PROVE  TypeOK'
BY DEF TypeOK, Steps, Statuses, limiter, counters, Respond

\* A response keeps what the steps say.
LEMMA StepsOfAResponse ==
    ASSUME TypeOK, StepInv, NEW r \in Requests, step[r] # "new",
           NEW code \in Statuses \ {0, 429}, Respond(r, code), UNCHANGED settings
    PROVE  StepInv'
BY DEF TypeOK, StepInv, Steps, Respond

\* Every step keeps the types, and the owners of the lock and of the loop.
LEMMA TypesKept ==
    ASSUME TypeOK, RateInv, [Next]_vars
    PROVE  TypeOK'
<1>1. ASSUME NEW s \in Settings, Start(s) PROVE TypeOK'
  BY <1>1 DEF TypeOK, Start, limiter, counters
<1>2. CASE Tick
  BY <1>2, ServiceAssumption DEF TypeOK, Tick, counters
<1>3. ASSUME NEW r \in Requests, Pass(r) PROVE TypeOK'
  BY <1>3 DEF TypeOK, Steps, Pass, Arrives, GoesOn
<1>4. ASSUME NEW r \in Requests, Admit(r) PROVE TypeOK'
  <2>1. PICK w \in Pruned(window[Ask[r].remote]) : LetIn(r, w)
    BY <1>4 DEF Admit
  <2>2. w \in Seq(0 .. MaxTime)
    BY <2>1, RemoteWindow, ServiceAssumption
  <2>3. \A a \in Seq(0 .. MaxTime) : Append(a, clock) \in Seq(0 .. MaxTime)
    BY DEF TypeOK
  <2>4. admitted[Ask[r].remote] \in Seq(0 .. MaxTime)
    BY ServiceAssumption DEF TypeOK
  <2>5. window' \in [Remotes -> Seq(0 .. MaxTime)] /\ admitted' \in [Remotes -> Seq(0 .. MaxTime)]
    BY <2>1, <2>2, <2>3, <2>4 DEF LetIn, TypeOK
  <2> QED
    BY <1>4, <2>5 DEF TypeOK, Steps, Admit, Arrives, GoesOn
<1>5. ASSUME NEW r \in Requests, Refuse(r) PROVE TypeOK'
  <2>1. PICK w \in Pruned(window[Ask[r].remote]) : window' = [window EXCEPT ![Ask[r].remote] = w]
    BY <1>5 DEF Refuse
  <2>2. w \in Seq(0 .. MaxTime)
    BY <2>1, RemoteWindow, ServiceAssumption
  <2>3. window' \in [Remotes -> Seq(0 .. MaxTime)]
    BY <2>1, <2>2 DEF TypeOK
  <2> QED
    BY <1>5, <2>3 DEF TypeOK, Steps, Statuses, Refuse, Arrives, TurnAway
<1>6. ASSUME NEW r \in Requests, RejectBody(r) PROVE TypeOK'
  BY <1>6, Codes, TypesOfAResponse DEF RejectBody
<1>7. ASSUME NEW r \in Requests, CheckPermission(r) PROVE TypeOK'
  <2>1. CASE Respond(r, 401) \/ Respond(r, 403) \/ Respond(r, 500)
    BY <1>7, <2>1, Codes, TypesOfAResponse DEF CheckPermission
  <2>2. CASE step' = [step EXCEPT ![r] = "handler"] /\ UNCHANGED status
    BY <1>7, <2>2 DEF TypeOK, Steps, CheckPermission, limiter, counters
  <2> QED
    BY <1>7, <2>1, <2>2 DEF CheckPermission
<1>8. ASSUME NEW r \in Requests, HandleRead(r) PROVE TypeOK'
  BY <1>8, Codes, TypesOfAResponse DEF HandleRead
<1>9. ASSUME NEW r \in Requests, Compute(r) PROVE TypeOK'
  <2>1. ASSUME NEW code \in {422, 500, 503}, Respond(r, code) PROVE TypeOK'
    BY <1>9, <2>1, Codes, TypesOfAResponse DEF Compute
  <2>2. CASE step' = [step EXCEPT ![r] = "record"] /\ UNCHANGED status
    BY <1>9, <2>2 DEF TypeOK, Steps, Compute, limiter, counters
  <2> QED
    BY <1>9, <2>1, <2>2 DEF Compute
<1>10. ASSUME NEW r \in Requests, AnalyseUpload(r) PROVE TypeOK'
  <2>1. ASSUME NEW code \in Statuses \ {0, 429}, Respond(r, code), UNCHANGED loop PROVE TypeOK'
    BY <1>10, <2>1, TypesOfAResponse DEF AnalyseUpload
  <2>2. CASE step' = [step EXCEPT ![r] = "record"] /\ loop' = r /\ UNCHANGED status
    BY <1>10, <2>2, ServiceAssumption DEF TypeOK, Steps, AnalyseUpload, limiter, counters
  <2> QED
    BY <1>10, <2>1, <2>2, Codes DEF AnalyseUpload
<1>11. ASSUME NEW r \in Requests, BeginRecord(r) PROVE TypeOK'
  BY <1>11, ServiceAssumption DEF TypeOK, Steps, BeginRecord, limiter, counters
<1>12. ASSUME NEW r \in Requests, EndRecord(r) PROVE TypeOK'
  BY <1>12, ServiceAssumption
  DEF TypeOK, Steps, Statuses, EndRecord, Release, Respond, limiter, counters
<1>13. ASSUME NEW r \in Requests, RecordFails(r) PROVE TypeOK'
  BY <1>13, ServiceAssumption
  DEF TypeOK, Steps, Statuses, RecordFails, Release, Respond, limiter, counters
<1>14. ASSUME NEW r \in Requests, Answer(r) PROVE TypeOK'
  <2>1. \A route \in DOMAIN route_metrics : route_metrics[route] \in Nat
    BY DEF TypeOK
  <2>2. route_metrics' \in [DOMAIN route_metrics' -> Nat]
    BY <1>14, <2>1 DEF TypeOK, Answer, Counted, Count
  <2> QED
    BY <1>14, <2>2 DEF TypeOK, Steps, Statuses, Answer, Leaves, limiter
<1>15. CASE UNCHANGED vars
  BY <1>15 DEF TypeOK, vars, limiter, counters
<1> QED
  BY <1>1, <1>2, <1>3, <1>4, <1>5, <1>6, <1>7, <1>8, <1>9, <1>10, <1>11, <1>12, <1>13, <1>14,
     <1>15 DEF Next, Work

\* Every step keeps what the steps of a request say of its endpoint, its
\* upload and its status.
LEMMA StepsKept ==
    ASSUME TypeOK, StepInv, [Next]_vars
    PROVE  StepInv'
<1>1. ASSUME NEW s \in Settings, Start(s) PROVE StepInv'
  BY <1>1 DEF TypeOK, StepInv, Start
<1>2. CASE Tick
  BY <1>2 DEF StepInv, Tick
<1>3. ASSUME NEW r \in Requests, Pass(r) PROVE StepInv'
  BY <1>3 DEF TypeOK, StepInv, Pass, Arrives, GoesOn
<1>4. ASSUME NEW r \in Requests, Admit(r) PROVE StepInv'
  BY <1>4 DEF TypeOK, StepInv, Admit, Arrives, GoesOn
<1>5. ASSUME NEW r \in Requests, Refuse(r) PROVE StepInv'
  BY <1>5 DEF TypeOK, StepInv, Statuses, Refuse, Arrives, TurnAway
<1>6. ASSUME NEW r \in Requests, RejectBody(r) PROVE StepInv'
  BY <1>6, Codes, StepsOfAResponse DEF RejectBody
<1>7. ASSUME NEW r \in Requests, CheckPermission(r) PROVE StepInv'
  <2>1. CASE Respond(r, 401) \/ Respond(r, 403) \/ Respond(r, 500)
    BY <1>7, <2>1, Codes, StepsOfAResponse DEF CheckPermission
  <2>2. CASE step' = [step EXCEPT ![r] = "handler"] /\ UNCHANGED status
    BY <1>7, <2>2 DEF TypeOK, StepInv, CheckPermission
  <2> QED
    BY <1>7, <2>1, <2>2 DEF CheckPermission
<1>8. ASSUME NEW r \in Requests, HandleRead(r) PROVE StepInv'
  BY <1>8, Codes, StepsOfAResponse DEF HandleRead
<1>9. ASSUME NEW r \in Requests, Compute(r) PROVE StepInv'
  <2>1. ASSUME NEW code \in {422, 500, 503}, Respond(r, code) PROVE StepInv'
    BY <1>9, <2>1, Codes, StepsOfAResponse DEF Compute
  <2>2. CASE step' = [step EXCEPT ![r] = "record"] /\ UNCHANGED status
    BY <1>9, <2>2 DEF TypeOK, StepInv, Compute, Diagnostics, Open
  <2> QED
    BY <1>9, <2>1, <2>2 DEF Compute
<1>10. ASSUME NEW r \in Requests, AnalyseUpload(r) PROVE StepInv'
  <2>1. ASSUME NEW code \in Statuses \ {0, 429}, Respond(r, code) PROVE StepInv'
    BY <1>10, <2>1, StepsOfAResponse DEF AnalyseUpload
  <2>2. CASE /\ step' = [step EXCEPT ![r] = "record"] /\ UNCHANGED status
             /\ FitForDiagnosis(Ask[r].upload)
    BY <1>10, <2>2 DEF TypeOK, StepInv, AnalyseUpload, Diagnostics, Open
  <2> QED
    BY <1>10, <2>1, <2>2, Codes DEF AnalyseUpload
<1>11. ASSUME NEW r \in Requests, BeginRecord(r) PROVE StepInv'
  BY <1>11 DEF TypeOK, StepInv, BeginRecord
<1>12. ASSUME NEW r \in Requests, EndRecord(r) PROVE StepInv'
  BY <1>12, Codes, StepsOfAResponse DEF EndRecord
<1>13. ASSUME NEW r \in Requests, RecordFails(r) PROVE StepInv'
  BY <1>13, Codes, StepsOfAResponse DEF RecordFails
<1>14. ASSUME NEW r \in Requests, Answer(r) PROVE StepInv'
  BY <1>14 DEF TypeOK, StepInv, Answer, Leaves
<1>15. CASE UNCHANGED vars
  BY <1>15 DEF StepInv, vars
<1> QED
  BY <1>1, <1>2, <1>3, <1>4, <1>5, <1>6, <1>7, <1>8, <1>9, <1>10, <1>11, <1>12, <1>13, <1>14,
     <1>15 DEF Next, Work

\* What a step does to the requests that are past the permission check: none
\* becomes one but the one that passes it now, and principals do not change.
LEMMA ServedKept ==
    ASSUME TypeOK, StepInv, DOMAIN principal = Requests, [Next]_vars, NEW q \in Requests,
           Served(q)', Ask[q].endpoint \notin Open
    PROVE  \/ Served(q) /\ settings' = settings /\ principal'[q] = principal[q]
           \/ /\ settings' = settings
              /\ principal'[q] = Authenticate(settings, Ask[q].caller)
              /\ principal'[q] # NoPrincipal
              /\ Can(principal'[q], Permission(Ask[q].endpoint))
<1> DEFINE Same == Served(q) /\ settings' = settings /\ principal'[q] = principal[q]
           Now == /\ settings' = settings
                  /\ principal'[q] = Authenticate(settings, Ask[q].caller)
                  /\ principal'[q] # NoPrincipal
                  /\ Can(principal'[q], Permission(Ask[q].endpoint))
<1> SUFFICES Same \/ Now
  OBVIOUS
<1>1. ASSUME NEW s \in Settings, Start(s) PROVE Same
  BY <1>1 DEF TypeOK, StepInv, Start, Served
<1>2. CASE Tick
  BY <1>2 DEF Tick, Served
<1>3. ASSUME NEW r \in Requests, Pass(r) PROVE Same
  BY <1>3 DEF TypeOK, Pass, Arrives, GoesOn, Served
<1>4. ASSUME NEW r \in Requests, Admit(r) PROVE Same
  BY <1>4 DEF TypeOK, Admit, Arrives, GoesOn, Served
<1>5. ASSUME NEW r \in Requests, Refuse(r) PROVE Same
  BY <1>5 DEF TypeOK, Refuse, Arrives, TurnAway, Served
<1>6. ASSUME NEW r \in Requests, RejectBody(r) PROVE Same
  BY <1>6 DEF TypeOK, RejectBody, Respond, Served
<1>7. ASSUME NEW r \in Requests, CheckPermission(r) PROVE Same \/ Now
  <2>1. CASE q # r
    BY <1>7, <2>1 DEF TypeOK, CheckPermission, Respond, Served
  <2>2. CASE q = r
    <3>1. ~ Respond(r, 401) /\ ~ Respond(r, 403) /\ ~ Respond(r, 500)
      BY <1>7, <2>2 DEF TypeOK, Respond, Served
    <3> QED
      BY <1>7, <2>2, <3>1 DEF TypeOK, CheckPermission
  <2> QED
    BY <2>1, <2>2
<1>8. ASSUME NEW r \in Requests, HandleRead(r) PROVE Same
  BY <1>8 DEF TypeOK, HandleRead, Respond, Served
<1>9. ASSUME NEW r \in Requests, Compute(r) PROVE Same
  BY <1>9 DEF TypeOK, Compute, Respond, Served
<1>10. ASSUME NEW r \in Requests, AnalyseUpload(r) PROVE Same
  <2>1. Served(r)
    BY <1>10 DEF AnalyseUpload, Served
  <2>2. q # r => step'[q] = step[q] /\ status'[q] = status[q]
    BY <1>10 DEF TypeOK, AnalyseUpload, Respond
  <2>3. settings' = settings /\ principal' = principal
    BY <1>10 DEF AnalyseUpload
  <2> QED
    BY <2>1, <2>2, <2>3 DEF Served
<1>11. ASSUME NEW r \in Requests, BeginRecord(r) PROVE Same
  BY <1>11 DEF TypeOK, BeginRecord, Served
<1>12. ASSUME NEW r \in Requests, EndRecord(r) PROVE Same
  BY <1>12 DEF TypeOK, EndRecord, Respond, Served
<1>13. ASSUME NEW r \in Requests, RecordFails(r) PROVE Same
  BY <1>13 DEF TypeOK, RecordFails, Respond, Served
<1>14. ASSUME NEW r \in Requests, Answer(r) PROVE Same
  BY <1>14 DEF TypeOK, Answer, Leaves, Served
<1>15. CASE UNCHANGED vars
  BY <1>15 DEF vars, Served
<1> QED
  BY <1>1, <1>2, <1>3, <1>4, <1>5, <1>6, <1>7, <1>8, <1>9, <1>10, <1>11, <1>12, <1>13, <1>14,
     <1>15 DEF Next, Work

\* Every step keeps the principals of the requests past the check.
LEMMA PrincipalsKept ==
    ASSUME TypeOK, StepInv, PrincipalInv, [Next]_vars
    PROVE  PrincipalInv'
<1>1. ASSUME NEW q \in Requests, Served(q)', Ask[q].endpoint \notin Open
      PROVE  /\ principal'[q] = Authenticate(settings', Ask[q].caller)
             /\ principal'[q] # NoPrincipal
             /\ Can(principal'[q], Permission(Ask[q].endpoint))
  BY <1>1, ServedKept DEF PrincipalInv
<1>2. DOMAIN principal' = Requests
  <2>1. \/ UNCHANGED principal
        \/ \E r \in Requests : CheckPermission(r)
    BY DEF Next, vars, Start, Tick, Pass, Admit, Refuse, Arrives, Work, RejectBody, HandleRead,
           Compute, AnalyseUpload, BeginRecord, EndRecord, RecordFails, Answer, Leaves
  <2>2. ASSUME NEW r \in Requests, CheckPermission(r) PROVE DOMAIN principal' = DOMAIN principal
    BY <2>2 DEF CheckPermission
  <2> QED
    BY <2>1, <2>2 DEF PrincipalInv
<1> QED
  BY <1>1, <1>2 DEF PrincipalInv

\* A response stays what it is until and after it has left the middleware.
LEMMA ResponsesKept ==
    ASSUME TypeOK, DOMAIN principal = Requests, [Next]_vars,
           NEW q \in Requests, step[q] \in {"response", "answered"}
    PROVE  /\ step'[q] \in {"response", "answered"}
           /\ status'[q] = status[q] /\ principal'[q] = principal[q]
<1> DEFINE Same == /\ step'[q] \in {"response", "answered"}
                   /\ status'[q] = status[q] /\ principal'[q] = principal[q]
<1>1. ASSUME NEW r \in Requests, Pass(r) \/ Admit(r) \/ Refuse(r) PROVE Same
  BY <1>1 DEF TypeOK, Pass, Admit, Refuse, Arrives, GoesOn, TurnAway
<1>2. ASSUME NEW r \in Requests, RejectBody(r) \/ HandleRead(r) \/ Compute(r) PROVE Same
  BY <1>2 DEF TypeOK, RejectBody, HandleRead, Compute, Respond
<1>3. ASSUME NEW r \in Requests, CheckPermission(r) PROVE Same
  <2>1. q # r
    BY <1>3 DEF CheckPermission
  <2> QED
    BY <1>3, <2>1 DEF TypeOK, CheckPermission, Respond
<1>4. ASSUME NEW r \in Requests, AnalyseUpload(r) PROVE Same
  <2>1. q # r
    BY <1>4 DEF AnalyseUpload
  <2> QED
    BY <1>4, <2>1 DEF TypeOK, AnalyseUpload, Respond
<1>5. ASSUME NEW r \in Requests, BeginRecord(r) \/ EndRecord(r) \/ RecordFails(r) PROVE Same
  BY <1>5 DEF TypeOK, BeginRecord, EndRecord, RecordFails, Respond
<1>6. ASSUME NEW r \in Requests, Answer(r) PROVE Same
  BY <1>6 DEF TypeOK, Answer, Leaves
<1>7. CASE UNCHANGED vars \/ Tick \/ \E s \in Settings : Start(s)
  BY <1>7 DEF vars, Tick, Start
<1> QED
  BY <1>1, <1>2, <1>3, <1>4, <1>5, <1>6, <1>7 DEF Next, Work

\* A diagnostic gets its 200 from the recording of its run alone.
LEMMA RunsAnswered ==
    ASSUME TypeOK, [Next]_vars, NEW q \in Requests, Ask[q].endpoint \in Diagnostics,
           step'[q] \in {"response", "answered"}, status'[q] = 200
    PROVE  \/ step[q] \in {"response", "answered"} /\ status[q] = 200
           \/ EndRecord(q)
<1> DEFINE Same == step[q] \in {"response", "answered"} /\ status[q] = 200
<1>1. ASSUME NEW r \in Requests, Pass(r) \/ Admit(r) \/ Refuse(r) PROVE Same
  BY <1>1 DEF TypeOK, Pass, Admit, Refuse, Arrives, GoesOn, TurnAway
<1>2. ASSUME NEW r \in Requests, RejectBody(r) \/ HandleRead(r) \/ Compute(r) PROVE Same
  BY <1>2 DEF TypeOK, RejectBody, HandleRead, Compute, Respond
<1>3. ASSUME NEW r \in Requests, CheckPermission(r) PROVE Same
  <2>1. q # r
    BY <1>3 DEF TypeOK, CheckPermission, Respond
  <2> QED
    BY <1>3, <2>1 DEF TypeOK, CheckPermission, Respond
<1>4. ASSUME NEW r \in Requests, AnalyseUpload(r) PROVE Same
  <2>1. q # r
    BY <1>4 DEF TypeOK, AnalyseUpload, Respond
  <2> QED
    BY <1>4, <2>1 DEF TypeOK, AnalyseUpload, Respond
<1>5. ASSUME NEW r \in Requests, BeginRecord(r) \/ RecordFails(r) PROVE Same
  BY <1>5 DEF TypeOK, BeginRecord, RecordFails, Respond
<1>6. ASSUME NEW r \in Requests, EndRecord(r) PROVE Same \/ EndRecord(q)
  <2>1. CASE q # r
    BY <1>6, <2>1 DEF TypeOK, EndRecord, Respond
  <2> QED
    BY <1>6, <2>1
<1>7. ASSUME NEW r \in Requests, Answer(r) PROVE Same
  BY <1>7 DEF TypeOK, Answer, Leaves
<1>8. CASE UNCHANGED vars \/ Tick \/ \E s \in Settings : Start(s)
  BY <1>8 DEF vars, Tick, Start
<1> QED
  BY <1>1, <1>2, <1>3, <1>4, <1>5, <1>6, <1>7, <1>8 DEF Next, Work

\* A run that is recorded is a run of the database, at the end of it.
LEMMA RunAppended ==
    ASSUME TypeOK, StepInv, PrincipalInv, RunInv, NEW r \in Requests, EndRecord(r)
    PROVE  /\ runs' \in Seq(Runs) /\ Len(runs') = Len(runs) + 1 /\ Len(runs) \in Nat
           /\ \A i \in 1 .. Len(runs) : runs'[i] = runs[i]
           /\ runs'[Len(runs) + 1].run_id = r
           /\ runs'[Len(runs) + 1].operator_id = principal'[r].operator_id
           /\ step'[r] = "response" /\ status'[r] = 200
           /\ Ask[r].endpoint \in Diagnostics
           /\ Ask[r].endpoint = "csv" => FitForDiagnosis(Ask[r].upload)
<1>1. step[r] = "recording" /\ runs' = Append(runs, RunOf(r)) /\ principal' = principal
      /\ Respond(r, 200)
  BY DEF EndRecord
<1>2. principal[r].operator_id = Authenticate(settings, Ask[r].caller).operator_id
      /\ settings \in Settings
  BY <1>1 DEF PrincipalInv, Served, StepInv
<1>3. RunOf(r) \in Runs
  BY <1>2 DEF RunOf, Runs
<1>4. /\ runs' \in Seq(Runs) /\ Len(runs') = Len(runs) + 1 /\ Len(runs) \in Nat
      /\ \A i \in 1 .. Len(runs) : runs'[i] = runs[i]
      /\ runs'[Len(runs) + 1] = RunOf(r)
  BY <1>1, <1>3, AppendProperties, LenProperties DEF RunInv
<1>5. step'[r] = "response" /\ status'[r] = 200
  BY <1>1 DEF Respond, TypeOK
<1> QED
  BY <1>1, <1>4, <1>5 DEF RunOf, StepInv

\* Only the end of a record() adds a run.
LEMMA RunsUnchanged ==
    ASSUME [Next]_vars, \A r \in Requests : ~ EndRecord(r)
    PROVE  runs' = runs
BY DEF Next, vars, Start, Tick, Pass, Admit, Refuse, Arrives, Work, RejectBody, CheckPermission,
       HandleRead, Compute, AnalyseUpload, BeginRecord, RecordFails, Answer, Leaves

\* Every step keeps what the runs in the database say.
LEMMA RunsKept ==
    ASSUME TypeOK, StepInv, PrincipalInv, RunInv, [Next]_vars
    PROVE  RunInv'
<1> DEFINE Stays(run) ==
      /\ run.run_id \in Requests
      /\ step'[run.run_id] \in {"response", "answered"} /\ status'[run.run_id] = 200
      /\ Ask[run.run_id].endpoint \in Diagnostics
      /\ Ask[run.run_id].endpoint = "csv" => FitForDiagnosis(Ask[run.run_id].upload)
      /\ run.operator_id = principal'[run.run_id].operator_id
<1>1. \A i \in 1 .. Len(runs) : Stays(runs[i])
  BY ResponsesKept DEF RunInv, Right, PrincipalInv
<1>2. CASE runs' = runs
  <2>1. ASSUME NEW q \in Requests, step'[q] \in {"response", "answered"}, status'[q] = 200,
               Ask[q].endpoint \in Diagnostics
        PROVE  Recorded(q)'
    <3>1. ~ EndRecord(q)
      <4> SUFFICES ASSUME EndRecord(q) PROVE FALSE
        OBVIOUS
      <4> QED
        BY <1>2, RunAppended
    <3>2. Recorded(q)
      BY <2>1, <3>1, RunsAnswered DEF RunInv
    <3> QED
      BY <1>2, <3>2 DEF Recorded
  <2> QED
    BY <1>1, <1>2, <2>1 DEF RunInv, Right
<1>3. ASSUME NEW r \in Requests, EndRecord(r) PROVE RunInv'
  <2>1. /\ runs' \in Seq(Runs) /\ Len(runs') = Len(runs) + 1 /\ Len(runs) \in Nat
        /\ \A i \in 1 .. Len(runs) : runs'[i] = runs[i]
        /\ runs'[Len(runs) + 1].run_id = r
        /\ Stays(runs'[Len(runs) + 1])
    BY <1>3, RunAppended
  <2>2. \A i \in 1 .. Len(runs') : i \in 1 .. Len(runs) \/ i = Len(runs) + 1
    BY <2>1
  <2>3. \A i \in 1 .. Len(runs) : Stays(runs'[i])
    BY <1>1, <2>1
  <2>4. ASSUME NEW q \in Requests, step'[q] \in {"response", "answered"}, status'[q] = 200,
               Ask[q].endpoint \in Diagnostics
        PROVE  Recorded(q)'
    <3>1. CASE q = r
      BY <2>1, <3>1 DEF Recorded
    <3>2. CASE q # r
      <4>1. step[q] \in {"response", "answered"} /\ status[q] = 200
        BY <1>3, <2>4, <3>2 DEF TypeOK, EndRecord, Respond
      <4>2. PICK i \in 1 .. Len(runs) : runs[i].run_id = q
        BY <2>4, <4>1 DEF RunInv, Recorded
      <4> QED
        BY <2>1, <4>2 DEF Recorded
    <3> QED
      BY <3>1, <3>2
  <2>5. \A i \in 1 .. Len(runs') : Stays(runs'[i])
    BY <2>1, <2>2, <2>3
  <2> QED
    BY <2>1, <2>4, <2>5 DEF RunInv, Right
<1> QED
  BY <1>2, <1>3, RunsUnchanged

\* Every step keeps the windows, and the distance of the requests let in.
LEMMA RatesKept ==
    ASSUME TypeOK, RateInv, [Next]_vars
    PROVE  RateInv'
<1>1. CASE UNCHANGED limiter
  BY <1>1 DEF RateInv, RateLimited, Windowed, limiter
<1>2. CASE Tick
  <2>1. ASSUME NEW a \in Seq(0 .. MaxTime), NEW w \in Seq(0 .. MaxTime), Windowed(a, w)
        PROVE  Windowed(a, w)'
    <3>1. /\ \A i \in 1 .. Len(a) : a[i] \in Int
          /\ Len(a) - Len(w) <= Len(a) /\ Len(a) \in Int /\ Len(w) \in Int
      <4>1. Len(a) \in Nat /\ Len(w) \in Nat
        BY LenProperties
      <4>2. \A i \in 1 .. Len(a) : a[i] \in 0 .. MaxTime
        BY ElementOfSeq
      <4> QED
        BY <4>1, <4>2, ServiceAssumption
    <3>2. clock \in Int /\ clock' = clock + 1 /\ Window \in Int
      BY <1>2, ServiceAssumption DEF Tick, TypeOK
    <3>3. ASSUME NEW i \in 1 .. Len(a) - Len(w) PROVE a[i] + Window <= clock'
      <4>1. i \in 1 .. Len(a) /\ a[i] + Window <= clock
        BY <2>1, <3>1 DEF Windowed
      <4> QED
        BY <3>1, <3>2, <4>1
    <3>4. ASSUME NEW i \in 1 .. Len(a) PROVE a[i] <= clock'
      BY <2>1, <3>1, <3>2 DEF Windowed
    <3> QED
      BY <2>1, <3>3, <3>4 DEF Windowed
  <2>2. window' = window /\ admitted' = admitted
    BY <1>2 DEF Tick
  <2> QED
    BY <2>1, <2>2 DEF RateInv, RateLimited, TypeOK, Windowed
<1>3. ASSUME NEW r \in Requests, Admit(r) PROVE RateInv'
  <2> DEFINE m == Ask[r].remote
             b == Append(admitted[m], clock)
  <2>1. PICK w \in Pruned(window[m]) :
          /\ Len(w) < Limit
          /\ window' = [window EXCEPT ![m] = Append(w, clock)]
          /\ admitted' = [admitted EXCEPT ![m] = b]
    BY <1>3 DEF Admit, LetIn
  <2>2. m \in Remotes /\ clock' = clock
    BY <1>3, ServiceAssumption DEF Admit, Arrives
  <2>3. /\ clock \in 0 .. MaxTime
        /\ admitted[m] \in Seq(0 .. MaxTime)
        /\ w \in Seq(0 .. MaxTime)
        /\ Windowed(admitted[m], w)
    BY <2>2, RemoteWindow DEF TypeOK
  <2>4. /\ Windowed(b, Append(w, clock))
        /\ \A i \in 1 .. Len(b) : i + Limit <= Len(b) => b[i + Limit] >= b[i] + Window
    BY <2>1, <2>2, <2>3, AdmittedWindow DEF RateInv, RateLimited
  <2>5. /\ window'[m] = Append(w, clock) /\ admitted'[m] = b
        /\ \A n \in Remotes : n # m => window'[n] = window[n] /\ admitted'[n] = admitted[n]
    BY <2>1, <2>2 DEF TypeOK
  <2>6. \A n \in Remotes : Windowed(admitted'[n], window'[n])
    BY <2>4, <2>5 DEF RateInv
  <2>7. RateLimited'
    BY <2>4, <2>5 DEF RateInv, RateLimited
  <2> QED
    BY <2>2, <2>6, <2>7 DEF RateInv, Windowed
<1>4. ASSUME NEW r \in Requests, Refuse(r) PROVE RateInv'
  <2> DEFINE m == Ask[r].remote
  <2>1. PICK w \in Pruned(window[m]) : window' = [window EXCEPT ![m] = w]
    BY <1>4 DEF Refuse
  <2>2. m \in Remotes /\ clock' = clock /\ admitted' = admitted
    BY <1>4, ServiceAssumption DEF Refuse, Arrives, TurnAway
  <2>3. Windowed(admitted[m], w)
    BY <2>2, RemoteWindow
  <2>4. \A n \in Remotes : Windowed(admitted[n], window'[n])
    BY <2>1, <2>2, <2>3 DEF RateInv, TypeOK
  <2> QED
    BY <2>2, <2>4 DEF RateInv, RateLimited, Windowed
<1> QED
  BY <1>1, <1>2, <1>3, <1>4
  DEF Next, vars, limiter, Start, Pass, Arrives, Work, RejectBody, CheckPermission, HandleRead,
      Compute, AnalyseUpload, BeginRecord, EndRecord, RecordFails, Answer, Leaves

\* Every arrival is counted, and no other step.
LEMMA ArrivalsKept ==
    ASSUME TypeOK, ArrivalsCounted, [Next]_vars
    PROVE  ArrivalsCounted'
<1> DEFINE S == {q \in Requests : step[q] # "new"}
<1>1. ASSUME UNCHANGED request_count, \A q \in Requests : step'[q] = "new" <=> step[q] = "new"
      PROVE  ArrivalsCounted'
  <2>1. S' = S
    BY <1>1
  <2> QED
    BY <1>1, <2>1 DEF ArrivalsCounted
<1>2. ASSUME NEW r \in Requests, Pass(r) \/ Admit(r) \/ Refuse(r) PROVE ArrivalsCounted'
  <2>1. /\ request_count' = request_count + 1 /\ step[r] = "new"
        /\ step'[r] \in {"handler", "permission", "answered"}
        /\ \A q \in Requests : q # r => step'[q] = step[q]
    BY <1>2 DEF TypeOK, Pass, Admit, Refuse, Arrives, GoesOn, TurnAway
  <2>2. S' = S \union {r} /\ r \notin S
    BY <2>1
  <2>3. IsFiniteSet(S)
    BY ServiceAssumption, FS_Subset
  <2>4. Cardinality(S \union {r}) = Cardinality(S) + 1
    BY <2>2, <2>3, FS_AddElement
  <2> QED
    BY <2>1, <2>2, <2>4 DEF ArrivalsCounted
<1>3. ASSUME NEW r \in Requests, Work(r) PROVE ArrivalsCounted'
  <2>1. UNCHANGED request_count /\ step[r] # "new"
    BY <1>3 DEF Work, RejectBody, CheckPermission, HandleRead, Compute, AnalyseUpload,
                BeginRecord, EndRecord, RecordFails, Answer, Leaves, counters
  <2>2. \E new \in Steps \ {"new"} : step' = [step EXCEPT ![r] = new]
    BY <1>3 DEF Steps, Work, RejectBody, CheckPermission, HandleRead, Compute, AnalyseUpload,
                BeginRecord, EndRecord, RecordFails, Answer, Leaves, Respond
  <2> QED
    BY <1>1, <2>1, <2>2 DEF TypeOK
<1>4. CASE UNCHANGED vars \/ Tick \/ \E s \in Settings : Start(s)
  BY <1>1, <1>4 DEF vars, counters, Tick, Start
<1> QED
  BY <1>2, <1>3, <1>4 DEF Next

\* Nothing is counted while no answer is given.
LEMMA QuietAnswers ==
    ASSUME AnswersCounted, UNCHANGED <<error_count, route_metrics>>,
           \A q \in Requests : /\ step'[q] = "answered" <=> step[q] = "answered"
                               /\ step[q] = "answered" => status'[q] = status[q]
    PROVE  AnswersCounted'
<1>1. Errors' = Errors
  BY DEF Errors, Answered
<1>2. \A route : Tally(route)' = Tally(route)
  BY DEF Tally, Answered, Route
<1>3. \A route : Count(route)' = Count(route)
  BY DEF Count
<1>4. \A q \in Requests : Answered(q) => Answered(q)' /\ Route(q)' = Route(q)
  BY DEF Answered, Route
<1> QED
  BY <1>1, <1>2, <1>3, <1>4 DEF AnswersCounted, Uncounted

\* An answer is one error more if its status is 400 or more.
LEMMA ErrorAdded ==
    ASSUME NEW r \in Requests, step[r] # "answered", step'[r] = "answered",
           \A q \in Requests : q # r => step'[q] = step[q] /\ status'[q] = status[q]
    PROVE  Cardinality(Errors') = Cardinality(Errors) + (IF status'[r] >= 400 THEN 1 ELSE 0)
<1>1. IsFiniteSet(Errors) /\ r \notin Errors
  BY ServiceAssumption, FS_Subset DEF Errors, Answered
<1>2. Errors' = IF status'[r] >= 400 THEN Errors \union {r} ELSE Errors
  BY DEF Errors, Answered
<1>3. Cardinality(Errors \union {r}) = Cardinality(Errors) + 1 /\ Cardinality(Errors) \in Nat
  BY <1>1, FS_AddElement, FS_CardinalityType
<1> QED
  BY <1>2, <1>3

\* An answer is one more of its route, and of no other.
LEMMA RouteAdded ==
    ASSUME NEW r \in Requests, step[r] # "answered", step'[r] = "answered",
           \A q \in Requests : q # r => step'[q] = step[q] /\ status'[q] = status[q],
           NEW route
    PROVE  /\ Cardinality(Tally(route)) \in Nat
           /\ Cardinality(Tally(route)')
                = Cardinality(Tally(route)) + (IF Route(r)' = route THEN 1 ELSE 0)
<1>1. IsFiniteSet(Tally(route)) /\ r \notin Tally(route)
  BY ServiceAssumption, FS_Subset DEF Tally, Answered
<1>2. Tally(route)' = IF Route(r)' = route THEN Tally(route) \union {r} ELSE Tally(route)
  BY DEF Tally, Answered, Route
<1>3. /\ Cardinality(Tally(route) \union {r}) = Cardinality(Tally(route)) + 1
      /\ Cardinality(Tally(route)) \in Nat
  BY <1>1, FS_AddElement, FS_CardinalityType
<1> QED
  BY <1>2, <1>3

\* A refusal is an error of no route.
LEMMA RefusalCounted ==
    ASSUME TypeOK, AnswersCounted, NEW r \in Requests, Refuse(r)
    PROVE  AnswersCounted'
<1>1. /\ step[r] # "answered" /\ step'[r] = "answered" /\ status'[r] = 429
      /\ \A q \in Requests : q # r => step'[q] = step[q] /\ status'[q] = status[q]
      /\ error_count' = error_count + 1 /\ route_metrics' = route_metrics
  BY DEF TypeOK, Refuse, Arrives, TurnAway
<1>2. error_count' = Cardinality(Errors')
  BY <1>1, ErrorAdded DEF AnswersCounted
<1>3. ASSUME NEW route \in Endpoints \X Statuses
      PROVE  Count(route)' = IF route[2] \in Uncounted THEN 0 ELSE Cardinality(Tally(route)')
  <2>1. Count(route)' = Count(route)
    BY <1>1 DEF Count
  <2>2. CASE route[2] \in Uncounted
    BY <2>1, <2>2 DEF AnswersCounted
  <2>3. CASE route[2] \notin Uncounted
    <3>1. Route(r)' # route
      BY <1>1, <2>3 DEF Route, Uncounted
    <3>2. Cardinality(Tally(route)') = Cardinality(Tally(route))
      BY <1>1, <3>1, RouteAdded
    <3> QED
      BY <2>1, <2>3, <3>2 DEF AnswersCounted
  <2> QED
    BY <2>2, <2>3
<1>4. \A route \in DOMAIN route_metrics' : \E q \in Requests : Answered(q)' /\ Route(q)' = route
  <2>1. \A q \in Requests : Answered(q) => Answered(q)' /\ Route(q)' = Route(q)
    BY <1>1 DEF Answered, Route
  <2> QED
    BY <1>1, <2>1 DEF AnswersCounted
<1> QED
  BY <1>2, <1>3, <1>4 DEF AnswersCounted, Uncounted

\* An answer is counted under its route unless it is an unhandled exception.
LEMMA AnswerCounted ==
    ASSUME TypeOK, StepInv, AnswersCounted, NEW r \in Requests, Answer(r)
    PROVE  AnswersCounted'
<1>1. /\ step[r] # "answered" /\ step'[r] = "answered" /\ status' = status /\ status[r] # 429
      /\ status[r] \in Statuses \ {0}
      /\ \A q \in Requests : q # r => step'[q] = step[q] /\ status'[q] = status[q]
      /\ error_count' = error_count + (IF status[r] >= 400 THEN 1 ELSE 0)
  BY DEF TypeOK, StepInv, Answer, Leaves
<1>2. error_count' = Cardinality(Errors')
  BY <1>1, ErrorAdded DEF AnswersCounted
<1>3. Route(r) \in Endpoints \X Statuses /\ Route(r)' = Route(r) /\ Route(r)[2] = status[r]
  BY <1>1, ServiceAssumption DEF Route
<1>4. ASSUME NEW route \in Endpoints \X Statuses
      PROVE  Count(route)' =
               Count(route) + (IF status[r] # 500 /\ Route(r) = route THEN 1 ELSE 0)
  <2>1. Count(route) \in Nat
    BY DEF TypeOK, Count
  <2>2. CASE status[r] = 500
    BY <2>1, <2>2 DEF Answer, Counted, Count
  <2>3. CASE status[r] # 500
    BY <2>1, <2>3 DEF Answer, Counted, Count
  <2> QED
    BY <2>2, <2>3
<1>5. ASSUME NEW route \in Endpoints \X Statuses
      PROVE  Count(route)' = IF route[2] \in Uncounted THEN 0 ELSE Cardinality(Tally(route)')
  <2>1. CASE route[2] \in Uncounted
    <3>1. Count(route) = 0
      BY <2>1 DEF AnswersCounted
    <3>2. ~ (status[r] # 500 /\ Route(r) = route)
      BY <1>1, <1>3, <2>1 DEF Uncounted
    <3> QED
      BY <1>4, <2>1, <3>1, <3>2
  <2>2. CASE route[2] \notin Uncounted
    <3>1. Cardinality(Tally(route)')
            = Cardinality(Tally(route)) + (IF Route(r)' = route THEN 1 ELSE 0)
      BY <1>1, RouteAdded
    <3>2. Route(r) = route => status[r] # 500
      BY <1>3, <2>2 DEF Uncounted
    <3>3. Count(route) = Cardinality(Tally(route))
      BY <2>2 DEF AnswersCounted
    <3> QED
      BY <1>3, <1>4, <2>2, <3>1, <3>2, <3>3
  <2> QED
    BY <2>1, <2>2
<1>6. \A route \in DOMAIN route_metrics' : \E q \in Requests : Answered(q)' /\ Route(q)' = route
  <2>1. DOMAIN route_metrics' \subseteq DOMAIN route_metrics \union {Route(r)}
    BY DEF Answer, Counted
  <2>2. /\ \A q \in Requests : Answered(q) => Answered(q)' /\ Route(q)' = Route(q)
        /\ Answered(r)'
    BY <1>1 DEF Answered, Route
  <2> QED
    BY <1>3, <2>1, <2>2 DEF AnswersCounted
<1> QED
  BY <1>2, <1>5, <1>6 DEF AnswersCounted, Uncounted

\* Every step keeps the count of the answers.
LEMMA AnswersKept ==
    ASSUME TypeOK, StepInv, AnswersCounted, [Next]_vars
    PROVE  AnswersCounted'
<1>1. ASSUME NEW r \in Requests, Pass(r) \/ Admit(r) PROVE AnswersCounted'
  <2>1. /\ UNCHANGED <<error_count, route_metrics, status>>
        /\ step[r] = "new"
        /\ \E new \in {"handler", "permission"} : step' = [step EXCEPT ![r] = new]
    BY <1>1 DEF Pass, Admit, Arrives, GoesOn
  <2> QED
    BY <2>1, QuietAnswers DEF TypeOK
<1>2. ASSUME NEW r \in Requests, Work(r), ~ Answer(r) PROVE AnswersCounted'
  <2>1. UNCHANGED <<error_count, route_metrics>> /\ step[r] # "answered"
    BY <1>2 DEF Work, RejectBody, CheckPermission, HandleRead, Compute, AnalyseUpload,
                BeginRecord, EndRecord, RecordFails, counters
  <2>2. \E new \in Steps \ {"answered"} : step' = [step EXCEPT ![r] = new]
    BY <1>2 DEF Steps, Work, RejectBody, CheckPermission, HandleRead, Compute, AnalyseUpload,
                BeginRecord, EndRecord, RecordFails, Respond
  <2>3. status' = status \/ \E code : status' = [status EXCEPT ![r] = code]
    BY <1>2 DEF Work, RejectBody, CheckPermission, HandleRead, Compute, AnalyseUpload,
                BeginRecord, EndRecord, RecordFails, Respond
  <2>4. \A q \in Requests : /\ step'[q] = "answered" <=> step[q] = "answered"
                            /\ q # r => status'[q] = status[q]
    BY <2>1, <2>2, <2>3 DEF TypeOK
  <2> QED
    BY <2>1, <2>4, QuietAnswers
<1>3. CASE UNCHANGED vars \/ Tick \/ \E s \in Settings : Start(s)
  BY <1>3, QuietAnswers DEF vars, counters, Tick, Start
<1> QED
  BY <1>1, <1>2, <1>3, RefusalCounted, AnswerCounted DEF Next

-----------------------------------------------------------------------------
\* The invariant, and what follows from it.

\* The API process starts in the invariant.
LEMMA Starts ==
    ASSUME Init
    PROVE  IInv
<1>1. TypeOK
  <2>1. <<>> \in Seq(0 .. MaxTime)
    OBVIOUS
  <2>2. window \in [Remotes -> Seq(0 .. MaxTime)] /\ admitted \in [Remotes -> Seq(0 .. MaxTime)]
    BY <2>1 DEF Init
  <2>3. route_metrics \in [DOMAIN route_metrics -> Nat] /\ DOMAIN route_metrics = {}
    BY DEF Init
  <2> QED
    BY <2>2, <2>3, ServiceAssumption DEF Init, TypeOK, Steps, Statuses
<1>2. StepInv /\ PrincipalInv /\ RunInv
  BY DEF Init, StepInv, PrincipalInv, RunInv, Served
<1>3. RateInv
  BY ServiceAssumption DEF Init, RateInv, RateLimited, Windowed
<1>4. TallyInv
  <2>1. {r \in Requests : step[r] # "new"} = {} /\ Errors = {} /\ \A route : Tally(route) = {}
    BY DEF Init, Errors, Tally, Answered
  <2>2. Cardinality({}) = 0
    BY FS_EmptySet
  <2>3. DOMAIN route_metrics = {}
    BY DEF Init
  <2>4. \A route : Count(route) = 0
    BY <2>3 DEF Count
  <2> QED
    BY <2>1, <2>2, <2>3, <2>4 DEF Init, TallyInv, ArrivalsCounted, AnswersCounted
<1> QED
  BY <1>1, <1>2, <1>3, <1>4 DEF IInv

\* The invariant is inductive.
LEMMA Invariance == Spec => []IInv
<1>1. ASSUME IInv, [Next]_vars PROVE IInv'
  <2>1. DOMAIN principal = Requests
    BY <1>1 DEF IInv, PrincipalInv
  <2> QED
    BY <1>1, <2>1, TypesKept, StepsKept, PrincipalsKept, RunsKept, RatesKept, ArrivalsKept,
       AnswersKept DEF IInv, TallyInv
<1> QED
  BY <1>1, Starts, PTL DEF Spec

\* The types, and that the lock and the event loop belong to the requests
\* that record.
THEOREM ServiceTypes == Spec => []TypeOK
BY Invariance, PTL DEF IInv

\* The limit of the middleware holds for every limit, every window, and any
\* traffic of any number of remote addresses.
THEOREM LimitHolds == Spec => []RateLimited
BY Invariance, PTL DEF IInv, RateInv

\* Nobody is turned away before Limit requests of the same remote address were
\* let in during the last window.
THEOREM RefusalsAreJustified == Spec => RefusalsJustified
<1> DEFINE Justified ==
      \A r \in Requests : step[r] = "new" /\ step'[r] = "answered" =>
          LET a == admitted[Ask[r].remote] IN
              Len(a) >= Limit /\ a[Len(a) - Limit + 1] + Window > clock
<1>1. ASSUME IInv, [Next]_vars PROVE Justified
  <2> SUFFICES ASSUME NEW r \in Requests, step[r] = "new", step'[r] = "answered"
               PROVE  LET a == admitted[Ask[r].remote] IN
                      Len(a) >= Limit /\ a[Len(a) - Limit + 1] + Window > clock
    OBVIOUS
  <2> DEFINE m == Ask[r].remote
             a == admitted[m]
  <2>1. TypeOK /\ RateInv
    BY <1>1 DEF IInv
  <2>2. Refuse(r)
    <3>1. ASSUME NEW q \in Requests, Pass(q) \/ Admit(q) \/ Work(q) PROVE FALSE
      <4>1. \E new \in Steps : /\ step' = [step EXCEPT ![q] = new]
                               /\ new = "answered" => step[q] = "response"
        BY <3>1 DEF Steps, Pass, Admit, Arrives, GoesOn, Work, RejectBody, CheckPermission,
                    HandleRead, Compute, AnalyseUpload, BeginRecord, EndRecord, RecordFails,
                    Answer, Leaves, Respond
      <4> QED
        BY <2>1, <4>1 DEF TypeOK
    <3>2. ASSUME NEW q \in Requests, Refuse(q) PROVE q = r
      BY <2>1, <3>2 DEF TypeOK, Refuse, TurnAway
    <3>3. ~ UNCHANGED vars /\ ~ Tick /\ ~ \E s \in Settings : Start(s)
      BY DEF vars, Tick, Start
    <3> QED
      BY <1>1, <3>1, <3>2, <3>3 DEF Next
  <2>3. PICK w \in Pruned(window[m]) : Len(w) >= Limit
    BY <2>2 DEF Refuse
  <2>4. m \in Remotes /\ a \in Seq(0 .. MaxTime)
    BY <2>1, ServiceAssumption DEF TypeOK
  <2>5. w \in Seq(0 .. MaxTime) /\ Windowed(a, w) /\ (w # <<>> => w[1] + Window > clock)
    BY <2>1, <2>4, RemoteWindow
  <2>6. Len(w) = Limit /\ Len(a) >= Limit /\ Limit \in Nat \ {0}
    BY <2>3, <2>4, <2>5, LenProperties, ServiceAssumption DEF Windowed
  <2>7. w # <<>> /\ w[1] = a[Len(a) - Limit + 1]
    BY <2>5, <2>6 DEF Windowed
  <2> QED
    BY <2>5, <2>6, <2>7
<1> QED
  BY <1>1, Invariance, PTL DEF Spec, RefusalsJustified

\* /metrics adds up for any number of requests in any order.
THEOREM CountersAddUp == Spec => []CountersBalance
<1>1. ASSUME IInv PROVE CountersBalance
  <2>1. request_count = Cardinality({r \in Requests : step[r] # "new"})
    BY <1>1 DEF IInv, TallyInv, ArrivalsCounted
  <2>2. error_count = Cardinality({r \in Requests : Answered(r) /\ status[r] >= 400})
    BY <1>1 DEF IInv, TallyInv, AnswersCounted, Errors
  <2>3. ASSUME NEW r \in Requests, Answered(r)
        PROVE  Count(Route(r)) = IF status[r] \in {429, 500} THEN 0
                                 ELSE Cardinality({q \in Requests : Answered(q) /\ Route(q) = Route(r)})
    <3>1. Route(r) \in Endpoints \X Statuses /\ Route(r)[2] = status[r]
      BY <1>1, ServiceAssumption DEF Route, IInv, TypeOK
    <3> QED
      BY <1>1, <3>1 DEF IInv, TallyInv, AnswersCounted, Uncounted, Tally
  <2>4. \A route \in DOMAIN route_metrics : \E r \in Requests : Answered(r) /\ Route(r) = route
    BY <1>1 DEF IInv, TallyInv, AnswersCounted
  <2> QED
    BY <2>1, <2>2, <2>3, <2>4 DEF CountersBalance
<1> QED
  BY <1>1, Invariance, PTL

\* A frame that is accepted has no violation, and one that is kept for review
\* still scores 70.
LEMMA Verdicts70 ==
    ASSUME NEW frame \in Frames
    PROVE  /\ Verdict(frame) = "ACCEPTED" => Violations(frame) = 0
           /\ Verdict(frame) # "REJECTED" => Score(frame) >= 7000
<1>1. frame.missing \in Int /\ frame.duplicates \in Int /\ frame.others \in Int
  BY DEF Frames
<1>2. Violations(frame) \in Int
  BY <1>1 DEF Violations
<1>3. Penalty(frame) \in Int
  BY <1>1, <1>2 DEF Penalty
<1>4. Score(frame) \in Int
  BY <1>3 DEF Score
<1> QED
  BY <1>4, SMT DEF Verdict

\* Only explicit diagnostics of callers who may diagnose leave a run, under
\* the operator's name, and uploads with a violation only where reviews are.
THEOREM RunsEarned == Spec => []RunsAreEarned
<1>1. ASSUME IInv PROVE RunsAreEarned
  <2> SUFFICES ASSUME NEW i \in 1 .. Len(runs)
               PROVE  LET ask == Ask[runs[i].run_id] IN
                      /\ ask.endpoint \in Diagnostics
                      /\ Can(Authenticate(settings, ask.caller), DIAGNOSE_PERMISSION)
                      /\ runs[i].operator_id = Authenticate(settings, ask.caller).operator_id
                      /\ ask.endpoint = "csv" =>
                           \A frame \in {ask.upload.baseline, ask.upload.current} :
                               Violations(frame) = 0 \/ (AllowReview /\ Score(frame) >= 7000)
    BY DEF RunsAreEarned
  <2> DEFINE run == runs[i]
             r == run.run_id
             ask == Ask[r]
  <2>1. /\ r \in Requests /\ Served(r) /\ ask.endpoint \in Diagnostics
        /\ ask.endpoint = "csv" => FitForDiagnosis(ask.upload)
        /\ run.operator_id = principal[r].operator_id
    BY <1>1 DEF IInv, RunInv, Right, Served
  <2>2. /\ principal[r] = Authenticate(settings, ask.caller)
        /\ Can(principal[r], Permission(ask.endpoint))
    BY <1>1, <2>1 DEF IInv, PrincipalInv, Diagnostics, Open
  <2>3. Permission(ask.endpoint) = DIAGNOSE_PERMISSION
    BY <2>1 DEF Permission
  <2>4. ASSUME ask.endpoint = "csv", NEW frame \in {ask.upload.baseline, ask.upload.current}
        PROVE  Violations(frame) = 0 \/ (AllowReview /\ Score(frame) >= 7000)
    <3>1. frame \in Frames
      BY <2>1, <2>4, ServiceAssumption
    <3>2. /\ Verdict(frame) # "REJECTED"
          /\ AllowReview \/ Verdict(frame) = "ACCEPTED"
      BY <2>1, <2>4 DEF FitForDiagnosis, Verdicts
    <3> QED
      BY <3>1, <3>2, Verdicts70, ServiceAssumption
  <2> QED
    BY <2>1, <2>2, <2>3, <2>4
<1> QED
  BY <1>1, Invariance, PTL

\* A frame is no worse than another if no check finds more wrong with it.
NoWorse(f, g) ==
    /\ f.incomplete => g.incomplete
    /\ f.missing <= g.missing /\ f.duplicates <= g.duplicates /\ f.others <= g.others

\* Repairing a test never costs it its verdict: a frame that is no worse than one that
\* is kept for review, or accepted, is not treated worse (contract.py:80-146).
THEOREM RepairsNeverHurt ==
    ASSUME NEW f \in Frames, NEW g \in Frames, NoWorse(f, g)
    PROVE  /\ Verdict(g) # "REJECTED" => Verdict(f) # "REJECTED"
           /\ Verdict(g) = "ACCEPTED" => Verdict(f) = "ACCEPTED"
<1>1. /\ f.missing \in Nat /\ f.duplicates \in Nat /\ f.others \in Nat
      /\ g.missing \in Nat /\ g.duplicates \in Nat /\ g.others \in Nat
      /\ f.incomplete \in BOOLEAN /\ g.incomplete \in BOOLEAN
  BY DEF Frames
<1>2. /\ Violations(f) \in Nat /\ Violations(g) \in Nat /\ Violations(f) <= Violations(g)
  BY <1>1 DEF Violations, NoWorse
<1>3. /\ Penalty(f) \in Nat /\ Penalty(g) \in Nat /\ Penalty(f) <= Penalty(g)
  BY <1>1, <1>2 DEF Penalty, NoWorse
<1>4. Score(f) \in Nat /\ Score(g) \in Nat /\ Score(g) <= Score(f)
  BY <1>3 DEF Score
<1> QED
  BY <1>1, <1>2, <1>4, SMT DEF Verdict, NoWorse

\* A token may diagnose by a scope or by one of two roles, and in no other way.
MayDiagnose(caller) ==
    /\ caller.token = "verified"
    /\ \/ caller.scopes \intersect {DIAGNOSE_PERMISSION, ADMIN_PERMISSION} # {}
       \/ caller.roles \intersect {"operator", "admin"} # {}

LEMMA Grants ==
    ASSUME NEW caller, Can(OidcPrincipal(caller), DIAGNOSE_PERMISSION)
    PROVE  MayDiagnose(caller)
<1>1. caller.token = "verified"
  BY DEF Can, OidcPrincipal, NoPrincipal, Principal
<1>2. PICK permission \in {DIAGNOSE_PERMISSION, ADMIN_PERMISSION} :
         permission \in OidcPrincipal(caller).permissions
  BY DEF Can
<1>3. \/ permission \in caller.scopes
      \/ \E role \in caller.roles \intersect DOMAIN RolePermissions :
            permission \in RolePermissions[role]
  BY <1>1, <1>2 DEF OidcPrincipal, Principal
<1>4. ASSUME NEW role \in caller.roles \intersect DOMAIN RolePermissions,
             permission \in RolePermissions[role]
      PROVE  role \in {"operator", "admin"}
  BY <1>4, <1>2 DEF RolePermissions, READ_PERMISSION, DIAGNOSE_PERMISSION, AUDIT_PERMISSION,
     ADMIN_PERMISSION
<1> QED
  BY <1>1, <1>2, <1>3, <1>4 DEF MayDiagnose

\* Where tokens are asked for, viewers and auditors leave no run in the database: every
\* run there was asked for with a verified token whose scopes, or the role of an operator
\* or of an administrator, let it diagnose (auth.py:31-79, 304-335).
OperatorsRecord ==
    settings.mode = "oidc" => \A i \in 1 .. Len(runs) : MayDiagnose(Ask[runs[i].run_id].caller)

THEOREM OnlyOperatorsRecord == Spec => []OperatorsRecord
<1>1. RunsAreEarned => OperatorsRecord
  BY Grants DEF RunsAreEarned, OperatorsRecord, Authenticate
<1> QED
  BY <1>1, RunsEarned, PTL

\* The status tells the caller of a diagnostic whether its run was recorded:
\* it was if and only if the answer is 200.
AnswerTellsOutcome ==
    \A r \in Requests : Answered(r) => (Recorded(r) <=> status[r] = 200 /\ r \in Commands)

\* The answer of a diagnostic says whether its run is in the database.
THEOREM OutcomeTold == Spec => []AnswerTellsOutcome
<1>1. ASSUME IInv PROVE AnswerTellsOutcome
  BY <1>1 DEF IInv, RunInv, Right, Recorded, Answered, Commands, AnswerTellsOutcome
<1> QED
  BY <1>1, Invariance, PTL

\* In production nothing under /v1/ is served without a strong key or a
\* verified token, whatever settings are tried.
THEOREM Guarded == Spec => []ProductionGuarded
<1>1. ASSUME IInv PROVE ProductionGuarded
  <2> SUFFICES ASSUME NEW r \in Requests, Production, Ask[r].endpoint \notin Open, Served(r)
               PROVE  \/ settings.mode = "api_key" /\ settings.key = "strong"
                         /\ Ask[r].caller.key = "right"
                      \/ settings.mode = "oidc" /\ Ask[r].caller.token = "verified"
    BY DEF ProductionGuarded, Served
  <2>1. Accepted(settings)
    <3>1. step[r] # "new"
      BY DEF Served
    <3> QED
      BY <1>1, <3>1 DEF IInv, StepInv
  <2>2. Authenticate(settings, Ask[r].caller) # NoPrincipal
    BY <1>1 DEF IInv, PrincipalInv
  <2>3. CASE settings.mode = "api_key"
    BY <2>1, <2>2, <2>3 DEF Accepted, KeyAccepted, Authenticate, ApiKeyPrincipal
  <2>4. CASE settings.mode = "oidc"
    BY <2>2, <2>4 DEF Authenticate, OidcPrincipal
  <2> QED
    BY <2>1, <2>3, <2>4 DEF Accepted
<1> QED
  BY <1>1, Invariance, PTL

-----------------------------------------------------------------------------
(* The append-only log, as the callers of the API see it: pacing, checks,  *)
(* the event loop and the lock are invisible in it.                        *)

Outcomes == [r \in Commands |-> Outcome(r)]

\* A step of a request leaves the others where they are.
LEMMA OthersKept ==
    ASSUME TypeOK, NEW r \in Requests, Pass(r) \/ Admit(r) \/ Refuse(r) \/ Work(r)
    PROVE  \A q \in Requests \ {r} : step'[q] = step[q] /\ status'[q] = status[q]
<1>1. CASE Pass(r) \/ Admit(r) \/ Refuse(r)
  BY <1>1 DEF TypeOK, Pass, Admit, Refuse, GoesOn, TurnAway
<1>2. CASE RejectBody(r) \/ HandleRead(r) \/ Compute(r) \/ CheckPermission(r)
  BY <1>2 DEF TypeOK, RejectBody, HandleRead, Compute, CheckPermission, Respond
<1>3. CASE AnalyseUpload(r)
  BY <1>3 DEF TypeOK, AnalyseUpload, Respond
<1>4. CASE BeginRecord(r) \/ EndRecord(r) \/ RecordFails(r) \/ Answer(r)
  BY <1>4 DEF TypeOK, BeginRecord, EndRecord, RecordFails, Answer, Leaves, Respond
<1> QED
  BY <1>1, <1>2, <1>3, <1>4 DEF Work

\* So only its own outcome may change.
LEMMA OutcomesOfAStep ==
    ASSUME TypeOK, NEW r \in Requests, Pass(r) \/ Admit(r) \/ Refuse(r) \/ Work(r)
    PROVE  /\ r \in Commands => Outcomes' = [Outcomes EXCEPT ![r] = Outcome(r)']
           /\ r \notin Commands => Outcomes' = Outcomes
           /\ r \in Commands /\ Outcome(r)' = Outcome(r) => Outcomes' = Outcomes
<1>1. \A q \in Commands \ {r} : Outcome(q)' = Outcome(q)
  BY OthersKept DEF Outcome, Commands
<1> QED
  BY <1>1 DEF Outcomes

\* What a command's own steps do to its outcome.
LEMMA OutcomeSteps ==
    ASSUME IInv, NEW r \in Commands
    PROVE  /\ Pass(r) \/ Admit(r) => Outcome(r) = "idle" /\ Outcome(r)' = "idle"
           /\ Refuse(r) => Outcome(r) = "idle" /\ Outcome(r)' = "failed"
           /\ RejectBody(r) \/ CheckPermission(r) \/ Compute(r) \/ AnalyseUpload(r) =>
                Outcome(r) = "idle" /\ Outcome(r)' \in {"idle", "open"}
           /\ BeginRecord(r) \/ EndRecord(r) \/ RecordFails(r) =>
                Outcome(r) = "open" /\ Outcome(r)' = "open"
           /\ Answer(r) =>
                Outcome(r) = "open" /\ Outcome(r)' = IF status[r] = 200 THEN "acked" ELSE "failed"
<1>1. r \in Requests /\ DOMAIN step = Requests /\ DOMAIN status = Requests
  BY DEF Commands, IInv, TypeOK
<1>2. Pass(r) \/ Admit(r) => Outcome(r) = "idle" /\ Outcome(r)' = "idle"
  BY <1>1 DEF Pass, Admit, Arrives, GoesOn, Outcome
<1>3. Refuse(r) => Outcome(r) = "idle" /\ Outcome(r)' = "failed"
  BY <1>1 DEF Refuse, Arrives, TurnAway, Outcome
<1>4. RejectBody(r) \/ CheckPermission(r) \/ Compute(r) \/ AnalyseUpload(r) =>
        Outcome(r) = "idle" /\ Outcome(r)' \in {"idle", "open"}
  <2>1. step[r] \in {"permission", "handler"} => Outcome(r) = "idle"
    BY DEF Outcome
  <2>2. step'[r] \in {"response", "record"} => Outcome(r)' = "open"
    BY DEF Outcome
  <2>3. step'[r] = "handler" => Outcome(r)' = "idle"
    BY DEF Outcome
  <2> QED
    BY <1>1, <2>1, <2>2, <2>3
    DEF RejectBody, CheckPermission, Compute, AnalyseUpload, Respond
<1>5. BeginRecord(r) \/ EndRecord(r) \/ RecordFails(r) =>
        Outcome(r) = "open" /\ Outcome(r)' = "open"
  BY <1>1 DEF BeginRecord, EndRecord, RecordFails, Respond, Outcome
<1>6. Answer(r) =>
        Outcome(r) = "open" /\ Outcome(r)' = IF status[r] = 200 THEN "acked" ELSE "failed"
  BY <1>1 DEF Answer, Leaves, Outcome
<1> QED
  BY <1>2, <1>3, <1>4, <1>5, <1>6

\* A step of a diagnostic that appends nothing is a submission, an answer, or
\* nothing at all.
LEMMA CommandRefines ==
    ASSUME IInv, NEW r \in Commands, Pass(r) \/ Admit(r) \/ Refuse(r) \/ Work(r), ~ EndRecord(r)
    PROVE  \/ Audit!Submit(r) \/ Audit!Acknowledge(r) \/ Audit!Fail(r)
           \/ runs' = runs /\ Outcomes' = Outcomes
<1>1. r \in Requests /\ TypeOK
  BY DEF Commands, IInv
<1>2. runs' = runs
  BY DEF Pass, Admit, Refuse, Arrives, Work, RejectBody, CheckPermission, HandleRead, Compute,
         AnalyseUpload, BeginRecord, RecordFails, Answer, Leaves
<1>3. Outcomes' = [Outcomes EXCEPT ![r] = Outcome(r)'] /\ Outcomes[r] = Outcome(r)
  BY <1>1, OutcomesOfAStep DEF Outcomes
<1>4. CASE Outcome(r)' = Outcome(r)
  BY <1>1, <1>2, <1>4, OutcomesOfAStep
<1>5. CASE Outcome(r) = "idle" /\ Outcome(r)' \in {"open", "failed"}
  BY <1>2, <1>3, <1>5 DEF Audit!Submit, Outcomes
<1>6. CASE Answer(r)
  <2>1. step[r] = "response" /\ Ask[r].endpoint \in Diagnostics
    BY <1>6 DEF Answer, Leaves, Commands
  <2>2. Recorded(r) <=> status[r] = 200
    BY <1>1, <2>1 DEF IInv, RunInv, Right, Recorded
  <2>3. Audit!Logged(r) <=> Recorded(r)
    BY DEF Audit!Logged, Recorded
  <2>4. Outcome(r) = "open" /\ Outcome(r)' = IF status[r] = 200 THEN "acked" ELSE "failed"
    BY <1>6, OutcomeSteps
  <2>5. CASE status[r] = 200
    BY <1>2, <1>3, <2>2, <2>3, <2>4, <2>5 DEF Audit!Acknowledge, Outcomes
  <2>6. CASE status[r] # 200
    BY <1>2, <1>3, <2>2, <2>3, <2>4, <2>6 DEF Audit!Fail, Outcomes
  <2> QED
    BY <2>5, <2>6
<1>7. ~ HandleRead(r)
  BY DEF HandleRead, Commands
<1> QED
  BY <1>4, <1>5, <1>6, <1>7, OutcomeSteps DEF Work

\* The end of a record() puts the run of its request, and of no other, at the
\* end of the log.
LEMMA RecordRefines ==
    ASSUME IInv, NEW r \in Requests, EndRecord(r)
    PROVE  r \in Commands /\ Audit!Record(r)
<1>1. /\ Len(runs') = Len(runs) + 1 /\ \A i \in 1 .. Len(runs) : runs'[i] = runs[i]
      /\ runs'[Len(runs) + 1].run_id = r
      /\ r \in Commands
  BY RunAppended DEF IInv, Commands
<1>2. ~ Audit!Logged(r)
  BY DEF IInv, RunInv, Right, EndRecord, Audit!Logged
<1>3. Outcome(r) = "open" /\ Outcome(r)' = "open"
  BY <1>1, OutcomeSteps
<1>4. Outcomes' = Outcomes /\ Outcomes[r] = "open"
  BY <1>1, <1>3, OutcomesOfAStep DEF IInv, Work, Outcomes
<1> QED
  BY <1>1, <1>2, <1>4 DEF Audit!Record, Outcomes

\* Every step of the API process is a step of the log or invisible in it.
LEMMA StepRefines == IInv /\ [Next]_vars => [Audit!Next]_(Audit!vars)
<1> SUFFICES ASSUME IInv, [Next]_vars
             PROVE  Audit!Next \/ (runs' = runs /\ Outcomes' = Outcomes)
  BY DEF Audit!vars, Outcomes
<1>1. CASE UNCHANGED vars \/ Tick \/ \E s \in Settings : Start(s)
  BY <1>1 DEF vars, Tick, Start, Outcomes, Outcome
<1>2. ASSUME NEW r \in Requests, EndRecord(r) PROVE Audit!Next
  BY <1>2, RecordRefines DEF Audit!Next
<1>3. ASSUME NEW r \in Commands, Pass(r) \/ Admit(r) \/ Refuse(r) \/ Work(r), ~ EndRecord(r)
      PROVE  Audit!Next \/ (runs' = runs /\ Outcomes' = Outcomes)
  BY <1>3, CommandRefines DEF Audit!Next
<1>4. ASSUME NEW r \in Requests \ Commands, Pass(r) \/ Admit(r) \/ Refuse(r) \/ Work(r), ~ EndRecord(r)
      PROVE  runs' = runs /\ Outcomes' = Outcomes
  BY <1>4, OutcomesOfAStep
  DEF IInv, Pass, Admit, Refuse, Arrives, Work, RejectBody, CheckPermission, HandleRead, Compute,
      AnalyseUpload, BeginRecord, RecordFails, Answer, Leaves
<1> QED
  BY <1>1, <1>2, <1>3, <1>4 DEF Next

\* The API process, seen by the callers of its diagnostics, is the append-only
\* log, for any number of requests and whatever they ask for.
THEOREM ServiceIsALog == Spec => ServesAuditLog
<1>1. Init => Audit!Init
  BY DEF Init, Audit!Init, Audit!Logged, Outcome, Commands
<1> QED
  BY <1>1, StepRefines, Invariance, PTL DEF Spec, ServesAuditLog, Audit!Spec
=============================================================================
