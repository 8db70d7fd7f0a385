--------------------------- MODULE DiagnosisProofs ---------------------------
(***************************************************************************)
(* What the rule cascade and the benchmark's scorer, which reads its       *)
(* findings, promise for every measurement and for every number of load    *)
(* groups, not only for those that are model-checked.                      *)
(***************************************************************************)
EXTENDS Benchmark, TLAPS

\* Wear: nothing that speaks for a fault gets better, the moving current, the
\* baseline and the supply stay as they were.
Worn(e, w) ==
    /\ w.current = e.current /\ w.baseline = e.baseline /\ w.supply = e.supply
    /\ Ratio(w.stroke) >= Ratio(e.stroke)
    /\ Ratio(w.peak) >= Ratio(e.peak)
    /\ w.position <= e.position
    /\ w.process >= e.process
    /\ w.stagnation >= e.stagnation
    /\ w.residual >= e.residual
    /\ w.similarity <= e.similarity

\* Evidence in numbers: every ratio and measurement is an integer.
LEMMA EvidenceIsNumeric ==
    ASSUME NEW e \in Evidence
    PROVE  /\ Ratio(e.current) \in Int /\ Ratio(e.stroke) \in Int /\ Ratio(e.peak) \in Int
           /\ e.baseline \in Int /\ e.position \in Int /\ e.process \in Int
           /\ e.stagnation \in Int /\ e.residual \in Int /\ e.similarity \in Int
<1>1. /\ e.current \in Currents /\ e.stroke \in Strokes /\ e.peak \in Peaks
      /\ e.baseline \in Positions /\ e.position \in Positions
      /\ e.process \in ProcessErrors /\ e.stagnation \in Stagnations
      /\ e.residual \in Residuals /\ e.similarity \in Similarities
  BY DEF Evidence
<1>2. \A x \in Nat \union {NaN} : Ratio(x) \in Int
  BY DEF Ratio
<1>3. /\ Currents \subseteq Nat \union {NaN} /\ Strokes \subseteq Nat \union {NaN}
      /\ Peaks \subseteq Nat \union {NaN}
  BY MeasurementAssumption
<1>4. /\ Positions \subseteq Int /\ ProcessErrors \subseteq Int /\ Stagnations \subseteq Int
      /\ Residuals \subseteq Int /\ Similarities \subseteq Int
  BY MeasurementAssumption
<1>5. Ratio(e.current) \in Int /\ Ratio(e.stroke) \in Int /\ Ratio(e.peak) \in Int
  BY <1>1, <1>2, <1>3
<1> QED
  BY <1>1, <1>4, <1>5

\* Travel that gets shorter loses more, and stays incomplete.
LEMMA WornTravel ==
    ASSUME NEW e \in Evidence, NEW w \in Evidence, Worn(e, w)
    PROVE  /\ MaxPosition(w) \in Int /\ MaxPosition(e) \in Int
           /\ TravelLoss(w) \in Int /\ TravelLoss(e) \in Int
           /\ MaxPosition(w) <= MaxPosition(e)
           /\ TravelLoss(w) >= TravelLoss(e)
           /\ IncompleteTravel(e) => IncompleteTravel(w)
  BY EvidenceIsNumeric DEF Worn, MaxPosition, TravelLoss, AtLeastZero, Clip, IncompleteTravel

\* A finding stays a finding, by the rule that made it or by a later one.
LEMMA WornFinding ==
    ASSUME NEW e \in Evidence, NEW w \in Evidence, Worn(e, w), Finding(e) # "none"
    PROVE  Finding(w) # "none"
<1>1. \/ SensorDrift(e) \/ PersistentLocalStiction(e) \/ Degradation(e) \/ Obstruction(e)
      \/ LocalStiction(e) \/ Friction(e) \/ SlowDegradation(e) \/ Deviation(e)
  BY DEF Finding
<1>2. SUFFICES ~ Deviation(w) =>
        \/ SensorDrift(w) \/ PersistentLocalStiction(w) \/ Degradation(w) \/ Obstruction(w)
        \/ LocalStiction(w) \/ Friction(w) \/ SlowDegradation(w)
  BY DEF Finding
<1>3. CASE SensorDrift(e)
  BY <1>3, EvidenceIsNumeric DEF SensorDrift, ProcessMismatch, Deviation, Worn
<1>4. CASE Degradation(e) \/ SlowDegradation(e)
  BY <1>4, EvidenceIsNumeric, WornTravel DEF Degradation, SlowDegradation, Worn
<1>5. CASE LocalStiction(e)
  BY <1>5, EvidenceIsNumeric DEF LocalStiction, Worn
<1>6. CASE Friction(e)
  BY <1>6, EvidenceIsNumeric DEF Friction, Worn
<1>7. CASE PersistentLocalStiction(e) \/ Obstruction(e) \/ Deviation(e)
  BY <1>7, EvidenceIsNumeric, WornTravel
     DEF PersistentLocalStiction, Obstruction, Deviation, Worn
<1> QED
  BY <1>1, <1>3, <1>4, <1>5, <1>6, <1>7

\* The health score does not rise.
LEMMA WornHealth ==
    ASSUME NEW e \in Evidence, NEW w \in Evidence, Worn(e, w)
    PROVE  HealthScore(w) \in Int /\ HealthScore(e) \in Int /\ HealthScore(w) <= HealthScore(e)
<1>1. /\ ActuationPenalty(e) \in Int /\ ActuationPenalty(w) \in Int
      /\ ActuationPenalty(e) <= ActuationPenalty(w)
  BY EvidenceIsNumeric, SMT DEF ActuationPenalty, Worn, Clip
<1>2. /\ FrictionPenalty(e) \in Int /\ FrictionPenalty(w) \in Int
      /\ FrictionPenalty(e) <= FrictionPenalty(w)
  BY EvidenceIsNumeric, SMT DEF FrictionPenalty, Worn, Clip
<1>3. /\ TravelHealth(e) \in Int /\ TravelHealth(w) \in Int
      /\ TravelHealth(w) <= TravelHealth(e)
  BY WornTravel, SMT DEF TravelHealth, Clip
<1>4. /\ SensorHealth(e) \in Int /\ SensorHealth(w) \in Int
      /\ SensorHealth(w) <= SensorHealth(e)
  BY EvidenceIsNumeric, SMT DEF SensorHealth, Worn, Clip
<1> QED
  BY <1>1, <1>2, <1>3, <1>4, SMT DEF HealthScore

\* The NE 107 status does not get milder.
LEMMA WornStatus ==
    ASSUME NEW e \in Evidence, NEW w \in Evidence, Worn(e, w)
    PROVE  Severity(Ne107Status(w)) >= Severity(Ne107Status(e))
<1>1. OutOfSpecification(w) <=> OutOfSpecification(e)
  BY DEF Worn, OutOfSpecification
<1>2. MaxPosition(e) < 75 => MaxPosition(w) < 75
  BY WornTravel
<1>3. HealthScore(e) < 880000 => HealthScore(w) < 880000
  BY WornHealth, SMT
<1>4. Finding(e) # "none" => Finding(w) # "none"
  BY WornFinding
<1> QED
  BY <1>1, <1>2, <1>3, <1>4, SMT DEF Severity, Ne107Status

\* Every step of the specification is wear.
LEMMA StepIsWear ==
    ASSUME evidence \in Evidence, Next PROVE evidence' \in Evidence /\ Worn(evidence, evidence')
<1> USE MeasurementAssumption DEF Evidence, Worn, Ratio
<1>1. CASE Slower
  BY <1>1 DEF Slower
<1>2. CASE HigherPeak
  BY <1>2 DEF HigherPeak
<1>3. CASE ShorterTravel
  BY <1>3 DEF ShorterTravel
<1>4. CASE LessConsistent
  BY <1>4 DEF LessConsistent
<1>5. CASE Stickier
  BY <1>5 DEF Stickier
<1>6. CASE StrongerLocally
  BY <1>6 DEF StrongerLocally
<1>7. CASE LessSimilar
  BY <1>7 DEF LessSimilar
<1> QED
  BY <1>1, <1>2, <1>3, <1>4, <1>5, <1>6, <1>7 DEF Next

\* The evidence is always evidence.
LEMMA EvidenceInvariant == Spec => [](evidence \in Evidence)
<1>1. Init => evidence \in Evidence
  BY DEF Init
<1>2. evidence \in Evidence /\ [Next]_evidence => (evidence \in Evidence)'
  BY StepIsWear
<1> QED
  BY <1>1, <1>2, PTL DEF Spec

\* For every measurement: worse evidence never turns a finding into none.
THEOREM FindingsPersist == Spec => WearNeverClears
<1>1. evidence \in Evidence /\ [Next]_evidence =>
        [Finding(evidence) # "none" => Finding(evidence') # "none"]_evidence
  BY StepIsWear, WornFinding
<1> QED
  BY <1>1, EvidenceInvariant, PTL DEF Spec, WearNeverClears

\* For every measurement: worse evidence never raises the health score and
\* never relaxes the NE 107 status.
THEOREM StatusPersists == Spec => WearNeverImproves
<1>1. ASSUME evidence \in Evidence, Next
      PROVE  /\ HealthScore(evidence') <= HealthScore(evidence)
             /\ Severity(Ne107Status(evidence')) >= Severity(Ne107Status(evidence))
  BY <1>1, StepIsWear, WornHealth, WornStatus
<1> QED
  BY <1>1, EvidenceInvariant, PTL DEF Spec, WearNeverImproves

\* For every measurement: the second rule for a degraded actuator is shadowed
\* by the first.
THEOREM SlowRuleShadowed == Spec => []SlowRuleUnreachable
<1>1. ASSUME evidence \in Evidence PROVE SlowRuleUnreachable
  BY <1>1, EvidenceIsNumeric DEF SlowRuleUnreachable, Finding, SlowDegradation, Degradation
<1> QED
  BY <1>1, EvidenceInvariant, PTL

-----------------------------------------------------------------------------
\* Seven tenths, kept between one group and all but one.
LEMMA DevelopmentCountBounds ==
    ASSUME NEW groups \in Nat, groups >= 2
    PROVE  DevelopmentCount(groups, FALSE) \in 1 .. groups - 1
<1>1. (groups * 7) \div 10 \in Nat
  OBVIOUS
<1> QED
  BY <1>1 DEF DevelopmentCount, Smaller, Larger

\* However many load groups a profile has, from two on: development and holdout are
\* both there, and share no operating condition (benchmark.py:261-276).
THEOREM SplitKeepsGroupsApart ==
    ASSUME NEW groups \in Nat, groups >= 2
    PROVE  SplitIsGrouped(groups)
<1> DEFINE D == {g \in 1 .. groups : Split(g, groups, FALSE) = "development"}
           H == {g \in 1 .. groups : Split(g, groups, FALSE) = "holdout"}
<1>1. PICK n \in 1 .. groups - 1 : n = DevelopmentCount(groups, FALSE)
  BY DevelopmentCountBounds
<1>2. \A g \in 1 .. groups : Split(g, groups, FALSE) = IF g <= n THEN "development" ELSE "holdout"
  BY <1>1 DEF Split
<1>3. 1 \in 1 .. groups /\ groups \in 1 .. groups /\ 1 <= n /\ ~ groups <= n
  OBVIOUS
<1>4. 1 \in D /\ groups \in H
  BY <1>2, <1>3
<1>5. \A d \in D, h \in H : d < h
  <2> TAKE d \in D, h \in H
  <2>1. d \in 1 .. groups /\ d <= n
    BY <1>2
  <2>2. h \in 1 .. groups /\ ~ h <= n
    BY <1>2
  <2>3. d \in Int /\ h \in Int /\ n \in Int
    BY <2>1, <2>2
  <2> QED
    BY <2>1, <2>2, <2>3
<1> QED
  BY <1>4, <1>5 DEF SplitIsGrouped

\* The findings that the cascade can give.
LEMMA FindingsListed ==
    ASSUME NEW e
    PROVE  Finding(e) \in {"sensor drift", "persistent local stiction", "degradation",
                           "obstruction", "local stiction", "friction",
                           "degradation, slow", "unclassified", "none"}
  BY DEF Finding

\* The scorer knows the words of every finding but the unclassified one.
LEMMA ClassOfFindings ==
    /\ ClassOf(Words("sensor drift")) = "sensor_drift"
    /\ ClassOf(Words("persistent local stiction")) = "stiction"
    /\ ClassOf(Words("local stiction")) = "stiction"
    /\ ClassOf(Words("degradation")) = "actuator_degradation"
    /\ ClassOf(Words("degradation, slow")) = "actuator_degradation"
    /\ ClassOf(Words("obstruction")) = "obstruction"
    /\ ClassOf(Words("friction")) = "friction"
    /\ ClassOf(Words("none")) = "normal"
  BY DEF ClassOf, Words

\* For every measurement: no run falls out of the report, a run counts as rejected
\* exactly when its diagnosis asks for a review, and else as the class its finding is
\* about (benchmark.py:78-96).
THEOREM PredictionsExact ==
    ASSUME NEW e
    PROVE  PredictionExact(e)
<1>1. CASE Finding(e) = "unclassified"
  <2>1. DecisionState(e) = "needs_review"
    BY <1>1 DEF DecisionState
  <2> QED
    BY <1>1, <2>1 DEF PredictionExact, prediction_from_diagnosis, Columns
<1>2. CASE Finding(e) # "unclassified"
  <2>1. /\ Finding(e) \in DOMAIN ClassMeant
        /\ ClassOf(Words(Finding(e))) = ClassMeant[Finding(e)]
        /\ ClassMeant[Finding(e)] \in CLASS_NAMES
    BY <1>2, FindingsListed, ClassOfFindings DEF ClassMeant, CLASS_NAMES
  <2>2. "rejected" \notin CLASS_NAMES
    BY DEF CLASS_NAMES
  <2>3. CASE DecisionState(e) = "needs_review"
    BY <2>3 DEF PredictionExact, prediction_from_diagnosis, Columns
  <2>4. CASE DecisionState(e) # "needs_review"
    <3>1. prediction_from_diagnosis(e) = ClassMeant[Finding(e)]
      BY <2>1, <2>4 DEF prediction_from_diagnosis
    <3> QED
      BY <2>1, <2>2, <2>4, <3>1 DEF PredictionExact, Columns
  <2> QED
    BY <2>3, <2>4
<1> QED
  BY <1>1, <1>2
=============================================================================
