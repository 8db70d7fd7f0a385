------------------------------ MODULE Diagnosis ------------------------------
(***************************************************************************)
(* The rule cascade that turns the evidence of a signature comparison into *)
(* a finding, an NE 107 status and a decision state (diagnosis/rules.py),  *)
(* applied again and again to one valve that wears.                        *)
(*                                                                         *)
(* Numbers are integers in the unit that makes every threshold one:        *)
(* ratios, amperes and seconds in hundredths, percentages whole, process   *)
(* error in thousandths, volts in tenths.  Confidence, the resistance      *)
(* multiplier and the texts decide nothing and are left out.               *)
(***************************************************************************)
EXTENDS Integers

CONSTANTS
    NaN,            \* what was not measured
    Currents,       \* mean moving current over the baseline's
    Strokes,        \* opening stroke time over the baseline's
    Peaks,          \* peak current over the baseline's
    Positions,      \* largest position reported, in percent
    ProcessErrors,  \* process-consistency error in excess of the baseline's
    Stagnations,    \* longest stagnation in excess of the baseline's
    Residuals,      \* largest current residual against the baseline
    Similarities,   \* similarity to the baseline in percent
    Voltages        \* median supply voltage

ASSUME MeasurementAssumption ==
    /\ NaN \notin Int
    /\ Currents \subseteq Nat \union {NaN}
    /\ Strokes \subseteq Nat \union {NaN}
    /\ Peaks \subseteq Nat \union {NaN}
    /\ Positions \subseteq Int
    /\ ProcessErrors \subseteq Nat
    /\ Stagnations \subseteq Nat
    /\ Residuals \subseteq Int
    /\ Similarities \subseteq 0 .. 100
    /\ Voltages \subseteq Int \union {NaN}

Evidence ==
    [current : Currents, stroke : Strokes, peak : Peaks, baseline : Positions,
     position : Positions, process : ProcessErrors, stagnation : Stagnations,
     residual : Residuals, similarity : Similarities, supply : Voltages]

\* What cannot be divided counts as unchanged.
Ratio(x) == IF x = NaN THEN 100 ELSE x

AtLeastZero(x) == IF x < 0 THEN 0 ELSE x

Clip(x, high) == IF x < 0 THEN 0 ELSE IF x > high THEN high ELSE x

MaxPosition(e) == Clip(e.position, 100)

TravelLoss(e) == AtLeastZero(Clip(e.baseline, 100) - MaxPosition(e))

IncompleteTravel(e) == MaxPosition(e) < 94 /\ TravelLoss(e) > 2

ProcessMismatch(e) == e.process > 15

SensorDrift(e) == ProcessMismatch(e) /\ Ratio(e.current) < 118 /\ ~ IncompleteTravel(e)

PersistentLocalStiction(e) == IncompleteTravel(e) /\ e.residual > 90

\* A slip: the threshold of the other degradation rule.
DegradationLate(e) ==
    Ratio(e.current) < 98 /\ (Ratio(e.stroke) > 140 \/ TravelLoss(e) > 3)

Degradation(e) ==
    Ratio(e.current) < 98 /\ (Ratio(e.stroke) > 110 \/ TravelLoss(e) > 3)

Obstruction(e) == IncompleteTravel(e) /\ Ratio(e.peak) > 175

LocalStiction(e) == e.residual > 10 /\ e.stagnation > 15

Friction(e) ==
    Ratio(e.current) > 115 /\ (Ratio(e.stroke) > 110 \/ e.similarity < 95)

SlowDegradation(e) == Ratio(e.stroke) > 130 /\ Ratio(e.current) < 98

\* A slip: incomplete travel alone is not a deviation.
DeviationBySimilarity(e) == e.similarity < 88

Deviation(e) == IncompleteTravel(e) \/ e.similarity < 88

\* The cascade: the first rule that holds decides.  The code gives both rules
\* for a degraded actuator the same words.
Finding(e) ==
    IF SensorDrift(e) THEN "sensor drift"
    ELSE IF PersistentLocalStiction(e) THEN "persistent local stiction"
    ELSE IF Degradation(e) THEN "degradation"
    ELSE IF Obstruction(e) THEN "obstruction"
    ELSE IF LocalStiction(e) THEN "local stiction"
    ELSE IF Friction(e) THEN "friction"
    ELSE IF SlowDegradation(e) THEN "degradation, slow"
    ELSE IF Deviation(e) THEN "unclassified"
    ELSE "none"

\* A slip: a longer stroke is taken off the penalty.
ActuationPenaltyMinus(e) ==
    Clip(8 * e.stagnation - (Ratio(e.stroke) - 100) * 55, 10000)

\* Penalties and parts of the score in hundredths of a percent.
ActuationPenalty(e) == Clip((Ratio(e.stroke) - 100) * 55 + 8 * e.stagnation, 10000)

FrictionPenalty(e) == Clip((Ratio(e.current) - 100) * 75 + 45 * e.residual, 10000)

TravelHealth(e) == Clip(10000 - 220 * TravelLoss(e), 10000)

SensorHealth(e) == Clip(10000 - 70 * e.process, 10000)

\* In ten-thousandths of a percent.
HealthScore(e) ==
    30 * (10000 - ActuationPenalty(e)) + 25 * (10000 - FrictionPenalty(e))
    + 20 * TravelHealth(e) + 15 * SensorHealth(e) + 100000

OutOfSpecification(e) == e.supply # NaN /\ (e.supply < 42 \/ e.supply > 58)

Ne107Status(e) ==
    IF OutOfSpecification(e) THEN "S"
    ELSE IF MaxPosition(e) < 75 THEN "F"
    ELSE IF HealthScore(e) < 880000 \/ Finding(e) # "none" THEN "M"
    ELSE "Normal"

DecisionState(e) ==
    IF Finding(e) = "none" THEN "normal"
    ELSE IF Finding(e) = "unclassified" \/ OutOfSpecification(e) THEN "needs_review"
    ELSE "diagnosed"

-----------------------------------------------------------------------------
VARIABLE evidence       \* of the latest test of the valve

Init == evidence \in Evidence

\* One kind of evidence gets worse, the rest stays as it was.
Slower ==
    \E x \in Strokes \ {NaN} :
        x >= Ratio(evidence.stroke) /\ evidence' = [evidence EXCEPT !.stroke = x]

HigherPeak ==
    \E x \in Peaks \ {NaN} :
        x >= Ratio(evidence.peak) /\ evidence' = [evidence EXCEPT !.peak = x]

ShorterTravel ==
    \E x \in Positions : x <= evidence.position /\ evidence' = [evidence EXCEPT !.position = x]

LessConsistent ==
    \E x \in ProcessErrors : x >= evidence.process /\ evidence' = [evidence EXCEPT !.process = x]

Stickier ==
    \E x \in Stagnations :
        x >= evidence.stagnation /\ evidence' = [evidence EXCEPT !.stagnation = x]

StrongerLocally ==
    \E x \in Residuals : x >= evidence.residual /\ evidence' = [evidence EXCEPT !.residual = x]

LessSimilar ==
    \E x \in Similarities :
        x <= evidence.similarity /\ evidence' = [evidence EXCEPT !.similarity = x]

Next ==
    \/ Slower \/ HigherPeak \/ ShorterTravel \/ LessConsistent
    \/ Stickier \/ StrongerLocally \/ LessSimilar

Spec == Init /\ [][Next]_evidence

-----------------------------------------------------------------------------
\* Worse evidence never clears a finding, although the rules exclude each
\* other: what one rule lets go, a later one has to catch.
WearNeverClears ==
    [][Finding(evidence) # "none" => Finding(evidence') # "none"]_evidence

Severity(status) ==
    IF status = "S" THEN 3 ELSE IF status = "F" THEN 2 ELSE IF status = "M" THEN 1 ELSE 0

\* Nor does it raise the health score or relax the NE 107 status.
WearNeverImproves ==
    [][/\ HealthScore(evidence') <= HealthScore(evidence)
       /\ Severity(Ne107Status(evidence')) >= Severity(Ne107Status(evidence))]_evidence

\* The second rule for a degraded actuator never decides: whatever it matches,
\* the first one has already matched.
SlowRuleUnreachable == Finding(evidence) # "degradation, slow"

\* A model card says that a supply out of specification needs review.
OutOfSpecNeedsReview ==
    OutOfSpecification(evidence) => DecisionState(evidence) = "needs_review"
=============================================================================
