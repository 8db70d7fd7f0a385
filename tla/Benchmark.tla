------------------------------ MODULE Benchmark ------------------------------
(***************************************************************************)
(* The scorer of the rule cascade (experiments/benchmark.py): the matrix   *)
(* of simulated runs, how it is divided into development and holdout by    *)
(* operating condition, the class that a diagnosis is taken to predict,    *)
(* and the counts the report rests on.                                     *)
(*                                                                         *)
(* The simulator and the signature are a function from a run to evidence.  *)
(* Load factors are in 1800ths, severities in percent.  Ratios of counts,  *)
(* latencies and digests are left out.                                     *)
(***************************************************************************)
EXTENDS Diagnosis, FiniteSets, Sequences

CLASS_NAMES ==
    {"normal", "friction", "stiction", "obstruction", "actuator_degradation", "sensor_drift"}

Profile(severities, load_factors, seeds, all_holdout) ==
    [severities |-> severities, load_factors |-> load_factors, seeds |-> seeds,
     all_holdout |-> all_holdout]

PROFILES ==
    [smoke |-> Profile({0, 50, 100}, <<1440, 1800, 2160>>, 0 .. 2, FALSE),
     full |-> Profile({0, 25, 50, 75, 100}, [i \in 1 .. 10 |-> 1350 + 130 * (i - 1)],
                      0 .. 9, FALSE),
     challenge |-> Profile({0, 25, 50, 75, 100}, <<1296, 1548, 1854, 2178, 2574>>,
                           100 .. 109, TRUE)]

expected_runs(profile) ==
    Cardinality(CLASS_NAMES) * Cardinality(profile.severities)
    * Len(profile.load_factors) * Cardinality(profile.seeds)

Smaller(a, b) == IF a < b THEN a ELSE b
Larger(a, b) == IF a < b THEN b ELSE a

\* How many of the ordered load groups are for development: seven tenths, at least
\* one, and never all.  (0.7 is a float in the code, and a little less than seven
\* tenths; that first makes a difference with 90 groups.)
DevelopmentCount(groups, all_holdout) ==
    IF all_holdout THEN 0 ELSE Smaller(groups - 1, Larger(1, (groups * 7) \div 10))

Split(group, groups, all_holdout) ==
    IF group <= DevelopmentCount(groups, all_holdout) THEN "development" ELSE "holdout"

\* Every run of the matrix, by its load group.
Matrix(profile) ==
    [group : 1 .. Len(profile.load_factors), seed : profile.seeds, fault : CLASS_NAMES,
     severity : profile.severities]

\* A fault of no severity is none.
Truth(r) == IF r.severity = 0 THEN "normal" ELSE r.fault

Holdout(profile) ==
    {r \in Matrix(profile) :
        Split(r.group, Len(profile.load_factors), profile.all_holdout) = "holdout"}

\* The words of a finding that the scorer looks for.  "Travel obstruction or
\* persistent stiction" names two classes.
Words(finding) ==
    CASE finding = "sensor drift" -> {"sensor"}
      [] finding \in {"degradation", "degradation, slow"} -> {"actuator performance"}
      [] finding = "obstruction" -> {"travel obstruction", "stiction"}
      [] finding \in {"persistent local stiction", "local stiction"} -> {"stiction"}
      [] finding = "friction" -> {"friction"}
      [] finding = "none" -> {"no actionable deviation"}
      [] OTHER -> {}

\* The first word that is found decides.
ClassOf(words) ==
    IF "no actionable deviation" \in words THEN "normal"
    ELSE IF "sensor" \in words THEN "sensor_drift"
    ELSE IF "actuator performance" \in words THEN "actuator_degradation"
    ELSE IF "travel obstruction" \in words THEN "obstruction"
    ELSE IF "stiction" \in words THEN "stiction"
    ELSE IF "friction" \in words THEN "friction"
    ELSE "rejected"

prediction_from_diagnosis(e) ==
    IF DecisionState(e) = "needs_review" THEN "rejected" ELSE ClassOf(Words(Finding(e)))

Columns == CLASS_NAMES \cup {"rejected"}

\* The counts over a set of runs, each with the class it was predicted to have.
ConfusionMatrix(runs, prediction) ==
    [truth \in CLASS_NAMES |-> [predicted \in Columns |->
        Cardinality({r \in runs : Truth(r) = truth /\ prediction[r] = predicted})]]

ClassCounts(runs, prediction) ==
    [label \in CLASS_NAMES |->
        LET count(P(_)) == Cardinality({r \in runs : P(r)})
        IN  [true_positive |-> count(LAMBDA r : Truth(r) = label /\ prediction[r] = label),
             false_positive |-> count(LAMBDA r : Truth(r) # label /\ prediction[r] = label),
             false_negative |-> count(LAMBDA r : Truth(r) = label /\ prediction[r] # label),
             support |-> count(LAMBDA r : Truth(r) = label)]]

-----------------------------------------------------------------------------
\* No operating condition is in both parts, and neither part is empty once there are
\* two of them: what the holdout scores, development has not seen.
SplitIsGrouped(groups) ==
    LET part(name) == {g \in 1 .. groups : Split(g, groups, FALSE) = name}
    IN  /\ part("development") # {} /\ part("holdout") # {}
        /\ \A d \in part("development"), h \in part("holdout") : d < h

\* The class that a finding is about.
ClassMeant ==
    [finding \in {"sensor drift", "persistent local stiction", "degradation", "obstruction",
                  "local stiction", "friction", "degradation, slow", "none"} |->
        CASE finding = "sensor drift" -> "sensor_drift"
          [] finding \in {"persistent local stiction", "local stiction"} -> "stiction"
          [] finding \in {"degradation", "degradation, slow"} -> "actuator_degradation"
          [] finding = "obstruction" -> "obstruction"
          [] finding = "friction" -> "friction"
          [] finding = "none" -> "normal"]

\* Every diagnosis lands in a column of the matrix, so no run falls out of the
\* report: in "rejected" exactly when it needs review, and else in the column of the
\* class its finding is about, although "travel obstruction or persistent stiction"
\* has the words of two and the scorer goes by words.
PredictionExact(e) ==
    /\ prediction_from_diagnosis(e) \in Columns
    /\ prediction_from_diagnosis(e) = "rejected" <=> DecisionState(e) = "needs_review"
    /\ DecisionState(e) # "needs_review" =>
          /\ Finding(e) \in DOMAIN ClassMeant
          /\ prediction_from_diagnosis(e) = ClassMeant[Finding(e)]
=============================================================================
