----------------------------- MODULE MCDiagnosis -----------------------------
(***************************************************************************)
(* The cascade over a grid with a value on each side of every threshold,   *)
(* and the scorer over its profiles and over small matrices.               *)
(***************************************************************************)
EXTENDS Benchmark, FiniteSetsExt

MCCurrents == {97, 100, 116, 118}
MCStrokes == {NaN, 100, 111, 131}
MCPeaks == {100, 176}
MCPositions == {70, 92, 96, 105}
MCProcessErrors == {0, 16}
MCStagnations == {0, 16}
MCResiduals == {0, 11, 91}
MCSimilarities == {87, 94, 96}
MCVoltages == {41, NaN}

\* No operating condition is on both sides of the split, whatever their number.
ASSUME GroupsKeptApart == \A groups \in 2 .. 40 : SplitIsGrouped(groups)

\* Every evidence on the grid is scored under the class of its finding.
ASSUME GridIsScored == \A e \in Evidence : PredictionExact(e)

\* The numbers that the source and its documents give of the profiles
\* (benchmark.py:51, :60, :72): the smoke profile develops on two of three groups,
\* the full one has 3000 runs, and no load or seed of the challenge is among them.
ASSUME ProfilesAsDocumented ==
    LET loads(p) == {PROFILES[p].load_factors[i] : i \in DOMAIN PROFILES[p].load_factors}
    IN  /\ DevelopmentCount(3, FALSE) = 2 /\ DevelopmentCount(10, FALSE) = 7
        /\ expected_runs(PROFILES.full) = 3000
        /\ loads("challenge") \cap loads("full") = {}
        /\ PROFILES.challenge.seeds \cap PROFILES.full.seeds = {}
        /\ Holdout(PROFILES.challenge) = Matrix(PROFILES.challenge)

SmallRuns ==
    [group : {1}, seed : {0}, fault : {"normal", "friction"}, severity : {0, 50}]

\* Confusion matrix and counts of each class tell of the same runs, whatever is
\* predicted: rows add up to the support, columns to the predictions, and the
\* diagonal is the true positives.
ASSUME CountsAgree ==
    \A prediction \in [SmallRuns -> {"normal", "friction", "sensor_drift", "rejected"}] :
        LET matrix == ConfusionMatrix(SmallRuns, prediction)
            counts == ClassCounts(SmallRuns, prediction)
            row(label) == MapThenSumSet(LAMBDA p : matrix[label][p], Columns)
            column(label) == MapThenSumSet(LAMBDA t : matrix[t][label], CLASS_NAMES)
        IN  \A label \in CLASS_NAMES :
                /\ row(label) = counts[label].support
                /\ counts[label].true_positive = matrix[label][label]
                /\ counts[label].true_positive + counts[label].false_negative = row(label)
                /\ counts[label].true_positive + counts[label].false_positive = column(label)
=============================================================================
