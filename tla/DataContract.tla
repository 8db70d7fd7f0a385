----------------------------- MODULE DataContract -----------------------------
(***************************************************************************)
(* The verdict of validate_valve_frame (data/contract.py) on a test.  A    *)
(* frame is kept as what is wrong with it: whether a required column is    *)
(* absent, the tenths of a percent of required numbers that are missing,   *)
(* repeated timestamps, and how many of the other six checks fail.  Scores *)
(* are in hundredths of a point, so nothing is rounded.                    *)
(***************************************************************************)
EXTENDS Integers

Frames == [incomplete : BOOLEAN, missing : 0 .. 1000, duplicates : Nat, others : 0 .. 6]

Violations(frame) ==
    (IF frame.missing > 0 THEN 1 ELSE 0)
      + (IF frame.duplicates > 0 THEN 1 ELSE 0)
      + frame.others

Penalty(frame) == 25 * frame.missing + 20 * frame.duplicates + 400 * Violations(frame)

Score(frame) == IF Penalty(frame) > 10000 THEN 0 ELSE 10000 - Penalty(frame)

\* A slip: the score alone decides.
VerdictByScore(frame) ==
    IF frame.incomplete \/ Score(frame) < 7000 THEN "REJECTED"
    ELSE IF Score(frame) >= 9000 THEN "ACCEPTED"
    ELSE "REVIEW"

\* "REJECTED" stands for the ValueError of a strict validation.
Verdict(frame) ==
    IF frame.incomplete \/ Score(frame) < 7000 THEN "REJECTED"
    ELSE IF Score(frame) >= 9000 /\ Violations(frame) = 0 THEN "ACCEPTED"
    ELSE "REVIEW"
=============================================================================
