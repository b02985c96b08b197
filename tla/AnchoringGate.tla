---------------------------- MODULE AnchoringGate ----------------------------
(***************************************************************************)
(* The confidence above which events are anchored.  08_calibration_icr.py  *)
(* chooses a calibrator and, for each target of integrity coverage, an     *)
(* operating point on the test fold; 09_export_model.py exports the point  *)
(* of one target, and 10_alert_contract.py gates with it.                  *)
(*                                                                         *)
(* Scores are numbers up to MaxScore; float32 has every third of them.     *)
(* Stage 08 fits its isotonic calibrator to float32 scores; stages 09 and  *)
(* 10 have another one, fitted to float64 scores: how many attacks the     *)
(* gate covers on theirs depends on both fits and is not stated here.      *)
(***************************************************************************)
EXTENDS Integers, Sequences, FiniteSets

CONSTANTS MaxRows8, MaxScore,
          RawScores,      \* 1 - P(Benign) of the flows of the test fold, as float64
          Isotonic08,     \* the isotonic calibrator of stage 08, by raw score
          Uniform,        \* thresholds tried whatever the scores are
          MaxDistinct,    \* from here on not every score is tried: 2000
          Targets,        \* percents, decreasing
          Deployed,       \* ICR_TARGET
          Fallback,       \* 0.5
          NoGate

ASSUME GateAssumption ==
    /\ MaxRows8 \in Nat /\ MaxScore \in Nat /\ MaxScore % 3 = 0
    /\ RawScores \subseteq 0 .. MaxScore
    /\ Isotonic08 \in [0 .. MaxScore -> 0 .. MaxScore]
    /\ \A i, j \in 0 .. MaxScore : i <= j => Isotonic08[i] <= Isotonic08[j]
    /\ Uniform \subseteq 0 .. MaxScore /\ MaxScore \in Uniform
    /\ Targets \in Seq(Nat) /\ \E i \in DOMAIN Targets : Targets[i] = Deployed
    /\ \A i, j \in DOMAIN Targets : i < j => Targets[i] > Targets[j]
    /\ NoGate \notin 0 .. MaxScore

VARIABLES
    test_rows,    \* [attack, raw]
    calibrator,   \* the one with the lowest ECE
    tau_grid,
    target,       \* index of the next target
    ops,          \* icr_operating_points.csv, [target, tau]
    gate, threshold,  \* what 09 exports, and what 10 gates with
    stage         \* "scored", "points", "export", "deploy", "gating", "failed"

gvars == <<test_rows, calibrator, tau_grid, target, ops, gate, threshold, stage>>

Float32(s) == 3 * ((s + 1) \div 3)

(* Sigmoid and uncalibrated scores stand for each other: both keep raw     *)
(* scores apart.                                                           *)
raw_test(row) == Float32(row.raw)
cal_score(row) ==
    IF calibrator = "isotonic" THEN Float32(Isotonic08[raw_test(row)]) ELSE raw_test(row)

(* Rows anchored by a threshold on a score; coverage and volume of them.   *)
Anchored(tau, score) == {i \in DOMAIN test_rows : score[i] >= tau}
Attacks == {i \in DOMAIN test_rows : test_rows[i].attack}
Covers(anchored, percent) == 100 * Cardinality(anchored \cap Attacks) >= percent * Cardinality(Attacks)
On08(tau) == Anchored(tau, [i \in DOMAIN test_rows |-> cal_score(test_rows[i])])
Volume(tau) == Cardinality(On08(tau))
AnchorsAll(tau) == 1000 * Volume(tau) >= 999 * Len(test_rows)

(* Both classes occur, or there is no ROC.                                 *)
GateInit ==
    /\ test_rows \in [1..MaxRows8 -> [attack : BOOLEAN, raw : RawScores]]
    /\ Attacks \notin {{}, DOMAIN test_rows}
    /\ \A i, j \in DOMAIN test_rows : i < j => test_rows[i].raw <= test_rows[j].raw
    /\ calibrator \in {"isotonic", "uncalibrated"}
    /\ tau_grid = {} /\ target = 1 /\ ops = <<>> /\ gate = NoGate /\ threshold = Fallback
    /\ stage = "scored"

Distinct == {cal_score(test_rows[i]) : i \in DOMAIN test_rows}

(* Mutation of TriedScores: the uniform grid only.                         *)
NoScores(sample) == sample = {}

(* All of the distinct scores, or quantiles of them.                       *)
TriedScores(sample) ==
    IF Cardinality(Distinct) < MaxDistinct THEN sample = Distinct
    ELSE \A s \in Distinct : (\A d \in Distinct : d <= s) \/ (\A d \in Distinct : s <= d) => s \in sample

MakeGrid ==
    /\ stage = "scored" /\ stage' = "points"
    /\ \E sample \in SUBSET Distinct : TriedScores(sample) /\ tau_grid' = Uniform \cup sample
    /\ UNCHANGED <<test_rows, calibrator, target, ops, gate, threshold>>

(* idxmin: of the points that meet the target the first of least volume.   *)
Efficient(percent) ==
    LET ok == {t \in tau_grid : Covers(On08(t), percent)}
    IN  CHOOSE t \in ok : \A u \in ok : Volume(t) < Volume(u) \/ (Volume(t) = Volume(u) /\ t <= u)

(* A target that no point meets, or only anchoring everything, has no row; *)
(* drop_duplicates leaves the first row of each threshold.                 *)
NextTarget ==
    LET percent == Targets[target]
        tau == Efficient(percent)
        shown == /\ \E t \in tau_grid : Covers(On08(t), percent)
                 /\ ~AnchorsAll(tau)
                 /\ \A i \in DOMAIN ops : ops[i].tau # tau
    IN  /\ stage = "points" /\ target <= Len(Targets)
        /\ target' = target + 1
        /\ ops' = IF shown THEN Append(ops, [target |-> percent, tau |-> tau]) ELSE ops
        /\ stage' = IF target = Len(Targets) THEN "export" ELSE "points"
        /\ UNCHANGED <<test_rows, calibrator, tau_grid, gate, threshold>>

RowsOfTarget == {i \in DOMAIN ops : ops[i].target = Deployed}

(* A table without a row has no header either, and read_csv raises.        *)
Export ==
    /\ stage = "export"
    /\ IF ops = <<>> THEN stage' = "failed" /\ UNCHANGED gate
       ELSE /\ stage' = "deploy"
            /\ gate' = IF RowsOfTarget = {} THEN NoGate ELSE ops[CHOOSE i \in RowsOfTarget : TRUE].tau
    /\ UNCHANGED <<test_rows, calibrator, tau_grid, target, ops, threshold>>

Deploy ==
    /\ stage = "deploy" /\ stage' = "gating"
    /\ threshold' = IF gate = NoGate THEN Fallback ELSE gate
    /\ UNCHANGED <<test_rows, calibrator, tau_grid, target, ops, gate>>

GateStep == MakeGrid \/ NextTarget \/ Export \/ Deploy

-----------------------------------------------------------------------------
(* Properties.                                                             *)

(* "the actual efficient operating point" (08_calibration_icr.py:306-308,  *)
(* 09_export_model.py:61-64): the gate meets its target on the test fold,  *)
(* in the scores it was chosen on, and no threshold at all that meets it   *)
(* anchors less; it is missing only when meeting the target takes          *)
(* anchoring everything, or a stricter target has the same point; and the  *)
(* export fails only when every target takes anchoring everything.         *)
(* Code: 08_calibration_icr.py:103-146 and 281-327, 09_export_model.py:    *)
(* 171-185.                                                                *)
GateIsEfficient ==
    LET meets(percent) == {t \in 0 .. MaxScore : Covers(On08(t), percent)}
    IN  Cardinality(Distinct) < MaxDistinct =>
           /\ stage = "failed" => \A i \in DOMAIN Targets : \A t \in meets(Targets[i]) : AnchorsAll(t)
           /\ stage = "gating" =>
                 IF gate = NoGate
                 THEN \/ \A t \in meets(Deployed) : AnchorsAll(t)
                      \/ \E i \in DOMAIN ops : ops[i].target > Deployed /\ ops[i].tau \in meets(Deployed)
                 ELSE /\ gate \in meets(Deployed)
                      /\ \A t \in meets(Deployed) : Volume(gate) <= Volume(t)

=============================================================================
