--------------------------- MODULE DetectorExport ---------------------------
(***************************************************************************)
(* The training scripts of Phase_1, 01_inspect.py to 10_alert_contract.py, *)
(* as what they read and what they leave on disk.                          *)
(*                                                                         *)
(* A file's content is abstracted to the data sets it was computed from: a *)
(* model trained on d2 with parameters tuned on d1 is {d1, d2}.  Files are *)
(* rewritten in place, so a script that ends in the middle leaves Torn     *)
(* files; a reader of a few lines takes the alerts for whole as soon as    *)
(* the first lines are.  Three kinds of file are reused when they are      *)
(* there instead of being computed: comparisons, tuned parameters and      *)
(* validation scores.  Reports that no script reads are left out.          *)
(***************************************************************************)
EXTENDS Naturals, Sequences, FiniteSets

CONSTANTS Data,          \* contents NF-CSE-CIC-IDS2018-v2.csv may have
          Shipped,       \* the data behind the outputs in the repository
          None, Torn     \* no file; a file somebody started to write

ASSUME DataAssumption == Shipped \in Data

(* What the scripts write, up to the data it was computed from.            *)
ModelIds == [weights : SUBSET Data, thresholds : SUBSET Data]
Bundles == [id : ModelIds, calibrator : SUBSET Data, gate : SUBSET Data]
Cards == [id : ModelIds, gate : SUBSET Data]
AlertRows == [by : ModelIds, version : ModelIds]

(* A file that is missing or torn is none of these.                        *)
ASSUME ContentAssumption ==
    /\ None # Torn
    /\ \A x \in {None, Torn} :
          /\ \A S \in SUBSET Data : x # S
          /\ x \notin Bundles /\ x \notin Cards /\ x \notin AlertRows

VARIABLES
    raw,      \* the CSV file
    out,      \* work/ and outputs/: file name -> content
    script    \* the script started last: its number, where it is, how it
              \* ended, and whether a launcher started it as its plan says

dvars == <<raw, out, script>>

(* A script: the files it cannot do without, files it uses when they are    *)
(* there, and what it writes, in this order; files of one group are open   *)
(* at the same time.                                                       *)
Splits == {"train", "val", "test"}

Inspect == [needs |-> {}, uses |-> {}, writes |-> <<>>]

PrepareSplits ==
    [needs |-> {}, uses |-> {}, writes |-> << {"train"}, {"val", "test"}, {"columns"} >>]

ArtifactCheck == [needs |-> {"columns", "train", "val"}, uses |-> {}, writes |-> <<>>]

SelectFeatures ==
    [needs |-> Splits \cup {"columns"}, uses |-> {}, writes |-> << {"features"} >>]

CompareModels ==
    [needs |-> Splits \cup {"columns", "features"}, uses |-> {}, writes |-> << {"comparison"} >>]

Tune ==
    [needs |-> Splits \cup {"columns", "features"}, uses |-> {},
     writes |-> << {"params"}, {"test_scores"}, {"results"} >>]

MetricsReport == [needs |-> {"test_scores"}, uses |-> {}, writes |-> <<>>]

CalibrateAndGate ==
    [needs |-> {"params", "test_scores", "features", "columns", "train", "val"}, uses |-> {},
     writes |-> << {"val_scores"}, {"ops"} >>]

ExportModel ==
    [needs |-> Splits \cup {"params", "features"}, uses |-> {"results", "ops"},
     writes |-> << {"booster"}, {"bundle"}, {"card"} >>]

AlertContract ==
    [needs |-> {"bundle", "card", "columns", "test"}, uses |-> {},
     writes |-> << {"alerts"}, {"schema"} >>]

TrainStages ==
    << Inspect, PrepareSplits, ArtifactCheck, SelectFeatures, CompareModels,
       Tune, MetricsReport, CalibrateAndGate, ExportModel, AlertContract >>

Scripts == DOMAIN TrainStages
Writes(n) == TrainStages[n].writes
Files == UNION {UNION {Writes(n)[k] : k \in DOMAIN Writes(n)} : n \in Scripts}

Readable(f) == out[f] \notin {None, Torn}
Runs(n) ==
    /\ \A f \in TrainStages[n].needs : Readable(f)
    /\ \A f \in TrainStages[n].uses : out[f] # Torn

(* Mutation of Cached: the fitted thresholds are reused as well.           *)
CachedResults == {"comparison", "params", "val_scores", "results"}

(* "tuned already, reusing params", "reusing cached validation scores".    *)
Cached == {"comparison", "params", "val_scores"}

-----------------------------------------------------------------------------
(* Contents.                                                               *)

Lineage(fs) == UNION {out[f] : f \in {g \in fs : out[g] # None}}

Weights == Lineage({"train", "features", "params"})
Thresholds == Lineage({"results"})
Gate == Lineage({"ops"})

(* model_id_sha256: booster, features, labels, parameters and thresholds.  *)
ModelId == [weights |-> Weights, thresholds |-> Thresholds]

SelectedOn == Lineage({"train", "val", "columns"})
ComparedOn == Lineage({"train", "test", "features"})
TunedOn == Lineage({"train", "val", "features"})
TestedOn == Lineage({"train", "test", "features", "params"})
FittedOn == Lineage({"train", "val", "features", "params"})
Bundle == [id |-> ModelId, calibrator |-> Weights \cup Lineage({"val"}), gate |-> Gate]
Card == [id |-> ModelId, gate |-> Gate]
Alerts == [by |-> out["bundle"].id, version |-> out["card"].id]

Content(f) ==
    CASE f \in Splits \cup {"columns"} -> {raw}
      [] f = "features" -> SelectedOn
      [] f = "comparison" -> ComparedOn
      [] f = "params" -> TunedOn
      [] f = "test_scores" -> TestedOn
      [] f \in {"results", "val_scores"} -> FittedOn
      [] f = "ops" -> Lineage({"val_scores", "test_scores"})
      [] f = "booster" -> Weights
      [] f = "bundle" -> Bundle
      [] f = "card" -> Card
      [] f = "alerts" -> Alerts
      [] f = "schema" -> out["bundle"].id

(* A clone has reports, parameters and comparisons of the shipped model but *)
(* neither its splits nor its bundle and alerts (.gitignore); in the       *)
(* directory it was trained in there is everything.                        *)
ShippedFiles == {"features", "comparison", "params", "results", "ops", "card", "schema"}
ShippedId == [weights |-> {Shipped}, thresholds |-> {Shipped}]
DetectorInit ==
    /\ raw \in Data
    /\ \E present \in {ShippedFiles, Files} :
          out = [f \in Files |->
                    CASE f \notin present -> None
                      [] f = "bundle" -> [id |-> ShippedId, calibrator |-> {Shipped}, gate |-> {Shipped}]
                      [] f = "card" -> [id |-> ShippedId, gate |-> {Shipped}]
                      [] f = "alerts" -> [by |-> ShippedId, version |-> ShippedId]
                      [] f = "schema" -> ShippedId
                      [] OTHER -> {Shipped}]
    /\ script = [n |-> 0, at |-> 1, open |-> FALSE, state |-> "ok", plan |-> FALSE]

-----------------------------------------------------------------------------
(* A script runs.                                                          *)

Running == script.state = "running"
Left == Running /\ script.at \in DOMAIN Writes(script.n)
Group == Writes(script.n)[script.at]
Advance == script' = [script EXCEPT !.at = @ + 1, !.open = FALSE]

RunScript(n, plan) ==
    /\ ~Running
    /\ script' = [n |-> n, at |-> 1, open |-> FALSE,
                  state |-> IF Runs(n) THEN "running" ELSE "failed", plan |-> plan]
    /\ UNCHANGED <<raw, out>>

Reused(f) == f \in Cached /\ out[f] # None

Open ==
    /\ Left /\ ~script.open
    /\ \A f \in Group : ~Reused(f)
    /\ out' = [f \in Files |-> IF f \in Group THEN Torn ELSE out[f]]
    /\ script' = [script EXCEPT !.open = TRUE]
    /\ UNCHANGED raw

(* Alerts are read line by line, and only the first of them.               *)
LinesWritten ==
    /\ Left /\ script.open /\ "alerts" \in Group
    /\ out' = [f \in Files |-> IF f \in Group THEN Content(f) ELSE out[f]]
    /\ UNCHANGED <<raw, script>>

Write ==
    /\ Left /\ script.open
    /\ out' = [f \in Files |-> IF f \in Group THEN Content(f) ELSE out[f]]
    /\ Advance
    /\ UNCHANGED raw

Reuse ==
    /\ Left
    /\ \E f \in Group : Reused(f) /\ Readable(f)
    /\ Advance
    /\ UNCHANGED <<raw, out>>

(* A model whose training raises is reported and passed over.              *)
ModelFails ==
    /\ Left /\ script.n = 5 /\ ~script.open
    /\ Advance
    /\ UNCHANGED <<raw, out>>

ScriptEnds ==
    /\ Running /\ ~Left
    /\ script' = [script EXCEPT !.state = "ok"]
    /\ UNCHANGED <<raw, out>>

(* An exception, a terminated process, or a cached file that cannot be read. *)
ScriptFails ==
    /\ Running
    /\ script' = [script EXCEPT !.state = "failed"]
    /\ UNCHANGED <<raw, out>>

ScriptStep == Open \/ LinesWritten \/ Write \/ Reuse \/ ModelFails \/ ScriptEnds \/ ScriptFails

ReplaceData ==
    /\ raw' \in Data \ {raw}
    /\ UNCHANGED <<out, script>>

-----------------------------------------------------------------------------
(* Properties.                                                             *)

(* Data sets S may come from: the one the splits were made of, and what    *)
(* the reused files brought in.                                            *)
Current(S, reused) == out["train"] \subseteq S /\ S \subseteq out["train"] \cup Lineage(reused)

(* When the last script of a training has run, whatever was interrupted,   *)
(* run alone or replaced before, splits and features are of one data set,  *)
(* the exported detector and its calibrator were fitted on them, an older  *)
(* data set has come in by the tuned parameters only (by the cached        *)
(* validation scores too, for the gate), the card names the bundle and the *)
(* alerts are its alerts.                                                  *)
(* Code: 02_prepare.py:229-308, 06_tune.py:326-425, 08:205-241, 09:99-249. *)
CompletedExportIsCurrent ==
    script.n = 10 /\ script.state = "ok" /\ script.plan =>
        /\ \A f \in {"val", "test", "columns", "features"} : out[f] = out["train"]
        /\ Current(out["bundle"].calibrator, {"params"})
        /\ Current(out["bundle"].id.weights, {"params"})
        /\ Current(out["bundle"].id.thresholds, {"params"})
        /\ Current(out["bundle"].gate, {"params", "val_scores"})
        /\ out["card"] = [id |-> out["bundle"].id, gate |-> out["bundle"].gate]
        /\ out["alerts"] = [by |-> out["bundle"].id, version |-> out["card"].id]
=============================================================================
