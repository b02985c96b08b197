--------------------------- MODULE LauncherProofs ---------------------------
(***************************************************************************)
(* Proofs about DetectorExport and Launcher, for any data sets, command    *)
(* lines, numbers of launches and of files changed by hand.                *)
(***************************************************************************)
EXTENDS Launcher, SequenceLemmas, TLAPS

-----------------------------------------------------------------------------
(* The training scripts.                                                   *)

SetFiles == {"train", "val", "test", "columns", "features", "comparison", "params",
             "test_scores", "results", "val_scores", "ops", "booster"}
OutType ==
    /\ out = [f \in Files |-> out[f]]
    /\ \A f \in SetFiles : out[f] \in (SUBSET Data) \cup {None, Torn}
    /\ out["bundle"] \in Bundles \cup {None, Torn}
    /\ out["card"] \in Cards \cup {None, Torn}
    /\ out["alerts"] \in AlertRows \cup {None, Torn}
ScriptType ==
    /\ script = [n |-> script.n, at |-> script.at, open |-> script.open, state |-> script.state,
                 plan |-> script.plan]
    /\ script.n \in 0 .. 10 /\ script.at \in Nat \ {0}
    /\ script.open \in BOOLEAN /\ script.state \in {"running", "ok", "failed"}
    /\ script.plan \in BOOLEAN
    /\ Running => script.n # 0 /\ script.at <= Len(Writes(script.n)) + 1 /\ Runs(script.n)
    /\ script.state = "ok" /\ script.n # 0 => script.at = Len(Writes(script.n)) + 1
(* The cached files a running script has read or written so far.           *)
InHand ==
    Running /\ script.at > 1 =>
        (script.n = 6 => Readable("params")) /\ (script.n = 8 => Readable("val_scores"))
TypeOK == raw \in Data /\ OutType /\ ScriptType /\ InHand

(* The scripts of this training have written group k of script n.          *)
Past(n, k) == script.state # "failed" /\ (script.n > n \/ (script.n = n /\ script.at > k))

(* What the files are then: one data set for splits, columns and features, *)
(* and with the tuned parameters, reused or not, for all that is fitted.   *)
Fit == out["train"] \cup out["params"]
FitId == [weights |-> Fit, thresholds |-> Fit]
Chain ==
    /\ Running /\ script.n = 2 /\ script.at > 1 => out["train"] = {raw}
    /\ Past(2, 2) => out["val"] = out["train"] /\ out["test"] = out["train"]
    /\ Past(2, 3) => out["columns"] = out["train"]
    /\ Past(4, 1) => out["features"] = out["train"]
    /\ Past(6, 1) => Readable("params")
    /\ Past(6, 2) => out["test_scores"] = Fit
    /\ Past(6, 3) => out["results"] = Fit
    /\ Past(8, 1) => Readable("val_scores")
    /\ Past(8, 2) => out["ops"] = out["val_scores"] \cup out["test_scores"]
    /\ Past(9, 2) => out["bundle"] = [id |-> FitId, calibrator |-> Fit, gate |-> out["ops"]]
    /\ Past(9, 3) => out["card"] = [id |-> out["bundle"].id, gate |-> out["bundle"].gate]
    /\ Past(10, 1) => out["alerts"] = [by |-> out["bundle"].id, version |-> out["card"].id]

(* A script that is run alone is in no training.                           *)
TrainingInv == TypeOK /\ (script.plan => Chain)

-----------------------------------------------------------------------------
(* The launcher, and the scripts it starts in their order.                 *)

Child == {"environment", "script", "stage"}
PlanOf(p, phases) ==
    /\ \A i \in 1 .. Len(p) : p[i] \in {0} \cup Scripts \cup {10 + q : q \in phases}
    /\ \A i, j \in 1 .. Len(p) : i < j => p[i] < p[j]
    /\ \A i, j \in 1 .. Len(p) : j = i + 1 /\ p[j] \in Scripts => p[j] = p[i] + 1
TrainsFirst(p) == \A i, j \in 1 .. Len(p) : j = i + 1 /\ p[j] > 10 => p[i] >= 10
Left2Do(k) == \E i \in 1 .. Len(launcher.todo) : launcher.todo[i] = k

LauncherType ==
    /\ launches \in 0 .. MaxLaunches
    /\ child \in Child \cup {None}
    /\ child # None => launcher # None
    /\ launcher # None =>
          /\ launcher = [dir |-> launcher.dir, mode |-> launcher.mode, phases |-> launcher.phases,
                         todo |-> launcher.todo, number |-> launcher.number]
          /\ launcher.todo \in Seq(0 .. 13) /\ PlanOf(launcher.todo, launcher.phases)
          /\ child # None => launcher.todo # <<>>
          /\ launcher.number = launches /\ launches \in Dirs /\ launcher.dir \in 1 .. launches
          /\ launcher.phases \in SUBSET (1 .. 3) /\ launcher.phases # {}
          /\ launcher.mode # "train" => \A k \in Scripts : ~Left2Do(k)

ScriptOrder ==
    /\ launcher # None /\ child # None =>
          /\ child = "environment" <=> Head(launcher.todo) = 0
          /\ child = "script" <=> Head(launcher.todo) \in Scripts
          /\ child = "stage" <=> Head(launcher.todo) > 10
          /\ child = "script" => script.n = Head(launcher.todo) /\ script.plan
          /\ child # "script" => ~Running
    /\ launcher # None /\ child = None =>
          /\ ~Running
          /\ launcher.todo # <<>> /\ Head(launcher.todo) \in Scripts \ {1} =>
                script.n = Head(launcher.todo) - 1 /\ script.state = "ok" /\ script.plan

Maps ==
    /\ stage = [n \in Dirs |-> stage[n]] /\ dir = [d \in Dirs |-> dir[d]]
    /\ audited = [d \in Dirs |-> audited[d]]

-----------------------------------------------------------------------------
(* The stages.                                                             *)

PipelineSteps == <<"pipeline", "audit", "events", "mapping", "handoff2", "results2">>
Phase1Todo == {<<"phase1">>, <<"alerts", "handoff">>, <<"handoff">>, <<>>}
Phase2Todo ==
    {<<"phase2">>, <<"phase1", "phase2">>, <<"alerts", "handoff", "phase2">>,
     <<"handoff", "phase2">>,
     <<"pipeline", "audit", "events", "mapping", "handoff2", "results2">>,
     <<"audit", "events", "mapping", "handoff2", "results2">>,
     <<"events", "mapping", "handoff2", "results2">>,
     <<"mapping", "handoff2", "results2">>, <<"handoff2", "results2">>, <<"results2">>, <<>>}
Phase3Todo ==
    {<<"phase3">>, <<"mkdir", "trials", "results3">>, <<"trials", "results3">>, <<"results3">>, <<>>}
Todo(p) == CASE p = 1 -> Phase1Todo [] p = 2 -> Phase2Todo [] p = 3 -> Phase3Todo

First(t) == IF t = <<>> THEN "end" ELSE Head(t)
Step(n) == First(stage[n].todo)
Unsaved(n, f) == Dir(n)[f] = IF Step(n) = f /\ stage[n].open THEN Torn ELSE None

AllTodo == Phase1Todo \cup Phase2Todo \cup Phase3Todo
StageFields == {"dir", "mode", "todo", "rows", "open", "state"}
StageShape(n) ==
    /\ stage[n] = [f \in StageFields |-> stage[n][f]]
    /\ stage[n].dir \in 1 .. n /\ n <= launches
    /\ stage[n].todo \in AllTodo
    /\ stage[n].todo \notin Phase3Todo => stage[n].dir = n
    /\ stage[n].open \in BOOLEAN
    /\ stage[n].open => Step(n) \in Saves

Rows1(n) ==
    /\ stage[n].rows \in Rows
    /\ Smoke(n) <=> stage[n].rows.by = Synthetic

(* Phase 1 of a stage.                                                     *)
AtPhase1(n) ==
    /\ Step(n) \in {"phase1", "alerts", "handoff"} => ~Dir(n).phase2 /\ Unsaved(n, "handoff")
    /\ Step(n) \in {"alerts", "handoff"} => Rows1(n)
    /\ Step(n) = "handoff" => Dir(n).alerts = stage[n].rows

Made(n) == [of |-> stage[n].rows]
AtPhase2(n) ==
    /\ Step(n) \in {"phase2", "pipeline"} => ~Dir(n).phase2
    /\ Step(n) \in {"audit", "events", "mapping", "handoff2", "results2"} => Dir(n).phase2
    /\ Step(n) \in {"pipeline", "audit", "events", "mapping", "handoff2", "results2"} =>
          /\ Whole(Dir(n).handoff) /\ Dir(n).handoff.alerts = stage[n].rows
    /\ Step(n) \in {"audit", "events", "mapping", "handoff2"} => Unsaved(n, "handoff2")
    /\ Step(n) \in {"audit", "events", "mapping", "handoff2", "results2"} => Unsaved(n, "results2")
    /\ Step(n) \in {"events", "mapping", "handoff2", "results2"} => audited[stage[n].dir] = stage[n].rows
    /\ Step(n) \in {"mapping", "handoff2", "results2"} => Dir(n).events = Made(n)
    /\ Step(n) \in {"handoff2", "results2"} => Dir(n).mapping = Made(n)
    /\ Step(n) = "results2" => Whole(Dir(n).handoff2)

Out2(d) == Whole(dir[d].handoff) /\ Whole(dir[d].events) /\ Whole(dir[d].mapping) /\ Whole(dir[d].handoff2)
AtPhase3(n) ==
    /\ Step(n) \in {"mkdir", "trials", "results3"} =>
          /\ Out2(stage[n].dir)
          /\ stage[n].rows = [of |-> audited[stage[n].dir]]
          /\ Smoke(n) <=> audited[stage[n].dir].by = Synthetic
    /\ Step(n) \in {"trials", "results3"} => Dir(n).phase3 = n /\ Unsaved(n, "results3")

StageOK(n) == StageShape(n) /\ AtPhase1(n) /\ AtPhase2(n) /\ AtPhase3(n)
StageInv == \A n \in Dirs : Working(n) => StageOK(n)

-----------------------------------------------------------------------------
(* The run directories.                                                    *)

DirFields == {"alerts", "handoff", "phase2", "events", "mapping", "handoff2", "results2",
              "phase3", "results3", "status", "mode", "phases", "step"}
DirShape(r) == r = [f \in DirFields |-> r[f]]

HandoffOK(h) ==
    /\ h.alerts \in Rows
    /\ h.synthetic \in BOOLEAN
    /\ h.synthetic <=> h.provenance.model_id = Synthetic
    /\ h.synthetic <=> h.alerts.by = Synthetic
SecondOK(h, a) ==
    /\ a \in Rows
    /\ h.events = [of |-> a] /\ h.mapping = [of |-> a]
    /\ h.synthetic \in BOOLEAN
    /\ h.synthetic <=> a.by = Synthetic
ReplayOK(res, a, n) ==
    /\ res.input = [of |-> a]
    /\ res.synthetic <=> a.by = Synthetic
    /\ res.by = n

DirOK(d) ==
    LET r == dir[d] IN
    /\ DirShape(r)
    /\ r.phase2 \in BOOLEAN
    /\ d > launches => r = EmptyDir
    /\ ~r.phase2 => r.events = None /\ r.mapping = None /\ r.handoff2 = None /\ r.results2 = None
    /\ Whole(r.handoff) => HandoffOK(r.handoff)
    /\ r.phase2 => Whole(r.handoff)
    /\ Whole(r.handoff2) => SecondOK(r.handoff2, audited[d])
    /\ r.phase3 \in 0 .. launches
    /\ r.phase3 # 0 => Whole(r.handoff2)
    /\ r.phase3 = 0 => r.results3 = None
    /\ Whole(r.results3) => ReplayOK(r.results3, audited[d], r.phase3)

(* What phase p leaves.                                                    *)
Out(p, d) ==
    /\ Whole(dir[d].handoff)
    /\ p # 1 => Out2(d)
    /\ p = 2 => Whole(dir[d].results2)
    /\ p = 3 => Whole(dir[d].results3)

Completed == \A d \in Dirs : dir[d].status = "completed" =>
                 /\ dir[d].step = "completed"
                 /\ dir[d].phases \in SUBSET (1 .. 3) /\ dir[d].phases # {}
                 /\ \A p \in dir[d].phases : Out(p, d)

PhaseRuns(p) == child = "stage" /\ Head(launcher.todo) = 10 + p
LauncherInv ==
    launcher # None =>
        LET d == launcher.dir
            n == launcher.number
        IN  /\ launcher.phases # {3} => n = d
            /\ 3 \in launcher.phases /\ launcher.phases # {3} => 2 \in launcher.phases
            /\ Left2Do(11) /\ ~PhaseRuns(1) => dir[d].handoff = None
            /\ Left2Do(12) /\ ~PhaseRuns(2) => ~dir[d].phase2
            /\ Left2Do(12) /\ launcher.phases = {2} /\ ~PhaseRuns(2) => dir[d].handoff = None
            /\ \A p \in launcher.phases : ~Left2Do(10 + p) => Out(p, d)
            /\ child # "stage" => ~Working(n)
            /\ child = "stage" =>
                  \/ /\ Working(n)
                     /\ stage[n].dir = d /\ stage[n].mode = launcher.mode
                     /\ stage[n].todo \in Todo(Head(launcher.todo) - 10)
                     /\ stage[n].todo = <<>> => Out(Head(launcher.todo) - 10, d)
                  \/ stage[n] = [state |-> "ok"] /\ Out(Head(launcher.todo) - 10, d)
                  \/ stage[n] = [state |-> "failed"]
            /\ child = None =>
                  \/ launcher.todo # <<>> /\ Head(launcher.todo) = 0
                  \/ dir[d].step = "completed" /\ dir[d].phases = launcher.phases
            /\ child # None => dir[d].phases = launcher.phases

-----------------------------------------------------------------------------
(* The scripts, one by one.                                                *)

LEMMA ScriptsAre ==
    /\ Scripts = 1 .. 10
    /\ Writes(1) = <<>>
    /\ Writes(2) = << {"train"}, {"val", "test"}, {"columns"} >>
    /\ Writes(3) = <<>>
    /\ Writes(4) = << {"features"} >>
    /\ Writes(5) = << {"comparison"} >>
    /\ Writes(6) = << {"params"}, {"test_scores"}, {"results"} >>
    /\ Writes(7) = <<>>
    /\ Writes(8) = << {"val_scores"}, {"ops"} >>
    /\ Writes(9) = << {"booster"}, {"bundle"}, {"card"} >>
    /\ Writes(10) = << {"alerts"}, {"schema"} >>
  BY DEF Scripts, Writes, TrainStages, Inspect, PrepareSplits, ArtifactCheck, SelectFeatures,
         CompareModels, Tune, MetricsReport, CalibrateAndGate, ExportModel, AlertContract

LEMMA Lengths ==
    /\ Len(Writes(1)) = 0 /\ Len(Writes(2)) = 3 /\ Len(Writes(3)) = 0 /\ Len(Writes(4)) = 1
    /\ Len(Writes(5)) = 1 /\ Len(Writes(6)) = 3 /\ Len(Writes(7)) = 0 /\ Len(Writes(8)) = 2
    /\ Len(Writes(9)) = 3 /\ Len(Writes(10)) = 2
    /\ \A n \in 1 .. 10 : DOMAIN Writes(n) = 1 .. Len(Writes(n)) /\ Len(Writes(n)) \in Nat
  BY ScriptsAre

(* Where a script has come to its end.                                     *)
LEMMA Ends ==
    /\ Len(Writes(2)) + 1 = 4 /\ Len(Writes(4)) + 1 = 2 /\ Len(Writes(6)) + 1 = 4
    /\ Len(Writes(8)) + 1 = 3 /\ Len(Writes(9)) + 1 = 4 /\ Len(Writes(10)) + 1 = 3
<1>1. 3 + 1 = 4 /\ 1 + 1 = 2 /\ 2 + 1 = 3
  OBVIOUS
<1>. QED
  BY <1>1, Lengths, Zenon

LEMMA FilesAre == Files = SetFiles \cup {"bundle", "card", "alerts", "schema"}
<1> DEFINE All == SetFiles \cup {"bundle", "card", "alerts", "schema"}
<1>1. \A n \in Scripts : \A k \in DOMAIN Writes(n) : Writes(n)[k] \subseteq All
  <2> SUFFICES ASSUME NEW n \in Scripts, NEW k \in DOMAIN Writes(n)
               PROVE  Writes(n)[k] \subseteq All
    OBVIOUS
  <2>1. n \in 1 .. 10
    BY ScriptsAre
  <2>2. CASE n \in {1, 3, 7}
    BY <2>2, ScriptsAre
  <2>3. CASE n \in {2, 6, 9}
    BY <2>3, ScriptsAre DEF SetFiles
  <2>4. CASE n \in {4, 5, 8, 10}
    BY <2>4, ScriptsAre DEF SetFiles
  <2>. QED
    BY <2>1, <2>2, <2>3, <2>4
<1>2. \A f \in All : \E n \in Scripts : \E k \in DOMAIN Writes(n) : f \in Writes(n)[k]
  <2> SUFFICES ASSUME NEW f \in All
               PROVE  \E n \in Scripts : \E k \in DOMAIN Writes(n) : f \in Writes(n)[k]
    OBVIOUS
  <2>1. 2 \in Scripts /\ 4 \in Scripts /\ 5 \in Scripts /\ 6 \in Scripts /\ 8 \in Scripts
        /\ 9 \in Scripts /\ 10 \in Scripts
    BY ScriptsAre
  <2>2. CASE f \in {"train", "val", "test", "columns"}
    BY <2>1, <2>2, ScriptsAre
  <2>3. CASE f \in {"features", "comparison"}
    BY <2>1, <2>3, ScriptsAre
  <2>4. CASE f \in {"params", "test_scores", "results"}
    BY <2>1, <2>4, ScriptsAre
  <2>5. CASE f \in {"val_scores", "ops"}
    BY <2>1, <2>5, ScriptsAre
  <2>6. CASE f \in {"booster", "bundle", "card"}
    BY <2>1, <2>6, ScriptsAre
  <2>7. CASE f \in {"alerts", "schema"}
    BY <2>1, <2>7, ScriptsAre
  <2>. QED
    BY <2>2, <2>3, <2>4, <2>5, <2>6, <2>7 DEF SetFiles
<1>. QED
  BY <1>1, <1>2 DEF Files

(* What the running scripts need is there and whole.                       *)
Needs(n) == TrainStages[n].needs
LEMMA NeedsAre ==
    /\ Needs(1) = {} /\ Needs(2) = {}
    /\ Needs(3) = {"columns", "train", "val"}
    /\ Needs(4) = {"train", "val", "test", "columns"}
    /\ Needs(5) = {"train", "val", "test", "columns", "features"}
    /\ Needs(6) = {"train", "val", "test", "columns", "features"}
    /\ Needs(7) = {"test_scores"}
    /\ Needs(8) = {"params", "test_scores", "features", "columns", "train", "val"}
    /\ Needs(9) = {"train", "val", "test", "params", "features"}
    /\ Needs(10) = {"bundle", "card", "columns", "test"}
    /\ \A n \in 1 .. 10 : TrainStages[n].uses = IF n = 9 THEN {"results", "ops"} ELSE {}
  BY DEF Needs, TrainStages, Inspect, PrepareSplits, ArtifactCheck, SelectFeatures,
         CompareModels, Tune, MetricsReport, CalibrateAndGate, ExportModel, AlertContract, Splits

(* The group of files a script is at.                                      *)
LEMMA Groups ==
    ASSUME ScriptType, Left
    PROVE  \/ script.n = 2 /\ script.at = 1 /\ Group = {"train"}
           \/ script.n = 2 /\ script.at = 2 /\ Group = {"val", "test"}
           \/ script.n = 2 /\ script.at = 3 /\ Group = {"columns"}
           \/ script.n = 4 /\ script.at = 1 /\ Group = {"features"}
           \/ script.n = 5 /\ script.at = 1 /\ Group = {"comparison"}
           \/ script.n = 6 /\ script.at = 1 /\ Group = {"params"}
           \/ script.n = 6 /\ script.at = 2 /\ Group = {"test_scores"}
           \/ script.n = 6 /\ script.at = 3 /\ Group = {"results"}
           \/ script.n = 8 /\ script.at = 1 /\ Group = {"val_scores"}
           \/ script.n = 8 /\ script.at = 2 /\ Group = {"ops"}
           \/ script.n = 9 /\ script.at = 1 /\ Group = {"booster"}
           \/ script.n = 9 /\ script.at = 2 /\ Group = {"bundle"}
           \/ script.n = 9 /\ script.at = 3 /\ Group = {"card"}
           \/ script.n = 10 /\ script.at = 1 /\ Group = {"alerts"}
           \/ script.n = 10 /\ script.at = 2 /\ Group = {"schema"}
<1>1. script.n \in 1 .. 10
  BY DEF ScriptType, Left
<1>2. script.at \in DOMAIN Writes(script.n) /\ Group = Writes(script.n)[script.at]
  BY DEF Left, Group
<1>3. script.n \notin {1, 3, 7}
  BY <1>2, ScriptsAre
<1>4. CASE script.n = 2
  BY <1>2, <1>4, ScriptsAre
<1>5. CASE script.n \in {4, 5}
  BY <1>2, <1>5, ScriptsAre
<1>6. CASE script.n = 6
  BY <1>2, <1>6, ScriptsAre
<1>7. CASE script.n = 8
  BY <1>2, <1>7, ScriptsAre
<1>8. CASE script.n = 9
  BY <1>2, <1>8, ScriptsAre
<1>9. CASE script.n = 10
  BY <1>2, <1>9, ScriptsAre
<1>. QED
  BY <1>1, <1>3, <1>4, <1>5, <1>6, <1>7, <1>8, <1>9

-----------------------------------------------------------------------------
(* What is written: lineages of readable files.                            *)

LEMMA LineageOf ==
    ASSUME NEW fs, \A g \in fs : Readable(g)
    PROVE  Lineage(fs) = UNION {out[g] : g \in fs}
<1>1. {g \in fs : out[g] # None} = fs
  BY DEF Readable
<1>. QED
  BY <1>1 DEF Lineage

LEMMA ReadableSets ==
    ASSUME OutType, NEW f \in SetFiles, Readable(f)
    PROVE  out[f] \in SUBSET Data
<1>1. out[f] \in (SUBSET Data) \cup {None, Torn}
  BY DEF OutType
<1>2. out[f] \notin {None, Torn}
  BY DEF Readable
<1>. QED
  BY <1>1, <1>2

LEMMA Lineages ==
    ASSUME OutType
    PROVE  /\ \A f, g \in SetFiles : Readable(f) /\ Readable(g) =>
                 Lineage({f, g}) = out[f] \cup out[g] /\ Lineage({f, g}) \in SUBSET Data
           /\ \A f, g, h \in SetFiles : Readable(f) /\ Readable(g) /\ Readable(h) =>
                 /\ Lineage({f, g, h}) = out[f] \cup out[g] \cup out[h]
                 /\ Lineage({f, g, h}) \in SUBSET Data
           /\ \A f, g, h, k \in SetFiles : Readable(f) /\ Readable(g) /\ Readable(h) /\ Readable(k) =>
                 /\ Lineage({f, g, h, k}) = out[f] \cup out[g] \cup out[h] \cup out[k]
                 /\ Lineage({f, g, h, k}) \in SUBSET Data
           /\ \A f \in SetFiles : Readable(f) =>
                 Lineage({f}) = out[f] /\ Lineage({f}) \in SUBSET Data
<1>1. \A f, g \in SetFiles : Readable(f) /\ Readable(g) =>
          Lineage({f, g}) = out[f] \cup out[g] /\ Lineage({f, g}) \in SUBSET Data
  <2> TAKE f, g \in SetFiles
  <2> HAVE Readable(f) /\ Readable(g)
  <2>1. Lineage({f, g}) = UNION {out[x] : x \in {f, g}}
    BY LineageOf
  <2>2. UNION {out[x] : x \in {f, g}} = out[f] \cup out[g]
    OBVIOUS
  <2>. QED
    BY <2>1, <2>2, ReadableSets
<1>2. \A f, g, h \in SetFiles : Readable(f) /\ Readable(g) /\ Readable(h) =>
          /\ Lineage({f, g, h}) = out[f] \cup out[g] \cup out[h]
          /\ Lineage({f, g, h}) \in SUBSET Data
  <2> TAKE f, g, h \in SetFiles
  <2> HAVE Readable(f) /\ Readable(g) /\ Readable(h)
  <2>1. Lineage({f, g, h}) = UNION {out[x] : x \in {f, g, h}}
    BY LineageOf
  <2>2. UNION {out[x] : x \in {f, g, h}} = out[f] \cup out[g] \cup out[h]
    OBVIOUS
  <2>. QED
    BY <2>1, <2>2, ReadableSets
<1>3. \A f, g, h, k \in SetFiles : Readable(f) /\ Readable(g) /\ Readable(h) /\ Readable(k) =>
          /\ Lineage({f, g, h, k}) = out[f] \cup out[g] \cup out[h] \cup out[k]
          /\ Lineage({f, g, h, k}) \in SUBSET Data
  <2> TAKE f, g, h, k \in SetFiles
  <2> HAVE Readable(f) /\ Readable(g) /\ Readable(h) /\ Readable(k)
  <2>1. Lineage({f, g, h, k}) = UNION {out[x] : x \in {f, g, h, k}}
    BY LineageOf
  <2>2. UNION {out[x] : x \in {f, g, h, k}} = out[f] \cup out[g] \cup out[h] \cup out[k]
    OBVIOUS
  <2>. QED
    BY <2>1, <2>2, ReadableSets
<1>4. \A f \in SetFiles : Readable(f) =>
          Lineage({f}) = out[f] /\ Lineage({f}) \in SUBSET Data
  <2> TAKE f \in SetFiles
  <2> HAVE Readable(f)
  <2>1. Lineage({f}) = UNION {out[x] : x \in {f}}
    BY LineageOf
  <2>. QED
    BY <2>1, ReadableSets
<1>. QED
  BY <1>1, <1>2, <1>3, <1>4

LEMMA ContentCases ==
    /\ \A f \in {"train", "val", "test", "columns"} : Content(f) = {raw}
    /\ Content("features") = SelectedOn /\ Content("comparison") = ComparedOn
    /\ Content("params") = TunedOn /\ Content("test_scores") = TestedOn
    /\ Content("results") = FittedOn /\ Content("val_scores") = FittedOn
    /\ Content("ops") = Lineage({"val_scores", "test_scores"})
    /\ Content("booster") = Weights /\ Content("bundle") = Bundle /\ Content("card") = Card
    /\ Content("alerts") = Alerts
  BY DEF Content, Splits

LEMMA LineageTypes ==
    ASSUME OutType, NEW fs, fs \subseteq SetFiles, \A f \in fs : out[f] # Torn
    PROVE  Lineage(fs) \in SUBSET Data
<1>1. \A f \in {g \in fs : out[g] # None} : out[f] \in SUBSET Data
  BY DEF OutType
<1>. QED
  BY <1>1 DEF Lineage

(* What a script writes is of its type.                                    *)
LEMMA ContentTypes ==
    ASSUME TypeOK, Left
    PROVE  /\ \A f \in Group : f \in SetFiles => Content(f) \in SUBSET Data
           /\ "bundle" \in Group => Content("bundle") \in Bundles
           /\ "card" \in Group => Content("card") \in Cards
           /\ "alerts" \in Group => Content("alerts") \in AlertRows
<1>1. /\ \A f \in Needs(script.n) : Readable(f) /\ out[f] # Torn
      /\ script.n = 9 => out["results"] # Torn /\ out["ops"] # Torn
  BY NeedsAre DEF TypeOK, ScriptType, Left, Runs, Needs, Readable
<1>2. OutType /\ ScriptType /\ raw \in Data /\ Left /\ Running
  BY DEF TypeOK, Left
<1>3. /\ "train" \in SetFiles /\ "val" \in SetFiles /\ "test" \in SetFiles
      /\ "columns" \in SetFiles /\ "features" \in SetFiles /\ "params" \in SetFiles
      /\ "test_scores" \in SetFiles /\ "results" \in SetFiles
      /\ "val_scores" \in SetFiles /\ "ops" \in SetFiles
  BY DEF SetFiles
<1>4. "bundle" \notin SetFiles /\ "card" \notin SetFiles /\ "alerts" \notin SetFiles /\ "schema" \notin SetFiles
  BY DEF SetFiles
<1>5. CASE script.n = 2
  <2>1. {raw} \in SUBSET Data
    BY <1>2
  <2>. QED
    BY <2>1, <1>2, <1>5, Groups, ContentCases
<1>6. CASE script.n \in {4, 5}
  <2>1. script.n = 4 => SelectedOn \in SUBSET Data
    BY <1>1, <1>2, <1>3, LineageTypes, NeedsAre DEF SelectedOn
  <2>2. script.n = 5 => ComparedOn \in SUBSET Data
    BY <1>1, <1>2, <1>3, LineageTypes, NeedsAre DEF ComparedOn
  <2>. QED
    BY <2>1, <2>2, <1>2, <1>6, Groups, ContentCases
<1>7. CASE script.n = 6
  <2>1. TunedOn \in SUBSET Data
    BY <1>1, <1>2, <1>3, <1>7, LineageTypes, NeedsAre DEF TunedOn
  <2>2. script.at > 1 => out["params"] # Torn
    BY <1>2, <1>7 DEF TypeOK, InHand, Readable
  <2>3. script.at > 1 => TestedOn \in SUBSET Data /\ FittedOn \in SUBSET Data
    BY <2>2, <1>1, <1>2, <1>3, <1>7, LineageTypes, NeedsAre DEF TestedOn, FittedOn
  <2>. QED
    BY <2>1, <2>3, <1>2, <1>7, Groups, ContentCases
<1>8. CASE script.n = 8
  <2>1. FittedOn \in SUBSET Data
    BY <1>1, <1>2, <1>3, <1>8, LineageTypes, NeedsAre DEF FittedOn
  <2>2. script.at > 1 => out["val_scores"] # Torn
    BY <1>2, <1>8 DEF TypeOK, InHand, Readable
  <2>3. script.at > 1 => Lineage({"val_scores", "test_scores"}) \in SUBSET Data
    BY <2>2, <1>1, <1>2, <1>3, <1>8, LineageTypes, NeedsAre
  <2>. QED
    BY <2>1, <2>3, <1>2, <1>8, Groups, ContentCases
<1>9. CASE script.n = 9
  <2>1. Weights \in SUBSET Data
    BY <1>1, <1>2, <1>3, <1>9, LineageTypes, NeedsAre DEF Weights
  <2>2. Lineage({"val"}) \in SUBSET Data
    BY <1>1, <1>2, <1>3, <1>9, LineageTypes, NeedsAre
  <2>3. Thresholds \in SUBSET Data /\ Gate \in SUBSET Data
    BY <1>1, <1>2, <1>3, <1>9, LineageTypes DEF Thresholds, Gate
  <2>4. ModelId \in ModelIds
    BY <2>1, <2>3 DEF ModelId, ModelIds
  <2>5. Bundle \in Bundles /\ Card \in Cards
    BY <2>1, <2>2, <2>3, <2>4 DEF Bundle, Card, Bundles, Cards
  <2>. QED
    BY <2>1, <2>5, <1>2, <1>4, <1>9, Groups, ContentCases
<1>10. CASE script.n = 10
  <2>1. out["bundle"] \in Bundles /\ out["card"] \in Cards
    BY <1>1, <1>2, <1>10, NeedsAre DEF OutType, Readable
  <2>2. Alerts \in AlertRows
    BY <2>1 DEF Alerts, AlertRows, Bundles, Cards
  <2>. QED
    BY <2>2, <1>2, <1>4, <1>10, Groups, ContentCases
<1>11. script.n \in {2, 4, 5, 6, 8, 9, 10}
  BY <1>2, Groups
<1>. QED
  BY <1>5, <1>6, <1>7, <1>8, <1>9, <1>10, <1>11

(* What script n of a training writes into file f when it is whole.        *)
LEMMA Contents ==
    ASSUME TrainingInv, Left, script.plan
    PROVE  /\ script.n = 2 => \A f \in {"train", "val", "test", "columns"} : Content(f) = {raw}
           /\ script.n = 4 => Content("features") = out["train"] /\ out["train"] \in SUBSET Data
           /\ script.n = 5 => Content("comparison") \in SUBSET Data
           /\ script.n = 6 /\ script.at = 1 => Content("params") \in SUBSET Data
           /\ script.n = 6 /\ script.at > 1 =>
                 Content("test_scores") = Fit /\ Content("results") = Fit /\ Fit \in SUBSET Data
           /\ script.n = 8 => Content("val_scores") \in SUBSET Data
           /\ script.n = 8 /\ script.at > 1 =>
                 /\ Content("ops") = out["val_scores"] \cup out["test_scores"]
                 /\ Content("ops") \in SUBSET Data
           /\ script.n = 9 =>
                 /\ Content("booster") = Fit /\ Fit \in SUBSET Data /\ out["ops"] \in SUBSET Data
                 /\ Content("bundle") = [id |-> FitId, calibrator |-> Fit, gate |-> out["ops"]]
                 /\ Content("card") = [id |-> FitId, gate |-> out["ops"]]
           /\ script.n = 10 =>
                 /\ Content("alerts") = [by |-> out["bundle"].id, version |-> out["card"].id]
                 /\ out["bundle"] \in Bundles /\ out["card"] \in Cards
<1>1. /\ \A f \in Needs(script.n) : Readable(f)
      /\ script.n = 9 => out["results"] # Torn /\ out["ops"] # Torn
  BY NeedsAre DEF TrainingInv, TypeOK, ScriptType, Left, Runs, Needs
<1>2. script.state = "running" /\ OutType /\ script.n \in 0 .. 10 /\ script.at \in Nat \ {0} /\ raw \in Data
  BY DEF Left, Running, TrainingInv, TypeOK, ScriptType
<1>3. Chain
  BY DEF TrainingInv
<1>4. /\ script.n > 2 => /\ out["val"] = out["train"] /\ out["test"] = out["train"]
                         /\ out["columns"] = out["train"]
      /\ script.n > 4 => out["features"] = out["train"]
      /\ script.n > 6 \/ (script.n = 6 /\ script.at > 1) => Readable("params")
      /\ script.n > 6 => out["test_scores"] = Fit /\ out["results"] = Fit
      /\ script.n = 8 /\ script.at > 1 => Readable("val_scores")
      /\ script.n > 8 => out["ops"] = out["val_scores"] \cup out["test_scores"] /\ Readable("val_scores")
  BY <1>2, <1>3 DEF Chain, Past
<1>5. CASE script.n = 2
  BY <1>5, ContentCases
<1>names. /\ "train" \in SetFiles /\ "val" \in SetFiles /\ "test" \in SetFiles
          /\ "columns" \in SetFiles /\ "features" \in SetFiles /\ "params" \in SetFiles
          /\ "test_scores" \in SetFiles /\ "results" \in SetFiles
          /\ "val_scores" \in SetFiles /\ "ops" \in SetFiles
  BY DEF SetFiles
<1>type. OutType
  BY <1>2
<1>6. CASE script.n = 4
  <2>1. Readable("train") /\ Readable("val") /\ Readable("columns")
    BY <1>1, <1>6, NeedsAre
  <2>. QED
    <3>1. SelectedOn = out["train"] \cup out["val"] \cup out["columns"]
      BY <2>1, <1>names, <1>type, Lineages DEF SelectedOn
    <3>2. out["train"] \in SUBSET Data
      BY <2>1, <1>names, <1>type, ReadableSets
    <3>. QED
      BY <3>1, <3>2, <1>4, <1>6, ContentCases
<1>7. CASE script.n = 5
  <2>1. Readable("train") /\ Readable("test") /\ Readable("features")
    BY <1>1, <1>7, NeedsAre
  <2>. QED
    <3>1. ComparedOn \in SUBSET Data
      BY <2>1, <1>names, <1>type, Lineages DEF ComparedOn
    <3>. QED
      BY <3>1, <1>7, ContentCases
<1>8. CASE script.n = 6
  <2>1. /\ Readable("train") /\ Readable("val") /\ Readable("test") /\ Readable("features")
        /\ script.at > 1 => Readable("params")
    BY <1>1, <1>4, <1>8, NeedsAre
  <2>2. Content("params") \in SUBSET Data
    <3>1. TunedOn \in SUBSET Data
      BY <2>1, <1>names, <1>type, Lineages DEF TunedOn
    <3>. QED
      BY <3>1, ContentCases
  <2>3. ASSUME script.at > 1
        PROVE  /\ Content("test_scores") = Fit /\ Content("results") = Fit /\ Fit \in SUBSET Data
    <3>1. out["train"] \in SUBSET Data /\ out["params"] \in SUBSET Data
      BY <2>1, <2>3, <1>names, <1>type, ReadableSets
    <3>2. TestedOn = out["train"] \cup out["test"] \cup out["features"] \cup out["params"]
      BY <2>1, <2>3, <1>names, <1>type, Lineages, SMTT(30) DEF TestedOn
    <3>3. FittedOn = out["train"] \cup out["val"] \cup out["features"] \cup out["params"]
      BY <2>1, <2>3, <1>names, <1>type, Lineages, SMTT(30) DEF FittedOn
    <3>. QED
      BY <3>1, <3>2, <3>3, <1>4, <1>8, ContentCases DEF Fit
  <2>. QED
    BY <2>2, <2>3, <1>8
<1>9. CASE script.n = 8
  <2>1. /\ Readable("train") /\ Readable("val") /\ Readable("features") /\ Readable("params")
        /\ Readable("test_scores")
        /\ script.at > 1 => Readable("val_scores")
    BY <1>1, <1>4, <1>9, NeedsAre
  <2>2. Content("val_scores") \in SUBSET Data
    <3>1. FittedOn \in SUBSET Data
      BY <2>1, <1>names, <1>type, Lineages DEF FittedOn
    <3>. QED
      BY <3>1, ContentCases
  <2>3. script.at > 1 =>
            /\ Content("ops") = out["val_scores"] \cup out["test_scores"]
            /\ Content("ops") \in SUBSET Data
    BY <2>1, <1>names, <1>type, Lineages, ContentCases, SMTT(30)
  <2>. QED
    BY <2>2, <2>3, <1>9
<1>10. CASE script.n = 9
  <2>1. Readable("train") /\ Readable("val") /\ Readable("features") /\ Readable("params")
    BY <1>1, <1>10, NeedsAre
  <2>2. /\ out["train"] \in SUBSET Data /\ out["params"] \in SUBSET Data
        /\ out["val_scores"] \in SUBSET Data
    BY <2>1, <1>4, <1>10, <1>names, <1>type, ReadableSets
  <2>3. Fit \in SUBSET Data /\ out["results"] = Fit /\ out["ops"] = out["val_scores"] \cup Fit
    BY <2>2, <1>2, <1>4, <1>10 DEF Fit
  <2>4. out["ops"] \in SUBSET Data /\ out["results"] \in SUBSET Data
    BY <2>2, <2>3
  <2>5. Readable("results") /\ Readable("ops")
    BY <2>4, ContentAssumption DEF Readable
  <2>6. Weights = Fit /\ Thresholds = Fit /\ Gate = out["ops"] /\ Lineage({"val"}) = out["train"]
    <3>1. Weights = out["train"] \cup out["features"] \cup out["params"]
      BY <2>1, <1>names, <1>type, Lineages DEF Weights
    <3>2. Thresholds = out["results"] /\ Gate = out["ops"] /\ Lineage({"val"}) = out["val"]
      BY <2>1, <2>5, <1>names, <1>type, Lineages DEF Thresholds, Gate
    <3>. QED
      BY <3>1, <3>2, <2>3, <1>2, <1>4, <1>10 DEF Fit
  <2>7. Weights \cup Lineage({"val"}) = Fit
    BY <2>6 DEF Fit
  <2>8. /\ Content("booster") = Weights /\ Content("bundle") = Bundle /\ Content("card") = Card
    BY ContentCases
  <2>9. ModelId = FitId
    BY <2>6 DEF ModelId, FitId
  <2>10. Bundle = [id |-> FitId, calibrator |-> Fit, gate |-> out["ops"]]
    BY <2>6, <2>7, <2>9 DEF Bundle
  <2>11. Card = [id |-> FitId, gate |-> out["ops"]]
    BY <2>6, <2>9 DEF Card
  <2>. QED
    BY <2>3, <2>4, <2>6, <2>8, <2>10, <2>11, <1>10
<1>11. CASE script.n = 10
  <2>1. Readable("bundle") /\ Readable("card")
    BY <1>1, <1>11, NeedsAre
  <2>. QED
    BY <2>1, <1>2, <1>11, ContentCases DEF OutType, Readable, Alerts
<1>12. script.n \in {2, 4, 5, 6, 8, 9, 10}
  BY Groups DEF TrainingInv, TypeOK
<1>. QED
  BY <1>5, <1>6, <1>7, <1>8, <1>9, <1>10, <1>11, <1>12

-----------------------------------------------------------------------------
(* A script opens or writes a group of files.                              *)

(* The files of the group are torn, or whole with the script one further.  *)
LEMMA FileStep ==
    ASSUME TrainingInv, Open \/ LinesWritten \/ Write
    PROVE  /\ Left /\ raw' = raw /\ script'.n = script.n /\ script'.state = "running"
           /\ script' = [n |-> script'.n, at |-> script'.at, open |-> script'.open, state |-> script'.state,
                         plan |-> script'.plan]
           /\ script'.open \in BOOLEAN /\ script'.plan = script.plan
           /\ out' = [f \in Files |-> out'[f]]
           /\ \A f \in Files \ Group : out'[f] = out[f]
           /\ \/ /\ script'.at = script.at
                 /\ \/ \A f \in Group : out'[f] = Torn
                    \/ "alerts" \in Group /\ \A f \in Group : out'[f] = Content(f)
              \/ script'.at = script.at + 1 /\ \A f \in Group : out'[f] = Content(f)
           /\ script.at \in 1 .. Len(Writes(script.n)) /\ script'.at \in Nat \ {0}
           /\ Len(Writes(script.n)) \in Nat
<1>1. /\ script = [n |-> script.n, at |-> script.at, open |-> script.open, state |-> script.state,
                   plan |-> script.plan]
      /\ script.state = "running" /\ script.at \in Nat \ {0} /\ script.n \in 1 .. 10 /\ Left
  BY DEF TrainingInv, TypeOK, ScriptType, Open, LinesWritten, Write, Left, Running
<1>2. Len(Writes(script.n)) \in Nat /\ DOMAIN Writes(script.n) = 1 .. Len(Writes(script.n))
  BY <1>1, ScriptsAre
<1>3. script.at \in 1 .. Len(Writes(script.n))
  BY <1>1, <1>2 DEF Left
<1>4. Group \subseteq Files
  <2>1. script.n \in Scripts
    BY <1>1, ScriptsAre
  <2>. QED
    BY <2>1, <1>1 DEF Files, Group, Left
<1>5. CASE Open
  <2>1. script' = [script EXCEPT !.open = TRUE]
    BY <1>5 DEF Open
  <2>2. out' = [f \in Files |-> IF f \in Group THEN Torn ELSE out[f]] /\ raw' = raw
    BY <1>5 DEF Open
  <2>3. /\ script'.n = script.n /\ script'.state = "running" /\ script'.at = script.at /\ script'.open = TRUE
        /\ script'.plan = script.plan
        /\ script' = [n |-> script'.n, at |-> script'.at, open |-> script'.open, state |-> script'.state,
                      plan |-> script'.plan]
    BY <2>1, <1>1
  <2>4. /\ out' = [f \in Files |-> out'[f]]
        /\ \A f \in Files \ Group : out'[f] = out[f]
        /\ \A f \in Group : out'[f] = Torn
    BY <2>2, <1>4
  <2>. QED
    BY <2>2, <2>3, <2>4, <1>1, <1>2, <1>3
<1>6. CASE Write
  <2>1. script' = [script EXCEPT !.at = @ + 1, !.open = FALSE]
    BY <1>6 DEF Write, Advance
  <2>2. out' = [f \in Files |-> IF f \in Group THEN Content(f) ELSE out[f]] /\ raw' = raw
    BY <1>6 DEF Write
  <2>3. /\ script'.n = script.n /\ script'.state = "running" /\ script'.at = script.at + 1
        /\ script'.open = FALSE /\ script'.plan = script.plan
        /\ script' = [n |-> script'.n, at |-> script'.at, open |-> script'.open, state |-> script'.state,
                      plan |-> script'.plan]
    BY <2>1, <1>1
  <2>4. /\ out' = [f \in Files |-> out'[f]]
        /\ \A f \in Files \ Group : out'[f] = out[f]
        /\ \A f \in Group : out'[f] = Content(f)
    BY <2>2, <1>4
  <2>5. script'.at \in Nat \ {0} /\ script'.open \in BOOLEAN
    <3>1. script'.at = script.at + 1 /\ script'.open = FALSE
      BY <2>3, Zenon
    <3>2. script.at \in Nat \ {0}
      BY <1>1, Zenon
    <3>3. \A k \in Nat \ {0} : k + 1 \in Nat \ {0}
      OBVIOUS
    <3>. QED
      BY <3>1, <3>2, <3>3, Zenon
  <2>. QED
    BY <2>2, <2>3, <2>4, <2>5, <1>1, <1>2, <1>3, Zenon
<1>7. CASE LinesWritten
  <2>1. script' = script /\ raw' = raw /\ "alerts" \in Group
    BY <1>7 DEF LinesWritten
  <2>2. out' = [f \in Files |-> IF f \in Group THEN Content(f) ELSE out[f]]
    BY <1>7 DEF LinesWritten
  <2>3. /\ out' = [f \in Files |-> out'[f]]
        /\ \A f \in Files \ Group : out'[f] = out[f]
        /\ \A f \in Group : out'[f] = Content(f)
    BY <2>2, <1>4
  <2>4. script.open \in BOOLEAN
    BY DEF TrainingInv, TypeOK, ScriptType
  <2>. QED
    BY <2>1, <2>3, <2>4, <1>1, <1>2, <1>3, Zenon
<1>. QED
  BY <1>5, <1>6, <1>7

LEMMA FileStepTypes ==
    ASSUME TrainingInv, Open \/ LinesWritten \/ Write
    PROVE  TypeOK'
<1>1. OutType /\ ScriptType /\ InHand /\ raw \in Data
  BY DEF TrainingInv, TypeOK
<1>2. OutType'
  <2>0. TypeOK /\ Left /\ \A f \in Group : out'[f] = Torn \/ out'[f] = Content(f)
    BY FileStep DEF TrainingInv
  <2>1. \A f \in Group : f \in SetFiles => out'[f] \in (SUBSET Data) \cup {None, Torn}
    BY <2>0, ContentTypes
  <2>2. "bundle" \in Group => out'["bundle"] \in Bundles \cup {None, Torn}
    BY <2>0, ContentTypes
  <2>3. "card" \in Group => out'["card"] \in Cards \cup {None, Torn}
    BY <2>0, ContentTypes
  <2>4. "alerts" \in Group => out'["alerts"] \in AlertRows \cup {None, Torn}
    BY <2>0, ContentTypes
  <2>5. \A f \in Files : f \notin Group => out'[f] = out[f]
    BY FileStep
  <2>. QED
    BY <1>1, <2>1, <2>2, <2>3, <2>4, <2>5, FileStep, FilesAre DEF OutType
<1>3. Runs(script.n)'
  <2>1. Runs(script.n) /\ script'.n = script.n /\ Left /\ script.n \in 1 .. 10
    BY <1>1, FileStep DEF ScriptType, Left
  <2>2. /\ \A f \in Needs(script.n) : f \in Files \ Group
        /\ \A f \in TrainStages[script.n].uses : f \in Files \ Group
    <3>1. CASE script.n \in {2, 4, 5}
      BY <3>1, <2>1, <1>1, Groups, NeedsAre, FilesAre DEF SetFiles
    <3>2. CASE script.n \in {6, 8}
      BY <3>2, <2>1, <1>1, Groups, NeedsAre, FilesAre DEF SetFiles
    <3>3. CASE script.n \in {9, 10}
      BY <3>3, <2>1, <1>1, Groups, NeedsAre, FilesAre DEF SetFiles
    <3>. QED
      BY <3>1, <3>2, <3>3, <2>1, <1>1, Groups
  <2>. QED
    BY <2>1, <2>2, FileStep DEF Runs, Readable, Needs
<1>4. ScriptType'
  <2>1. /\ script'.n = script.n /\ script'.state = "running" /\ script'.at \in Nat \ {0}
        /\ script'.open \in BOOLEAN
        /\ script' = [n |-> script'.n, at |-> script'.at, open |-> script'.open, state |-> script'.state,
                      plan |-> script'.plan]
    BY FileStep, Zenon
  <2>2. script'.at <= Len(Writes(script.n)) + 1
    <3>1. script.at \in 1 .. Len(Writes(script.n)) /\ Len(Writes(script.n)) \in Nat
      BY FileStep, Zenon
    <3>2. script'.at = script.at \/ script'.at = script.at + 1
      BY FileStep, Zenon
    <3>. QED
      BY <3>1, <3>2
  <2>3. script.n \in 1 .. 10
    BY <1>1, FileStep DEF ScriptType, Left
  <2>4. script'.plan \in BOOLEAN
    BY <1>1, FileStep DEF ScriptType
  <2>. QED
    BY <2>1, <2>2, <2>3, <2>4, <1>3 DEF ScriptType, Running, Writes
<1>5. InHand'
  <2>1. /\ Left /\ Running /\ script'.n = script.n /\ script.at \in Nat \ {0}
        /\ script.n = 6 => script.at \in {1, 2, 3}
        /\ script.n = 8 => script.at \in {1, 2}
        /\ \/ script'.at = script.at
           \/ script'.at = script.at + 1 /\ \A f \in Group : out'[f] = Content(f)
        /\ \A f \in Files \ Group : out'[f] = out[f]
    BY <1>1, FileStep, Groups DEF Left, ScriptType
  <2>2. "params" \in Files /\ "val_scores" \in Files /\ "params" \in SetFiles /\ "val_scores" \in SetFiles
    BY FilesAre DEF SetFiles
  <2>3. \A f \in Group : f \in SetFiles => Content(f) \notin {None, Torn}
    BY <2>1, ContentTypes, ContentAssumption DEF TrainingInv
  <2>4. CASE script.n = 6
    <3>1. Group = IF script.at = 1 THEN {"params"} ELSE IF script.at = 2 THEN {"test_scores"} ELSE {"results"}
      BY <1>1, <2>1, <2>4, Groups
    <3>. QED
      BY <3>1, <1>1, <2>1, <2>2, <2>3, <2>4 DEF InHand, Readable, Running
  <2>5. CASE script.n = 8
    <3>1. Group = IF script.at = 1 THEN {"val_scores"} ELSE {"ops"}
      BY <1>1, <2>1, <2>5, Groups
    <3>. QED
      BY <3>1, <1>1, <2>1, <2>2, <2>3, <2>5 DEF InHand, Readable, Running
  <2>. QED
    BY <2>1, <2>4, <2>5 DEF InHand
<1>. QED
  BY <1>1, <1>2, <1>4, <1>5, FileStep DEF TypeOK

LEMMA FileStepChain ==
    ASSUME TrainingInv, Open \/ LinesWritten \/ Write, script.plan
    PROVE  Chain'
<1> DEFINE Same(f) == out'[f] = out[f]
<1>1. Left /\ Chain /\ OutType /\ ScriptType /\ TypeOK'
  BY FileStep, FileStepTypes DEF TrainingInv, TypeOK
<1>2. /\ script.state = "running" /\ script'.state = "running" /\ script'.n = script.n /\ raw' = raw
      /\ script.n \in 1 .. 10 /\ script.at \in Nat \ {0}
      /\ script'.at = script.at \/ script'.at = script.at + 1
  <2>1. script'.at = script.at \/ script'.at = script.at + 1
    BY FileStep, Zenon
  <2>2. script'.state = "running" /\ script'.n = script.n /\ raw' = raw
    BY FileStep, Zenon
  <2>. QED
    BY <1>1, <2>1, <2>2 DEF Left, Running, ScriptType
<1>3. /\ "train" \in Files /\ "val" \in Files /\ "test" \in Files /\ "columns" \in Files
      /\ "features" \in Files /\ "params" \in Files /\ "test_scores" \in Files
      /\ "results" \in Files /\ "val_scores" \in Files /\ "ops" \in Files
      /\ "bundle" \in Files /\ "card" \in Files /\ "alerts" \in Files
  BY FilesAre DEF SetFiles
<1>4. \A f \in Files : f \notin Group => Same(f)
  BY FileStep
<1>5. \A f \in Group :
          \/ script'.at = script.at
          \/ script'.at = script.at + 1 /\ out'[f] = Content(f)
  BY FileStep, Zenon
<1>6. CASE script.n = 2
  <2>p. /\ (Past(2, 2)' <=> script'.at > 2) /\ (Past(2, 2) <=> script.at > 2)
        /\ (Past(2, 3)' <=> script'.at > 3) /\ (Past(2, 3) <=> script.at > 3)
        /\ ~Past(4, 1)'
        /\ ~Past(6, 1)'
        /\ ~Past(6, 2)'
        /\ ~Past(6, 3)'
        /\ ~Past(8, 1)'
        /\ ~Past(8, 2)'
        /\ ~Past(9, 2)'
        /\ ~Past(9, 3)'
        /\ ~Past(10, 1)'
    BY <1>2, <1>6 DEF Past
  <2>2. CASE script.at = 1
    <3>1. Group = {"train"}
      BY <1>1, <1>6, <2>2, Groups
    <3>2. script'.at = 2 => out'["train"] = {raw}
      BY <3>1, <1>1, <1>2, <1>5, <1>6, <2>2, Contents
    <3>. QED
      BY <3>2, <2>p, <1>2, <2>2 DEF Chain
  <2>3. CASE script.at = 2
    <3>1. Group = {"val", "test"}
      BY <1>1, <1>6, <2>3, Groups
    <3>2. Same("train") /\ out["train"] = {raw}
      BY <3>1, <1>1, <1>2, <1>3, <1>4, <1>6, <2>3 DEF Chain, Running
    <3>3. script'.at = 3 => out'["val"] = {raw} /\ out'["test"] = {raw}
      BY <3>1, <1>1, <1>2, <1>5, <1>6, <2>3, Contents
    <3>. QED
      BY <3>2, <3>3, <2>p, <1>2, <2>3 DEF Chain
  <2>4. CASE script.at = 3
    <3>1. Group = {"columns"}
      BY <1>1, <1>6, <2>4, Groups
    <3>2. Same("train") /\ Same("val") /\ Same("test") /\ out["train"] = {raw}
      BY <3>1, <1>1, <1>2, <1>3, <1>4, <1>6, <2>4 DEF Chain, Running
    <3>3. script'.at = 4 => out'["columns"] = {raw}
      BY <3>1, <1>1, <1>2, <1>5, <1>6, <2>4, Contents
    <3>4. out["val"] = out["train"] /\ out["test"] = out["train"]
      BY <2>p, <2>4, <1>1 DEF Chain
    <3>. QED
      BY <3>2, <3>3, <3>4, <2>p, <1>2, <2>4 DEF Chain
  <2>. QED
    BY <2>2, <2>3, <2>4, <1>1, <1>6, Groups
<1>7. CASE script.n \in {4, 5}
  <2>1. /\ script.at = 1 /\ Group = IF script.n = 4 THEN {"features"} ELSE {"comparison"}
    BY <1>1, <1>7, Groups
  <2>2. Same("train") /\ Same("val") /\ Same("test") /\ Same("columns") /\ Same("alerts")
    BY <2>1, <1>3, <1>4
  <2>3. script.n = 5 => Same("features")
    BY <2>1, <1>3, <1>4
  <2>4. script.n = 4 /\ script'.at = 2 => out'["features"] = out["train"]
    BY <2>1, <1>1, <1>2, <1>5, Contents
  <2>5. Chain'
    BY <2>1, <2>2, <2>3, <2>4, <1>1, <1>2, <1>7 DEF Chain, Past, Running
  <2>. QED
    BY <2>5
<1>8. CASE script.n = 6
  <2>1. /\ Same("train") /\ Same("val") /\ Same("test") /\ Same("columns") /\ Same("features")
        /\ Same("alerts")
    BY <1>1, <1>3, <1>4, <1>8, Groups
  <2>p. /\ Past(2, 2)' /\ Past(2, 2)
        /\ Past(2, 3)' /\ Past(2, 3)
        /\ Past(4, 1)' /\ Past(4, 1)
        /\ (Past(6, 1)' <=> script'.at > 1) /\ (Past(6, 1) <=> script.at > 1)
        /\ (Past(6, 2)' <=> script'.at > 2) /\ (Past(6, 2) <=> script.at > 2)
        /\ (Past(6, 3)' <=> script'.at > 3) /\ (Past(6, 3) <=> script.at > 3)
        /\ ~Past(8, 1)'
        /\ ~Past(8, 2)'
        /\ ~Past(9, 2)'
        /\ ~Past(9, 3)'
        /\ ~Past(10, 1)'
    BY <1>2, <1>8 DEF Past
  <2>6. /\ out'["val"] = out'["train"] /\ out'["test"] = out'["train"]
        /\ out'["columns"] = out'["train"] /\ out'["features"] = out'["train"]
    BY <2>1, <2>p, <1>1 DEF Chain
  <2>2. CASE script.at = 1
    <3>1. Group = {"params"}
      BY <1>1, <1>8, <2>2, Groups
    <3>2. script'.at = 2 => out'["params"] \in SUBSET Data
      BY <3>1, <1>1, <1>2, <1>5, <1>8, <2>2, Contents
    <3>3. script'.at = 2 => Readable("params")'
      BY <3>2, ContentAssumption DEF Readable
    <3>. QED
      BY <3>3, <2>p, <2>6, <1>2, <1>8, <2>2 DEF Chain
  <2>3. CASE script.at = 2
    <3>1. Group = {"test_scores"}
      BY <1>1, <1>8, <2>3, Groups
    <3>2. Same("params") /\ Readable("params")
      BY <3>1, <1>1, <1>2, <1>3, <1>4, <1>8, <2>3 DEF Chain, Past
    <3>3. script'.at = 3 => out'["test_scores"] = Fit
      BY <3>1, <1>1, <1>2, <1>5, <1>8, <2>3, Contents
    <3>. QED
      <4>1. Fit' = Fit /\ Readable("params")'
        BY <3>2, <2>1 DEF Fit, Readable
      <4>. QED
        BY <4>1, <3>3, <2>p, <2>6, <1>2, <1>8, <2>3 DEF Chain
  <2>4. CASE script.at = 3
    <3>1. Group = {"results"}
      BY <1>1, <1>8, <2>4, Groups
    <3>2. /\ Same("params") /\ Readable("params")
          /\ Same("test_scores") /\ out["test_scores"] = Fit
      BY <3>1, <1>1, <1>2, <1>3, <1>4, <1>8, <2>4 DEF Chain, Past
    <3>3. script'.at = 4 => out'["results"] = Fit
      BY <3>1, <1>1, <1>2, <1>5, <1>8, <2>4, Contents
    <3>. QED
      <4>1. Fit' = Fit /\ Readable("params")'
        BY <3>2, <2>1 DEF Fit, Readable
      <4>. QED
        BY <4>1, <3>2, <3>3, <2>p, <2>6, <1>2, <1>8, <2>4 DEF Chain
  <2>. QED
    BY <2>2, <2>3, <2>4, <1>1, <1>8, Groups
<1>9. CASE script.n = 8
  <2>1. /\ Same("train") /\ Same("val") /\ Same("test") /\ Same("columns") /\ Same("features")
        /\ Same("params") /\ Same("test_scores") /\ Same("results") /\ Same("alerts")
    BY <1>1, <1>3, <1>4, <1>9, Groups
  <2>p. /\ Past(2, 2)' /\ Past(2, 2)
        /\ Past(2, 3)' /\ Past(2, 3)
        /\ Past(4, 1)' /\ Past(4, 1)
        /\ Past(6, 1)' /\ Past(6, 1)
        /\ Past(6, 2)' /\ Past(6, 2)
        /\ Past(6, 3)' /\ Past(6, 3)
        /\ (Past(8, 1)' <=> script'.at > 1) /\ (Past(8, 1) <=> script.at > 1)
        /\ (Past(8, 2)' <=> script'.at > 2) /\ (Past(8, 2) <=> script.at > 2)
        /\ ~Past(9, 2)'
        /\ ~Past(9, 3)'
        /\ ~Past(10, 1)'
    BY <1>2, <1>9 DEF Past
  <2>6. /\ out'["val"] = out'["train"] /\ out'["test"] = out'["train"]
        /\ out'["columns"] = out'["train"] /\ out'["features"] = out'["train"]
        /\ Readable("params")' /\ out'["test_scores"] = Fit' /\ out'["results"] = Fit'
    BY <2>1, <2>p, <1>1 DEF Chain, Fit, Readable
  <2>2. CASE script.at = 1
    <3>1. Group = {"val_scores"}
      BY <1>1, <1>9, <2>2, Groups
    <3>2. script'.at = 2 => out'["val_scores"] \in SUBSET Data
      BY <3>1, <1>1, <1>2, <1>5, <1>9, <2>2, Contents
    <3>3. script'.at = 2 => Readable("val_scores")'
      BY <3>2, ContentAssumption DEF Readable
    <3>. QED
      BY <3>3, <2>p, <2>6, <1>2, <1>9, <2>2 DEF Chain
  <2>3. CASE script.at = 2
    <3>1. Group = {"ops"}
      BY <1>1, <1>9, <2>3, Groups
    <3>2. Same("val_scores") /\ Readable("val_scores")
      BY <3>1, <1>1, <1>2, <1>3, <1>4, <1>9, <2>3 DEF Chain, Past
    <3>3. script'.at = 3 => out'["ops"] = out["val_scores"] \cup out["test_scores"]
      BY <3>1, <1>1, <1>2, <1>5, <1>9, <2>3, Contents
    <3>. QED
      <4>1. /\ Readable("val_scores")'
            /\ script'.at = 3 => out'["ops"] = out'["val_scores"] \cup out'["test_scores"]
        BY <3>2, <3>3, <2>1 DEF Readable
      <4>. QED
        BY <4>1, <2>p, <2>6, <1>2, <1>9, <2>3 DEF Chain
  <2>. QED
    BY <2>2, <2>3, <1>1, <1>9, Groups
<1>10. CASE script.n \in {9, 10}
  <2>1. /\ Same("train") /\ Same("val") /\ Same("test") /\ Same("columns") /\ Same("features")
        /\ Same("params") /\ Same("test_scores") /\ Same("results") /\ Same("val_scores") /\ Same("ops")
    BY <1>1, <1>3, <1>4, <1>10, Groups
  <2>2. /\ Past(2, 2)' = Past(2, 2) /\ Past(2, 3)' = Past(2, 3) /\ Past(4, 1)' = Past(4, 1)
        /\ Past(6, 1)' = Past(6, 1) /\ Past(6, 2)' = Past(6, 2) /\ Past(6, 3)' = Past(6, 3)
        /\ Past(8, 1)' = Past(8, 1) /\ Past(8, 2)' = Past(8, 2) /\ Fit' = Fit /\ FitId' = FitId
        /\ ~(script'.n = 2) /\ ~(script.n = 2)
    BY <2>1, <1>2, <1>10 DEF Past, Fit, FitId
  <2>3. CASE script.n = 9
    <3>2. script'.at > 2 => out'["bundle"] = [id |-> FitId, calibrator |-> Fit, gate |-> out["ops"]]
      <4>1. CASE script.at = 2
        BY <4>1, <1>1, <1>2, <1>5, <2>3, Groups, Contents
      <4>2. CASE script.at > 2
        BY <4>2, <1>1, <1>2, <1>3, <1>4, <2>3, Groups DEF Chain, Past
      <4>. QED
        BY <4>1, <4>2, <1>2
    <3>3. script'.at > 3 => out'["card"] = [id |-> FitId, gate |-> out["ops"]]
      <4>1. script.at \in 1 .. 3
        BY <1>1, <2>3, Groups
      <4>. QED
        BY <4>1, <1>1, <1>2, <1>5, <2>3, Groups, Contents
    <3>4. script'.at > 3 => out'["card"] = [id |-> out'["bundle"].id, gate |-> out'["bundle"].gate]
      BY <3>2, <3>3, <1>2
    <3>. QED
      BY <3>2, <3>4, <2>1, <2>2, <1>1, <1>2, <2>3 DEF Chain, Past, Readable
  <2>4. CASE script.n = 10
    <3>1. Same("bundle") /\ Same("card")
      BY <1>1, <1>3, <1>4, <2>4, Groups
    <3>2. CASE script.at = 1
      <4>1. Group = {"alerts"}
        BY <1>1, <2>4, <3>2, Groups
      <4>2. script'.at = 2 => out'["alerts"] = [by |-> out["bundle"].id, version |-> out["card"].id]
        BY <4>1, <1>1, <1>2, <1>5, <2>4, <3>2, Contents
      <4>5. Past(9, 2) /\ Past(9, 3) /\ (Past(10, 1)' => script'.at = 2)
        BY <1>2, <2>4, <3>2 DEF Past
      <4>6. /\ out'["bundle"] = [id |-> FitId, calibrator |-> Fit, gate |-> out["ops"]]
            /\ out'["card"] = [id |-> out'["bundle"].id, gate |-> out'["bundle"].gate]
        BY <4>5, <3>1, <1>1 DEF Chain
      <4>. QED
        BY <4>2, <4>5, <4>6, <3>1, <2>1, <2>2, <1>1, <1>2, <2>4 DEF Chain, Readable
    <3>3. CASE script.at = 2
      <4>1. Same("alerts")
        BY <1>1, <1>3, <1>4, <2>4, <3>3, Groups
      <4>2. Past(9, 2) /\ Past(9, 3) /\ Past(10, 1)
        BY <1>2, <2>4, <3>3 DEF Past
      <4>. QED
        BY <4>1, <4>2, <3>1, <2>1, <2>2, <1>1, <1>2, <2>4 DEF Chain, Readable
    <3>. QED
      BY <3>2, <3>3, <1>1, <2>4, Groups
  <2>. QED
    BY <2>3, <2>4, <1>10
<1>. QED
  BY <1>1, <1>6, <1>7, <1>8, <1>9, <1>10, Groups

-----------------------------------------------------------------------------
(* The other steps of a script.                                            *)

(* A cached file is passed over, or a model whose training raised.         *)
LEMMA SkipStep ==
    ASSUME TrainingInv, Reuse \/ ModelFails
    PROVE  TrainingInv'
<1>1. /\ OutType /\ ScriptType /\ InHand /\ (script.plan => Chain) /\ raw \in Data /\ Left
      /\ script.state = "running" /\ script.n \in 1 .. 10 /\ script.at \in Nat \ {0}
      /\ script = [n |-> script.n, at |-> script.at, open |-> script.open, state |-> script.state,
                   plan |-> script.plan]
      /\ Runs(script.n)
  BY DEF TrainingInv, TypeOK, ScriptType, Reuse, ModelFails, Left, Running
<1>2. /\ out' = out /\ raw' = raw
      /\ script' = [script EXCEPT !.at = @ + 1, !.open = FALSE]
  BY DEF Reuse, ModelFails, Advance
<1>3. /\ script' = [n |-> script'.n, at |-> script'.at, open |-> script'.open, state |-> script'.state,
                    plan |-> script'.plan]
      /\ script'.n = script.n /\ script'.state = "running" /\ script'.at = script.at + 1
      /\ script'.open = FALSE /\ script'.plan = script.plan
  BY <1>1, <1>2
<1>4. script.at <= Len(Writes(script.n)) /\ Len(Writes(script.n)) \in Nat
  BY <1>1, ScriptsAre DEF Left
<1>5. /\ script.at = 1
      /\ \/ script.n = 5
         \/ script.n = 6 /\ Readable("params")
         \/ script.n = 8 /\ Readable("val_scores")
  <2>1. CASE ModelFails
    BY <2>1, <1>1, Groups DEF ModelFails
  <2>2. CASE Reuse
    <3>1. PICK f \in Group : f \in {"comparison", "params", "val_scores"} /\ Readable(f)
      BY <2>2 DEF Reuse, Reused, Cached
    <3>. QED
      BY <3>1, <1>1, Groups
  <2>. QED
    BY <2>1, <2>2
<1>6. TypeOK'
  <2>1. ScriptType'
    BY <1>1, <1>2, <1>3, <1>4, <1>5 DEF ScriptType, Running, Runs, Readable, Writes
  <2>2. OutType'
    BY <1>1, <1>2 DEF OutType
  <2>3. InHand'
    BY <1>2, <1>3, <1>5 DEF InHand, Readable
  <2>. QED
    BY <2>1, <2>2, <2>3, <1>1, <1>2 DEF TypeOK
<1>7. ASSUME script.plan
      PROVE  Chain'
  <2>0. Chain
    BY <1>1, <1>7
  <2>1. /\ \/ Past(2, 2) /\ Past(2, 3) /\ Past(4, 1) /\ ~Past(6, 2)' /\ ~Past(6, 3)' /\ ~Past(8, 2)'
           \/ script.n = 8
        /\ script.n = 8 => Past(2, 2) /\ Past(2, 3) /\ Past(4, 1) /\ Past(6, 1) /\ Past(6, 2) /\ Past(6, 3)
        /\ script.n < 8 => ~Past(8, 1)'
        /\ script.n < 6 => ~Past(6, 1)'
        /\ ~Past(8, 2)' /\ ~Past(9, 2)' /\ ~Past(9, 3)' /\ ~Past(10, 1)'
    BY <1>1, <1>3, <1>5 DEF Past
  <2>2. Fit' = Fit /\ Readable("params")' = Readable("params") /\ Readable("val_scores")' = Readable("val_scores")
    BY <1>2 DEF Fit, Readable
  <2>3. script'.n # 2
    BY <1>3, <1>5
  <2>. QED
    BY <2>0, <2>1, <2>2, <2>3, <1>1, <1>2, <1>5 DEF Chain, Readable, Fit
<1>. QED
  BY <1>3, <1>6, <1>7 DEF TrainingInv

LEMMA EndStep ==
    ASSUME TrainingInv, ScriptEnds \/ ScriptFails
    PROVE  TrainingInv'
<1>1. /\ OutType /\ ScriptType /\ InHand /\ (script.plan => Chain) /\ raw \in Data /\ Running
      /\ script.n \in 1 .. 10 /\ script.at \in Nat \ {0} /\ script.open \in BOOLEAN
      /\ script = [n |-> script.n, at |-> script.at, open |-> script.open, state |-> script.state,
                   plan |-> script.plan]
      /\ script.at <= Len(Writes(script.n)) + 1
  BY DEF TrainingInv, TypeOK, ScriptType, ScriptEnds, ScriptFails, Running
<1>2. /\ out' = out /\ raw' = raw
      /\ \/ script' = [script EXCEPT !.state = "ok"] /\ ~Left
         \/ script' = [script EXCEPT !.state = "failed"]
  BY DEF ScriptEnds, ScriptFails
<1>3. /\ script' = [n |-> script'.n, at |-> script'.at, open |-> script'.open, state |-> script'.state,
                    plan |-> script'.plan]
      /\ script'.n = script.n /\ script'.at = script.at /\ script'.open = script.open
      /\ script'.plan = script.plan
      /\ (script'.state = "ok" /\ ~Left) \/ script'.state = "failed"
  BY <1>1, <1>2
<1>4. ~Left => script.at = Len(Writes(script.n)) + 1
  <2>1. script.at \in 1 .. Len(Writes(script.n)) + 1 /\ Len(Writes(script.n)) \in Nat
    BY <1>1, Lengths
  <2>. QED
    BY <2>1, <1>1, Lengths DEF Left
<1>5. TypeOK'
  <2>1. ScriptType'
    BY <1>1, <1>3, <1>4 DEF ScriptType, Running, Writes
  <2>2. OutType'
    BY <1>1, <1>2 DEF OutType
  <2>3. InHand'
    BY <1>3 DEF InHand, Running
  <2>. QED
    BY <2>1, <2>2, <2>3, <1>1, <1>2 DEF TypeOK
<1>6. ASSUME script.plan
      PROVE  Chain'
  <2>0. Chain
    BY <1>1, <1>6
  <2>1. ~Running'
    BY <1>3 DEF Running
  <2>2. \A n, k \in Nat : Past(n, k)' => Past(n, k)
    BY <1>1, <1>3 DEF Past, Running
  <2>3. /\ Past(2, 2)' => Past(2, 2)
        /\ Past(2, 3)' => Past(2, 3)
        /\ Past(4, 1)' => Past(4, 1)
        /\ Past(6, 1)' => Past(6, 1)
        /\ Past(6, 2)' => Past(6, 2)
        /\ Past(6, 3)' => Past(6, 3)
        /\ Past(8, 1)' => Past(8, 1)
        /\ Past(8, 2)' => Past(8, 2)
        /\ Past(9, 2)' => Past(9, 2)
        /\ Past(9, 3)' => Past(9, 3)
        /\ Past(10, 1)' => Past(10, 1)
    BY <2>2
  <2>. QED
    BY <2>0, <2>1, <2>3, <1>1, <1>2 DEF Chain, Readable, Fit, FitId
<1>. QED
  BY <1>3, <1>5, <1>6 DEF TrainingInv

(* A script makes its steps one after the other.                           *)
LEMMA TrainingStep ==
    ASSUME TrainingInv, ScriptStep
    PROVE  TrainingInv'
<1>1. CASE Open \/ LinesWritten \/ Write
  BY <1>1, FileStep, FileStepTypes, FileStepChain DEF TrainingInv
<1>. QED
  BY <1>1, SkipStep, EndStep DEF ScriptStep

(* The next script starts where the last one of its training has ended     *)
(* well, or alone.                                                         *)
LEMMA StartStep ==
    ASSUME TrainingInv, NEW k \in Scripts, NEW plan \in BOOLEAN, RunScript(k, plan),
           plan /\ k # 1 => script.n = k - 1 /\ script.state = "ok" /\ script.plan
    PROVE  TrainingInv'
<1>1. /\ OutType /\ ScriptType /\ InHand /\ (script.plan => Chain) /\ raw \in Data
      /\ k \in 1 .. 10 /\ out' = out /\ raw' = raw
  BY ScriptsAre DEF TrainingInv, TypeOK, RunScript
<1>2. /\ script' = [n |-> script'.n, at |-> script'.at, open |-> script'.open, state |-> script'.state,
                    plan |-> script'.plan]
      /\ script'.n = k /\ script'.at = 1 /\ script'.open = FALSE /\ script'.plan = plan
      /\ script'.state = IF Runs(k) THEN "running" ELSE "failed"
  BY DEF RunScript
<1>3. Len(Writes(k)) \in Nat
  BY <1>1, ScriptsAre
<1>4. TypeOK'
  <2>1. ScriptType'
    <3>1. 1 <= Len(Writes(k)) + 1
      BY <1>3
    <3>2. Running' => Runs(script.n)'
      BY <1>1, <1>2 DEF Running, Runs, Readable
    <3>3. (script.at <= Len(Writes(script.n)) + 1)'
      BY <3>1, <1>2 DEF Writes
    <3>4. /\ script'.n \in 0 .. 10 /\ script'.n # 0 /\ script'.at \in Nat \ {0}
          /\ script'.open \in BOOLEAN /\ script'.state \in {"running", "failed"}
      <4>1. k \in 0 .. 10 /\ k # 0 /\ 1 \in Nat \ {0}
        BY <1>1
      <4>2. script'.state \in {"running", "failed"}
        BY <1>2
      <4>. QED
        BY <4>1, <4>2, <1>2, Zenon
    <3>. QED
      BY <3>2, <3>3, <3>4, <1>2 DEF ScriptType, Running
  <2>2. OutType'
    BY <1>1 DEF OutType
  <2>3. InHand'
    BY <1>2 DEF InHand
  <2>. QED
    BY <2>1, <2>2, <2>3, <1>1 DEF TypeOK
<1>5. ASSUME plan, k = 1
      PROVE  Chain'
  BY <1>2, <1>5 DEF Chain, Past
<1>6. ASSUME plan, k # 1
      PROVE  Chain'
  <2>1. script.n = k - 1 /\ script.state = "ok" /\ Chain
    BY <1>1, <1>6
  <2>0. k # 1 => script.at = Len(Writes(script.n)) + 1
    <3>1. k # 1 => script.n # 0
      BY <1>1, <2>1
    <3>. QED
      BY <1>1, <2>1, <3>1 DEF ScriptType
  <2>2. /\ Past(2, 2)' => Past(2, 2)
        /\ Past(2, 3)' => Past(2, 3)
        /\ Past(4, 1)' => Past(4, 1)
        /\ Past(6, 1)' => Past(6, 1)
        /\ Past(6, 2)' => Past(6, 2)
        /\ Past(6, 3)' => Past(6, 3)
        /\ Past(8, 1)' => Past(8, 1)
        /\ Past(8, 2)' => Past(8, 2)
        /\ Past(9, 2)' => Past(9, 2)
        /\ Past(9, 3)' => Past(9, 3)
        /\ ~Past(10, 1)'
    <3>1. CASE k = 3
      <4>1. script.n = 2 /\ script.state = "ok"
        BY <2>1, <3>1
      <4>2. script.at = 4
        BY <2>0, <3>1, <4>1, Ends
      <4>. QED
        BY <4>1, <4>2, <3>1, <1>2 DEF Past
    <3>2. CASE k = 5 \/ k = 7
      <4>1. (k = 5 => script.n = 4) /\ (k = 7 => script.n = 6) /\ script.state = "ok"
        BY <2>1, <3>2
      <4>2. (k = 5 => script.at = 2) /\ (k = 7 => script.at = 4)
        BY <2>0, <3>2, <4>1, Ends
      <4>. QED
        BY <4>1, <4>2, <3>2, <1>2 DEF Past
    <3>3. CASE k = 9
      <4>1. script.n = 8 /\ script.state = "ok"
        BY <2>1, <3>3
      <4>2. script.at = 3
        BY <2>0, <3>3, <4>1, Ends
      <4>. QED
        BY <4>1, <4>2, <3>3, <1>2 DEF Past
    <3>4. CASE k = 10
      <4>1. script.n = 9 /\ script.state = "ok"
        BY <2>1, <3>4
      <4>2. script.at = 4
        BY <2>0, <3>4, <4>1, Ends
      <4>. QED
        BY <4>1, <4>2, <3>4, <1>2 DEF Past
    <3>5. CASE k \in {1, 2, 4, 6, 8}
      BY <2>1, <3>5, <1>2 DEF Past
    <3>. QED
      BY <3>1, <3>2, <3>3, <3>4, <3>5, <1>1
  <2>3. ~(script'.at > 1)
    BY <1>2
  <2>. QED
    BY <2>1, <2>2, <2>3, <1>1 DEF Chain, Readable, Fit, FitId
<1>. QED
  BY <1>2, <1>4, <1>5, <1>6 DEF TrainingInv

(* The data set is replaced while no script is at work.                    *)
LEMMA DataStep ==
    ASSUME TrainingInv, ~Running, ReplaceData
    PROVE  TrainingInv'
<1>1. out' = out /\ script' = script /\ raw' \in Data
  BY DEF ReplaceData
<1>2. TypeOK'
  BY <1>1 DEF TrainingInv, TypeOK, OutType, ScriptType, Running, Runs, Readable, InHand
<1>3. script.plan => Chain'
  BY <1>1 DEF TrainingInv, Chain, Running, Past, Readable, Fit, FitId
<1>. QED
  BY <1>1, <1>2, <1>3 DEF TrainingInv

LEMMA SameTraining ==
    ASSUME TrainingInv, UNCHANGED dvars
    PROVE  TrainingInv'
<1>1. out' = out /\ script' = script /\ raw' = raw
  BY DEF dvars
<1>2. TypeOK'
  BY <1>1, ZenonT(40) DEF TrainingInv, TypeOK, OutType, ScriptType, Running, Runs, Readable, InHand
<1>3. script.plan => Chain'
  BY <1>1 DEF TrainingInv, Chain, Running, Past, Readable, Fit, FitId
<1>. QED
  BY <1>1, <1>2, <1>3 DEF TrainingInv

LEMMA TrainingInit ==
    ASSUME DetectorInit
    PROVE  TrainingInv
<1>1. PICK present \in {ShippedFiles, Files} :
          out = [f \in Files |->
                    CASE f \notin present -> None
                      [] f = "bundle" -> [id |-> ShippedId, calibrator |-> {Shipped}, gate |-> {Shipped}]
                      [] f = "card" -> [id |-> ShippedId, gate |-> {Shipped}]
                      [] f = "alerts" -> [by |-> ShippedId, version |-> ShippedId]
                      [] f = "schema" -> ShippedId
                      [] OTHER -> {Shipped}]
  BY DEF DetectorInit
<1>2. /\ out = [f \in Files |-> out[f]]
      /\ \A f \in SetFiles : out[f] \in {None, {Shipped}}
      /\ out["bundle"] \in {None, [id |-> ShippedId, calibrator |-> {Shipped}, gate |-> {Shipped}]}
      /\ out["card"] \in {None, [id |-> ShippedId, gate |-> {Shipped}]}
      /\ out["alerts"] \in {None, [by |-> ShippedId, version |-> ShippedId]}
  <2>1. out = [f \in Files |-> out[f]]
    BY <1>1
  <2>2. \A f \in SetFiles : f \in Files /\ f \notin {"bundle", "card", "alerts", "schema"}
    BY FilesAre DEF SetFiles
  <2>3. "bundle" \in Files /\ "card" \in Files /\ "alerts" \in Files
    BY FilesAre
  <2>4. \A f \in SetFiles : out[f] \in {None, {Shipped}}
    BY <1>1, <2>2
  <2>5. out["bundle"] \in {None, [id |-> ShippedId, calibrator |-> {Shipped}, gate |-> {Shipped}]}
    BY <1>1, <2>3
  <2>6. out["card"] \in {None, [id |-> ShippedId, gate |-> {Shipped}]}
    BY <1>1, <2>3
  <2>7. out["alerts"] \in {None, [by |-> ShippedId, version |-> ShippedId]}
    BY <1>1, <2>3
  <2>. QED
    BY <2>1, <2>4, <2>5, <2>6, <2>7
<1>3. {Shipped} \in SUBSET Data /\ ShippedId \in ModelIds
  BY DataAssumption DEF ShippedId, ModelIds
<1>4. OutType
  BY <1>2, <1>3 DEF OutType, Bundles, Cards, AlertRows
<1>5. script = [n |-> 0, at |-> 1, open |-> FALSE, state |-> "ok", plan |-> FALSE] /\ raw \in Data
  BY DEF DetectorInit
<1>6. ScriptType
  BY <1>5 DEF ScriptType, Running
<1>7. InHand /\ ~script.plan
  BY <1>5 DEF InHand, Running
<1>. QED
  BY <1>4, <1>5, <1>6, <1>7 DEF TrainingInv, TypeOK

(* What the last script has left.                                          *)
LEMMA Exported ==
    ASSUME TrainingInv, script.n = 10, script.state = "ok", script.plan
    PROVE  /\ out["val"] = out["train"] /\ out["test"] = out["train"] /\ out["columns"] = out["train"]
           /\ out["features"] = out["train"] /\ Readable("params") /\ Readable("val_scores")
           /\ out["test_scores"] = Fit /\ out["ops"] = out["val_scores"] \cup out["test_scores"]
           /\ out["bundle"] = [id |-> FitId, calibrator |-> Fit, gate |-> out["ops"]]
           /\ out["card"] = [id |-> out["bundle"].id, gate |-> out["bundle"].gate]
           /\ out["alerts"] = [by |-> out["bundle"].id, version |-> out["card"].id]
<1>1. script.at = 3
  <2>1. script.at = Len(Writes(script.n)) + 1
    BY DEF TrainingInv, TypeOK, ScriptType
  <2>. QED
    BY <2>1, Ends
<1>2. /\ Past(2, 2) /\ Past(2, 3) /\ Past(4, 1) /\ Past(6, 1) /\ Past(6, 2) /\ Past(8, 1)
      /\ Past(8, 2) /\ Past(9, 2) /\ Past(9, 3) /\ Past(10, 1)
  BY <1>1 DEF Past
<1>. QED
  BY <1>2 DEF TrainingInv, Chain

LEMMA ExportIsCurrent ==
    ASSUME TrainingInv
    PROVE  CompletedExportIsCurrent
<1> SUFFICES ASSUME script.n = 10, script.state = "ok", script.plan
             PROVE  CompletedExportIsCurrent
  BY DEF CompletedExportIsCurrent
<1>1. /\ out["val"] = out["train"] /\ out["test"] = out["train"] /\ out["columns"] = out["train"]
      /\ out["features"] = out["train"] /\ Readable("params") /\ Readable("val_scores")
      /\ out["test_scores"] = Fit /\ out["ops"] = out["val_scores"] \cup out["test_scores"]
      /\ out["bundle"] = [id |-> FitId, calibrator |-> Fit, gate |-> out["ops"]]
      /\ out["card"] = [id |-> out["bundle"].id, gate |-> out["bundle"].gate]
      /\ out["alerts"] = [by |-> out["bundle"].id, version |-> out["card"].id]
  BY Exported
<1>2. /\ Lineage({"params"}) = out["params"]
      /\ Lineage({"params", "val_scores"}) = out["params"] \cup out["val_scores"]
  <2>1. "params" \in SetFiles /\ "val_scores" \in SetFiles
    BY DEF SetFiles
  <2>. QED
    BY <2>1, <1>1, Lineages DEF TrainingInv, TypeOK
<1>3. Current(Fit, {"params"})
  BY <1>2 DEF Current, Fit
<1>4. Current(out["ops"], {"params", "val_scores"})
  BY <1>1, <1>2 DEF Current, Fit
<1>5. /\ out["bundle"].id = FitId /\ out["bundle"].calibrator = Fit /\ out["bundle"].gate = out["ops"]
      /\ FitId.weights = Fit /\ FitId.thresholds = Fit
  BY <1>1 DEF FitId
<1>. QED
  BY <1>1, <1>3, <1>4, <1>5 DEF CompletedExportIsCurrent


-----------------------------------------------------------------------------
(* Plans.                                                                  *)

LEMMA TailOfPlan ==
    ASSUME NEW p \in Seq(0 .. 13), p # <<>>, NEW ph, PlanOf(p, ph)
    PROVE  /\ Tail(p) \in Seq(0 .. 13) /\ PlanOf(Tail(p), ph)
           /\ Head(p) = p[1] /\ 1 \in 1 .. Len(p) /\ Head(p) \in 0 .. 13
           /\ \A k : (\E i \in 1 .. Len(Tail(p)) : Tail(p)[i] = k)
                        <=> k # Head(p) /\ \E i \in 1 .. Len(p) : p[i] = k
           /\ \A i \in 1 .. Len(p) : p[i] >= Head(p)
           /\ Tail(p) # <<>> =>
                 /\ Head(Tail(p)) > Head(p)
                 /\ Head(Tail(p)) \in Scripts => Head(Tail(p)) = Head(p) + 1
<1>1. /\ Len(p) \in Nat \ {0} /\ Tail(p) \in Seq(0 .. 13) /\ Len(Tail(p)) = Len(p) - 1
      /\ \A i \in 1 .. Len(Tail(p)) : Tail(p)[i] = p[i + 1] /\ i + 1 \in 1 .. Len(p)
      /\ Head(p) = p[1] /\ \A i \in 1 .. Len(p) : p[i] \in 0 .. 13
      /\ 1 \in 1 .. Len(p)
  OBVIOUS
<1>2. PlanOf(Tail(p), ph)
  BY <1>1 DEF PlanOf
<1>3. ASSUME NEW k
      PROVE  (\E i \in 1 .. Len(Tail(p)) : Tail(p)[i] = k)
                <=> k # Head(p) /\ \E i \in 1 .. Len(p) : p[i] = k
  <2>1. ASSUME NEW i \in 1 .. Len(Tail(p)), Tail(p)[i] = k
        PROVE  k # Head(p) /\ \E j \in 1 .. Len(p) : p[j] = k
    <3>1. i + 1 \in 1 .. Len(p) /\ p[i + 1] = k /\ 1 < i + 1 /\ 1 \in 1 .. Len(p)
      BY <1>1, <2>1
    <3>2. p[1] < p[i + 1]
      BY <3>1 DEF PlanOf
    <3>. QED
      BY <3>1, <3>2, <1>1
  <2>2. ASSUME NEW i \in 1 .. Len(p), p[i] = k, k # Head(p)
        PROVE  \E j \in 1 .. Len(Tail(p)) : Tail(p)[j] = k
    <3>1. i - 1 \in 1 .. Len(Tail(p)) /\ Tail(p)[i - 1] = p[i]
      BY <1>1, <2>2
    <3>. QED
      BY <3>1, <2>2
  <2>. QED
    BY <2>1, <2>2
<1>4. \A i \in 1 .. Len(p) : p[i] >= Head(p)
  <2> TAKE i \in 1 .. Len(p)
  <2>1. CASE i = 1
    BY <2>1, <1>1
  <2>2. CASE i > 1
    <3>1. p[1] < p[i]
      BY <2>2, <1>1 DEF PlanOf
    <3>. QED
      BY <3>1, <1>1, SMTT(30)
  <2>. QED
    BY <2>1, <2>2, <1>1
<1>5. ASSUME Tail(p) # <<>>
      PROVE  /\ Head(Tail(p)) > Head(p)
             /\ Head(Tail(p)) \in Scripts => Head(Tail(p)) = Head(p) + 1
  <2>1. Head(Tail(p)) = p[2] /\ 2 \in 1 .. Len(p) /\ 1 \in 1 .. Len(p)
    BY <1>1, <1>5
  <2>2. p[1] < p[2] /\ (p[2] \in Scripts => p[2] = p[1] + 1)
    BY <2>1 DEF PlanOf
  <2>. QED
    BY <2>1, <2>2, <1>1
<1>. QED
  BY <1>1, <1>2, <1>3, <1>4, <1>5

LEMMA ScriptNumbers == Scripts = 1 .. 10
  BY ScriptsAre

LEMMA ThreeParts ==
    ASSUME NEW S, NEW z \in S, NEW X \in Seq(S), NEW Y \in Seq(S)
    PROVE  LET p == (<<z>> \o X) \o Y IN
           /\ p \in Seq(S) /\ Len(p) = 1 + Len(X) + Len(Y) /\ p[1] = z
           /\ \A i \in 1 .. Len(X) : p[1 + i] = X[i]
           /\ \A i \in 1 .. Len(Y) : p[1 + Len(X) + i] = Y[i]
<1> DEFINE Z == <<z>>
           W == Z \o X
           p == W \o Y
<1>1. Z \in Seq(S) /\ Len(Z) = 1 /\ Z[1] = z
  OBVIOUS
<1> HIDE DEF Z
<1>3. /\ W \in Seq(S) /\ Len(W) = 1 + Len(X)
      /\ \A i \in 1 .. Len(W) : W[i] = IF i <= Len(Z) THEN Z[i] ELSE X[i - Len(Z)]
  <2>1. /\ W \in Seq(S) /\ Len(W) = Len(Z) + Len(X)
        /\ \A i \in 1 .. Len(Z) + Len(X) : W[i] = IF i <= Len(Z) THEN Z[i] ELSE X[i - Len(Z)]
    BY <1>1, ConcatProperties, Zenon
  <2>. QED
    BY <2>1, <1>1
<1> HIDE DEF W
<1>4. /\ p \in Seq(S) /\ Len(p) = Len(W) + Len(Y)
      /\ \A i \in 1 .. Len(p) : p[i] = IF i <= Len(W) THEN W[i] ELSE Y[i - Len(W)]
  <2>1. /\ p \in Seq(S) /\ Len(p) = Len(W) + Len(Y)
        /\ \A i \in 1 .. Len(W) + Len(Y) : p[i] = IF i <= Len(W) THEN W[i] ELSE Y[i - Len(W)]
    <3>1. W \in Seq(S) /\ Y \in Seq(S)
      BY <1>3
    <3>. QED
      BY <3>1, ConcatProperties, Zenon
  <2> HIDE DEF p
  <2>. QED
    BY <2>1
<1> HIDE DEF p
<1>5. Len(X) \in Nat /\ Len(Y) \in Nat
  OBVIOUS
<1>6. p[1] = z
  BY <1>1, <1>3, <1>4, <1>5
<1>7. ASSUME NEW i \in 1 .. Len(X)
      PROVE  p[1 + i] = X[i]
  <2>1. 1 + i \in 1 .. Len(W) /\ 1 + i \in 1 .. Len(p) /\ (1 + i) - 1 = i /\ ~(1 + i <= 1) /\ 1 + i <= Len(W)
    BY <1>3, <1>4, <1>5
  <2>. QED
    BY <2>1, <1>1, <1>3, <1>4
<1>8. ASSUME NEW i \in 1 .. Len(Y)
      PROVE  p[1 + Len(X) + i] = Y[i]
  <2>1. 1 + Len(X) + i \in 1 .. Len(p) /\ ~(1 + Len(X) + i <= Len(W)) /\ (1 + Len(X) + i) - Len(W) = i
    BY <1>3, <1>4, <1>5
  <2>. QED
    BY <2>1, <1>4
<1>. QED
  BY <1>3, <1>4, <1>6, <1>7, <1>8 DEF p, W, Z

PlanParts(X, Y, f, l, m) ==
    /\ X \in Seq(0 .. 13) /\ Len(X) = IF m = "train" THEN 10 ELSE 0
    /\ m = "train" => \A i \in 1 .. 10 : X[i] = i
    /\ Y \in Seq(0 .. 13) /\ Len(Y) = l - f + 1 /\ \A i \in 1 .. Len(Y) : Y[i] = 9 + f + i

IsPlan(p, f, l, m) ==
    /\ p \in Seq(0 .. 13) /\ PlanOf(p, f .. l) /\ p # <<>> /\ Head(p) = 0
    /\ m # "train" => \A i \in 1 .. Len(p) : p[i] \notin Scripts
    /\ m = "train" => TrainsFirst(p)
    /\ \A q \in f .. l : \E i \in 1 .. Len(p) : p[i] = 10 + q

LEMMA PlanNumbers ==
    ASSUME NEW f \in 1 .. 3, NEW l \in 1 .. 3, f <= l, NEW m, m = "train" => f = 1,
           NEW X, NEW Y, PlanParts(X, Y, f, l, m)
    PROVE  IsPlan((<<0>> \o X) \o Y, f, l, m)
<1> DEFINE p == (<<0>> \o X) \o Y
<1>2. X \in Seq(0 .. 13) /\ Len(X) = (IF m = "train" THEN 10 ELSE 0) /\ (m = "train" => \A i \in 1 .. 10 : X[i] = i)
  BY DEF PlanParts
<1>3. Y \in Seq(0 .. 13) /\ Len(Y) = l - f + 1 /\ Len(Y) \in Nat \ {0} /\ \A i \in 1 .. Len(Y) : Y[i] = 9 + f + i
  BY DEF PlanParts
<1>4. 0 \in 0 .. 13
  OBVIOUS
<1>5. /\ p \in Seq(0 .. 13) /\ Len(p) = 1 + Len(X) + Len(Y)
      /\ p[1] = 0
      /\ \A i \in 1 .. Len(X) : p[1 + i] = X[i]
      /\ \A i \in 1 .. Len(Y) : p[1 + Len(X) + i] = Y[i]
  <2>1. X \in Seq(0 .. 13) /\ Y \in Seq(0 .. 13)
    BY <1>2, <1>3
  <2>. QED
    BY <2>1, <1>4, ThreeParts, SMTT(30)
<1> HIDE DEF p
<1>6. p # <<>> /\ Head(p) = 0
  <2>1. Len(p) # 0
    BY <1>2, <1>3, <1>5
  <2>. QED
    BY <2>1, <1>5
<1> DEFINE Good == /\ PlanOf(p, f .. l)
                   /\ m # "train" => \A i \in 1 .. Len(p) : p[i] \notin Scripts
                   /\ m = "train" => TrainsFirst(p)
                   /\ \A q \in f .. l : \E i \in 1 .. Len(p) : p[i] = 10 + q
<1>7. ASSUME m = "train" PROVE Good
  <2>1. Len(X) = 10 /\ (\A i \in 1 .. 10 : X[i] = i) /\ f = 1 /\ Len(Y) = l /\ Len(p) = 11 + l
    BY <1>2, <1>3, <1>5, <1>7
  <2>2. \A i \in 1 .. Len(p) : p[i] = i - 1
    <3> TAKE i \in 1 .. Len(p)
    <3>1. CASE i \in 2 .. 11
      <4>1. i - 1 \in 1 .. 10 /\ 1 + (i - 1) = i
        BY <3>1
      <4>. QED
        BY <4>1, <2>1, <1>5
    <3>2. CASE i > 11
      <4>1. i - 11 \in 1 .. Len(Y) /\ 1 + Len(X) + (i - 11) = i /\ 9 + f + (i - 11) = i - 1
        BY <2>1, <3>2
      <4>. QED
        BY <4>1, <1>3, <1>5
    <3>3. CASE i = 1
      BY <3>3, <1>5
    <3>. QED
      BY <3>1, <3>2, <3>3, <2>1
  <2>3. \A q \in f .. l : 11 + q \in 1 .. Len(p) /\ p[11 + q] = 10 + q
    BY <2>1, <2>2
  <2>4. PlanOf(p, f .. l)
    <3>1. ASSUME NEW i \in 1 .. Len(p)
          PROVE  p[i] \in {0} \cup Scripts \cup {10 + q : q \in f .. l}
      <4>1. CASE i <= 11
        <5>1. p[i] = i - 1 /\ i \in 1 .. 11
          BY <4>1, <2>1, <2>2, SMTT(30)
        <5>. QED
          BY <5>1, ScriptNumbers
      <4>2. CASE i > 11
        <5>1. i - 11 \in f .. l /\ p[i] = 10 + (i - 11)
          BY <4>2, <2>1, <2>2
        <5>. QED
          BY <5>1
      <4>. QED
        BY <4>1, <4>2
    <3>2. ASSUME NEW i \in 1 .. Len(p), NEW j \in 1 .. Len(p)
          PROVE  (i < j => p[i] < p[j]) /\ (j = i + 1 => p[j] = p[i] + 1)
      <4>1. p[i] = i - 1 /\ p[j] = j - 1
        BY <2>2
      <4>. QED
        BY <4>1, <2>1
    <3>3. /\ \A i, j \in 1 .. Len(p) : i < j => p[i] < p[j]
          /\ \A i, j \in 1 .. Len(p) : j = i + 1 /\ p[j] \in Scripts => p[j] = p[i] + 1
      BY <3>2
    <3>. QED
      BY <3>1, <3>3 DEF PlanOf
  <2>5. TrainsFirst(p)
    <3> SUFFICES ASSUME NEW i \in 1 .. Len(p), NEW j \in 1 .. Len(p), j = i + 1, p[j] > 10
                 PROVE  p[i] >= 10
      BY DEF TrainsFirst
    <3>1. p[i] = i - 1 /\ p[j] = j - 1
      BY <2>2
    <3>. QED
      BY <3>1, <2>1
  <2>. QED
    BY <2>3, <2>4, <2>5, <1>5, <1>6, <1>7
<1>8. ASSUME m # "train" PROVE Good
  <2>1. Len(X) = 0 /\ Len(p) = 2 + l - f
    BY <1>2, <1>3, <1>5, <1>8
  <2>2. \A i \in 2 .. Len(p) : p[i] = 8 + f + i
    <3> TAKE i \in 2 .. Len(p)
    <3>1. i - 1 \in 1 .. Len(Y) /\ 1 + Len(X) + (i - 1) = i /\ 9 + f + (i - 1) = 8 + f + i
      BY <2>1, <1>3
    <3>. QED
      BY <3>1, <1>3, <1>5
  <2>3. \A q \in f .. l : 2 + q - f \in 2 .. Len(p) /\ p[2 + q - f] = 10 + q
    <3> TAKE q \in f .. l
    <3>1. 2 + q - f \in 2 .. Len(p) /\ 8 + f + (2 + q - f) = 10 + q
      BY <2>1
    <3>. QED
      BY <3>1, <2>2
  <2>4. PlanOf(p, f .. l)
    <3>1. ASSUME NEW i \in 1 .. Len(p)
          PROVE  p[i] \in {0} \cup Scripts \cup {10 + q : q \in f .. l}
      <4>1. CASE i = 1
        BY <4>1, <1>5
      <4>2. CASE i > 1
        <5>1. i - 2 + f \in f .. l /\ p[i] = 10 + (i - 2 + f)
          BY <4>2, <2>1, <2>2
        <5>. QED
          BY <5>1
      <4>. QED
        BY <4>1, <4>2
    <3>2. ASSUME NEW i \in 1 .. Len(p), NEW j \in 1 .. Len(p), i < j
          PROVE  p[i] < p[j]
      <4>1. j \in 2 .. Len(p) /\ p[j] = 8 + f + j
        BY <3>2, <2>1, <2>2
      <4>2. CASE i = 1
        BY <4>1, <4>2, <1>5
      <4>3. CASE i > 1
        BY <4>1, <4>3, <3>2, <2>1, <2>2
      <4>. QED
        BY <4>2, <4>3
    <3>3. ASSUME NEW i \in 1 .. Len(p), NEW j \in 1 .. Len(p), j = i + 1
          PROVE  p[j] \notin Scripts
      <4>1. j \in 2 .. Len(p) /\ p[j] = 8 + f + j
        BY <3>3, <2>1, <2>2
      <4>. QED
        BY <4>1, ScriptNumbers
    <3>. QED
      BY <3>1, <3>2, <3>3 DEF PlanOf
  <2>5. ASSUME NEW i \in 1 .. Len(p)
        PROVE  p[i] \notin Scripts
    <3>1. CASE i = 1
      BY <3>1, <1>5, ScriptNumbers
    <3>2. CASE i > 1
      <4>1. i \in 2 .. Len(p) /\ p[i] = 8 + f + i
        BY <3>2, <2>1, <2>2
      <4>. QED
        BY <4>1, ScriptNumbers
    <3>. QED
      BY <3>1, <3>2, <2>1
  <2>6. ASSUME NEW q \in f .. l
        PROVE  \E i \in 1 .. Len(p) : p[i] = 10 + q
    <3>1. 2 + q - f \in 2 .. Len(p) /\ p[2 + q - f] = 10 + q
      BY <2>3
    <3>. QED
      BY <3>1, <2>1
  <2>. QED
    BY <2>4, <2>5, <2>6, <1>5, <1>6, <1>8
<1>. QED
  BY <1>5, <1>6, <1>7, <1>8 DEF p, IsPlan

LEMMA PlanFacts ==
    ASSUME NEW c \in Commands
    PROVE  /\ IsPlan(Plan(c), c.first, c.last, c.mode)
           /\ c.first \in 1 .. 3 /\ c.last \in 1 .. 3 /\ c.first <= c.last
           /\ c.first \in {1, c.last}
<1>1. /\ c.first \in 1 .. 3 /\ c.last \in 1 .. 3 /\ c.first <= c.last
      /\ c.mode = "train" => c.first = 1
      /\ c.first \in {1, c.last}
  BY LauncherAssumption
<1> DEFINE X == IF c.mode = "train" THEN [n \in 1 .. 10 |-> n] ELSE <<>>
<1>2. Plan(c) = (<<0>> \o X) \o [i \in 1 .. c.last - c.first + 1 |-> 9 + c.first + i]
  BY ScriptsAre DEF Plan
<1>4. X = IF c.mode = "train" THEN [n \in 1 .. 10 |-> n] ELSE <<>>
  OBVIOUS
<1>. HIDE DEF X
<1>5. c.mode = "train" => c.first = 1
  BY <1>1
<1>6. IsPlan(Plan(c), c.first, c.last, c.mode)
  <2> DEFINE f == c.first
             l == c.last
             Y == [i \in 1 .. l - f + 1 |-> 9 + f + i]
  <2>1. f \in 1 .. 3 /\ l \in 1 .. 3 /\ f <= l /\ (c.mode = "train" => f = 1)
    BY <1>1, <1>5
  <2>2. Plan(c) = (<<0>> \o X) \o Y
    BY <1>2
  <2> HIDE DEF f, l
  <2>3. Y \in Seq(0 .. 13) /\ Len(Y) = l - f + 1 /\ \A i \in 1 .. Len(Y) : Y[i] = 9 + f + i
    BY <2>1
  <2>4. /\ X \in Seq(0 .. 13) /\ Len(X) = IF c.mode = "train" THEN 10 ELSE 0
        /\ c.mode = "train" => \A i \in 1 .. 10 : X[i] = i
    <3>1. CASE c.mode = "train"
      BY <3>1, <1>4
    <3>2. CASE c.mode # "train"
      BY <3>2, <1>4
    <3>. QED
      BY <3>1, <3>2
  <2> HIDE DEF Y
  <2>5. PlanParts(X, Y, f, l, c.mode)
    BY <2>3, <2>4 DEF PlanParts
  <2>6. IsPlan((<<0>> \o X) \o Y, f, l, c.mode)
    BY <2>1, <2>5, PlanNumbers
  <2>. QED
    BY <2>2, <2>6 DEF f, l
<1>. QED
  BY <1>1, <1>6


-----------------------------------------------------------------------------
(* The launcher's plan and its children.                                   *)

LaunchInv == TrainingInv /\ LauncherType /\ ScriptOrder /\ Maps

LEMMA ChildNames == None \notin Child /\ "environment" # "script" /\ "script" # "stage" /\ "environment" # "stage"
  BY ValueAssumption DEF Child

LEMMA ScriptStepFacts ==
    ASSUME TrainingInv, ScriptStep
    PROVE  Running /\ script'.n = script.n /\ script'.plan = script.plan
<1>1. script = [n |-> script.n, at |-> script.at, open |-> script.open, state |-> script.state,
                plan |-> script.plan]
  BY DEF TrainingInv, TypeOK, ScriptType
<1>2. Running
  BY DEF ScriptStep, Open, LinesWritten, Write, Reuse, ModelFails, ScriptEnds, ScriptFails, Left
<1>3. \/ script' = [script EXCEPT !.open = TRUE]
      \/ script' = [script EXCEPT !.at = @ + 1, !.open = FALSE]
      \/ script' = [script EXCEPT !.state = "ok"]
      \/ script' = [script EXCEPT !.state = "failed"]
      \/ script' = script
  BY DEF ScriptStep, Open, LinesWritten, Write, Reuse, ModelFails, ScriptEnds, ScriptFails, Advance
<1>. QED
  BY <1>1, <1>2, <1>3

(* A launch begins.                                                        *)
LEMMA LaunchKeepsOrder ==
    ASSUME LaunchInv, NEW c \in Commands, Launch(c)
    PROVE  LaunchInv'
<1>1. /\ launches < MaxLaunches /\ launches' = launches + 1 /\ ~Running
      /\ UNCHANGED dvars /\ child' = child /\ stage' = stage /\ dir' = dir /\ audited' = audited
      /\ launcher = None
  BY DEF Launch
<1>2. PICK d \in Dirs :
          /\ IF Resumes(c) THEN d <= launches ELSE d = launches'
          /\ launcher' = [dir |-> d, mode |-> c.mode, phases |-> c.first .. c.last,
                          todo |-> Plan(c), number |-> launches']
  BY DEF Launch
<1>3. /\ launcher'.dir = d /\ launcher'.mode = c.mode /\ launcher'.phases = c.first .. c.last
      /\ launcher'.todo = Plan(c) /\ launcher'.number = launches'
      /\ launcher' = [dir |-> launcher'.dir, mode |-> launcher'.mode, phases |-> launcher'.phases,
                      todo |-> launcher'.todo, number |-> launcher'.number]
  BY <1>2
<1>4. /\ Plan(c) \in Seq(0 .. 13) /\ PlanOf(Plan(c), c.first .. c.last)
      /\ Plan(c) # <<>> /\ Head(Plan(c)) = 0
      /\ c.mode # "train" => \A i \in 1 .. Len(Plan(c)) : Plan(c)[i] \notin Scripts
      /\ c.first .. c.last \in SUBSET (1 .. 3) /\ c.first .. c.last # {}
  BY PlanFacts DEF IsPlan
<1>5. TrainingInv'
  BY <1>1, SameTraining DEF LaunchInv
<1>6. child = None
  BY <1>1 DEF LaunchInv, LauncherType
<1>7. /\ launches' \in Dirs /\ d \in 1 .. launches' /\ launches' \in 0 .. MaxLaunches
      /\ d \in Dirs
  BY <1>1, <1>2, LauncherAssumption DEF LaunchInv, LauncherType, Dirs
<1>8. LauncherType'
  BY <1>1, <1>3, <1>4, <1>6, <1>7, ChildNames DEF LauncherType, Left2Do
<1>9. ScriptOrder'
  BY <1>1, <1>3, <1>4, <1>6, ScriptNumbers DEF ScriptOrder, Running, dvars
<1>10. Maps'
  BY <1>1 DEF LaunchInv, Maps
<1>. QED
  BY <1>5, <1>8, <1>9, <1>10 DEF LaunchInv

(* The next item of the plan.                                              *)
LEMMA NextItem ==
    ASSUME LaunchInv, launcher # None, launcher.todo # <<>>
    PROVE  LET t == launcher.todo
               k == Head(launcher.todo)
           IN  /\ t \in Seq(0 .. 13) /\ PlanOf(t, launcher.phases) /\ k = t[1] /\ 1 \in 1 .. Len(t)
               /\ k \in {0} \cup Scripts \cup {10 + q : q \in launcher.phases} /\ k \in 0 .. 13
               /\ Left2Do(k)
               /\ \A j \in Nat : j < k => ~Left2Do(j)
               /\ Tail(t) \in Seq(0 .. 13) /\ PlanOf(Tail(t), launcher.phases)
               /\ \A j : (\E i \in 1 .. Len(Tail(t)) : Tail(t)[i] = j) <=> j # k /\ Left2Do(j)
               /\ Tail(t) # <<>> /\ Head(Tail(t)) \in Scripts \ {1} =>
                     k \in Scripts /\ Head(Tail(t)) - 1 = k
<1> DEFINE t == launcher.todo
<1>1. t \in Seq(0 .. 13) /\ PlanOf(t, launcher.phases) /\ t # <<>>
  BY DEF LaunchInv, LauncherType
<1>2. /\ Tail(t) \in Seq(0 .. 13) /\ PlanOf(Tail(t), launcher.phases)
      /\ Head(t) = t[1] /\ 1 \in 1 .. Len(t) /\ Head(t) \in 0 .. 13
      /\ \A k : (\E i \in 1 .. Len(Tail(t)) : Tail(t)[i] = k)
                   <=> k # Head(t) /\ \E i \in 1 .. Len(t) : t[i] = k
      /\ \A i \in 1 .. Len(t) : t[i] >= Head(t)
      /\ Tail(t) # <<>> =>
            /\ Head(Tail(t)) > Head(t)
            /\ Head(Tail(t)) \in Scripts => Head(Tail(t)) = Head(t) + 1
  BY <1>1, TailOfPlan
<1>3. Head(t) \in {0} \cup Scripts \cup {10 + q : q \in launcher.phases}
  BY <1>1, <1>2 DEF PlanOf
<1>4. Left2Do(Head(t))
  BY <1>2 DEF Left2Do
<1>5. ASSUME NEW j \in Nat, j < Head(t)
      PROVE  ~Left2Do(j)
  BY <1>2, <1>5, SMTT(30) DEF Left2Do
<1>6. Tail(t) # <<>> /\ Head(Tail(t)) \in Scripts \ {1} =>
          Head(t) \in Scripts /\ Head(Tail(t)) - 1 = Head(t)
  <2> SUFFICES ASSUME Tail(t) # <<>>, Head(Tail(t)) \in Scripts \ {1}
               PROVE  Head(t) \in Scripts /\ Head(Tail(t)) - 1 = Head(t)
    OBVIOUS
  <2> DEFINE h == Head(Tail(t))
             k == Head(t)
  <2>1. h \in 1 .. 10 /\ h # 1 /\ h = k + 1 /\ k \in 0 .. 13
    BY <1>2, ScriptNumbers
  <2> HIDE DEF h, k
  <2>2. k \in 1 .. 10 /\ h - 1 = k
    BY <2>1
  <2>. QED
    BY <2>2, ScriptNumbers DEF h, k
<1>. QED
  BY <1>1, <1>2, <1>3, <1>4, <1>5, <1>6 DEF Left2Do

LEMMA StartKeepsOrder ==
    ASSUME LaunchInv, StartChild
    PROVE  LaunchInv'
<1> DEFINE k == Head(launcher.todo)
<1>0. dir' = [dir EXCEPT ![launcher.dir].step = "running",
                      ![launcher.dir].status = "running",
                      ![launcher.dir].mode = launcher.mode,
                      ![launcher.dir].phases = launcher.phases]
  BY DEF StartChild
<1>1. /\ launcher # None /\ child = None /\ launcher.todo # <<>>
      /\ launcher' = launcher /\ launches' = launches /\ audited' = audited
      /\ \/ k = 0 /\ child' = "environment" /\ UNCHANGED <<dvars, stage>>
         \/ k \in Scripts /\ child' = "script" /\ RunScript(k, TRUE) /\ UNCHANGED stage
         \/ k > 10 /\ child' = "stage" /\ UNCHANGED dvars
            /\ stage' = [stage EXCEPT ![launcher.number] =
                  Stage(launcher.dir, launcher.mode, <<"phase1", "phase2", "phase3">>[k - 10])]
  BY DEF StartChild
<1>2. /\ k \in 0 .. 13 /\ Left2Do(k) /\ \A j \in Nat : j < k => ~Left2Do(j)
  BY <1>1, NextItem
<1>3. /\ TrainingInv /\ LauncherType /\ ScriptOrder /\ Maps /\ ~Running
      /\ k \in Scripts \ {1} => script.n = k - 1 /\ script.state = "ok" /\ script.plan
  BY <1>1 DEF LaunchInv, ScriptOrder
<1> HIDE DEF k
<1>4. TrainingInv'
  <2>1. CASE UNCHANGED dvars
    BY <2>1, <1>3, SameTraining
  <2>2. CASE k \in Scripts /\ RunScript(k, TRUE)
    <3>1. TRUE \in BOOLEAN /\ (TRUE /\ k # 1 => script.n = k - 1 /\ script.state = "ok" /\ script.plan)
      BY <2>2, <1>3
    <3>. QED
      BY <3>1, <2>2, <1>3, StartStep, Zenon
  <2>. QED
    BY <2>1, <2>2, <1>1
<1>5. LauncherType'
  BY <1>1, <1>3, ChildNames DEF LauncherType, Child, Left2Do
<1>6. ScriptOrder'
  <2>1. /\ child' = "environment" <=> k = 0
        /\ child' = "script" <=> k \in Scripts
        /\ child' = "stage" <=> k > 10
    <3>1. \/ k = 0 /\ child' = "environment"
          \/ k \in Scripts /\ child' = "script"
          \/ k > 10 /\ child' = "stage"
      BY <1>1, Zenon
    <3>. QED
      BY <3>1, <1>2, ScriptNumbers
  <2>2. child' = "script" => script'.n = k /\ script'.plan
    BY <1>1 DEF RunScript
  <2>3. child' # "script" => ~Running'
    BY <1>1, <1>3 DEF Running, dvars
  <2>4. child' # None
    BY <1>1, ChildNames DEF Child
  <2>5. Head(launcher'.todo) = k
    BY <1>1 DEF k
  <2>. QED
    BY <2>1, <2>2, <2>3, <2>4, <2>5 DEF ScriptOrder
<1>7. Maps'
  BY <1>0, <1>1, <1>3 DEF Maps
<1>. QED
  BY <1>4, <1>5, <1>6, <1>7 DEF LaunchInv

(* Steps after which no launcher runs.                                     *)
LEMMA StopKeepsOrder ==
    ASSUME LaunchInv, launcher' = None, child' = None, launches' = launches,
           TrainingInv', Maps'
    PROVE  LaunchInv'
<1>1. LauncherType'
  BY DEF LaunchInv, LauncherType
<1>2. ScriptOrder'
  BY DEF ScriptOrder
<1>. QED
  BY <1>1, <1>2 DEF LaunchInv

LEMMA LauncherEndsKeepsOrder ==
    ASSUME LaunchInv, ChildFailed \/ LaunchCompletes \/ Interrupted \/ Killed \/ MachineStops
    PROVE  LaunchInv'
<1>1. /\ TrainingInv /\ LauncherType /\ ScriptOrder /\ Maps
  BY DEF LaunchInv
<1>2. launcher' = None /\ child' = None /\ launches' = launches /\ audited' = audited
  BY <1>1 DEF ChildFailed, LaunchCompletes, Interrupted, Killed, MachineStops
<1>3. UNCHANGED dvars \/ ScriptFails
  BY DEF ChildFailed, LaunchCompletes, Interrupted, Killed, MachineStops, StopScript
<1>4. TrainingInv'
  BY <1>1, <1>3, SameTraining, EndStep
<1>6. \/ stage' = stage
      \/ stage' = [stage EXCEPT ![launcher.number] = Gone]
      \/ \E ns : stage' = [n \in Dirs |-> IF n \in ns THEN Gone ELSE stage[n]]
  BY DEF ChildFailed, LaunchCompletes, Interrupted, Killed, MachineStops, Stop
<1>7. stage' = [n \in Dirs |-> stage'[n]]
  BY <1>1, <1>6 DEF Maps
<1>9. dir' = [d \in Dirs |-> dir'[d]]
  BY <1>1 DEF Maps, ChildFailed, LaunchCompletes, Interrupted, Killed, MachineStops, Record
<1>10. Maps'
  BY <1>1, <1>2, <1>7, <1>9 DEF Maps
<1>. QED
  BY <1>2, <1>4, <1>10, StopKeepsOrder

LEMMA CompletedKeepsOrder ==
    ASSUME LaunchInv, ChildCompleted
    PROVE  LaunchInv'
<1> DEFINE k == Head(launcher.todo)
           t == Tail(launcher.todo)
<1>1. /\ TrainingInv /\ LauncherType /\ ScriptOrder /\ Maps
  BY DEF LaunchInv
<1>2. /\ child # None /\ Returns("ok")
      /\ UNCHANGED dvars /\ child' = None /\ launches' = launches /\ audited' = audited
      /\ stage' = [stage EXCEPT ![launcher.number] = Gone]
      /\ launcher' = [launcher EXCEPT !.todo = Tail(@)]
      /\ dir' = [dir EXCEPT ![launcher.dir].step = "completed", ![launcher.dir].status = "running"]
  BY DEF ChildCompleted, GoesOn, Record
<1>3. /\ launcher # None /\ launcher.todo # <<>>
      /\ launcher = [dir |-> launcher.dir, mode |-> launcher.mode, phases |-> launcher.phases,
                     todo |-> launcher.todo, number |-> launcher.number]
  BY <1>1, <1>2 DEF LauncherType
<1>4. /\ launcher' = [dir |-> launcher.dir, mode |-> launcher.mode, phases |-> launcher.phases,
                      todo |-> t, number |-> launcher.number]
  BY <1>2, <1>3
<1>5. /\ launcher'.dir = launcher.dir /\ launcher'.mode = launcher.mode
      /\ launcher'.phases = launcher.phases /\ launcher'.todo = t /\ launcher'.number = launcher.number
      /\ launcher' = [dir |-> launcher'.dir, mode |-> launcher'.mode, phases |-> launcher'.phases,
                      todo |-> launcher'.todo, number |-> launcher'.number]
  BY <1>4
<1>6. /\ t \in Seq(0 .. 13) /\ PlanOf(t, launcher.phases)
      /\ \A j : (\E i \in 1 .. Len(t) : t[i] = j) <=> j # k /\ Left2Do(j)
      /\ t # <<>> /\ Head(t) \in Scripts \ {1} => k \in Scripts /\ Head(t) - 1 = k
  BY <1>3, NextItem
<1>7. TrainingInv'
  BY <1>1, <1>2, SameTraining
<1>8. ~Running
  BY <1>1, <1>2, <1>3 DEF ScriptOrder, Returns, Running
<1>9. k \in Scripts => script.n = k /\ script.state = "ok" /\ script.plan
  <2>1. k \in Scripts => child = "script" /\ script.n = k /\ script.plan
    BY <1>1, <1>2, <1>3 DEF ScriptOrder
  <2>. QED
    BY <2>1, <1>2 DEF Returns
<1> HIDE DEF k, t
<1>10. \A j : Left2Do(j)' => Left2Do(j)
  BY <1>5, <1>6 DEF Left2Do
<1>11. LauncherType'
  BY <1>1, <1>2, <1>3, <1>5, <1>6, <1>10 DEF LauncherType
<1>12. ScriptOrder'
  BY <1>2, <1>5, <1>6, <1>8, <1>9 DEF ScriptOrder, Running, dvars
<1>13. Maps'
  BY <1>1, <1>2 DEF Maps
<1>. QED
  BY <1>7, <1>11, <1>12, <1>13 DEF LaunchInv

(* A step of stage n is its own, and in its directory.                     *)
LEMMA StageFrame ==
    ASSUME Maps, NEW n \in Dirs, StageStep(n)
    PROVE  /\ Working(n)
           /\ UNCHANGED dvars /\ launcher' = launcher /\ child' = child /\ launches' = launches
           /\ edits' = edits
           /\ Maps'
           /\ \A m \in Dirs : m # n => stage'[m] = stage[m]
           /\ \A e \in Dirs : e # stage[n].dir => dir'[e] = dir[e] /\ audited'[e] = audited[e]
<1>1. /\ Working(n)
      /\ UNCHANGED dvars /\ launcher' = launcher /\ child' = child /\ launches' = launches
      /\ edits' = edits
  BY DEF StageStep, Working
<1>2. /\ \/ \E x : stage' = [stage EXCEPT ![n] = x]
         \/ \E x, y : stage' = [stage EXCEPT ![n].todo = x, ![n].rows = y, ![n].open = FALSE]
         \/ \E x : stage' = [stage EXCEPT ![n].todo = x]
         \/ stage' = [stage EXCEPT ![n].open = TRUE]
      /\ \/ dir' = dir
         \/ \E f, x : dir' = [dir EXCEPT ![stage[n].dir][f] = x]
         \/ dir' = [dir EXCEPT ![stage[n].dir].phase2 = TRUE]
         \/ dir' = [dir EXCEPT ![stage[n].dir].phase3 = n]
      /\ audited' = audited \/ \E x : audited' = [audited EXCEPT ![stage[n].dir] = x]
  <2>1. CASE Prepare(n)
    BY <2>1 DEF Prepare, Then
  <2>2. CASE Phase2(n)
    <3>1. \/ stage' = [stage EXCEPT ![n].todo = <<"phase1">> \o @]
          \/ \E x, y : stage' = [stage EXCEPT ![n].todo = x \o Tail(@), ![n].rows = y, ![n].open = FALSE]
      BY <2>2 DEF Phase2, Then
    <3>2. \/ stage' = [stage EXCEPT ![n].todo = <<"phase1">> \o stage[n].todo]
          \/ \E x, y : stage' = [stage EXCEPT ![n].todo = x \o Tail(stage[n].todo), ![n].rows = y, ![n].open = FALSE]
      BY <3>1
    <3>. QED
      BY <2>2, <3>2 DEF Phase2
  <2>3. CASE MakePipeline(n)
    BY <2>3 DEF MakePipeline, Done, Then
  <2>4. CASE SubmitAndAudit(n)
    BY <2>4 DEF SubmitAndAudit, Done, Then
  <2>5. CASE Phase3(n)
    BY <2>5 DEF Phase3, Then
  <2>6. CASE MakePhase3(n)
    BY <2>6 DEF MakePhase3, Done, Then
  <2>7. CASE Trials(n)
    BY <2>7 DEF Trials, Done, Then
  <2>8. CASE Save(n)
    BY <2>8 DEF Save, Done, Then
  <2>9. CASE StageEnds(n)
    BY <2>9 DEF StageEnds
  <2>. QED
    BY <2>1, <2>2, <2>3, <2>4, <2>5, <2>6, <2>7, <2>8, <2>9 DEF StageStep
<1>3. /\ stage' = [m \in Dirs |-> stage'[m]] /\ \A m \in Dirs : m # n => stage'[m] = stage[m]
  BY <1>2 DEF Maps
<1>4. /\ dir' = [e \in Dirs |-> dir'[e]] /\ \A e \in Dirs : e # stage[n].dir => dir'[e] = dir[e]
  BY <1>2 DEF Maps
<1>5. /\ audited' = [e \in Dirs |-> audited'[e]]
      /\ \A e \in Dirs : e # stage[n].dir => audited'[e] = audited[e]
  BY <1>2 DEF Maps
<1>. QED
  BY <1>1, <1>3, <1>4, <1>5 DEF Maps

LEMMA OthersKeepOrder ==
    ASSUME LaunchInv, ScriptWorks \/ (\E n \in Dirs : StageStep(n)) \/ RunAlone \/ NewData \/ Edit
    PROVE  LaunchInv'
<1>1. /\ TrainingInv /\ LauncherType /\ ScriptOrder /\ Maps
  BY DEF LaunchInv
<1>2. CASE ScriptWorks
  <2>1. Running /\ script'.n = script.n /\ script'.plan = script.plan /\ TrainingInv' /\ UNCHANGED lvars
    BY <1>1, <1>2, ScriptStepFacts, TrainingStep DEF ScriptWorks
  <2>2. LauncherType' /\ Maps'
    BY <1>1, <2>1 DEF lvars, runvars, LauncherType, Maps, Left2Do
  <2>3. ScriptOrder'
    BY <1>1, <2>1 DEF lvars, runvars, ScriptOrder
  <2>. QED
    BY <2>1, <2>2, <2>3 DEF LaunchInv
<1>3. CASE \E n \in Dirs : StageStep(n)
  <2> PICK n \in Dirs : StageStep(n)
    BY <1>3
  <2>1. /\ Working(n) /\ UNCHANGED dvars /\ launcher' = launcher /\ child' = child
        /\ launches' = launches /\ Maps' /\ \A m \in Dirs : m # n => stage'[m] = stage[m]
    BY <1>1, StageFrame
  <2>2. TrainingInv'
    BY <1>1, <2>1, SameTraining
  <2>3. LauncherType'
    BY <1>1, <2>1 DEF LauncherType, Left2Do
  <2>4. ScriptOrder'
    BY <1>1, <2>1 DEF ScriptOrder, Running, dvars
  <2>. QED
    BY <2>1, <2>2, <2>3, <2>4 DEF LaunchInv
<1>4. CASE NewData
  <2>1. /\ TrainingInv' /\ UNCHANGED runvars /\ script' = script
    BY <1>1, <1>4, DataStep DEF NewData, ReplaceData
  <2>. QED
    BY <1>1, <2>1 DEF LaunchInv, lvars, runvars, LauncherType, Maps, Left2Do, ScriptOrder, Running
<1>5. CASE Edit
  <2>1. UNCHANGED <<dvars, launcher, child, stage, launches, audited>>
    BY <1>5 DEF Edit
  <2>2. PICK d \in Dirs, f \in {"alerts", "events", "mapping"} : dir' = [dir EXCEPT ![d][f] = Edited]
    BY <1>5 DEF Edit
  <2>3. TrainingInv'
    BY <1>1, <2>1, SameTraining
  <2>4. Maps'
    BY <1>1, <2>1, <2>2 DEF Maps
  <2>. QED
    BY <1>1, <2>1, <2>3, <2>4 DEF LaunchInv, LauncherType, Left2Do, ScriptOrder, Running, dvars
<1>6. CASE RunAlone
  <2>1. PICK n \in Alone : RunScript(n, FALSE)
    BY <1>6 DEF RunAlone
  <2>2. n \in Scripts /\ launcher = None /\ UNCHANGED runvars
    BY <1>6, LauncherAssumption DEF RunAlone
  <2>3. TrainingInv'
    BY <1>1, <2>1, <2>2, StartStep
  <2>. QED
    BY <1>1, <2>2, <2>3 DEF LaunchInv, lvars, runvars, LauncherType, Maps, Left2Do, ScriptOrder
<1>. QED
  BY <1>2, <1>3, <1>4, <1>5, <1>6

LEMMA LaunchInvStep ==
    ASSUME LaunchInv, [Next]_vars
    PROVE  LaunchInv'
<1>1. CASE UNCHANGED vars
  <2>1. UNCHANGED dvars /\ UNCHANGED lvars
    BY <1>1 DEF vars
  <2>2. TrainingInv'
    BY <2>1, SameTraining DEF LaunchInv
  <2>. QED
    BY <2>1, <2>2 DEF LaunchInv, lvars, runvars, dvars, LauncherType, Maps, Left2Do, ScriptOrder, Running
<1>2. CASE \E c \in Commands : Launch(c)
  BY <1>2, LaunchKeepsOrder
<1>3. CASE StartChild
  BY <1>3, StartKeepsOrder
<1>4. CASE ChildCompleted
  BY <1>4, CompletedKeepsOrder
<1>5. CASE ChildFailed \/ LaunchCompletes \/ Interrupted \/ Killed \/ MachineStops
  BY <1>5, LauncherEndsKeepsOrder
<1>6. CASE ScriptWorks \/ (\E n \in Dirs : StageStep(n)) \/ RunAlone \/ NewData \/ Edit
  BY <1>6, OthersKeepOrder
<1>. QED
  BY <1>1, <1>2, <1>3, <1>4, <1>5, <1>6 DEF Next

LEMMA LaunchInvInit ==
    ASSUME Init
    PROVE  LaunchInv
<1>1. TrainingInv /\ ~Running
  BY TrainingInit DEF Init, DetectorInit, Running
<1>2. LauncherType
  BY LauncherAssumption, ChildNames DEF Init, LauncherType
<1>3. ScriptOrder /\ Maps
  BY DEF Init, ScriptOrder, Maps
<1>. QED
  BY <1>1, <1>2, <1>3 DEF LaunchInv

(* Whatever was interrupted or replaced before: when the last script has   *)
(* run, the exported detector, its calibrator, gate, card and alerts are   *)
(* of the splits on disk, but for the tuned parameters and the cached      *)
(* validation scores, which may be older.                                  *)
(* Code: 02_prepare.py:229-308, 06_tune.py:326-425, 08:205-241, 09:99-249. *)
THEOREM ExportsAreCurrent == Spec => []CompletedExportIsCurrent
<1>1. Init => LaunchInv
  BY LaunchInvInit
<1>2. LaunchInv /\ [Next]_vars => LaunchInv'
  BY LaunchInvStep
<1>3. LaunchInv => CompletedExportIsCurrent
  BY ExportIsCurrent DEF LaunchInv
<1>. QED
  BY <1>1, <1>2, <1>3, PTL DEF Spec

-----------------------------------------------------------------------------
(* What a stage has left to do.                                            *)

LEMMA Tuples ==
    ASSUME NEW S, NEW a \in S, NEW b \in S, NEW c \in S
    PROVE  <<a>> \in Seq(S) /\ <<a, b>> \in Seq(S) /\ <<a, b, c>> \in Seq(S)
  OBVIOUS

LEMMA SixTuples ==
    ASSUME NEW S, NEW a \in S, NEW b \in S, NEW c \in S, NEW d \in S, NEW e \in S, NEW f \in S
    PROVE  <<a, b, c, d, e, f>> \in Seq(S)
  OBVIOUS

LEMMA FiveTuples ==
    ASSUME NEW S, NEW a \in S, NEW b \in S, NEW c \in S, NEW d \in S, NEW e \in S
    PROVE  <<a, b, c, d>> \in Seq(S) /\ <<a, b, c, d, e>> \in Seq(S)
  OBVIOUS

LEMMA EmptyConcat ==
    ASSUME NEW S, NEW t \in Seq(S)
    PROVE  <<>> \o t = t /\ t \o <<>> = t
  BY ConcatEmptySeq

LEMMA OneAndOne ==
    ASSUME NEW S, NEW a \in S, NEW b \in S
    PROVE  <<a>> \o <<b>> = <<a, b>>
<1> DEFINE x == <<a>>
           y == <<b>>
           z == <<a, b>>
<1>1. /\ x \in Seq(S) /\ Len(x) = 1 /\ x[1] = a
      /\ y \in Seq(S) /\ Len(y) = 1 /\ y[1] = b
      /\ z \in Seq(S) /\ Len(z) = 2 /\ z[1] = a /\ z[2] = b
  OBVIOUS
<1> HIDE DEF x, y, z
<1>2. /\ x \o y \in Seq(S) /\ Len(x \o y) = Len(x) + Len(y)
      /\ \A i \in 1 .. Len(x) + Len(y) : (x \o y)[i] = IF i <= Len(x) THEN x[i] ELSE y[i - Len(x)]
  BY <1>1, ConcatProperties, Zenon
<1> DEFINE u == x \o y
<1>3. u \in Seq(S) /\ Len(u) = 2 /\ u[1] = a /\ u[2] = b
  BY <1>1, <1>2
<1> HIDE DEF u
<1>4. Len(u) = Len(z) /\ \A i \in 1 .. Len(u) : u[i] = z[i]
  BY <1>1, <1>3
<1>5. u = z
  BY <1>1, <1>3, <1>4, SeqEqual
<1>. QED
  BY <1>5 DEF u, x, y, z

LEMMA TwoAndOne ==
    ASSUME NEW S, NEW a \in S, NEW b \in S, NEW c \in S
    PROVE  <<a, b>> \o <<c>> = <<a, b, c>>
<1> DEFINE x == <<a, b>>
           y == <<c>>
           z == <<a, b, c>>
<1>1. /\ x \in Seq(S) /\ Len(x) = 2 /\ x[1] = a /\ x[2] = b
      /\ y \in Seq(S) /\ Len(y) = 1 /\ y[1] = c
      /\ z \in Seq(S) /\ Len(z) = 3 /\ z[1] = a /\ z[2] = b /\ z[3] = c
  OBVIOUS
<1> HIDE DEF x, y, z
<1>2. /\ x \o y \in Seq(S) /\ Len(x \o y) = Len(x) + Len(y)
      /\ \A i \in 1 .. Len(x) + Len(y) : (x \o y)[i] = IF i <= Len(x) THEN x[i] ELSE y[i - Len(x)]
  BY <1>1, ConcatProperties, Zenon
<1> DEFINE u == x \o y
<1>3. u \in Seq(S) /\ Len(u) = 3 /\ u[1] = a /\ u[2] = b /\ u[3] = c
  BY <1>1, <1>2
<1> HIDE DEF u
<1>4. Len(u) = Len(z) /\ \A i \in 1 .. Len(u) : u[i] = z[i]
  BY <1>1, <1>3
<1>5. u = z
  BY <1>1, <1>3, <1>4, SeqEqual
<1>. QED
  BY <1>5 DEF u, x, y, z

LEMMA Concats ==
    /\ <<"alerts", "handoff">> \o <<>> = <<"alerts", "handoff">>
    /\ <<"alerts", "handoff">> \o <<"phase2">> = <<"alerts", "handoff", "phase2">>
    /\ <<"phase1">> \o <<"phase2">> = <<"phase1", "phase2">>
    /\ <<"pipeline", "audit", "events", "mapping", "handoff2", "results2">> \o <<>>
           = <<"pipeline", "audit", "events", "mapping", "handoff2", "results2">>
    /\ <<"mkdir", "trials", "results3">> \o <<>> = <<"mkdir", "trials", "results3">>
<1> DEFINE S == {"alerts", "handoff", "phase1", "phase2", "pipeline", "audit", "events", "mapping", "handoff2", "results2", "mkdir", "trials", "results3"}
<1>1.  /\ "alerts" \in S /\ "handoff" \in S /\ "phase1" \in S /\ "phase2" \in S /\ "pipeline" \in S 
       /\ "audit" \in S /\ "events" \in S /\ "mapping" \in S /\ "handoff2" \in S /\ "results2" \in S 
       /\ "mkdir" \in S /\ "trials" \in S /\ "results3" \in S
  OBVIOUS
<1> HIDE DEF S
<1>2. <<"alerts", "handoff">> \o <<"phase2">> = <<"alerts", "handoff", "phase2">> 
  BY <1>1, TwoAndOne
<1>3. <<"phase1">> \o <<"phase2">> = <<"phase1", "phase2">>
  BY <1>1, OneAndOne
<1>4. /\ <<"alerts", "handoff">> \in Seq(S) /\ <<"mkdir", "trials", "results3">> \in Seq(S)
  BY <1>1, Tuples
<1>5. <<"pipeline", "audit", "events", "mapping", "handoff2", "results2">> \in Seq(S)
  BY <1>1, SixTuples
<1>. QED
  BY <1>2, <1>3, <1>4, <1>5, EmptyConcat

LEMMA HeadsOf ==
    /\ Head(<<"phase1">>) = "phase1" /\ Head(<<"phase1", "phase2">>) = "phase1"
    /\ Head(<<"alerts", "handoff">>) = "alerts" /\ Head(<<"alerts", "handoff", "phase2">>) = "alerts"
    /\ Head(<<"handoff">>) = "handoff" /\ Head(<<"handoff", "phase2">>) = "handoff"
    /\ Head(<<"phase2">>) = "phase2"
    /\ Head(<<"pipeline", "audit", "events", "mapping", "handoff2", "results2">>) = "pipeline"
    /\ Head(<<"audit", "events", "mapping", "handoff2", "results2">>) = "audit"
    /\ Head(<<"events", "mapping", "handoff2", "results2">>) = "events"
    /\ Head(<<"mapping", "handoff2", "results2">>) = "mapping"
    /\ Head(<<"handoff2", "results2">>) = "handoff2"
    /\ Head(<<"results2">>) = "results2" /\ Head(<<"phase3">>) = "phase3"
    /\ Head(<<"mkdir", "trials", "results3">>) = "mkdir"
    /\ Head(<<"trials", "results3">>) = "trials" /\ Head(<<"results3">>) = "results3"
  OBVIOUS

(* Which steps follow which, and in which phase.                           *)
LEMMA Tails ==
    /\ Tail(<<"phase1">>) = <<>> /\ Tail(<<"phase1", "phase2">>) = <<"phase2">>
    /\ Tail(<<"alerts", "handoff">>) = <<"handoff">>
    /\ Tail(<<"alerts", "handoff", "phase2">>) = <<"handoff", "phase2">>
    /\ Tail(<<"handoff">>) = <<>> /\ Tail(<<"handoff", "phase2">>) = <<"phase2">>
    /\ Tail(<<"phase2">>) = <<>>
    /\ Tail(<<"pipeline", "audit", "events", "mapping", "handoff2", "results2">>)
           = <<"audit", "events", "mapping", "handoff2", "results2">>
    /\ Tail(<<"audit", "events", "mapping", "handoff2", "results2">>)
           = <<"events", "mapping", "handoff2", "results2">>
    /\ Tail(<<"events", "mapping", "handoff2", "results2">>) = <<"mapping", "handoff2", "results2">>
    /\ Tail(<<"mapping", "handoff2", "results2">>) = <<"handoff2", "results2">>
    /\ Tail(<<"handoff2", "results2">>) = <<"results2">>
    /\ Tail(<<"results2">>) = <<>> /\ Tail(<<"phase3">>) = <<>>
    /\ Tail(<<"mkdir", "trials", "results3">>) = <<"trials", "results3">>
    /\ Tail(<<"trials", "results3">>) = <<"results3">> /\ Tail(<<"results3">>) = <<>>
  OBVIOUS


LEMMA EmptyTails ==
    /\ <<>> \o <<"handoff">> = <<"handoff">> /\ <<>> \o <<"handoff", "phase2">> = <<"handoff", "phase2">>
    /\ <<>> \o <<"phase2">> = <<"phase2">> /\ <<>> \o <<>> = <<>>
    /\ <<>> \o <<"audit", "events", "mapping", "handoff2", "results2">>
           = <<"audit", "events", "mapping", "handoff2", "results2">>
    /\ <<>> \o <<"events", "mapping", "handoff2", "results2">>
           = <<"events", "mapping", "handoff2", "results2">>
    /\ <<>> \o <<"mapping", "handoff2", "results2">> = <<"mapping", "handoff2", "results2">>
    /\ <<>> \o <<"handoff2", "results2">> = <<"handoff2", "results2">>
    /\ <<>> \o <<"results2">> = <<"results2">>
    /\ <<>> \o <<"trials", "results3">> = <<"trials", "results3">>
    /\ <<>> \o <<"results3">> = <<"results3">>
<1> DEFINE S == {"handoff", "phase2", "audit", "events", "mapping", "handoff2", "results2", "trials", "results3"}
<1>1. /\ "handoff" \in S /\ "phase2" \in S /\ "audit" \in S /\ "events" \in S /\ "mapping" \in S
      /\ "handoff2" \in S /\ "results2" \in S /\ "trials" \in S /\ "results3" \in S
  OBVIOUS
<1> HIDE DEF S
<1>2. /\ <<"handoff">> \in Seq(S) /\ <<"handoff", "phase2">> \in Seq(S) /\ <<"phase2">> \in Seq(S)
      /\ <<>> \in Seq(S) /\ <<"mapping", "handoff2", "results2">> \in Seq(S)
      /\ <<"handoff2", "results2">> \in Seq(S) /\ <<"results2">> \in Seq(S)
      /\ <<"trials", "results3">> \in Seq(S) /\ <<"results3">> \in Seq(S)
  BY <1>1, Tuples
<1>3. <<"audit", "events", "mapping", "handoff2", "results2">> \in Seq(S)
  BY <1>1, FiveTuples
<1>4. <<"events", "mapping", "handoff2", "results2">> \in Seq(S)
  BY <1>1, FiveTuples
<1>. QED
  BY <1>2, <1>3, <1>4, EmptyConcat

(* What it has left after its next step.                                   *)
After(t) ==
    CASE First(t) = "phase1" -> <<"alerts", "handoff">> \o Tail(t)
      [] First(t) = "phase2" ->
             <<"pipeline", "audit", "events", "mapping", "handoff2", "results2">> \o Tail(t)
      [] First(t) = "phase3" -> <<"mkdir", "trials", "results3">> \o Tail(t)
      [] OTHER -> <<>> \o Tail(t)
Follows(t, q) ==
    /\ After(t) \in Todo(q)
    /\ First(t) = "phase1" => First(After(t)) = "alerts"
    /\ First(t) = "alerts" => First(After(t)) = "handoff"
    /\ First(t) = "handoff" => First(After(t)) \in {"end", "phase2"}
    /\ First(t) = "phase2" => First(After(t)) = "pipeline"
    /\ First(t) = "pipeline" => First(After(t)) = "audit"
    /\ First(t) = "audit" => First(After(t)) = "events"
    /\ First(t) = "events" => First(After(t)) = "mapping"
    /\ First(t) = "mapping" => First(After(t)) = "handoff2"
    /\ First(t) = "handoff2" => First(After(t)) = "results2"
    /\ First(t) = "results2" => First(After(t)) = "end"
    /\ First(t) = "phase3" => First(After(t)) = "mkdir"
    /\ First(t) = "mkdir" => First(After(t)) = "trials"
    /\ First(t) = "trials" => First(After(t)) = "results3"
    /\ First(t) = "results3" => First(After(t)) = "end"
    /\ First(t) \in {"phase1", "alerts", "handoff", "phase2", "pipeline", "audit", "events", "mapping",
                    "handoff2", "results2", "phase3", "mkdir", "trials", "results3"}
    /\ First(t) = "phase2" => t = <<"phase2">>
    /\ q = 1 => First(t) \in {"phase1", "alerts", "handoff"}
    /\ q = 3 <=> First(t) \in {"phase3", "mkdir", "trials", "results3"}
    /\ After(t) = <<>> =>
          \/ q = 1 /\ First(t) = "handoff"
          \/ q = 2 /\ First(t) = "results2"
          \/ q = 3 /\ First(t) = "results3"

LEMMA TodoFollows ==
    ASSUME NEW q \in 1 .. 3, NEW t \in Todo(q), t # <<>>
    PROVE  Follows(t, q)
<1>1. First(t) = Head(t)
  BY DEF First
<1>2. \A u : u # <<>> => First(u) = Head(u)
  BY DEF First
<1>3. First(<<>>) = "end"
  BY DEF First
<1>4. CASE q = 1
  <2>1. CASE t = <<"phase1">>
    BY <2>1, <1>1, <1>2, <1>4, HeadsOf, Tails, Concats DEF Follows, After, Todo, Phase1Todo
  <2>2. CASE t = <<"alerts", "handoff">>
    BY <2>2, <1>1, <1>2, <1>4, HeadsOf, Tails, EmptyTails DEF Follows, After, Todo, Phase1Todo
  <2>3. CASE t = <<"handoff">>
    <3>1. First(t) = "handoff" /\ After(t) = <<>>
      BY <2>3, <1>1, HeadsOf, Tails, Concats, EmptyTails DEF After
    <3>2. First(After(t)) = "end"
      BY <3>1, <1>2, <1>3, HeadsOf
    <3>3. After(t) \in Todo(1)
      BY <3>1 DEF Todo, Phase1Todo
    <3>4. First(t) = "handoff"
      BY <3>1
    <3>. QED
      BY <3>2, <3>3, <3>4, <1>4 DEF Follows
  <2>. QED
    BY <2>1, <2>2, <2>3, <1>4 DEF Todo, Phase1Todo
<1>5. CASE q = 2
  <2>1. CASE t = <<"phase2">>
    BY <2>1, <1>1, <1>2, <1>3, <1>5, HeadsOf, Tails, Concats, EmptyTails
       DEF Follows, After, Todo, Phase2Todo
  <2>2. CASE t = <<"phase1", "phase2">>
    <3>1. First(t) = "phase1" /\ After(t) = <<"alerts", "handoff", "phase2">>
      BY <2>2, <1>1, HeadsOf, Tails, Concats, EmptyTails DEF After
    <3>2. First(After(t)) = "alerts"
      BY <3>1, <1>2, <1>3, HeadsOf
    <3>3. After(t) \in Todo(2)
      BY <3>1 DEF Todo, Phase2Todo
    <3>. QED
      BY <2>2, <3>1, <3>2, <3>3, <1>5 DEF Follows
  <2>3. CASE t = <<"alerts", "handoff", "phase2">>
    BY <2>3, <1>1, <1>2, <1>3, <1>5, HeadsOf, Tails, Concats, EmptyTails
       DEF Follows, After, Todo, Phase2Todo
  <2>4. CASE t = <<"handoff", "phase2">>
    BY <2>4, <1>1, <1>2, <1>3, <1>5, HeadsOf, Tails, Concats, EmptyTails
       DEF Follows, After, Todo, Phase2Todo
  <2>5. CASE t = <<"pipeline", "audit", "events", "mapping", "handoff2", "results2">>
    BY <2>5, <1>1, <1>2, <1>3, <1>5, HeadsOf, Tails, Concats, EmptyTails
       DEF Follows, After, Todo, Phase2Todo
  <2>6. CASE t = <<"audit", "events", "mapping", "handoff2", "results2">>
    BY <2>6, <1>1, <1>2, <1>3, <1>5, HeadsOf, Tails, Concats, EmptyTails
       DEF Follows, After, Todo, Phase2Todo
  <2>7. CASE t = <<"events", "mapping", "handoff2", "results2">>
    BY <2>7, <1>1, <1>2, <1>3, <1>5, HeadsOf, Tails, Concats, EmptyTails
       DEF Follows, After, Todo, Phase2Todo
  <2>8. CASE t = <<"mapping", "handoff2", "results2">>
    BY <2>8, <1>1, <1>2, <1>3, <1>5, HeadsOf, Tails, Concats, EmptyTails
       DEF Follows, After, Todo, Phase2Todo
  <2>9. CASE t = <<"handoff2", "results2">>
    BY <2>9, <1>1, <1>2, <1>3, <1>5, HeadsOf, Tails, Concats, EmptyTails
       DEF Follows, After, Todo, Phase2Todo
  <2>10. CASE t = <<"results2">>
    <3>1. First(t) = "results2" /\ After(t) = <<>>
      BY <2>10, <1>1, HeadsOf, Tails, Concats, EmptyTails DEF After
    <3>2. First(After(t)) = "end"
      BY <3>1, <1>2, <1>3, HeadsOf
    <3>3. After(t) \in Todo(2)
      BY <3>1 DEF Todo, Phase2Todo
    <3>4. First(t) = "results2"
      BY <3>1
    <3>. QED
      BY <3>2, <3>3, <3>4, <1>5 DEF Follows
  <2>. QED
    BY <2>1, <2>2, <2>3, <2>4, <2>5, <2>6, <2>7, <2>8, <2>9, <2>10, <1>5 DEF Todo, Phase2Todo
<1>6. CASE q = 3
  <2>1. CASE t = <<"phase3">>
    BY <2>1, <1>1, <1>2, <1>3, <1>6, HeadsOf, Tails, Concats, EmptyTails
       DEF Follows, After, Todo, Phase3Todo
  <2>2. CASE t = <<"mkdir", "trials", "results3">>
    BY <2>2, <1>1, <1>2, <1>3, <1>6, HeadsOf, Tails, Concats, EmptyTails
       DEF Follows, After, Todo, Phase3Todo
  <2>3. CASE t = <<"trials", "results3">>
    BY <2>3, <1>1, <1>2, <1>3, <1>6, HeadsOf, Tails, Concats, EmptyTails
       DEF Follows, After, Todo, Phase3Todo
  <2>4. CASE t = <<"results3">>
    BY <2>4, <1>1, <1>2, <1>3, <1>6, HeadsOf, Tails, Concats, EmptyTails
       DEF Follows, After, Todo, Phase3Todo
  <2>. QED
    BY <2>1, <2>2, <2>3, <2>4, <1>6 DEF Todo, Phase3Todo
<1>. QED
  BY <1>4, <1>5, <1>6

LEMMA TodoIs ==
    ASSUME NEW t \in AllTodo
    PROVE  \E q \in 1 .. 3 : t \in Todo(q)
  BY DEF AllTodo, Todo

-----------------------------------------------------------------------------
(* A step of a stage: what it does to its own part, to the directory and   *)
(* to the other stages.                                                    *)

StagesInv == StageInv /\ \A d \in Dirs : DirOK(d)

(* The directory stays in order, and what was there whole stays there.     *)
DirKept(n) ==
    \A d \in Dirs : d = stage[n].dir =>
        /\ DirOK(d)'
        /\ \A p \in 1 .. 3 : Out(p, d) => Out(p, d)'
        /\ dir'[d].status = dir[d].status /\ dir'[d].step = dir[d].step
        /\ dir'[d].phases = dir[d].phases
        /\ stage[n].todo \in Phase1Todo => dir'[d].phase2 = dir[d].phase2
OthersKept(n) == \A m \in Dirs : m # n /\ Working(m) => StageOK(m)'
GoesOnWith(n, q) ==
    /\ stage'[n].dir = stage[n].dir /\ stage'[n].mode = stage[n].mode
    /\ stage'[n].todo \in Todo(q)
    /\ stage'[n].todo = <<>> => \A d \in Dirs : d = stage[n].dir => Out(q, d)'
Moves(n) ==
    /\ StageOK(n)'
    /\ \A q \in 1 .. 3 : stage[n].todo \in Todo(q) => GoesOnWith(n, q)
Local(n) == Moves(n) /\ OthersKept(n) /\ DirKept(n)

LEMMA SameStage ==
    ASSUME NEW m \in Dirs, stage'[m] = stage[m], launches' = launches,
           dir'[stage[m].dir] = dir[stage[m].dir], audited'[stage[m].dir] = audited[stage[m].dir],
           StageOK(m)
    PROVE  StageOK(m)'
<1>1. Step(m)' = Step(m) /\ Dir(m)' = Dir(m) /\ (Smoke(m)' <=> Smoke(m))
      /\ stage'[m].dir = stage[m].dir
  BY DEF Step, Dir, Smoke
<1>2. StageShape(m)'
  BY <1>1 DEF StageOK, StageShape
<1>3. \A f : Unsaved(m, f) <=> Unsaved(m, f)'
  BY <1>1 DEF Unsaved
<1>4. AtPhase1(m)'
  BY <1>1, <1>3 DEF StageOK, AtPhase1, Rows1
<1>5. AtPhase2(m)'
  BY <1>1, <1>3 DEF StageOK, AtPhase2, Made
<1>6. Out2(stage[m].dir)' <=> Out2(stage[m].dir)
  BY DEF Out2
<1>7. AtPhase3(m)'
  BY <1>1, <1>3, <1>6 DEF StageOK, AtPhase3
<1>. QED
  BY <1>2, <1>4, <1>5, <1>7 DEF StageOK

LEMMA SameDir ==
    ASSUME NEW d \in Dirs, dir'[d] = dir[d], audited'[d] = audited[d], DirOK(d),
           launches' \in {launches, launches + 1}, launches \in Nat, d > launches' => d > launches
    PROVE  /\ DirOK(d)'
           /\ \A p \in 1 .. 3 : Out(p, d) => Out(p, d)'
<1>1. DirOK(d)'
  BY DEF DirOK
<1>2. \A p \in 1 .. 3 : Out(p, d) => Out(p, d)'
  BY DEF Out, Out2
<1>. QED
  BY <1>1, <1>2

(* The working stages, their directories and the types of both.            *)
LEMMA StageFacts ==
    ASSUME LaunchInv, StagesInv, NEW n \in Dirs, Working(n)
    PROVE  /\ StageOK(n) /\ StageShape(n)
           /\ stage[n].dir \in Dirs /\ DirOK(stage[n].dir) /\ launches \in 0 .. MaxLaunches
           /\ n \in Nat \ {0} /\ stage[n].dir <= launches /\ n <= launches
<1>1. StageOK(n) /\ StageShape(n)
  BY DEF StagesInv, StageInv, StageOK
<1>2. launches \in 0 .. MaxLaunches /\ MaxLaunches \in Nat
  BY LauncherAssumption DEF LaunchInv, LauncherType
<1>3. /\ stage[n].dir \in Dirs /\ n \in Nat \ {0} /\ stage[n].dir <= launches /\ n <= launches
  BY <1>1, <1>2 DEF StageShape, Dirs
<1>. QED
  BY <1>1, <1>2, <1>3 DEF StagesInv

(* Nothing in the directories changes.                                     *)
LEMMA Quiet ==
    ASSUME LaunchInv, StagesInv, NEW n \in Dirs, StageStep(n), dir' = dir, audited' = audited
    PROVE  OthersKept(n) /\ DirKept(n)
<1>1. /\ Working(n) /\ UNCHANGED dvars /\ launches' = launches
      /\ \A m \in Dirs : m # n => stage'[m] = stage[m]
  BY StageFrame DEF LaunchInv
<1>2. stage[n].dir \in Dirs /\ DirOK(stage[n].dir) /\ launches \in Nat
  BY <1>1, StageFacts
<1>3. DirKept(n)
  <2> SUFFICES ASSUME NEW d \in Dirs, d = stage[n].dir
               PROVE  DirOK(d)' /\ \A p \in 1 .. 3 : Out(p, d) => Out(p, d)'
    BY <1>1 DEF DirKept
  <2>1. dir'[d] = dir[d] /\ audited'[d] = audited[d] /\ DirOK(d)
    BY <1>2
  <2>. QED
    BY <2>1, <1>1, <1>2, SameDir
<1>4. ASSUME NEW m \in Dirs, m # n, Working(m)
      PROVE  StageOK(m)'
  <2>1. StageOK(m)
    BY <1>4, StageFacts
  <2>. QED
    BY <1>1, <1>4, <2>1, SameStage
<1>. QED
  BY <1>3, <1>4 DEF OthersKept

(* A step before results2 is of the only stage that is in its directory's  *)
(* files: no other has got past the check of the second hand-off.          *)
Before == {"phase1", "alerts", "handoff", "phase2", "pipeline", "audit", "events", "mapping", "handoff2"}
LEMMA BeforeTheSecond ==
    ASSUME LaunchInv, StagesInv, NEW n \in Dirs, Working(n), Step(n) \in Before
    PROVE  /\ ~Whole(dir[stage[n].dir].handoff2) /\ stage[n].dir = n
           /\ \A m \in Dirs : m # n /\ Working(m) /\ stage[m].dir = stage[n].dir =>
                 Step(m) \in {"phase3", "end"}
<1>1. /\ StageOK(n) /\ StageShape(n) /\ DirOK(stage[n].dir) /\ stage[n].dir \in Dirs
  BY StageFacts
<1>2. ~Whole(dir[stage[n].dir].handoff2)
  <2>1. ~Dir(n).phase2 \/ Unsaved(n, "handoff2")
    BY <1>1 DEF StageOK, AtPhase1, AtPhase2, Before
  <2>2. CASE ~Dir(n).phase2
    BY <1>1, <2>2 DEF DirOK, Dir, Whole
  <2>3. CASE Unsaved(n, "handoff2")
    BY <2>3 DEF Unsaved, Dir, Whole
  <2>. QED
    BY <2>1, <2>2, <2>3
<1>3. ASSUME NEW m \in Dirs, Working(m), stage[m].todo # <<>>, stage[m].todo \in AllTodo
      PROVE  stage[m].todo \in Phase3Todo <=> Step(m) \in {"phase3", "mkdir", "trials", "results3"}
  <2>1. PICK q \in 1 .. 3 : stage[m].todo \in Todo(q)
    BY <1>3, TodoIs
  <2>2. Follows(stage[m].todo, q)
    BY <1>3, <2>1, TodoFollows
  <2>3. CASE stage[m].todo \in Phase3Todo
    <3>1. Follows(stage[m].todo, 3)
      BY <2>3, <1>3, TodoFollows DEF Todo
    <3>. QED
      BY <2>3, <3>1 DEF Follows, Step
  <2>4. CASE stage[m].todo \notin Phase3Todo
    <3>1. q # 3
      BY <2>4, <2>1 DEF Todo
    <3>. QED
      BY <2>4, <3>1, <2>2 DEF Follows, Step
  <2>. QED
    BY <2>3, <2>4
<1>4. stage[n].todo # <<>>
  BY DEF Before, Step, First
<1>5. stage[n].dir = n
  BY <1>1, <1>3, <1>4 DEF StageShape, Before
<1>6. ASSUME NEW m \in Dirs, m # n, Working(m), stage[m].dir = stage[n].dir
      PROVE  Step(m) \in {"phase3", "end"}
  <2>1. StageOK(m) /\ StageShape(m)
    BY <1>6, StageFacts
  <2>2. stage[m].todo \in Phase3Todo
    BY <2>1, <1>5, <1>6 DEF StageShape
  <2>3. CASE stage[m].todo = <<>>
    BY <2>3 DEF Step, First
  <2>4. CASE stage[m].todo # <<>>
    <3>1. Step(m) \in {"phase3", "mkdir", "trials", "results3"}
      BY <2>1, <2>2, <2>4, <1>3, <1>6 DEF StageShape
    <3>2. Step(m) \in {"mkdir", "trials", "results3"} => Out2(stage[m].dir)
      BY <2>1 DEF StageOK, AtPhase3
    <3>. QED
      BY <3>1, <3>2, <1>2, <1>6 DEF Out2
  <2>. QED
    BY <2>3, <2>4
<1>. QED
  BY <1>2, <1>5, <1>6

(* A stage that has not begun with phase 3, or ended, has nothing at stake. *)
LEMMA NothingAtStake ==
    ASSUME NEW m \in Dirs, stage'[m] = stage[m], launches' = launches,
           StageOK(m), Step(m) \in {"phase3", "end"}
    PROVE  StageOK(m)'
<1>1. Step(m)' = Step(m)
  BY DEF Step
<1>2. StageShape(m)'
  BY <1>1 DEF StageOK, StageShape
<1>3. AtPhase1(m)' /\ AtPhase2(m)' /\ AtPhase3(m)'
  BY <1>1 DEF AtPhase1, AtPhase2, AtPhase3
<1>. QED
  BY <1>2, <1>3 DEF StageOK

LEMMA OthersBefore ==
    ASSUME LaunchInv, StagesInv, NEW n \in Dirs, StageStep(n), Step(n) \in Before
    PROVE  OthersKept(n)
<1>1. /\ Working(n) /\ UNCHANGED dvars /\ launches' = launches
      /\ \A m \in Dirs : m # n => stage'[m] = stage[m]
      /\ \A e \in Dirs : e # stage[n].dir => dir'[e] = dir[e] /\ audited'[e] = audited[e]
  BY StageFrame DEF LaunchInv
<1>2. ASSUME NEW m \in Dirs, m # n, Working(m)
      PROVE  StageOK(m)'
  <2>1. StageOK(m) /\ stage[m].dir \in Dirs
    BY <1>2, StageFacts
  <2>2. CASE stage[m].dir = stage[n].dir
    <3>1. Step(m) \in {"phase3", "end"}
      BY <1>1, <1>2, <2>2, BeforeTheSecond
    <3>. QED
      BY <1>1, <1>2, <2>1, <3>1, NothingAtStake
  <2>3. CASE stage[m].dir # stage[n].dir
    BY <1>1, <1>2, <2>1, <2>3, SameStage
  <2>. QED
    BY <2>2, <2>3
<1>. QED
  BY <1>2 DEF OthersKept

(* The next steps of a stage that has done its step.                       *)
Turns(n) ==
    /\ StageShape(n)'
    /\ stage'[n].dir = stage[n].dir /\ stage'[n].mode = stage[n].mode /\ stage'[n].open = FALSE
    /\ Step(n) = "phase1" => Step(n)' = "alerts"
    /\ Step(n) = "alerts" => Step(n)' = "handoff"
    /\ Step(n) = "handoff" => Step(n)' \in {"end", "phase2"}
    /\ Step(n) = "phase2" => Step(n)' = "pipeline"
    /\ Step(n) = "pipeline" => Step(n)' = "audit"
    /\ Step(n) = "audit" => Step(n)' = "events"
    /\ Step(n) = "events" => Step(n)' = "mapping"
    /\ Step(n) = "mapping" => Step(n)' = "handoff2"
    /\ Step(n) = "handoff2" => Step(n)' = "results2"
    /\ Step(n) = "results2" => Step(n)' = "end"
    /\ Step(n) = "phase3" => Step(n)' = "mkdir"
    /\ Step(n) = "mkdir" => Step(n)' = "trials"
    /\ Step(n) = "trials" => Step(n)' = "results3"
    /\ Step(n) = "results3" => Step(n)' = "end"
    /\ \A q \in 1 .. 3 : stage[n].todo \in Todo(q) =>
          /\ stage'[n].todo \in Todo(q)
          /\ stage'[n].todo = <<>> =>
                \/ q = 1 /\ Step(n) = "handoff"
                \/ q = 2 /\ Step(n) = "results2"
                \/ q = 3 /\ Step(n) = "results3"

LEMMA NextTurn ==
    ASSUME LaunchInv, StagesInv, NEW n \in Dirs, Working(n), stage[n].todo # <<>>, launches' = launches,
           stage'[n] = [f \in StageFields |-> stage'[n][f]],
           stage'[n].dir = stage[n].dir, stage'[n].mode = stage[n].mode,
           stage'[n].todo = After(stage[n].todo), stage'[n].open = FALSE
    PROVE  Turns(n)
<1>1. StageShape(n)
  BY StageFacts
<1>2. ASSUME NEW q \in 1 .. 3, stage[n].todo \in Todo(q)
      PROVE  Follows(stage[n].todo, q)
  BY <1>2, TodoFollows
<1>3. PICK q \in 1 .. 3 : stage[n].todo \in Todo(q)
  BY <1>1, TodoIs DEF StageShape
<1>4. Follows(stage[n].todo, q)
  BY <1>2, <1>3
<1>5. /\ Step(n) = First(stage[n].todo) /\ Step(n)' = First(After(stage[n].todo))
      /\ stage'[n].dir = stage[n].dir /\ stage'[n].mode = stage[n].mode /\ stage'[n].open = FALSE
      /\ stage'[n].todo = After(stage[n].todo)
  BY DEF Step
<1>6. StageShape(n)'
  <2>1. stage'[n].todo \in AllTodo
    BY <1>3, <1>4, <1>5 DEF Follows, AllTodo, Todo
  <2>2. stage'[n].todo \notin Phase3Todo => stage'[n].dir = n
    <3>1. CASE stage[n].todo \in Phase3Todo
      <4>1. Follows(stage[n].todo, 3)
        BY <3>1, <1>2 DEF Todo
      <4>. QED
        BY <4>1, <1>5 DEF Follows, Todo
    <3>2. CASE stage[n].todo \notin Phase3Todo
      BY <3>2, <1>1, <1>5 DEF StageShape
    <3>. QED
      BY <3>1, <3>2
  <2>. QED
    BY <2>1, <2>2, <1>1, <1>5 DEF StageShape
<1>7. \A p \in 1 .. 3 : stage[n].todo \in Todo(p) =>
          /\ stage'[n].todo \in Todo(p)
          /\ stage'[n].todo = <<>> =>
                \/ p = 1 /\ Step(n) = "handoff"
                \/ p = 2 /\ Step(n) = "results2"
                \/ p = 3 /\ Step(n) = "results3"
  BY <1>2, <1>5 DEF Follows
<1>. QED
  BY <1>4, <1>5, <1>6, <1>7 DEF Follows, Turns

(* Then(), and the step it is after.                                       *)
LEMMA ThenTurns ==
    ASSUME LaunchInv, StagesInv, NEW n \in Dirs, Working(n), stage[n].todo # <<>>, launches' = launches,
           NEW steps, steps \o Tail(stage[n].todo) = After(stage[n].todo), NEW rows,
           stage' = [stage EXCEPT ![n].todo = steps \o Tail(@), ![n].rows = rows, ![n].open = FALSE]
    PROVE  Turns(n) /\ stage'[n].rows = rows
<1>1. StageShape(n) /\ Maps
  BY StageFacts DEF LaunchInv
<1>2. stage' = [stage EXCEPT ![n].todo = steps \o Tail(stage[n].todo), ![n].rows = rows, ![n].open = FALSE]
  OBVIOUS
<1> DEFINE s == stage[n]
           x == After(stage[n].todo)
<1>3. s = [f \in StageFields |-> s[f]] /\ {"dir", "mode", "todo", "rows", "open"} \subseteq StageFields
  BY <1>1 DEF StageShape, StageFields
<1>4. stage'[n] = [s EXCEPT !.todo = x, !.rows = rows, !.open = FALSE]
  BY <1>1, <1>2 DEF Maps
<1> HIDE DEF s, x
<1>5. /\ stage'[n] = [f \in StageFields |-> stage'[n][f]]
      /\ stage'[n].dir = s.dir /\ stage'[n].mode = s.mode /\ stage'[n].todo = x
      /\ stage'[n].rows = rows /\ stage'[n].open = FALSE
  BY <1>3, <1>4
<1>. QED
  BY <1>5, NextTurn DEF s, x

(* The steps that are not the first of a phase.                            *)
Later == {"alerts", "handoff", "pipeline", "audit", "events", "mapping", "handoff2", "results2",
          "mkdir", "trials", "results3"}
LEMMA DoneTurns ==
    ASSUME LaunchInv, StagesInv, NEW n \in Dirs, Working(n), launches' = launches,
           Step(n) \in Later, Done(n)
    PROVE  Turns(n) /\ stage'[n].rows = stage[n].rows
<1>1. stage[n].todo # <<>>
  BY DEF Later, Step, First
<1>2. <<>> \o Tail(stage[n].todo) = After(stage[n].todo)
  BY DEF Step, After, Later
<1>3. stage' = [stage EXCEPT ![n].todo = <<>> \o Tail(@), ![n].rows = stage[n].rows, ![n].open = FALSE]
  BY DEF Done, Then
<1>. QED
  BY <1>1, <1>2, <1>3, ThenTurns

LEMMA AtStep ==
    ASSUME NEW n \in Dirs, NEW x, At(n, x)
    PROVE  stage[n].todo # <<>> /\ Step(n) = x /\ First(stage[n].todo) = x
  BY DEF At, Step, First

LEMMA PrepareLocal ==
    ASSUME LaunchInv, StagesInv, NEW n \in Dirs, StageStep(n), Prepare(n)
    PROVE  Local(n)
<1>1. /\ Working(n) /\ UNCHANGED dvars /\ launches' = launches /\ dir' = dir /\ audited' = audited
      /\ out' = out
  BY StageFrame DEF LaunchInv, Prepare, dvars
<1>2. /\ StageOK(n) /\ StageShape(n) /\ stage[n].todo # <<>> /\ Step(n) = "phase1"
      /\ First(stage[n].todo) = "phase1"
  BY <1>1, StageFacts, AtStep DEF Prepare
<1> DEFINE rows == IF Smoke(n) THEN [by |-> Synthetic, version |-> Synthetic] ELSE out["alerts"]
<1>3. stage' = [stage EXCEPT ![n].todo = <<"alerts", "handoff">> \o Tail(@), ![n].rows = rows,
                             ![n].open = FALSE]
  BY DEF Prepare, Then
<1>4. <<"alerts", "handoff">> \o Tail(stage[n].todo) = After(stage[n].todo)
  BY <1>2 DEF After
<1> HIDE DEF rows
<1>5. Turns(n) /\ stage'[n].rows = rows
  BY <1>1, <1>2, <1>3, <1>4, ThenTurns
<1>6. /\ Step(n)' = "alerts" /\ Dir(n)' = Dir(n) /\ (Smoke(n)' <=> Smoke(n)) /\ StageShape(n)'
  BY <1>1, <1>2, <1>5 DEF Turns, Dir, Smoke
<1>7. rows \in Rows /\ (Smoke(n) <=> rows.by = Synthetic)
  <2>1. CASE Smoke(n)
    BY <2>1 DEF rows, Rows
  <2>2. CASE ~Smoke(n)
    <3>1. Whole(out["alerts"]) /\ rows = out["alerts"]
      BY <2>2 DEF Prepare, rows
    <3>2. rows \in AlertRows
      BY <3>1 DEF LaunchInv, TrainingInv, TypeOK, OutType, Whole
    <3>3. rows.by # Synthetic
      BY <3>2, ValueAssumption DEF AlertRows
    <3>. QED
      BY <2>2, <3>2, <3>3 DEF Rows
  <2>. QED
    BY <2>1, <2>2
<1>9. Rows1(n)'
  BY <1>1, <1>5, <1>6, <1>7 DEF Rows1
<1>10. AtPhase1(n)'
  <2>1. ~Dir(n).phase2 /\ Dir(n).handoff = None
    BY <1>2 DEF StageOK, AtPhase1, Unsaved, Saves, StageShape
  <2>. QED
    BY <2>1, <1>6, <1>9 DEF AtPhase1, Unsaved
<1>11. AtPhase2(n)' /\ AtPhase3(n)'
  BY <1>6 DEF AtPhase2, AtPhase3
<1>12. Moves(n)
  BY <1>2, <1>5, <1>6, <1>10, <1>11 DEF Moves, StageOK, GoesOnWith, Turns
<1>. QED
  BY <1>1, <1>12, Quiet DEF Local

LEMMA Phase2Local ==
    ASSUME LaunchInv, StagesInv, NEW n \in Dirs, StageStep(n), Phase2(n)
    PROVE  Local(n)
<1>1. /\ Working(n) /\ UNCHANGED dvars /\ launches' = launches /\ dir' = dir /\ audited' = audited
      /\ out' = out
  BY StageFrame DEF LaunchInv, Phase2, dvars
<1>2. /\ StageOK(n) /\ StageShape(n) /\ stage[n].todo # <<>> /\ Step(n) = "phase2"
      /\ First(stage[n].todo) = "phase2" /\ DirOK(stage[n].dir) /\ Maps
  BY <1>1, StageFacts, AtStep DEF Phase2, LaunchInv
<1>3. PICK q \in 1 .. 3 : stage[n].todo \in Todo(q)
  BY <1>2, TodoIs DEF StageShape
<1>4. stage[n].todo = <<"phase2">>
  BY <1>2, <1>3, TodoFollows DEF Follows
<1>5. ~Dir(n).phase2 /\ stage[n].dir = n
  <2>1. stage[n].dir = n
    BY <1>1, <1>2, BeforeTheSecond DEF Before
  <2>. QED
    BY <2>1, <1>2 DEF StageOK, AtPhase2
<1>6. CASE Dir(n).handoff = None /\ stage' = [stage EXCEPT ![n].todo = <<"phase1">> \o @]
  <2>1. stage' = [stage EXCEPT ![n].todo = <<"phase1">> \o stage[n].todo]
    BY <1>6
  <2>2. /\ stage'[n] = [f \in StageFields |-> stage'[n][f]]
        /\ stage'[n].dir = stage[n].dir /\ stage'[n].mode = stage[n].mode
        /\ stage'[n].todo = <<"phase1", "phase2">>
        /\ stage'[n].rows = stage[n].rows /\ stage'[n].open = stage[n].open
    <3> DEFINE s == stage[n]
               x == <<"phase1">> \o stage[n].todo
    <3>1. s = [f \in StageFields |-> s[f]] /\ {"dir", "mode", "todo", "rows", "open"} \subseteq StageFields
      BY <1>2 DEF StageShape, StageFields
    <3>2. stage'[n] = [s EXCEPT !.todo = x]
      BY <1>2, <2>1 DEF Maps
    <3>3. x = <<"phase1", "phase2">>
      BY <1>4, Concats
    <3> HIDE DEF s, x
    <3>4. /\ stage'[n] = [f \in StageFields |-> stage'[n][f]]
          /\ stage'[n].dir = s.dir /\ stage'[n].mode = s.mode /\ stage'[n].todo = x
          /\ stage'[n].rows = s.rows /\ stage'[n].open = s.open
      BY <3>1, <3>2
    <3>. QED
      BY <3>3, <3>4 DEF s
  <2>3. /\ Step(n)' = "phase1" /\ Dir(n)' = Dir(n) /\ stage[n].open = FALSE
        /\ stage'[n].dir = stage[n].dir /\ stage'[n].mode = stage[n].mode /\ stage'[n].open = FALSE
        /\ stage'[n].todo = <<"phase1", "phase2">> /\ stage'[n].rows = stage[n].rows
    <3>1. stage[n].open = FALSE
      BY <1>2 DEF StageShape, Saves
    <3>2. Step(n)' = "phase1"
      <4>1. <<"phase1", "phase2">> # <<>> /\ Head(<<"phase1", "phase2">>) = "phase1"
        OBVIOUS
      <4>. QED
        BY <4>1, <2>2 DEF Step, First
    <3>. QED
      BY <3>1, <3>2, <2>2, <1>1 DEF Dir
  <2>4. <<"phase1", "phase2">> \in Phase2Todo /\ <<"phase1", "phase2">> # <<>>
    BY DEF Phase2Todo
  <2>5. StageShape(n)'
    <3>. QED
      BY <2>2, <2>3, <2>4, <1>1, <1>2, <1>5 DEF StageShape, AllTodo
  <2>6. AtPhase1(n)' /\ AtPhase2(n)' /\ AtPhase3(n)'
    BY <2>3, <1>5, <1>6 DEF AtPhase1, AtPhase2, AtPhase3, Unsaved
  <2>7. \A p \in 1 .. 3 : stage[n].todo \in Todo(p) => p = 2
    <3>1. ASSUME NEW p \in 1 .. 3, stage[n].todo \in Todo(p)
          PROVE  Follows(stage[n].todo, p)
      BY <3>1, <1>2, TodoFollows
    <3>. QED
      BY <3>1, <1>2 DEF Follows
  <2>8. Moves(n)
    BY <2>3, <2>4, <2>5, <2>6, <2>7 DEF Moves, StageOK, GoesOnWith, Todo
  <2>. QED
    BY <1>1, <2>8, Quiet DEF Local
<1>7. CASE /\ HandoffFits(n)
           /\ Then(n, <<"pipeline", "audit", "events", "mapping", "handoff2", "results2">>,
                   Dir(n).alerts)
  <2>1. stage' = [stage EXCEPT
                     ![n].todo = <<"pipeline", "audit", "events", "mapping", "handoff2", "results2">> \o Tail(@),
                     ![n].rows = Dir(n).alerts, ![n].open = FALSE]
    BY <1>7 DEF Then
  <2>2. <<"pipeline", "audit", "events", "mapping", "handoff2", "results2">> \o Tail(stage[n].todo)
            = After(stage[n].todo)
    BY <1>2 DEF After
  <2>3. Turns(n) /\ stage'[n].rows = Dir(n).alerts
    BY <1>1, <1>2, <2>1, <2>2, ThenTurns
  <2>4. /\ Step(n)' = "pipeline" /\ Dir(n)' = Dir(n) /\ StageShape(n)'
    BY <1>1, <1>2, <2>3 DEF Turns, Dir
  <2>5. AtPhase1(n)' /\ AtPhase3(n)'
    BY <2>4 DEF AtPhase1, AtPhase3
  <2>6. AtPhase2(n)'
    BY <2>3, <2>4, <1>5, <1>7 DEF AtPhase2, HandoffFits
  <2>7. Moves(n)
    BY <2>3, <2>4, <2>5, <2>6, <1>2 DEF Moves, StageOK, GoesOnWith, Turns
  <2>. QED
    BY <1>1, <2>7, Quiet DEF Local
<1>. QED
  BY <1>6, <1>7 DEF Phase2

LEMMA Phase3Local ==
    ASSUME LaunchInv, StagesInv, NEW n \in Dirs, StageStep(n), Phase3(n)
    PROVE  Local(n)
<1>1. /\ Working(n) /\ UNCHANGED dvars /\ launches' = launches /\ dir' = dir /\ audited' = audited
  BY StageFrame DEF LaunchInv, Phase3
<1>2. /\ StageOK(n) /\ StageShape(n) /\ stage[n].todo # <<>> /\ Step(n) = "phase3"
      /\ First(stage[n].todo) = "phase3" /\ DirOK(stage[n].dir)
  BY <1>1, StageFacts, AtStep DEF Phase3
<1>3. stage' = [stage EXCEPT ![n].todo = <<"mkdir", "trials", "results3">> \o Tail(@),
                             ![n].rows = Dir(n).events, ![n].open = FALSE]
  BY DEF Phase3, Then
<1>4. <<"mkdir", "trials", "results3">> \o Tail(stage[n].todo) = After(stage[n].todo)
  BY <1>2 DEF After
<1>5. Turns(n) /\ stage'[n].rows = Dir(n).events
  BY <1>1, <1>2, <1>3, <1>4, ThenTurns
<1>6. /\ Step(n)' = "mkdir" /\ StageShape(n)' /\ stage'[n].dir = stage[n].dir
      /\ (Smoke(n)' <=> Smoke(n))
  BY <1>2, <1>5 DEF Turns, Smoke
<1>7. /\ Whole(Dir(n).handoff2) /\ (Dir(n).handoff2.synthetic <=> Smoke(n))
      /\ Dir(n).handoff2.events = Dir(n).events /\ Dir(n).handoff2.mapping = Dir(n).mapping
  BY DEF Phase3, EventsFit
<1>8. /\ audited[stage[n].dir] \in Rows
      /\ Dir(n).events = [of |-> audited[stage[n].dir]] /\ Dir(n).mapping = [of |-> audited[stage[n].dir]]
      /\ Smoke(n) <=> audited[stage[n].dir].by = Synthetic
  BY <1>2, <1>7 DEF DirOK, Dir, SecondOK
<1>9. Dir(n).events \in Lines /\ Dir(n).mapping \in Lines
  BY <1>8 DEF Lines
<1>10. Whole(Dir(n).events) /\ Whole(Dir(n).mapping)
  BY <1>9, ValueAssumption DEF Whole
<1>11. Whole(Dir(n).handoff)
  BY <1>2, <1>7 DEF DirOK, Dir, Whole
<1>12. Out2(stage[n].dir)
  BY <1>7, <1>10, <1>11 DEF Out2, Dir
<1>13. AtPhase3(n)'
  BY <1>1, <1>5, <1>6, <1>8, <1>12 DEF AtPhase3, Out2
<1>14. AtPhase1(n)' /\ AtPhase2(n)'
  BY <1>6 DEF AtPhase1, AtPhase2
<1>15. Moves(n)
  BY <1>2, <1>5, <1>6, <1>13, <1>14 DEF Moves, StageOK, GoesOnWith, Turns
<1>. QED
  BY <1>1, <1>15, Quiet DEF Local

LEMMA TrialsLocal ==
    ASSUME LaunchInv, StagesInv, NEW n \in Dirs, StageStep(n), Trials(n)
    PROVE  Local(n)
<1>1. /\ Working(n) /\ UNCHANGED dvars /\ launches' = launches /\ dir' = dir /\ audited' = audited
  BY StageFrame DEF LaunchInv, Trials
<1>2. /\ StageOK(n) /\ StageShape(n) /\ Step(n) = "trials"
  BY <1>1, StageFacts, AtStep DEF Trials
<1>3. Turns(n) /\ stage'[n].rows = stage[n].rows
  BY <1>1, <1>2, DoneTurns DEF Trials, Later
<1>4. /\ Step(n)' = "results3" /\ StageShape(n)' /\ stage'[n].dir = stage[n].dir
      /\ stage'[n].open = FALSE /\ (Smoke(n)' <=> Smoke(n)) /\ Dir(n)' = Dir(n)
  BY <1>1, <1>2, <1>3 DEF Turns, Smoke, Dir
<1>5. AtPhase1(n)' /\ AtPhase2(n)'
  BY <1>4 DEF AtPhase1, AtPhase2
<1>6. Dir(n).results3 = None
  BY <1>2 DEF StageOK, AtPhase3, Unsaved, StageShape, Saves
<1>7. AtPhase3(n)'
  BY <1>1, <1>2, <1>3, <1>4, <1>6 DEF StageOK, AtPhase3, Out2, Unsaved
<1>8. Moves(n)
  BY <1>2, <1>3, <1>4, <1>5, <1>7 DEF Moves, StageOK, GoesOnWith, Turns
<1>. QED
  BY <1>1, <1>8, Quiet DEF Local

(* Files of phase 1 are left to it.                                        *)
LEMMA InPhase1 ==
    ASSUME NEW n \in Dirs, stage[n].todo \in Phase1Todo, stage[n].todo # <<>>
    PROVE  Step(n) \in {"phase1", "alerts", "handoff"}
<1>1. Follows(stage[n].todo, 1)
  BY TodoFollows DEF Todo
<1>. QED
  BY <1>1 DEF Follows, Step

LEMMA AuditLocal ==
    ASSUME LaunchInv, StagesInv, NEW n \in Dirs, StageStep(n), SubmitAndAudit(n)
    PROVE  Local(n)
<1>1. /\ Working(n) /\ UNCHANGED dvars /\ launches' = launches /\ dir' = dir
      /\ audited' = [audited EXCEPT ![stage[n].dir] = stage[n].rows] /\ Maps
  BY StageFrame DEF LaunchInv, SubmitAndAudit
<1>2. /\ StageOK(n) /\ StageShape(n) /\ Step(n) = "audit" /\ DirOK(stage[n].dir) /\ stage[n].dir \in Dirs
      /\ stage[n].todo # <<>>
  BY <1>1, StageFacts, AtStep DEF SubmitAndAudit
<1>3. Turns(n) /\ stage'[n].rows = stage[n].rows
  BY <1>1, <1>2, DoneTurns DEF SubmitAndAudit, Later
<1>4. /\ Step(n)' = "events" /\ StageShape(n)' /\ stage'[n].dir = stage[n].dir
      /\ stage'[n].open = FALSE /\ Dir(n)' = Dir(n)
      /\ audited'[stage[n].dir] = stage[n].rows
  BY <1>1, <1>2, <1>3 DEF Turns, Dir, Maps
<1>5. AtPhase1(n)' /\ AtPhase3(n)'
  BY <1>4 DEF AtPhase1, AtPhase3
<1>6. /\ Dir(n).handoff2 = None /\ Dir(n).results2 = None
      /\ Whole(Dir(n).handoff) /\ Dir(n).handoff.alerts = stage[n].rows /\ Dir(n).phase2
  BY <1>2 DEF StageOK, AtPhase2, Unsaved
<1>7. AtPhase2(n)'
  BY <1>3, <1>4, <1>6 DEF AtPhase2, Unsaved
<1>8. Moves(n)
  BY <1>2, <1>3, <1>4, <1>5, <1>7 DEF Moves, StageOK, GoesOnWith, Turns
<1>9. OthersKept(n)
  BY <1>2, OthersBefore DEF Before
<1>10. DirKept(n)
  <2> SUFFICES ASSUME NEW d \in Dirs, d = stage[n].dir
               PROVE  DirOK(d)' /\ \A p \in 1 .. 3 : Out(p, d) => Out(p, d)'
    BY <1>1 DEF DirKept
  <2>1. dir'[d] = dir[d] /\ DirOK(d) /\ ~Whole(dir[d].handoff2)
    BY <1>1, <1>2, <1>6 DEF Dir, Whole
  <2>2. DirOK(d)'
    BY <2>1, <1>1 DEF DirOK, Whole
  <2>. QED
    BY <2>1, <2>2 DEF Out, Out2
<1>. QED
  BY <1>8, <1>9, <1>10 DEF Local

LEMMA PipelineLocal ==
    ASSUME LaunchInv, StagesInv, NEW n \in Dirs, StageStep(n), MakePipeline(n)
    PROVE  Local(n)
<1>1. /\ Working(n) /\ UNCHANGED dvars /\ launches' = launches /\ audited' = audited
      /\ dir' = [dir EXCEPT ![stage[n].dir].phase2 = TRUE] /\ Maps
  BY StageFrame DEF LaunchInv, MakePipeline
<1>2. /\ StageOK(n) /\ StageShape(n) /\ Step(n) = "pipeline" /\ DirOK(stage[n].dir) /\ stage[n].dir \in Dirs
      /\ stage[n].todo # <<>> /\ launches \in Nat /\ stage[n].dir <= launches
      /\ ~Dir(n).phase2
  BY <1>1, StageFacts, AtStep DEF MakePipeline
<1>3. Turns(n) /\ stage'[n].rows = stage[n].rows
  BY <1>1, <1>2, DoneTurns DEF MakePipeline, Later
<1>4. /\ Step(n)' = "audit" /\ StageShape(n)' /\ stage'[n].dir = stage[n].dir
      /\ stage'[n].open = FALSE
  BY <1>1, <1>2, <1>3 DEF Turns
<1>5. Dir(n)' = [Dir(n) EXCEPT !.phase2 = TRUE]
  BY <1>1, <1>2, <1>4 DEF Maps, Dir
<1> DEFINE r == Dir(n)
           r1 == Dir(n)'
<1>6. DirShape(r) /\ {"phase2"} \subseteq DirFields
  BY <1>2 DEF DirOK, Dir, DirFields
<1>7. r1 = [r EXCEPT !.phase2 = TRUE]
  BY <1>5
<1> HIDE DEF r, r1
<1>8. /\ DirShape(r1) /\ r1.phase2 = TRUE
      /\ r1.alerts = r.alerts /\ r1.handoff = r.handoff /\ r1.events = r.events /\ r1.mapping = r.mapping
      /\ r1.handoff2 = r.handoff2 /\ r1.results2 = r.results2 /\ r1.phase3 = r.phase3
      /\ r1.results3 = r.results3 /\ r1.status = r.status /\ r1.step = r.step /\ r1.phases = r.phases
  BY <1>6, <1>7 DEF DirShape, DirFields
<1>9. /\ r.handoff2 = None /\ r.results2 = None /\ Whole(r.handoff) /\ r.handoff.alerts = stage[n].rows
  BY <1>2 DEF StageOK, AtPhase2, DirOK, Dir, r
<1>10. AtPhase1(n)' /\ AtPhase3(n)'
  BY <1>4 DEF AtPhase1, AtPhase3
<1>11. AtPhase2(n)'
  BY <1>3, <1>4, <1>8, <1>9 DEF AtPhase2, Unsaved, r1
<1>12. Moves(n)
  BY <1>2, <1>3, <1>4, <1>10, <1>11 DEF Moves, StageOK, GoesOnWith, Turns
<1>13. OthersKept(n)
  BY <1>2, OthersBefore DEF Before
<1>14. DirKept(n)
  <2> SUFFICES ASSUME NEW d \in Dirs, d = stage[n].dir
               PROVE  /\ DirOK(d)'
                      /\ \A p \in 1 .. 3 : Out(p, d) => Out(p, d)'
                      /\ dir'[d].status = dir[d].status /\ dir'[d].step = dir[d].step
                      /\ dir'[d].phases = dir[d].phases
                      /\ stage[n].todo \in Phase1Todo => dir'[d].phase2 = dir[d].phase2
    BY DEF DirKept
  <2>1. r = dir[d] /\ r1 = dir'[d] /\ DirOK(d)
    BY <1>2, <1>4 DEF r, r1, Dir
  <2>2. DirOK(d)'
    <3>1. ~(d > launches') /\ launches' = launches
      BY <1>1, <1>2, LauncherAssumption DEF Dirs
    <3>2. /\ DirShape(r) /\ r.phase3 \in 0 .. launches /\ (r.phase3 # 0 => Whole(r.handoff2))
          /\ r.phase3 = 0 => r.results3 = None
          /\ HandoffOK(r.handoff)
      BY <2>1, <1>9 DEF DirOK
    <3>3. ~Whole(r1.handoff2) /\ ~Whole(r1.results3)
      BY <3>2, <1>8, <1>9 DEF Whole
    <3>. QED
      <4>1. /\ DirShape(r1) /\ r1.phase2 \in BOOLEAN /\ r1.phase2
            /\ Whole(r1.handoff) /\ r1.phase3 \in 0 .. launches'
            /\ ~(r1.phase3 # 0)
            /\ r1.results3 = None
        BY <3>1, <3>2, <3>3, <1>8, <1>9
      <4>2. HandoffOK(r1.handoff)
        BY <3>2, <1>8
      <4>. QED
        BY <3>1, <3>3, <4>1, <4>2, <2>1 DEF DirOK
  <2>3. stage[n].todo \notin Phase1Todo
    BY <1>2, InPhase1
  <2>4. \A p \in 1 .. 3 : Out(p, d) => Out(p, d)'
    BY <2>1, <1>8 DEF Out, Out2
  <2>. QED
    BY <2>1, <2>2, <2>3, <2>4, <1>8
<1>. QED
  BY <1>12, <1>13, <1>14 DEF Local

-----------------------------------------------------------------------------
(* The files a stage saves.                                                *)

LEMMA FieldSet ==
    ASSUME NEW r, DirShape(r), NEW f \in DirFields, NEW x
    PROVE  /\ DirShape([r EXCEPT ![f] = x]) /\ [r EXCEPT ![f] = x][f] = x
           /\ \A g \in DirFields : g # f => [r EXCEPT ![f] = x][g] = r[g]
  BY DEF DirShape

(* Only field f of the stage's directory changes.                          *)
OnlyField(n, f) ==
    \A d \in Dirs : d = stage[n].dir =>
        DirShape(dir'[d]) /\ \A g \in DirFields : g # f => dir'[d][g] = dir[d][g]

Opened(n) ==
    /\ StageShape(n)' /\ Step(n)' = Step(n)
    /\ stage'[n].dir = stage[n].dir /\ stage'[n].mode = stage[n].mode /\ stage'[n].open = TRUE
    /\ stage'[n].rows = stage[n].rows /\ stage'[n].todo = stage[n].todo

LEMMA Opens ==
    ASSUME LaunchInv, StagesInv, NEW n \in Dirs, Working(n), launches' = launches,
           Step(n) \in Saves, stage' = [stage EXCEPT ![n].open = TRUE]
    PROVE  Opened(n)
<1>1. StageShape(n) /\ Maps
  BY StageFacts DEF LaunchInv
<1> DEFINE s == stage[n]
<1>2. s = [f \in StageFields |-> s[f]] /\ {"dir", "mode", "todo", "rows", "open"} \subseteq StageFields
  BY <1>1 DEF StageShape, StageFields
<1>3. stage'[n] = [s EXCEPT !.open = TRUE]
  BY <1>1 DEF Maps
<1> HIDE DEF s
<1>4. /\ stage'[n] = [f \in StageFields |-> stage'[n][f]]
      /\ stage'[n].dir = s.dir /\ stage'[n].mode = s.mode /\ stage'[n].todo = s.todo
      /\ stage'[n].rows = s.rows /\ stage'[n].open = TRUE
  BY <1>2, <1>3
<1>5. Step(n)' = Step(n)
  BY <1>4 DEF Step, s
<1>. QED
  BY <1>1, <1>4, <1>5 DEF Opened, StageShape, s

(* Where the file is when a save has begun or ended.                       *)
SaveOf(n, f) ==
    /\ Working(n) /\ UNCHANGED dvars /\ launches' = launches /\ audited' = audited
    /\ stage[n].dir \in Dirs /\ stage[n].dir <= launches /\ launches \in Nat
    /\ OnlyField(n, f) /\ stage'[n].dir = stage[n].dir /\ stage'[n].rows = stage[n].rows
    /\ stage'[n].mode = stage[n].mode
    /\ StageOK(n) /\ StageShape(n) /\ DirOK(stage[n].dir) /\ stage[n].todo # <<>>
    /\ f = "handoff" => HasModel(n)
    /\ \/ ~stage[n].open /\ dir'[stage[n].dir][f] = Torn /\ Opened(n)
       \/ stage[n].open /\ dir'[stage[n].dir][f] = Saved(n, f) /\ Turns(n)

LEMMA SaveIs ==
    ASSUME LaunchInv, StagesInv, NEW n \in Dirs, StageStep(n), NEW f \in Saves, At(n, f), Save(n)
    PROVE  SaveOf(n, f)
<1>1. /\ Working(n) /\ UNCHANGED dvars /\ launches' = launches /\ Maps
      /\ Step(n) = f
  BY StageFrame, AtStep DEF LaunchInv
<1>2. /\ StageOK(n) /\ StageShape(n) /\ DirOK(stage[n].dir) /\ stage[n].dir \in Dirs
      /\ stage[n].dir <= launches /\ launches \in Nat /\ stage[n].todo # <<>>
  BY <1>1, StageFacts, AtStep
<1>3. /\ dir' = [dir EXCEPT ![stage[n].dir][f] = IF stage[n].open THEN Saved(n, f) ELSE Torn]
      /\ IF stage[n].open THEN Done(n) ELSE stage' = [stage EXCEPT ![n].open = TRUE]
      /\ audited' = audited
      /\ f = "handoff" => HasModel(n)
  BY DEF Save, At
<1> DEFINE r == dir[stage[n].dir]
           x == IF stage[n].open THEN Saved(n, f) ELSE Torn
           d == stage[n].dir
<1>4. f \in DirFields
  BY DEF Saves, DirFields
<1>5. dir'[d] = [r EXCEPT ![f] = x]
  BY <1>1, <1>2, <1>3 DEF Maps
<1>6. DirShape(r)
  BY <1>2 DEF DirOK
<1> HIDE DEF r, x
<1>7. DirShape(dir'[d]) /\ dir'[d][f] = x /\ \A g \in DirFields : g # f => dir'[d][g] = r[g]
  BY <1>4, <1>5, <1>6, FieldSet
<1>8. OnlyField(n, f)
  BY <1>7 DEF OnlyField, r
<1>9. CASE stage[n].open
  <2>1. Turns(n) /\ stage'[n].rows = stage[n].rows
    BY <1>1, <1>3, <1>9, DoneTurns DEF Saves, Later
  <2>2. dir'[stage[n].dir][f] = Saved(n, f)
    BY <1>7, <1>9 DEF x
  <2>. QED
    BY <1>1, <1>2, <1>3, <1>8, <1>9, <2>1, <2>2 DEF SaveOf, Turns
<1>10. CASE ~stage[n].open
  <2>1. Opened(n)
    BY <1>1, <1>3, <1>10, Opens
  <2>2. dir'[stage[n].dir][f] = Torn
    BY <1>7, <1>10 DEF x
  <2>. QED
    BY <1>1, <1>2, <1>3, <1>8, <1>10, <2>1, <2>2 DEF SaveOf, Opened
<1>. QED
  BY <1>9, <1>10

LEMMA AlertsLocal ==
    ASSUME LaunchInv, StagesInv, NEW n \in Dirs, StageStep(n), At(n, "alerts"), Save(n)
    PROVE  Local(n)
<1>1. SaveOf(n, "alerts") /\ Step(n) = "alerts"
  BY SaveIs, AtStep DEF Saves
<1>2. /\ launches' = launches /\ audited' = audited /\ out' = out
      /\ stage[n].dir \in Dirs /\ stage[n].dir <= launches
      /\ StageOK(n) /\ DirOK(stage[n].dir) /\ stage'[n].dir = stage[n].dir
      /\ stage'[n].rows = stage[n].rows /\ (Smoke(n)' <=> Smoke(n)) /\ stage[n].todo # <<>>
  BY <1>1 DEF SaveOf, dvars, Smoke
<1> DEFINE r == dir[stage[n].dir]
           r1 == dir'[stage[n].dir]
<1>3. r = Dir(n) /\ r1 = Dir(n)'
  BY <1>2 DEF Dir
<1>4. /\ DirShape(r1)
      /\ r1.handoff = r.handoff /\ r1.phase2 = r.phase2 /\ r1.events = r.events /\ r1.mapping = r.mapping
      /\ r1.handoff2 = r.handoff2 /\ r1.results2 = r.results2 /\ r1.phase3 = r.phase3
      /\ r1.results3 = r.results3 /\ r1.status = r.status /\ r1.step = r.step /\ r1.phases = r.phases
  BY <1>1, <1>2 DEF SaveOf, OnlyField, DirFields
<1> HIDE DEF r, r1
<1>5. /\ ~r.phase2 /\ r.handoff = None /\ Rows1(n)
  BY <1>1, <1>2, <1>3 DEF StageOK, AtPhase1, Unsaved
<1>6. Rows1(n)'
  BY <1>2, <1>5 DEF Rows1
<1>7. Moves(n)
  <2>1. CASE ~stage[n].open /\ r1.alerts = Torn /\ Opened(n)
    <3>1. Step(n)' = "alerts" /\ StageShape(n)' /\ stage'[n].open = TRUE
      BY <1>1, <2>1 DEF Opened
    <3>2. AtPhase1(n)' /\ AtPhase2(n)' /\ AtPhase3(n)'
      BY <3>1, <1>3, <1>4, <1>5, <1>6 DEF AtPhase1, AtPhase2, AtPhase3, Unsaved
    <3>. QED
      BY <3>1, <3>2, <2>1, <1>2 DEF Moves, StageOK, GoesOnWith, Opened
  <2>2. CASE stage[n].open /\ r1.alerts = Saved(n, "alerts") /\ Turns(n)
    <3>1. Step(n)' = "handoff" /\ StageShape(n)' /\ stage'[n].open = FALSE
      BY <1>1, <2>2 DEF Turns
    <3>2. r1.alerts = stage[n].rows
      BY <2>2 DEF Saved
    <3>3. AtPhase1(n)' /\ AtPhase2(n)' /\ AtPhase3(n)'
      BY <3>1, <3>2, <1>2, <1>3, <1>4, <1>5, <1>6 DEF AtPhase1, AtPhase2, AtPhase3, Unsaved
    <3>. QED
      BY <3>1, <3>3, <2>2, <1>1 DEF Moves, StageOK, GoesOnWith, Turns
  <2>. QED
    BY <1>1, <2>1, <2>2 DEF SaveOf, r1
<1>8. OthersKept(n)
  BY <1>1, OthersBefore DEF Before
<1>9. DirKept(n)
  <2> SUFFICES ASSUME NEW d \in Dirs, d = stage[n].dir
               PROVE  DirOK(d)' /\ \A p \in 1 .. 3 : Out(p, d) => Out(p, d)'
    BY <1>4 DEF DirKept, r, r1
  <2>1. r = dir[d] /\ r1 = dir'[d] /\ DirOK(d)
    BY <1>2 DEF r, r1
  <2>2. DirOK(d)'
    BY <2>1, <1>2, <1>4, LauncherAssumption, SMTT(90) DEF DirOK, Dirs, LaunchInv, LauncherType
  <2>. QED
    BY <2>1, <2>2, <1>4 DEF Out, Out2
<1>. QED
  BY <1>7, <1>8, <1>9 DEF Local

(* A handoff that is written describes its alerts.                         *)
LEMMA SavedHandoff ==
    ASSUME LaunchInv, NEW n \in Dirs, Rows1(n), HasModel(n), Dir(n).alerts = stage[n].rows
    PROVE  LET h == Saved(n, "handoff")
           IN  h \in Handoffs /\ HandoffOK(h) /\ h.alerts = stage[n].rows
<1> DEFINE h == Saved(n, "handoff")
           prov == IF Smoke(n) THEN build_provenance_record(Synthetic, Synthetic)
                   ELSE build_provenance_from_phase1
<1>1. h = [alerts |-> stage[n].rows, synthetic |-> Smoke(n), provenance |-> prov]
  BY DEF Saved
<1>2. /\ OutType
      /\ stage[n].rows \in Rows
      /\ Smoke(n) <=> stage[n].rows.by = Synthetic
      /\ ~Smoke(n) => Whole(out["card"]) /\ out["bundle"] # None
  BY DEF LaunchInv, TrainingInv, TypeOK, Rows1, HasModel
<1>3. Synthetic \notin ModelIds /\ Synthetic \in Identities
  BY ValueAssumption DEF Identities
<1>4. /\ prov \in [model_id : Identities, model_digest : Digests]
      /\ Smoke(n) <=> prov.model_id = Synthetic
  <2>1. CASE Smoke(n)
    <3>1. prov = [model_id |-> Synthetic, model_digest |-> [artifact |-> Synthetic, identity |-> Synthetic]]
      BY <2>1 DEF build_provenance_record, compute_model_digest
    <3>. QED
      BY <2>1, <3>1, <1>2, <1>3 DEF Digests
  <2>2. CASE ~Smoke(n)
    <3>1. prov = [model_id |-> out["card"].id,
                  model_digest |-> [artifact |-> out["bundle"], identity |-> out["card"].id]]
      BY <2>2 DEF build_provenance_record, compute_model_digest, build_provenance_from_phase1,
                  model_identity
    <3>2. out["card"].id \in ModelIds /\ out["bundle"] \in Bundles \cup {Torn}
      BY <2>2, <1>2 DEF OutType, Whole, Cards
    <3>. QED
      BY <2>2, <3>1, <3>2, <1>2, <1>3 DEF Digests, Identities
  <2>. QED
    BY <2>1, <2>2
<1> HIDE DEF prov
<1>5. h.alerts = stage[n].rows /\ (h.synthetic <=> Smoke(n)) /\ h.provenance = prov
  BY <1>1
<1>6. Smoke(n) \in BOOLEAN
  BY DEF Smoke
<1>7. h \in Handoffs
  BY <1>1, <1>2, <1>4, <1>6 DEF Handoffs
<1>8. h.synthetic \in BOOLEAN
  BY <1>7 DEF Handoffs
<1>. QED
  BY <1>2, <1>4, <1>5, <1>7, <1>8 DEF HandoffOK

LEMMA HandoffLocal ==
    ASSUME LaunchInv, StagesInv, NEW n \in Dirs, StageStep(n), At(n, "handoff"), Save(n)
    PROVE  Local(n)
<1>1. SaveOf(n, "handoff") /\ Step(n) = "handoff"
  BY SaveIs, AtStep DEF Saves
<1>2. /\ launches' = launches /\ audited' = audited /\ out' = out
      /\ stage[n].dir \in Dirs /\ stage[n].dir <= launches
      /\ StageOK(n) /\ DirOK(stage[n].dir) /\ stage'[n].dir = stage[n].dir
      /\ stage'[n].rows = stage[n].rows /\ (Smoke(n)' <=> Smoke(n)) /\ stage[n].todo # <<>>
  BY <1>1 DEF SaveOf, dvars, Smoke
<1> DEFINE r == dir[stage[n].dir]
           r1 == dir'[stage[n].dir]
<1>3. r = Dir(n) /\ r1 = Dir(n)'
  BY <1>2 DEF Dir
<1>4. /\ DirShape(r1)
      /\ r1.alerts = r.alerts /\ r1.phase2 = r.phase2 /\ r1.events = r.events /\ r1.mapping = r.mapping
      /\ r1.handoff2 = r.handoff2 /\ r1.results2 = r.results2 /\ r1.phase3 = r.phase3
      /\ r1.results3 = r.results3 /\ r1.status = r.status /\ r1.step = r.step /\ r1.phases = r.phases
  BY <1>1, <1>2 DEF SaveOf, OnlyField, DirFields
<1> HIDE DEF r, r1
<1>5. /\ ~r.phase2 /\ ~Whole(r.handoff) /\ Rows1(n) /\ r.alerts = stage[n].rows
      /\ r.handoff2 = None /\ r.events = None /\ r.mapping = None /\ r.results2 = None
  BY <1>1, <1>2, <1>3 DEF StageOK, AtPhase1, Unsaved, DirOK, Dir, Whole
<1>6. Rows1(n)'
  BY <1>2, <1>5 DEF Rows1
<1>7. \/ ~stage[n].open /\ r1.handoff = Torn /\ Opened(n)
      \/ stage[n].open /\ r1.handoff = Saved(n, "handoff") /\ Turns(n)
  BY <1>1 DEF SaveOf, r1
<1>8. r1.handoff = Saved(n, "handoff") => Whole(r1.handoff) /\ HandoffOK(r1.handoff)
  <2>1. Saved(n, "handoff") \in Handoffs /\ HandoffOK(Saved(n, "handoff"))
    BY <1>1, <1>3, <1>5, SavedHandoff DEF SaveOf
  <2>. QED
    BY <2>1, ValueAssumption DEF Whole
<1>9. Moves(n)
  <2>1. CASE ~stage[n].open /\ r1.handoff = Torn /\ Opened(n)
    <3>1. Step(n)' = "handoff" /\ StageShape(n)' /\ stage'[n].open = TRUE
      BY <1>1, <2>1 DEF Opened
    <3>2. AtPhase1(n)' /\ AtPhase2(n)' /\ AtPhase3(n)'
      BY <3>1, <2>1, <1>2, <1>3, <1>4, <1>5, <1>6 DEF AtPhase1, AtPhase2, AtPhase3, Unsaved
    <3>. QED
      BY <3>1, <3>2, <2>1, <1>2 DEF Moves, StageOK, GoesOnWith, Opened
  <2>2. CASE stage[n].open /\ r1.handoff = Saved(n, "handoff") /\ Turns(n)
    <3>1. Step(n)' \in {"end", "phase2"} /\ StageShape(n)' /\ stage'[n].open = FALSE
      BY <1>1, <2>2 DEF Turns
    <3>2. AtPhase1(n)' /\ AtPhase2(n)' /\ AtPhase3(n)'
      BY <3>1, <1>3, <1>4, <1>5 DEF AtPhase1, AtPhase2, AtPhase3, Unsaved
    <3>3. ASSUME NEW q \in 1 .. 3, stage[n].todo \in Todo(q)
          PROVE  GoesOnWith(n, q)
      <4>1. ASSUME NEW d \in Dirs, d = stage[n].dir
            PROVE  Whole(dir'[d].handoff)
        BY <4>1, <2>2, <1>8 DEF r1
      <4>2. stage'[n].todo = <<>> => q = 1
        BY <3>3, <2>2, <1>1 DEF Turns
      <4>. QED
        BY <3>3, <4>1, <4>2, <2>2 DEF GoesOnWith, Turns, Out
    <3>. QED
      BY <3>1, <3>2, <3>3 DEF Moves, StageOK
  <2>. QED
    BY <1>7, <2>1, <2>2
<1>10. OthersKept(n)
  BY <1>1, OthersBefore DEF Before
<1>11. DirKept(n)
  <2> SUFFICES ASSUME NEW d \in Dirs, d = stage[n].dir
               PROVE  DirOK(d)' /\ \A p \in 1 .. 3 : Out(p, d) => Out(p, d)'
    BY <1>4 DEF DirKept, r, r1
  <2>1. r = dir[d] /\ r1 = dir'[d] /\ DirOK(d)
    BY <1>2 DEF r, r1
  <2>2. Whole(r1.handoff) => HandoffOK(r1.handoff)
    BY <1>7, <1>8 DEF Whole
  <2>3. DirOK(d)'
    BY <2>1, <2>2, <1>2, <1>4, <1>5, LauncherAssumption, SMTT(30) DEF DirOK, Dirs, LaunchInv, LauncherType
  <2>. QED
    BY <2>1, <2>3, <1>5 DEF Out, Out2
<1>. QED
  BY <1>9, <1>10, <1>11 DEF Local

LEMMA EventsLocal ==
    ASSUME LaunchInv, StagesInv, NEW n \in Dirs, StageStep(n), At(n, "events"), Save(n)
    PROVE  Local(n)
<1>1. SaveOf(n, "events") /\ Step(n) = "events"
  BY SaveIs, AtStep DEF Saves
<1>2. /\ launches' = launches /\ audited' = audited /\ UNCHANGED dvars
      /\ stage[n].dir \in Dirs /\ stage[n].dir <= launches
      /\ StageOK(n) /\ DirOK(stage[n].dir) /\ stage'[n].dir = stage[n].dir
      /\ stage'[n].rows = stage[n].rows /\ stage[n].todo # <<>>
      /\ (Smoke(n)' <=> Smoke(n)) /\ (Made(n)' = Made(n))
  BY <1>1 DEF SaveOf, Smoke, Made
<1> DEFINE r == dir[stage[n].dir]
           r1 == dir'[stage[n].dir]
<1>3. r = Dir(n) /\ r1 = Dir(n)'
  BY <1>2 DEF Dir
<1>4. /\ DirShape(r1)
      /\ r1.alerts = r.alerts /\ r1.handoff = r.handoff /\ r1.phase2 = r.phase2
      /\ r1.mapping = r.mapping /\ r1.handoff2 = r.handoff2 /\ r1.results2 = r.results2
      /\ r1.phase3 = r.phase3 /\ r1.results3 = r.results3 /\ r1.status = r.status
      /\ r1.step = r.step /\ r1.phases = r.phases
  BY <1>1, <1>2 DEF SaveOf, OnlyField, DirFields
<1> HIDE DEF r, r1
<1>5. \/ ~stage[n].open /\ r1.events = Torn /\ Opened(n)
      \/ stage[n].open /\ r1.events = Saved(n, "events") /\ Turns(n)
  BY <1>1 DEF SaveOf, r1
<1>6. /\ Whole(r.handoff) /\ r.handoff.alerts = stage[n].rows /\ r.phase2
      /\ r.handoff2 = None /\ r.results2 = None /\ audited[stage[n].dir] = stage[n].rows
      /\ Step(n) = "mapping" => r.events = Made(n)
  BY <1>1, <1>2, <1>3 DEF StageOK, AtPhase2, Unsaved
<1>7. r1.events = Saved(n, "events") => r1.events = Made(n)
  BY DEF Saved, Made
<1>8. Moves(n)
  <2>1. CASE ~stage[n].open /\ r1.events = Torn /\ Opened(n)
    <3>1. Step(n)' = "events" /\ StageShape(n)' /\ stage'[n].open = TRUE
      BY <1>1, <2>1 DEF Opened
    <3>2. AtPhase1(n)' /\ AtPhase2(n)' /\ AtPhase3(n)'
      BY <3>1, <2>1, <1>1, <1>2, <1>3, <1>4, <1>6, <1>7 DEF AtPhase1, AtPhase2, AtPhase3, Unsaved
    <3>. QED
      BY <3>1, <3>2, <2>1, <1>2 DEF Moves, StageOK, GoesOnWith, Opened
  <2>2. CASE stage[n].open /\ r1.events = Saved(n, "events") /\ Turns(n)
    <3>1. Step(n)' = "mapping" /\ StageShape(n)' /\ stage'[n].open = FALSE
      BY <1>1, <2>2 DEF Turns
    <3>2. AtPhase1(n)' /\ AtPhase2(n)' /\ AtPhase3(n)'
      BY <3>1, <2>2, <1>1, <1>2, <1>3, <1>4, <1>6, <1>7 DEF AtPhase1, AtPhase2, AtPhase3, Unsaved
    <3>. QED
      BY <3>1, <3>2, <2>2, <1>1 DEF Moves, StageOK, GoesOnWith, Turns
  <2>. QED
    BY <1>5, <2>1, <2>2
<1>9. OthersKept(n)
  BY <1>1, OthersBefore DEF Before
<1>10. DirKept(n)
  <2> SUFFICES ASSUME NEW d \in Dirs, d = stage[n].dir
               PROVE  /\ DirOK(d)' /\ \A p \in 1 .. 3 : Out(p, d) => Out(p, d)'
                      /\ stage[n].todo \in Phase1Todo => dir'[d].phase2 = dir[d].phase2
    BY <1>4 DEF DirKept, r, r1
  <2>1. r = dir[d] /\ r1 = dir'[d] /\ DirOK(d)
    BY <1>2 DEF r, r1
  <2>2. DirOK(d)'
    BY <2>1, <1>2, <1>4, <1>6, LauncherAssumption, SMTT(90) DEF DirOK, Dirs, LaunchInv, LauncherType, Whole
  <2>. QED
    BY <2>1, <2>2, <1>4, <1>6 DEF Out, Out2, Whole
<1>. QED
  BY <1>8, <1>9, <1>10 DEF Local

LEMMA MappingLocal ==
    ASSUME LaunchInv, StagesInv, NEW n \in Dirs, StageStep(n), At(n, "mapping"), Save(n)
    PROVE  Local(n)
<1>1. SaveOf(n, "mapping") /\ Step(n) = "mapping"
  BY SaveIs, AtStep DEF Saves
<1>2. /\ launches' = launches /\ audited' = audited /\ UNCHANGED dvars
      /\ stage[n].dir \in Dirs /\ stage[n].dir <= launches
      /\ StageOK(n) /\ DirOK(stage[n].dir) /\ stage'[n].dir = stage[n].dir
      /\ stage'[n].rows = stage[n].rows /\ stage[n].todo # <<>>
      /\ (Smoke(n)' <=> Smoke(n)) /\ (Made(n)' = Made(n))
  BY <1>1 DEF SaveOf, Smoke, Made
<1> DEFINE r == dir[stage[n].dir]
           r1 == dir'[stage[n].dir]
<1>3. r = Dir(n) /\ r1 = Dir(n)'
  BY <1>2 DEF Dir
<1>4. /\ DirShape(r1)
      /\ r1.alerts = r.alerts /\ r1.handoff = r.handoff /\ r1.phase2 = r.phase2
      /\ r1.events = r.events /\ r1.handoff2 = r.handoff2 /\ r1.results2 = r.results2
      /\ r1.phase3 = r.phase3 /\ r1.results3 = r.results3 /\ r1.status = r.status
      /\ r1.step = r.step /\ r1.phases = r.phases
  BY <1>1, <1>2 DEF SaveOf, OnlyField, DirFields
<1> HIDE DEF r, r1
<1>5. \/ ~stage[n].open /\ r1.mapping = Torn /\ Opened(n)
      \/ stage[n].open /\ r1.mapping = Saved(n, "mapping") /\ Turns(n)
  BY <1>1 DEF SaveOf, r1
<1>6. /\ Whole(r.handoff) /\ r.handoff.alerts = stage[n].rows /\ r.phase2
      /\ r.handoff2 = None /\ r.results2 = None /\ audited[stage[n].dir] = stage[n].rows
      /\ Step(n) = "mapping" => r.events = Made(n)
  BY <1>1, <1>2, <1>3 DEF StageOK, AtPhase2, Unsaved
<1>7. r1.mapping = Saved(n, "mapping") => r1.mapping = Made(n)
  BY DEF Saved, Made
<1>8. Moves(n)
  <2>1. CASE ~stage[n].open /\ r1.mapping = Torn /\ Opened(n)
    <3>1. Step(n)' = "mapping" /\ StageShape(n)' /\ stage'[n].open = TRUE
      BY <1>1, <2>1 DEF Opened
    <3>2. AtPhase1(n)' /\ AtPhase2(n)' /\ AtPhase3(n)'
      BY <3>1, <2>1, <1>1, <1>2, <1>3, <1>4, <1>6, <1>7 DEF AtPhase1, AtPhase2, AtPhase3, Unsaved
    <3>. QED
      BY <3>1, <3>2, <2>1, <1>2 DEF Moves, StageOK, GoesOnWith, Opened
  <2>2. CASE stage[n].open /\ r1.mapping = Saved(n, "mapping") /\ Turns(n)
    <3>1. Step(n)' = "handoff2" /\ StageShape(n)' /\ stage'[n].open = FALSE
      BY <1>1, <2>2 DEF Turns
    <3>2. AtPhase1(n)' /\ AtPhase2(n)' /\ AtPhase3(n)'
      BY <3>1, <2>2, <1>1, <1>2, <1>3, <1>4, <1>6, <1>7 DEF AtPhase1, AtPhase2, AtPhase3, Unsaved
    <3>. QED
      BY <3>1, <3>2, <2>2, <1>1 DEF Moves, StageOK, GoesOnWith, Turns
  <2>. QED
    BY <1>5, <2>1, <2>2
<1>9. OthersKept(n)
  BY <1>1, OthersBefore DEF Before
<1>10. DirKept(n)
  <2> SUFFICES ASSUME NEW d \in Dirs, d = stage[n].dir
               PROVE  /\ DirOK(d)' /\ \A p \in 1 .. 3 : Out(p, d) => Out(p, d)'
                      /\ stage[n].todo \in Phase1Todo => dir'[d].phase2 = dir[d].phase2
    BY <1>4 DEF DirKept, r, r1
  <2>1. r = dir[d] /\ r1 = dir'[d] /\ DirOK(d)
    BY <1>2 DEF r, r1
  <2>2. DirOK(d)'
    BY <2>1, <1>2, <1>4, <1>6, LauncherAssumption, SMTT(90) DEF DirOK, Dirs, LaunchInv, LauncherType, Whole
  <2>. QED
    BY <2>1, <2>2, <1>4, <1>6 DEF Out, Out2, Whole
<1>. QED
  BY <1>8, <1>9, <1>10 DEF Local

LEMMA Handoff2Local ==
    ASSUME LaunchInv, StagesInv, NEW n \in Dirs, StageStep(n), At(n, "handoff2"), Save(n)
    PROVE  Local(n)
<1>1. SaveOf(n, "handoff2") /\ Step(n) = "handoff2"
  BY SaveIs, AtStep DEF Saves
<1>2. /\ launches' = launches /\ audited' = audited /\ UNCHANGED dvars
      /\ stage[n].dir \in Dirs /\ stage[n].dir <= launches
      /\ StageOK(n) /\ DirOK(stage[n].dir) /\ stage'[n].dir = stage[n].dir
      /\ stage'[n].rows = stage[n].rows /\ stage[n].todo # <<>>
      /\ (Smoke(n)' <=> Smoke(n)) /\ (Made(n)' = Made(n))
  BY <1>1 DEF SaveOf, Smoke, Made
<1> DEFINE r == dir[stage[n].dir]
           r1 == dir'[stage[n].dir]
<1>3. r = Dir(n) /\ r1 = Dir(n)'
  BY <1>2 DEF Dir
<1>4. /\ DirShape(r1)
      /\ r1.alerts = r.alerts /\ r1.handoff = r.handoff /\ r1.phase2 = r.phase2
      /\ r1.events = r.events /\ r1.mapping = r.mapping /\ r1.results2 = r.results2
      /\ r1.phase3 = r.phase3 /\ r1.results3 = r.results3 /\ r1.status = r.status
      /\ r1.step = r.step /\ r1.phases = r.phases
  BY <1>1, <1>2 DEF SaveOf, OnlyField, DirFields
<1> HIDE DEF r, r1
<1>5. \/ ~stage[n].open /\ r1.handoff2 = Torn /\ Opened(n)
      \/ stage[n].open /\ r1.handoff2 = Saved(n, "handoff2") /\ Turns(n)
  BY <1>1 DEF SaveOf, r1
<1>6. /\ Whole(r.handoff) /\ r.handoff.alerts = stage[n].rows /\ r.phase2
      /\ ~Whole(r.handoff2) /\ r.results2 = None /\ audited[stage[n].dir] = stage[n].rows
      /\ r.events = Made(n) /\ r.mapping = Made(n)
  BY <1>1, <1>2, <1>3 DEF StageOK, AtPhase2, Unsaved, Whole
<1>7. HandoffOK(r.handoff) /\ stage[n].rows \in Rows
  BY <1>2, <1>6 DEF DirOK, HandoffOK, r
<1>8. r1.handoff2 = Saved(n, "handoff2") => Whole(r1.handoff2) /\ SecondOK(r1.handoff2, stage[n].rows)
  <2> DEFINE h == Saved(n, "handoff2")
  <2>1. h = [events |-> Made(n), mapping |-> Made(n), synthetic |-> r.handoff.synthetic]
    BY <1>3, <1>6 DEF Saved
  <2>2. Made(n) \in Lines /\ r.handoff.synthetic \in BOOLEAN
    BY <1>7 DEF Made, Lines, HandoffOK
  <2>3. h \in [events : Lines, mapping : Lines, synthetic : BOOLEAN]
    BY <2>1, <2>2
  <2>4. Whole(h)
    BY <2>3, ValueAssumption DEF Whole
  <2>5. SecondOK(h, stage[n].rows)
    BY <2>1, <1>6, <1>7 DEF SecondOK, HandoffOK, Made
  <2>. QED
    BY <2>4, <2>5
<1>9. Moves(n)
  <2>1. CASE ~stage[n].open /\ r1.handoff2 = Torn /\ Opened(n)
    <3>1. Step(n)' = "handoff2" /\ StageShape(n)' /\ stage'[n].open = TRUE
      BY <1>1, <2>1 DEF Opened
    <3>2. AtPhase1(n)' /\ AtPhase2(n)' /\ AtPhase3(n)'
      BY <3>1, <2>1, <1>1, <1>2, <1>3, <1>4, <1>6, <1>8 DEF AtPhase1, AtPhase2, AtPhase3, Unsaved
    <3>. QED
      BY <3>1, <3>2, <2>1, <1>2 DEF Moves, StageOK, GoesOnWith, Opened
  <2>2. CASE stage[n].open /\ r1.handoff2 = Saved(n, "handoff2") /\ Turns(n)
    <3>1. Step(n)' = "results2" /\ StageShape(n)' /\ stage'[n].open = FALSE
      BY <1>1, <2>2 DEF Turns
    <3>2. AtPhase1(n)' /\ AtPhase2(n)' /\ AtPhase3(n)'
      BY <3>1, <2>2, <1>1, <1>2, <1>3, <1>4, <1>6, <1>8 DEF AtPhase1, AtPhase2, AtPhase3, Unsaved
    <3>. QED
      BY <3>1, <3>2, <2>2, <1>1 DEF Moves, StageOK, GoesOnWith, Turns
  <2>. QED
    BY <1>5, <2>1, <2>2
<1>10. OthersKept(n)
  BY <1>1, OthersBefore DEF Before
<1>11. DirKept(n)
  <2> SUFFICES ASSUME NEW d \in Dirs, d = stage[n].dir
               PROVE  /\ DirOK(d)' /\ \A p \in 1 .. 3 : Out(p, d) => Out(p, d)'
                      /\ stage[n].todo \in Phase1Todo => dir'[d].phase2 = dir[d].phase2
    BY <1>4 DEF DirKept, r, r1
  <2>1. r = dir[d] /\ r1 = dir'[d] /\ DirOK(d)
    BY <1>2 DEF r, r1
  <2>2. Whole(r1.handoff2) => SecondOK(r1.handoff2, audited[d])
    BY <1>5, <1>6, <1>8 DEF Whole
  <2>3. r.phase3 = 0 /\ r.results3 = None
    BY <2>1, <1>6 DEF DirOK
  <2>4. DirOK(d)'
    BY <2>1, <2>2, <2>3, <1>2, <1>4, <1>6, LauncherAssumption, SMTT(30)
       DEF DirOK, Dirs, LaunchInv, LauncherType, Whole
  <2>5. stage[n].todo \in Phase1Todo => r1.phase2 = r.phase2
    BY <1>4
  <2>. QED
    BY <2>1, <2>4, <2>5, <1>4, <1>6 DEF Out, Out2, Whole
<1>. QED
  BY <1>9, <1>10, <1>11 DEF Local

(* Which stages may be in a directory together.                            *)
LEMMA LateStages ==
    ASSUME LaunchInv, StagesInv, NEW m \in Dirs, Working(m)
    PROVE  /\ stage[m].todo \in Phase3Todo => Step(m) \in {"phase3", "mkdir", "trials", "results3", "end"}
           /\ stage[m].todo \notin Phase3Todo =>
                 /\ Step(m) \notin {"phase3", "mkdir", "trials", "results3"}
                 /\ stage[m].dir = m
<1>1. StageShape(m)
  BY StageFacts
<1>2. CASE stage[m].todo \in Phase3Todo
  <2>1. CASE stage[m].todo = <<>>
    BY <1>2, <2>1 DEF Step, First
  <2>2. CASE stage[m].todo # <<>>
    <3>1. Follows(stage[m].todo, 3)
      BY <1>2, <2>2, TodoFollows DEF Todo
    <3>. QED
      BY <1>2, <3>1 DEF Follows, Step
  <2>. QED
    BY <2>1, <2>2
<1>3. CASE stage[m].todo \notin Phase3Todo
  <2>1. PICK q \in 1 .. 3 : stage[m].todo \in Todo(q)
    BY <1>1, TodoIs DEF StageShape
  <2>2. q # 3 /\ stage[m].todo # <<>>
    BY <1>3, <2>1 DEF Todo, Phase3Todo
  <2>3. Follows(stage[m].todo, q)
    BY <2>1, <2>2, TodoFollows
  <2>. QED
    BY <1>1, <1>3, <2>2, <2>3 DEF Follows, Step, StageShape
<1>. QED
  BY <1>2, <1>3

LEMMA Results2Local ==
    ASSUME LaunchInv, StagesInv, NEW n \in Dirs, StageStep(n), At(n, "results2"), Save(n)
    PROVE  Local(n)
<1>1. SaveOf(n, "results2") /\ Step(n) = "results2" /\ Working(n)
  BY SaveIs, AtStep DEF Saves, SaveOf
<1>2. /\ launches' = launches /\ audited' = audited /\ UNCHANGED dvars
      /\ stage[n].dir \in Dirs /\ stage[n].dir <= launches
      /\ StageOK(n) /\ DirOK(stage[n].dir) /\ stage'[n].dir = stage[n].dir
      /\ stage'[n].rows = stage[n].rows /\ stage[n].todo # <<>>
      /\ (Smoke(n)' <=> Smoke(n)) /\ (Made(n)' = Made(n))
  BY <1>1 DEF SaveOf, Smoke, Made
<1> DEFINE r == dir[stage[n].dir]
           r1 == dir'[stage[n].dir]
<1>3. r = Dir(n) /\ r1 = Dir(n)'
  BY <1>2 DEF Dir
<1>4. /\ DirShape(r1)
      /\ r1.alerts = r.alerts /\ r1.handoff = r.handoff /\ r1.phase2 = r.phase2
      /\ r1.events = r.events /\ r1.mapping = r.mapping /\ r1.handoff2 = r.handoff2
      /\ r1.phase3 = r.phase3 /\ r1.results3 = r.results3 /\ r1.status = r.status
      /\ r1.step = r.step /\ r1.phases = r.phases
  BY <1>1, <1>2 DEF SaveOf, OnlyField, DirFields
<1> HIDE DEF r, r1
<1>5. \/ ~stage[n].open /\ r1.results2 = Torn /\ Opened(n)
      \/ stage[n].open /\ r1.results2 = Saved(n, "results2") /\ Turns(n)
  BY <1>1 DEF SaveOf, r1
<1>6. /\ Whole(r.handoff) /\ r.handoff.alerts = stage[n].rows /\ r.phase2
      /\ Whole(r.handoff2) /\ ~Whole(r.results2) /\ audited[stage[n].dir] = stage[n].rows
      /\ r.events = Made(n) /\ r.mapping = Made(n)
  BY <1>1, <1>2, <1>3 DEF StageOK, AtPhase2, Unsaved, Whole
<1>7. HandoffOK(r.handoff) /\ Made(n) \in Lines
  BY <1>2, <1>6 DEF DirOK, HandoffOK, r, Made, Lines
<1>8. Whole(r.events) /\ Whole(r.mapping)
  BY <1>6, <1>7, ValueAssumption DEF Whole
<1>9. r1.results2 = Saved(n, "results2") => Whole(r1.results2)
  <2>1. Saved(n, "results2") = [synthetic |-> r.handoff.synthetic]
    BY <1>3 DEF Saved
  <2>2. Saved(n, "results2") \in [synthetic : BOOLEAN]
    BY <2>1, <1>7 DEF HandoffOK
  <2>. QED
    BY <2>2, ValueAssumption DEF Whole
<1>10. Moves(n)
  <2>1. CASE ~stage[n].open /\ r1.results2 = Torn /\ Opened(n)
    <3>1. Step(n)' = "results2" /\ StageShape(n)' /\ stage'[n].open = TRUE
      BY <1>1, <2>1 DEF Opened
    <3>2. AtPhase1(n)' /\ AtPhase2(n)' /\ AtPhase3(n)'
      BY <3>1, <2>1, <1>1, <1>2, <1>3, <1>4, <1>6 DEF AtPhase1, AtPhase2, AtPhase3, Unsaved, Out2
    <3>. QED
      BY <3>1, <3>2, <2>1, <1>2 DEF Moves, StageOK, GoesOnWith, Opened
  <2>2. CASE stage[n].open /\ r1.results2 = Saved(n, "results2") /\ Turns(n)
    <3>1. Step(n)' = "end" /\ StageShape(n)' /\ stage'[n].open = FALSE
      BY <1>1, <2>2 DEF Turns
    <3>2. AtPhase1(n)' /\ AtPhase2(n)' /\ AtPhase3(n)'
      BY <3>1 DEF AtPhase1, AtPhase2, AtPhase3
    <3>3. ASSUME NEW q \in 1 .. 3, stage[n].todo \in Todo(q)
          PROVE  GoesOnWith(n, q)
      <4>1. ASSUME NEW d \in Dirs, d = stage[n].dir
            PROVE  Out(2, d)'
        <5>1. r1 = dir'[d]
          BY <4>1 DEF r1
        <5>. QED
          BY <5>1, <2>2, <1>4, <1>6, <1>8, <1>9 DEF Out, Out2
      <4>2. stage'[n].todo = <<>> => q = 2
        BY <3>3, <2>2, <1>1 DEF Turns
      <4>. QED
        BY <3>3, <4>1, <4>2, <2>2 DEF GoesOnWith, Turns
    <3>. QED
      BY <3>1, <3>2, <3>3 DEF Moves, StageOK
  <2>. QED
    BY <1>5, <2>1, <2>2
<1>11. OthersKept(n)
  <2>1. stage[n].dir = n
    BY <1>1, <1>2, LateStages
  <2> SUFFICES ASSUME NEW m \in Dirs, m # n, Working(m)
               PROVE  StageOK(m)'
    BY DEF OthersKept
  <2>2. /\ StageOK(m) /\ stage[m].dir \in Dirs /\ stage'[m] = stage[m]
        /\ \A e \in Dirs : e # stage[n].dir => dir'[e] = dir[e]
    BY StageFacts, StageFrame DEF LaunchInv
  <2>3. CASE stage[m].dir # stage[n].dir
    BY <1>2, <2>2, <2>3, SameStage
  <2>4. CASE stage[m].dir = stage[n].dir
    <3>1. Step(m) \in {"phase3", "mkdir", "trials", "results3", "end"}
      BY <2>1, <2>4, LateStages
    <3>2. Step(m)' = Step(m) /\ Dir(m) = r /\ Dir(m)' = r1 /\ (Smoke(m)' <=> Smoke(m))
      BY <2>2, <2>4 DEF Step, Dir, Smoke, r, r1
    <3>3. StageShape(m)'
      BY <1>2, <2>2, <3>2 DEF StageOK, StageShape
    <3>4. AtPhase1(m)' /\ AtPhase2(m)'
      BY <3>1, <3>2 DEF AtPhase1, AtPhase2
    <3>5. Out2(stage[m].dir)' <=> Out2(stage[m].dir)
      BY <2>2, <2>4, <1>4 DEF Out2, r, r1
    <3>6. AtPhase3(m)'
      BY <1>2, <1>4, <2>2, <3>2, <3>5 DEF StageOK, AtPhase3, Unsaved
    <3>. QED
      BY <3>3, <3>4, <3>6 DEF StageOK
  <2>. QED
    BY <2>3, <2>4
<1>12. DirKept(n)
  <2> SUFFICES ASSUME NEW d \in Dirs, d = stage[n].dir
               PROVE  DirOK(d)' /\ \A p \in 1 .. 3 : Out(p, d) => Out(p, d)'
    BY <1>4 DEF DirKept, r, r1
  <2>1. r = dir[d] /\ r1 = dir'[d] /\ DirOK(d)
    BY <1>2 DEF r, r1
  <2>2. DirOK(d)'
    <3>1. d \in Nat /\ d <= launches /\ launches \in Nat /\ ~(d > launches') /\ launches' = launches
      BY <1>2, LauncherAssumption DEF Dirs, LaunchInv, LauncherType
    <3>2. r1.phase2 /\ r1.phase2 \in BOOLEAN /\ audited'[d] = audited[d]
      BY <1>2, <1>4, <1>6, <2>1 DEF DirOK
    <3>. QED
      BY <2>1, <3>1, <3>2, <1>4 DEF DirOK
  <2>. QED
    BY <2>1, <2>2, <1>4, <1>6 DEF Out, Out2
<1>. QED
  BY <1>10, <1>11, <1>12 DEF Local

(* A step of the stage whose directory phase3/ is, or is to be.            *)
LEMMA OthersWithout ==
    ASSUME LaunchInv, StagesInv, NEW n \in Dirs, StageStep(n), audited' = audited,
           dir[stage[n].dir].phase3 \in {0, n},
           \A g \in DirFields \ {"phase3", "results3"} :
               dir'[stage[n].dir][g] = dir[stage[n].dir][g]
    PROVE  OthersKept(n)
<1> DEFINE r == dir[stage[n].dir]
           r1 == dir'[stage[n].dir]
<1>1. /\ launches' = launches /\ UNCHANGED dvars
      /\ r1.alerts = r.alerts /\ r1.handoff = r.handoff /\ r1.phase2 = r.phase2
      /\ r1.events = r.events /\ r1.mapping = r.mapping /\ r1.handoff2 = r.handoff2
      /\ r1.results2 = r.results2 /\ r.phase3 \in {0, n}
  BY StageFrame DEF LaunchInv, DirFields
<1> HIDE DEF r, r1
<1> SUFFICES ASSUME NEW m \in Dirs, m # n, Working(m)
             PROVE  StageOK(m)'
  BY DEF OthersKept
<1>2. /\ StageOK(m) /\ stage[m].dir \in Dirs /\ stage'[m] = stage[m] /\ m \in Nat \ {0}
      /\ \A e \in Dirs : e # stage[n].dir => dir'[e] = dir[e]
  BY StageFacts, StageFrame DEF LaunchInv
<1>3. CASE stage[m].dir # stage[n].dir
  BY <1>1, <1>2, <1>3, SameStage
<1>4. CASE stage[m].dir = stage[n].dir
  <2>1. Step(m)' = Step(m) /\ Dir(m) = r /\ Dir(m)' = r1 /\ (Smoke(m)' <=> Smoke(m)) /\ Made(m)' = Made(m)
    BY <1>2, <1>4 DEF Step, Dir, Smoke, r, r1, Made
  <2>2. Step(m) \notin {"trials", "results3"}
    BY <1>1, <1>2, <2>1 DEF StageOK, AtPhase3
  <2>3. StageShape(m)'
    BY <1>1, <1>2, <2>1 DEF StageOK, StageShape
  <2>4. Rows1(m)' <=> Rows1(m)
    BY <1>1, <1>2, <2>1 DEF Rows1, dvars
  <2>5. AtPhase1(m)' /\ AtPhase2(m)'
    BY <1>1, <1>2, <2>1, <2>4 DEF StageOK, AtPhase1, AtPhase2, Unsaved
  <2>6. Out2(stage[m].dir)' <=> Out2(stage[m].dir)
    BY <1>1, <1>2, <1>4 DEF Out2, r, r1
  <2>7. AtPhase3(m)'
    BY <1>1, <1>2, <2>1, <2>2, <2>6 DEF StageOK, AtPhase3
  <2>. QED
    BY <2>3, <2>5, <2>7 DEF StageOK
<1>. QED
  BY <1>3, <1>4

LEMMA Results3Local ==
    ASSUME LaunchInv, StagesInv, NEW n \in Dirs, StageStep(n), At(n, "results3"), Save(n)
    PROVE  Local(n)
<1>1. SaveOf(n, "results3") /\ Step(n) = "results3" /\ Working(n)
  BY SaveIs, AtStep DEF Saves, SaveOf
<1>2. /\ launches' = launches /\ audited' = audited /\ UNCHANGED dvars
      /\ stage[n].dir \in Dirs /\ stage[n].dir <= launches
      /\ StageOK(n) /\ DirOK(stage[n].dir) /\ stage'[n].dir = stage[n].dir
      /\ stage'[n].rows = stage[n].rows /\ stage[n].todo # <<>>
      /\ (Smoke(n)' <=> Smoke(n)) /\ (Made(n)' = Made(n))
  BY <1>1 DEF SaveOf, Smoke, Made
<1> DEFINE r == dir[stage[n].dir]
           r1 == dir'[stage[n].dir]
<1>3. r = Dir(n) /\ r1 = Dir(n)'
  BY <1>2 DEF Dir
<1>4. /\ DirShape(r1)
      /\ r1.alerts = r.alerts /\ r1.handoff = r.handoff /\ r1.phase2 = r.phase2
      /\ r1.events = r.events /\ r1.mapping = r.mapping /\ r1.handoff2 = r.handoff2
      /\ r1.results2 = r.results2 /\ r1.phase3 = r.phase3 /\ r1.status = r.status
      /\ r1.step = r.step /\ r1.phases = r.phases
  BY <1>1, <1>2 DEF SaveOf, OnlyField, DirFields
<1> HIDE DEF r, r1
<1>5. \/ ~stage[n].open /\ r1.results3 = Torn /\ Opened(n)
      \/ stage[n].open /\ r1.results3 = Saved(n, "results3") /\ Turns(n)
  BY <1>1 DEF SaveOf, r1
<1>6. /\ Out2(stage[n].dir) /\ r.phase3 = n /\ ~Whole(r.results3)
      /\ stage[n].rows = [of |-> audited[stage[n].dir]]
      /\ Smoke(n) <=> audited[stage[n].dir].by = Synthetic
  BY <1>1, <1>2, <1>3 DEF StageOK, AtPhase3, Unsaved, Whole
<1>7. Whole(r.handoff) /\ Whole(r.events) /\ Whole(r.mapping) /\ Whole(r.handoff2)
  BY <1>6 DEF Out2, r
<1>8. stage[n].rows \in Lines /\ n \in Nat /\ n # 0
  <2>1. SecondOK(r.handoff2, audited[stage[n].dir])
    BY <1>2, <1>7 DEF DirOK, r
  <2>2. stage[n].rows \in Lines
    BY <2>1, <1>6 DEF SecondOK, Lines
  <2>. QED
    BY <2>2, <1>1, StageFacts
<1>9. r1.results3 = Saved(n, "results3") =>
          Whole(r1.results3) /\ ReplayOK(r1.results3, audited[stage[n].dir], n)
  <2>1. Saved(n, "results3") = [input |-> stage[n].rows, synthetic |-> Smoke(n), by |-> n]
    BY DEF Saved
  <2>2. Saved(n, "results3") \in [input : Lines, synthetic : BOOLEAN, by : Nat]
    <3>1. Smoke(n) \in BOOLEAN
      BY DEF Smoke
    <3>. QED
      BY <2>1, <3>1, <1>8
  <2>3. ReplayOK(Saved(n, "results3"), audited[stage[n].dir], n)
    BY <2>1, <1>6 DEF ReplayOK
  <2>. QED
    BY <2>2, <2>3, ValueAssumption DEF Whole
<1>10. Moves(n)
  <2>1. CASE ~stage[n].open /\ r1.results3 = Torn /\ Opened(n)
    <3>1. Step(n)' = "results3" /\ StageShape(n)' /\ stage'[n].open = TRUE
      BY <1>1, <2>1 DEF Opened
    <3>2. AtPhase1(n)' /\ AtPhase2(n)' /\ AtPhase3(n)'
      <4>1. Out2(stage[n].dir)'
        BY <1>2, <1>4, <1>7 DEF Out2, r1
      <4>2. AtPhase1(n)' /\ AtPhase2(n)'
        BY <3>1 DEF AtPhase1, AtPhase2
      <4>3. AtPhase3(n)'
        BY <3>1, <4>1, <2>1, <1>2, <1>3, <1>4, <1>6 DEF AtPhase3, Unsaved
      <4>. QED
        BY <4>2, <4>3
    <3>. QED
      BY <3>1, <3>2, <2>1, <1>2 DEF Moves, StageOK, GoesOnWith, Opened
  <2>2. CASE stage[n].open /\ r1.results3 = Saved(n, "results3") /\ Turns(n)
    <3>1. Step(n)' = "end" /\ StageShape(n)' /\ stage'[n].open = FALSE
      BY <1>1, <2>2 DEF Turns
    <3>2. AtPhase1(n)' /\ AtPhase2(n)' /\ AtPhase3(n)'
      BY <3>1 DEF AtPhase1, AtPhase2, AtPhase3
    <3>3. ASSUME NEW q \in 1 .. 3, stage[n].todo \in Todo(q)
          PROVE  GoesOnWith(n, q)
      <4>1. ASSUME NEW d \in Dirs, d = stage[n].dir
            PROVE  Out(3, d)'
        <5>1. r1 = dir'[d]
          BY <4>1 DEF r1
        <5>. QED
          BY <5>1, <2>2, <1>4, <1>7, <1>9 DEF Out, Out2
      <4>2. stage'[n].todo = <<>> => q = 3
        BY <3>3, <2>2, <1>1 DEF Turns
      <4>. QED
        BY <3>3, <4>1, <4>2, <2>2 DEF GoesOnWith, Turns
    <3>. QED
      BY <3>1, <3>2, <3>3 DEF Moves, StageOK
  <2>. QED
    BY <1>5, <2>1, <2>2
<1>11. OthersKept(n)
  <2>1. \A g \in DirFields \ {"phase3", "results3"} :
            dir'[stage[n].dir][g] = dir[stage[n].dir][g]
    BY <1>1, <1>2 DEF SaveOf, OnlyField
  <2>. QED
    BY <2>1, <1>2, <1>6, OthersWithout DEF r
<1>12. DirKept(n)
  <2> SUFFICES ASSUME NEW d \in Dirs, d = stage[n].dir
               PROVE  DirOK(d)' /\ \A p \in 1 .. 3 : Out(p, d) => Out(p, d)'
    BY <1>4 DEF DirKept, r, r1
  <2>1. r = dir[d] /\ r1 = dir'[d] /\ DirOK(d)
    BY <1>2 DEF r, r1
  <2>2. Whole(r1.results3) => ReplayOK(r1.results3, audited[d], r1.phase3)
    BY <1>4, <1>5, <1>6, <1>9 DEF Whole
  <2>3. DirOK(d)'
    <3>1. d \in Nat /\ d <= launches /\ launches \in Nat /\ ~(d > launches') /\ launches' = launches
      BY <1>2, LauncherAssumption DEF Dirs, LaunchInv, LauncherType
    <3>2. r1.phase3 # 0 /\ audited'[d] = audited[d]
      BY <1>2, <1>4, <1>6, <1>8
    <3>. QED
      BY <2>1, <2>2, <3>1, <3>2, <1>4 DEF DirOK
  <2>. QED
    BY <2>1, <2>3, <1>4, <1>6 DEF Out, Out2
<1>. QED
  BY <1>10, <1>11, <1>12 DEF Local

LEMMA MkdirLocal ==
    ASSUME LaunchInv, StagesInv, NEW n \in Dirs, StageStep(n), MakePhase3(n)
    PROVE  Local(n)
<1>1. /\ Working(n) /\ UNCHANGED dvars /\ launches' = launches /\ audited' = audited
      /\ dir' = [dir EXCEPT ![stage[n].dir].phase3 = n] /\ Maps /\ Dir(n).phase3 = 0
  BY StageFrame DEF LaunchInv, MakePhase3, NoDirectoryYet
<1>2. /\ StageOK(n) /\ StageShape(n) /\ Step(n) = "mkdir" /\ DirOK(stage[n].dir) /\ stage[n].dir \in Dirs
      /\ stage[n].todo # <<>> /\ launches \in Nat /\ stage[n].dir <= launches
      /\ n \in Nat \ {0} /\ n <= launches
  BY <1>1, StageFacts, AtStep DEF MakePhase3
<1>3. Turns(n) /\ stage'[n].rows = stage[n].rows
  BY <1>1, <1>2, DoneTurns DEF MakePhase3, Later
<1>4. /\ Step(n)' = "trials" /\ StageShape(n)' /\ stage'[n].dir = stage[n].dir
      /\ stage'[n].open = FALSE /\ (Smoke(n)' <=> Smoke(n))
  BY <1>1, <1>2, <1>3 DEF Turns, Smoke
<1> DEFINE r == dir[stage[n].dir]
           r1 == dir'[stage[n].dir]
<1>5. r1 = [r EXCEPT !.phase3 = n]
  BY <1>1, <1>2 DEF Maps
<1>6. DirShape(r)
  BY <1>2 DEF DirOK
<1>7. r = Dir(n) /\ r1 = Dir(n)'
  BY <1>4 DEF Dir
<1> HIDE DEF r, r1
<1>8. /\ DirShape(r1) /\ r1.phase3 = n
      /\ r1.alerts = r.alerts /\ r1.handoff = r.handoff /\ r1.phase2 = r.phase2
      /\ r1.events = r.events /\ r1.mapping = r.mapping /\ r1.handoff2 = r.handoff2
      /\ r1.results2 = r.results2 /\ r1.results3 = r.results3 /\ r1.status = r.status
      /\ r1.step = r.step /\ r1.phases = r.phases
  BY <1>5, <1>6 DEF DirShape, DirFields
<1>9. /\ Out2(stage[n].dir) /\ stage[n].rows = [of |-> audited[stage[n].dir]]
      /\ Smoke(n) <=> audited[stage[n].dir].by = Synthetic
      /\ r.phase3 = 0 /\ r.results3 = None
  BY <1>1, <1>2, <1>7 DEF StageOK, AtPhase3, DirOK, r
<1>10. Whole(r.handoff) /\ Whole(r.events) /\ Whole(r.mapping) /\ Whole(r.handoff2)
  BY <1>9 DEF Out2, r
<1>11. AtPhase1(n)' /\ AtPhase2(n)'
  BY <1>4 DEF AtPhase1, AtPhase2
<1>12. Out2(stage[n].dir)'
  BY <1>4, <1>8, <1>10 DEF Out2, r1
<1>13. AtPhase3(n)'
  BY <1>1, <1>3, <1>4, <1>7, <1>8, <1>9, <1>12 DEF AtPhase3, Unsaved
<1>14. Moves(n)
  BY <1>2, <1>3, <1>4, <1>11, <1>13 DEF Moves, StageOK, GoesOnWith, Turns
<1>15. OthersKept(n)
  <2>1. \A g \in DirFields \ {"phase3", "results3"} :
            dir'[stage[n].dir][g] = dir[stage[n].dir][g]
    BY <1>5, <1>6 DEF DirShape, r, r1
  <2>. QED
    BY <2>1, <1>1, <1>9, OthersWithout DEF r
<1>16. DirKept(n)
  <2> SUFFICES ASSUME NEW d \in Dirs, d = stage[n].dir
               PROVE  DirOK(d)' /\ \A p \in 1 .. 3 : Out(p, d) => Out(p, d)'
    BY <1>8 DEF DirKept, r, r1
  <2>1. r = dir[d] /\ r1 = dir'[d] /\ DirOK(d)
    BY <1>2 DEF r, r1
  <2>2. ~Whole(r1.results3)
    BY <1>8, <1>9 DEF Whole
  <2>3. DirOK(d)'
    <3>1. d \in Nat /\ d <= launches /\ launches \in Nat /\ ~(d > launches') /\ launches' = launches
      BY <1>1, <1>2, LauncherAssumption DEF Dirs, LaunchInv, LauncherType
    <3>2. r1.phase3 # 0 /\ r1.phase3 \in 0 .. launches /\ audited'[d] = audited[d]
      BY <1>1, <1>2, <1>8
    <3>. QED
      BY <2>1, <2>2, <3>1, <3>2, <1>8, <1>10 DEF DirOK
  <2>. QED
    BY <2>1, <2>3, <1>8 DEF Out, Out2
<1>. QED
  BY <1>14, <1>15, <1>16 DEF Local

-----------------------------------------------------------------------------
(* Any step of a stage.                                                    *)

LEMMA StageStepLocal ==
    ASSUME LaunchInv, StagesInv, NEW n \in Dirs, StageStep(n)
    PROVE  OthersKept(n) /\ DirKept(n) /\ (Moves(n) \/ StageEnds(n))
<1>1. CASE Prepare(n)
  BY <1>1, PrepareLocal DEF Local
<1>2. CASE Phase2(n)
  BY <1>2, Phase2Local DEF Local
<1>3. CASE MakePipeline(n)
  BY <1>3, PipelineLocal DEF Local
<1>4. CASE SubmitAndAudit(n)
  BY <1>4, AuditLocal DEF Local
<1>5. CASE Phase3(n)
  BY <1>5, Phase3Local DEF Local
<1>6. CASE MakePhase3(n)
  BY <1>6, MkdirLocal DEF Local
<1>7. CASE Trials(n)
  BY <1>7, TrialsLocal DEF Local
<1>8. CASE Save(n)
  <2>1. PICK f \in Saves : At(n, f)
    BY <1>8 DEF Save
  <2>. QED
    BY <1>8, <2>1, AlertsLocal, HandoffLocal, EventsLocal, MappingLocal, Handoff2Local, Results2Local,
       Results3Local DEF Local, Saves
<1>9. CASE StageEnds(n)
  BY <1>9, Quiet DEF StageEnds
<1>. QED
  BY <1>1, <1>2, <1>3, <1>4, <1>5, <1>6, <1>7, <1>8, <1>9 DEF StageStep

LEMMA StillWorking ==
    ASSUME Maps, NEW n \in Dirs, StageShape(n), StageStep(n), ~StageEnds(n)
    PROVE  Working(n)'
<1>1. Working(n)
  BY DEF StageStep
<1>2. \/ \E x, y : stage' = [stage EXCEPT ![n].todo = x \o Tail(@), ![n].rows = y, ![n].open = FALSE]
      \/ stage' = [stage EXCEPT ![n].todo = <<"phase1">> \o @]
      \/ stage' = [stage EXCEPT ![n].open = TRUE]
  BY DEF StageStep, Prepare, Phase2, MakePipeline, SubmitAndAudit, Phase3, MakePhase3, Trials, Save,
         Done, Then
<1>3. stage[n] = [f \in StageFields |-> stage[n][f]] /\ "state" \in StageFields
  BY DEF StageShape, StageFields
<1>4. stage'[n].state = stage[n].state
  <2>1. CASE \E x, y : stage' = [stage EXCEPT ![n].todo = x \o Tail(@), ![n].rows = y, ![n].open = FALSE]
    <3>1. PICK x, y : stage' = [stage EXCEPT ![n].todo = x \o Tail(@), ![n].rows = y, ![n].open = FALSE]
      BY <2>1
    <3> DEFINE z == x \o Tail(stage[n].todo)
    <3>2. stage'[n] = [stage[n] EXCEPT !.todo = z, !.rows = y, !.open = FALSE]
      BY <3>1 DEF Maps
    <3> HIDE DEF z
    <3>. QED
      BY <3>2, <1>3
  <2>2. CASE stage' = [stage EXCEPT ![n].todo = <<"phase1">> \o @]
    <3> DEFINE z == <<"phase1">> \o stage[n].todo
    <3>1. stage'[n] = [stage[n] EXCEPT !.todo = z]
      BY <2>2 DEF Maps
    <3> HIDE DEF z
    <3>. QED
      BY <3>1, <1>3
  <2>3. CASE stage' = [stage EXCEPT ![n].open = TRUE]
    BY <2>3, <1>3 DEF Maps
  <2>. QED
    BY <1>2, <2>1, <2>2, <2>3
<1>. QED
  BY <1>1, <1>4 DEF Working

LEMMA EndedStage ==
    ASSUME Maps, NEW n \in Dirs, StageEnds(n)
    PROVE  /\ ~Working(n)'
           /\ child = "stage" /\ launcher.number = n =>
                 stage'[n] = [state |-> IF stage[n].todo = <<>> THEN "ok" ELSE "failed"]
<1>1. stage'[n] = IF child = "stage" /\ launcher.number = n
                  THEN [state |-> IF stage[n].todo = <<>> THEN "ok" ELSE "failed"] ELSE Gone
  BY DEF StageEnds, Maps
<1>. QED
  BY <1>1 DEF Working, Gone

LEMMA StageStepKeeps ==
    ASSUME LaunchInv, StagesInv, NEW n \in Dirs, StageStep(n)
    PROVE  /\ StagesInv'
           /\ \A d \in Dirs : \A p \in 1 .. 3 : Out(p, d) => Out(p, d)'
           /\ \A d \in Dirs : /\ dir'[d].status = dir[d].status /\ dir'[d].step = dir[d].step
                              /\ dir'[d].phases = dir[d].phases
<1>1. /\ Working(n) /\ Maps /\ launches' = launches /\ launches \in Nat
      /\ \A m \in Dirs : m # n => stage'[m] = stage[m]
      /\ \A d \in Dirs : d # stage[n].dir => dir'[d] = dir[d] /\ audited'[d] = audited[d]
  BY StageFrame, StageFacts DEF LaunchInv
<1>2. OthersKept(n) /\ DirKept(n) /\ (Moves(n) \/ StageEnds(n))
  BY StageStepLocal
<1>3. ASSUME NEW d \in Dirs
      PROVE  /\ DirOK(d)' /\ \A p \in 1 .. 3 : Out(p, d) => Out(p, d)'
             /\ dir'[d].status = dir[d].status /\ dir'[d].step = dir[d].step
             /\ dir'[d].phases = dir[d].phases
  <2>1. CASE d = stage[n].dir
    BY <1>2, <2>1 DEF DirKept
  <2>2. CASE d # stage[n].dir
    <3>1. dir'[d] = dir[d] /\ audited'[d] = audited[d] /\ DirOK(d)
      BY <1>1, <2>2 DEF StagesInv
    <3>. QED
      BY <3>1, <1>1, SameDir
  <2>. QED
    BY <2>1, <2>2
<1>4. ASSUME NEW m \in Dirs, Working(m)'
      PROVE  StageOK(m)'
  <2>1. CASE m = n
    <3>1. ~StageEnds(n)
      BY <1>1, <1>4, <2>1, EndedStage
    <3>. QED
      BY <1>2, <2>1, <3>1 DEF Moves
  <2>2. CASE m # n
    <3>1. Working(m)
      BY <1>1, <1>4, <2>2 DEF Working
    <3>. QED
      BY <1>2, <2>2, <3>1 DEF OthersKept
  <2>. QED
    BY <2>1, <2>2
<1>. QED
  BY <1>3, <1>4 DEF StagesInv, StageInv

(* A launcher's child, and the stages of others in its directory.          *)
LEMMA StageStepKeepsLauncher ==
    ASSUME LaunchInv, StagesInv, LauncherInv, NEW n \in Dirs, StageStep(n)
    PROVE  LauncherInv'
<1> SUFFICES ASSUME launcher # None
             PROVE  LauncherInv'
  BY StageFrame DEF LauncherInv, LaunchInv
<1>. PICK l, e, ph, h, t : /\ l = launcher.number /\ e = launcher.dir /\ ph = launcher.phases
                          /\ t = launcher.todo /\ h = Head(t)
  OBVIOUS
<1>1. /\ Working(n) /\ Maps /\ launches' = launches /\ launcher' = launcher /\ child' = child
      /\ \A m \in Dirs : m # n => stage'[m] = stage[m]
      /\ \A d \in Dirs : d # stage[n].dir => dir'[d] = dir[d]
      /\ StageOK(n) /\ StageShape(n)
  BY StageFrame, StageFacts DEF LaunchInv
<1>2. OthersKept(n) /\ DirKept(n) /\ (Moves(n) \/ StageEnds(n))
  BY StageStepLocal
<1>3. /\ l = launches /\ launches \in Dirs /\ e \in 1 .. launches /\ e \in Dirs
      /\ ph \in SUBSET (1 .. 3) /\ t \in Seq(0 .. 13) /\ PlanOf(t, ph)
      /\ child # None => t # <<>>
      /\ child = "stage" => h > 10 /\ h \in 0 .. 13
  <2>1. /\ l = launches /\ launches \in Dirs /\ e \in 1 .. launches
        /\ ph \in SUBSET (1 .. 3) /\ t \in Seq(0 .. 13) /\ PlanOf(t, ph)
        /\ child # None => t # <<>>
    BY DEF LaunchInv, LauncherType
  <2>2. e \in Dirs
    BY <2>1, LauncherAssumption DEF Dirs
  <2>3. child = "stage" => h > 10 /\ h \in 0 .. 13
    BY <2>1, ChildNames DEF LaunchInv, ScriptOrder, Child
  <2>. QED
    BY <2>1, <2>2, <2>3
<1>4. /\ ph # {3} => l = e
      /\ 3 \in ph /\ ph # {3} => 2 \in ph
      /\ Left2Do(11) /\ ~PhaseRuns(1) => dir[e].handoff = None
      /\ Left2Do(12) /\ ~PhaseRuns(2) => ~dir[e].phase2
      /\ Left2Do(12) /\ ph = {2} /\ ~PhaseRuns(2) => dir[e].handoff = None
      /\ \A p \in ph : ~Left2Do(10 + p) => Out(p, e)
      /\ child # "stage" => ~Working(l)
      /\ child = "stage" =>
            \/ /\ Working(l)
               /\ stage[l].dir = e /\ stage[l].mode = launcher.mode
               /\ stage[l].todo \in Todo(h - 10)
               /\ stage[l].todo = <<>> => Out(h - 10, e)
            \/ stage[l] = [state |-> "ok"] /\ Out(h - 10, e)
            \/ stage[l] = [state |-> "failed"]
      /\ child = None =>
            \/ t # <<>> /\ h = 0
            \/ dir[e].step = "completed" /\ dir[e].phases = ph
      /\ child # None => dir[e].phases = ph
  BY DEF LauncherInv
<1>5. (\A k : Left2Do(k)' <=> Left2Do(k)) /\ (\A p : PhaseRuns(p)' <=> PhaseRuns(p))
  BY <1>1 DEF Left2Do, PhaseRuns
<1>6. /\ \A p \in 1 .. 3 : Out(p, e) => Out(p, e)'
      /\ dir'[e].step = dir[e].step /\ dir'[e].phases = dir[e].phases
  BY <1>3, StageStepKeeps
(* Its files stay away until its stages make them.                         *)
<1>7. /\ Left2Do(11) /\ ~PhaseRuns(1) => dir'[e].handoff = None
      /\ Left2Do(12) /\ ~PhaseRuns(2) => ~dir'[e].phase2
      /\ Left2Do(12) /\ ph = {2} /\ ~PhaseRuns(2) => dir'[e].handoff = None
  <2>1. CASE stage[n].dir # e
    BY <2>1, <1>1, <1>3, <1>4
  <2>2. CASE stage[n].dir = e /\ n # l
    <3>1. ph = {3}
      BY <2>2, <1>1, <1>3, <1>4, LauncherAssumption DEF StageShape, Dirs
    <3>2. ~Left2Do(11) /\ ~Left2Do(12)
      <4>1. ASSUME NEW i \in 1 .. Len(t)
            PROVE  t[i] # 11 /\ t[i] # 12
        <5>1. t[i] \in {0} \cup Scripts \cup {10 + q : q \in {3}}
          BY <3>1, <1>3 DEF PlanOf
        <5>. QED
          BY <5>1, ScriptNumbers
      <4>. QED
        BY <4>1 DEF Left2Do
    <3>. QED
      BY <3>2
  <2>3. CASE stage[n].dir = e /\ n = l
    <3>1. child = "stage" /\ launcher # None /\ t # <<>>
      BY <2>3, <1>1, <1>3, <1>4, ChildNames DEF Child
    <3>2. stage[l].todo \in Todo(h - 10) /\ h - 10 \in 1 .. 3 /\ h \in Nat
      BY <2>3, <3>1, <1>1, <1>3, <1>4 DEF Working
    <3>3. \A j \in Nat : j < h => ~Left2Do(j)
      BY <3>1, NextItem
    <3>4. CASE h = 11
      <4>1. dir'[e].phase2 = dir[e].phase2
        BY <2>3, <3>2, <3>4, <1>2, <1>3 DEF DirKept, Todo
      <4>2. PhaseRuns(1) /\ ~PhaseRuns(2)
        BY <3>1, <3>4 DEF PhaseRuns
      <4>3. Left2Do(12) => ph # {2}
        <5>1. h \in {0} \cup Scripts \cup {10 + q : q \in ph}
          BY <3>1, NextItem
        <5>. QED
          BY <5>1, <3>4, <1>3, ScriptNumbers, SMTT(30)
      <4>. QED
        BY <4>1, <4>2, <4>3, <1>4
    <3>5. CASE h = 12
      BY <3>1, <3>3, <3>5 DEF PhaseRuns
    <3>6. CASE h = 13
      BY <3>3, <3>6
    <3>. QED
      BY <3>2, <3>4, <3>5, <3>6
  <2>. QED
    BY <2>1, <2>2, <2>3
<1>8. child # "stage" => ~Working(l)'
  <2>1. child # "stage" => l # n
    BY <1>1, <1>4
  <2>. QED
    BY <2>1, <1>1, <1>3, <1>4 DEF Working
<1>9. child = "stage" =>
            \/ /\ Working(l)'
               /\ stage'[l].dir = e /\ stage'[l].mode = launcher.mode
               /\ stage'[l].todo \in Todo(h - 10)
               /\ stage'[l].todo = <<>> => Out(h - 10, e)'
            \/ stage'[l] = [state |-> "ok"] /\ Out(h - 10, e)'
            \/ stage'[l] = [state |-> "failed"]
  <2> SUFFICES ASSUME child = "stage"
               PROVE  \/ /\ Working(l)'
                         /\ stage'[l].dir = e /\ stage'[l].mode = launcher.mode
                         /\ stage'[l].todo \in Todo(h - 10)
                         /\ stage'[l].todo = <<>> => Out(h - 10, e)'
                      \/ stage'[l] = [state |-> "ok"] /\ Out(h - 10, e)'
                      \/ stage'[l] = [state |-> "failed"]
    OBVIOUS
  <2>1. h - 10 \in 1 .. 3
    BY <1>3
  <2>2. CASE l # n
    <3>1. stage'[l] = stage[l]
      BY <2>2, <1>1, <1>3
    <3>. QED
      BY <3>1, <2>1, <1>4, <1>6 DEF Working
  <2>3. CASE l = n
    <3>1. /\ stage[l].dir = e /\ stage[l].mode = launcher.mode
          /\ stage[l].todo \in Todo(h - 10)
          /\ stage[l].todo = <<>> => Out(h - 10, e)
      BY <2>3, <1>1, <1>4 DEF Working
    <3>2. CASE Moves(n) /\ ~StageEnds(n)
      <4>1. GoesOnWith(l, h - 10) /\ StageOK(l)'
        BY <2>1, <2>3, <3>1, <3>2 DEF Moves
      <4>2. Working(l)'
        BY <1>1, <2>3, <3>2, StillWorking
      <4>. QED
        BY <4>1, <4>2, <3>1, <1>3 DEF GoesOnWith
    <3>3. CASE StageEnds(n)
      <4>1. stage'[l] = [state |-> IF stage[l].todo = <<>> THEN "ok" ELSE "failed"]
        BY <1>1, <2>3, <3>3, EndedStage
      <4>. QED
        BY <4>1, <3>1, <2>1, <1>6
    <3>. QED
      BY <1>2, <3>2, <3>3
  <2>. QED
    BY <2>2, <2>3
<1>10. \A p \in ph : ~Left2Do(10 + p)' => Out(p, e)'
  BY <1>3, <1>4, <1>5, <1>6
<1>11. /\ launcher'.number = l /\ launcher'.dir = e /\ launcher'.phases = ph
       /\ launcher'.todo = t /\ Head(launcher'.todo) = h /\ launcher'.mode = launcher.mode
  BY <1>1
<1>12. /\ Left2Do(11)' /\ ~PhaseRuns(1)' => dir'[e].handoff = None
       /\ Left2Do(12)' /\ ~PhaseRuns(2)' => ~dir'[e].phase2
       /\ Left2Do(12)' /\ ph = {2} /\ ~PhaseRuns(2)' => dir'[e].handoff = None
  BY <1>5, <1>7
<1>13. /\ child' = None =>
             \/ t # <<>> /\ h = 0
             \/ dir'[e].step = "completed" /\ dir'[e].phases = ph
       /\ child' # None => dir'[e].phases = ph
  BY <1>1, <1>4, <1>6
<1>. QED
  BY <1>1, <1>4, <1>8, <1>9, <1>10, <1>11, <1>12, <1>13 DEF LauncherInv

-----------------------------------------------------------------------------
(* Steps of the launcher: they touch the manifest and no other file.       *)

Manifest == {"status", "step", "mode", "phases"}
SameFiles(d) ==
    /\ DirShape(dir'[d]) /\ \A g \in DirFields \ Manifest : dir'[d][g] = dir[d][g]
    /\ d > launches' => dir'[d] = dir[d]

LEMMA FilesKept ==
    ASSUME NEW d \in Dirs, SameFiles(d), audited'[d] = audited[d], DirOK(d),
           launches' \in {launches, launches + 1}, launches \in Nat
    PROVE  DirOK(d)' /\ \A p \in 1 .. 3 : Out(p, d) <=> Out(p, d)'
<1> DEFINE r == dir[d]
           r1 == dir'[d]
<1>1. /\ DirShape(r1)
      /\ r1.alerts = r.alerts /\ r1.handoff = r.handoff /\ r1.phase2 = r.phase2
      /\ r1.events = r.events /\ r1.mapping = r.mapping /\ r1.handoff2 = r.handoff2
      /\ r1.results2 = r.results2 /\ r1.phase3 = r.phase3 /\ r1.results3 = r.results3
      /\ d > launches' => r1 = r
  BY DEF SameFiles, DirFields, Manifest
<1> HIDE DEF r, r1
<1>2. \A p \in 1 .. 3 : Out(p, d) <=> Out(p, d)'
  BY <1>1 DEF Out, Out2, r, r1
<1>3. d > launches' => d > launches
  BY DEF Dirs
<1>4. r1.phase3 \in 0 .. launches'
  <2>1. r.phase3 \in 0 .. launches
    BY DEF DirOK, r
  <2>. QED
    BY <2>1, <1>1
<1>5. d > launches' => r1 = EmptyDir
  BY <1>1, <1>3 DEF DirOK, r
<1>6. DirOK(d)'
  <2>1. /\ r.phase2 \in BOOLEAN
        /\ ~r.phase2 => r.events = None /\ r.mapping = None /\ r.handoff2 = None /\ r.results2 = None
        /\ Whole(r.handoff) => HandoffOK(r.handoff)
        /\ r.phase2 => Whole(r.handoff)
        /\ Whole(r.handoff2) => SecondOK(r.handoff2, audited[d])
        /\ r.phase3 # 0 => Whole(r.handoff2)
        /\ r.phase3 = 0 => r.results3 = None
        /\ Whole(r.results3) => ReplayOK(r.results3, audited[d], r.phase3)
    BY DEF DirOK, r
  <2>. QED
    BY <2>1, <1>1, <1>4, <1>5 DEF DirOK, r1
<1>. QED
  BY <1>2, <1>6

LEMMA StageKept ==
    ASSUME NEW m \in Dirs, stage'[m] = stage[m], StageOK(m), stage[m].dir \in Dirs,
           SameFiles(stage[m].dir), audited'[stage[m].dir] = audited[stage[m].dir],
           launches' \in {launches, launches + 1}, launches \in Nat
    PROVE  StageOK(m)'
<1> DEFINE r == Dir(m)
           r1 == Dir(m)'
<1>1. /\ r1.alerts = r.alerts /\ r1.handoff = r.handoff /\ r1.phase2 = r.phase2
      /\ r1.events = r.events /\ r1.mapping = r.mapping /\ r1.handoff2 = r.handoff2
      /\ r1.results2 = r.results2 /\ r1.phase3 = r.phase3 /\ r1.results3 = r.results3
  BY DEF SameFiles, DirFields, Manifest, Dir
<1> HIDE DEF r, r1
<1>2. Step(m)' = Step(m) /\ (Smoke(m)' <=> Smoke(m)) /\ Made(m)' = Made(m) /\ (Rows1(m)' <=> Rows1(m))
  BY DEF Step, Smoke, Made, Rows1
<1>3. StageShape(m)'
  BY <1>2 DEF StageOK, StageShape, Dirs
<1>4. AtPhase1(m)'
  BY <1>1, <1>2 DEF StageOK, AtPhase1, Unsaved, r, r1
<1>5. AtPhase2(m)'
  BY <1>1, <1>2 DEF StageOK, AtPhase2, Unsaved, r, r1
<1>6. Out2(stage[m].dir)' <=> Out2(stage[m].dir)
  BY <1>1 DEF Out2, r, r1, Dir
<1>7. AtPhase3(m)'
  BY <1>1, <1>2, <1>6 DEF StageOK, AtPhase3, Unsaved, r, r1
<1>. QED
  BY <1>3, <1>4, <1>5, <1>7 DEF StageOK

(* A stage goes on as it was, is gone, or is the launcher's new one.       *)
LEMMA ManifestFrame ==
    ASSUME LaunchInv, StagesInv, launches' \in {launches, launches + 1}, audited' = audited,
           \A d \in Dirs : SameFiles(d),
           \A m \in Dirs : stage'[m] = stage[m] \/ ~Working(m)' \/ StageOK(m)'
    PROVE  StagesInv' /\ \A d \in Dirs : \A p \in 1 .. 3 : Out(p, d) <=> Out(p, d)'
<1>1. launches \in Nat
  BY LauncherAssumption DEF LaunchInv, LauncherType
<1>2. \A d \in Dirs : DirOK(d)' /\ \A p \in 1 .. 3 : Out(p, d) <=> Out(p, d)'
  BY <1>1, FilesKept DEF StagesInv
<1>3. ASSUME NEW m \in Dirs, Working(m)'
      PROVE  StageOK(m)'
  <2>1. CASE StageOK(m)'
    BY <2>1
  <2>2. CASE stage'[m] = stage[m]
    <3>1. Working(m)
      BY <1>3, <2>2 DEF Working
    <3>2. StageOK(m) /\ stage[m].dir \in Dirs
      BY <3>1, StageFacts
    <3>. QED
      BY <1>1, <2>2, <3>1, <3>2, StageKept
  <2>. QED
    BY <1>3, <2>1, <2>2
<1>. QED
  BY <1>2, <1>3 DEF StagesInv, StageInv

LEMMA CompletedKeeps ==
    ASSUME Completed, \A d \in Dirs : \A p \in 1 .. 3 : Out(p, d) => Out(p, d)',
           \A d \in Dirs : dir'[d].status = "completed" =>
               /\ dir[d].status = "completed"
               /\ dir'[d].step = dir[d].step /\ dir'[d].phases = dir[d].phases
    PROVE  Completed'
<1> SUFFICES ASSUME NEW d \in Dirs, dir'[d].status = "completed"
             PROVE  /\ dir'[d].step = "completed"
                    /\ dir'[d].phases \in SUBSET (1 .. 3) /\ dir'[d].phases # {}
                    /\ \A p \in dir'[d].phases : Out(p, d)'
  BY DEF Completed
<1>1. /\ dir[d].step = "completed" /\ dir[d].phases \in SUBSET (1 .. 3) /\ dir[d].phases # {}
      /\ \A p \in dir[d].phases : Out(p, d)
      /\ dir'[d].step = dir[d].step /\ dir'[d].phases = dir[d].phases
  BY DEF Completed
<1>. QED
  BY <1>1

(* What a launcher that runs is known to be.                               *)
LEMMA LauncherFacts ==
    ASSUME LaunchInv, launcher # None
    PROVE  /\ launcher.number = launches /\ launches \in Dirs /\ launches \in Nat
           /\ launcher.dir \in Dirs /\ launcher.dir <= launches /\ launcher.dir \in 1 .. launches
           /\ launcher.phases \in SUBSET (1 .. 3) /\ launcher.phases # {}
           /\ launcher.todo \in Seq(0 .. 13) /\ PlanOf(launcher.todo, launcher.phases)
           /\ child # None => launcher.todo # <<>>
           /\ child = "stage" <=> child # None /\ Head(launcher.todo) > 10
           /\ Maps
<1>1. /\ launcher.number = launches /\ launches \in Dirs
      /\ launcher.dir \in 1 .. launches
      /\ launcher.phases \in SUBSET (1 .. 3) /\ launcher.phases # {}
      /\ launcher.todo \in Seq(0 .. 13) /\ PlanOf(launcher.todo, launcher.phases)
      /\ child # None => launcher.todo # <<>>
      /\ Maps /\ MaxLaunches \in Nat
  BY LauncherAssumption DEF LaunchInv, LauncherType
<1>2. launches \in Nat /\ launcher.dir \in Dirs /\ launcher.dir <= launches
  BY <1>1 DEF Dirs
<1>3. child = "stage" <=> child # None /\ Head(launcher.todo) > 10
  BY ChildNames DEF LaunchInv, ScriptOrder, Child
<1>. QED
  BY <1>1, <1>2, <1>3

LEMMA LaunchKeepsAll ==
    ASSUME LaunchInv, StagesInv, Completed, LauncherInv, NEW c \in Commands, Launch(c)
    PROVE  StagesInv' /\ Completed' /\ LauncherInv'
<1>1. /\ launches < MaxLaunches /\ launches' = launches + 1
      /\ UNCHANGED dvars /\ child' = child /\ stage' = stage /\ dir' = dir /\ audited' = audited
      /\ launcher = None /\ out' = out
  BY DEF Launch, dvars
<1>2. PICK d \in Dirs :
          /\ IF Resumes(c) THEN d <= launches ELSE d = launches'
          /\ launcher' = [dir |-> d, mode |-> c.mode, phases |-> c.first .. c.last,
                          todo |-> Plan(c), number |-> launches']
  BY DEF Launch
<1>3. /\ IsPlan(Plan(c), c.first, c.last, c.mode)
      /\ c.first \in 1 .. 3 /\ c.last \in 1 .. 3 /\ c.first <= c.last
      /\ c.first \in {1, c.last}
  BY PlanFacts
<1>4. /\ launches \in Nat /\ Maps /\ child = None
  BY <1>1, LauncherAssumption, ChildNames DEF LaunchInv, LauncherType
<1>5. \A e \in Dirs : SameFiles(e)
  BY <1>1 DEF SameFiles, StagesInv, DirOK
<1>6. StagesInv' /\ \A e \in Dirs : \A p \in 1 .. 3 : Out(p, e) <=> Out(p, e)'
  BY <1>1, <1>5, ManifestFrame
<1>7. Completed'
  BY <1>1, <1>6, CompletedKeeps
<1>8. LauncherInv'
  <2> DEFINE ph == c.first .. c.last
  <2>1. /\ launcher'.dir = d /\ launcher'.number = launches + 1 /\ launcher'.phases = ph
        /\ launcher'.todo = Plan(c) /\ launcher'.mode = c.mode
    BY <1>1, <1>2
  <2>2. /\ c.first # 3 => d = launches + 1 /\ dir[d] = EmptyDir
    <3>1. c.first # 3 => d = launches + 1
      BY <1>1, <1>2 DEF Resumes
    <3>2. d = launches + 1 => dir[d] = EmptyDir
      BY <1>4 DEF StagesInv, DirOK
    <3>. QED
      BY <3>1, <3>2
  <2>3. /\ ph # {3} => c.first # 3
        /\ 3 \in ph /\ ph # {3} => 2 \in ph
    BY <1>3
  <2>4. /\ \A k : Left2Do(k)' <=> \E i \in 1 .. Len(Plan(c)) : Plan(c)[i] = k
        /\ Plan(c) # <<>> /\ Head(Plan(c)) = 0
    BY <2>1, <1>3 DEF Left2Do, IsPlan
  <2>5. \A p \in ph : Left2Do(10 + p)'
    BY <1>3, <2>4 DEF IsPlan
  <2>6. Left2Do(11)' \/ Left2Do(12)' => ph # {3}
    <3> SUFFICES ASSUME NEW i \in 1 .. Len(Plan(c)), Plan(c)[i] \in {11, 12}
                 PROVE  ph # {3}
      BY <2>4
    <3>1. Plan(c)[i] \in {0} \cup Scripts \cup {10 + q : q \in ph}
      BY <1>3 DEF IsPlan, PlanOf
    <3>. QED
      BY <3>1, ScriptNumbers
  <2> HIDE DEF ph
  <2>7. Left2Do(11)' \/ Left2Do(12)' => dir'[d].handoff = None /\ ~dir'[d].phase2
    BY <2>2, <2>3, <2>6, <1>1 DEF EmptyDir
  <2> PICK k : k = launches + 1
    OBVIOUS
  <2>8. k \in Dirs /\ ~Working(k)'
    <3>1. k \in Dirs
      BY <1>1, <1>4, LauncherAssumption DEF Dirs
    <3>2. ~Working(k)
      BY <1>4, <3>1, StageFacts
    <3>. QED
      BY <3>1, <3>2, <1>1 DEF Working
  <2>9. child' = None /\ child' # "stage"
    BY <1>1, <1>4, ChildNames DEF Child
  <2>10. launcher'.number = k /\ launcher'.dir = d /\ launcher'.phases = ph /\ launcher'.todo = Plan(c)
    BY <2>1
  <2>11. ph # {3} => k = d
    BY <2>2, <2>3
  <2>12. \A p \in ph : ~Left2Do(10 + p)' => Out(p, d)'
    BY <2>5
  <2>13. 3 \in ph /\ ph # {3} => 2 \in ph
    BY <2>3
  <2>. QED
    BY <2>4, <2>7, <2>8, <2>9, <2>10, <2>11, <2>12, <2>13 DEF LauncherInv
<1>. QED
  BY <1>6, <1>7, <1>8

LEMMA NewStage ==
    ASSUME LaunchInv, StagesInv, LauncherInv, StartChild, Head(launcher.todo) > 10
    PROVE  /\ stage'[launches] = Stage(launcher.dir, launcher.mode,
                                       <<"phase1", "phase2", "phase3">>[Head(launcher.todo) - 10])
           /\ Head(launcher.todo) \in {11, 12, 13}
           /\ stage'[launches].todo \in Todo(Head(launcher.todo) - 10) /\ stage'[launches].todo # <<>>
           /\ stage'[launches].dir = launcher.dir /\ stage'[launches].mode = launcher.mode
           /\ Working(launches)'
           /\ (\A g \in DirFields \ Manifest : dir'[launcher.dir][g] = dir[launcher.dir][g]) =>
                 StageOK(launches)'
<1>. PICK l, e, ph, h, m : /\ l = launches /\ e = launcher.dir /\ ph = launcher.phases
                          /\ h = Head(launcher.todo) /\ m = launcher.mode
  OBVIOUS
<1>1. /\ launcher # None /\ child = None /\ launcher.todo # <<>>
      /\ stage' = [stage EXCEPT ![launcher.number] =
                      Stage(e, m, <<"phase1", "phase2", "phase3">>[h - 10])]
      /\ launches' = launches
  <2>1. h > 10
    OBVIOUS
  <2>2. h # 0 /\ h \notin Scripts
    BY <2>1, ScriptNumbers
  <2>. QED
    BY <2>1, <2>2 DEF StartChild
<1>2. /\ launcher.number = l /\ l \in Dirs /\ l \in Nat /\ e \in Dirs /\ e <= l /\ e \in 1 .. l
      /\ ph \in SUBSET (1 .. 3) /\ Maps
  BY <1>1, LauncherFacts
<1>3. /\ h \in {0} \cup Scripts \cup {10 + q : q \in ph} /\ h \in 0 .. 13 /\ Left2Do(h)
  BY <1>1, NextItem
<1>4. h \in {11, 12, 13} /\ h - 10 \in ph
  BY <1>2, <1>3, ScriptNumbers
<1> DEFINE x == <<"phase1", "phase2", "phase3">>[h - 10]
<1>5. /\ h = 11 => x = "phase1"
      /\ h = 12 => x = "phase2"
      /\ h = 13 => x = "phase3"
  OBVIOUS
<1> HIDE DEF x
<1>6. stage'[l] = [dir |-> e, mode |-> m, todo |-> <<x>>, rows |-> None, open |-> FALSE, state |-> "running"]
  BY <1>1, <1>2 DEF Stage, Maps, x
<1>7. /\ stage'[l].dir = e /\ stage'[l].mode = m /\ stage'[l].todo = <<x>>
      /\ stage'[l].open = FALSE /\ stage'[l].state = "running"
      /\ stage'[l] = [f \in StageFields |-> stage'[l][f]]
  BY <1>6 DEF StageFields
<1>8. <<x>> \in Todo(h - 10) /\ <<x>> # <<>> /\ First(<<x>>) = x
  BY <1>4, <1>5 DEF Todo, Phase1Todo, Phase2Todo, Phase3Todo, First
<1>9. ASSUME \A g \in DirFields \ Manifest : dir'[e][g] = dir[e][g]
      PROVE  StageOK(l)'
  <2>1. dir'[e].phase2 = dir[e].phase2 /\ dir'[e].handoff = dir[e].handoff
    BY <1>9 DEF DirFields, Manifest
  <2>2. Step(l)' = x /\ Dir(l)' = dir'[e]
    BY <1>7, <1>8 DEF Step, Dir
  <2>3. x # "phase3" => h # 13 /\ ph # {3} /\ e = l
    <3>1. x # "phase3" => h # 13
      BY <1>4, <1>5
    <3>2. h # 13 => ph # {3}
      BY <1>4
    <3>3. ph # {3} => l = e
      BY <1>1, <1>2 DEF LauncherInv
    <3>. QED
      BY <3>1, <3>2, <3>3
  <2>4. StageShape(l)'
    <3>1. <<x>> \in AllTodo
      BY <1>4, <1>8 DEF AllTodo, Todo
    <3>2. <<x>> \notin Phase3Todo => e = l
      <4>1. x = "phase3" => <<x>> \in Phase3Todo
        BY DEF Phase3Todo
      <4>. QED
        BY <4>1, <2>3
    <3>3. stage'[l].open \in BOOLEAN /\ ~stage'[l].open
      BY <1>7
    <3>. QED
      BY <3>1, <3>2, <3>3, <1>1, <1>2, <1>7, SMTT(90) DEF StageShape
  <2>5. /\ h = 11 => dir[e].handoff = None /\ ~dir[e].phase2
        /\ h = 12 => ~dir[e].phase2
    <3>1. ~PhaseRuns(1) /\ ~PhaseRuns(2)
      BY <1>1, ChildNames DEF PhaseRuns, Child
    <3>2. /\ h = 11 => dir[e].handoff = None
          /\ h = 12 => ~dir[e].phase2
      BY <1>1, <1>3, <3>1 DEF LauncherInv
    <3>3. dir[e].phase2 => Whole(dir[e].handoff)
      BY <1>2 DEF StagesInv, DirOK
    <3>. QED
      BY <3>2, <3>3 DEF Whole
  <2>6. AtPhase1(l)'
    BY <2>1, <2>2, <2>5, <1>4, <1>5 DEF AtPhase1, Unsaved
  <2>7. AtPhase2(l)' /\ AtPhase3(l)'
    BY <2>1, <2>2, <2>5, <1>4, <1>5 DEF AtPhase2, AtPhase3
  <2>. QED
    BY <2>4, <2>6, <2>7 DEF StageOK
<1>. QED
  BY <1>1, <1>4, <1>6, <1>7, <1>8, <1>9 DEF Working, Stage, x

LEMMA ManifestOf ==
    ASSUME StagesInv, NEW e \in Dirs, e <= launches', launches' \in Nat,
           \A d \in Dirs : d # e => dir'[d] = dir[d],
           DirShape(dir'[e]), \A g \in DirFields \ Manifest : dir'[e][g] = dir[e][g]
    PROVE  \A d \in Dirs : SameFiles(d)
<1>1. \A d \in Dirs : DirShape(dir[d])
  BY DEF StagesInv, DirOK
<1>2. ~(e > launches')
  BY DEF Dirs
<1>. QED
  BY <1>1, <1>2 DEF SameFiles

LEMMA ManifestStarts ==
    ASSUME Maps, StagesInv, launcher.dir \in Dirs, launcher.dir <= launches', launches' \in Nat,
           dir' = [dir EXCEPT ![launcher.dir].step = "running", ![launcher.dir].status = "running",
                              ![launcher.dir].mode = launcher.mode,
                              ![launcher.dir].phases = launcher.phases]
    PROVE  /\ \A d \in Dirs : SameFiles(d)
           /\ \A d \in Dirs : d # launcher.dir => dir'[d] = dir[d]
           /\ dir'[launcher.dir].status = "running" /\ dir'[launcher.dir].step = "running"
           /\ dir'[launcher.dir].phases = launcher.phases /\ dir'[launcher.dir].mode = launcher.mode
<1> PICK e, ph, mo, r, r1 : /\ e = launcher.dir /\ ph = launcher.phases /\ mo = launcher.mode
                           /\ r = dir[e] /\ r1 = dir'[e]
  OBVIOUS
<1>1. /\ \A d \in Dirs : d # e => dir'[d] = dir[d]
      /\ r1 = [r EXCEPT !.step = "running", !.status = "running", !.mode = mo, !.phases = ph]
  BY DEF Maps
<1>2. DirShape(r)
  BY DEF StagesInv, DirOK
<1>3. /\ "status" \in DirFields /\ "step" \in DirFields /\ "phases" \in DirFields
      /\ "mode" \in DirFields
  BY DEF DirFields
<1>4. /\ DirShape(r1) /\ \A g \in DirFields \ Manifest : r1[g] = r[g]
      /\ r1.status = "running" /\ r1.step = "running" /\ r1.phases = ph /\ r1.mode = mo
  BY <1>1, <1>2, <1>3 DEF DirShape, Manifest
<1>5. \A d \in Dirs : SameFiles(d)
  <2>1. /\ e \in Dirs /\ e <= launches'
        /\ DirShape(dir'[e]) /\ \A g \in DirFields \ Manifest : dir'[e][g] = dir[e][g]
    BY <1>4
  <2>. QED
    BY <2>1, <1>1, ManifestOf
<1>. QED
  BY <1>1, <1>4, <1>5

LEMMA ManifestRecords ==
    ASSUME Maps, StagesInv, launcher.dir \in Dirs, launcher.dir <= launches', launches' \in Nat,
           dir' = [dir EXCEPT ![launcher.dir].step = "completed", ![launcher.dir].status = "running"]
    PROVE  /\ \A d \in Dirs : SameFiles(d)
           /\ \A d \in Dirs : d # launcher.dir => dir'[d] = dir[d]
           /\ dir'[launcher.dir].status = "running" /\ dir'[launcher.dir].step = "completed"
           /\ dir'[launcher.dir].phases = dir[launcher.dir].phases
           /\ dir'[launcher.dir].mode = dir[launcher.dir].mode
<1> PICK e, ph, r, r1 : e = launcher.dir /\ ph = launcher.phases /\ r = dir[e] /\ r1 = dir'[e]
  OBVIOUS
<1>1. /\ \A d \in Dirs : d # e => dir'[d] = dir[d]
      /\ r1 = [r EXCEPT !.step = "completed", !.status = "running"]
  BY DEF Maps
<1>2. DirShape(r)
  BY DEF StagesInv, DirOK
<1>3. /\ "status" \in DirFields /\ "step" \in DirFields /\ "phases" \in DirFields
      /\ "mode" \in DirFields
  BY DEF DirFields
<1>4. /\ DirShape(r1) /\ \A g \in DirFields \ Manifest : r1[g] = r[g]
      /\ r1.status = "running" /\ r1.step = "completed" /\ r1.phases = r.phases /\ r1.mode = r.mode
  BY <1>1, <1>2, <1>3 DEF DirShape, Manifest
<1>5. \A d \in Dirs : SameFiles(d)
  <2>1. /\ e \in Dirs /\ e <= launches'
        /\ DirShape(dir'[e]) /\ \A g \in DirFields \ Manifest : dir'[e][g] = dir[e][g]
    BY <1>4
  <2>. QED
    BY <2>1, <1>1, ManifestOf
<1>. QED
  BY <1>1, <1>4, <1>5

LEMMA ManifestFails ==
    ASSUME Maps, StagesInv, launcher.dir \in Dirs, launcher.dir <= launches', launches' \in Nat,
           dir' = [dir EXCEPT ![launcher.dir].step = "failed", ![launcher.dir].status = "failed"]
    PROVE  /\ \A d \in Dirs : SameFiles(d)
           /\ \A d \in Dirs : d # launcher.dir => dir'[d] = dir[d]
           /\ dir'[launcher.dir].status = "failed"
<1> PICK e, ph, r, r1 : e = launcher.dir /\ ph = launcher.phases /\ r = dir[e] /\ r1 = dir'[e]
  OBVIOUS
<1>1. /\ \A d \in Dirs : d # e => dir'[d] = dir[d]
      /\ r1 = [r EXCEPT !.step = "failed", !.status = "failed"]
  BY DEF Maps
<1>2. DirShape(r)
  BY DEF StagesInv, DirOK
<1>3. /\ "status" \in DirFields /\ "step" \in DirFields /\ "phases" \in DirFields
      /\ "mode" \in DirFields
  BY DEF DirFields
<1>4. /\ DirShape(r1) /\ \A g \in DirFields \ Manifest : r1[g] = r[g]
      /\ r1.status = "failed"
  BY <1>1, <1>2, <1>3 DEF DirShape, Manifest
<1>5. \A d \in Dirs : SameFiles(d)
  <2>1. /\ e \in Dirs /\ e <= launches'
        /\ DirShape(dir'[e]) /\ \A g \in DirFields \ Manifest : dir'[e][g] = dir[e][g]
    BY <1>4
  <2>. QED
    BY <2>1, <1>1, ManifestOf
<1>. QED
  BY <1>1, <1>4, <1>5

LEMMA ManifestAborted ==
    ASSUME Maps, StagesInv, launcher.dir \in Dirs, launcher.dir <= launches', launches' \in Nat,
           dir' = [dir EXCEPT ![launcher.dir].status = "failed", ![launcher.dir].mode = launcher.mode,
                              ![launcher.dir].phases = launcher.phases]
    PROVE  /\ \A d \in Dirs : SameFiles(d)
           /\ \A d \in Dirs : d # launcher.dir => dir'[d] = dir[d]
           /\ dir'[launcher.dir].status = "failed"
<1> PICK e, ph, mo, r, r1 : /\ e = launcher.dir /\ ph = launcher.phases /\ mo = launcher.mode
                           /\ r = dir[e] /\ r1 = dir'[e]
  OBVIOUS
<1>1. /\ \A d \in Dirs : d # e => dir'[d] = dir[d]
      /\ r1 = [r EXCEPT !.status = "failed", !.mode = mo, !.phases = ph]
  BY DEF Maps
<1>2. DirShape(r)
  BY DEF StagesInv, DirOK
<1>3. /\ "status" \in DirFields /\ "step" \in DirFields /\ "phases" \in DirFields
      /\ "mode" \in DirFields
  BY DEF DirFields
<1>4. /\ DirShape(r1) /\ \A g \in DirFields \ Manifest : r1[g] = r[g]
      /\ r1.status = "failed"
  BY <1>1, <1>2, <1>3 DEF DirShape, Manifest
<1>5. \A d \in Dirs : SameFiles(d)
  <2>1. /\ e \in Dirs /\ e <= launches'
        /\ DirShape(dir'[e]) /\ \A g \in DirFields \ Manifest : dir'[e][g] = dir[e][g]
    BY <1>4
  <2>. QED
    BY <2>1, <1>1, ManifestOf
<1>. QED
  BY <1>1, <1>4, <1>5

LEMMA ManifestCompletes ==
    ASSUME Maps, StagesInv, launcher.dir \in Dirs, launcher.dir <= launches', launches' \in Nat,
           dir' = [dir EXCEPT ![launcher.dir].status = "completed"]
    PROVE  /\ \A d \in Dirs : SameFiles(d)
           /\ \A d \in Dirs : d # launcher.dir => dir'[d] = dir[d]
           /\ dir'[launcher.dir].step = dir[launcher.dir].step
           /\ dir'[launcher.dir].phases = dir[launcher.dir].phases
           /\ dir'[launcher.dir].mode = dir[launcher.dir].mode
<1> PICK e, ph, r, r1 : e = launcher.dir /\ ph = launcher.phases /\ r = dir[e] /\ r1 = dir'[e]
  OBVIOUS
<1>1. /\ \A d \in Dirs : d # e => dir'[d] = dir[d]
      /\ r1 = [r EXCEPT !.status = "completed"]
  BY DEF Maps
<1>2. DirShape(r)
  BY DEF StagesInv, DirOK
<1>3. /\ "status" \in DirFields /\ "step" \in DirFields /\ "phases" \in DirFields
      /\ "mode" \in DirFields
  BY DEF DirFields
<1>4. /\ DirShape(r1) /\ \A g \in DirFields \ Manifest : r1[g] = r[g]
      /\ r1.step = r.step /\ r1.phases = r.phases /\ r1.mode = r.mode
  BY <1>1, <1>2, <1>3 DEF DirShape, Manifest
<1>5. \A d \in Dirs : SameFiles(d)
  <2>1. /\ e \in Dirs /\ e <= launches'
        /\ DirShape(dir'[e]) /\ \A g \in DirFields \ Manifest : dir'[e][g] = dir[e][g]
    BY <1>4
  <2>. QED
    BY <2>1, <1>1, ManifestOf
<1>. QED
  BY <1>1, <1>4, <1>5

LEMMA StartChildKeepsAll ==
    ASSUME LaunchInv, StagesInv, Completed, LauncherInv, StartChild
    PROVE  StagesInv' /\ Completed' /\ LauncherInv'
<1>. PICK l, e, ph, h, m : /\ l = launches /\ e = launcher.dir /\ ph = launcher.phases
                          /\ h = Head(launcher.todo) /\ m = launcher.mode
  OBVIOUS
<1>1. /\ launcher # None /\ child = None /\ launcher.todo # <<>>
      /\ launcher' = launcher /\ launches' = launches /\ audited' = audited
      /\ \/ h = 0 /\ child' = "environment" /\ UNCHANGED <<dvars, stage>>
         \/ h \in Scripts /\ child' = "script" /\ UNCHANGED stage
         \/ h > 10 /\ child' = "stage" /\ UNCHANGED dvars
            /\ stage' = [stage EXCEPT ![launcher.number] =
                  Stage(e, m, <<"phase1", "phase2", "phase3">>[h - 10])]
  BY Zenon DEF StartChild
<1>2. /\ launcher.number = l /\ l \in Dirs /\ l \in Nat /\ e \in Dirs /\ e <= l /\ e \in 1 .. l
      /\ ph \in SUBSET (1 .. 3) /\ Maps
  BY <1>1, LauncherFacts
<1>3. /\ h \in {0} \cup Scripts \cup {10 + q : q \in ph} /\ h \in 0 .. 13 /\ Left2Do(h)
  BY <1>1, NextItem
<1>4. /\ \A d \in Dirs : SameFiles(d)
      /\ \A d \in Dirs : d # e => dir'[d] = dir[d]
      /\ dir'[e].status = "running" /\ dir'[e].step = "running" /\ dir'[e].phases = ph
  <2>1. /\ launches' \in Nat /\ e <= launches' /\ Maps /\ e \in Dirs
        /\ dir' = [dir EXCEPT ![launcher.dir].step = "running", ![launcher.dir].status = "running",
                              ![launcher.dir].mode = launcher.mode,
                              ![launcher.dir].phases = launcher.phases]
    BY <1>1, <1>2, Zenon DEF StartChild
  <2>. QED
    BY <2>1, <1>1, ManifestStarts
<1>5. \/ h <= 10 /\ stage' = stage /\ child' # "stage" /\ child' # None
      \/ h > 10 /\ child' = "stage" /\ child' # None
  BY <1>1, <1>3, ScriptNumbers, ChildNames DEF Child
<1>6. h > 10 => /\ stage'[l].todo \in Todo(h - 10) /\ stage'[l].todo # <<>>
                /\ stage'[l].dir = e /\ stage'[l].mode = m
                /\ Working(l)' /\ StageOK(l)' /\ UNCHANGED dvars
  <2>1. \A g \in DirFields \ Manifest : dir'[e][g] = dir[e][g]
    BY <1>2, <1>4 DEF SameFiles
  <2>2. h > 10 => UNCHANGED dvars
    BY <1>1, ScriptNumbers
  <2>3. ASSUME h > 10
        PROVE  /\ stage'[l].todo \in Todo(h - 10) /\ stage'[l].todo # <<>>
               /\ stage'[l].dir = e /\ stage'[l].mode = m
               /\ Working(launches)' /\ StageOK(launches)'
    BY <2>1, <2>3, NewStage
  <2>. QED
    BY <2>2, <2>3, <1>1
<1>8. \A n \in Dirs : n # l => stage'[n] = stage[n]
  BY <1>1, <1>2 DEF Maps
<1>9. \A n \in Dirs : stage'[n] = stage[n] \/ ~Working(n)' \/ StageOK(n)'
  BY <1>2, <1>5, <1>6, <1>8
<1>10. StagesInv' /\ \A d \in Dirs : \A p \in 1 .. 3 : Out(p, d) <=> Out(p, d)'
  BY <1>1, <1>4, <1>9, ManifestFrame
<1>11. Completed'
  <2>1. \A d \in Dirs : dir'[d].status = "completed" => d # e
    BY <1>4
  <2>. QED
    BY <2>1, <1>4, <1>10, CompletedKeeps
<1>12. LauncherInv'
  <2>1. /\ dir'[e].handoff = dir[e].handoff /\ dir'[e].phase2 = dir[e].phase2
    BY <1>2, <1>4 DEF SameFiles, DirFields, Manifest
  <2>2. \A k : Left2Do(k)' <=> Left2Do(k)
    BY <1>1 DEF Left2Do
  <2>3. /\ launcher'.dir = e /\ launcher'.number = l /\ launcher'.phases = ph
        /\ Head(launcher'.todo) = h /\ launcher'.mode = m /\ launcher'.todo # <<>>
    BY <1>1, <1>2
  <2>4. child # "stage" /\ ~PhaseRuns(1) /\ ~PhaseRuns(2)
    BY <1>1, ChildNames DEF PhaseRuns, Child
  <2>5. /\ ph # {3} => l = e
        /\ 3 \in ph /\ ph # {3} => 2 \in ph
        /\ Left2Do(11) => dir[e].handoff = None
        /\ Left2Do(12) => ~dir[e].phase2
        /\ Left2Do(12) /\ ph = {2} => dir[e].handoff = None
        /\ \A p \in ph : ~Left2Do(10 + p) => Out(p, e)
        /\ ~Working(l)
    BY <1>1, <1>2, <2>4 DEF LauncherInv
  <2>6. \A p \in ph : ~Left2Do(10 + p)' => Out(p, e)'
    BY <2>2, <2>5, <1>2, <1>10
  <2>7. child' # "stage" => ~Working(l)'
    BY <2>5, <1>5 DEF Working
  <2>8. child' = "stage" => /\ Working(l)' /\ stage'[l].dir = e /\ stage'[l].mode = m
                            /\ stage'[l].todo \in Todo(h - 10) /\ stage'[l].todo # <<>>
    BY <1>5, <1>6
  <2>9. child' # None
    BY <1>5
  <2>10. /\ Left2Do(11)' => dir'[e].handoff = None
         /\ Left2Do(12)' => ~dir'[e].phase2
         /\ Left2Do(12)' /\ ph = {2} => dir'[e].handoff = None
    BY <2>1, <2>2, <2>5
  <2>. QED
    BY <2>3, <2>5, <2>6, <2>7, <2>8, <2>9, <2>10, <1>4 DEF LauncherInv
<1>. QED
  BY <1>10, <1>11, <1>12

LEMMA ChildCompletedKeepsAll ==
    ASSUME LaunchInv, StagesInv, Completed, LauncherInv, ChildCompleted
    PROVE  StagesInv' /\ Completed' /\ LauncherInv'
<1>. PICK l, e, ph, h, t : /\ l = launches /\ e = launcher.dir /\ ph = launcher.phases
                          /\ h = Head(launcher.todo) /\ t = Tail(launcher.todo)
  OBVIOUS
<1>1. /\ child # None /\ Returns("ok")
      /\ UNCHANGED dvars /\ child' = None /\ launches' = launches /\ audited' = audited
      /\ stage' = [stage EXCEPT ![launcher.number] = Gone]
      /\ launcher' = [launcher EXCEPT !.todo = Tail(@)]
      /\ dir' = [dir EXCEPT ![e].step = "completed", ![e].status = "running"]
  BY DEF ChildCompleted, GoesOn, Record
<1>2. /\ launcher # None /\ launcher.todo # <<>>
      /\ launcher = [dir |-> launcher.dir, mode |-> launcher.mode, phases |-> launcher.phases,
                     todo |-> launcher.todo, number |-> launcher.number]
  BY <1>1 DEF LaunchInv, LauncherType
<1>3. /\ launcher.number = l /\ l \in Dirs /\ l \in Nat /\ e \in Dirs /\ e <= l
      /\ ph \in SUBSET (1 .. 3) /\ Maps
      /\ child = "stage" <=> h > 10
  BY <1>1, <1>2, LauncherFacts
<1>4. launcher' = [dir |-> launcher.dir, mode |-> launcher.mode, phases |-> launcher.phases,
                   todo |-> t, number |-> launcher.number]
  BY <1>1, <1>2
<1>5. /\ launcher'.dir = e /\ launcher'.number = l /\ launcher'.phases = ph /\ launcher'.todo = t
  BY <1>3, <1>4
<1>6. /\ h \in {0} \cup Scripts \cup {10 + q : q \in ph} /\ h \in 0 .. 13
      /\ \A j : (\E i \in 1 .. Len(t) : t[i] = j) <=> j # h /\ Left2Do(j)
      /\ \A j \in Nat : j < h => ~Left2Do(j)
  BY <1>2, NextItem
<1>7. \A k : Left2Do(k)' <=> k # h /\ Left2Do(k)
  BY <1>5, <1>6 DEF Left2Do
<1>8. /\ \A d \in Dirs : SameFiles(d)
      /\ \A d \in Dirs : d # e => dir'[d] = dir[d]
      /\ dir'[e].status = "running" /\ dir'[e].step = "completed" /\ dir'[e].phases = dir[e].phases
  <2>1. /\ launches' \in Nat /\ e <= launches' /\ Maps /\ e \in Dirs
        /\ dir' = [dir EXCEPT ![launcher.dir].step = "completed", ![launcher.dir].status = "running"]
    BY <1>1, <1>3 DEF ChildCompleted, Record
  <2>. QED
    BY <2>1, ManifestRecords
<1>9. /\ \A n \in Dirs : n # l => stage'[n] = stage[n]
      /\ stage'[l] = Gone /\ ~Working(l)'
  BY <1>1, <1>3 DEF Maps, Gone, Working
<1>10. StagesInv' /\ \A d \in Dirs : \A p \in 1 .. 3 : Out(p, d) <=> Out(p, d)'
  <2>1. \A n \in Dirs : stage'[n] = stage[n] \/ ~Working(n)' \/ StageOK(n)'
    BY <1>9
  <2>. QED
    BY <2>1, <1>1, <1>8, ManifestFrame
<1>11. Completed'
  <2>1. \A d \in Dirs : dir'[d].status = "completed" => d # e
    BY <1>8
  <2>. QED
    BY <2>1, <1>8, <1>10, CompletedKeeps
<1>12. LauncherInv'
  <2>1. /\ dir'[e].handoff = dir[e].handoff /\ dir'[e].phase2 = dir[e].phase2
    BY <1>3, <1>8 DEF SameFiles, DirFields, Manifest
  <2>2. /\ ph # {3} => l = e
        /\ 3 \in ph /\ ph # {3} => 2 \in ph
        /\ Left2Do(11) /\ h # 11 => dir[e].handoff = None
        /\ Left2Do(12) /\ h # 12 => ~dir[e].phase2
        /\ Left2Do(12) /\ ph = {2} /\ h # 12 => dir[e].handoff = None
        /\ \A p \in ph : ~Left2Do(10 + p) => Out(p, e)
        /\ dir[e].phases = ph
    BY <1>1, <1>2, <1>3 DEF LauncherInv, PhaseRuns
  <2>3. h > 10 => Out(h - 10, e)
    <3>1. h > 10 => stage[l].state = "ok"
      BY <1>1, <1>3, ChildNames DEF Returns
    <3>2. ASSUME h > 10
          PROVE  \/ Working(l)
                 \/ stage[l] = [state |-> "ok"] /\ Out(h - 10, e)
                 \/ stage[l] = [state |-> "failed"]
      BY <3>2, <1>2, <1>3 DEF LauncherInv
    <3>. QED
      BY <3>1, <3>2 DEF Working
  <2>4. \A p \in ph : ~Left2Do(10 + p)' => Out(p, e)'
    <3> SUFFICES ASSUME NEW p \in ph, ~Left2Do(10 + p)'
                 PROVE  Out(p, e)
      BY <1>3, <1>10
    <3>1. CASE h = 10 + p
      <4>1. h > 10 /\ h - 10 = p
        BY <3>1, <1>3
      <4>. QED
        BY <4>1, <2>3
    <3>2. CASE h # 10 + p
      BY <3>2, <1>7, <2>2
    <3>. QED
      BY <3>1, <3>2
  <2>5. child' = None /\ child' # "stage"
    BY <1>1, ChildNames DEF Child
  <2>6. /\ Left2Do(11)' => dir'[e].handoff = None
        /\ Left2Do(12)' => ~dir'[e].phase2
        /\ Left2Do(12)' /\ ph = {2} => dir'[e].handoff = None
    BY <1>7, <2>1, <2>2
  <2>. QED
    BY <2>2, <2>4, <2>5, <2>6, <1>5, <1>8, <1>9 DEF LauncherInv
<1>. QED
  BY <1>10, <1>11, <1>12

LEMMA LaunchEndKeepsAll ==
    ASSUME LaunchInv, StagesInv, Completed, LauncherInv,
           ChildFailed \/ LaunchCompletes \/ Interrupted \/ Killed \/ MachineStops
    PROVE  StagesInv' /\ Completed' /\ LauncherInv'
<1>1. /\ launches' = launches /\ audited' = audited /\ launcher' = None /\ Maps
      /\ launches \in Nat
  BY LauncherAssumption DEF LaunchInv, LauncherType, ChildFailed, LaunchCompletes, Interrupted, Killed, MachineStops
<1>3. \A n \in Dirs : stage'[n] = stage[n] \/ ~Working(n)' \/ StageOK(n)'
  <2>1. \/ stage' = stage
        \/ stage' = [stage EXCEPT ![launcher.number] = Gone]
        \/ \E ns : stage' = [n \in Dirs |-> IF n \in ns THEN Gone ELSE stage[n]]
    BY DEF ChildFailed, LaunchCompletes, Interrupted, Killed, MachineStops, Stop
  <2>2. \A n \in Dirs : stage'[n] = stage[n] \/ stage'[n] = Gone
    BY <1>1, <2>1 DEF Maps
  <2>. QED
    BY <2>2 DEF Working, Gone
<1>4. ASSUME \A d \in Dirs : SameFiles(d)
      PROVE  StagesInv' /\ \A d \in Dirs : \A p \in 1 .. 3 : Out(p, d) <=> Out(p, d)'
  BY <1>1, <1>3, <1>4, ManifestFrame
<1>5. LauncherInv'
  BY <1>1 DEF LauncherInv
<1>6. CASE dir' = dir
  <2>1. \A d \in Dirs : SameFiles(d)
    BY <1>6 DEF SameFiles, StagesInv, DirOK
  <2>2. Completed'
    BY <2>1, <1>4, <1>6, CompletedKeeps
  <2>. QED
    BY <2>1, <2>2, <1>4, <1>5
<1>7. CASE launcher # None /\ dir' # dir
  <2>. PICK e, ph : e = launcher.dir /\ ph = launcher.phases
    OBVIOUS
  <2>1. e \in Dirs /\ e <= launches'
    BY <1>1, <1>7, LauncherFacts
  <2>2. \/ dir' = [dir EXCEPT ![launcher.dir].step = "failed", ![launcher.dir].status = "failed"]
        \/ dir' = [dir EXCEPT ![launcher.dir].status = "failed",
                              ![launcher.dir].mode = launcher.mode,
                              ![launcher.dir].phases = launcher.phases]
        \/ LaunchCompletes /\ dir' = [dir EXCEPT ![launcher.dir].status = "completed"]
    BY <1>7 DEF ChildFailed, LaunchCompletes, Interrupted, Killed, MachineStops, Record
  <2>3. CASE \/ dir' = [dir EXCEPT ![launcher.dir].step = "failed", ![launcher.dir].status = "failed"]
             \/ dir' = [dir EXCEPT ![launcher.dir].status = "failed",
                                   ![launcher.dir].mode = launcher.mode,
                                   ![launcher.dir].phases = launcher.phases]
    <3>1. /\ \A d \in Dirs : SameFiles(d)
          /\ \A d \in Dirs : d # e => dir'[d] = dir[d]
          /\ dir'[e].status = "failed"
      <4>1. /\ launches' \in Nat /\ Maps /\ launcher.dir \in Dirs /\ launcher.dir <= launches'
        BY <2>1, <1>1
      <4>. QED
        BY <4>1, <2>3, ManifestFails, ManifestAborted
    <3>2. \A d \in Dirs : dir'[d].status = "completed" => d # e
      BY <3>1
    <3>3. Completed'
      BY <3>1, <3>2, <1>4, CompletedKeeps
    <3>. QED
      BY <3>1, <3>3, <1>4, <1>5
  <2>4. CASE LaunchCompletes /\ dir' = [dir EXCEPT ![launcher.dir].status = "completed"]
    <3>1. /\ \A d \in Dirs : SameFiles(d)
          /\ \A d \in Dirs : d # e => dir'[d] = dir[d]
          /\ dir'[e].step = dir[e].step /\ dir'[e].phases = dir[e].phases
      <4>1. /\ launches' \in Nat /\ Maps /\ launcher.dir \in Dirs /\ launcher.dir <= launches'
        BY <2>1, <1>1
      <4>. QED
        BY <4>1, <2>4, ManifestCompletes
    <3>2. child = None /\ launcher.todo = <<>>
      BY <2>4 DEF LaunchCompletes
    <3>3. /\ dir[e].step = "completed" /\ dir[e].phases = ph
          /\ \A p \in ph : ~Left2Do(10 + p) => Out(p, e)
          /\ ph \in SUBSET (1 .. 3) /\ ph # {}
      BY <3>2, <1>7, LauncherFacts DEF LauncherInv
    <3>4. \A p \in ph : Out(p, e)
      BY <3>2, <3>3 DEF Left2Do
    <3>5. \A p \in ph : Out(p, e)'
      BY <3>1, <3>3, <3>4, <2>1, <1>4
    <3>6. Completed'
      <4> SUFFICES ASSUME NEW d \in Dirs, dir'[d].status = "completed"
                   PROVE  /\ dir'[d].step = "completed"
                          /\ dir'[d].phases \in SUBSET (1 .. 3) /\ dir'[d].phases # {}
                          /\ \A p \in dir'[d].phases : Out(p, d)'
        BY DEF Completed
      <4>1. CASE d = e
        BY <4>1, <3>1, <3>3, <3>5
      <4>2. CASE d # e
        <5>1. dir'[d] = dir[d]
          BY <4>2, <3>1
        <5>2. /\ dir[d].step = "completed"
              /\ dir[d].phases \in SUBSET (1 .. 3) /\ dir[d].phases # {}
              /\ \A p \in dir[d].phases : Out(p, d)
          BY <5>1 DEF Completed
        <5>. QED
          BY <5>1, <5>2, <3>1, <1>4
      <4>. QED
        BY <4>1, <4>2
    <3>. QED
      BY <3>1, <3>6, <1>4, <1>5
  <2>. QED
    BY <2>2, <2>3, <2>4
<1>8. dir' = dir \/ launcher # None
  BY DEF ChildFailed, LaunchCompletes, Interrupted, Killed, MachineStops, LaunchInv, LauncherType
<1>. QED
  BY <1>6, <1>7, <1>8

(* A script at work or alone, and a new data set: the launcher's variables  *)
(* stay as they are.                                                       *)
LEMMA QuietKeepsAll ==
    ASSUME LaunchInv, StagesInv, Completed, LauncherInv, UNCHANGED runvars
    PROVE  StagesInv' /\ Completed' /\ LauncherInv'
<1>1. /\ launcher' = launcher /\ child' = child /\ stage' = stage /\ dir' = dir
      /\ launches' = launches /\ audited' = audited
  BY DEF lvars, runvars
<1>2. \A d \in Dirs : SameFiles(d)
  BY <1>1 DEF SameFiles, StagesInv, DirOK
<1>4. StagesInv' /\ \A d \in Dirs : \A p \in 1 .. 3 : Out(p, d) <=> Out(p, d)'
  BY <1>1, <1>2, ManifestFrame
<1>5. Completed'
  BY <1>1, <1>4, CompletedKeeps
<1>6. LauncherInv'
  BY <1>1 DEF LauncherInv, Left2Do, PhaseRuns, Out, Out2, Working
<1>. QED
  BY <1>4, <1>5, <1>6

(* A file changed by hand: it was whole, and it is whole.                  *)
LEMMA EditKeepsAll ==
    ASSUME LaunchInv, StagesInv, Completed, LauncherInv, Edit
    PROVE  StagesInv' /\ Completed' /\ LauncherInv'
<1>1. /\ out' = out /\ launcher' = launcher /\ child' = child /\ stage' = stage
      /\ launches' = launches /\ audited' = audited /\ child = None
      /\ \A n \in Dirs : ~Working(n)
  BY DEF Edit, dvars
<1>2. PICK e \in Dirs, f \in {"alerts", "events", "mapping"} :
          Whole(dir[e][f]) /\ dir' = [dir EXCEPT ![e][f] = Edited]
  BY DEF Edit
<1>3. Maps /\ launches \in Nat
  BY LauncherAssumption DEF LaunchInv, LauncherType
<1> DEFINE r == dir[e]
           r1 == dir'[e]
<1>4. r1 = [r EXCEPT ![f] = Edited] /\ \A d \in Dirs : d # e => dir'[d] = dir[d]
  BY <1>2, <1>3 DEF Maps
<1>5. DirOK(e) /\ DirShape(r)
  BY DEF StagesInv, DirOK
<1>6. Whole(r[f]) /\ Whole(Edited)
  BY <1>2, ValueAssumption DEF Whole
<1> HIDE DEF r, r1
<1>7. /\ DirShape(r1) /\ \A g \in DirFields : g # f => r1[g] = r[g]
      /\ r1[f] = Edited
  BY <1>4, <1>5 DEF DirShape, DirFields
<1>8. /\ r1.handoff = r.handoff /\ r1.phase2 = r.phase2 /\ r1.handoff2 = r.handoff2
      /\ r1.results2 = r.results2 /\ r1.phase3 = r.phase3 /\ r1.results3 = r.results3
      /\ r1.status = r.status /\ r1.step = r.step /\ r1.phases = r.phases
  BY <1>7 DEF DirFields
<1>9. Whole(r1.events) <=> Whole(r.events)
  <2>1. CASE f = "events"
    BY <2>1, <1>6, <1>7
  <2>2. CASE f # "events"
    BY <2>2, <1>7 DEF DirFields
  <2>. QED
    BY <2>1, <2>2
<1>10. Whole(r1.mapping) <=> Whole(r.mapping)
  <2>1. CASE f = "mapping"
    BY <2>1, <1>6, <1>7
  <2>2. CASE f # "mapping"
    BY <2>2, <1>7 DEF DirFields
  <2>. QED
    BY <2>1, <2>2
<1>11. ~r.phase2 => r1.events = None /\ r1.mapping = None
  <2>1. ~r.phase2 => r.events = None /\ r.mapping = None
    BY <1>5 DEF DirOK, r
  <2>2. ~r.phase2 => f # "events" /\ f # "mapping"
    BY <2>1, <1>6 DEF Whole
  <2>. QED
    BY <2>1, <2>2, <1>7 DEF DirFields
<1>12. ~(e > launches)
  <2>1. e > launches => r = EmptyDir
    BY <1>5 DEF DirOK, r
  <2>2. r = EmptyDir => r[f] = None
    BY <1>2 DEF EmptyDir
  <2>. QED
    BY <2>1, <2>2, <1>6 DEF Whole
<1>13. DirOK(e)'
  <2>1. /\ r.phase2 \in BOOLEAN
        /\ ~r.phase2 => r.handoff2 = None /\ r.results2 = None
        /\ Whole(r.handoff) => HandoffOK(r.handoff)
        /\ r.phase2 => Whole(r.handoff)
        /\ Whole(r.handoff2) => SecondOK(r.handoff2, audited[e])
        /\ r.phase3 \in 0 .. launches
        /\ r.phase3 # 0 => Whole(r.handoff2)
        /\ r.phase3 = 0 => r.results3 = None
        /\ Whole(r.results3) => ReplayOK(r.results3, audited[e], r.phase3)
    BY <1>5 DEF DirOK, r
  <2>. QED
    BY <2>1, <1>1, <1>7, <1>8, <1>11, <1>12 DEF DirOK, r1
<1>14. \A p \in 1 .. 3 : Out(p, e) <=> Out(p, e)'
  BY <1>8, <1>9, <1>10 DEF Out, Out2, r, r1
<1>15. \A d \in Dirs : \A p \in 1 .. 3 : Out(p, d) <=> Out(p, d)'
  <2>1. ASSUME NEW d \in Dirs, d # e
        PROVE  \A p \in 1 .. 3 : Out(p, d) <=> Out(p, d)'
    BY <2>1, <1>4 DEF Out, Out2
  <2>. QED
    BY <2>1, <1>14
<1>16. StagesInv'
  <2>1. ASSUME NEW d \in Dirs, d # e
        PROVE  DirOK(d)'
    <3>1. DirOK(d)
      BY DEF StagesInv
    <3>. QED
      BY <3>1, <2>1, <1>1, <1>4 DEF DirOK
  <2>2. StageInv'
    BY <1>1 DEF StageInv, Working
  <2>. QED
    BY <2>1, <2>2, <1>13 DEF StagesInv
<1>17. \A d \in Dirs : /\ dir'[d].status = dir[d].status /\ dir'[d].step = dir[d].step
                       /\ dir'[d].phases = dir[d].phases
                       /\ dir'[d].handoff = dir[d].handoff /\ dir'[d].phase2 = dir[d].phase2
  BY <1>4, <1>8 DEF r, r1
<1>18. Completed'
  BY <1>15, <1>17, CompletedKeeps
<1>19. LauncherInv'
  <2> SUFFICES ASSUME launcher # None
               PROVE  LauncherInv'
    BY <1>1 DEF LauncherInv
  <2> PICK l, d, ph : l = launcher.number /\ d = launcher.dir /\ ph = launcher.phases
    OBVIOUS
  <2>1. d \in Dirs /\ ph \in SUBSET (1 .. 3)
    BY LauncherFacts
  <2>2. /\ launcher'.number = l /\ launcher'.dir = d /\ launcher'.phases = ph
        /\ launcher'.todo = launcher.todo
    BY <1>1
  <2>3. /\ \A k : Left2Do(k)' <=> Left2Do(k)
        /\ \A p : PhaseRuns(p)' <=> PhaseRuns(p)
        /\ Working(l)' <=> Working(l)
    BY <1>1 DEF Left2Do, PhaseRuns, Working
  <2>4. child # "stage" /\ child' = None
    BY <1>1, ChildNames DEF Child
  <2>5. /\ dir'[d].step = dir[d].step /\ dir'[d].phases = dir[d].phases
        /\ dir'[d].handoff = dir[d].handoff /\ dir'[d].phase2 = dir[d].phase2
        /\ \A p \in ph : Out(p, d) <=> Out(p, d)'
    BY <2>1, <1>15, <1>17
  <2>6. /\ ph # {3} => l = d
        /\ 3 \in ph /\ ph # {3} => 2 \in ph
        /\ Left2Do(11) /\ ~PhaseRuns(1) => dir[d].handoff = None
        /\ Left2Do(12) /\ ~PhaseRuns(2) => ~dir[d].phase2
        /\ Left2Do(12) /\ ph = {2} /\ ~PhaseRuns(2) => dir[d].handoff = None
        /\ \A p \in ph : ~Left2Do(10 + p) => Out(p, d)
        /\ ~Working(l)
        /\ \/ launcher.todo # <<>> /\ Head(launcher.todo) = 0
           \/ dir[d].step = "completed" /\ dir[d].phases = ph
    BY <2>4, <1>1 DEF LauncherInv
  <2>7. \A p \in ph : ~Left2Do(10 + p)' => Out(p, d)'
    BY <2>3, <2>5, <2>6
  <2>8. child' # "stage"
    BY <2>4, <1>1
  <2>. QED
    BY <2>2, <2>3, <2>4, <2>5, <2>6, <2>7, <2>8 DEF LauncherInv
<1>. QED
  BY <1>16, <1>18, <1>19

(* The inductive invariant of the launcher, its stages and its files.      *)
IInv == LaunchInv /\ StagesInv /\ Completed /\ LauncherInv

LEMMA IInvInit ==
    ASSUME Init
    PROVE  IInv
<1>1. LaunchInv
  BY LaunchInvInit
<1>2. /\ launcher = None /\ stage = [n \in Dirs |-> Gone] /\ dir = [d \in Dirs |-> EmptyDir]
      /\ launches = 0
  BY DEF Init
<1>3. StageInv
  BY <1>2 DEF StageInv, Working, Gone
<1>4. DirShape(EmptyDir)
  BY DEF DirShape, EmptyDir, DirFields
<1>5. /\ EmptyDir.phase2 = FALSE /\ EmptyDir.phase3 = 0
      /\ EmptyDir.events = None /\ EmptyDir.mapping = None /\ EmptyDir.handoff = None
      /\ EmptyDir.handoff2 = None /\ EmptyDir.results2 = None /\ EmptyDir.results3 = None
      /\ EmptyDir.status = None
  BY DEF EmptyDir
<1>6. ASSUME NEW d \in Dirs
      PROVE  DirOK(d)
  <2> PICK r : r = EmptyDir
    OBVIOUS
  <2>1. dir[d] = r /\ DirShape(r) /\ ~Whole(None)
    BY <1>2, <1>4 DEF Whole
  <2>2. /\ r.phase2 = FALSE /\ r.phase3 = 0
        /\ r.events = None /\ r.mapping = None /\ r.handoff = None
        /\ r.handoff2 = None /\ r.results2 = None /\ r.results3 = None
    BY <1>5
  <2>3. 0 \in 0 .. launches
    BY <1>2
  <2>. QED
    BY <2>1, <2>2, <2>3 DEF DirOK
<1>7. Completed
  BY <1>2, <1>5, ValueAssumption DEF Completed
<1>8. LauncherInv
  BY <1>2 DEF LauncherInv
<1>. QED
  BY <1>1, <1>3, <1>6, <1>7, <1>8 DEF IInv, StagesInv

LEMMA IInvStep ==
    ASSUME IInv, [Next]_vars
    PROVE  IInv'
<1>1. LaunchInv /\ StagesInv /\ Completed /\ LauncherInv
  BY DEF IInv
<1>2. LaunchInv'
  BY <1>1, LaunchInvStep
<1>3. CASE UNCHANGED vars
  <2>1. UNCHANGED runvars
    BY <1>3 DEF vars, lvars
  <2>. QED
    BY <2>1, <1>1, <1>2, QuietKeepsAll DEF IInv
<1>4. CASE \E c \in Commands : Launch(c)
  BY <1>1, <1>2, <1>4, LaunchKeepsAll DEF IInv
<1>5. CASE StartChild
  BY <1>1, <1>2, <1>5, StartChildKeepsAll DEF IInv
<1>6. CASE ChildCompleted
  BY <1>1, <1>2, <1>6, ChildCompletedKeepsAll DEF IInv
<1>7. CASE ChildFailed \/ LaunchCompletes \/ Interrupted \/ Killed \/ MachineStops
  BY <1>1, <1>2, <1>7, LaunchEndKeepsAll DEF IInv
<1>8. CASE ScriptWorks \/ RunAlone \/ NewData
  <2>1. UNCHANGED runvars
    BY <1>8 DEF ScriptWorks, RunAlone, NewData, lvars
  <2>. QED
    BY <2>1, <1>1, <1>2, QuietKeepsAll DEF IInv
<1>9. CASE \E n \in Dirs : StageStep(n)
  <2> PICK n \in Dirs : StageStep(n)
    BY <1>9
  <2>1. /\ StagesInv'
        /\ \A d \in Dirs : \A p \in 1 .. 3 : Out(p, d) => Out(p, d)'
        /\ \A d \in Dirs : /\ dir'[d].status = dir[d].status /\ dir'[d].step = dir[d].step
                           /\ dir'[d].phases = dir[d].phases
    BY <1>1, StageStepKeeps
  <2>2. Completed'
    BY <2>1, <1>1, CompletedKeeps
  <2>3. LauncherInv'
    BY <1>1, StageStepKeepsLauncher
  <2>. QED
    BY <2>1, <2>2, <2>3, <1>2 DEF IInv
<1>10. CASE Edit
  BY <1>1, <1>2, <1>10, EditKeepsAll DEF IInv
<1>. QED
  BY <1>3, <1>4, <1>5, <1>6, <1>7, <1>8, <1>9, <1>10 DEF Next

-----------------------------------------------------------------------------
(* Whose alerts a run hands on: what the files of Phase_1 are when they    *)
(* are read, and when the hand-off is made.                                *)

Trained == script.n = 10 /\ script.state = "ok" /\ script.plan
Traced(h, mode) ==
    /\ h.provenance.model_id = h.alerts.version
    /\ mode = "train" =>
          /\ h.alerts.by = h.alerts.version
          /\ h.provenance.model_digest.artifact \in Bundles
          /\ h.provenance.model_digest.artifact.id = h.alerts.by

Finished == \A d \in Dirs : dir[d].status = "completed" /\ dir[d].phases # {3} =>
                                Traced(dir[d].handoff, dir[d].mode)

(* The rows of a stage are of the card on disk, as long as its launcher     *)
(* keeps every script from running.                                        *)
RowsOf(n) ==
    IF Smoke(n) THEN stage[n].rows.version = Synthetic
    ELSE stage[n].rows = out["alerts"] /\ stage[n].rows.version = out["card"].id

HandsOn ==
    /\ launcher.phases # {3} /\ Whole(dir[launcher.dir].handoff) =>
          Traced(dir[launcher.dir].handoff, launcher.mode)
    /\ child = "stage" /\ Working(launcher.number) /\ Step(launcher.number) \in {"alerts", "handoff"} =>
          RowsOf(launcher.number)
    /\ \/ child = None /\ launcher.todo # <<>> /\ Head(launcher.todo) = 0
       \/ dir[launcher.dir].mode = launcher.mode
    /\ launcher.mode = "train" =>
          /\ TrainsFirst(launcher.todo)
          /\ child = None /\ launcher.todo # <<>> /\ Head(launcher.todo) > 10 => Trained
          /\ child = "stage" => Trained

OwnInv == Finished /\ (launcher # None => HandsOn)

(* The bundle, the card and the alerts of a training that has ended.        *)
LEMMA TrainedBundle ==
    ASSUME TrainingInv, Trained, out["alerts"] \in AlertRows
    PROVE  /\ out["bundle"] \in Bundles
           /\ out["alerts"].by = out["bundle"].id /\ out["alerts"].version = out["bundle"].id
<1>1. /\ Readable("val_scores") /\ out["test_scores"] = Fit
      /\ out["ops"] = out["val_scores"] \cup out["test_scores"]
      /\ out["bundle"] = [id |-> FitId, calibrator |-> Fit, gate |-> out["ops"]]
      /\ out["card"] = [id |-> out["bundle"].id, gate |-> out["bundle"].gate]
      /\ out["alerts"] = [by |-> out["bundle"].id, version |-> out["card"].id]
  BY Exported DEF Trained
<1>2. /\ out["bundle"].id = FitId /\ out["card"].id = out["bundle"].id
      /\ out["alerts"].by = out["bundle"].id /\ out["alerts"].version = out["card"].id
  BY <1>1
<1>3. FitId \in ModelIds
  BY <1>2 DEF AlertRows
<1>4. Fit \in SUBSET Data
  BY <1>3 DEF ModelIds, FitId
<1>5. out["val_scores"] \in SUBSET Data
  BY <1>1 DEF TrainingInv, TypeOK, OutType, SetFiles, Readable
<1>6. out["ops"] \in SUBSET Data
  BY <1>1, <1>4, <1>5
<1>. QED
  BY <1>1, <1>2, <1>3, <1>4, <1>6 DEF Bundles

(* Done() in a later step leads to no step of phase 1 but from one.         *)
LEMMA DoneRows ==
    ASSUME LaunchInv, StagesInv, NEW n \in Dirs, Working(n), launches' = launches,
           NEW x \in Later, At(n, x), Done(n), Step(n)' \in {"alerts", "handoff"}
    PROVE  /\ Step(n) \in {"alerts", "handoff"} /\ stage'[n].rows = stage[n].rows
           /\ stage'[n].mode = stage[n].mode
<1>1. Step(n) = x
  BY AtStep
<1>2. Turns(n) /\ stage'[n].rows = stage[n].rows
  BY <1>1, DoneTurns
<1>. QED
  BY <1>1, <1>2 DEF Turns, Later

(* Where the rows of a stage in phase 1 come from.                          *)
LEMMA RowsFrame ==
    ASSUME LaunchInv, StagesInv, NEW n \in Dirs, StageStep(n), Working(n)',
           Step(n)' \in {"alerts", "handoff"}
    PROVE  \/ /\ Step(n) \in {"alerts", "handoff"} /\ stage'[n].rows = stage[n].rows
              /\ stage'[n].mode = stage[n].mode
           \/ RowsOf(n)'
<1>1. /\ Working(n) /\ UNCHANGED dvars /\ launches' = launches /\ Maps
      /\ StageShape(n) /\ out' = out
  BY StageFrame, StageFacts DEF LaunchInv, dvars
<1>2. CASE Prepare(n)
  <2> DEFINE rows == IF Smoke(n) THEN [by |-> Synthetic, version |-> Synthetic] ELSE out["alerts"]
  <2>1. stage' = [stage EXCEPT ![n].todo = <<"alerts", "handoff">> \o Tail(@), ![n].rows = rows,
                               ![n].open = FALSE]
    BY <1>2 DEF Prepare, Then
  <2>2. stage[n].todo # <<>> /\ First(stage[n].todo) = "phase1"
    BY <1>2, AtStep DEF Prepare
  <2>3. <<"alerts", "handoff">> \o Tail(stage[n].todo) = After(stage[n].todo)
    BY <2>2 DEF After
  <2> HIDE DEF rows
  <2>4. Turns(n) /\ stage'[n].rows = rows
    BY <1>1, <2>1, <2>2, <2>3, ThenTurns
  <2>5. Smoke(n)' <=> Smoke(n)
    BY <2>4 DEF Turns, Smoke
  <2>6. IF Smoke(n) THEN rows.version = Synthetic
        ELSE rows = out["alerts"] /\ rows.version = out["card"].id
    BY <1>2 DEF Prepare, rows, SameVersion
  <2>. QED
    BY <2>4, <2>5, <2>6, <1>1 DEF RowsOf
<1>3. CASE Phase2(n)
  <2>1. stage[n].todo # <<>> /\ First(stage[n].todo) = "phase2"
    BY <1>3, AtStep DEF Phase2
  <2>2. CASE stage' = [stage EXCEPT ![n].todo = <<"phase1">> \o @]
    <3>1. PICK q \in 1 .. 3 : stage[n].todo \in Todo(q)
      BY <1>1, TodoIs DEF StageShape
    <3>2. stage[n].todo = <<"phase2">>
      BY <2>1, <3>1, TodoFollows DEF Follows
    <3> DEFINE z == <<"phase1">> \o stage[n].todo
               s == stage[n]
    <3>3. stage'[n] = [s EXCEPT !.todo = z]
      BY <2>2, <1>1 DEF Maps
    <3>4. z = <<"phase1", "phase2">>
      BY <3>2, Concats
    <3>5. s = [f \in StageFields |-> s[f]] /\ "todo" \in StageFields
      BY <1>1 DEF StageShape, StageFields
    <3> HIDE DEF z, s
    <3>6. stage'[n].todo = z
      BY <3>3, <3>5
    <3>7. Step(n)' = "phase1"
      <4>1. <<"phase1", "phase2">> # <<>> /\ Head(<<"phase1", "phase2">>) = "phase1"
        OBVIOUS
      <4>. QED
        BY <4>1, <3>4, <3>6 DEF Step, First
    <3>. QED
      BY <3>7
  <2>3. CASE Then(n, <<"pipeline", "audit", "events", "mapping", "handoff2", "results2">>, Dir(n).alerts)
    <3>1. stage' = [stage EXCEPT
                       ![n].todo = <<"pipeline", "audit", "events", "mapping", "handoff2", "results2">> \o Tail(@),
                       ![n].rows = Dir(n).alerts, ![n].open = FALSE]
      BY <2>3 DEF Then
    <3>2. <<"pipeline", "audit", "events", "mapping", "handoff2", "results2">> \o Tail(stage[n].todo)
              = After(stage[n].todo)
      BY <2>1 DEF After
    <3>3. Turns(n)
      BY <1>1, <2>1, <3>1, <3>2, ThenTurns
    <3>4. Step(n) = "phase2"
      BY <1>3, AtStep DEF Phase2
    <3>. QED
      BY <3>3, <3>4 DEF Turns
  <2>. QED
    BY <1>3, <2>2, <2>3 DEF Phase2
<1>4. CASE Phase3(n)
  <2>1. stage[n].todo # <<>> /\ First(stage[n].todo) = "phase3" /\ Step(n) = "phase3"
    BY <1>4, AtStep DEF Phase3
  <2>2. stage' = [stage EXCEPT ![n].todo = <<"mkdir", "trials", "results3">> \o Tail(@),
                               ![n].rows = Dir(n).events, ![n].open = FALSE]
    BY <1>4 DEF Phase3, Then
  <2>3. <<"mkdir", "trials", "results3">> \o Tail(stage[n].todo) = After(stage[n].todo)
    BY <2>1 DEF After
  <2>4. Turns(n)
    BY <1>1, <2>1, <2>2, <2>3, ThenTurns
  <2>. QED
    BY <2>1, <2>4 DEF Turns
<1>5. CASE MakePipeline(n)
  BY <1>1, <1>5, DoneRows DEF MakePipeline, Later
<1>6. CASE SubmitAndAudit(n)
  BY <1>1, <1>6, DoneRows DEF SubmitAndAudit, Later
<1>7. CASE MakePhase3(n)
  BY <1>1, <1>7, DoneRows DEF MakePhase3, Later
<1>8. CASE Trials(n)
  BY <1>1, <1>8, DoneRows DEF Trials, Later
<1>9. CASE Save(n)
  <2> PICK f \in Saves : At(n, f) /\ IF stage[n].open THEN Done(n) ELSE stage' = [stage EXCEPT ![n].open = TRUE]
    BY <1>9 DEF Save
  <2>1. CASE stage[n].open
    BY <1>1, <2>1, DoneRows DEF Saves, Later
  <2>2. CASE ~stage[n].open
    <3>1. Step(n) \in Saves
      BY AtStep
    <3>2. Opened(n)
      BY <1>1, <2>2, <3>1, Opens
    <3>. QED
      BY <3>2 DEF Opened
  <2>. QED
    BY <2>1, <2>2
<1>10. ~StageEnds(n)
  BY <1>1, EndedStage
<1>. QED
  BY <1>2, <1>3, <1>4, <1>5, <1>6, <1>7, <1>8, <1>9, <1>10 DEF StageStep

(* Only a save of the hand-off changes one, and one that is whole stays.    *)
LEMMA HandoffFrame ==
    ASSUME LaunchInv, StagesInv, NEW n \in Dirs, StageStep(n), NEW d \in Dirs
    PROVE  /\ dir'[d].status = dir[d].status /\ dir'[d].phases = dir[d].phases
           /\ dir'[d].mode = dir[d].mode
           /\ \/ dir'[d].handoff = dir[d].handoff
              \/ /\ d = stage[n].dir /\ d = n /\ Step(n) = "handoff"
                 /\ ~Whole(dir[d].handoff)
                 /\ dir'[d].handoff \in {Torn, Saved(n, "handoff")}
                 /\ stage[n].rows \in Rows /\ (Smoke(n) <=> stage[n].rows.by = Synthetic)
                 /\ dir[d].alerts = stage[n].rows /\ HasModel(n)
<1>1. /\ Maps /\ Working(n) /\ DirOK(d) /\ DirShape(dir[d])
      /\ stage[n].dir \in Dirs /\ StageOK(n)
      /\ \A e \in Dirs : e # stage[n].dir => dir'[e] = dir[e]
  BY StageFrame, StageFacts DEF LaunchInv, StagesInv, DirOK
<1>2. CASE d # stage[n].dir \/ dir' = dir
  BY <1>1, <1>2
<1>3. CASE d = stage[n].dir /\ Save(n)
  <2> PICK f \in Saves : At(n, f)
    BY <1>3 DEF Save
  <2>1. SaveOf(n, f) /\ Step(n) = f
    BY <1>3, SaveIs, AtStep
  <2>2. /\ "status" \in DirFields /\ "phases" \in DirFields /\ "mode" \in DirFields
        /\ "handoff" \in DirFields
        /\ f # "status" /\ f # "phases" /\ f # "mode"
    BY DEF DirFields, Saves
  <2>3. /\ \A g \in DirFields : g # f => dir'[d][g] = dir[d][g]
        /\ dir'[d][f] \in {Torn, Saved(n, f)}
        /\ f = "handoff" => HasModel(n)
    BY <2>1, <1>3 DEF SaveOf, OnlyField
  <2>4. dir'[d].status = dir[d].status /\ dir'[d].phases = dir[d].phases /\ dir'[d].mode = dir[d].mode
    BY <2>2, <2>3
  <2>5. CASE f # "handoff"
    BY <2>2, <2>3, <2>4, <2>5
  <2>6. CASE f = "handoff"
    <3>1. dir'[d].handoff \in {Torn, Saved(n, "handoff")} /\ HasModel(n)
      BY <2>3, <2>6
    <3>2. d = n
      BY <1>1, <1>3, <2>1, <2>6, BeforeTheSecond DEF Before
    <3>3. /\ Rows1(n) /\ Dir(n).alerts = stage[n].rows /\ Unsaved(n, "handoff")
      BY <1>1, <2>1, <2>6 DEF StageOK, AtPhase1
    <3>4. ~Whole(dir[d].handoff) /\ dir[d].alerts = stage[n].rows
      BY <3>3, <1>3 DEF Unsaved, Whole, Dir
    <3>. QED
      BY <3>1, <3>2, <3>3, <3>4, <2>1, <2>4, <2>6, <1>3 DEF Rows1
  <2>. QED
    BY <2>5, <2>6
<1>4. CASE d = stage[n].dir /\ (MakePipeline(n) \/ MakePhase3(n))
  <2> PICK r, r1 : r = dir[d] /\ r1 = dir'[d]
    OBVIOUS
  <2>1. \/ r1 = [r EXCEPT !.phase2 = TRUE]
        \/ r1 = [r EXCEPT !.phase3 = n]
    BY <1>1, <1>4 DEF MakePipeline, MakePhase3, Maps
  <2>2. /\ "status" \in DirFields /\ "phases" \in DirFields /\ "mode" \in DirFields
        /\ "handoff" \in DirFields
    BY DEF DirFields
  <2>3. /\ r1.status = r.status /\ r1.phases = r.phases /\ r1.mode = r.mode /\ r1.handoff = r.handoff
    BY <1>1, <2>1, <2>2 DEF DirShape
  <2>. QED
    BY <2>3
<1>5. dir' = dir \/ Save(n) \/ MakePipeline(n) \/ MakePhase3(n)
  BY DEF StageStep, Prepare, Phase2, SubmitAndAudit, Phase3, Trials, StageEnds
<1>. QED
  BY <1>2, <1>3, <1>4, <1>5

(* The hand-off a stage of the launcher saves is traced.                    *)
LEMMA SavedTraced ==
    ASSUME LaunchInv, NEW n \in Dirs, RowsOf(n), HasModel(n), Dir(n).alerts = stage[n].rows,
           stage[n].rows \in Rows, Smoke(n) <=> stage[n].rows.by = Synthetic,
           stage[n].mode = "train" => Trained
    PROVE  Traced(Saved(n, "handoff"), stage[n].mode)
<1> DEFINE h == Saved(n, "handoff")
           prov == IF Smoke(n) THEN build_provenance_record(Synthetic, Synthetic)
                   ELSE build_provenance_from_phase1
           rows == stage[n].rows
<1>1. h = [alerts |-> rows, synthetic |-> Smoke(n), provenance |-> prov]
  BY DEF Saved
<1>2. CASE Smoke(n)
  <2>1. prov.model_id = Synthetic
    BY <1>2 DEF build_provenance_record
  <2>2. rows.version = Synthetic /\ stage[n].mode # "train"
    BY <1>2 DEF RowsOf, Smoke
  <2>. QED
    BY <1>1, <2>1, <2>2 DEF Traced
<1>3. CASE ~Smoke(n)
  <2>1. /\ prov.model_id = out["card"].id /\ prov.model_digest.artifact = out["bundle"]
    BY <1>3 DEF build_provenance_record, compute_model_digest, build_provenance_from_phase1,
                model_identity
  <2>2. rows = out["alerts"] /\ rows.version = out["card"].id
    BY <1>3 DEF RowsOf
  <2>3. stage[n].mode = "train" => out["bundle"] \in Bundles /\ rows.by = rows.version
                                   /\ out["bundle"].id = rows.by
    <3>1. out["alerts"] \in AlertRows
      BY <1>3, <2>2 DEF Rows
    <3>. QED
      BY <3>1, <2>2, TrainedBundle DEF LaunchInv
  <2> HIDE DEF prov, rows
  <2>4. h.alerts = rows /\ h.provenance = prov
    BY <1>1
  <2>. QED
    BY <2>1, <2>2, <2>3, <2>4 DEF Traced, rows
<1>. QED
  BY <1>2, <1>3

LEMMA StageKeepsOwn ==
    ASSUME IInv, OwnInv, NEW n \in Dirs, StageStep(n)
    PROVE  OwnInv'
<1>1. /\ LaunchInv /\ StagesInv /\ Completed /\ LauncherInv
      /\ Working(n) /\ UNCHANGED dvars /\ launcher' = launcher /\ child' = child
      /\ \A m \in Dirs : m # n => stage'[m] = stage[m]
      /\ script' = script /\ out' = out
  BY StageFrame DEF IInv, LaunchInv, dvars
<1>2. Finished'
  <2> SUFFICES ASSUME NEW d \in Dirs, dir'[d].status = "completed", dir'[d].phases # {3}
               PROVE  Traced(dir'[d].handoff, dir'[d].mode)
    BY DEF Finished, Traced
  <2>1. dir[d].status = "completed" /\ dir[d].phases # {3} /\ dir'[d].mode = dir[d].mode
    BY <1>1, HandoffFrame
  <2>2. Traced(dir[d].handoff, dir[d].mode)
    BY <2>1 DEF OwnInv, Finished
  <2>3. Whole(dir[d].handoff)
    BY <2>1, <1>1 DEF Completed, Out
  <2>4. dir'[d].handoff = dir[d].handoff
    BY <2>3, <1>1, HandoffFrame
  <2>. QED
    BY <2>1, <2>2, <2>4
<1>3. ASSUME launcher # None
      PROVE  HandsOn'
  <2>. PICK l, e, m : l = launcher.number /\ e = launcher.dir /\ m = launcher.mode
    OBVIOUS
  <2>1. HandsOn
    BY <1>3 DEF OwnInv
  <2>2. l \in Dirs /\ e \in Dirs
    BY <1>1, <1>3, LauncherFacts
  <2>3. /\ launcher.phases # {3} => l = e
        /\ child # "stage" => ~Working(l)
        /\ child = "stage" /\ Working(l) => stage[l].mode = m
    BY <1>1, <1>3 DEF LauncherInv, Working
  <2>4. ASSUME launcher.phases # {3}, Whole(dir'[e].handoff)
        PROVE  Traced(dir'[e].handoff, m)
    <3>1. CASE dir'[e].handoff = dir[e].handoff
      BY <3>1, <2>1, <2>4 DEF HandsOn
    <3>2. CASE dir'[e].handoff # dir[e].handoff
      <4>1. /\ e = n /\ Step(n) = "handoff" /\ e = stage[n].dir
            /\ dir'[e].handoff \in {Torn, Saved(n, "handoff")}
            /\ stage[n].rows \in Rows /\ (Smoke(n) <=> stage[n].rows.by = Synthetic)
            /\ dir[e].alerts = stage[n].rows /\ HasModel(n)
        BY <3>2, <1>1, <2>2, HandoffFrame
      <4>2. l = n /\ child = "stage" /\ stage[n].mode = m
        BY <4>1, <2>3, <2>4, <1>1
      <4>3. RowsOf(n) /\ (m = "train" => Trained)
        BY <4>1, <4>2, <2>1, <1>1 DEF HandsOn
      <4>4. dir'[e].handoff = Saved(n, "handoff")
        BY <4>1, <2>4 DEF Whole
      <4>5. Dir(n).alerts = stage[n].rows
        BY <4>1 DEF Dir
      <4>6. Traced(Saved(n, "handoff"), stage[n].mode)
        BY <4>1, <4>2, <4>3, <4>5, <1>1, SavedTraced
      <4>. QED
        BY <4>2, <4>4, <4>6
    <3>. QED
      BY <3>1, <3>2
  <2>5. ASSUME child = "stage", Working(l)', Step(l)' \in {"alerts", "handoff"}
        PROVE  RowsOf(l)'
    <3>1. CASE l # n
      <4>1. stage'[l] = stage[l]
        BY <3>1, <1>1, <2>2
      <4>2. Working(l) /\ Step(l) = Step(l)'
        BY <4>1, <2>5 DEF Working, Step
      <4>. QED
        BY <4>1, <4>2, <2>1, <2>5, <1>1 DEF HandsOn, RowsOf, Smoke
    <3>2. CASE l = n
      <4>1. \/ /\ Step(n) \in {"alerts", "handoff"} /\ stage'[n].rows = stage[n].rows
               /\ stage'[n].mode = stage[n].mode
            \/ RowsOf(n)'
        BY <3>2, <2>5, <1>1, RowsFrame
      <4>. QED
        BY <3>2, <4>1, <2>1, <2>5, <1>1 DEF HandsOn, RowsOf, Smoke
    <3>. QED
      BY <3>1, <3>2
  <2>6. dir'[e].mode = dir[e].mode
    BY <1>1, <2>2, HandoffFrame
  <2>7. /\ \/ child = None /\ launcher.todo # <<>> /\ Head(launcher.todo) = 0
           \/ dir'[e].mode = m
        /\ m = "train" =>
              /\ TrainsFirst(launcher.todo)
              /\ child = None /\ launcher.todo # <<>> /\ Head(launcher.todo) > 10 => Trained
              /\ child = "stage" => Trained
    BY <2>1, <2>6 DEF HandsOn
  <2>8. Trained' <=> Trained
    BY <1>1 DEF Trained
  <2>. QED
    BY <1>1, <2>4, <2>5, <2>7, <2>8 DEF HandsOn, Traced
<1>. QED
  BY <1>1, <1>2, <1>3 DEF OwnInv

(* Nothing changes that the hand-off is traced by.                          *)
LEMMA SameOwn ==
    ASSUME IInv, OwnInv, launcher' = launcher, child' = child, stage' = stage,
           launcher # None => out' = out /\ script' = script,
           \A d \in Dirs : /\ dir'[d].status = dir[d].status /\ dir'[d].phases = dir[d].phases
                           /\ dir'[d].mode = dir[d].mode /\ dir'[d].handoff = dir[d].handoff
    PROVE  OwnInv'
<1>1. Finished'
  BY DEF OwnInv, Finished, Traced
<1>2. ASSUME launcher # None
      PROVE  HandsOn'
  <2>. PICK l, e : l = launcher.number /\ e = launcher.dir
    OBVIOUS
  <2>1. HandsOn /\ e \in Dirs /\ out' = out /\ script' = script
    BY <1>2, LauncherFacts DEF OwnInv, IInv
  <2>2. /\ Working(l)' <=> Working(l)
        /\ Step(l)' = Step(l)
        /\ RowsOf(l)' <=> RowsOf(l)
        /\ Trained' <=> Trained
        /\ dir'[e].handoff = dir[e].handoff /\ dir'[e].mode = dir[e].mode
    BY <2>1 DEF Working, Step, RowsOf, Smoke, Trained
  <2>. QED
    BY <2>1, <2>2 DEF HandsOn, Traced
<1>. QED
  BY <1>1, <1>2 DEF OwnInv

(* A script runs beside a launcher only as its child.                       *)
LEMMA ScriptKeepsOwn ==
    ASSUME IInv, OwnInv, ScriptWorks
    PROVE  OwnInv'
<1>1. /\ launcher' = launcher /\ child' = child /\ stage' = stage /\ dir' = dir
  BY DEF ScriptWorks, lvars, runvars
<1>2. Running
  BY ScriptStepFacts DEF ScriptWorks, IInv, LaunchInv
<1>3. Finished'
  BY <1>1 DEF OwnInv, Finished, Traced
<1>4. ASSUME launcher # None
      PROVE  HandsOn'
  <2>1. HandsOn
    BY <1>4 DEF OwnInv
  <2>2. child = "script"
    BY <1>2, <1>4 DEF IInv, LaunchInv, ScriptOrder
  <2>3. child' # "stage" /\ child' # None
    BY <1>1, <2>2, ChildNames DEF Child
  <2>. QED
    BY <1>1, <2>1, <2>2, <2>3 DEF HandsOn, Traced
<1>. QED
  BY <1>1, <1>3, <1>4 DEF OwnInv

LEMMA LaunchKeepsOwn ==
    ASSUME IInv, OwnInv, NEW c \in Commands, Launch(c)
    PROVE  OwnInv'
<1>1. /\ launches < MaxLaunches /\ launches' = launches + 1
      /\ child' = child /\ dir' = dir /\ launcher = None
  BY DEF Launch
<1>2. PICK d \in Dirs :
          /\ IF Resumes(c) THEN d <= launches ELSE d = launches'
          /\ launcher' = [dir |-> d, mode |-> c.mode, phases |-> c.first .. c.last,
                          todo |-> Plan(c), number |-> launches']
  BY DEF Launch
<1>3. /\ IsPlan(Plan(c), c.first, c.last, c.mode)
      /\ c.first \in 1 .. 3 /\ c.last \in 1 .. 3 /\ c.first <= c.last
      /\ c.first \in {1, c.last}
  BY PlanFacts
<1>4. child = None /\ child # "stage" /\ launches \in Nat
  BY <1>1, LauncherAssumption, ChildNames DEF IInv, LaunchInv, LauncherType, Child
<1>5. /\ launcher'.dir = d /\ launcher'.phases = c.first .. c.last
      /\ launcher'.todo = Plan(c) /\ launcher'.mode = c.mode
  BY <1>2
<1>6. launcher'.phases # {3} => ~Whole(dir'[d].handoff)
  <2> SUFFICES ASSUME launcher'.phases # {3}
               PROVE  ~Whole(dir'[d].handoff)
    OBVIOUS
  <2>1. c.first # 3
    BY <1>3, <1>5
  <2>2. d = launches + 1
    BY <2>1, <1>1, <1>2 DEF Resumes
  <2>3. dir[d] = EmptyDir
    BY <2>2, <1>4 DEF IInv, StagesInv, DirOK
  <2>. QED
    BY <2>3, <1>1 DEF EmptyDir, Whole
<1>7. Finished'
  BY <1>1 DEF OwnInv, Finished, Traced
<1>8. HandsOn'
  <2>1. /\ Plan(c) # <<>> /\ Head(Plan(c)) = 0 /\ ~(Head(Plan(c)) > 10)
        /\ c.mode = "train" => TrainsFirst(Plan(c))
    BY <1>3 DEF IsPlan
  <2>. QED
    BY <1>1, <1>4, <1>5, <1>6, <2>1 DEF HandsOn
<1>. QED
  BY <1>7, <1>8 DEF OwnInv

LEMMA StartKeepsOwn ==
    ASSUME IInv, OwnInv, StartChild
    PROVE  OwnInv'
<1>. PICK l, e, h, m : /\ l = launches /\ e = launcher.dir /\ h = Head(launcher.todo)
                      /\ m = launcher.mode
  OBVIOUS
<1>1. /\ LaunchInv /\ StagesInv /\ LauncherInv
      /\ launcher # None /\ child = None /\ launcher.todo # <<>>
      /\ launcher' = launcher /\ launches' = launches
      /\ \/ h = 0 /\ child' = "environment"
         \/ h \in Scripts /\ child' = "script"
         \/ h > 10 /\ child' = "stage" /\ UNCHANGED dvars
  BY Zenon DEF StartChild, IInv
<1>2. /\ launcher.number = l /\ l \in Dirs /\ l \in Nat /\ e \in Dirs /\ e <= l /\ Maps
  BY <1>1, LauncherFacts
<1>3. /\ \A d \in Dirs : SameFiles(d)
      /\ \A d \in Dirs : d # e => dir'[d] = dir[d]
      /\ dir'[e].status = "running" /\ dir'[e].mode = m
  <2>1. /\ launches' \in Nat /\ e <= launches' /\ e \in Dirs
        /\ dir' = [dir EXCEPT ![launcher.dir].step = "running", ![launcher.dir].status = "running",
                              ![launcher.dir].mode = launcher.mode,
                              ![launcher.dir].phases = launcher.phases]
    BY <1>1, <1>2, Zenon DEF StartChild
  <2>. QED
    BY <2>1, <1>1, <1>2, ManifestStarts
<1>4. dir'[e].handoff = dir[e].handoff
  BY <1>2, <1>3 DEF SameFiles, DirFields, Manifest
<1>5. Finished'
  <2> SUFFICES ASSUME NEW d \in Dirs, dir'[d].status = "completed", dir'[d].phases # {3}
               PROVE  Traced(dir'[d].handoff, dir'[d].mode)
    BY DEF Finished, Traced
  <2>1. dir'[d] = dir[d]
    BY <1>3
  <2>. QED
    BY <2>1 DEF OwnInv, Finished
<1>6. /\ child' # None
      /\ child' = "stage" => h > 10 /\ script' = script
  BY <1>1, ChildNames DEF Child, dvars
<1>7. child' = "stage" => Step(l)' \notin {"alerts", "handoff"}
  <2> SUFFICES ASSUME h > 10
               PROVE  Step(l)' \notin {"alerts", "handoff"}
    BY <1>6
  <2> DEFINE x == <<"phase1", "phase2", "phase3">>[h - 10]
  <2>1. stage'[l] = Stage(e, m, x) /\ h \in {11, 12, 13}
    BY <1>1, NewStage
  <2>2. x \in {"phase1", "phase2", "phase3"}
    BY <2>1
  <2> HIDE DEF x
  <2>3. stage'[l].todo = <<x>>
    BY <2>1 DEF Stage
  <2>4. Step(l)' = x
    <3>1. <<x>> # <<>> /\ Head(<<x>>) = x
      OBVIOUS
    <3>. QED
      BY <2>3, <3>1 DEF Step, First
  <2>. QED
    BY <2>2, <2>4
<1>8. HandsOn'
  <2>1. HandsOn
    BY <1>1 DEF OwnInv
  <2>2. /\ launcher.phases # {3} /\ Whole(dir'[e].handoff) => Traced(dir'[e].handoff, m)
        /\ m = "train" => TrainsFirst(launcher.todo) /\ (h > 10 => Trained)
    BY <1>1, <1>4, <2>1 DEF HandsOn
  <2>3. child' = "stage" /\ Trained => Trained'
    BY <1>6 DEF Trained
  <2>. QED
    BY <1>1, <1>2, <1>3, <1>6, <1>7, <2>2, <2>3 DEF HandsOn, Traced
<1>. QED
  BY <1>5, <1>8 DEF OwnInv

(* What is left of a list without its first item, item by item.            *)
LEMMA TailItems ==
    ASSUME NEW S, NEW p \in Seq(S), p # <<>>
    PROVE  /\ Len(p) \in Nat \ {0} /\ Tail(p) \in Seq(S) /\ Len(Tail(p)) = Len(p) - 1
           /\ \A i \in 1 .. Len(Tail(p)) : Tail(p)[i] = p[i + 1] /\ i + 1 \in 1 .. Len(p)
           /\ Head(p) = p[1] /\ 1 \in 1 .. Len(p)
<1>1. Len(p) \in Nat \ {0} /\ Tail(p) \in Seq(S) /\ Len(Tail(p)) = Len(p) - 1
  OBVIOUS
<1>2. Head(p) = p[1] /\ 1 \in 1 .. Len(p)
  BY <1>1
<1>3. ASSUME NEW i \in 1 .. Len(Tail(p))
      PROVE  Tail(p)[i] = p[i + 1] /\ i + 1 \in 1 .. Len(p)
  BY <1>1
<1>. QED
  BY <1>1, <1>2, <1>3

LEMMA CompletedKeepsOwn ==
    ASSUME IInv, OwnInv, ChildCompleted
    PROVE  OwnInv'
<1>. PICK e, h, t, m : /\ e = launcher.dir /\ h = Head(launcher.todo) /\ t = Tail(launcher.todo)
                      /\ m = launcher.mode
  OBVIOUS
<1>1. /\ LaunchInv /\ StagesInv
      /\ child # None /\ Returns("ok") /\ UNCHANGED dvars /\ child' = None /\ launches' = launches
      /\ launcher' = [launcher EXCEPT !.todo = Tail(@)] /\ script' = script
  BY DEF ChildCompleted, GoesOn, IInv, dvars
<1>2. /\ launcher # None /\ launcher.todo # <<>>
      /\ launcher = [dir |-> launcher.dir, mode |-> launcher.mode, phases |-> launcher.phases,
                     todo |-> launcher.todo, number |-> launcher.number]
  BY <1>1 DEF LaunchInv, LauncherType
<1>3. /\ launches \in Nat /\ e \in Dirs /\ e <= launches /\ Maps
  BY <1>2, <1>1, LauncherFacts
<1>4. launcher' = [dir |-> launcher.dir, mode |-> launcher.mode, phases |-> launcher.phases,
                   todo |-> t, number |-> launcher.number]
  BY <1>1, <1>2
<1>5. /\ launcher'.dir = e /\ launcher'.phases = launcher.phases /\ launcher'.todo = t
      /\ launcher'.mode = m
  BY <1>4
<1>6. /\ \A d \in Dirs : SameFiles(d)
      /\ \A d \in Dirs : d # e => dir'[d] = dir[d]
      /\ dir'[e].status = "running" /\ dir'[e].mode = dir[e].mode
  <2>1. /\ launches' \in Nat /\ e <= launches' /\ Maps /\ e \in Dirs
        /\ dir' = [dir EXCEPT ![launcher.dir].step = "completed", ![launcher.dir].status = "running"]
    BY <1>1, <1>3 DEF ChildCompleted, Record
  <2>. QED
    BY <2>1, <1>1, ManifestRecords
<1>7. dir'[e].handoff = dir[e].handoff
  BY <1>3, <1>6 DEF SameFiles, DirFields, Manifest
<1>8. Finished'
  <2> SUFFICES ASSUME NEW d \in Dirs, dir'[d].status = "completed", dir'[d].phases # {3}
               PROVE  Traced(dir'[d].handoff, dir'[d].mode)
    BY DEF Finished, Traced
  <2>1. dir'[d] = dir[d]
    BY <1>6
  <2>. QED
    BY <2>1 DEF OwnInv, Finished
<1>9. child' # "stage"
  BY <1>1, ChildNames DEF Child
<1>10. HandsOn'
  <2>1. HandsOn
    BY <1>2 DEF OwnInv
  <2>2. /\ launcher.phases # {3} /\ Whole(dir'[e].handoff) => Traced(dir'[e].handoff, m)
        /\ dir'[e].mode = m
    BY <2>1, <1>1, <1>6, <1>7 DEF HandsOn
  <2>3. ASSUME m = "train"
        PROVE  TrainsFirst(t) /\ (t # <<>> /\ Head(t) > 10 => Trained)
    <3>1. TrainsFirst(launcher.todo) /\ (child = "stage" => Trained)
      BY <2>1, <2>3 DEF HandsOn
    <3> DEFINE p == launcher.todo
    <3>2. /\ p \in Seq(0 .. 13) /\ p # <<>> /\ h \in 0 .. 13
      BY <1>1, <1>2, NextItem
    <3> HIDE DEF p
    <3>3. TrainsFirst(p) /\ t = Tail(p) /\ h = Head(p)
      BY <3>1 DEF p
    <3>4. /\ Len(p) \in Nat \ {0} /\ t \in Seq(0 .. 13) /\ Len(t) = Len(p) - 1
          /\ \A i \in 1 .. Len(t) : t[i] = p[i + 1] /\ i + 1 \in 1 .. Len(p)
          /\ h = p[1] /\ 1 \in 1 .. Len(p)
      BY <3>2, <3>3, TailItems
    <3>5. TrainsFirst(t)
      <4> SUFFICES ASSUME NEW i \in 1 .. Len(t), NEW j \in 1 .. Len(t), j = i + 1, t[j] > 10
                   PROVE  t[i] >= 10
        BY DEF TrainsFirst
      <4>1. /\ t[i] = p[i + 1] /\ t[j] = p[j + 1] /\ i + 1 \in 1 .. Len(p) /\ j + 1 \in 1 .. Len(p)
            /\ j + 1 = (i + 1) + 1
        BY <3>4
      <4>. QED
        BY <4>1, <3>3 DEF TrainsFirst
    <3>6. ASSUME t # <<>>, Head(t) > 10
          PROVE  Trained
      <4>1. Head(t) = p[2] /\ 2 \in 1 .. Len(p)
        <5>1. Head(t) = t[1] /\ 1 \in 1 .. Len(t)
          BY <3>4, <3>6, TailItems
        <5>2. t[1] = p[1 + 1] /\ 1 + 1 \in 1 .. Len(p)
          BY <5>1, <3>4
        <5>. QED
          BY <5>1, <5>2
      <4>2. h >= 10
        <5>1. \A i, j \in 1 .. Len(p) : j = i + 1 /\ p[j] > 10 => p[i] >= 10
          BY <3>3 DEF TrainsFirst
        <5>2. /\ 1 \in 1 .. Len(p) /\ 2 \in 1 .. Len(p) /\ 2 = 1 + 1
              /\ p[2] > 10
          BY <4>1, <3>4, <3>6
        <5>3. p[1] >= 10
          BY <5>1, <5>2
        <5>. QED
          BY <5>3, <3>4
      <4>3. CASE h = 10
        <5>1. child = "script" /\ script.n = h /\ script.plan
          BY <4>3, <1>1, <1>2, ScriptNumbers DEF LaunchInv, ScriptOrder
        <5>2. script.state = "ok"
          BY <5>1, <1>1, ChildNames DEF Returns
        <5>. QED
          BY <4>3, <5>1, <5>2 DEF Trained
      <4>4. CASE h > 10
        <5>1. child = "stage"
          BY <4>4, <1>1, <1>2 DEF LaunchInv, ScriptOrder
        <5>. QED
          BY <5>1, <3>1
      <4>. QED
        BY <4>2, <4>3, <4>4, <3>2
    <3>. QED
      BY <3>5, <3>6
  <2>4. Trained' <=> Trained
    BY <1>1 DEF Trained
  <2>. QED
    BY <1>1, <1>5, <1>9, <2>2, <2>3, <2>4 DEF HandsOn, Traced
<1>. QED
  BY <1>8, <1>10 DEF OwnInv

LEMMA LaunchEndKeepsOwn ==
    ASSUME IInv, OwnInv, ChildFailed \/ LaunchCompletes \/ Interrupted \/ Killed \/ MachineStops
    PROVE  OwnInv'
<1>1. /\ LaunchInv /\ StagesInv /\ LauncherInv
      /\ launches' = launches /\ launcher' = None /\ Maps /\ launches \in Nat
  BY LauncherAssumption
     DEF IInv, LaunchInv, LauncherType, ChildFailed, LaunchCompletes, Interrupted, Killed, MachineStops
<1>2. ASSUME NEW d \in Dirs, dir'[d].status = "completed", dir'[d].phases # {3}
      PROVE  Traced(dir'[d].handoff, dir'[d].mode)
  <2>1. CASE dir'[d] = dir[d]
    BY <2>1, <1>2 DEF OwnInv, Finished
  <2>2. CASE dir'[d] # dir[d]
    <3>. PICK e : e = launcher.dir
      OBVIOUS
    <3>1. launcher # None
      BY <2>2 DEF ChildFailed, LaunchCompletes, Interrupted, Killed, MachineStops, IInv, LaunchInv,
                  LauncherType
    <3>2. /\ launches' \in Nat /\ launcher.dir \in Dirs /\ launcher.dir <= launches'
      BY <3>1, <1>1, LauncherFacts
    <3>3. \/ dir' = [dir EXCEPT ![launcher.dir].step = "failed", ![launcher.dir].status = "failed"]
          \/ dir' = [dir EXCEPT ![launcher.dir].status = "failed",
                                ![launcher.dir].mode = launcher.mode,
                                ![launcher.dir].phases = launcher.phases]
          \/ LaunchCompletes /\ dir' = [dir EXCEPT ![launcher.dir].status = "completed"]
      BY <2>2 DEF ChildFailed, LaunchCompletes, Interrupted, Killed, MachineStops, Record
    <3>4. CASE dir' = [dir EXCEPT ![launcher.dir].step = "failed", ![launcher.dir].status = "failed"]
      BY <3>2, <3>4, <2>2, <1>1, <1>2, ManifestFails
    <3>5. CASE dir' = [dir EXCEPT ![launcher.dir].status = "failed",
                                  ![launcher.dir].mode = launcher.mode,
                                  ![launcher.dir].phases = launcher.phases]
      BY <3>2, <3>5, <2>2, <1>1, <1>2, ManifestAborted
    <3>6. CASE LaunchCompletes /\ dir' = [dir EXCEPT ![launcher.dir].status = "completed"]
      <4>1. /\ \A f \in Dirs : SameFiles(f)
            /\ \A f \in Dirs : f # e => dir'[f] = dir[f]
            /\ dir'[e].phases = dir[e].phases /\ dir'[e].mode = dir[e].mode
        BY <3>2, <3>6, <1>1, ManifestCompletes
      <4>2. d = e /\ e \in Dirs /\ dir'[e].handoff = dir[e].handoff
        BY <4>1, <3>2, <2>2 DEF SameFiles, DirFields, Manifest
      <4>3. child = None /\ launcher.todo = <<>>
        BY <3>6 DEF LaunchCompletes
      <4>4. /\ dir[e].phases = launcher.phases
            /\ \A p \in launcher.phases : ~Left2Do(10 + p) => Out(p, e)
            /\ launcher.phases \in SUBSET (1 .. 3) /\ launcher.phases # {}
        BY <4>3, <3>1, <1>1, LauncherFacts DEF LauncherInv
      <4>5. Whole(dir[e].handoff)
        <5>1. \A p \in launcher.phases : ~Left2Do(10 + p)
          BY <4>3 DEF Left2Do
        <5>. QED
          BY <5>1, <4>4 DEF Out
      <4>6. HandsOn
        BY <3>1 DEF OwnInv
      <4>7. Traced(dir[e].handoff, launcher.mode) /\ dir[e].mode = launcher.mode
        BY <4>1, <4>2, <4>3, <4>4, <4>5, <4>6, <1>2 DEF HandsOn
      <4>. QED
        BY <4>1, <4>2, <4>7
    <3>. QED
      BY <3>3, <3>4, <3>5, <3>6
  <2>. QED
    BY <2>1, <2>2
<1>3. Finished'
  BY <1>2 DEF Finished, Traced
<1>. QED
  BY <1>1, <1>3 DEF OwnInv

LEMMA EditKeepsOwn ==
    ASSUME IInv, OwnInv, Edit
    PROVE  OwnInv'
<1>1. /\ launcher' = launcher /\ child' = child /\ stage' = stage
      /\ out' = out /\ script' = script
  BY DEF Edit, dvars
<1>2. PICK e \in Dirs, f \in {"alerts", "events", "mapping"} : dir' = [dir EXCEPT ![e][f] = Edited]
  BY DEF Edit
<1>3. Maps /\ \A d \in Dirs : DirShape(dir[d])
  BY DEF IInv, LaunchInv, StagesInv, DirOK
<1>4. ASSUME NEW d \in Dirs
      PROVE  /\ dir'[d].status = dir[d].status /\ dir'[d].phases = dir[d].phases
             /\ dir'[d].mode = dir[d].mode /\ dir'[d].handoff = dir[d].handoff
  <2>1. CASE d # e
    BY <2>1, <1>2, <1>3 DEF Maps
  <2>2. CASE d = e
    <3> PICK r, r1 : r = dir[d] /\ r1 = dir'[d]
      OBVIOUS
    <3>1. r1 = [r EXCEPT ![f] = Edited] /\ f \in DirFields
      BY <2>2, <1>2, <1>3 DEF Maps, DirFields
    <3>2. \A g \in DirFields : g # f => r1[g] = r[g]
      BY <3>1, <1>3, FieldSet
    <3>. QED
      BY <3>2 DEF DirFields
  <2>. QED
    BY <2>1, <2>2
<1>. QED
  BY <1>1, <1>4, SameOwn

LEMMA OwnInvInit ==
    ASSUME Init
    PROVE  OwnInv
<1>1. launcher = None /\ dir = [d \in Dirs |-> EmptyDir]
  BY DEF Init
<1>2. \A d \in Dirs : dir[d].status # "completed"
  BY <1>1, ValueAssumption DEF EmptyDir
<1>. QED
  BY <1>1, <1>2 DEF OwnInv, Finished

LEMMA OwnInvStep ==
    ASSUME IInv, OwnInv, [Next]_vars
    PROVE  OwnInv'
<1>1. CASE UNCHANGED vars
  BY <1>1, SameOwn DEF vars, dvars, lvars, runvars
<1>2. CASE ScriptWorks
  BY <1>2, ScriptKeepsOwn
<1>3. CASE \E c \in Commands : Launch(c)
  BY <1>3, LaunchKeepsOwn
<1>4. CASE StartChild
  BY <1>4, StartKeepsOwn
<1>5. CASE ChildCompleted
  BY <1>5, CompletedKeepsOwn
<1>6. CASE ChildFailed \/ LaunchCompletes \/ Interrupted \/ Killed \/ MachineStops
  BY <1>6, LaunchEndKeepsOwn
<1>7. CASE \E n \in Dirs : StageStep(n)
  BY <1>7, StageKeepsOwn
<1>8. CASE RunAlone \/ NewData
  BY <1>8, SameOwn DEF RunAlone, NewData, lvars, runvars
<1>9. CASE Edit
  BY <1>9, EditKeepsOwn
<1>. QED
  BY <1>1, <1>2, <1>3, <1>4, <1>5, <1>6, <1>7, <1>8, <1>9 DEF Next

(* Made-up alerts are never anchored as a detector's, and a completed run   *)
(* anchors the provenance that its alerts name, although a killed          *)
(* launcher's stage may be at work while cards and alerts change, and      *)
(* scripts are run alone; a run that trained the detector has the alerts   *)
(* and the artifact of that one.  Code: prepare(), run_stage.py:153-213,   *)
(* and the plan, main.py:151-168.                                          *)
THEOREM AlertsAreTraced == Spec => []AlertsComeFromTheirModel
<1>1. Init => IInv /\ OwnInv
  BY IInvInit, OwnInvInit
<1>2. IInv /\ OwnInv /\ [Next]_vars => IInv' /\ OwnInv'
  BY IInvStep, OwnInvStep
<1>3. IInv /\ OwnInv => AlertsComeFromTheirModel
  <2> SUFFICES ASSUME IInv, OwnInv, NEW d \in Dirs, NEW h, h = dir[d].handoff, Whole(h)
               PROVE  /\ h.synthetic <=> h.provenance.model_id = Synthetic
                      /\ h.synthetic <=> h.alerts.by = Synthetic
                      /\ dir[d].status = "completed" /\ dir[d].phases # {3} => Traced(h, dir[d].mode)
    BY DEF AlertsComeFromTheirModel, Traced
  <2>1. HandoffOK(h)
    BY DEF IInv, StagesInv, DirOK
  <2>2. dir[d].status = "completed" /\ dir[d].phases # {3} => Traced(h, dir[d].mode)
    BY DEF OwnInv, Finished
  <2>. QED
    BY <2>1, <2>2 DEF HandoffOK
<1>. QED
  BY <1>1, <1>2, <1>3, PTL DEF Spec

(* Phase 3 replays and reports on what phase 2 submitted and audited in    *)
(* this directory, under the same label, whatever was killed, resumed or   *)
(* changed by hand in between.  Code: phase3(), run_stage.py:266-295.      *)
THEOREM ReplaysTheAudited == Spec => []ReplayIsOfTheAudited
<1>1. Init => IInv
  BY IInvInit
<1>2. IInv /\ [Next]_vars => IInv'
  BY IInvStep
<1>3. IInv => ReplayIsOfTheAudited
  BY DEF IInv, StagesInv, DirOK, ReplayOK, ReplayIsOfTheAudited
<1>. QED
  BY <1>1, <1>2, <1>3, PTL DEF Spec

(* A manifest that says completed is right: its steps were, the files of   *)
(* its phases are whole, and its replay was made by one process alone.     *)
(* Code: main.py:196-276, 299-366; run_stage.py:216-295.                   *)
THEOREM CompletedRunsAreWhole == Spec => []CompletedMeansWhole
<1>1. Init => IInv
  BY IInvInit
<1>2. IInv /\ [Next]_vars => IInv'
  BY IInvStep
<1>3. IInv => CompletedMeansWhole
  <2> SUFFICES ASSUME IInv, NEW d \in Dirs
               PROVE  /\ dir[d].status = "completed" =>
                            /\ dir[d].step = "completed"
                            /\ Whole(dir[d].handoff)
                            /\ 2 \in dir[d].phases => Whole(dir[d].results2)
                            /\ 3 \in dir[d].phases => Whole(dir[d].results3)
                            /\ dir[d].phases # {1} =>
                                   Whole(dir[d].events) /\ Whole(dir[d].mapping) /\ Whole(dir[d].handoff2)
                      /\ Whole(dir[d].results3) => dir[d].results3.by = dir[d].phase3
    BY DEF CompletedMeansWhole
  <2>1. Whole(dir[d].results3) => dir[d].results3.by = dir[d].phase3
    BY DEF IInv, StagesInv, DirOK, ReplayOK
  <2>2. ASSUME dir[d].status = "completed"
        PROVE  /\ dir[d].step = "completed"
               /\ dir[d].phases \in SUBSET (1 .. 3) /\ dir[d].phases # {}
               /\ \A p \in dir[d].phases : Out(p, d)
    BY <2>2 DEF IInv, Completed
  <2>3. \A p \in dir[d].phases : Out(p, d) => /\ Whole(dir[d].handoff)
                                              /\ p = 2 => Whole(dir[d].results2)
                                              /\ p = 3 => Whole(dir[d].results3)
                                              /\ p # 1 => Whole(dir[d].events) /\ Whole(dir[d].mapping)
                                                          /\ Whole(dir[d].handoff2)
    BY DEF Out, Out2
  <2>4. dir[d].phases # {} /\ dir[d].phases # {1} => \E p \in dir[d].phases : p # 1
    OBVIOUS
  <2>. QED
    BY <2>1, <2>2, <2>3, <2>4
<1>. QED
  BY <1>1, <1>2, <1>3, PTL DEF Spec
=============================================================================
