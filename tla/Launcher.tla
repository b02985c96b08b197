------------------------------ MODULE Launcher ------------------------------
(***************************************************************************)
(* main.py and pipeline/run_stage.py: the launcher that runs a plan of     *)
(* child processes in a run directory and keeps its manifest, and the      *)
(* stages, with every file they save and check.  Files are written in      *)
(* place; the launcher can be interrupted (its child is terminated),       *)
(* killed (its child goes on without it) or die with the machine.          *)
(*                                                                         *)
(* One user: a launcher, or a training script alone, is started when no    *)
(* other launcher and no training script is at work; the stage of a killed *)
(* launcher may be.  The submit loop, the audit and the replay trials are  *)
(* one step each (Phase2Pipeline and Replay have their parts), which can   *)
(* fail.                                                                   *)
(***************************************************************************)
EXTENDS DetectorExport

CONSTANTS Commands,      \* command lines
          Alone,         \* scripts the user runs without a launcher
          MaxLaunches,   \* launches, each in a run directory of its own or a resumed one
          MaxEdits,      \* bound: what the user does between, by hand
          Edited, Synthetic

(* --mode, and the phases selected: the first is 1 without --only.         *)
ASSUME LauncherAssumption ==
    /\ MaxLaunches \in Nat \ {0} /\ MaxEdits \in Nat
    /\ Alone \subseteq Scripts
    /\ Commands \subseteq [mode : {"train", "existing", "smoke"}, first : 1 .. 3, last : 1 .. 3]
    /\ \A c \in Commands : c.first \in {1, c.last} /\ (c.mode = "train" => c.first = 1)

(* The alerts a stage may read or make up, and what it saves of them.      *)
Rows == AlertRows \cup {[by |-> Synthetic, version |-> Synthetic]}
Lines == [of : Rows]
Identities == ModelIds \cup {Synthetic}
Digests == [artifact : Bundles \cup {Torn, Synthetic}, identity : Identities]
Handoffs == [alerts : Rows, synthetic : BOOLEAN,
             provenance : [model_id : Identities, model_digest : Digests]]

(* No file, a torn one, one changed by hand and made-up alerts are told    *)
(* from what the processes write.                                          *)
ASSUME ValueAssumption ==
    /\ Synthetic \notin ModelIds /\ Edited \notin {None, Torn}
    /\ None \notin {"environment", "script", "stage", "completed"}
    /\ \A x \in {None, Torn} :
          /\ x \notin Rows /\ x \notin Lines /\ x \notin Handoffs
          /\ x \notin [synthetic : BOOLEAN]
          /\ x \notin [events : Lines, mapping : Lines, synthetic : BOOLEAN]
          /\ x \notin [input : Lines, synthetic : BOOLEAN, by : Nat]

VARIABLES
    launcher,   \* [dir, mode, phases, todo, number], or None
    child,      \* its child: "environment", "script" (DetectorExport's), "stage"; or None
    stage,      \* the stage of each launch, or Gone; a killed launcher's goes on without it
    dir,        \* the run directories
    launches,
    edits,      \* files, data sets and alerts the user has changed or made anew
    audited     \* history: the alerts whose records phase 2 has audited, by directory

runvars == <<launcher, child, stage, dir, launches, audited>>
lvars == <<runvars, edits>>
vars == <<dvars, lvars>>

Dirs == 1 .. MaxLaunches
Gone == [state |-> "gone"]
EmptyDir ==
    [alerts |-> None, handoff |-> None,
     phase2 |-> FALSE, events |-> None, mapping |-> None, handoff2 |-> None, results2 |-> None,
     phase3 |-> 0, results3 |-> None,             \* phase3: the launch that made it
     status |-> None, mode |-> None, phases |-> {}, step |-> None] \* manifest.json

Init ==
    /\ DetectorInit
    /\ launcher = None /\ child = None
    /\ stage = [n \in Dirs |-> Gone]
    /\ dir = [d \in Dirs |-> EmptyDir]
    /\ launches = 0 /\ edits = 0
    /\ audited = [d \in Dirs |-> None]

-----------------------------------------------------------------------------
(* The stages.  One has a directory, a mode, the steps it has left, the    *)
(* rows it has read and whether it has a file open.                        *)

Stage(d, m, phase) ==
    [dir |-> d, mode |-> m, todo |-> <<phase>>, rows |-> None, open |-> FALSE, state |-> "running"]

Working(n) == stage[n].state = "running"
Whole(x) == x \notin {None, Torn}
Smoke(n) == stage[n].mode = "smoke"
Dir(n) == dir[stage[n].dir]
At(n, step) == stage[n].todo # <<>> /\ Head(stage[n].todo) = step

(* The step is done; these come next.                                      *)
Then(n, steps, rows) ==
    stage' = [stage EXCEPT ![n].todo = steps \o Tail(@), ![n].rows = rows, ![n].open = FALSE]
Done(n) == Then(n, <<>>, stage[n].rows)

(* Mutation of SameVersion: the version is not compared.                   *)
AnyVersion == TRUE

(* "Alert model version does not match model card".                        *)
SameVersion == out["alerts"].version = out["card"].id

(* prepare(): smoke alerts are made up, the first lines of the others are  *)
(* read and checked; whose alerts they are, nothing tells but the version. *)
Prepare(n) ==
    /\ At(n, "phase1")
    /\ Whole(out["card"]) /\ Whole(out["schema"])
    /\ ~Smoke(n) => Whole(out["alerts"]) /\ out["bundle"] # None /\ SameVersion
    /\ Then(n, <<"alerts", "handoff">>,
            IF Smoke(n) THEN [by |-> Synthetic, version |-> Synthetic] ELSE out["alerts"])
    /\ UNCHANGED <<dir, audited>>

(* phase2(): a hand-off that is there must fit, one that is not is made.   *)
HandoffFits(n) ==
    LET h == Dir(n).handoff IN Whole(h) /\ h.synthetic = Smoke(n) /\ h.alerts = Dir(n).alerts

Phase2(n) ==
    /\ At(n, "phase2")
    /\ \/ /\ Dir(n).handoff = None
          /\ stage' = [stage EXCEPT ![n].todo = <<"phase1">> \o @]
       \/ /\ HandoffFits(n)
          /\ Then(n, <<"pipeline", "audit", "events", "mapping", "handoff2", "results2">>,
                  Dir(n).alerts)
    /\ UNCHANGED <<dir, audited>>

MakePipeline(n) ==
    /\ At(n, "pipeline")
    /\ ~Dir(n).phase2
    /\ dir' = [dir EXCEPT ![stage[n].dir].phase2 = TRUE]
    /\ Done(n) /\ UNCHANGED audited

SubmitAndAudit(n) ==
    /\ At(n, "audit")
    /\ audited' = [audited EXCEPT ![stage[n].dir] = stage[n].rows]
    /\ Done(n) /\ UNCHANGED dir

(* Mutation of EventsFit: the digests are not compared.                    *)
EventsThere(n) ==
    LET h == Dir(n).handoff2 IN Whole(h) /\ h.synthetic = Smoke(n) /\ Whole(Dir(n).events)

EventsFit(n) ==
    LET h == Dir(n).handoff2
    IN  /\ Whole(h) /\ h.synthetic = Smoke(n)
        /\ h.events = Dir(n).events /\ h.mapping = Dir(n).mapping

Phase3(n) ==
    /\ At(n, "phase3")
    /\ EventsFit(n)
    /\ Then(n, <<"mkdir", "trials", "results3">>, Dir(n).events)
    /\ UNCHANGED <<dir, audited>>

(* Mutation of NoDirectoryYet: exist_ok=True.                              *)
AnyDirectory(n) == TRUE

NoDirectoryYet(n) == Dir(n).phase3 = 0
MakePhase3(n) ==
    /\ At(n, "mkdir")
    /\ NoDirectoryYet(n)
    /\ dir' = [dir EXCEPT ![stage[n].dir].phase3 = n]
    /\ Done(n) /\ UNCHANGED audited

Trials(n) == At(n, "trials") /\ Done(n) /\ UNCHANGED <<dir, audited>>

(* The provenance: the card is read again, but for the hash of the         *)
(* artifact file, which is the bundle whatever is in it.                   *)
model_identity == out["card"].id

compute_model_digest(artifact, identity) == [artifact |-> artifact, identity |-> identity]

build_provenance_record(artifact, identity) ==
    [model_id |-> identity, model_digest |-> compute_model_digest(artifact, identity)]

build_provenance_from_phase1 == build_provenance_record(out["bundle"], model_identity)

(* There is no provenance without a card and an artifact.                  *)
HasModel(n) == ~Smoke(n) => Whole(out["card"]) /\ out["bundle"] # None

(* save() and save_lines().  A hand-off has the digests of what is on      *)
(* disk, and the card that is there as it is made.                         *)
Saved(n, f) ==
    CASE f = "alerts" -> stage[n].rows
      [] f = "handoff" -> [alerts |-> Dir(n).alerts, synthetic |-> Smoke(n),
                           provenance |-> IF Smoke(n) THEN build_provenance_record(Synthetic, Synthetic)
                                          ELSE build_provenance_from_phase1]
      [] f \in {"events", "mapping"} -> [of |-> stage[n].rows]
      [] f = "handoff2" -> [events |-> Dir(n).events, mapping |-> Dir(n).mapping,
                            synthetic |-> Dir(n).handoff.synthetic]
      [] f = "results2" -> [synthetic |-> Dir(n).handoff.synthetic]
      [] f = "results3" -> [input |-> stage[n].rows, synthetic |-> Smoke(n), by |-> n]

Saves == {"alerts", "handoff", "events", "mapping", "handoff2", "results2", "results3"}
Save(n) ==
    \E f \in Saves :
        /\ At(n, f)
        /\ f = "handoff" => HasModel(n)
        /\ dir' = [dir EXCEPT ![stage[n].dir][f] = IF stage[n].open THEN Saved(n, f) ELSE Torn]
        /\ IF stage[n].open THEN Done(n) ELSE stage' = [stage EXCEPT ![n].open = TRUE]
        /\ UNCHANGED audited

(* It ends; or a check refuses, a save or submit raises, an audit fails.   *)
(* Nobody waits for the stage of a launcher that was killed.               *)
StageEnds(n) ==
    /\ stage' = [stage EXCEPT ![n] =
           IF child = "stage" /\ launcher.number = n
           THEN [state |-> IF @.todo = <<>> THEN "ok" ELSE "failed"] ELSE Gone]
    /\ UNCHANGED <<dir, audited>>

StageStep(n) ==
    /\ Working(n)
    /\ \/ Prepare(n) \/ Phase2(n) \/ MakePipeline(n) \/ SubmitAndAudit(n)
       \/ Phase3(n) \/ MakePhase3(n) \/ Trials(n) \/ Save(n) \/ StageEnds(n)
    /\ UNCHANGED <<dvars, launcher, child, launches, edits>>

-----------------------------------------------------------------------------
(* The launcher.  A plan is a sequence of numbers: 0 looks up the          *)
(* environment, 1 to 10 are the training scripts, 11 to 13 the phases.     *)

Plan(c) ==
    <<0>> \o (IF c.mode = "train" THEN [n \in Scripts |-> n] ELSE <<>>)
          \o [i \in 1 .. c.last - c.first + 1 |-> 9 + c.first + i]

Resumes(c) == c.first = 3
Preflight(c, d) ==
    /\ c.mode = "existing" /\ ~Resumes(c) => \A f \in {"alerts", "bundle", "card"} : out[f] # None
    /\ Resumes(c) =>
          /\ \A f \in {"events", "handoff2", "mapping", "results2"} : dir[d][f] # None
          /\ dir[d].phase3 = 0

Launch(c) ==
    /\ launcher = None /\ launches < MaxLaunches /\ ~Running
    /\ launches' = launches + 1
    /\ \E d \in Dirs :
          /\ IF Resumes(c) THEN d <= launches ELSE d = launches'
          /\ Preflight(c, d)
          /\ launcher' = [dir |-> d, mode |-> c.mode, phases |-> c.first .. c.last,
                          todo |-> Plan(c), number |-> launches']
    /\ UNCHANGED <<dvars, child, stage, dir, edits, audited>>

(* execute(): the step is in the manifest before its child is started.     *)
StartChild ==
    /\ launcher # None /\ child = None /\ launcher.todo # <<>>
    /\ LET k == Head(launcher.todo)
       IN  \/ k = 0 /\ child' = "environment" /\ UNCHANGED <<dvars, stage>>
           \/ k \in Scripts /\ child' = "script" /\ RunScript(k, TRUE) /\ UNCHANGED stage
           \/ /\ k > 10 /\ child' = "stage"
              /\ stage' = [stage EXCEPT ![launcher.number] =
                     Stage(launcher.dir, launcher.mode, <<"phase1", "phase2", "phase3">>[k - 10])]
              /\ UNCHANGED dvars
    /\ dir' = [dir EXCEPT ![launcher.dir].step = "running",
                          ![launcher.dir].status = "running",
                          ![launcher.dir].mode = launcher.mode,
                          ![launcher.dir].phases = launcher.phases]
    /\ UNCHANGED <<launcher, launches, edits, audited>>

(* What proc.wait() may return.                                            *)
Returns(result) ==
    \/ child = "environment"
    \/ child = "script" /\ script.state = result
    \/ child = "stage" /\ stage[launcher.number].state = result

Record(step, status) ==
    dir' = [dir EXCEPT ![launcher.dir].step = step, ![launcher.dir].status = status]

GoesOn ==
    /\ child' = None /\ stage' = [stage EXCEPT ![launcher.number] = Gone]
    /\ launcher' = [launcher EXCEPT !.todo = Tail(@)]
    /\ UNCHANGED <<dvars, launches, edits, audited>>

ChildCompleted ==
    /\ child # None /\ Returns("ok")
    /\ Record("completed", "running")
    /\ GoesOn

ChildFailed ==
    /\ child # None /\ Returns("failed")
    /\ Record("failed", "failed")
    /\ child' = None /\ stage' = [stage EXCEPT ![launcher.number] = Gone]
    /\ launcher' = None
    /\ UNCHANGED <<dvars, launches, edits, audited>>

LaunchCompletes ==
    /\ launcher # None /\ child = None /\ launcher.todo = <<>>
    /\ dir' = [dir EXCEPT ![launcher.dir].status = "completed"]
    /\ launcher' = None
    /\ UNCHANGED <<dvars, child, stage, launches, edits, audited>>

(* Every process that runs for launches ns is gone.                        *)
Stop(ns) == stage' = [n \in Dirs |-> IF n \in ns THEN Gone ELSE stage[n]]
StopScript == IF Running THEN ScriptFails ELSE UNCHANGED dvars

(* Ctrl-C: the child is terminated, step and run have failed.              *)
Interrupted ==
    /\ launcher # None
    /\ IF child # None THEN Record("failed", "failed")
       ELSE dir' = [dir EXCEPT ![launcher.dir].status = "failed",
                              ![launcher.dir].mode = launcher.mode,
                              ![launcher.dir].phases = launcher.phases]
    /\ Stop({launcher.number}) /\ StopScript
    /\ child' = None /\ launcher' = None
    /\ UNCHANGED <<launches, edits, audited>>

(* The launcher is killed: its child goes on, and the manifest stays.      *)
Killed ==
    /\ launcher # None
    /\ child' = None /\ launcher' = None
    /\ UNCHANGED <<dvars, stage, dir, launches, edits, audited>>

MachineStops ==
    /\ Stop(Dirs) /\ StopScript
    /\ child' = None /\ launcher' = None
    /\ UNCHANGED <<dir, launches, edits, audited>>

-----------------------------------------------------------------------------
(* The user: a script run alone ("Export the alert stream with             *)
(* Phase_1/10_alert_contract.py"), a new data set, a file changed by hand. *)

ByHand == edits < MaxEdits /\ edits' = edits + 1

RunAlone ==
    /\ ByHand
    /\ launcher = None
    /\ \E n \in Alone : RunScript(n, FALSE)
    /\ UNCHANGED runvars

NewData ==
    /\ ByHand
    /\ launcher = None /\ ~Running
    /\ ReplaceData
    /\ UNCHANGED runvars

Edit ==
    /\ ByHand
    /\ child = None /\ ~Running /\ \A n \in Dirs : ~Working(n)
    /\ \E d \in Dirs, f \in {"alerts", "events", "mapping"} :
          Whole(dir[d][f]) /\ dir' = [dir EXCEPT ![d][f] = Edited]
    /\ UNCHANGED <<dvars, launcher, child, stage, launches, audited>>

ScriptWorks == ScriptStep /\ UNCHANGED lvars

Next ==
    \/ \E c \in Commands : Launch(c)
    \/ StartChild \/ ChildCompleted \/ ChildFailed \/ LaunchCompletes
    \/ Interrupted \/ Killed \/ MachineStops
    \/ ScriptWorks \/ \E n \in Dirs : StageStep(n)
    \/ RunAlone \/ NewData \/ Edit

Spec == Init /\ [][Next]_vars

-----------------------------------------------------------------------------
(* Properties.                                                             *)

(* Smoke alerts are never anchored as a detector's, nor a detector's as    *)
(* smoke alerts.  A completed run anchors the provenance its alerts name,  *)
(* although a killed launcher's stage may be at work while cards and       *)
(* alerts change; when it trained the detector, that is the one that       *)
(* raised them, and the artifact is its bundle.  Code: the version check   *)
(* and the provenance of prepare(), run_stage.py:153-213, and the plan,    *)
(* main.py:151-168.                                                        *)
AlertsComeFromTheirModel ==
    \A d \in Dirs :
        LET h == dir[d].handoff
        IN  Whole(h) =>
               /\ h.synthetic <=> h.provenance.model_id = Synthetic
               /\ h.synthetic <=> h.alerts.by = Synthetic
               /\ dir[d].status = "completed" /\ dir[d].phases # {3} =>
                      /\ h.provenance.model_id = h.alerts.version
                      /\ dir[d].mode = "train" =>
                            /\ h.alerts.by = h.alerts.version
                            /\ h.provenance.model_digest.artifact \in Bundles
                            /\ h.provenance.model_digest.artifact.id = h.alerts.by

(* What phase 3 replayed and reports on is what phase 2 submitted and      *)
(* audited in this directory, under the same label, whatever was killed,   *)
(* resumed or changed by hand between the two (run_stage.py:266-295).      *)
ReplayIsOfTheAudited ==
    \A d \in Dirs : LET r == dir[d].results3
                    IN  Whole(r) =>
                           /\ r.input = [of |-> audited[d]]
                           /\ r.synthetic <=> audited[d].by = Synthetic

(* A manifest that says completed (exit code 0) is right: every step of    *)
(* that launch was, the files of its phases are whole, and the replay was  *)
(* made by one process alone, that of the launch which made its directory, *)
(* although a killed launcher's stage may still be at work.                *)
CompletedMeansWhole ==
    \A d \in Dirs :
        /\ dir[d].status = "completed" =>
              /\ dir[d].step = "completed"
              /\ Whole(dir[d].handoff)
              /\ 2 \in dir[d].phases => Whole(dir[d].results2)
              /\ 3 \in dir[d].phases => Whole(dir[d].results3)
              /\ dir[d].phases # {1} =>
                     Whole(dir[d].events) /\ Whole(dir[d].mapping) /\ Whole(dir[d].handoff2)
        /\ Whole(dir[d].results3) => dir[d].results3.by = dir[d].phase3

-----------------------------------------------------------------------------
(* Statements of the repository that the stages do not keep.               *)

(* "Read entirely from Phase 1's model card, so the anchored record        *)
(* describes the detector that actually produced these alerts"             *)
(* (run_stage.py:191-192): the artifact whose hash enters the anchored     *)
(* model digest is the bundle of that detector, and the anchored identity  *)
(* is its own.                                                             *)
AnchoredDescribesTheDetector ==
    \A d \in Dirs :
        LET h == dir[d].handoff
        IN  Whole(h) /\ ~h.synthetic =>
               LET artifact == h.provenance.model_digest.artifact
               IN  /\ Whole(artifact) /\ artifact.id = h.alerts.by
                   /\ h.provenance.model_id = h.alerts.by
=============================================================================
