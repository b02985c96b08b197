----------------------------- MODULE Comparison -----------------------------
(***************************************************************************)
(* 05_compare_models.py: every model is fitted, scored on the test fold    *)
(* and saved in two files, its scores (_test.npz) and its row of the table *)
(* (.json).  A run that ends early is started again and passes over what   *)
(* is done.  At the end saved scores are averaged into an ensemble.        *)
(* 05_compare_models_test2.py is the same program with other models, on    *)
(* the same files.                                                         *)
(*                                                                         *)
(* The content of a model's files is the run that fitted it; the ensemble's*)
(* is a function from its members to what was averaged.  The splits stay   *)
(* the same (DetectorExport replaces them).                                *)
(***************************************************************************)
EXTENDS Naturals, Sequences, FiniteSets

CONSTANTS RUN,              \* the models of each program, in order
          VOTING_MEMBERS,
          labels,           \* the classes, in the order of the configuration
          Alphabetical,     \* the same in the order of their names
          OnNumbers,        \* models that know a class by its index in labels
          MaxRuns,
          NotThere, Damaged,\* no file; one that somebody started to write
          Failure           \* {"error": ...}

ASSUME ComparisonAssumption ==
    /\ MaxRuns \in Nat
    /\ \A models \in RUN :
          Len(models) \in Nat /\ models = [i \in 1 .. Len(models) |-> models[i]]
    /\ \A m \in VOTING_MEMBERS : \E models \in RUN : \E i \in DOMAIN models : models[i] = m
    /\ {Alphabetical[j] : j \in DOMAIN labels} = {labels[j] : j \in DOMAIN labels}
    /\ \A x \in {NotThere, Damaged, Failure} : x \notin 1 .. MaxRuns

VARIABLES
    run,      \* number of the run
    left,     \* models still to do, then "voting", then nothing
    doing,    \* "none" when no run is under way, "look", "scores", "row", "ended", "failed"
    open,     \* is the file open that is written?
    fitted,   \* what is saved
    scores, rows,  \* the files
    results   \* the run's table

cmvars == <<run, left, doing, open, fitted, scores, rows, results>>

Names == {"voting"} \cup UNION {{models[i] : i \in DOMAIN models} : models \in RUN}
Fits == 1 .. MaxRuns
Saved(x) == x \notin {NotThere, Damaged}

CompareInit ==
    /\ run = 0 /\ left = <<>> /\ doing = "none" /\ open = FALSE /\ fitted = NotThere
    /\ scores = [n \in Names |-> NotThere] /\ rows = [n \in Names |-> NotThere]
    /\ results = [n \in Names |-> NotThere]

StartRun ==
    /\ doing \in {"none", "ended", "failed"} /\ run < MaxRuns
    /\ run' = run + 1
    /\ \E models \in RUN : left' = models \o <<"voting">>
    /\ doing' = "look"
    /\ results' = [n \in Names |-> NotThere]
    /\ UNCHANGED <<open, fitted, scores, rows>>

Now == Head(left)
Next1 == left' = Tail(left) /\ doing' = IF Len(left) = 1 THEN "ended" ELSE "look"
Result(r) == results' = [results EXCEPT ![Now] = r]

(* "done already, skipping"; a row that cannot be parsed ends the run.      *)
Skip ==
    /\ doing = "look" /\ rows[Now] # NotThere
    /\ IF Saved(rows[Now]) THEN Result(rows[Now]) /\ Next1
       ELSE doing' = "failed" /\ UNCHANGED <<left, results>>
    /\ UNCHANGED <<run, open, fitted, scores, rows>>

Fit ==
    /\ doing = "look" /\ rows[Now] = NotThere /\ Now # "voting"
    /\ doing' = "scores" /\ fitted' = run
    /\ UNCHANGED <<run, left, open, scores, rows, results>>

(* available *)
Available == {m \in VOTING_MEMBERS : scores[m] # NotThere}

(* The columns of predict_proba: a classifier trained on names sorts them, *)
(* one trained on numbers keeps theirs, and the cascade composes its own.  *)
ColumnsOf(m) == IF m \in OnNumbers THEN labels ELSE Alphabetical

(* Columns are saved as predict_proba returns them, under the names of     *)
(* labels, and put in the order of labels when they are averaged.          *)
SavedClasses(m) == labels
Reordered(m) ==
    [j \in DOMAIN labels |->
        ColumnsOf(m)[CHOOSE i \in DOMAIN labels : SavedClasses(m)[i] = labels[j]]]
Average(members) == [m \in members |-> [fit |-> scores[m], proba |-> Reordered(m)]]

(* Mutation of HasMinutes: a member without a row is taken as well.        *)
AnyMember(m) == TRUE

(* results[m]["fit_minutes"], which the row of a failed model has not.     *)
HasMinutes(m) == results[m] \in Fits

Vote ==
    /\ doing = "look" /\ rows[Now] = NotThere /\ Now = "voting"
    /\ Cardinality(Available) >= 2
    /\ \A m \in Available : scores[m] # Damaged /\ HasMinutes(m)
    /\ doing' = "scores" /\ fitted' = Average(Available)
    /\ UNCHANGED <<run, left, open, scores, rows, results>>

VoteSkipped ==
    /\ doing = "look" /\ rows[Now] = NotThere /\ Now = "voting"
    /\ Cardinality(Available) < 2
    /\ Next1
    /\ UNCHANGED <<run, open, fitted, scores, rows, results>>

(* np.savez_compressed, then write_text.                                   *)
SaveScores ==
    /\ doing = "scores"
    /\ scores' = [scores EXCEPT ![Now] = IF open THEN fitted ELSE Damaged]
    /\ open' = ~open
    /\ doing' = IF open THEN "row" ELSE "scores"
    /\ UNCHANGED <<run, left, fitted, rows, results>>

SaveRow ==
    /\ doing = "row"
    /\ rows' = [rows EXCEPT ![Now] = IF open THEN fitted ELSE Damaged]
    /\ open' = ~open
    /\ IF open THEN Result(fitted) /\ Next1 ELSE UNCHANGED <<left, doing, results>>
    /\ UNCHANGED <<run, fitted, scores>>

(* Anything that raises between the look-up and the row is caught: a model *)
(* that is not installed, a member without a row, a full disk.             *)
Raises ==
    /\ \/ doing \in {"scores", "row"}
       \/ doing = "look" /\ rows[Now] = NotThere /\ (Now = "voting" => Cardinality(Available) >= 2)
    /\ Result(Failure) /\ Next1
    /\ open' = FALSE
    /\ UNCHANGED <<run, fitted, scores, rows>>

Killed05 ==
    /\ doing \in {"look", "scores", "row"}
    /\ doing' = "failed" /\ open' = FALSE
    /\ UNCHANGED <<run, left, fitted, scores, rows, results>>

CompareStep ==
    \/ StartRun \/ Skip \/ Fit \/ Vote \/ VoteSkipped \/ SaveScores \/ SaveRow
    \/ Raises \/ Killed05

CompareSpec == CompareInit /\ [][CompareStep]_cmvars

-----------------------------------------------------------------------------
(* Properties.                                                             *)

(* The comparison is of one fit of each model, however often it was killed *)
(* and started again and whatever failed in between: the scores 07 reports *)
(* on are those of the row in the table, and the ensemble is the average of *)
(* at least two models that have a row, each as its row describes it,      *)
(* although scores are saved before rows and outlive a fit whose row was   *)
(* never written (05_compare_models.py:370-501, 07_metrics_report.py:52-63). *)
ComparisonIsOfOneFit ==
    /\ \A n \in Names : Saved(rows[n]) => scores[n] = rows[n]
    /\ Saved(rows["voting"]) =>
          /\ Cardinality(DOMAIN rows["voting"]) >= 2
          /\ \A m \in DOMAIN rows["voting"] : rows[m] = rows["voting"][m].fit

(* "Reorder to the canonical label order before averaging - silently       *)
(* summing mismatched columns would be a real bug."                        *)
(* (05_compare_models.py:466-467): what is averaged for a class is every   *)
(* member's probability of that class.                                     *)
VotingAveragesByClass ==
    Saved(rows["voting"]) =>
        \A m \in DOMAIN rows["voting"] : rows["voting"][m].proba = labels
=============================================================================
