--------------------------- MODULE ClassThresholds ---------------------------
(***************************************************************************)
(* The decision thresholds of the classes: 06_tune.py searches them on the *)
(* validation fold, 09_export_model.py exports them, 10_alert_contract.py  *)
(* decides with them.  The model has its classes in an order of its own;   *)
(* columns are put in the canonical order before a threshold is applied.   *)
(*                                                                         *)
(* Probabilities and thresholds are numbers of small units.                *)
(***************************************************************************)
EXTENDS Naturals, Sequences, FiniteSets

CONSTANTS LABELS,       \* the classes in canonical order
          ModelClasses, \* model.classes_
          Vectors,      \* rows of predict_proba, in the model's order
          MaxFlows,     \* rows of the validation fold
          Grid, One,    \* candidates for a threshold, and 1.0
          Rounds,
          ScoreUnit,    \* a score of 1.0: every score of MaxFlows rows is a number of units
          Tolerance     \* in units, what a score must win to be taken: 1e-6

ASSUME ThresholdAssumption ==
    /\ Len(LABELS) \in Nat \ {0} /\ DOMAIN LABELS = 1 .. Len(LABELS)
    /\ \A i, j \in DOMAIN LABELS : LABELS[i] = LABELS[j] => i = j
    /\ {ModelClasses[i] : i \in DOMAIN ModelClasses} = {LABELS[i] : i \in DOMAIN LABELS}
    /\ \A proba \in Vectors : proba \in [DOMAIN ModelClasses -> Nat]
    /\ Grid \in Seq(Nat \ {0}) /\ \E k \in DOMAIN Grid : Grid[k] = One
    /\ MaxFlows \in Nat /\ Rounds \in Nat /\ ScoreUnit \in Nat
    /\ Tolerance \in Nat
    /\ \A n \in 1 .. 2 * MaxFlows : ScoreUnit % n = 0

VARIABLES
    flows,      \* [label, proba]
    tau,        \* by position in LABELS
    best, original, improved,
    class, candidate, round,  \* indexes of the loops
    search      \* "on", "over"

tvars == <<flows, tau, best, original, improved, class, candidate, round, search>>

Positions1 == DOMAIN LABELS
Ones == [j \in Positions1 |-> One]

(* Mutation of Ordered: columns as the model has them.                     *)
AsTheyAre(proba) == proba

(* order = [list(model.classes_).index(l) for l in LABELS]                 *)
Ordered(proba) ==
    [j \in Positions1 |-> proba[CHOOSE i \in DOMAIN ModelClasses : ModelClasses[i] = LABELS[j]]]

(* argmax of proba / tau: the first of the largest.                        *)
apply_thresholds(columns, t) ==
    LABELS[CHOOSE j \in Positions1 :
              \A i \in Positions1 : /\ columns[j] * t[i] >= columns[i] * t[j]
                                    /\ i < j => columns[j] * t[i] > columns[i] * t[j]]

Predicted(f, t) == apply_thresholds(Ordered(f.proba), t)

(* f1_score, macro over LABELS, in units.                                   *)
F1(fold, label, t) ==
    LET true == {i \in DOMAIN fold : fold[i].label = label}
        given == {i \in DOMAIN fold : Predicted(fold[i], t) = label}
        tp == Cardinality(true \cap given)
        all == Cardinality(true) + Cardinality(given)
    IN  IF all = 0 THEN 0 ELSE (ScoreUnit * 2 * tp) \div all

F1Macro(fold, t) ==
    LET sum[j \in 0 .. Len(LABELS)] == IF j = 0 THEN 0 ELSE sum[j - 1] + F1(fold, LABELS[j], t)
    IN  sum[Len(LABELS)]

MacroF1(t) == F1Macro(flows, t)

ThresholdInit ==
    /\ flows \in [1..MaxFlows -> [label : {LABELS[i] : i \in Positions1}, proba : Vectors]]
    /\ tau = Ones /\ best = MacroF1(Ones) /\ original = One /\ improved = FALSE
    /\ class = 1 /\ candidate = 1 /\ round = 1 /\ search = "on"

TryCandidate ==
    /\ search = "on" /\ candidate <= Len(Grid)
    /\ tau' = [tau EXCEPT ![class] = Grid[candidate]]
    /\ IF MacroF1(tau') > best + Tolerance
       THEN best' = MacroF1(tau') /\ original' = Grid[candidate] /\ improved' = TRUE
       ELSE UNCHANGED <<best, original, improved>>
    /\ candidate' = candidate + 1
    /\ UNCHANGED <<flows, class, round, search>>

(* tau[j] = original                                                       *)
BestOfClass == [tau EXCEPT ![class] = original]

(* The next class, the next round, or the end of the search.               *)
NextClass ==
    LET last == class = Len(LABELS)
        over == last /\ (~improved \/ round = Rounds)
    IN  /\ search = "on" /\ candidate > Len(Grid)
        /\ tau' = BestOfClass
        /\ class' = IF last THEN 1 ELSE class + 1
        /\ original' = BestOfClass[class']
        /\ candidate' = 1
        /\ round' = IF last /\ ~over THEN round + 1 ELSE round
        /\ improved' = IF last /\ ~over THEN FALSE ELSE improved
        /\ search' = IF over THEN "over" ELSE "on"
        /\ UNCHANGED <<flows, best>>

ThresholdStep == TryCandidate \/ NextClass

-----------------------------------------------------------------------------
(* Properties.                                                             *)

(* "the search can only improve on the argmax baseline" (06_tune.py:119):  *)
(* the thresholds that are exported have the score the search reports,     *)
(* which is at least that of argmax, and when the search stopped early     *)
(* no candidate for a single class is better by more than the tolerance.   *)
(* And whatever order the model has its classes in, a flow is given the    *)
(* class whose own probability is largest in units of its own threshold.   *)
(* Code: 06_tune.py:114-150 and 355-360, 09_export_model.py:130-160,       *)
(* 10_alert_contract.py:243-245.                                           *)
ThresholdsOnlyImprove ==
    LET own(f, label) == f.proba[CHOOSE i \in DOMAIN ModelClasses : ModelClasses[i] = label]
        at(label) == tau[CHOOSE j \in Positions1 : LABELS[j] = label]
    IN  search = "over" =>
           /\ MacroF1(tau) = best /\ best >= MacroF1(Ones)
           /\ ~improved => \A j \in Positions1, k \in DOMAIN Grid :
                              MacroF1([tau EXCEPT ![j] = Grid[k]]) <= best + Tolerance
           /\ \A i \in DOMAIN flows :
                 LET label == Predicted(flows[i], tau)
                 IN  \A other \in {LABELS[j] : j \in Positions1} :
                        own(flows[i], label) * at(other) >= own(flows[i], other) * at(label)
=============================================================================
