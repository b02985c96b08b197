----------------------------- MODULE MCDataPaths -----------------------------
(* Instance of DataPaths for TLC.                                          *)
EXTENDS DataPaths

CONSTANTS d1, d2, d3

(* Attacks with the numbers -1, 0 and 3, without one and with one beyond   *)
(* the cutoff, and a benign flow.                                          *)
MCRawRows ==
    [benign : {FALSE}, cell : {-2, 0, 6, Missing, Outlier}] \cup [benign : {TRUE}, cell : {0}]

MCNarrowMin == -1

(* Two programs: both boosters of the vote, one of them and another model. *)
MCRun == {<<"lightgbm", "xgboost">>, <<"cascade", "lightgbm">>}
MCLabels == <<"Benign", "DoS", "Bot">>
MCClasses == <<"Benign", "Bot", "DoS">>

(* A clear flow, two in which another class is ahead, and a tie.           *)
MCVectors == {<<6, 3, 1>>, <<2, 3, 5>>, <<4, 1, 5>>, <<4, 4, 2>>}
MCGrid == <<1, 2, 4>>

(* Flat steps, as isotonic regression makes them; of the raw scores 4 is   *)
(* rounded, of the steps 4, 8 and 14.                                      *)
MCRawScores == {0, 4, 6, 9, 15}
MCIsotonic08 == [raw \in 0 .. 15 |-> IF raw < 3 THEN 0 ELSE IF raw < 9 THEN 4 ELSE IF raw < 12 THEN 8 ELSE 14]
MCTargets == <<100, 67, 50>>

MCValues == {0, 3, 4, NaN}
MCStats == {[median |-> 5, p95 |-> 5], [median |-> 0, p05 |-> 10, p95 |-> 7]}
=============================================================================
