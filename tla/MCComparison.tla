---------------------------- MODULE MCComparison ----------------------------
(* Instance of Comparison for TLC: a program with both boosters of the vote*)
(* and one with another model.  LightGBM has its classes in alphabetical   *)
(* order, XGBoost is trained on numbers in the order of the labels.        *)
EXTENDS Comparison

MCRun == {<<"lightgbm", "xgboost">>, <<"cascade", "lightgbm">>}
MCLabels == <<"Benign", "DDoS", "Bot">>
MCAlphabetical == <<"Benign", "Bot", "DDoS">>
=============================================================================
