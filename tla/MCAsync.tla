------------------------------ MODULE MCAsync ------------------------------
(* Instances of AsyncSubmission for TLC.                                   *)
EXTENDS AsyncSubmission, TLC

CONSTANTS e1, e2, e3, w1, w2, w3

TwoEvents == {e1, e2}
ThreeEvents == {e1, e2, e3}
OneWorker == {w1}
TwoWorkers == {w1, w2}
ThreeWorkers == {w1, w2, w3}
=============================================================================
