------------------------------ MODULE MCReplay ------------------------------
(* Instance of Replay for TLC.                                             *)
EXTENDS Replay, TLC

CONSTANTS b1, b2, i1, o1, w1
=============================================================================
