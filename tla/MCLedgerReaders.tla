-------------------------- MODULE MCLedgerReaders --------------------------
(* Instance of LedgerReaders for TLC.                                      *)
EXTENDS LedgerReaders, TLC

CONSTANTS e1, e2, a1, a2, a3, l1, l2, c1, c2, aud, p1, p2, x, dA, v1

(* The first event is attempted again while the first attempt goes on.     *)
MCEventOf == a1 :> e1 @@ a2 :> e1 @@ a3 :> e2
=============================================================================
