---------------------------- MODULE AppendOnlyLog ----------------------------
(***************************************************************************)
(* What a LedgerClient (ledger/base.py) promises of security events: they  *)
(* are appended, each once, and a receipt is a promise for good.  A call   *)
(* that raises may have appended its event or not; a restart may forget    *)
(* the newest events, but none with a receipt; and the medium may be       *)
(* destroyed, after which nothing is promised.                             *)
(***************************************************************************)
EXTENDS Naturals, Sequences

CONSTANT EventIds

VARIABLES log,        \* the events, in the order in which they were appended
          receipts,   \* events whose append was acknowledged
          lost        \* has the medium been destroyed?

lvars == <<log, receipts, lost>>

OnLog(e) == \E i \in DOMAIN log : log[i] = e

Init == log = <<>> /\ receipts = {} /\ lost = FALSE

(* The caller gets a receipt.                                              *)
Acknowledge(e) ==
    /\ ~OnLog(e)
    /\ log' = Append(log, e)
    /\ receipts' = receipts \cup {e}
    /\ UNCHANGED lost

(* The event is appended and its caller never learns of it.                *)
AppendUnseen(e) ==
    /\ ~OnLog(e)
    /\ log' = Append(log, e)
    /\ UNCHANGED <<receipts, lost>>

(* What was not yet on the medium is forgotten.                            *)
Forget(n) ==
    /\ log' = SubSeq(log, 1, n)
    /\ \A e \in receipts : OnLog(e)'
    /\ UNCHANGED <<receipts, lost>>

Destroy ==
    /\ lost' = TRUE
    /\ log' = <<>>
    /\ UNCHANGED receipts

Next ==
    \/ \E e \in EventIds : Acknowledge(e) \/ AppendUnseen(e)
    \/ \E n \in 0 .. Len(log) : Forget(n)
    \/ Destroy

Spec == Init /\ [][Next]_lvars
=============================================================================
