----------------------------- MODULE AuditTrail -----------------------------
(***************************************************************************)
(* audit.py and scripts/audit_cli.py: a report takes the history once and  *)
(* then audits its events one by one, while attempts go on and files are   *)
(* changed.  One agent signs everything and its key is the auditor's, so   *)
(* signatures are right; the verdict does not look at the provenance.      *)
(***************************************************************************)
EXTENDS EvidenceStore

Verdicts == {"VERIFIED", "TAMPERED", "INCOMPLETE"}
ASSUME AuditAssumption == None \notin Verdicts

VARIABLES
    history,    \* the events a report is about; None before it starts
    findings,   \* event -> verdict
    before      \* history: events whose file was a changed one at the start

avars == <<history, findings, before>>

AuditInit == history = None /\ findings = [e \in Events |-> None] /\ before = {}

(* verify_event_digest: the payload says of itself what digest it has.     *)
PayloadOk(e) == Evidence(e) \in {"whole", "forged"}

LedgerMatches(e) == Evidence(e) \in {"whole", "edited"}

Verdict(e) ==
    CASE e \notin log \/ Evidence(e) \in {None, "torn"} -> "INCOMPLETE"
      [] e \in log /\ PayloadOk(e) /\ LedgerMatches(e) -> "VERIFIED"
      [] OTHER -> "TAMPERED"

StartReport ==
    /\ history = None
    /\ history' = log
    /\ before' = {e \in Events : /\ Evidence(e) \in {"edited", "forged"}
                                 /\ \A a \in Attempts : EventOf[a] = e =>
                                        attempt[a].at \notin {"open", "write", "replace"}}
    /\ UNCHANGED <<svars, findings>>

AuditEvent ==
    /\ history # None
    /\ \E e \in history :
          /\ findings[e] = None
          /\ findings' = [findings EXCEPT ![e] = Verdict(e)]
    /\ UNCHANGED <<svars, history, before>>

(* A report is just, also one made while events are being submitted: what  *)
(* it calls VERIFIED had not been changed when it began, TAMPERED has been *)
(* changed by somebody, and INCOMPLETE is not an event on its way into the *)
(* ledger but one whose evidence a power failure emptied or two attempts share. *)
(* Code: audit_event, audit.py:50-103, with put before log in commit_fn.   *)
ReportIsJust ==
    \A e \in Events :
        /\ findings[e] = "VERIFIED" => e \notin before
        /\ findings[e] = "TAMPERED" => e \in altered
        /\ findings[e] = "INCOMPLETE" => e \in shared \cup emptied
=============================================================================
