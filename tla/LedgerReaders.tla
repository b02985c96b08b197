--------------------------- MODULE LedgerReaders ---------------------------
(***************************************************************************)
(* The readers of the ledger beside those who write to it: an audit over   *)
(* ledger and evidence, the cache of the ledger, or clients of a Fabric    *)
(* channel, who read from its peers.  They share the mock's ledger or      *)
(* nothing, so a behaviour has one of them.                                *)
(***************************************************************************)
EXTENDS AuditTrail, LocalCache, SecurityLog

VARIABLE reader
vars == <<svars, avars, cvars, chvars, reader>>

(* What the cache reads is the ledger only: with it, the attempts begin    *)
(* with their payloads stored and the events to be logged.                 *)
Stored ==
    /\ attempt = [a \in Attempts |-> [NotStarted EXCEPT !.at = "log"]]
    /\ path = [e \in Events |-> CHOOSE a \in Attempts : EventOf[a] = e]
    /\ tmp = [e \in Events |-> None]
    /\ content = [a \in Attempts |-> "whole"]
    /\ log = {} /\ crashed = FALSE
    /\ shared = {} /\ cut = {} /\ emptied = {} /\ altered = {}

Init ==
    /\ AuditInit /\ CacheInit /\ ChannelInit
    /\ \/ reader = "audit" /\ StoreInit
       \/ reader \in {"cache", "channel"} /\ Stored

Write ==
    /\ reader # "channel" /\ \E a \in Attempts : StoreStep(a)
    /\ UNCHANGED <<avars, cvars, chvars, reader>>

(* The cache would end with the process, and has nothing to do with files. *)
Disturb ==
    /\ reader = "audit" /\ (Crash \/ Restart \/ Alter)
    /\ UNCHANGED <<avars, cvars, chvars, reader>>
Report ==
    /\ reader = "audit" /\ (StartReport \/ AuditEvent)
    /\ UNCHANGED <<cvars, chvars, reader>>
Cache == reader = "cache" /\ CacheStep /\ UNCHANGED <<avars, chvars, reader>>
Channel == reader = "channel" /\ ChannelStep /\ UNCHANGED <<svars, avars, cvars, reader>>

Next == Write \/ Disturb \/ Report \/ Cache \/ Channel

(* Threads run; a query that can fail does not fail for ever.              *)
Fairness ==
    \A l \in Threads :
        /\ WF_vars(SyncWorks(l) /\ UNCHANGED <<svars, avars, chvars, reader>>)
        /\ SF_vars(QueryHistory(l) /\ UNCHANGED <<svars, avars, chvars, reader>>)

Spec == Init /\ [][Next]_vars /\ Fairness
=============================================================================
