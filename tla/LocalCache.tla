----------------------------- MODULE LocalCache -----------------------------
(***************************************************************************)
(* LocalStateCache of perf/local_cache.py: background loops that copy the  *)
(* ledger's history into two indexes.  The ledger is asked outside the     *)
(* lock; the indexes are replaced under it, one after the other.           *)
(*                                                                         *)
(* One user starts and stops the loop, in turns, and asks for a sync of    *)
(* its own only while there is none.  stop() waits for the loop, but only  *)
(* so long: a query that hangs leaves a loop behind that nobody joins.     *)
(***************************************************************************)
EXTENDS EvidenceStore

CONSTANTS Loops,    \* threads; each start takes a new one
          User      \* the thread that starts, stops and syncs by itself

ASSUME CacheAssumption == User \notin Loops /\ None \notin Loops \cup {User}

VARIABLES
    loop,           \* where each of them is, and the records it has
    by_event, by_resource, records_cached,
    lock,           \* who holds _lock
    thread,         \* _thread
    stop_event,
    gave_up         \* history: has a join timed out?

cvars == <<loop, by_event, by_resource, records_cached, lock, thread, stop_event, gave_up>>
Threads == Loops \cup {User}

CacheInit ==
    /\ loop = [l \in Threads |-> [at |-> "idle", records |-> {}]]
    /\ by_event = {} /\ by_resource = {} /\ records_cached = 0
    /\ lock = None /\ thread = None /\ stop_event = FALSE /\ gave_up = FALSE

In(l, step) == loop[l].at = step
MoveTo(l, step) == loop' = [loop EXCEPT ![l].at = step]
indexes == <<by_event, by_resource, records_cached>>
control == <<thread, stop_event, gave_up>>

-----------------------------------------------------------------------------
(* sync_once.                                                              *)

QueryHistory(l) ==
    /\ In(l, "query")
    /\ loop' = [loop EXCEPT ![l] = [at |-> "sync", records |-> log]]
    /\ UNCHANGED <<indexes, lock, control>>

AfterSync(l) == IF l = User THEN "idle" ELSE "wait"

(* The query raises; _loop swallows it, and waits for the next interval.   *)
QueryFails(l) ==
    /\ In(l, "query")
    /\ MoveTo(l, AfterSync(l))
    /\ UNCHANGED <<indexes, lock, control>>

AcquireLock(l) ==
    /\ In(l, "sync") /\ lock = None
    /\ lock' = l
    /\ by_event' = loop[l].records
    /\ MoveTo(l, "resources")
    /\ UNCHANGED <<by_resource, records_cached, control>>

(* Mutation of SetResources: the lock is given back before the second.     *)
ReleaseEarly(l) ==
    /\ In(l, "resources")
    /\ IF lock = l THEN lock' = None /\ UNCHANGED <<loop, by_resource>>
       ELSE by_resource' = loop[l].records /\ MoveTo(l, "count") /\ UNCHANGED lock
    /\ UNCHANGED <<by_event, records_cached, control>>

SetResources(l) ==
    /\ In(l, "resources")
    /\ by_resource' = loop[l].records
    /\ MoveTo(l, "count")
    /\ UNCHANGED <<by_event, records_cached, lock, control>>

SetCount(l) ==
    /\ In(l, "count")
    /\ records_cached' = Cardinality(loop[l].records)
    /\ lock' = None
    /\ loop' = [loop EXCEPT ![l] = [at |-> AfterSync(l), records |-> {}]]
    /\ UNCHANGED <<by_event, by_resource, control>>

(* _loop: _stop_event is looked at between two syncs.                      *)
LoopAgain(l) ==
    /\ In(l, "wait")
    /\ MoveTo(l, IF stop_event THEN "ended" ELSE "query")
    /\ UNCHANGED <<indexes, lock, control>>

-----------------------------------------------------------------------------
(* The user.                                                               *)

Start ==
    /\ thread = None /\ In(User, "idle")
    /\ stop_event' = FALSE
    /\ \E l \in Loops : In(l, "idle") /\ thread' = l /\ MoveTo(l, "wait")
    /\ UNCHANGED <<indexes, lock, gave_up>>

Stop ==
    /\ thread # None /\ In(User, "idle")
    /\ stop_event' = TRUE
    /\ MoveTo(User, "join")
    /\ UNCHANGED <<indexes, lock, thread, gave_up>>

(* Mutation of Joined: stop() does not wait.                               *)
NotJoined ==
    /\ In(User, "join")
    /\ thread' = None
    /\ MoveTo(User, "idle")
    /\ UNCHANGED <<indexes, lock, stop_event, gave_up>>

Joined ==
    /\ In(User, "join") /\ In(thread, "ended")
    /\ thread' = None
    /\ MoveTo(User, "idle")
    /\ UNCHANGED <<indexes, lock, stop_event, gave_up>>

JoinTimesOut ==
    /\ In(User, "join") /\ ~In(thread, "ended")
    /\ thread' = None /\ gave_up' = TRUE
    /\ MoveTo(User, "idle")
    /\ UNCHANGED <<indexes, lock, stop_event>>

SyncOnce ==
    /\ thread = None /\ In(User, "idle")
    /\ MoveTo(User, "query")
    /\ UNCHANGED <<indexes, lock, control>>

(* Mutation of SyncWorks: an exception ends the loop.                      *)
ExceptionEndsLoop(l) ==
    \/ In(l, "query") /\ MoveTo(l, "ended") /\ UNCHANGED <<indexes, lock, control>>
    \/ QueryHistory(l) \/ AcquireLock(l) \/ SetResources(l) \/ SetCount(l) \/ LoopAgain(l)

SyncWorks(l) ==
    \/ QueryHistory(l) \/ QueryFails(l) \/ AcquireLock(l)
    \/ SetResources(l) \/ SetCount(l) \/ LoopAgain(l)

CacheStep ==
    /\ \/ \E l \in Threads : SyncWorks(l)
       \/ Start \/ Stop \/ Joined \/ JoinTimesOut \/ SyncOnce
    /\ UNCHANGED svars

-----------------------------------------------------------------------------
(* Properties.                                                             *)

(* Whoever gets the lock finds both indexes and the count of one query.    *)
(* Code: local_cache.py:55-61.                                             *)
CacheIsOneSnapshot ==
    lock = None => by_event = by_resource /\ records_cached = Cardinality(by_event)

(* The cache never forgets an event it had, as long as no stop() gave up   *)
(* waiting: the query is outside the lock, and only the join keeps the     *)
(* loop of yesterday from putting an older answer over a newer one.        *)
(* Code: local_cache.py:52-76.                                             *)
CacheGoesForward == [][~gave_up => by_event \subseteq by_event']_cvars

(* What is logged while the loop runs gets into the cache, or the loop is  *)
(* stopped: failed queries are passed over (local_cache.py:78-84).         *)
LoggedIsCached ==
    \A e \in Events : e \in log /\ thread # None ~> e \in by_event \/ stop_event
=============================================================================
