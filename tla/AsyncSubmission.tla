-------------------------- MODULE AsyncSubmission --------------------------
(***************************************************************************)
(* AsyncSubmissionService of perf/async_pipeline.py over the in-memory     *)
(* queue: a caller thread that calls start, enqueue and stop, one bounded  *)
(* FIFO queue, and worker threads that take an item, call commit_fn, and   *)
(* put the item back, dead-letter it or report it committed.               *)
(*                                                                         *)
(* A step is what one thread does between two points at which another      *)
(* thread can observe it: a queue operation, a stop_event test, the update *)
(* of the statistics under their lock, a user callback.  commit_fn either  *)
(* returns or raises, at random.  Time is abstract: a timeout may expire   *)
(* at any moment at which the code waits for it.                           *)
(***************************************************************************)
EXTENDS Naturals, Sequences, FiniteSets

CONSTANTS Events,          \* the events the caller may enqueue, each once
          Workers,         \* thread identities; start() takes fresh ones
          NumWorkers,      \* num_workers of the service
          QueueCap,        \* maxsize of queue.Queue
          MaxAttempts,     \* retry_policy.max_attempts
          CallbacksRaise   \* may on_commit / on_dead_letter raise?

ASSUME ServiceAssumption ==
    /\ IsFiniteSet(Events)
    /\ NumWorkers \in Nat
    /\ QueueCap \in Nat \ {0}
    /\ MaxAttempts \in Nat \ {0}
    /\ CallbacksRaise \in BOOLEAN

VARIABLES
    \* shared state of the service
    queue,          \* backend._q: items waiting, head first
    stop_event,     \* _stop_event.is_set()
    threads,        \* _threads: started and not yet given up by stop()
    submitted, committed, dead_lettered, retries,   \* AsyncPipelineStats
    dead_letters,   \* events in the dead_letters list
    \* worker threads
    pc,             \* where each thread is
    item,           \* the item a worker holds
    \* the caller's thread
    caller,         \* [at: the call in progress, event: its argument]
    joining,        \* threads stop() has still to join
    stop_result,    \* what the last call returned, if it was stop()
    \* history
    outcome,        \* SubmissionResult.outcome of each event
    reported,       \* events whose callback returned
    calls,          \* how often commit_fn was called for each event
    unclean_stops   \* has some stop() returned False?

stats == <<submitted, committed, dead_lettered, retries>>
svars == <<queue, stop_event, threads, stats, dead_letters>>
wvars == <<pc, item>>
cvars == <<caller, joining, stop_result>>
hvars == <<outcome, reported, calls, unclean_stops>>
vars == <<svars, wvars, cvars, hvars>>

-----------------------------------------------------------------------------
(* An item carries how often its event has been tried.  A worker without an *)
(* item holds NoItem.                                                       *)
Items == [event : Events, attempt : 0 .. MaxAttempts]
NoItem == [event |-> "none", attempt |-> 0]

Outcomes == {"new", "pending", "committed", "dead_lettered"}
Accounted == {e \in Events : outcome[e] \in {"committed", "dead_lettered"}}
Submitted == {e \in Events : outcome[e] # "new"}

(* The values of pc: a thread not yet started, at the loop condition, in   *)
(* backend.get, in commit_fn, in the put that requeues, in the callback,   *)
(* returned from _worker_loop, ended by an exception.                      *)
Ended == {"exited", "crashed"}
WorkerPc == {"unstarted", "check", "get", "commit", "retry", "callback"} \cup Ended
Alive == {w \in Workers : pc[w] \notin Ended \cup {"unstarted"}}

NotStopped == [drained |-> "none", clean |-> FALSE]
StopResults == [drained : {"none", "drained", "deadline", "skipped"}, clean : BOOLEAN]

accounted_for == committed + dead_lettered
zero_loss == accounted_for = submitted

TypeOK ==
    /\ queue \in Seq(Items)
    /\ stop_event \in BOOLEAN
    /\ threads \subseteq Workers
    /\ submitted \in Nat /\ committed \in Nat /\ dead_lettered \in Nat /\ retries \in Nat
    /\ dead_letters \subseteq Events
    /\ pc \in [Workers -> WorkerPc]
    /\ item \in [Workers -> Items \cup {NoItem}]
    /\ \A w \in Workers : pc[w] \in {"commit", "retry", "callback"} => item[w] \in Items
    /\ caller \in [at : {"idle", "put", "drain", "join"}, event : Events \cup {"none"}]
    /\ caller.at = "put" => caller.event \in Events
    /\ joining \subseteq threads
    /\ stop_result \in StopResults
    /\ outcome \in [Events -> Outcomes]
    /\ reported \subseteq Events
    /\ calls \in [Events -> Nat]
    /\ unclean_stops \in BOOLEAN

Init ==
    /\ queue = <<>>
    /\ stop_event = FALSE
    /\ threads = {}
    /\ submitted = 0 /\ committed = 0 /\ dead_lettered = 0 /\ retries = 0
    /\ dead_letters = {}
    /\ pc = [w \in Workers |-> "unstarted"]
    /\ item = [w \in Workers |-> NoItem]
    /\ caller = [at |-> "idle", event |-> "none"]
    /\ joining = {}
    /\ stop_result = NotStopped
    /\ outcome = [e \in Events |-> "new"]
    /\ reported = {}
    /\ calls = [e \in Events |-> 0]
    /\ unclean_stops = FALSE

-----------------------------------------------------------------------------
(* The caller's thread.                                                    *)

(* Mutation of Start: the list of threads is set anew instead of extended. *)
StartForgets ==
    /\ caller.at = "idle"
    /\ \E fresh \in SUBSET {w \in Workers : pc[w] = "unstarted"} :
          /\ Cardinality(fresh) = NumWorkers
          /\ pc' = [w \in Workers |-> IF w \in fresh THEN "check" ELSE pc[w]]
          /\ threads' = fresh
    /\ stop_event' = FALSE
    /\ stop_result' = NotStopped
    /\ UNCHANGED <<queue, stats, dead_letters, item, caller, joining, hvars>>

(* start(): clear the stop event and spawn num_workers fresh threads.  A   *)
(* thread a previous stop() could not join is still in its loop and is     *)
(* revived by the cleared event.                                           *)
Start ==
    /\ caller.at = "idle"
    /\ \E fresh \in SUBSET {w \in Workers : pc[w] = "unstarted"} :
          /\ Cardinality(fresh) = NumWorkers
          /\ pc' = [w \in Workers |-> IF w \in fresh THEN "check" ELSE pc[w]]
          /\ threads' = threads \cup fresh
    /\ stop_event' = FALSE
    /\ stop_result' = NotStopped
    /\ UNCHANGED <<queue, stats, dead_letters, item, caller, joining, hvars>>

(* enqueue(event), first half: the event counts as submitted before it is  *)
(* on the queue.                                                           *)
Enqueue(e) ==
    /\ caller.at = "idle"
    /\ outcome[e] = "new"
    /\ submitted' = submitted + 1
    /\ outcome' = [outcome EXCEPT ![e] = "pending"]
    /\ caller' = [at |-> "put", event |-> e]
    /\ stop_result' = NotStopped
    /\ UNCHANGED <<queue, stop_event, threads, committed, dead_lettered, retries,
                   dead_letters, wvars, joining, reported, calls, unclean_stops>>

(* enqueue(event), second half: a put that blocks while the queue is full. *)
EnqueuePut ==
    /\ caller.at = "put"
    /\ Len(queue) < QueueCap
    /\ queue' = Append(queue, [event |-> caller.event, attempt |-> 0])
    /\ caller' = [at |-> "idle", event |-> "none"]
    /\ UNCHANGED <<stop_event, threads, stats, dead_letters, wvars, joining,
                   stop_result, hvars>>

(* stop() leaves its polling loop, sets the event and turns to the joins.  *)
SignalStop(how) ==
    /\ stop_event' = TRUE
    /\ caller' = [at |-> "join", event |-> "none"]
    /\ joining' = threads
    /\ stop_result' = [drained |-> how, clean |-> TRUE]
    /\ UNCHANGED <<queue, threads, stats, dead_letters, wvars, hvars>>

(* stop(drain=False).                                                      *)
StopNow == caller.at = "idle" /\ SignalStop("skipped")

(* stop(drain=True): begin to poll the statistics.                         *)
StopDrain ==
    /\ caller.at = "idle"
    /\ caller' = [at |-> "drain", event |-> "none"]
    /\ stop_result' = NotStopped
    /\ UNCHANGED <<svars, wvars, joining, hvars>>

(* Polling ends when every submitted event is accounted for ...            *)
Drained ==
    /\ caller.at = "drain"
    /\ accounted_for >= submitted
    /\ SignalStop("drained")

(* Mutation of DrainDeadline: the polling loop has no deadline.            *)
DrainForever == FALSE

(* ... or when the deadline has passed first.                              *)
DrainDeadline ==
    /\ caller.at = "drain"
    /\ accounted_for < submitted
    /\ SignalStop("deadline")

(* Mutation of Join: is_alive is not asked after the join.                 *)
JoinUnchecked(w) ==
    /\ caller.at = "join"
    /\ w \in joining
    /\ joining' = joining \ {w}
    /\ UNCHANGED <<svars, wvars, caller, stop_result, hvars>>

(* One join: the thread has ended, or five seconds pass and it has not.    *)
Join(w) ==
    /\ caller.at = "join"
    /\ w \in joining
    /\ joining' = joining \ {w}
    /\ stop_result' = [stop_result EXCEPT !.clean = @ /\ w \notin Alive]
    /\ UNCHANGED <<svars, wvars, caller, hvars>>

(* stop() forgets all its threads, the ones it could not join included,    *)
(* and returns.                                                            *)
StopReturn ==
    /\ caller.at = "join"
    /\ joining = {}
    /\ threads' = {}
    /\ caller' = [at |-> "idle", event |-> "none"]
    /\ unclean_stops' = (unclean_stops \/ ~stop_result.clean)
    /\ UNCHANGED <<queue, stop_event, stats, dead_letters, wvars, joining,
                   stop_result, outcome, reported, calls>>

-----------------------------------------------------------------------------
(* A worker thread.                                                        *)

Goto(w, place) == pc' = [pc EXCEPT ![w] = place]

(* while not _stop_event.is_set()                                          *)
CheckStop(w) ==
    /\ pc[w] = "check"
    /\ Goto(w, IF stop_event THEN "exited" ELSE "get")
    /\ UNCHANGED <<svars, item, cvars, hvars>>

(* backend.get returns the head of the queue ...                           *)
Get(w) ==
    /\ pc[w] = "get"
    /\ queue # <<>>
    /\ item' = [item EXCEPT ![w] = Head(queue)]
    /\ queue' = Tail(queue)
    /\ Goto(w, "commit")
    /\ UNCHANGED <<stop_event, threads, stats, dead_letters, cvars, hvars>>

(* Mutation of GetTimeout: None ends the loop instead of repeating it.     *)
GetTimeoutReturns(w) ==
    /\ pc[w] = "get"
    /\ queue = <<>>
    /\ Goto(w, "exited")
    /\ UNCHANGED <<svars, item, cvars, hvars>>

(* ... or None after 0.2 s without an item.                                *)
GetTimeout(w) ==
    /\ pc[w] = "get"
    /\ queue = <<>>
    /\ Goto(w, "check")
    /\ UNCHANGED <<svars, item, cvars, hvars>>

(* Mutation of Attempt: the attempt of the item is taken for this one's.   *)
AttemptNotCounted(w) == item[w].attempt

(* The attempt number _process_item works with, and the call of commit_fn. *)
Attempt(w) == item[w].attempt + 1
CallCommit(w) ==
    /\ pc[w] = "commit"
    /\ calls' = [calls EXCEPT ![item[w].event] = @ + 1]

(* commit_fn returns: record_commit under the lock of the statistics.      *)
CommitOk(w) ==
    /\ CallCommit(w)
    /\ outcome' = [outcome EXCEPT ![item[w].event] = "committed"]
    /\ committed' = committed + 1
    /\ retries' = IF Attempt(w) > 1 THEN retries + 1 ELSE retries
    /\ Goto(w, "callback")
    /\ UNCHANGED <<queue, stop_event, threads, submitted, dead_lettered, dead_letters,
                   item, cvars, reported, unclean_stops>>

(* Mutation of CommitRetry: the limit is not looked at.                    *)
CommitRetryForever(w) ==
    /\ CallCommit(w)
    /\ item' = [item EXCEPT ![w] = [event |-> item[w].event, attempt |-> Attempt(w)]]
    /\ Goto(w, "retry")
    /\ UNCHANGED <<svars, cvars, outcome, reported, unclean_stops>>

(* Mutation of CommitRetry: every failure is counted as a dead letter.     *)
CommitRetryCounted(w) ==
    /\ CallCommit(w)
    /\ Attempt(w) < MaxAttempts
    /\ item' = [item EXCEPT ![w] = [event |-> item[w].event, attempt |-> Attempt(w)]]
    /\ dead_lettered' = dead_lettered + 1
    /\ Goto(w, "retry")
    /\ UNCHANGED <<queue, stop_event, threads, submitted, committed, retries,
                   dead_letters, cvars, outcome, reported, unclean_stops>>

(* commit_fn raises and attempts are left: after the backoff the worker    *)
(* itself puts the item back.                                              *)
CommitRetry(w) ==
    /\ CallCommit(w)
    /\ Attempt(w) < MaxAttempts
    /\ item' = [item EXCEPT ![w] = [event |-> item[w].event, attempt |-> Attempt(w)]]
    /\ Goto(w, "retry")
    /\ UNCHANGED <<svars, cvars, outcome, reported, unclean_stops>>

(* commit_fn raises on the last attempt: record_dead_letter.               *)
CommitGiveUp(w) ==
    /\ CallCommit(w)
    /\ ~(Attempt(w) < MaxAttempts)
    /\ outcome' = [outcome EXCEPT ![item[w].event] = "dead_lettered"]
    /\ dead_lettered' = dead_lettered + 1
    /\ Goto(w, "callback")
    /\ UNCHANGED <<queue, stop_event, threads, submitted, committed, retries,
                   dead_letters, item, cvars, reported, unclean_stops>>

(* Mutation of RetryPut: a stopping service does not requeue.              *)
RetryPutUnlessStopping(w) ==
    /\ pc[w] = "retry"
    /\ Len(queue) < QueueCap
    /\ queue' = IF stop_event THEN queue ELSE Append(queue, item[w])
    /\ item' = [item EXCEPT ![w] = NoItem]
    /\ Goto(w, "check")
    /\ UNCHANGED <<stop_event, threads, stats, dead_letters, cvars, hvars>>

(* Mutation of RetryPut: the event is put back as if it were new.          *)
RetryPutAfresh(w) ==
    /\ pc[w] = "retry"
    /\ Len(queue) < QueueCap
    /\ queue' = Append(queue, [item[w] EXCEPT !.attempt = 0])
    /\ item' = [item EXCEPT ![w] = NoItem]
    /\ Goto(w, "check")
    /\ UNCHANGED <<stop_event, threads, stats, dead_letters, cvars, hvars>>

(* The requeueing put blocks while the queue is full.                      *)
RetryPut(w) ==
    /\ pc[w] = "retry"
    /\ Len(queue) < QueueCap
    /\ queue' = Append(queue, item[w])
    /\ item' = [item EXCEPT ![w] = NoItem]
    /\ Goto(w, "check")
    /\ UNCHANGED <<stop_event, threads, stats, dead_letters, cvars, hvars>>

(* The dead letter is listed before its callback is called.                *)
ListDeadLetter(w) ==
    dead_letters' = IF outcome[item[w].event] = "dead_lettered"
                    THEN dead_letters \cup {item[w].event} ELSE dead_letters

(* on_commit or on_dead_letter returns: the item is finished.              *)
Callback(w) ==
    /\ pc[w] = "callback"
    /\ ListDeadLetter(w)
    /\ reported' = reported \cup {item[w].event}
    /\ item' = [item EXCEPT ![w] = NoItem]
    /\ Goto(w, "check")
    /\ UNCHANGED <<queue, stop_event, threads, stats, cvars, outcome, calls,
                   unclean_stops>>

(* The callback raises: nothing catches it and the thread ends.            *)
CallbackRaises(w) ==
    /\ CallbacksRaise
    /\ pc[w] = "callback"
    /\ ListDeadLetter(w)
    /\ item' = [item EXCEPT ![w] = NoItem]
    /\ Goto(w, "crashed")
    /\ UNCHANGED <<queue, stop_event, threads, stats, cvars, hvars>>

-----------------------------------------------------------------------------
Finish(w) == CommitOk(w) \/ CommitRetry(w) \/ CommitGiveUp(w)

WorkerStep(w) ==
    \/ CheckStop(w) \/ Get(w) \/ GetTimeout(w) \/ Finish(w)
    \/ RetryPut(w) \/ Callback(w) \/ CallbackRaises(w)

StopStep == Drained \/ DrainDeadline \/ StopReturn \/ \E w \in Workers : Join(w)

CallerStep ==
    \/ Start \/ (\E e \in Events : Enqueue(e)) \/ EnqueuePut
    \/ StopNow \/ StopDrain \/ StopStep

Next == CallerStep \/ \E w \in Workers : WorkerStep(w)

Spec == Init /\ [][Next]_vars

(* The scheduler runs every thread, commit_fn and the callbacks terminate, *)
(* and a deadline passes.  Nothing obliges the caller to call anything.    *)
Fairness ==
    /\ \A w \in Workers : WF_vars(WorkerStep(w))
    /\ WF_vars(EnqueuePut)
    /\ WF_vars(StopStep)

FairSpec == Spec /\ Fairness

-----------------------------------------------------------------------------
(* Safety.                                                                 *)

(* Where an event can be between enqueue() and its result.                 *)
InCall(e) == caller.at = "put" /\ caller.event = e
InQueue(e) == \E i \in 1 .. Len(queue) : queue[i].event = e
Trying(w) == pc[w] \in {"commit", "retry"}
InHand(e) == \E w \in Workers : Trying(w) /\ item[w].event = e

(* No accepted event is ever lost or doubled: while it is unaccounted for  *)
(* it is in exactly one of the caller's hand, the queue and the hands of   *)
(* one worker, whatever stop(), retries and full queues interleave with    *)
(* ("zero event loss", async_pipeline.py:200-203).                         *)
PendingIsSomewhere ==
    \A e \in Events : outcome[e] = "pending" <=> InCall(e) \/ InQueue(e) \/ InHand(e)
OnePlace ==
    /\ \A e \in Events : ~(InQueue(e) /\ InHand(e))
    /\ \A e \in Events : InCall(e) => ~InQueue(e) /\ ~InHand(e)
    /\ \A i, j \in 1 .. Len(queue) : queue[i].event = queue[j].event => i = j
    /\ \A v, w \in Workers :
          Trying(v) /\ Trying(w) /\ item[v].event = item[w].event => v = w
NoEventLost == PendingIsSomewhere /\ OnePlace

(* snapshot()["zero_loss"] never reports a loss-free run while an event is *)
(* unaccounted for: the counters, updated by different threads at          *)
(* different moments, agree only if the sets of events do (158-189).       *)
ZeroLossHonest == zero_loss <=> Accounted = Submitted

(* An event is given up only when commit_fn has failed on it max_attempts  *)
(* times, and never tried more often than that, although its attempt count *)
(* travels through the queue with it (194-198, 276-282).                   *)
GivenUpAfterEveryAttempt ==
    \A e \in Events :
        /\ calls[e] <= MaxAttempts
        /\ outcome[e] = "dead_lettered" => calls[e] = MaxAttempts

(* After a stop(drain=True) that saw the queue drained and joined its      *)
(* threads cleanly, every submitted event has had its callback and every   *)
(* dead letter is listed: callers read their result lists right after      *)
(* stop().  It needs that no earlier stop() left a hung thread behind and  *)
(* that no callback has raised (240-258, stability_test.py:148-176).       *)
CleanDrainReports ==
    /\ caller.at = "idle"
    /\ stop_result = [drained |-> "drained", clean |-> TRUE]
    /\ ~unclean_stops
    /\ \A w \in Workers : pc[w] # "crashed"
    => /\ reported = Submitted
       /\ dead_letters = {e \in Events : outcome[e] = "dead_lettered"}
       /\ queue = <<>>

(* A thread that stop() no longer knows of can only be running if some     *)
(* stop() has said so by returning False (241-258).                        *)
OrphansOnlyAfterUncleanStop == Alive \subseteq threads \/ unclean_stops

(* The service implements the contract of one event.                       *)
Contract == INSTANCE SubmissionContract
ContractSpec == Contract!Spec

-----------------------------------------------------------------------------
(* Liveness.                                                               *)

(* Started, not stopped, and a raising callback has not ended every thread. *)
Serving == ~stop_event /\ \E w \in threads : pc[w] # "crashed"

(* While the service is running and the queue cannot fill up, every        *)
(* submitted event is eventually committed or dead-lettered: no worker     *)
(* leaves its loop early, and no retry waits for ever (260-288).           *)
EventuallyAccounted ==
    \A e \in Events : outcome[e] = "pending" ~> (e \in Accounted \/ ~Serving)

(* stop() returns, whatever its workers do: both of its waits have a       *)
(* deadline (245-258).                                                     *)
StopReturns == caller.at \in {"drain", "join"} ~> caller.at = "idle"

-----------------------------------------------------------------------------
(* Two statements of the repository that the service does not keep.        *)

(* "every event ever put on the queue ends up in exactly one of on_commit  *)
(* or on_dead_letter" (async_pipeline.py:200-203), for callbacks that do   *)
(* not raise, while the service runs, at any capacity of the queue.        *)
EveryEventReported ==
    \A e \in Events : outcome[e] = "pending" ~> (e \in reported \/ ~Serving)

(* "every worker thread joined cleanly (a hung/crashed worker would fail   *)
(* this)" (docs/stability_test.md): a stop() that returns True has no      *)
(* crashed worker among the threads it joined.                             *)
CleanStopMeansNoCrash ==
    caller.at = "idle" /\ stop_result.clean => \A w \in Workers : pc[w] # "crashed"
=============================================================================
