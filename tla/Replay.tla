------------------------------- MODULE Replay -------------------------------
(***************************************************************************)
(* The programs that drive the submission service: the replay trials of    *)
(* phase 3 (run_stage.py), with Phase2Pipeline.submit as commit_fn, their   *)
(* synchronous twins, and the load and stability tests of perf/, whose      *)
(* commit_fn stores and logs an event directly.                             *)
(*                                                                         *)
(* AsyncSubmission gives the queue, the worker and stop(); this module     *)
(* adds what the worker's commit_fn does to store, batch and ledger, and   *)
(* the main thread: start, enqueue every event, stop(drain=True), check    *)
(* the statistics, close the pipeline, audit, report.  A submit is one     *)
(* step here (Phase2Pipeline has its parts): that nobody else uses the     *)
(* pipeline meanwhile is a property below, not an assumption.              *)
(***************************************************************************)
EXTENDS AsyncSubmission

CONSTANTS OffChain, Immediate,   \* SourceAnchorPolicy's decisions; the rest is BATCH
          BatchSize

ASSUME ReplayAssumption ==
    /\ OffChain \subseteq Events /\ Immediate \subseteq Events
    /\ OffChain \cap Immediate = {}
    /\ BatchSize \in Nat \ {0}

VARIABLES
    harness,        \* "sync" and "async" trials, "direct" load and stability tests
    phase,          \* where the main thread is
    evidence,       \* events whose payload is stored
    pending_batch,  \* the pipeline's batch
    chain           \* events on the ledger, in order

pvars == <<evidence, pending_batch, chain>>
rvars == <<harness, phase, pvars>>
allvars == <<vars, rvars>>

Batched == Events \ (OffChain \cup Immediate)
Anchored == Events \ OffChain
On(s, e) == \E i \in DOMAIN s : s[i] = e

(* Events the ledger would accept one after the other.                     *)
Fresh(s) ==
    /\ \A i \in DOMAIN s : ~On(chain, s[i])
    /\ \A i, j \in DOMAIN s : s[i] = s[j] => i = j

ReplayInit ==
    /\ Init
    /\ harness \in {"sync", "async", "direct"}
    /\ phase = "setup"
    /\ evidence = {} /\ pending_batch = <<>> /\ chain = <<>>

-----------------------------------------------------------------------------
(* pipeline.submit(event), or the commit_fn of the load tests.             *)

Window(e) == Append(pending_batch, e)

Batch(e) ==
    /\ e \in Batched
    /\ IF Len(Window(e)) < BatchSize
       THEN pending_batch' = Window(e) /\ UNCHANGED chain
       ELSE Fresh(Window(e)) /\ chain' = chain \o Window(e) /\ pending_batch' = <<>>

Log(e) == ~On(chain, e) /\ chain' = Append(chain, e) /\ UNCHANGED pending_batch

SubmitReturns(e) ==
    /\ evidence' = evidence \cup {e}
    /\ IF harness = "direct" THEN Log(e)
       ELSE \/ e \in OffChain /\ UNCHANGED <<pending_batch, chain>>
            \/ e \in Immediate /\ Log(e)
            \/ Batch(e)

(* A flush that raises: some of the batch is recorded, none of it leaves   *)
(* the batch.                                                              *)
FlushStops(b) ==
    /\ \E k \in 0 .. Len(b) :
          Fresh(SubSeq(b, 1, k)) /\ chain' = chain \o SubSeq(b, 1, k)
    /\ pending_batch' = b

(* The load tests inject their failures before anything is done.           *)
SubmitRaises(e) ==
    \/ UNCHANGED pvars
    \/ /\ harness # "direct"
       /\ evidence' = evidence \cup {e}
       /\ \/ e \in Immediate /\ (Log(e) \/ UNCHANGED <<pending_batch, chain>>)
          \/ e \in Batched /\ Len(Window(e)) >= BatchSize /\ FlushStops(Window(e))

-----------------------------------------------------------------------------
(* The service's worker.                                                   *)

ReplayWorker(w) ==
    /\ \/ CommitOk(w) /\ SubmitReturns(item[w].event)
       \/ (CommitRetry(w) \/ CommitGiveUp(w)) /\ SubmitRaises(item[w].event)
       \/ /\ CheckStop(w) \/ Get(w) \/ GetTimeout(w) \/ RetryPut(w) \/ Callback(w)
          /\ UNCHANGED pvars
    /\ UNCHANGED <<harness, phase>>

-----------------------------------------------------------------------------
(* The main thread.                                                        *)

At(p) == phase = p
GoTo(p) == phase' = p /\ UNCHANGED harness

StartTrial ==
    /\ At("setup") /\ harness # "sync"
    /\ Start
    /\ GoTo("replay") /\ UNCHANGED pvars

EnqueueEvent ==
    /\ At("replay")
    /\ EnqueuePut \/ \E e \in Events : Enqueue(e)
    /\ UNCHANGED rvars

(* for event in events: submit(event), in the main thread.                 *)
SyncFrame == UNCHANGED <<harness, svars, wvars, cvars, reported, calls, unclean_stops>>

(* Mutation of SyncRaises: the event is submitted again until it succeeds. *)
SyncRetries(e) == SubmitRaises(e) /\ UNCHANGED <<phase, outcome>>

SyncRaises(e) == SubmitRaises(e) /\ phase' = "raised" /\ UNCHANGED outcome

SyncReturns(e) ==
    /\ SubmitReturns(e)
    /\ outcome' = [outcome EXCEPT ![e] = "committed"]
    /\ UNCHANGED phase

SyncSubmit(e) ==
    /\ At("setup") /\ harness = "sync"
    /\ outcome[e] = "new"
    /\ SyncReturns(e) \/ SyncRaises(e)
    /\ SyncFrame

SyncDone ==
    /\ At("setup") /\ harness = "sync"
    /\ Submitted = Events
    /\ GoTo("close") /\ UNCHANGED <<vars, pvars>>

(* finally: service.stop(drain=True), also when an enqueue was interrupted; *)
(* a load test stops when its time is over, however many events are in.    *)
StopTrial ==
    /\ At("replay")
    /\ StopDrain
    /\ phase' = IF Submitted = Events \/ harness = "direct" THEN "stop" ELSE "interrupted"
    /\ UNCHANGED <<harness, pvars>>

Stopping ==
    /\ phase \in {"stop", "interrupted"}
    /\ StopStep
    /\ UNCHANGED rvars

(* Mutation of TrialFails: only the drain is checked.                      *)
TrialDrained == ~zero_loss
(* Mutation of TrialFails: only the result of stop() is looked at.         *)
TrialStopped == dead_lettered > 0

TrialFails == ~stop_result.clean \/ ~zero_loss \/ dead_lettered > 0

Check ==
    /\ phase \in {"stop", "interrupted"} /\ caller.at = "idle"
    /\ GoTo(IF phase = "interrupted" THEN "raised"
            ELSE IF harness = "direct" THEN "reported"
            ELSE IF TrialFails THEN "raised" ELSE "close")
    /\ UNCHANGED <<vars, pvars>>

(* pipeline.close()                                                        *)
Close ==
    /\ At("close")
    /\ \/ /\ Fresh(pending_batch)
          /\ chain' = chain \o pending_batch /\ pending_batch' = <<>>
          /\ GoTo("audit")
       \/ /\ pending_batch # <<>>
          /\ FlushStops(pending_batch)
          /\ GoTo("raised")
    /\ UNCHANGED <<vars, evidence>>

(* audit(): as many verified records as there are anchors, none incomplete. *)
Verified == {i \in DOMAIN chain : chain[i] \in evidence}
Audit ==
    /\ At("audit")
    /\ GoTo(IF Cardinality(Verified) = Cardinality(Anchored) /\ Verified = DOMAIN chain
            THEN "reported" ELSE "raised")
    /\ UNCHANGED <<vars, pvars>>

Done == phase \in {"reported", "raised"} /\ UNCHANGED allvars

MainStep ==
    \/ StartTrial \/ EnqueueEvent \/ StopTrial \/ Stopping \/ Check
    \/ (\E e \in Events : SyncSubmit(e)) \/ SyncDone \/ Close \/ Audit

ReplayNext == MainStep \/ (\E w \in Workers : ReplayWorker(w)) \/ Done

ReplaySpec == ReplayInit /\ [][ReplayNext]_allvars

(* The main thread is a program that runs to its end, workers are run, and *)
(* deadlines pass.                                                         *)
ReplayFairSpec ==
    /\ ReplaySpec
    /\ WF_allvars(MainStep)
    /\ \A w \in Workers : WF_allvars(ReplayWorker(w))

-----------------------------------------------------------------------------
(* Properties.                                                             *)

(* "zero loss" means what phase 3 takes it to mean: once stop() was clean, *)
(* no event is missing and none dead-lettered, and the pipeline is closed, *)
(* every anchored event is on the ledger exactly once with its evidence,   *)
(* whatever was retried on the way, though an event counts as committed    *)
(* while it is only in the batch: the audit cannot fail.  For a load test  *)
(* that shut down cleanly, the events counted as committed are the ledger's *)
(* (run_stage.py:308-327, stability_test.py:169-187).                      *)
ZeroLossMeansAnchored ==
    /\ phase = "audit" =>
          /\ Len(chain) = Cardinality(Anchored)
          /\ \A e \in Anchored : On(chain, e)
          /\ Events \subseteq evidence
    /\ phase = "reported" /\ harness = "direct" /\ stop_result.clean =>
          \A e \in Events : outcome[e] = "committed" <=> On(chain, e)

(* "Phase2Pipeline's mutable Merkle batch is not thread-safe"              *)
(* (run_stage.py:307): the main thread closes and audits only when no      *)
(* worker is in submit or could still get there.                           *)
OneUserOfPipeline ==
    phase \in {"close", "audit"} =>
        \A w \in Workers : ~Trying(w) /\ queue = <<>>

(* A trial ends, in a report or an exception: failing submits, a full      *)
(* window that cannot be flushed and hanging workers cannot stop it.       *)
TrialEnds == <>(phase \in {"reported", "raised"})
=============================================================================
