---------------------------- MODULE ReplayProofs ----------------------------
(***************************************************************************)
(* The programs of phase 3 on the submission service and the pipeline,     *)
(* proved for every number of events, workers and attempts, every          *)
(* anchoring policy, window and capacity of the queue.                     *)
(***************************************************************************)
EXTENDS Replay, AsyncSubmissionProofs, Functions

-----------------------------------------------------------------------------
(* The service under its programs.  The synchronous trial sets outcomes    *)
(* itself and counts nothing, so that the counters mean something in the   *)
(* other programs only; no program closes the pipeline before every event  *)
(* is committed.                                                           *)
AllCommitted == \A e \in Events : outcome[e] = "committed"

ServiceInv ==
    /\ IInv
    /\ harness \in {"sync", "async", "direct"}
    /\ harness # "sync" => CountersInv
    /\ harness = "sync" =>
          /\ \A w \in Workers : pc[w] = "unstarted"
          /\ phase \in {"setup", "close", "audit", "raised", "reported"}
          /\ \A e \in Events : outcome[e] \in {"new", "committed"}
    /\ phase = "stop" /\ harness = "async" => Submitted = Events
    /\ phase \in {"close", "audit"} => AllCommitted /\ harness # "direct"

LEMMA ServiceInits == ReplayInit => ServiceInv
  <1> SUFFICES ASSUME ReplayInit PROVE ServiceInv
    OBVIOUS
  <1>1. IInv /\ CountersInv
    BY InitIInv, CountersInit DEF ReplayInit
  <1> QED
    BY <1>1 DEF ReplayInit, Init, ServiceInv


(* for event in events: submit(event) keeps the service as it was built.   *)
LEMMA SyncKeeps ==
    ASSUME ServiceInv, NEW e \in Events, SyncSubmit(e) PROVE ServiceInv'
  <1> USE DEF ServiceInv, IInv, TypeOK
  <1>1. /\ harness = "sync" /\ phase = "setup" /\ phase' \in {"setup", "raised"}
        /\ outcome[e] = "new"
        /\ UNCHANGED <<harness, svars, wvars, cvars, reported, calls, unclean_stops>>
        /\ \/ UNCHANGED outcome
           \/ outcome' = [outcome EXCEPT ![e] = "committed"]
    BY DEF SyncSubmit, At, SyncReturns, SyncRaises, SyncFrame
  <1>2. TypeOK'
    BY <1>1 DEF svars, wvars, cvars, stats, Outcomes
  <1>3. NoEventLost'
    BY <1>1 DEF NoEventLost, PendingIsSomewhere, OnePlace, InCall, InQueue, InHand, Trying,
                svars, wvars, cvars
  <1>4. AttemptsTravel'
    BY <1>1 DEF AttemptsTravel, GivenUpAfterEveryAttempt, Trying, svars, wvars, cvars
  <1> QED
    BY <1>1, <1>2, <1>3, <1>4 DEF wvars

(* A committed event stays committed.                                      *)
LEMMA CommittedStays ==
    ASSUME IInv, [Next]_vars, NEW e \in Events, outcome[e] = "committed"
    PROVE  outcome'[e] = "committed"
  <1> USE DEF IInv, TypeOK
  <1>1. ASSUME NEW w \in Workers, CommitOk(w) \/ CommitGiveUp(w)
        PROVE  outcome'[e] = "committed"
    <2>1. item[w] \in Items /\ InHand(item[w].event)
      BY <1>1 DEF CommitOk, CommitGiveUp, CallCommit, InHand, Trying
    <2>2. item[w].event # e
      BY <2>1 DEF Items, NoEventLost, PendingIsSomewhere
    <2> QED
      BY <1>1, <2>1, <2>2 DEF CommitOk, CommitGiveUp, Items
  <1>2. ASSUME NEW f \in Events, Enqueue(f) PROVE outcome'[e] = "committed"
    BY <1>2 DEF Enqueue
  <1>3. ASSUME \/ UNCHANGED vars \/ Start \/ EnqueuePut \/ StopNow \/ StopDrain \/ StopStep
               \/ \E w \in Workers : \/ CheckStop(w) \/ Get(w) \/ GetTimeout(w)
                                     \/ CommitRetry(w) \/ RetryPut(w)
                                     \/ Callback(w) \/ CallbackRaises(w)
        PROVE  UNCHANGED outcome
    BY <1>3 DEF vars, svars, hvars, Start, EnqueuePut, StopNow, StopDrain, StopStep,
        Drained, DrainDeadline, SignalStop, StopReturn, Join, CheckStop, Get, GetTimeout,
        CommitRetry, RetryPut, Callback, CallbackRaises
  <1> QED
    BY <1>1, <1>2, <1>3 DEF Next, CallerStep, WorkerStep, Finish

(* Once all is committed no worker has anything to submit.                 *)
LEMMA NothingLeft ==
    ASSUME IInv, AllCommitted
    PROVE  queue = <<>> /\ \A w \in Workers : ~Trying(w)
  <1> USE DEF IInv, TypeOK
  <1>1. \A e \in Events : ~InQueue(e) /\ ~InHand(e)
    BY DEF AllCommitted, NoEventLost, PendingIsSomewhere
  <1>2. ASSUME queue # <<>> PROVE FALSE
    <2>1. queue[1] \in Items /\ 1 \in 1 .. Len(queue)
      BY <1>2, TailFacts
    <2>2. queue[1].event \in Events /\ InQueue(queue[1].event)
      BY <2>1 DEF InQueue, Items
    <2> QED
      BY <1>1, <2>2
  <1>3. \A w \in Workers : ~Trying(w)
    BY <1>1 DEF InHand, Trying, Items
  <1> QED
    BY <1>2, <1>3

(* A trial that passes its checks has committed what it submitted.         *)
LEMMA ChecksSuffice ==
    ASSUME TypeOK, CountersInv, Submitted = Events, ~TrialFails PROVE AllCommitted
  <1>1. Accounted = Events
    BY CountersAgree DEF TrialFails, ZeroLossHonest
  <1>2. With("dead_lettered") = {}
    <2>1. IsFiniteSet(With("dead_lettered"))
      BY ServiceAssumption, FS_Subset DEF ServiceAssumption, With
    <2>2. Cardinality(With("dead_lettered")) = 0
      BY DEF TrialFails, CountersInv, TypeOK
    <2> QED
      BY <2>1, <2>2, FS_EmptySet
  <1> QED
    BY <1>1, <1>2 DEF Accounted, With, AllCommitted

LEMMA ServiceNext ==
    ASSUME ServiceInv, [ReplayNext]_allvars PROVE ServiceInv'
  <1>1. ASSUME NEW e \in Events, SyncSubmit(e) PROVE ServiceInv'
    BY <1>1, SyncKeeps
  <1>2. ASSUME [Next]_vars, UNCHANGED harness, harness = "sync" => UNCHANGED <<pc, outcome>>,
               harness = "sync" => phase' \in {"setup", "close", "audit", "raised", "reported"},
               phase' = "stop" /\ harness = "async" => Submitted' = Events,
               phase' \in {"close", "audit"} => AllCommitted' /\ harness # "direct"
        PROVE  ServiceInv'
    BY <1>2, NextIInv, CountersNext DEF ServiceInv
  <1>3. ASSUME UNCHANGED <<vars, harness>>, phase' = phase \/ phase' \in {"reported", "raised"}
        PROVE  ServiceInv'
    <2>1. [Next]_vars /\ UNCHANGED <<pc, outcome>>
      BY <1>3 DEF vars, wvars, hvars
    <2>2. Submitted' = Submitted /\ AllCommitted' = AllCommitted
      BY <2>1 DEF Submitted, AllCommitted
    <2> QED
      BY <1>2, <1>3, <2>1, <2>2 DEF ServiceInv
  <1>4. ASSUME NEW w \in Workers, ReplayWorker(w) PROVE ServiceInv'
    <2>1. [Next]_vars /\ UNCHANGED <<harness, phase>> /\ pc[w] # "unstarted"
      BY <1>4 DEF ReplayWorker, WorkerStep, Finish, Next, CommitOk, CommitRetry, CommitGiveUp,
                  CallCommit, CheckStop, Get, GetTimeout, RetryPut, Callback
    <2>2. harness # "sync"
      BY <2>1 DEF ServiceInv
    <2>3. Submitted = Events => Submitted' = Events
      BY <1>4 DEF ReplayWorker, Submitted, CommitOk, CommitRetry, CommitGiveUp, ServiceInv, IInv,
                  TypeOK, CheckStop, Get, GetTimeout, RetryPut, Callback, hvars
    <2>4. AllCommitted => AllCommitted'
      BY <2>1, CommittedStays DEF AllCommitted, ServiceInv
    <2> QED
      BY <1>2, <2>1, <2>2, <2>3, <2>4 DEF ServiceInv
  <1>5. CASE StartTrial \/ EnqueueEvent
    <2>1. [Next]_vars /\ UNCHANGED harness /\ phase' = "replay" /\ harness # "sync"
      BY <1>5 DEF StartTrial, EnqueueEvent, GoTo, At, Next, CallerStep, rvars, ServiceInv
    <2> QED
      BY <1>2, <2>1
  <1>6. CASE StopTrial
    <2>1. /\ [Next]_vars /\ UNCHANGED <<harness, outcome>> /\ harness # "sync"
          /\ phase' = "stop" /\ harness = "async" => Submitted = Events
          /\ phase' \in {"stop", "interrupted"}
      BY <1>6 DEF StopTrial, StopDrain, At, Next, CallerStep, hvars, ServiceInv
    <2>2. Submitted' = Submitted
      BY <2>1 DEF Submitted
    <2> QED
      BY <1>2, <2>1, <2>2
  <1>7. CASE Stopping
    <2>1. /\ [Next]_vars /\ UNCHANGED <<harness, phase, outcome>> /\ harness # "sync"
          /\ phase \in {"stop", "interrupted"}
      BY <1>7 DEF Stopping, StopStep, Drained, DrainDeadline, SignalStop, StopReturn, Join,
                  Next, CallerStep, hvars, rvars, ServiceInv
    <2>2. Submitted' = Submitted
      BY <2>1 DEF Submitted
    <2> QED
      BY <1>2, <2>1, <2>2 DEF ServiceInv
  <1>8. CASE Check
    <2>1. CASE phase' \in {"raised", "reported"}
      BY <1>3, <1>8, <2>1 DEF Check, GoTo
    <2>2. CASE phase' = "close"
      <3>1. /\ phase = "stop" /\ harness = "async" /\ ~TrialFails
            /\ UNCHANGED <<vars, harness>>
        BY <1>8, <2>2 DEF Check, GoTo, ServiceInv
      <3>2. AllCommitted
        BY <3>1, ChecksSuffice DEF ServiceInv, IInv
      <3>3. [Next]_vars /\ UNCHANGED outcome
        BY <3>1 DEF vars, hvars
      <3>4. AllCommitted'
        BY <3>2, <3>3 DEF AllCommitted
      <3> QED
        BY <1>2, <2>2, <3>1, <3>3, <3>4
    <2> QED
      BY <1>8, <2>1, <2>2 DEF Check, GoTo
  <1>9. CASE SyncDone
    <2>1. /\ harness = "sync" /\ Submitted = Events /\ phase' = "close"
          /\ UNCHANGED <<vars, harness>>
      BY <1>9 DEF SyncDone, At, GoTo
    <2>2. [Next]_vars /\ UNCHANGED <<pc, outcome>>
      BY <2>1 DEF vars, wvars, hvars
    <2>3. AllCommitted'
      BY <2>1, <2>2 DEF AllCommitted, Submitted, ServiceInv
    <2> QED
      BY <1>2, <2>1, <2>2, <2>3
  <1>10. CASE Close
    <2>1. phase = "close" /\ phase' \in {"audit", "raised"} /\ UNCHANGED <<vars, harness>>
      BY <1>10 DEF Close, At, GoTo
    <2>2. [Next]_vars /\ UNCHANGED <<pc, outcome>>
      BY <2>1 DEF vars, wvars, hvars
    <2>3. AllCommitted' /\ harness # "direct"
      BY <2>1, <2>2 DEF AllCommitted, ServiceInv
    <2> QED
      BY <1>2, <2>1, <2>2, <2>3
  <1>11. CASE Audit \/ Done \/ UNCHANGED allvars
    BY <1>3, <1>11 DEF Audit, Done, GoTo, allvars, rvars
  <1> QED
    BY <1>1, <1>4, <1>5, <1>6, <1>7, <1>8, <1>9, <1>10, <1>11 DEF ReplayNext, MainStep

LEMMA ServiceHolds == ReplaySpec => []ServiceInv
  BY ServiceInits, ServiceNext, PTL DEF ReplaySpec

(* The pipeline is not thread-safe, and the main thread closes and audits  *)
(* it only when no worker is in submit or could get there, whatever is     *)
(* retried and wherever the service is stopped (run_stage.py:300-340).     *)
THEOREM OneUser == ReplaySpec => []OneUserOfPipeline
  <1>1. ServiceInv => OneUserOfPipeline
    BY NothingLeft DEF ServiceInv, OneUserOfPipeline
  <1> QED
    BY <1>1, ServiceHolds, PTL

-----------------------------------------------------------------------------
(* Sequences of events.                                                    *)
Distinct(s) == \A i, j \in DOMAIN s : s[i] = s[j] => i = j

LEMMA OnAppend ==
    ASSUME NEW s \in Seq(Events), NEW x \in Events
    PROVE  /\ Append(s, x) \in Seq(Events)
           /\ \A e \in Events : On(Append(s, x), e) <=> On(s, e) \/ e = x
           /\ Distinct(s) /\ ~On(s, x) => Distinct(Append(s, x))
  <1>1. /\ Append(s, x) \in Seq(Events) /\ Len(s) \in Nat
        /\ DOMAIN s = 1 .. Len(s) /\ DOMAIN Append(s, x) = 1 .. Len(s) + 1
        /\ \A i \in 1 .. Len(s) : Append(s, x)[i] = s[i]
        /\ Append(s, x)[Len(s) + 1] = x
    BY AppendProperties, LenProperties
  <1> QED
    BY <1>1 DEF On, Distinct

LEMMA OnConcat ==
    ASSUME NEW s \in Seq(Events), NEW t \in Seq(Events)
    PROVE  /\ s \o t \in Seq(Events)
           /\ \A e \in Events : On(s \o t, e) <=> On(s, e) \/ On(t, e)
           /\ Distinct(s) /\ Distinct(t) /\ (\A i \in DOMAIN t : ~On(s, t[i])) => Distinct(s \o t)
  <1>1. /\ s \o t \in Seq(Events) /\ Len(s) \in Nat /\ Len(t) \in Nat
        /\ DOMAIN s = 1 .. Len(s) /\ DOMAIN t = 1 .. Len(t)
        /\ DOMAIN (s \o t) = 1 .. Len(s) + Len(t)
        /\ \A i \in 1 .. Len(s) + Len(t) :
              (s \o t)[i] = IF i <= Len(s) THEN s[i] ELSE t[i - Len(s)]
    BY ConcatProperties, LenProperties
  <1> DEFINE u == s \o t
  <1> HIDE DEF u
  <1>2. \A i \in 1 .. Len(s) : i \in DOMAIN u /\ u[i] = s[i]
    BY <1>1 DEF u
  <1>3. ASSUME NEW i \in 1 .. Len(t) PROVE Len(s) + i \in DOMAIN u /\ u[Len(s) + i] = t[i]
    <2>1. Len(s) + i \in 1 .. Len(s) + Len(t) /\ ~(Len(s) + i <= Len(s))
      BY <1>1
    <2>2. u[Len(s) + i] = t[(Len(s) + i) - Len(s)] /\ Len(s) + i \in DOMAIN u
      BY <1>1, <2>1 DEF u
    <2>3. (Len(s) + i) - Len(s) = i
      BY <1>1
    <2> QED
      BY <2>2, <2>3
  <1>4. ASSUME NEW i \in DOMAIN u
        PROVE  \/ i \in 1 .. Len(s) /\ u[i] = s[i]
               \/ i - Len(s) \in 1 .. Len(t) /\ u[i] = t[i - Len(s)]
    <2>1. i \in 1 .. Len(s) + Len(t)
      BY <1>1 DEF u
    <2>2. u[i] = IF i <= Len(s) THEN s[i] ELSE t[i - Len(s)]
      BY <1>1, <2>1 DEF u
    <2>3. i \in 1 .. Len(s) \/ (~(i <= Len(s)) /\ i - Len(s) \in 1 .. Len(t))
      BY <1>1, <2>1
    <2> QED
      BY <1>1, <2>2, <2>3
  <1>5. \A e \in Events : On(u, e) <=> On(s, e) \/ On(t, e)
    BY <1>1, <1>2, <1>3, <1>4, SMTT(30) DEF On
  <1>6. ASSUME Distinct(s), Distinct(t), \A i \in DOMAIN t : ~On(s, t[i]),
               NEW i \in DOMAIN u, NEW j \in DOMAIN u, u[i] = u[j]
        PROVE  i = j
    <2>1. i \in Nat /\ j \in Nat
      BY <1>1 DEF u
    <2>2. CASE i \in 1 .. Len(s) /\ j \in 1 .. Len(s)
      BY <1>1, <1>2, <1>3, <1>4, <1>6, <2>2 DEF Distinct
    <2>3. CASE i - Len(s) \in 1 .. Len(t) /\ j - Len(s) \in 1 .. Len(t)
      <3>1. u[i] = t[i - Len(s)] /\ u[j] = t[j - Len(s)]
        BY <1>1, <1>2, <1>3, <1>4, <2>1, <2>3
      <3>2. i - Len(s) = j - Len(s)
        BY <1>1, <1>6, <2>3, <3>1 DEF Distinct
      <3> QED
        BY <1>1, <2>1, <3>2
    <2>4. CASE i \in 1 .. Len(s) /\ j - Len(s) \in 1 .. Len(t)
      BY <1>1, <1>2, <1>3, <1>4, <1>6, <2>1, <2>4 DEF On
    <2>5. CASE j \in 1 .. Len(s) /\ i - Len(s) \in 1 .. Len(t)
      BY <1>1, <1>2, <1>3, <1>4, <1>6, <2>1, <2>5 DEF On
    <2> QED
      BY <1>2, <1>3, <1>4, <2>2, <2>3, <2>4, <2>5
  <1> QED
    BY <1>1, <1>5, <1>6 DEF u, Distinct

LEMMA OnPrefix ==
    ASSUME NEW s \in Seq(Events), NEW k \in 0 .. Len(s)
    PROVE  /\ SubSeq(s, 1, k) \in Seq(Events)
           /\ \A e \in Events : On(SubSeq(s, 1, k), e) => On(s, e)
  <1>1. Len(s) \in Nat /\ k \in Int /\ DOMAIN s = 1 .. Len(s)
        /\ \A i \in 1 .. k : s[i] \in Events
    BY LenProperties, ElementOfSeq
  <1>2. /\ SubSeq(s, 1, k) \in Seq(Events)
        /\ Len(SubSeq(s, 1, k)) = IF 1 <= k THEN k - 1 + 1 ELSE 0
        /\ \A i \in 1 .. k - 1 + 1 : SubSeq(s, 1, k)[i] = s[1 + i - 1]
    BY <1>1, SubSeqProperties
  <1>3. DOMAIN SubSeq(s, 1, k) = 1 .. k /\ \A i \in 1 .. k : SubSeq(s, 1, k)[i] = s[i]
    BY <1>1, <1>2, LenProperties
  <1> QED
    BY <1>1, <1>2, <1>3 DEF On

(* Accepted one after the other: what Fresh says of a sequence.            *)
LEMMA FreshConcat ==
    ASSUME chain \in Seq(Events), Distinct(chain), NEW t \in Seq(Events), Fresh(t)
    PROVE  /\ chain \o t \in Seq(Events) /\ Distinct(chain \o t)
           /\ \A e \in Events : On(chain \o t, e) <=> On(chain, e) \/ On(t, e)
  BY OnConcat DEF Fresh, Distinct

-----------------------------------------------------------------------------
(* The pipeline under the programs.  What is kept, on the ledger or in the *)
(* batch, has its evidence; what is committed is kept; the ledger has      *)
(* nothing twice.  A load test has no batch and is exact.                  *)
Kept == {e \in Events : On(chain, e) \/ On(pending_batch, e)}
Committed == With("committed")

PipelineTypes ==
    /\ chain \in Seq(Events) /\ pending_batch \in Seq(Events)
    /\ Distinct(chain)
    /\ Kept \subseteq evidence /\ evidence \subseteq Events
    /\ harness # "direct" => Kept \subseteq Anchored
    /\ harness = "direct" => pending_batch = <<>>

KeptInv ==
    /\ PipelineTypes
    /\ Committed \subseteq evidence
    /\ harness # "direct" => Committed \cap Anchored \subseteq Kept
    /\ harness = "direct" => Committed = Kept
    /\ phase = "audit" => pending_batch = <<>>

LEMMA NothingOnEmpty == <<>> \in Seq(Events) /\ \A e : ~On(<<>>, e)
  BY EmptySeq DEF On

LEMMA KeptInits == ReplayInit => KeptInv
  <1> SUFFICES ASSUME ReplayInit PROVE KeptInv
    OBVIOUS
  <1>1. chain = <<>> /\ pending_batch = <<>> /\ evidence = {} /\ phase = "setup"
    BY DEF ReplayInit
  <1>2. Kept = {}
    BY <1>1, NothingOnEmpty DEF Kept
  <1>3. Committed = {}
    BY DEF ReplayInit, Init, Committed, With
  <1>4. Distinct(chain)
    BY <1>1 DEF Distinct
  <1> QED
    BY <1>1, <1>2, <1>3, <1>4, NothingOnEmpty DEF KeptInv, PipelineTypes

(* What one submit does, whether it returns or raises.                     *)
Submits(e) ==
    /\ PipelineTypes'
    /\ Kept \subseteq Kept' /\ Kept' \subseteq Kept \cup {e}
    /\ evidence \subseteq evidence'

LEMMA LogSubmits ==
    ASSUME PipelineTypes, NEW e \in Events, Log(e), harness' = harness,
           harness # "direct" => e \in Anchored, evidence' = evidence \cup {e}
    PROVE  Submits(e) /\ e \in Kept'
  <1> USE DEF PipelineTypes
  <1>1. chain' = Append(chain, e) /\ ~On(chain, e) /\ pending_batch' = pending_batch
    BY DEF Log
  <1>2. /\ chain' \in Seq(Events) /\ Distinct(chain')
        /\ \A f \in Events : On(chain', f) <=> On(chain, f) \/ f = e
    BY <1>1, OnAppend
  <1>3. Kept' = Kept \cup {e}
    BY <1>1, <1>2 DEF Kept
  <1> QED
    BY <1>1, <1>2, <1>3 DEF Submits, Anchored

(* A part of a batch is recorded; b is what the batch was or becomes.      *)
LEMMA FlushSubmits ==
    ASSUME PipelineTypes, harness # "direct", harness' = harness, NEW b \in Seq(Events),
           NEW k \in 0 .. Len(b), Fresh(SubSeq(b, 1, k)),
           chain' = chain \o SubSeq(b, 1, k), pending_batch' = b,
           \A f \in Events : On(b, f) => f \in Anchored /\ f \in evidence',
           \A f \in Events : On(pending_batch, f) => On(b, f),
           evidence \subseteq evidence', evidence' \subseteq Events
    PROVE  /\ PipelineTypes' /\ Kept \subseteq Kept'
           /\ \A f \in Kept' : f \in Kept \/ On(b, f)
  <1> USE DEF PipelineTypes
  <1>1. /\ chain' \in Seq(Events) /\ Distinct(chain')
        /\ \A f \in Events : On(chain', f) <=> On(chain, f) \/ On(SubSeq(b, 1, k), f)
    BY OnPrefix, FreshConcat
  <1>2. \A f \in Events : On(SubSeq(b, 1, k), f) => On(b, f)
    BY OnPrefix
  <1>3. /\ \A f \in Events : f \in Kept' <=> On(chain, f) \/ On(b, f)
        /\ Kept' \subseteq Events
    BY <1>1, <1>2 DEF Kept
  <1> QED
    BY <1>1, <1>3 DEF Kept, Anchored

LEMMA BatchSubmits ==
    ASSUME PipelineTypes, harness # "direct", harness' = harness, NEW e \in Events,
           e \in Batched, evidence' = evidence \cup {e},
           \/ Batch(e)
           \/ FlushStops(Window(e))
    PROVE  Submits(e) /\ (Batch(e) => e \in Kept')
  <1> USE DEF PipelineTypes
  <1>1. /\ Window(e) \in Seq(Events)
        /\ \A f \in Events : On(Window(e), f) <=> On(pending_batch, f) \/ f = e
    BY OnAppend DEF Window
  <1>2. e \in Anchored
    BY DEF Batched, Anchored
  <1>3. CASE FlushStops(Window(e))
    <2>1. PICK k \in 0 .. Len(Window(e)) :
             Fresh(SubSeq(Window(e), 1, k)) /\ chain' = chain \o SubSeq(Window(e), 1, k)
      BY <1>3 DEF FlushStops
    <2>2. pending_batch' = Window(e)
      BY <1>3 DEF FlushStops
    <2>3. \A f \in Events : On(Window(e), f) => f \in Anchored /\ f \in evidence'
      BY <1>1, <1>2 DEF Kept
    <2>4. /\ PipelineTypes' /\ Kept \subseteq Kept'
          /\ \A f \in Kept' : f \in Kept \/ On(Window(e), f)
      BY <1>1, <2>1, <2>2, <2>3, FlushSubmits
    <2>5. e \in Kept'
      BY <1>1, <2>2 DEF Kept
    <2> QED
      BY <1>1, <2>4, <2>5 DEF Submits, Kept
  <1>4. CASE Batch(e) /\ pending_batch' = Window(e) /\ UNCHANGED chain
    <2>1. Kept' = Kept \cup {e}
      BY <1>1, <1>4 DEF Kept
    <2> QED
      BY <1>1, <1>2, <1>4, <2>1 DEF Submits, Anchored
  <1>5. CASE Fresh(Window(e)) /\ chain' = chain \o Window(e) /\ pending_batch' = <<>>
    <2>1. /\ chain' \in Seq(Events) /\ Distinct(chain')
          /\ \A f \in Events : On(chain', f) <=> On(chain, f) \/ On(Window(e), f)
      BY <1>1, <1>5, FreshConcat
    <2>2. Kept' = Kept \cup {e}
      BY <1>1, <1>5, <2>1, NothingOnEmpty DEF Kept
    <2> QED
      BY <1>2, <1>5, <2>1, <2>2, NothingOnEmpty DEF Submits, Anchored
  <1> QED
    BY <1>3, <1>4, <1>5 DEF Batch

LEMMA ReturnKeeps ==
    ASSUME PipelineTypes, harness' = harness, NEW e \in Events, SubmitReturns(e)
    PROVE  /\ Submits(e) /\ e \in evidence'
           /\ harness = "direct" \/ e \in Anchored => e \in Kept'
  <1>1. evidence' = evidence \cup {e}
    BY DEF SubmitReturns
  <1>2. CASE harness = "direct"
    BY <1>1, <1>2, LogSubmits DEF SubmitReturns
  <1>3. CASE harness # "direct" /\ e \in OffChain /\ UNCHANGED <<pending_batch, chain>>
    <2>1. Kept' = Kept
      BY <1>3 DEF Kept
    <2> QED
      BY <1>1, <1>3, <2>1 DEF Submits, PipelineTypes, Anchored
  <1>4. CASE harness # "direct" /\ e \in Immediate /\ Log(e)
    BY <1>1, <1>4, LogSubmits, ReplayAssumption DEF ReplayAssumption, Anchored
  <1>5. CASE harness # "direct" /\ Batch(e)
    <2>1. e \in Batched
      BY <1>5 DEF Batch
    <2> QED
      BY <1>1, <1>5, <2>1, BatchSubmits
  <1> QED
    BY <1>2, <1>3, <1>4, <1>5 DEF SubmitReturns

LEMMA RaiseKeeps ==
    ASSUME PipelineTypes, harness' = harness, NEW e \in Events, SubmitRaises(e)
    PROVE  Submits(e) /\ (harness = "direct" => UNCHANGED Kept)
  <1>1. CASE UNCHANGED <<chain, pending_batch>> /\ evidence' \in {evidence, evidence \cup {e}}
    <2>1. Kept' = Kept
      BY <1>1 DEF Kept
    <2> QED
      BY <1>1, <2>1 DEF Submits, PipelineTypes, Anchored
  <1>2. CASE harness # "direct" /\ evidence' = evidence \cup {e} /\ e \in Immediate /\ Log(e)
    BY <1>2, LogSubmits, ReplayAssumption DEF ReplayAssumption, Anchored
  <1>3. CASE /\ harness # "direct" /\ evidence' = evidence \cup {e}
             /\ e \in Batched /\ FlushStops(Window(e))
    BY <1>3, BatchSubmits
  <1> QED
    BY <1>1, <1>2, <1>3 DEF SubmitRaises, pvars

-----------------------------------------------------------------------------
LEMMA QuietKeeps ==
    ASSUME KeptInv, UNCHANGED <<harness, pvars>>, Committed' = Committed,
           phase' = "audit" => phase = "audit"
    PROVE  KeptInv'
  <1>1. Kept' = Kept
    BY DEF Kept, pvars
  <1> QED
    BY <1>1 DEF KeptInv, PipelineTypes, pvars, Distinct, Anchored

(* One submit and the outcome it gives its event.                          *)
LEMMA SubmitKeeps ==
    ASSUME KeptInv, harness' = harness, NEW e \in Events, phase # "audit", phase' # "audit",
           outcome[e] # "committed",
           \/ SubmitReturns(e) /\ Committed' = Committed \cup {e}
           \/ SubmitRaises(e) /\ Committed' = Committed
    PROVE  KeptInv'
  <1> USE DEF KeptInv
  <1>1. Committed \subseteq Events
    BY DEF Committed, With
  <1>2. CASE SubmitReturns(e) /\ Committed' = Committed \cup {e}
    BY <1>1, <1>2, ReturnKeeps DEF Submits, Anchored
  <1>3. CASE SubmitRaises(e) /\ Committed' = Committed
    BY <1>1, <1>3, RaiseKeeps DEF Submits, Anchored
  <1> QED
    BY <1>2, <1>3

LEMMA WorkerSubmits ==
    ASSUME ServiceInv, KeptInv, NEW w \in Workers, ReplayWorker(w) PROVE KeptInv'
  <1> USE DEF ServiceInv, IInv, TypeOK
  <1>1. UNCHANGED <<harness, phase>>
    BY DEF ReplayWorker
  <1>2. ASSUME CommitOk(w) \/ CommitRetry(w) \/ CommitGiveUp(w) PROVE KeptInv'
    <2>1. pc[w] = "commit" /\ item[w] \in Items
      BY <1>2 DEF CommitOk, CommitRetry, CommitGiveUp, CallCommit
    <2>2. PICK e \in Events : e = item[w].event
      BY <2>1 DEF Items
    <2>3. outcome[e] = "pending"
      BY <2>1, <2>2 DEF NoEventLost, PendingIsSomewhere, InHand, Trying
    <2>4. phase # "audit"
      BY <2>3 DEF AllCommitted
    <2>5. CASE CommitOk(w) /\ SubmitReturns(e)
      <3>1. Committed' = Committed \cup {e}
        BY <2>2, <2>5 DEF CommitOk, Committed, With
      <3> QED
        BY <1>1, <2>3, <2>4, <2>5, <3>1, SubmitKeeps
    <2>6. CASE (CommitRetry(w) \/ CommitGiveUp(w)) /\ SubmitRaises(e)
      <3>1. Committed' = Committed
        BY <2>2, <2>3, <2>6 DEF CommitRetry, CommitGiveUp, Committed, With
      <3> QED
        BY <1>1, <2>3, <2>4, <2>6, <3>1, SubmitKeeps
    <2>7. pc[w] \notin {"check", "get", "retry", "callback"}
      BY <2>1
    <2> QED
      BY <2>2, <2>5, <2>6, <2>7
      DEF ReplayWorker, CheckStop, Get, GetTimeout, RetryPut, Callback
  <1>3. ASSUME CheckStop(w) \/ Get(w) \/ GetTimeout(w) \/ RetryPut(w) \/ Callback(w),
               UNCHANGED pvars
        PROVE  KeptInv'
    <2>1. UNCHANGED outcome
      BY <1>3 DEF CheckStop, Get, GetTimeout, RetryPut, Callback, hvars
    <2>2. Committed' = Committed
      BY <2>1 DEF Committed, With
    <2> QED
      BY <1>1, <1>3, <2>2, QuietKeeps
  <1> QED
    BY <1>2, <1>3 DEF ReplayWorker

LEMMA CloseKeeps ==
    ASSUME ServiceInv, KeptInv, Close PROVE KeptInv'
  <1> USE DEF KeptInv, PipelineTypes
  <1>1. /\ phase = "close" /\ harness # "direct" /\ harness' = harness
        /\ UNCHANGED <<outcome, evidence>>
    BY DEF Close, At, GoTo, vars, hvars, ServiceInv
  <1>2. Committed' = Committed
    BY <1>1 DEF Committed, With
  <1>3. CASE Fresh(pending_batch) /\ chain' = chain \o pending_batch /\ pending_batch' = <<>>
    <2>1. /\ chain' \in Seq(Events) /\ Distinct(chain')
          /\ \A f \in Events : On(chain', f) <=> On(chain, f) \/ On(pending_batch, f)
      BY <1>3, FreshConcat
    <2>2. Kept' = Kept
      BY <1>3, <2>1, NothingOnEmpty DEF Kept
    <2> QED
      BY <1>1, <1>2, <1>3, <2>1, <2>2, NothingOnEmpty DEF Anchored
  <1>4. CASE FlushStops(pending_batch) /\ phase' = "raised"
    <2>1. PICK k \in 0 .. Len(pending_batch) :
             /\ Fresh(SubSeq(pending_batch, 1, k))
             /\ chain' = chain \o SubSeq(pending_batch, 1, k)
      BY <1>4 DEF FlushStops
    <2>2. pending_batch' = pending_batch
      BY <1>4 DEF FlushStops
    <2>3. \A f \in Events : On(pending_batch, f) => f \in Anchored /\ f \in evidence'
      BY <1>1 DEF Kept
    <2>4. PipelineTypes' /\ Kept \subseteq Kept'
      BY <1>1, <2>1, <2>2, <2>3, FlushSubmits
    <2> QED
      BY <1>1, <1>2, <1>4, <2>4
  <1> QED
    BY <1>3, <1>4 DEF Close, GoTo

LEMMA KeptNext ==
    ASSUME ServiceInv, KeptInv, [ReplayNext]_allvars PROVE KeptInv'
  <1>1. ASSUME UNCHANGED <<harness, pvars>>, UNCHANGED outcome \/ \E e \in Events : Enqueue(e),
               phase' = "audit" => phase = "audit"
        PROVE  KeptInv'
    <2>1. Committed' = Committed
      BY <1>1 DEF Enqueue, Committed, With, ServiceInv, IInv, TypeOK
    <2> QED
      BY <1>1, <2>1, QuietKeeps
  <1>2. ASSUME NEW e \in Events, SyncSubmit(e) PROVE KeptInv'
    <2>1. /\ harness' = harness /\ phase = "setup" /\ phase' # "audit" /\ outcome[e] = "new"
      BY <1>2 DEF SyncSubmit, SyncReturns, SyncRaises, SyncFrame, At
    <2>2. CASE SyncReturns(e)
      <3>1. Committed' = Committed \cup {e}
        BY <2>2 DEF SyncReturns, Committed, With, ServiceInv, IInv, TypeOK
      <3> QED
        BY <2>1, <2>2, <3>1, SubmitKeeps DEF SyncReturns
    <2>3. CASE SyncRaises(e)
      <3>1. Committed' = Committed
        BY <2>3 DEF SyncRaises, Committed, With
      <3> QED
        BY <2>1, <2>3, <3>1, SubmitKeeps DEF SyncRaises
    <2> QED
      BY <1>2, <2>2, <2>3 DEF SyncSubmit
  <1>3. CASE StartTrial \/ EnqueueEvent \/ StopTrial \/ Stopping
    <2>1. UNCHANGED <<harness, pvars>> /\ (phase' = "audit" => phase = "audit")
      BY <1>3 DEF StartTrial, EnqueueEvent, StopTrial, Stopping, GoTo, At, rvars
    <2>2. UNCHANGED outcome \/ \E e \in Events : Enqueue(e)
      BY <1>3 DEF StartTrial, EnqueueEvent, StopTrial, Stopping, Start, EnqueuePut, StopDrain,
                  StopStep, Drained, DrainDeadline, SignalStop, StopReturn, Join, hvars
    <2> QED
      BY <1>1, <2>1, <2>2
  <1>4. CASE Check \/ SyncDone \/ Audit \/ Done \/ UNCHANGED allvars
    <2>1. UNCHANGED <<harness, pvars, outcome>> /\ (phase' = "audit" => phase = "audit")
      BY <1>4 DEF Check, SyncDone, Audit, Done, GoTo, At, allvars, rvars, vars, hvars
    <2> QED
      BY <1>1, <2>1
  <1> QED
    BY <1>2, <1>3, <1>4, WorkerSubmits, CloseKeeps DEF ReplayNext, MainStep

LEMMA KeptHolds == ReplaySpec => []KeptInv
  BY KeptInits, KeptNext, ServiceHolds, PTL DEF ReplaySpec

(* A sequence without repetition is as long as the set of its elements.    *)
LEMMA DistinctLength ==
    ASSUME NEW s \in Seq(Events), Distinct(s), NEW S \in SUBSET Events,
           \A e \in Events : On(s, e) <=> e \in S
    PROVE  Cardinality(S) = Len(s)
  <1>1. Len(s) \in Nat /\ DOMAIN s = 1 .. Len(s) /\ s \in [1 .. Len(s) -> Events]
    BY LenProperties
  <1>2. \A i \in 1 .. Len(s) : s[i] \in S
    BY <1>1 DEF On
  <1>3. s \in Bijection(1 .. Len(s), S)
    BY <1>1, <1>2 DEF Bijection, Injection, Surjection, IsInjective, On, Distinct
  <1>4. ExistsBijection(1 .. Len(s), S)
    BY <1>3 DEF ExistsBijection
  <1> QED
    BY <1>1, <1>4, FS_CountingElements

(* What phase 3 takes "zero loss" to mean: a trial that gets as far as its *)
(* audit has every anchored event on the ledger exactly once, with its     *)
(* evidence, and a load test that stopped cleanly counted as committed     *)
(* what the ledger has (run_stage.py:308-327, stability_test.py:169-187).  *)
THEOREM ZeroLossIsAnchored == ReplaySpec => []ZeroLossMeansAnchored
  <1>1. ASSUME ServiceInv, KeptInv PROVE ZeroLossMeansAnchored
    <2> USE <1>1 DEF KeptInv, PipelineTypes
    <2>1. ASSUME phase = "audit"
          PROVE  /\ Len(chain) = Cardinality(Anchored)
                 /\ \A e \in Anchored : On(chain, e)
                 /\ Events \subseteq evidence
      <3>1. Committed = Events /\ harness # "direct" /\ pending_batch = <<>>
        BY <2>1 DEF ServiceInv, AllCommitted, Committed, With
      <3>2. Anchored \subseteq Events /\ Kept = Anchored
        BY <3>1 DEF Anchored
      <3>3. \A e \in Events : On(chain, e) <=> e \in Anchored
        BY <3>1, <3>2, NothingOnEmpty DEF Kept
      <3>4. Cardinality(Anchored) = Len(chain)
        BY <3>2, <3>3, DistinctLength
      <3> QED
        BY <3>1, <3>2, <3>3, <3>4
    <2>2. ASSUME harness = "direct", NEW e \in Events
          PROVE  outcome[e] = "committed" <=> On(chain, e)
      BY <2>2, NothingOnEmpty DEF Kept, Committed, With
    <2> QED
      BY <2>1, <2>2 DEF ZeroLossMeansAnchored
  <1> QED
    BY <1>1, ServiceHolds, KeptHolds, PTL
=============================================================================
