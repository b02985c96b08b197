----------------------- MODULE AsyncSubmissionProofs -----------------------
(***************************************************************************)
(* Proofs about AsyncSubmission for every number of events, workers and    *)
(* attempts and every capacity of the queue.                               *)
(***************************************************************************)
EXTENDS AsyncSubmission, SequenceTheorems, FiniteSetTheorems, TLAPS

-----------------------------------------------------------------------------
(* The strengthening of the type invariant and NoEventLost that is         *)
(* inductive.                                                              *)

(* The attempt count an item carries is the number of calls made for it,   *)
(* and an item in flight has attempts left.                                *)
AttemptsTravel ==
    /\ \A e \in Events : outcome[e] = "new" => calls[e] = 0
    /\ caller.at = "put" => calls[caller.event] = 0
    /\ \A i \in 1 .. Len(queue) :
          queue[i].attempt = calls[queue[i].event] /\ queue[i].attempt < MaxAttempts
    /\ \A w \in Workers :
          Trying(w) => item[w].attempt = calls[item[w].event] /\ item[w].attempt < MaxAttempts
    /\ GivenUpAfterEveryAttempt

IInv == TypeOK /\ NoEventLost /\ AttemptsTravel

-----------------------------------------------------------------------------
(* What a put and a get do to the queue.                                   *)

LEMMA AppendFacts ==
    ASSUME NEW q \in Seq(Items), NEW x \in Items
    PROVE  /\ Append(q, x) \in Seq(Items)
           /\ Len(Append(q, x)) = Len(q) + 1
           /\ Len(q) \in Nat
           /\ \A i \in 1 .. Len(q) : Append(q, x)[i] = q[i]
           /\ Append(q, x)[Len(q) + 1] = x
           /\ \A i \in 1 .. Len(q) : q[i] \in Items
  BY AppendProperties, LenProperties, ElementOfSeq

LEMMA TailFacts ==
    ASSUME NEW q \in Seq(Items), q # <<>>
    PROVE  /\ Head(q) = q[1] /\ Head(q) \in Items
           /\ Tail(q) \in Seq(Items)
           /\ Len(q) \in Nat \ {0}
           /\ Len(Tail(q)) = Len(q) - 1
           /\ \A i \in 1 .. Len(q) - 1 : Tail(q)[i] = q[i + 1]
  BY HeadTailProperties, EmptySeq, LenProperties

LEMMA QueueItems ==
    ASSUME TypeOK
    PROVE  \A i \in 1 .. Len(queue) : queue[i] \in Items /\ queue[i].event \in Events
  <1>1. \A i \in 1 .. Len(queue) : queue[i] \in Items
    BY AppendFacts, ElementOfSeq DEF TypeOK
  <1> QED
    BY <1>1 DEF Items

-----------------------------------------------------------------------------
LEMMA InitIInv == Init => IInv
  <1> SUFFICES ASSUME Init PROVE IInv
    OBVIOUS
  <1>1. queue \in Seq(Items) /\ Len(queue) = 0
    BY EmptySeq DEF Init
  <1>2. TypeOK
    BY <1>1 DEF Init, TypeOK, StopResults, NotStopped, WorkerPc, Ended, Outcomes, NoItem
  <1>3. NoEventLost
    BY <1>1, ServiceAssumption DEF Init, NoEventLost, PendingIsSomewhere, OnePlace, InCall, InQueue, InHand, Trying
  <1>4. AttemptsTravel
    BY <1>1, ServiceAssumption DEF Init, AttemptsTravel, GivenUpAfterEveryAttempt, Trying
  <1> QED
    BY <1>2, <1>3, <1>4 DEF IInv

-----------------------------------------------------------------------------
(* Type correctness.                                                       *)

LEMMA CallerTypes ==
    ASSUME TypeOK, CallerStep PROVE TypeOK'
  <1> USE DEF TypeOK, stats
  <1>1. CASE Start
    <2>1. PICK fresh \in SUBSET {w \in Workers : pc[w] = "unstarted"} :
             /\ pc' = [w \in Workers |-> IF w \in fresh THEN "check" ELSE pc[w]]
             /\ threads' = threads \cup fresh
      BY <1>1 DEF Start
    <2>2. pc' \in [Workers -> WorkerPc] /\ threads' \subseteq Workers
      BY <2>1 DEF WorkerPc
    <2>3. \A w \in Workers : pc'[w] \in {"commit", "retry", "callback"} => item[w] \in Items
      BY <2>1
    <2>4. stop_result' \in StopResults /\ joining' \subseteq threads'
      BY <1>1, <2>1 DEF Start, NotStopped, StopResults
    <2> QED
      BY <1>1, <2>2, <2>3, <2>4 DEF Start, hvars
  <1>2. ASSUME NEW e \in Events, Enqueue(e) PROVE TypeOK'
    BY <1>2 DEF Enqueue, wvars, NotStopped, StopResults, Outcomes
  <1>3. CASE EnqueuePut
    <2>1. [event |-> caller.event, attempt |-> 0] \in Items
      BY <1>3, ServiceAssumption DEF EnqueuePut, Items
    <2>2. queue' \in Seq(Items)
      BY <1>3, <2>1, AppendFacts DEF EnqueuePut
    <2> QED
      BY <1>3, <2>2 DEF EnqueuePut, wvars, hvars
  <1>4. ASSUME NEW how \in {"drained", "deadline", "skipped"}, SignalStop(how) PROVE TypeOK'
    BY <1>4 DEF SignalStop, StopResults, wvars, hvars
  <1>5. CASE StopDrain
    BY <1>5 DEF StopDrain, svars, wvars, hvars, NotStopped, StopResults
  <1>6. ASSUME NEW w \in Workers, Join(w) PROVE TypeOK'
    BY <1>6 DEF Join, svars, wvars, hvars, StopResults
  <1>7. CASE StopReturn
    BY <1>7 DEF StopReturn, wvars, StopResults
  <1> QED
    BY <1>1, <1>2, <1>3, <1>4, <1>5, <1>6, <1>7
    DEF CallerStep, StopStep, StopNow, Drained, DrainDeadline

LEMMA WorkerTypes ==
    ASSUME TypeOK, NEW w \in Workers, WorkerStep(w) PROVE TypeOK'
  <1> USE DEF TypeOK, stats, Goto, WorkerPc, Ended
  <1>1. CASE CheckStop(w)
    BY <1>1 DEF CheckStop, svars, cvars, hvars
  <1>2. CASE Get(w)
    <2>1. Head(queue) \in Items /\ Tail(queue) \in Seq(Items)
      BY <1>2, TailFacts DEF Get
    <2> QED
      BY <1>2, <2>1 DEF Get, cvars, hvars
  <1>3. CASE GetTimeout(w)
    BY <1>3 DEF GetTimeout, svars, cvars, hvars
  <1>4. CASE CommitOk(w)
    <2>1. item[w] \in Items /\ item[w].event \in Events
      BY <1>4 DEF CommitOk, CallCommit, Items
    <2> QED
      BY <1>4, <2>1 DEF CommitOk, CallCommit, cvars, Outcomes
  <1>5. CASE CommitRetry(w)
    <2>1. item[w] \in Items
      BY <1>5 DEF CommitRetry, CallCommit
    <2>2. [event |-> item[w].event, attempt |-> Attempt(w)] \in Items
      BY <1>5, <2>1, ServiceAssumption DEF CommitRetry, Attempt, Items
    <2>3. calls' \in [Events -> Nat]
      BY <1>5, <2>1 DEF CommitRetry, CallCommit, Items
    <2>4. UNCHANGED <<queue, stop_event, threads, stats, dead_letters, caller, joining,
                      stop_result, outcome, reported, unclean_stops>>
      BY <1>5 DEF CommitRetry, svars, cvars
    <2>5. /\ item' \in [Workers -> Items \cup {NoItem}]
          /\ pc' \in [Workers -> WorkerPc]
          /\ \A v \in Workers : pc'[v] \in {"commit", "retry", "callback"} => item'[v] \in Items
      BY <1>5, <2>2 DEF CommitRetry
    <2> QED
      BY <2>3, <2>4, <2>5
  <1>6. CASE CommitGiveUp(w)
    <2>1. item[w] \in Items /\ item[w].event \in Events
      BY <1>6 DEF CommitGiveUp, CallCommit, Items
    <2> QED
      BY <1>6, <2>1 DEF CommitGiveUp, CallCommit, cvars, Outcomes
  <1>7. CASE RetryPut(w)
    <2>1. Append(queue, item[w]) \in Seq(Items)
      BY <1>7, AppendFacts DEF RetryPut
    <2> QED
      BY <1>7, <2>1 DEF RetryPut, cvars, hvars
  <1>8. CASE Callback(w) \/ CallbackRaises(w)
    <2>1. item[w].event \in Events
      BY <1>8 DEF Callback, CallbackRaises, Items
    <2> QED
      BY <1>8, <2>1 DEF Callback, CallbackRaises, ListDeadLetter, cvars, hvars
  <1> QED
    BY <1>1, <1>2, <1>3, <1>4, <1>5, <1>6, <1>7, <1>8 DEF WorkerStep, Finish

LEMMA NextTypes == TypeOK /\ [Next]_vars => TypeOK'
  <1>1. ASSUME TypeOK, UNCHANGED vars PROVE TypeOK'
    BY <1>1 DEF TypeOK, stats, vars, svars, wvars, cvars, hvars
  <1> QED
    BY <1>1, CallerTypes, WorkerTypes DEF Next

(* TypeOK holds in every reachable state: in particular an item never      *)
(* carries an attempt number beyond max_attempts.                          *)
THEOREM TypeCorrect == Spec => []TypeOK
  <1>1. Init => TypeOK
    BY InitIInv DEF IInv
  <1> QED
    BY <1>1, NextTypes, PTL DEF Spec
-----------------------------------------------------------------------------
(* No event is lost, doubled or given up early.                            *)

Quiet(w) == Trying(w)' = Trying(w) /\ (Trying(w) => item'[w] = item[w])

(* A step that leaves the queue, the call of enqueue and the items being   *)
(* tried alone keeps the invariant.                                        *)
LEMMA QuietStep ==
    ASSUME IInv, UNCHANGED <<queue, outcome, calls>>,
           caller' = caller \/ (caller.at # "put" /\ caller'.at # "put"),
           \A w \in Workers : Quiet(w)
    PROVE  NoEventLost' /\ AttemptsTravel'
  <1>1. \A e \in Events : /\ InCall(e)' <=> InCall(e)
                          /\ InQueue(e)' <=> InQueue(e)
                          /\ InHand(e)' <=> InHand(e)
    BY DEF InCall, InQueue, InHand, Quiet
  <1>2. NoEventLost'
    BY <1>1 DEF IInv, NoEventLost, PendingIsSomewhere, OnePlace, Quiet
  <1>3. AttemptsTravel'
    BY DEF IInv, AttemptsTravel, GivenUpAfterEveryAttempt, Quiet
  <1> QED
    BY <1>2, <1>3

(* The steps of stop() and start(), and the worker's steps away from its   *)
(* item, are quiet.                                                        *)
LEMMA CallerQuiet ==
    ASSUME IInv, \/ Start \/ StopNow \/ StopDrain \/ Drained \/ DrainDeadline
                 \/ StopReturn \/ \E w \in Workers : Join(w)
    PROVE  NoEventLost' /\ AttemptsTravel'
  <1>1. UNCHANGED <<queue, outcome, calls, item>>
    BY DEF Start, StopNow, StopDrain, Drained, DrainDeadline, SignalStop, StopReturn, Join,
           hvars, svars, wvars
  <1>2. caller' = caller \/ (caller.at # "put" /\ caller'.at # "put")
    BY DEF Start, StopNow, StopDrain, Drained, DrainDeadline, SignalStop, StopReturn, Join
  <1>3. \A w \in Workers : Trying(w)' = Trying(w)
    BY DEF Start, StopNow, StopDrain, Drained, DrainDeadline, SignalStop, StopReturn, Join,
           wvars, Trying, IInv, TypeOK
  <1> QED
    BY <1>1, <1>2, <1>3, QuietStep DEF Quiet

LEMMA WorkerQuiet ==
    ASSUME IInv, NEW w \in Workers,
           CheckStop(w) \/ GetTimeout(w) \/ Callback(w) \/ CallbackRaises(w)
    PROVE  NoEventLost' /\ AttemptsTravel'
  <1>1. UNCHANGED <<queue, outcome, calls, caller>>
    BY DEF CheckStop, GetTimeout, Callback, CallbackRaises, svars, cvars, hvars
  <1>2. \A v \in Workers : Quiet(v)
    BY DEF CheckStop, GetTimeout, Callback, CallbackRaises, Goto, Quiet, Trying, IInv, TypeOK
  <1> QED
    BY <1>1, <1>2, QuietStep

(* enqueue(), first half: the event moves from nowhere to the call.        *)
LEMMA EnqueueKeeps ==
    ASSUME IInv, NEW e \in Events, Enqueue(e)
    PROVE  NoEventLost' /\ AttemptsTravel'
  <1> USE DEF IInv, TypeOK
  <1>1. /\ caller.at = "idle" /\ outcome[e] = "new"
        /\ outcome' = [outcome EXCEPT ![e] = "pending"]
        /\ caller' = [at |-> "put", event |-> e]
        /\ UNCHANGED <<queue, pc, item, calls>>
    BY DEF Enqueue, wvars
  <1>2. ~InQueue(e) /\ ~InHand(e)
    BY <1>1 DEF NoEventLost, PendingIsSomewhere
  <1>3. \A f \in Events : /\ InQueue(f)' <=> InQueue(f)
                          /\ InHand(f)' <=> InHand(f)
                          /\ InCall(f)' <=> f = e
                          /\ ~InCall(f)
    BY <1>1 DEF InQueue, InHand, InCall, Trying
  <1>4. PendingIsSomewhere'
    BY <1>1, <1>3 DEF NoEventLost, PendingIsSomewhere
  <1>5. OnePlace'
    BY <1>1, <1>2, <1>3 DEF NoEventLost, OnePlace, Trying
  <1>6. AttemptsTravel'
    BY <1>1 DEF AttemptsTravel, GivenUpAfterEveryAttempt, Trying
  <1> QED
    BY <1>4, <1>5, <1>6 DEF NoEventLost

(* A put of an item that is in no queue and in no other hand: enqueue()'s  *)
(* and the worker's.                                                       *)
LEMMA PutMoves ==
    ASSUME IInv, NEW x \in Items, queue' = Append(queue, x)
    PROVE  /\ \A f \in Events : InQueue(f)' <=> InQueue(f) \/ f = x.event
           /\ ~InQueue(x.event) =>
                 \A i, j \in 1 .. Len(queue') : queue'[i].event = queue'[j].event => i = j
           /\ \A i \in 1 .. Len(queue') :
                 queue'[i] = x \/ \E j \in 1 .. Len(queue) : queue'[i] = queue[j]
  <1>1. /\ Len(queue') = Len(queue) + 1 /\ Len(queue) \in Nat
        /\ \A i \in 1 .. Len(queue) : queue'[i] = queue[i]
        /\ queue'[Len(queue) + 1] = x
    BY AppendFacts DEF IInv, TypeOK
  <1>2. \A f \in Events : InQueue(f)' <=> InQueue(f) \/ f = x.event
    <2> TAKE f \in Events
    <2>1. ASSUME InQueue(f)' PROVE InQueue(f) \/ f = x.event
      BY <1>1, <2>1 DEF InQueue
    <2>2. ASSUME InQueue(f) PROVE InQueue(f)'
      BY <1>1, <2>2 DEF InQueue
    <2>3. ASSUME f = x.event PROVE InQueue(f)'
      BY <1>1, <2>3 DEF InQueue
    <2> QED
      BY <2>1, <2>2, <2>3
  <1>3. ~InQueue(x.event) =>
           \A i, j \in 1 .. Len(queue') : queue'[i].event = queue'[j].event => i = j
    BY <1>1 DEF InQueue, IInv, NoEventLost, OnePlace
  <1>4. \A i \in 1 .. Len(queue') :
           queue'[i] = x \/ \E j \in 1 .. Len(queue) : queue'[i] = queue[j]
    BY <1>1
  <1> QED
    BY <1>2, <1>3, <1>4

LEMMA EnqueuePutKeeps ==
    ASSUME IInv, EnqueuePut
    PROVE  NoEventLost' /\ AttemptsTravel'
  <1> USE DEF IInv, TypeOK
  <1> DEFINE e == caller.event
             x == [event |-> e, attempt |-> 0]
  <1>1. /\ caller.at = "put" /\ e \in Events /\ x \in Items
        /\ queue' = Append(queue, x)
        /\ caller'.at = "idle"
        /\ UNCHANGED <<outcome, calls, pc, item>>
    BY ServiceAssumption DEF EnqueuePut, wvars, hvars, Items
  <1>2. InCall(e) /\ ~InQueue(e) /\ ~InHand(e) /\ calls[e] = 0
    BY <1>1 DEF InCall, NoEventLost, OnePlace, AttemptsTravel
  <1>3. \A f \in Events : InQueue(f)' <=> InQueue(f) \/ f = e
    BY <1>1, PutMoves
  <1>4. \A f \in Events : /\ InHand(f)' <=> InHand(f)
                          /\ ~InCall(f)'
                          /\ InCall(f) <=> f = e
    BY <1>1 DEF InHand, InCall, Trying
  <1>5. PendingIsSomewhere'
    BY <1>1, <1>3, <1>4 DEF NoEventLost, PendingIsSomewhere
  <1>6. \A i, j \in 1 .. Len(queue') : queue'[i].event = queue'[j].event => i = j
    BY <1>1, <1>2, PutMoves
  <1>7. OnePlace'
    BY <1>1, <1>2, <1>3, <1>4, <1>6 DEF NoEventLost, OnePlace, Trying
  <1>8. \A i \in 1 .. Len(queue') :
           queue'[i].attempt = calls[queue'[i].event] /\ queue'[i].attempt < MaxAttempts
    <2> TAKE i \in 1 .. Len(queue')
    <2>1. CASE queue'[i] = x
      BY <2>1, <1>2, ServiceAssumption
    <2>2. CASE \E j \in 1 .. Len(queue) : queue'[i] = queue[j]
      BY <2>2 DEF AttemptsTravel
    <2> QED
      BY <2>1, <2>2, <1>1, PutMoves
  <1>9. AttemptsTravel'
    BY <1>1, <1>8 DEF AttemptsTravel, GivenUpAfterEveryAttempt, Trying
  <1> QED
    BY <1>5, <1>7, <1>9 DEF NoEventLost

(* backend.get: the head of the queue moves into the hand of the worker.   *)
LEMMA GetKeeps ==
    ASSUME IInv, NEW w \in Workers, Get(w)
    PROVE  NoEventLost' /\ AttemptsTravel'
  <1> USE DEF IInv, TypeOK
  <1> PICK x : x = queue[1]
    OBVIOUS
  <1>1. /\ pc[w] = "get" /\ x \in Items
        /\ item' = [item EXCEPT ![w] = x]
        /\ pc' = [pc EXCEPT ![w] = "commit"]
        /\ UNCHANGED <<outcome, calls, caller>>
    BY TailFacts DEF Get, Goto, cvars, hvars
  <1>2. /\ Len(queue) \in Nat \ {0} /\ Len(queue') = Len(queue) - 1
        /\ \A i \in 1 .. Len(queue') : queue'[i] = queue[i + 1]
    BY TailFacts DEF Get
  <1>3. InQueue(x.event) /\ ~InHand(x.event) /\ x.event \in Events
    <2>1. x.event \in Events
      BY <1>1 DEF Items
    <2>2. 1 \in 1 .. Len(queue)
      BY <1>2
    <2> QED
      BY <2>1, <2>2 DEF InQueue, NoEventLost, OnePlace
  <1>4. \A f \in Events : InQueue(f) <=> InQueue(f)' \/ f = x.event
    <2> TAKE f \in Events
    <2>1. ASSUME InQueue(f), f # x.event PROVE InQueue(f)'
      <3>1. PICK i \in 1 .. Len(queue) : queue[i].event = f
        BY <2>1 DEF InQueue
      <3>2. i - 1 \in 1 .. Len(queue') /\ queue'[i - 1] = queue[i]
        BY <1>2, <2>1, <3>1
      <3> QED
        BY <3>1, <3>2 DEF InQueue
    <2>2. ASSUME InQueue(f)' PROVE InQueue(f)
      <3>1. PICK i \in 1 .. Len(queue') : queue'[i].event = f
        BY <2>2 DEF InQueue
      <3>2. i + 1 \in 1 .. Len(queue) /\ queue'[i] = queue[i + 1]
        BY <1>2, <3>1
      <3> QED
        BY <3>1, <3>2 DEF InQueue
    <2> QED
      BY <2>1, <2>2, <1>3
  <1>5. ~InQueue(x.event)'
    <2> SUFFICES ASSUME NEW i \in 1 .. Len(queue'), queue'[i].event = x.event
                 PROVE  FALSE
      BY DEF InQueue
    <2>1. i + 1 \in 1 .. Len(queue) /\ 1 \in 1 .. Len(queue) /\ queue'[i] = queue[i + 1]
      BY <1>2
    <2> QED
      BY <2>1 DEF NoEventLost, OnePlace
  <1>6. \A f \in Events : /\ InHand(f)' <=> InHand(f) \/ f = x.event
                          /\ InCall(f)' <=> InCall(f)
    BY <1>1 DEF InHand, InCall, Trying
  <1>7. PendingIsSomewhere'
    BY <1>1, <1>4, <1>6 DEF NoEventLost, PendingIsSomewhere
  <1>8. \A i, j \in 1 .. Len(queue') : queue'[i].event = queue'[j].event => i = j
    <2> TAKE i, j \in 1 .. Len(queue')
    <2>1. i + 1 \in 1 .. Len(queue) /\ queue'[i] = queue[i + 1]
      BY <1>2
    <2>2. j + 1 \in 1 .. Len(queue) /\ queue'[j] = queue[j + 1]
      BY <1>2
    <2>3. queue'[i].event = queue'[j].event => i + 1 = j + 1
      BY <2>1, <2>2 DEF NoEventLost, OnePlace
    <2>4. i + 1 = j + 1 => i = j
      OBVIOUS
    <2> QED
      BY <2>3, <2>4
  <1>9. \A u, v \in Workers :
           Trying(u)' /\ Trying(v)' /\ item'[u].event = item'[v].event => u = v
    BY <1>1, <1>3 DEF NoEventLost, OnePlace, InHand, Trying
  <1>10. OnePlace'
    <2>1. \A f \in Events : ~(InQueue(f)' /\ InHand(f)')
      BY <1>4, <1>5, <1>6 DEF NoEventLost, OnePlace
    <2>2. \A f \in Events : InCall(f)' => ~InQueue(f)' /\ ~InHand(f)'
      BY <1>3, <1>4, <1>6 DEF NoEventLost, OnePlace
    <2> QED
      BY <1>8, <1>9, <2>1, <2>2 DEF OnePlace
  <1>11. \A i \in 1 .. Len(queue') :
           queue'[i].attempt = calls[queue'[i].event] /\ queue'[i].attempt < MaxAttempts
    <2> TAKE i \in 1 .. Len(queue')
    <2>1. i + 1 \in 1 .. Len(queue) /\ queue'[i] = queue[i + 1]
      BY <1>2
    <2> QED
      BY <2>1 DEF AttemptsTravel
  <1>12. x.attempt = calls[x.event] /\ x.attempt < MaxAttempts
    BY <1>2 DEF AttemptsTravel
  <1>13. AttemptsTravel'
    BY <1>1, <1>11, <1>12 DEF AttemptsTravel, GivenUpAfterEveryAttempt, Trying
  <1> QED
    BY <1>7, <1>10, <1>13 DEF NoEventLost

(* The end of an item: record_commit or record_dead_letter.                *)
LEMMA ResultKeeps ==
    ASSUME IInv, NEW w \in Workers, CommitOk(w) \/ CommitGiveUp(w)
    PROVE  NoEventLost' /\ AttemptsTravel'
  <1> USE DEF IInv, TypeOK
  <1> DEFINE e == item[w].event
  <1>1. /\ pc[w] = "commit" /\ Trying(w) /\ e \in Events
        /\ pc' = [pc EXCEPT ![w] = "callback"]
        /\ calls' = [calls EXCEPT ![e] = @ + 1]
        /\ UNCHANGED <<queue, caller, item>>
    BY DEF CommitOk, CommitGiveUp, CallCommit, Goto, Trying, Items, cvars
  <1>2. \E o \in {"committed", "dead_lettered"} :
           /\ outcome' = [outcome EXCEPT ![e] = o]
           /\ o = "dead_lettered" => ~(item[w].attempt + 1 < MaxAttempts)
    BY DEF CommitOk, CommitGiveUp, Attempt
  <1>3. InHand(e) /\ ~InQueue(e) /\ ~InCall(e)
    BY <1>1 DEF InHand, NoEventLost, OnePlace
  <1>4. \A f \in Events : /\ InHand(f)' <=> InHand(f) /\ f # e
                          /\ InQueue(f)' <=> InQueue(f)
                          /\ InCall(f)' <=> InCall(f)
    BY <1>1 DEF InHand, InQueue, InCall, Trying, NoEventLost, OnePlace
  <1>5. PendingIsSomewhere'
    BY <1>1, <1>2, <1>3, <1>4 DEF NoEventLost, PendingIsSomewhere
  <1>6. \A v \in Workers : Trying(v)' <=> Trying(v) /\ v # w
    BY <1>1 DEF Trying
  <1>7. OnePlace'
    BY <1>1, <1>4, <1>6 DEF NoEventLost, OnePlace
  <1>8. item[w].attempt = calls[e] /\ item[w].attempt < MaxAttempts
    BY <1>1 DEF AttemptsTravel
  <1>9. GivenUpAfterEveryAttempt'
    <2> SUFFICES ASSUME NEW f \in Events
                 PROVE  /\ calls'[f] <= MaxAttempts
                        /\ outcome'[f] = "dead_lettered" => calls'[f] = MaxAttempts
      BY DEF GivenUpAfterEveryAttempt
    <2>1. CASE f = e
      BY <2>1, <1>1, <1>2, <1>8, ServiceAssumption
    <2>2. CASE f # e
      BY <2>2, <1>1, <1>2 DEF AttemptsTravel, GivenUpAfterEveryAttempt
    <2> QED
      BY <2>1, <2>2
  <1>10. \A i \in 1 .. Len(queue) : queue[i].event # e
    BY <1>3 DEF InQueue
  <1>11. \A v \in Workers : Trying(v) /\ v # w => item[v].event # e
    BY <1>1 DEF NoEventLost, OnePlace
  <1>12. \A i \in 1 .. Len(queue) : queue[i].event \in Events
    BY QueueItems
  <1>13. \A v \in Workers : Trying(v) => item[v].event \in Events
    BY DEF Trying, Items
  <1>14. AttemptsTravel'
    BY <1>1, <1>2, <1>3, <1>6, <1>9, <1>10, <1>11, <1>12, <1>13
    DEF AttemptsTravel, InCall
  <1> QED
    BY <1>5, <1>7, <1>14 DEF NoEventLost

(* commit_fn has failed and the worker keeps the item, to put it back.     *)
LEMMA CommitRetryKeeps ==
    ASSUME IInv, NEW w \in Workers, CommitRetry(w)
    PROVE  NoEventLost' /\ AttemptsTravel'
  <1> USE DEF IInv, TypeOK
  <1> DEFINE e == item[w].event
             x == [event |-> e, attempt |-> item[w].attempt + 1]
  <1>1. /\ pc[w] = "commit" /\ Trying(w) /\ e \in Events
        /\ pc' = [pc EXCEPT ![w] = "retry"]
        /\ item' = [item EXCEPT ![w] = x]
        /\ calls' = [calls EXCEPT ![e] = @ + 1]
        /\ x.attempt < MaxAttempts
        /\ UNCHANGED <<queue, caller, outcome>>
    BY DEF CommitRetry, CallCommit, Attempt, Goto, Trying, Items, svars, cvars
  <1>2. \A v \in Workers : Trying(v)' = Trying(v) /\ item'[v].event = item[v].event
    BY <1>1 DEF Trying
  <1>3. \A f \in Events : /\ InHand(f)' <=> InHand(f)
                          /\ InQueue(f)' <=> InQueue(f)
                          /\ InCall(f)' <=> InCall(f)
    BY <1>1, <1>2 DEF InHand, InQueue, InCall
  <1>4. NoEventLost'
    BY <1>1, <1>2, <1>3 DEF NoEventLost, PendingIsSomewhere, OnePlace
  <1>5. InHand(e) /\ ~InQueue(e) /\ ~InCall(e)
    BY <1>1 DEF InHand, NoEventLost, OnePlace
  <1>6. x.attempt = calls'[e] /\ outcome[e] = "pending"
    BY <1>1, <1>5 DEF AttemptsTravel, NoEventLost, PendingIsSomewhere
  <1>7. \A i \in 1 .. Len(queue) : queue[i].event \in Events /\ queue[i].event # e
    BY <1>5, QueueItems DEF InQueue
  <1>8. \A v \in Workers : Trying(v) => /\ item[v].event \in Events
                                        /\ v # w => item[v].event # e
    BY <1>1 DEF Trying, Items, NoEventLost, OnePlace
  <1>9. GivenUpAfterEveryAttempt'
    BY <1>1, <1>6, ServiceAssumption DEF AttemptsTravel, GivenUpAfterEveryAttempt
  <1>10. \A v \in Workers :
           Trying(v)' => item'[v].attempt = calls'[item'[v].event] /\ item'[v].attempt < MaxAttempts
    <2> TAKE v \in Workers
    <2>1. CASE v = w
      BY <2>1, <1>1, <1>6
    <2>2. CASE v # w
      BY <2>2, <1>1, <1>2, <1>8 DEF AttemptsTravel
    <2> QED
      BY <2>1, <2>2
  <1>11. AttemptsTravel'
    BY <1>1, <1>5, <1>6, <1>7, <1>9, <1>10 DEF AttemptsTravel, InCall
  <1> QED
    BY <1>4, <1>11

(* The worker's put: the item moves from its hand to the queue.            *)
LEMMA RetryPutKeeps ==
    ASSUME IInv, NEW w \in Workers, RetryPut(w)
    PROVE  NoEventLost' /\ AttemptsTravel'
  <1> USE DEF IInv, TypeOK
  <1> DEFINE x == item[w]
             e == x.event
  <1>1. /\ pc[w] = "retry" /\ Trying(w) /\ x \in Items /\ e \in Events
        /\ queue' = Append(queue, x)
        /\ pc' = [pc EXCEPT ![w] = "check"]
        /\ \A v \in Workers : v # w => item'[v] = item[v]
        /\ UNCHANGED <<outcome, calls, caller>>
    BY DEF RetryPut, Goto, Trying, Items, cvars, hvars
  <1>2. \A v \in Workers : Trying(v)' <=> Trying(v) /\ v # w
    BY <1>1 DEF Trying
  <1>3. InHand(e) /\ ~InQueue(e) /\ ~InCall(e)
    BY <1>1 DEF InHand, NoEventLost, OnePlace
  <1>4. \A f \in Events : InQueue(f)' <=> InQueue(f) \/ f = e
    BY <1>1, PutMoves
  <1>5. \A f \in Events : /\ InHand(f)' <=> InHand(f) /\ f # e
                          /\ InCall(f)' <=> InCall(f)
    BY <1>1, <1>2 DEF InHand, InCall, NoEventLost, OnePlace
  <1>6. PendingIsSomewhere'
    BY <1>1, <1>3, <1>4, <1>5 DEF NoEventLost, PendingIsSomewhere
  <1>7. \A i, j \in 1 .. Len(queue') : queue'[i].event = queue'[j].event => i = j
    BY <1>1, <1>3, PutMoves
  <1>8. OnePlace'
    BY <1>1, <1>2, <1>3, <1>4, <1>5, <1>7 DEF NoEventLost, OnePlace
  <1>9. \A i \in 1 .. Len(queue') :
           queue'[i].attempt = calls[queue'[i].event] /\ queue'[i].attempt < MaxAttempts
    <2> TAKE i \in 1 .. Len(queue')
    <2>1. CASE queue'[i] = x
      BY <2>1, <1>1 DEF AttemptsTravel
    <2>2. CASE \E j \in 1 .. Len(queue) : queue'[i] = queue[j]
      BY <2>2 DEF AttemptsTravel
    <2> QED
      BY <2>1, <2>2, <1>1, PutMoves
  <1>10. AttemptsTravel'
    BY <1>1, <1>2, <1>9 DEF AttemptsTravel, GivenUpAfterEveryAttempt
  <1> QED
    BY <1>6, <1>8, <1>10 DEF NoEventLost

-----------------------------------------------------------------------------
LEMMA NextIInv == IInv /\ [Next]_vars => IInv'
  <1> SUFFICES ASSUME IInv, [Next]_vars PROVE IInv'
    OBVIOUS
  <1>1. TypeOK'
    BY NextTypes DEF IInv
  <1>2. NoEventLost' /\ AttemptsTravel'
    <2>1. CASE UNCHANGED vars
      <3>1. \A w \in Workers : Quiet(w)
        BY <2>1 DEF vars, wvars, Quiet, Trying
      <3> QED
        BY <2>1, <3>1, QuietStep DEF vars, svars, cvars, hvars
    <2>2. ASSUME NEW e \in Events, Enqueue(e) PROVE NoEventLost' /\ AttemptsTravel'
      BY <2>2, EnqueueKeeps
    <2>3. CASE EnqueuePut
      BY <2>3, EnqueuePutKeeps
    <2>4. CASE \/ Start \/ StopNow \/ StopDrain \/ Drained \/ DrainDeadline
               \/ StopReturn \/ \E w \in Workers : Join(w)
      BY <2>4, CallerQuiet
    <2>5. ASSUME NEW w \in Workers, WorkerStep(w) PROVE NoEventLost' /\ AttemptsTravel'
      BY <2>5, WorkerQuiet, GetKeeps, ResultKeeps, CommitRetryKeeps, RetryPutKeeps
      DEF WorkerStep, Finish
    <2> QED
      BY <2>1, <2>2, <2>3, <2>4, <2>5 DEF Next, CallerStep, StopStep
  <1> QED
    BY <1>1, <1>2 DEF IInv

LEMMA InvariantHolds == Spec => []IInv
  BY InitIInv, NextIInv, PTL DEF Spec

(* No accepted event is lost or doubled: until it has its result it is in  *)
(* exactly one of the caller's hand, the queue and one worker's hands.     *)
THEOREM NothingIsLost == Spec => []NoEventLost
  <1>1. IInv => NoEventLost
    BY DEF IInv
  <1> QED
    BY <1>1, InvariantHolds, PTL

(* An event is dead-lettered only after max_attempts calls of commit_fn,   *)
(* and commit_fn is never called for it more often.                        *)
THEOREM GivenUpLast == Spec => []GivenUpAfterEveryAttempt
  <1>1. IInv => GivenUpAfterEveryAttempt
    BY DEF IInv, AttemptsTravel
  <1> QED
    BY <1>1, InvariantHolds, PTL

-----------------------------------------------------------------------------
(* The counters count.                                                     *)

With(o) == {e \in Events : outcome[e] = o}

CountersInv ==
    /\ submitted = Cardinality(Submitted)
    /\ committed = Cardinality(With("committed"))
    /\ dead_lettered = Cardinality(With("dead_lettered"))

LEMMA CountersInit == Init => CountersInv
  <1> SUFFICES ASSUME Init PROVE CountersInv
    OBVIOUS
  <1>1. Submitted = {} /\ With("committed") = {} /\ With("dead_lettered") = {}
    BY DEF Init, Submitted, With
  <1> QED
    BY <1>1, FS_EmptySet DEF Init, CountersInv

(* One event changes from outcome to outcome.                              *)
LEMMA OneMore ==
    ASSUME NEW S \in SUBSET Events, NEW e \in Events, e \notin S
    PROVE  Cardinality(S \cup {e}) = Cardinality(S) + 1
  BY ServiceAssumption, FS_Subset, FS_AddElement DEF ServiceAssumption

LEMMA CountersNext ==
    ASSUME IInv, CountersInv, [Next]_vars PROVE CountersInv'
  <1> USE DEF CountersInv
  <1>1. ASSUME NEW e \in Events, Enqueue(e) PROVE CountersInv'
    <2>1. /\ Submitted' = Submitted \cup {e} /\ e \notin Submitted
          /\ With("committed")' = With("committed")
          /\ With("dead_lettered")' = With("dead_lettered")
      BY <1>1 DEF Enqueue, Submitted, With, IInv, TypeOK
    <2>2. Submitted \in SUBSET Events
      BY DEF Submitted
    <2> QED
      BY <1>1, <2>1, <2>2, OneMore DEF Enqueue
  <1>2. ASSUME NEW w \in Workers, CommitOk(w) \/ CommitGiveUp(w) PROVE CountersInv'
    <2> DEFINE e == item[w].event
    <2>1. e \in Events /\ InHand(e)
      BY <1>2 DEF CommitOk, CommitGiveUp, CallCommit, InHand, Trying, IInv, TypeOK, Items
    <2>2. outcome[e] = "pending"
      BY <2>1 DEF IInv, NoEventLost, PendingIsSomewhere
    <2> PICK f \in Events : f = e
      BY <2>1
    <2>3. CASE CommitOk(w)
      <3>1. /\ Submitted' = Submitted
            /\ With("committed")' = With("committed") \cup {f} /\ f \notin With("committed")
            /\ With("dead_lettered")' = With("dead_lettered")
        BY <2>2, <2>3 DEF CommitOk, Submitted, With, IInv, TypeOK
      <3>2. With("committed") \in SUBSET Events
        BY DEF With
      <3> QED
        BY <2>3, <3>1, <3>2, OneMore DEF CommitOk
    <2>4. CASE CommitGiveUp(w)
      <3>1. /\ Submitted' = Submitted
            /\ With("committed")' = With("committed")
            /\ With("dead_lettered")' = With("dead_lettered") \cup {f}
            /\ f \notin With("dead_lettered")
        BY <2>2, <2>4 DEF CommitGiveUp, Submitted, With, IInv, TypeOK
      <3>2. With("dead_lettered") \in SUBSET Events
        BY DEF With
      <3> QED
        BY <2>4, <3>1, <3>2, OneMore DEF CommitGiveUp
    <2> QED
      BY <1>2, <2>3, <2>4
  <1>3. ASSUME UNCHANGED <<outcome, submitted, committed, dead_lettered>> PROVE CountersInv'
    BY <1>3 DEF Submitted, With
  <1>4. ASSUME \/ UNCHANGED vars \/ Start \/ EnqueuePut \/ StopNow \/ StopDrain \/ StopStep
               \/ \E w \in Workers : \/ CheckStop(w) \/ Get(w) \/ GetTimeout(w)
                                     \/ CommitRetry(w) \/ RetryPut(w)
                                     \/ Callback(w) \/ CallbackRaises(w)
        PROVE  UNCHANGED <<outcome, submitted, committed, dead_lettered>>
    BY <1>4 DEF vars, svars, hvars, stats, Start, EnqueuePut, StopNow, StopDrain, StopStep,
        Drained, DrainDeadline, SignalStop, StopReturn, Join, CheckStop, Get, GetTimeout,
        CommitRetry, RetryPut, Callback, CallbackRaises
  <1> QED
    BY <1>1, <1>2, <1>3, <1>4 DEF Next, CallerStep, WorkerStep, Finish

LEMMA CountersHold == Spec => []CountersInv
  BY CountersInit, CountersNext, InvariantHolds, PTL DEF Spec

(* The counters are the sizes of two disjoint parts of a finite set.       *)
LEMMA CountersAgree ==
    ASSUME TypeOK, CountersInv
    PROVE  accounted_for <= submitted /\ ZeroLossHonest
  <1> DEFINE C == With("committed")
             D == With("dead_lettered")
  <1>1. /\ IsFiniteSet(Events) /\ Submitted \subseteq Events
        /\ C \subseteq Submitted /\ D \subseteq Submitted /\ C \cap D = {}
        /\ Accounted = C \cup D
    BY ServiceAssumption DEF ServiceAssumption, Submitted, Accounted, With
  <1>2. IsFiniteSet(Submitted)
    BY <1>1, FS_Subset
  <1>3. IsFiniteSet(C) /\ IsFiniteSet(D) /\ IsFiniteSet(Accounted)
    BY <1>1, <1>2, FS_Subset, FS_Union
  <1>4. Cardinality(Accounted) = Cardinality(C) + Cardinality(D)
    <2> HIDE DEF C, D
    <2>1. Cardinality(C \cup D) = Cardinality(C) + Cardinality(D) - Cardinality(C \cap D)
      BY <1>3, FS_Union
    <2>2. Cardinality(C \cap D) = 0 /\ Cardinality(C) \in Nat /\ Cardinality(D) \in Nat
      BY <1>1, <1>3, FS_EmptySet, FS_CardinalityType
    <2> QED
      BY <1>1, <2>1, <2>2
  <1>5. Accounted \subseteq Submitted
    BY <1>1
  <1>6. /\ Cardinality(Accounted) <= Cardinality(Submitted)
        /\ Cardinality(Accounted) = Cardinality(Submitted) <=> Accounted = Submitted
    BY <1>2, <1>5, FS_Subset
  <1> QED
    BY <1>4, <1>6 DEF CountersInv, ZeroLossHonest, zero_loss, accounted_for

(* snapshot()["zero_loss"] is true exactly when every submitted event is   *)
(* committed or dead-lettered: two sums of counters that different threads *)
(* update can only agree if no event is missing.                           *)
THEOREM ZeroLossIsHonest == Spec => []ZeroLossHonest
  <1>1. TypeOK /\ CountersInv => ZeroLossHonest
    BY CountersAgree
  <1> QED
    BY <1>1, CountersHold, TypeCorrect, PTL

-----------------------------------------------------------------------------
(* Refinement.                                                             *)

LEMMA ContractStep ==
    ASSUME IInv, [Next]_vars PROVE [Contract!Next]_(Contract!cvars)
  <1> USE DEF Contract!cvars
  <1>1. ASSUME NEW e \in Events, Enqueue(e) PROVE Contract!Next
    <2>1. Contract!Submit(e)
      BY <1>1 DEF Enqueue, Contract!Submit
    <2> QED
      BY <2>1 DEF Contract!Next
  <1>2. ASSUME NEW w \in Workers, Finish(w) PROVE Contract!Next
    <2> DEFINE e == item[w].event
    <2>1. /\ e \in Events /\ InHand(e) /\ Trying(w)
          /\ calls' = [calls EXCEPT ![e] = @ + 1]
      BY <1>2 DEF Finish, CommitOk, CommitGiveUp, CommitRetry, CallCommit, InHand, Trying,
                  IInv, TypeOK, Items
    <2>2. outcome[e] = "pending" /\ item[w].attempt = calls[e] /\ calls[e] < MaxAttempts
      BY <2>1 DEF IInv, NoEventLost, PendingIsSomewhere, AttemptsTravel
    <2>3. Contract!Try(e)
      BY <2>1, <2>2 DEF Contract!Try
    <2>4. calls[e] \in Nat
      BY <2>1 DEF IInv, TypeOK
    <2>5. CASE CommitOk(w)
      <3>1. Contract!Succeed(e)
        BY <2>3, <2>5 DEF CommitOk, Contract!Succeed
      <3> QED
        BY <2>1, <3>1 DEF Contract!Next
    <2>6. CASE CommitRetry(w)
      <3>1. Contract!FailAndKeep(e)
        BY <2>2, <2>3, <2>6 DEF CommitRetry, Attempt, Contract!FailAndKeep
      <3> QED
        BY <2>1, <3>1 DEF Contract!Next
    <2>7. CASE CommitGiveUp(w)
      <3>1. Contract!FailForGood(e)
        BY <2>2, <2>3, <2>4, <2>7, ServiceAssumption
        DEF CommitGiveUp, Attempt, Contract!FailForGood
      <3> QED
        BY <2>1, <3>1 DEF Contract!Next
    <2> QED
      BY <1>2, <2>5, <2>6, <2>7 DEF Finish
  <1>3. ASSUME \/ UNCHANGED vars \/ Start \/ EnqueuePut \/ StopNow \/ StopDrain \/ StopStep
               \/ \E w \in Workers : \/ CheckStop(w) \/ Get(w) \/ GetTimeout(w)
                                     \/ RetryPut(w) \/ Callback(w) \/ CallbackRaises(w)
        PROVE  UNCHANGED <<outcome, calls>>
    BY <1>3 DEF vars, svars, hvars, stats, Start, EnqueuePut, StopNow, StopDrain, StopStep,
        Drained, DrainDeadline, SignalStop, StopReturn, Join, CheckStop, Get, GetTimeout,
        RetryPut, Callback, CallbackRaises
  <1> QED
    BY <1>1, <1>2, <1>3 DEF Next, CallerStep, WorkerStep

(* The service with its queue, threads, retries and shutdown implements    *)
(* the contract of one event.                                              *)
THEOREM ServiceImplementsContract == Spec => ContractSpec
  <1>1. Init => Contract!Init
    BY DEF Init, Contract!Init
  <1> QED
    BY <1>1, ContractStep, InvariantHolds, PTL DEF Spec, ContractSpec, Contract!Spec

-----------------------------------------------------------------------------
(* What stop() leaves behind.                                              *)

(* Threads.  A join that found its thread alive is remembered in the       *)
(* result, and a result is only there between a stop() and the next call.  *)
ThreadsInv ==
    /\ OrphansOnlyAfterUncleanStop
    /\ caller.at = "join" /\ stop_result.clean => Alive \cap threads \subseteq joining
    /\ caller.at = "idle" /\ stop_result.clean /\ ~unclean_stops => Alive = {}
    /\ caller.at \in {"put", "drain"} => stop_result = NotStopped

LEMMA ThreadsInit == Init => ThreadsInv
  BY DEF Init, ThreadsInv, OrphansOnlyAfterUncleanStop, Alive, NotStopped, Ended

LEMMA WorkerIsAlive ==
    ASSUME TypeOK, NEW w \in Workers, WorkerStep(w)
    PROVE  /\ w \in Alive /\ Alive' \subseteq Alive
           /\ UNCHANGED <<threads, cvars, unclean_stops>>
  BY DEF TypeOK, WorkerStep, Finish, CheckStop, Get, GetTimeout, CommitOk, CommitRetry,
         CommitGiveUp, CallCommit, RetryPut, Callback, CallbackRaises, Goto, Alive, Ended,
         WorkerPc, svars, cvars, hvars

LEMMA ThreadsNext ==
    ASSUME TypeOK, ThreadsInv, [Next]_vars PROVE ThreadsInv'
  <1> USE DEF TypeOK, ThreadsInv, OrphansOnlyAfterUncleanStop
  <1>1. CASE UNCHANGED vars
    BY <1>1 DEF vars, svars, wvars, cvars, hvars, Alive
  <1>2. ASSUME NEW w \in Workers, WorkerStep(w) PROVE ThreadsInv'
    BY <1>2, WorkerIsAlive DEF cvars
  <1>3. CASE Start
    <2>1. PICK fresh \in SUBSET {w \in Workers : pc[w] = "unstarted"} :
             /\ pc' = [w \in Workers |-> IF w \in fresh THEN "check" ELSE pc[w]]
             /\ threads' = threads \cup fresh
      BY <1>3 DEF Start
    <2>2. Alive' \subseteq Alive \cup fresh
      BY <2>1 DEF Alive
    <2>3. /\ caller'.at = "idle" /\ ~stop_result'.clean
          /\ UNCHANGED unclean_stops
      BY <1>3 DEF Start, NotStopped, hvars
    <2> QED
      BY <2>1, <2>2, <2>3
  <1>4. CASE \/ EnqueuePut \/ StopDrain \/ \E e \in Events : Enqueue(e)
    <2>1. /\ UNCHANGED <<pc, threads, unclean_stops>>
          /\ stop_result' = NotStopped /\ caller'.at # "join"
      BY <1>4 DEF EnqueuePut, StopDrain, Enqueue, wvars, svars, hvars
    <2>2. Alive' = Alive
      BY <2>1 DEF Alive
    <2> QED
      BY <2>1, <2>2 DEF NotStopped
  <1>5. CASE StopNow \/ Drained \/ DrainDeadline
    <2>1. /\ UNCHANGED <<pc, threads, unclean_stops>>
          /\ joining' = threads /\ caller'.at = "join"
      BY <1>5 DEF StopNow, Drained, DrainDeadline, SignalStop, wvars, hvars
    <2>2. Alive' = Alive
      BY <2>1 DEF Alive
    <2> QED
      BY <2>1, <2>2
  <1>6. ASSUME NEW w \in Workers, Join(w) PROVE ThreadsInv'
    <2>1. /\ UNCHANGED <<pc, threads, unclean_stops, caller>> /\ caller.at = "join"
          /\ joining' = joining \ {w}
          /\ stop_result'.clean <=> stop_result.clean /\ w \notin Alive
      BY <1>6 DEF Join, wvars, svars, hvars, StopResults
    <2>2. Alive' = Alive
      BY <2>1 DEF Alive
    <2> QED
      BY <2>1, <2>2
  <1>7. CASE StopReturn
    <2>1. /\ UNCHANGED <<pc, stop_result>> /\ caller.at = "join" /\ caller'.at = "idle"
          /\ joining = {} /\ threads' = {}
          /\ unclean_stops' = (unclean_stops \/ ~stop_result.clean)
      BY <1>7 DEF StopReturn, wvars
    <2>2. Alive' = Alive
      BY <2>1 DEF Alive
    <2> QED
      BY <2>1, <2>2
  <1> QED
    BY <1>1, <1>2, <1>3, <1>4, <1>5, <1>6, <1>7 DEF Next, CallerStep, StopStep

LEMMA ThreadsHold == Spec => []ThreadsInv
  BY ThreadsInit, ThreadsNext, TypeCorrect, PTL DEF Spec

(* A thread that the service no longer lists runs only after a stop() that *)
(* returned False (async_pipeline.py:241-258).                             *)
THEOREM NoSilentOrphans == Spec => []OrphansOnlyAfterUncleanStop
  <1>1. ThreadsInv => OrphansOnlyAfterUncleanStop
    BY DEF ThreadsInv
  <1> QED
    BY <1>1, ThreadsHold, PTL

-----------------------------------------------------------------------------
(* Results.  An event that has its result was reported, or is about to be, *)
(* or the thread that should have reported it has ended in the callback.   *)
BeingReported(e) == \E w \in Workers : pc[w] = "callback" /\ item[w].event = e
SomeCrash == \E w \in Workers : pc[w] = "crashed"

ResultsInv ==
    /\ stop_result.drained = "drained" => Accounted = Submitted
    /\ \A e \in Accounted : e \in reported \/ BeingReported(e) \/ SomeCrash
    /\ \A e \in With("dead_lettered") : e \in dead_letters \/ BeingReported(e) \/ SomeCrash
    /\ reported \subseteq Accounted
    /\ dead_letters \subseteq With("dead_lettered")
    /\ \A w \in Workers : pc[w] = "callback" => item[w].event \in Accounted

LEMMA ResultsInit == Init => ResultsInv
  BY DEF Init, ResultsInv, NotStopped, Accounted, With

(* A step that ends nothing.                                               *)
LEMMA NoNewResult ==
    ASSUME IInv, ResultsInv, UNCHANGED <<reported, dead_letters>>,
           Accounted' = Accounted, With("dead_lettered")' = With("dead_lettered"),
           \A w \in Workers : /\ pc'[w] = "callback" <=> pc[w] = "callback"
                              /\ pc[w] = "callback" => item'[w] = item[w]
                              /\ pc[w] = "crashed" => pc'[w] = "crashed",
           stop_result'.drained = "drained" => Accounted = Submitted'
    PROVE  ResultsInv'
  <1>1. \A e \in Events : BeingReported(e) => BeingReported(e)'
    BY DEF BeingReported
  <1>2. SomeCrash => SomeCrash'
    BY DEF SomeCrash
  <1>3. Accounted \subseteq Events /\ With("dead_lettered") \subseteq Events
    BY DEF Accounted, With
  <1> QED
    BY <1>1, <1>2, <1>3 DEF ResultsInv

(* record_commit and record_dead_letter: one more event has its result.    *)
LEMMA ResultIsReported ==
    ASSUME IInv, ResultsInv, NEW w \in Workers, CommitOk(w) \/ CommitGiveUp(w)
    PROVE  ResultsInv'
  <1> USE DEF IInv, TypeOK
  <1>1. PICK e \in Events : e = item[w].event
    BY DEF CommitOk, CommitGiveUp, CallCommit, Items
  <1>2. /\ pc[w] = "commit" /\ pc' = [pc EXCEPT ![w] = "callback"]
        /\ UNCHANGED <<item, reported, dead_letters, stop_result>>
    BY DEF CommitOk, CommitGiveUp, CallCommit, Goto, cvars
  <1>3. outcome[e] = "pending"
    BY <1>1, <1>2 DEF NoEventLost, PendingIsSomewhere, InHand, Trying
  <1>4. \E o \in {"committed", "dead_lettered"} : outcome' = [outcome EXCEPT ![e] = o]
    BY <1>1 DEF CommitOk, CommitGiveUp
  <1>5. /\ Accounted' = Accounted \cup {e}
        /\ With("dead_lettered") \subseteq With("dead_lettered")'
        /\ With("dead_lettered")' \subseteq With("dead_lettered") \cup {e}
    BY <1>3, <1>4 DEF Accounted, With
  <1>6. e \in Submitted /\ e \notin Accounted
    BY <1>3 DEF Submitted, Accounted
  <1>7. \A f \in Events : BeingReported(f)' <=> BeingReported(f) \/ f = e
    BY <1>1, <1>2 DEF BeingReported
  <1>8. SomeCrash' <=> SomeCrash
    BY <1>2 DEF SomeCrash
  <1>9. Accounted \subseteq Events /\ With("dead_lettered") \subseteq Events
    BY DEF Accounted, With
  <1>10. \A v \in Workers : pc'[v] = "callback" => item'[v].event \in Accounted'
    BY <1>1, <1>2, <1>5 DEF ResultsInv
  <1> QED
    BY <1>2, <1>5, <1>6, <1>7, <1>8, <1>9, <1>10 DEF ResultsInv

(* The callback returns or raises.                                         *)
LEMMA CallbackReports ==
    ASSUME IInv, ResultsInv, NEW w \in Workers, Callback(w) \/ CallbackRaises(w)
    PROVE  ResultsInv'
  <1> USE DEF IInv, TypeOK
  <1>1. PICK e \in Events : e = item[w].event
    BY DEF Callback, CallbackRaises, Items
  <1>2. /\ pc[w] = "callback" /\ \A v \in Workers \ {w} : pc'[v] = pc[v] /\ item'[v] = item[v]
        /\ UNCHANGED <<outcome, stop_result>>
        /\ dead_letters' = IF outcome[e] = "dead_lettered" THEN dead_letters \cup {e}
                           ELSE dead_letters
        /\ \/ pc'[w] = "check" /\ reported' = reported \cup {e}
           \/ pc'[w] = "crashed" /\ UNCHANGED reported
    BY <1>1 DEF Callback, CallbackRaises, ListDeadLetter, Goto, cvars, hvars
  <1>3. /\ Accounted' = Accounted /\ Submitted' = Submitted
        /\ With("dead_lettered")' = With("dead_lettered")
        /\ e \in With("dead_lettered") <=> outcome[e] = "dead_lettered"
    BY <1>2 DEF Accounted, Submitted, With
  <1>4. \A f \in Events : BeingReported(f) => BeingReported(f)' \/ f = e
    BY <1>1, <1>2 DEF BeingReported
  <1>5. (SomeCrash => SomeCrash') /\ (pc'[w] = "crashed" => SomeCrash')
    BY <1>2 DEF SomeCrash
  <1>6. e \in Accounted
    BY <1>1, <1>2 DEF ResultsInv
  <1>7. Accounted \subseteq Events /\ With("dead_lettered") \subseteq Events
    BY DEF Accounted, With
  <1>8. \A v \in Workers : pc'[v] = "callback" => item'[v].event \in Accounted'
    BY <1>2, <1>3 DEF ResultsInv
  <1> QED
    BY <1>2, <1>3, <1>4, <1>5, <1>6, <1>7, <1>8 DEF ResultsInv

LEMMA ResultsNext ==
    ASSUME IInv, CountersInv, ResultsInv, [Next]_vars PROVE ResultsInv'
  <1> USE DEF IInv, TypeOK
  <1>1. ASSUME NEW e \in Events, Enqueue(e) PROVE ResultsInv'
    <2>1. /\ outcome[e] = "new" /\ outcome' = [outcome EXCEPT ![e] = "pending"]
          /\ stop_result' = NotStopped
          /\ UNCHANGED <<pc, item, reported, dead_letters>>
      BY <1>1 DEF Enqueue, wvars
    <2>2. Accounted' = Accounted /\ With("dead_lettered")' = With("dead_lettered")
      BY <2>1 DEF Accounted, With
    <2> QED
      BY <2>1, <2>2, NoNewResult DEF NotStopped
  <1>2. ASSUME NEW w \in Workers,
               CheckStop(w) \/ Get(w) \/ GetTimeout(w) \/ CommitRetry(w) \/ RetryPut(w)
        PROVE  ResultsInv'
    <2>1. /\ UNCHANGED <<outcome, reported, dead_letters, stop_result>>
          /\ pc[w] \in {"check", "get", "commit", "retry"}
          /\ pc'[w] \in {"exited", "get", "commit", "check", "retry"}
          /\ \A v \in Workers \ {w} : pc'[v] = pc[v] /\ item'[v] = item[v]
      BY <1>2 DEF CheckStop, Get, GetTimeout, CommitRetry, CallCommit, RetryPut, Goto,
                  svars, cvars, hvars
    <2>2. /\ Accounted' = Accounted /\ Submitted' = Submitted
          /\ With("dead_lettered")' = With("dead_lettered")
      BY <2>1 DEF Accounted, Submitted, With
    <2> QED
      BY <2>1, <2>2, NoNewResult DEF ResultsInv
  <1>3. CASE \/ Start \/ EnqueuePut \/ StopDrain \/ StopReturn \/ UNCHANGED vars
             \/ \E w \in Workers : Join(w)
    <2>1. /\ UNCHANGED <<outcome, reported, dead_letters, item>>
          /\ stop_result'.drained = "drained" => stop_result.drained = "drained"
      BY <1>3 DEF Start, EnqueuePut, StopDrain, StopReturn, Join, NotStopped, StopResults,
                  vars, svars, wvars, cvars, hvars
    <2>2. \A v \in Workers : /\ pc'[v] = "callback" <=> pc[v] = "callback"
                             /\ pc[v] = "crashed" => pc'[v] = "crashed"
      BY <1>3 DEF Start, EnqueuePut, StopDrain, StopReturn, Join, vars, svars, wvars
    <2>3. /\ Accounted' = Accounted /\ Submitted' = Submitted
          /\ With("dead_lettered")' = With("dead_lettered")
      BY <2>1 DEF Accounted, Submitted, With
    <2> QED
      BY <2>1, <2>2, <2>3, NoNewResult DEF ResultsInv
  <1>4. CASE StopNow \/ Drained \/ DrainDeadline
    <2>1. /\ UNCHANGED <<outcome, reported, dead_letters, item, pc>>
          /\ stop_result'.drained = "drained" => accounted_for >= submitted
      BY <1>4 DEF StopNow, Drained, DrainDeadline, SignalStop, wvars, hvars
    <2>2. accounted_for >= submitted => Accounted = Submitted
      <3>1. accounted_for \in Nat /\ submitted \in Nat
        BY DEF accounted_for
      <3> QED
        BY <3>1, CountersAgree DEF ZeroLossHonest, zero_loss
    <2>3. /\ Accounted' = Accounted /\ Submitted' = Submitted
          /\ With("dead_lettered")' = With("dead_lettered")
      BY <2>1 DEF Accounted, Submitted, With
    <2> QED
      BY <2>1, <2>2, <2>3, NoNewResult
  <1> QED
    BY <1>1, <1>2, <1>3, <1>4, ResultIsReported, CallbackReports
    DEF Next, CallerStep, StopStep, WorkerStep, Finish

(* After a stop(drain=True) that drained and returned True, without raised *)
(* callbacks and earlier stops that gave up, the caller's lists are        *)
(* complete and the queue is empty (async_pipeline.py:240-258).            *)
THEOREM DrainedMeansReported == Spec => []CleanDrainReports
  <1>1. Spec => []ResultsInv
    BY ResultsInit, ResultsNext, InvariantHolds, CountersHold, PTL DEF Spec
  <1>2. ASSUME IInv, ThreadsInv, ResultsInv PROVE CleanDrainReports
    <2> SUFFICES ASSUME caller.at = "idle",
                        stop_result = [drained |-> "drained", clean |-> TRUE],
                        ~unclean_stops, \A w \in Workers : pc[w] # "crashed"
                 PROVE  /\ reported = Submitted
                        /\ dead_letters = With("dead_lettered")
                        /\ queue = <<>>
      BY DEF CleanDrainReports, With
    <2>1. Alive = {} /\ Accounted = Submitted
      BY <1>2 DEF ThreadsInv, ResultsInv
    <2>2. \A e \in Events : ~BeingReported(e) /\ ~SomeCrash
      BY <2>1 DEF BeingReported, SomeCrash, Alive, Ended
    <2>3. reported = Submitted /\ dead_letters = With("dead_lettered")
      <3>1. Accounted \subseteq Events /\ With("dead_lettered") \subseteq Events
        BY DEF Accounted, With
      <3> QED
        BY <3>1, <1>2, <2>1, <2>2 DEF ResultsInv
    <2>4. \A e \in Events : outcome[e] # "pending"
      BY <2>1 DEF Accounted, Submitted
    <2>5. ASSUME queue # <<>> PROVE FALSE
      <3>1. queue[1] \in Items /\ 1 \in 1 .. Len(queue)
        BY <1>2, <2>5, TailFacts DEF IInv, TypeOK
      <3>2. queue[1].event \in Events /\ InQueue(queue[1].event)
        BY <3>1 DEF InQueue, Items
      <3> QED
        BY <1>2, <2>4, <3>2 DEF IInv, NoEventLost, PendingIsSomewhere
    <2> QED
      BY <2>3, <2>5
  <1> QED
    BY <1>1, <1>2, InvariantHolds, ThreadsHold, PTL
=============================================================================
