------------------------ MODULE Phase2PipelineProofs ------------------------
(***************************************************************************)
(* Proofs about Phase2Pipeline for every set of events, every policy and   *)
(* every size of the batch window.                                         *)
(***************************************************************************)
EXTENDS Phase2Pipeline, SequenceLemmas

-----------------------------------------------------------------------------
(* The inductive invariant.                                                *)

Calls == [op : {"none", "submit", "close"}, event : Events \cup {"none"}, at : Nat]
Records == [event : Events, merkle_root : Seq(Events)]

PType ==
    /\ evidence \subseteq Events
    /\ pending_batch \in Seq(Events)
    /\ chain \in Seq(Records)
    /\ durable \in 0 .. Len(chain)
    /\ returned \subseteq Events
    /\ call \in Calls

(* What is in the batch has been stored.                                   *)
PendingStored == \A i \in 1 .. Len(pending_batch) : pending_batch[i] \in evidence

(* A flush that goes on has recorded the events before call.at; the event  *)
(* whose submit it belongs to is in the batch.                             *)
FlushProgress ==
    Flushing =>
        /\ call.at \in 1 .. Len(pending_batch) + 1
        /\ \A i \in 1 .. call.at - 1 : Logged(pending_batch[i])
        /\ last_close # "ok"
        /\ call.op = "submit" => /\ call.event \in Batched
                                 /\ IsPending(call.event)

PInv ==
    /\ PType /\ PendingStored /\ FlushProgress
    /\ ReturnedIsKept /\ EvidenceForEveryRecord /\ CloseAnchorsAll

-----------------------------------------------------------------------------
(* What a call on the ledger leaves, whether it returns or raises.         *)
LedgerKept ==
    /\ chain' \in Seq(Records)
    /\ durable' \in 0 .. Len(chain')
    /\ EvidenceForEveryRecord'
    /\ \A e \in Events : Logged(e) => Logged(e)'

LEMMA LedgerStays ==
    ASSUME PInv, evidence \subseteq evidence', UNCHANGED ledger
    PROVE  LedgerKept
  BY DEF PInv, PType, ledger, LedgerKept, EvidenceForEveryRecord, Logged

LEMMA LedgerGrows ==
    ASSUME PInv, evidence \subseteq evidence',
           NEW e \in Events, NEW root \in Seq(Events), e \in evidence',
           chain' = Append(chain, Record(e, root)),
           durable' = Len(chain) + 1 \/ UNCHANGED durable
    PROVE  LedgerKept /\ Logged(e)'
  <1>1. Record(e, root) \in Records
    BY DEF Record, Records
  <1>2. chain \in Seq(Records) /\ durable \in 0 .. Len(chain)
    BY DEF PInv, PType
  <1>3. /\ chain' \in Seq(Records)
        /\ Len(chain) \in Nat
        /\ Len(chain') = Len(chain) + 1
        /\ DOMAIN chain = 1 .. Len(chain)
        /\ DOMAIN chain' = 1 .. Len(chain) + 1
        /\ \A i \in 1 .. Len(chain) : chain'[i] = chain[i]
        /\ chain'[Len(chain) + 1] = Record(e, root)
    BY <1>1, <1>2, AppendFacts
  <1>4. Record(e, root).event = e
    BY DEF Record
  <1>5. Logged(e)'
    BY <1>3, <1>4 DEF Logged
  <1>6. \A x \in Events : Logged(x) => Logged(x)'
    BY <1>3 DEF Logged
  <1>7. durable' \in 0 .. Len(chain')
    BY <1>2, <1>3
  <1>8. EvidenceForEveryRecord'
    BY <1>3, <1>4 DEF EvidenceForEveryRecord, PInv
  <1> QED
    BY <1>3, <1>5, <1>6, <1>7, <1>8 DEF LedgerKept

LEMMA LedgerCall ==
    ASSUME PInv, evidence \subseteq evidence',
           NEW e \in Events, NEW root \in Seq(Events), e \in evidence',
           Accepts(e, root) \/ Refuses(e) \/ Fails(e, root)
    PROVE  LedgerKept /\ (Accepts(e, root) => Logged(e)')
  <1>1. CASE Accepts(e, root)
    BY <1>1, LedgerGrows DEF Accepts
  <1>2. CASE Refuses(e)
    BY <1>2, LedgerStays DEF Refuses, Accepts, Logged, ledger
  <1>3. CASE Fails(e, root)
    <2>1. CASE UNCHANGED chain
      BY <1>3, <2>1, LedgerStays DEF Fails, ledger, Accepts
    <2>2. CASE chain' = Append(chain, Record(e, root))
      BY <1>3, <2>2, LedgerGrows DEF Fails
    <2> QED
      BY <1>3, <2>1, <2>2 DEF Fails
  <1> QED
    BY <1>1, <1>2, <1>3

-----------------------------------------------------------------------------
(* Every action keeps the invariant.                                       *)

LEMMA EmptyBatch ==
    /\ <<>> \in Seq(Events)
    /\ Len(<<>>) = 0
    /\ DOMAIN <<>> = {}
    /\ \A s \in Seq(Events) : /\ Len(s) \in Nat
                              /\ DOMAIN s = 1 .. Len(s)
                              /\ \A i \in 1 .. Len(s) : s[i] \in Events
                              /\ s # <<>> => Len(s) # 0
  BY EmptySeq, LenProperties, ElementOfSeq

LEMMA InitPInv == Init => PInv
  <1> SUFFICES ASSUME Init PROVE PInv
    OBVIOUS
  <1>1. <<>> \in Seq(Records) /\ Len(<<>>) = 0 /\ DOMAIN <<>> = {}
    BY EmptySeq, EmptyBatch
  <1>2. PType
    BY <1>1, EmptyBatch DEF Init, PType, Idle, Calls
  <1>3. PendingStored /\ FlushProgress
    BY <1>1 DEF Init, PendingStored, FlushProgress, Flushing, Idle
  <1>4. ReturnedIsKept /\ EvidenceForEveryRecord /\ CloseAnchorsAll
    BY <1>1 DEF Init, ReturnedIsKept, EvidenceForEveryRecord, CloseAnchorsAll
  <1> QED
    BY <1>2, <1>3, <1>4 DEF PInv

(* The parts of a step between two flushes, whose batch only grows.        *)
LEMMA SubmitParts ==
    ASSUME PInv, NEW e \in Events, Store(e), LedgerKept,
           UNCHANGED pending_batch \/ pending_batch' = Append(pending_batch, e),
           \/ UNCHANGED returned
           \/ /\ Return(e)
              /\ e \in Immediate => Logged(e)'
              /\ e \in Batched => IsPending(e)'
    PROVE  /\ evidence' \subseteq Events /\ returned' \subseteq Events
           /\ pending_batch' \in Seq(Events)
           /\ PendingStored'
           /\ ReturnedIsKept' /\ EvidenceForEveryRecord' /\ CloseAnchorsAll'
  <1>1. /\ evidence' = evidence \cup {e} /\ last_close' = "none"
        /\ returned' \subseteq returned \cup {e}
    BY DEF Store, Submit, Return
  <1>2. evidence \subseteq Events /\ returned \subseteq Events /\ pending_batch \in Seq(Events)
    BY DEF PInv, PType
  <1>3. evidence' \subseteq Events /\ returned' \subseteq Events
    BY <1>1, <1>2
  <1>4. /\ pending_batch' \in Seq(Events)
        /\ \A i \in 1 .. Len(pending_batch) : pending_batch'[i] = pending_batch[i]
        /\ \A i \in 1 .. Len(pending_batch') :
              i \in 1 .. Len(pending_batch) \/ pending_batch'[i] = e
        /\ DOMAIN pending_batch = 1 .. Len(pending_batch)
        /\ 1 .. Len(pending_batch) \subseteq DOMAIN pending_batch'
    <2>1. CASE UNCHANGED pending_batch
      BY <2>1, <1>2, EmptyBatch
    <2>2. CASE pending_batch' = Append(pending_batch, e)
      BY <2>2, <1>2, AppendFacts
    <2> QED
      BY <2>1, <2>2
  <1>5. PendingStored'
    BY <1>1, <1>4 DEF PInv, PendingStored
  <1>6. ReturnedIsKept'
    <2> SUFFICES ASSUME NEW x \in returned'
                 PROVE  /\ x \in evidence'
                        /\ x \in Immediate => Logged(x)'
                        /\ x \in Batched => Logged(x)' \/ IsPending(x)'
      BY DEF ReturnedIsKept, Batched
    <2>1. CASE x \in returned
      <3>1. x \in Events /\ (Logged(x) => Logged(x)')
        BY <2>1, <1>2 DEF LedgerKept
      <3>2. IsPending(x) => IsPending(x)'
        BY <1>4 DEF IsPending
      <3> QED
        BY <2>1, <3>1, <3>2, <1>1 DEF PInv, ReturnedIsKept
    <2>2. CASE x \notin returned
      BY <2>2, <1>1 DEF Return
    <2> QED
      BY <2>1, <2>2
  <1> QED
    BY <1>1, <1>3, <1>4, <1>5, <1>6 DEF LedgerKept, CloseAnchorsAll

LEMMA SubmitKeeps ==
    ASSUME PInv, NEW e \in Events, SubmitStep(e)
    PROVE  PInv'
  <1> USE DEF PInv
  <1>1. CASE StoreRaises(e)
    <2>1. /\ UNCHANGED <<evidence, pending_batch, call, chain, durable, returned>>
          /\ last_close' = "none"
      BY <1>1 DEF StoreRaises, Submit, ledger
    <2> QED
      BY <2>1 DEF PType, PendingStored, FlushProgress, Flushing, ReturnedIsKept,
                  EvidenceForEveryRecord, CloseAnchorsAll, Logged, IsPending, Batched
  <1>2. CASE SubmitOffChain(e)
    <2>1. Store(e) /\ Return(e) /\ UNCHANGED <<pending_batch, call, ledger>> /\ e \in OffChain
      BY <1>2 DEF SubmitOffChain
    <2>2. LedgerKept
      BY <2>1, LedgerStays DEF Store
    <2>3. e \notin Immediate /\ e \notin Batched
      BY <2>1, PipelineAssumption DEF Batched
    <2> QED
      BY <2>1, <2>2, <2>3, SubmitParts DEF PType, LedgerKept, FlushProgress, Flushing, Store, Submit
  <1>3. CASE SubmitImmediate(e)
    <2>1. Store(e) /\ Return(e) /\ UNCHANGED <<pending_batch, call>> /\ e \in Immediate
      BY <1>3 DEF SubmitImmediate
    <2>2. LedgerKept /\ Logged(e)'
      BY <1>3, LedgerCall, EmptyBatch DEF SubmitImmediate, Store, NoRoot
    <2>3. e \notin Batched
      BY <2>1 DEF Batched
    <2> QED
      BY <2>1, <2>2, <2>3, SubmitParts DEF PType, LedgerKept, FlushProgress, Flushing, Store, Submit
  <1>4. CASE SubmitImmediateRaises(e)
    <2>1. Store(e) /\ UNCHANGED <<pending_batch, call, returned>>
      BY <1>4 DEF SubmitImmediateRaises
    <2>2. LedgerKept
      BY <1>4, LedgerCall, EmptyBatch DEF SubmitImmediateRaises, Store, NoRoot
    <2> QED
      BY <2>1, <2>2, SubmitParts DEF PType, LedgerKept, FlushProgress, Flushing, Store, Submit
  <1>5. CASE SubmitBatched(e)
    <2>1. /\ Store(e) /\ Return(e) /\ UNCHANGED <<call, ledger>> /\ e \in Batched
          /\ pending_batch' = Append(pending_batch, e)
      BY <1>5 DEF SubmitBatched
    <2>2. LedgerKept
      BY <2>1, LedgerStays DEF Store
    <2>3. e \notin Immediate /\ IsPending(e)'
      BY <2>1, AppendFacts DEF Batched, IsPending, PType
    <2> QED
      BY <2>1, <2>2, <2>3, SubmitParts DEF PType, LedgerKept, FlushProgress, Flushing, Store, Submit
  <1>6. CASE SubmitAndFlush(e)
    <2>1. /\ Store(e) /\ UNCHANGED <<returned, ledger>> /\ e \in Batched
          /\ pending_batch' = Append(pending_batch, e)
          /\ call' = [op |-> "submit", event |-> e, at |-> 1]
      BY <1>6 DEF SubmitAndFlush
    <2>2. LedgerKept
      BY <2>1, LedgerStays DEF Store
    <2>3. IsPending(e)' /\ Len(pending_batch') \in Nat
      BY <2>1, AppendFacts DEF IsPending, PType
    <2>4. FlushProgress'
      BY <2>1, <2>3 DEF FlushProgress, Store, Submit, Batched
    <2> QED
      BY <2>1, <2>2, <2>4, SubmitParts DEF PType, LedgerKept, Calls
  <1> QED
    BY <1>1, <1>2, <1>3, <1>4, <1>5, <1>6 DEF SubmitStep

(* While a call flushes, batch, store and what has returned stay, and the  *)
(* ledger grows.                                                           *)
LEMMA FlushParts ==
    ASSUME PInv, LedgerKept, UNCHANGED <<evidence, pending_batch, returned>>
    PROVE  PendingStored' /\ ReturnedIsKept'
  <1>1. returned \subseteq Events
    BY DEF PInv, PType
  <1> QED
    BY <1>1 DEF PInv, LedgerKept, PendingStored, ReturnedIsKept, IsPending, Batched

LEMMA FlushKeepsInv ==
    ASSUME PInv, FlushStep
    PROVE  PInv'
  <1> USE DEF PInv
  <1>1. /\ pending_batch \in Seq(Events) /\ Len(pending_batch) \in Nat
        /\ DOMAIN pending_batch = 1 .. Len(pending_batch)
        /\ \A i \in 1 .. Len(pending_batch) : pending_batch[i] \in Events
    BY EmptyBatch DEF PType
  <1>2. Flushing
    BY DEF FlushStep, FlushRecord, FlushRaises, FlushReturn
  <1>3. /\ call.at \in 1 .. Len(pending_batch) + 1
        /\ \A i \in 1 .. call.at - 1 : Logged(pending_batch[i])
        /\ last_close # "ok"
        /\ call.op = "submit" => call.event \in Batched /\ IsPending(call.event)
    BY <1>2 DEF FlushProgress
  <1>4. ASSUME call.at <= Len(pending_batch)
        PROVE  /\ pending_batch[call.at] \in Events
               /\ pending_batch[call.at] \in evidence
    BY <1>1, <1>3, <1>4 DEF PendingStored
  <1>5. CASE FlushRecord
    <2>1. /\ call.at <= Len(pending_batch)
          /\ Accepts(pending_batch[call.at], Root)
          /\ call' = [call EXCEPT !.at = @ + 1]
          /\ UNCHANGED <<evidence, pending_batch, returned, last_close>>
      BY <1>5 DEF FlushRecord
    <2> PICK e \in Events : e = pending_batch[call.at] /\ e \in evidence
      BY <2>1, <1>4
    <2>2. LedgerKept /\ Logged(e)'
      BY <2>1, <1>1, LedgerCall DEF Root
    <2>3. /\ call'.at = call.at + 1 /\ call'.op = call.op /\ call'.event = call.event
          /\ call' \in Calls
      <3>1. call \in Calls /\ call.at \in Nat
        BY DEF PType, Calls
      <3> HIDE DEF PInv
      <3> QED
        BY <2>1, <3>1 DEF Calls
    <2>4. (\A i \in 1 .. call.at - 1 : Logged(pending_batch[i]))'
      <3> SUFFICES ASSUME NEW i \in 1 .. call'.at - 1 PROVE Logged(pending_batch[i])'
        OBVIOUS
      <3>1. CASE i = call.at
        BY <3>1, <2>1, <2>2
      <3>2. CASE i # call.at
        <4>1. i \in 1 .. call.at - 1 /\ i \in 1 .. Len(pending_batch)
          BY <3>2, <2>1, <2>3, <1>1, <1>3
        <4>2. PICK x \in Events : x = pending_batch[i]
          BY <4>1, <1>1
        <4>3. Logged(x)'
          BY <4>1, <4>2, <1>3, <2>2 DEF LedgerKept
        <4> QED
          BY <4>2, <4>3, <2>1
      <3> QED
        BY <3>1, <3>2
    <2>5. FlushProgress'
      BY <1>1, <1>3, <2>1, <2>3, <2>4 DEF FlushProgress, IsPending, Batched
    <2>6. CloseAnchorsAll'
      BY <1>3, <2>1 DEF CloseAnchorsAll
    <2> QED
      BY <2>1, <2>2, <2>3, <2>5, <2>6, FlushParts DEF PType, LedgerKept
  <1>6. CASE FlushRaises
    <2>1. /\ call.at <= Len(pending_batch)
          /\ \/ Refuses(pending_batch[call.at])
             \/ Fails(pending_batch[call.at], Root)
          /\ EndCall("refused") \/ EndCall("failed")
          /\ UNCHANGED <<evidence, pending_batch, returned>>
      BY <1>6 DEF FlushRaises
    <2>2. LedgerKept
      BY <2>1, <1>1, <1>4, LedgerCall DEF Root
    <2>3. call' = Idle /\ last_close' # "ok"
      BY <2>1, <1>3 DEF EndCall
    <2> QED
      BY <2>1, <2>2, <2>3, <1>1, FlushParts
      DEF PType, LedgerKept, FlushProgress, Flushing, Idle, Calls, CloseAnchorsAll
  <1>7. CASE FlushReturn
    <2>1. /\ call.at > Len(pending_batch)
          /\ pending_batch' = <<>>
          /\ EndCall("ok")
          /\ returned' = IF call.op = "submit" THEN returned \cup {call.event} ELSE returned
          /\ UNCHANGED <<evidence, ledger>>
      BY <1>7 DEF FlushReturn
    <2>2. LedgerKept
      BY <2>1, LedgerStays
    <2>3. \A e \in Events : IsPending(e) => e \in evidence /\ Logged(e) /\ Logged(e)'
      <3>1. \A i \in 1 .. Len(pending_batch) : Logged(pending_batch[i])
        BY <1>1, <1>3, <2>1
      <3> QED
        BY <3>1, <1>1, <2>2 DEF IsPending, LedgerKept, PendingStored
    <2>4. call' = Idle /\ last_close' = IF call.op = "close" THEN "ok" ELSE last_close
      BY <2>1 DEF EndCall
    <2>5. returned' \subseteq Events
      BY <2>1, <1>3 DEF PType, Batched
    <2>6. ASSUME NEW e \in returned'
          PROVE  /\ e \in evidence'
                 /\ e \in Immediate => Logged(e)'
                 /\ e \in Batched => Logged(e)'
      <3>1. CASE e \in returned
        BY <3>1, <2>1, <2>2, <2>3, <2>5 DEF ReturnedIsKept, LedgerKept
      <3>2. CASE e \notin returned
        <4>1. e = call.event /\ call.op = "submit"
          BY <3>2, <2>1
        <4> QED
          BY <4>1, <1>3, <2>1, <2>3, <2>5
      <3> QED
        BY <3>1, <3>2
    <2>7. ReturnedIsKept' /\ CloseAnchorsAll'
      BY <2>1, <2>4, <2>6 DEF ReturnedIsKept, CloseAnchorsAll, Batched
    <2>8. PendingStored' /\ FlushProgress'
      BY <2>1, <2>4, EmptyBatch DEF PendingStored, FlushProgress, Flushing, Idle
    <2> QED
      BY <2>1, <2>2, <2>4, <2>5, <2>7, <2>8, EmptyBatch DEF PType, LedgerKept, Idle, Calls
  <1> QED
    BY <1>5, <1>6, <1>7 DEF FlushStep

LEMMA CloseKeepsInv ==
    ASSUME PInv, CloseEmpty \/ Close
    PROVE  PInv'
  <1> USE DEF PInv
  <1>1. /\ UNCHANGED <<evidence, pending_batch, ledger, returned>>
        /\ pending_batch \in Seq(Events) /\ Len(pending_batch) \in Nat
        /\ ~Flushing
    BY EmptyBatch DEF CloseEmpty, Close, PType
  <1>2. LedgerKept
    BY <1>1, LedgerStays
  <1>3. PendingStored' /\ ReturnedIsKept'
    BY <1>1, <1>2, FlushParts
  <1>4. CASE CloseEmpty
    <2>1. pending_batch = <<>> /\ UNCHANGED call
      BY <1>4 DEF CloseEmpty
    <2>2. \A e \in returned' \cap Batched : Logged(e)'
      BY <1>1, <1>3, <2>1, EmptyBatch DEF ReturnedIsKept, IsPending, Batched
    <2> QED
      BY <1>1, <1>2, <1>3, <2>1, <2>2
      DEF PType, LedgerKept, FlushProgress, Flushing, CloseAnchorsAll, Batched
  <1>5. CASE Close
    <2>1. /\ pending_batch # <<>> /\ UNCHANGED last_close
          /\ call' = [op |-> "close", event |-> "none", at |-> 1]
      BY <1>5 DEF Close
    <2>2. last_close # "ok"
      BY <2>1 DEF CloseAnchorsAll
    <2>3. FlushProgress' /\ CloseAnchorsAll'
      BY <1>1, <2>1, <2>2 DEF FlushProgress, CloseAnchorsAll
    <2> QED
      BY <1>1, <1>2, <1>3, <2>1, <2>3 DEF PType, LedgerKept, Calls
  <1> QED
    BY <1>4, <1>5

LEMMA RestartKeepsInv ==
    ASSUME PInv, Restart
    PROVE  PInv'
  <1> USE DEF PInv
  <1>1. PICK n \in durable .. Len(chain) : chain' = SubSeq(chain, 1, n) /\ durable' = n
    BY DEF Restart
  <1>2. chain \in Seq(Records) /\ Len(chain) \in Nat /\ durable \in 0 .. Len(chain)
    BY LenProperties DEF PType
  <1>3. n \in 0 .. Len(chain)
    BY <1>1, <1>2
  <1>4. /\ chain' \in Seq(Records) /\ Len(chain') = n
        /\ DOMAIN chain' = 1 .. n /\ DOMAIN chain = 1 .. Len(chain)
        /\ \A i \in 1 .. n : chain'[i] = chain[i]
    BY <1>1, <1>2, <1>3, PrefixFacts, LenProperties
  <1>5. EvidenceForEveryRecord'
    BY <1>2, <1>3, <1>4 DEF Restart, EvidenceForEveryRecord
  <1>7. /\ pending_batch' = <<>> /\ call' = Idle /\ returned' = {} /\ last_close' = "none"
        /\ UNCHANGED evidence
    BY DEF Restart
  <1>8. PType'
    BY <1>1, <1>3, <1>4, <1>7, EmptyBatch DEF PType, Idle, Calls
  <1>9. PendingStored' /\ FlushProgress' /\ ReturnedIsKept' /\ CloseAnchorsAll'
    BY <1>7, EmptyBatch
    DEF PendingStored, FlushProgress, Flushing, Idle, ReturnedIsKept, CloseAnchorsAll
  <1> QED
    BY <1>5, <1>8, <1>9

LEMMA NextPInv == PInv /\ [Next]_vars => PInv'
  <1> SUFFICES ASSUME PInv, [Next]_vars PROVE PInv'
    OBVIOUS
  <1>1. ASSUME NEW e \in Events, SubmitStep(e) PROVE PInv'
    BY <1>1, SubmitKeeps
  <1>2. CASE UNCHANGED vars
    BY <1>2 DEF vars, ledger, PInv, PType, PendingStored, FlushProgress, Flushing,
                ReturnedIsKept, EvidenceForEveryRecord, CloseAnchorsAll, Logged, IsPending, Batched
  <1> QED
    BY <1>1, <1>2, FlushKeepsInv, CloseKeepsInv, RestartKeepsInv DEF Next

(* The parts of PInv hold together in every reachable state: what a flush  *)
(* has done so far, what is pending, and what close() and submit() promise *)
(* (pipeline.py:77-151).                                                   *)
THEOREM PipelineInvariant == Spec => []PInv
  BY InitPInv, NextPInv, PTL DEF Spec

-----------------------------------------------------------------------------
(* The theorems.                                                           *)

(* What submit() has returned for is stored, and on the ledger or waiting  *)
(* for the next flush, whatever store and ledger do and however often the  *)
(* process starts again (pipeline.py:77-146).                              *)
THEOREM ReturnedStaysKept == Spec => []ReturnedIsKept
  BY PipelineInvariant, PTL DEF PInv

(* No record without its payload in the store (pipeline.py:81-82).         *)
THEOREM RecordsHaveEvidence == Spec => []EvidenceForEveryRecord
  BY PipelineInvariant, PTL DEF PInv

(* A close() that returned has left nothing to anchor (pipeline.py:148).   *)
THEOREM ClosedIsAnchored == Spec => []CloseAnchorsAll
  BY PipelineInvariant, PTL DEF PInv

-----------------------------------------------------------------------------
(* The events of the records, in order.                                    *)

LEMMA EventsOfRecords ==
    ASSUME NEW c \in Seq(Records)
    PROVE  /\ EventsOf(c) \in Seq(Events)
           /\ Len(EventsOf(c)) = Len(c) /\ Len(c) \in Nat
           /\ DOMAIN EventsOf(c) = 1 .. Len(c)
           /\ \A i \in 1 .. Len(c) : EventsOf(c)[i] = c[i].event
  <1>1. DOMAIN c = 1 .. Len(c) /\ Len(c) \in Nat /\ \A i \in 1 .. Len(c) : c[i] \in Records
    BY LenProperties, ElementOfSeq
  <1>2. EventsOf(c) \in [1 .. Len(c) -> Events]
    BY <1>1 DEF EventsOf, Records
  <1>3. EventsOf(c) \in Seq(Events)
    BY <1>1, <1>2, SeqDef
  <1>4. DOMAIN EventsOf(c) = 1 .. Len(EventsOf(c)) /\ Len(EventsOf(c)) \in Nat
    BY <1>3, LenProperties
  <1>5. Len(EventsOf(c)) = Len(c)
    BY <1>1, <1>2, <1>4
  <1> QED
    BY <1>1, <1>3, <1>4, <1>5 DEF EventsOf

LEMMA LogGrows ==
    ASSUME chain \in Seq(Records), NEW e \in Events, NEW root \in Seq(Events),
           chain' = Append(chain, Record(e, root))
    PROVE  EventsOf(chain)' = Append(EventsOf(chain), e)
  <1>1. Record(e, root) \in Records /\ Record(e, root).event = e
    BY DEF Record, Records
  <1>2. /\ chain' \in Seq(Records) /\ Len(chain') = Len(chain) + 1 /\ Len(chain) \in Nat
        /\ \A i \in 1 .. Len(chain) : chain'[i] = chain[i]
        /\ chain'[Len(chain) + 1] = Record(e, root)
    BY <1>1, AppendFacts
  <1>3. /\ Append(EventsOf(chain), e) \in Seq(Events)
        /\ Len(Append(EventsOf(chain), e)) = Len(chain) + 1
        /\ \A i \in 1 .. Len(chain) : Append(EventsOf(chain), e)[i] = chain[i].event
        /\ Append(EventsOf(chain), e)[Len(chain) + 1] = e
    BY EventsOfRecords, AppendFacts
  <1>4. /\ EventsOf(chain') \in Seq(Events) /\ Len(EventsOf(chain')) = Len(chain) + 1
        /\ \A i \in 1 .. Len(chain) + 1 : EventsOf(chain')[i] = chain'[i].event
    BY <1>2, EventsOfRecords
  <1>5. ASSUME NEW i \in 1 .. Len(chain) + 1
        PROVE  EventsOf(chain')[i] = Append(EventsOf(chain), e)[i]
    <2>1. EventsOf(chain')[i] = chain'[i].event
      BY <1>4
    <2>2. CASE i = Len(chain) + 1
      BY <1>1, <1>2, <1>3, <2>1, <2>2
    <2>3. CASE i \in 1 .. Len(chain)
      BY <1>2, <1>3, <2>1, <2>3
    <2>4. i = Len(chain) + 1 \/ i \in 1 .. Len(chain)
      <3>1. Len(chain) \in Nat
        BY <1>2
      <3> QED
        BY <3>1
    <2> QED
      BY <2>2, <2>3, <2>4
  <1>6. EventsOf(chain') = Append(EventsOf(chain), e)
    BY <1>3, <1>4, <1>5, SeqEqual
  <1> QED
    BY <1>6 DEF EventsOf

LEMMA LogShrinks ==
    ASSUME chain \in Seq(Records), NEW n \in 0 .. Len(chain), chain' = SubSeq(chain, 1, n)
    PROVE  EventsOf(chain)' = SubSeq(EventsOf(chain), 1, n)
  <1>1. /\ EventsOf(chain) \in Seq(Events) /\ Len(EventsOf(chain)) = Len(chain)
        /\ Len(chain) \in Nat
        /\ \A i \in 1 .. Len(chain) : EventsOf(chain)[i] = chain[i].event
    BY EventsOfRecords
  <1>2. /\ chain' \in Seq(Records) /\ Len(chain') = n
        /\ \A i \in 1 .. n : chain'[i] = chain[i]
    BY PrefixFacts
  <1>3. /\ SubSeq(EventsOf(chain), 1, n) \in Seq(Events)
        /\ Len(SubSeq(EventsOf(chain), 1, n)) = n
        /\ \A i \in 1 .. n : SubSeq(EventsOf(chain), 1, n)[i] = EventsOf(chain)[i]
    BY <1>1, PrefixFacts
  <1>4. /\ EventsOf(chain') \in Seq(Events) /\ Len(EventsOf(chain')) = n
        /\ \A i \in 1 .. n : EventsOf(chain')[i] = chain'[i].event
    BY <1>2, EventsOfRecords
  <1>5. \A i \in 1 .. n : EventsOf(chain')[i] = SubSeq(EventsOf(chain), 1, n)[i]
    BY <1>1, <1>2, <1>3, <1>4
  <1>6. EventsOf(chain') = SubSeq(EventsOf(chain), 1, n)
    BY <1>3, <1>4, <1>5, SeqEqual
  <1> QED
    BY <1>6 DEF EventsOf

-----------------------------------------------------------------------------
(* The records under a root.                                               *)

(* The records under every root are the beginning of its batch, and those  *)
(* under the root of the batch that is being flushed are the ones this     *)
(* flush has written: a batch of which an event is recorded already is     *)
(* refused at its first event.                                             *)
Leaves ==
    /\ \A r \in Seq(Events) : r # NoRoot => Begins(UnderRoot(r), r)
    /\ Flushing /\ call.at > 1 => Len(UnderRoot(pending_batch)) = call.at - 1

LEMMA UnderRootItems ==
    ASSUME chain \in Seq(Records), NEW r
    PROVE  /\ UnderRoot(r) \in Seq(Events) /\ Len(UnderRoot(r)) \in Nat
           /\ \A k \in 1 .. Len(UnderRoot(r)) : Logged(UnderRoot(r)[k])
  <1>1. /\ EventsOf(chain) \in Seq(Events) /\ Len(EventsOf(chain)) = Len(chain)
        /\ DOMAIN chain = 1 .. Len(chain)
        /\ \A i \in 1 .. Len(chain) : EventsOf(chain)[i] = chain[i].event
    BY EventsOfRecords, LenProperties
  <1>2. /\ UnderRoot(r) \in Seq(Events) /\ Len(UnderRoot(r)) \in Nat
        /\ \A k \in 1 .. Len(UnderRoot(r)) :
              \E i \in 1 .. Len(EventsOf(chain)) : UnderRoot(r)[k] = EventsOf(chain)[i]
    <2> DEFINE I == {i \in DOMAIN chain : chain[i].merkle_root = r}
               s == EventsOf(chain)
    <2>1. s \in Seq(Events) /\ UnderRoot(r) = Selected(s, I)
      BY <1>1 DEF UnderRoot
    <2> HIDE DEF I, s
    <2>2. Selected(s, I) \in Seq(Events) /\ Len(Selected(s, I)) \in Nat
      BY <2>1, SelectedItems
    <2>3. \A k \in 1 .. Len(Selected(s, I)) : \E i \in 1 .. Len(s) : Selected(s, I)[k] = s[i]
      BY <2>1, SelectedItems
    <2> QED
      BY <2>1, <2>2, <2>3 DEF s
  <1> QED
    BY <1>1, <1>2 DEF Logged

LEMMA UnderRootGrows ==
    ASSUME chain \in Seq(Records), NEW e \in Events, NEW root \in Seq(Events), NEW r,
           chain' = Append(chain, Record(e, root))
    PROVE  UnderRoot(r)' = IF root = r THEN Append(UnderRoot(r), e) ELSE UnderRoot(r)
  <1> DEFINE I == {i \in DOMAIN chain : chain[i].merkle_root = r}
             J == {i \in DOMAIN chain' : chain'[i].merkle_root = r}
  <1>1. Record(e, root) \in Records /\ Record(e, root).merkle_root = root
    BY DEF Record, Records
  <1>2. /\ DOMAIN chain = 1 .. Len(chain) /\ DOMAIN chain' = 1 .. Len(chain) + 1
        /\ \A i \in 1 .. Len(chain) : chain'[i] = chain[i]
        /\ chain'[Len(chain) + 1] = Record(e, root)
        /\ Len(chain) \in Nat
    BY <1>1, AppendFacts
  <1>3. /\ \A i \in 1 .. Len(chain) : i \in I <=> i \in J
        /\ Len(chain) + 1 \in J <=> root = r
    BY <1>1, <1>2
  <1>4. EventsOf(chain) \in Seq(Events) /\ Len(EventsOf(chain)) = Len(chain)
    BY EventsOfRecords
  <1>5. EventsOf(chain)' = Append(EventsOf(chain), e)
    BY LogGrows
  <1>6. UnderRoot(r) = Selected(EventsOf(chain), I) /\ UnderRoot(r)' = Selected(EventsOf(chain)', J)
    BY DEF UnderRoot
  <1> HIDE DEF I, J
  <1>7. Selected(Append(EventsOf(chain), e), J) =
            IF Len(EventsOf(chain)) + 1 \in J THEN Append(Selected(EventsOf(chain), I), e)
            ELSE Selected(EventsOf(chain), I)
    BY <1>3, <1>4, SelectedAppend
  <1> QED
    BY <1>3, <1>4, <1>5, <1>6, <1>7

LEMMA UnderRootShrinks ==
    ASSUME chain \in Seq(Records), NEW n \in 0 .. Len(chain), NEW r,
           chain' = SubSeq(chain, 1, n)
    PROVE  Begins(UnderRoot(r)', UnderRoot(r))
  <1> DEFINE I == {i \in DOMAIN chain : chain[i].merkle_root = r}
             J == {i \in DOMAIN chain' : chain'[i].merkle_root = r}
             s == EventsOf(chain)
  <1>1. /\ DOMAIN chain = 1 .. Len(chain) /\ DOMAIN chain' = 1 .. n
        /\ \A i \in 1 .. n : chain'[i] = chain[i]
        /\ Len(chain) \in Nat
    BY PrefixFacts, LenProperties
  <1>2. \A i \in 1 .. n : i \in I <=> i \in J
    BY <1>1
  <1>3. s \in Seq(Events) /\ n \in 0 .. Len(s)
    BY EventsOfRecords
  <1>4. EventsOf(chain)' = SubSeq(s, 1, n)
    BY LogShrinks
  <1>5. UnderRoot(r) = Selected(s, I) /\ UnderRoot(r)' = Selected(EventsOf(chain)', J)
    BY DEF UnderRoot
  <1> HIDE DEF I, J, s
  <1>6. Begins(Selected(SubSeq(s, 1, n), J), Selected(s, I))
    BY <1>2, <1>3, SelectedPrefix
  <1> QED
    BY <1>4, <1>5, <1>6

(* A record is written under no root, or as the next leaf of its batch.    *)
LEMMA LeavesGrow ==
    ASSUME PInv, Leaves, NEW e \in Events, NEW root \in Seq(Events),
           chain' = Append(chain, Record(e, root)),
           root # NoRoot => /\ Len(UnderRoot(root)) < Len(root)
                            /\ root[Len(UnderRoot(root)) + 1] = e
    PROVE  \A r \in Seq(Events) : r # NoRoot => Begins(UnderRoot(r), r)'
  <1> SUFFICES ASSUME NEW r \in Seq(Events), r # NoRoot
               PROVE  Begins(UnderRoot(r), r)'
    OBVIOUS
  <1>1. chain \in Seq(Records)
    BY DEF PInv, PType
  <1>2. UnderRoot(r)' = IF root = r THEN Append(UnderRoot(r), e) ELSE UnderRoot(r)
    BY <1>1, UnderRootGrows
  <1>3. Begins(UnderRoot(r), r)
    BY DEF Leaves
  <1>4. CASE root # r
    BY <1>2, <1>3, <1>4 DEF Begins
  <1>5. CASE root = r
    <2>1. UnderRoot(r)' = Append(UnderRoot(r), e)
      BY <1>2, <1>5
    <2>2. UnderRoot(r) \in Seq(Events) /\ Len(r) \in Nat
      BY <1>1, UnderRootItems, LenProperties
    <2> DEFINE t == UnderRoot(r)
               u == UnderRoot(r)'
    <2>3. /\ Len(t) \in Nat /\ Len(u) = Len(t) + 1
          /\ \A k \in 1 .. Len(t) : u[k] = t[k]
          /\ u[Len(t) + 1] = e
      BY <2>1, <2>2, AppendFacts
    <2>4. Len(t) < Len(r) /\ r[Len(t) + 1] = e /\ \A k \in 1 .. Len(t) : t[k] = r[k]
      BY <1>3, <1>5 DEF Begins
    <2> HIDE DEF t, u
    <2>5. Len(u) <= Len(r) /\ \A k \in 1 .. Len(u) : u[k] = r[k]
      BY <2>2, <2>3, <2>4
    <2> QED
      BY <2>5 DEF Begins, u
  <1> QED
    BY <1>4, <1>5

LEMMA LeavesStay ==
    ASSUME Leaves, UNCHANGED chain
    PROVE  /\ \A r \in Seq(Events) : r # NoRoot => Begins(UnderRoot(r), r)'
           /\ \A r : UnderRoot(r)' = UnderRoot(r)
  BY DEF Leaves, UnderRoot, EventsOf, Begins

LEMMA InitLeaves == Init => Leaves
  <1> SUFFICES ASSUME Init PROVE Leaves
    OBVIOUS
  <1>1. DOMAIN chain = {} /\ EventsOf(chain) = <<>> /\ ~Flushing
    BY EmptyBatch DEF Init, EventsOf, Flushing, Idle
  <1>2. \A r : UnderRoot(r) = <<>>
    BY <1>1, SelectedEmpty DEF UnderRoot
  <1>3. \A r \in Seq(Events) : Len(r) \in Nat
    BY LenProperties
  <1> QED
    BY <1>1, <1>2, <1>3, EmptyBatch DEF Leaves, Begins

(* The first event of a batch is recorded only if nothing is under its     *)
(* root.                                                                   *)
LEMMA NextLeaf ==
    ASSUME PInv, Leaves, Flushing, call.at <= Len(pending_batch),
           ~Logged(pending_batch[call.at])
    PROVE  /\ pending_batch # NoRoot
           /\ Len(UnderRoot(pending_batch)) = call.at - 1
           /\ call.at \in Nat
  <1>1. pending_batch \in Seq(Events) /\ call.at \in 1 .. Len(pending_batch) + 1
    BY DEF PInv, PType, FlushProgress
  <1>2. Len(pending_batch) \in Nat /\ Len(pending_batch) >= 1 /\ pending_batch # NoRoot
    BY <1>1, EmptyBatch DEF NoRoot
  <1>3. CASE call.at > 1
    BY <1>1, <1>2, <1>3 DEF Leaves
  <1>4. CASE call.at = 1
    <2> DEFINE t == UnderRoot(pending_batch)
    <2>1. Len(t) \in Nat /\ \A k \in 1 .. Len(t) : Logged(t[k])
      BY UnderRootItems DEF PInv, PType
    <2>2. \A k \in 1 .. Len(t) : t[k] = pending_batch[k]
      BY <1>1, <1>2 DEF Leaves, Begins
    <2> HIDE DEF t
    <2>3. Len(t) = 0
      <3> SUFFICES ASSUME Len(t) # 0 PROVE FALSE
        OBVIOUS
      <3>1. 1 \in 1 .. Len(t)
        BY <2>1
      <3> QED
        BY <3>1, <2>1, <2>2, <1>4
    <2> QED
      BY <1>2, <1>4, <2>3 DEF t
  <1> QED
    BY <1>1, <1>2, <1>3, <1>4

(* A record that a flush writes is the next leaf of the pending batch.     *)
LEMMA FlushLeaf ==
    ASSUME PInv, Leaves, Flushing, call.at <= Len(pending_batch),
           ~Logged(pending_batch[call.at]),
           chain' = Append(chain, Record(pending_batch[call.at], pending_batch))
    PROVE  \A r \in Seq(Events) : r # NoRoot => Begins(UnderRoot(r), r)'
  <1>1. /\ call.at \in Nat
        /\ Len(UnderRoot(pending_batch)) = call.at - 1
    BY NextLeaf
  <1>2. pending_batch \in Seq(Events) /\ call.at \in 1 .. Len(pending_batch) + 1
    BY DEF PInv, PType, FlushProgress
  <1>3. pending_batch[call.at] \in Events /\ Len(pending_batch) \in Nat
    BY <1>2, EmptyBatch
  <1>4. PICK root \in Seq(Events), e \in Events :
             root = pending_batch /\ e = pending_batch[call.at]
    BY <1>2, <1>3
  <1>5. chain' = Append(chain, Record(e, root))
    BY <1>4
  <1>6. Len(UnderRoot(root)) = call.at - 1 /\ Len(root) \in Nat /\ call.at <= Len(root)
    BY <1>1, <1>3, <1>4
  <1>7. Len(UnderRoot(root)) < Len(root) /\ root[Len(UnderRoot(root)) + 1] = e
    <2>1. Len(UnderRoot(root)) + 1 = call.at
      BY <1>1, <1>6
    <2> QED
      BY <1>1, <1>4, <1>6, <2>1
  <1> QED
    BY <1>5, <1>7, LeavesGrow

LEMMA NextLeaves == PInv /\ Leaves /\ [Next]_vars => Leaves'
  <1> SUFFICES ASSUME PInv, Leaves, [Next]_vars PROVE Leaves'
    OBVIOUS
  <1> DEFINE AllBegin == \A r \in Seq(Events) : r # NoRoot => Begins(UnderRoot(r), r)
  <1>1. ASSUME NEW e \in Events, Accepts(e, NoRoot) \/ Refuses(e) \/ Fails(e, NoRoot)
        PROVE  AllBegin'
    <2>1. CASE UNCHANGED chain
      BY <2>1, LeavesStay
    <2>2. CASE chain' = Append(chain, Record(e, NoRoot))
      BY <2>2, EmptyBatch, LeavesGrow DEF NoRoot
    <2> QED
      BY <1>1, <2>1, <2>2 DEF Accepts, Refuses, Fails, ledger
  <1>2. ASSUME NEW e \in Events, SubmitStep(e) PROVE Leaves'
    <2>1. AllBegin'
      <3>1. UNCHANGED ledger => AllBegin'
        BY LeavesStay DEF ledger
      <3> QED
        BY <1>1, <1>2, <3>1 DEF SubmitStep, StoreRaises, SubmitOffChain, SubmitImmediate,
                                SubmitImmediateRaises, SubmitBatched, SubmitAndFlush
    <2>2. ~(Flushing' /\ call'.at > 1)
      BY <1>2 DEF SubmitStep, StoreRaises, SubmitOffChain, SubmitImmediate, SubmitImmediateRaises,
                  SubmitBatched, SubmitAndFlush, Store, Submit, Flushing
    <2> QED
      BY <2>1, <2>2 DEF Leaves
  <1>3. CASE FlushRecord
    <2> DEFINE e == pending_batch[call.at]
    <2>1. /\ Flushing /\ call.at <= Len(pending_batch) /\ ~Logged(e)
          /\ chain' = Append(chain, Record(e, pending_batch))
          /\ call' = [call EXCEPT !.at = @ + 1] /\ UNCHANGED pending_batch
      BY <1>3 DEF FlushRecord, Accepts, Root
    <2>2. /\ pending_batch # NoRoot /\ call.at \in Nat
          /\ Len(UnderRoot(pending_batch)) = call.at - 1
      BY <2>1, NextLeaf
    <2>3. /\ chain \in Seq(Records) /\ pending_batch \in Seq(Events)
          /\ call \in Calls /\ call.at \in 1 .. Len(pending_batch) + 1
      BY <2>1 DEF PInv, PType, FlushProgress
    <2>4. e \in Events /\ Len(pending_batch) \in Nat
      BY <2>1, <2>3, EmptyBatch
    <2>5. AllBegin'
      BY <2>1, FlushLeaf
    <2>6. Len(UnderRoot(pending_batch))' = call'.at - 1
      <3> DEFINE r == pending_batch
      <3>1. PICK q \in Seq(Events) : q = pending_batch
        BY <2>3
      <3>2. UnderRoot(q)' = Append(UnderRoot(q), e)
        BY <3>1, <2>1, <2>3, <2>4, UnderRootGrows
      <3>3. UnderRoot(q) \in Seq(Events)
        BY <2>3, UnderRootItems
      <3>4. Len(UnderRoot(q)') = Len(UnderRoot(q)) + 1
        BY <3>2, <3>3, <2>4, AppendFacts
      <3>5. call'.at = call.at + 1
        BY <2>1, <2>3 DEF Calls
      <3> QED
        BY <3>1, <3>4, <3>5, <2>1, <2>2
    <2> QED
      BY <2>5, <2>6 DEF Leaves
  <1>4. CASE FlushRaises
    <2> DEFINE e == pending_batch[call.at]
    <2>1. Flushing /\ call.at <= Len(pending_batch) /\ call' = Idle
      BY <1>4 DEF FlushRaises, EndCall
    <2>2. UNCHANGED chain \/ (~Logged(e) /\ chain' = Append(chain, Record(e, pending_batch)))
      BY <1>4 DEF FlushRaises, Refuses, Fails, Root, ledger
    <2>3. AllBegin'
      <3>1. CASE UNCHANGED chain
        BY <3>1, LeavesStay
      <3>2. CASE ~Logged(e) /\ chain' = Append(chain, Record(e, pending_batch))
        BY <2>1, <3>2, FlushLeaf
      <3> QED
        BY <2>2, <3>1, <3>2
    <2> QED
      BY <2>1, <2>3 DEF Leaves, Flushing, Idle
  <1>5. CASE FlushReturn \/ CloseEmpty \/ Close
    <2>1. UNCHANGED chain /\ ~(Flushing' /\ call'.at > 1)
      BY <1>5 DEF FlushReturn, CloseEmpty, Close, EndCall, Idle, Flushing, ledger
    <2> QED
      BY <2>1, LeavesStay DEF Leaves
  <1>6. CASE Restart
    <2>1. PICK n \in durable .. Len(chain) : chain' = SubSeq(chain, 1, n)
      BY <1>6 DEF Restart
    <2>2. chain \in Seq(Records) /\ n \in 0 .. Len(chain)
      BY <2>1, LenProperties DEF PInv, PType
    <2>3. ~Flushing'
      BY <1>6 DEF Restart, Flushing, Idle
    <2>4. ASSUME NEW r \in Seq(Events), r # NoRoot PROVE Begins(UnderRoot(r), r)'
      <3> DEFINE t == UnderRoot(r)
                 u == UnderRoot(r)'
      <3>1. Begins(u, t)
        BY <2>1, <2>2, UnderRootShrinks
      <3>2. Begins(t, r)
        BY <2>4 DEF Leaves
      <3>3. Len(t) \in Nat /\ Len(r) \in Nat
        BY <2>2, UnderRootItems, LenProperties
      <3>4. chain' \in Seq(Records)
        BY <2>1, <2>2, PrefixFacts
      <3>5. Len(u) \in Int
        <4>1. \E n2 \in Nat : n2 = Len(u)
          BY <3>4, EventsOfRecords, SelectedItems DEF UnderRoot
        <4> QED
          BY <4>1
      <3> HIDE DEF t, u
      <3>6. Begins(u, r)
        BY <3>1, <3>2, <3>3, <3>5 DEF Begins
      <3> QED
        BY <3>6 DEF u
    <2> QED
      BY <2>3, <2>4 DEF Leaves
  <1>7. CASE UNCHANGED vars
    <2>1. UNCHANGED <<chain, call, pending_batch>>
      BY <1>7 DEF vars, ledger
    <2> QED
      BY <2>1, LeavesStay DEF Leaves, Flushing
  <1> QED
    BY <1>2, <1>3, <1>4, <1>5, <1>6, <1>7 DEF Next, FlushStep

(* The records that carry a Merkle root are the first leaves of its batch, *)
(* in their order, also after flushes that failed half way and were tried  *)
(* again, and after a restart that collects the same batch anew            *)
(* (pipeline.py:118-146).                                                  *)
THEOREM RecordsMatchTheirRoot == Spec => []RootsMatchRecords
  <1>1. PInv /\ Leaves => RootsMatchRecords
    <2> SUFFICES ASSUME PInv, Leaves, NEW i \in DOMAIN chain, chain[i].merkle_root # NoRoot
                 PROVE  Begins(UnderRoot(chain[i].merkle_root), chain[i].merkle_root)
      BY DEF RootsMatchRecords
    <2>1. chain \in Seq(Records)
      BY DEF PInv, PType
    <2>2. chain[i] \in Records
      BY <2>1, LenProperties, ElementOfSeq
    <2> QED
      BY <2>2 DEF Records, Leaves
  <1>2. Spec => []Leaves
    BY InitLeaves, NextLeaves, PipelineInvariant, PTL DEF Spec
  <1> QED
    BY <1>1, <1>2, PipelineInvariant, PTL
=============================================================================
