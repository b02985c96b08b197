--------------------------- MODULE Phase2Pipeline ---------------------------
(***************************************************************************)
(* Phase2Pipeline of pipeline.py: submit stores an event's payload and, by *)
(* the anchoring policy's decision, leaves it at that, records it on the   *)
(* ledger at once, or puts it in a batch that flush_batch records event by *)
(* event; close flushes what is left.                                      *)
(*                                                                         *)
(* There is one calling thread, as in run_stage.py, with or without the    *)
(* queue of AsyncSubmission in front: it calls submit, repeats a submit    *)
(* that raised, and may die and start again over the same store and        *)
(* ledger.  A call on the ledger is a step; it returns a receipt, refuses  *)
(* an event it has, or raises for reasons of its own, with the event       *)
(* recorded or not.  The ledger is taken as AppendOnlyLog describes it;    *)
(* that MockLedger and SecurityLog are such ledgers is shown there.        *)
(***************************************************************************)
EXTENDS Naturals, Sequences, FiniteSets, Subsequences

CONSTANTS Events,
          OffChain, Immediate,   \* events the policy decides so; the rest is BATCH
          BatchSize,             \* batch_size of the pipeline
          MaxSubmits,            \* bound: how often submit is called
          MaxFailures            \* bound: how often store or ledger fail

ASSUME PipelineAssumption ==
    /\ OffChain \subseteq Events /\ Immediate \subseteq Events
    /\ OffChain \cap Immediate = {}
    /\ BatchSize \in Nat /\ MaxSubmits \in Nat /\ MaxFailures \in Nat

VARIABLES
    evidence,       \* events whose payload is in the evidence store
    pending_batch,  \* _pending_batch
    call,           \* the call that is flushing: [op, event: its argument, at]
    \* the ledger
    chain,          \* its records: [event, merkle_root]
    durable,        \* how many of them a restart cannot lose
    \* history
    returned,       \* events whose submit() has returned, in this process
    last_close,     \* how the last close() ended, if no submit() has followed
    submits,        \* calls of submit() so far
    failures        \* failures of the store and the ledger so far

ledger == <<chain, durable>>
vars == <<evidence, pending_batch, call, ledger, returned, last_close, submits, failures>>

-----------------------------------------------------------------------------
Batched == Events \ (OffChain \cup Immediate)

(* Mutation of Root: the newest event is not among the leaves.             *)
RootBeforeAppend == SubSeq(pending_batch, 1, Len(pending_batch) - 1)

(* A Merkle root is the list of the leaves it is built from.               *)
NoRoot == <<>>
Record(e, root) == [event |-> e, merkle_root |-> root]
Root == pending_batch

Logged(e) == \E i \in DOMAIN chain : chain[i].event = e
IsPending(e) == \E i \in DOMAIN pending_batch : pending_batch[i] = e

Idle == [op |-> "none", event |-> "none", at |-> 0]
Flushing == call.op # "none"

Init ==
    /\ evidence = {}
    /\ pending_batch = <<>>
    /\ call = Idle
    /\ chain = <<>>
    /\ durable = 0
    /\ returned = {}
    /\ last_close = "none"
    /\ submits = 0
    /\ failures = 0

-----------------------------------------------------------------------------
(* ledger.log_security_event(record), as its caller sees it.               *)

Accepts(e, root) ==
    /\ ~Logged(e)
    /\ chain' = Append(chain, Record(e, root))
    /\ durable' = Len(chain) + 1
    /\ UNCHANGED failures

Refuses(e) == Logged(e) /\ UNCHANGED <<ledger, failures>>

Fail == failures < MaxFailures /\ failures' = failures + 1

Fails(e, root) ==
    /\ Fail
    /\ \/ UNCHANGED chain
       \/ ~Logged(e) /\ chain' = Append(chain, Record(e, root))
    /\ UNCHANGED durable

-----------------------------------------------------------------------------
(* submit(event).                                                          *)

(* A call of submit: the caller repeats it only if it has not returned.    *)
Submit(e) ==
    /\ ~Flushing
    /\ e \notin returned
    /\ submits < MaxSubmits
    /\ submits' = submits + 1
    /\ last_close' = "none"

(* put_json(evidence_store, event).                                        *)
Store(e) == Submit(e) /\ evidence' = evidence \cup {e}

Return(e) == returned' = returned \cup {e}

(* Mutation of StoreRaises: an IMMEDIATE event is recorded before its      *)
(* payload is stored.                                                      *)
RecordsThenRaises(e) ==
    /\ Submit(e)
    /\ Fail
    /\ IF e \in Immediate /\ ~Logged(e)
       THEN chain' = Append(chain, Record(e, NoRoot)) /\ durable' = Len(chain) + 1
       ELSE UNCHANGED ledger
    /\ UNCHANGED <<evidence, pending_batch, call, returned>>

StoreRaises(e) ==
    /\ Submit(e)
    /\ Fail
    /\ UNCHANGED <<evidence, pending_batch, call, ledger, returned>>

SubmitOffChain(e) ==
    /\ e \in OffChain
    /\ Store(e)
    /\ Return(e)
    /\ UNCHANGED <<pending_batch, call, ledger, failures>>

SubmitImmediate(e) ==
    /\ e \in Immediate
    /\ Store(e)
    /\ Accepts(e, NoRoot) /\ Return(e)
    /\ UNCHANGED <<pending_batch, call>>

(* The ledger's exception is submit's.                                     *)
SubmitImmediateRaises(e) ==
    /\ e \in Immediate
    /\ Store(e)
    /\ Refuses(e) \/ Fails(e, NoRoot)
    /\ UNCHANGED <<pending_batch, call, returned>>

(* The batch window is not full yet ...                                    *)
SubmitBatched(e) ==
    /\ e \in Batched
    /\ Store(e)
    /\ pending_batch' = Append(pending_batch, e)
    /\ Len(pending_batch') < BatchSize
    /\ Return(e)
    /\ UNCHANGED <<call, ledger, failures>>

(* ... or is, and submit goes on into flush_batch.                         *)
SubmitAndFlush(e) ==
    /\ e \in Batched
    /\ Store(e)
    /\ pending_batch' = Append(pending_batch, e)
    /\ Len(pending_batch') >= BatchSize
    /\ call' = [op |-> "submit", event |-> e, at |-> 1]
    /\ UNCHANGED <<ledger, returned, failures>>

-----------------------------------------------------------------------------
(* close() and flush_batch().                                              *)

CloseEmpty ==
    /\ ~Flushing
    /\ pending_batch = <<>>
    /\ last_close' = "ok"
    /\ UNCHANGED <<evidence, pending_batch, call, ledger, returned, submits, failures>>

(* Mutation of Close: only a full window is flushed.                       *)
CloseFullOnly ==
    /\ ~Flushing
    /\ pending_batch # <<>> /\ Len(pending_batch) >= BatchSize
    /\ call' = [op |-> "close", event |-> "none", at |-> 1]
    /\ UNCHANGED <<evidence, pending_batch, ledger, returned, last_close, submits, failures>>

Close ==
    /\ ~Flushing
    /\ pending_batch # <<>>
    /\ call' = [op |-> "close", event |-> "none", at |-> 1]
    /\ UNCHANGED <<evidence, pending_batch, ledger, returned, last_close, submits, failures>>

(* One round of the loop: the event is signed and recorded with the root.  *)
FlushRecord ==
    /\ Flushing
    /\ call.at <= Len(pending_batch)
    /\ Accepts(pending_batch[call.at], Root)
    /\ call' = [call EXCEPT !.at = @ + 1]
    /\ UNCHANGED <<evidence, pending_batch, returned, last_close, submits>>

(* The call ends: submit or close raises, or returns.                      *)
EndCall(how) ==
    /\ call' = Idle
    /\ last_close' = IF call.op = "close" THEN how ELSE last_close

(* Mutation of FlushRaises: the batch is given up when the ledger raises.  *)
FlushGivesUp ==
    /\ Flushing
    /\ call.at <= Len(pending_batch)
    /\ LET e == pending_batch[call.at]
       IN  \/ Refuses(e) /\ EndCall("refused")
           \/ Fails(e, Root) /\ EndCall("failed")
    /\ pending_batch' = <<>>
    /\ UNCHANGED <<evidence, returned, submits>>

(* The ledger raises: the loop is left, and the batch is as it was.        *)
FlushRaises ==
    /\ Flushing
    /\ call.at <= Len(pending_batch)
    /\ LET e == pending_batch[call.at]
       IN  \/ Refuses(e) /\ EndCall("refused")
           \/ Fails(e, Root) /\ EndCall("failed")
    /\ UNCHANGED <<evidence, pending_batch, returned, submits>>

(* Mutation of FlushReturn: flush_batch keeps what it has recorded.        *)
FlushKeeps ==
    /\ Flushing
    /\ call.at > Len(pending_batch)
    /\ EndCall("ok")
    /\ returned' = IF call.op = "submit" THEN returned \cup {call.event} ELSE returned
    /\ UNCHANGED <<evidence, pending_batch, ledger, submits, failures>>

(* Only after the last record is the batch cleared.                        *)
FlushReturn ==
    /\ Flushing
    /\ call.at > Len(pending_batch)
    /\ pending_batch' = <<>>
    /\ EndCall("ok")
    /\ returned' = IF call.op = "submit" THEN returned \cup {call.event} ELSE returned
    /\ UNCHANGED <<evidence, ledger, submits, failures>>

(* The process ends, and another one opens the same store and ledger: the  *)
(* batch is gone, and so may be what was not yet written of the ledger.    *)
Restart ==
    /\ pending_batch' = <<>>
    /\ call' = Idle
    /\ returned' = {}
    /\ last_close' = "none"
    /\ \E n \in durable .. Len(chain) : chain' = SubSeq(chain, 1, n) /\ durable' = n
    /\ UNCHANGED <<evidence, submits, failures>>

-----------------------------------------------------------------------------
SubmitStep(e) ==
    \/ StoreRaises(e) \/ SubmitOffChain(e)
    \/ SubmitImmediate(e) \/ SubmitImmediateRaises(e)
    \/ SubmitBatched(e) \/ SubmitAndFlush(e)

FlushStep == FlushRecord \/ FlushRaises \/ FlushReturn

Next == (\E e \in Events : SubmitStep(e)) \/ CloseEmpty \/ Close \/ FlushStep \/ Restart

Spec == Init /\ [][Next]_vars

(* A call goes on until it ends, and a caller closes its pipeline.  Store  *)
(* and ledger fail finitely often.                                         *)
FairSpec == Spec /\ WF_vars(FlushStep) /\ WF_vars(Close)

-----------------------------------------------------------------------------
(* Properties.                                                             *)

(* Whatever submit() has returned for is taken care of: the payload can be *)
(* retrieved, an IMMEDIATE event is on the ledger, and a BATCH event is on *)
(* it or will be in the next flush, through failed flushes, repeated       *)
(* submits and refused records (77-116, 118-146).                          *)
ReturnedIsKept ==
    \A e \in returned :
        /\ e \in evidence
        /\ e \in Immediate => Logged(e)
        /\ e \in Batched => Logged(e) \/ IsPending(e)

(* An auditor finds the payload of every record on the ledger: it was      *)
(* stored before the record was written, whatever failed in between and    *)
(* whichever process wrote it (80-81; audit.py:32-103).                    *)
EvidenceForEveryRecord == \A i \in DOMAIN chain : chain[i].event \in evidence

(* The records that carry a Merkle root are the first leaves of its batch, *)
(* in the order of the batch: an inclusion proof for any of them can be    *)
(* built, also after a flush that failed half way (123-144).               *)
EventsOf(c) == [i \in DOMAIN c |-> c[i].event]
UnderRoot(r) == Selected(EventsOf(chain), {i \in DOMAIN chain : chain[i].merkle_root = r})
RootsMatchRecords ==
    \A i \in DOMAIN chain :
        LET r == chain[i].merkle_root IN r # NoRoot => Begins(UnderRoot(r), r)

(* close() returning means that nothing is left to anchor: every event     *)
(* whose submit returned with BATCH is on the ledger (148-151).            *)
CloseAnchorsAll ==
    last_close = "ok" => /\ pending_batch = <<>>
                         /\ \A e \in returned \cap Batched : Logged(e)

(* A BATCH event whose submit returned is anchored in the end: the window  *)
(* fills, or close flushes it, and what the ledger fails to record is      *)
(* tried again in the next flush.  Two things alone stand in its way: the  *)
(* process ends, or an event before it in the batch is on the ledger       *)
(* already, so that every flush is refused there: recorded by a flush that *)
(* then failed, or by an earlier process (112-114, 118-151).               *)
Blocked(e) ==
    /\ ~Flushing
    /\ \E i, j \in DOMAIN pending_batch :
           i < j /\ pending_batch[j] = e /\ Logged(pending_batch[i])

EventuallyAnchored ==
    \A e \in Batched : e \in returned ~> (Logged(e) \/ e \notin returned \/ Blocked(e))

-----------------------------------------------------------------------------
(* A statement of the repository that the pipeline does not keep.          *)

(* "call at shutdown so no event is left un-anchored merely because a      *)
(* batch window never filled" (pipeline.py:149-150): a close() in which    *)
(* the ledger did not fail leaves no event of the batch un-anchored.       *)
NothingLeftUnanchored ==
    last_close \in {"ok", "refused"} => \A e \in Batched : IsPending(e) => Logged(e)
=============================================================================
