---------------------------- MODULE SecurityLog ----------------------------
(***************************************************************************)
(* The chaincode securitylog.go on a Fabric channel, called through        *)
(* ledger/fabric_gateway.py.                                               *)
(*                                                                         *)
(* A call is simulated on an endorsing peer, which may be behind, and      *)
(* changes nothing there: what it read (with versions) and what it wants   *)
(* to write is ordered later, and counts only if what it read has not      *)
(* changed in between.  Peers apply the ordered transactions one by one.   *)
(* A submission can be lost before it is ordered; the answer can be lost   *)
(* after it, and then the caller sees an error and may call again.         *)
(*                                                                         *)
(* Endorsement, ordering, validation and peers are Fabric's (external);    *)
(* the chaincode decides what is read, refused, written and answered.      *)
(* Peers that endorse one call agree on what they read, so one is enough.  *)
(***************************************************************************)
EXTENDS Naturals, Sequences, FiniteSets, Subsequences

CONSTANTS Callers,           \* clients; each has one call under way
          Agents,            \* those with the attribute phase2.detectionAgent
          Peers,
          EventIds, PayloadDigests,
          Models, Provenances,
          MaxCalls,          \* calls of one client
          NoState             \* nil

(* What LogSecurityEvent stores: the digest, under a call's transaction.   *)
EventRecords == [payload_digest : PayloadDigests, transaction_id : Callers \X Nat]

ASSUME SecurityLogAssumption ==
    /\ Agents \subseteq Callers /\ MaxCalls \in Nat
    /\ NoState \notin EventRecords

VARIABLES
    txs,       \* the ordered transactions, with the verdict of validation
    height,    \* how many of them each peer has applied
    call,      \* the call each client has under way
    made,      \* calls each client has made
    receipts   \* history: receipts of LogSecurityEvent

chvars == <<txs, height, call, made, receipts>>

(* CreateCompositeKey: a record's key is not a model's, whatever the ids.  *)
EventKey(e) == <<"EVENT~", e>>

(* Mutation of ProvenanceKey: the prefix of the events.                    *)
SamePrefix(m) == <<"EVENT~", m>>

ProvenanceKey(m) == <<"PROVENANCE~", m>>

Idle == [state |-> "idle"]

ChannelInit ==
    /\ txs = <<>>
    /\ height = [p \in Peers |-> 0]
    /\ call = [c \in Callers |-> Idle]
    /\ made = [c \in Callers |-> 0]
    /\ receipts = {}

-----------------------------------------------------------------------------
(* World state.                                                            *)

(* The last transaction among the first h that wrote key k; 0 if none did. *)
Writers(k, h) == {i \in 1 .. h : txs[i].key = k /\ txs[i].valid}
Version(k, h) ==
    IF Writers(k, h) = {} THEN 0
    ELSE CHOOSE i \in Writers(k, h) : \A j \in Writers(k, h) : j <= i

GetState(p, k) == IF Version(k, height[p]) = 0 THEN NoState ELSE txs[Version(k, height[p])].value

-----------------------------------------------------------------------------
(* Simulation.  A call that is refused (no attribute, an id that is there  *)
(* already) changes nothing and has no action.                             *)

Endorsed(c, key, reads, value) ==
    /\ call' = [call EXCEPT ![c] =
           [state |-> "endorsed", key |-> key, reads |-> reads, value |-> value]]
    /\ made' = [made EXCEPT ![c] = @ + 1]
    /\ UNCHANGED <<txs, height, receipts>>

requireDetectionAgent(c) == c \in Agents

CanCall(c) == call[c].state = "idle" /\ made[c] < MaxCalls

(* A stored record carries the transaction id the receipt names.           *)
EventRecord(c, d) == [payload_digest |-> d, transaction_id |-> <<c, made[c] + 1>>]

(* Mutation of LogSecurityEvent: the key is written without being read.    *)
PutWithoutGet(c, p, e, d) ==
    /\ CanCall(c) /\ requireDetectionAgent(c)
    /\ Endorsed(c, EventKey(e), {}, EventRecord(c, d))

(* Mutation of LogSecurityEvent: the key is read, and not looked at.       *)
PutAnyway(c, p, e, d) ==
    /\ CanCall(c) /\ requireDetectionAgent(c)
    /\ Endorsed(c, EventKey(e), {Version(EventKey(e), height[p])}, EventRecord(c, d))

LogSecurityEvent(c, p, e, d) ==
    /\ CanCall(c) /\ requireDetectionAgent(c)
    /\ GetState(p, EventKey(e)) = NoState
    /\ Endorsed(c, EventKey(e), {Version(EventKey(e), height[p])}, EventRecord(c, d))

AnchorModelProvenance(c, m, v) ==
    /\ CanCall(c) /\ requireDetectionAgent(c)
    /\ Endorsed(c, ProvenanceKey(m), {}, [provenance |-> v])

-----------------------------------------------------------------------------
(* Reads.                                                                  *)

(* getEvent is nil for a key never written, and VerifyEvent then false.    *)
IsEvent(r) == r # NoState /\ "payload_digest" \in DOMAIN r
getEvent(p, e) == LET r == GetState(p, EventKey(e)) IN IF IsEvent(r) THEN r ELSE NoState
VerifyEvent(p, e, d) == getEvent(p, e) # NoState /\ getEvent(p, e).payload_digest = d

(* The records under the event prefix, here without filter and order.      *)
QueryEventHistory(p) == {<<e, getEvent(p, e)>> : e \in {x \in EventIds : getEvent(p, x) # NoState}}

GetModelProvenance(p, m) == GetState(p, ProvenanceKey(m))

-----------------------------------------------------------------------------
(* Ordering, validation, delivery and the answer.                          *)

Order(c) ==
    /\ call[c].state = "endorsed"
    /\ txs' = Append(txs,
           [key |-> call[c].key, value |-> call[c].value,
            valid |-> \A v \in call[c].reads : Version(call[c].key, Len(txs)) = v])
    /\ call' = [call EXCEPT ![c] = [state |-> "ordered", index |-> Len(txs) + 1]]
    /\ UNCHANGED <<height, made, receipts>>

Deliver(p) ==
    /\ height[p] < Len(txs)
    /\ height' = [height EXCEPT ![p] = @ + 1]
    /\ UNCHANGED <<txs, call, made, receipts>>

(* The status of the commit comes back, and the response of the chaincode. *)
Answer(c) ==
    /\ call[c].state = "ordered"
    /\ \E p \in Peers : height[p] >= call[c].index
    /\ LET t == txs[call[c].index]
       IN  receipts' = IF t.valid /\ t.key[2] \in EventIds /\ t.key = EventKey(t.key[2])
                       THEN receipts \cup {[event |-> t.key[2], record |-> t.value]}
                       ELSE receipts
    /\ call' = [call EXCEPT ![c] = Idle]
    /\ UNCHANGED <<txs, height, made>>

(* The submission or its answer is lost: an error for the caller.          *)
Lost(c) ==
    /\ call[c].state # "idle"
    /\ call' = [call EXCEPT ![c] = Idle]
    /\ UNCHANGED <<txs, height, made, receipts>>

ChannelStep ==
    \/ \E c \in Callers :
          \/ \E p \in Peers, e \in EventIds, d \in PayloadDigests : LogSecurityEvent(c, p, e, d)
          \/ \E m \in Models, v \in Provenances : AnchorModelProvenance(c, m, v)
          \/ Order(c) \/ Answer(c) \/ Lost(c)
    \/ \E p \in Peers : Deliver(p)

-----------------------------------------------------------------------------
(* Properties.                                                             *)

(* What was ordered with success is on the ledger for good, each event     *)
(* once, although calls for one id are simulated side by side and on peers *)
(* that are behind, and a call whose answer was lost is made again: the    *)
(* channel is an append-only log.  Code: securitylog.go:94-138.            *)
IsLogged(t) == t.valid /\ t.key[1] = EventKey(t.key[2])[1]
LoggedEvents == Selected([i \in DOMAIN txs |-> txs[i].key[2]], {i \in DOMAIN txs : IsLogged(txs[i])})
Log == INSTANCE AppendOnlyLog WITH
           log <- LoggedEvents,
           receipts <- {LoggedEvents[i] : i \in DOMAIN LoggedEvents},
           lost <- FALSE
ChannelIsAppendOnlyLog == Log!Spec

(* A receipt names the record that is stored: the caller's digest under    *)
(* the caller's transaction, on every peer that knows the event, and some  *)
(* peer does (securitylog.go:119-138).                                     *)
ReceiptsNameTheRecord ==
    \A r \in receipts :
        /\ \A p \in Peers : getEvent(p, r.event) \in {NoState, r.record}
        /\ \E p \in Peers : getEvent(p, r.event) = r.record

(* An auditor who asks two peers may find one behind, but no two answers   *)
(* that contradict each other; what was verified once stays so on that     *)
(* peer, and its history only grows (securitylog.go:142-218).              *)
VerdictsAgree ==
    [][/\ \A p, q \in Peers, e \in EventIds :
             getEvent(p, e) # NoState /\ getEvent(q, e)' # NoState => getEvent(p, e) = getEvent(q, e)'
       /\ \A p \in Peers : QueryEventHistory(p) \subseteq QueryEventHistory(p)']_chvars
=============================================================================
