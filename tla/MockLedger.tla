----------------------------- MODULE MockLedger -----------------------------
(***************************************************************************)
(* MockLedger of ledger/mock_ledger.py: a hash-chained list of blocks, two *)
(* look-up tables over it, the map of agents that may write, and the JSON  *)
(* file the whole of it is rewritten to after every append.                *)
(*                                                                         *)
(* The re-entrant lock makes an operation one step for every other thread; *)
(* what can come between the append and the end of the write is an OSError *)
(* or the end of the process.  A hash is the value it is computed from, so *)
(* two hashes agree exactly when their inputs do.  Operations that are     *)
(* refused change nothing and have no action.                              *)
(***************************************************************************)
EXTENDS Naturals, Sequences, FiniteSets, SequencesExt, Subsequences

CONSTANTS EventIds, Digests,      \* event_id and payload_digest values
          Agents, Keys,           \* agent ids, and their public keys
          Models, Provenances,    \* model_digest values, provenance records
          MaxBlocks               \* bound on the length of the chain

ASSUME LedgerAssumption ==
    /\ MaxBlocks \in Nat \ {0}
    /\ "none" \notin Digests \cup Keys      \* None, below

VARIABLES
    \* the process
    mode,                  \* "down", "open", or "unreadable": _load raised
    chain,                 \* _chain
    events_by_id,          \* _events_by_id
    provenance_by_digest,  \* _provenance_by_digest
    authorised_agents,     \* _authorised_agents
    \* the file at _persist_path
    file,
    \* history
    logged,                \* the digest each event was last recorded with
    acked,                 \* events whose caller has got a receipt
    tampered               \* has the demonstration's method ever been called?

memory == <<chain, events_by_id, provenance_by_digest, authorised_agents>>
vars == <<mode, memory, file, logged, acked, tampered>>

-----------------------------------------------------------------------------
(* Blocks.  Every block but the genesis block holds one record: an event   *)
(* (id, digest, writing agent) or a model's provenance.                    *)

None == "none"
GENESIS_HASH == <<>>     \* what no block hashes to

(* Mutation of compute_hash: the record is left out of what is hashed.     *)
hash_of_header(b) == <<b.previous_hash, b.kind, b.id, b.agent>>

compute_hash(b) == <<b.previous_hash, b.kind, b.id, b.content, b.agent>>

Block(prev, kind, id, content, agent) ==
    LET body == [previous_hash |-> prev, kind |-> kind, id |-> id,
                 content |-> content, agent |-> agent, hash |-> None]
    IN  [body EXCEPT !.hash = compute_hash(body)]

Genesis == Block(GENESIS_HASH, "genesis", None, None, None)
EventBlock(e, d, a) == Block(Last(chain).hash, "event", e, d, a)

ProvenanceBlock(m, p) == Block(Last(chain).hash, "provenance", m, p, None)

EventBlocks(c, e) == {i \in DOMAIN c : c[i].kind = "event" /\ c[i].id = e}
ModelBlocks(c, m) == {i \in DOMAIN c : c[i].kind = "provenance" /\ c[i].id = m}
Latest(I) == CHOOSE i \in I : \A j \in I : j <= i

(* Entries of _events_by_id: the record, and what the receipt said of it.  *)
Unfilled == <<>>
Entry(d, txid, n) == [payload_digest |-> d, transaction_id |-> txid, block_number |-> n]
NoEntry == Entry(None, None, None)
Known(e) == events_by_id[e].payload_digest # None

(* What the file holds, and what the process remembers when it is down.    *)
Absent == [state |-> "absent", chain |-> <<>>, agents |-> [a \in Agents |-> None]]
Torn == [Absent EXCEPT !.state = "torn"]

Saved(c) == [state |-> "whole", chain |-> c, agents |-> authorised_agents]

Blank ==
    /\ chain' = <<>>
    /\ events_by_id' = [e \in EventIds |-> NoEntry]
    /\ provenance_by_digest' = [m \in Models |-> None]
    /\ authorised_agents' = [a \in Agents |-> None]

Init ==
    /\ mode = "down"
    /\ chain = <<>>
    /\ events_by_id = [e \in EventIds |-> NoEntry]
    /\ provenance_by_digest = [m \in Models |-> None]
    /\ authorised_agents = [a \in Agents |-> None]
    /\ file = Absent
    /\ logged = [e \in EventIds |-> None]
    /\ acked = {}
    /\ tampered = FALSE

-----------------------------------------------------------------------------
(* The constructor.                                                        *)

(* Without a file: the genesis block and the agents it was given.          *)
Create(given) ==
    /\ mode # "open"
    /\ file.state = "absent"
    /\ mode' = "open"
    /\ chain' = <<Genesis>>
    /\ authorised_agents' = given
    /\ UNCHANGED <<events_by_id, provenance_by_digest, file, logged, acked, tampered>>

(* _load: the saved agents replace those given under the same id, hashes   *)
(* are computed anew, and an event's entry is the record as it was handed  *)
(* in, before any receipt.                                                 *)
Rebuilt(b) == [b EXCEPT !.hash = compute_hash(b)]

Load(given) ==
    /\ mode # "open"
    /\ file.state = "whole"
    /\ mode' = "open"
    /\ chain' = [i \in DOMAIN file.chain |-> Rebuilt(file.chain[i])]
    /\ authorised_agents' = [a \in Agents |-> IF file.agents[a] # None
                                              THEN file.agents[a] ELSE given[a]]
    /\ events_by_id' = [e \in EventIds |->
          LET I == EventBlocks(file.chain, e)
          IN  IF I = {} THEN NoEntry ELSE Entry(file.chain[Latest(I)].content, Unfilled, None)]
    /\ provenance_by_digest' = [m \in Models |->
          LET I == ModelBlocks(file.chain, m)
          IN  IF I = {} THEN None ELSE file.chain[Latest(I)].content]
    /\ UNCHANGED <<file, logged, acked, tampered>>

(* A file cut short is not JSON: the constructor raises, now and always.   *)
LoadFails ==
    /\ mode # "open"
    /\ file.state = "torn"
    /\ mode' = "unreadable"
    /\ UNCHANGED <<memory, file, logged, acked, tampered>>

Crash ==
    /\ mode = "open"
    /\ mode' = "down"
    /\ Blank
    /\ UNCHANGED <<file, logged, acked, tampered>>

-----------------------------------------------------------------------------
(* The operations of an open ledger.                                       *)

register_agent(a, k) ==
    /\ mode = "open"
    /\ authorised_agents' = [authorised_agents EXCEPT ![a] = k]
    /\ UNCHANGED <<mode, chain, events_by_id, provenance_by_digest, file, logged, acked, tampered>>

(* Mutation of persist: the file is written before the append.             *)
persist_first == file' = Saved(chain)

(* persist rewrites the file in place.  It may raise before or after the  *)
(* old content is gone.                                                    *)
persist == file' = Saved(chain')
PersistRaises == file' \in {file, Torn}

(* Mutation of MayLog: an id that is on the chain is accepted again.       *)
MayLogAgain(e, a, k) ==
    /\ mode = "open"
    /\ Len(chain) < MaxBlocks
    /\ authorised_agents[a] = k

(* A signature by key k is accepted for agent a, and the id is new.        *)
MayLog(e, a, k) ==
    /\ mode = "open"
    /\ Len(chain) < MaxBlocks
    /\ authorised_agents[a] = k
    /\ ~Known(e)

RecordEvent(e, d, a, k) ==
    /\ MayLog(e, a, k)
    /\ LET b == EventBlock(e, d, a)
       IN  /\ chain' = Append(chain, b)
           /\ events_by_id' = [events_by_id EXCEPT ![e] = Entry(d, b.hash, Len(chain))]
    /\ logged' = [logged EXCEPT ![e] = d]
    /\ UNCHANGED <<mode, provenance_by_digest, authorised_agents, tampered>>

log_security_event(e, d, a, k) ==
    /\ RecordEvent(e, d, a, k)
    /\ persist
    /\ acked' = acked \cup {e}

(* Mutation of LogRaises: the OSError is swallowed.                        *)
LogSwallows(e, d, a, k) ==
    /\ RecordEvent(e, d, a, k)
    /\ PersistRaises
    /\ acked' = acked \cup {e}

(* The write raises: the event stays on the chain, the caller gets an      *)
(* exception instead of a receipt.                                         *)
LogRaises(e, d, a, k) ==
    /\ RecordEvent(e, d, a, k)
    /\ PersistRaises
    /\ UNCHANGED acked

(* The process ends while the file is being written.                       *)
KilledWhileLogging(e, d, a, k) ==
    /\ MayLog(e, a, k)
    /\ mode' = "down"
    /\ Blank
    /\ \/ file' = Torn /\ UNCHANGED logged
       \/ /\ file' = Saved(Append(chain, EventBlock(e, d, a)))
          /\ logged' = [logged EXCEPT ![e] = d]
    /\ UNCHANGED <<acked, tampered>>

(* Provenance is anchored without a signature; a second record under the   *)
(* same model digest replaces the first in the table, not on the chain.    *)
AppendProvenance(m, p) ==
    /\ mode = "open"
    /\ Len(chain) < MaxBlocks
    /\ chain' = Append(chain, ProvenanceBlock(m, p))
    /\ provenance_by_digest' = [provenance_by_digest EXCEPT ![m] = p]
    /\ UNCHANGED <<mode, events_by_id, authorised_agents, logged, acked, tampered>>

anchor_model_provenance(m, p) == AppendProvenance(m, p) /\ persist
AnchorRaises(m, p) == AppendProvenance(m, p) /\ PersistRaises

KilledWhileAnchoring(m, p) ==
    /\ mode = "open"
    /\ Len(chain) < MaxBlocks
    /\ mode' = "down"
    /\ Blank
    /\ file' \in {Torn, Saved(Append(chain, ProvenanceBlock(m, p)))}
    /\ UNCHANGED <<logged, acked, tampered>>

(* tamper_with_stored_record_for_demo_only: the record changes under the   *)
(* hash of its block, in memory only.                                      *)
tamper(e, d) ==
    /\ mode = "open"
    /\ EventBlocks(chain, e) # {}
    /\ LET i == CHOOSE j \in EventBlocks(chain, e) : \A k \in EventBlocks(chain, e) : j <= k
       IN  chain' = [chain EXCEPT ![i].content = d]
    /\ events_by_id' = [events_by_id EXCEPT ![e] = Entry(d, Unfilled, None)]
    /\ tampered' = TRUE
    /\ UNCHANGED <<mode, provenance_by_digest, authorised_agents, file, logged, acked>>

-----------------------------------------------------------------------------
Given == [Agents -> Keys \cup {None}]

Next ==
    \/ \E given \in Given : Create(given) \/ Load(given)
    \/ LoadFails
    \/ Crash
    \/ \E a \in Agents, k \in Keys : register_agent(a, k)
    \/ \E e \in EventIds, d \in Digests, a \in Agents, k \in Keys :
          \/ log_security_event(e, d, a, k)
          \/ LogRaises(e, d, a, k)
          \/ KilledWhileLogging(e, d, a, k)
    \/ \E m \in Models, p \in Provenances :
          \/ anchor_model_provenance(m, p)
          \/ AnchorRaises(m, p)
          \/ KilledWhileAnchoring(m, p)
    \/ \E e \in EventIds, d \in Digests : tamper(e, d)

Spec == Init /\ [][Next]_vars

-----------------------------------------------------------------------------
(* What readers of the ledger see.                                         *)

verify_event(e, d) == Known(e) /\ events_by_id[e].payload_digest = d

verify_chain_integrity ==
    \A i \in DOMAIN chain :
        /\ compute_hash(chain[i]) = chain[i].hash
        /\ i > 1 => chain[i].previous_hash = chain[i - 1].hash

-----------------------------------------------------------------------------
(* Properties.                                                             *)

Untouched == \A i \in DOMAIN chain :
                chain[i].kind = "event" => chain[i].content = logged[chain[i].id]

(* verify_chain_integrity() passes only if every record is the one that    *)
(* was logged, in the process that saw the change and in any that loads    *)
(* the file later, although loading computes all hashes anew; and it       *)
(* raises no false alarm (mock_ledger.py:152-165, 174-184).                *)
TamperEvident ==
    /\ verify_chain_integrity => Untouched
    /\ ~tampered => verify_chain_integrity

(* Each event id has at most one block, the tables answer from the chain,  *)
(* a model's look-up is the last record anchored under its digest, and who *)
(* has an event on the chain is registered and can sign again, after any   *)
(* sequence of failed writes, restarts and repeated calls.                 *)
TablesMatchChain ==
    /\ \A e \in EventIds :
          /\ Cardinality(EventBlocks(chain, e)) <= 1
          /\ Known(e) <=> EventBlocks(chain, e) # {}
          /\ \A i \in EventBlocks(chain, e) :
                events_by_id[e].payload_digest = chain[i].content
    /\ \A m \in Models :
          LET I == ModelBlocks(chain, m)
          IN  provenance_by_digest[m] = IF I = {} THEN None ELSE chain[Latest(I)].content
    /\ \A i \in DOMAIN chain :
          chain[i].kind = "event" => authorised_agents[chain[i].agent] # None

(* The ledger is the append-only log its clients rely on: over failed      *)
(* writes, kills and restarts each event is appended once, acknowledged    *)
(* events stay, and what a restart forgets is the newest.  The log is what *)
(* the next reader would find: the chain of an open ledger, otherwise the  *)
(* file's.                                                                 *)
EventsOf(c) == Selected([i \in DOMAIN c |-> c[i].id], {i \in DOMAIN c : c[i].kind = "event"})
Destroyed == mode # "open" /\ file.state = "torn"
Log == INSTANCE AppendOnlyLog WITH
           log <- EventsOf(IF mode = "open" THEN chain ELSE file.chain),
           receipts <- acked,
           lost <- Destroyed
LogSpec == Log!Spec

IdsOf(c) == [i \in DOMAIN c |-> <<c[i].kind, c[i].id>>]

(* A restart can only take the ledger back to an earlier state of itself:  *)
(* a readable file is the beginning of the chain in memory, and it has     *)
(* every event whose caller got a receipt, also after writes that failed.  *)
FileFollowsChain ==
    file.state = "whole" =>
        /\ mode = "open" => IsPrefix(IdsOf(file.chain), IdsOf(chain))
        /\ \A e \in acked : EventBlocks(file.chain, e) # {}
=============================================================================
