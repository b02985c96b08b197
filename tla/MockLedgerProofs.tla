-------------------------- MODULE MockLedgerProofs --------------------------
(***************************************************************************)
(* Proofs about MockLedger for any events, digests, agents, keys, models   *)
(* and length of the chain.                                                *)
(***************************************************************************)
EXTENDS MockLedger, SequenceLemmas, FiniteSetTheorems

-----------------------------------------------------------------------------
(* The inductive invariant.                                                *)

IsSeq(c) == \E S : c \in Seq(S)

IsBlock(b) ==
    /\ b = [previous_hash |-> b.previous_hash, kind |-> b.kind, id |-> b.id,
            content |-> b.content, agent |-> b.agent, hash |-> b.hash]
    /\ b.kind = "event" => b.id \in EventIds /\ b.content \in Digests /\ b.agent \in Agents

(* What a block held when it was appended, and the hash it had then: what  *)
(* the next block says of it.  lg is the history of what was logged.       *)
TrueContent(b, lg) == IF b.kind = "event" THEN lg[b.id] ELSE b.content
TrueHash(b, lg) == <<b.previous_hash, b.kind, b.id, TrueContent(b, lg), b.agent>>

(* A chain hangs together as it was appended, whatever was done to its     *)
(* records; no event is on it twice, and a model's records have a last.    *)
IsChain(c) ==
    /\ IsSeq(c) /\ Len(c) \in Nat \ {0}
    /\ \A i \in 1 .. Len(c) : IsBlock(c[i])
Linked(c, lg) == \A i \in 1 .. Len(c) : \A j \in 1 .. Len(c) :
                     j = i + 1 => c[j].previous_hash = TrueHash(c[i], lg)
Once(c) == \A i, j \in 1 .. Len(c) :
               c[i].kind = "event" /\ c[j].kind = "event" /\ c[i].id = c[j].id => i = j
HasLatest(c) == \A m \in Models : ModelBlocks(c, m) # {} => Latest(ModelBlocks(c, m)) \in ModelBlocks(c, m)
Sound(c, lg) == IsChain(c) /\ Linked(c, lg) /\ Once(c) /\ HasLatest(c)

Registered(c, agents) ==
    \A i \in 1 .. Len(c) : c[i].kind = "event" => agents[c[i].agent] # None
Holds(c, events) == \A e \in events : EventBlocks(c, e) # {}
Pure(c, lg) == \A i \in 1 .. Len(c) : c[i].content = TrueContent(c[i], lg)
Hashed(c, lg) == \A i \in 1 .. Len(c) : c[i].hash = TrueHash(c[i], lg)

(* The newest block of a process has the hash it was appended with, also   *)
(* when it was computed anew; the newest block of a file is never changed. *)
OpenInv ==
    mode = "open" =>
        /\ Sound(chain, logged) /\ Registered(chain, authorised_agents) /\ Holds(chain, acked)
        /\ chain[Len(chain)].hash = TrueHash(chain[Len(chain)], logged)
        /\ ~tampered => Pure(chain, logged) /\ Hashed(chain, logged)

FileInv ==
    /\ file.state = "whole" =>
        /\ Sound(file.chain, logged) /\ Registered(file.chain, file.agents)
        /\ Holds(file.chain, acked)
        /\ file.chain[Len(file.chain)].content = TrueContent(file.chain[Len(file.chain)], logged)
        /\ ~tampered => Pure(file.chain, logged)
    /\ file.state = "absent" => acked = {}

(* The file is behind the process, and of the same chain.                  *)
Behind(c, d) ==
    /\ Len(c) <= Len(d)
    /\ \A i \in 1 .. Len(c) : c[i].kind = d[i].kind /\ c[i].id = d[i].id
FileBehind == mode = "open" /\ file.state = "whole" => Behind(file.chain, chain)

TablesOk ==
    mode = "open" =>
        /\ \A e \in EventIds : Known(e) <=> EventBlocks(chain, e) # {}
        /\ \A e \in EventIds : \A i \in EventBlocks(chain, e) :
              events_by_id[e].payload_digest = chain[i].content
        /\ \A m \in Models :
              LET I == ModelBlocks(chain, m)
              IN  provenance_by_digest[m] = IF I = {} THEN None ELSE chain[Latest(I)].content

ClosedIsBlank ==
    mode # "open" =>
        /\ chain = <<>>
        /\ events_by_id = [e \in EventIds |-> NoEntry]
        /\ provenance_by_digest = [m \in Models |-> None]

MapsInv ==
    /\ mode \in {"down", "open", "unreadable"}
    /\ DOMAIN events_by_id = EventIds
    /\ provenance_by_digest = [m \in Models |-> provenance_by_digest[m]]
    /\ authorised_agents = [a \in Agents |-> authorised_agents[a]]
    /\ logged = [e \in EventIds |-> logged[e]]
    /\ events_by_id = [e \in EventIds |-> events_by_id[e]]

LInv == MapsInv /\ OpenInv /\ FileInv /\ FileBehind /\ TablesOk /\ ClosedIsBlank

-----------------------------------------------------------------------------
(* Sequences and blocks.                                                   *)

LEMMA SeqFacts ==
    ASSUME NEW c, IsSeq(c)
    PROVE  Len(c) \in Nat /\ DOMAIN c = 1 .. Len(c)
  BY LenProperties DEF IsSeq

LEMMA BlocksAppend ==
    ASSUME NEW c, IsSeq(c), NEW b
    PROVE  /\ IsSeq(Append(c, b))
           /\ Len(c) \in Nat /\ DOMAIN c = 1 .. Len(c)
           /\ Len(Append(c, b)) = Len(c) + 1
           /\ DOMAIN Append(c, b) = 1 .. Len(c) + 1
           /\ \A i \in 1 .. Len(c) : Append(c, b)[i] = c[i]
           /\ Append(c, b)[Len(c) + 1] = b
  <1>1. PICK S : c \in Seq(S)
    BY DEF IsSeq
  <1>2. c \in Seq(S \cup {b}) /\ b \in S \cup {b}
    BY <1>1, SeqDef
  <1>3. Append(c, b) \in Seq(S \cup {b})
    BY <1>2, AppendProperties
  <1> QED
    BY <1>2, <1>3, AppendProperties, LenProperties DEF IsSeq

LEMMA BlockFacts ==
    ASSUME NEW prev, NEW kind, NEW id, NEW content, NEW agent
    PROVE  LET b == Block(prev, kind, id, content, agent)
           IN  b = [previous_hash |-> prev, kind |-> kind, id |-> id, content |-> content,
                    agent |-> agent, hash |-> <<prev, kind, id, content, agent>>]
  BY DEF Block, compute_hash

LEMMA RebuiltFacts ==
    ASSUME NEW b, IsBlock(b)
    PROVE  /\ IsBlock(Rebuilt(b))
           /\ Rebuilt(b).previous_hash = b.previous_hash /\ Rebuilt(b).kind = b.kind
           /\ Rebuilt(b).id = b.id /\ Rebuilt(b).content = b.content
           /\ Rebuilt(b).agent = b.agent /\ Rebuilt(b).hash = compute_hash(b)
  <1>1. Rebuilt(b) = [previous_hash |-> b.previous_hash, kind |-> b.kind, id |-> b.id,
                      content |-> b.content, agent |-> b.agent, hash |-> compute_hash(b)]
    BY DEF IsBlock, Rebuilt
  <1> QED
    BY <1>1 DEF IsBlock

(* The chain with one more block.  What was logged changes at most for     *)
(* events that are not on the chain.                                       *)
LEMMA ChainGrows ==
    ASSUME NEW c, NEW lg, NEW lg2, Sound(c, lg),
           NEW b, IsBlock(b), b.previous_hash = TrueHash(c[Len(c)], lg),
           b.kind = "event" => EventBlocks(c, b.id) = {},
           \A i \in 1 .. Len(c) : c[i].kind = "event" => lg2[c[i].id] = lg[c[i].id]
    PROVE  LET d == Append(c, b)
               n == Len(c) + 1
           IN  /\ Len(c) \in Nat \ {0}
               /\ Len(d) = n /\ d[n] = b
               /\ \A i \in 1 .. Len(c) : /\ d[i] = c[i]
                                         /\ TrueContent(c[i], lg2) = TrueContent(c[i], lg)
                                         /\ TrueHash(c[i], lg2) = TrueHash(c[i], lg)
               /\ \A e : EventBlocks(d, e) = EventBlocks(c, e)
                            \cup (IF b.kind = "event" /\ b.id = e THEN {n} ELSE {})
               /\ \A m : ModelBlocks(d, m) = ModelBlocks(c, m)
                            \cup (IF b.kind = "provenance" /\ b.id = m THEN {n} ELSE {})
               /\ \A m \in Models : b.kind = "provenance" /\ b.id = m => Latest(ModelBlocks(d, m)) = n
               /\ Sound(d, lg2)
  <1> DEFINE d == Append(c, b)
             n == Len(c) + 1
  <1>1. /\ Len(c) \in Nat \ {0} /\ IsSeq(d) /\ DOMAIN c = 1 .. Len(c)
        /\ Len(d) = n /\ DOMAIN d = 1 .. n /\ d[n] = b
        /\ \A i \in 1 .. Len(c) : d[i] = c[i]
    BY BlocksAppend DEF Sound, IsChain
  <1>2. n \in Nat \ {0} /\ \A i \in 1 .. n : i \in 1 .. Len(c) \/ i = n
    BY <1>1
  <1>3. \A i \in 1 .. Len(c) : /\ TrueContent(c[i], lg2) = TrueContent(c[i], lg)
                               /\ TrueHash(c[i], lg2) = TrueHash(c[i], lg)
    BY DEF TrueContent, TrueHash
  <1> HIDE DEF d, n
  <1>4. \A e : EventBlocks(d, e) = EventBlocks(c, e)
                   \cup (IF b.kind = "event" /\ b.id = e THEN {n} ELSE {})
    BY <1>1, <1>2 DEF EventBlocks, n
  <1>5. \A m : ModelBlocks(d, m) = ModelBlocks(c, m)
                   \cup (IF b.kind = "provenance" /\ b.id = m THEN {n} ELSE {})
    BY <1>1, <1>2 DEF ModelBlocks, n
  <1>6. IsChain(d)
    BY <1>1, <1>2 DEF IsChain, Sound
  <1>7. Linked(d, lg2)
    <2> SUFFICES ASSUME NEW i \in 1 .. n, NEW j \in 1 .. n, j = i + 1
                 PROVE  d[j].previous_hash = TrueHash(d[i], lg2)
      BY <1>1 DEF Linked
    <2>1. i \in 1 .. Len(c)
      BY <1>1 DEF n
    <2>2. CASE j \in 1 .. Len(c)
      BY <2>1, <2>2, <1>1, <1>3 DEF Sound, Linked
    <2>3. CASE j = n
      <3>1. Len(c) \in Nat /\ i \in Nat /\ i + 1 = Len(c) + 1
        BY <2>1, <2>3, <1>1 DEF n
      <3>2. i = Len(c)
        BY <3>1
      <3> QED
        BY <2>1, <2>3, <3>2, <1>1, <1>3
    <2> QED
      BY <2>2, <2>3, <1>2
  <1>8. Once(d)
    <2>1. b.kind = "event" => \A i \in 1 .. Len(c) : ~(c[i].kind = "event" /\ c[i].id = b.id)
      BY <1>1 DEF EventBlocks
    <2> QED
      BY <2>1, <1>1, <1>2 DEF Sound, Once
  <1>9. ASSUME NEW m \in Models, b.kind = "provenance" /\ b.id = m
        PROVE  Latest(ModelBlocks(d, m)) = n
    <2> DEFINE I == ModelBlocks(d, m)
    <2>1. n \in I /\ \A j \in I : j \in Nat /\ j <= n
      BY <1>1, <1>5, <1>9 DEF ModelBlocks, n
    <2> HIDE DEF I
    <2>2. Latest(I) \in I /\ \A j \in I : j <= Latest(I)
      BY <2>1 DEF Latest
    <2> PICK x : x = Latest(I)
      OBVIOUS
    <2>3. x \in Nat /\ x <= n /\ n <= x
      BY <2>1, <2>2
    <2>4. x = n
      BY <2>3, <1>2
    <2> QED
      BY <2>4 DEF I
  <1>10. HasLatest(d)
    <2> SUFFICES ASSUME NEW m \in Models, ModelBlocks(d, m) # {}
                 PROVE  Latest(ModelBlocks(d, m)) \in ModelBlocks(d, m)
      BY DEF HasLatest
    <2>1. CASE b.kind = "provenance" /\ b.id = m
      BY <2>1, <1>5, <1>9
    <2>2. CASE ~(b.kind = "provenance" /\ b.id = m)
      <3>1. ModelBlocks(d, m) = ModelBlocks(c, m)
        BY <2>2, <1>5
      <3> QED
        BY <3>1 DEF Sound, HasLatest
    <2> QED
      BY <2>1, <2>2
  <1> QED
    BY <1>1, <1>3, <1>4, <1>5, <1>6, <1>7, <1>8, <1>9, <1>10 DEF Sound, d, n

(* A block that is appended to the open chain, with what is logged then;   *)
(* and what the append does to an open ledger and to its file, whether the *)
(* new chain gets into the file or the old file stays.                     *)
MayAppend(b, lg2) ==
    /\ IsBlock(b) /\ b.previous_hash = Last(chain).hash
    /\ b.kind = "event" => EventBlocks(chain, b.id) = {} /\ authorised_agents[b.agent] # None
    /\ \A i \in 1 .. Len(chain) :
          chain[i].kind = "event" => lg2[chain[i].id] = logged[chain[i].id]
    /\ b.content = TrueContent(b, lg2) /\ b.hash = TrueHash(b, lg2)

Appended(c, b, lg2) ==
    LET n == Len(chain) + 1
    IN  /\ n \in Nat /\ Len(c) = n /\ c[n] = b
        /\ \A i \in 1 .. Len(chain) : c[i] = chain[i]
        /\ \A e : EventBlocks(c, e) = EventBlocks(chain, e)
                     \cup (IF b.kind = "event" /\ b.id = e THEN {n} ELSE {})
        /\ \A m : ModelBlocks(c, m) = ModelBlocks(chain, m)
                     \cup (IF b.kind = "provenance" /\ b.id = m THEN {n} ELSE {})
        /\ \A m \in Models : b.kind = "provenance" /\ b.id = m => Latest(ModelBlocks(c, m)) = n
        /\ Sound(c, lg2) /\ Registered(c, authorised_agents) /\ Holds(c, acked)
        /\ ~tampered => Pure(c, lg2) /\ Hashed(c, lg2)
        /\ file.state = "whole" => Behind(file.chain, c)

LEMMA BlockAdded ==
    ASSUME LInv, mode = "open", NEW b, NEW lg2, MayAppend(b, lg2)
    PROVE  Appended(Append(chain, b), b, lg2)
  <1> USE DEF MayAppend
  <1> DEFINE c == Append(chain, b)
             n == Len(chain) + 1
  <1>1. /\ Sound(chain, logged) /\ Registered(chain, authorised_agents) /\ Holds(chain, acked)
        /\ chain[Len(chain)].hash = TrueHash(chain[Len(chain)], logged)
        /\ ~tampered => Pure(chain, logged) /\ Hashed(chain, logged)
    BY DEF LInv, OpenInv
  <1>2. b.previous_hash = TrueHash(chain[Len(chain)], logged)
    BY <1>1 DEF Last
  <1>3. /\ Len(chain) \in Nat \ {0} /\ Len(c) = n /\ c[n] = b
        /\ \A i \in 1 .. Len(chain) :
              /\ c[i] = chain[i]
              /\ TrueContent(chain[i], lg2) = TrueContent(chain[i], logged)
              /\ TrueHash(chain[i], lg2) = TrueHash(chain[i], logged)
        /\ \A e : EventBlocks(c, e) = EventBlocks(chain, e)
                     \cup (IF b.kind = "event" /\ b.id = e THEN {n} ELSE {})
        /\ \A m : ModelBlocks(c, m) = ModelBlocks(chain, m)
                     \cup (IF b.kind = "provenance" /\ b.id = m THEN {n} ELSE {})
        /\ \A m \in Models : b.kind = "provenance" /\ b.id = m => Latest(ModelBlocks(c, m)) = n
        /\ Sound(c, lg2)
    BY <1>1, <1>2, ChainGrows
  <1>4. n \in Nat /\ \A i \in 1 .. n : i \in 1 .. Len(chain) \/ i = n
    BY <1>3
  <1> HIDE DEF c, n
  <1>5. Registered(c, authorised_agents)
    BY <1>1, <1>3, <1>4 DEF Registered
  <1>6. Holds(c, acked)
    BY <1>1, <1>3 DEF Holds
  <1>7. ~tampered => Pure(c, lg2) /\ Hashed(c, lg2)
    BY <1>1, <1>3, <1>4 DEF Pure, Hashed
  <1>8. file.state = "whole" => Behind(file.chain, c)
    <2> SUFFICES ASSUME file.state = "whole" PROVE Behind(file.chain, c)
      OBVIOUS
    <2>1. Behind(file.chain, chain) /\ Len(file.chain) \in Nat
      BY DEF LInv, FileBehind, FileInv, Sound, IsChain
    <2>2. \A i \in 1 .. Len(file.chain) : i \in 1 .. Len(chain)
      BY <2>1, <1>3 DEF Behind
    <2>3. Len(file.chain) <= Len(c)
      BY <2>1, <1>3 DEF Behind, n
    <2> QED
      BY <2>1, <2>2, <2>3, <1>3 DEF Behind
  <1> QED
    BY <1>3, <1>4, <1>5, <1>6, <1>7, <1>8 DEF c, n, Appended

(* A file that is not written stays what it was.                           *)
LEMMA FileStays ==
    ASSUME LInv, mode = "open", file.state = "whole", NEW lg2,
           \A i \in 1 .. Len(chain) :
               chain[i].kind = "event" => lg2[chain[i].id] = logged[chain[i].id]
    PROVE  /\ Sound(file.chain, lg2)
           /\ file.chain[Len(file.chain)].content = TrueContent(file.chain[Len(file.chain)], lg2)
           /\ ~tampered => Pure(file.chain, lg2)
  <1> DEFINE c == file.chain
  <1>1. /\ Sound(c, logged) /\ c[Len(c)].content = TrueContent(c[Len(c)], logged)
        /\ ~tampered => Pure(c, logged)
    BY DEF LInv, FileInv
  <1>2. Behind(c, chain) /\ Len(chain) \in Nat /\ Len(c) \in Nat \ {0}
    BY DEF LInv, FileBehind, FileInv, OpenInv, Sound, IsChain
  <1> HIDE DEF c
  <1>3. \A i \in 1 .. Len(c) : i \in 1 .. Len(chain)
    BY <1>2 DEF Behind
  <1>4. \A i \in 1 .. Len(c) : /\ TrueContent(c[i], lg2) = TrueContent(c[i], logged)
                               /\ TrueHash(c[i], lg2) = TrueHash(c[i], logged)
    BY <1>2, <1>3 DEF Behind, TrueContent, TrueHash
  <1>5. Sound(c, lg2)
    BY <1>1, <1>4 DEF Sound, Linked
  <1>6. Len(c) \in 1 .. Len(c)
    BY <1>2
  <1>7. c[Len(c)].content = TrueContent(c[Len(c)], lg2)
    BY <1>1, <1>4, <1>6
  <1>8. ~tampered => Pure(c, lg2)
    BY <1>1, <1>4 DEF Pure
  <1> QED
    BY <1>5, <1>7, <1>8 DEF c

-----------------------------------------------------------------------------
(* Every action keeps the invariant.                                       *)

LEMMA InitLInv == Init => LInv
  BY DEF Init, LInv, MapsInv, OpenInv, FileInv, FileBehind, TablesOk, ClosedIsBlank, Absent

(* An append whose write may fail, but for the tables.                     *)
LEMMA AppendKeeps ==
    ASSUME LInv, mode = "open", NEW b, MayAppend(b, logged'), chain' = Append(chain, b),
           UNCHANGED <<mode, authorised_agents, tampered>>,
           \/ /\ persist
              /\ acked' = acked \/ (b.kind = "event" /\ acked' = acked \cup {b.id})
           \/ PersistRaises /\ UNCHANGED acked
    PROVE  OpenInv' /\ FileInv' /\ FileBehind' /\ ClosedIsBlank'
  <1>1. Appended(chain', b, logged')
    BY BlockAdded
  <1>2. Holds(chain', acked')
    <2>1. Holds(chain', acked) /\ (b.kind = "event" => EventBlocks(chain', b.id) # {})
      BY <1>1 DEF Appended
    <2> QED
      BY <2>1 DEF Holds
  <1>3. /\ Sound(chain', logged') /\ Registered(chain', authorised_agents)
        /\ ~tampered => Pure(chain', logged') /\ Hashed(chain', logged')
    BY <1>1 DEF Appended
  <1>4. /\ chain'[Len(chain')] = b /\ b.hash = TrueHash(b, logged')
        /\ b.content = TrueContent(b, logged')
    BY <1>1 DEF Appended, MayAppend
  <1>5. OpenInv'
    BY <1>2, <1>3, <1>4 DEF OpenInv
  <1>6. CASE persist
    <2>1. file'.state = "whole" /\ file'.chain = chain' /\ file'.agents = authorised_agents
      BY <1>6 DEF persist, Saved
    <2>2. Behind(chain', chain')
      <3>1. Len(chain') \in Nat
        BY <1>3 DEF Sound, IsChain
      <3> QED
        BY <3>1 DEF Behind
    <2> QED
      BY <2>1, <2>2, <1>2, <1>3, <1>4, <1>5 DEF FileInv, FileBehind, ClosedIsBlank
  <1>7. CASE PersistRaises /\ UNCHANGED acked
    <2>1. CASE file' = Torn
      BY <2>1, <1>5 DEF Torn, Absent, FileInv, FileBehind, ClosedIsBlank
    <2>2. CASE file' = file
      <3>1. file.state = "whole" =>
               /\ Sound(file.chain, logged')
               /\ file.chain[Len(file.chain)].content
                      = TrueContent(file.chain[Len(file.chain)], logged')
               /\ ~tampered => Pure(file.chain, logged')
        BY FileStays DEF MayAppend
      <3>2. file.state = "whole" => Behind(file.chain, chain')
        BY <1>1 DEF Appended
      <3> QED
        BY <1>5, <2>2, <3>1, <3>2, <1>7 DEF LInv, FileInv, FileBehind, ClosedIsBlank
    <2> QED
      BY <1>7, <2>1, <2>2 DEF PersistRaises
  <1> QED
    BY <1>5, <1>6, <1>7

(* A record that passes the guard may be appended.                         *)
LEMMA EventFits ==
    ASSUME LInv, NEW e \in EventIds, NEW d \in Digests, NEW a \in Agents, NEW k \in Keys,
           MayLog(e, a, k)
    PROVE  LET b == EventBlock(e, d, a)
           IN  /\ b.kind = "event" /\ b.id = e /\ b.content = d
               /\ MayAppend(b, [logged EXCEPT ![e] = d])
  <1> DEFINE b == EventBlock(e, d, a)
             lg2 == [logged EXCEPT ![e] = d]
  <1>1. mode = "open" /\ authorised_agents[a] = k /\ ~Known(e)
    BY DEF MayLog
  <1>2. b = [previous_hash |-> Last(chain).hash, kind |-> "event", id |-> e, content |-> d,
             agent |-> a, hash |-> <<Last(chain).hash, "event", e, d, a>>]
    BY BlockFacts DEF EventBlock
  <1>3. EventBlocks(chain, e) = {}
    BY <1>1 DEF LInv, TablesOk
  <1>4. lg2[e] = d /\ \A f \in EventIds : f # e => lg2[f] = logged[f]
    BY DEF LInv, MapsInv
  <1> HIDE DEF lg2
  <1>5. \A i \in 1 .. Len(chain) :
           chain[i].kind = "event" => lg2[chain[i].id] = logged[chain[i].id]
    <2>1. DOMAIN chain = 1 .. Len(chain)
      BY <1>1, SeqFacts DEF LInv, OpenInv, Sound, IsChain
    <2>2. \A i \in 1 .. Len(chain) : chain[i].kind = "event" => chain[i].id \in EventIds
      BY <1>1 DEF LInv, OpenInv, Sound, IsChain, IsBlock
    <2> QED
      BY <1>3, <1>4, <2>1, <2>2 DEF EventBlocks
  <1>6. IsBlock(b)
    BY <1>2 DEF IsBlock
  <1>7. b.content = TrueContent(b, lg2) /\ b.hash = TrueHash(b, lg2)
    BY <1>2, <1>4 DEF TrueContent, TrueHash
  <1>8. b.kind = "event" /\ b.id = e /\ b.agent = a /\ b.content = d /\ b.previous_hash = Last(chain).hash
    BY <1>2
  <1>9. authorised_agents[a] # None
    BY <1>1, LedgerAssumption DEF None
  <1> HIDE DEF b
  <1>10. MayAppend(b, lg2)
    BY <1>3, <1>5, <1>6, <1>7, <1>8, <1>9 DEF MayAppend
  <1> QED
    BY <1>8, <1>10 DEF b, lg2

(* The tables after an event's record.                                     *)
LEMMA RecordKeeps ==
    ASSUME LInv, NEW e \in EventIds, NEW d \in Digests, NEW a \in Agents, NEW k \in Keys,
           RecordEvent(e, d, a, k),
           \/ persist /\ acked' \in {acked, acked \cup {e}}
           \/ PersistRaises /\ UNCHANGED acked
    PROVE  LInv'
  <1> DEFINE b == EventBlock(e, d, a)
             n == Len(chain) + 1
  <1>1. /\ mode = "open" /\ authorised_agents[a] = k /\ ~Known(e)
        /\ chain' = Append(chain, b)
        /\ events_by_id' = [events_by_id EXCEPT ![e] = Entry(d, b.hash, Len(chain))]
        /\ logged' = [logged EXCEPT ![e] = d]
        /\ UNCHANGED <<mode, provenance_by_digest, authorised_agents, tampered>>
    BY DEF RecordEvent, MayLog
  <1>3. EventBlocks(chain, e) = {}
    BY <1>1 DEF LInv, TablesOk
  <1>8. /\ b.kind = "event" /\ b.id = e /\ b.content = d
        /\ MayAppend(b, [logged EXCEPT ![e] = d])
    BY EventFits DEF RecordEvent
  <1> HIDE DEF b
  <1>10. MayAppend(b, logged')
    BY <1>1, <1>8
  <1>12. Appended(chain', b, logged')
    BY <1>1, <1>10, BlockAdded
  <1>11. MapsInv'
    BY <1>1 DEF LInv, MapsInv
  <1>13. OpenInv' /\ FileInv' /\ FileBehind' /\ ClosedIsBlank'
    BY <1>1, <1>8, <1>10, AppendKeeps
  <1>14. TablesOk'
    <2>1. /\ n \in Nat /\ chain'[n] = b /\ \A i \in 1 .. Len(chain) : chain'[i] = chain[i]
          /\ \A f : EventBlocks(chain', f) = EventBlocks(chain, f) \cup (IF f = e THEN {n} ELSE {})
          /\ \A m : ModelBlocks(chain', m) = ModelBlocks(chain, m)
      BY <1>8, <1>12 DEF Appended
    <2>2. /\ events_by_id'[e].payload_digest = d
          /\ \A f \in EventIds : f # e => events_by_id'[f] = events_by_id[f]
      BY <1>1 DEF LInv, MapsInv, Entry
    <2>3. \A f : \A i \in EventBlocks(chain, f) : chain'[i] = chain[i]
      BY <1>1, <2>1, SeqFacts DEF EventBlocks, LInv, OpenInv, Sound, IsChain
    <2>4. \A f \in EventIds : Known(f)' <=> EventBlocks(chain', f) # {}
      <3>1. d # None
        BY LedgerAssumption DEF None
      <3> QED
        BY <1>1, <2>1, <2>2, <3>1 DEF Known, LInv, TablesOk
    <2>5. \A f \in EventIds : \A i \in EventBlocks(chain', f) :
             events_by_id'[f].payload_digest = chain'[i].content
      <3> TAKE f \in EventIds
      <3> TAKE i \in EventBlocks(chain', f)
      <3>1. CASE f = e
        <4>1. i = n
          BY <3>1, <1>3, <2>1
        <4> QED
          BY <3>1, <4>1, <1>8, <2>1, <2>2
      <3>2. CASE f # e
        <4>1. i \in EventBlocks(chain, f)
          BY <3>2, <2>1
        <4> QED
          BY <3>2, <4>1, <1>1, <2>2, <2>3, ZenonT(30) DEF LInv, TablesOk
      <3> QED
        BY <3>1, <3>2
    <2>6. \A m \in Models :
             LET I == ModelBlocks(chain', m)
             IN  provenance_by_digest'[m] = IF I = {} THEN None ELSE chain'[Latest(I)].content
      <3> TAKE m \in Models
      <3>1. \A i \in ModelBlocks(chain, m) : chain'[i] = chain[i]
        BY <1>1, <2>1, SeqFacts DEF ModelBlocks, LInv, OpenInv, Sound, IsChain
      <3>2. ModelBlocks(chain, m) # {} => Latest(ModelBlocks(chain, m)) \in ModelBlocks(chain, m)
        BY <1>1 DEF LInv, OpenInv, Sound, HasLatest
      <3> QED
        BY <1>1, <2>1, <3>1, <3>2 DEF LInv, TablesOk
    <2> QED
      BY <2>4, <2>5, <2>6 DEF TablesOk
  <1> QED
    BY <1>11, <1>13, <1>14 DEF LInv

LEMMA ProvenanceFits ==
    ASSUME NEW m \in Models, NEW p \in Provenances
    PROVE  LET b == ProvenanceBlock(m, p)
           IN  b.kind = "provenance" /\ b.id = m /\ b.content = p /\ MayAppend(b, logged)
  <1> DEFINE b == ProvenanceBlock(m, p)
  <1>1. b = [previous_hash |-> Last(chain).hash, kind |-> "provenance", id |-> m, content |-> p,
             agent |-> None, hash |-> <<Last(chain).hash, "provenance", m, p, None>>]
    BY BlockFacts DEF ProvenanceBlock
  <1> QED
    BY <1>1 DEF MayAppend, IsBlock, TrueContent, TrueHash

LEMMA AnchorKeeps ==
    ASSUME LInv, NEW m \in Models, NEW p \in Provenances, AppendProvenance(m, p),
           persist \/ PersistRaises
    PROVE  LInv'
  <1> DEFINE b == ProvenanceBlock(m, p)
             n == Len(chain) + 1
  <1>1. /\ mode = "open" /\ chain' = Append(chain, b)
        /\ provenance_by_digest' = [provenance_by_digest EXCEPT ![m] = p]
        /\ UNCHANGED <<mode, events_by_id, authorised_agents, logged, acked, tampered>>
    BY DEF AppendProvenance
  <1>3. b.kind = "provenance" /\ b.id = m /\ b.content = p /\ MayAppend(b, logged)
    BY ProvenanceFits
  <1>4. MayAppend(b, logged')
    BY <1>1, <1>3
  <1> HIDE DEF b
  <1>5. Appended(chain', b, logged')
    BY <1>1, <1>4, BlockAdded
  <1>6. OpenInv' /\ FileInv' /\ FileBehind' /\ ClosedIsBlank'
    BY <1>1, <1>4, AppendKeeps
  <1>7. MapsInv'
    BY <1>1 DEF LInv, MapsInv
  <1>8. TablesOk'
    <2>1. /\ n \in Nat /\ chain'[n] = b /\ \A i \in 1 .. Len(chain) : chain'[i] = chain[i]
          /\ \A e : EventBlocks(chain', e) = EventBlocks(chain, e)
          /\ \A x : ModelBlocks(chain', x) = ModelBlocks(chain, x) \cup (IF x = m THEN {n} ELSE {})
          /\ Latest(ModelBlocks(chain', m)) = n
      BY <1>3, <1>5 DEF Appended
    <2>2. /\ provenance_by_digest'[m] = p
          /\ \A x \in Models : x # m => provenance_by_digest'[x] = provenance_by_digest[x]
      BY <1>1 DEF LInv, MapsInv
    <2>3. \A e : \A i \in EventBlocks(chain, e) : chain'[i] = chain[i]
      BY <1>1, <2>1, SeqFacts DEF EventBlocks, LInv, OpenInv, Sound, IsChain
    <2>4. ASSUME NEW e \in EventIds
          PROVE  /\ Known(e)' <=> EventBlocks(chain', e) # {}
                 /\ \A i \in EventBlocks(chain', e) :
                       events_by_id'[e].payload_digest = chain'[i].content
      <3>1. EventBlocks(chain', e) = EventBlocks(chain, e) /\ events_by_id' = events_by_id
        BY <1>1, <2>1
      <3>2. /\ Known(e) <=> EventBlocks(chain, e) # {}
            /\ \A i \in EventBlocks(chain, e) :
                  events_by_id[e].payload_digest = chain[i].content
        BY <1>1 DEF LInv, TablesOk
      <3>3. Known(e)' <=> Known(e)
        BY <3>1 DEF Known
      <3> QED
        BY <2>3, <3>1, <3>2, <3>3
    <2>5. \A x \in Models :
             LET I == ModelBlocks(chain', x)
             IN  provenance_by_digest'[x] = IF I = {} THEN None ELSE chain'[Latest(I)].content
      <3> TAKE x \in Models
      <3>1. CASE x = m
        BY <3>1, <1>3, <2>1, <2>2
      <3>2. CASE x # m
        <4>1. \A i \in ModelBlocks(chain, x) : chain'[i] = chain[i]
          BY <1>1, <2>1, SeqFacts DEF ModelBlocks, LInv, OpenInv, Sound, IsChain
        <4>2. ModelBlocks(chain, x) # {} => Latest(ModelBlocks(chain, x)) \in ModelBlocks(chain, x)
          BY <1>1 DEF LInv, OpenInv, Sound, HasLatest
        <4> QED
          BY <1>1, <2>1, <2>2, <3>2, <4>1, <4>2 DEF LInv, TablesOk
      <3> QED
        BY <3>1, <3>2
    <2> QED
      BY <2>4, <2>5 DEF TablesOk
  <1> QED
    BY <1>6, <1>7, <1>8 DEF LInv

(* The process ends.                                                       *)
LEMMA KilledKeeps ==
    ASSUME LInv, mode' = "down", Blank, FileInv',
           logged' = logged \/ \E e \in EventIds : \E d : logged' = [logged EXCEPT ![e] = d]
    PROVE  LInv'
  <1>1. MapsInv'
    BY DEF LInv, MapsInv, Blank
  <1>2. OpenInv' /\ FileBehind' /\ TablesOk' /\ ClosedIsBlank'
    BY DEF OpenInv, FileBehind, TablesOk, ClosedIsBlank, Blank
  <1> QED
    BY <1>1, <1>2 DEF LInv

(* A file that has the new chain, or nothing.                              *)
LEMMA FileOfKilled ==
    ASSUME LInv, mode = "open", NEW b,
           \/ file' = Torn
           \/ file' = Saved(Append(chain, b)) /\ MayAppend(b, logged'),
           UNCHANGED <<acked, tampered>>
    PROVE  FileInv'
  <1>1. CASE file' = Torn
    BY <1>1 DEF FileInv, Torn, Absent
  <1>2. CASE file' = Saved(Append(chain, b)) /\ MayAppend(b, logged')
    <2> DEFINE c == Append(chain, b)
    <2>1. Appended(c, b, logged')
      BY <1>2, BlockAdded
    <2>2. file'.state = "whole" /\ file'.chain = c /\ file'.agents = authorised_agents
      BY <1>2 DEF Saved
    <2> HIDE DEF c
    <2>3. c[Len(c)] = b /\ b.content = TrueContent(b, logged')
      BY <2>1, <1>2 DEF Appended, MayAppend
    <2> QED
      BY <2>1, <2>2, <2>3 DEF FileInv, Appended
  <1> QED
    BY <1>1, <1>2

LEMMA KillsKeep ==
    ASSUME LInv, \/ Crash
                 \/ \E e \in EventIds, d \in Digests, a \in Agents, k \in Keys :
                        KilledWhileLogging(e, d, a, k)
                 \/ \E m \in Models, p \in Provenances : KilledWhileAnchoring(m, p)
    PROVE  LInv'
  <1>1. CASE Crash
    <2>1. mode' = "down" /\ Blank /\ UNCHANGED <<file, logged, acked, tampered>>
      BY <1>1 DEF Crash
    <2>2. FileInv'
      BY <2>1 DEF LInv, FileInv
    <2> QED
      BY <2>1, <2>2, KilledKeeps
  <1>2. ASSUME NEW e \in EventIds, NEW d \in Digests, NEW a \in Agents, NEW k \in Keys,
               KilledWhileLogging(e, d, a, k)
        PROVE  LInv'
    <2> DEFINE b == EventBlock(e, d, a)
    <2>1. /\ MayLog(e, a, k) /\ mode = "open" /\ mode' = "down" /\ Blank
          /\ \/ file' = Torn /\ UNCHANGED logged
             \/ file' = Saved(Append(chain, b)) /\ logged' = [logged EXCEPT ![e] = d]
          /\ UNCHANGED <<acked, tampered>>
      BY <1>2 DEF KilledWhileLogging, MayLog
    <2>2. MayAppend(b, [logged EXCEPT ![e] = d])
      BY <2>1, EventFits
    <2> HIDE DEF b
    <2>3. FileInv'
      BY <2>1, <2>2, FileOfKilled
    <2> QED
      BY <2>1, <2>3, KilledKeeps
  <1>3. ASSUME NEW m \in Models, NEW p \in Provenances, KilledWhileAnchoring(m, p)
        PROVE  LInv'
    <2> DEFINE b == ProvenanceBlock(m, p)
    <2>1. /\ mode = "open" /\ mode' = "down" /\ Blank
          /\ file' = Torn \/ file' = Saved(Append(chain, b))
          /\ UNCHANGED <<logged, acked, tampered>>
      BY <1>3 DEF KilledWhileAnchoring
    <2>2. MayAppend(b, logged)
      BY ProvenanceFits
    <2> HIDE DEF b
    <2>3. FileInv'
      BY <2>1, <2>2, FileOfKilled
    <2> QED
      BY <2>1, <2>3, KilledKeeps
  <1> QED
    BY <1>1, <1>2, <1>3

LEMMA RegisterKeeps ==
    ASSUME LInv, NEW a \in Agents, NEW k \in Keys, register_agent(a, k)
    PROVE  LInv'
  <1>1. /\ authorised_agents' = [authorised_agents EXCEPT ![a] = k]
        /\ UNCHANGED <<mode, chain, events_by_id, provenance_by_digest, file, logged, acked, tampered>>
    BY DEF register_agent
  <1>2. \A x \in Agents : authorised_agents[x] # None => authorised_agents'[x] # None
    BY <1>1, LedgerAssumption DEF LInv, MapsInv, None
  <1>3. MapsInv'
    BY <1>1 DEF LInv, MapsInv
  <1>4. mode = "open" => Registered(chain, authorised_agents')
    BY <1>2 DEF LInv, OpenInv, Registered, Sound, IsChain, IsBlock
  <1>5. OpenInv' /\ FileInv' /\ FileBehind' /\ ClosedIsBlank'
    BY <1>1, <1>4 DEF LInv, OpenInv, FileInv, FileBehind, ClosedIsBlank
  <1>6. TablesOk'
    BY <1>1 DEF LInv, TablesOk, Known
  <1> QED
    BY <1>3, <1>5, <1>6 DEF LInv

LEMMA CreateKeeps ==
    ASSUME LInv, NEW given \in Given, Create(given)
    PROVE  LInv'
  <1>1. /\ mode # "open" /\ file.state = "absent" /\ mode' = "open" /\ chain' = <<Genesis>>
        /\ authorised_agents' = given
        /\ UNCHANGED <<events_by_id, provenance_by_digest, file, logged, acked, tampered>>
    BY DEF Create
  <1>2. Genesis = [previous_hash |-> GENESIS_HASH, kind |-> "genesis", id |-> None, content |-> None,
                   agent |-> None, hash |-> <<GENESIS_HASH, "genesis", None, None, None>>]
    BY BlockFacts DEF Genesis
  <1>3. /\ chain' \in Seq({Genesis}) /\ Len(chain') = 1 /\ DOMAIN chain' = 1 .. 1
        /\ chain'[1] = Genesis
    BY <1>1
  <1>4. \A i \in 1 .. Len(chain') : i = 1
    BY <1>3
  <1>5. IsBlock(Genesis) /\ Genesis.kind = "genesis"
    BY <1>2 DEF IsBlock
  <1>6. IsChain(chain')
    BY <1>3, <1>4, <1>5 DEF IsChain, IsSeq
  <1>7. /\ \A e : EventBlocks(chain', e) = {}
        /\ \A m : ModelBlocks(chain', m) = {}
    BY <1>3, <1>4, <1>5 DEF EventBlocks, ModelBlocks
  <1>8. Linked(chain', logged) /\ Once(chain') /\ Registered(chain', given)
    BY <1>3, <1>4, <1>5 DEF Linked, Once, Registered
  <1>9. Pure(chain', logged) /\ Hashed(chain', logged)
    BY <1>2, <1>3, <1>4 DEF Pure, Hashed, TrueContent, TrueHash
  <1>10. Sound(chain', logged)
    BY <1>6, <1>7, <1>8 DEF Sound, HasLatest
  <1>11. acked = {}
    BY <1>1 DEF LInv, FileInv
  <1>12. OpenInv'
    BY <1>1, <1>3, <1>8, <1>9, <1>10, <1>11 DEF OpenInv, Holds, Hashed
  <1>13. FileInv' /\ FileBehind' /\ ClosedIsBlank'
    BY <1>1 DEF LInv, FileInv, FileBehind, ClosedIsBlank
  <1>14. MapsInv'
    BY <1>1 DEF LInv, MapsInv, Given
  <1>15. TablesOk'
    <2>1. /\ events_by_id' = [e \in EventIds |-> NoEntry]
          /\ provenance_by_digest' = [m \in Models |-> None]
      BY <1>1 DEF LInv, ClosedIsBlank
    <2> QED
      BY <2>1, <1>7 DEF TablesOk, Known, NoEntry, Entry
  <1> QED
    BY <1>12, <1>13, <1>14, <1>15 DEF LInv

(* Two chains that differ at most in hashes and in events' records.        *)
Alike(c, d) ==
    /\ Len(d) = Len(c)
    /\ \A i \in 1 .. Len(c) :
          /\ IsBlock(d[i])
          /\ d[i].previous_hash = c[i].previous_hash /\ d[i].kind = c[i].kind
          /\ d[i].id = c[i].id /\ d[i].agent = c[i].agent
          /\ c[i].kind # "event" => d[i].content = c[i].content

LEMMA AlikeFacts ==
    ASSUME NEW c, NEW d, NEW lg, Sound(c, lg), IsSeq(d), Alike(c, d)
    PROVE  /\ Sound(d, lg)
           /\ \A i \in 1 .. Len(c) : /\ TrueContent(d[i], lg) = TrueContent(c[i], lg)
                                     /\ TrueHash(d[i], lg) = TrueHash(c[i], lg)
           /\ \A e : EventBlocks(d, e) = EventBlocks(c, e)
           /\ \A m : ModelBlocks(d, m) = ModelBlocks(c, m)
  <1>1. /\ Len(c) \in Nat \ {0} /\ Len(d) = Len(c)
        /\ DOMAIN c = 1 .. Len(c) /\ DOMAIN d = 1 .. Len(c)
    BY SeqFacts DEF Sound, IsChain, Alike
  <1>2. \A i \in 1 .. Len(c) : /\ TrueContent(d[i], lg) = TrueContent(c[i], lg)
                               /\ TrueHash(d[i], lg) = TrueHash(c[i], lg)
    BY DEF Alike, TrueContent, TrueHash
  <1>3. /\ \A e : EventBlocks(d, e) = EventBlocks(c, e)
        /\ \A m : ModelBlocks(d, m) = ModelBlocks(c, m)
    BY <1>1 DEF Alike, EventBlocks, ModelBlocks
  <1>4. IsChain(d)
    BY <1>1 DEF IsChain, Alike
  <1>5. Linked(d, lg)
    BY <1>1, <1>2 DEF Linked, Alike, Sound
  <1>6. Once(d)
    BY <1>1 DEF Once, Alike, Sound
  <1>7. HasLatest(d)
    BY <1>3 DEF HasLatest, Sound
  <1> QED
    BY <1>2, <1>3, <1>4, <1>5, <1>6, <1>7 DEF Sound

(* An event's look-up by the latest of its blocks finds its only one.      *)
LEMMA OnlyBlock ==
    ASSUME NEW c, NEW lg, Sound(c, lg), NEW e, NEW i \in EventBlocks(c, e)
    PROVE  EventBlocks(c, e) = {i} /\ Latest(EventBlocks(c, e)) = i
  <1>1. DOMAIN c = 1 .. Len(c)
    BY SeqFacts DEF Sound, IsChain
  <1>2. EventBlocks(c, e) = {i} /\ i \in Int
    BY <1>1 DEF EventBlocks, Sound, Once
  <1> QED
    BY <1>2 DEF Latest

LEMMA LoadKeeps ==
    ASSUME LInv, NEW given \in Given, Load(given)
    PROVE  LInv'
  <1> DEFINE c == file.chain
             d == [i \in DOMAIN c |-> Rebuilt(c[i])]
             n == Len(c)
  <1>1. /\ mode # "open" /\ file.state = "whole" /\ mode' = "open" /\ chain' = d
        /\ UNCHANGED <<file, logged, acked, tampered>>
    BY DEF Load
  <1>2. /\ authorised_agents' = [a \in Agents |-> IF file.agents[a] # None
                                                 THEN file.agents[a] ELSE given[a]]
        /\ events_by_id' = [e \in EventIds |->
              IF EventBlocks(c, e) = {} THEN NoEntry
              ELSE Entry(c[Latest(EventBlocks(c, e))].content, Unfilled, None)]
        /\ provenance_by_digest' = [m \in Models |->
              IF ModelBlocks(c, m) = {} THEN None ELSE c[Latest(ModelBlocks(c, m))].content]
    BY DEF Load
  <1>3. /\ Sound(c, logged) /\ Registered(c, file.agents) /\ Holds(c, acked)
        /\ c[n].content = TrueContent(c[n], logged)
        /\ ~tampered => Pure(c, logged)
    BY <1>1 DEF LInv, FileInv
  <1> HIDE DEF c
  <1>4. n \in Nat \ {0} /\ DOMAIN c = 1 .. n
    BY <1>3, SeqFacts DEF Sound, IsChain
  <1>5. d \in Seq({Rebuilt(c[i]) : i \in 1 .. n}) /\ Len(d) = n
    BY <1>4
  <1>6. \A i \in 1 .. n : d[i] = Rebuilt(c[i])
    BY <1>4
  <1>7. \A i \in 1 .. n : /\ IsBlock(d[i]) /\ d[i].previous_hash = c[i].previous_hash
                         /\ d[i].kind = c[i].kind /\ d[i].id = c[i].id
                         /\ d[i].content = c[i].content /\ d[i].agent = c[i].agent
                         /\ d[i].hash = compute_hash(c[i])
    BY <1>3, <1>6, RebuiltFacts DEF Sound, IsChain
  <1> HIDE DEF d
  <1>8. IsSeq(d) /\ Alike(c, d)
    BY <1>5, <1>7 DEF IsSeq, Alike
  <1>9. /\ Sound(d, logged)
        /\ \A i \in 1 .. n : /\ TrueContent(d[i], logged) = TrueContent(c[i], logged)
                             /\ TrueHash(d[i], logged) = TrueHash(c[i], logged)
        /\ \A e : EventBlocks(d, e) = EventBlocks(c, e)
        /\ \A m : ModelBlocks(d, m) = ModelBlocks(c, m)
    BY <1>3, <1>8, AlikeFacts
  <1>10. \A i \in 1 .. n : c[i].content = TrueContent(c[i], logged)
                             => d[i].hash = TrueHash(d[i], logged)
    BY <1>7, <1>9 DEF compute_hash, TrueHash
  <1>11. OpenInv'
    <2>1. n \in 1 .. n
      BY <1>4
    <2>2. d[n].hash = TrueHash(d[n], logged)
      BY <2>1, <1>3, <1>10
    <2>3. ~tampered => Pure(d, logged) /\ Hashed(d, logged)
      BY <1>3, <1>5, <1>7, <1>9, <1>10 DEF Pure, Hashed
    <2>4. Holds(d, acked)
      BY <1>3, <1>9 DEF Holds
    <2>5. Registered(d, authorised_agents')
      BY <1>2, <1>3, <1>5, <1>7 DEF Registered, IsBlock
    <2> QED
      BY <1>1, <1>5, <1>9, <2>2, <2>3, <2>4, <2>5 DEF OpenInv
  <1>12. FileInv' /\ ClosedIsBlank'
    BY <1>1 DEF LInv, FileInv, ClosedIsBlank
  <1>13. FileBehind'
    BY <1>1, <1>4, <1>5, <1>7 DEF FileBehind, Behind, c
  <1>14. MapsInv'
    BY <1>1, <1>2 DEF LInv, MapsInv
  <1>15. TablesOk'
    <2>1. \A e \in EventIds : \A i \in EventBlocks(c, e) :
             /\ Latest(EventBlocks(c, e)) = i /\ i \in 1 .. n /\ c[i].content \in Digests
             /\ events_by_id'[e].payload_digest = c[i].content
      <3> TAKE e \in EventIds
      <3> TAKE i \in EventBlocks(c, e)
      <3>1. Latest(EventBlocks(c, e)) = i
        BY <1>3, OnlyBlock
      <3>2. i \in 1 .. n /\ c[i].content \in Digests
        BY <1>3, <1>4 DEF EventBlocks, Sound, IsChain, IsBlock
      <3>3. events_by_id'[e] = Entry(c[i].content, Unfilled, None)
        BY <3>1, <1>2
      <3> QED
        BY <3>1, <3>2, <3>3 DEF Entry
    <2>2. \A e \in EventIds : Known(e)' <=> EventBlocks(c, e) # {}
      <3> TAKE e \in EventIds
      <3>1. CASE EventBlocks(c, e) = {}
        BY <3>1, <1>2 DEF Known, NoEntry, Entry
      <3>2. CASE EventBlocks(c, e) # {}
        <4>1. None \notin Digests
          BY LedgerAssumption DEF None
        <4> QED
          BY <3>2, <4>1, <2>1 DEF Known
      <3> QED
        BY <3>1, <3>2
    <2>3. \A m \in Models : ModelBlocks(c, m) # {} => Latest(ModelBlocks(c, m)) \in 1 .. n
      BY <1>3, <1>4 DEF Sound, HasLatest, ModelBlocks
    <2>4. \A m \in Models :
             provenance_by_digest'[m] = IF ModelBlocks(d, m) = {} THEN None
                                        ELSE d[Latest(ModelBlocks(d, m))].content
      BY <1>2, <1>7, <1>9, <2>3
    <2> QED
      BY <1>1, <1>7, <1>9, <2>1, <2>2, <2>4 DEF TablesOk
  <1> QED
    BY <1>11, <1>12, <1>13, <1>14, <1>15 DEF LInv

LEMMA TamperKeeps ==
    ASSUME LInv, NEW e \in EventIds, NEW x \in Digests, tamper(e, x)
    PROVE  LInv'
  <1> DEFINE c == chain
             d == chain'
             n == Len(c)
  <1>1. /\ mode = "open" /\ EventBlocks(c, e) # {}
        /\ d = [c EXCEPT ![CHOOSE j \in EventBlocks(c, e) :
                              \A k \in EventBlocks(c, e) : j <= k].content = x]
        /\ events_by_id' = [events_by_id EXCEPT ![e] = Entry(x, Unfilled, None)]
        /\ tampered' = TRUE
        /\ UNCHANGED <<mode, provenance_by_digest, authorised_agents, file, logged, acked>>
    BY DEF tamper
  <1>2. /\ Sound(c, logged) /\ Registered(c, authorised_agents) /\ Holds(c, acked)
        /\ c[n].hash = TrueHash(c[n], logged)
    BY <1>1 DEF LInv, OpenInv
  <1> HIDE DEF c, d
  <1>3. n \in Nat \ {0} /\ DOMAIN c = 1 .. n
    BY <1>2, SeqFacts DEF Sound, IsChain
  <1>4. PICK i \in EventBlocks(c, e) : TRUE
    BY <1>1
  <1>5. EventBlocks(c, e) = {i}
    BY <1>2, OnlyBlock
  <1>6. i \in 1 .. n /\ c[i].kind = "event" /\ c[i].id = e
    BY <1>3 DEF EventBlocks
  <1>7. d = [c EXCEPT ![i].content = x]
    <2>1. i = CHOOSE j \in {i} : \A k \in {i} : j <= k
      BY <1>6
    <2> QED
      BY <1>1, <1>5, <2>1
  <1> DEFINE b == [c[i] EXCEPT !.content = x]
  <1>8. IsSeq(d) /\ Len(d) = n
    <2>1. PICK S : c \in Seq(S)
      BY <1>2 DEF Sound, IsChain, IsSeq
    <2>2. c \in Seq(S \cup {b})
      BY <2>1, SeqDef
    <2>3. d = [c EXCEPT ![i] = b]
      BY <1>7
    <2> HIDE DEF b
    <2>4. d \in Seq(S \cup {b}) /\ Len(d) = n
      BY <1>6, <2>2, <2>3, ExceptSeq
    <2> QED
      BY <2>4 DEF IsSeq
  <1>9. d[i] = b /\ \A j \in 1 .. n : j # i => d[j] = c[j]
    BY <1>3, <1>6, <1>7
  <1>10. b = [previous_hash |-> c[i].previous_hash, kind |-> c[i].kind, id |-> c[i].id,
              content |-> x, agent |-> c[i].agent, hash |-> c[i].hash]
    <2>1. PICK y : y = c[i]
      OBVIOUS
    <2>2. IsBlock(y)
      BY <2>1, <1>2, <1>6 DEF Sound, IsChain
    <2>3. [y EXCEPT !.content = x]
             = [previous_hash |-> y.previous_hash, kind |-> y.kind, id |-> y.id,
                content |-> x, agent |-> y.agent, hash |-> y.hash]
      BY <2>2 DEF IsBlock
    <2> QED
      BY <2>1, <2>3
  <1>11. IsBlock(b)
    BY <1>2, <1>6, <1>10 DEF Sound, IsChain, IsBlock
  <1>12. /\ b.previous_hash = c[i].previous_hash /\ b.kind = c[i].kind /\ b.id = c[i].id
         /\ b.agent = c[i].agent /\ b.hash = c[i].hash /\ b.content = x
    BY <1>10
  <1> HIDE DEF b
  <1>13. \A j \in 1 .. n : /\ d[j].kind = c[j].kind /\ d[j].id = c[j].id
                          /\ d[j].agent = c[j].agent /\ d[j].hash = c[j].hash
    BY <1>9, <1>12
  <1>14. Alike(c, d)
    BY <1>2, <1>6, <1>8, <1>9, <1>11, <1>12 DEF Alike, Sound, IsChain
  <1>15. /\ Sound(d, logged)
         /\ \A j \in 1 .. n : TrueHash(d[j], logged) = TrueHash(c[j], logged)
         /\ \A f : EventBlocks(d, f) = EventBlocks(c, f)
         /\ \A m : ModelBlocks(d, m) = ModelBlocks(c, m)
    BY <1>2, <1>8, <1>14, AlikeFacts
  <1>16. OpenInv'
    <2>1. n \in 1 .. n
      BY <1>3
    <2>2. d[n].hash = TrueHash(d[n], logged)
      BY <2>1, <1>2, <1>13, <1>15
    <2>3. Holds(d, acked) /\ Registered(d, authorised_agents)
      BY <1>2, <1>8, <1>13, <1>15 DEF Holds, Registered
    <2> QED
      BY <1>1, <1>8, <1>15, <2>2, <2>3 DEF OpenInv, d
  <1>17. FileInv' /\ ClosedIsBlank'
    BY <1>1 DEF LInv, FileInv, ClosedIsBlank
  <1>18. FileBehind'
    <2> SUFFICES ASSUME file.state = "whole" PROVE Behind(file.chain, d)
      BY <1>1 DEF FileBehind, d
    <2>1. Behind(file.chain, c) /\ Len(file.chain) \in Nat
      BY <1>1 DEF LInv, FileBehind, FileInv, Sound, IsChain, c
    <2>2. \A j \in 1 .. Len(file.chain) : j \in 1 .. n
      BY <2>1, <1>3 DEF Behind
    <2> QED
      BY <2>1, <2>2, <1>8, <1>13 DEF Behind
  <1>19. MapsInv'
    BY <1>1 DEF LInv, MapsInv
  <1>20. TablesOk'
    <2>1. /\ events_by_id'[e].payload_digest = x
          /\ \A f \in EventIds : f # e => events_by_id'[f] = events_by_id[f]
      BY <1>1 DEF LInv, MapsInv, Entry
    <2>2. \A f \in EventIds : Known(f)' <=> EventBlocks(d, f) # {}
      <3>1. x # None
        BY LedgerAssumption DEF None
      <3>2. \A f \in EventIds : Known(f) <=> EventBlocks(c, f) # {}
        BY <1>1 DEF LInv, TablesOk, c
      <3> QED
        BY <1>1, <1>15, <2>1, <3>1, <3>2 DEF Known
    <2>3. \A f \in EventIds : \A j \in EventBlocks(d, f) :
             events_by_id'[f].payload_digest = d[j].content
      <3> TAKE f \in EventIds
      <3> TAKE j \in EventBlocks(d, f)
      <3>1. CASE f = e
        BY <3>1, <1>5, <1>9, <1>12, <1>15, <2>1
      <3>2. CASE f # e
        <4>1. j \in EventBlocks(c, f) /\ j \in 1 .. n /\ c[j].id = f
          BY <1>3, <1>15 DEF EventBlocks
        <4>2. d[j] = c[j]
          BY <3>2, <4>1, <1>6, <1>9
        <4> QED
          BY <3>2, <4>1, <4>2, <1>1, <2>1 DEF LInv, TablesOk, c
      <3> QED
        BY <3>1, <3>2
    <2>4. \A m \in Models :
             provenance_by_digest'[m] = IF ModelBlocks(d, m) = {} THEN None
                                        ELSE d[Latest(ModelBlocks(d, m))].content
      <3> TAKE m \in Models
      <3>1. provenance_by_digest[m] = IF ModelBlocks(c, m) = {} THEN None
                                      ELSE c[Latest(ModelBlocks(c, m))].content
        BY <1>1 DEF LInv, TablesOk, c
      <3>2. ModelBlocks(c, m) # {} => Latest(ModelBlocks(c, m)) \in ModelBlocks(c, m)
        BY <1>2 DEF Sound, HasLatest
      <3>3. \A j \in ModelBlocks(c, m) : j \in 1 .. n /\ j # i
        BY <1>3, <1>6 DEF ModelBlocks
      <3> QED
        BY <1>1, <1>9, <1>15, <3>1, <3>2, <3>3
    <2> QED
      BY <2>2, <2>3, <2>4 DEF TablesOk, d
  <1> QED
    BY <1>16, <1>17, <1>18, <1>19, <1>20 DEF LInv

LEMMA NextLInv == LInv /\ [Next]_vars => LInv'
  <1> SUFFICES ASSUME LInv, [Next]_vars PROVE LInv'
    OBVIOUS
  <1>1. CASE \E given \in Given : Create(given) \/ Load(given)
    BY <1>1, CreateKeeps, LoadKeeps
  <1>2. CASE LoadFails
    BY <1>2 DEF LoadFails, memory, LInv, MapsInv, OpenInv, FileInv, FileBehind, TablesOk, ClosedIsBlank
  <1>3. CASE \E a \in Agents, k \in Keys : register_agent(a, k)
    BY <1>3, RegisterKeeps
  <1>4. ASSUME NEW e \in EventIds, NEW d \in Digests, NEW a \in Agents, NEW k \in Keys,
               log_security_event(e, d, a, k) \/ LogRaises(e, d, a, k)
        PROVE  LInv'
    <2>1. /\ RecordEvent(e, d, a, k)
          /\ \/ persist /\ acked' \in {acked, acked \cup {e}}
             \/ PersistRaises /\ UNCHANGED acked
      BY <1>4 DEF log_security_event, LogRaises
    <2> QED
      BY <2>1, RecordKeeps
  <1>5. ASSUME NEW m \in Models, NEW p \in Provenances,
               anchor_model_provenance(m, p) \/ AnchorRaises(m, p)
        PROVE  LInv'
    <2>1. AppendProvenance(m, p) /\ (persist \/ PersistRaises)
      BY <1>5 DEF anchor_model_provenance, AnchorRaises
    <2> QED
      BY <2>1, AnchorKeeps
  <1>6. CASE \/ Crash
             \/ \E e \in EventIds, d \in Digests, a \in Agents, k \in Keys :
                    KilledWhileLogging(e, d, a, k)
             \/ \E m \in Models, p \in Provenances : KilledWhileAnchoring(m, p)
    BY <1>6, KillsKeep
  <1>7. CASE \E e \in EventIds, d \in Digests : tamper(e, d)
    BY <1>7, TamperKeeps
  <1>8. CASE UNCHANGED vars
    BY <1>8 DEF vars, memory, LInv, MapsInv, OpenInv, FileInv, FileBehind, TablesOk, ClosedIsBlank, Known
  <1> QED
    BY <1>1, <1>2, <1>3, <1>4, <1>5, <1>6, <1>7, <1>8 DEF Next

-----------------------------------------------------------------------------
(* The theorems.                                                           *)

(* After any sequence of operations, failed writes, kills, restarts and    *)
(* tampering, the ledger in memory and its file are one chain as it was    *)
(* appended, the file behind the memory, and the tables answer from it.    *)
THEOREM LedgerInvariant == Spec => []LInv
  <1>1. Init => LInv
    BY InitLInv
  <1>2. LInv /\ [Next]_vars => LInv'
    BY NextLInv
  <1> QED
    BY <1>1, <1>2, PTL DEF Spec

LEMMA OnlyTrueContentPasses == LInv => TamperEvident
  <1> SUFFICES ASSUME LInv PROVE TamperEvident
    OBVIOUS
  <1> DEFINE c == chain
             n == Len(c)
  <1>1. CASE mode # "open"
    <2>1. DOMAIN chain = {}
      BY <1>1 DEF LInv, ClosedIsBlank
    <2> QED
      BY <2>1 DEF TamperEvident, verify_chain_integrity, Untouched
  <1>2. CASE mode = "open"
    <2>1. /\ Sound(c, logged) /\ c[n].hash = TrueHash(c[n], logged)
          /\ ~tampered => Pure(c, logged) /\ Hashed(c, logged)
      BY <1>2 DEF LInv, OpenInv
    <2>2. n \in Nat \ {0} /\ DOMAIN c = 1 .. n
      BY <2>1, SeqFacts DEF Sound, IsChain
    <2> HIDE DEF c
    <2>3. \A i \in 1 .. n : i = n \/ i + 1 \in 1 .. n
      <3>1. \A k \in Nat : \A i \in 1 .. k : i = k \/ i + 1 \in 1 .. k
        OBVIOUS
      <3> QED
        BY <3>1, <2>2
    <2>4. ASSUME verify_chain_integrity, NEW i \in 1 .. n
          PROVE  c[i].content = TrueContent(c[i], logged)
      <3>1. compute_hash(c[i]) = c[i].hash
        BY <2>2, <2>4 DEF verify_chain_integrity, c
      <3>2. c[i].hash = TrueHash(c[i], logged)
        <4>1. CASE i = n
          BY <4>1, <2>1
        <4>2. CASE i + 1 \in 1 .. n
          <5>1. PICK j \in 1 .. n : j = i + 1
            BY <4>2
          <5>2. j > 1 /\ j - 1 = i
            BY <5>1, <2>2
          <5>3. c[j].previous_hash = c[i].hash
            BY <5>2, <2>2, <2>4 DEF verify_chain_integrity, c
          <5>4. c[j].previous_hash = TrueHash(c[i], logged)
            BY <5>1, <2>1 DEF Sound, Linked
          <5> QED
            BY <5>3, <5>4
        <4> QED
          BY <2>3, <4>1, <4>2
      <3> QED
        BY <3>1, <3>2 DEF compute_hash, TrueHash
    <2>5. verify_chain_integrity => Untouched
      BY <2>2, <2>4 DEF Untouched, TrueContent, c
    <2>6. ASSUME ~tampered PROVE verify_chain_integrity
      <3>1. \A i \in 1 .. n : /\ c[i].content = TrueContent(c[i], logged)
                             /\ c[i].hash = TrueHash(c[i], logged)
        BY <2>1, <2>6 DEF Pure, Hashed
      <3>2. \A i \in 1 .. n : compute_hash(c[i]) = c[i].hash
        BY <3>1 DEF compute_hash, TrueHash
      <3>3. ASSUME NEW i \in 1 .. n, i > 1
            PROVE  c[i].previous_hash = c[i - 1].hash
        <4>1. PICK j \in 1 .. n : j = i - 1
          BY <2>2, <3>3
        <4>2. i = j + 1
          BY <4>1, <2>2
        <4>3. c[i].previous_hash = TrueHash(c[j], logged)
          BY <4>2, <2>1 DEF Sound, Linked
        <4> QED
          BY <4>1, <4>3, <3>1
      <3> QED
        BY <2>2, <3>2, <3>3 DEF verify_chain_integrity, c
    <2> QED
      BY <2>5, <2>6 DEF TamperEvident
  <1> QED
    BY <1>1, <1>2

(* A chain that passes verification has the record of every event as it    *)
(* was logged, and an untouched chain always passes.                       *)
THEOREM NoTamperingPasses == Spec => []TamperEvident
  BY LedgerInvariant, OnlyTrueContentPasses, PTL

LEMMA TablesFollow == LInv => TablesMatchChain
  <1> SUFFICES ASSUME LInv PROVE TablesMatchChain
    OBVIOUS
  <1>1. CASE mode # "open"
    <2>1. /\ DOMAIN chain = {}
          /\ events_by_id = [e \in EventIds |-> NoEntry]
          /\ provenance_by_digest = [m \in Models |-> None]
      BY <1>1 DEF LInv, ClosedIsBlank
    <2>2. \A e : EventBlocks(chain, e) = {} /\ ModelBlocks(chain, e) = {}
      BY <2>1 DEF EventBlocks, ModelBlocks
    <2>3. \A e \in EventIds : Cardinality(EventBlocks(chain, e)) = 0 /\ ~Known(e)
      BY <2>1, <2>2, FS_EmptySet DEF Known, NoEntry, Entry
    <2> QED
      BY <2>1, <2>2, <2>3 DEF TablesMatchChain
  <1>2. CASE mode = "open"
    <2>1. Sound(chain, logged) /\ Registered(chain, authorised_agents)
      BY <1>2 DEF LInv, OpenInv
    <2>2. DOMAIN chain = 1 .. Len(chain)
      BY <2>1, SeqFacts DEF Sound, IsChain
    <2>3. ASSUME NEW e \in EventIds
          PROVE  Cardinality(EventBlocks(chain, e)) <= 1
      <3>1. CASE EventBlocks(chain, e) = {}
        BY <3>1, FS_EmptySet
      <3>2. CASE EventBlocks(chain, e) # {}
        <4>1. PICK i : EventBlocks(chain, e) = {i}
          BY <3>2, <2>1, OnlyBlock
        <4> QED
          BY <4>1, FS_Singleton
      <3> QED
        BY <3>1, <3>2
    <2>4. \A i \in DOMAIN chain :
             chain[i].kind = "event" => authorised_agents[chain[i].agent] # None
      BY <2>1, <2>2 DEF Registered
    <2> QED
      BY <1>2, <2>3, <2>4 DEF LInv, TablesOk, TablesMatchChain
  <1> QED
    BY <1>1, <1>2

(* No event is on the chain twice, and both look-up tables answer from the *)
(* chain, through failed writes and restarts; every writer stays known.    *)
THEOREM TablesAnswerFromChain == Spec => []TablesMatchChain
  BY LedgerInvariant, TablesFollow, PTL

LEMMA IdsLen ==
    ASSUME NEW c, Len(c) \in Nat, DOMAIN c = 1 .. Len(c)
    PROVE  Len(IdsOf(c)) = Len(c)
  <1> DEFINE d == [i \in DOMAIN c |-> <<c[i].kind, c[i].id>>]
  <1>1. d \in Seq({<<c[i].kind, c[i].id>> : i \in 1 .. Len(c)}) /\ Len(d) = Len(c)
    OBVIOUS
  <1> QED
    BY <1>1 DEF IdsOf

LEMMA FileFollows == LInv => FileFollowsChain
  <1> SUFFICES ASSUME LInv, file.state = "whole" PROVE FileFollowsChain
    BY DEF FileFollowsChain
  <1> DEFINE c == file.chain
  <1>1. Sound(c, logged) /\ Holds(c, acked)
    BY DEF LInv, FileInv
  <1>2. ASSUME mode = "open" PROVE IsPrefix(IdsOf(c), IdsOf(chain))
    <2>1. Behind(c, chain) /\ Sound(chain, logged)
      BY <1>2 DEF LInv, FileBehind, OpenInv
    <2> HIDE DEF c
    <2>2. /\ Len(c) \in Nat /\ DOMAIN c = 1 .. Len(c)
          /\ Len(chain) \in Nat /\ DOMAIN chain = 1 .. Len(chain)
      BY <1>1, <2>1, SeqFacts DEF Sound, IsChain
    <2> DEFINE s == IdsOf(c)
               t == IdsOf(chain)
    <2>3. /\ s = [i \in 1 .. Len(c) |-> <<c[i].kind, c[i].id>>]
          /\ t = [i \in 1 .. Len(chain) |-> <<chain[i].kind, chain[i].id>>]
      BY <2>2 DEF IdsOf
    <2>4. Len(s) = Len(c) /\ Len(t) = Len(chain)
      BY <2>2, IdsLen
    <2> HIDE DEF s, t
    <2>5. Len(c) <= Len(chain)
      BY <2>1 DEF Behind
    <2>6. SubSeq(t, 1, Len(c)) = s
      BY <2>1, <2>2, <2>3, <2>5 DEF Behind
    <2> QED
      BY <2>4, <2>5, <2>6 DEF IsPrefix, s, t
  <1> QED
    BY <1>1, <1>2 DEF FileFollowsChain, Holds

(* A restart can only take the ledger back to an earlier state of itself   *)
(* that has every event whose caller got a receipt.                        *)
THEOREM FileIsAPrefix == Spec => []FileFollowsChain
  BY LedgerInvariant, FileFollows, PTL

-----------------------------------------------------------------------------
(* Refinement of AppendOnlyLog.                                            *)

(* A file that cannot be read holds no chain.                              *)
FileShape == file.state = "whole" \/ file \in {Absent, Torn}

Ids(c) == [i \in DOMAIN c |-> c[i].id]
EventsAt(c) == {i \in DOMAIN c : c[i].kind = "event"}

LEMMA IdsFacts ==
    ASSUME NEW c, IsSeq(c)
    PROVE  /\ \E S : Ids(c) \in Seq(S)
           /\ Len(Ids(c)) = Len(c) /\ Len(c) \in Nat
           /\ \A i \in 1 .. Len(c) : /\ Ids(c)[i] = c[i].id
                                     /\ i \in EventsAt(c) <=> c[i].kind = "event"
  <1> DEFINE S == {c[i].id : i \in DOMAIN c}
  <1>1. Len(c) \in Nat /\ DOMAIN c = 1 .. Len(c)
    BY SeqFacts
  <1>2. Ids(c) \in [1 .. Len(c) -> S]
    BY <1>1 DEF Ids
  <1> HIDE DEF S
  <1>3. Ids(c) \in Seq(S)
    BY <1>1, <1>2, SeqDef
  <1>4. DOMAIN Ids(c) = 1 .. Len(Ids(c)) /\ Len(Ids(c)) \in Nat
    BY <1>3, LenProperties
  <1>5. Len(Ids(c)) = Len(c)
    BY <1>1, <1>2, <1>4
  <1> QED
    BY <1>1, <1>3, <1>5 DEF Ids, EventsAt

LEMMA EventsAdded ==
    ASSUME NEW c, IsSeq(c), NEW b
    PROVE  EventsOf(Append(c, b)) =
               IF b.kind = "event" THEN Append(EventsOf(c), b.id) ELSE EventsOf(c)
  <1> DEFINE d == Append(c, b)
             n == Len(c) + 1
  <1>1. /\ IsSeq(d) /\ Len(d) = n /\ d[n] = b /\ Len(c) \in Nat
        /\ \A i \in 1 .. Len(c) : d[i] = c[i]
    BY BlocksAppend
  <1>2. PICK S : Ids(c) \in Seq(S)
    BY IdsFacts
  <1> DEFINE T == S \cup {b.id}
             s == Ids(c)
             I == EventsAt(c)
             J == EventsAt(d)
  <1>3. s \in Seq(T) /\ b.id \in T
    BY <1>2, SeqDef
  <1> HIDE DEF d, T
  <1>4. /\ Len(Ids(d)) = n /\ \A i \in 1 .. n : Ids(d)[i] = d[i].id
        /\ \A i \in 1 .. n : i \in J <=> d[i].kind = "event"
        /\ \E R : Ids(d) \in Seq(R)
    BY <1>1, IdsFacts
  <1>5. /\ Len(s) = Len(c) /\ \A i \in 1 .. Len(c) : s[i] = c[i].id
        /\ \A i \in 1 .. Len(c) : i \in I <=> c[i].kind = "event"
    BY IdsFacts
  <1>6. n \in 1 .. n /\ \A i \in 1 .. n : i = n \/ i \in 1 .. Len(c)
    BY <1>1
  <1>7. /\ \A i \in 1 .. Len(s) : i \in I <=> i \in J
        /\ Len(s) + 1 \in J <=> b.kind = "event"
    BY <1>1, <1>4, <1>5, <1>6
  <1>8. Ids(d) = Append(s, b.id)
    <2> DEFINE t == Append(s, b.id)
    <2>1. /\ t \in Seq(T) /\ Len(t) = n /\ t[n] = b.id
          /\ \A i \in 1 .. Len(c) : t[i] = s[i]
      BY <1>3, <1>5, AppendFacts
    <2> HIDE DEF t, s
    <2>2. \A i \in 1 .. n : Ids(d)[i] = t[i]
      BY <2>1, <1>1, <1>4, <1>5, <1>6
    <2>3. PICK R : Ids(d) \in Seq(R)
      BY <1>4
    <2>4. Ids(d) \in Seq(R \cup T) /\ t \in Seq(R \cup T)
      BY <2>1, <2>3, SeqDef
    <2>5. Ids(d) = t
      BY <2>1, <2>2, <2>4, <1>4, SeqEqual
    <2> QED
      BY <2>5 DEF t
  <1>9. EventsOf(c) = Selected(s, I) /\ EventsOf(d) = Selected(Ids(d), J)
    BY DEF EventsOf, Ids, EventsAt
  <1> HIDE DEF s, I, J
  <1>10. Selected(Append(s, b.id), J) =
            IF Len(s) + 1 \in J THEN Append(Selected(s, I), b.id) ELSE Selected(s, I)
    BY <1>3, <1>7, SelectedAppend, ZenonT(30)
  <1>11. EventsOf(d) = IF b.kind = "event" THEN Append(EventsOf(c), b.id) ELSE EventsOf(c)
    BY <1>7, <1>8, <1>9, <1>10
  <1> QED
    BY <1>11 DEF d

(* A chain that is behind another has the beginning of its events.         *)
LEMMA EventsBehind ==
    ASSUME NEW c, NEW d, IsSeq(c), IsSeq(d), Behind(c, d)
    PROVE  \E n \in 0 .. Len(EventsOf(d)) : EventsOf(c) = SubSeq(EventsOf(d), 1, n)
  <1> DEFINE s == Ids(d)
             m == Len(c)
             I == EventsAt(d)
             J == EventsAt(c)
  <1>1. PICK S : s \in Seq(S)
    BY IdsFacts
  <1>2. /\ Len(s) = Len(d) /\ Len(d) \in Nat /\ m \in Nat
        /\ \A i \in 1 .. Len(d) : s[i] = d[i].id /\ (i \in I <=> d[i].kind = "event")
        /\ \A i \in 1 .. m : Ids(c)[i] = c[i].id /\ (i \in J <=> c[i].kind = "event")
        /\ Len(Ids(c)) = m
    BY IdsFacts
  <1>3. /\ m \in 0 .. Len(s)
        /\ \A i \in 1 .. m : i \in 1 .. Len(d) /\ c[i].kind = d[i].kind /\ c[i].id = d[i].id
    BY <1>2 DEF Behind
  <1>4. EventsOf(c) = Selected(Ids(c), J) /\ EventsOf(d) = Selected(s, I)
    BY DEF EventsOf, Ids, EventsAt
  <1> HIDE DEF s, m, I, J
  <1>5. \A i \in 1 .. m : i \in I <=> i \in J
    BY <1>2, <1>3
  <1>6. /\ SubSeq(s, 1, m) \in Seq(S) /\ Len(SubSeq(s, 1, m)) = m
        /\ \A i \in 1 .. m : SubSeq(s, 1, m)[i] = s[i]
    BY <1>1, <1>3, PrefixFacts
  <1>7. Ids(c) = SubSeq(s, 1, m)
    <2>1. PICK R : Ids(c) \in Seq(R)
      BY IdsFacts
    <2>2. Ids(c) \in Seq(R \cup S) /\ SubSeq(s, 1, m) \in Seq(R \cup S)
      BY <2>1, <1>6, SeqDef
    <2>3. \A i \in 1 .. m : Ids(c)[i] = SubSeq(s, 1, m)[i]
      BY <1>2, <1>3, <1>6
    <2> QED
      BY <2>2, <2>3, <1>2, <1>6, SeqEqual
  <1>8. Begins(Selected(SubSeq(s, 1, m), J), Selected(s, I))
    BY <1>1, <1>3, <1>5, SelectedPrefix
  <1>9. Selected(SubSeq(s, 1, m), J) \in Seq(S) /\ Selected(s, I) \in Seq(S)
    BY <1>1, <1>6, SelectedItems
  <1>10. /\ Len(Selected(SubSeq(s, 1, m), J)) \in 0 .. Len(Selected(s, I))
         /\ Selected(SubSeq(s, 1, m), J)
                = SubSeq(Selected(s, I), 1, Len(Selected(SubSeq(s, 1, m), J)))
    BY <1>8, <1>9, BeginningIsSubSeq
  <1> QED
    BY <1>4, <1>7, <1>10

(* An event is on the log if and only if it has a block.                   *)
LEMMA EventsFound ==
    ASSUME NEW c, IsSeq(c), NEW e
    PROVE  (\E i \in DOMAIN EventsOf(c) : EventsOf(c)[i] = e) <=> EventBlocks(c, e) # {}
  <1> DEFINE s == Ids(c)
             I == EventsAt(c)
             t == Selected(s, I)
  <1>1. PICK S : s \in Seq(S)
    BY IdsFacts
  <1>2. /\ Len(s) = Len(c) /\ DOMAIN c = 1 .. Len(c)
        /\ \A i \in 1 .. Len(c) : s[i] = c[i].id /\ (i \in I <=> c[i].kind = "event")
    BY IdsFacts, SeqFacts
  <1>3. EventsOf(c) = t
    BY DEF EventsOf, Ids, EventsAt
  <1> HIDE DEF s, I
  <1>4. /\ t \in Seq(S)
        /\ \A k \in 1 .. Len(t) : \E i \in 1 .. Len(s) : i \in I /\ t[k] = s[i]
        /\ \A i \in 1 .. Len(s) : i \in I => \E k \in 1 .. Len(t) : t[k] = s[i]
    BY <1>1, SelectedItems
  <1> HIDE DEF t
  <1>5. DOMAIN t = 1 .. Len(t)
    BY <1>4, LenProperties
  <1>6. EventBlocks(c, e) # {} <=> \E i \in 1 .. Len(c) : i \in I /\ s[i] = e
    BY <1>2 DEF EventBlocks
  <1>7. ASSUME NEW k \in 1 .. Len(t), t[k] = e PROVE \E i \in 1 .. Len(c) : i \in I /\ s[i] = e
    BY <1>2, <1>4, <1>7
  <1>8. ASSUME NEW i \in 1 .. Len(c), i \in I, s[i] = e PROVE \E k \in 1 .. Len(t) : t[k] = e
    BY <1>2, <1>4, <1>8
  <1> QED
    BY <1>3, <1>5, <1>6, <1>7, <1>8

LEMMA EmptyLog == EventsOf(<<>>) = <<>>
  <1>1. [i \in DOMAIN <<>> |-> <<>>[i].id] = <<>>
    OBVIOUS
  <1> QED
    BY <1>1, SelectedEmpty DEF EventsOf

LEMMA GenesisLog == EventsOf(<<Genesis>>) = <<>>
  <1>1. IsSeq(<<>>) /\ Append(<<>>, Genesis) = <<Genesis>>
    BY EmptySeq DEF IsSeq
  <1>2. Genesis.kind = "genesis"
    BY BlockFacts DEF Genesis
  <1> QED
    BY <1>1, <1>2, EventsAdded, EmptyLog

LEMMA InitFileShape == Init => FileShape
  BY DEF Init, FileShape

LEMMA NextFileShape == FileShape /\ [Next]_vars => FileShape'
  <1> USE DEF FileShape
  <1> SUFFICES ASSUME FileShape, [Next]_vars PROVE FileShape'
    OBVIOUS
  <1>1. file' = file \/ file' = Torn \/ \E c : file' = Saved(c)
    BY DEF Next, vars, Create, Load, LoadFails, Crash, register_agent, log_security_event, LogRaises,
           KilledWhileLogging, anchor_model_provenance, AnchorRaises, KilledWhileAnchoring, tamper,
           persist, PersistRaises
  <1> QED
    BY <1>1 DEF Saved

(* The steps that change what the log is read from.                        *)
LEMMA CreateImplementsLog ==
    ASSUME LInv, FileShape, NEW given, Create(given)
    PROVE  UNCHANGED Log!lvars
  <1>1. file.state = "absent" /\ mode # "open" /\ mode' = "open" /\ chain' = <<Genesis>>
        /\ UNCHANGED <<file, acked>>
    BY DEF Create
  <1>2. file.chain = <<>>
    BY <1>1 DEF FileShape, Absent, Torn
  <1> QED
    BY <1>1, <1>2, EmptyLog, GenesisLog DEF Log!lvars, Destroyed

LEMMA LoadImplementsLog ==
    ASSUME LInv, NEW given, Load(given)
    PROVE  UNCHANGED Log!lvars
  <1> DEFINE c == file.chain
             d == chain'
  <1>1. /\ file.state = "whole" /\ mode # "open" /\ mode' = "open"
        /\ d = [i \in DOMAIN c |-> Rebuilt(c[i])] /\ UNCHANGED <<file, acked>>
    BY DEF Load
  <1>2. DOMAIN c = 1 .. Len(c) /\ \A i \in 1 .. Len(c) : IsBlock(c[i])
    BY <1>1, SeqFacts DEF LInv, FileInv, Sound, IsChain
  <1> HIDE DEF c, d
  <1>3. DOMAIN d = DOMAIN c /\ \A i \in DOMAIN c : d[i].id = c[i].id /\ d[i].kind = c[i].kind
    BY <1>1, <1>2, RebuiltFacts
  <1>4. /\ [i \in DOMAIN c |-> c[i].id] = [i \in DOMAIN d |-> d[i].id]
        /\ {i \in DOMAIN c : c[i].kind = "event"} = {i \in DOMAIN d : d[i].kind = "event"}
    BY <1>3
  <1>5. EventsOf(c) = EventsOf(d)
    BY <1>4 DEF EventsOf
  <1> QED
    BY <1>1, <1>5 DEF Log!lvars, Destroyed, EventsOf, c, d

LEMMA CrashImplementsLog ==
    ASSUME LInv, FileShape, Crash
    PROVE  Log!Next
  <1>1. mode = "open" /\ mode' = "down" /\ UNCHANGED <<file, acked>>
    BY DEF Crash
  <1>2. Sound(chain, logged) /\ IsSeq(chain)
    BY <1>1 DEF LInv, OpenInv, Sound, IsChain
  <1>3. CASE file.state = "torn"
    <2>1. file'.state = "torn" /\ file.chain = <<>>
      BY <1>1, <1>3 DEF FileShape, Torn, Absent
    <2>2. Log!Destroy
      BY <2>1, <1>1, EmptyLog DEF Log!Destroy, Destroyed, EventsOf
    <2> QED
      BY <2>2 DEF Log!Next
  <1>4. CASE file.state # "torn"
    <2>1. IsSeq(file.chain) /\ Behind(file.chain, chain) /\ Holds(file.chain, acked)
      <3>1. CASE file.state = "whole"
        BY <3>1, <1>1 DEF LInv, FileInv, FileBehind, Sound, IsChain
      <3>2. CASE file = Absent
        <4>1. file.chain = <<>> /\ IsSeq(<<>>) /\ Len(<<>>) = 0 /\ acked = {}
          BY <3>2, EmptySeq DEF Absent, IsSeq, LInv, FileInv
        <4>2. Len(chain) \in Nat
          BY <1>2, SeqFacts
        <4> QED
          BY <4>1, <4>2 DEF Behind, Holds
      <3> QED
        BY <1>4, <3>1, <3>2 DEF FileShape, Torn, Absent
    <2>2. PICK n \in 0 .. Len(EventsOf(chain)) :
             EventsOf(file.chain) = SubSeq(EventsOf(chain), 1, n)
      BY <2>1, <1>2, EventsBehind
    <2>3. \A e \in acked : \E i \in DOMAIN EventsOf(file.chain) : EventsOf(file.chain)[i] = e
      BY <2>1, EventsFound DEF Holds
    <2>4. Log!Forget(n)
      BY <1>1, <1>4, <2>2, <2>3 DEF Log!Forget, Log!OnLog, Destroyed, EventsOf
    <2> QED
      BY <2>2, <2>4, <1>1 DEF Log!Next, EventsOf
  <1> QED
    BY <1>3, <1>4

(* A record that passes the guard is appended in memory, or in the file    *)
(* when the process is killed.                                             *)
LEMMA LoggingImplementsLog ==
    ASSUME LInv, NEW e \in EventIds, NEW d \in Digests, NEW a \in Agents, NEW k \in Keys,
           \/ log_security_event(e, d, a, k) \/ LogRaises(e, d, a, k)
           \/ KilledWhileLogging(e, d, a, k)
    PROVE  Log!Next
  <1> DEFINE b == EventBlock(e, d, a)
             new == Append(chain, b)
  <1>1. MayLog(e, a, k) /\ mode = "open"
    BY DEF log_security_event, LogRaises, KilledWhileLogging, RecordEvent, MayLog
  <1>2. IsSeq(chain) /\ EventBlocks(chain, e) = {}
    BY <1>1 DEF LInv, OpenInv, Sound, IsChain, TablesOk, MayLog
  <1>3. b.kind = "event" /\ b.id = e
    BY <1>1, EventFits, ZenonT(30)
  <1>4. EventsOf(new) = Append(EventsOf(chain), e)
    BY <1>2, <1>3, EventsAdded
  <1>5. ~(\E i \in DOMAIN EventsOf(chain) : EventsOf(chain)[i] = e)
    BY <1>2, EventsFound
  <1> HIDE DEF new, b
  <1>6. CASE log_security_event(e, d, a, k) \/ LogRaises(e, d, a, k)
    <2>1. mode' = "open" /\ chain' = new
      BY <1>6, <1>1 DEF log_security_event, LogRaises, RecordEvent, new, b
    <2>2. CASE log_security_event(e, d, a, k)
      <3>1. Log!Acknowledge(e)
        BY <1>1, <1>4, <1>5, <2>1, <2>2
        DEF log_security_event, Log!Acknowledge, Log!OnLog, Destroyed, EventsOf
      <3> QED
        BY <3>1 DEF Log!Next
    <2>3. CASE LogRaises(e, d, a, k)
      <3>1. Log!AppendUnseen(e)
        BY <1>1, <1>4, <1>5, <2>1, <2>3
        DEF LogRaises, Log!AppendUnseen, Log!OnLog, Destroyed, EventsOf
      <3> QED
        BY <3>1 DEF Log!Next
    <2> QED
      BY <1>6, <2>2, <2>3
  <1>7. CASE KilledWhileLogging(e, d, a, k)
    <2>1. mode' = "down" /\ UNCHANGED acked /\ (file' = Torn \/ file' = Saved(new))
      BY <1>7 DEF KilledWhileLogging, new, b
    <2>2. CASE file' = Torn
      <3>1. file'.state = "torn" /\ file'.chain = <<>>
        BY <2>2 DEF Torn, Absent
      <3>2. Log!Destroy
        BY <3>1, <2>1, EmptyLog DEF Log!Destroy, Destroyed, EventsOf
      <3> QED
        BY <3>2 DEF Log!Next
    <2>3. CASE file' = Saved(new)
      <3>1. file'.state = "whole" /\ file'.chain = new
        BY <2>3 DEF Saved
      <3>2. Log!AppendUnseen(e)
        BY <1>1, <1>4, <1>5, <2>1, <3>1 DEF Log!AppendUnseen, Log!OnLog, Destroyed, EventsOf
      <3> QED
        BY <3>2 DEF Log!Next
    <2> QED
      BY <2>1, <2>2, <2>3
  <1> QED
    BY <1>6, <1>7

(* Provenance is not part of the log.                                      *)
LEMMA AnchoringImplementsLog ==
    ASSUME LInv, NEW m \in Models, NEW p \in Provenances,
           \/ anchor_model_provenance(m, p) \/ AnchorRaises(m, p)
           \/ KilledWhileAnchoring(m, p)
    PROVE  [Log!Next]_(Log!lvars)
  <1> DEFINE b == ProvenanceBlock(m, p)
             new == Append(chain, b)
  <1>1. mode = "open" /\ UNCHANGED acked
    BY DEF anchor_model_provenance, AnchorRaises, KilledWhileAnchoring, AppendProvenance
  <1>2. IsSeq(chain)
    BY <1>1 DEF LInv, OpenInv, Sound, IsChain
  <1>3. b.kind = "provenance"
    BY BlockFacts DEF ProvenanceBlock
  <1>4. EventsOf(new) = EventsOf(chain)
    BY <1>2, <1>3, EventsAdded
  <1> HIDE DEF new, b
  <1>5. CASE anchor_model_provenance(m, p) \/ AnchorRaises(m, p)
    <2>1. mode' = "open" /\ chain' = new
      BY <1>5, <1>1 DEF anchor_model_provenance, AnchorRaises, AppendProvenance, new, b
    <2> QED
      BY <2>1, <1>1, <1>4 DEF Log!lvars, Destroyed, EventsOf
  <1>6. CASE KilledWhileAnchoring(m, p)
    <2>1. mode' = "down" /\ (file' = Torn \/ file' = Saved(new))
      BY <1>6 DEF KilledWhileAnchoring, new, b
    <2>2. CASE file' = Torn
      <3>1. file'.state = "torn" /\ file'.chain = <<>>
        BY <2>2 DEF Torn, Absent
      <3>2. Log!Destroy
        BY <3>1, <2>1, <1>1, EmptyLog DEF Log!Destroy, Destroyed, EventsOf
      <3> QED
        BY <3>2 DEF Log!Next
    <2>3. CASE file' = Saved(new)
      <3>1. file'.state = "whole" /\ file'.chain = new
        BY <2>3 DEF Saved
      <3> QED
        BY <1>1, <1>4, <2>1, <3>1 DEF Log!lvars, Destroyed, EventsOf
    <2> QED
      BY <2>1, <2>2, <2>3
  <1> QED
    BY <1>5, <1>6

(* Nor is the content of a record: tampering leaves the log as it is.      *)
LEMMA TamperImplementsLog ==
    ASSUME LInv, NEW e \in EventIds, NEW x \in Digests, tamper(e, x)
    PROVE  UNCHANGED Log!lvars
  <1> DEFINE c == chain
             d == chain'
  <1>1. PICK i : d = [c EXCEPT ![i].content = x]
    BY DEF tamper
  <1>2. mode = "open" /\ UNCHANGED <<mode, file, acked>>
    BY DEF tamper
  <1>3. \A j \in DOMAIN c : IsBlock(c[j])
    BY <1>2, SeqFacts DEF LInv, OpenInv, Sound, IsChain
  <1> HIDE DEF c, d
  <1>4. DOMAIN d = DOMAIN c /\ \A j \in DOMAIN c : d[j].kind = c[j].kind /\ d[j].id = c[j].id
    <2> SUFFICES ASSUME NEW j \in DOMAIN c PROVE d[j].kind = c[j].kind /\ d[j].id = c[j].id
      BY <1>1
    <2>1. CASE j # i
      BY <2>1, <1>1
    <2>2. CASE j = i
      <3> PICK y : y = c[j]
        OBVIOUS
      <3>1. d[j] = [y EXCEPT !.content = x]
        BY <2>2, <1>1
      <3>2. IsBlock(y)
        BY <1>3
      <3> QED
        BY <3>1, <3>2 DEF IsBlock
    <2> QED
      BY <2>1, <2>2
  <1>5. /\ [j \in DOMAIN c |-> c[j].id] = [j \in DOMAIN d |-> d[j].id]
        /\ {j \in DOMAIN c : c[j].kind = "event"} = {j \in DOMAIN d : d[j].kind = "event"}
    BY <1>4
  <1>6. EventsOf(c) = EventsOf(d)
    BY <1>5 DEF EventsOf
  <1> QED
    BY <1>2, <1>6 DEF Log!lvars, Destroyed, EventsOf, c, d

LEMMA NextImplementsLog ==
    ASSUME LInv, FileShape, [Next]_vars
    PROVE  [Log!Next]_(Log!lvars)
  <1>1. ASSUME NEW given, Create(given) \/ Load(given) PROVE UNCHANGED Log!lvars
    BY <1>1, CreateImplementsLog, LoadImplementsLog
  <1>2. CASE LoadFails
    BY <1>2 DEF LoadFails, memory, Log!lvars, Destroyed, EventsOf
  <1>3. ASSUME NEW a, NEW k, register_agent(a, k) PROVE UNCHANGED Log!lvars
    BY <1>3 DEF register_agent, Log!lvars, Destroyed, EventsOf
  <1>4. CASE UNCHANGED vars
    BY <1>4 DEF vars, memory, Log!lvars, Destroyed, EventsOf
  <1> QED
    BY <1>1, <1>2, <1>3, <1>4, CrashImplementsLog, LoggingImplementsLog, AnchoringImplementsLog,
       TamperImplementsLog DEF Next

(* The ledger keeps the promise its clients rely on: over failed writes,   *)
(* kills, restarts and tampering each event is appended once, acknowledged *)
(* events stay, and what a restart forgets is the newest                   *)
(* (mock_ledger.py:75-165, base.py:69-83).                                 *)
THEOREM LedgerImplementsLog == Spec => LogSpec
  <1>1. Init => Log!Init
    <2> SUFFICES ASSUME Init PROVE Log!Init
      OBVIOUS
    <2>1. mode = "down" /\ file.chain = <<>> /\ file.state = "absent" /\ acked = {}
      BY DEF Init, Absent
    <2> QED
      BY <2>1, EmptyLog DEF Log!Init, Destroyed, EventsOf
  <1>2. LInv /\ FileShape /\ [Next]_vars => [Log!Next]_(Log!lvars)
    BY NextImplementsLog
  <1> QED
    BY <1>1, <1>2, LedgerInvariant, InitFileShape, NextFileShape, PTL
    DEF Spec, LogSpec, Log!Spec
=============================================================================
