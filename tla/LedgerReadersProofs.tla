------------------------- MODULE LedgerReadersProofs -------------------------
(***************************************************************************)
(* Proofs about the cache of the ledger, the chaincode's channel, the      *)
(* evidence store and the auditor over it, for any events, threads,        *)
(* clients, peers, attempts and number of calls.                           *)
(***************************************************************************)
EXTENDS LedgerReaders, SequenceLemmas, FiniteSetTheorems

-----------------------------------------------------------------------------
(* The cache.                                                              *)

CacheSteps == {"idle", "query", "sync", "resources", "count", "wait", "join", "ended"}
InSync(l) == loop[l].at \in {"sync", "resources", "count"}

CacheType ==
    /\ loop \in [Threads -> [at : CacheSteps, records : SUBSET Events]]
    /\ log \subseteq Events /\ by_event \subseteq Events

(* Who is inside the lock has set the first index, and later the second.   *)
Locked ==
    /\ CacheIsOneSnapshot
    /\ \A l \in Threads :
          /\ In(l, "resources") => lock = l /\ by_event = loop[l].records
          /\ In(l, "count") => /\ lock = l
                               /\ by_event = loop[l].records /\ by_resource = by_event

(* Unless a join gave up, one thread syncs at a time, and what it has read *)
(* is no older than what is in the cache.                                  *)
OneSync ==
    /\ In(User, "join") => thread \in Loops
    /\ thread \in Loops \cup {None}
    /\ loop[User].at \notin {"wait", "ended"}
    /\ \A l \in Loops : ~In(l, "join")
    /\ by_event \subseteq log
    /\ \A l \in Threads : InSync(l) => loop[l].records \subseteq log
    /\ ~gave_up =>
          /\ \A l \in Loops : ~In(l, "idle") /\ ~In(l, "ended") => thread = l
          /\ loop[User].at \in {"query", "sync", "resources", "count"} => thread = None
          /\ \A l \in Threads : InSync(l) => by_event \subseteq loop[l].records

CInv == CacheType /\ Locked /\ OneSync

LEMMA CacheInits == Init => CInv
  <1> SUFFICES ASSUME Init PROVE CInv
    OBVIOUS
  <1>1. CacheInit /\ log = {}
    BY DEF Init, StoreInit, Stored
  <1>2. User \in Threads /\ Loops \subseteq Threads
    BY DEF Threads
  <1> QED
    BY <1>1, <1>2, FS_EmptySet DEF CacheInit, CInv, CacheType, CacheSteps, Locked, CacheIsOneSnapshot, OneSync,
                      In, InSync

(* Nobody takes an event off the ledger.                                   *)
LEMMA LogKept ==
    ASSUME [Next]_vars
    PROVE  log \subseteq log' /\ (log \subseteq Events => log' \subseteq Events)
  <1>1. ASSUME NEW a \in Attempts, StoreStep(a)
        PROVE  log' \in {log, log \cup {EventOf[a]}}
    BY <1>1 DEF StoreStep, StartAttempt, IsFile, OpenTemporary, WriteTemporary, Replace,
                LogEvent, WriteFails
  <1>2. ASSUME Crash \/ Restart \/ Alter PROVE log' = log
    BY <1>2 DEF Crash, Restart, Alter
  <1>3. CASE Write
    <2> PICK a \in Attempts : StoreStep(a)
      BY <1>3 DEF Write
    <2> QED
      BY <1>1, StoreAssumption
  <1>4. CASE Disturb \/ Report \/ Cache \/ Channel \/ UNCHANGED vars
    BY <1>4, <1>2 DEF Disturb, Report, StartReport, AuditEvent, Cache, CacheStep, Channel,
                      vars, svars
  <1> QED
    BY <1>3, <1>4 DEF Next

(* A step that leaves the cache alone, while the ledger may grow.          *)
LEMMA CacheUntouched ==
    ASSUME CInv, UNCHANGED cvars, log \subseteq log', log' \subseteq Events
    PROVE  CInv'
  BY DEF CInv, cvars, CacheType, Locked, CacheIsOneSnapshot, OneSync, In, InSync

LEMMA SyncKeeps ==
    ASSUME CInv, NEW l \in Threads, SyncWorks(l), UNCHANGED log
    PROVE  CInv' /\ (~gave_up => by_event \subseteq by_event')
  <1> USE DEF CInv, CacheType, CacheSteps, In, InSync
  <1>1. /\ User \in Threads /\ Loops \subseteq Threads /\ User \notin Loops
        /\ None \notin Threads /\ \A k \in Threads : k \in Loops \/ k = User
    BY CacheAssumption DEF Threads
  <1>2. ~gave_up => \A k \in Threads \ {l} : ~InSync(l) \/ ~InSync(k)
    BY <1>1 DEF OneSync
  <1>3. CASE QueryHistory(l)
    <2>1. /\ UNCHANGED <<indexes, lock, control>> /\ loop[l].at = "query"
          /\ loop' = [loop EXCEPT ![l] = [at |-> "sync", records |-> log]]
      BY <1>3 DEF QueryHistory
    <2> QED
      BY <2>1, <1>1 DEF indexes, control, Locked, CacheIsOneSnapshot, OneSync
  <1>4. CASE QueryFails(l) \/ LoopAgain(l)
    <2>1. /\ UNCHANGED <<indexes, lock, control>> /\ loop[l].at \in {"query", "wait"}
          /\ \E s \in {"idle", "wait", "ended", "query"} :
                /\ loop' = [loop EXCEPT ![l].at = s]
                /\ l = User => s = "idle"
                /\ l \in Loops => s # "idle"
      BY <1>1, <1>4 DEF QueryFails, LoopAgain, MoveTo, AfterSync, OneSync
    <2> QED
      BY <2>1, <1>1 DEF indexes, control, Locked, CacheIsOneSnapshot, OneSync
  <1>5. CASE AcquireLock(l)
    <2>1. /\ UNCHANGED <<by_resource, records_cached, control>>
          /\ loop[l].at = "sync" /\ lock = None /\ lock' = l
          /\ by_event' = loop[l].records
          /\ loop' = [loop EXCEPT ![l].at = "resources"]
      BY <1>5 DEF AcquireLock, MoveTo
    <2>2. Locked'
      BY <2>1, <1>1 DEF Locked, CacheIsOneSnapshot
    <2>3. OneSync'
      BY <2>1, <1>1, <1>2 DEF control, OneSync
    <2> QED
      BY <2>1, <2>2, <2>3 DEF OneSync
  <1>6. CASE SetResources(l)
    <2>1. /\ UNCHANGED <<by_event, records_cached, lock, control>>
          /\ loop[l].at = "resources" /\ by_resource' = loop[l].records
          /\ loop' = [loop EXCEPT ![l].at = "count"]
      BY <1>6 DEF SetResources, MoveTo
    <2> QED
      BY <2>1, <1>1 DEF control, Locked, CacheIsOneSnapshot, OneSync
  <1>7. CASE SetCount(l)
    <2>1. /\ UNCHANGED <<by_event, by_resource, control>>
          /\ loop[l].at = "count" /\ lock' = None
          /\ records_cached' = Cardinality(loop[l].records)
          /\ \E s \in {"idle", "wait"} :
                /\ loop' = [loop EXCEPT ![l] = [at |-> s, records |-> {}]]
                /\ l = User <=> s = "idle"
      BY <1>7 DEF SetCount, AfterSync
    <2>2. Locked'
      BY <2>1, <1>1 DEF Locked, CacheIsOneSnapshot
    <2>3. OneSync'
      BY <2>1, <1>1 DEF control, OneSync
    <2> QED
      BY <2>1, <2>2, <2>3
  <1> QED
    BY <1>3, <1>4, <1>5, <1>6, <1>7 DEF SyncWorks

LEMMA UserKeeps ==
    ASSUME CInv, Start \/ Stop \/ Joined \/ JoinTimesOut \/ SyncOnce, UNCHANGED log
    PROVE  CInv' /\ by_event \subseteq by_event'
  <1> USE DEF CInv, CacheType, CacheSteps, In, InSync, MoveTo
  <1>1. /\ User \in Threads /\ Loops \subseteq Threads /\ User \notin Loops
        /\ None \notin Threads /\ \A k \in Threads : k \in Loops \/ k = User
    BY CacheAssumption DEF Threads
  <1>2. UNCHANGED <<by_event, by_resource, records_cached, lock>>
    BY DEF Start, Stop, Joined, JoinTimesOut, SyncOnce, indexes
  <1>3. CASE Start
    BY <1>1, <1>2, <1>3 DEF Start, Locked, CacheIsOneSnapshot, OneSync
  <1>4. CASE Stop
    BY <1>1, <1>2, <1>4 DEF Stop, Locked, CacheIsOneSnapshot, OneSync
  <1>5. CASE Joined
    BY <1>1, <1>2, <1>5 DEF Joined, Locked, CacheIsOneSnapshot, OneSync
  <1>6. CASE JoinTimesOut
    BY <1>1, <1>2, <1>6 DEF JoinTimesOut, Locked, CacheIsOneSnapshot, OneSync
  <1>7. CASE SyncOnce
    BY <1>1, <1>2, <1>7 DEF SyncOnce, control, Locked, CacheIsOneSnapshot, OneSync
  <1> QED
    BY <1>2, <1>3, <1>4, <1>5, <1>6, <1>7

LEMMA NextCInv ==
    ASSUME CInv, [Next]_vars
    PROVE  CInv' /\ (~gave_up => by_event \subseteq by_event')
  <1>1. log \subseteq log' /\ log' \subseteq Events
    BY LogKept DEF CInv, CacheType
  <1>2. CASE Write \/ Disturb \/ Report \/ Channel \/ UNCHANGED vars
    <2>1. UNCHANGED cvars
      BY <1>2 DEF Write, Disturb, Report, Channel, vars
    <2> QED
      BY <2>1, <1>1, CacheUntouched DEF cvars
  <1>3. CASE Cache
    BY <1>3, SyncKeeps, UserKeeps DEF Cache, CacheStep, svars
  <1> QED
    BY <1>2, <1>3 DEF Next

LEMMA CacheInvariant == Spec => []CInv
  BY CacheInits, NextCInv, PTL DEF Spec

(* Whoever gets the lock of the cache finds both indexes and the count of  *)
(* one query, whichever threads sync (local_cache.py:55-61).               *)
THEOREM OneSnapshot == Spec => []CacheIsOneSnapshot
  <1>1. CInv => CacheIsOneSnapshot
    BY DEF CInv, Locked
  <1> QED
    BY <1>1, CacheInvariant, PTL

(* As long as no stop() gave up waiting, no older answer of the ledger is  *)
(* put over a newer one (local_cache.py:52-76).                            *)
THEOREM NoStepBack == Spec => CacheGoesForward
  <1>1. CInv /\ [Next]_vars => [~gave_up => by_event \subseteq by_event']_cvars
    BY NextCInv
  <1> QED
    BY <1>1, CacheInvariant, PTL DEF Spec, CacheGoesForward
-----------------------------------------------------------------------------
(* The channel.                                                            *)

EventKeys == {EventKey(e) : e \in EventIds}
RecordKeys == EventKeys \cup {ProvenanceKey(m) : m \in Models}
Values == EventRecords \cup [provenance : Provenances]

Transactions == [key : RecordKeys, value : Values, valid : BOOLEAN]
Calls == {Idle}
         \cup [state : {"endorsed"}, key : RecordKeys, reads : SUBSET Nat, value : Values]
         \cup [state : {"ordered"}, index : Nat]

ChannelType ==
    /\ txs \in Seq(Transactions)
    /\ height \in [Peers -> Nat] /\ \A p \in Peers : height[p] <= Len(txs)
    /\ call \in [Callers -> Calls]
    /\ made \in [Callers -> Nat]

(* Under an event's key there are events' records, and a call that wants   *)
(* to write one has found none.                                            *)
EventsUnderTheirKeys ==
    /\ \A i \in 1 .. Len(txs) : txs[i].key \in EventKeys => txs[i].value \in EventRecords
    /\ \A c \in Callers :
          call[c].state = "endorsed" /\ call[c].key \in EventKeys =>
              call[c].value \in EventRecords /\ call[c].reads = {0}

(* Validation lets one of them through.                                    *)
WrittenOnce ==
    \A i, j \in 1 .. Len(txs) :
        txs[i].valid /\ txs[j].valid /\ txs[i].key = txs[j].key /\ txs[i].key \in EventKeys
            => i = j

ReceiptsOfWriters ==
    \A r \in receipts : \E i \in 1 .. Len(txs) :
        /\ r.event \in EventIds
        /\ txs[i].valid /\ txs[i].key = EventKey(r.event) /\ txs[i].value = r.record
        /\ \E p \in Peers : height[p] >= i

OrderedAreThere ==
    \A c \in Callers : call[c].state = "ordered" => call[c].index \in 1 .. Len(txs)

ChInv == ChannelType /\ EventsUnderTheirKeys /\ WrittenOnce /\ ReceiptsOfWriters /\ OrderedAreThere

LEMMA KeyFacts ==
    /\ \A e, f \in EventIds : EventKey(e) = EventKey(f) => e = f
    /\ \A e \in EventIds : EventKey(e)[2] = e /\ EventKey(e) \in EventKeys
    /\ \A m \in Models : ProvenanceKey(m) \in RecordKeys /\ ProvenanceKey(m) \notin EventKeys
    /\ EventKeys \subseteq RecordKeys
  BY DEF EventKey, ProvenanceKey, EventKeys, RecordKeys

(* What a peer finds under an event's key.                                 *)
LEMMA VersionFacts ==
    ASSUME ChInv, NEW k \in EventKeys, NEW h \in Nat, h <= Len(txs)
    PROVE  /\ \A i \in Writers(k, h) : Version(k, h) = i
           /\ Writers(k, h) = {} => Version(k, h) = 0
           /\ Version(k, h) = 0 => Writers(k, h) = {}
           /\ \A i \in Writers(k, h) : i \in 1 .. Len(txs) /\ i # 0 /\ i <= h
  <1>1. Len(txs) \in Nat
    BY LenProperties DEF ChInv, ChannelType
  <1>2. \A i \in Writers(k, h) : i \in 1 .. Len(txs) /\ i # 0 /\ i <= h
    BY <1>1 DEF Writers
  <1>3. \A i, j \in Writers(k, h) : i = j
    BY <1>1 DEF Writers, ChInv, WrittenOnce
  <1>4. ASSUME NEW i \in Writers(k, h) PROVE Version(k, h) = i
    <2>1. \A j \in Writers(k, h) : j <= i
      BY <1>2, <1>3
    <2>2. Version(k, h) \in Writers(k, h)
      BY <2>1 DEF Version
    <2> QED
      BY <1>3, <2>2
  <1>5. Writers(k, h) = {} => Version(k, h) = 0
    BY DEF Version
  <1> QED
    BY <1>2, <1>4, <1>5

LEMMA RecordsAreEvents ==
    \A r \in EventRecords : IsEvent(r) /\ r # NoState
  BY SecurityLogAssumption DEF EventRecords, IsEvent

LEMMA PeerFinds ==
    ASSUME ChInv, NEW p \in Peers, NEW e \in EventIds
    PROVE  /\ \A i \in Writers(EventKey(e), height[p]) :
                 getEvent(p, e) = txs[i].value /\ txs[i].value # NoState
           /\ Writers(EventKey(e), height[p]) = {} => getEvent(p, e) = NoState
           /\ GetState(p, EventKey(e)) = NoState => Version(EventKey(e), height[p]) = 0
  <1> DEFINE k == EventKey(e)
             h == height[p]
  <1>1. k \in EventKeys /\ h \in Nat /\ h <= Len(txs)
    BY KeyFacts DEF ChInv, ChannelType
  <1>2. ASSUME NEW i \in Writers(k, h)
        PROVE  /\ GetState(p, k) = txs[i].value /\ txs[i].value # NoState
               /\ getEvent(p, e) = txs[i].value
    <2>1. Version(k, h) = i /\ i # 0 /\ i \in 1 .. Len(txs) /\ txs[i].key = k
      BY <1>1, <1>2, VersionFacts DEF Writers
    <2>2. GetState(p, k) = txs[i].value
      BY <2>1 DEF GetState
    <2>3. txs[i].value \in EventRecords
      BY <1>1, <2>1 DEF ChInv, EventsUnderTheirKeys
    <2> QED
      BY <2>2, <2>3, RecordsAreEvents DEF getEvent
  <1>3. ASSUME Writers(k, h) = {} PROVE getEvent(p, e) = NoState
    <2>1. GetState(p, k) = NoState
      BY <1>1, <1>3, VersionFacts DEF GetState
    <2> QED
      BY <2>1 DEF getEvent, IsEvent
  <1>4. ASSUME GetState(p, k) = NoState PROVE Version(k, h) = 0
    BY <1>1, <1>2, <1>4, VersionFacts
  <1> QED
    BY <1>2, <1>3, <1>4

(* The same as a formula, of which a step also needs the next state's.     *)
Found ==
    \A p \in Peers, e \in EventIds :
        /\ \A i \in Writers(EventKey(e), height[p]) : getEvent(p, e) = txs[i].value
        /\ Writers(EventKey(e), height[p]) = {} => getEvent(p, e) = NoState

LEMMA PeersFind == ChInv => Found
  BY PeerFinds DEF Found

-----------------------------------------------------------------------------
LEMMA ChannelInits == Init => ChInv
  <1> SUFFICES ASSUME Init PROVE ChInv
    OBVIOUS
  <1>1. ChannelInit
    BY DEF Init
  <1>2. txs \in Seq(Transactions) /\ Len(txs) = 0
    BY <1>1, EmptySeq DEF ChannelInit
  <1> QED
    BY <1>1, <1>2 DEF ChannelInit, ChInv, ChannelType, EventsUnderTheirKeys, WrittenOnce,
                      ReceiptsOfWriters, OrderedAreThere, Calls, Idle

LEMMA EndorsedKeeps ==
    ASSUME ChInv, NEW c \in Callers, NEW key \in RecordKeys, NEW reads \in SUBSET Nat,
           NEW value \in Values, Endorsed(c, key, reads, value),
           key \in EventKeys => value \in EventRecords /\ reads = {0}
    PROVE  ChInv'
  <1> DEFINE new == [state |-> "endorsed", key |-> key, reads |-> reads, value |-> value]
  <1>1. /\ call' = [call EXCEPT ![c] = new] /\ made' = [made EXCEPT ![c] = @ + 1]
        /\ UNCHANGED <<txs, height, receipts>>
    BY DEF Endorsed
  <1>2. new \in Calls
    BY DEF Calls
  <1>3. call' \in [Callers -> Calls] /\ made' \in [Callers -> Nat]
    BY <1>1, <1>2 DEF ChInv, ChannelType
  <1>4. call'[c] = new /\ \A d \in Callers \ {c} : call'[d] = call[d]
    BY <1>1 DEF ChInv, ChannelType
  <1>5. EventsUnderTheirKeys'
    BY <1>1, <1>4 DEF ChInv, EventsUnderTheirKeys
  <1>6. OrderedAreThere'
    BY <1>1, <1>4 DEF ChInv, OrderedAreThere
  <1> QED
    BY <1>1, <1>3, <1>5, <1>6 DEF ChInv, ChannelType, WrittenOnce, ReceiptsOfWriters

LEMMA LogSecurityEventKeeps ==
    ASSUME ChInv, NEW c \in Callers, NEW p \in Peers, NEW e \in EventIds,
           NEW d \in PayloadDigests, LogSecurityEvent(c, p, e, d)
    PROVE  ChInv'
  <1>1. Version(EventKey(e), height[p]) = 0
    BY PeerFinds DEF LogSecurityEvent
  <1>2. EventRecord(c, d) \in EventRecords
    BY DEF EventRecord, EventRecords, ChInv, ChannelType
  <1>3. EventKey(e) \in RecordKeys
    BY KeyFacts
  <1> QED
    BY <1>1, <1>2, <1>3, EndorsedKeeps DEF LogSecurityEvent, Values

LEMMA AnchorKeeps ==
    ASSUME ChInv, NEW c \in Callers, NEW m \in Models, NEW v \in Provenances,
           AnchorModelProvenance(c, m, v)
    PROVE  ChInv'
  BY KeyFacts, EndorsedKeeps DEF AnchorModelProvenance, Values

(* Ordering: the transaction is valid if nobody wrote its key, and so the  *)
(* first one under it.                                                     *)
LEMMA OrderKeeps ==
    ASSUME ChInv, NEW c \in Callers, Order(c)
    PROVE  ChInv'
  <1> DEFINE n == Len(txs)
             t == [key |-> call[c].key, value |-> call[c].value,
                   valid |-> \A v \in call[c].reads : Version(call[c].key, n) = v]
             new == [state |-> "ordered", index |-> n + 1]
  <1>1. /\ call[c].state = "endorsed" /\ txs' = Append(txs, t)
        /\ call' = [call EXCEPT ![c] = new]
        /\ UNCHANGED <<height, made, receipts>>
    BY DEF Order
  <1>2. call[c] \in [state : {"endorsed"}, key : RecordKeys, reads : SUBSET Nat, value : Values]
    BY <1>1 DEF ChInv, ChannelType, Calls, Idle
  <1>3. t \in Transactions /\ n \in Nat
    BY <1>2, LenProperties DEF Transactions, ChInv, ChannelType
  <1>4. /\ txs' \in Seq(Transactions) /\ Len(txs') = n + 1
        /\ \A i \in 1 .. n : txs'[i] = txs[i]
        /\ txs'[n + 1] = t
    BY <1>1, <1>3, AppendProperties DEF ChInv, ChannelType
  <1>5. new \in Calls /\ call'[c] = new /\ \A d \in Callers \ {c} : call'[d] = call[d]
    BY <1>1, <1>3 DEF Calls, ChInv, ChannelType
  <1>6. ChannelType'
    BY <1>1, <1>3, <1>4, <1>5 DEF ChInv, ChannelType
  <1>7. t.key \in EventKeys => t.value \in EventRecords
    BY <1>1 DEF ChInv, EventsUnderTheirKeys
  <1>8. EventsUnderTheirKeys'
    <2>1. \A i \in 1 .. n + 1 : i \in 1 .. n \/ i = n + 1
      BY <1>3
    <2> QED
      BY <2>1, <1>4, <1>5, <1>7 DEF ChInv, EventsUnderTheirKeys
  <1>9. ASSUME t.valid, t.key \in EventKeys PROVE \A i \in 1 .. n : ~(txs[i].valid /\ txs[i].key = t.key)
    <2>1. call[c].reads = {0} /\ call[c].key = t.key
      BY <1>1, <1>9 DEF ChInv, EventsUnderTheirKeys
    <2>2. Version(t.key, n) = 0
      BY <1>9, <2>1
    <2>3. Writers(t.key, n) = {}
      BY <1>3, <1>9, <2>2, VersionFacts
    <2> QED
      BY <2>3 DEF Writers
  <1>10. WrittenOnce'
    <2> SUFFICES ASSUME NEW i \in 1 .. n + 1, NEW j \in 1 .. n + 1,
                        txs'[i].valid, txs'[j].valid, txs'[i].key = txs'[j].key,
                        txs'[i].key \in EventKeys
                 PROVE  i = j
      BY <1>4 DEF WrittenOnce
    <2> HIDE DEF t
    <2>1. CASE i \in 1 .. n /\ j \in 1 .. n
      BY <2>1, <1>4 DEF ChInv, WrittenOnce
    <2>2. CASE i = n + 1 /\ j \in 1 .. n
      BY <2>2, <1>4, <1>9
    <2>3. CASE j = n + 1 /\ i \in 1 .. n
      BY <2>3, <1>4, <1>9
    <2> QED
      BY <2>1, <2>2, <2>3, <1>3
  <1>11. ReceiptsOfWriters'
    <2>1. 1 .. n \subseteq 1 .. Len(txs')
      BY <1>3, <1>4
    <2> QED
      BY <2>1, <1>1, <1>4 DEF ChInv, ReceiptsOfWriters
  <1>12. OrderedAreThere'
    BY <1>3, <1>4, <1>5 DEF ChInv, OrderedAreThere
  <1> QED
    BY <1>6, <1>8, <1>10, <1>11, <1>12 DEF ChInv

LEMMA DeliverKeeps ==
    ASSUME ChInv, NEW p \in Peers, Deliver(p)
    PROVE  ChInv'
  <1>1. /\ height[p] < Len(txs) /\ height' = [height EXCEPT ![p] = @ + 1]
        /\ UNCHANGED <<txs, call, made, receipts>>
    BY DEF Deliver
  <1>2. Len(txs) \in Nat
    BY LenProperties DEF ChInv, ChannelType
  <1>3. ChannelType' /\ \A q \in Peers : height'[q] >= height[q]
    BY <1>1, <1>2 DEF ChInv, ChannelType
  <1>4. ReceiptsOfWriters'
    <2>1. \A i \in 1 .. Len(txs), q \in Peers : height[q] >= i => height'[q] >= i
      BY <1>1, <1>2, <1>3 DEF ChInv, ChannelType
    <2> QED
      BY <2>1, <1>1 DEF ChInv, ReceiptsOfWriters
  <1> QED
    BY <1>1, <1>3, <1>4 DEF ChInv, EventsUnderTheirKeys, WrittenOnce, OrderedAreThere

LEMMA AnswerKeeps ==
    ASSUME ChInv, NEW c \in Callers, Answer(c) \/ Lost(c)
    PROVE  ChInv'
  <1>1. call' = [call EXCEPT ![c] = Idle] /\ UNCHANGED <<txs, height, made>>
    BY DEF Answer, Lost
  <1>2. /\ call' \in [Callers -> Calls]
        /\ call'[c].state = "idle" /\ \A d \in Callers \ {c} : call'[d] = call[d]
    BY <1>1 DEF ChInv, ChannelType, Calls, Idle
  <1>3. ReceiptsOfWriters'
    <2>1. CASE receipts' = receipts
      BY <2>1, <1>1 DEF ChInv, ReceiptsOfWriters
    <2>2. CASE receipts' # receipts
      <3> DEFINE i == call[c].index
                 t == txs[i]
      <3>1. /\ call[c].state = "ordered" /\ \E p \in Peers : height[p] >= i
            /\ t.valid /\ t.key[2] \in EventIds /\ t.key = EventKey(t.key[2])
            /\ receipts' = receipts \cup {[event |-> t.key[2], record |-> t.value]}
        BY <2>2 DEF Answer, Lost
      <3>2. i \in 1 .. Len(txs)
        BY <3>1 DEF ChInv, OrderedAreThere
      <3> QED
        BY <3>1, <3>2, <1>1 DEF ChInv, ReceiptsOfWriters
    <2> QED
      BY <2>1, <2>2
  <1> QED
    BY <1>1, <1>2, <1>3 DEF ChInv, ChannelType, EventsUnderTheirKeys, WrittenOnce, OrderedAreThere

LEMMA NextChInv == ChInv /\ [Next]_vars => ChInv'
  <1> SUFFICES ASSUME ChInv, [Next]_vars PROVE ChInv'
    OBVIOUS
  <1>1. CASE UNCHANGED chvars
    BY <1>1 DEF chvars, ChInv, ChannelType, EventsUnderTheirKeys, WrittenOnce,
                ReceiptsOfWriters, OrderedAreThere
  <1>2. CASE ChannelStep
    BY <1>2, LogSecurityEventKeeps, AnchorKeeps, OrderKeeps, DeliverKeeps, AnswerKeeps
    DEF ChannelStep
  <1> QED
    BY <1>1, <1>2 DEF Next, Write, Disturb, Report, Cache, Channel, vars

LEMMA ChannelInvariant == Spec => []ChInv
  BY ChannelInits, NextChInv, PTL DEF Spec

(* A receipt names the record that is stored under the event: a peer that  *)
(* has the event has that record, and one has it (securitylog.go:119-138). *)
THEOREM ReceiptsAreTrue == Spec => []ReceiptsNameTheRecord
  <1>1. ASSUME ChInv PROVE ReceiptsNameTheRecord
    <2> SUFFICES ASSUME NEW r \in receipts
                 PROVE  /\ \A p \in Peers : getEvent(p, r.event) \in {NoState, r.record}
                        /\ \E p \in Peers : getEvent(p, r.event) = r.record
      BY DEF ReceiptsNameTheRecord
    <2>1. PICK i \in 1 .. Len(txs) :
             /\ r.event \in EventIds
             /\ txs[i].valid /\ txs[i].key = EventKey(r.event) /\ txs[i].value = r.record
             /\ \E p \in Peers : height[p] >= i
      BY <1>1 DEF ChInv, ReceiptsOfWriters
    <2> DEFINE k == EventKey(r.event)
    <2>2. k \in EventKeys /\ Len(txs) \in Nat /\ \A p \in Peers : height[p] \in Nat /\ height[p] <= Len(txs)
      BY <1>1, <2>1, KeyFacts, LenProperties DEF ChInv, ChannelType
    <2>3. ASSUME NEW p \in Peers, height[p] >= i PROVE getEvent(p, r.event) = r.record
      <3>1. i \in Writers(k, height[p])
        BY <2>1, <2>2, <2>3 DEF Writers
      <3> QED
        BY <1>1, <2>1, <3>1, PeerFinds
    <2>4. ASSUME NEW p \in Peers PROVE getEvent(p, r.event) \in {NoState, r.record}
      <3>1. \A j \in Writers(k, height[p]) : j = i
        BY <1>1, <2>1, <2>2 DEF Writers, ChInv, WrittenOnce
      <3>2. CASE Writers(k, height[p]) = {}
        BY <1>1, <2>1, <3>2, PeerFinds
      <3>3. CASE Writers(k, height[p]) # {}
        BY <1>1, <2>1, <3>1, <3>3, PeerFinds
      <3> QED
        BY <3>2, <3>3
    <2> QED
      BY <2>1, <2>3, <2>4
  <1> QED
    BY <1>1, ChannelInvariant, PTL

(* An answer of one peer, and one step later of the same or another one.   *)
LEMMA AnswersStay ==
    ASSUME ChInv, ChInv', Found', [Next]_vars,
           NEW p \in Peers, NEW q \in Peers, NEW e \in EventIds, getEvent(p, e) # NoState
    PROVE  /\ getEvent(q, e)' # NoState => getEvent(p, e) = getEvent(q, e)'
           /\ getEvent(p, e)' = getEvent(p, e)
  <1> DEFINE k == EventKey(e)
  <1>1. /\ k \in EventKeys /\ Len(txs) \in Nat
        /\ Len(txs') \in Nat /\ Len(txs') >= Len(txs)
        /\ \A i \in 1 .. Len(txs) : txs'[i] = txs[i]
        /\ \A x \in Peers : height[x] \in Nat /\ height'[x] \in Nat /\ height'[x] >= height[x]
    <2>1. CASE UNCHANGED <<txs, height>>
      BY <2>1, KeyFacts, LenProperties DEF ChInv, ChannelType
    <2>2. CASE \E c \in Callers : Order(c)
      <3>1. PICK t : txs' = Append(txs, t) /\ height' = height
        BY <2>2 DEF Order
      <3>2. t \in Transactions
        <4>1. txs' \in Seq(Transactions) /\ txs \in Seq(Transactions)
          BY DEF ChInv, ChannelType
        <4> QED
          BY <3>1, <4>1, AppendProperties, ElementOfSeq, LenProperties
      <3> QED
        BY <3>1, <3>2, KeyFacts, LenProperties, AppendProperties DEF ChInv, ChannelType
    <2>3. CASE \E x \in Peers : Deliver(x)
      <3>1. PICK x \in Peers : txs' = txs /\ height' = [height EXCEPT ![x] = @ + 1]
        BY <2>3 DEF Deliver
      <3> QED
        BY <3>1, KeyFacts, LenProperties DEF ChInv, ChannelType
    <2> QED
      BY <2>1, <2>2, <2>3 DEF Next, Write, Disturb, Report, Cache, Channel, ChannelStep, vars, chvars,
         LogSecurityEvent, AnchorModelProvenance, Endorsed, Answer, Lost
  <1>2. PICK i \in Writers(k, height[p]) : getEvent(p, e) = txs[i].value
    BY PeerFinds
  <1>3. i \in 1 .. Len(txs) /\ txs[i].valid /\ txs[i].key = k /\ i <= height[p]
    BY <1>1, <1>2 DEF Writers, ChInv, ChannelType
  <1>4. getEvent(p, e)' = txs[i].value
    <2>1. i \in Writers(k, height[p])'
      BY <1>1, <1>3 DEF Writers, EventKey
    <2>2. getEvent(p, e)' = txs'[i].value
      BY <2>1 DEF Found
    <2> QED
      BY <2>2, <1>1, <1>3
  <1>5. ASSUME getEvent(q, e)' # NoState PROVE getEvent(q, e)' = txs[i].value
    <2>1. Writers(k, height[q])' # {}
      BY <1>5 DEF Found
    <2>2. PICK j \in Writers(k, height[q])' : getEvent(q, e)' = txs'[j].value
      BY <2>1 DEF Found
    <2>3. j \in 1 .. Len(txs') /\ txs'[j].valid /\ txs'[j].key = k
      BY <1>1, <2>2 DEF Writers, EventKey, ChInv, ChannelType
    <2>4. i \in 1 .. Len(txs') /\ txs'[i].valid /\ txs'[i].key = k
      BY <1>1, <1>3
    <2>5. i = j
      BY <1>1, <2>3, <2>4 DEF ChInv, WrittenOnce
    <2> QED
      BY <2>2, <2>5, <1>1, <1>3
  <1> QED
    BY <1>2, <1>4, <1>5

(* No two answers about an event contradict each other, whichever peers    *)
(* give them and however far those are, and no peer takes an answer back   *)
(* or drops it from its history (securitylog.go:142-218).                  *)
THEOREM VerdictsNeverClash == Spec => VerdictsAgree
  <1>1. ASSUME ChInv, ChInv', Found', [Next]_vars
        PROVE  [/\ \A p, q \in Peers, e \in EventIds :
                      getEvent(p, e) # NoState /\ getEvent(q, e)' # NoState =>
                          getEvent(p, e) = getEvent(q, e)'
                /\ \A p \in Peers : QueryEventHistory(p) \subseteq QueryEventHistory(p)']_chvars
    <2>1. \A p, q \in Peers, e \in EventIds :
             getEvent(p, e) # NoState /\ getEvent(q, e)' # NoState =>
                 getEvent(p, e) = getEvent(q, e)'
      BY <1>1, AnswersStay
    <2>2. ASSUME NEW p \in Peers PROVE QueryEventHistory(p) \subseteq QueryEventHistory(p)'
      <3>1. \A e \in EventIds : getEvent(p, e) # NoState => getEvent(p, e)' = getEvent(p, e)
        BY <1>1, <2>2, AnswersStay
      <3> QED
        BY <3>1 DEF QueryEventHistory
    <2> QED
      BY <2>1, <2>2
  <1>2. ChInv' => Found'
    BY PeersFind, PTL
  <1> QED
    BY <1>1, <1>2, ChannelInvariant, PTL DEF Spec, VerdictsAgree

-----------------------------------------------------------------------------
(* The channel as an append-only log.                                      *)

LoggedIds == [i \in DOMAIN txs |-> txs[i].key[2]]
LoggedAt == {i \in DOMAIN txs : IsLogged(txs[i])}

LEMMA KeyParts ==
    /\ \A k \in EventKeys : k[1] = "EVENT~" /\ k[2] \in EventIds /\ k = EventKey(k[2])
    /\ \A k \in RecordKeys : k[2] \in EventIds \cup Models
    /\ \A k \in RecordKeys : k[1] = "EVENT~" => k \in EventKeys
    /\ \A e : EventKey(e)[1] = "EVENT~"
  <1>1. \A k \in EventKeys : k[1] = "EVENT~" /\ k[2] \in EventIds /\ k = EventKey(k[2])
    BY DEF EventKeys, EventKey
  <1>2. ASSUME NEW k \in RecordKeys
        PROVE  k[2] \in EventIds \cup Models /\ (k[1] = "EVENT~" => k \in EventKeys)
    <2>1. CASE k \in EventKeys
      BY <1>1, <2>1
    <2>2. CASE k \notin EventKeys
      <3>1. PICK m \in Models : k = ProvenanceKey(m)
        BY <2>2 DEF RecordKeys
      <3>2. k[1] = "PROVENANCE~" /\ k[2] = m
        BY <3>1 DEF ProvenanceKey
      <3> QED
        BY <3>2
    <2> QED
      BY <2>1, <2>2
  <1> QED
    BY <1>1, <1>2 DEF EventKey

LEMMA LoggedFacts ==
    ASSUME ChannelType
    PROVE  /\ LoggedIds \in Seq(EventIds \cup Models) /\ Len(LoggedIds) = Len(txs)
           /\ DOMAIN txs = 1 .. Len(txs) /\ Len(txs) \in Nat
           /\ \A i \in 1 .. Len(txs) : LoggedIds[i] = txs[i].key[2]
           /\ \A i \in 1 .. Len(txs) : i \in LoggedAt <=> txs[i].valid /\ txs[i].key \in EventKeys
  <1>1. /\ DOMAIN txs = 1 .. Len(txs) /\ Len(txs) \in Nat
        /\ \A i \in 1 .. Len(txs) : txs[i] \in Transactions
    BY LenProperties, ElementOfSeq DEF ChannelType
  <1>2. \A i \in 1 .. Len(txs) : txs[i].key \in RecordKeys
    BY <1>1 DEF Transactions
  <1>3. \A i \in 1 .. Len(txs) : txs[i].key[2] \in EventIds \cup Models
    <2> TAKE i \in 1 .. Len(txs)
    <2> PICK k \in RecordKeys : k = txs[i].key
      BY <1>2
    <2>1. k[2] \in EventIds \cup Models
      BY KeyParts
    <2> QED
      BY <2>1
  <1>4. LoggedIds \in [1 .. Len(txs) -> EventIds \cup Models]
    BY <1>1, <1>3 DEF LoggedIds
  <1>5. LoggedIds \in Seq(EventIds \cup Models)
    BY <1>1, <1>4, SeqDef
  <1>6. DOMAIN LoggedIds = 1 .. Len(LoggedIds) /\ Len(LoggedIds) \in Nat
    BY <1>5, LenProperties
  <1>7. Len(LoggedIds) = Len(txs)
    BY <1>1, <1>4, <1>6
  <1>8. ASSUME NEW i \in 1 .. Len(txs)
        PROVE  i \in LoggedAt <=> txs[i].valid /\ txs[i].key \in EventKeys
    <2>1. IsLogged(txs[i]) <=> txs[i].valid /\ txs[i].key[1] = "EVENT~"
      BY KeyParts DEF IsLogged
    <2>2. txs[i].key[1] = "EVENT~" <=> txs[i].key \in EventKeys
      <3> PICK k \in RecordKeys : k = txs[i].key
        BY <1>2
      <3>1. k[1] = "EVENT~" <=> k \in EventKeys
        BY KeyParts
      <3> QED
        BY <3>1
    <2> QED
      BY <2>1, <2>2, <1>1 DEF LoggedAt
  <1> QED
    BY <1>1, <1>5, <1>7, <1>8 DEF LoggedIds

LEMMA LoggedIsSelected == LoggedEvents = Selected(LoggedIds, LoggedAt)
  BY DEF LoggedEvents, LoggedIds, LoggedAt

LEMMA OnTheChannel ==
    ASSUME ChannelType
    PROVE  /\ LoggedEvents \in Seq(EventIds \cup Models)
           /\ \A k \in 1 .. Len(LoggedEvents) : \E i \in 1 .. Len(txs) :
                 txs[i].valid /\ txs[i].key \in EventKeys /\ txs[i].key[2] = LoggedEvents[k]
  <1> DEFINE s == LoggedIds
             I == LoggedAt
  <1>1. s \in Seq(EventIds \cup Models)
    BY LoggedFacts
  <1> HIDE DEF s, I
  <1>2. /\ Selected(s, I) \in Seq(EventIds \cup Models)
        /\ \A k \in 1 .. Len(Selected(s, I)) :
              \E i \in 1 .. Len(s) : i \in I /\ Selected(s, I)[k] = s[i]
    BY <1>1, SelectedItems
  <1>3. LoggedEvents = Selected(s, I)
    BY LoggedIsSelected DEF s, I
  <1>4. ASSUME NEW k \in 1 .. Len(LoggedEvents)
        PROVE  \E i \in 1 .. Len(txs) :
                 txs[i].valid /\ txs[i].key \in EventKeys /\ txs[i].key[2] = LoggedEvents[k]
    <2>1. PICK i \in 1 .. Len(s) : i \in I /\ LoggedEvents[k] = s[i]
      BY <1>2, <1>3
    <2> QED
      BY <2>1, LoggedFacts DEF s, I
  <1> QED
    BY <1>2, <1>3, <1>4

(* Ordering a call appends its event to the log, if it is the first valid  *)
(* one under its key, and otherwise leaves the log alone.                  *)
LEMMA OrderImplementsLog ==
    ASSUME ChInv, ChInv', NEW c \in Callers, Order(c)
    PROVE  [Log!Next]_(Log!lvars)
  <1> DEFINE n == Len(txs)
             t == [key |-> call[c].key, value |-> call[c].value,
                   valid |-> \A v \in call[c].reads : Version(call[c].key, n) = v]
             e == t.key[2]
             s == LoggedIds
             u == LoggedIds'
             I == LoggedAt
             J == LoggedAt'
             T == EventIds \cup Models
  <1>1. /\ call[c].state = "endorsed" /\ txs' = Append(txs, t)
        /\ call[c] \in [state : {"endorsed"}, key : RecordKeys, reads : SUBSET Nat, value : Values]
    BY DEF Order, ChInv, ChannelType, Calls, Idle
  <1>2. t \in Transactions /\ n \in Nat /\ txs \in Seq(Transactions)
    BY <1>1, LenProperties DEF Transactions, ChInv, ChannelType
  <1>3. /\ Len(txs') = n + 1 /\ txs'[n + 1] = t
        /\ \A i \in 1 .. n : txs'[i] = txs[i]
    BY <1>1, <1>2, AppendFacts
  <1>4. e \in T /\ t.key \in RecordKeys
    <2> HIDE DEF t
    <2> PICK k \in RecordKeys : k = t.key
      BY <1>2 DEF Transactions
    <2>1. k[2] \in T
      BY KeyParts
    <2> QED
      BY <2>1
  <1> HIDE DEF t, T
  <1>5. /\ s \in Seq(T) /\ Len(s) = n
        /\ \A i \in 1 .. n : s[i] = txs[i].key[2]
        /\ \A i \in 1 .. n : i \in I <=> txs[i].valid /\ txs[i].key \in EventKeys
    BY LoggedFacts DEF ChInv, T
  <1>6. /\ u \in Seq(T) /\ Len(u) = n + 1
        /\ \A i \in 1 .. n + 1 : u[i] = txs'[i].key[2]
        /\ \A i \in 1 .. n + 1 : i \in J <=> txs'[i].valid /\ txs'[i].key \in EventKeys
    <2>1. (/\ LoggedIds \in Seq(EventIds \cup Models) /\ Len(LoggedIds) = Len(txs)
           /\ \A i \in 1 .. Len(txs) : LoggedIds[i] = txs[i].key[2]
           /\ \A i \in 1 .. Len(txs) : i \in LoggedAt <=> txs[i].valid /\ txs[i].key \in EventKeys)'
      BY LoggedFacts, PTL DEF ChInv
    <2> QED
      BY <2>1, <1>3 DEF T
  <1>7. LoggedEvents = Selected(s, I) /\ LoggedEvents' = Selected(u, J)
    BY LoggedIsSelected DEF LoggedEvents, LoggedIds, LoggedAt
  <1> HIDE DEF s, u, I, J
  <1>8. /\ \A i \in 1 .. n : i \in 1 .. n + 1 /\ (i \in I <=> i \in J)
        /\ n + 1 \in 1 .. n + 1
        /\ n + 1 \in J <=> t.valid /\ t.key \in EventKeys
    BY <1>2, <1>3, <1>5, <1>6
  <1>9. u = Append(s, e)
    <2>1. /\ Append(s, e) \in Seq(T) /\ Len(Append(s, e)) = n + 1
          /\ \A i \in 1 .. n : Append(s, e)[i] = s[i]
          /\ Append(s, e)[n + 1] = e
      BY <1>4, <1>5, AppendFacts
    <2>2. \A i \in 1 .. n + 1 : i = n + 1 \/ i \in 1 .. n
      BY <1>2
    <2>3. \A i \in 1 .. n + 1 : u[i] = Append(s, e)[i]
      BY <2>1, <2>2, <1>3, <1>5, <1>6
    <2> QED
      BY <2>1, <2>3, <1>6, SeqEqual
  <1>10. LoggedEvents' = IF n + 1 \in J THEN Append(LoggedEvents, e) ELSE LoggedEvents
    <2>1. \A i \in 1 .. Len(s) : i \in I <=> i \in J
      BY <1>5, <1>8
    <2> HIDE DEF e
    <2>2. Selected(Append(s, e), J) =
              IF Len(s) + 1 \in J THEN Append(Selected(s, I), e) ELSE Selected(s, I)
      BY <1>4, <1>5, <2>1, SelectedAppend
    <2> QED
      BY <2>2, <1>5, <1>7, <1>9
  <1>11. CASE ~(t.valid /\ t.key \in EventKeys)
    <2>1. LoggedEvents' = LoggedEvents
      BY <1>8, <1>10, <1>11
    <2> QED
      BY <2>1 DEF Log!lvars
  <1>12. CASE t.valid /\ t.key \in EventKeys
    <2>1. LoggedEvents' = Append(LoggedEvents, e)
      BY <1>8, <1>10, <1>12
    <2>2. e \in EventIds /\ t.key = EventKey(e)
      BY <1>12, KeyParts
    <2>3. /\ LoggedEvents \in Seq(T)
          /\ \A k \in 1 .. Len(LoggedEvents) : \E i \in 1 .. n :
                txs[i].valid /\ txs[i].key \in EventKeys /\ txs[i].key[2] = LoggedEvents[k]
      BY OnTheChannel DEF ChInv, T
    <2>4. \A k \in 1 .. Len(LoggedEvents) : LoggedEvents[k] # e
      <3> SUFFICES ASSUME NEW k \in 1 .. Len(LoggedEvents), LoggedEvents[k] = e PROVE FALSE
        OBVIOUS
      <3>1. PICK i \in 1 .. n : txs[i].valid /\ txs[i].key \in EventKeys /\ txs[i].key[2] = e
        BY <2>3
      <3>2. txs[i].key = t.key
        BY <2>2, <3>1, KeyParts
      <3>3. i \in 1 .. Len(txs') /\ n + 1 \in 1 .. Len(txs') /\ i # n + 1
        BY <1>2, <1>3
      <3>4. txs'[i] = txs[i] /\ txs'[n + 1] = t
        BY <1>3
      <3> QED
        BY <3>1, <3>2, <3>3, <3>4, <1>12 DEF ChInv, WrittenOnce
    <2>5. /\ DOMAIN LoggedEvents = 1 .. Len(LoggedEvents) /\ Len(LoggedEvents) \in Nat
          /\ DOMAIN LoggedEvents' = 1 .. Len(LoggedEvents) + 1
          /\ \A k \in 1 .. Len(LoggedEvents) : LoggedEvents'[k] = LoggedEvents[k]
          /\ LoggedEvents'[Len(LoggedEvents) + 1] = e
      BY <2>1, <2>3, <1>4, AppendFacts
    <2>6. {LoggedEvents'[k] : k \in DOMAIN LoggedEvents'}
              = {LoggedEvents[k] : k \in DOMAIN LoggedEvents} \cup {e}
      <3> DEFINE a == LoggedEvents
                 b == LoggedEvents'
                 m == Len(a)
      <3>1. /\ DOMAIN a = 1 .. m /\ m \in Nat /\ DOMAIN b = 1 .. m + 1
            /\ \A k \in 1 .. m : b[k] = a[k]
            /\ b[m + 1] = e
        BY <2>5
      <3> HIDE DEF a, b, m, e
      <3>2. 1 .. m + 1 = (1 .. m) \cup {m + 1}
        BY <3>1
      <3>3. {b[k] : k \in DOMAIN b} = {a[k] : k \in DOMAIN a} \cup {e}
        BY <3>1, <3>2
      <3> QED
        BY <3>3 DEF a, b
    <2> PICK x \in EventIds : x = e
      BY <2>2
    <2>7. Log!Acknowledge(x)
      BY <2>1, <2>4, <2>5, <2>6 DEF Log!Acknowledge, Log!OnLog
    <2> QED
      BY <2>7 DEF Log!Next
  <1> QED
    BY <1>11, <1>12

(* What is ordered with success is on the channel for good, each event     *)
(* once, although calls for one id are simulated side by side, on peers    *)
(* that are behind, and repeated (securitylog.go:94-138).                  *)
THEOREM ChannelImplementsLog == Spec => ChannelIsAppendOnlyLog
  <1>1. Init => Log!Init
    <2> SUFFICES ASSUME Init PROVE Log!Init
      OBVIOUS
    <2>1. txs = <<>>
      BY DEF Init, ChannelInit
    <2>2. LoggedIds = <<>>
      BY <2>1 DEF LoggedIds
    <2>3. LoggedEvents = <<>>
      BY <2>2, LoggedIsSelected, SelectedEmpty
    <2> QED
      BY <2>3 DEF Log!Init
  <1>2. ChInv /\ ChInv' /\ [Next]_vars => [Log!Next]_(Log!lvars)
    <2> SUFFICES ASSUME ChInv, ChInv', [Next]_vars PROVE [Log!Next]_(Log!lvars)
      OBVIOUS
    <2>1. CASE UNCHANGED txs
      <3>1. LoggedEvents' = LoggedEvents
        BY <2>1 DEF LoggedEvents, IsLogged, EventKey
      <3> QED
        BY <3>1 DEF Log!lvars
    <2>2. ASSUME NEW c \in Callers, Order(c) PROVE [Log!Next]_(Log!lvars)
      BY <2>2, OrderImplementsLog
    <2> QED
      BY <2>1, <2>2
      DEF Next, Write, Disturb, Report, Cache, Channel, vars, chvars, ChannelStep,
          LogSecurityEvent, AnchorModelProvenance, Endorsed, Answer, Lost, Deliver
  <1> QED
    BY <1>1, <1>2, ChannelInvariant, PTL DEF Spec, ChannelIsAppendOnlyLog, Log!Spec

-----------------------------------------------------------------------------
(* The evidence store, and the auditor over it.                            *)

(* The inductive invariant.                                                *)

Steps == {"idle", "put", "open", "write", "replace", "log", "done", "raised"}
Active(a) == attempt[a].at \in {"write", "replace"}

StoreType ==
    /\ attempt \in [Attempts -> [at : Steps, inode : Attempts \cup {None}, undisturbed : BOOLEAN]]
    /\ tmp \in [Events -> Attempts \cup {None}]
    /\ path \in [Events -> Attempts \cup {None}]
    /\ content \in [Attempts -> Contents \cup {None}]
    /\ log \subseteq Events

(* An inode belongs to the event of the attempt that made it, and has one  *)
(* name at most.                                                           *)
Inodes ==
    /\ \A e \in Events : \A f \in {tmp[e], path[e]} \ {None} : EventOf[f] = e /\ content[f] # None
    /\ \A e \in Events : tmp[e] # None => tmp[e] # path[e]
    /\ \A a \in Attempts : Active(a) => /\ attempt[a].inode \in Attempts
                                        /\ EventOf[attempt[a].inode] = EventOf[a]
    /\ \A a \in Attempts : At(a, "write") => content[attempt[a].inode] \in {"torn", "whole"}
    /\ \A a \in Attempts : attempt[a].at \in {"idle", "put", "open"} =>
          /\ attempt[a].undisturbed
          /\ tmp[EventOf[a]] # a /\ path[EventOf[a]] # a
          /\ \A b \in Attempts : Active(b) => attempt[b].inode # a

(* Who truncated an inode last will make it whole, or it stays torn.       *)
TornForAReason ==
    \A f \in Attempts :
        /\ content[f] = "torn" =>
              \/ EventOf[f] \in cut \cup emptied
              \/ \E a \in Attempts : At(a, "write") /\ attempt[a].inode = f /\ attempt[a].undisturbed
        /\ content[f] \in {"edited", "forged"} => EventOf[f] \in altered

StoredFirst ==
    /\ \A a \in Attempts : attempt[a].at \in {"log", "done"} => path[EventOf[a]] # None
    /\ \A e \in log : path[e] # None

(* As long as no two attempts shared a temporary file, one is at work on   *)
(* it, and what it publishes is whole.                                     *)
OneAtWork ==
    \A e \in Events \ shared :
        /\ \A a, b \in Attempts :
              Active(a) /\ Active(b) /\ EventOf[a] = e /\ EventOf[b] = e => a = b
        /\ \A a \in Attempts : Active(a) /\ EventOf[a] = e =>
              /\ attempt[a].inode = tmp[e] /\ attempt[a].undisturbed
              /\ At(a, "replace") => content[tmp[e]] = "whole"
        /\ path[e] # None /\ content[path[e]] = "torn" => e \in emptied

SInv == StoreType /\ Inodes /\ TornForAReason /\ StoredFirst /\ OneAtWork

(* What was changed before the report began is not written again.          *)
ReportInv ==
    /\ history = None => \A e \in Events : findings[e] = None
    /\ history # None => history \subseteq log
    /\ findings \in [Events -> Verdicts \cup {None}]
    /\ \A e \in before :
          /\ e \in Events /\ Evidence(e) \in {"edited", "forged"}
          /\ \A a \in Attempts : EventOf[a] = e => attempt[a].at \notin {"open", "write", "replace"}
    /\ ReportIsJust

-----------------------------------------------------------------------------
(* Every step keeps the invariant of the store.                            *)

(* An attempt goes on, and leaves what it knows of its inode alone.        *)
LEMMA Goes ==
    ASSUME StoreType, NEW a \in Attempts, NEW s \in Steps, GoTo(a, s)
    PROVE  /\ attempt' \in [Attempts -> [at : Steps, inode : Attempts \cup {None}, undisturbed : BOOLEAN]]
           /\ attempt'[a].at = s
           /\ \A b \in Attempts \ {a} : attempt'[b] = attempt[b]
           /\ \A b \in Attempts : /\ attempt'[b].inode = attempt[b].inode
                                  /\ attempt'[b].undisturbed = attempt[b].undisturbed
  BY DEF StoreType, GoTo

LEMMA InitSInv == Init => SInv
  <1> SUFFICES ASSUME Init PROVE SInv
    OBVIOUS
  <1>1. /\ None \notin Attempts /\ None \notin Contents
        /\ \A a \in Attempts : EventOf[a] \in Events
    BY StoreAssumption
  <1>2. CASE StoreInit
    BY <1>1, <1>2 DEF StoreInit, NotStarted, SInv, StoreType, Inodes, TornForAReason, StoredFirst,
                      OneAtWork, Steps, Active, At, Contents
  <1>3. CASE Stored
    <2>1. \A e \in Events : path[e] \in Attempts /\ EventOf[path[e]] = e
      BY <1>3, StoreAssumption DEF Stored
    <2>2. \A a \in Attempts : /\ attempt[a] = [at |-> "log", inode |-> None, undisturbed |-> TRUE]
                              /\ content[a] = "whole"
      BY <1>3 DEF Stored, NotStarted
    <2>3. /\ attempt = [a \in Attempts |-> attempt[a]]
          /\ path = [e \in Events |-> path[e]] /\ tmp = [e \in Events |-> None]
          /\ content = [a \in Attempts |-> content[a]] /\ log = {}
      BY <1>3 DEF Stored
    <2>4. StoreType
      <3>1. attempt \in [Attempts -> [at : Steps, inode : Attempts \cup {None}, undisturbed : BOOLEAN]]
        BY <1>3 DEF Stored, NotStarted, Steps
      <3>2. content \in [Attempts -> Contents \cup {None}] /\ tmp \in [Events -> Attempts \cup {None}]
        BY <1>3 DEF Stored, Contents
      <3>3. path \in [Events -> Attempts \cup {None}]
        BY <2>1, <2>3
      <3> QED
        BY <2>3, <3>1, <3>2, <3>3 DEF StoreType
    <2>5. Inodes /\ TornForAReason /\ StoredFirst /\ OneAtWork
      BY <2>1, <2>2, <2>3, <1>1 DEF Inodes, TornForAReason, StoredFirst, OneAtWork, Active, At, Contents
    <2> QED
      BY <2>4, <2>5 DEF SInv
  <1> QED
    BY <1>2, <1>3 DEF Init

(* Steps that look but do not touch files.                                 *)
LEMMA MovesKeep ==
    ASSUME SInv, NEW a \in Attempts, StartAttempt(a) \/ IsFile(a) \/ LogEvent(a)
    PROVE  SInv'
  <1>1. /\ UNCHANGED <<tmp, path, content, shared, cut, emptied, altered>>
        /\ attempt[a].at \in {"idle", "put", "log"}
        /\ \E s \in {"put", "log", "open", "done"} :
              /\ GoTo(a, s)
              /\ s \in {"log", "done"} => path[EventOf[a]] # None
              /\ s \in {"open", "put"} => attempt[a].at \in {"idle", "put"}
        /\ log' \in {log, log \cup {EventOf[a]}}
        /\ log' # log => path[EventOf[a]] # None
    BY DEF SInv, StoreType, StoredFirst, StartAttempt, IsFile, LogEvent, At
  <1>2. PICK s \in {"put", "log", "open", "done"} :
              /\ GoTo(a, s)
              /\ s \in {"log", "done"} => path[EventOf[a]] # None
              /\ s \in {"open", "put"} => attempt[a].at \in {"idle", "put"}
    BY <1>1
  <1>3. /\ attempt' \in [Attempts -> [at : Steps, inode : Attempts \cup {None}, undisturbed : BOOLEAN]]
        /\ attempt'[a].at = s
        /\ \A b \in Attempts \ {a} : attempt'[b] = attempt[b]
        /\ \A b \in Attempts : /\ attempt'[b].inode = attempt[b].inode
                               /\ attempt'[b].undisturbed = attempt[b].undisturbed
    BY <1>2, Goes DEF SInv, Steps
  <1>4. EventOf[a] \in Events
    BY StoreAssumption
  <1>5. \A b \in Attempts : Active(b)' <=> Active(b)
    BY <1>1, <1>2, <1>3 DEF Active
  <1>6. \A b \in Attempts : /\ At(b, "write")' <=> At(b, "write")
                            /\ At(b, "replace")' <=> At(b, "replace")
    BY <1>1, <1>2, <1>3 DEF At
  <1>7. StoreType'
    BY <1>1, <1>3, <1>4 DEF SInv, StoreType
  <1>8. Inodes'
    <2>1. \A b \in Attempts : attempt'[b].at \in {"idle", "put", "open"} =>
                                 attempt[b].at \in {"idle", "put", "open"}
      BY <1>1, <1>2, <1>3
    <2> QED
      BY <2>1, <1>1, <1>3, <1>5, <1>6 DEF SInv, Inodes
  <1>9. TornForAReason'
    BY <1>1, <1>3, <1>6 DEF SInv, TornForAReason
  <1>10. StoredFirst'
    BY <1>1, <1>2, <1>3 DEF SInv, StoredFirst
  <1>11. OneAtWork'
    BY <1>1, <1>3, <1>5, <1>6 DEF SInv, OneAtWork
  <1> QED
    BY <1>7, <1>8, <1>9, <1>10, <1>11 DEF SInv

LEMMA OpenKeeps ==
    ASSUME SInv, NEW a \in Attempts, OpenTemporary(a)
    PROVE  SInv'
  <1> DEFINE e == EventOf[a]
             f == IF tmp[e] = None THEN a ELSE tmp[e]
  <1>1. /\ attempt[a].at = "open" /\ e \in Events /\ None \notin Attempts
        /\ tmp' = [tmp EXCEPT ![e] = f] /\ content' = [content EXCEPT ![f] = "torn"]
        /\ attempt' = [b \in Attempts |->
               IF b = a THEN [attempt[a] EXCEPT !.at = "write", !.inode = f]
               ELSE IF b \in Beside(a, f) THEN [attempt[b] EXCEPT !.undisturbed = FALSE]
               ELSE attempt[b]]
        /\ shared' = IF tmp[e] # None /\ \E b \in Attempts \ {a} :
                            EventOf[b] = e /\ attempt[b].at \in {"write", "replace"}
                     THEN shared \cup {e} ELSE shared
        /\ UNCHANGED <<path, log, cut, emptied, altered>>
    BY StoreAssumption DEF OpenTemporary, At
  <1>2. f \in Attempts /\ EventOf[f] = e /\ f # path[e]
    BY <1>1 DEF SInv, StoreType, Inodes
  <1> HIDE DEF f
  <1>3. \A b \in Attempts :
           /\ b = a => /\ attempt'[b].at = "write" /\ attempt'[b].inode = f
                       /\ attempt'[b].undisturbed = attempt[b].undisturbed
           /\ b # a => /\ attempt'[b].at = attempt[b].at /\ attempt'[b].inode = attempt[b].inode
                       /\ (At(b, "write") => attempt[b].inode # f) => attempt'[b] = attempt[b]
    BY <1>1, <1>2 DEF SInv, StoreType, Beside
  <1>4. /\ content'[f] = "torn" /\ \A g \in Attempts \ {f} : content'[g] = content[g]
        /\ tmp'[e] = f /\ \A d \in Events \ {e} : tmp'[d] = tmp[d]
    BY <1>1, <1>2 DEF SInv, StoreType
  <1>5. attempt[a].undisturbed /\ (tmp[e] = None => f = a)
    BY <1>1 DEF SInv, Inodes, f
  <1>6. StoreType'
    BY <1>1, <1>2, ZenonT(30) DEF SInv, StoreType, Steps, Contents, Beside
  <1>7. Inodes'
    <2>1. \A d \in Events : \A g \in {tmp'[d], path[d]} \ {None} :
             g \in Attempts /\ EventOf[g] = d /\ content'[g] # None
      BY <1>1, <1>2, <1>4, StoreAssumption DEF SInv, StoreType, Inodes, Contents
    <2>2. \A d \in Events : tmp'[d] # None => tmp'[d] # path[d]
      BY <1>1, <1>2, <1>4 DEF SInv, Inodes
    <2>3. \A b \in Attempts : Active(b)' => /\ attempt'[b].inode \in Attempts
                                            /\ EventOf[attempt'[b].inode] = EventOf[b]
      BY <1>2, <1>3 DEF SInv, Inodes, Active
    <2>4. \A b \in Attempts : At(b, "write")' => content'[attempt'[b].inode] \in {"torn", "whole"}
      BY <1>2, <1>3, <1>4, <2>3 DEF SInv, Inodes, Active, At
    <2>5. ASSUME NEW b \in Attempts, attempt'[b].at \in {"idle", "put", "open"}
          PROVE  /\ attempt'[b].undisturbed
                 /\ tmp'[EventOf[b]] # b /\ path[EventOf[b]] # b
                 /\ \A c \in Attempts : Active(c)' => attempt'[c].inode # b
      <3>1. b # a /\ attempt[b].at \in {"idle", "put", "open"}
        BY <1>3, <2>5
      <3>2. f # b
        BY <3>1, <1>1, <1>2 DEF SInv, Inodes, f
      <3>3. /\ attempt[b].undisturbed /\ tmp[EventOf[b]] # b /\ path[EventOf[b]] # b
            /\ \A c \in Attempts : Active(c) => attempt[c].inode # b
        BY <3>1 DEF SInv, Inodes
      <3>4. attempt'[b].undisturbed
        BY <3>1, <3>3, <1>3 DEF At
      <3>5. tmp'[EventOf[b]] # b
        BY <3>2, <3>3, <1>4, StoreAssumption
      <3>6. \A c \in Attempts : Active(c)' => attempt'[c].inode # b
        BY <3>2, <3>3, <1>3 DEF Active
      <3> QED
        BY <3>3, <3>4, <3>5, <3>6
    <2> QED
      BY <1>1, <2>1, <2>2, <2>3, <2>4, <2>5 DEF Inodes
  <1>8. TornForAReason'
    <2> SUFFICES ASSUME NEW g \in Attempts
                 PROVE  /\ content'[g] = "torn" =>
                              \/ EventOf[g] \in cut \cup emptied
                              \/ \E b \in Attempts : /\ At(b, "write")' /\ attempt'[b].inode = g
                                                     /\ attempt'[b].undisturbed
                        /\ content'[g] \in {"edited", "forged"} => EventOf[g] \in altered
      BY <1>1 DEF TornForAReason
    <2>1. CASE g = f
      BY <2>1, <1>3, <1>4, <1>5 DEF At
    <2>2. CASE g # f
      <3>1. content'[g] = content[g]
        BY <2>2, <1>4
      <3>2. ASSUME NEW b \in Attempts, At(b, "write"), attempt[b].inode = g, attempt[b].undisturbed
            PROVE  attempt'[b] = attempt[b]
        BY <2>2, <3>2, <1>1, <1>3 DEF At
      <3>3. ASSUME NEW b \in Attempts, At(b, "write"), attempt[b].inode = g, attempt[b].undisturbed
            PROVE  At(b, "write")' /\ attempt'[b].inode = g /\ attempt'[b].undisturbed
        BY <3>2, <3>3 DEF At
      <3>4. /\ content[g] = "torn" =>
                  \/ EventOf[g] \in cut \cup emptied
                  \/ \E b \in Attempts : At(b, "write") /\ attempt[b].inode = g /\ attempt[b].undisturbed
            /\ content[g] \in {"edited", "forged"} => EventOf[g] \in altered
        BY DEF SInv, TornForAReason
      <3> QED
        BY <3>1, <3>3, <3>4
    <2> QED
      BY <2>1, <2>2
  <1>9. StoredFirst'
    BY <1>1, <1>3 DEF SInv, StoredFirst
  <1>10. OneAtWork'
    <2> SUFFICES ASSUME NEW d \in Events \ shared'
                 PROVE  /\ \A b, c \in Attempts :
                              Active(b)' /\ Active(c)' /\ EventOf[b] = d /\ EventOf[c] = d => b = c
                        /\ \A b \in Attempts : Active(b)' /\ EventOf[b] = d =>
                              /\ attempt'[b].inode = tmp'[d] /\ attempt'[b].undisturbed
                              /\ At(b, "replace")' => content'[tmp'[d]] = "whole"
                        /\ path[d] # None /\ content'[path[d]] = "torn" => d \in emptied
      BY <1>1 DEF OneAtWork
    <2>1. d \notin shared
      BY <1>1
    <2>2. CASE d = e
      <3>1. \A b \in Attempts \ {a} : ~(Active(b) /\ EventOf[b] = e)
        <4>1. tmp[e] = None \/ \A b \in Attempts \ {a} : ~(Active(b) /\ EventOf[b] = e)
          BY <2>2, <1>1 DEF Active
        <4>2. tmp[e] = None => \A b \in Attempts : ~(Active(b) /\ EventOf[b] = e)
          BY <2>1, <2>2, <1>1 DEF SInv, OneAtWork, Inodes
        <4> QED
          BY <4>1, <4>2
      <3>2. \A b \in Attempts \ {a} : ~(Active(b)' /\ EventOf[b] = e)
        BY <3>1, <1>3 DEF Active
      <3>3. path[e] # None => content'[path[e]] = content[path[e]]
        BY <1>1, <1>2, <1>4 DEF SInv, StoreType
      <3> QED
        BY <2>1, <2>2, <3>2, <3>3, <1>1, <1>3, <1>4, <1>5 DEF SInv, OneAtWork, At
    <2>3. CASE d # e
      <3>1. \A b \in Attempts : EventOf[b] = d => attempt'[b].at = attempt[b].at
                                                  /\ attempt'[b].inode = attempt[b].inode
        BY <2>3, <1>3
      <3>2. ASSUME NEW b \in Attempts, EventOf[b] = d, Active(b)
            PROVE  attempt'[b] = attempt[b]
        <4>1. attempt[b].inode # f /\ b # a
          BY <3>2, <2>3, <1>2 DEF SInv, Inodes
        <4> QED
          BY <4>1, <1>3
      <3>3. \A g \in {tmp[d], path[d]} \ {None} : content'[g] = content[g]
        BY <2>3, <1>2, <1>4 DEF SInv, StoreType, Inodes
      <3>4. tmp'[d] = tmp[d]
        BY <2>3, <1>4
      <3>5. \A b \in Attempts : Active(b) => attempt[b].inode \in Attempts
        BY DEF SInv, Inodes
      <3>6. /\ \A b, c \in Attempts :
                  Active(b) /\ Active(c) /\ EventOf[b] = d /\ EventOf[c] = d => b = c
            /\ \A b \in Attempts : Active(b) /\ EventOf[b] = d =>
                  /\ attempt[b].inode = tmp[d] /\ attempt[b].undisturbed
                  /\ At(b, "replace") => content[tmp[d]] = "whole"
            /\ path[d] # None /\ content[path[d]] = "torn" => d \in emptied
        BY <2>1 DEF SInv, OneAtWork
      <3>7. \A b \in Attempts : EventOf[b] = d /\ Active(b)' => Active(b) /\ attempt'[b] = attempt[b]
        BY <3>1, <3>2 DEF Active
      <3>8. \A b \in Attempts : Active(b) /\ EventOf[b] = d => tmp[d] # None
        BY <3>5, <3>6, <1>1
      <3> QED
        BY <3>3, <3>4, <3>6, <3>7, <3>8 DEF At
    <2> QED
      BY <2>2, <2>3
  <1> QED
    BY <1>6, <1>7, <1>8, <1>9, <1>10 DEF SInv

LEMMA WriteKeeps ==
    ASSUME SInv, NEW a \in Attempts, WriteTemporary(a)
    PROVE  SInv'
  <1> DEFINE f == attempt[a].inode
             e == EventOf[a]
  <1>1. /\ attempt[a].at = "write" /\ GoTo(a, "replace")
        /\ UNCHANGED <<tmp, path, log, shared, cut, emptied, altered>>
    BY DEF WriteTemporary, At
  <1>2. PICK c \in {"torn", "whole"} :
           /\ content' = [content EXCEPT ![f] = c]
           /\ attempt[a].undisturbed \/ content[f] = "whole" => c = "whole"
    BY DEF WriteTemporary
  <1>3. /\ attempt' \in [Attempts -> [at : Steps, inode : Attempts \cup {None}, undisturbed : BOOLEAN]]
        /\ attempt'[a].at = "replace"
        /\ \A b \in Attempts \ {a} : attempt'[b] = attempt[b]
        /\ \A b \in Attempts : /\ attempt'[b].inode = attempt[b].inode
                               /\ attempt'[b].undisturbed = attempt[b].undisturbed
    BY <1>1, Goes DEF SInv, Steps
  <1>4. /\ f \in Attempts /\ EventOf[f] = e /\ e \in Events /\ content[f] \in {"torn", "whole"}
        /\ None \notin Attempts /\ None \notin {"torn", "whole"}
    BY <1>1, StoreAssumption DEF SInv, Inodes, Active, At, Contents
  <1> HIDE DEF f
  <1>5. content'[f] = c /\ \A g \in Attempts \ {f} : content'[g] = content[g]
    BY <1>2, <1>4 DEF SInv, StoreType
  <1>6. \A b \in Attempts : Active(b)' <=> Active(b)
    BY <1>1, <1>3 DEF Active
  <1>7. StoreType'
    BY <1>1, <1>2, <1>3, <1>4 DEF SInv, StoreType, Contents
  <1>8. Inodes'
    <2>1. \A d \in Events : \A g \in {tmp[d], path[d]} \ {None} : EventOf[g] = d /\ content'[g] # None
      BY <1>4, <1>5 DEF SInv, StoreType, Inodes
    <2>2. \A b \in Attempts : At(b, "write")' =>
             At(b, "write") /\ attempt'[b].inode \in Attempts /\ attempt'[b].inode = attempt[b].inode
      BY <1>1, <1>3 DEF SInv, Inodes, At, Active
    <2>3. \A b \in Attempts : At(b, "write")' => content'[attempt'[b].inode] \in {"torn", "whole"}
      BY <2>2, <1>4, <1>5 DEF SInv, Inodes
    <2>4. \A b \in Attempts : attempt'[b].at \in {"idle", "put", "open"} =>
             /\ attempt[b].at \in {"idle", "put", "open"}
             /\ attempt'[b].undisturbed = attempt[b].undisturbed
      BY <1>3
    <2> QED
      BY <2>1, <2>3, <2>4, <1>1, <1>3, <1>6 DEF SInv, Inodes
  <1>9. TornForAReason'
    <2> SUFFICES ASSUME NEW g \in Attempts
                 PROVE  /\ content'[g] = "torn" =>
                              \/ EventOf[g] \in cut \cup emptied
                              \/ \E b \in Attempts : /\ At(b, "write")' /\ attempt'[b].inode = g
                                                     /\ attempt'[b].undisturbed
                        /\ content'[g] \in {"edited", "forged"} => EventOf[g] \in altered
      BY <1>1 DEF TornForAReason
    <2>1. /\ content[g] = "torn" =>
                \/ EventOf[g] \in cut \cup emptied
                \/ \E b \in Attempts : At(b, "write") /\ attempt[b].inode = g /\ attempt[b].undisturbed
          /\ content[g] \in {"edited", "forged"} => EventOf[g] \in altered
      BY DEF SInv, TornForAReason
    <2>2. content'[g] \in {"torn", "edited", "forged"} =>
             content'[g] = content[g] /\ (g = f => ~attempt[a].undisturbed)
      BY <1>2, <1>4, <1>5
    <2>3. ASSUME NEW b \in Attempts, At(b, "write"), attempt[b].inode = g, attempt[b].undisturbed,
                 content'[g] = "torn"
          PROVE  At(b, "write")' /\ attempt'[b].inode = g /\ attempt'[b].undisturbed
      <3>1. b # a
        BY <2>2, <2>3 DEF f
      <3> QED
        BY <3>1, <2>3, <1>3 DEF At
    <2> QED
      BY <2>1, <2>2, <2>3
  <1>10. StoredFirst'
    BY <1>1, <1>3 DEF SInv, StoredFirst
  <1>11. OneAtWork'
    <2> SUFFICES ASSUME NEW d \in Events \ shared
                 PROVE  /\ \A b \in Attempts : Active(b) /\ EventOf[b] = d =>
                              /\ attempt'[b].inode = tmp[d] /\ attempt'[b].undisturbed
                              /\ At(b, "replace")' => content'[tmp[d]] = "whole"
                        /\ path[d] # None /\ content'[path[d]] = "torn" => d \in emptied
      BY <1>1, <1>6 DEF SInv, OneAtWork
    <2>1. /\ \A b, x \in Attempts :
                Active(b) /\ Active(x) /\ EventOf[b] = d /\ EventOf[x] = d => b = x
          /\ \A b \in Attempts : Active(b) /\ EventOf[b] = d =>
                /\ attempt[b].inode = tmp[d] /\ attempt[b].undisturbed
                /\ At(b, "replace") => content[tmp[d]] = "whole"
          /\ path[d] # None /\ content[path[d]] = "torn" => d \in emptied
      BY DEF SInv, OneAtWork
    <2>2. path[d] # None => path[d] \in Attempts /\ path[d] # f
      BY <2>1, <1>1, <1>4 DEF SInv, StoreType, Inodes, Active, f
    <2>3. path[d] # None /\ content'[path[d]] = "torn" => d \in emptied
      BY <2>1, <2>2, <1>5
    <2>4. ASSUME NEW b \in Attempts, Active(b), EventOf[b] = d
          PROVE  At(b, "replace")' => content'[tmp[d]] = "whole"
      <3>1. CASE d = e
        <4>1. b = a /\ f = tmp[d] /\ attempt[a].undisturbed
          BY <3>1, <2>1, <2>4, <1>1 DEF Active, f
        <4> QED
          BY <4>1, <1>2, <1>5
      <3>2. CASE d # e
        <4>1. b # a /\ tmp[d] \in Attempts /\ tmp[d] # f
          BY <3>2, <2>1, <2>4, <1>4 DEF SInv, Inodes
        <4> QED
          BY <4>1, <2>1, <2>4, <1>3, <1>5 DEF At
      <3> QED
        BY <3>1, <3>2
    <2> QED
      BY <2>1, <2>3, <2>4, <1>3
  <1> QED
    BY <1>7, <1>8, <1>9, <1>10, <1>11 DEF SInv

LEMMA ReplaceKeeps ==
    ASSUME SInv, NEW a \in Attempts, Replace(a)
    PROVE  SInv'
  <1> DEFINE e == EventOf[a]
  <1>1. /\ attempt[a].at = "replace" /\ e \in Events /\ None \notin Attempts
        /\ UNCHANGED <<content, log, shared, cut, emptied, altered>>
    BY StoreAssumption DEF Replace, At
  <1>2. PICK s \in {"raised", "log"} :
           /\ GoTo(a, s)
           /\ s = "raised" => tmp[e] = None /\ UNCHANGED <<tmp, path>>
           /\ s = "log" => /\ tmp[e] # None
                           /\ path' = [path EXCEPT ![e] = tmp[e]] /\ tmp' = [tmp EXCEPT ![e] = None]
    BY DEF Replace
  <1>3. /\ attempt' \in [Attempts -> [at : Steps, inode : Attempts \cup {None}, undisturbed : BOOLEAN]]
        /\ attempt'[a].at = s
        /\ \A b \in Attempts \ {a} : attempt'[b] = attempt[b]
        /\ \A b \in Attempts : /\ attempt'[b].inode = attempt[b].inode
                               /\ attempt'[b].undisturbed = attempt[b].undisturbed
    BY <1>2, Goes DEF SInv, Steps
  <1>4. /\ \A b \in Attempts : Active(b)' => Active(b) /\ b # a /\ attempt'[b] = attempt[b]
        /\ \A b \in Attempts : At(b, "write")' <=> At(b, "write")
        /\ \A b \in Attempts : attempt'[b].at \in {"idle", "put", "open"} =>
               attempt[b].at \in {"idle", "put", "open"}
    BY <1>1, <1>2, <1>3 DEF Active, At
  <1>5. /\ \A d \in Events \ {e} : tmp'[d] = tmp[d] /\ path'[d] = path[d]
        /\ s = "raised" => tmp[e] = None /\ tmp'[e] = None /\ path'[e] = path[e]
        /\ s = "log" => tmp[e] # None /\ tmp'[e] = None /\ path'[e] = tmp[e]
    BY <1>1, <1>2 DEF SInv, StoreType
  <1>6. StoreType'
    BY <1>1, <1>2, <1>3 DEF SInv, StoreType
  <1>7. Inodes'
    <2>1. \A d \in Events : \A g \in {tmp'[d], path'[d]} \ {None} : EventOf[g] = d /\ content[g] # None
      BY <1>2, <1>5 DEF SInv, Inodes
    <2>2. \A d \in Events : tmp'[d] # None => tmp'[d] # path'[d]
      BY <1>2, <1>5 DEF SInv, Inodes
    <2>3. ASSUME NEW b \in Attempts, attempt'[b].at \in {"idle", "put", "open"}
          PROVE  tmp'[EventOf[b]] # b /\ path'[EventOf[b]] # b
      BY <2>3, <1>1, <1>2, <1>4, <1>5, StoreAssumption DEF SInv, Inodes
    <2> QED
      BY <2>1, <2>2, <2>3, <1>1, <1>3, <1>4 DEF SInv, Inodes
  <1>8. TornForAReason'
    BY <1>1, <1>3, <1>4 DEF SInv, TornForAReason
  <1>9. StoredFirst'
    <2>1. \A d \in Events : path[d] # None => path'[d] # None
      BY <1>2, <1>5
    <2>2. \A b \in Attempts : attempt'[b].at \in {"log", "done"} => path'[EventOf[b]] # None
      BY <2>1, <1>2, <1>3, <1>5, StoreAssumption DEF SInv, StoredFirst
    <2> QED
      BY <2>1, <2>2, <1>1 DEF SInv, StoreType, StoredFirst
  <1>10. OneAtWork'
    <2> SUFFICES ASSUME NEW d \in Events \ shared
                 PROVE  /\ \A b, c \in Attempts :
                              Active(b)' /\ Active(c)' /\ EventOf[b] = d /\ EventOf[c] = d => b = c
                        /\ \A b \in Attempts : Active(b)' /\ EventOf[b] = d =>
                              /\ attempt'[b].inode = tmp'[d] /\ attempt'[b].undisturbed
                              /\ At(b, "replace")' => content[tmp'[d]] = "whole"
                        /\ path'[d] # None /\ content[path'[d]] = "torn" => d \in emptied
      BY <1>1 DEF OneAtWork
    <2>1. /\ \A b, c \in Attempts :
                Active(b) /\ Active(c) /\ EventOf[b] = d /\ EventOf[c] = d => b = c
          /\ \A b \in Attempts : Active(b) /\ EventOf[b] = d =>
                /\ attempt[b].inode = tmp[d] /\ attempt[b].undisturbed
                /\ At(b, "replace") => content[tmp[d]] = "whole"
          /\ path[d] # None /\ content[path[d]] = "torn" => d \in emptied
      BY DEF SInv, OneAtWork
    <2>2. CASE d = e
      <3>1. \A b \in Attempts : ~(Active(b)' /\ EventOf[b] = d)
        BY <2>1, <2>2, <1>1, <1>4 DEF Active
      <3>2. content[tmp[d]] = "whole"
        BY <2>1, <2>2, <1>1 DEF Active, At
      <3> QED
        BY <2>1, <2>2, <3>1, <3>2, <1>2, <1>5
    <2>3. CASE d # e
      BY <2>1, <2>3, <1>4, <1>5 DEF At
    <2> QED
      BY <2>2, <2>3
  <1> QED
    BY <1>6, <1>7, <1>8, <1>9, <1>10 DEF SInv

LEMMA WriteFailsKeeps ==
    ASSUME SInv, NEW a \in Attempts, WriteFails(a)
    PROVE  SInv'
  <1>1. /\ attempt[a].at = "write" /\ GoTo(a, "raised") /\ cut' = cut \cup {EventOf[a]}
        /\ UNCHANGED <<tmp, path, content, log, shared, emptied, altered>>
    BY DEF WriteFails, At
  <1>2. /\ attempt' \in [Attempts -> [at : Steps, inode : Attempts \cup {None}, undisturbed : BOOLEAN]]
        /\ attempt'[a].at = "raised"
        /\ \A b \in Attempts \ {a} : attempt'[b] = attempt[b]
        /\ \A b \in Attempts : /\ attempt'[b].inode = attempt[b].inode
                               /\ attempt'[b].undisturbed = attempt[b].undisturbed
    BY <1>1, Goes DEF SInv, Steps
  <1>3. /\ \A b \in Attempts : Active(b)' => Active(b) /\ b # a /\ attempt'[b] = attempt[b]
        /\ \A b \in Attempts : At(b, "write")' => At(b, "write")
        /\ \A b \in Attempts : attempt'[b].at \in {"idle", "put", "open"} =>
               attempt[b].at \in {"idle", "put", "open"}
    BY <1>1, <1>2 DEF Active, At
  <1>4. StoreType'
    BY <1>1, <1>2 DEF SInv, StoreType
  <1>5. Inodes'
    BY <1>1, <1>2, <1>3 DEF SInv, Inodes
  <1>6. TornForAReason'
    <2> SUFFICES ASSUME NEW g \in Attempts, content[g] = "torn", EventOf[g] \notin cut' \cup emptied
                 PROVE  \E b \in Attempts : /\ At(b, "write")' /\ attempt'[b].inode = g
                                            /\ attempt'[b].undisturbed
      BY <1>1 DEF SInv, TornForAReason
    <2>1. PICK b \in Attempts : At(b, "write") /\ attempt[b].inode = g /\ attempt[b].undisturbed
      BY <1>1 DEF SInv, TornForAReason
    <2>2. EventOf[g] = EventOf[b]
      BY <2>1 DEF SInv, Inodes, Active, At
    <2>3. b # a
      BY <2>2, <1>1
    <2> QED
      BY <2>1, <2>3, <1>2 DEF At
  <1>7. StoredFirst'
    BY <1>1, <1>2 DEF SInv, StoredFirst
  <1>8. OneAtWork'
    BY <1>1, <1>2, <1>3 DEF SInv, OneAtWork, At
  <1> QED
    BY <1>4, <1>5, <1>6, <1>7, <1>8 DEF SInv

LEMMA CrashKeeps ==
    ASSUME SInv, Crash
    PROVE  SInv'
  <1>1. PICK empty \in SUBSET Events :
           /\ \A e \in empty : path[e] # None /\ content[path[e]] = "whole"
           /\ content' = [f \in Attempts |-> IF \E e \in empty : path[e] = f THEN "torn" ELSE content[f]]
           /\ emptied' = emptied \cup empty
    BY DEF Crash
  <1>2. /\ attempt' = [a \in Attempts |-> IF attempt[a].at \in {"idle", "done", "raised"} THEN attempt[a]
                                          ELSE [attempt[a] EXCEPT !.at = "raised"]]
        /\ cut' = cut \cup {EventOf[a] : a \in Writing}
        /\ UNCHANGED <<tmp, path, log, shared, altered>>
    BY DEF Crash
  <1>3. /\ attempt' \in [Attempts -> [at : Steps, inode : Attempts \cup {None}, undisturbed : BOOLEAN]]
        /\ \A b \in Attempts : /\ attempt'[b].at \in {"idle", "done", "raised"}
                               /\ attempt'[b].at # "raised" => attempt'[b].at = attempt[b].at
                               /\ attempt'[b].undisturbed = attempt[b].undisturbed
    BY <1>2 DEF SInv, StoreType, Steps
  <1>4. \A b \in Attempts : ~Active(b)' /\ ~At(b, "write")'
    BY <1>3 DEF Active, At
  <1>5. \A e \in Events : path[e] # None => path[e] \in Attempts /\ EventOf[path[e]] = e
    BY DEF SInv, StoreType, Inodes
  <1>6. \A f \in Attempts : \/ content'[f] = content[f]
                            \/ content'[f] = "torn" /\ EventOf[f] \in empty
    <2> TAKE f \in Attempts
    <2>1. CASE \E e \in empty : path[e] = f
      <3>1. PICK e \in empty : path[e] = f
        BY <2>1
      <3>2. EventOf[f] = e
        BY <3>1, <1>1, <1>5
      <3> QED
        BY <2>1, <3>2, <1>1
    <2>2. CASE ~\E e \in empty : path[e] = f
      BY <2>2, <1>1
    <2> QED
      BY <2>1, <2>2
  <1>7. None \notin Attempts /\ None # "torn"
    BY StoreAssumption DEF Contents
  <1>8. StoreType'
    BY <1>1, <1>2, <1>3 DEF SInv, StoreType, Contents
  <1>9. Inodes'
    <2>1. \A e \in Events : \A f \in {tmp[e], path[e]} \ {None} : EventOf[f] = e /\ content'[f] # None
      BY <1>6, <1>7 DEF SInv, StoreType, Inodes
    <2> QED
      BY <2>1, <1>2, <1>3, <1>4 DEF SInv, Inodes
  <1>10. TornForAReason'
    <2> SUFFICES ASSUME NEW g \in Attempts
                 PROVE  /\ content'[g] = "torn" => EventOf[g] \in cut' \cup emptied'
                        /\ content'[g] \in {"edited", "forged"} => EventOf[g] \in altered
      BY <1>2 DEF TornForAReason
    <2>1. /\ content[g] = "torn" =>
                \/ EventOf[g] \in cut \cup emptied
                \/ \E b \in Attempts : At(b, "write") /\ attempt[b].inode = g /\ attempt[b].undisturbed
          /\ content[g] \in {"edited", "forged"} => EventOf[g] \in altered
      BY DEF SInv, TornForAReason
    <2>2. ASSUME NEW b \in Attempts, At(b, "write"), attempt[b].inode = g
          PROVE  EventOf[g] \in cut'
      <3>1. EventOf[g] = EventOf[b] /\ b \in Writing
        BY <2>2 DEF SInv, Inodes, Active, At, Writing
      <3> QED
        BY <3>1, <1>2
    <2>3. \/ content'[g] = content[g]
          \/ content'[g] = "torn" /\ EventOf[g] \in empty
      BY <1>6
    <2> QED
      BY <2>1, <2>2, <2>3, <1>1, <1>2
  <1>11. StoredFirst'
    BY <1>2, <1>3 DEF SInv, StoredFirst
  <1>12. OneAtWork'
    <2>1. \A d \in Events \ shared :
             path[d] # None /\ content'[path[d]] = "torn" => d \in emptied'
      BY <1>1, <1>5, <1>6 DEF SInv, OneAtWork
    <2> QED
      BY <2>1, <1>2, <1>4 DEF OneAtWork
  <1> QED
    BY <1>8, <1>9, <1>10, <1>11, <1>12 DEF SInv

LEMMA AlterKeeps ==
    ASSUME SInv, Alter
    PROVE  SInv'
  <1>1. PICK e \in Events, c \in {"edited", "forged"} :
           /\ Evidence(e) = "whole" /\ \A a \in Writing : attempt[a].inode # path[e]
           /\ content' = [content EXCEPT ![path[e]] = c]
           /\ altered' = altered \cup {e}
    BY DEF Alter
  <1>2. UNCHANGED <<attempt, tmp, path, log, shared, cut, emptied>>
    BY DEF Alter
  <1> DEFINE f == path[e]
  <1>3. /\ None \notin Attempts /\ None \notin {"whole", "torn", "edited", "forged"}
        /\ f \in Attempts /\ EventOf[f] = e /\ content[f] = "whole"
    BY <1>1, StoreAssumption DEF SInv, StoreType, Inodes, Evidence, Contents
  <1> HIDE DEF f
  <1>4. content'[f] = c /\ \A g \in Attempts \ {f} : content'[g] = content[g]
    BY <1>1, <1>3 DEF SInv, StoreType, f
  <1>5. StoreType'
    BY <1>1, <1>2 DEF SInv, StoreType, Contents
  <1>6. Inodes'
    <2>1. \A d \in Events : \A g \in {tmp[d], path[d]} \ {None} : EventOf[g] = d /\ content'[g] # None
      BY <1>3, <1>4 DEF SInv, StoreType, Inodes
    <2>2. \A a \in Attempts : At(a, "write") => content'[attempt[a].inode] \in {"torn", "whole"}
      BY <1>1, <1>4 DEF SInv, Inodes, Active, At, Writing, f
    <2> QED
      BY <2>1, <2>2, <1>2 DEF SInv, Inodes, Active, At
  <1>7. TornForAReason'
    <2> SUFFICES ASSUME NEW g \in Attempts
                 PROVE  /\ content'[g] = "torn" =>
                              \/ EventOf[g] \in cut \cup emptied
                              \/ \E b \in Attempts : /\ At(b, "write") /\ attempt[b].inode = g
                                                     /\ attempt[b].undisturbed
                        /\ content'[g] \in {"edited", "forged"} => EventOf[g] \in altered'
      BY <1>2 DEF TornForAReason, At
    <2>1. CASE g = f
      BY <2>1, <1>1, <1>3, <1>4
    <2>2. CASE g # f
      BY <2>2, <1>1, <1>4 DEF SInv, TornForAReason
    <2> QED
      BY <2>1, <2>2
  <1>8. StoredFirst'
    BY <1>2 DEF SInv, StoredFirst
  <1>9. OneAtWork'
    <2>1. \A d \in Events : tmp[d] # None => tmp[d] # f /\ tmp[d] \in Attempts
      BY <1>3 DEF SInv, StoreType, Inodes, f
    <2>2. \A d \in Events : path[d] # None => path[d] \in Attempts
      BY DEF SInv, StoreType
    <2>3. \A d \in Events : path[d] # None /\ content'[path[d]] = "torn" => content[path[d]] = "torn"
      BY <2>2, <1>1, <1>4
    <2>4. \A a \in Attempts : Active(a) => attempt[a].inode # None
      BY <1>3 DEF SInv, Inodes
    <2>5. \A d \in Events \ shared : \A a \in Attempts : Active(a) /\ EventOf[a] = d =>
             content'[tmp[d]] = content[tmp[d]]
      BY <2>1, <2>4, <1>4 DEF SInv, OneAtWork
    <2> QED
      BY <2>3, <2>5, <1>2 DEF SInv, OneAtWork, Active, At
  <1> QED
    BY <1>5, <1>6, <1>7, <1>8, <1>9 DEF SInv

LEMMA NextSInv == SInv /\ [Next]_vars => SInv'
  <1> SUFFICES ASSUME SInv, [Next]_vars PROVE SInv'
    OBVIOUS
  <1>1. CASE UNCHANGED svars
    BY <1>1 DEF svars, SInv, StoreType, Inodes, TornForAReason, StoredFirst, OneAtWork, Active, At
  <1>2. CASE Write
    <2> PICK a \in Attempts : StoreStep(a)
      BY <1>2 DEF Write
    <2> QED
      BY MovesKeep, OpenKeeps, WriteKeeps, ReplaceKeeps, WriteFailsKeeps DEF StoreStep
  <1>3. CASE Restart
    BY <1>3 DEF Restart, SInv, StoreType, Inodes, TornForAReason, StoredFirst, OneAtWork, Active, At
  <1>4. CASE Disturb
    BY <1>4, <1>3, CrashKeeps, AlterKeeps DEF Disturb
  <1> QED
    BY <1>1, <1>2, <1>4 DEF Next, Report, StartReport, AuditEvent, Cache, CacheStep, Channel, vars

-----------------------------------------------------------------------------
(* The evidence, and a report about it.                                    *)

LEMMA StoreInvariant == Spec => []SInv
  BY InitSInv, NextSInv, PTL DEF Spec

(* What a reader finds of a logged event, and why.                         *)
LEMMA StepFound ==
    ASSUME SInv, NEW e \in log
    PROVE  /\ e \in Events /\ path[e] \in Attempts /\ Evidence(e) \in Contents
           /\ Evidence(e) = "torn" =>
                 /\ e \in shared \cup emptied
                 /\ e \in cut \cup emptied \/ \E a \in Writing : EventOf[a] = e
           /\ Evidence(e) \in {"edited", "forged"} => e \in altered
  <1>1. e \in Events /\ path[e] # None
    BY DEF SInv, StoreType, StoredFirst
  <1>2. path[e] \in Attempts /\ EventOf[path[e]] = e /\ content[path[e]] \in Contents
    BY <1>1 DEF SInv, StoreType, Inodes
  <1>3. Evidence(e) = content[path[e]]
    BY <1>1 DEF Evidence
  <1>4. ASSUME Evidence(e) = "torn"
        PROVE  /\ e \in shared \cup emptied
               /\ e \in cut \cup emptied \/ \E a \in Writing : EventOf[a] = e
    <2>1. e \in shared \cup emptied
      BY <1>1, <1>3, <1>4 DEF SInv, OneAtWork
    <2>2. e \in cut \cup emptied \/ \E a \in Attempts : At(a, "write") /\ attempt[a].inode = path[e]
      BY <1>2, <1>3, <1>4 DEF SInv, TornForAReason
    <2>3. \A a \in Attempts : At(a, "write") /\ attempt[a].inode = path[e] => EventOf[a] = e
      BY <1>2 DEF SInv, Inodes, Active, At
    <2> QED
      BY <2>1, <2>2, <2>3 DEF Writing
  <1> QED
    BY <1>1, <1>2, <1>3, <1>4 DEF SInv, TornForAReason

(* The evidence of a logged event is whole, however many attempts stored   *)
(* it, side by side or one after the other, and wherever they ended; but   *)
(* for files that a power failure emptied and those two attempts had open. *)
THEOREM EvidenceStaysWhole == Spec => []EvidenceIsWhole
  <1>1. SInv => EvidenceIsWhole
    BY StepFound DEF EvidenceIsWhole, Contents
  <1> QED
    BY <1>1, StoreInvariant, PTL

LEMMA InitReportInv == Init => ReportInv
  BY StoreAssumption, AuditAssumption
     DEF Init, AuditInit, ReportInv, ReportIsJust, Verdicts

(* What happens to the store while a report is made.                       *)
LEMMA StoreMoves ==
    ASSUME SInv, SInv', [Next]_vars, ReportInv, NEW e \in before
    PROVE  /\ Evidence(e)' \in {"edited", "forged"}
           /\ \A a \in Attempts : EventOf[a] = e =>
                  attempt'[a].at \notin {"open", "write", "replace"}
  <1>1. /\ e \in Events /\ Evidence(e) \in {"edited", "forged"}
        /\ \A a \in Attempts : EventOf[a] = e => attempt[a].at \notin {"open", "write", "replace"}
    BY DEF ReportInv
  <1>2. None \notin Contents /\ None \notin Attempts
    BY StoreAssumption
  <1>3. /\ path[e] \in Attempts /\ EventOf[path[e]] = e
        /\ content[path[e]] \in {"edited", "forged"}
    BY <1>1, <1>2 DEF Evidence, SInv, StoreType, Inodes, Contents
  <1>4. ASSUME NEW a \in Attempts, StoreStep(a)
        PROVE  /\ path'[e] = path[e] /\ content'[path[e]] = content[path[e]]
               /\ \A b \in Attempts : EventOf[b] = e =>
                      attempt'[b].at \notin {"open", "write", "replace"}
    <2>1. CASE EventOf[a] = e
      <3>1. attempt[a].at \notin {"open", "write", "replace"} /\ path[EventOf[a]] # None
        BY <2>1, <1>1, <1>2, <1>3
      <3>2. StartAttempt(a) \/ IsFile(a) \/ LogEvent(a)
        BY <3>1, <1>4 DEF StoreStep, OpenTemporary, WriteTemporary, Replace, WriteFails, At
      <3>3. /\ UNCHANGED <<path, content>>
            /\ \E s \in {"put", "log", "done"} : GoTo(a, s)
        BY <3>1, <3>2 DEF StartAttempt, IsFile, LogEvent
      <3>4. \A b \in Attempts : attempt'[b] = attempt[b] \/ attempt'[b].at \in {"put", "log", "done"}
        BY <3>3, Goes DEF SInv, Steps
      <3> QED
        BY <3>3, <3>4, <1>1
    <2>2. CASE EventOf[a] # e
      <3>1. \A b \in Attempts : b # a => attempt'[b].at = attempt[b].at
        <4>1. CASE OpenTemporary(a)
          BY <4>1 DEF OpenTemporary, SInv, StoreType
        <4>2. CASE \E s \in Steps : GoTo(a, s)
          BY <4>2, Goes DEF SInv
        <4> QED
          BY <4>1, <4>2, <1>4 DEF StoreStep, StartAttempt, IsFile, WriteTemporary, Replace, LogEvent,
                                  WriteFails, Steps
      <3>2. path'[e] = path[e]
        BY <2>2, <1>1, <1>4 DEF StoreStep, StartAttempt, IsFile, OpenTemporary, WriteTemporary, Replace,
                                LogEvent, WriteFails, SInv, StoreType
      <3>3. content'[path[e]] = content[path[e]]
        <4>1. CASE OpenTemporary(a)
          <5>1. PICK f : /\ f = IF tmp[EventOf[a]] = None THEN a ELSE tmp[EventOf[a]]
                         /\ content' = [content EXCEPT ![f] = "torn"]
            BY <4>1 DEF OpenTemporary
          <5>2. EventOf[f] = EventOf[a]
            BY <5>1, StoreAssumption DEF SInv, Inodes
          <5> QED
            BY <5>1, <5>2, <2>2, <1>3 DEF SInv, StoreType
        <4>2. CASE WriteTemporary(a)
          <5>1. PICK c : content' = [content EXCEPT ![attempt[a].inode] = c]
            BY <4>2 DEF WriteTemporary
          <5>2. EventOf[attempt[a].inode] = EventOf[a]
            BY <4>2 DEF WriteTemporary, At, SInv, Inodes, Active
          <5> QED
            BY <5>1, <5>2, <2>2, <1>3 DEF SInv, StoreType
        <4> QED
          BY <4>1, <4>2, <1>4 DEF StoreStep, StartAttempt, IsFile, Replace, LogEvent, WriteFails
      <3> QED
        BY <3>1, <3>2, <3>3, <2>2, <1>1
    <2> QED
      BY <2>1, <2>2
  <1>5. CASE Crash
    <2>1. UNCHANGED path /\ content'[path[e]] \in {"edited", "forged"}
      <3>1. PICK empty \in SUBSET Events :
               /\ \A d \in empty : path[d] # None /\ content[path[d]] = "whole"
               /\ content' = [f \in Attempts |-> IF \E d \in empty : path[d] = f THEN "torn"
                                                 ELSE content[f]]
        BY <1>5 DEF Crash
      <3>2. ~\E d \in empty : path[d] = path[e]
        BY <3>1, <1>3
      <3> QED
        BY <3>1, <3>2, <1>3, <1>5 DEF Crash
    <2>2. \A b \in Attempts : attempt'[b].at \in {"idle", "done", "raised"}
      BY <1>5 DEF Crash, SInv, StoreType
    <2> QED
      BY <2>1, <2>2, <1>2, <1>3 DEF Evidence
  <1>6. CASE Alter
    <2>1. PICK d \in Events, c \in {"edited", "forged"} :
             content' = [content EXCEPT ![path[d]] = c]
      BY <1>6 DEF Alter
    <2>2. content'[path[e]] \in {"edited", "forged"} /\ UNCHANGED <<path, attempt>>
      BY <2>1, <1>3, <1>6 DEF Alter, SInv, StoreType
    <2> QED
      BY <2>2, <1>1, <1>2, <1>3 DEF Evidence
  <1>7. CASE UNCHANGED <<path, content, attempt>>
    BY <1>7, <1>1 DEF Evidence
  <1>8. CASE Write
    BY <1>8, <1>4, <1>2, <1>3 DEF Write, Evidence
  <1> QED
    BY <1>5, <1>6, <1>7, <1>8 DEF Next, Disturb, Restart, Report, StartReport, AuditEvent, Cache,
                                  CacheStep, Channel, vars, svars

LEMMA HistoryGrows ==
    ASSUME [Next]_vars
    PROVE  /\ log \subseteq log' /\ shared \subseteq shared'
           /\ emptied \subseteq emptied' /\ altered \subseteq altered'
  <1>1. ASSUME NEW a \in Attempts, StoreStep(a)
        PROVE  /\ log \subseteq log' /\ shared \subseteq shared'
               /\ emptied \subseteq emptied' /\ altered \subseteq altered'
    BY <1>1 DEF StoreStep, StartAttempt, IsFile, OpenTemporary, WriteTemporary, Replace, LogEvent, WriteFails
  <1>2. CASE Disturb
    BY <1>2 DEF Disturb, Crash, Restart, Alter
  <1>3. CASE Write
    BY <1>1, <1>3 DEF Write
  <1> QED
    BY <1>2, <1>3 DEF Next, Report, StartReport, AuditEvent, Cache, CacheStep, Channel, vars, svars

LEMMA NextReportInv == SInv /\ SInv' /\ ReportInv /\ [Next]_vars => ReportInv'
  <1> SUFFICES ASSUME SInv, SInv', ReportInv, [Next]_vars PROVE ReportInv'
    OBVIOUS
  <1>1. None \notin Verdicts
    BY AuditAssumption
  <1>2. CASE UNCHANGED avars
    <2>1. UNCHANGED <<history, findings, before>>
      BY <1>2 DEF avars
    <2>2. \A e \in before :
             /\ e \in Events /\ Evidence(e)' \in {"edited", "forged"}
             /\ \A a \in Attempts : EventOf[a] = e =>
                    attempt'[a].at \notin {"open", "write", "replace"}
      BY StoreMoves DEF ReportInv
    <2>3. history # None => history \subseteq log'
      BY HistoryGrows DEF ReportInv
    <2>4. ReportIsJust'
      BY <2>1, HistoryGrows DEF ReportInv, ReportIsJust
    <2> QED
      BY <2>1, <2>2, <2>3, <2>4 DEF ReportInv
  <1>3. CASE StartReport
    <2>1. /\ \A e \in Events : findings[e] = None
          /\ history' = log /\ findings' = findings /\ log' = log
          /\ UNCHANGED <<attempt, path, content>>
      BY <1>3 DEF StartReport, ReportInv, svars
    <2>2. \A e \in before' :
             /\ e \in Events /\ Evidence(e)' \in {"edited", "forged"}
             /\ \A a \in Attempts : EventOf[a] = e =>
                    attempt'[a].at \notin {"open", "write", "replace"}
      BY <2>1, <1>3 DEF StartReport, Evidence
    <2>3. ReportIsJust'
      BY <2>1, <1>1 DEF ReportIsJust, Verdicts
    <2> QED
      BY <2>1, <2>2, <2>3 DEF ReportInv
  <1>4. CASE AuditEvent
    <2>1. /\ history # None /\ UNCHANGED <<svars, history, before>>
          /\ \E d \in history : findings' = [findings EXCEPT ![d] = Verdict(d)]
      BY <1>4 DEF AuditEvent
    <2>2. PICK d \in history : findings' = [findings EXCEPT ![d] = Verdict(d)]
      BY <2>1
    <2>3. d \in log /\ d \in Events
      BY <2>1, <2>2 DEF ReportInv, SInv, StoreType
    <2>4. /\ Verdict(d) \in Verdicts
          /\ Verdict(d) = "VERIFIED" => d \notin before
          /\ Verdict(d) = "TAMPERED" => d \in altered
          /\ Verdict(d) = "INCOMPLETE" => d \in shared \cup emptied
      <3>1. /\ Evidence(d) \in Contents /\ Evidence(d) # None
            /\ Evidence(d) = "torn" => d \in shared \cup emptied
            /\ Evidence(d) \in {"edited", "forged"} => d \in altered
        BY <2>3, StepFound, StoreAssumption
      <3>2. Verdict(d) = IF Evidence(d) = "torn" THEN "INCOMPLETE"
                         ELSE IF Evidence(d) = "whole" THEN "VERIFIED" ELSE "TAMPERED"
        BY <2>3, <3>1 DEF Verdict, PayloadOk, LedgerMatches, Contents
      <3>3. d \in before => Evidence(d) \in {"edited", "forged"}
        BY DEF ReportInv
      <3> QED
        BY <3>1, <3>2, <3>3 DEF Verdicts, Contents
    <2>5. /\ findings' \in [Events -> Verdicts \cup {None}]
          /\ findings'[d] = Verdict(d) /\ \A e \in Events \ {d} : findings'[e] = findings[e]
      BY <2>2, <2>3, <2>4 DEF ReportInv
    <2>6. ReportIsJust'
      BY <2>1, <2>4, <2>5 DEF ReportInv, ReportIsJust, svars
    <2> QED
      BY <2>1, <2>5, <2>6 DEF ReportInv, Evidence, svars
  <1> QED
    BY <1>2, <1>3, <1>4 DEF Next, Write, Disturb, Report, Cache, Channel, vars

(* A report made while events are submitted, retried, lost and altered     *)
(* acquits nothing that had been changed when it began, accuses nothing    *)
(* that was not changed, and misses no evidence that was ever stored well. *)
THEOREM ReportsAreJust == Spec => []ReportIsJust
  <1>1. ReportInv => ReportIsJust
    BY DEF ReportInv
  <1> QED
    BY <1>1, InitReportInv, NextReportInv, StoreInvariant, PTL DEF Spec
=============================================================================
