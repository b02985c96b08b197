# TLA+ models of the evidence framework

This directory holds a TLA+ development of the repository next to it: models of
its components, the properties that make them correct, TLC configurations that
check the properties on small instances, and proofs that TLAPS checks for every
instance. `PROJECT.json` maps every definition to the source lines it stands for
and lists runs, mutations, findings, hazards and theorems.

Paths: `P1` is `src/Phase_1`, `P2` is `src/Phase2_Blockchain_Logging`, `P3` is
`src/Phase3_Performance_Optimization`; `05:436` is line 436 of the script of
`P1` with that number.

## 1. The system

A detector (Phase 1) turns network flows into alerts. Phase 2 turns an alert
into evidence: the full payload goes into a content-addressed store, a digest
of it onto an append-only ledger, at once or in batches. Phase 3 puts a queue
with retries between the two, caches the ledger for readers and measures both.
`main.py` runs the phases as subprocesses over a run directory.

| component | state it keeps | operations | hard because | module |
|---|---|---|---|---|
| Asynchronous submission service, `P3/perf/async_pipeline.py` | bounded queue, stop event, list of threads, statistics, dead letters | `start`, `enqueue`, `stop`, worker loop | threads, full queue, retries through the queue, deadlines, restarts, raising callbacks | `AsyncSubmission` |
| Mock ledger, `P2/src/ledger/mock_ledger.py` | hash chain, look-up tables, agents, JSON file | constructor, `register_agent`, `log_security_event`, `anchor_model_provenance`, readers | write that fails after the append, death while writing, reload that recomputes hashes | `MockLedger` |
| Evidence pipeline, `P2/src/pipeline.py` | the pending batch | `submit`, `flush_batch`, `close` | ledger that raises inside a flush, repeated submits, restart | `Phase2Pipeline` |
| Stages' replay, load and stability tests, `src/pipeline/run_stage.py`, `P3/perf/scalability_harness.py`, `stability_test.py` | trial under way | start, enqueue, stop, check, close, audit | a committed event is only in a batch; a hung worker meets the caller's close | `Replay` |
| Evidence store, `P2/src/evidence_store.py` | files by digest | `put`, `get`, `exists` | temporary file shared by writers of one payload | `EvidenceStore` |
| Auditor, `P2/src/audit.py` | none | `audit_event`, `compliance_report` | reads ledger and store at different moments | `AuditTrail` |
| Local state cache, `P3/perf/local_cache.py` | two indexes, statistics, a thread | `sync_once`, background sync, getters | syncs applied out of order, two loops | `LocalCache` |
| Chaincode, `P2/chaincode/securitylog` | world state | `LogSecurityEvent`, `AnchorModelProvenance`, queries | simulation and validation of concurrent transactions, lost answers | `SecurityLog` |
| Launcher and stages, `src/main.py`, `src/pipeline/run_stage.py` | manifest and files of a run directory | plan, preflight, steps; `prepare`, `phase2`, `phase3` | interruption, kill, resumption, a script run alone, edited files, stale hand-offs | `Launcher` |
| Detector training and export, `P1/01` to `10` | splits, parameters, scores, bundle, card, alerts | ten scripts | caches that outlive the data, scripts that end in the middle | `DetectorExport` |
| - its split of the data, `02_prepare.py` | row plan | scan, plan, fill | two chunked passes, hashes before cleaning, casts to narrower types | `DataSplits` |
| - its comparison, `05_compare_models.py` | scores and rows of each model | fit, save, vote | half-saved models, order of classes | `Comparison` |
| - its thresholds, `06_tune.py` | thresholds | coordinate ascent | state changed in place | `ClassThresholds` |
| - its anchoring gate, `08`, `09`, `10` | operating points | grid, selection, deployment | flat steps, float32 scores, missing points | `AnchoringGate` |
| Alert contract and adaptation, `10_alert_contract.py`, `P2/src/phase1_contract.py`, `alert_builder.py`, `detection_layer.py`, `P3/perf/load_generator.py`, and anchoring policy | files of alerts and events | emit, read, verify, adapt, decide | rounding between decision and digest, five producers, edits | `AlertPath` |
| Merkle batches, `P2/src/merkle.py` | none | root, proof, verification | odd levels | `Merkle` |
| Signing, Fabric gateway, `P2/src/signing.py`, `ledger/fabric_gateway.py` | key file; none | sign, verify; connect always raises | - | in the ledgers |
| Canonical form and digests, `P2/src/canonical.py`, `digest.py`, Go twin | none | pure functions | two languages must agree | fields only, `AlertPath` |
| Resource monitor, demonstrations, reports, comparative benchmark, Fabric network | samples, tables | straight-line scripts | - | none |

How they interact. Training scripts communicate through files in `work/` and
`outputs/`. The launcher starts scripts and stages as processes; stages
communicate through files of the run directory whose digests are checked. The
submission service calls its `commit_fn` in worker threads; in phase 3 that is
`Phase2Pipeline.submit`, in load tests `put_json` and `log_security_event`. The
pipeline calls the evidence store, the anchoring policy and one `LedgerClient`.
The ledger is read by the auditor and by the cache.

What makes the components correct, in one line each:

- submission service: every accepted event ends in exactly one result, and the
  statistics say so only when it is true;
- ledger, mock and chaincode: a record is appended once, an acknowledged record
  stays, a changed record is detected;
- pipeline: what `submit` has returned for is stored and recorded or waiting to be;
- replay: "zero loss" means that every event is on the ledger;
- store and auditor: evidence of a logged event is whole, and a report accuses
  and acquits nobody wrongly;
- cache: a snapshot of the ledger that goes forward;
- launcher and stages: a completed run is whole and its files belong together;
- training: what is exported is of one data set, and the algorithms on the way
  give what their comments promise;
- alerts: what is anchored is what the detector said.

## 2. Modules

| module | models | state and actions |
|---|---|---|
| `SubmissionContract` | what the service promises of one event | `outcome`, `calls`; submit, succeed, fail and keep, fail for good |
| `AsyncSubmission` | `AsyncSubmissionService` with `InMemoryQueueBackend`, `RetryPolicy`, `AsyncPipelineStats` | see 2.1 |
| `AppendOnlyLog` | what a `LedgerClient` promises | `log`, `receipts`, `lost` |
| `MockLedger` | `MockLedger` and its file | see 2.2 |
| `Phase2Pipeline` | `Phase2Pipeline` between store and ledger | see 2.3 |
| `Replay` | EXTENDS `AsyncSubmission`: a trial of phase 3 or of a load test | see 2.4 |
| `EvidenceStore`, `AuditTrail`, `LocalCache`, `SecurityLog` | store, auditor over it, cache of the ledger, chaincode | see 2.5 |
| `LedgerReaders` | EXTENDS these four: a behaviour has the audit, the cache or the channel | `reader` |
| `DetectorExport`, `Launcher` | the training scripts; EXTENDS them with launcher and stages | see 2.6 |
| `DataSplits`, `Comparison`, `ClassThresholds`, `AnchoringGate`, `AlertPath`, `Merkle` | algorithms from raw data to anchored batch | see 2.7 |
| `DataPaths` | EXTENDS these six: a behaviour runs one of them | `kind` |
| `Subsequences` | the items of a sequence at chosen positions, for the two refinement mappings | - |
| `SequenceLemmas` | facts about these, and induction over numbers | - |
| `*Proofs` | theorems of TLAPS, see section 5 | - |
| `MC*` | instances for TLC | constants only |

Operators whose comment starts with "Mutation of" are not part of a model: each
is what a plausible mistake would make of the definition after it. With the
mutation in place of the definition, the property named in `PROJECT.json` fails.

### 2.1 AsyncSubmission

A step is what a thread does between two points where another can see it.
`Enqueue`/`EnqueuePut` are the two halves of `enqueue` (count, then put, which
blocks when full). `StopDrain`, `Drained`/`DrainDeadline`, `Join`, `StopReturn`
are `stop`: poll the statistics, set the event, join each thread with a timeout,
forget them all. `CheckStop`, `Get`/`GetTimeout`, `CommitOk`/`CommitRetry`/
`CommitGiveUp`, `RetryPut`, `Callback`/`CallbackRaises` are the worker loop and
`_process_item`. `CommitOk` includes `record_commit` and `CommitGiveUp`
includes `record_dead_letter`: nothing another thread can see happens between
the return of `commit_fn` and the counter. The dead letter's entry in the list
comes later, with the callback. Backoff and timeouts are time, which is
abstract: a sleep is a step that may take as long as it likes, a join may time
out whenever the thread is alive. Restarting is included: `Start` takes fresh
thread identities and clears the event for every thread still in its loop.

History variables: `outcome` (what became of each event), `calls`, `reported`,
`unclean_stops`. They are read by properties only, except that the caller
enqueues an event once and `ListDeadLetter` asks which of the two results the
callback is for (in the code these are two call sites).

### 2.2 MockLedger

The lock makes each operation atomic for other threads, so the operations are
single actions; what can come in between is an `OSError` of the write
(`LogRaises`, `AnchorRaises`) and the end of the process
(`KilledWhileLogging`, `KilledWhileAnchoring`). The file is rewritten in place,
so both may leave it cut short (`torn`), and `_load` then raises for good. A
hash is the tuple it is computed from, so hashes are equal only if their inputs
are. Each block carries one record, as in the code. Indexes and timestamps are
left out: an index is a position, a timestamp is data. Refused calls change
nothing and have no action. `logged`, `acked` and `tampered` are history.

### 2.3 Phase2Pipeline

One calling thread, as `run_stage.py` arranges by using a single worker. Each
ledger call is a step with three outcomes, `Accepts`, `Refuses` and `Fails`; the
last covers every exception the ledger raises of its own, with the record on
the chain or not, which is what `MockLedger` does when its write raises. `call`
is the position in the loop of `flush_batch` and which call it belongs to.
`Restart` is a process that dies and another one over the same store and
ledger, as when `run_phase2_demo.py` runs twice: the batch is gone, and of the
ledger what was not durable may be. A Merkle root is the list of its leaves.
The policy's decision is a partition of the events. An event that
`validate_contract` refuses changes nothing.

Composition. `Phase2Pipeline` sees the ledger as a client does: its ledger
accepts a record once, refuses it from then on and keeps what it has
acknowledged, by assumption. That the two ledgers of the repository are like
this is shown where they are modelled: `LogSpec` of `MockLedger`, as long as its
file is not cut short, and `ChannelIsAppendOnlyLog` of the chaincode. So the
pipeline's own properties are about what it does with such a ledger.

### 2.4 Replay

The main thread of a trial on top of `AsyncSubmission`, whose actions it
conjoins: `ReplayWorker` adds to `CommitOk` what a `submit` that returns does to
store, batch and ledger, and to `CommitRetry`/`CommitGiveUp` what one that
raises leaves behind (`FlushStops`: part of a batch is recorded and all of it
still pending). `harness` tells the synchronous trial, the asynchronous one and
the load tests apart. `TrialFails` is the check of `run_stage.py:317`, `Check`
and `Audit` decide between report and exception. A `submit` is one step here;
that nobody else is in the pipeline meanwhile is `OneUserOfPipeline`. The
callbacks of these programs do not raise.

### 2.5 EvidenceStore, AuditTrail, LocalCache, SecurityLog

`EvidenceStore`: `put` is `IsFile`, `OpenTemporary` (which truncates),
`WriteTemporary`, `Replace` (the rename, which raises when another attempt has
renamed the shared file). An inode keeps its writers over the rename. Attempts
of one event run side by side, as after a timed-out `stop`. A write may fail, a
machine may stop and leave a renamed file empty (nothing calls `fsync`), a file
may be changed by hand, with (`forged`) or without (`edited`) a new digest
inside. Ghosts say which events two attempts shared a file for, which writes
were cut short, which files a crash emptied and which were altered.

`AuditTrail`: a report takes the history once and then the verdict of each
event, in any order, while the above goes on.

`LocalCache`: `sync_once` is query, lock, first index, second index, count;
each loop and the user are threads of it. `gave_up` records a join that timed
out.

`SecurityLog`: a transaction function is simulated on a peer that may be behind
(`Endorsed` keeps what it read and wants to write), ordered and validated
against what it read (`Order`), applied by each peer in turn (`Deliver`), and
answered (`Answer`) or not (`Lost`). Fabric is external; what is read, refused,
written and answered is the chaincode's. A record carries its transaction id.

### 2.6 DetectorExport and Launcher

A file's content is the set of data sets it was computed from; a script reads,
rewrites its files in place one group after the other (`Open`, `Write`), reuses
what is cached (`Reuse`) and may end anywhere (`ScriptFails`). `Launcher` adds
`main.py` (`Launch`, `StartChild`, `ChildCompleted`, `ChildFailed`,
`LaunchCompletes`, `Interrupted`, `Killed`, `MachineStops`) and the stages of
`run_stage.py`, each a list of steps still to do. A launcher that is killed
leaves its stage running, next to a second launcher, whichever that is: a stage
may read bundle, card and alerts while a new training rewrites them. Between
launches the user may (`ByHand`) replace the data set, edit a hand-off or run a
script alone (`RunAlone`): `10_alert_contract.py` is what `main.py:145-147` tells
the user to run. One user starts one launcher or script at a time. Submit loop and
trials are one step each.

`prepare` reads the first lines of the alerts (`read_alerts`, `--limit`), so a
file that is still being written, or was left unfinished, is whole to it once
these lines are (`LinesWritten`). It compares the alerts' version with the card
and later, as the hand-off is written, reads the card again for the provenance
and hashes the bundle that is there then.

### 2.7 From raw data to an anchored batch

`DataSplits` reads a file row by row twice, in chunks, as `02_prepare.py` does;
a row is a label and one cell. Within one chunk a column with a missing cell is
read as floats, which is why rows of two chunks can hash apart although they
are the same. A column is an integer one by its first rows, narrow or wide by
its least and greatest number; an integer cast that changes a value ends the
script, a float one rounds to float32, which beyond `Exact` has every second
number. `Comparison` runs two programs over one directory, killed and restarted.
`ClassThresholds` is the coordinate ascent of 06, with the score in integers and
its tolerance of 1e-6 as `Tolerance` units.

`AnchoringGate` is grid and selection of 08, export of 09, gate of 10. Stage 08
works with float32 scores, which here are every third number, and with the best
of its calibrators; 09 fits an isotonic calibrator of its own, over float64, and
10 scores with it. Only the first is modelled: how much the gate covers in the
scores of the second is left out (section 4). A table of operating points without a row makes 09 fail; one
without the row of the target makes 10 fall back to 0.5.

`AlertPath` follows one alert from its producer (stage, smoke fixture, load test
with replayed or made-up alerts, demonstration) over the files, which may be
edited, to the policy's decision; numbers are multiples of a quarter of the last
decimal kept, so that rounding rounds; an edit replaces one field by any other
value of it (`NewValues`, `NewEventValues`), and an event
must fit the contract's schema as well as its digest. `Merkle` takes every batch up to
`MaxBatch` and climbs from every leaf; a digest is a digest or the pair it is
computed from.

## 3. Runs

| run | instance | shows |
|---|---|---|
| `async` | 2 events, 2 thread identities, 1 worker per start, capacity 2, 2 attempts, raising callbacks | all properties of `AsyncSubmission`, refinement and liveness |
| `async_full_queue` | 3 events, 1 worker, capacity 1 | a violation: see section 6 |
| `async_crash` | as `async` | a violation |
| `ledger` | 2 events, 2 digests, 1 agent with 2 keys, 1 model with 2 provenance records, 3 blocks after the genesis block | all properties of `MockLedger`, refinement |
| `pipeline` | 3 batched events, one immediate, one off chain, window 3, 5 submits, 2 failures (320,000 states) | all properties of `Phase2Pipeline`, with liveness |
| `pipeline_close` | as `pipeline`, 2 batched events, so that the window never fills | a violation |
| `replay` | 2 batched events in a window of 2, one immediate, one off chain, 1 worker, 2 attempts, any number of failing submits (515,000 states) | when "zero loss" may be believed, who is in the pipeline, and that a trial ends |
| `launcher` | 2 launches of 5 kinds, 2 data sets, one thing done by hand: a file edited, the data replaced or script 10 run alone (3.3 million states) | what a completed training exports, which detector a run anchors, what a completed run leaves |
| `launcher_artifact` | as `launcher`, nothing done by hand | a violation |
| `readers` | store and auditor: 2 events, 3 attempts, 2 of them for one event; cache: 2 sync loops and the user; channel: 2 agents and an auditor with 2 calls each, 2 peers, one id shared by an event and a model (180,000 states) | evidence, reports, cache and channel |
| `data_paths` | files of up to 5 rows of 6 kinds in chunks of 2 or 5; 3 models in 3 runs; 3 flows of 4 vectors and 3 classes, grid of 3, 3 rounds; 5 flows to gate at targets of 100, 67 and 50 %, with an isotonic calibrator of four steps or none; one alert, one edit of each file; 3 digests in batches of up to 5 (320,000 states) | the algorithms, over all inputs of that size |
| `voting` | 3 models, 2 runs | a violation |

Bounds. Two events show every way in which events can interact in the queue
(one behind the other, one in hand while the other waits), two attempts the
difference between a retry and the last try, two thread identities an old
thread next to a new one after an unclean stop, or two workers after two calls
of `start`. In `async` the capacity is the number of events: no put blocks for
ever, which is the assumption of `EventuallyAccounted`; `async_full_queue`
drops it. Three blocks after the genesis block are enough for a record, one
after it (which is what makes tampering visible after a reload) and a failed
write in between. `MaxSubmits` and `MaxFailures` bound the pipeline's run: five
submits fill the window and repeat the calls that raised, or those of a process
that died; two failures are a failed flush and one more failure while it is
repeated. A window of three with three events is filled, or
not filled and closed, or filled again by a restarted caller behind events that
are on the ledger already, which a window of two
hides. `MaxBlocks` bounds the ledger's chain. No other
counter needs a bound.

A trial of four events over a window of two fills the window once and has an
event on either side of it. Two launches are a run and its resumption, or a
training and what uses its outputs, or a training and the next one over other
data; two data sets are an old and a new one. One thing done by hand between two
launches is enough for each of the launcher's properties to fail under a change
of the code it is about.
Three attempts are two that share a file and one beside them; two loops an old
one next to a new one. Two agents with two calls each race for one id on peers
of which one is behind, and repeat a call whose answer was lost; one payload
digest is enough because records are told apart by their transaction id. Five
rows in chunks of two give three chunks, the last one short, and splits of
which each has a row. Five leaves are the first batch whose tree has two odd
levels. `ScoreUnit` is a number that every F1 of so few flows divides, which
makes the score exact. Of the scores one is not in
float32, and of the calibrator's steps three are not. The numbers of a cell lie
on both sides of the narrow type's range, and one is beyond what float32 has. `MaxLaunches`, `MaxEdits`, `MaxCalls`, `MaxRuns`, `Rounds` (three in the
code as well) and the sizes in `MCDataPaths.cfg` are the bounds; the tallest
counters are program counters.

Symmetry is used in the ledger runs only, which check no liveness.
`CHECK_DEADLOCK FALSE` stands in `async_full_queue`, where being stuck is the
subject, and in the two runs of `MCLauncher`, `readers`, `data_paths` and `voting`,
which stop when launches, calls or the input are used up.

Fairness. Workers (`WF` of `WorkerStep`): the operating system runs every
thread, `commit_fn` and callbacks return, sleeps end. `EnqueuePut` and
`StopStep`: the same for the caller's thread, and deadlines pass. Nothing
obliges the caller to call `start`, `enqueue` or `stop`, and weak fairness of
`WorkerStep` as a whole does not promise that `commit_fn` ever succeeds. In
`Phase2Pipeline`, `FlushStep` is fair because a call goes on until it ends and
`Close` because the callers close their pipeline (`run_stage.py:228`). In
`Replay` the main thread and each worker are weakly fair: a program runs to its
end, `submit` returns or raises, deadlines pass. In `LedgerReaders` the cache's
threads run (`WF` of `SyncWorks`), and a query that can fail does not fail for
ever (`SF` of `QueryHistory`), without which no cache could promise anything.

## 4. Properties

- `NoEventLost`: an event not yet accounted for is in exactly one of the
  caller's hand, the queue and one worker's hand.
- `ZeroLossHonest`: `zero_loss` is true exactly when every submitted event is
  accounted for.
- `GivenUpAfterEveryAttempt`, `CleanDrainReports`, `OrphansOnlyAfterUncleanStop`:
  attempts, what a caller may rely on after a clean drain, threads nobody joins.
- `ContractSpec`: the service implements `SubmissionContract`.
- `EventuallyAccounted`, `StopReturns`: liveness.
- `TamperEvident`: the integrity check passes only if every record is the one
  that was logged, and raises no false alarm, across reloads.
- `TablesMatchChain`, `FileFollowsChain`: tables, registered agents and file
  agree with the chain after failures and restarts.
- `LogSpec`: the mock ledger is an append-only log, durability included.
- `ReturnedIsKept`, `EvidenceForEveryRecord`, `RootsMatchRecords`,
  `CloseAnchorsAll`: the pipeline, see the module. `EventuallyAnchored`: a
  batched event whose submit returned gets to the ledger, unless the process
  ends or the event is `Blocked`, behind one that is on the ledger already.
- `ZeroLossMeansAnchored`: when stop was clean, nothing is missing or
  dead-lettered and the pipeline is closed, every event is on the ledger once
  and the audit cannot fail. `OneUserOfPipeline`: the main thread closes only
  when no worker is or can get inside. `TrialEnds`: liveness.
- `EvidenceIsWhole`: evidence of a logged event is whole, but for files a power
  failure emptied and for two attempts that shared a temporary file.
  `ReportIsJust`: nothing altered before a report is VERIFIED in it, nothing
  unaltered is TAMPERED, and INCOMPLETE is no event on its way.
- `CacheIsOneSnapshot`, `CacheGoesForward`, `LoggedIsCached`: the cache.
- `ChannelIsAppendOnlyLog`, `ReceiptsNameTheRecord`, `VerdictsAgree`: the chaincode.
- `CompletedExportIsCurrent`, `AlertsComeFromTheirModel`,
  `ReplayIsOfTheAudited`, `CompletedMeansWhole`: what a completed training, a
  completed run's hand-off, a replay and a manifest vouch for. Of the hand-off
  this is: its provenance is the version its alerts name, smoke alerts are
  anchored as such, and, if the run trained the detector, the alerts and the
  hashed bundle are that detector's. If it did not, version and detector may
  differ (section 6, 4).
- `SplitsAreSound`, `ComparisonIsOfOneFit`, `ThresholdsOnlyImprove`,
  `GateIsEfficient`, `AdmittedAsProduced`, `ProofsFitTheirBatch`: each states
  what its algorithm is for, against a definition that does not compute it the
  same way.

What these runs showed on the way, and the properties therefore leave out:

- A row with a missing cell elsewhere in its chunk hashes differently
  (02:104), so a duplicate flow can end in two splits (`MixedTypes`).
- Two attempts that share a temporary file can leave a torn file for good when
  one of them never finishes; `is_file()` then keeps it (`shared`, `cut`).
- Severity and anchoring decision of an alert are in no digest; an edit below
  the sixth decimal is in none either; a NaN feature is refused. With
  `AnchoringPolicy` rounding moves the gate by up to half a decimal.
- A number that float32 does not have is rounded when its column is a float one,
  which one missing cell in the first rows makes of an integer column, and
  nothing checks it (02:182); an integer column that has a missing cell only
  later ends the script.
- 08 chooses the operating points in the scores of the calibrator with the lowest
  ECE, which need not be the isotonic one (08:281-283), and over float32; 09 and
  10 use them with an isotonic calibrator of their own over float64 (09:141,
  10:246). What "efficient" and the target mean is therefore a matter of 08's
  scores; the detector in deployment may cover fewer attacks, of the same flows.
- If the deployed target has no row of its own (08:325 drops repeated
  thresholds), 09 exports no gate and 10 falls back to 0.5. If no target has
  one, the table has not even a header, and 09 ends in `read_csv` (09:175).
- The restart of a caller that submits its events again is enough to block the
  batch of section 6, 3: no failure of the ledger is needed.
- Alerts made up by the load generator carry the calibration error the deployed
  model was measured with (`alert_builder.py:173-187`).
- After an export interrupted between bundle and card, the provenance of a run
  in mode `existing` has the hash of the new bundle next to the old card (section
  6, 4), and alerts that script 10 alone makes then have the old card's version.
  The identity of a model does not cover its calibrator and gate (09:205-212). A cached file that was cut short makes
  every later training fail (05:374, 06:331, 08:208). The error of a failed run
  stays in a manifest that is resumed and completes (`main.py:289`).
- The second of two attempts to log an id is refused also when the first one's
  answer was lost (`securitylog.go:116`), which looks like a failure to its caller.
  An empty history is `null` in JSON, over which `fabric_gateway.py:104` cannot iterate.
- After a reload the mock ledger's entries have no transaction id and no block
  number (`mock_ledger.py:182`), which only `audit_cli.py:58` prints.
- Leaves and inner nodes of a Merkle tree are hashed alike, and a batch with its
  last leaf repeated may have the root of the batch (`Repeats`).

## 5. Proofs

Eight modules hold theorems, each about the module of TLC's runs as it is. A
theorem holds for all values of the constants that satisfy the named
assumptions; TLC evaluates these in every run. The pattern is the same
everywhere: a strengthening that is inductive, a lemma for the initial states,
one lemma per action or group of actions, and a step of temporal logic.

| module | theorems | the inductive invariant, and why the property alone is not inductive |
|---|---|---|
| `AsyncSubmissionProofs` | `TypeCorrect`, `NothingIsLost`, `GivenUpLast`, `ZeroLossIsHonest`, `ServiceImplementsContract` | `IInv`: types, `NoEventLost`, and `AttemptsTravel`, without which neither the number of attempts nor the contract's count of tries is known once an item has been through the queue. `CountersInv` equates each counter with the size of a set of events; two sums of sizes are equal only if the sets are |
| - its `stop` | `NoSilentOrphans`, `DrainedMeansReported` | `ThreadsInv`: during the joins of a clean stop, live threads are still to be joined; after it there is none. `ResultsInv`: an event with a result is reported, or about to be, or its thread crashed in the callback |
| `Phase2PipelineProofs` | `ReturnedStaysKept`, `RecordsHaveEvidence`, `ClosedIsAnchored`, `RecordsMatchTheirRoot` | `PInv` adds how far a flush has come (`FlushProgress`) and that the payloads of the batch are stored (`PendingStored`), without which a flush could write a record that has none. For the roots: what a flush has recorded so far is the beginning of its batch, also when an earlier flush recorded it |
| `ReplayProofs` | `OneUser`, `ZeroLossIsAnchored` | `ServiceInv` carries `IInv` and `CountersInv` of the service over, and says that nobody gets to `close` before every event is committed. `KeptInv`: what is committed is on the ledger or in the batch, and nothing is on the ledger twice |
| `MockLedgerProofs` | `NoTamperingPasses`, `TablesAnswerFromChain`, `FileIsAPrefix`, `LedgerImplementsLog` | `LInv` describes chains by the records that were logged: the link of every block is the hash it was appended with (`Linked`), also where the record was changed since, and the newest block's own hash is true, which is why a change in the newest block is seen as well. The file is behind memory (`FileBehind`), and acknowledged records are in it. A reload shortens the log to the file's records, which are the beginning of it |
| `LedgerReadersProofs`, store and auditor | `EvidenceStaysWhole`, `ReportsAreJust` | `SInv`: who holds which inode, a torn inode has someone who will still write it or a reason on record, and an event outside `shared` has one attempt at work. `ReportInv`: a file altered before the report began is not written again |
| - cache and channel | `OneSnapshot`, `NoStepBack`, `ReceiptsAreTrue`, `VerdictsNeverClash`, `ChannelImplementsLog` | `CInv`: who holds the lock has set what its position says, and without a join that gave up one thread syncs at a time, with an answer no older than the cache. `ChInv`: keys of events hold events, validation let one of them through, receipts and peers follow the order |
| `LauncherProofs` | `ExportsAreCurrent`, `AlertsAreTraced`, `ReplaysTheAudited`, `CompletedRunsAreWhole` | `IInv` is `LaunchInv` (the training's files, the plan and the maps between them), `StagesInv` (each stage with the part of its directory that its remaining steps imply), `Completed` and `LauncherInv` (what the steps the launcher has behind it left there). A stage whose launcher was killed works on beside another one; what a completed directory has whole, no step of either takes away (`DirKept`). For `AlertsAreTraced`, `OwnInv` on top: the rows a launcher's stage holds have the version of the card on disk (`RowsOf`), and nothing rewrites a card while a launcher's stage works; after a plan's scripts bundle, card and alerts are one detector's (`Trained`), and stay so until its phase 1 has saved its hand-off, because in a plan that trains no phase comes before the last script (`TrainsFirst`) |
| `DataPathsProofs`, splits | `SplitsOfAnyFileAreSound` | `SplitsInv`: every hash is of its row and of the type of some chunk (`Hashed`); the plan follows the order of the file, keeps rows of different hash and has a row that is not for training (`Planned`), without which the train fold would never be written; until such a row is read the train rows are complete up to there, and from then on the fold is closed (`Before`, `After`). The median is the k-th number by counting; that there is one, and that at most half lie on either side, are lemmas (`OrderStatistic`, `MedianIs`) |
| - comparison | `ComparesOneFit` | `CompareInv`: a row that is saved is about the scores that are there, also while another one is being fitted or is half written |
| - thresholds | `SearchOnlyImproves` | `SearchInv`: the thresholds with the best candidate in place have the score `best`, and what was tried since the last improvement is not better |
| - gate | `DeployedGateIsEfficient` | `GateInv`: the grid holds every score that matters, and each point is the least volume that covers its target. A threshold between two scores anchors what the next score anchors, so the grid is enough. While no target has a row, each target seen so far takes anchoring everything |
| - alerts | `AdmittedIsAsProduced` | `PathInv`: as long as nobody was caught, a reader may rely on every field of the alert that its digest covers (`Faithful`), and an event that was edited does not match its digest. Lemmas about rounding: once rounded stays, equal rounding means close |
| - Merkle batches | `ProofsAreOfTheirBatch` | `MerkleInv`: the level is the one reached from the batch in as many steps as the proof is long (`Climbs`), and the proof so far leads from the leaf, and from no other digest, to the node (`Leads`). Nodes of different height differ (`Nodes`), so equal roots have trees of equal height, and equality goes down level by level to the leaves |
| `SequenceLemmas` | none listed | `Selected` and `Begins`, and induction |

Assumptions. `ServiceAssumption`, `PipelineAssumption`, `ReplayAssumption`,
`LedgerAssumption`, `StoreAssumption`, `AuditAssumption`, `CacheAssumption` and
`SecurityLogAssumption` say that sets are finite where sizes are counted,
capacities and attempts are at least one, and markers such as `None` are none of
the values. So do `DataAssumption`, `ContentAssumption`, `LauncherAssumption`
and `ValueAssumption` of the launcher; its commands are those that `main.py`
accepts. `ComparisonAssumption`: the members of the vote are models of a program
and the two orders have the same labels. `ThresholdAssumption`: labels are
distinct, the grid has 1.0 in it (`06:131`), scores are exact numbers.
`GateAssumption`: the calibrator is monotone, the uniform grid goes up to 1, and
the targets fall and have the deployed one among them (`08:310`, `09:65`).
`PathAssumption`: numbers are integers of the model's unit. `MerkleAssumption`:
a digest is no pair of digests, which is what a hash function is for.
`SplitAssumption`: cells are numbers or one of two marks, chunks are not empty.

`ZeroLossIsAnchored` is where the parts meet: it uses the invariants that
`AsyncSubmissionProofs` shows of the service, because every step of a trial but
the synchronous submit is a step of the service or leaves it alone.

Induction. The library's induction theorems cannot be used, but that a set of
numbers with 0 in it and closed under successor has every number can be shown
from the least number outside it (`LeastNumber`, `Induction`, `InductionUpTo`).
With it `Selected` (which takes the place of `SelectSeq`), the levels of a Merkle tree and the rounds over the grid
are reasoned about for every length. The functions `f` that such a proof speaks
of are defined by their equations (`Climbs`), which TLC cannot enumerate:
`MerkleInv` is the one invariant that was not model-checked before it was proved.

Only model-checked: the liveness properties (`EventuallyAccounted`,
`StopReturns`, `EventuallyAnchored`, `TrialEnds`, `LoggedIsCached`), because
fairness and `ENABLED` are beyond the prover.

## 6. Where the code and its documents disagree

1. `async_full_queue`: the worker's own requeueing put (`async_pipeline.py:278`)
   blocks on a full queue. If it is the only worker, nobody makes room and no
   event gets a result, against the docstring at 200-203. The capacity is
   100,000 by default, so it takes a long outage.
2. `async_crash`: `stop()` returns True although a callback ended a worker
   (`docs/stability_test.md:23` says a crashed worker would fail this).
3. `pipeline_close`: a flush that fails half way poisons the batch; later
   flushes and `close()` are refused at the first recorded event and leave the
   rest un-anchored (`pipeline.py:149-150`).
4. `launcher_artifact`: `prepare()` compares the alerts' version with the card
   only, and hashes whatever bundle is there (`run_stage.py:191-194`). After an
   export that ended between the two, alerts are anchored under a digest over a
   bundle that did not produce them, or over one that was cut short. The same
   export misleads script 10 run alone, as `main.py:145-147` advises when the
   alerts are missing: it scores with the bundle and takes the version from the
   card (10:208-216), so `prepare()` accepts the new detector's alerts under the
   old one's identity.
5. `voting`: `05_compare_models.py:434-437` saves the columns of `predict_proba`
   under the configuration's class names, but LightGBM and CatBoost return them
   in alphabetical order. The reordering before the average (05:466-469) is
   then the identity, and the ensemble adds columns of different classes. The
   shipped `voting.json` shows it: DDoS recall 0.41 where both members have 0.69,
   while Benign and Infiltration, which have one place in both orders, are right.
   `07_metrics_report.py:62-75` reads the same files.

## 7. Plan

Done: the service with contract and proofs, the mock ledger, the pipeline, the
replay, store and auditor, cache, launcher with stages, chaincode, the file
protocol and the algorithms of Phase 1, the alert path, Merkle batches; a
theorem for every safety property the runs check and for every refinement.

Left: the hand-over from `Replay` to `Launcher` as one composition instead of
two that meet in `audited`; shorter proofs.

## 8. Not modelled

Kafka, IPFS and a running Fabric network are external systems that no code path
here can reach; the gateway's connection step always raises, so the channel is
modelled from the chaincode's side. Fitting, hyper-parameter search, feature
ranking, calibration fits, statistics and plots are numerical and have no state
that outlives a step; their files are in `DetectorExport`. Canonical forms are
string algorithms that the repository's own cross-language vectors test; which
fields they cover is in `AlertPath`. The comparative benchmark and the report
generators (`generate_phase2_results.py`, `generate_phase3_results.py`) measure
time and write tables, which the models leave out; `11_demo.py`, `predict.py`,
`predict_csv.py` and the other tools of `P1` are straight-line scripts over an
exported bundle; `02_prepare_OLD.py` is run by nothing. The resource monitor's
samples decide nothing.
