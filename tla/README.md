# Formal model of crypto-quant's capture and storage pipeline

TLA+ modules, TLC configurations and TLAPS proofs for the parts of
`crypto_quant` (Python 3.12, `src/src/crypto_quant/`) whose correctness depends
on order, failure or history: realtime capture, gap registration and recovery,
durable commits, leases and retention. Everything is translated from the source;
`PROJECT.json` maps each definition to the lines it stands for.

## 1. Inventory of the system

The platform collects market data from Binance and Bybit (archives, REST,
WebSocket), keeps raw evidence immutable, publishes normalized Parquet
generations, and records what it did in append-only manifests, checkpoints, a gap
registry and a deletion ledger under `control/`.

| component | source (under `ingestion/` unless noted) | state it keeps | operations | interacts with |
|---|---|---|---|---|
| realtime session | `realtime_session.py` | state machine, bounded asyncio queue, consumer task, counters | `push_envelope`, `start_consumer`, `_consumer_loop`, `transition_to`, `close_session` | raw segment writer; called by the supervisor's callers |
| raw segments and normalization | `realtime_envelope.py` | `.jsonl.partial` and sealed segment files | `write_envelope`, `seal`, `recover_stale_ws_partials`, two normalizers | session; start-up recovery |
| stream supervisor | `realtime_supervisor.py`, `reconnect.py` | active session, reconnect count, last event time, last gap | `create_new_session`, `handle_disconnect`, `trigger_gap_recovery` | session, gap registry, recovery thread |
| gap registry | `gap_registry.py` | append-only JSONL, last record per gap id wins | `register_gap`, `update_gap`, `list_gaps` | supervisor, recovery, soak, retention, health |
| gap recovery | `realtime_recovery.py` | recovery files | `perform_gap_recovery`, `verify_trade_id_continuity` | REST endpoints, gap registry |
| liquidation collectors | `binance/liquidations.py`, `bybit/liquidations.py` | frame buffer, raw JSONL, Parquet generations, manifest, checkpoint, quarantine | `collect_live_*`, `persist_*`, `merge_and_write_*`, `quarantine_*` | WebSocket, file store |
| liquidation soak | `liquidation_soak.py` | attempts, outcomes, gaps, summary | `_run_stream`, `run_liquidation_soak`, `reconcile_liquidation_run`, `audit_liquidation_data_root` | collectors, gap registry |
| OHLCV | `binance/spot_ohlcv.py`, `ohlcv_v2.py`, `bybit/ohlcv.py` | monthly Parquet, manifests, checkpoints, gaps | `commit_month`, `commit_rest_tail*`, `commit_rows`, `fetch_*`, `find_gaps`, `recover_stale_partials` | REST, archives, catalog |
| spot trades | `binance/spot_trades.py` | writer lease, day partitions, manifest, checkpoint | `acquire_writer_lease`, `commit_day`, `plan_retention`, `apply_retention` | archives, other collector processes |
| other trade sources | `binance/usdm_trades.py`, `binance/aggregate_trades.py`, `bybit/trades.py` | day partitions, manifests | `commit`, `commit_bybit_trade_day`, batch builders | as spot trades, whose commit they share the shape of |
| open interest, funding | `{binance,bybit}/{open_interest,funding}.py` | yearly Parquet generations, raw JSONL, manifests, checkpoints | `ingest_*`, `fetch_*_history`, `merge_and_write_oi_parquet` | REST |
| trade buckets | `trade_buckets.py` | derived Parquet with lineage | `build_buckets` | trade manifests |
| reconciliation | `reconciliation.py` | append-only metrics | `reconcile_trade_datasets` | trade sources |
| retention | `retention.py` | holds, deletion ledger | `HoldRegistry`, `enforce_retention_policy` | gap registry, file store |
| health and DQ | `health.py`, `dq_baseline.py` | none (pure measurements), DQ profile | `compute_collector_health`, `build_dq_baseline` | gap registry, manifests |
| catalog | `storage/catalog.py` | DuckDB views | `resolve_active_artifacts`, `build_catalog` | every manifest |
| paper-trade lifecycle | `lifecycle.py` | none (validates revision chains) | `validate_revision_chain` | contracts |
| configuration, CLI, contracts, logging | `cli.py`, `config.py`, `contracts.py`, `paths.py`, ... | none | validation and wiring | - |

### What is hard about it

* **Realtime session**: producers, the consumer and closers interleave at every
  `await`; a producer can be suspended inside `push_envelope` while the state it
  tested changes; the drain timeout races the consumer's end; cancellation can
  hit any of them. Correct means: no envelope whose push returned leaves the
  session's sight, order per producer is kept, the counters audit, a failed write
  is reported, CLOSED means drained and sealed, and every close ends.
* **Segments**: a crash leaves a `.partial`; recovery renames every partial it
  finds, without asking whether a live session writes it. Correct means: what was
  fsynced stays readable, and a sealed segment never changes.
* **Supervisor, gap registry, recovery**: a gap is registered only after the old
  session has closed; its end is the disconnect, not the reconnection; recovery
  runs in a thread on a record the event loop still mutates; the registry is
  append-only and a torn line makes it unreadable. Correct means: every outage is
  inside a registered gap, RECOVERED is only said of a complete sequence, a gap
  never loses its history.
* **Liquidations**: raw file, Parquet, manifest and checkpoint are written in
  turn and a crash may separate them; frames are buffered between flushes and an
  error path may forget them. Correct means: a checkpoint never runs ahead of the
  manifest, a manifest row never names a missing artifact, a lost interval is a gap.
* **OHLCV and trades**: a multi-file commit restarted after a crash at any step;
  a writer lease that two processes may steal at once; a retention plan that is
  stale when applied. Correct means: one writer, idempotent commits, nothing
  deleted that a manifest still names and nothing deleted without a ledger entry.
* **Retention**: holds are read-modify-written by several processes; a torn hold
  file reads as "no holds"; the file is unlinked before the ledger says so.
* **Catalog**: reads what every commit has left, at any moment. Correct means: it
  can be built, and shows what a returned commit stored.
* **Lifecycle, reconciliation, buckets**: pure functions over histories of records;
  correct means they agree with a declarative reference.

The hazards, each at its line, are listed in `PROJECT.json`.

## 2. Plan

| order | module | models | composition and abstract specification | runs | theorems |
|---|---|---|---|---|---|
| 1 | `RealtimeSession` (done) | queue, consumer, close protocol, segment writer | history of written envelopes | `session`, `session_silent_drop` | types, conservation, per-producer order, counters, close protocol |
| 2 | `GapRecovery` (done) | supervisor, registry, recovery thread, feed and REST server, crash | RECOVERED as a property of trade ids | `gap_recovery`, `gap_outages`, `gap_recent_window` | types, RECOVERED means recovered, registered holes, honest completeness |
| 3 | `DurableLog`, `LiquidationCapture` (done) | collector loop, persist steps, soak's gap accounting, crash | `DurableLog`, refined | `liquidation_capture`, `liquidation_handshake_loss` | types, files and audit, refinement, frames, outages, counts |
| 4 | `DatasetCommit` (done) | the seven commits of OHLCV, open interest, funding and trade archives; stale partials; restart; the catalog's resolution | `DurableLog`, refined | `dataset_commit`, `catalog_year_turn` | types, files, refinement, gap records, catalog |
| 5 | `TradeStore` (done) | lease, `commit_day`, buckets, plan and apply of retention, two writers, kills | writers, builder, retention job and catalog composed on one root | `trade_store` | types, exclusion but for a theft, minutes, ledger, catalog |
| 6 | `Retention` (done) | holds, gap and conflict snapshots, unlink and ledger, crash | the sweep composed with three registries | `retention`, `held_artifact_lost` | types, evidence, ledger, holds |

What would come next is under "Not modelled".

Modules that are proved about use functions and folds, never RECURSIVE
operators; each component's proofs are in a module `<Component>Proofs` of their own, and the
facts about finite sets and sequences several of them need in `CommonLemmas`. Every
invariant and every action property of the passing runs, and both refinements, are proved for
all values of the constants; a theorem assumes nothing but the named assumption of its module.
What the provers cannot do stays with TLC: the liveness properties (`CloseEnds`,
`BackpressureReleases`, `RecoveryEnds`, `RunEnds`, `RepeatsReturn`), as neither fairness nor
ENABLED is in their reach, and the runs that refute a claim.

A proof has always the same shape: an invariant that is inductive, because it says what each
step in the middle of an operation has already done, one lemma for each group of steps, a lemma
for the steps that touch nothing of it, and a last step that derives the property.

## 3. `RealtimeSession`: the capture session

### State and steps

| model | code |
|---|---|
| `state`, `ValidTransitions`, `TransitionTo` | `meta.state`, `VALID_TRANSITIONS`, `transition_to` |
| `queue`, `putters`, `push` | the `asyncio.Queue` behind `BoundedWsEnvelopeQueue`: its items, its blocked `put`s oldest first, and where each producer's `push_envelope` is suspended |
| `PushEnvelope` | `push_envelope` up to its first suspension: the state test, the counter, and `put` either appending at once or joining the waiters |
| `ResumePush` | the waiter after its wake-up: it tests `full()` again and may wait again; nothing tests the session's state again |
| `CancelPush` | the task in `push_envelope` is cancelled; an unused wake-up goes to the next waiter |
| `consumer` | `_consumer_task`: not created, runnable, holding the loop, suspended in `get`, woken, or ended with a result, an exception or a cancellation |
| `ConsumeEnvelope`, `WriteFails`, `NormalizeFails` | one turn of `_consumer_loop` with an envelope: written and fsynced; or the write raises; or normalization raises after the write |
| `ConsumerWait`, `GetTimeout`, `ConsumerExit` | an empty queue: `wait_for(get, 0.2)`, its expiry, and the stop |
| `CloseSession`, `CloseReturns`, `CloseRaises`, `DrainTimeout`, `CloseTimedOut` | `close_session` up to the `await` of the consumer; its three ways out of it; the `except TimeoutError` branch |
| `written`, `sealed`, `handle` | the segment writer's file: lines fsynced so far, how many are in sealed segments, whether a partial is open |
| `abandoned`, `lost`, `owed`, `early` | history: cancelled pushes, failed writes, what had been pushed when draining began, and whether a close came before ACTIVE |

A step is what one task does between two suspensions. Two facts of Python 3.12
shape it: `wait_for` awaits the inner coroutine in the same task, so a `get` on a
nonempty queue does not suspend and the consumer keeps the loop from envelope to
envelope (`consumer = "running"`, during which no other task moves); and when a
timeout fires after the item arrived, the item stays in the queue, as
`Queue.get` removes it only when its task runs. asyncio itself is modelled from
how the session uses it (map entries marked external).

Left out: telemetry (watermarks, waits, lag), timestamps, the content of
envelopes and what normalization produces. `put`'s own `timeout` parameter is
never passed by the session. Callers are assumed to start a consumer
only while they set a session up (CREATED, CONNECTING, ACTIVE), as every caller in
the repository does; connect, close, cancel and push in any order, or never.

### Runs

`session` (`MCRealtimeSession.cfg`): two producers with two envelopes each over a
queue of one, two closers, every failure, cancellation and timeout: 261,060
states. A queue of one makes every push but the first block, lets a push barge in
front of a woken one, and lets two pushes wait at once, which is what wake-ups can
go wrong on; two closers are enough for a close to find another one draining,
timed out or failed. Larger instances add envelopes, not situations, and the
theorems below hold for all of them.

| property | what it shows |
|---|---|
| `TypeOK` | types, and the queue never exceeds `queue_maxsize`, although pushes are woken and barge |
| `NoEnvelopeVanishes` | an envelope whose push returned is written, queued, or the failed write, and in one of these only |
| `FifoPerProducer` | what a producer pushed is written in that order, once |
| `CountersAudit` | received, enqueued, dequeued and written differ by exactly the pushes in flight, the queue and the failed writes |
| `LossIsReported` | a failed write leaves the session FAILED, whatever closes race with it |
| `ClosedIsSealed` | CLOSED: no open partial, no live consumer, everything sealed |
| `GracefulDrain` | CLOSED: what had been pushed when draining began is on disk |
| `CloseEnds` | a close that awaits the drain ends, whatever happens to the consumer |
| `BackpressureReleases` | a blocked push moves on as long as the consumer lives |

The last three safety properties carry a premise the code forces: `close_session`
called while the session is CREATED or CONNECTING leaves the stop flag set for
good (in CONNECTING it then raises `ValueError`, `realtime_session.py:273`). A
consumer of such a session leaves as soon as its queue is empty, and a later close can report
CLOSED over it. `early` records that it happened; no property catches that
misuse, which no caller in the repository commits. `BackpressureReleases` likewise says nothing once the
consumer has died: the pushes blocked then wait for ever.

`session_silent_drop` (`MCSilentDrop.cfg`) refutes the module's docstring,
"Zero silent drops" (`realtime_session.py:5`): a push blocks on the full queue;
`close_session` sets the stop and waits; the consumer takes the last envelope,
which wakes the push, finds the queue empty and the stop set, and ends; the woken
push appends its envelope and returns normally. The session becomes CLOSED and the
envelope is neither written nor reported. `GracefulDrain` is the part of the
promise that does hold.

Fairness (`FairSpec`): tasks the event loop has made ready run (weak fairness of
the consumer's steps, of woken pushes and of closers), and armed timers expire
(`GetTimeout`, `DrainTimeout`). Nothing is assumed of callers. The session may
stop for good when nobody calls it, hence `CHECK_DEADLOCK FALSE`.

### Proofs: `RealtimeSessionProofs`

For every set of producers and closers, every capacity and every number of
envelopes, from `SessionAssumption` (the constructor's `maxsize > 0`) alone:

* `TypeCorrect`: `TypeInv` = `TypeOK` with `WaitersOK` (the deque of waiters lists
  waiting pushes, none twice). `TypeOK` alone is not inductive: waking the head of
  the deque needs to know whom it names.
* `ConservationInductive`, `Conservation`: `NoEnvelopeVanishes`, strengthened by
  the queue's distinctness and by cancelled envelopes being pushed and no longer in
  flight. Every step either moves one envelope between two of the places or
  moves a push between in flight, returned and abandoned.
* `CloseInductive` and from it `LossReported`, `SealedWhenClosed`,
  `DrainIsGraceful`. `CloseInv` relates the stop flag, the state, the consumer's end and
  what each closer was told: without it a closer that was told "done" could seal
  beside a consumer somebody restarted.

The lemmas on `Append`, `Tail` and `RemoveAt` state what these do to the set and
the distinctness of a sequence's elements.

* `TypesHold`: `TypeOK`.
* `OrderInductive`, `FifoHolds` (`FifoInv`): the file and the queue are in order for each producer, and
  what is written is before what is queued; a producer pushes one envelope at a time, so the one that
  arrives comes after all its others, however pushes overtake each other.
* `CountersInductive`, `CountersExact` (`CountInv`): the sets whose sizes the audit counts are finite, and
  a step that changes a counter changes one of them by one element, which by conservation is new to it.

Liveness stays with TLC (the prover has no fairness).

## 4. `GapRecovery`: outages, the gap registry and REST recovery

### State and steps

A trade is its id; the exchange executes 1, 2, 3, ... (`feed`). One process captures
one stream; everything on disk survives its end.

| model | code |
|---|---|
| `session` | no session; a live socket; the socket lost; `handle_disconnect` awaiting `close_session`; the gap registered and not yet annotated; a dead consumer; no process |
| `cursor`, `written`, `Queued` | the last trade the socket handed over; the last one the consumer has taken off the queue; what it has still to write |
| `Connect`, `Deliver`, `Write`, `WriteFails` | `create_new_session` and the caller's connect; its receive loop (a push that does not block: `RealtimeSession` is about those that do); the consumer's turn, of which a failing write loses the trade it has dequeued, and the queue with it |
| `HandleDisconnect`, `CloseDrained`, `CallerFails` | `handle_disconnect` up to its `await`; the two ways `close_session` ends: the queue is drained and the gap registered in the same step, or the consumer's exception goes through the callers |
| `AnnotatePre`, `AnnotatePost`, `open` | the callers' protocol: `pre_gap_last_trade_id` after the disconnect, `post_gap_first_trade_id` in the next session, each followed by `update_gap` |
| `registry` | what `list_gaps` returns: the last line of each gap |
| `memory` | the status in each `GapRecord` object, which the caller and every thread that got it share, and which `update_gap` writes to the registry |
| `job` | the threads of `perform_gap_recovery`: requests, file, registry |
| `TriggerRecovery` | `trigger_gap_recovery` with any registered gap: one still being annotated, one another thread is recovering, or one that is RECOVERED |
| `contended`, `halfDone` | history: gaps two recoveries of which have overlapped, until one starts alone; gaps whose file a recovery has opened and not reported on |
| `FetchPage`, `EmptyPage`, `FetchRecent`, `FetchFails` | one turn of the Binance loop with its three exits; the single Bybit request; an exception |
| `Contiguous` | `verify_trade_id_continuity` |
| `EndFetch` | the end of the requests: the record in memory gets its status before anything is written |
| `OpenFile`, `WriteFile`, `FinishRecovery`, `RecoveryRaises` | `open("w")` empties the file, the items are written (over what another thread's handle has put there), the record as it then is in memory goes to the registry; an `OSError` in between |
| `Crash`, `Restart` | memory, queue and threads are lost at any step |
| `Completeness` | how `health.py` derives completeness from the statuses |

The servers are external and adversarial: an answer is any run of at most `Limit`
executed trades from the asked position, also shorter than what exists, or nothing;
a refused `historicalTrades` request is answered by `/trades`. The callers' protocol of notes is
that of `scratch/run_7c_smoke.py` and `tests/test_realtime_reconnect_gap.py`, the only
callers. When they trigger a recovery is left open: nothing in `trigger_gap_recovery` or
`perform_gap_recovery` looks at the gap's status or at another thread.

A close that times out is not modelled here: nothing pushes while `handle_disconnect` awaits the
close, and the consumer empties the queue without suspending (section 3), so that the
drain timer cannot fire over a queued envelope; over an empty queue it changes nothing the gap
depends on.

Left out: timestamps (and with them `gap_start`, `gap_end`, the reconnect delay and the
backoff: recovery works by ids), `recovery_*` metadata, notes, the test-only
mock path, `last_gap`, which nobody reads, torn registry lines (every
reader raises on one), and `audit_revision_previous_smoke_gap`, a one-off correction
of one named gap.

### Runs

`gap_recovery` (`MCGapRecovery.cfg`): one gap, three trades, one crash, one thread, pages of one
record and two pages at most, all endpoints: 916,829 states. A page of one record makes
a gap need several pages and lets a fallback page skip ids; one gap
suffices because a recovery touches no other gap's record or file, and one thread runs one
recovery after another, those of a recovered gap included. Two threads on one gap multiply the states
beyond what a run can visit beside crashes and several pages; that contention is left to the theorems,
which hold for any number of threads.

`gap_outages` (`MCGapOutages.cfg`): two outages, three trades, pages of one record, one page, no crash,
the endpoint with the fallback: 4,366,221 states. Two gaps let one be recovered while another is open,
and let a session deliver nothing between two outages.

| property | what it shows |
|---|---|
| `TypeOK` | types; the pages of a recovery stay below the bound |
| `RecoveredIsContiguous` | a gap RECOVERED from Binance has both boundaries and a recovery file with every id between them, whatever other recoveries of it have done, except while one of them has the file open or was cut short there, and until one that runs alone is done |
| `RecoveryEnds` | a recovery ends, whatever the servers answer |
| `HolesAreRegistered` | what the stream skipped between two deliveries belongs to a registered gap, whose known ids are the hole's two ends |
| `CompletenessIsHonest` | health says COMPLETE or RECOVERED only if every trade between the first and last delivered is in a segment, queued, or in a recovery file, as long as the session has not failed and no recovery is contended or half done |

The exceptions of `RecoveredIsContiguous` are what the code does. A gap that is RECOVERED may be
recovered again: `open("w")` empties its file while the registry still says RECOVERED, and a failure or a
crash there leaves it so until a later recovery has reported. Two recoveries of one gap share the
record, so that one may write down the status the other has proven for a file it is rewriting.

The last two properties are about one life of the process: nothing registers the outage a
crash causes, nor one whose `close_session` raises. A session that has failed has lost trades it had
taken, and says so itself.

`gap_recent_window` (`MCRecentWindow.cfg`) refutes strict invariant 1 of
`perform_gap_recovery`: the Bybit branch takes fewer rows than the limit for
coverage, with no boundary and no continuity check, so a gap without known
boundaries becomes RECOVERED. `RecoveredIsContiguous` and `CompletenessIsHonest`
therefore speak of Binance.

Fairness (`FairSpec`): weak fairness of each recovery thread's steps as a whole; each is an OS
thread and every request has a 10 s timeout. It chooses nothing among the answers. The bounds on trades, gaps and crashes let a run stop, hence `CHECK_DEADLOCK FALSE`.

### Proofs: `GapRecoveryProofs`

From `RecoveryAssumption` (positive limit and page bound), for every number of trades,
gaps and crashes:

* `TypeInductive`, `TypeCorrect`: `TypeOK` strengthened by what the gap under annotation and each
  thread's gap are: registered, with a status in memory. `PagesAreRuns` bounds what a server can answer.
* `RecoveryInductive`, `RecoveredMeansRecovered`: `RecoveredIsContiguous` strengthened by
  an invariant that follows a proven coverage from the check to the status in memory, from there to the
  file and to the registry, for gaps that are not contended; a thread alone on its gap is the only one
  to change the record's status and the file.

* `OutagesInductive`: `OutageInv` is what the next two rest on. `LineInv` says where delivered
  trades are and that nothing is queued between two sessions; `NoteInv` what the caller remembers:
  the last trade it received is the last one delivered, it has a gap open whenever its session has
  delivered nothing while an earlier one has, and that gap's record starts at the last trade
  delivered, or nowhere. `HolesInv` then gives each hole a record: one the caller has left behind, or
  the open one, if the session's first trade is the hole's end. A delivery makes a hole only as the
  first of its session, and then the open record fits it.
* `HolesRegistered`: `HolesAreRegistered`, for any number of outages, empty sessions included.
* `HonestCompleteness`: `CompletenessIsHonest`. A trade that was not delivered, between two that
  were, is inside a hole (`MissedIsInAHole`: the nearest delivered trades on both sides); the hole
  has a gap; the gap is neither open nor partial nor unrecoverable, so it is recovered, so its
  boundaries are known, which makes them the hole's, and its file holds the trade. A trade that was
  delivered is written or queued, as long as the session has not failed (`WriteFails` is what loses one).

`RecoveryEnds` stays with TLC (liveness).

## 5. `LiquidationCapture`: one stream of the liquidation soak

### State and steps

The task of one stream (`_run_stream`) with the collector it calls, for either
venue (`venue` is chosen initially). `pc` is the step the task is at.

| model | code |
|---|---|
| `StartAttempt`, `AttemptCompletes`, `AttemptFails`, `DeadlinePasses`, `FinishRun` | the attempt loop of `_run_stream`: connect again until the deadline or `max_attempts`, count, classify, remember the outage |
| `CompletionFails` | an attempt ended well, and its gap or its session record cannot be written: both are inside the `try` |
| `outage`, `RegisterGap`, `gaps` | the failed attempt whose interval is still to be registered, and when and with which reason it is |
| `Connect`, `BinanceSubscribed`, `BybitSubscribed`, `ReceiveEarly`, `Pong`, ... | connect, subscription and its acknowledgement; Binance buffers the frames that precede it, and pings before it receives |
| `Receive`, `PollTimesOut`, `ReceiveFails`, `StopReceiving`, `TurnEnds` | the receive loop, its flushes after `FlushAt` frames, an idle poll or an error |
| `BinanceVerdict`, `BatchVerdict`, `Rejected`, `Accepted`, `NothingToStore` | parsing and quality checks of a whole batch, which reject it whole |
| `WriteRaw`, `WriteParquet`, `AppendManifest`, `WriteCheckpoint` | the durable steps of `persist_*`, of which any may raise (`StepFails`): classified as the code does, by words of a message that may quote a path with `symbol=` in it (`IOReasons`), and tearing Bybit's checkpoint if it was that one |
| `Merge`, `NewRows`, `parts` | the merge with the largest generation of the year |
| `QuarantineBuffer`, `QuarantineFails` | `_quarantine_failed_live_buffer` |
| `Crash`, `StartRun` | the process ends at any step; another run begins on the same root |
| `BrokenRefs` | what `reconcile_liquidation_run` and `audit_liquidation_data_root` look for |

Left out: `dropped_messages`, which neither production collector ever raises; the
other streams, which share the event loop and nothing else; torn manifest lines;
the fields of an event. The registration and update of a gap are one step.

### Runs

`liquidation_capture` (`MCLiquidationCapture.cfg`): both venues, frames of one day,
of another, of both, without events and rejected; flushes of two frames, three
frames received, two attempts, one end of the process: 2,104,265 states. Two
frames to a flush leave one in the buffer when the third arrives; two attempts
are a failure and what follows it.

| property | what it shows |
|---|---|
| `TypeOK` | types; a buffer is flushed when it is full |
| `CommitsLikeALog` | raw, Parquet, manifest and checkpoint implement `DurableLog`: an atomic log whose checkpoint is never ahead, whatever is cut off |
| `AuditPasses` | the repository's own audit finds nothing missing, nothing twice, and a readable Binance checkpoint; a torn one of Bybit's, on which the audit raises (`liquidation_soak.py:718`), is excluded |
| `LargestIsWhole` | the largest generation of a partition, which readers take, has every row |
| `FinishedIsManifested` | a batch whose persistence returned is in the manifest with all its rows, although a row may be skipped for hashes found anywhere in the file |
| `FramesAreKept` | a received frame is in the buffer, stored or quarantined, but for three named losses |
| `EveryOutageIsAGap`, `GapNamesItsFailure` | at the end each outage is one gap, in order, explained by the failure that opened it |
| `CountsAreBacked` | the run never reports more new rows than it stored, though batches are replayed |
| `RunEnds` | a run ends, or Bybit never answers a subscription |

The exceptions are facts of the code: the interval of an attempt that never
connected lies in no gap, as the gap before it ends with its start; a failure
classified WRONG_SYMBOL opens no outage but replaces the reason of an open one; rows
persisted by earlier flushes of an attempt that fails are not counted; only Bybit's
checkpoint, overwritten in place, can be torn. An I/O error whose message quotes a path with the symbol counts as
WRONG_SYMBOL: the two gap properties take the code's classification for granted.

Fairness (`FairSpec`): the task is scheduled, every await that has a timeout is answered or
expires, and the duration runs out. The await of Bybit's answer to the subscription has none
(`bybit/liquidations.py:894`), so nothing is assumed of the collector there (`AwaitsBybit`): a Bybit
peer that keeps the connection alive and never answers holds the run past its duration, which is
the second case of `RunEnds`.

`liquidation_handshake_loss` (`MCHandshakeLoss.cfg`) refutes the acceptance report:
Binance frames buffered during the handshake are forgotten when the socket fails
between the acknowledgement and the receive loop.

### Proofs: `LiquidationCaptureProofs`, `DurableLogProofs`

From `CaptureAssumption` (a flush of at least one frame and one attempt at least; one event in a
Binance frame; verdicts are those of the code, days are numbers, and no frame is the marker of a torn
checkpoint), for every set of frames, number of attempts, runs and crashes:

* `TypeCorrect`, `TypesHold`: `TypeOK` with `TypeSupport`, which says what each step of an attempt
  finds: an empty buffer, room in it, a reason, partitions left to write.
* `FilesInductive`: `FilesInv` says what each step of a batch has stored already (`StepInv`), that a
  manifest row's files are there with its rows (`RowsAreBacked`) and no row is there twice, what a
  checkpoint may be, and that a partition's largest generation holds all of them; the last is
  inductive because a merge starts from the largest one. From it `AuditAlwaysPasses`,
  `LargestHoldsAll`, `FinishedStays`.
* `ImplementsLog`: the refinement of `DurableLog`. The raw file and a failing or repeated
  step stutter, a Parquet file is `Store`, the manifest row `Commit`, since by `StepInv` all the rows of
  the batch are stored, the checkpoint `Checkpoint`, and a torn one `Forget`.
* `FramesKept`: each step moves frames between the buffer, the raw files, the quarantine and the
  named losses (`FramesMove`), and forgets none.
* `GapsInductive` (`LoopInv`): each failed attempt has left one failure, and each failure so far a
  gap or the open outage, which an attempt that ends well closes, or, if that cannot be written, leaves. From it `OutagesAreGaps` and `GapsNameFailures`.
* `CountsBacked` (`CountInv`): what has been counted, flushed and is fresh is at most the number
  of rows stored; a generation adds at least the rows it is counted for, as every stored row is under
  its own day.

`WholeLog` and `NothingTakenBack` are what the abstract log itself promises, and so what the
refinements are worth: a committed batch has all its rows, the checkpoint names a committed
batch, and nothing is taken back. `RunEnds` stays with TLC.

## 6. `DatasetCommit`: seven commits and the catalog

The ingestion of OHLCV (monthly archive, REST tail, generation of rows), open
interest and funding (both exchanges), Bybit and USD-M trade archives writes each
batch in a few durable steps. `Order` is each code's own order of them; the
steps are actions, with the differences in how files are named
(`RawName`, `FileName`), replaced or kept (`Replaced`, `RepeatRaises`), merged
(`Merged`) and looked up in the manifest (`Recorded`). `LeaseRefused`
is Bybit's archive commit turned away by another writer of trades, whose lease `TradeStore` models; a lease that
a killed commit has left names a dead process and is taken over by the next one. `CommitFails` and `Crash` cut a
commit anywhere; a sweep of stale partials by a second process appears as a failed
publication. `Selected`, `ActiveHash` and `Resolves` are the catalog's resolution,
evaluated in every state, that is, beside a running commit too.

`dataset_commit` (`MCDatasetCommit.cfg`): every kind, overlapping, revised, spanning
and rejected batches, four commits, two cuts: 123,319 states. Two cut commits
and two whole ones let a repeat find what each of two cuts left behind.

| property | what it shows |
|---|---|
| `TypeOK` | types; what is pending, written and recorded belongs together |
| `CommitsLikeALog` | every kind but funding implements `DurableLog` |
| `CatalogResolves` | the catalog can be built in every state; for Bybit archives, after a commit that returned |
| `CheckpointHasGaps` | a candle checkpoint is ahead of no gap record, also after a repeat that finds part of it done |
| `ReturnedIsActive` | the catalog has a row for every time a commit returned, in cumulative datasets as far as its latest record reaches; values may be older ones |
| `RepeatsReturn` | after any leftovers the next uncut commit returns (weak fairness of the steps of the commit that runs; nobody is assumed to begin one, and one refused the lease has not begun) |

`catalog_year_turn` (`MCYearTurn.cfg`) refutes the storage report: the latest
open-interest record stands for the whole dataset but lists the partitions of
its own batch, so after a batch of another year the earlier years are not active.

What the properties exclude is what the code does: a USD-M commit repeated after a
cut between publication and manifest raises for good; a Bybit day is pinned
to the first archive stored for it, which has no checksum, and its file is
replaced before its row; funding replaces its year file with the
latest batch and rewrites its raw object in place; the merge of open-interest generations goes
through them in the order of their hashes, so of two older values for a time either may win;
a value that changes from a to b and back leaves b active, as both hashes
are in the manifest; overlapping and revised candle archives are all active; a Bybit bootstrap
is named after whole responses, so that a repeat publishes its candles twice; a gap file is
named after the gap's start only. Two processes on one partial are in
`TradeStore`, not here.

### Proofs: `DatasetCommitProofs`

From `CommitAssumption` (every batch has rows, one for a time, of times that have a partition; a Bybit
archive is of one day, as its URL is), for every set of batches, number of commits and cuts:

* `TypeCorrect`, `TypesHold`: the step is one of the kind's order; `TodoInv` says which partitions are
  left to write and that a record is never empty. The six orders are sequences of distinct steps,
  so that the step after a step is well defined (`GoOnIs`).
* `FilesInductive`: `MadeInv` (what the running commit has made is there and covers the partitions
  it is through with), `NameInv` (a file that is not replaced is named after its rows; a Bybit file
  holds the archive stored for its day), `RowInv` (a record's files hold the record's batch, with the
  recorded hashes unless they are replaced) and `OrderInv` (record before checkpoint).
* `ImplementsLog`: the refinement of `DurableLog` for every kind but funding, from `FilesInv`.
* `CheckpointsHaveGaps` (`GapInv`): a commit past its gaps has them recorded; gap records are never
  taken back, so a repeat that skips a step finds them.
* `CatalogInductive`, `CatalogReadable` (`CatalogInv`): a Bybit file has the hash of the latest record
  that names it unless its commit has begun and not returned. For the other kinds it follows from
  `RowInv`.
* `CoverInductive`, `ReturnedStaysActive` (`CoverInv`): a merged generation reaches as far as every
  one before it, so the latest record reaches as far as all of them in its partitions.

`RepeatsReturn` stays with TLC.

## 7. `TradeStore`: spot days, their buckets, and the retention job

| model | code |
|---|---|
| `LookForLease`, `TakeStaleLease`, `CreateLease`, `FillLease`, `ReleaseLease`, `LeaseAges` | `acquire_writer_lease`, between whose file operations others run; the heartbeat, which nothing refreshes; the `finally` of `commit_day` |
| `StoreRaw`, `OpenPartial`, `ReuseParquet`, `Publish`, `AppendRow`, `RowRepeated`, `RowCollides`, `WriteMark` | `_commit_day`; `InputsThere` are the files each step reads |
| `writing`, `Mixed` | writers that have the one partial of a day open, and a file two of them wrote |
| `CommitRaises`, `WriterDies`, `SweepPartials` | refused rows, disk and quota; a kill; `quarantine_stale_trade_partials` |
| `StartBuild`, `PublishBucket`, `RecordBucket`, `BuildCut` | `build_buckets` |
| `PlanRetention`, `SkipRecorded`, `Unlink`, `RecordDeletion`, `RetentionCut` | `plan_retention` and `apply_retention`, dry or not |
| `Resolves` | the catalog on these manifests: superseded buckets are filtered out by their source's hash |

`trade_store` (`MCTradeStore.cfg`): two writers of one day, minute and second
buckets, two commits, two cuts, two retention jobs: 2,235,086 states. A commit may be given
the retrieval time of an earlier one. Days share only
the lease and the checkpoint; two commits are one beside, or after, another; two
jobs are a rehearsal and a deletion, or a deletion repeated after a cut.

| property | what it shows |
|---|---|
| `TypeOK` | types; a row's hash is the hash of a file that existed |
| `TwoWritersNeedATheft` | two commits overlap only after the lease of a live writer was moved aside: it was ten minutes old, empty, or replaced the stale one that was looked at |
| `MinuteSurvives` | a recorded day never loses both its trades and its recorded minutes |
| `DeletionsAreLedgered` | what retention unlinked is in the ledger, but for one file per cut |
| `CatalogResolvesUntilRetention` | beside commits and builds the catalog finds every active file with its hash, until retention deletes (or two writers overlap) |

These hold with what the code does: a commit longer than ten minutes can be robbed of its
lease; a rerun of a day that has a row raises "checksum collision" unless it is given the same
retrieval time, and so, by default, never repairs a checkpoint that a kill prevented; no manifest
says what retention deleted, so the catalog raises on it afterwards; a file unlinked by a job that
was cut before the ledger line cannot be planned again; a day recommitted after retention has
two rows and cannot be planned at all. Contents of files two writers share are a
single value, `Mixed`, with either outcome where its hash is compared.

### Proofs: `TradeStoreProofs`

From `StoreAssumption` (types of the constants only), for every number of writers, days, buckets, commits, jobs and cuts:

* `TypeCorrect`, `TypesHold`: the types, among them that a row's hash is that of a file.
* `LeaseInductive`, `ExclusionUntilTheft`: until a lease of a live writer is moved aside, whoever is in
  `commit_day` owns the lease there is; a writer that has looked at a stale one is the hard case.
* `MinutesInductive`, `DaysSurvive` (`MinuteInv`): a planned day has a recorded minute bucket, a
  recorded minute bucket is there and never planned, and a recorded day has its file or such a
  bucket. A plan may be stale when it is applied; the invariant holds of stale plans.
* `LedgerInductive`, `DeletionsRecorded` (`LedgerInv`): deletions without a line, but for the one the job
  is about to record, are at most as many as the cuts.
* `CatalogInductive`, `CatalogResolves` (`CatalogInv`): while nothing is stolen or deleted a day being
  written has no file yet, so that no recorded file is replaced.

## 8. `Retention`: holds, evidence and the sweep

| model | code |
|---|---|
| `AddHold`, `RemoveHold`, `OpenHolds`, `WriteHolds`, `LogHold`, `ManagerDies` | `HoldRegistry`: the file is read whole, changed and rewritten in place (emptied, then filled), then the event is logged |
| `Listed` | `list_holds`: an unreadable file lists nothing |
| `GapChanges`, `Reconcile` | `register_gap` and `update_gap` by any recovery: a settled gap may become PARTIAL again; `reconcile_trade_datasets` as far as the sweep reads it: whether it proves a match, and which discrepancies, up to three of a trade, it lists |
| `Evidence`, `StartSweep` | the snapshots of unresolved gaps and conflicts, manifests and time |
| `Look`, `UnlinkFile`, `RecordDeletion`, `FileFails`, `SweepDies` | `_evaluate_file`; its exceptions are logged and the sweep goes on |
| `Expire` | an artifact's semantic age passes its limit |

`retention` (`MCRetention.cfg`): one artifact that holds, a gap and a trade may protect, two
managers, two sweepers that repeat without bound, two holds, one failure or kill: 2,301,698
states. A sweep looks up each file's holds by itself, so a second artifact adds no situation; two
holds let one be removed, or lost, while another is added. One trade does not overflow a
record's list of discrepancies; the theorem on evidence holds for any number.

| property | what it shows |
|---|---|
| `TypeOK` | types; a sweep has one file in hand exactly while it deletes it |
| `HeldIsKept` | an artifact under a hold in force is deleted only if the hold was logged after the sweep had looked, or the holds file was read while being rewritten, overwritten by a process that had not seen it, or left by a killed one |
| `HoldsMatchTheirLog` | but for the same accidents the file says what the event log says |
| `EvidenceIsKept` | an artifact is deleted while its gap is OPEN or PARTIAL, or its trade in conflict, only by a sweep that began before it became so |
| `LedgerIsExact` | overlapping, repeated and failing sweeps record each deletion at most once, none that did not happen, and omit at most one per failure |

`held_artifact_lost` (`MCHeldLost.cfg`) refutes the module's docstring, "Active Holds [...]: Fully protected
from deletion": a sweep that looks while another hold is being saved reads an empty file, takes it
for no holds, and deletes what a hold logged long before protects. `HeldIsKept` and `HoldsMatchTheirLog` are
what holds without such accidents.

What is not protected: a gap that is UNRECOVERABLE counts as settled; a gap made PARTIAL, or a hold
logged, between a sweep's look and its unlink comes too late.
What the names leave unprotected: the sweep protects what a gap's or trade's id
occurs *in the name of*, and the segments and normalized files the code writes are named by
random ids, so the constants `NamedByGap` and `NamedByTrade` describe artifacts such as those of
`tests/test_retention_sandbox.py`. A record lists fifty discrepancies, the rest is not
protected, nor are trades only the stream has when nothing else differs. Sub-minute
buckets are looked for under `granularity=`, while `build_buckets` writes `bucket=`
(`trade_buckets.py:335`): that branch deletes nothing and is left out.

### Proofs: `RetentionProofs`

From `RetentionAssumption` (types of the constants only), for every number of artifacts, gaps, trades, holds, managers,
sweepers and failures:

* `TypeCorrect`, `TypesHold`: the types.
* `SweepsInductive`, `EvidenceSurvives` (`SweepInv`): what must be kept now, and a sweep may still
  visit, is in the sweep's snapshot or is new since; the artifact it has in hand is not in the snapshot.
* `LedgerInductive`, `LedgerHolds` (`LedgerInv`): deleted artifacts without a record are at most as many
  as the failures and the sweeps about to record one, no two of which have the same artifact, since
  only one of them can have unlinked it.
* `HoldsInductive`, `HoldsMatch` (`HoldInv`): until one of the accidents, the file is what
  its log replays to, but for the change under way, and the ids of holds are fresh.
* `LooksInductive`, `HeldIsSafe` (`LooksInv`): a sweep with an artifact in hand has seen, at its look, no
  hold in force on it; as a log only grows and a hold that is let go is not in force again, what is in force at
  the unlink and was logged at the look would have been seen.

## 9. Not modelled

* **REST pagination** (`fetch_*` of OHLCV, open interest, funding): loops over responses
  of one call, without shared state; the batch they return is a constant of `DatasetCommit`. The
  hazard of a page boundary (`spot_ohlcv.py:569`) is listed without a property.
* **Lifecycle** (`lifecycle.py`): one validation of one list, no state; its known weakness
  (`lifecycle.py:128`) is listed.
* **Health and DQ measurements** beyond completeness, the arithmetic of buckets, reconciliation
  percentages: arithmetic over one snapshot.
* **Second processes on realtime segments** (`recover_stale_ws_partials`), which no
  code but a test calls, timestamps of gaps, and torn registry lines, on which every reader raises.
* Parsing and formatting of exchange payloads, Parquet and DuckDB internals, SQL views,
  configuration, CLI, logging, localization, redaction.

Fairness and liveness are model-checked only, throughout; so are the five runs that refute a claim,
each of which is a counterexample and needs no proof.
