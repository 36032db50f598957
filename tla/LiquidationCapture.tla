--------------------------- MODULE LiquidationCapture ---------------------------
(***************************************************************************)
(* One stream of the liquidation soak: the attempt loop of                 *)
(* liquidation_soak.py, the collectors of binance/liquidations.py and      *)
(* bybit/liquidations.py it calls, and the files they leave behind.        *)
(*                                                                         *)
(* A wire frame is a model value; its verdict is what the parser says of   *)
(* it, its days are the UTC dates of the events in it, and an event is a   *)
(* frame with an index, as the fingerprint is made of both.  Files are     *)
(* named after their content, so a raw file is the sequence of its frames  *)
(* and a Parquet generation the set of its rows.  A change of day is also  *)
(* a change of year, the Parquet partition.  The soak takes its instants   *)
(* from the attempts (a gap runs from the failure of one to the start of   *)
(* another), so a gap is named by the two attempts.  NETWORK_FAILURE       *)
(* stands for PROCESS_ERROR too: the soak treats the two alike.            *)
(***************************************************************************)
EXTENDS Integers, Sequences, FiniteSets, SequencesExt

CONSTANTS Frames,       \* venue -> the frames it may send
          Verdict,      \* frame -> "ok", or the reason its rejection is classified as
          DaysOf,       \* frame -> the days of its events, in order
          FlushAt,      \* 50 in the code
          MaxAttempts,  \* reconnect.max_attempts
          MaxReceived,  \* bound: frames received
          MaxCrash      \* bound: ends of the process

Venues    == DOMAIN Frames
AllFrames == UNION {Frames[v] : v \in Venues}
AllDays   == UNION {Range(DaysOf[f]) : f \in AllFrames}

ASSUME CaptureAssumption ==
  /\ Venues \subseteq {"binance", "bybit"}
  /\ "torn" \notin AllFrames /\ \A f \in AllFrames : DaysOf[f] \in Seq(Nat)
  /\ \A f \in AllFrames : Verdict[f] \in {"ok", "WRONG_SYMBOL", "INVALID_SOURCE_MESSAGE", "UNKNOWN_SCHEMA"}
  /\ "binance" \in Venues => \A f \in Frames["binance"] : Len(DaysOf[f]) = 1
  /\ FlushAt \in Nat \ {0} /\ MaxAttempts \in Nat \ {0}
  /\ MaxReceived \in Nat /\ MaxCrash \in Nat

VARIABLES
  venue,      \* the exchange of the stream
  pc,         \* where the stream's task is
  why,        \* what the batch being persisted ends: a poll, the duration, or a failed receive
  reason,     \* how the exception being propagated will be classified
  buffer,     \* frames received since the last flush, in order
  made,       \* generations the batch being persisted has published: <<day, rows>>
  fresh,      \* new rows it has counted
  raw,        \* raw files
  parts,      \* day -> the generations published
  manifest,   \* manifest rows, in order
  checkpoint, \* the batch the checkpoint names
  rejected,   \* quarantine files
  attempt,    \* attempts of this run
  errors,     \* the failures of this run, classified
  outage,     \* the failed attempt whose gap is not yet registered, or 0
  gaps,       \* gaps this run has registered
  flushed,    \* the collector's total_records
  counted,    \* the run's persisted_row_count
  before,     \* history: rows stored when the run started
  received,   \* history: how many frames have been received
  seen,       \* history: and which
  gone,       \* history: frames in memory when the process ended or the quarantine failed
  unready,    \* history: frames in memory when the subscription was refused or garbled
  unpinged,   \* history: frames in memory when the socket was lost before the pong
  finished,   \* history: batches whose persistence has returned
  crashes     \* history: ends of the process

batchVars == <<why, buffer, made, fresh>>
diskVars  == <<raw, parts, manifest, checkpoint, rejected>>
soakVars  == <<attempt, errors, outage, gaps, counted>>
histVars  == <<before, received, seen, gone, unready, unpinged, finished, crashes>>
vars == <<venue, pc, reason, flushed, batchVars, diskVars, soakVars, histVars>>

NoBatch == <<>>   \* a checkpoint that was never written; no batch is empty
Torn    == <<"torn">>

Events(f)    == {<<f, i>> : i \in DOMAIN DaysOf[f]}
DayOf(e)     == DaysOf[e[1]][e[2]]
\* The rows of a batch: duplicates of a frame have the same fingerprints.
Rows(batch)  == UNION {Events(f) : f \in Range(batch)}
Days(rows)   == {DayOf(e) : e \in rows}
On(rows, d)  == {e \in rows : DayOf(e) = d}
Stored       == UNION {UNION parts[d] : d \in AllDays}

Init ==
  /\ venue \in Venues
  /\ pc = "idle" /\ why = "flush" /\ reason = "none"
  /\ buffer = <<>> /\ made = {} /\ fresh = 0
  /\ raw = {} /\ parts = [d \in AllDays |-> {}] /\ manifest = <<>>
  /\ checkpoint = NoBatch /\ rejected = {}
  /\ attempt = 0 /\ errors = <<>> /\ outage = 0 /\ gaps = <<>>
  /\ flushed = 0 /\ counted = 0 /\ before = 0
  /\ received = 0 /\ seen = {} /\ gone = {} /\ unready = {} /\ unpinged = {} /\ finished = {} /\ crashes = 0

-----------------------------------------------------------------------------
(* The collector: connect, subscribe, receive                              *)

\* An exception leaves the collector; its buffer is a local variable.
Raise(r) ==
  /\ pc' = "failed"
  /\ reason' = r
  /\ buffer' = <<>>
  /\ UNCHANGED <<venue, flushed, why, made, fresh, diskVars, soakVars>>

Persist(w) ==
  /\ pc' = "check"
  /\ why' = w
  /\ made' = {} /\ fresh' = 0

ConnectFails ==
  /\ pc = "connect"
  /\ Raise("NETWORK_FAILURE")
  /\ UNCHANGED histVars

Connect ==
  /\ pc = "connect"
  /\ pc' = "subscribe"
  /\ UNCHANGED <<venue, reason, flushed, batchVars, diskVars, soakVars, histVars>>

Buffer(f) ==
  /\ received < MaxReceived                          \* bound
  /\ f \in Frames[venue]
  /\ buffer' = Append(buffer, f)
  /\ received' = received + 1
  /\ seen' = seen \cup {f}

\* Binance's acknowledgement loop keeps the frames that arrive before the answer.
ReceiveEarly(f) ==
  /\ pc = "subscribe" /\ venue = "binance"
  /\ Len(buffer) < FlushAt - 1                       \* bound: the loop has no limit
  /\ Buffer(f)
  /\ UNCHANGED <<venue, pc, reason, flushed, why, made, fresh, diskVars, soakVars,
                 before, gone, unready, unpinged, finished, crashes>>

\* The subscription is refused; a refusal that quotes the topic or the symbol
\* is classified by that word.
SubscribeRefused ==
  /\ pc = "subscribe"
  /\ \E r \in {"NETWORK_FAILURE", "WRONG_SYMBOL"} : Raise(r)
  /\ unready' = unready \cup Range(buffer)
  /\ UNCHANGED <<before, received, seen, gone, unpinged, finished, crashes>>

\* The answer is not JSON; or Binance's deadline has passed when its loop comes
\* round after a frame.
AckUnreadable ==
  /\ pc = "subscribe"
  /\ \E r \in {"UNKNOWN_SCHEMA"} \cup (IF venue = "binance" THEN {"NETWORK_FAILURE"} ELSE {}) :
       Raise(r)
  /\ unready' = unready \cup Range(buffer)
  /\ UNCHANGED <<before, received, seen, gone, unpinged, finished, crashes>>

\* The socket is lost while the collector waits for the acknowledgement: only
\* Binance's loop has something to persist.
SubscribeFails ==
  /\ pc = "subscribe"
  /\ IF buffer # <<>>
     THEN /\ Persist("error")
          /\ reason' = "NETWORK_FAILURE"
          /\ UNCHANGED <<venue, flushed, buffer, diskVars, soakVars>>
     ELSE Raise("NETWORK_FAILURE")
  /\ UNCHANGED histVars

BybitSubscribed ==
  /\ pc = "subscribe" /\ venue = "bybit"
  /\ pc' = "receive"
  /\ UNCHANGED <<venue, reason, flushed, batchVars, diskVars, soakVars, histVars>>

BinanceSubscribed ==
  /\ pc = "subscribe" /\ venue = "binance"
  /\ pc' = "ping"
  /\ UNCHANGED <<venue, reason, flushed, batchVars, diskVars, soakVars, histVars>>

Pong ==
  /\ pc = "ping"
  /\ pc' = "receive"
  /\ UNCHANGED <<venue, reason, flushed, batchVars, diskVars, soakVars, histVars>>

\* The pong is late or the socket is lost: nothing looks at the buffer.
PongFails ==
  /\ pc = "ping"
  /\ Raise("NETWORK_FAILURE")
  /\ unpinged' = unpinged \cup Range(buffer)
  /\ UNCHANGED <<before, received, seen, gone, unready, finished, crashes>>

\* Mutant of TurnEnds: the limit is one too high.
TurnEndsLate(b) ==
  \/ /\ b # <<>>
     /\ Persist("flush")
  \/ /\ Len(b) <= FlushAt
     /\ pc' = "receive"
     /\ UNCHANGED <<why, made, fresh>>

\* One turn of the receive loop ends: a full buffer is flushed, a shorter one
\* when the interval has elapsed.
TurnEnds(b) ==
  \/ /\ b # <<>>
     /\ Persist("flush")
  \/ /\ Len(b) < FlushAt
     /\ pc' = "receive"
     /\ UNCHANGED <<why, made, fresh>>

Receive(f) ==
  /\ pc = "receive"
  /\ Buffer(f)
  /\ TurnEnds(buffer')
  /\ UNCHANGED <<venue, reason, flushed, diskVars, soakVars, before, gone, unready, unpinged, finished, crashes>>

PollTimesOut ==
  /\ pc = "receive"
  /\ buffer # <<>>                                   \* else nothing changes
  /\ TurnEnds(buffer)
  /\ UNCHANGED <<venue, reason, flushed, buffer, diskVars, soakVars, histVars>>

\* Mutant of ReceiveFails: the buffer is not persisted.
ReceiveFailsAtOnce ==
  /\ pc = "receive"
  /\ Raise("NETWORK_FAILURE")
  /\ UNCHANGED histVars

\* The socket is lost, or a frame is not JSON.
ReceiveFails ==
  /\ pc = "receive"
  /\ \E r \in {"NETWORK_FAILURE", "UNKNOWN_SCHEMA"} :
       IF buffer # <<>>
       THEN /\ Persist("error")
            /\ reason' = r
            /\ UNCHANGED <<venue, flushed, buffer, diskVars, soakVars>>
       ELSE Raise(r)
  /\ UNCHANGED histVars

\* The duration or the message limit is reached.
StopReceiving ==
  /\ pc = "receive"
  /\ IF buffer # <<>> THEN Persist("final") ELSE pc' = "complete" /\ UNCHANGED <<why, made, fresh>>
  /\ UNCHANGED <<venue, reason, flushed, buffer, diskVars, soakVars, histVars>>

-----------------------------------------------------------------------------
(* persist_*_liquidation_batch and the quarantine                          *)

\* The first frame the parser rejects decides how the batch is classified.
Unparsed(b) ==
  LET bad == SelectInSeq(b, LAMBDA f : Verdict[f] # "ok")
  IN  IF bad = 0 THEN "ok" ELSE Verdict[b[bad]]

\* Binance also rejects a batch whose events span two dates.
BinanceVerdict(b) ==
  IF Unparsed(b) = "ok" /\ Cardinality(Days(Rows(b))) > 1
  THEN "INVALID_SOURCE_MESSAGE"
  ELSE Unparsed(b)

BatchVerdict(b) == IF venue = "binance" THEN BinanceVerdict(b) ELSE Unparsed(b)

PersistFails(r) ==
  /\ pc' = "quarantine"
  /\ reason' = r
  /\ made' = {} /\ fresh' = 0
  /\ UNCHANGED <<venue, flushed, why, buffer, raw, parts, manifest, rejected, soakVars, histVars>>

\* What the collector does with a batch whose persistence has returned.
PersistReturns ==
  /\ buffer' = <<>> /\ made' = {} /\ fresh' = 0
  /\ pc' = CASE why = "flush" -> "receive" [] why = "final" -> "complete" [] OTHER -> "failed"
  /\ flushed' = IF why = "error" THEN flushed ELSE flushed + fresh
  /\ counted' = IF why = "error" THEN counted + fresh ELSE counted

Rejected ==
  /\ pc = "check"
  /\ BatchVerdict(buffer) # "ok"
  /\ PersistFails(BatchVerdict(buffer))
  /\ UNCHANGED checkpoint

\* Frames without events: Bybit's persistence returns at once.
NothingToStore ==
  /\ pc = "check"
  /\ BatchVerdict(buffer) = "ok" /\ Rows(buffer) = {}
  /\ PersistReturns
  /\ UNCHANGED <<venue, why, reason, diskVars, attempt, errors, outage, gaps, histVars>>

Accepted ==
  /\ pc = "check"
  /\ BatchVerdict(buffer) = "ok" /\ Rows(buffer) # {}
  /\ pc' = "raw"
  /\ UNCHANGED <<venue, reason, flushed, batchVars, diskVars, soakVars, histVars>>

WriteRaw ==
  /\ pc = "raw"
  /\ raw' = raw \cup {buffer}
  /\ pc' = "parquet"
  /\ UNCHANGED <<venue, reason, flushed, batchVars, parts, manifest, checkpoint, rejected, soakVars, histVars>>

\* Mutant of Merge: the generation holds the batch's rows only.
MergeNothing(d, rows) == rows

\* A generation is cumulative: it holds every row of every generation before it.
Merge(d, rows) == rows \cup UNION parts[d]

\* Mutant of NewRows: every row of the batch counts.
NewRowsOfBatch(d, gen) == Cardinality(On(Rows(buffer), d))

\* By how many rows a generation exceeds the largest one there is.
NewRows(d, gen) ==
  LET sizes == {0} \cup {Cardinality(g) : g \in parts[d]}
  IN  IF Cardinality(gen) > Max(sizes) THEN Cardinality(gen) - Max(sizes) ELSE 0

\* The partitions of a batch are written one after another.
WriteParquet ==
  /\ pc = "parquet"
  /\ LET todo == Days(Rows(buffer)) \ {p[1] : p \in made}
         d    == CHOOSE x \in todo : \A y \in todo : x <= y
         gen  == Merge(d, On(Rows(buffer), d))
     IN  /\ parts' = [parts EXCEPT ![d] = @ \cup {gen}]
         /\ made' = made \cup {<<d, gen>>}
         /\ fresh' = fresh + NewRows(d, gen)
         /\ pc' = IF todo = {d} THEN "manifest" ELSE "parquet"
  /\ UNCHANGED <<venue, reason, flushed, why, buffer, raw, manifest, checkpoint, rejected, soakVars, histVars>>

\* Binance looks for the very row; Bybit for the hashes anywhere in the file.
BinanceRecorded == \E row \in Range(manifest) : row = [raw |-> buffer, parts |-> made]
BybitRecorded ==
  /\ \E row \in Range(manifest) : row.raw = buffer
  /\ \A p \in made : \E row \in Range(manifest) : p \in row.parts

\* Mutant of Recorded: a row with the same raw file is enough.
RecordedRaw == \E row \in Range(manifest) : row.raw = buffer

\* Mutant of Recorded: only the last row is looked at.
RecordedLast == manifest # <<>> /\ Last(manifest) = [raw |-> buffer, parts |-> made]

Recorded == IF venue = "binance" THEN BinanceRecorded ELSE BybitRecorded

AppendManifest ==
  /\ pc = "manifest"
  /\ manifest' = IF Recorded THEN manifest ELSE Append(manifest, [raw |-> buffer, parts |-> made])
  /\ pc' = "checkpoint"
  /\ UNCHANGED <<venue, reason, flushed, batchVars, raw, parts, checkpoint, rejected, soakVars, histVars>>

WriteCheckpoint ==
  /\ pc = "checkpoint"
  /\ checkpoint' = buffer
  /\ finished' = finished \cup {[raw |-> buffer, parts |-> made]}
  /\ PersistReturns
  /\ UNCHANGED <<venue, why, reason, raw, parts, manifest, rejected,
                 attempt, errors, outage, gaps, before, received, seen, gone, unready, unpinged, crashes>>

\* Mutant of StepFails: an error of the Parquet step is swallowed.
StepFailsSilently ==
  /\ pc = "parquet"
  /\ pc' = "manifest"
  /\ UNCHANGED <<venue, reason, flushed, batchVars, diskVars, soakVars, histVars>>

\* Bybit's checkpoint is overwritten in place, and may be cut off there.
CheckpointTears == pc = "checkpoint" /\ venue = "bybit"

\* How an I/O error at this step is classified: its message may quote the path of a
\* Parquet file, and the partition's directory is named symbol=...
IOReasons ==
  {"NETWORK_FAILURE"} \cup (IF pc \in {"parquet", "manifest"} THEN {"WRONG_SYMBOL"} ELSE {})

\* Too little disk space, or an I/O error at any step.
StepFails ==
  /\ pc \in {"check", "raw", "parquet", "manifest", "checkpoint"}
  /\ \E r \in IOReasons : PersistFails(r)
  /\ checkpoint' \in {checkpoint} \cup (IF CheckpointTears THEN {Torn} ELSE {})

QuarantineBuffer ==
  /\ pc = "quarantine"
  /\ rejected' = rejected \cup {buffer}
  /\ pc' = "failed"
  /\ buffer' = <<>>
  /\ UNCHANGED <<venue, reason, flushed, why, made, fresh, raw, parts, manifest, checkpoint, soakVars, histVars>>

\* The quarantine cannot be written either.
QuarantineFails ==
  /\ pc = "quarantine"
  /\ Raise("NETWORK_FAILURE")
  /\ gone' = gone \cup Range(buffer)
  /\ UNCHANGED <<before, received, seen, unready, unpinged, finished, crashes>>

-----------------------------------------------------------------------------
(* The soak's attempt loop                                                 *)

StartAttempt ==
  /\ pc = "idle"
  /\ attempt < MaxAttempts
  /\ attempt' = attempt + 1
  /\ why' = "flush" /\ reason' = "none" /\ flushed' = 0
  /\ pc' = "connect"
  /\ UNCHANGED <<venue, buffer, made, fresh, diskVars, errors, outage, gaps, counted, histVars>>

\* The run's duration is over before the next attempt.
DeadlinePasses ==
  /\ pc = "idle"
  /\ attempt > 0
  /\ pc' = "finish"
  /\ UNCHANGED <<venue, reason, flushed, batchVars, diskVars, soakVars, histVars>>

\* _unrecoverable_gap: from the failure that opened the outage to the start of an
\* attempt, or to the end of the run (0).
Gap(until, r) == [from |-> outage, until |-> until, reason |-> r]

\* Mutant of RegisterGap: the gap of an outage that a retry failed to end is forgotten.
RegisterGapOnce(until, r) ==
  gaps' = IF outage # 0 /\ pc # "failed" THEN Append(gaps, Gap(until, r)) ELSE gaps

\* Mutant of RegisterGap: the latest failure names the gap.
RegisterGapLatest(until, r) ==
  gaps' = IF outage # 0 THEN Append(gaps, Gap(until, IF pc = "failed" THEN reason ELSE r)) ELSE gaps

RegisterGap(until, r) ==
  gaps' = IF outage # 0 THEN Append(gaps, Gap(until, r)) ELSE gaps

\* The attempt has ended well: the outage before it, if any, is over.
AttemptCompletes ==
  /\ pc = "complete"
  /\ counted' = counted + flushed
  /\ RegisterGap(attempt, IF errors = <<>> THEN "none" ELSE Last(errors))
  /\ outage' = 0
  /\ flushed' = 0
  /\ pc' = "ended"
  /\ UNCHANGED <<venue, reason, batchVars, diskVars, attempt, errors, histVars>>

\* The attempt has ended well and what the soak records of it cannot be written: the
\* gap of the outage before it, which stays open then, or the session, when the gap
\* is registered already.
CompletionFails ==
  /\ pc = "complete"
  /\ counted' = counted + flushed
  /\ \/ UNCHANGED <<gaps, outage>>
     \/ /\ RegisterGap(attempt, IF errors = <<>> THEN "none" ELSE Last(errors))
        /\ outage' = 0
  /\ flushed' = 0
  /\ reason' = "NETWORK_FAILURE"
  /\ pc' = "failed"
  /\ UNCHANGED <<venue, batchVars, diskVars, attempt, errors, histVars>>

\* Mutant of AttemptFails: a failed attempt does not count.
AttemptFailsUncounted ==
  /\ pc = "failed"
  /\ attempt' = attempt - 1
  /\ flushed' = 0
  /\ pc' = "idle"
  /\ UNCHANGED <<venue, reason, batchVars, diskVars, errors, outage, gaps, counted, histVars>>

\* The attempt has failed.  A failure that names the symbol or the topic opens no
\* outage; another one closes the interval of the outage before it and opens its own.
AttemptFails ==
  /\ pc = "failed"
  /\ errors' = Append(errors, reason)
  /\ IF reason = "WRONG_SYMBOL"
     THEN UNCHANGED <<gaps, outage>>
     ELSE /\ RegisterGap(attempt, IF errors = <<>> THEN "none" ELSE Last(errors))
          /\ outage' = attempt
  /\ flushed' = 0
  /\ pc' = IF attempt >= MaxAttempts THEN "finish" ELSE "idle"
  /\ UNCHANGED <<venue, reason, batchVars, diskVars, attempt, counted, histVars>>

\* After the last attempt an outage that is still open is registered to the end.
FinishRun ==
  /\ pc = "finish"
  /\ RegisterGap(0, IF errors = <<>> THEN "none" ELSE Last(errors))
  /\ pc' = "ended"
  /\ UNCHANGED <<venue, reason, flushed, batchVars, diskVars, attempt, errors, outage, counted, histVars>>

\* The process ends; or the records of a failure or of the last gap cannot be written,
\* and the exception leaves the run.
Crash ==
  /\ pc \notin {"down", "ended"}
  /\ crashes < MaxCrash                              \* bound
  /\ crashes' = crashes + 1
  /\ pc' = "down"
  /\ checkpoint' \in {checkpoint} \cup (IF CheckpointTears THEN {Torn} ELSE {})
  /\ gone' = gone \cup Range(buffer)
  /\ buffer' = <<>> /\ made' = {} /\ fresh' = 0
  /\ UNCHANGED <<venue, why, reason, flushed, raw, parts, manifest, rejected, soakVars,
                 before, received, seen, unready, unpinged, finished>>

\* A new run over the same data root.
StartRun ==
  /\ pc = "down"
  /\ pc' = "idle"
  /\ attempt' = 0 /\ errors' = <<>> /\ outage' = 0 /\ gaps' = <<>>
  /\ flushed' = 0 /\ counted' = 0
  /\ before' = Cardinality(Stored)
  /\ UNCHANGED <<venue, reason, batchVars, diskVars, received, seen, gone, unready, unpinged, finished, crashes>>

Collect ==
  \/ Connect \/ ConnectFails
  \/ SubscribeRefused \/ AckUnreadable \/ SubscribeFails
  \/ BybitSubscribed \/ BinanceSubscribed \/ Pong \/ PongFails
  \/ PollTimesOut \/ ReceiveFails \/ StopReceiving

PersistBatch ==
  \/ Rejected \/ NothingToStore \/ Accepted
  \/ WriteRaw \/ WriteParquet \/ AppendManifest \/ WriteCheckpoint
  \/ StepFails \/ QuarantineBuffer \/ QuarantineFails

Soak ==
  StartAttempt \/ DeadlinePasses \/ AttemptCompletes \/ CompletionFails \/ AttemptFails \/ FinishRun

Next ==
  \/ \E f \in AllFrames : ReceiveEarly(f) \/ Receive(f)
  \/ Collect \/ PersistBatch \/ Soak
  \/ Crash \/ StartRun

Spec == Init /\ [][Next]_vars

\* Bybit's collector waits for the answer to its subscription without a timeout: a
\* peer that keeps the connection alive may never give it.
AwaitsBybit == venue = "bybit" /\ pc = "subscribe"

\* The task is scheduled, every other await has a timeout (Binance's answer is due in
\* ten seconds whatever arrives meanwhile), and the duration runs out.
FairSpec ==
  /\ Spec
  /\ WF_vars(~AwaitsBybit /\ Collect)
  /\ WF_vars(PersistBatch)
  /\ WF_vars(Soak)

-----------------------------------------------------------------------------
(* Properties                                                              *)

Reasons == {"WRONG_SYMBOL", "INVALID_SOURCE_MESSAGE", "UNKNOWN_SCHEMA", "NETWORK_FAILURE"}
Rowsets == SUBSET UNION {Events(f) : f \in AllFrames}

\* The variables have their types; a buffer is flushed when it is full.
TypeOK ==
  /\ venue \in Venues
  /\ pc \in {"idle", "connect", "subscribe", "ping", "receive", "check", "raw", "parquet", "manifest",
            "checkpoint", "quarantine", "failed", "complete", "finish", "ended", "down"}
  /\ why \in {"flush", "final", "error"}
  /\ reason \in Reasons \cup {"none"}
  /\ buffer \in Seq(AllFrames) /\ Len(buffer) <= FlushAt
  /\ made \in SUBSET (AllDays \X Rowsets)
  /\ raw \in SUBSET Seq(AllFrames) /\ rejected \in SUBSET Seq(AllFrames)
  /\ parts \in [AllDays -> SUBSET Rowsets]
  /\ manifest \in Seq([raw : Seq(AllFrames), parts : SUBSET (AllDays \X Rowsets)])
  /\ checkpoint \in Seq(AllFrames) \cup {Torn}
  /\ attempt \in 0..MaxAttempts /\ outage \in 0..attempt
  /\ errors \in Seq(Reasons)
  /\ gaps \in Seq([from : 1..MaxAttempts, until : 0..MaxAttempts, reason : Reasons])
  /\ fresh \in Nat /\ flushed \in Nat /\ counted \in Nat /\ before \in Nat
  /\ received \in 0..MaxReceived /\ crashes \in 0..MaxCrash
  /\ UNION {seen, gone, unready, unpinged} \subseteq AllFrames

\* The files behave like one atomic log whatever step a failure or a crash cuts
\* off: rows before the manifest row, the manifest row before the checkpoint.
Log == INSTANCE DurableLog WITH
         Batches   <- BoundedSeq(AllFrames, FlushAt),
         Contents  <- Rows,
         NoBatch   <- NoBatch,
         stored    <- Stored,
         committed <- {row.raw : row \in Range(manifest)},
         mark      <- IF checkpoint = Torn THEN NoBatch ELSE checkpoint
CommitsLikeALog == Log!Spec

\* What reconcile_liquidation_run and audit_liquidation_data_root look for: a
\* manifest row whose raw file or generation is missing.
BrokenRefs ==
  {row \in Range(manifest) :
     \/ row.raw \notin raw
     \/ \E p \in row.parts : p[2] \notin parts[p[1]]}

\* After any history of failures, crashes and replays the audit of the data root
\* finds every file a manifest row names, no row twice, and, for Binance, a
\* checkpoint it can read.
AuditPasses ==
  /\ BrokenRefs = {}
  /\ \A i, j \in DOMAIN manifest : manifest[i] = manifest[j] => i = j
  /\ checkpoint = Torn => venue = "bybit"

\* Readers take the largest generation for the whole partition: it holds every
\* row any generation holds.
LargestIsWhole ==
  \A d \in AllDays : parts[d] # {} =>
    \E g \in parts[d] : UNION parts[d] \subseteq g

\* A batch whose persistence returned is in the manifest with all its rows, and
\* so is every generation it published, although Bybit only searches the file
\* for the hashes.
FinishedIsManifested ==
  \A b \in finished :
    /\ \E row \in Range(manifest) :
         row.raw = b.raw /\ Rows(b.raw) \subseteq UNION {p[2] : p \in row.parts}
    /\ \A p \in b.parts : \E row \in Range(manifest) : p \in row.parts

Eventless == {f \in AllFrames : DaysOf[f] = <<>>}
Kept      == UNION {Range(b) : b \in raw \cup rejected}

\* A frame the collector has received is in its buffer, in a raw file or in the
\* quarantine, whatever fails, unless the process ended, the quarantine itself
\* failed, or the attempt failed before its subscription was confirmed.
FramesAreKept ==
  seen \subseteq Range(buffer) \cup Kept \cup Eventless \cup gone \cup unready \cup unpinged

\* What the acceptance report says: a received buffer is persisted, or durably
\* quarantined, before a disconnect propagates.
ReceivedIsPersisted ==
  seen \subseteq Range(buffer) \cup Kept \cup Eventless \cup gone \cup unready

\* The failures that open an outage.
Outages == {k \in DOMAIN errors : errors[k] # "WRONG_SYMBOL"}

\* When the run has ended each outage is the start of one gap, which ends with an
\* attempt after it or with the run; the gaps are in order and do not overlap.
EveryOutageIsAGap ==
  pc = "ended" =>
    /\ {g.from : g \in Range(gaps)} = Outages
    /\ \A i \in DOMAIN gaps :
         /\ gaps[i].until = 0 <=> i = Len(gaps) /\ Len(errors) = attempt
         /\ gaps[i].until # 0 => gaps[i].from < gaps[i].until
         /\ \A j \in 1..(i - 1) : gaps[j].until <= gaps[i].from

\* A gap is explained by the failure that opened it, unless a failure that opens
\* none came between that failure and the gap's end.
GapNamesItsFailure ==
  \A g \in Range(gaps) :
    LET end == IF g.until = 0 THEN Len(errors) ELSE g.until - 1
    IN  (\A k \in (g.from + 1)..end : errors[k] # "WRONG_SYMBOL") => g.reason = errors[g.from]

\* The run never reports more new rows than it has stored, though failed steps and
\* replayed frames are counted again.
CountsAreBacked == counted + flushed <= Cardinality(Stored) - before

\* A run ends, by its limit of attempts at the latest, unless the process does or
\* Bybit never answers a subscription.
RunEnds == []<>(pc \in {"ended", "down"}) \/ <>[]AwaitsBybit
=============================================================================
