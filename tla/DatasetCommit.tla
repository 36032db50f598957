----------------------------- MODULE DatasetCommit -----------------------------
(***************************************************************************)
(* One dataset as its ingestion writes it and the catalog reads it.  Every *)
(* ingestion commits a fetched batch in a few durable steps, and each in   *)
(* an order of its own: "month", "tail" and "rows" are the OHLCV commits   *)
(* (monthly archive, REST tail, and the exchange-neutral generation that   *)
(* Bybit's bootstrap and the second REST tail share), "oi" and "funding"   *)
(* are written alike for both exchanges, and the trade archives are        *)
(* "bybit_trades" and "usdm_trades".                                       *)
(*                                                                         *)
(* A row is a time and a value.  A Parquet file is its rows and a stamp,   *)
(* which stands for the retrieval times written into the rows, so that two *)
(* writes of one batch have different hashes unless the code makes them    *)
(* equal.  A failed or killed commit is begun again by the operator.       *)
(***************************************************************************)
EXTENDS Integers, Sequences, FiniteSets, SequencesExt

CONSTANTS BatchesOf,   \* kind -> the batches its source may return, each a set of rows
          Invalid,     \* batches the normalization or the quality checks reject
          PartOf,      \* time -> the year or the day of the partition it falls in
          MaxCommits,  \* bound: commits begun
          MaxCuts      \* bound: commits that fail or are killed

Kinds   == DOMAIN BatchesOf
Batches == UNION {BatchesOf[k] : k \in Kinds}
Times(rows) == {r[1] : r \in rows}
Parts(rows) == {PartOf[t] : t \in Times(rows)}
In(rows, p) == {r \in rows : PartOf[r[1]] = p}

ASSUME CommitAssumption ==
  /\ Kinds \subseteq {"month", "tail", "rows", "oi", "funding", "bybit_trades", "usdm_trades"}
  /\ \A b \in Batches : /\ b # {} /\ Times(b) \subseteq DOMAIN PartOf
                          /\ \A r, s \in b : r[1] = s[1] => r = s
  /\ "bybit_trades" \in Kinds => \A b \in BatchesOf["bybit_trades"] : \E p \in Range(PartOf) : Parts(b) = {p}
  /\ MaxCommits \in Nat /\ MaxCuts \in Nat

VARIABLES
  kind,       \* the ingestion the dataset belongs to
  pc,         \* the step a commit is at, or "idle"
  batch,      \* the batch being committed
  todo,       \* partitions of it not yet written
  made,       \* the Parquet files it has written or found: <<file, content>>
  raw,        \* raw objects: name -> batch
  files,      \* Parquet files: name -> [rows, stamp]
  manifest,   \* manifest rows, in order
  checkpoint, \* the batch the checkpoint names
  gapFiles,   \* gaps recorded
  stamp,      \* Parquet files written so far
  pending,    \* history: raw names of commits begun and not returned since
  done,       \* history: batches whose commit has returned
  begun,      \* history: commits begun
  cuts        \* history: commits that failed or were killed

commitVars == <<batch, todo, made>>
diskVars   == <<raw, files, manifest, checkpoint, gapFiles, stamp>>
vars == <<kind, pc, commitVars, diskVars, pending, done, begun, cuts>>

NoBatch == {}
Torn    == {<<0, "torn">>}

Init ==
  /\ kind \in Kinds
  /\ pc = "idle" /\ batch = NoBatch /\ todo = {} /\ made = {}
  /\ raw = <<>> /\ files = <<>> /\ manifest = <<>> /\ checkpoint = NoBatch
  /\ gapFiles = {} /\ stamp = 0
  /\ pending = {} /\ done = {} /\ begun = 0 /\ cuts = 0

-----------------------------------------------------------------------------
(* The steps of each commit, in the order of its code                      *)

MonthOrder   == <<"raw", "validate", "parquet", "manifest", "gaps", "checkpoint">>
TailOrder    == <<"raw", "validate", "parquet", "manifest", "checkpoint">>
RowsOrder    == <<"validate", "gaps", "raw", "parquet", "manifest", "checkpoint">>
OiOrder      == <<"validate", "raw", "parquet", "manifest", "checkpoint">>
FundingOrder == <<"validate", "raw", "parquet", "manifest", "checkpoint">>
BybitOrder   == <<"raw", "validate", "parquet", "manifest", "checkpoint">>
UsdmOrder    == <<"raw", "validate", "parquet", "manifest">>

\* Mutant of Order: the checkpoint of a month is written before its gaps.
OrderHasty ==
  IF kind = "month" THEN <<"raw", "validate", "parquet", "manifest", "checkpoint", "gaps">>
  ELSE IF kind = "rows" THEN RowsOrder ELSE TailOrder

\* Mutant of Order: the manifest row is written before the Parquet file.
OrderAhead == <<"raw", "validate", "manifest", "parquet", "checkpoint">>

Order ==
  CASE kind = "month"        -> MonthOrder
    [] kind = "tail"         -> TailOrder
    [] kind = "rows"         -> RowsOrder
    [] kind = "oi"           -> OiOrder
    [] kind = "funding"      -> FundingOrder
    [] kind = "bybit_trades" -> BybitOrder
    [] kind = "usdm_trades"  -> UsdmOrder

\* A raw object is named after its content, funding's after its first and last
\* times, and Bybit's archive after its day.
RawName(b) ==
  CASE kind = "funding" ->
         {t \in Times(b) : (\A u \in Times(b) : u <= t) \/ (\A u \in Times(b) : t <= u)}
    [] kind = "bybit_trades" -> Parts(b)
    [] OTHER -> b

\* The commit goes on with the step after s, or returns.
GoOn(s) ==
  LET i == CHOOSE n \in DOMAIN Order : Order[n] = s
  IN  IF i < Len(Order)
      THEN pc' = Order[i + 1] /\ UNCHANGED <<pending, done>>
      ELSE pc' = "idle" /\ pending' = pending \ {RawName(batch)} /\ done' = done \cup {batch}

\* The commit raises.
Raise ==
  /\ pc' = "idle"
  /\ batch' = NoBatch /\ todo' = {} /\ made' = {}

\* A file that carries its partition's name is replaced; the others are named
\* after what they hold and never written twice.
Replaced == kind \in {"funding", "bybit_trades"}
\* Files that the batches of one partition share.
Partitioned == kind \in {"oi", "funding", "bybit_trades"}
Cumulative  == kind \in {"oi", "funding"}

\* Bybit's archive has taken the writer lease that Binance's shares: a lease left by
\* a killed commit names a dead process, and is moved away.
Begin(b) ==
  /\ pc = "idle"
  /\ begun < MaxCommits                              \* bound
  /\ b \in BatchesOf[kind]
  /\ pc' = Order[1]
  /\ batch' = b
  /\ todo' = IF Partitioned THEN Parts(b) ELSE {0}
  /\ made' = {}
  /\ pending' = pending \cup {RawName(b)}
  /\ begun' = begun + 1
  /\ UNCHANGED <<kind, diskVars, done, cuts>>

\* Another writer holds the lease: nothing is touched.
LeaseRefused ==
  /\ pc = "idle" /\ kind = "bybit_trades"
  /\ begun < MaxCommits                              \* bound
  /\ begun' = begun + 1
  /\ UNCHANGED <<kind, pc, commitVars, diskVars, pending, done, cuts>>

\* Rows out of order, duplicate times or values that fail the quality checks.
Validate ==
  /\ pc = "validate"
  /\ batch \notin Invalid
  /\ GoOn("validate")
  /\ UNCHANGED <<kind, commitVars, diskVars, begun, cuts>>

RejectBatch ==
  /\ pc = "validate"
  /\ batch \in Invalid
  /\ Raise
  /\ UNCHANGED <<kind, diskVars, pending, done, begun, cuts>>

\* An archive already there is used instead of the one that would be downloaded.
WriteRaw ==
  /\ pc = "raw"
  /\ LET name == RawName(batch)
     IN  IF name \in DOMAIN raw /\ kind # "funding"
         THEN raw' = raw /\ batch' = raw[name]
         ELSE raw' = [n \in DOMAIN raw \cup {name} |-> IF n = name THEN batch ELSE raw[n]]
              /\ batch' = batch
  /\ GoOn("raw")
  /\ UNCHANGED <<kind, todo, made, files, manifest, checkpoint, gapFiles, stamp, begun, cuts>>

\* find_gaps and record_unknown_gaps: missing times between two rows of a batch.
GapsIn(b) ==
  {g \in Times(b) \X Times(b) : g[1] + 1 < g[2] /\ \A t \in Times(b) : t <= g[1] \/ g[2] <= t}

\* A gap's file is named after its start.
Starts(gs) == {g[1] : g \in gs}

\* The gaps are recorded one after another, unless a file starts there already.
RecordGap ==
  /\ pc = "gaps"
  /\ \E g \in GapsIn(batch) :
       /\ g[1] \notin Starts(gapFiles)
       /\ \A h \in GapsIn(batch) : h[1] < g[1] => h[1] \in Starts(gapFiles)
       /\ gapFiles' = gapFiles \cup {g}
  /\ UNCHANGED <<kind, pc, commitVars, raw, files, manifest, checkpoint, stamp, pending, done, begun, cuts>>

GapsRecorded ==
  /\ pc = "gaps"
  /\ Starts(GapsIn(batch)) \subseteq Starts(gapFiles)
  /\ GoOn("gaps")
  /\ UNCHANGED <<kind, commitVars, diskVars, begun, cuts>>

\* Mutant of Merged: the generation holds the batch's own rows only.
MergedNot(p) == {In(batch, p)}

\* Open interest: what may come of merging the partition's generations, in the
\* order of their hashes, with the new rows, which win.
Merged(p) ==
  LET gens  == {files[f].rows : f \in {n \in DOMAIN files : n[1] = p}}
      older == {r \in UNION gens : r[1] \notin Times(In(batch, p))}
      AfterAll(order, r) ==
        \E i \in DOMAIN order : r \in order[i]
          /\ \A j \in (i + 1)..Len(order) : r[1] \notin Times(order[j])
  IN  {In(batch, p) \cup {r \in older : AfterAll(order, r)} : order \in SetToSeqs(gens)}

\* A file's name: its partition, and what it holds unless it is replaced.
FileName(p, rows) == IF Replaced THEN <<p>> ELSE <<p, rows>>

\* Mutant of RepeatRaises: an open-interest file that is already there is an error.
RepeatRaisesToo == kind \in {"usdm_trades", "oi"} /\ \E f \in DOMAIN files : f[2] = batch

\* The USD-M commit that finds its Parquet file has counted no rows, and raises
\* on the first row's time before it reaches the manifest.
RepeatRaises == kind = "usdm_trades" /\ FileName(0, batch) \in DOMAIN files

UsdmRepeatRaises ==
  /\ pc = "parquet"
  /\ RepeatRaises
  /\ Raise
  /\ UNCHANGED <<kind, diskVars, pending, done, begun, cuts>>

\* The partitions are written in order.  Open interest has no retrieval time in
\* its rows.  (A second process that sweeps *.partial files away makes the
\* publication raise: CommitFails.)
WriteParquet ==
  /\ pc = "parquet"
  /\ ~RepeatRaises
  /\ \E p \in todo : \E rows \in (IF kind = "oi" THEN Merged(p) ELSE {batch}) :
       LET own  == IF Replaced THEN In(rows, p) ELSE rows
           f    == FileName(p, own)
           keep == f \in DOMAIN files /\ ~Replaced
           new  == IF keep THEN files[f]
                   ELSE [rows |-> own, stamp |-> IF Cumulative THEN 0 ELSE stamp + 1]
       IN  /\ \A q \in todo : p <= q
           /\ files' = [n \in DOMAIN files \cup {f} |-> IF n = f THEN new ELSE files[n]]
           /\ stamp' = IF keep \/ Cumulative THEN stamp ELSE stamp + 1
           /\ made' = made \cup {<<f, new>>}
           /\ todo' = todo \ {p}
           /\ IF todo = {p} THEN GoOn("parquet") ELSE UNCHANGED <<pc, pending, done>>
  /\ UNCHANGED <<kind, batch, raw, manifest, checkpoint, gapFiles, begun, cuts>>

Hashes == UNION {{p[2] : p \in row.refs} : row \in Range(manifest)}

\* Mutant of Recorded: the file's name is looked for instead of its hash.
RecordedName ==
  \A p \in made : \E row \in Range(manifest) : \E q \in row.refs : q[1] = p[1]

\* OHLCV looks for the Parquet hash in the manifest, open interest for every hash;
\* the others append.
Recorded ==
  CASE kind \in {"month", "tail", "rows"} -> \A p \in made : p[2] \in Hashes
    [] kind = "oi" -> /\ \E row \in Range(manifest) : row.raw = batch
                      /\ \A p \in made : p[2] \in Hashes
    [] OTHER -> FALSE

AppendManifest ==
  /\ pc = "manifest"
  /\ manifest' = IF Recorded THEN manifest ELSE Append(manifest, [raw |-> batch, refs |-> made])
  /\ GoOn("manifest")
  /\ UNCHANGED <<kind, commitVars, raw, files, checkpoint, gapFiles, stamp, begun, cuts>>

WriteCheckpoint ==
  /\ pc = "checkpoint"
  /\ checkpoint' = batch
  /\ GoOn("checkpoint")
  /\ UNCHANGED <<kind, commitVars, raw, files, manifest, gapFiles, stamp, begun, cuts>>

\* A step raises: disk, network, a partial file that has been moved away.
CommitFails ==
  /\ pc # "idle"
  /\ cuts < MaxCuts                                  \* bound
  /\ Raise
  /\ cuts' = cuts + 1
  /\ UNCHANGED <<kind, diskVars, pending, done, begun>>

\* Mutant of RawInPlace: every raw object is written in place.
RawInPlaceAll == TRUE

RawInPlace == kind = "funding"
InPlace == kind \in {"oi", "funding", "bybit_trades"}

\* The process ends.  What was being written in place is torn: these checkpoints,
\* and funding's raw object.
Crash ==
  /\ pc # "idle"
  /\ cuts < MaxCuts                                  \* bound
  /\ Raise
  /\ cuts' = cuts + 1
  /\ checkpoint' = IF pc = "checkpoint" /\ InPlace THEN Torn ELSE checkpoint
  /\ raw' = IF pc = "raw" /\ RawInPlace
            THEN [n \in DOMAIN raw \cup {RawName(batch)} |-> IF n = RawName(batch) THEN Torn ELSE raw[n]]
            ELSE raw
  /\ UNCHANGED <<kind, files, manifest, gapFiles, stamp, pending, done, begun>>

Step ==
  \/ Validate \/ RejectBatch \/ WriteRaw \/ RecordGap \/ GapsRecorded
  \/ WriteParquet \/ UsdmRepeatRaises \/ AppendManifest \/ WriteCheckpoint

Next == \/ \E b \in Batches : Begin(b)
        \/ LeaseRefused \/ Step \/ CommitFails \/ Crash

Spec == Init /\ [][Next]_vars

\* A commit in progress runs on; nothing makes the operator begin another.
FairSpec == Spec /\ WF_vars(Step)

-----------------------------------------------------------------------------
(* storage/catalog.py: resolve_active_artifacts                            *)

\* Of a cumulative dataset only the latest record is active.
Selected ==
  IF Cumulative /\ manifest # <<>> THEN {Len(manifest)} ELSE DOMAIN manifest

Active == UNION {{p[1] : p \in manifest[i].refs} : i \in Selected}

\* The latest record of a file is authoritative.
ActiveHash(f) ==
  LET naming == {i \in Selected : \E p \in manifest[i].refs : p[1] = f}
  IN  (CHOOSE p \in manifest[Max(naming)].refs : p[1] = f)[2]

\* No active file is missing or differs from its record; funding records no hash.
Resolves ==
  \A f \in Active : f \in DOMAIN files /\ (kind # "funding" => files[f] = ActiveHash(f))

ActiveRows == UNION {files[f].rows : f \in Active}

-----------------------------------------------------------------------------
(* Properties                                                              *)

Contents == {[rows |-> b, stamp |-> n] : b \in SUBSET UNION Batches, n \in 0..MaxCommits}

\* The variables have their types.
TypeOK ==
  /\ kind \in Kinds
  /\ pc \in Range(Order) \cup {"idle"}
  /\ batch \in BatchesOf[kind] \cup {NoBatch}
  /\ pending \subseteq {RawName(b) : b \in BatchesOf[kind]}
  /\ todo \subseteq Range(PartOf) \cup {0}
  /\ \A n \in DOMAIN raw : raw[n] \in BatchesOf[kind] \cup {Torn}
  /\ \A f \in DOMAIN files : files[f] \in Contents
  /\ \A p \in made : p[1] \in DOMAIN files /\ p[2] \in Contents
  /\ \A row \in Range(manifest) : row.raw \in BatchesOf[kind] /\ row.refs # {}
  /\ checkpoint \in BatchesOf[kind] \cup {NoBatch, Torn}
  /\ gapFiles \subseteq (DOMAIN PartOf) \X (DOMAIN PartOf)
  /\ done \subseteq BatchesOf[kind] \ Invalid
  /\ stamp \in 0..MaxCommits /\ begun \in 0..MaxCommits /\ cuts \in 0..MaxCuts

\* Whatever step a failure or a kill cuts off, and however a batch is repeated,
\* the files behave like one atomic log.  (Funding, which replaces its files, is
\* mapped to an idle one.)
IsLog == kind # "funding"
Log == INSTANCE DurableLog WITH
         Batches   <- Batches,
         Contents  <- LAMBDA b : b,
         NoBatch   <- NoBatch,
         stored    <- IF IsLog THEN UNION {files[f].rows : f \in DOMAIN files} ELSE {},
         committed <- IF IsLog THEN {row.raw : row \in Range(manifest)} ELSE {},
         mark      <- IF IsLog /\ checkpoint # Torn THEN checkpoint ELSE NoBatch
CommitsLikeALog == Log!Spec

\* The catalog can be built at any moment, beside a running commit and after a
\* failed one.  Bybit's trade archive is the exception: its file is replaced
\* before its record is, so that only a returned commit leaves it readable.
CatalogResolves ==
  Resolves \/ (kind = "bybit_trades" /\ pending # {})

\* The checkpoint of a candle dataset names a batch only once every gap in it is
\* recorded, whichever commit was cut before and repeated.
CheckpointHasGaps ==
  kind \in {"month", "rows"} => Starts(GapsIn(checkpoint)) \subseteq Starts(gapFiles)

\* What a commit has returned is there for the readers: the catalog has a row for
\* each of its times, in a cumulative dataset as far as the latest record
\* reaches.  (Funding keeps the times of the latest batch only.)
ReturnedIsActive ==
  kind # "funding" =>
    \A b \in done :
      LET reach == IF Cumulative /\ manifest # <<>> THEN Parts(Last(manifest).raw) ELSE Parts(b)
      IN  {t \in Times(b) : PartOf[t] \in reach} \subseteq Times(ActiveRows)

\* What the storage report says of a cumulative dataset: its latest generation
\* stands for everything that was accepted before.
ActiveIsCumulative ==
  Cumulative => \A b \in done : Times(b) \subseteq Times(ActiveRows)

Pinned(b) ==
  kind = "bybit_trades" /\ RawName(b) \in DOMAIN raw /\ raw[RawName(b)] \in Invalid

\* Whatever earlier commits of any batches have left behind, the next one that
\* nothing cuts short returns.  A USD-M day's does not (RepeatRaises), nor does a
\* Bybit day's whose first archive was rejected: the archive is used again.
RepeatsReturn ==
  \A b \in Batches \ Invalid :
    (batch = b /\ cuts = MaxCuts /\ kind # "usdm_trades" /\ ~Pinned(b)) ~> (RawName(b) \notin pending)
=============================================================================
