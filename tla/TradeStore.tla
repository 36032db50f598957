------------------------------ MODULE TradeStore ------------------------------
(***************************************************************************)
(* Binance spot trade days on one data root: the processes that commit     *)
(* them under the writer lease (spot_trades.py), the one that builds the   *)
(* derived buckets (trade_buckets.py), the one that deletes a day's source *)
(* once its minute buckets exist (plan_retention, apply_retention), and    *)
(* what the catalog makes of it.  Only the writers take the lease.         *)
(*                                                                         *)
(* A Parquet file is the retrieval stamp of the commit that wrote it,      *)
(* which its hash depends on; Mixed is any file that two commits wrote at  *)
(* once.  A bucket file is known by the hash of its source.  Downloads,    *)
(* which are checked against the published checksum, always succeed.       *)
(***************************************************************************)
EXTENDS Integers, Sequences, FiniteSets, SequencesExt

CONSTANTS Writers,     \* processes that commit days
          Days,
          Seconds,     \* bucket lengths that are built
          MaxCommits,  \* bound: commits begun
          MaxCuts,     \* bound: failures and kills
          MaxPlans     \* bound: retention jobs

ASSUME StoreAssumption ==
  /\ Seconds \subseteq {1, 5, 60} /\ Days \subseteq Nat
  /\ MaxCommits \in Nat /\ MaxCuts \in Nat /\ MaxPlans \in Nat

VARIABLES
  lease,      \* NoLease or [owner, filled, old, dead]
  pc, job,    \* of every writer: its step; its day and retrieval stamp, or NoJob
  raw,        \* days whose raw archive is stored
  partial,    \* days whose Parquet partial exists
  writing,    \* day -> writers that have its partial open
  parquet,    \* day -> stamp of the Parquet file, or Missing
  manifest,   \* manifest rows of days, in order: [day, hash, at]
  mark,       \* the day the checkpoint names
  buckets,    \* bucket files: [day, secs, hash]
  bucketRows, \* manifest rows of buckets
  building,   \* the bucket being built, or NoBucket
  published,  \* TRUE when its file is in place
  plan,       \* retention events not yet applied: [target, sum]
  dry,        \* the plan is only rehearsed
  unlinked,   \* the first event's target has been unlinked, its record not written
  ledger,     \* deletion ledger: [target, sum, dry]
  begun, cuts, plans,  \* history: commits begun, failures, retention jobs
  stolen,     \* history: a live writer's lease was moved aside
  deleted     \* history: targets that retention unlinked

writerVars  == <<lease, pc, job, raw, partial, writing, parquet, manifest, mark, begun, stolen>>
bucketVars  == <<buckets, bucketRows, building, published>>
keeperVars  == <<plan, dry, unlinked, ledger, plans, deleted>>
vars == <<writerVars, bucketVars, keeperVars, cuts>>

NoLease  == [owner |-> {}, filled |-> FALSE, old |-> FALSE, dead |-> FALSE]
NoBucket == [day |-> 0, secs |-> 0, hash |-> 0]
NoJob    == [day |-> 0, at |-> 0]
Missing  == 0
Mixed    == -1
Steps    == {"raw", "parquet", "write", "manifest", "mark"}
Holding  == Steps \cup {"fill", "release"}

Init ==
  /\ lease = NoLease
  /\ pc = [w \in Writers |-> "idle"] /\ job = [w \in Writers |-> NoJob]
  /\ raw = {} /\ partial = {} /\ writing = [d \in Days |-> {}]
  /\ parquet = [d \in Days |-> Missing] /\ manifest = <<>> /\ mark = 0
  /\ buckets = {} /\ bucketRows = {} /\ building = NoBucket /\ published = FALSE
  /\ plan = <<>> /\ dry = FALSE /\ unlinked = FALSE /\ ledger = {}
  /\ begun = 0 /\ cuts = 0 /\ plans = 0 /\ stolen = FALSE /\ deleted = {}

-----------------------------------------------------------------------------
(* acquire_writer_lease                                                    *)

Goto(w, step) == pc' = [pc EXCEPT ![w] = step]

\* commit_day has ended or raised.
Leave(w) == Goto(w, "idle") /\ job' = [job EXCEPT ![w] = NoJob]

Disk == <<raw, partial, writing, parquet, manifest, mark>>

\* commit_day begins: the lease file is looked for and read.  One that cannot be
\* parsed, is ten minutes old or has no living owner is stale; another refuses the
\* commit, which changes nothing.  The retrieval time is the present one, or one that
\* an earlier commit was given, too.
LookForLease(w, d) ==
  /\ pc[w] = "idle"
  /\ begun < MaxCommits                              \* bound
  /\ ~(lease.filled /\ ~lease.old /\ ~lease.dead)
  /\ begun' = begun + 1
  /\ \E at \in 1..(begun + 1) : job' = [job EXCEPT ![w] = [day |-> d, at |-> at]]
  /\ Goto(w, IF lease = NoLease THEN "create" ELSE "take")
  /\ UNCHANGED <<lease, Disk, stolen, bucketVars, keeperVars, cuts>>

\* The lease that is there by now is moved aside; the move raises if there is none.
TakeStaleLease(w) ==
  /\ pc[w] = "take"
  /\ lease' = NoLease
  /\ stolen' = (stolen \/ (lease # NoLease /\ ~lease.dead))
  /\ IF lease = NoLease THEN Leave(w) ELSE Goto(w, "create") /\ UNCHANGED job
  /\ UNCHANGED <<Disk, begun, bucketVars, keeperVars, cuts>>

\* Mutant of CreateLease: the file is opened for writing, not for creation.
CreateLeaseOver(w) ==
  /\ pc[w] = "create"
  /\ lease' = [owner |-> {w}, filled |-> FALSE, old |-> FALSE, dead |-> FALSE]
  /\ Goto(w, "fill")
  /\ UNCHANGED <<job, Disk, begun, stolen, bucketVars, keeperVars, cuts>>

\* The lease file is created exclusively, and empty.
CreateLease(w) ==
  /\ pc[w] = "create"
  /\ lease' = IF lease = NoLease THEN [NoLease EXCEPT !.owner = {w}] ELSE lease
  /\ IF lease = NoLease THEN Goto(w, "fill") /\ UNCHANGED job ELSE Leave(w)
  /\ UNCHANGED <<Disk, begun, stolen, bucketVars, keeperVars, cuts>>

\* Its content is written, into the quarantined file if it has been moved aside.
FillLease(w) ==
  /\ pc[w] = "fill"
  /\ lease' = IF lease.owner = {w} THEN [lease EXCEPT !.filled = TRUE] ELSE lease
  /\ Goto(w, "raw")
  /\ UNCHANGED <<job, Disk, begun, stolen, bucketVars, keeperVars, cuts>>

\* Ten minutes pass.  The heartbeat is never refreshed.
LeaseAges ==
  /\ lease # NoLease /\ ~lease.old /\ ~lease.dead
  /\ lease' = [lease EXCEPT !.old = TRUE]
  /\ UNCHANGED <<pc, job, Disk, begun, stolen, bucketVars, keeperVars, cuts>>

\* The finally clause removes whatever lease is there.
ReleaseLease(w) ==
  /\ pc[w] = "release"
  /\ lease' = NoLease
  /\ Leave(w)
  /\ UNCHANGED <<Disk, begun, stolen, bucketVars, keeperVars, cuts>>

-----------------------------------------------------------------------------
(* _commit_day                                                             *)

Rest == <<lease, job, begun, stolen, bucketVars, keeperVars, cuts>>

\* The files that the writer's step reads are there: retention may have deleted
\* the archive or the Parquet file, another writer have moved the partial.
InputsThere(w) ==
  LET d == job[w].day
  IN  /\ pc[w] \in {"parquet", "write", "manifest"} => d \in raw
      /\ pc[w] = "write" => d \in partial
      /\ pc[w] = "manifest" => parquet[d] # Missing

StoreRaw(w) ==
  /\ pc[w] = "raw"
  /\ raw' = raw \cup {job[w].day}
  /\ Goto(w, "parquet")
  /\ UNCHANGED <<partial, writing, parquet, manifest, mark, Rest>>

\* Mutant of Rewrites: the file of a day is written anew by every commit.
RewritesAlways(d) == TRUE

\* A day that has its Parquet file is not written again.
Rewrites(d) == parquet[d] = Missing

ReuseParquet(w) ==
  /\ pc[w] = "parquet"
  /\ ~Rewrites(job[w].day) /\ InputsThere(w)
  /\ Goto(w, "manifest")
  /\ UNCHANGED <<Disk, Rest>>

\* The partial has one name for all writers; opening it empties it.
OpenPartial(w) ==
  /\ pc[w] = "parquet"
  /\ Rewrites(job[w].day) /\ InputsThere(w)
  /\ partial' = partial \cup {job[w].day}
  /\ writing' = [writing EXCEPT ![job[w].day] = @ \cup {w}]
  /\ Goto(w, "write")
  /\ UNCHANGED <<raw, parquet, manifest, mark, Rest>>

Publish(w) ==
  /\ pc[w] = "write" /\ InputsThere(w)
  /\ partial' = partial \ {job[w].day}
  /\ parquet' = [parquet EXCEPT ![job[w].day] = IF writing[job[w].day] = {w} THEN job[w].at ELSE Mixed]
  /\ writing' = [writing EXCEPT ![job[w].day] = @ \ {w}]
  /\ Goto(w, "manifest")
  /\ UNCHANGED <<raw, manifest, mark, Rest>>

\* The places of the day's rows, the last of which is the active one.
RowsOf(d) == {i \in DOMAIN manifest : manifest[i].day = d}
ActiveHash(d) == manifest[Max(RowsOf(d))].hash
RowFor(w)     == [day |-> job[w].day, hash |-> parquet[job[w].day], at |-> job[w].at]
Recorded(w)   == \E row \in Range(manifest) : row.day = job[w].day /\ row.hash = parquet[job[w].day]

\* Mutant of AppendRow: the hash is not taken from the file.
AppendRowBlind(w) ==
  /\ pc[w] = "manifest"
  /\ manifest' = Append(manifest, RowFor(w))
  /\ Goto(w, "mark")
  /\ UNCHANGED <<raw, partial, writing, parquet, mark, Rest>>

\* _append_manifest: the file's hash is recorded, unless a row has it already.
AppendRow(w) ==
  /\ pc[w] = "manifest" /\ InputsThere(w)
  /\ ~Recorded(w) \/ parquet[job[w].day] = Mixed
  /\ manifest' = Append(manifest, RowFor(w))
  /\ Goto(w, "mark")
  /\ UNCHANGED <<raw, partial, writing, parquet, mark, Rest>>

\* The same row is there already.
RowRepeated(w) ==
  /\ pc[w] = "manifest" /\ InputsThere(w)
  /\ RowFor(w) \in Range(manifest)
  /\ Goto(w, "mark")
  /\ UNCHANGED <<Disk, Rest>>

\* A row of the same hash says otherwise, having another retrieval time: "manifest
\* checksum collision with different event".
RowCollides(w) ==
  /\ pc[w] = "manifest" /\ InputsThere(w)
  /\ Recorded(w)
  /\ RowFor(w) \notin Range(manifest) \/ parquet[job[w].day] = Mixed
  /\ Goto(w, "release")
  /\ UNCHANGED <<Disk, Rest>>

WriteMark(w) ==
  /\ pc[w] = "mark"
  /\ mark' = job[w].day
  /\ Goto(w, "release")
  /\ UNCHANGED <<raw, partial, writing, parquet, manifest, Rest>>

\* A step raises: its input is gone, a row is refused, disk or quota.
CommitRaises(w) ==
  /\ pc[w] \in Steps
  /\ \/ cuts < MaxCuts /\ cuts' = cuts + 1           \* bound
     \/ cuts' = cuts /\ ~InputsThere(w)
  /\ writing' = [writing EXCEPT ![job[w].day] = @ \ {w}]
  /\ Goto(w, "release")
  /\ UNCHANGED <<lease, job, raw, partial, parquet, manifest, mark, begun, stolen, bucketVars, keeperVars>>

\* The process is killed; its lease and its partial stay.
WriterDies(w) ==
  /\ pc[w] # "idle"
  /\ cuts < MaxCuts /\ cuts' = cuts + 1              \* bound
  /\ lease' = IF lease.owner = {w} THEN [lease EXCEPT !.dead = TRUE] ELSE lease
  /\ writing' = [d \in Days |-> writing[d] \ {w}]
  /\ Leave(w)
  /\ UNCHANGED <<raw, partial, parquet, manifest, mark, begun, stolen, bucketVars, keeperVars>>

\* quarantine_stale_trade_partials: partials nobody has written to for a while.
SweepPartials ==
  /\ \E d \in partial : writing[d] = {} /\ partial' = partial \ {d}
  /\ UNCHANGED <<lease, pc, job, raw, writing, parquet, manifest, mark, begun, stolen, bucketVars, keeperVars, cuts>>

-----------------------------------------------------------------------------
(* build_buckets                                                           *)

\* The day's last manifest row must match its file.
StartBuild(d, s) ==
  /\ building = NoBucket
  /\ RowsOf(d) # {} /\ parquet[d] = ActiveHash(d)
  /\ building' = [day |-> d, secs |-> s, hash |-> parquet[d]]
  /\ UNCHANGED <<writerVars, buckets, bucketRows, published, keeperVars, cuts>>

PublishBucket ==
  /\ building # NoBucket /\ ~published
  /\ buckets' = buckets \cup {building}
  /\ published' = TRUE
  /\ UNCHANGED <<writerVars, bucketRows, building, keeperVars, cuts>>

\* The file is hashed again for its row; it raises if retention has deleted it.
RecordBucket ==
  /\ building # NoBucket /\ published
  /\ bucketRows' = IF building \in buckets THEN bucketRows \cup {building} ELSE bucketRows
  /\ building' = NoBucket /\ published' = FALSE
  /\ UNCHANGED <<writerVars, buckets, keeperVars, cuts>>

BuildCut ==
  /\ building # NoBucket
  /\ cuts < MaxCuts /\ cuts' = cuts + 1              \* bound
  /\ building' = NoBucket /\ published' = FALSE
  /\ UNCHANGED <<writerVars, buckets, bucketRows, keeperVars>>

-----------------------------------------------------------------------------
(* plan_retention and apply_retention                                      *)

Present(t) ==
  CASE t.kind = "raw"    -> t.day \in raw
    [] t.kind = "day"    -> parquet[t.day] # Missing
    [] t.kind = "bucket" -> t.bucket \in buckets
Digest(t) == IF t.kind = "day" THEN parquet[t.day] ELSE 0

Target(k, d, b) == [kind |-> k, day |-> d, bucket |-> b]
Targets(d) ==
  <<Target("raw", d, NoBucket), Target("day", d, NoBucket)>> \o
  SetToSeq({Target("bucket", d, b) : b \in {c \in bucketRows : c.day = d /\ c.secs # 60}})

\* Mutant of MinuteIsComplete: any bucket row of the day will do.
AnyBucket(d) == \E b \in bucketRows : b.day = d

\* Exactly one minute row, and exactly one row of its source.
MinuteIsComplete(d) ==
  /\ Cardinality({b \in bucketRows : b.day = d /\ b.secs = 60}) = 1
  /\ Cardinality(RowsOf(d)) = 1

\* The targets are hashed for the plan, which raises if one is missing.
PlanRetention(d) ==
  /\ plan = <<>> /\ plans < MaxPlans                 \* bound
  /\ MinuteIsComplete(d)
  /\ \A t \in Range(Targets(d)) : Present(t)
  /\ plan' = [i \in DOMAIN Targets(d) |-> [target |-> Targets(d)[i], sum |-> Digest(Targets(d)[i])]]
  /\ dry' \in BOOLEAN
  /\ plans' = plans + 1
  /\ UNCHANGED <<writerVars, bucketVars, unlinked, ledger, deleted, cuts>>

Event == Head(plan)
Done(e) == [target |-> e.target, sum |-> e.sum, dry |-> dry] \in ledger

SkipRecorded ==
  /\ plan # <<>> /\ ~unlinked
  /\ Done(Event)
  /\ plan' = Tail(plan)
  /\ UNCHANGED <<writerVars, bucketVars, dry, unlinked, ledger, plans, deleted, cuts>>

\* The target is checked against the plan and unlinked.
Unlink ==
  /\ plan # <<>> /\ ~unlinked /\ ~dry
  /\ ~Done(Event) /\ Present(Event.target) /\ Digest(Event.target) = Event.sum
  /\ raw' = IF Event.target.kind = "raw" THEN raw \ {Event.target.day} ELSE raw
  /\ parquet' = IF Event.target.kind = "day" THEN [parquet EXCEPT ![Event.target.day] = Missing] ELSE parquet
  /\ buckets' = buckets \ {Event.target.bucket}
  /\ unlinked' = TRUE
  /\ deleted' = deleted \cup {Event.target}
  /\ UNCHANGED <<lease, pc, job, partial, writing, manifest, mark, begun, stolen,
                 bucketRows, building, published, plan, dry, ledger, plans, cuts>>

\* Mutant of RecordDeletion: a target is recorded once, whether rehearsed or not.
RecordDeletionOnce ==
  /\ plan # <<>> /\ (dry \/ unlinked) /\ ~Done(Event)
  /\ ledger' = IF \E r \in ledger : r.target = Event.target THEN ledger
               ELSE ledger \cup {[target |-> Event.target, sum |-> Event.sum, dry |-> dry]}
  /\ plan' = Tail(plan)
  /\ unlinked' = FALSE
  /\ UNCHANGED <<writerVars, bucketVars, dry, plans, deleted, cuts>>

\* The ledger line follows the deletion, or stands alone in a dry run.
RecordDeletion ==
  /\ plan # <<>> /\ (dry \/ unlinked) /\ ~Done(Event)
  /\ ledger' = ledger \cup {[target |-> Event.target, sum |-> Event.sum, dry |-> dry]}
  /\ plan' = Tail(plan)
  /\ unlinked' = FALSE
  /\ UNCHANGED <<writerVars, bucketVars, dry, plans, deleted, cuts>>

\* The target has changed or is gone, or the process is killed.
RetentionCut ==
  /\ plan # <<>>
  /\ \/ cuts < MaxCuts /\ cuts' = cuts + 1           \* bound
     \/ /\ ~dry /\ ~unlinked /\ ~Done(Event)
        /\ ~Present(Event.target) \/ Digest(Event.target) # Event.sum
        /\ cuts' = cuts
  /\ plan' = <<>> /\ unlinked' = FALSE
  /\ UNCHANGED <<writerVars, bucketVars, dry, ledger, plans, deleted>>

-----------------------------------------------------------------------------

Next ==
  \/ \E w \in Writers :
       \/ \E d \in Days : LookForLease(w, d)
       \/ TakeStaleLease(w) \/ CreateLease(w) \/ FillLease(w) \/ ReleaseLease(w)
       \/ StoreRaw(w) \/ ReuseParquet(w) \/ OpenPartial(w) \/ Publish(w)
       \/ AppendRow(w) \/ RowRepeated(w) \/ RowCollides(w) \/ WriteMark(w)
       \/ CommitRaises(w) \/ WriterDies(w)
  \/ LeaseAges \/ SweepPartials
  \/ \E d \in Days, s \in Seconds : StartBuild(d, s)
  \/ PublishBucket \/ RecordBucket \/ BuildCut
  \/ \E d \in Days : PlanRetention(d)
  \/ SkipRecorded \/ Unlink \/ RecordDeletion \/ RetentionCut

Spec == Init /\ [][Next]_vars

-----------------------------------------------------------------------------
(* Properties                                                              *)

\* The variables have their types.
TypeOK ==
  /\ lease.owner \in {{}} \cup {{w} : w \in Writers}
  /\ \A w \in Writers : pc[w] \in Holding \cup {"idle", "take", "create"} /\ job[w].day \in Days \cup {0}
  /\ raw \subseteq Days /\ partial \subseteq Days
  /\ \A d \in Days : writing[d] \subseteq Writers /\ parquet[d] \in Mixed..MaxCommits
  /\ \A row \in Range(manifest) : row.day \in Days /\ row.hash \in (Mixed..MaxCommits) \ {Missing} /\ row.at \in 1..MaxCommits
  /\ mark \in Days \cup {0}
  /\ \A b \in buckets \cup bucketRows : b.day \in Days /\ b.secs \in Seconds
  /\ \A r \in ledger : r.target.day \in Days
  /\ begun \in 0..MaxCommits /\ cuts \in 0..MaxCuts /\ plans \in 0..MaxPlans

\* Two commits run at once only after the lease of a live writer was moved aside
\* (it had outlived ten minutes, was still empty, or replaced the one looked at);
\* dead owners, refusals, releases and lost races never let a second writer in.
TwoWritersNeedATheft ==
  Cardinality({w \in Writers : pc[w] \in Holding}) > 1 => stolen

\* However commits, builds, kills and retention interleave, a recorded day is
\* still there: its trades, or its recorded minute buckets.
MinuteSurvives ==
  \A row \in Range(manifest) :
    \/ parquet[row.day] # Missing
    \/ \E b \in buckets \cap bucketRows : b.day = row.day /\ b.secs = 60

\* What retention has deleted is in the ledger, but for one file per cut, whose
\* record the cut may have lost.
DeletionsAreLedgered ==
  LET recorded == {r.target : r \in {s \in ledger : ~s.dry}}
  IN  Cardinality(deleted \ recorded) <= cuts + (IF unlinked THEN 1 ELSE 0)

\* The catalog finds every active day and bucket with its recorded hash, until
\* retention deletes: no manifest says what it deleted.
Resolves ==
  /\ \A row \in Range(manifest) : parquet[row.day] = ActiveHash(row.day)
  /\ \A b \in bucketRows : b.hash = ActiveHash(b.day) => b \in buckets
CatalogResolvesUntilRetention == Resolves \/ deleted # {} \/ stolen
=============================================================================
