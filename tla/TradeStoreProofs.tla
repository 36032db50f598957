----------------------------- MODULE TradeStoreProofs -----------------------------
(***************************************************************************)
(* Proofs about TradeStore for any writers, days and bucket lengths, and   *)
(* any number of commits, failures and retention jobs.                     *)
(***************************************************************************)
EXTENDS TradeStore, CommonLemmas

-----------------------------------------------------------------------------
(* Types                                                                   *)

Hashes  == (Mixed..MaxCommits) \ {Missing}
Row     == [day : Days, hash : Hashes, at : 1..MaxCommits]
Bucket  == [day : Days, secs : Seconds, hash : Hashes]
TargetT == [kind : {"raw", "day", "bucket"}, day : Days, bucket : Bucket \cup {NoBucket}]
EventT  == [target : TargetT, sum : Mixed..MaxCommits]

\* The variables, by the process that keeps them.
LeaseTypes ==
  /\ lease \in [owner : {{}} \cup {{w} : w \in Writers}, filled : BOOLEAN, old : BOOLEAN, dead : BOOLEAN]
  /\ stolen \in BOOLEAN
TaskTypes ==
  /\ pc \in [Writers -> Holding \cup {"idle", "take", "create"}]
  /\ job \in [Writers -> [day : Days \cup {0}, at : 0..MaxCommits]]
  /\ \A w \in Writers : pc[w] # "idle" => job[w].day \in Days /\ job[w].at \in 1..MaxCommits
  /\ begun \in 0..MaxCommits
DiskTypes ==
  /\ raw \subseteq Days /\ partial \subseteq Days
  /\ writing \in [Days -> SUBSET Writers]
  /\ parquet \in [Days -> Mixed..MaxCommits]
  /\ manifest \in Seq(Row)
  /\ mark \in Days \cup {0}
BucketTypes ==
  /\ buckets \subseteq Bucket
  /\ bucketRows \subseteq Bucket /\ IsFiniteSet(bucketRows)
  /\ building \in Bucket \cup {NoBucket}
  /\ published \in BOOLEAN
KeeperTypes ==
  /\ plan \in Seq(EventT)
  /\ dry \in BOOLEAN /\ unlinked \in BOOLEAN
  /\ ledger \subseteq [target : TargetT, sum : Mixed..MaxCommits, dry : BOOLEAN]
  /\ plans \in 0..MaxPlans
  /\ deleted \subseteq TargetT /\ IsFiniteSet(deleted)
CutTypes == cuts \in 0..MaxCuts

TypeInv == LeaseTypes /\ TaskTypes /\ DiskTypes /\ BucketTypes /\ KeeperTypes /\ CutTypes

\* The variables an action leaves alone.
LEMMA QuietTypes ==
  /\ UNCHANGED <<lease, stolen>> /\ LeaseTypes => LeaseTypes'
  /\ UNCHANGED <<pc, job, begun>> /\ TaskTypes => TaskTypes'
  /\ UNCHANGED Disk /\ DiskTypes => DiskTypes'
  /\ UNCHANGED bucketVars /\ BucketTypes => BucketTypes'
  /\ UNCHANGED keeperVars /\ KeeperTypes => KeeperTypes'
  /\ UNCHANGED cuts /\ CutTypes => CutTypes'
<1>1. UNCHANGED <<lease, stolen>> /\ LeaseTypes => LeaseTypes'
  BY Zenon DEF LeaseTypes
<1>2. UNCHANGED <<pc, job, begun>> /\ TaskTypes => TaskTypes'
  BY Zenon DEF TaskTypes
<1>3. UNCHANGED Disk /\ DiskTypes => DiskTypes'
  BY Zenon DEF DiskTypes, Disk
<1>4. UNCHANGED bucketVars /\ BucketTypes => BucketTypes'
  BY Zenon DEF BucketTypes, bucketVars
<1>5. UNCHANGED keeperVars /\ KeeperTypes => KeeperTypes'
  BY Zenon DEF KeeperTypes, keeperVars
<1>6. UNCHANGED cuts /\ CutTypes => CutTypes'
  BY Zenon DEF CutTypes
<1>. QED
  BY <1>1, <1>2, <1>3, <1>4, <1>5, <1>6

\* The initial state has the types: no lease, no task, an empty store.
LEMMA InitTypes == Init => TypeInv
<1>. SUFFICES ASSUME Init PROVE TypeInv
  OBVIOUS
<1>. USE StoreAssumption DEF Init
<1>1. LeaseTypes
  BY DEF LeaseTypes, NoLease
<1>2. TaskTypes
  BY DEF TaskTypes, NoJob
<1>3. DiskTypes
  BY EmptySeq DEF DiskTypes, Missing, Mixed
<1>4. BucketTypes /\ KeeperTypes
  <2>1. BucketTypes
    BY FS_EmptySet DEF BucketTypes
  <2>2. plan \in Seq(EventT)
    BY EmptySeq
  <2>3. deleted \subseteq TargetT /\ IsFiniteSet(deleted)
    BY FS_EmptySet
  <2>4. 0 \in 0..MaxPlans
    OBVIOUS
  <2>. QED
    BY <2>1, <2>2, <2>3, <2>4 DEF KeeperTypes
<1>5. CutTypes
  BY DEF CutTypes
<1>. QED
  BY <1>1, <1>2, <1>3, <1>4, <1>5 DEF TypeInv

\* A step of a writer, and the end of its commit.
LEMMA GotoTypes ==
  ASSUME TaskTypes, NEW w \in Writers, begun' = begun,
         \/ /\ UNCHANGED job /\ pc[w] # "idle"
            /\ \E step \in Holding \cup {"create", "take"} : Goto(w, step)
         \/ Leave(w)
  PROVE  TaskTypes'
<1>1. CASE UNCHANGED job /\ pc[w] # "idle" /\ \E step \in Holding \cup {"create", "take"} : Goto(w, step)
  <2>1. PICK step \in Holding \cup {"create", "take"} : pc' = [pc EXCEPT ![w] = step]
    BY <1>1 DEF Goto
  <2>2. \A v \in Writers : pc'[v] # "idle" => job'[v].day \in Days /\ job'[v].at \in 1..MaxCommits
    BY <1>1, <2>1 DEF TaskTypes
  <2>. QED
    BY <1>1, <2>1, <2>2 DEF TaskTypes
<1>2. CASE Leave(w)
  <2>1. NoJob \in [day : Days \cup {0}, at : 0..MaxCommits]
    BY StoreAssumption DEF NoJob
  <2>2. pc' = [pc EXCEPT ![w] = "idle"] /\ job' = [job EXCEPT ![w] = NoJob]
    BY <1>2 DEF Leave, Goto
  <2>3. \A v \in Writers : pc'[v] # "idle" => job'[v].day \in Days /\ job'[v].at \in 1..MaxCommits
    BY <2>2 DEF TaskTypes
  <2>. QED
    BY <2>1, <2>2, <2>3 DEF TaskTypes
<1>. QED
  BY <1>1, <1>2

\* The lease is looked for, taken, created, filled and released.
LEMMA LeaseActionTypes ==
  ASSUME TypeInv, NEW w \in Writers,
         \/ \E d \in Days : LookForLease(w, d)
         \/ TakeStaleLease(w) \/ CreateLease(w) \/ FillLease(w) \/ ReleaseLease(w)
  PROVE  TypeInv'
<1>. USE DEF TypeInv
<1>1. ASSUME NEW d \in Days, LookForLease(w, d) PROVE TypeInv'
  <2>1. begun + 1 \in 1..MaxCommits /\ begun' = begun + 1
    BY <1>1, StoreAssumption DEF LookForLease, TaskTypes
  <2>2. /\ pc' = [pc EXCEPT ![w] = IF lease = NoLease THEN "create" ELSE "take"]
        /\ \E at \in 1..(begun + 1) : job' = [job EXCEPT ![w] = [day |-> d, at |-> at]]
    BY <1>1 DEF LookForLease, Goto
  <2>a. PICK at \in 1..(begun + 1) : job' = [job EXCEPT ![w] = [day |-> d, at |-> at]]
    BY <2>2
  <2>b. at \in 1..MaxCommits
    BY <2>1, StoreAssumption DEF TaskTypes
  <2>3. \A v \in Writers : pc'[v] # "idle" => job'[v].day \in Days /\ job'[v].at \in 1..MaxCommits
    BY <2>1, <2>2, <2>a, <2>b DEF TaskTypes
  <2>4. TaskTypes'
    BY <2>1, <2>2, <2>3, <2>a, <2>b DEF TaskTypes
  <2>. QED
    BY <1>1, <2>4, QuietTypes DEF LookForLease
<1>2. CASE TakeStaleLease(w)
  <2>1. LeaseTypes'
    BY <1>2 DEF TakeStaleLease, LeaseTypes, NoLease
  <2>2. TaskTypes'
    BY <1>2, GotoTypes DEF TakeStaleLease
  <2>. QED
    BY <1>2, <2>1, <2>2, QuietTypes DEF TakeStaleLease
<1>3. CASE CreateLease(w)
  <2>1. LeaseTypes'
    BY <1>3 DEF CreateLease, LeaseTypes, NoLease
  <2>2. TaskTypes'
    BY <1>3, GotoTypes DEF CreateLease, Holding
  <2>. QED
    BY <1>3, <2>1, <2>2, QuietTypes DEF CreateLease
<1>4. CASE FillLease(w)
  <2>1. LeaseTypes'
    BY <1>4 DEF FillLease, LeaseTypes
  <2>2. TaskTypes'
    BY <1>4, GotoTypes DEF FillLease, Holding, Steps
  <2>. QED
    BY <1>4, <2>1, <2>2, QuietTypes DEF FillLease
<1>5. CASE ReleaseLease(w)
  <2>1. LeaseTypes'
    BY <1>5 DEF ReleaseLease, LeaseTypes, NoLease
  <2>2. TaskTypes'
    BY <1>5, GotoTypes DEF ReleaseLease
  <2>. QED
    BY <1>5, <2>1, <2>2, QuietTypes DEF ReleaseLease
<1>. QED
  BY <1>1, <1>2, <1>3, <1>4, <1>5

\* The steps of a commit, its failure and the death of the process.
LEMMA CommitTypes ==
  ASSUME TypeInv, NEW w \in Writers,
         \/ StoreRaw(w) \/ ReuseParquet(w) \/ OpenPartial(w) \/ Publish(w)
         \/ AppendRow(w) \/ RowRepeated(w) \/ RowCollides(w) \/ WriteMark(w)
         \/ CommitRaises(w) \/ WriterDies(w)
  PROVE  TypeInv'
<1>. USE DEF TypeInv, Rest, Holding, Steps
<1>0. pc[w] # "idle" => job[w].day \in Days /\ job[w].at \in 1..MaxCommits
  BY DEF TaskTypes
<1>1. CASE StoreRaw(w)
  <2>1. DiskTypes'
    BY <1>0, <1>1 DEF StoreRaw, DiskTypes
  <2>2. TaskTypes'
    BY <1>1, GotoTypes DEF StoreRaw
  <2>. QED
    BY <1>1, <2>1, <2>2, QuietTypes DEF StoreRaw
<1>2. CASE ReuseParquet(w)
  <2>1. TaskTypes'
    BY <1>2, GotoTypes DEF ReuseParquet
  <2>. QED
    BY <1>2, <2>1, QuietTypes DEF ReuseParquet
<1>3. CASE OpenPartial(w)
  <2>1. DiskTypes'
    BY <1>0, <1>3 DEF OpenPartial, DiskTypes
  <2>2. TaskTypes'
    BY <1>3, GotoTypes DEF OpenPartial
  <2>. QED
    BY <1>3, <2>1, <2>2, QuietTypes DEF OpenPartial
<1>4. CASE Publish(w)
  <2>1. DiskTypes'
    <3>1. (IF writing[job[w].day] = {w} THEN job[w].at ELSE Mixed) \in Mixed..MaxCommits
      BY <1>0, <1>4, StoreAssumption DEF Publish, Mixed
    <3>2. parquet' \in [Days -> Mixed..MaxCommits]
      BY <1>4, <3>1 DEF Publish, DiskTypes
    <3>. QED
      BY <1>4, <3>2 DEF Publish, DiskTypes
  <2>2. TaskTypes'
    BY <1>4, GotoTypes DEF Publish
  <2>. QED
    BY <1>4, <2>1, <2>2, QuietTypes DEF Publish
<1>5. CASE AppendRow(w)
  <2>1. RowFor(w) \in Row
    BY <1>0, <1>5 DEF AppendRow, InputsThere, DiskTypes, Row, Hashes, RowFor
  <2>2. manifest' \in Seq(Row)
    BY <1>5, <2>1, AppendProperties DEF AppendRow, DiskTypes
  <2>3. DiskTypes'
    BY <1>5, <2>2 DEF AppendRow, DiskTypes
  <2>4. TaskTypes'
    BY <1>5, GotoTypes DEF AppendRow
  <2>. QED
    BY <1>5, <2>3, <2>4, QuietTypes DEF AppendRow
<1>6. CASE RowRepeated(w) \/ RowCollides(w)
  <2>1. TaskTypes'
    BY <1>6, GotoTypes DEF RowRepeated, RowCollides
  <2>. QED
    BY <1>6, <2>1, QuietTypes DEF RowRepeated, RowCollides
<1>7. CASE WriteMark(w)
  <2>1. DiskTypes'
    BY <1>0, <1>7 DEF WriteMark, DiskTypes
  <2>2. TaskTypes'
    BY <1>7, GotoTypes DEF WriteMark
  <2>. QED
    BY <1>7, <2>1, <2>2, QuietTypes DEF WriteMark
<1>8. CASE CommitRaises(w)
  <2>1. DiskTypes'
    BY <1>0, <1>8 DEF CommitRaises, DiskTypes
  <2>2. TaskTypes'
    BY <1>8, GotoTypes DEF CommitRaises
  <2>3. CutTypes'
    BY <1>8, StoreAssumption DEF CommitRaises, CutTypes
  <2>. QED
    BY <1>8, <2>1, <2>2, <2>3, QuietTypes DEF CommitRaises
<1>9. CASE WriterDies(w)
  <2>1. DiskTypes'
    BY <1>9 DEF WriterDies, DiskTypes
  <2>2. TaskTypes'
    BY <1>9, GotoTypes DEF WriterDies
  <2>3. CutTypes'
    BY <1>9, StoreAssumption DEF WriterDies, CutTypes
  <2>4. LeaseTypes'
    BY <1>9 DEF WriterDies, LeaseTypes
  <2>. QED
    BY <1>9, <2>1, <2>2, <2>3, <2>4, QuietTypes DEF WriterDies
<1>. QED
  BY <1>1, <1>2, <1>3, <1>4, <1>5, <1>6, <1>7, <1>8, <1>9

\* The places of a day's rows are finitely many, and the last is one of them.
LEMMA RowsOfDay ==
  ASSUME DiskTypes, NEW d
  PROVE  /\ IsFiniteSet(RowsOf(d)) /\ RowsOf(d) \subseteq 1..Len(manifest)
         /\ \A i \in 1..Len(manifest) : manifest[i] \in Row /\ manifest[i] \in Range(manifest)
         /\ RowsOf(d) # {} => Max(RowsOf(d)) \in RowsOf(d) /\ ActiveHash(d) \in Hashes
<1>1. manifest \in Seq(Row)
  BY DEF DiskTypes
<1>2. /\ Len(manifest) \in Nat /\ DOMAIN manifest = 1..Len(manifest)
      /\ \A i \in 1..Len(manifest) : manifest[i] \in Row /\ manifest[i] \in Range(manifest)
  BY <1>1, RangeIn, ElementOfSeq
<1>3. RowsOf(d) \subseteq 1..Len(manifest) /\ IsFiniteSet(RowsOf(d))
  <2>1. RowsOf(d) \subseteq 1..Len(manifest)
    BY <1>2 DEF RowsOf
  <2>2. IsFiniteSet(1..Len(manifest))
    BY <1>2, FS_Interval
  <2>. HIDE DEF RowsOf
  <2>. QED
    BY <2>1, <2>2, FS_Subset
<1>4. RowsOf(d) # {} => Max(RowsOf(d)) \in RowsOf(d)
  <2>1. RowsOf(d) \in SUBSET Nat /\ \A y \in RowsOf(d) : y <= Len(manifest)
    BY <1>2, <1>3
  <2>. QED
    BY <1>2, <2>1, MaxIsGreatest
<1>5. RowsOf(d) # {} => ActiveHash(d) \in Hashes
  BY <1>2, <1>3, <1>4 DEF ActiveHash, Row
<1>. QED
  BY <1>2, <1>3, <1>4, <1>5

\* What retention plans for a day, and that it plans it in full.
LEMMA TargetsOfDay ==
  ASSUME BucketTypes, NEW d \in Days
  PROVE  /\ Targets(d) \in Seq(TargetT)
         /\ \A i \in 1..Len(Targets(d)) :
              LET t == Targets(d)[i]
              IN  t.day = d /\ (t.bucket = NoBucket \/ t.bucket.secs # 60)
<1>. DEFINE extra == {Target("bucket", d, b) : b \in {c \in bucketRows : c.day = d /\ c.secs # 60}}
            Fine  == {t \in TargetT : t.day = d /\ (t.bucket = NoBucket \/ t.bucket.secs # 60)}
            two   == <<Target("raw", d, NoBucket), Target("day", d, NoBucket)>>
<1>1. IsFiniteSet(extra)
  <2>. DEFINE some == {c \in bucketRows : c.day = d /\ c.secs # 60}
              of   == [b \in some |-> Target("bucket", d, b)]
  <2>1. IsFiniteSet(some)
    BY FS_Subset DEF BucketTypes
  <2>2. of \in Surjection(some, extra)
    BY DEF Surjection
  <2>. QED
    BY <2>1, <2>2, FS_Surjection
<1>2. extra \subseteq Fine
  BY DEF Target, TargetT, BucketTypes
<1>3. two \in Seq(Fine)
  <2>1. Target("raw", d, NoBucket) \in Fine /\ Target("day", d, NoBucket) \in Fine
    BY DEF Target, TargetT
  <2>. HIDE DEF Fine
  <2>. QED
    BY <2>1
<1>4. SetToSeq(extra) \in Seq(Fine)
  <2>. HIDE DEF extra, Fine
  <2>1. SetToSeq(extra) \in Seq(extra)
    BY <1>1, SetToSeqLists
  <2>. QED
    BY <1>2, <2>1, SeqMonotonic
<1>5. Targets(d) = two \o SetToSeq(extra)
  BY DEF Targets
<1>6. Targets(d) \in Seq(Fine)
  <2>. HIDE DEF extra, Fine, two
  <2>. QED
    BY <1>3, <1>4, <1>5, ConcatProperties
<1>7. \A i \in 1..Len(Targets(d)) : Targets(d)[i] \in Fine
  <2>. HIDE DEF Fine
  <2>. QED
    BY <1>6, ElementOfSeq
<1>8. Fine \subseteq TargetT
  OBVIOUS
<1>9. Targets(d) \in Seq(TargetT)
  <2>. HIDE DEF Fine
  <2>. QED
    BY <1>6, <1>8, SeqMonotonic
<1>. QED
  BY <1>7, <1>9

\* The bucket builder.
LEMMA BuildTypes ==
  ASSUME TypeInv,
         \/ \E d \in Days, s \in Seconds : StartBuild(d, s)
         \/ PublishBucket \/ RecordBucket \/ BuildCut
  PROVE  TypeInv'
<1>. USE DEF TypeInv, writerVars
<1>0. UNCHANGED <<writerVars, keeperVars>> => LeaseTypes' /\ TaskTypes' /\ DiskTypes' /\ KeeperTypes'
  BY QuietTypes DEF Disk
<1>1. ASSUME NEW d \in Days, NEW s \in Seconds, StartBuild(d, s) PROVE TypeInv'
  <2>1. [day |-> d, secs |-> s, hash |-> parquet[d]] \in Bucket
    BY <1>1, RowsOfDay DEF StartBuild, Bucket
  <2>2. BucketTypes'
    BY <1>1, <2>1 DEF StartBuild, BucketTypes
  <2>. QED
    BY <1>0, <1>1, <2>2, QuietTypes DEF StartBuild
<1>2. CASE PublishBucket
  <2>1. BucketTypes'
    BY <1>2 DEF PublishBucket, BucketTypes
  <2>. QED
    BY <1>0, <1>2, <2>1, QuietTypes DEF PublishBucket
<1>3. CASE RecordBucket
  <2>1. bucketRows' \subseteq Bucket /\ IsFiniteSet(bucketRows')
    BY <1>3, FS_AddElement DEF RecordBucket, BucketTypes
  <2>2. BucketTypes'
    BY <1>3, <2>1 DEF RecordBucket, BucketTypes
  <2>. QED
    BY <1>0, <1>3, <2>2, QuietTypes DEF RecordBucket
<1>4. CASE BuildCut
  <2>1. BucketTypes'
    BY <1>4 DEF BuildCut, BucketTypes
  <2>2. CutTypes'
    BY <1>4, StoreAssumption DEF BuildCut, CutTypes
  <2>. QED
    BY <1>0, <1>4, <2>1, <2>2, QuietTypes DEF BuildCut
<1>. QED
  BY <1>1, <1>2, <1>3, <1>4

\* The retention job.
LEMMA RetentionTypes ==
  ASSUME TypeInv,
         \/ \E d \in Days : PlanRetention(d)
         \/ SkipRecorded \/ Unlink \/ RecordDeletion \/ RetentionCut
  PROVE  TypeInv'
<1>. USE DEF TypeInv, writerVars
<1>0. UNCHANGED <<writerVars, bucketVars>> => LeaseTypes' /\ TaskTypes' /\ DiskTypes' /\ BucketTypes'
  BY QuietTypes DEF Disk
<1>a. plan # <<>> => Event \in EventT /\ Tail(plan) \in Seq(EventT)
  BY HeadTailProperties DEF KeeperTypes, Event
<1>1. ASSUME NEW d \in Days, PlanRetention(d) PROVE TypeInv'
  <2>1. Targets(d) \in Seq(TargetT)
    BY TargetsOfDay
  <2>2. DOMAIN Targets(d) = 1..Len(Targets(d)) /\ Len(Targets(d)) \in Nat
        /\ \A i \in 1..Len(Targets(d)) : Targets(d)[i] \in TargetT
    BY <2>1, LenProperties, ElementOfSeq
  <2>3. ASSUME NEW t \in TargetT PROVE Digest(t) \in Mixed..MaxCommits
    <3>1. 0 \in Mixed..MaxCommits
      BY StoreAssumption DEF Mixed
    <3>2. t.day \in Days
      BY DEF TargetT
    <3>3. parquet[t.day] \in Mixed..MaxCommits
      BY <3>2 DEF DiskTypes
    <3>. QED
      BY <3>1, <3>3 DEF Digest
  <2>4. \A i \in 1..Len(Targets(d)) : [target |-> Targets(d)[i], sum |-> Digest(Targets(d)[i])] \in EventT
    BY <2>2, <2>3 DEF EventT
  <2>5. plan' \in [1..Len(Targets(d)) -> EventT]
    BY <1>1, <2>2, <2>4 DEF PlanRetention
  <2>6. plan' \in Seq(EventT)
    BY <2>2, <2>5, SeqDef
  <2>7. KeeperTypes'
    BY <1>1, <2>6, StoreAssumption DEF PlanRetention, KeeperTypes
  <2>. QED
    BY <1>0, <1>1, <2>7, QuietTypes DEF PlanRetention
<1>2. CASE SkipRecorded
  <2>1. KeeperTypes'
    BY <1>2, <1>a DEF SkipRecorded, KeeperTypes
  <2>. QED
    BY <1>0, <1>2, <2>1, QuietTypes DEF SkipRecorded
<1>3. CASE Unlink
  <2>1. Event \in EventT
    BY <1>3, <1>a DEF Unlink
  <2>2. Event.target \in TargetT
    BY <2>1 DEF EventT
  <2>3. KeeperTypes'
    BY <1>3, <2>2, FS_AddElement DEF Unlink, KeeperTypes
  <2>4. DiskTypes'
    <3>1. Missing \in Mixed..MaxCommits
      BY StoreAssumption DEF Missing, Mixed
    <3>2. parquet' \in [Days -> Mixed..MaxCommits]
      BY <1>3, <3>1 DEF Unlink, DiskTypes
    <3>. QED
      BY <1>3, <3>2 DEF Unlink, DiskTypes
  <2>5. BucketTypes'
    BY <1>3 DEF Unlink, BucketTypes
  <2>6. LeaseTypes' /\ TaskTypes' /\ CutTypes'
    BY <1>3, QuietTypes DEF Unlink
  <2>. QED
    BY <2>3, <2>4, <2>5, <2>6
<1>4. CASE RecordDeletion
  <2>1. [target |-> Event.target, sum |-> Event.sum, dry |-> dry] \in [target : TargetT, sum : Mixed..MaxCommits, dry : BOOLEAN]
    BY <1>4, <1>a DEF RecordDeletion, EventT, KeeperTypes
  <2>2. KeeperTypes'
    BY <1>4, <1>a, <2>1 DEF RecordDeletion, KeeperTypes
  <2>. QED
    BY <1>0, <1>4, <2>2, QuietTypes DEF RecordDeletion
<1>5. CASE RetentionCut
  <2>1. KeeperTypes'
    BY <1>5, EmptySeq DEF RetentionCut, KeeperTypes
  <2>2. CutTypes'
    BY <1>5, StoreAssumption DEF RetentionCut, CutTypes
  <2>. QED
    BY <1>0, <1>5, <2>1, <2>2, QuietTypes DEF RetentionCut
<1>. QED
  BY <1>1, <1>2, <1>3, <1>4, <1>5

\* The types, as the proofs below use them.
THEOREM TypeCorrect == Spec => []TypeInv
<1>1. TypeInv /\ [Next]_vars => TypeInv'
  <2>. SUFFICES ASSUME TypeInv, [Next]_vars PROVE TypeInv'
    OBVIOUS
  <2>1. CASE LeaseAges
    <3>1. LeaseTypes'
      BY <2>1 DEF LeaseAges, LeaseTypes, TypeInv
    <3>. QED
      BY <2>1, <3>1, QuietTypes DEF LeaseAges, TypeInv
  <2>2. CASE SweepPartials
    <3>1. DiskTypes'
      BY <2>2 DEF SweepPartials, DiskTypes, TypeInv
    <3>. QED
      BY <2>2, <3>1, QuietTypes DEF SweepPartials, TypeInv
  <2>3. CASE UNCHANGED vars
    BY <2>3, QuietTypes DEF vars, writerVars, TypeInv, Disk
  <2>. QED
    BY <2>1, <2>2, <2>3, LeaseActionTypes, CommitTypes, BuildTypes, RetentionTypes DEF Next
<1>. QED
  BY <1>1, InitTypes, PTL DEF Spec

\* The variables keep their types.
THEOREM TypesHold == Spec => []TypeOK
<1>1. TypeInv => TypeOK
  <2>. SUFFICES ASSUME TypeInv PROVE TypeOK
    OBVIOUS
  <2>. USE DEF TypeInv
  <2>1. manifest \in Seq(Row)
    BY DEF DiskTypes
  <2>2. \A row \in Range(manifest) : row \in Row
    BY <2>1, RangeIn
  <2>3. \A row \in Range(manifest) :
          row.day \in Days /\ row.hash \in (Mixed..MaxCommits) \ {Missing} /\ row.at \in 1..MaxCommits
    BY <2>2 DEF Row, Hashes
  <2>4. \A b \in buckets \cup bucketRows : b.day \in Days /\ b.secs \in Seconds
    BY DEF BucketTypes, Bucket
  <2>5. \A r \in ledger : r.target.day \in Days
    BY DEF KeeperTypes, TargetT
  <2>6. \A d \in Days : writing[d] \subseteq Writers /\ parquet[d] \in Mixed..MaxCommits
    BY DEF DiskTypes
  <2>7. \A w \in Writers : pc[w] \in Holding \cup {"idle", "take", "create"} /\ job[w].day \in Days \cup {0}
    BY DEF TaskTypes
  <2>8. lease.owner \in {{}} \cup {{w} : w \in Writers}
    BY DEF LeaseTypes
  <2>. QED
    BY <2>3, <2>4, <2>5, <2>6, <2>7, <2>8 DEF TypeOK, DiskTypes, TaskTypes, CutTypes, KeeperTypes
<1>. QED
  BY <1>1, TypeCorrect, PTL

-----------------------------------------------------------------------------
(* The writer lease                                                        *)

\* Who holds the lease is its living owner.
LeaseIsHeld == \A w \in Writers : pc[w] \in Holding => lease.owner = {w} /\ ~lease.dead
LeaseInv    == stolen \/ LeaseIsHeld

\* A writer alone changes its step.
WriterStep(w) ==
  \/ \E d \in Days : LookForLease(w, d)
  \/ TakeStaleLease(w) \/ CreateLease(w) \/ FillLease(w) \/ ReleaseLease(w)
  \/ StoreRaw(w) \/ ReuseParquet(w) \/ OpenPartial(w) \/ Publish(w)
  \/ AppendRow(w) \/ RowRepeated(w) \/ RowCollides(w) \/ WriteMark(w)
  \/ CommitRaises(w) \/ WriterDies(w)

\* Every other step leaves the writers and the theft flag as they are.
LEMMA NextIsOneOf ==
  Next => \/ \E w \in Writers : WriterStep(w)
          \/ LeaseAges \/ SweepPartials
          \/ \E d \in Days, s \in Seconds : StartBuild(d, s)
          \/ PublishBucket \/ RecordBucket \/ BuildCut
          \/ \E d \in Days : PlanRetention(d)
          \/ SkipRecorded \/ Unlink \/ RecordDeletion \/ RetentionCut
BY DEF Next, WriterStep

\* A commit's own steps keep the lease and stay among the holder's steps.
LEMMA CommitHolds ==
  ASSUME TypeInv, NEW w \in Writers,
         \/ StoreRaw(w) \/ ReuseParquet(w) \/ OpenPartial(w) \/ Publish(w)
         \/ AppendRow(w) \/ RowRepeated(w) \/ RowCollides(w) \/ WriteMark(w) \/ CommitRaises(w)
  PROVE  /\ UNCHANGED <<lease, stolen, job>> /\ pc[w] \in Holding
         /\ \A v \in Writers : v # w => pc'[v] = pc[v]
BY DEF StoreRaw, ReuseParquet, OpenPartial, Publish, AppendRow, RowRepeated, RowCollides, WriteMark, CommitRaises,
       Rest, Goto, Holding, Steps, TypeInv, TaskTypes

\* A step of a writer keeps the lease with its holder.
LEMMA WriterKeepsLease ==
  ASSUME TypeInv, LeaseInv, NEW w \in Writers, WriterStep(w)
  PROVE  LeaseInv'
<1>. SUFFICES ASSUME ~stolen' PROVE LeaseIsHeld'
  BY DEF LeaseInv
<1>. USE DEF TypeInv, TaskTypes, Goto, Leave
<1>0. {} # {w} /\ \A v \in Writers : {v} = {w} => v = w
  OBVIOUS
<1>1. ASSUME NEW d \in Days, LookForLease(w, d) PROVE LeaseIsHeld'
  BY <1>1 DEF LookForLease, LeaseInv, LeaseIsHeld, Holding, Steps
<1>2. CASE TakeStaleLease(w)
  <2>1. ~stolen /\ (lease = NoLease \/ lease.dead)
    BY <1>2 DEF TakeStaleLease, LeaseTypes
  <2>2. ASSUME NEW v \in Writers, pc[v] \in Holding PROVE FALSE
    <3>1. lease.owner = {v} /\ ~lease.dead
      BY <2>1, <2>2 DEF LeaseInv, LeaseIsHeld
    <3>2. NoLease.owner = {} /\ {} # {v}
      BY DEF NoLease
    <3>. QED
      BY <2>1, <3>1, <3>2
  <2>3. \A v \in Writers : pc'[v] \notin Holding
    BY <1>2, <2>2 DEF TakeStaleLease, Holding, Steps
  <2>. QED
    BY <2>3 DEF LeaseIsHeld
<1>3. CASE CreateLease(w)
  <2>1. ~stolen
    BY <1>3 DEF CreateLease
  <2>2. CASE lease = NoLease
    <3>1. \A v \in Writers : v # w => pc'[v] \notin Holding
      BY <1>3, <2>1, <2>2 DEF CreateLease, LeaseInv, LeaseIsHeld, NoLease
    <3>2. lease'.owner = {w} /\ ~lease'.dead
      BY <1>3, <2>2 DEF CreateLease, NoLease
    <3>. QED
      BY <3>1, <3>2 DEF LeaseIsHeld
  <2>3. CASE lease # NoLease
    BY <1>3, <2>1, <2>3 DEF CreateLease, LeaseInv, LeaseIsHeld, Holding, Steps
  <2>. QED
    BY <2>2, <2>3
<1>4. CASE FillLease(w)
  <2>1. ~stolen /\ pc[w] \in Holding
    BY <1>4 DEF FillLease, Holding
  <2>2. lease.owner = {w} /\ ~lease.dead
    BY <2>1 DEF LeaseInv, LeaseIsHeld
  <2>3. lease'.owner = lease.owner /\ lease'.dead = lease.dead
    BY <1>4 DEF FillLease, LeaseTypes
  <2>4. \A v \in Writers : v # w => pc'[v] \notin Holding
    BY <1>4, <2>1, <2>2 DEF FillLease, LeaseInv, LeaseIsHeld
  <2>. QED
    BY <2>2, <2>3, <2>4 DEF LeaseIsHeld
<1>5. CASE ReleaseLease(w)
  <2>1. ~stolen /\ pc[w] \in Holding
    BY <1>5 DEF ReleaseLease, Holding
  <2>2. lease.owner = {w}
    BY <2>1 DEF LeaseInv, LeaseIsHeld
  <2>3. \A v \in Writers : pc'[v] \notin Holding
    BY <1>5, <2>1, <2>2 DEF ReleaseLease, LeaseInv, LeaseIsHeld, Holding, Steps
  <2>. QED
    BY <2>3 DEF LeaseIsHeld
<1>6. CASE \/ StoreRaw(w) \/ ReuseParquet(w) \/ OpenPartial(w) \/ Publish(w)
           \/ AppendRow(w) \/ RowRepeated(w) \/ RowCollides(w) \/ WriteMark(w) \/ CommitRaises(w)
  BY <1>6, CommitHolds DEF LeaseInv, LeaseIsHeld
<1>7. CASE WriterDies(w)
  <2>1. pc'[w] \notin Holding /\ \A v \in Writers : v # w => pc'[v] = pc[v]
    BY <1>7 DEF WriterDies, Holding, Steps
  <2>2. ~stolen
    BY <1>7 DEF WriterDies
  <2>3. ASSUME NEW v \in Writers, v # w, pc[v] \in Holding
        PROVE  lease'.owner = {v} /\ ~lease'.dead
    <3>1. lease.owner = {v} /\ ~lease.dead
      BY <2>2, <2>3 DEF LeaseInv, LeaseIsHeld
    <3>2. lease' = lease
      BY <1>7, <2>3, <3>1 DEF WriterDies
    <3>. QED
      BY <3>1, <3>2
  <2>. QED
    BY <2>1, <2>3 DEF LeaseIsHeld
<1>. QED
  BY <1>1, <1>2, <1>3, <1>4, <1>5, <1>6, <1>7 DEF WriterStep

\* The steps of no writer, but for the passing of time, leave the lease alone.
OtherStep ==
  \/ SweepPartials
  \/ \E d \in Days, s \in Seconds : StartBuild(d, s)
  \/ PublishBucket \/ RecordBucket \/ BuildCut
  \/ \E d \in Days : PlanRetention(d)
  \/ SkipRecorded \/ Unlink \/ RecordDeletion \/ RetentionCut

\* Neither the builder nor the retention job looks at the lease.
LEMMA OthersKeepLease ==
  ASSUME OtherStep
  PROVE  UNCHANGED <<lease, pc, job, stolen, manifest>>
<1>1. CASE SweepPartials \/ Unlink
  BY <1>1 DEF SweepPartials, Unlink
<1>2. CASE \/ \E d \in Days, s \in Seconds : StartBuild(d, s)
           \/ PublishBucket \/ RecordBucket \/ BuildCut
  BY <1>2 DEF StartBuild, PublishBucket, RecordBucket, BuildCut, writerVars
<1>3. CASE \E d \in Days : PlanRetention(d)
  BY <1>3 DEF PlanRetention, writerVars
<1>4. CASE SkipRecorded \/ RecordDeletion \/ RetentionCut
  BY <1>4 DEF SkipRecorded, RecordDeletion, RetentionCut, writerVars
<1>. QED
  BY <1>1, <1>2, <1>3, <1>4 DEF OtherStep

\* A lease is a living owner's until a live writer's is moved aside.
THEOREM LeaseInductive == Spec => []LeaseInv
<1>1. Init => LeaseInv
  BY DEF Init, LeaseInv, LeaseIsHeld, Holding, Steps
<1>2. TypeInv /\ LeaseInv /\ [Next]_vars => LeaseInv'
  <2>. SUFFICES ASSUME TypeInv, LeaseInv, [Next]_vars PROVE LeaseInv'
    OBVIOUS
  <2>1. CASE LeaseAges
    <3>1. lease'.owner = lease.owner /\ lease'.dead = lease.dead /\ UNCHANGED <<pc, stolen>>
      BY <2>1 DEF LeaseAges, TypeInv, LeaseTypes
    <3>. QED
      BY <3>1 DEF LeaseInv, LeaseIsHeld
  <2>2. CASE OtherStep
    BY <2>2, OthersKeepLease DEF LeaseInv, LeaseIsHeld
  <2>3. CASE UNCHANGED vars
    BY <2>3 DEF vars, writerVars, LeaseInv, LeaseIsHeld
  <2>. QED
    BY <2>1, <2>2, <2>3, WriterKeepsLease, NextIsOneOf DEF OtherStep
<1>. QED
  BY <1>1, <1>2, TypeCorrect, PTL DEF Spec

\* Whatever writers race, refuse, release or die, two commit at once only after the
\* lease of a live one was moved aside.
THEOREM ExclusionUntilTheft == Spec => []TwoWritersNeedATheft
<1>1. LeaseInv => TwoWritersNeedATheft
  <2>. DEFINE holders == {w \in Writers : pc[w] \in Holding}
  <2>. SUFFICES ASSUME LeaseInv, ~stolen PROVE ~(Cardinality(holders) > 1)
    BY DEF TwoWritersNeedATheft
  <2>1. \A v, w \in holders : v = w
    <3>1. \A w \in holders : lease.owner = {w}
      BY DEF LeaseInv, LeaseIsHeld
    <3>. QED
      BY <3>1
  <2>2. CASE holders = {}
    BY <2>2, FS_EmptySet
  <2>3. CASE holders # {}
    <3>1. PICK w : holders = {w}
      BY <2>1, <2>3
    <3>2. Cardinality(holders) = 1
      BY <3>1, FS_Singleton
    <3>. QED
      BY <3>2
  <2>. QED
    BY <2>2, <2>3
<1>. QED
  BY <1>1, LeaseInductive, PTL

-----------------------------------------------------------------------------
(* What retention deletes                                                  *)

\* A recorded minute bucket is never planned, and a day is planned only when it has one.
MinuteRecorded(d) == \E b \in bucketRows : b.day = d /\ b.secs = 60
MinuteInv ==
  /\ \A b \in bucketRows : b.secs = 60 => b \in buckets
  /\ \A i \in 1..Len(plan) :
       LET t == plan[i].target
       IN  MinuteRecorded(t.day) /\ (t.bucket = NoBucket \/ t.bucket.secs # 60)
  /\ \A row \in Range(manifest) : parquet[row.day] # Missing \/ MinuteRecorded(row.day)

\* The manifest's rows are of known days, and record a file.
LEMMA RowTypes ==
  ASSUME DiskTypes
  PROVE  \A row \in Range(manifest) : row.day \in Days /\ row.hash \in Hashes
<1>1. manifest \in Seq(Row)
  BY DEF DiskTypes
<1>2. \A row \in Range(manifest) : row \in Row
  BY <1>1, RangeIn
<1>. QED
  BY <1>2 DEF Row

\* The next event, and what is left of a plan without it.
LEMMA PlanHead ==
  ASSUME KeeperTypes, plan # <<>>
  PROVE  /\ Event = plan[1] /\ 1 \in 1..Len(plan) /\ Event.target \in TargetT
         /\ Len(Tail(plan)) = Len(plan) - 1 /\ Len(plan) \in Nat
         /\ \A i \in 1..Len(Tail(plan)) : Tail(plan)[i] = plan[i + 1] /\ i + 1 \in 1..Len(plan)
<1>1. plan \in Seq(EventT)
  BY DEF KeeperTypes
<1>2. Len(plan) \in Nat \ {0} /\ Event = plan[1]
  BY <1>1, EmptySeq, LenProperties DEF Event
<1>3. Len(Tail(plan)) = Len(plan) - 1 /\ \A i \in 1..Len(Tail(plan)) : Tail(plan)[i] = plan[i + 1]
  BY <1>1, HeadTailProperties
<1>4. plan[1] \in EventT
  BY <1>1, <1>2, ElementOfSeq
<1>. QED
  BY <1>2, <1>3, <1>4 DEF EventT

\* Minutes outlast the days they were built from.
THEOREM MinutesInductive == Spec => []MinuteInv
<1>1. Init => MinuteInv
  <2>. SUFFICES ASSUME Init PROVE MinuteInv
    OBVIOUS
  <2>1. Len(plan) = 0 /\ Range(manifest) = {} /\ bucketRows = {}
    BY EmptySeq DEF Init, Range
  <2>. QED
    BY <2>1 DEF MinuteInv
<1>2. TypeInv /\ MinuteInv /\ [Next]_vars => MinuteInv'
  <2>. SUFFICES ASSUME TypeInv, MinuteInv, [Next]_vars PROVE MinuteInv'
    OBVIOUS
  <2>. USE DEF writerVars, bucketVars, keeperVars
  <2>1. ASSUME UNCHANGED <<buckets, bucketRows, plan, manifest, parquet>>
        PROVE  MinuteInv'
    BY <2>1, Zenon DEF MinuteInv, MinuteRecorded
  <2>2. ASSUME NEW w \in Writers, Publish(w) PROVE MinuteInv'
    <3>1. pc[w] = "write" /\ job[w].day \in Days /\ job[w].at \in 1..MaxCommits
      BY <2>2 DEF Publish, TypeInv, TaskTypes
    <3>2. parquet' = [parquet EXCEPT ![job[w].day] = IF writing[job[w].day] = {w} THEN job[w].at ELSE Mixed]
      BY <2>2 DEF Publish
    <3>3. \A d \in Days : parquet[d] # Missing => parquet'[d] # Missing
      BY <3>1, <3>2, StoreAssumption DEF TypeInv, DiskTypes, Missing, Mixed
    <3>4. UNCHANGED <<buckets, bucketRows, plan, manifest>>
      BY <2>2 DEF Publish, Rest
    <3>6. \A row \in Range(manifest) : row.day \in Days
      BY RowTypes DEF TypeInv
    <3>. QED
      BY <3>3, <3>4, <3>6 DEF MinuteInv, MinuteRecorded
  <2>3. ASSUME NEW w \in Writers, AppendRow(w) PROVE MinuteInv'
    <3>. DEFINE new == RowFor(w)
    <3>1. parquet[new.day] # Missing /\ job[w].day \in Days
      BY <2>3 DEF AppendRow, InputsThere, TypeInv, TaskTypes, RowFor
    <3>2. new \in Row /\ manifest \in Seq(Row)
      BY <2>3, <3>1 DEF AppendRow, TypeInv, TaskTypes, DiskTypes, Row, Hashes, RowFor
    <3>3. manifest' = Append(manifest, new) /\ UNCHANGED <<buckets, bucketRows, plan, parquet>>
      BY <2>3 DEF AppendRow, Rest
    <3>. HIDE DEF new
    <3>4. Range(manifest') = Range(manifest) \cup {new}
      BY <3>2, <3>3, RangeAppend
    <3>. QED
      BY <3>1, <3>3, <3>4 DEF MinuteInv, MinuteRecorded
  <2>4. ASSUME NEW w \in Writers, WriterStep(w), ~Publish(w), ~AppendRow(w) PROVE MinuteInv'
    <3>1. UNCHANGED <<buckets, bucketRows, plan, manifest, parquet>>
      BY <2>4 DEF WriterStep, LookForLease, TakeStaleLease, CreateLease, FillLease, ReleaseLease, StoreRaw,
           ReuseParquet, OpenPartial, RowRepeated, RowCollides, WriteMark, CommitRaises, WriterDies, Disk, Rest
    <3>. QED
      BY <2>1, <3>1
  <2>5. CASE LeaseAges \/ SweepPartials
    <3>1. UNCHANGED <<buckets, bucketRows, plan, manifest, parquet>>
      BY <2>5 DEF LeaseAges, SweepPartials, Disk
    <3>. QED
      BY <2>1, <3>1
  <2>6. CASE BuildCut \/ \E d \in Days, s \in Seconds : StartBuild(d, s)
    <3>1. UNCHANGED <<buckets, bucketRows, plan, manifest, parquet>>
      BY <2>6 DEF BuildCut, StartBuild
    <3>. QED
      BY <2>1, <3>1
  <2>7. CASE PublishBucket \/ RecordBucket
    <3>1. /\ UNCHANGED <<plan, manifest, parquet>> /\ buckets \subseteq buckets' /\ bucketRows \subseteq bucketRows'
          /\ bucketRows' \subseteq bucketRows \cup buckets'
      BY <2>7 DEF PublishBucket, RecordBucket
    <3>. QED
      BY <3>1 DEF MinuteInv, MinuteRecorded
  <2>8. ASSUME NEW d \in Days, PlanRetention(d) PROVE MinuteInv'
    <3>1. MinuteRecorded(d)
      <4>. DEFINE minutes == {b \in bucketRows : b.day = d /\ b.secs = 60}
      <4>1. Cardinality(minutes) = 1
        BY <2>8 DEF PlanRetention, MinuteIsComplete
      <4>2. minutes # {}
        BY <4>1, FS_EmptySet
      <4>. QED
        BY <4>2 DEF MinuteRecorded
    <3>2. /\ Targets(d) \in Seq(TargetT)
          /\ \A i \in 1..Len(Targets(d)) : /\ Targets(d)[i].day = d
                                           /\ Targets(d)[i].bucket = NoBucket \/ Targets(d)[i].bucket.secs # 60
      BY TargetsOfDay DEF TypeInv
    <3>3. DOMAIN Targets(d) = 1..Len(Targets(d)) /\ Len(Targets(d)) \in Nat
      BY <3>2, LenProperties
    <3>4. plan' = [i \in 1..Len(Targets(d)) |-> [target |-> Targets(d)[i], sum |-> Digest(Targets(d)[i])]]
      BY <2>8, <3>3 DEF PlanRetention
    <3>5. Len(plan') = Len(Targets(d)) /\ \A i \in 1..Len(plan') : plan'[i].target = Targets(d)[i]
      BY <3>3, <3>4
    <3>6. UNCHANGED <<buckets, bucketRows, manifest, parquet>>
      BY <2>8 DEF PlanRetention
    <3>. QED
      BY <3>1, <3>2, <3>5, <3>6 DEF MinuteInv, MinuteRecorded
  <2>9. CASE SkipRecorded \/ RecordDeletion \/ RetentionCut
    <3>1. UNCHANGED <<buckets, bucketRows, manifest, parquet>> /\ plan # <<>> /\ plan' \in {<<>>, Tail(plan)}
      BY <2>9 DEF SkipRecorded, RecordDeletion, RetentionCut
    <3>2. \A i \in 1..Len(plan') : \E j \in 1..Len(plan) : plan'[i] = plan[j]
      <4>1. CASE plan' = <<>>
        BY <4>1, EmptySeq
      <4>2. CASE plan' = Tail(plan)
        BY <3>1, <4>2, PlanHead DEF TypeInv
      <4>. QED
        BY <3>1, <4>1, <4>2
    <3>3. \A i \in 1..Len(plan') :
            LET t == plan'[i].target
            IN  MinuteRecorded(t.day) /\ (t.bucket = NoBucket \/ t.bucket.secs # 60)
      BY <3>2 DEF MinuteInv
    <3>. QED
      BY <3>1, <3>3 DEF MinuteInv, MinuteRecorded
  <2>10. CASE Unlink
    <3>. DEFINE t == Event.target
    <3>1. /\ MinuteRecorded(t.day) /\ (t.bucket = NoBucket \/ t.bucket.secs # 60) /\ t \in TargetT
      BY <2>10, PlanHead DEF Unlink, TypeInv, MinuteInv
    <3>2. /\ UNCHANGED <<bucketRows, plan, manifest>>
          /\ buckets' = buckets \ {t.bucket}
          /\ parquet' = IF t.kind = "day" THEN [parquet EXCEPT ![t.day] = Missing] ELSE parquet
      BY <2>10 DEF Unlink
    <3>3. \A b \in bucketRows : b.secs = 60 => b # t.bucket
      <4>1. NoBucket.secs # 60
        BY DEF NoBucket
      <4>. QED
        BY <3>1, <4>1
    <3>4. t.day \in Days
      BY <3>1 DEF TargetT
    <3>. HIDE DEF t
    <3>5. \A d \in Days : parquet[d] # Missing => parquet'[d] # Missing \/ MinuteRecorded(d)
      BY <3>1, <3>2, <3>4 DEF TypeInv, DiskTypes
    <3>7. \A row \in Range(manifest) : row.day \in Days
      BY RowTypes DEF TypeInv
    <3>. QED
      BY <3>2, <3>3, <3>5, <3>7 DEF MinuteInv, MinuteRecorded
  <2>11. CASE UNCHANGED vars
    BY <2>1, <2>11 DEF vars
  <2>. QED
    BY <2>2, <2>3, <2>4, <2>5, <2>6, <2>7, <2>8, <2>9, <2>10, <2>11, NextIsOneOf
<1>. QED
  BY <1>1, <1>2, TypeCorrect, PTL DEF Spec

\* A recorded day keeps its trades or its recorded minute buckets.
THEOREM DaysSurvive == Spec => []MinuteSurvives
<1>1. MinuteInv => MinuteSurvives
  BY DEF MinuteInv, MinuteRecorded, MinuteSurvives
<1>. QED
  BY <1>1, MinutesInductive, PTL

-----------------------------------------------------------------------------
(* The deletion ledger                                                     *)

\* The deletions that no record tells of, but for the one whose record is due.
Told == {r.target : r \in {s \in ledger : ~s.dry}}
Lost == (deleted \ Told) \ (IF unlinked THEN {Event.target} ELSE {})

\* Each of them has cost a cut.
LedgerInv ==
  /\ unlinked => plan # <<>> /\ ~dry
  /\ Cardinality(Lost) <= cuts

\* What is lost are deletions, and finitely many.
LEMMA LostIsFinite ==
  ASSUME TypeInv
  PROVE  IsFiniteSet(Lost) /\ Cardinality(Lost) \in Nat /\ cuts \in Nat
<1>1. Lost \subseteq deleted
  BY DEF Lost
<1>2. IsFiniteSet(Lost)
  BY <1>1, FS_Subset DEF TypeInv, KeeperTypes
<1>. QED
  BY <1>2, FS_CardinalityType, StoreAssumption DEF TypeInv, CutTypes

\* As long as no deletion is lost that was not before, no cut is due.
LEMMA NothingLost ==
  ASSUME TypeInv, LedgerInv, Lost' \subseteq Lost, cuts' \in Nat, cuts <= cuts'
  PROVE  Cardinality(Lost') <= cuts'
<1>1. Cardinality(Lost') <= Cardinality(Lost) /\ Cardinality(Lost') \in Nat
  BY LostIsFinite, FS_Subset, FS_CardinalityType
<1>. QED
  BY <1>1, LostIsFinite DEF LedgerInv

\* The targets that a ledger's records of real deletions name.
TargetsOf(L) == {r.target : r \in {s \in L : ~s.dry}}

\* A record of a real deletion adds its target, that of a dry run adds nothing.
LEMMA RecordsOfAdded ==
  ASSUME NEW S, NEW new, new.dry \in BOOLEAN
  PROVE  TargetsOf(S \cup {new}) = TargetsOf(S) \cup (IF new.dry THEN {} ELSE {new.target})
<1>1. {s \in S \cup {new} : ~s.dry} = {s \in S : ~s.dry} \cup (IF new.dry THEN {} ELSE {new})
  OBVIOUS
<1>2. ASSUME NEW R
      PROVE  {r.target : r \in R \cup {new}} = {r.target : r \in R} \cup {new.target}
  OBVIOUS
<1>. QED
  BY <1>1, <1>2 DEF TargetsOf

\* The ledger lacks no more deletions than there were cuts.
THEOREM LedgerInductive == Spec => []LedgerInv
<1>1. TypeInv /\ Init => LedgerInv
  <2>. SUFFICES ASSUME TypeInv, Init PROVE LedgerInv
    OBVIOUS
  <2>1. Lost = {}
    BY DEF Init, Lost
  <2>. QED
    BY <2>1, FS_EmptySet DEF Init, LedgerInv
<1>2. TypeInv /\ TypeInv' /\ LedgerInv /\ [Next]_vars => LedgerInv'
  <2>. SUFFICES ASSUME TypeInv, TypeInv', LedgerInv, [Next]_vars PROVE LedgerInv'
    OBVIOUS
  <2>. USE DEF writerVars, bucketVars, keeperVars
  <2>0. cuts \in Nat /\ cuts' \in Nat
    BY StoreAssumption DEF TypeInv, CutTypes
  <2>1. ASSUME UNCHANGED <<plan, dry, unlinked, ledger, deleted>>, cuts <= cuts'
        PROVE  LedgerInv'
    <3>1. Lost' = Lost
      BY <2>1 DEF Lost, Told, Event
    <3>. QED
      BY <2>0, <2>1, <3>1, NothingLost DEF LedgerInv
  <2>2. ASSUME NEW w \in Writers, WriterStep(w) PROVE LedgerInv'
    <3>1. UNCHANGED <<plan, dry, unlinked, ledger, deleted>> /\ cuts' \in {cuts, cuts + 1}
      BY <2>2 DEF WriterStep, LookForLease, TakeStaleLease, CreateLease, FillLease, ReleaseLease, StoreRaw,
           ReuseParquet, OpenPartial, Publish, AppendRow, RowRepeated, RowCollides, WriteMark, CommitRaises, WriterDies, Rest
    <3>. QED
      BY <2>0, <2>1, <3>1
  <2>3. CASE \/ LeaseAges \/ SweepPartials \/ PublishBucket \/ RecordBucket \/ BuildCut
             \/ \E d \in Days, s \in Seconds : StartBuild(d, s)
    <3>1. UNCHANGED <<plan, dry, unlinked, ledger, deleted>> /\ cuts' \in {cuts, cuts + 1}
      BY <2>3 DEF LeaseAges, SweepPartials, PublishBucket, RecordBucket, BuildCut, StartBuild
    <3>. QED
      BY <2>0, <2>1, <3>1
  <2>4. ASSUME NEW d \in Days, PlanRetention(d) PROVE LedgerInv'
    <3>1. UNCHANGED <<unlinked, ledger, deleted, cuts>> /\ plan = <<>>
      BY <2>4 DEF PlanRetention
    <3>2. ~unlinked /\ ~unlinked'
      BY <3>1 DEF LedgerInv
    <3>3. Lost' = Lost
      BY <3>1, <3>2 DEF Lost, Told
    <3>. QED
      BY <2>0, <3>1, <3>2, <3>3, NothingLost DEF LedgerInv
  <2>5. CASE SkipRecorded
    <3>1. UNCHANGED <<unlinked, ledger, deleted, cuts>> /\ ~unlinked
      BY <2>5 DEF SkipRecorded
    <3>2. Lost' = Lost
      BY <3>1 DEF Lost, Told
    <3>. QED
      BY <2>0, <3>1, <3>2, NothingLost DEF LedgerInv
  <2>6. CASE Unlink
    <3>1. /\ UNCHANGED <<plan, dry, ledger, cuts>> /\ ~unlinked /\ unlinked' /\ plan # <<>> /\ ~dry
          /\ deleted' = deleted \cup {Event.target}
      BY <2>6 DEF Unlink
    <3>2. Lost' \subseteq Lost
      BY <3>1 DEF Lost, Told, Event
    <3>. QED
      BY <2>0, <3>1, <3>2, NothingLost DEF LedgerInv
  <2>7. CASE RecordDeletion
    <3>1. /\ UNCHANGED <<dry, deleted, cuts>> /\ ~unlinked' /\ (dry \/ unlinked)
          /\ ledger' = ledger \cup {[target |-> Event.target, sum |-> Event.sum, dry |-> dry]}
      BY <2>7 DEF RecordDeletion
    <3>2. dry \in BOOLEAN
      BY DEF TypeInv, KeeperTypes
    <3>3. Told' = Told \cup (IF dry THEN {} ELSE {Event.target})
      <4>. DEFINE new == [target |-> Event.target, sum |-> Event.sum, dry |-> dry]
      <4>1. new.dry = dry /\ new.target = Event.target
        OBVIOUS
      <4>2. Told' = TargetsOf(ledger \cup {new}) /\ Told = TargetsOf(ledger)
        BY <3>1, Zenon DEF Told, TargetsOf
      <4>. HIDE DEF new
      <4>3. TargetsOf(ledger \cup {new}) = TargetsOf(ledger) \cup (IF new.dry THEN {} ELSE {new.target})
        BY <3>2, <4>1, RecordsOfAdded
      <4>. QED
        BY <4>1, <4>2, <4>3
    <3>4. Lost' \subseteq Lost
      <4>1. CASE dry
        <5>1. ~unlinked
          BY <4>1 DEF LedgerInv
        <5>. QED
          BY <3>1, <3>3, <4>1, <5>1 DEF Lost
      <4>2. CASE ~dry
        BY <3>1, <3>3, <4>2 DEF Lost
      <4>. QED
        BY <4>1, <4>2
    <3>. QED
      BY <2>0, <3>1, <3>4, NothingLost DEF LedgerInv
  <2>8. CASE RetentionCut
    <3>1. UNCHANGED <<ledger, deleted>> /\ ~unlinked'
      BY <2>8 DEF RetentionCut
    <3>2. CASE cuts' = cuts + 1
      <4>1. Lost' \subseteq Lost \cup {Event.target}
        BY <3>1 DEF Lost, Told
      <4>2. IsFiniteSet(Lost \cup {Event.target}) /\ Cardinality(Lost \cup {Event.target}) <= Cardinality(Lost) + 1
            /\ Cardinality(Lost \cup {Event.target}) \in Nat
        BY LostIsFinite, AddedOne
      <4>3. Cardinality(Lost') <= Cardinality(Lost) + 1 /\ Cardinality(Lost') \in Nat
        <5>1. Cardinality(Lost') <= Cardinality(Lost \cup {Event.target}) /\ IsFiniteSet(Lost')
          BY <4>1, <4>2, FS_Subset
        <5>2. Cardinality(Lost') \in Nat
          BY <5>1, FS_CardinalityType
        <5>. QED
          BY <4>2, <5>1, <5>2, LostIsFinite
      <4>. QED
        BY <2>0, <3>1, <3>2, <4>3, LostIsFinite DEF LedgerInv
    <3>3. CASE ~unlinked /\ cuts' = cuts
      <4>1. Lost' = Lost
        BY <3>1, <3>3 DEF Lost, Told
      <4>. QED
        BY <2>0, <3>1, <3>3, <4>1, NothingLost DEF LedgerInv
    <3>. QED
      BY <2>8, <3>2, <3>3 DEF RetentionCut
  <2>9. CASE UNCHANGED vars
    BY <2>0, <2>1, <2>9 DEF vars
  <2>. QED
    BY <2>2, <2>3, <2>4, <2>5, <2>6, <2>7, <2>8, <2>9, NextIsOneOf
<1>. QED
  BY <1>1, <1>2, TypeCorrect, PTL DEF Spec

\* What retention has unlinked is in the ledger, but for one target per cut.
THEOREM DeletionsRecorded == Spec => []DeletionsAreLedgered
<1>1. TypeInv /\ LedgerInv => DeletionsAreLedgered
  <2>. SUFFICES ASSUME TypeInv, LedgerInv PROVE Cardinality(deleted \ Told) <= cuts + (IF unlinked THEN 1 ELSE 0)
    BY DEF DeletionsAreLedgered, Told
  <2>1. CASE ~unlinked
    BY <2>1, LostIsFinite DEF LedgerInv, Lost
  <2>2. CASE unlinked
    <3>1. deleted \ Told \subseteq Lost \cup {Event.target}
      BY <2>2 DEF Lost
    <3>2. IsFiniteSet(Lost \cup {Event.target}) /\ Cardinality(Lost \cup {Event.target}) <= Cardinality(Lost) + 1
          /\ Cardinality(Lost \cup {Event.target}) \in Nat
      BY LostIsFinite, AddedOne
    <3>3. Cardinality(deleted \ Told) <= Cardinality(Lost \cup {Event.target}) /\ IsFiniteSet(deleted \ Told)
      BY <3>1, <3>2, FS_Subset
    <3>4. Cardinality(deleted \ Told) \in Nat
      BY <3>3, FS_CardinalityType
    <3>. QED
      BY <2>2, <3>2, <3>3, <3>4, LostIsFinite DEF LedgerInv
  <2>. QED
    BY <2>1, <2>2
<1>. QED
  BY <1>1, LedgerInductive, TypeCorrect, PTL

-----------------------------------------------------------------------------
(* The catalog                                                             *)

\* While no lease is stolen and nothing is deleted, one writer at a time replaces no
\* file, so that every row has the hash of its day's file.
Intact == ~stolen /\ deleted = {}
CatalogInv ==
  Intact =>
    /\ \A w \in Writers : pc[w] = "write" => parquet[job[w].day] = Missing
    /\ \A row \in Range(manifest) : row.hash = parquet[row.day]
    /\ bucketRows \subseteq buckets

\* What was intact after a step was so before.
LEMMA IntactBefore == TypeInv /\ [Next]_vars /\ Intact' => Intact
<1>. SUFFICES ASSUME TypeInv, [Next]_vars, Intact' PROVE Intact
  OBVIOUS
<1>. USE DEF Intact, writerVars, bucketVars, keeperVars
<1>1. ASSUME NEW w \in Writers, WriterStep(w) PROVE Intact
  <2>1. CASE TakeStaleLease(w)
    BY <2>1 DEF TakeStaleLease
  <2>2. CASE ~TakeStaleLease(w)
    <3>1. UNCHANGED <<stolen, deleted>>
      BY <1>1, <2>2 DEF WriterStep, LookForLease, CreateLease, FillLease, ReleaseLease, StoreRaw,
           ReuseParquet, OpenPartial, Publish, AppendRow, RowRepeated, RowCollides, WriteMark, CommitRaises, WriterDies, Rest
    <3>. QED
      BY <3>1
  <2>. QED
    BY <2>1, <2>2
<1>2. CASE \/ LeaseAges \/ SweepPartials \/ PublishBucket \/ RecordBucket \/ BuildCut
           \/ \E d \in Days, s \in Seconds : StartBuild(d, s)
  BY <1>2 DEF LeaseAges, SweepPartials, PublishBucket, RecordBucket, BuildCut, StartBuild
<1>3. CASE SkipRecorded \/ Unlink \/ RecordDeletion \/ RetentionCut \/ \E d \in Days : PlanRetention(d)
  BY <1>3 DEF SkipRecorded, Unlink, RecordDeletion, RetentionCut, PlanRetention
<1>4. CASE UNCHANGED vars
  BY <1>4 DEF vars
<1>. QED
  BY <1>1, <1>2, <1>3, <1>4, NextIsOneOf

\* While the store is intact nothing that a row names is replaced or removed.
THEOREM CatalogInductive == Spec => []CatalogInv
<1>1. Init => CatalogInv
  <2>. SUFFICES ASSUME Init PROVE CatalogInv
    OBVIOUS
  <2>1. Range(manifest) = {}
    BY DEF Init, Range
  <2>. QED
    BY <2>1 DEF Init, CatalogInv
<1>2. TypeInv /\ LeaseInv /\ CatalogInv /\ [Next]_vars => CatalogInv'
  <2>. SUFFICES ASSUME TypeInv, LeaseInv, CatalogInv, [Next]_vars, Intact'
                PROVE  /\ \A w \in Writers : pc'[w] = "write" => parquet'[job'[w].day] = Missing
                       /\ \A row \in Range(manifest') : row.hash = parquet'[row.day]
                       /\ bucketRows' \subseteq buckets'
    BY DEF CatalogInv
  <2>. USE DEF writerVars, bucketVars, keeperVars
  <2>0. /\ \A w \in Writers : pc[w] = "write" => parquet[job[w].day] = Missing
        /\ \A row \in Range(manifest) : row.hash = parquet[row.day]
        /\ bucketRows \subseteq buckets
        /\ ~stolen
    BY IntactBefore DEF CatalogInv, Intact
  <2>a. \A v, w \in Writers : pc[v] \in Holding /\ pc[w] \in Holding => v = w
    <3>1. \A w \in Writers : pc[w] \in Holding => lease.owner = {w}
      BY <2>0 DEF LeaseInv, LeaseIsHeld
    <3>. QED
      BY <3>1
  <2>1. ASSUME NEW w \in Writers, OpenPartial(w)
        PROVE  /\ \A v \in Writers : pc'[v] = "write" => parquet'[job'[v].day] = Missing
               /\ \A row \in Range(manifest') : row.hash = parquet'[row.day]
               /\ bucketRows' \subseteq buckets'
    <3>1. UNCHANGED <<parquet, manifest, job, buckets, bucketRows>> /\ pc' = [pc EXCEPT ![w] = "write"]
          /\ parquet[job[w].day] = Missing
      BY <2>1 DEF OpenPartial, Rewrites, Rest, Goto
    <3>. QED
      BY <2>0, <3>1 DEF TypeInv, TaskTypes
  <2>2. ASSUME NEW w \in Writers, Publish(w)
        PROVE  /\ \A v \in Writers : pc'[v] = "write" => parquet'[job'[v].day] = Missing
               /\ \A row \in Range(manifest') : row.hash = parquet'[row.day]
               /\ bucketRows' \subseteq buckets'
    <3>1. /\ UNCHANGED <<manifest, job, buckets, bucketRows>> /\ pc[w] = "write"
          /\ pc' = [pc EXCEPT ![w] = "manifest"]
          /\ \E n : parquet' = [parquet EXCEPT ![job[w].day] = n]
      BY <2>2 DEF Publish, Rest, Goto
    <3>2. parquet[job[w].day] = Missing /\ job[w].day \in Days
      BY <2>0, <3>1 DEF TypeInv, TaskTypes
    <3>3. \A v \in Writers : pc'[v] # "write"
      BY <2>a, <3>1 DEF TypeInv, TaskTypes, Holding, Steps
    <3>4. \A row \in Range(manifest) : row.day # job[w].day /\ row.day \in Days
      <4>1. \A row \in Range(manifest) : row.hash # Missing /\ row.day \in Days
        BY RowTypes DEF TypeInv, Hashes
      <4>. QED
        BY <2>0, <3>2, <4>1
    <3>5. \A row \in Range(manifest) : parquet'[row.day] = parquet[row.day]
      BY <3>1, <3>4 DEF TypeInv, DiskTypes
    <3>. QED
      BY <2>0, <3>1, <3>3, <3>5
  <2>3. ASSUME NEW w \in Writers, AppendRow(w)
        PROVE  /\ \A v \in Writers : pc'[v] = "write" => parquet'[job'[v].day] = Missing
               /\ \A row \in Range(manifest') : row.hash = parquet'[row.day]
               /\ bucketRows' \subseteq buckets'
    <3>. DEFINE new == RowFor(w)
    <3>1. /\ UNCHANGED <<parquet, job, buckets, bucketRows>> /\ manifest' = Append(manifest, new)
          /\ pc' = [pc EXCEPT ![w] = "mark"]
      BY <2>3 DEF AppendRow, Rest, Goto
    <3>2. new \in Row /\ manifest \in Seq(Row)
      BY <2>3 DEF AppendRow, InputsThere, TypeInv, TaskTypes, DiskTypes, Row, Hashes, RowFor
    <3>3. new.hash = parquet[new.day]
      BY DEF RowFor
    <3>. HIDE DEF new
    <3>4. Range(manifest') = Range(manifest) \cup {new}
      BY <3>1, <3>2, RangeAppend
    <3>. QED
      BY <2>0, <3>1, <3>3, <3>4 DEF TypeInv, TaskTypes
  <2>4. ASSUME NEW w \in Writers, WriterStep(w), ~OpenPartial(w), ~Publish(w), ~AppendRow(w)
        PROVE  /\ \A v \in Writers : pc'[v] = "write" => parquet'[job'[v].day] = Missing
               /\ \A row \in Range(manifest') : row.hash = parquet'[row.day]
               /\ bucketRows' \subseteq buckets'
    <3>1. UNCHANGED <<parquet, manifest, buckets, bucketRows>>
      BY <2>4 DEF WriterStep, LookForLease, TakeStaleLease, CreateLease, FillLease, ReleaseLease, StoreRaw,
           ReuseParquet, RowRepeated, RowCollides, WriteMark, CommitRaises, WriterDies, Disk, Rest
    <3>2. \A v \in Writers : pc'[v] = "write" => pc[v] = "write" /\ job'[v] = job[v]
      BY <2>4 DEF WriterStep, LookForLease, TakeStaleLease, CreateLease, FillLease, ReleaseLease, StoreRaw,
           ReuseParquet, RowRepeated, RowCollides, WriteMark, CommitRaises, WriterDies, Leave, Goto, Rest, TypeInv, TaskTypes
    <3>. QED
      BY <2>0, <3>1, <3>2
  <2>5. CASE LeaseAges \/ SweepPartials \/ BuildCut \/ \E d \in Days, s \in Seconds : StartBuild(d, s)
    <3>1. UNCHANGED <<parquet, manifest, buckets, bucketRows, pc, job>>
      BY <2>5 DEF LeaseAges, SweepPartials, BuildCut, StartBuild, Disk
    <3>. QED
      BY <2>0, <3>1
  <2>6. CASE PublishBucket \/ RecordBucket
    <3>1. UNCHANGED <<parquet, manifest, pc, job>> /\ bucketRows' \subseteq buckets'
      BY <2>0, <2>6 DEF PublishBucket, RecordBucket
    <3>. QED
      BY <2>0, <3>1
  <2>7. CASE SkipRecorded \/ RecordDeletion \/ RetentionCut \/ \E d \in Days : PlanRetention(d)
    <3>1. UNCHANGED <<parquet, manifest, buckets, bucketRows, pc, job>>
      BY <2>7 DEF SkipRecorded, RecordDeletion, RetentionCut, PlanRetention
    <3>. QED
      BY <2>0, <3>1
  <2>8. CASE Unlink
    BY <2>8 DEF Unlink, Intact
  <2>9. CASE UNCHANGED vars
    BY <2>0, <2>9 DEF vars
  <2>. QED
    BY <2>1, <2>2, <2>3, <2>4, <2>5, <2>6, <2>7, <2>8, <2>9, NextIsOneOf
<1>. QED
  BY <1>1, <1>2, TypeCorrect, LeaseInductive, PTL DEF Spec

\* The catalog resolves every recorded day and bucket until retention deletes.
THEOREM CatalogResolves == Spec => []CatalogResolvesUntilRetention
<1>1. TypeInv /\ CatalogInv => CatalogResolvesUntilRetention
  <2>. SUFFICES ASSUME TypeInv, CatalogInv, Intact PROVE Resolves
    BY DEF CatalogResolvesUntilRetention, Intact
  <2>1. ASSUME NEW row \in Range(manifest) PROVE parquet[row.day] = ActiveHash(row.day)
    <3>1. DiskTypes /\ manifest \in Seq(Row)
      BY DEF TypeInv, DiskTypes
    <3>2. PICK i \in 1..Len(manifest) : manifest[i] = row
      BY <3>1, RangeIn
    <3>3. i \in RowsOf(row.day)
      BY <3>1, <3>2, RangeIn DEF RowsOf
    <3>. DEFINE last == Max(RowsOf(row.day))
    <3>4. last \in RowsOf(row.day) /\ last \in 1..Len(manifest) /\ manifest[last] \in Range(manifest)
      BY <3>1, <3>3, RowsOfDay
    <3>5. manifest[last].day = row.day /\ manifest[last].hash = ActiveHash(row.day)
      BY <3>4 DEF RowsOf, ActiveHash
    <3>. QED
      BY <3>4, <3>5 DEF CatalogInv
  <2>. QED
    BY <2>1 DEF CatalogInv, Resolves
<1>. QED
  BY <1>1, CatalogInductive, TypeCorrect, PTL
=============================================================================
