--------------------------- MODULE DatasetCommitProofs ---------------------------
(***************************************************************************)
(* Proofs about DatasetCommit for all seven commits, any batches and       *)
(* partitions, and any number of commits, failures and kills.              *)
(***************************************************************************)
EXTENDS DatasetCommit, CommonLemmas

-----------------------------------------------------------------------------
(* The order of the steps                                                  *)

\* The kinds that fetch before they validate, that record gaps, that write one file; and the steps.
RawFirst == {"month", "tail", "bybit_trades", "usdm_trades"}
GapKinds == {"month", "rows"}
OneFile  == {"month", "tail", "rows", "usdm_trades"}
Steps    == {"raw", "validate", "gaps", "parquet", "manifest", "checkpoint"}

\* Each step is in the order once.
LEMMA OnePlace ==
  ASSUME NEW q, NEW i \in DOMAIN q, \A j \in DOMAIN q : q[j] = q[i] => j = i
  PROVE  (CHOOSE n \in DOMAIN q : q[n] = q[i]) = i
OBVIOUS

\* A commit goes on to the next step of its order, and returns after the last.
Returns == pc' = "idle" /\ pending' = pending \ {RawName(batch)} /\ done' = done \cup {batch}
Goes(s) == pc' = s /\ UNCHANGED <<pending, done>>

\* The step after a step of the order, and the return after the last one.
LEMMA GoOnIs ==
  ASSUME Order \in Seq(Steps), NEW n \in Nat, Len(Order) = n, NEW i \in 1..n,
         \A j \in 1..n : Order[j] = Order[i] => j = i
  PROVE  GoOn(Order[i]) <=> IF i < n THEN Goes(Order[i + 1]) ELSE Returns
<1>0. DOMAIN Order = 1..n
  OBVIOUS
<1>1. (CHOOSE k \in DOMAIN Order : Order[k] = Order[i]) = i
  BY <1>0, OnePlace
<1>. QED
  BY <1>1 DEF GoOn, Goes, Returns

\* The next step of every kind's order.
LEMMA NextStep ==
  ASSUME kind \in Kinds
  PROVE  /\ GoOn("validate") => Goes(CASE kind \in RawFirst -> "parquet" [] kind = "rows" -> "gaps" [] OTHER -> "raw")
         /\ GoOn("raw")      => Goes(IF kind \in RawFirst THEN "validate" ELSE "parquet")
         /\ GoOn("parquet")  => Goes("manifest")
         /\ GoOn("manifest") => (CASE kind = "month" -> Goes("gaps") [] kind = "usdm_trades" -> Returns [] OTHER -> Goes("checkpoint"))
         /\ kind \in GapKinds => (GoOn("gaps") => Goes(IF kind = "month" THEN "checkpoint" ELSE "raw"))
         /\ kind # "usdm_trades" => (GoOn("checkpoint") => Returns)
         /\ Order[1] = IF kind \in RawFirst THEN "raw" ELSE "validate"
<1>. USE DEF RawFirst, GapKinds
<1>1. CASE kind = "month"
  <2>1. Order = <<"raw", "validate", "parquet", "manifest", "gaps", "checkpoint">>
    BY <1>1 DEF Order, MonthOrder
  <2>2. Order \in Seq(Steps) /\ Len(Order) = 6
    BY <2>1 DEF Steps
  <2>3. Order[1] = "raw" /\ Order[2] = "validate" /\ Order[3] = "parquet" /\ Order[4] = "manifest" /\ Order[5] = "gaps" /\ Order[6] = "checkpoint"
    BY <2>1
  <2>4. \A i, j \in 1..6 : Order[i] = Order[j] => i = j
    BY <2>3
  <2>5. \A i \in 1..6 : GoOn(Order[i]) <=> IF i < 6 THEN Goes(Order[i + 1]) ELSE Returns
    BY <2>2, <2>4, GoOnIs
  <2>6. GoOn("raw") => Goes("validate")
    BY <2>3, <2>5
  <2>7. GoOn("validate") => Goes("parquet")
    BY <2>3, <2>5
  <2>8. GoOn("parquet") => Goes("manifest")
    BY <2>3, <2>5
  <2>9. GoOn("manifest") => Goes("gaps")
    BY <2>3, <2>5
  <2>10. GoOn("gaps") => Goes("checkpoint")
    BY <2>3, <2>5
  <2>11. GoOn("checkpoint") => Returns
    BY <2>3, <2>5
  <2>. QED
    BY <1>1, <2>3, <2>6, <2>7, <2>8, <2>9, <2>10, <2>11
<1>2. CASE kind = "tail"
  <2>1. Order = <<"raw", "validate", "parquet", "manifest", "checkpoint">>
    BY <1>2 DEF Order, TailOrder
  <2>2. Order \in Seq(Steps) /\ Len(Order) = 5
    BY <2>1 DEF Steps
  <2>3. Order[1] = "raw" /\ Order[2] = "validate" /\ Order[3] = "parquet" /\ Order[4] = "manifest" /\ Order[5] = "checkpoint"
    BY <2>1
  <2>4. \A i, j \in 1..5 : Order[i] = Order[j] => i = j
    BY <2>3
  <2>5. \A i \in 1..5 : GoOn(Order[i]) <=> IF i < 5 THEN Goes(Order[i + 1]) ELSE Returns
    BY <2>2, <2>4, GoOnIs
  <2>6. GoOn("raw") => Goes("validate")
    BY <2>3, <2>5
  <2>7. GoOn("validate") => Goes("parquet")
    BY <2>3, <2>5
  <2>8. GoOn("parquet") => Goes("manifest")
    BY <2>3, <2>5
  <2>9. GoOn("manifest") => Goes("checkpoint")
    BY <2>3, <2>5
  <2>10. GoOn("checkpoint") => Returns
    BY <2>3, <2>5
  <2>. QED
    BY <1>2, <2>3, <2>6, <2>7, <2>8, <2>9, <2>10
<1>3. CASE kind = "rows"
  <2>1. Order = <<"validate", "gaps", "raw", "parquet", "manifest", "checkpoint">>
    BY <1>3 DEF Order, RowsOrder
  <2>2. Order \in Seq(Steps) /\ Len(Order) = 6
    BY <2>1 DEF Steps
  <2>3. Order[1] = "validate" /\ Order[2] = "gaps" /\ Order[3] = "raw" /\ Order[4] = "parquet" /\ Order[5] = "manifest" /\ Order[6] = "checkpoint"
    BY <2>1
  <2>4. \A i, j \in 1..6 : Order[i] = Order[j] => i = j
    BY <2>3
  <2>5. \A i \in 1..6 : GoOn(Order[i]) <=> IF i < 6 THEN Goes(Order[i + 1]) ELSE Returns
    BY <2>2, <2>4, GoOnIs
  <2>6. GoOn("validate") => Goes("gaps")
    BY <2>3, <2>5
  <2>7. GoOn("gaps") => Goes("raw")
    BY <2>3, <2>5
  <2>8. GoOn("raw") => Goes("parquet")
    BY <2>3, <2>5
  <2>9. GoOn("parquet") => Goes("manifest")
    BY <2>3, <2>5
  <2>10. GoOn("manifest") => Goes("checkpoint")
    BY <2>3, <2>5
  <2>11. GoOn("checkpoint") => Returns
    BY <2>3, <2>5
  <2>. QED
    BY <1>3, <2>3, <2>6, <2>7, <2>8, <2>9, <2>10, <2>11
<1>4. CASE kind = "oi"
  <2>1. Order = <<"validate", "raw", "parquet", "manifest", "checkpoint">>
    BY <1>4 DEF Order, OiOrder
  <2>2. Order \in Seq(Steps) /\ Len(Order) = 5
    BY <2>1 DEF Steps
  <2>3. Order[1] = "validate" /\ Order[2] = "raw" /\ Order[3] = "parquet" /\ Order[4] = "manifest" /\ Order[5] = "checkpoint"
    BY <2>1
  <2>4. \A i, j \in 1..5 : Order[i] = Order[j] => i = j
    BY <2>3
  <2>5. \A i \in 1..5 : GoOn(Order[i]) <=> IF i < 5 THEN Goes(Order[i + 1]) ELSE Returns
    BY <2>2, <2>4, GoOnIs
  <2>6. GoOn("validate") => Goes("raw")
    BY <2>3, <2>5
  <2>7. GoOn("raw") => Goes("parquet")
    BY <2>3, <2>5
  <2>8. GoOn("parquet") => Goes("manifest")
    BY <2>3, <2>5
  <2>9. GoOn("manifest") => Goes("checkpoint")
    BY <2>3, <2>5
  <2>10. GoOn("checkpoint") => Returns
    BY <2>3, <2>5
  <2>. QED
    BY <1>4, <2>3, <2>6, <2>7, <2>8, <2>9, <2>10
<1>5. CASE kind = "funding"
  <2>1. Order = <<"validate", "raw", "parquet", "manifest", "checkpoint">>
    BY <1>5 DEF Order, FundingOrder
  <2>2. Order \in Seq(Steps) /\ Len(Order) = 5
    BY <2>1 DEF Steps
  <2>3. Order[1] = "validate" /\ Order[2] = "raw" /\ Order[3] = "parquet" /\ Order[4] = "manifest" /\ Order[5] = "checkpoint"
    BY <2>1
  <2>4. \A i, j \in 1..5 : Order[i] = Order[j] => i = j
    BY <2>3
  <2>5. \A i \in 1..5 : GoOn(Order[i]) <=> IF i < 5 THEN Goes(Order[i + 1]) ELSE Returns
    BY <2>2, <2>4, GoOnIs
  <2>6. GoOn("validate") => Goes("raw")
    BY <2>3, <2>5
  <2>7. GoOn("raw") => Goes("parquet")
    BY <2>3, <2>5
  <2>8. GoOn("parquet") => Goes("manifest")
    BY <2>3, <2>5
  <2>9. GoOn("manifest") => Goes("checkpoint")
    BY <2>3, <2>5
  <2>10. GoOn("checkpoint") => Returns
    BY <2>3, <2>5
  <2>. QED
    BY <1>5, <2>3, <2>6, <2>7, <2>8, <2>9, <2>10
<1>6. CASE kind = "bybit_trades"
  <2>1. Order = <<"raw", "validate", "parquet", "manifest", "checkpoint">>
    BY <1>6 DEF Order, BybitOrder
  <2>2. Order \in Seq(Steps) /\ Len(Order) = 5
    BY <2>1 DEF Steps
  <2>3. Order[1] = "raw" /\ Order[2] = "validate" /\ Order[3] = "parquet" /\ Order[4] = "manifest" /\ Order[5] = "checkpoint"
    BY <2>1
  <2>4. \A i, j \in 1..5 : Order[i] = Order[j] => i = j
    BY <2>3
  <2>5. \A i \in 1..5 : GoOn(Order[i]) <=> IF i < 5 THEN Goes(Order[i + 1]) ELSE Returns
    BY <2>2, <2>4, GoOnIs
  <2>6. GoOn("raw") => Goes("validate")
    BY <2>3, <2>5
  <2>7. GoOn("validate") => Goes("parquet")
    BY <2>3, <2>5
  <2>8. GoOn("parquet") => Goes("manifest")
    BY <2>3, <2>5
  <2>9. GoOn("manifest") => Goes("checkpoint")
    BY <2>3, <2>5
  <2>10. GoOn("checkpoint") => Returns
    BY <2>3, <2>5
  <2>. QED
    BY <1>6, <2>3, <2>6, <2>7, <2>8, <2>9, <2>10
<1>7. CASE kind = "usdm_trades"
  <2>1. Order = <<"raw", "validate", "parquet", "manifest">>
    BY <1>7 DEF Order, UsdmOrder
  <2>2. Order \in Seq(Steps) /\ Len(Order) = 4
    BY <2>1 DEF Steps
  <2>3. Order[1] = "raw" /\ Order[2] = "validate" /\ Order[3] = "parquet" /\ Order[4] = "manifest"
    BY <2>1
  <2>4. \A i, j \in 1..4 : Order[i] = Order[j] => i = j
    BY <2>3
  <2>5. \A i \in 1..4 : GoOn(Order[i]) <=> IF i < 4 THEN Goes(Order[i + 1]) ELSE Returns
    BY <2>2, <2>4, GoOnIs
  <2>6. GoOn("raw") => Goes("validate")
    BY <2>3, <2>5
  <2>7. GoOn("validate") => Goes("parquet")
    BY <2>3, <2>5
  <2>8. GoOn("parquet") => Goes("manifest")
    BY <2>3, <2>5
  <2>9. GoOn("manifest") => Returns
    BY <2>3, <2>5
  <2>. QED
    BY <1>7, <2>3, <2>6, <2>7, <2>8, <2>9
<1>. QED
  BY <1>1, <1>2, <1>3, <1>4, <1>5, <1>6, <1>7, CommitAssumption

-----------------------------------------------------------------------------
(* Types                                                                   *)

\* The partitions a batch is written to.
AllParts == IF Partitioned THEN Parts(batch) ELSE {0}

\* Where a commit is: its batch is validated, is in a raw object, is not yet being
\* written, has all its Parquet files, is in the manifest, has its gaps recorded.
Validated  == pc \in {"gaps", "parquet", "manifest", "checkpoint"} \/ (pc = "raw" /\ kind \notin RawFirst)
RawStored  == pc \in {"parquet", "manifest", "checkpoint"} \/ (pc = "gaps" /\ kind = "month")
                \/ (pc = "validate" /\ kind \in RawFirst)
Unwritten  == pc \in {"raw", "validate"} \/ (pc = "gaps" /\ kind = "rows")
Written    == pc \in {"manifest", "checkpoint"} \/ (pc = "gaps" /\ kind = "month")
InManifest == pc = "checkpoint" \/ (pc = "gaps" /\ kind = "month")
GapsDone   == (kind = "month" /\ pc = "checkpoint")
                \/ (kind = "rows" /\ pc \in {"raw", "parquet", "manifest", "checkpoint"})

FlowTypes ==
  /\ kind \in Kinds
  /\ pc \in {"idle", "raw", "validate", "parquet", "manifest"}
              \cup (IF kind \in GapKinds THEN {"gaps"} ELSE {})
              \cup (IF kind # "usdm_trades" THEN {"checkpoint"} ELSE {})
  /\ batch \in BatchesOf[kind] \cup {NoBatch}
  /\ pc # "idle" => batch \in BatchesOf[kind]
  /\ Validated => batch \notin Invalid
  /\ todo \subseteq Range(PartOf) \cup {0}
  /\ pending \subseteq {RawName(b) : b \in BatchesOf[kind]}
  /\ done \subseteq BatchesOf[kind] \ Invalid
  /\ begun \in 0..MaxCommits /\ cuts \in 0..MaxCuts

\* A raw object holds what it is named after, but for funding's.
RawTypes ==
  \A n \in DOMAIN raw :
    /\ raw[n] \in BatchesOf[kind] \cup (IF kind = "funding" THEN {Torn} ELSE {})
    /\ kind # "funding" => RawName(raw[n]) = n

\* No more Parquet files of a kind that is stamped than commits.
StampTypes ==
  /\ stamp \in Nat /\ stamp <= begun
  /\ pc # "idle" /\ todo # {} /\ ~Cumulative => stamp < begun

FileTypes ==
  /\ \A f \in DOMAIN files : files[f] \in Contents
  /\ \A p \in made : p \in (DOMAIN files) \X Contents
  /\ manifest \in Seq([raw : BatchesOf[kind], refs : SUBSET ((DOMAIN files) \X Contents)])
  /\ checkpoint \in BatchesOf[kind] \cup {NoBatch} \cup (IF InPlace THEN {Torn} ELSE {})
  /\ gapFiles \subseteq (DOMAIN PartOf) \X (DOMAIN PartOf)

\* What is left to write, and what has been written.
TodoInv ==
  /\ Unwritten => todo = AllParts /\ made = {}
  /\ pc = "parquet" => todo # {} /\ todo \subseteq AllParts
  /\ Written => todo = {} /\ made # {}

TypeInv == FlowTypes /\ RawTypes /\ StampTypes /\ FileTypes /\ TodoInv

\* What the code's batches are made of.
LEMMA BatchIs ==
  ASSUME kind \in Kinds, NEW b \in BatchesOf[kind]
  PROVE  /\ b \in Batches /\ b \subseteq UNION Batches /\ b # {}
         /\ Times(b) \subseteq DOMAIN PartOf /\ Parts(b) \subseteq Range(PartOf) /\ Parts(b) # {}
         /\ kind = "bybit_trades" => \E p \in Range(PartOf) : Parts(b) = {p}
<1>1. b \in Batches /\ b \subseteq UNION Batches
  BY DEF Batches
<1>2. b # {} /\ Times(b) \subseteq DOMAIN PartOf
  BY <1>1, CommitAssumption
<1>3. Times(b) # {}
  BY <1>2 DEF Times
<1>4. Parts(b) # {} /\ Parts(b) \subseteq Range(PartOf)
  BY <1>2, <1>3 DEF Parts, Range
<1>5. kind = "bybit_trades" => \E p \in Range(PartOf) : Parts(b) = {p}
  BY CommitAssumption
<1>. QED
  BY <1>1, <1>2, <1>4, <1>5

\* A sequence over a set is one over a larger set.
LEMMA SeqWidens ==
  ASSUME NEW S, NEW T, S \subseteq T, NEW s \in Seq(S)
  PROVE  s \in Seq(T)
OBVIOUS

\* A raw object is reused only for the batch it was named after; its name stays.
LEMMA RawReused ==
  ASSUME FlowTypes, RawTypes, pc = "raw", WriteRaw
  PROVE  /\ batch' \in BatchesOf[kind] /\ RawName(batch') = RawName(batch)
         /\ kind # "bybit_trades" => batch' = batch
         /\ kind # "funding" => RawName(batch) \in DOMAIN raw' /\ raw'[RawName(batch)] = batch'
         /\ \A n \in DOMAIN raw : n \in DOMAIN raw' /\ (kind # "funding" => raw'[n] = raw[n])
         /\ \A n \in DOMAIN raw' : (n \in DOMAIN raw /\ raw'[n] = raw[n]) \/ (n = RawName(batch) /\ raw'[n] = batch)
<1>. DEFINE name == RawName(batch)
<1>0. batch \in BatchesOf[kind]
  BY DEF FlowTypes
<1>1. CASE name \in DOMAIN raw /\ kind # "funding"
  <2>1. raw' = raw /\ batch' = raw[name]
    BY <1>1 DEF WriteRaw
  <2>2. raw[name] \in BatchesOf[kind] /\ RawName(raw[name]) = name
    BY <1>1 DEF RawTypes
  <2>3. kind # "bybit_trades" => raw[name] = batch
    BY <1>1, <2>2 DEF RawName
  <2>. QED
    BY <1>1, <2>1, <2>2, <2>3
<1>2. CASE ~(name \in DOMAIN raw /\ kind # "funding")
  <2>1. batch' = batch /\ raw' = [n \in DOMAIN raw \cup {name} |-> IF n = name THEN batch ELSE raw[n]]
    BY <1>2 DEF WriteRaw
  <2>. HIDE DEF name
  <2>2. DOMAIN raw' = DOMAIN raw \cup {name} /\ raw'[name] = batch /\ \A n \in DOMAIN raw : n # name => raw'[n] = raw[n]
    BY <2>1
  <2>3. kind # "funding" => name \notin DOMAIN raw
    BY <1>2
  <2>4. /\ batch' \in BatchesOf[kind] /\ RawName(batch') = RawName(batch)
        /\ kind # "bybit_trades" => batch' = batch
    BY <1>0, <2>1
  <2>5. name = RawName(batch)
    BY DEF name
  <2>. QED
    BY <2>1, <2>2, <2>3, <2>4, <2>5
<1>. QED
  BY <1>1, <1>2

\* A commit that raises leaves nothing half done but its files.
LEMMA RaiseTypes ==
  ASSUME TypeInv, Raise, UNCHANGED <<kind, stamp, pending, done, begun>>, cuts' \in 0..MaxCuts
  PROVE  FlowTypes' /\ StampTypes' /\ TodoInv'
<1>0. FlowTypes /\ StampTypes
  BY DEF TypeInv
<1>1. pc' = "idle" /\ batch' = NoBatch /\ todo' = {} /\ made' = {}
  BY DEF Raise
<1>2. {RawName(b) : b \in BatchesOf[kind]}' = {RawName(b) : b \in BatchesOf[kind]}
  BY DEF RawName
<1>3. FlowTypes'
  BY <1>0, <1>1, <1>2 DEF FlowTypes, Validated
<1>4. StampTypes'
  BY <1>0, <1>1 DEF StampTypes, Cumulative
<1>5. TodoInv'
  BY <1>1 DEF TodoInv, Unwritten, Written
<1>. QED
  BY <1>3, <1>4, <1>5

\* After a step of a commit that has begun.
LEMMA StepFlow ==
  ASSUME FlowTypes, UNCHANGED <<kind, begun, cuts>>, batch \in BatchesOf[kind], batch' \in BatchesOf[kind],
         todo' \subseteq todo,
         \/ (\E s \in Steps : Goes(s)) /\ pc' \in Steps
              /\ (pc' = "gaps" => kind \in GapKinds) /\ (pc' = "checkpoint" => kind # "usdm_trades")
              /\ (Validated' => batch' \notin Invalid)
         \/ Returns /\ batch \notin Invalid
  PROVE  FlowTypes'
<1>1. {RawName(b) : b \in BatchesOf[kind]}' = {RawName(b) : b \in BatchesOf[kind]}
  BY DEF RawName
<1>2. CASE \E s \in Steps : Goes(s)
  <2>1. pending' = pending /\ done' = done
    BY <1>2 DEF Goes
  <2>2. CASE pc' \in Steps /\ (pc' = "gaps" => kind \in GapKinds) /\ (pc' = "checkpoint" => kind # "usdm_trades")
              /\ (Validated' => batch' \notin Invalid)
    BY <1>1, <2>1, <2>2 DEF FlowTypes, Steps
  <2>3. CASE Returns /\ batch \notin Invalid
    BY <1>2, <2>3 DEF Goes, Returns, Steps
  <2>. QED
    BY <2>2, <2>3
<1>3. CASE Returns /\ batch \notin Invalid
  <2>1. pc' = "idle" /\ pending' \subseteq pending /\ done' = done \cup {batch}
    BY <1>3 DEF Returns
  <2>2. ~Validated'
    BY <2>1 DEF Validated
  <2>. QED
    BY <1>1, <1>3, <2>1, <2>2 DEF FlowTypes
<1>. QED
  BY <1>2, <1>3

\* The parts of the file types that no step of a commit but the writes disturbs.
LEMMA FilesQuiet ==
  ASSUME FileTypes, UNCHANGED <<kind, files, manifest, checkpoint, gapFiles>>, made' \subseteq made
  PROVE  FileTypes'
<1>1. Contents' = Contents /\ InPlace' = InPlace
  BY DEF Contents, Batches, Kinds, InPlace
<1>. QED
  BY <1>1 DEF FileTypes

\* The partitions of a batch, of which there are some.
LEMMA PartsAre ==
  ASSUME FlowTypes, batch \in BatchesOf[kind]
  PROVE  /\ AllParts # {} /\ AllParts \subseteq Range(PartOf) \cup {0}
         /\ ~Cumulative => \E p : AllParts = {p}
<1>1. kind \in Kinds
  BY DEF FlowTypes
<1>2. CASE Partitioned
  BY <1>1, <1>2, BatchIs DEF AllParts, Cumulative, Partitioned
<1>3. CASE ~Partitioned
  BY <1>3 DEF AllParts
<1>. QED
  BY <1>2, <1>3

\* A merged generation has the batch's rows and rows of the older generations only.
LEMMA MergedIs ==
  ASSUME NEW p, NEW rows \in Merged(p)
  PROVE  /\ In(batch, p) \subseteq rows
         /\ rows \subseteq In(batch, p) \cup UNION {files[f].rows : f \in {n \in DOMAIN files : n[1] = p}}
BY DEF Merged

\* What a write of a Parquet file does.
Own(p, rows) == IF Replaced THEN In(rows, p) ELSE rows
Kept(f)      == f \in DOMAIN files /\ ~Replaced
Content(f, own) ==
  IF Kept(f) THEN files[f] ELSE [rows |-> own, stamp |-> IF Cumulative THEN 0 ELSE stamp + 1]
Writes(p, own, f, new) ==
  /\ p \in todo /\ f = FileName(p, own) /\ new = Content(f, own)
  /\ files' = [n \in DOMAIN files \cup {f} |-> IF n = f THEN new ELSE files[n]]
  /\ stamp' = (IF Kept(f) \/ Cumulative THEN stamp ELSE stamp + 1)
  /\ made' = made \cup {<<f, new>>}
  /\ todo' = todo \ {p}
  /\ IF todo = {p} THEN Goes("manifest") ELSE UNCHANGED <<pc, pending, done>>
  /\ UNCHANGED <<kind, batch, raw, manifest, checkpoint, gapFiles, begun, cuts>>

WritesHow(p, rows) ==
  LET own  == IF Replaced THEN In(rows, p) ELSE rows
      f    == FileName(p, own)
      keep == f \in DOMAIN files /\ ~Replaced
      new  == IF keep THEN files[f]
              ELSE [rows |-> own, stamp |-> IF Cumulative THEN 0 ELSE stamp + 1]
  IN  /\ \A q \in todo : p <= q
      /\ files' = [n \in DOMAIN files \cup {f} |-> IF n = f THEN new ELSE files[n]]
      /\ stamp' = IF keep \/ Cumulative THEN stamp ELSE stamp + 1
      /\ made' = made \cup {<<f, new>>}
      /\ todo' = todo \ {p}
      /\ IF todo = {p} THEN GoOn("parquet") ELSE UNCHANGED <<pc, pending, done>>

\* A Parquet step writes one partition of the batch: the rows it was told, or those it merged.
LEMMA ParquetIs ==
  ASSUME kind \in Kinds, WriteParquet
  PROVE  /\ pc = "parquet" /\ ~RepeatRaises
         /\ \E p \in todo : \E rows \in (IF kind = "oi" THEN Merged(p) ELSE {batch}) :
              \E f, new : Writes(p, Own(p, rows), f, new)
<1>0. PICK p \in todo : \E rows \in (IF kind = "oi" THEN Merged(p) ELSE {batch}) : WritesHow(p, rows)
  BY DEF WriteParquet, WritesHow
<1>1. PICK rows \in (IF kind = "oi" THEN Merged(p) ELSE {batch}) : WritesHow(p, rows)
  BY <1>0
<1>2. IF todo = {p} THEN Goes("manifest") ELSE UNCHANGED <<pc, pending, done>>
  BY <1>1, NextStep DEF WritesHow
<1>3. UNCHANGED <<kind, batch, raw, manifest, checkpoint, gapFiles, begun, cuts>> /\ pc = "parquet" /\ ~RepeatRaises
  BY DEF WriteParquet
<1>. DEFINE own == Own(p, rows)
            f   == FileName(p, own)
<1>4. Writes(p, own, f, Content(f, own))
  BY <1>1, <1>2, <1>3 DEF WritesHow, Writes, Own, Content, Kept
<1>. QED
  BY <1>3, <1>4

\* A Parquet file holds rows of batches.
LEMMA ContentIs ==
  ASSUME NEW c \in Contents
  PROVE  c.rows \subseteq UNION Batches
BY DEF Contents

\* What a write does to the files: the old ones stay, and the new one is well typed.
WriteEffect(p, rows, f, new) ==
  /\ DOMAIN files' = DOMAIN files \cup {f} /\ files'[f] = new
  /\ \A n \in DOMAIN files : n # f => files'[n] = files[n]
  /\ new \in Contents /\ stamp' \in Nat /\ stamp' <= begun
  /\ ~Kept(f) => new.rows = Own(p, rows)
  /\ ~Replaced => \A n \in DOMAIN files : files'[n] = files[n]

\* A write has this effect, whatever rows of the partition it is given.
LEMMA WritesTypes ==
  ASSUME TypeInv, NEW p, NEW rows \in (IF kind = "oi" THEN Merged(p) ELSE {batch}), NEW f, NEW new,
         pc = "parquet", Writes(p, Own(p, rows), f, new)
  PROVE  WriteEffect(p, rows, f, new)
<1>0. FlowTypes /\ StampTypes /\ FileTypes /\ TodoInv /\ kind \in Kinds /\ batch \in BatchesOf[kind]
      /\ begun \in 0..MaxCommits
  BY DEF TypeInv, FlowTypes
<1>1. /\ p \in todo /\ new = Content(f, Own(p, rows))
      /\ files' = [n \in DOMAIN files \cup {f} |-> IF n = f THEN new ELSE files[n]]
      /\ stamp' = (IF Kept(f) \/ Cumulative THEN stamp ELSE stamp + 1)
  BY DEF Writes
<1>2. DOMAIN files' = DOMAIN files \cup {f} /\ files'[f] = new
      /\ \A n \in DOMAIN files : n # f => files'[n] = files[n]
  BY <1>1
<1>3. rows \subseteq UNION Batches
  <2>1. batch \subseteq UNION Batches
    BY <1>0, BatchIs
  <2>2. \A n \in DOMAIN files : files[n].rows \subseteq UNION Batches
    <3>1. \A n \in DOMAIN files : files[n] \in Contents
      BY <1>0 DEF FileTypes
    <3>. QED
      BY <3>1, ContentIs
  <2>3. kind = "oi" => rows \subseteq UNION Batches
    BY <2>1, <2>2, MergedIs DEF In
  <2>. QED
    BY <2>1, <2>3
<1>4. Own(p, rows) \subseteq UNION Batches
  BY <1>3 DEF Own, In
<1>5. stamp \in Nat /\ stamp <= begun /\ (~Cumulative => stamp < begun) /\ MaxCommits \in Nat
  BY <1>0, <1>1, CommitAssumption DEF StampTypes
<1>6. stamp' \in Nat /\ stamp' <= begun /\ (~Kept(f) => (IF Cumulative THEN 0 ELSE stamp + 1) \in 0..MaxCommits)
  BY <1>0, <1>1, <1>5
<1>7. ~Kept(f) => new = [rows |-> Own(p, rows), stamp |-> IF Cumulative THEN 0 ELSE stamp + 1]
  BY <1>1 DEF Content
<1>8. Kept(f) => new = files[f] /\ f \in DOMAIN files
  BY <1>1 DEF Content, Kept
<1>9. new \in Contents
  <2>1. CASE Kept(f)
    BY <1>0, <1>8, <2>1 DEF FileTypes
  <2>2. CASE ~Kept(f)
    BY <1>4, <1>6, <1>7, <2>2 DEF Contents
  <2>. QED
    BY <2>1, <2>2
<1>10. ~Replaced => \A n \in DOMAIN files : files'[n] = files[n]
  BY <1>2, <1>8 DEF Kept
<1>. QED
  BY <1>2, <1>6, <1>7, <1>9, <1>10 DEF WriteEffect

\* Every variable keeps its type.
THEOREM TypeCorrect == Spec => []TypeInv
<1>1. Init => TypeInv
  <2>. SUFFICES ASSUME Init PROVE TypeInv
    OBVIOUS
  <2>0. 0 \in 0..MaxCommits /\ 0 \in 0..MaxCuts
    BY CommitAssumption
  <2>1. FlowTypes
    BY <2>0 DEF Init, FlowTypes, Validated
  <2>2. RawTypes /\ StampTypes /\ TodoInv
    BY DEF Init, RawTypes, StampTypes, TodoInv, Unwritten, Written
  <2>3. FileTypes
    BY DEF Init, FileTypes
  <2>. QED
    BY <2>1, <2>2, <2>3 DEF TypeInv
<1>2. TypeInv /\ [Next]_vars => TypeInv'
  <2>. SUFFICES ASSUME TypeInv, [Next]_vars PROVE TypeInv'
    OBVIOUS
  <2>0. FlowTypes /\ RawTypes /\ StampTypes /\ FileTypes /\ TodoInv /\ kind \in Kinds
    BY DEF TypeInv, FlowTypes
  <2>1. ASSUME pc # "idle" PROVE batch \in BatchesOf[kind] /\ AllParts # {}
    BY <2>0, <2>1, PartsAre DEF FlowTypes
  <2>2. ASSUME UNCHANGED <<kind, raw>> PROVE RawTypes'
    BY <2>0, <2>2 DEF RawTypes, RawName
  <2>3. ASSUME NEW b \in Batches, Begin(b) PROVE TypeInv'
    <3>1. /\ pc = "idle" /\ b \in BatchesOf[kind] /\ pc' = Order[1] /\ batch' = b
          /\ todo' = (IF Partitioned THEN Parts(b) ELSE {0}) /\ made' = {}
          /\ pending' = pending \cup {RawName(b)} /\ begun < MaxCommits /\ begun' = begun + 1
          /\ UNCHANGED <<kind, raw, files, manifest, checkpoint, gapFiles, stamp, done, cuts>>
      BY <2>3 DEF Begin, diskVars
    <3>2. pc' = (IF kind \in RawFirst THEN "raw" ELSE "validate")
      BY <2>0, <3>1, NextStep
    <3>3. FlowTypes'
      <4>1. {RawName(x) : x \in BatchesOf[kind]}' = {RawName(x) : x \in BatchesOf[kind]}
        BY <3>1 DEF RawName
      <4>2. pending' \subseteq {RawName(x) : x \in BatchesOf[kind]}
        BY <2>0, <3>1 DEF FlowTypes
      <4>3. todo' \subseteq Range(PartOf) \cup {0}
        BY <2>0, <3>1, BatchIs
      <4>4. ~Validated'
        BY <3>1, <3>2 DEF Validated
      <4>5. begun' \in 0..MaxCommits
        BY <2>0, <3>1, CommitAssumption DEF FlowTypes
      <4>. QED
        BY <2>0, <3>1, <3>2, <4>1, <4>2, <4>3, <4>4, <4>5 DEF FlowTypes
    <3>4. StampTypes'
      BY <2>0, <3>1 DEF StampTypes, FlowTypes
    <3>5. TodoInv'
      BY <3>1, <3>2 DEF TodoInv, Unwritten, Written, AllParts, Partitioned
    <3>. QED
      BY <2>0, <2>2, <3>1, <3>3, <3>4, <3>5, FilesQuiet DEF TypeInv
  <2>4. CASE Validate
    <3>1. /\ pc = "validate" /\ batch \notin Invalid /\ UNCHANGED <<kind, commitVars, diskVars, begun, cuts>>
          /\ Goes(CASE kind \in RawFirst -> "parquet" [] kind = "rows" -> "gaps" [] OTHER -> "raw")
      BY <2>0, <2>4, NextStep DEF Validate
    <3>2. pc' = (CASE kind \in RawFirst -> "parquet" [] kind = "rows" -> "gaps" [] OTHER -> "raw")
      BY <3>1 DEF Goes
    <3>3. FlowTypes'
      BY <2>0, <2>1, <3>1, <3>2, StepFlow DEF Steps, GapKinds, commitVars
    <3>4. StampTypes'
      BY <2>0, <3>1 DEF StampTypes, Cumulative, commitVars, diskVars
    <3>5. TodoInv'
      BY <2>0, <2>1, <3>1, <3>2 DEF TodoInv, Unwritten, Written, AllParts, Partitioned, commitVars, RawFirst
    <3>. QED
      BY <2>0, <2>2, <3>1, <3>3, <3>4, <3>5, FilesQuiet DEF TypeInv, commitVars, diskVars
  <2>5. CASE RejectBatch \/ UsdmRepeatRaises
    <3>1. Raise /\ UNCHANGED <<kind, diskVars, pending, done, begun, cuts>>
      BY <2>5 DEF RejectBatch, UsdmRepeatRaises
    <3>2. cuts' \in 0..MaxCuts /\ made' = {}
      BY <2>0, <3>1 DEF FlowTypes, Raise
    <3>. QED
      BY <2>0, <2>2, <3>1, <3>2, RaiseTypes, FilesQuiet DEF TypeInv, diskVars
  <2>6. CASE WriteRaw
    <3>1. /\ pc = "raw" /\ UNCHANGED <<kind, todo, made, files, manifest, checkpoint, gapFiles, stamp, begun, cuts>>
          /\ Goes(IF kind \in RawFirst THEN "validate" ELSE "parquet")
      BY <2>0, <2>6, NextStep DEF WriteRaw
    <3>2. pc' = IF kind \in RawFirst THEN "validate" ELSE "parquet"
      BY <3>1 DEF Goes
    <3>3. batch' \in BatchesOf[kind] /\ (kind # "bybit_trades" => batch' = batch) /\ RawName(batch') = RawName(batch)
      BY <2>0, <2>6, <3>1, RawReused
    <3>4. FlowTypes'
      <4>1. Validated' => batch' \notin Invalid
        BY <2>0, <3>1, <3>2, <3>3 DEF Validated, FlowTypes, RawFirst
      <4>. QED
        BY <2>0, <2>1, <3>1, <3>2, <3>3, <4>1, StepFlow DEF Steps
    <3>5. StampTypes'
      BY <2>0, <3>1 DEF StampTypes, Cumulative
    <3>6. AllParts' = AllParts
      BY <3>1, <3>3 DEF AllParts, Partitioned, RawName
    <3>7. TodoInv'
      BY <2>0, <2>1, <3>1, <3>2, <3>6 DEF TodoInv, Unwritten, Written
    <3>8. RawTypes'
      <4>1. ASSUME NEW n \in DOMAIN raw'
            PROVE  /\ raw'[n] \in BatchesOf[kind] \cup (IF kind = "funding" THEN {Torn} ELSE {})
                   /\ kind # "funding" => RawName(raw'[n]) = n
        BY <2>0, <2>1, <2>6, <3>1, RawReused DEF RawTypes
      <4>. QED
        BY <3>1, <4>1 DEF RawTypes, RawName
    <3>. QED
      BY <2>0, <3>1, <3>4, <3>5, <3>7, <3>8, FilesQuiet DEF TypeInv
  <2>7. CASE RecordGap
    <3>1. /\ UNCHANGED <<kind, pc, commitVars, raw, files, manifest, checkpoint, stamp, pending, done, begun, cuts>>
          /\ \E g \in GapsIn(batch) : gapFiles' = gapFiles \cup {g}
      BY <2>7 DEF RecordGap
    <3>2. batch \in BatchesOf[kind]
      BY <2>1, <2>7 DEF RecordGap
    <3>3. Times(batch) \subseteq DOMAIN PartOf
      BY <2>0, <3>2, BatchIs
    <3>4. gapFiles' \subseteq (DOMAIN PartOf) \X (DOMAIN PartOf)
      BY <2>0, <3>1, <3>3 DEF GapsIn, FileTypes
    <3>5. FileTypes'
      <4>1. Contents' = Contents /\ InPlace' = InPlace
        BY <3>1 DEF Contents, Batches, Kinds, InPlace
      <4>. QED
        BY <2>0, <3>1, <3>4, <4>1 DEF FileTypes, commitVars
    <3>6. FlowTypes'
      BY <2>0, <3>1 DEF FlowTypes, Validated, RawName, commitVars
    <3>7. StampTypes' /\ TodoInv'
      BY <2>0, <3>1 DEF StampTypes, TodoInv, Unwritten, Written, AllParts, Partitioned, Cumulative, commitVars
    <3>. QED
      BY <2>2, <3>1, <3>5, <3>6, <3>7 DEF TypeInv
  <2>8. CASE GapsRecorded
    <3>0. pc = "gaps" /\ kind \in GapKinds
      BY <2>0, <2>8 DEF GapsRecorded, FlowTypes
    <3>1. /\ UNCHANGED <<kind, commitVars, diskVars, begun, cuts>>
          /\ Goes(IF kind = "month" THEN "checkpoint" ELSE "raw")
      BY <2>0, <2>8, <3>0, NextStep DEF GapsRecorded
    <3>2. pc' = IF kind = "month" THEN "checkpoint" ELSE "raw"
      BY <3>1 DEF Goes
    <3>3. batch \notin Invalid
      BY <2>0, <3>0 DEF FlowTypes, Validated
    <3>4. FlowTypes'
      BY <2>0, <2>1, <3>0, <3>1, <3>2, <3>3, StepFlow DEF Steps, GapKinds, commitVars
    <3>5. StampTypes'
      BY <2>0, <3>0, <3>1 DEF StampTypes, Cumulative, commitVars, diskVars
    <3>6. TodoInv'
      BY <2>0, <2>1, <3>0, <3>1, <3>2 DEF TodoInv, Unwritten, Written, AllParts, Partitioned, commitVars, GapKinds
    <3>. QED
      BY <2>0, <2>2, <3>1, <3>4, <3>5, <3>6, FilesQuiet DEF TypeInv, commitVars, diskVars
  <2>9. CASE WriteParquet
    <3>0. PICK p \in todo : \E rows \in (IF kind = "oi" THEN Merged(p) ELSE {batch}) :
                              \E f, new : Writes(p, Own(p, rows), f, new)
      BY <2>0, <2>9, ParquetIs
    <3>rows. PICK rows \in (IF kind = "oi" THEN Merged(p) ELSE {batch}) : \E f, new : Writes(p, Own(p, rows), f, new)
      BY <3>0
    <3>1. PICK f, new : Writes(p, Own(p, rows), f, new)
      BY <3>rows
    <3>2. pc = "parquet" /\ batch \in BatchesOf[kind]
      BY <2>1, <2>9 DEF WriteParquet
    <3>3. /\ made' = made \cup {<<f, new>>} /\ todo' = todo \ {p}
          /\ IF todo = {p} THEN Goes("manifest") ELSE UNCHANGED <<pc, pending, done>>
          /\ UNCHANGED <<kind, batch, raw, manifest, checkpoint, gapFiles, begun, cuts>>
      BY <3>1 DEF Writes
    <3>4. /\ DOMAIN files' = DOMAIN files \cup {f} /\ files'[f] = new
          /\ \A n \in DOMAIN files : n # f => files'[n] = files[n]
          /\ new \in Contents /\ stamp' \in Nat /\ stamp' <= begun
      <4>1. WriteEffect(p, rows, f, new)
        BY <3>1, <3>2, WritesTypes
      <4>. QED
        BY <4>1 DEF WriteEffect
    <3>5. batch \notin Invalid
      BY <2>0, <3>2 DEF FlowTypes, Validated
    <3>6. FlowTypes'
      <4>1. CASE todo = {p}
        <5>1. Goes("manifest") /\ pc' = "manifest"
          BY <3>3, <4>1 DEF Goes
        <5>. QED
          BY <2>0, <3>2, <3>3, <3>5, <5>1, StepFlow DEF Steps
      <4>2. CASE todo # {p}
        BY <2>0, <3>3, <4>2 DEF FlowTypes, Validated, RawName
      <4>. QED
        BY <4>1, <4>2
    <3>7. StampTypes'
      <4>1. ~Cumulative => todo' = {}
        BY <2>0, <3>2, <3>3, PartsAre DEF TodoInv
      <4>. QED
        BY <3>3, <3>4, <4>1 DEF StampTypes, Cumulative
    <3>8. TodoInv'
      <4>1. CASE todo = {p}
        <5>1. pc' = "manifest"
          BY <3>3, <4>1 DEF Goes
        <5>. QED
          BY <3>3, <4>1, <5>1 DEF TodoInv, Unwritten, Written
      <4>2. CASE todo # {p}
        BY <2>0, <3>1, <3>2, <3>3, <4>2 DEF TodoInv, Unwritten, Written, AllParts, Partitioned
      <4>. QED
        BY <4>1, <4>2
    <3>9. FileTypes'
      <4>1. Contents' = Contents /\ InPlace' = InPlace
        BY <3>3 DEF Contents, Batches, Kinds, InPlace
      <4>2. \A n \in DOMAIN files' : files'[n] \in Contents
        BY <2>0, <3>4 DEF FileTypes
      <4>3. \A q \in made' : q \in (DOMAIN files') \X Contents
        BY <2>0, <3>3, <3>4 DEF FileTypes
      <4>4. manifest \in Seq([raw : BatchesOf[kind], refs : SUBSET ((DOMAIN files') \X Contents)])
        <5>. DEFINE S == [raw : BatchesOf[kind], refs : SUBSET ((DOMAIN files) \X Contents)]
                    T == [raw : BatchesOf[kind], refs : SUBSET ((DOMAIN files') \X Contents)]
        <5>1. S \subseteq T
          BY <3>4
        <5>2. manifest \in Seq(S)
          BY <2>0 DEF FileTypes
        <5>. HIDE DEF S, T
        <5>3. manifest \in Seq(T)
          BY <5>1, <5>2, SeqWidens
        <5>. QED
          BY <5>3 DEF T
      <4>. QED
        BY <2>0, <3>3, <4>1, <4>2, <4>3, <4>4 DEF FileTypes
    <3>. QED
      BY <2>2, <3>3, <3>6, <3>7, <3>8, <3>9 DEF TypeInv
  <2>10. CASE AppendManifest
    <3>1. /\ pc = "manifest" /\ UNCHANGED <<kind, commitVars, raw, files, checkpoint, gapFiles, stamp, begun, cuts>>
          /\ manifest' = (IF Recorded THEN manifest ELSE Append(manifest, [raw |-> batch, refs |-> made]))
          /\ (CASE kind = "month" -> Goes("gaps") [] kind = "usdm_trades" -> Returns [] OTHER -> Goes("checkpoint"))
      BY <2>0, <2>10, NextStep DEF AppendManifest
    <3>2. batch \in BatchesOf[kind] /\ batch \notin Invalid /\ todo = {}
      BY <2>0, <2>1, <3>1 DEF FlowTypes, Validated, TodoInv, Written
    <3>3. \/ kind = "month" /\ Goes("gaps") /\ pc' = "gaps"
          \/ kind = "usdm_trades" /\ Returns /\ pc' = "idle"
          \/ kind \notin {"month", "usdm_trades"} /\ Goes("checkpoint") /\ pc' = "checkpoint"
      BY <3>1 DEF Goes, Returns
    <3>4. FlowTypes'
      BY <2>0, <3>1, <3>2, <3>3, StepFlow DEF Steps, GapKinds, commitVars
    <3>5. StampTypes' /\ TodoInv'
      BY <2>0, <3>1, <3>2, <3>3 DEF StampTypes, TodoInv, Written, Unwritten, Cumulative, commitVars
    <3>6. FileTypes'
      <4>. DEFINE S == [raw : BatchesOf[kind], refs : SUBSET ((DOMAIN files) \X Contents)]
                  row == [raw |-> batch, refs |-> made]
      <4>1. row \in S
        BY <2>0, <3>2 DEF FileTypes
      <4>2. manifest \in Seq(S)
        BY <2>0 DEF FileTypes
      <4>3. manifest' = manifest \/ manifest' = Append(manifest, row)
        BY <3>1
      <4>. HIDE DEF S, row
      <4>4. manifest' \in Seq(S)
        BY <4>1, <4>2, <4>3, RangeAppend
      <4>5. Contents' = Contents /\ InPlace' = InPlace
        BY <3>1 DEF Contents, Batches, Kinds, InPlace
      <4>6. S' = S
        BY <3>1, <4>5 DEF S
      <4>. QED
        BY <2>0, <3>1, <4>4, <4>5, <4>6 DEF FileTypes, S, commitVars
    <3>. QED
      BY <2>2, <3>1, <3>4, <3>5, <3>6 DEF TypeInv
  <2>11. CASE WriteCheckpoint
    <3>0. pc = "checkpoint" /\ kind # "usdm_trades"
      BY <2>0, <2>11 DEF WriteCheckpoint, FlowTypes, GapKinds
    <3>1. /\ checkpoint' = batch /\ Returns
          /\ UNCHANGED <<kind, commitVars, raw, files, manifest, gapFiles, stamp, begun, cuts>>
      BY <2>0, <2>11, <3>0, NextStep DEF WriteCheckpoint
    <3>2. batch \in BatchesOf[kind] /\ batch \notin Invalid /\ pc' = "idle"
      BY <2>0, <2>1, <3>0, <3>1 DEF FlowTypes, Validated, Returns
    <3>3. FlowTypes'
      BY <2>0, <3>1, <3>2, StepFlow DEF commitVars
    <3>4. StampTypes' /\ TodoInv'
      BY <2>0, <3>1, <3>2 DEF StampTypes, TodoInv, Unwritten, Written, commitVars
    <3>5. FileTypes'
      <4>1. Contents' = Contents /\ InPlace' = InPlace
        BY <3>1 DEF Contents, Batches, Kinds, InPlace
      <4>. QED
        BY <2>0, <3>1, <3>2, <4>1 DEF FileTypes, commitVars
    <3>. QED
      BY <2>2, <3>1, <3>3, <3>4, <3>5 DEF TypeInv
  <2>12. CASE CommitFails \/ Crash
    <3>1. /\ Raise /\ cuts < MaxCuts /\ cuts' = cuts + 1 /\ pc # "idle"
          /\ UNCHANGED <<kind, files, manifest, gapFiles, stamp, pending, done, begun>>
          /\ checkpoint' = checkpoint \/ (InPlace /\ checkpoint' = Torn)
      BY <2>12 DEF CommitFails, Crash, diskVars
    <3>2. cuts' \in 0..MaxCuts /\ made' = {}
      BY <2>0, <3>1, CommitAssumption DEF FlowTypes, Raise
    <3>3. RawTypes'
      <4>1. CASE raw' = raw
        BY <2>2, <3>1, <4>1
      <4>2. CASE raw' # raw
        <5>1. kind = "funding"
              /\ raw' = [n \in DOMAIN raw \cup {RawName(batch)} |-> IF n = RawName(batch) THEN Torn ELSE raw[n]]
          BY <2>12, <4>2 DEF CommitFails, Crash, diskVars, RawInPlace
        <5>. QED
          BY <2>0, <3>1, <5>1 DEF RawTypes
      <4>. QED
        BY <4>1, <4>2
    <3>4. FileTypes'
      <4>1. Contents' = Contents /\ InPlace' = InPlace
        BY <3>1 DEF Contents, Batches, Kinds, InPlace
      <4>. QED
        BY <2>0, <3>1, <3>2, <4>1 DEF FileTypes
    <3>. QED
      BY <3>1, <3>2, <3>3, <3>4, RaiseTypes DEF TypeInv
  <2>13. CASE LeaseRefused \/ UNCHANGED vars
    <3>1. /\ UNCHANGED <<kind, pc, batch, todo, made, raw, files, manifest, checkpoint, gapFiles, stamp, pending, done, cuts>>
          /\ begun' = begun \/ (begun' = begun + 1 /\ begun < MaxCommits)
      BY <2>13 DEF LeaseRefused, vars, commitVars, diskVars
    <3>2. FlowTypes'
      <4>1. begun' \in 0..MaxCommits
        BY <2>0, <3>1, CommitAssumption DEF FlowTypes
      <4>. QED
        BY <2>0, <3>1, <4>1 DEF FlowTypes, Validated, RawName
    <3>3. StampTypes' /\ TodoInv'
      <4>1. begun' \in Nat /\ begun <= begun' /\ begun \in Nat
        BY <2>0, <3>1 DEF FlowTypes
      <4>2. StampTypes'
        BY <2>0, <3>1, <4>1 DEF StampTypes, Cumulative
      <4>. QED
        BY <2>0, <3>1, <4>2 DEF TodoInv, Unwritten, Written, AllParts, Partitioned
    <3>. QED
      BY <2>0, <2>2, <3>1, <3>2, <3>3, FilesQuiet DEF TypeInv
  <2>. QED
    BY <2>3, <2>4, <2>5, <2>6, <2>7, <2>8, <2>9, <2>10, <2>11, <2>12, <2>13 DEF Next, Step
<1>. QED
  BY <1>1, <1>2, PTL DEF Spec

-----------------------------------------------------------------------------
(* The gaps of a candle dataset                                            *)

GapInv ==
  /\ GapsDone => Starts(GapsIn(batch)) \subseteq Starts(gapFiles)
  /\ CheckpointHasGaps

\* Gaps that are recorded stay recorded.
LEMMA GapsStay ==
  ASSUME GapInv, UNCHANGED <<kind, batch>>, gapFiles \subseteq gapFiles', GapsDone' => GapsDone,
         kind \in GapKinds => checkpoint' = checkpoint
  PROVE  GapInv'
<1>1. Starts(gapFiles) \subseteq Starts(gapFiles')
  BY DEF Starts
<1>2. GapsDone' => Starts(GapsIn(batch)) \subseteq Starts(gapFiles')
  BY <1>1 DEF GapInv
<1>3. kind \in GapKinds => Starts(GapsIn(checkpoint)) \subseteq Starts(gapFiles')
  BY <1>1 DEF GapInv, CheckpointHasGaps, GapKinds
<1>. QED
  BY <1>2, <1>3 DEF GapInv, CheckpointHasGaps, GapKinds, Starts, GapsIn, Times

\* A commit that no longer counts its gaps as recorded breaks nothing while the
\* checkpoint of a candle dataset stays where it is.
LEMMA GapsForgotten ==
  ASSUME GapInv, kind' = kind, gapFiles' = gapFiles, ~GapsDone', kind \in GapKinds => checkpoint' = checkpoint
  PROVE  GapInv'
<1>1. kind \in GapKinds => Starts(GapsIn(checkpoint)) \subseteq Starts(gapFiles)
  BY DEF GapInv, CheckpointHasGaps, GapKinds
<1>. QED
  BY <1>1 DEF GapInv, CheckpointHasGaps, GapKinds, Starts, GapsIn, Times

\* The checkpoint of a candle dataset names a batch only once its gaps are recorded
\* (CheckpointHasGaps): whichever of the two orders the commit has, and whatever was cut
\* before, a commit that is past its gaps has all of them in place.
THEOREM CheckpointsHaveGaps == Spec => []CheckpointHasGaps
<1>1. Init => GapInv
  <2>. SUFFICES ASSUME Init PROVE GapInv
    OBVIOUS
  <2>1. pc = "idle" /\ checkpoint = NoBatch
    BY DEF Init
  <2>2. Starts(GapsIn(checkpoint)) = {}
    BY <2>1 DEF Starts, GapsIn, Times, NoBatch
  <2>. QED
    BY <2>1, <2>2 DEF GapInv, GapsDone, CheckpointHasGaps
<1>2. TypeInv /\ GapInv /\ [Next]_vars => GapInv'
  <2>. SUFFICES ASSUME TypeInv, GapInv, [Next]_vars PROVE GapInv'
    OBVIOUS
  <2>0. FlowTypes /\ RawTypes /\ kind \in Kinds
    BY DEF TypeInv, FlowTypes
  <2>1. ASSUME NEW b \in Batches, Begin(b) PROVE GapInv'
    <3>1. pc' = Order[1] /\ UNCHANGED <<kind, checkpoint, gapFiles>>
      BY <2>1 DEF Begin, diskVars
    <3>2. ~GapsDone'
      BY <2>0, <3>1, NextStep DEF GapsDone, RawFirst
    <3>. QED
      BY <3>1, <3>2, GapsForgotten
  <2>2. CASE Validate
    <3>1. /\ UNCHANGED <<kind, batch, checkpoint, gapFiles>>
          /\ Goes(CASE kind \in RawFirst -> "parquet" [] kind = "rows" -> "gaps" [] OTHER -> "raw")
      BY <2>0, <2>2, NextStep DEF Validate, commitVars, diskVars
    <3>2. ~GapsDone'
      BY <3>1 DEF Goes, GapsDone, RawFirst
    <3>. QED
      BY <3>1, <3>2, GapsForgotten
  <2>3. CASE RejectBatch \/ UsdmRepeatRaises \/ CommitFails \/ Crash
    <3>1. Raise /\ UNCHANGED <<kind, gapFiles>> /\ (kind \in GapKinds => checkpoint' = checkpoint)
      BY <2>3 DEF RejectBatch, UsdmRepeatRaises, CommitFails, Crash, diskVars, InPlace, GapKinds
    <3>2. ~GapsDone'
      BY <3>1 DEF Raise, GapsDone
    <3>. QED
      BY <3>1, <3>2, GapsForgotten
  <2>4. CASE WriteRaw
    <3>1. /\ pc = "raw" /\ UNCHANGED <<kind, checkpoint, gapFiles>>
          /\ Goes(IF kind \in RawFirst THEN "validate" ELSE "parquet")
      BY <2>0, <2>4, NextStep DEF WriteRaw
    <3>2. CASE kind = "rows"
      <4>1. batch' = batch /\ GapsDone
        BY <2>0, <2>4, <3>1, <3>2, RawReused DEF GapsDone
      <4>. QED
        BY <3>1, <4>1, GapsStay
    <3>3. CASE kind # "rows"
      <4>1. ~GapsDone'
        BY <3>1, <3>3 DEF Goes, GapsDone, RawFirst
      <4>. QED
        BY <3>1, <4>1, GapsForgotten
    <3>. QED
      BY <3>2, <3>3
  <2>5. CASE RecordGap \/ LeaseRefused \/ UNCHANGED vars
    <3>1. UNCHANGED <<kind, pc, batch, checkpoint>> /\ gapFiles \subseteq gapFiles'
      BY <2>5 DEF RecordGap, LeaseRefused, vars, commitVars, diskVars
    <3>. QED
      BY <3>1, GapsStay DEF GapsDone
  <2>6. CASE GapsRecorded
    <3>1. UNCHANGED <<kind, batch, checkpoint, gapFiles>> /\ Starts(GapsIn(batch)) \subseteq Starts(gapFiles)
      BY <2>6 DEF GapsRecorded, commitVars, diskVars
    <3>2. kind \in GapKinds => Starts(GapsIn(checkpoint)) \subseteq Starts(gapFiles)
      BY DEF GapInv, CheckpointHasGaps, GapKinds
    <3>. QED
      BY <3>1, <3>2 DEF GapInv, CheckpointHasGaps, GapKinds, Starts, GapsIn, Times
  <2>7. CASE WriteParquet \/ AppendManifest
    <3>1. /\ UNCHANGED <<kind, batch, checkpoint, gapFiles>>
          /\ pc = "manifest" => (CASE kind = "month" -> Goes("gaps") [] kind = "usdm_trades" -> Returns [] OTHER -> Goes("checkpoint"))
          /\ pc = "parquet" => pc' \in {"parquet", "manifest"}
          /\ pc \in {"parquet", "manifest"}
      BY <2>0, <2>7, NextStep DEF WriteParquet, AppendManifest, commitVars, Goes
    <3>2. GapsDone' => GapsDone
      BY <3>1 DEF GapsDone, Goes, Returns
    <3>. QED
      BY <3>1, <3>2, GapsStay
  <2>8. CASE WriteCheckpoint
    <3>0. pc = "checkpoint" /\ kind # "usdm_trades"
      BY <2>0, <2>8 DEF WriteCheckpoint, FlowTypes, GapKinds
    <3>1. /\ checkpoint' = batch /\ Returns /\ UNCHANGED <<kind, batch, gapFiles>>
      BY <2>0, <2>8, <3>0, NextStep DEF WriteCheckpoint, commitVars
    <3>2. kind \in GapKinds => Starts(GapsIn(batch)) \subseteq Starts(gapFiles)
      BY <3>0 DEF GapInv, GapsDone, GapKinds
    <3>3. ~GapsDone'
      BY <3>1 DEF Returns, GapsDone
    <3>. QED
      BY <3>1, <3>2, <3>3 DEF GapInv, CheckpointHasGaps, GapKinds, Starts, GapsIn, Times
  <2>. QED
    BY <2>1, <2>2, <2>3, <2>4, <2>5, <2>6, <2>7, <2>8 DEF Next, Step
<1>3. GapInv => CheckpointHasGaps
  BY DEF GapInv
<1>. QED
  BY <1>1, <1>2, <1>3, TypeCorrect, PTL DEF Spec

-----------------------------------------------------------------------------
(* The files and the manifest                                              *)

\* File f, with content c, holds partition p of batch b.
Holds(f, c, p, b) ==
  CASE kind \in OneFile -> f = <<p, b>> /\ c.rows = b
    [] kind = "oi"      -> f = <<p, c.rows>> /\ In(b, p) \subseteq c.rows
    [] OTHER            -> f = <<p>> /\ c.rows = In(b, p)

\* The files a commit has written are there, one for each partition it is through with.
MadeInv ==
  pc = "parquet" \/ Written =>
    /\ \A m \in made : files[m[1]] = m[2] /\ \E p \in AllParts \ todo : Holds(m[1], m[2], p, batch)
    /\ \A p \in AllParts \ todo : \E m \in made : Holds(m[1], m[2], p, batch)

\* A file that is not replaced is named after its rows; Bybit's holds its archive.
NameInv ==
  /\ ~Replaced => \A f \in DOMAIN files : \E p \in Range(PartOf) \cup {0} : f = <<p, files[f].rows>>
  /\ kind = "bybit_trades" =>
       /\ \A f \in DOMAIN files :
            \E p \in Range(PartOf) : f = <<p>> /\ {p} \in DOMAIN raw /\ files[f].rows = raw[{p}]
       /\ RawStored => Parts(batch) \in DOMAIN raw /\ raw[Parts(batch)] = batch

\* A manifest row names files that are there, with the hashes they have unless they are
\* replaced, one for each partition of its batch.
PartsOf(b) == IF Partitioned THEN Parts(b) ELSE {0}
RowSound(row) ==
  /\ \A q \in row.refs : q[1] \in DOMAIN files /\ (~Replaced => files[q[1]] = q[2])
                         /\ \E p \in PartsOf(row.raw) : Holds(q[1], q[2], p, row.raw)
  /\ \A p \in PartsOf(row.raw) : \E q \in row.refs : Holds(q[1], q[2], p, row.raw)
  /\ kind = "bybit_trades" => Parts(row.raw) \in DOMAIN raw /\ raw[Parts(row.raw)] = row.raw
RowInv == \A row \in Range(manifest) : RowSound(row)

\* The order of the steps, as the manifest and the checkpoint show it.
Raws == {row.raw : row \in Range(manifest)}
OrderInv ==
  /\ InManifest => batch \in Raws
  /\ checkpoint \in Raws \cup {NoBatch} \cup (IF InPlace THEN {Torn} ELSE {})
  /\ done \subseteq Raws

FilesInv == MadeInv /\ NameInv /\ RowInv /\ OrderInv

\* The file a write leaves holds its partition of the batch.
LEMMA WriteHolds ==
  ASSUME TypeInv, NameInv, NEW p, NEW rows \in (IF kind = "oi" THEN Merged(p) ELSE {batch}), NEW f, NEW new,
         pc = "parquet", Writes(p, Own(p, rows), f, new)
  PROVE  /\ Holds(f, new, p, batch)
         /\ ~Replaced => f = <<p, new.rows>>
         /\ Replaced => f = <<p>> /\ new.rows = In(batch, p)
<1>1. p \in todo /\ f = FileName(p, Own(p, rows)) /\ new = Content(f, Own(p, rows))
  BY DEF Writes
<1>2. kind \in Kinds /\ todo \subseteq AllParts
  BY DEF TypeInv, FlowTypes, TodoInv
<1>3. kind # "oi" => rows = batch
  OBVIOUS
<1>4. CASE Replaced
  BY <1>1, <1>3, <1>4 DEF FileName, Own, Content, Kept, Holds, Replaced, OneFile
<1>5. CASE ~Replaced
  <2>1. f = <<p, rows>> /\ Own(p, rows) = rows
    BY <1>1, <1>5 DEF FileName, Own
  <2>2. new.rows = rows
    <3>1. CASE f \in DOMAIN files
      <4>1. new = files[f]
        BY <1>1, <1>5, <3>1 DEF Content, Kept
      <4>2. PICK o \in Range(PartOf) \cup {0} : f = <<o, files[f].rows>>
        BY <1>5, <3>1 DEF NameInv
      <4>. QED
        BY <2>1, <4>1, <4>2
    <3>2. CASE f \notin DOMAIN files
      BY <1>1, <2>1, <3>2 DEF Content, Kept
    <3>. QED
      BY <3>1, <3>2
  <2>3. kind = "oi" => In(batch, p) \subseteq rows
    BY MergedIs
  <2>4. kind \in OneFile \/ kind = "oi"
    BY <1>2, <1>5, CommitAssumption DEF Replaced, OneFile
  <2>. QED
    BY <1>3, <1>5, <2>1, <2>2, <2>3, <2>4 DEF Holds, OneFile
<1>. QED
  BY <1>4, <1>5

\* A batch of one partition is that partition of itself.
LEMMA OnePart ==
  ASSUME NEW b, NEW p, Parts(b) = {p}
  PROVE  In(b, p) = b
BY DEF In, Parts, Times

\* A manifest row stays sound when files and archives are only added.
LEMMA RowKept ==
  ASSUME NEW row, RowSound(row), kind' = kind, DOMAIN files \subseteq DOMAIN files',
         ~Replaced => \A n \in DOMAIN files : files'[n] = files[n],
         kind = "bybit_trades" => \A n \in DOMAIN raw : n \in DOMAIN raw' /\ raw'[n] = raw[n]
  PROVE  RowSound(row)'
<1>1. ASSUME NEW g, NEW c, NEW o, NEW b PROVE Holds(g, c, o, b)' <=> Holds(g, c, o, b)
  BY DEF Holds, OneFile, In
<1>2. Replaced' = Replaced /\ PartsOf(row.raw)' = PartsOf(row.raw)
  BY DEF Replaced, PartsOf, Partitioned, Parts, Times
<1>3. ASSUME NEW q \in row.refs
      PROVE  q[1] \in DOMAIN files' /\ (~Replaced => files'[q[1]] = q[2])
             /\ \E p \in PartsOf(row.raw) : Holds(q[1], q[2], p, row.raw)'
  BY <1>1 DEF RowSound
<1>4. ASSUME NEW p \in PartsOf(row.raw) PROVE \E q \in row.refs : Holds(q[1], q[2], p, row.raw)'
  BY <1>1 DEF RowSound
<1>5. kind = "bybit_trades" => Parts(row.raw) \in DOMAIN raw' /\ raw'[Parts(row.raw)] = row.raw
  BY DEF RowSound
<1>. QED
  BY <1>2, <1>3, <1>4, <1>5 DEF RowSound

\* The names and the rows, when no file and no manifest row is written.
LEMMA NamesQuiet ==
  ASSUME NameInv, RowInv, UNCHANGED <<kind, files, manifest>>,
         kind = "bybit_trades" =>
           /\ \A n \in DOMAIN raw : n \in DOMAIN raw' /\ raw'[n] = raw[n]
           /\ RawStored' => Parts(batch') \in DOMAIN raw' /\ raw'[Parts(batch')] = batch'
  PROVE  NameInv' /\ RowInv'
<1>1. NameInv'
  <2>1. kind = "bybit_trades" =>
          \A f \in DOMAIN files : \E p \in Range(PartOf) : f = <<p>> /\ {p} \in DOMAIN raw' /\ files[f].rows = raw'[{p}]
    BY DEF NameInv
  <2>. QED
    BY <2>1 DEF NameInv, Replaced, Parts, Times
<1>2. RowInv'
  <2>1. ASSUME NEW row \in Range(manifest) PROVE RowSound(row)'
    BY RowKept DEF RowInv
  <2>. QED
    BY <2>1 DEF RowInv
<1>. QED
  BY <1>1, <1>2

\* A commit that raises: what it has made is forgotten, and its checkpoint may be torn.
LEMMA FilesRaise ==
  ASSUME FilesInv, Raise, UNCHANGED <<kind, files, manifest, done>>, kind # "funding" => raw' = raw,
         checkpoint' = checkpoint \/ (InPlace /\ checkpoint' = Torn)
  PROVE  FilesInv'
<1>1. pc' = "idle"
  BY DEF Raise
<1>2. MadeInv' /\ ~RawStored' /\ ~InManifest'
  BY <1>1 DEF MadeInv, Written, RawStored, InManifest
<1>3. NameInv' /\ RowInv'
  BY <1>2, NamesQuiet DEF FilesInv
<1>4. OrderInv'
  BY <1>2 DEF FilesInv, OrderInv, Raws, InPlace
<1>. QED
  BY <1>2, <1>3, <1>4 DEF FilesInv

\* The batch that has been recorded is in the manifest.
LEMMA RecordedIs ==
  ASSUME TypeInv, FilesInv, pc = "manifest", Recorded
  PROVE  batch \in Raws
<1>1. CASE kind = "oi"
  BY <1>1 DEF Recorded, Raws
<1>2. CASE kind \in {"month", "tail", "rows"}
  <2>1. PICK m \in made : TRUE
    BY DEF TypeInv, TodoInv, Written
  <2>2. PICK p : Holds(m[1], m[2], p, batch)
    BY DEF FilesInv, MadeInv, Written
  <2>3. m[2].rows = batch
    BY <1>2, <2>2 DEF Holds, OneFile
  <2>4. m[2] \in Hashes
    BY <1>2 DEF Recorded
  <2>5. PICK row \in Range(manifest) : \E q \in row.refs : q[2] = m[2]
    BY <2>4 DEF Hashes
  <2>6. PICK q \in row.refs : q[2] = m[2]
    BY <2>5
  <2>7. PICK o : Holds(q[1], q[2], o, row.raw)
    BY <2>6 DEF FilesInv, RowInv, RowSound
  <2>8. q[2].rows = row.raw
    BY <1>2, <2>7 DEF Holds, OneFile
  <2>. QED
    BY <2>3, <2>6, <2>8 DEF Raws
<1>. QED
  BY <1>1, <1>2 DEF Recorded

\* The files, the manifest rows and the checkpoint, after a write of a Parquet file.
LEMMA FilesWrite ==
  ASSUME TypeInv, FilesInv, NEW p, NEW rows \in (IF kind = "oi" THEN Merged(p) ELSE {batch}), NEW f, NEW new,
         pc = "parquet", Writes(p, Own(p, rows), f, new)
  PROVE  FilesInv'
<1>0. FlowTypes /\ FileTypes /\ TodoInv /\ kind \in Kinds /\ batch \in BatchesOf[kind]
      /\ MadeInv /\ NameInv /\ RowInv /\ OrderInv
  BY DEF TypeInv, FlowTypes, FilesInv
<1>1. /\ DOMAIN files' = DOMAIN files \cup {f} /\ files'[f] = new
      /\ \A n \in DOMAIN files : n # f => files'[n] = files[n]
      /\ ~Replaced => \A n \in DOMAIN files : files'[n] = files[n]
  <2>1. TypeInv /\ pc = "parquet" /\ Writes(p, Own(p, rows), f, new)
        /\ rows \in (IF kind = "oi" THEN Merged(p) ELSE {batch})
    OBVIOUS
  <2>2. WriteEffect(p, rows, f, new)
    BY <2>1, WritesTypes
  <2>. QED
    BY <2>2 DEF WriteEffect
<1>2. /\ Holds(f, new, p, batch)
      /\ ~Replaced => f = <<p, new.rows>>
      /\ Replaced => f = <<p>> /\ new.rows = In(batch, p)
  BY <1>0, WriteHolds
<1>3. /\ p \in todo /\ made' = made \cup {<<f, new>>} /\ todo' = todo \ {p}
      /\ UNCHANGED <<kind, batch, raw, manifest, checkpoint>>
      /\ (todo = {p} /\ pc' = "manifest") \/ pc' = pc
      /\ UNCHANGED done
  BY DEF Writes, Goes
<1>4. p \in AllParts /\ todo \subseteq AllParts /\ AllParts' = AllParts /\ p \in Range(PartOf) \cup {0}
  BY <1>0, <1>3 DEF TodoInv, AllParts, Partitioned, FlowTypes
<1>5. ASSUME NEW g, NEW c, NEW o, NEW b PROVE Holds(g, c, o, b)' <=> Holds(g, c, o, b)
  BY <1>3 DEF Holds, OneFile, In
<1>6. MadeInv'
  <2>1. ASSUME NEW m \in made'
        PROVE  files'[m[1]] = m[2] /\ \E o \in AllParts \ todo' : Holds(m[1], m[2], o, batch)
    <3>1. CASE m = <<f, new>>
      BY <1>1, <1>2, <1>3, <1>4, <3>1
    <3>2. CASE m \in made
      <4>1. files[m[1]] = m[2] /\ \E o \in AllParts \ todo : Holds(m[1], m[2], o, batch)
        BY <1>0, <3>2 DEF MadeInv
      <4>2. PICK o \in AllParts \ todo : Holds(m[1], m[2], o, batch)
        BY <4>1
      <4>3. m[1] \in DOMAIN files
        BY <1>0, <3>2 DEF FileTypes
      <4>4. Replaced => m[1] = <<o>>
        BY <4>2 DEF Holds, Replaced, OneFile
      <4>5. Replaced => m[1] # f
        BY <1>2, <1>3, <4>4
      <4>. QED
        BY <1>1, <1>3, <4>1, <4>2, <4>3, <4>5
    <3>. QED
      BY <1>3, <3>1, <3>2
  <2>2. ASSUME NEW o \in AllParts \ todo' PROVE \E m \in made' : Holds(m[1], m[2], o, batch)
    <3>1. CASE o = p
      <4>1. <<f, new>> \in made' /\ <<f, new>>[1] = f /\ <<f, new>>[2] = new
        BY <1>3
      <4>. QED
        BY <1>2, <3>1, <4>1
    <3>2. CASE o # p
      <4>1. PICK m \in made : Holds(m[1], m[2], o, batch)
        BY <1>0, <1>3, <2>2, <3>2 DEF MadeInv
      <4>. QED
        BY <1>3, <4>1
    <3>. QED
      BY <3>1, <3>2
  <2>. QED
    BY <1>3, <1>4, <2>1, <2>2 DEF MadeInv, Holds, OneFile, In
<1>7. NameInv'
  <2>1. ASSUME ~Replaced, NEW g \in DOMAIN files' PROVE \E o \in Range(PartOf) \cup {0} : g = <<o, files'[g].rows>>
    <3>1. CASE g = f
      BY <1>1, <1>2, <1>4, <2>1, <3>1
    <3>2. CASE g \in DOMAIN files
      BY <1>0, <1>1, <2>1, <3>2 DEF NameInv
    <3>. QED
      BY <1>1, <3>1, <3>2
  <2>2. ASSUME kind = "bybit_trades"
        PROVE  /\ \A g \in DOMAIN files' :
                    \E o \in Range(PartOf) : g = <<o>> /\ {o} \in DOMAIN raw /\ files'[g].rows = raw[{o}]
               /\ Parts(batch) \in DOMAIN raw /\ raw[Parts(batch)] = batch
    <3>1. PICK o \in Range(PartOf) : Parts(batch) = {o}
      BY <1>0, <2>2, BatchIs
    <3>2. Parts(batch) \in DOMAIN raw /\ raw[Parts(batch)] = batch
      BY <1>0, <2>2 DEF NameInv, RawStored
    <3>3. p = o /\ In(batch, p) = batch
      BY <1>4, <2>2, <3>1, OnePart DEF AllParts, Partitioned
    <3>4. f = <<o>> /\ new.rows = raw[{o}]
      BY <1>2, <2>2, <3>1, <3>2, <3>3 DEF Replaced
    <3>5. ASSUME NEW g \in DOMAIN files'
          PROVE  \E x \in Range(PartOf) : g = <<x>> /\ {x} \in DOMAIN raw /\ files'[g].rows = raw[{x}]
      <4>1. CASE g = f
        BY <1>1, <3>1, <3>2, <3>4, <4>1
      <4>2. CASE g \in DOMAIN files /\ g # f
        BY <1>0, <1>1, <2>2, <4>2 DEF NameInv
      <4>. QED
        BY <1>1, <4>1, <4>2
    <3>. QED
      BY <3>2, <3>5
  <2>. QED
    BY <1>3, <2>1, <2>2 DEF NameInv, Replaced, Parts, Times
<1>8. RowInv'
  <2>1. ASSUME NEW row \in Range(manifest) PROVE RowSound(row)'
    BY <1>0, <1>1, <1>3, RowKept DEF RowInv
  <2>. QED
    BY <1>3, <2>1 DEF RowInv
<1>9. OrderInv'
  BY <1>0, <1>3 DEF OrderInv, InManifest, Raws, InPlace
<1>. QED
  BY <1>6, <1>7, <1>8, <1>9 DEF FilesInv

\* What is made is in place when nothing is made yet, and while it is not written.
LEMMA MadeStart ==
  ASSUME todo' = AllParts', made' = {}
  PROVE  MadeInv'
BY DEF MadeInv

\* A step that leaves the batch, the files and what was made of it alone.
LEMMA MadeStays ==
  ASSUME MadeInv, UNCHANGED <<kind, batch, todo, made, files>>, pc = "parquet" \/ Written
  PROVE  MadeInv'
<1>1. AllParts' = AllParts
  BY DEF AllParts, Partitioned
<1>. QED
  BY <1>1 DEF MadeInv, Holds, OneFile, In

\* A record of what has been made is sound.
LEMMA RowMade ==
  ASSUME TypeInv, FilesInv, pc = "manifest"
  PROVE  RowSound([raw |-> batch, refs |-> made])
<1>. DEFINE row == [raw |-> batch, refs |-> made]
<1>0. row.raw = batch /\ row.refs = made
  OBVIOUS
<1>. HIDE DEF row
<1>1. todo = {} /\ Written /\ FileTypes
  BY DEF TypeInv, TodoInv, Written
<1>2. AllParts = PartsOf(batch)
  BY DEF AllParts, PartsOf
<1>3. \A m \in made : m[1] \in DOMAIN files /\ files[m[1]] = m[2]
                      /\ \E p \in PartsOf(batch) : Holds(m[1], m[2], p, batch)
  BY <1>1, <1>2 DEF FilesInv, MadeInv, FileTypes
<1>4. \A p \in PartsOf(batch) : \E m \in made : Holds(m[1], m[2], p, batch)
  BY <1>1, <1>2 DEF FilesInv, MadeInv
<1>5. kind = "bybit_trades" => Parts(batch) \in DOMAIN raw /\ raw[Parts(batch)] = batch
  BY DEF FilesInv, NameInv, RawStored
<1>6. RowSound(row)
  BY <1>0, <1>3, <1>4, <1>5 DEF RowSound
<1>. QED
  BY <1>6 DEF row

\* The files and the records are in place in every state.
THEOREM FilesInductive == Spec => []FilesInv
<1>1. Init => FilesInv
  <2>. SUFFICES ASSUME Init PROVE FilesInv
    OBVIOUS
  <2>1. pc = "idle" /\ files = <<>> /\ manifest = <<>> /\ checkpoint = NoBatch /\ done = {}
    BY DEF Init
  <2>2. Range(manifest) = {} /\ DOMAIN files = {}
    BY <2>1 DEF Range
  <2>3. MadeInv
    BY <2>1 DEF MadeInv, Written
  <2>4. NameInv
    BY <2>1, <2>2 DEF NameInv, RawStored
  <2>5. RowInv
    BY <2>2 DEF RowInv
  <2>6. OrderInv
    BY <2>1 DEF OrderInv, InManifest
  <2>. QED
    BY <2>3, <2>4, <2>5, <2>6 DEF FilesInv
<1>2. TypeInv /\ TypeInv' /\ FilesInv /\ [Next]_vars => FilesInv'
  <2>. SUFFICES ASSUME TypeInv, TypeInv', FilesInv, [Next]_vars PROVE FilesInv'
    OBVIOUS
  <2>0. FlowTypes /\ RawTypes /\ FileTypes /\ TodoInv /\ kind \in Kinds
        /\ MadeInv /\ NameInv /\ RowInv /\ OrderInv
    BY DEF TypeInv, FlowTypes, FilesInv
  <2>1. ASSUME pc # "idle" PROVE batch \in BatchesOf[kind]
    BY <2>0, <2>1 DEF FlowTypes
  <2>2. ASSUME NEW b \in Batches, Begin(b) PROVE FilesInv'
    <3>1. pc' = Order[1] /\ UNCHANGED <<kind, raw, files, manifest, checkpoint, done>>
      BY <2>2 DEF Begin, diskVars
    <3>2. pc' = (IF kind \in RawFirst THEN "raw" ELSE "validate")
      BY <2>0, <3>1, NextStep
    <3>3. MadeInv' /\ ~RawStored' /\ ~InManifest'
      BY <3>1, <3>2 DEF MadeInv, Written, RawStored, InManifest
    <3>4. NameInv' /\ RowInv'
      BY <2>0, <3>1, <3>3, NamesQuiet
    <3>5. OrderInv'
      BY <2>0, <3>1, <3>3 DEF OrderInv, Raws, InPlace
    <3>. QED
      BY <3>3, <3>4, <3>5 DEF FilesInv
  <2>3. CASE Validate
    <3>1. /\ pc = "validate" /\ UNCHANGED <<kind, batch, todo, made, raw, files, manifest, checkpoint>>
          /\ Goes(CASE kind \in RawFirst -> "parquet" [] kind = "rows" -> "gaps" [] OTHER -> "raw")
      BY <2>0, <2>3, NextStep DEF Validate, commitVars, diskVars
    <3>2. pc' = (CASE kind \in RawFirst -> "parquet" [] kind = "rows" -> "gaps" [] OTHER -> "raw") /\ done' = done
      BY <3>1 DEF Goes
    <3>3. MadeInv'
      BY <2>0, <3>1, MadeStart DEF TodoInv, Unwritten, AllParts, Partitioned
    <3>4. ~InManifest' /\ (kind = "bybit_trades" => RawStored)
      BY <3>1, <3>2 DEF InManifest, RawStored, RawFirst
    <3>5. NameInv' /\ RowInv'
      BY <2>0, <3>1, <3>4, NamesQuiet DEF NameInv
    <3>6. OrderInv'
      BY <2>0, <3>1, <3>2, <3>4 DEF OrderInv, Raws, InPlace
    <3>. QED
      BY <3>3, <3>5, <3>6 DEF FilesInv
  <2>4. CASE RejectBatch \/ UsdmRepeatRaises
    <3>1. Raise /\ UNCHANGED <<kind, files, manifest, done, raw, checkpoint>>
      BY <2>4 DEF RejectBatch, UsdmRepeatRaises, diskVars
    <3>. QED
      BY <3>1, FilesRaise
  <2>5. CASE WriteRaw
    <3>1. /\ pc = "raw" /\ UNCHANGED <<kind, todo, made, files, manifest, checkpoint>>
          /\ Goes(IF kind \in RawFirst THEN "validate" ELSE "parquet")
      BY <2>0, <2>5, NextStep DEF WriteRaw
    <3>2. pc' = (IF kind \in RawFirst THEN "validate" ELSE "parquet") /\ done' = done
      BY <3>1 DEF Goes
    <3>3. /\ RawName(batch') = RawName(batch)
          /\ kind # "bybit_trades" => batch' = batch
          /\ kind # "funding" => RawName(batch) \in DOMAIN raw' /\ raw'[RawName(batch)] = batch'
          /\ \A n \in DOMAIN raw : n \in DOMAIN raw' /\ (kind # "funding" => raw'[n] = raw[n])
      BY <2>0, <2>5, <3>1, RawReused
    <3>4. AllParts' = AllParts
      BY <3>1, <3>3 DEF AllParts, Partitioned, RawName
    <3>5. MadeInv'
      BY <2>0, <3>1, <3>4, MadeStart DEF TodoInv, Unwritten
    <3>6. ~InManifest'
      BY <3>2 DEF InManifest
    <3>7. kind = "bybit_trades" => Parts(batch') \in DOMAIN raw' /\ raw'[Parts(batch')] = batch'
      BY <3>3 DEF RawName
    <3>8. NameInv' /\ RowInv'
      BY <2>0, <3>1, <3>3, <3>7, NamesQuiet
    <3>9. OrderInv'
      BY <2>0, <3>1, <3>2, <3>6 DEF OrderInv, Raws, InPlace
    <3>. QED
      BY <3>5, <3>8, <3>9 DEF FilesInv
  <2>6. CASE RecordGap \/ LeaseRefused \/ UNCHANGED vars
    <3>1. UNCHANGED <<kind, pc, batch, todo, made, raw, files, manifest, checkpoint, done>>
      BY <2>6 DEF RecordGap, LeaseRefused, vars, commitVars, diskVars
    <3>2. MadeInv'
      BY <2>0, <3>1, MadeStays DEF MadeInv, Written
    <3>3. NameInv' /\ RowInv'
      BY <2>0, <3>1, NamesQuiet DEF NameInv, RawStored
    <3>4. OrderInv'
      BY <2>0, <3>1 DEF OrderInv, Raws, InPlace, InManifest
    <3>. QED
      BY <3>2, <3>3, <3>4 DEF FilesInv
  <2>7. CASE GapsRecorded
    <3>0. pc = "gaps" /\ kind \in GapKinds
      BY <2>0, <2>7 DEF GapsRecorded, FlowTypes
    <3>1. /\ UNCHANGED <<kind, batch, todo, made, raw, files, manifest, checkpoint>>
          /\ Goes(IF kind = "month" THEN "checkpoint" ELSE "raw")
      BY <2>0, <2>7, <3>0, NextStep DEF GapsRecorded, commitVars, diskVars
    <3>2. pc' = (IF kind = "month" THEN "checkpoint" ELSE "raw") /\ done' = done
      BY <3>1 DEF Goes
    <3>3. MadeInv'
      <4>1. CASE kind = "month"
        BY <2>0, <3>0, <3>1, <4>1, MadeStays DEF Written
      <4>2. CASE kind # "month"
        BY <3>1, <3>2, <4>2 DEF MadeInv, Written
      <4>. QED
        BY <4>1, <4>2
    <3>4. kind # "bybit_trades" /\ (InManifest' => InManifest)
      BY <3>0, <3>1, <3>2 DEF InManifest, GapKinds
    <3>5. NameInv' /\ RowInv'
      BY <2>0, <3>1, <3>4, NamesQuiet
    <3>6. OrderInv'
      BY <2>0, <3>1, <3>2, <3>4 DEF OrderInv, Raws, InPlace
    <3>. QED
      BY <3>3, <3>5, <3>6 DEF FilesInv
  <2>8. CASE WriteParquet
    <3>1. PICK p \in todo : \E rows \in (IF kind = "oi" THEN Merged(p) ELSE {batch}) :
                              \E f, new : Writes(p, Own(p, rows), f, new)
      BY <2>0, <2>8, ParquetIs
    <3>rows. PICK rows \in (IF kind = "oi" THEN Merged(p) ELSE {batch}) : \E f, new : Writes(p, Own(p, rows), f, new)
      BY <3>1
    <3>2. PICK f, new : Writes(p, Own(p, rows), f, new)
      BY <3>rows
    <3>3. pc = "parquet"
      BY <2>8 DEF WriteParquet
    <3>. QED
      BY <3>2, <3>3, FilesWrite
  <2>9. CASE AppendManifest
    <3>1. /\ pc = "manifest" /\ UNCHANGED <<kind, batch, todo, made, raw, files, checkpoint>>
          /\ manifest' = (IF Recorded THEN manifest ELSE Append(manifest, [raw |-> batch, refs |-> made]))
          /\ (CASE kind = "month" -> Goes("gaps") [] kind = "usdm_trades" -> Returns [] OTHER -> Goes("checkpoint"))
      BY <2>0, <2>9, NextStep DEF AppendManifest, commitVars
    <3>2. done' \subseteq done \cup {batch} /\ pc' # "parquet"
      BY <3>1 DEF Goes, Returns
    <3>3. MadeInv'
      BY <2>0, <3>1, MadeStays DEF Written
    <3>. DEFINE row == [raw |-> batch, refs |-> made]
                S   == [raw : BatchesOf[kind], refs : SUBSET ((DOMAIN files) \X Contents)]
    <3>4. row.raw = batch /\ RowSound(row)
      BY <3>1, RowMade
    <3>5. manifest \in Seq(S) /\ row \in S
      BY <2>0, <2>1, <3>1 DEF FileTypes
    <3>6. manifest' = (IF Recorded THEN manifest ELSE Append(manifest, row))
      BY <3>1
    <3>. HIDE DEF row, S
    <3>7. \/ Recorded /\ Range(manifest') = Range(manifest)
          \/ Range(manifest') = Range(manifest) \cup {row}
      BY <3>5, <3>6, RangeAppend
    <3>8. batch \in Raws' /\ Raws \subseteq Raws'
      <4>1. CASE Recorded
        BY <3>1, <3>6, <4>1, RecordedIs DEF Raws
      <4>2. CASE ~Recorded
        <5>1. Range(manifest') = Range(manifest) \cup {row}
          BY <3>5, <3>6, <4>2, RangeAppend
        <5>. QED
          BY <3>4, <5>1 DEF Raws
      <4>. QED
        BY <4>1, <4>2
    <3>9. RowInv'
      <4>1. ASSUME NEW x \in Range(manifest') PROVE RowSound(x)'
        <5>1. RowSound(x)
          BY <2>0, <3>4, <3>7 DEF RowInv
        <5>. QED
          BY <3>1, <5>1, RowKept
      <4>. QED
        BY <4>1 DEF RowInv
    <3>10. NameInv'
      BY <2>0, <3>1 DEF NameInv, Replaced, RawStored, Parts, Times
    <3>11. OrderInv'
      BY <2>0, <3>1, <3>2, <3>8 DEF OrderInv, InPlace
    <3>. QED
      BY <3>3, <3>9, <3>10, <3>11 DEF FilesInv
  <2>10. CASE WriteCheckpoint
    <3>0. pc = "checkpoint" /\ kind # "usdm_trades"
      BY <2>0, <2>10 DEF WriteCheckpoint, FlowTypes, GapKinds
    <3>1. /\ checkpoint' = batch /\ Returns
          /\ UNCHANGED <<kind, batch, raw, files, manifest>>
      BY <2>0, <2>10, <3>0, NextStep DEF WriteCheckpoint, commitVars
    <3>2. pc' = "idle" /\ done' = done \cup {batch} /\ batch \in Raws
      BY <2>0, <3>0, <3>1 DEF Returns, OrderInv, InManifest
    <3>3. MadeInv' /\ ~InManifest' /\ ~RawStored'
      BY <3>2 DEF MadeInv, Written, InManifest, RawStored
    <3>4. NameInv' /\ RowInv'
      BY <2>0, <3>1, <3>3, NamesQuiet
    <3>5. OrderInv'
      BY <2>0, <3>1, <3>2, <3>3 DEF OrderInv, Raws, InPlace
    <3>. QED
      BY <3>3, <3>4, <3>5 DEF FilesInv
  <2>11. CASE CommitFails \/ Crash
    <3>1. /\ Raise /\ UNCHANGED <<kind, files, manifest, done>> /\ (kind # "funding" => raw' = raw)
          /\ checkpoint' = checkpoint \/ (InPlace /\ checkpoint' = Torn)
      BY <2>11 DEF CommitFails, Crash, diskVars, RawInPlace
    <3>. QED
      BY <3>1, FilesRaise
  <2>. QED
    BY <2>2, <2>3, <2>4, <2>5, <2>6, <2>7, <2>8, <2>9, <2>10, <2>11 DEF Next, Step
<1>. QED
  BY <1>1, <1>2, TypeCorrect, PTL DEF Spec

\* Every step a commit may be at is in its order.
LEMMA StepInOrder ==
  ASSUME FlowTypes
  PROVE  pc \in Range(Order) \cup {"idle"}
<1>. USE DEF FlowTypes, GapKinds
<1>. SUFFICES ASSUME pc # "idle" PROVE \E i \in DOMAIN Order : Order[i] = pc
  BY DEF Range
<1>1. CASE kind = "month"
  <2>1. DOMAIN Order = 1..6 /\ Order = MonthOrder
    BY <1>1 DEF Order, MonthOrder
  <2>. QED
    BY <1>1, <2>1 DEF MonthOrder
<1>2. CASE kind = "rows"
  <2>1. DOMAIN Order = 1..6 /\ Order = RowsOrder
    BY <1>2 DEF Order, RowsOrder
  <2>. QED
    BY <1>2, <2>1 DEF RowsOrder
<1>3. CASE kind \in {"tail", "bybit_trades"}
  <2>1. DOMAIN Order = 1..5 /\ Order = TailOrder
    BY <1>3 DEF Order, TailOrder, BybitOrder
  <2>. QED
    BY <1>3, <2>1 DEF TailOrder
<1>4. CASE kind \in {"oi", "funding"}
  <2>1. DOMAIN Order = 1..5 /\ Order = OiOrder
    BY <1>4 DEF Order, OiOrder, FundingOrder
  <2>. QED
    BY <1>4, <2>1 DEF OiOrder
<1>5. CASE kind = "usdm_trades"
  <2>1. DOMAIN Order = 1..4 /\ Order = UsdmOrder
    BY <1>5 DEF Order, UsdmOrder
  <2>. QED
    BY <1>5, <2>1 DEF UsdmOrder
<1>. QED
  BY <1>1, <1>2, <1>3, <1>4, <1>5, CommitAssumption

\* The variables have their types (TypeOK): every step a commit can be at is a step of
\* its order, every file and record is made of its dataset's batches, and no record is
\* without files.
THEOREM TypesHold == Spec => []TypeOK
<1>1. TypeInv /\ FilesInv => TypeOK
  <2>. SUFFICES ASSUME TypeInv, FilesInv PROVE TypeOK
    OBVIOUS
  <2>0. FlowTypes /\ RawTypes /\ StampTypes /\ FileTypes /\ RowInv
    BY DEF TypeInv, FilesInv
  <2>1. pc \in Range(Order) \cup {"idle"}
    BY <2>0, StepInOrder
  <2>2. stamp \in 0..MaxCommits
    BY <2>0, CommitAssumption DEF StampTypes, FlowTypes
  <2>3. \A p \in made : p[1] \in DOMAIN files /\ p[2] \in Contents
    BY <2>0 DEF FileTypes
  <2>4. ASSUME NEW row \in Range(manifest) PROVE row.raw \in BatchesOf[kind] /\ row.refs # {}
    <3>1. row.raw \in BatchesOf[kind]
      <4>. DEFINE S == [raw : BatchesOf[kind], refs : SUBSET ((DOMAIN files) \X Contents)]
      <4>1. manifest \in Seq(S)
        BY <2>0 DEF FileTypes
      <4>2. \A x \in S : x.raw \in BatchesOf[kind]
        OBVIOUS
      <4>. HIDE DEF S
      <4>. QED
        BY <2>4, <4>1, <4>2, RangeIn
    <3>2. PartsOf(row.raw) # {}
      BY <2>0, <3>1, BatchIs DEF PartsOf, FlowTypes
    <3>. QED
      BY <2>0, <2>4, <3>1, <3>2 DEF RowInv, RowSound
  <2>. QED
    BY <2>0, <2>1, <2>2, <2>3, <2>4 DEF TypeOK, FlowTypes, RawTypes, FileTypes
<1>. QED
  BY <1>1, TypeCorrect, FilesInductive, PTL

\* Every row of a batch that is in its manifest step is in a file.
LEMMA BatchIsStored ==
  ASSUME TypeInv, FilesInv, Written, kind # "funding"
  PROVE  batch \subseteq UNION {files[f].rows : f \in DOMAIN files}
<1>. SUFFICES ASSUME NEW r \in batch PROVE \E f \in DOMAIN files : r \in files[f].rows
  OBVIOUS
<1>0. kind \in Kinds /\ todo = {} /\ FileTypes /\ MadeInv
  BY DEF TypeInv, FlowTypes, TodoInv, FilesInv
<1>1. PICK p \in AllParts : kind \notin OneFile => r \in In(batch, p)
  <2>1. CASE Partitioned
    <3>1. PartOf[r[1]] \in Parts(batch) /\ r \in In(batch, PartOf[r[1]])
      BY DEF Parts, Times, In
    <3>. QED
      BY <2>1, <3>1 DEF AllParts
  <2>2. CASE ~Partitioned
    BY <1>0, <2>2, CommitAssumption DEF AllParts, Partitioned, OneFile
  <2>. QED
    BY <2>1, <2>2
<1>2. PICK m \in made : Holds(m[1], m[2], p, batch)
  BY <1>0, <1>1 DEF MadeInv
<1>3. m[1] \in DOMAIN files /\ files[m[1]] = m[2]
  BY <1>0, <1>2 DEF MadeInv, FileTypes
<1>4. r \in m[2].rows
  BY <1>1, <1>2 DEF Holds, OneFile
<1>. QED
  BY <1>3, <1>4

\* The log that the files, the manifest and the checkpoint are.
Rows == {files[f].rows : f \in DOMAIN files}
LogStored    == IF IsLog THEN UNION Rows ELSE {}
LogCommitted == IF IsLog THEN Raws ELSE {}
LogMark      == IF IsLog /\ checkpoint # Torn THEN checkpoint ELSE NoBatch

\* A write of a Parquet file takes no row away.
LEMMA RowsGrow ==
  ASSUME TypeInv, FilesInv, FilesInv', WriteParquet, kind # "funding"
  PROVE  UNION Rows \subseteq UNION Rows'
<1>0. TypeInv /\ kind \in Kinds /\ NameInv /\ NameInv'
  BY DEF TypeInv, FlowTypes, FilesInv
<1>1. PICK p \in todo : \E rows \in (IF kind = "oi" THEN Merged(p) ELSE {batch}) :
                          \E f, new : Writes(p, Own(p, rows), f, new)
  BY <1>0, ParquetIs
<1>rows. PICK rows \in (IF kind = "oi" THEN Merged(p) ELSE {batch}) : \E f, new : Writes(p, Own(p, rows), f, new)
  BY <1>1
<1>2. PICK f, new : Writes(p, Own(p, rows), f, new)
  BY <1>rows
<1>3. pc = "parquet" /\ UNCHANGED <<kind, raw>>
  BY DEF WriteParquet
<1>4. /\ DOMAIN files' = DOMAIN files \cup {f} /\ files'[f] = new
      /\ \A n \in DOMAIN files : n # f => files'[n] = files[n]
      /\ new \in Contents /\ stamp' \in Nat /\ stamp' <= begun
      /\ ~Kept(f) => new.rows = Own(p, rows)
      /\ ~Replaced => \A n \in DOMAIN files : files'[n] = files[n]
  <2>1. WriteEffect(p, rows, f, new)
    BY <1>0, <1>2, <1>3, WritesTypes
  <2>. QED
    BY <2>1 DEF WriteEffect
<1>5. ASSUME NEW n \in DOMAIN files PROVE n \in DOMAIN files' /\ files'[n].rows = files[n].rows
  <2>1. CASE ~Replaced
    BY <1>4, <2>1
  <2>2. CASE Replaced
    <3>1. kind = "bybit_trades"
      BY <2>2 DEF Replaced
    <3>2. PICK o \in Range(PartOf) : n = <<o>> /\ files[n].rows = raw[{o}]
      BY <1>0, <3>1 DEF NameInv
    <3>3. n \in DOMAIN files'
      BY <1>4
    <3>4. PICK x \in Range(PartOf) : n = <<x>> /\ files'[n].rows = raw[{x}]
      BY <1>0, <1>3, <3>1, <3>3 DEF NameInv
    <3>. QED
      BY <3>2, <3>3, <3>4
  <2>. QED
    BY <2>1, <2>2
<1>. QED
  BY <1>5 DEF Rows

\* What is on disk is one atomic log (CommitsLikeALog): a Parquet file stores rows, a
\* manifest row commits a batch all of whose rows are stored, a checkpoint moves to a
\* committed batch or is lost, and every other step, a failure and a kill among them,
\* changes nothing.
THEOREM ImplementsLog == Spec => CommitsLikeALog
<1>1. Init => Log!Init
  <2>. SUFFICES ASSUME Init PROVE Log!Init
    OBVIOUS
  <2>1. files = <<>> /\ manifest = <<>> /\ checkpoint = NoBatch
    BY DEF Init
  <2>2. Range(manifest) = {} /\ DOMAIN files = {}
    BY <2>1 DEF Range
  <2>. QED
    BY <2>1, <2>2 DEF Log!Init
<1>2. TypeInv /\ FilesInv /\ FilesInv' /\ [Next]_vars => [Log!Next]_<<LogStored, LogCommitted, LogMark>>
  <2>. SUFFICES ASSUME TypeInv, FilesInv, FilesInv', [Next]_vars
                PROVE  Log!Next \/ UNCHANGED <<LogStored, LogCommitted, LogMark>>
    OBVIOUS
  <2>0. FlowTypes /\ kind \in Kinds /\ OrderInv
    BY DEF TypeInv, FlowTypes, FilesInv
  <2>1. kind' = kind
    BY DEF Next, Step, Begin, Validate, RejectBatch, WriteRaw, RecordGap, GapsRecorded, WriteParquet, UsdmRepeatRaises,
           AppendManifest, WriteCheckpoint, CommitFails, Crash, LeaseRefused, vars
  <2>2. CASE kind = "funding"
    BY <2>1, <2>2 DEF LogStored, LogCommitted, LogMark, IsLog
  <2>3. CASE kind # "funding"
    <3>0. IsLog /\ IsLog'
      BY <2>1, <2>3 DEF IsLog
    <3>1. ASSUME UNCHANGED <<files, manifest, checkpoint>>
          PROVE  UNCHANGED <<LogStored, LogCommitted, LogMark>>
      BY <3>0, <3>1 DEF LogStored, LogCommitted, LogMark, Rows, Raws, Torn, NoBatch
    <3>2. CASE WriteParquet
      <4>1. UNION Rows \subseteq UNION Rows'
        BY <2>3, <3>2, RowsGrow
      <4>2. UNCHANGED <<manifest, checkpoint>>
        BY <3>2 DEF WriteParquet
      <4>3. LogStored \subseteq LogStored' /\ UNCHANGED <<LogCommitted, LogMark>>
        BY <3>0, <4>1, <4>2 DEF LogStored, LogCommitted, LogMark, Raws, Torn, NoBatch
      <4>. QED
        BY <4>3 DEF Log!Next, Log!Store, LogStored, LogCommitted, LogMark, Rows, Raws
    <3>3. CASE AppendManifest
      <4>1. pc = "manifest" /\ UNCHANGED <<files, checkpoint>>
            /\ manifest' = (IF Recorded THEN manifest ELSE Append(manifest, [raw |-> batch, refs |-> made]))
        BY <3>3 DEF AppendManifest, commitVars
      <4>2. CASE Recorded
        BY <3>1, <4>1, <4>2
      <4>3. CASE ~Recorded
        <5>1. batch \in Batches /\ batch \subseteq LogStored
          BY <2>0, <2>3, <3>0, <4>1, BatchIs, BatchIsStored DEF Written, LogStored, FlowTypes, Rows
        <5>. DEFINE row == [raw |-> batch, refs |-> made]
                    S   == [raw : BatchesOf[kind], refs : SUBSET ((DOMAIN files) \X Contents)]
        <5>2. manifest \in Seq(S) /\ row \in S /\ row.raw = batch
          BY <2>0, <4>1 DEF TypeInv, FileTypes, FlowTypes
        <5>3. manifest' = Append(manifest, row)
          BY <4>1, <4>3
        <5>. HIDE DEF row, S
        <5>4. Range(manifest') = Range(manifest) \cup {row}
          BY <5>2, <5>3, RangeAppend
        <5>5. Raws' = Raws \cup {batch}
          BY <5>2, <5>4 DEF Raws
        <5>6. LogCommitted' = LogCommitted \cup {batch} /\ UNCHANGED <<LogStored, LogMark>>
          BY <3>0, <4>1, <5>5 DEF LogCommitted, LogStored, LogMark, Rows, Torn, NoBatch
        <5>. QED
          BY <5>1, <5>6 DEF Log!Next, Log!Commit, LogStored, LogCommitted, LogMark, Rows, Raws
      <4>. QED
        BY <4>2, <4>3
    <3>4. CASE WriteCheckpoint
      <4>1. pc = "checkpoint" /\ checkpoint' = batch /\ UNCHANGED <<files, manifest>>
        BY <3>4 DEF WriteCheckpoint
      <4>2. batch \in Raws
        BY <2>0, <4>1 DEF OrderInv, InManifest
      <4>3. UNCHANGED <<LogStored, LogCommitted>> /\ LogMark' \in LogCommitted \cup {NoBatch}
        BY <3>0, <4>1, <4>2 DEF LogStored, LogCommitted, LogMark, Rows, Raws, Torn, NoBatch
      <4>. QED
        BY <4>3 DEF Log!Next, Log!Checkpoint, Log!Forget, LogStored, LogCommitted, LogMark, Rows, Raws
    <3>5. CASE Crash
      <4>1. UNCHANGED <<files, manifest>> /\ (checkpoint' = checkpoint \/ checkpoint' = Torn)
        BY <3>5 DEF Crash
      <4>2. CASE checkpoint' = checkpoint
        BY <3>1, <4>1, <4>2
      <4>3. CASE checkpoint' = Torn
        <5>1. UNCHANGED <<LogStored, LogCommitted>> /\ LogMark' = NoBatch
          BY <3>0, <4>1, <4>3 DEF LogStored, LogCommitted, LogMark, Rows, Raws, Torn, NoBatch
        <5>. QED
          BY <5>1 DEF Log!Next, Log!Forget, LogStored, LogCommitted, LogMark, Rows, Raws
      <4>. QED
        BY <4>1, <4>2, <4>3
    <3>6. ASSUME NEW b \in Batches, Begin(b) PROVE UNCHANGED <<files, manifest, checkpoint>>
      BY <3>6 DEF Begin, diskVars
    <3>7. CASE Validate \/ RejectBatch \/ WriteRaw \/ RecordGap \/ GapsRecorded \/ UsdmRepeatRaises \/ CommitFails \/ LeaseRefused \/ UNCHANGED vars
      <4>1. UNCHANGED <<files, manifest, checkpoint>>
        BY <3>7 DEF Validate, RejectBatch, WriteRaw, RecordGap, GapsRecorded, UsdmRepeatRaises, CommitFails, LeaseRefused, vars, diskVars
      <4>. QED
        BY <3>1, <4>1
    <3>. QED
      BY <3>1, <3>2, <3>3, <3>4, <3>5, <3>6, <3>7 DEF Next, Step
  <2>. QED
    BY <2>2, <2>3
<1>3. [Log!Next]_<<LogStored, LogCommitted, LogMark>> =>
        [Log!Next]_<<IF IsLog THEN UNION {files[f].rows : f \in DOMAIN files} ELSE {},
                     IF IsLog THEN {row.raw : row \in Range(manifest)} ELSE {},
                     IF IsLog /\ checkpoint # Torn THEN checkpoint ELSE NoBatch>>
  BY DEF LogStored, LogCommitted, LogMark, Rows, Raws
<1>. QED
  BY <1>1, <1>2, <1>3, TypeCorrect, FilesInductive, PTL DEF Spec, CommitsLikeALog, Log!Spec

-----------------------------------------------------------------------------
(* What the catalog reads                                                   *)

\* Bybit: the latest row that names a file has its hash, once its commit has come so far.
Naming(f) == {i \in DOMAIN manifest : \E p \in manifest[i].refs : p[1] = f}
Settled(f) == Naming(f) # {} /\ \A q \in manifest[Max(Naming(f))].refs : q[1] = f => q[2] = files[f]
SettledInv ==
  kind = "bybit_trades" =>
    \A p \in Range(PartOf) : <<p>> \in DOMAIN files =>
      \/ Settled(<<p>>)
      \/ {p} \in pending /\ ~(pc = "checkpoint" /\ Parts(batch) = {p})
BusyInv == pc # "idle" => RawName(batch) \in pending
CatalogInv == BusyInv /\ SettledInv

\* A commit keeps its name.
LEMMA BusyStays ==
  ASSUME BusyInv, kind' = kind, pc # "idle", RawName(batch') = RawName(batch), pending \subseteq pending'
  PROVE  BusyInv'
BY DEF BusyInv, RawName, Parts, Times

\* A file stays settled while neither it nor the manifest changes.
LEMMA SettledQuiet ==
  ASSUME SettledInv, UNCHANGED <<kind, files, manifest>>, pending \subseteq pending',
         pc' = "checkpoint" => UNCHANGED <<pc, batch>>
  PROVE  SettledInv'
<1>. SUFFICES ASSUME kind = "bybit_trades", NEW p \in Range(PartOf), <<p>> \in DOMAIN files
              PROVE  Settled(<<p>>)' \/ ({p} \in pending' /\ ~(pc' = "checkpoint" /\ Parts(batch') = {p}))
  BY DEF SettledInv, Parts, Times
<1>1. Settled(<<p>>)' = Settled(<<p>>)
  BY DEF Settled, Naming
<1>2. Settled(<<p>>) \/ ({p} \in pending /\ ~(pc = "checkpoint" /\ Parts(batch) = {p}))
  BY DEF SettledInv
<1>. QED
  BY <1>1, <1>2

\* The rows that name a file, after one more row.
LEMMA NamingAfter ==
  ASSUME NEW S, manifest \in Seq(S), NEW row \in S, manifest' = Append(manifest, row), NEW f
  PROVE  /\ Len(manifest) \in Nat /\ DOMAIN manifest = 1..Len(manifest)
         /\ (\E q \in row.refs : q[1] = f) =>
              Max(Naming(f)') = Len(manifest) + 1 /\ Naming(f)' # {} /\ manifest'[Len(manifest) + 1] = row
         /\ ~(\E q \in row.refs : q[1] = f) => Naming(f)' = Naming(f)
         /\ \A i \in DOMAIN manifest : manifest'[i] = manifest[i]
<1>1. /\ Len(manifest) \in Nat /\ DOMAIN manifest = 1..Len(manifest)
      /\ DOMAIN manifest' = 1..(Len(manifest) + 1)
      /\ manifest'[Len(manifest) + 1] = row
      /\ \A i \in 1..Len(manifest) : manifest'[i] = manifest[i]
  BY AppendProperties, LenProperties
<1>2. Naming(f)' \subseteq 1..(Len(manifest) + 1)
  BY <1>1 DEF Naming
<1>3. ASSUME \E q \in row.refs : q[1] = f
      PROVE  Max(Naming(f)') = Len(manifest) + 1 /\ Naming(f)' # {}
  <2>1. Len(manifest) + 1 \in Naming(f)'
    BY <1>1, <1>3 DEF Naming
  <2>2. Naming(f)' \in SUBSET Nat /\ \A y \in Naming(f)' : y <= Len(manifest) + 1
    BY <1>1, <1>2
  <2>3. Max(Naming(f)') \in Naming(f)' /\ \A y \in Naming(f)' : y <= Max(Naming(f)')
    BY <1>1, <2>1, <2>2, MaxIsGreatest
  <2>. QED
    BY <1>1, <1>2, <2>1, <2>3
<1>4. ASSUME ~(\E q \in row.refs : q[1] = f)
      PROVE  Naming(f)' = Naming(f)
  BY <1>1, <1>4 DEF Naming
<1>. QED
  BY <1>1, <1>3, <1>4

\* A row that names a file is there, and the latest one is among them.
LEMMA LatestNames ==
  ASSUME NEW S, manifest \in Seq(S), NEW N, N \subseteq DOMAIN manifest, N # {}
  PROVE  Max(N) \in N
<1>1. DOMAIN manifest = 1..Len(manifest) /\ Len(manifest) \in Nat
  BY LenProperties
<1>2. N \in SUBSET Nat /\ \A y \in N : y <= Len(manifest)
  BY <1>1
<1>. QED
  BY <1>1, <1>2, MaxIsGreatest

\* Bybit's commits keep their names pending, and leave each file settled.
THEOREM CatalogInductive == Spec => []CatalogInv
<1>1. Init => CatalogInv
  BY DEF Init, CatalogInv, BusyInv, SettledInv
<1>2. TypeInv /\ FilesInv /\ CatalogInv /\ [Next]_vars => CatalogInv'
  <2>. SUFFICES ASSUME TypeInv, FilesInv, CatalogInv, [Next]_vars PROVE CatalogInv'
    OBVIOUS
  <2>0. FlowTypes /\ RawTypes /\ TodoInv /\ kind \in Kinds /\ BusyInv /\ SettledInv /\ MadeInv
    BY DEF TypeInv, FlowTypes, CatalogInv, FilesInv
  <2>1. ASSUME NEW b \in Batches, Begin(b) PROVE CatalogInv'
    <3>1. pc' = Order[1] /\ batch' = b /\ pending' = pending \cup {RawName(b)} /\ UNCHANGED <<kind, files, manifest>>
      BY <2>1 DEF Begin, diskVars
    <3>2. pc' # "checkpoint"
      BY <2>0, <3>1, NextStep
    <3>3. BusyInv'
      BY <3>1 DEF BusyInv, RawName
    <3>. QED
      BY <2>0, <3>1, <3>2, <3>3, SettledQuiet DEF CatalogInv
  <2>2. CASE Validate \/ GapsRecorded
    <3>1. /\ UNCHANGED <<kind, batch, files, manifest>> /\ pc \in {"validate", "gaps"}
          /\ pc = "validate" => Goes(CASE kind \in RawFirst -> "parquet" [] kind = "rows" -> "gaps" [] OTHER -> "raw")
          /\ pc = "gaps" => kind \in GapKinds /\ Goes(IF kind = "month" THEN "checkpoint" ELSE "raw")
      BY <2>0, <2>2, NextStep DEF Validate, GapsRecorded, commitVars, diskVars, FlowTypes
    <3>2. pending' = pending /\ (pc' = "checkpoint" => kind # "bybit_trades")
      BY <3>1 DEF Goes, RawFirst
    <3>3. BusyInv'
      BY <2>0, <3>1, <3>2, BusyStays
    <3>4. SettledInv'
      <4>1. CASE kind = "bybit_trades"
        BY <2>0, <3>1, <3>2, <4>1, SettledQuiet
      <4>2. CASE kind # "bybit_trades"
        BY <3>1, <4>2 DEF SettledInv
      <4>. QED
        BY <4>1, <4>2
    <3>. QED
      BY <3>3, <3>4 DEF CatalogInv
  <2>3. CASE RejectBatch \/ UsdmRepeatRaises \/ CommitFails \/ Crash
    <3>1. Raise /\ UNCHANGED <<kind, files, manifest, pending>>
      BY <2>3 DEF RejectBatch, UsdmRepeatRaises, CommitFails, Crash, diskVars
    <3>2. pc' = "idle"
      BY <3>1 DEF Raise
    <3>3. SettledInv'
      BY <2>0, <3>1, <3>2, SettledQuiet
    <3>. QED
      BY <3>2, <3>3 DEF CatalogInv, BusyInv
  <2>4. CASE WriteRaw
    <3>1. /\ pc = "raw" /\ UNCHANGED <<kind, files, manifest>>
          /\ Goes(IF kind \in RawFirst THEN "validate" ELSE "parquet")
      BY <2>0, <2>4, NextStep DEF WriteRaw
    <3>2. pc' # "checkpoint" /\ pending' = pending
      BY <3>1 DEF Goes
    <3>3. RawName(batch') = RawName(batch)
      BY <2>0, <2>4, <3>1, RawReused
    <3>4. BusyInv'
      BY <2>0, <3>1, <3>2, <3>3, BusyStays
    <3>5. SettledInv'
      BY <2>0, <3>1, <3>2, SettledQuiet
    <3>. QED
      BY <3>4, <3>5 DEF CatalogInv
  <2>5. CASE RecordGap \/ LeaseRefused \/ UNCHANGED vars
    <3>1. UNCHANGED <<kind, pc, batch, files, manifest, pending>>
      BY <2>5 DEF RecordGap, LeaseRefused, vars, commitVars, diskVars
    <3>2. BusyInv'
      BY <2>0, <3>1 DEF BusyInv, RawName
    <3>3. SettledInv'
      BY <2>0, <3>1, SettledQuiet
    <3>. QED
      BY <3>2, <3>3 DEF CatalogInv
  <2>6. CASE WriteParquet
    <3>1. PICK p \in todo : \E rows \in (IF kind = "oi" THEN Merged(p) ELSE {batch}) :
                              \E f, new : Writes(p, Own(p, rows), f, new)
      BY <2>0, <2>6, ParquetIs
    <3>rows. PICK rows \in (IF kind = "oi" THEN Merged(p) ELSE {batch}) : \E f, new : Writes(p, Own(p, rows), f, new)
      BY <3>1
    <3>2. PICK f, new : Writes(p, Own(p, rows), f, new)
      BY <3>rows
    <3>3. /\ pc = "parquet" /\ UNCHANGED <<kind, batch, manifest>> /\ pending' = pending /\ pc' # "checkpoint"
          /\ files' = [n \in DOMAIN files \cup {f} |-> IF n = f THEN new ELSE files[n]]
          /\ f = FileName(p, Own(p, rows))
      BY <2>6, <3>2 DEF Writes, Goes, WriteParquet
    <3>4. BusyInv'
      BY <2>0, <3>3, BusyStays
    <3>5. SettledInv'
      <4>. SUFFICES ASSUME kind = "bybit_trades", NEW o \in Range(PartOf), <<o>> \in DOMAIN files'
                    PROVE  Settled(<<o>>)' \/ {o} \in pending
        BY <3>3 DEF SettledInv
      <4>1. f = <<p>> /\ todo \subseteq AllParts /\ AllParts = Parts(batch) /\ batch \in BatchesOf[kind]
        BY <2>0, <3>3 DEF FileName, Replaced, TodoInv, AllParts, Partitioned, FlowTypes
      <4>2. PICK x : Parts(batch) = {x}
        BY <2>0, <4>1, BatchIs
      <4>3. Parts(batch) = {p} /\ {p} \in pending
        BY <2>0, <3>3, <4>1, <4>2 DEF BusyInv, RawName
      <4>4. CASE o = p
        BY <4>3, <4>4
      <4>5. CASE o # p
        <5>1. <<o>> # f /\ <<o>> \in DOMAIN files
          BY <3>3, <4>1, <4>5
        <5>2. files'[<<o>>] = files[<<o>>]
          BY <3>3, <5>1
        <5>3. Settled(<<o>>)' = Settled(<<o>>)
          BY <3>3, <5>2 DEF Settled, Naming
        <5>. QED
          BY <2>0, <5>1, <5>3 DEF SettledInv
      <4>. QED
        BY <4>4, <4>5
    <3>. QED
      BY <3>4, <3>5 DEF CatalogInv
  <2>7. CASE AppendManifest
    <3>1. /\ pc = "manifest" /\ UNCHANGED <<kind, batch, todo, made, raw, files, checkpoint>>
          /\ manifest' = (IF Recorded THEN manifest ELSE Append(manifest, [raw |-> batch, refs |-> made]))
          /\ (CASE kind = "month" -> Goes("gaps") [] kind = "usdm_trades" -> Returns [] OTHER -> Goes("checkpoint"))
      BY <2>0, <2>7, NextStep DEF AppendManifest, commitVars
    <3>2. BusyInv'
      BY <2>0, <3>1, BusyStays DEF Goes, Returns, BusyInv
    <3>3. SettledInv'
      <4>. SUFFICES ASSUME kind = "bybit_trades", NEW o \in Range(PartOf), <<o>> \in DOMAIN files
                    PROVE  Settled(<<o>>)' \/ ({o} \in pending' /\ Parts(batch') # {o})
        BY <3>1 DEF SettledInv
      <4>. DEFINE row == [raw |-> batch, refs |-> made]
                  S   == [raw : BatchesOf[kind], refs : SUBSET ((DOMAIN files) \X Contents)]
      <4>1. batch \in BatchesOf[kind] /\ todo = {} /\ FileTypes /\ Goes("checkpoint")
        BY <2>0, <3>1 DEF FlowTypes, TodoInv, Written, TypeInv
      <4>2. PICK p : Parts(batch) = {p}
        BY <2>0, <4>1, BatchIs
      <4>3. manifest \in Seq(S) /\ row \in S /\ row.refs = made
        BY <4>1 DEF FileTypes
      <4>4. manifest' = Append(manifest, row)
        BY <3>1 DEF Recorded
      <4>5. AllParts \ todo = {p}
        BY <4>1, <4>2 DEF AllParts, Partitioned
      <4>6. \A m \in made : files[m[1]] = m[2] /\ m[1] = <<p>>
        BY <2>0, <3>1, <4>5 DEF MadeInv, Written, Holds, OneFile
      <4>. HIDE DEF row, S
      <4>7. CASE o = p
        <5>1. \E q \in row.refs : q[1] = <<p>>
          <6>1. PICK m \in made : TRUE
            BY <2>0, <3>1 DEF TodoInv, Written
          <6>. QED
            BY <4>3, <4>6, <6>1
        <5>2. /\ Max(Naming(<<p>>)') = Len(manifest) + 1 /\ Naming(<<p>>)' # {}
              /\ manifest'[Len(manifest) + 1] = row
          BY <4>3, <4>4, <5>1, NamingAfter
        <5>. QED
          BY <3>1, <4>3, <4>6, <4>7, <5>2 DEF Settled
      <4>8. CASE o # p
        <5>1. ~(\E q \in row.refs : q[1] = <<o>>)
          BY <4>3, <4>6, <4>8
        <5>2. Naming(<<o>>)' = Naming(<<o>>) /\ \A i \in DOMAIN manifest : manifest'[i] = manifest[i]
          BY <4>3, <4>4, <5>1, NamingAfter
        <5>3. ASSUME Settled(<<o>>) PROVE Settled(<<o>>)'
          <6>1. Naming(<<o>>) # {} /\ Naming(<<o>>) \subseteq DOMAIN manifest
            BY <5>3 DEF Settled, Naming
          <6>2. Max(Naming(<<o>>)) \in DOMAIN manifest
            BY <4>3, <6>1, LatestNames
          <6>. QED
            BY <3>1, <5>2, <5>3, <6>1, <6>2 DEF Settled
        <5>4. pending' = pending /\ Parts(batch') # {o}
          BY <3>1, <4>1, <4>2, <4>8 DEF Goes
        <5>. QED
          BY <2>0, <5>3, <5>4 DEF SettledInv
      <4>. QED
        BY <4>7, <4>8
    <3>. QED
      BY <3>2, <3>3 DEF CatalogInv
  <2>8. CASE WriteCheckpoint
    <3>0. pc = "checkpoint" /\ kind # "usdm_trades"
      BY <2>0, <2>8 DEF WriteCheckpoint, FlowTypes, GapKinds
    <3>1. /\ Returns /\ UNCHANGED <<kind, batch, files, manifest>>
      BY <2>0, <2>8, <3>0, NextStep DEF WriteCheckpoint, commitVars
    <3>2. BusyInv'
      BY <3>1 DEF BusyInv, Returns
    <3>3. SettledInv'
      <4>. SUFFICES ASSUME kind = "bybit_trades", NEW o \in Range(PartOf), <<o>> \in DOMAIN files
                    PROVE  Settled(<<o>>)' \/ {o} \in pending'
        BY <3>1 DEF SettledInv, Returns
      <4>1. Settled(<<o>>)' = Settled(<<o>>)
        BY <3>1 DEF Settled, Naming
      <4>2. pending' = pending \ {Parts(batch)}
        BY <3>1 DEF Returns, RawName
      <4>. QED
        BY <2>0, <3>0, <4>1, <4>2 DEF SettledInv
    <3>. QED
      BY <3>2, <3>3 DEF CatalogInv
  <2>. QED
    BY <2>1, <2>2, <2>3, <2>4, <2>5, <2>6, <2>7, <2>8 DEF Next, Step
<1>. QED
  BY <1>1, <1>2, TypeCorrect, FilesInductive, PTL DEF Spec

\* The catalog can be built at any moment (CatalogResolves): every file an active record
\* names is there with the hash the latest record of it has, but for a Bybit day whose
\* commit has begun and not returned, and for funding, which records none.
THEOREM CatalogReadable == Spec => []CatalogResolves
<1>1. TypeInv /\ FilesInv /\ CatalogInv => CatalogResolves
  <2>. SUFFICES ASSUME TypeInv, FilesInv, CatalogInv, kind = "bybit_trades" => pending = {},
                       NEW f \in Active
                PROVE  f \in DOMAIN files /\ (kind # "funding" => files[f] = ActiveHash(f))
    BY DEF CatalogResolves, Resolves
  <2>. DEFINE S == [raw : BatchesOf[kind], refs : SUBSET ((DOMAIN files) \X Contents)]
              naming == {i \in Selected : \E p \in manifest[i].refs : p[1] = f}
  <2>0. manifest \in Seq(S) /\ RowInv /\ NameInv /\ SettledInv
    BY DEF TypeInv, FileTypes, FilesInv, CatalogInv
  <2>. HIDE DEF S
  <2>1. DOMAIN manifest = 1..Len(manifest) /\ Len(manifest) \in Nat /\ \A i \in DOMAIN manifest : manifest[i] \in Range(manifest)
    BY <2>0, RangeIn
  <2>2. Selected \subseteq DOMAIN manifest
    BY <2>0, <2>1, RangeIn DEF Selected
  <2>3. naming # {} /\ naming \subseteq DOMAIN manifest
    BY <2>2 DEF Active
  <2>4. Max(naming) \in naming
    BY <2>0, <2>3, LatestNames
  <2>5. manifest[Max(naming)] \in Range(manifest)
    BY <2>1, <2>3, <2>4
  <2>. DEFINE q == CHOOSE p \in manifest[Max(naming)].refs : p[1] = f
  <2>6. q \in manifest[Max(naming)].refs /\ q[1] = f
    BY <2>4
  <2>7. ActiveHash(f) = q[2]
    BY DEF ActiveHash
  <2>8. q[1] \in DOMAIN files /\ (~Replaced => files[q[1]] = q[2]) /\ \E p : Holds(q[1], q[2], p, manifest[Max(naming)].raw)
    BY <2>0, <2>5, <2>6 DEF RowInv, RowSound
  <2>9. ASSUME kind = "bybit_trades" PROVE files[f] = q[2]
    <3>1. PICK p \in Range(PartOf) : f = <<p>>
      BY <2>0, <2>6, <2>8, <2>9 DEF NameInv
    <3>2. Settled(f)
      BY <2>0, <2>6, <2>8, <2>9, <3>1 DEF SettledInv
    <3>3. naming = Naming(f)
      BY <2>9 DEF Naming, Selected, Cumulative
    <3>4. \A r \in manifest[Max(Naming(f))].refs : r[1] = f => r[2] = files[f]
      BY <3>2 DEF Settled
    <3>. QED
      BY <2>6, <3>3, <3>4
  <2>. QED
    BY <2>6, <2>7, <2>8, <2>9 DEF Replaced
<1>. QED
  BY <1>1, TypeCorrect, FilesInductive, CatalogInductive, PTL

\* A file's rows reach as far as those of every file of its partition.
Covers(p, c) == \A f \in DOMAIN files : f[1] = p => Times(files[f].rows) \subseteq Times(c.rows)

\* The latest record reaches as far as any record of its partitions.
LatestReaches ==
  manifest # <<>> =>
    \A row \in Range(manifest) : \A q \in row.refs :
      q[1][1] \in Parts(Last(manifest).raw) =>
        \E r \in Last(manifest).refs : r[1][1] = q[1][1] /\ Times(q[2].rows) \subseteq Times(r[2].rows)

\* The invariant of the open-interest dataset behind ReturnedIsActive.
CoverInv ==
  kind = "oi" =>
    /\ IsFiniteSet(DOMAIN files)
    /\ \A m \in made : Covers(m[1][1], m[2])
    /\ LatestReaches

\* The generations of a partition are finitely many.
LEMMA GensFinite ==
  ASSUME NEW p, IsFiniteSet(DOMAIN files)
  PROVE  IsFiniteSet({files[f].rows : f \in {n \in DOMAIN files : n[1] = p}})
<1>. DEFINE D == {n \in DOMAIN files : n[1] = p}
            G == {files[f].rows : f \in D}
            h == [f \in D |-> files[f].rows]
<1>1. IsFiniteSet(D)
  BY FS_Subset
<1>2. h \in Surjection(D, G)
  BY DEF Surjection
<1>. HIDE DEF D, G, h
<1>3. IsFiniteSet(G)
  BY <1>1, <1>2, FS_Surjection
<1>. QED
  BY <1>3 DEF G, D

\* A merged generation has a row for each time of the generations before it, in
\* whatever order their hashes come.
LEMMA MergedCovers ==
  ASSUME NEW p, NEW rows \in Merged(p), IsFiniteSet(DOMAIN files), NEW f \in DOMAIN files, f[1] = p
  PROVE  Times(files[f].rows) \subseteq Times(rows)
<1>. DEFINE gens  == {files[n].rows : n \in {n \in DOMAIN files : n[1] = p}}
            older == {r \in UNION gens : r[1] \notin Times(In(batch, p))}
            AfterAll(order, r) ==
              \E i \in DOMAIN order : r \in order[i]
                /\ \A j \in (i + 1)..Len(order) : r[1] \notin Times(order[j])
<1>1. PICK order \in SetToSeqs(gens) : rows = In(batch, p) \cup {r \in older : AfterAll(order, r)}
  BY DEF Merged
<1>2. IsFiniteSet(gens) /\ files[f].rows \in gens
  BY GensFinite
<1>. SUFFICES ASSUME NEW t \in Times(files[f].rows) PROVE t \in Times(rows)
  OBVIOUS
<1>3. CASE t \in Times(In(batch, p))
  BY <1>1, <1>3 DEF Times
<1>4. CASE t \notin Times(In(batch, p))
  <2>. HIDE DEF gens
  <2>1. /\ DOMAIN order = 1..Len(order) /\ Len(order) \in Nat
        /\ \A s \in gens : \E i \in 1..Len(order) : order[i] = s
    BY <1>2, ListsAll
  <2>. DEFINE I == {i \in 1..Len(order) : t \in Times(order[i])}
  <2>2. I # {}
    BY <1>2, <2>1
  <2>3. I \in SUBSET Nat /\ \A y \in I : y <= Len(order)
    BY <2>1
  <2>4. Max(I) \in I /\ \A y \in I : y <= Max(I)
    <3>. HIDE DEF I
    <3>. QED
      BY <2>1, <2>2, <2>3, MaxIsGreatest
  <2>5. PICK r \in order[Max(I)] : r[1] = t
    BY <2>4 DEF Times
  <2>6. order[Max(I)] \in gens
    <3>1. order \in [1..Cardinality(gens) -> gens]
      BY DEF SetToSeqs
    <3>. QED
      BY <2>1, <2>4, <3>1
  <2>7. r \in older
    BY <1>4, <2>5, <2>6
  <2>8. \A j \in (Max(I) + 1)..Len(order) : t \notin Times(order[j])
    BY <2>1, <2>3, <2>4
  <2>9. AfterAll(order, r)
    BY <2>1, <2>4, <2>5, <2>8
  <2>. HIDE DEF older, AfterAll, I
  <2>10. r \in rows
    BY <1>1, <2>7, <2>9
  <2>. QED
    BY <2>5, <2>10 DEF Times
<1>. QED
  BY <1>3, <1>4

\* What the latest record reaches, while no file and no record is written.
LEMMA CoverQuiet ==
  ASSUME CoverInv, UNCHANGED <<kind, files, manifest>>, made' \subseteq made
  PROVE  CoverInv'
BY DEF CoverInv, LatestReaches, Covers, Times, Parts, Last

\* The latest open-interest record covers every record of its partitions.
THEOREM CoverInductive == Spec => []CoverInv
<1>1. Init => CoverInv
  <2>. SUFFICES ASSUME Init PROVE CoverInv
    OBVIOUS
  <2>1. files = <<>> /\ manifest = <<>> /\ made = {}
    BY DEF Init
  <2>2. DOMAIN files = {}
    BY <2>1
  <2>. QED
    BY <2>1, <2>2, FS_EmptySet DEF CoverInv, LatestReaches
<1>2. TypeInv /\ FilesInv /\ CoverInv /\ [Next]_vars => CoverInv'
  <2>. SUFFICES ASSUME TypeInv, FilesInv, CoverInv, [Next]_vars PROVE CoverInv'
    OBVIOUS
  <2>0. FlowTypes /\ FileTypes /\ TodoInv /\ kind \in Kinds /\ MadeInv /\ NameInv /\ RowInv
    BY DEF TypeInv, FlowTypes, FilesInv
  <2>1. CASE (\E b \in Batches : Begin(b)) \/ RejectBatch \/ UsdmRepeatRaises \/ CommitFails \/ Crash
    <3>1. UNCHANGED <<kind, files, manifest>> /\ made' = {}
      BY <2>1 DEF Begin, RejectBatch, UsdmRepeatRaises, CommitFails, Crash, Raise, diskVars
    <3>. QED
      BY <3>1, CoverQuiet
  <2>2. CASE Validate \/ WriteRaw \/ RecordGap \/ GapsRecorded \/ WriteCheckpoint \/ LeaseRefused \/ UNCHANGED vars
    <3>1. UNCHANGED <<kind, files, manifest, made>>
      BY <2>2 DEF Validate, WriteRaw, RecordGap, GapsRecorded, WriteCheckpoint, LeaseRefused, vars, commitVars, diskVars
    <3>. QED
      BY <3>1, CoverQuiet
  <2>3. CASE WriteParquet
    <3>. SUFFICES ASSUME kind = "oi"
                  PROVE  /\ IsFiniteSet(DOMAIN files')
                         /\ \A m \in made' : \A g \in DOMAIN files' :
                              g[1] = m[1][1] => Times(files'[g].rows) \subseteq Times(m[2].rows)
      <4>1. kind' = kind /\ manifest' = manifest
        BY <2>3 DEF WriteParquet
      <4>2. (\A m \in made' : Covers(m[1][1], m[2])') <=>
              \A m \in made' : \A g \in DOMAIN files' :
                g[1] = m[1][1] => Times(files'[g].rows) \subseteq Times(m[2].rows)
        BY DEF Covers, Times
      <4>3. LatestReaches' = LatestReaches
        BY <4>1 DEF LatestReaches, Times, Parts, Last
      <4>. QED
        BY <4>1, <4>2, <4>3 DEF CoverInv
    <3>1. PICK p \in todo : \E rows \in Merged(p) : \E f, new : Writes(p, Own(p, rows), f, new)
      BY <2>0, <2>3, ParquetIs
    <3>2. PICK rows \in Merged(p) : \E f, new : Writes(p, Own(p, rows), f, new)
      BY <3>1
    <3>3. PICK f, new : Writes(p, Own(p, rows), f, new)
      BY <3>2
    <3>4. pc = "parquet" /\ Own(p, rows) = rows /\ ~Replaced
      BY <2>3 DEF WriteParquet, Own, Replaced
    <3>5. /\ DOMAIN files' = DOMAIN files \cup {f} /\ files'[f] = new
          /\ \A n \in DOMAIN files : n # f => files'[n] = files[n]
          /\ new \in Contents /\ stamp' \in Nat /\ stamp' <= begun
          /\ ~Kept(f) => new.rows = Own(p, rows)
          /\ ~Replaced => \A n \in DOMAIN files : files'[n] = files[n]
      <4>1. rows \in (IF kind = "oi" THEN Merged(p) ELSE {batch})
        BY <3>2
      <4>2. WriteEffect(p, rows, f, new)
        BY <3>3, <3>4, <4>1, WritesTypes
      <4>. QED
        BY <4>2 DEF WriteEffect
    <3>6. f = <<p, new.rows>>
      BY <2>0, <3>3, <3>4, WriteHolds
    <3>7. f = <<p, rows>> /\ made' = made \cup {<<f, new>>}
      BY <3>3, <3>4 DEF Writes, FileName
    <3>8. new.rows = rows /\ f[1] = p
      BY <3>6, <3>7
    <3>9. IsFiniteSet(DOMAIN files) /\ IsFiniteSet(DOMAIN files')
      BY <3>5, FS_AddElement DEF CoverInv
    <3>10. ASSUME NEW g \in DOMAIN files', g[1] = p
           PROVE  Times(files'[g].rows) \subseteq Times(new.rows)
      <4>1. CASE g = f
        BY <3>5, <4>1
      <4>2. CASE g \in DOMAIN files
        <5>1. files'[g] = files[g]
          BY <3>4, <3>5, <4>2
        <5>. QED
          BY <3>8, <3>9, <3>10, <4>2, <5>1, MergedCovers
      <4>. QED
        BY <3>5, <4>1, <4>2
    <3>11. ASSUME NEW m \in made, NEW g \in DOMAIN files', g[1] = m[1][1]
           PROVE  Times(files'[g].rows) \subseteq Times(m[2].rows)
      <4>1. PICK o \in AllParts \ todo : Holds(m[1], m[2], o, batch)
        BY <2>0, <3>4 DEF MadeInv
      <4>2. m[1] = <<o, m[2].rows>>
        BY <4>1 DEF Holds, OneFile
      <4>3. m[1][1] = o /\ o # p
        BY <3>1, <4>1, <4>2
      <4>4. g \in DOMAIN files /\ files'[g] = files[g]
        BY <3>4, <3>5, <3>8, <3>11, <4>3
      <4>. QED
        BY <3>11, <4>4 DEF CoverInv, Covers
    <3>. QED
      BY <3>7, <3>8, <3>9, <3>10, <3>11
  <2>4. CASE AppendManifest
    <3>1. pc = "manifest" /\ UNCHANGED <<kind, batch, made, files>>
          /\ manifest' = (IF Recorded THEN manifest ELSE Append(manifest, [raw |-> batch, refs |-> made]))
      BY <2>4 DEF AppendManifest, commitVars
    <3>2. CASE Recorded
      BY <3>1, <3>2, CoverQuiet
    <3>3. CASE ~Recorded
      <4>. DEFINE row == [raw |-> batch, refs |-> made]
                  S   == [raw : BatchesOf[kind], refs : SUBSET ((DOMAIN files) \X Contents)]
      <4>1. manifest \in Seq(S) /\ row \in S /\ row.raw = batch /\ row.refs = made
        BY <2>0, <3>1 DEF FileTypes, FlowTypes
      <4>2. manifest' = Append(manifest, row)
        BY <3>1, <3>3
      <4>. HIDE DEF row, S
      <4>3. Range(manifest') = Range(manifest) \cup {row} /\ Last(manifest') = row
        BY <4>1, <4>2, RangeAppend, AppendProperties DEF Last
      <4>4. ASSUME kind = "oi", NEW x \in Range(manifest'), NEW q \in x.refs, q[1][1] \in Parts(batch)
            PROVE  \E r \in made : r[1][1] = q[1][1] /\ Times(q[2].rows) \subseteq Times(r[2].rows)
        <5>1. todo = {} /\ AllParts = Parts(batch)
          BY <2>0, <3>1, <4>4 DEF TodoInv, Written, AllParts, Partitioned
        <5>2. PICK m \in made : Holds(m[1], m[2], q[1][1], batch)
          BY <2>0, <3>1, <4>4, <5>1 DEF MadeInv, Written
        <5>3. m[1] = <<q[1][1], m[2].rows>>
          BY <4>4, <5>2 DEF Holds, OneFile
        <5>4. m[1][1] = q[1][1]
          BY <5>3
        <5>5. q[1] \in DOMAIN files /\ files[q[1]] = q[2]
          <6>1. CASE x = row
            BY <2>0, <3>1, <4>1, <4>4, <6>1 DEF MadeInv, FileTypes, Written
          <6>2. CASE x \in Range(manifest)
            BY <2>0, <4>4, <6>2 DEF RowInv, RowSound, Replaced
          <6>. QED
            BY <4>3, <6>1, <6>2
        <5>6. Times(files[q[1]].rows) \subseteq Times(m[2].rows)
          BY <4>4, <5>4, <5>5 DEF CoverInv, Covers
        <5>. QED
          BY <5>4, <5>5, <5>6
      <4>5. kind = "oi" => IsFiniteSet(DOMAIN files) /\ \A m \in made : Covers(m[1][1], m[2])
        BY DEF CoverInv
      <4>6. (\A m \in made : Covers(m[1][1], m[2])) => (\A m \in made : Covers(m[1][1], m[2])')
        BY <3>1 DEF Covers, Times
      <4>7. kind = "oi" =>
              \A x \in Range(manifest') : \A q \in x.refs :
                q[1][1] \in Parts(Last(manifest').raw) =>
                  \E r \in Last(manifest').refs : r[1][1] = q[1][1] /\ Times(q[2].rows) \subseteq Times(r[2].rows)
        <5>1. Last(manifest').raw = batch /\ Last(manifest').refs = made
          BY <4>1, <4>3
        <5>. QED
          BY <4>4, <5>1
      <4>8. kind = "oi" => LatestReaches'
        BY <4>7, Zenon DEF LatestReaches, Times, Parts, Last
      <4>9. kind' = kind /\ files' = files /\ made' = made
        BY <3>1
      <4>10. kind' = "oi" => IsFiniteSet(DOMAIN files') /\ (\A m \in made : Covers(m[1][1], m[2]))'
        BY <4>5, <4>6, <4>9
      <4>. QED
        BY <4>8, <4>9, <4>10 DEF CoverInv
    <3>. QED
      BY <3>2, <3>3
  <2>. QED
    BY <2>1, <2>2, <2>3, <2>4 DEF Next, Step
<1>. QED
  BY <1>1, <1>2, TypeCorrect, FilesInductive, PTL DEF Spec

\* What a commit has returned is there for the readers (ReturnedIsActive): each of its
\* rows is in a file that is there and that an active record names, in a cumulative
\* dataset as far as the latest record reaches.
THEOREM ReturnedStaysActive == Spec => []ReturnedIsActive
<1>1. TypeInv /\ FilesInv /\ CoverInv => ReturnedIsActive
  <2>. SUFFICES ASSUME TypeInv, FilesInv, CoverInv, kind # "funding", NEW b \in done,
                       NEW t \in Times(b),
                       PartOf[t] \in (IF Cumulative /\ manifest # <<>> THEN Parts(Last(manifest).raw) ELSE Parts(b))
                PROVE  t \in Times(ActiveRows)
    BY DEF ReturnedIsActive
  <2>. DEFINE S == [raw : BatchesOf[kind], refs : SUBSET ((DOMAIN files) \X Contents)]
  <2>0. manifest \in Seq(S) /\ RowInv /\ NameInv /\ OrderInv /\ kind \in Kinds /\ b \in BatchesOf[kind]
    BY DEF TypeInv, FileTypes, FlowTypes, FilesInv
  <2>. HIDE DEF S
  <2>1. PICK r \in b : r[1] = t
    BY DEF Times
  <2>2. PICK row \in Range(manifest) : row.raw = b
    BY <2>0 DEF OrderInv, Raws
  <2>3. /\ DOMAIN manifest = 1..Len(manifest) /\ Len(manifest) \in Nat /\ manifest # <<>> /\ Len(manifest) \in DOMAIN manifest
        /\ \E i \in DOMAIN manifest : manifest[i] = row
        /\ manifest[Len(manifest)] \in Range(manifest)
    <3>1. DOMAIN manifest = 1..Len(manifest) /\ Len(manifest) \in Nat /\ manifest # <<>> /\ Len(manifest) # 0
          /\ \A x : x \in Range(manifest) <=> \E i \in 1..Len(manifest) : manifest[i] = x
      BY <2>0, <2>2, RangeIn
    <3>. QED
      BY <2>2, <3>1
  <2>4. ASSUME NEW i \in Selected, NEW q \in manifest[i].refs, t \in Times(files[q[1]].rows) PROVE t \in Times(ActiveRows)
    <3>1. q[1] \in Active
      BY DEF Active
    <3>. QED
      BY <2>4, <3>1 DEF ActiveRows, Times
  <2>5. CASE kind \in OneFile
    <3>1. PICK i \in DOMAIN manifest : manifest[i] = row
      BY <2>3
    <3>2. i \in Selected
      BY <2>5, <3>1 DEF Selected, Cumulative, OneFile
    <3>3. PICK q \in row.refs : Holds(q[1], q[2], 0, b)
      BY <2>0, <2>2, <2>5 DEF RowInv, RowSound, PartsOf, Partitioned, OneFile
    <3>4. files[q[1]] = q[2] /\ q[2].rows = b
      BY <2>0, <2>2, <2>5, <3>3 DEF RowInv, RowSound, Replaced, OneFile, Holds
    <3>. QED
      BY <2>4, <3>1, <3>2, <3>4
  <2>6. CASE kind = "bybit_trades"
    <3>1. PICK i \in DOMAIN manifest : manifest[i] = row
      BY <2>3
    <3>2. i \in Selected
      BY <2>6, <3>1 DEF Selected, Cumulative
    <3>3. PICK p \in Range(PartOf) : Parts(b) = {p}
      BY <2>0, <2>6, BatchIs
    <3>4. PICK q \in row.refs : Holds(q[1], q[2], p, b)
      BY <2>0, <2>2, <2>6, <3>3 DEF RowInv, RowSound, PartsOf, Partitioned
    <3>5. q[1] = <<p>> /\ q[1] \in DOMAIN files /\ raw[{p}] = b
      BY <2>0, <2>2, <2>6, <3>3, <3>4 DEF RowInv, RowSound, OneFile, Holds
    <3>6. PICK o \in Range(PartOf) : q[1] = <<o>> /\ files[q[1]].rows = raw[{o}]
      BY <2>0, <2>6, <3>5 DEF NameInv
    <3>7. o = p
      BY <3>5, <3>6
    <3>8. files[q[1]].rows = b
      BY <3>5, <3>6, <3>7
    <3>. QED
      BY <2>4, <3>1, <3>2, <3>8
  <2>7. CASE kind = "oi"
    <3>. DEFINE p == PartOf[t]
    <3>1. p \in Parts(b) /\ r \in In(b, p) /\ p \in Parts(Last(manifest).raw)
      BY <2>1, <2>3, <2>7 DEF Parts, In, Cumulative
    <3>2. PICK q \in row.refs : Holds(q[1], q[2], p, b)
      BY <2>0, <2>2, <2>7, <3>1 DEF RowInv, RowSound, PartsOf, Partitioned
    <3>3. q[1] = <<p, q[2].rows>> /\ In(b, p) \subseteq q[2].rows
      BY <2>7, <3>2 DEF Holds, OneFile
    <3>4. q[1][1] = p /\ t \in Times(q[2].rows)
      BY <2>1, <3>1, <3>3 DEF Times
    <3>5. PICK s \in Last(manifest).refs : Times(q[2].rows) \subseteq Times(s[2].rows)
      BY <2>2, <2>3, <2>7, <3>1, <3>2, <3>4 DEF CoverInv, LatestReaches
    <3>6. Last(manifest) = manifest[Len(manifest)]
      BY DEF Last
    <3>7. files[s[1]] = s[2]
      BY <2>0, <2>3, <2>7, <3>5, <3>6 DEF RowInv, RowSound, Replaced
    <3>8. Len(manifest) \in Selected
      BY <2>3, <2>7 DEF Selected, Cumulative
    <3>. QED
      BY <2>4, <3>4, <3>5, <3>6, <3>7, <3>8
  <2>. QED
    BY <2>0, <2>5, <2>6, <2>7, CommitAssumption DEF OneFile
<1>. QED
  BY <1>1, TypeCorrect, FilesInductive, CoverInductive, PTL
=============================================================================
