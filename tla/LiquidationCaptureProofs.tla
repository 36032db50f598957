------------------------ MODULE LiquidationCaptureProofs ------------------------
(***************************************************************************)
(* Proofs about LiquidationCapture for every set of frames, any flush      *)
(* size, number of attempts, failures, crashes and runs.                   *)
(***************************************************************************)
EXTENDS LiquidationCapture, CommonLemmas

-----------------------------------------------------------------------------
(* Types                                                                   *)

Persisting == {"check", "raw", "parquet", "manifest", "checkpoint"}
Receiving  == {"subscribe", "ping", "receive"}

\* What the types rest on: no attempt starts with frames in its buffer, a buffer
\* with room is received into, a failure has a reason, an outage was a failure, partitions are left to write while they are
\* being written, and only finitely many rows are stored.
TypeSupport ==
  /\ pc \notin Receiving \cup Persisting \cup {"quarantine"} => buffer = <<>>
  /\ pc \in Receiving => Len(buffer) < FlushAt
  /\ pc \in {"quarantine", "failed"} => reason \in Reasons
  /\ pc \in Persisting /\ why = "error" => reason \in Reasons
  /\ outage # 0 => errors # <<>>
  /\ pc \in {"check", "raw"} => made = {} /\ fresh = 0
  /\ pc = "raw" => Rows(buffer) # {}
  /\ pc = "parquet" => Days(Rows(buffer)) \ {p[1] : p \in made} # {}
  /\ IsFiniteSet(Stored)

TypeInv == TypeOK /\ TypeSupport

AllRows == UNION {Events(f) : f \in AllFrames}

\* The rows of a batch are rows of known frames, on known days, and finitely many.
LEMMA RowsTypes ==
  ASSUME NEW b \in Seq(AllFrames)
  PROVE  /\ Rows(b) \subseteq AllRows /\ IsFiniteSet(Rows(b))
         /\ Days(Rows(b)) \subseteq AllDays /\ AllDays \subseteq Nat
         /\ \A e \in AllRows : DayOf(e) \in AllDays
<1>1. Range(b) \subseteq AllFrames /\ IsFiniteSet(Range(b))
  BY RangeIn, RangeIsFinite
<1>2. Rows(b) \subseteq AllRows
  BY <1>1 DEF Rows, AllRows
<1>3. \A f \in AllFrames : DaysOf[f] \in Seq(Nat)
  BY CaptureAssumption
<1>4. \A f \in AllFrames : Range(DaysOf[f]) \subseteq Nat
  BY <1>3, RangeIn
<1>5. AllDays \subseteq Nat
  BY <1>4 DEF AllDays
<1>6. ASSUME NEW f \in AllFrames, NEW i \in DOMAIN DaysOf[f]
      PROVE  DayOf(<<f, i>>) \in AllDays
  BY <1>3, <1>6, RangeIn DEF DayOf, AllDays
<1>7. \A e \in AllRows : DayOf(e) \in AllDays
  BY <1>6 DEF AllRows, Events
<1>8. Days(Rows(b)) \subseteq AllDays
  BY <1>2, <1>7 DEF Days
<1>9. IsFiniteSet(Rows(b))
  <2>. DEFINE of == [f \in Range(b) |-> Events(f)]
  <2>1. ASSUME NEW f \in Range(b) PROVE IsFiniteSet(Events(f))
    <3>. DEFINE nth == [i \in 1..Len(DaysOf[f]) |-> <<f, i>>]
    <3>1. DOMAIN DaysOf[f] = 1..Len(DaysOf[f]) /\ Len(DaysOf[f]) \in Nat
      BY <1>1, <1>3, RangeIn
    <3>2. nth \in Surjection(1..Len(DaysOf[f]), Events(f))
      BY <3>1 DEF Events, Surjection
    <3>. QED
      BY <3>1, <3>2, FS_Interval, FS_Surjection
  <2>2. of \in Surjection(Range(b), {Events(f) : f \in Range(b)})
    BY DEF Surjection
  <2>3. IsFiniteSet({Events(f) : f \in Range(b)})
    BY <1>1, <2>2, FS_Surjection
  <2>. QED
    BY <2>1, <2>3, FS_UNION DEF Rows
<1>. QED
  BY <1>2, <1>5, <1>7, <1>8, <1>9

\* A batch that is not accepted has a reason.
LEMMA VerdictTypes ==
  ASSUME NEW b \in Seq(AllFrames)
  PROVE  BatchVerdict(b) \in {"ok"} \cup Reasons
<1>. DEFINE bad == {i \in 1..Len(b) : Verdict[b[i]] # "ok"}
<1>1. Len(b) \in Nat /\ \A i \in 1..Len(b) : b[i] \in AllFrames
  BY RangeIn, ElementOfSeq
<1>2. SelectInSeq(b, LAMBDA f : Verdict[f] # "ok") = IF bad # {} THEN Min(bad) ELSE 0
  BY DEF SelectInSeq
<1>3. bad # {} => Min(bad) \in bad
  <2>1. bad \in SUBSET Nat
    BY <1>1
  <2>. HIDE DEF bad
  <2>. QED
    BY <2>1, MinIsLeast
<1>4. \A i \in 1..Len(b) : Verdict[b[i]] \in {"ok"} \cup Reasons
  BY <1>1, CaptureAssumption DEF Reasons
<1>5. Unparsed(b) \in {"ok"} \cup Reasons
  <2>1. CASE bad = {}
    BY <1>2, <2>1 DEF Unparsed
  <2>2. CASE bad # {}
    <3>1. Min(bad) \in 1..Len(b) /\ Min(bad) # 0
      BY <1>1, <1>3, <2>2
    <3>. HIDE DEF bad
    <3>2. Unparsed(b) = Verdict[b[Min(bad)]]
      BY <1>2, <2>2, <3>1 DEF Unparsed
    <3>. QED
      BY <1>4, <3>1, <3>2
  <2>. QED
    BY <2>1, <2>2
<1>. QED
  BY <1>5 DEF BatchVerdict, BinanceVerdict, Reasons

\* How many new rows a generation brings is a number, and its rows are all known.
LEMMA GenerationTypes ==
  ASSUME TypeInv, pc = "parquet",
         NEW d, d = CHOOSE x \in Days(Rows(buffer)) \ {p[1] : p \in made} :
                      \A y \in Days(Rows(buffer)) \ {p[1] : p \in made} : x <= y
  PROVE  /\ d \in Days(Rows(buffer)) \ {p[1] : p \in made} /\ d \in AllDays
         /\ Merge(d, On(Rows(buffer), d)) \in Rowsets
         /\ IsFiniteSet(Merge(d, On(Rows(buffer), d)))
         /\ NewRows(d, Merge(d, On(Rows(buffer), d))) \in Nat
<1>. DEFINE todo == Days(Rows(buffer)) \ {p[1] : p \in made}
            gen  == Merge(d, On(Rows(buffer), d))
            sizes == {0} \cup {Cardinality(g) : g \in parts[d]}
<1>1. Rows(buffer) \subseteq AllRows /\ IsFiniteSet(Rows(buffer)) /\ todo \in SUBSET Nat /\ todo \subseteq AllDays
  BY RowsTypes DEF TypeInv, TypeOK
<1>2. todo # {}
  BY DEF TypeInv, TypeSupport
<1>3. d \in todo
  <2>. HIDE DEF todo
  <2>. QED
    BY <1>1, <1>2, MinIsLeast DEF todo
<1>4. d \in AllDays /\ parts[d] \subseteq Rowsets /\ IsFiniteSet(UNION parts[d])
  <2>1. d \in AllDays
    BY <1>1, <1>3
  <2>2. UNION parts[d] \subseteq Stored
    BY <2>1 DEF Stored
  <2>. QED
    BY <2>1, <2>2, FS_Subset DEF TypeInv, TypeOK, TypeSupport
<1>5. On(Rows(buffer), d) \subseteq Rows(buffer)
  BY DEF On
<1>6. gen \in Rowsets
  BY <1>1, <1>4, <1>5 DEF Merge, Rowsets, AllRows
<1>7. IsFiniteSet(gen)
  BY <1>1, <1>4, <1>5, FS_Subset, FS_Union DEF Merge
<1>8. Max(sizes) \in Nat
  <2>1. \A g \in parts[d] : Cardinality(g) \in Nat /\ Cardinality(g) <= Cardinality(UNION parts[d])
    BY <1>4, FS_Subset, FS_CardinalityType
  <2>2. Cardinality(UNION parts[d]) \in Nat
    BY <1>4, FS_CardinalityType
  <2>3. ASSUME NEW y \in sizes PROVE y \in Nat /\ y <= Cardinality(UNION parts[d])
    <3>1. CASE y = 0
      BY <2>2, <3>1
    <3>2. CASE y # 0
      BY <2>1, <3>2
    <3>. QED
      BY <3>1, <3>2
  <2>4. 0 \in sizes
    OBVIOUS
  <2>. HIDE DEF sizes
  <2>. QED
    BY <2>2, <2>3, <2>4, MaxIsGreatest
<1>9. NewRows(d, gen) \in Nat
  <2>1. Cardinality(gen) \in Nat
    BY <1>7, FS_CardinalityType
  <2>. HIDE DEF gen
  <2>. QED
    BY <2>1, <1>8 DEF NewRows
<1>. QED
  BY <1>3, <1>4, <1>6, <1>7, <1>9

\* The type invariant by the part of the system it is about: the collector's task,
\* the files, the soak's loop and the history.
TaskTypes ==
  /\ venue \in Venues
  /\ pc \in {"idle", "connect", "subscribe", "ping", "receive", "check", "raw", "parquet", "manifest",
            "checkpoint", "quarantine", "failed", "complete", "finish", "ended", "down"}
  /\ why \in {"flush", "final", "error"}
  /\ reason \in Reasons \cup {"none"}
  /\ buffer \in Seq(AllFrames) /\ Len(buffer) <= FlushAt
  /\ made \in SUBSET (AllDays \X Rowsets)
  /\ fresh \in Nat /\ flushed \in Nat
  /\ pc \notin Receiving \cup Persisting \cup {"quarantine"} => buffer = <<>>
  /\ pc \in Receiving => Len(buffer) < FlushAt
  /\ pc \in {"quarantine", "failed"} => reason \in Reasons
  /\ pc \in Persisting /\ why = "error" => reason \in Reasons
  /\ pc \in {"check", "raw"} => made = {} /\ fresh = 0
  /\ pc = "raw" => Rows(buffer) # {}
  /\ pc = "parquet" => Days(Rows(buffer)) \ {p[1] : p \in made} # {}

DiskTypes ==
  /\ raw \in SUBSET Seq(AllFrames) /\ rejected \in SUBSET Seq(AllFrames)
  /\ parts \in [AllDays -> SUBSET Rowsets]
  /\ IsFiniteSet(Stored)
  /\ manifest \in Seq([raw : Seq(AllFrames), parts : SUBSET (AllDays \X Rowsets)])
  /\ checkpoint \in Seq(AllFrames) \cup {Torn}

SoakTypes ==
  /\ attempt \in 0..MaxAttempts /\ outage \in 0..attempt
  /\ errors \in Seq(Reasons)
  /\ outage # 0 => errors # <<>>
  /\ gaps \in Seq([from : 1..MaxAttempts, until : 0..MaxAttempts, reason : Reasons])
  /\ counted \in Nat

HistTypes ==
  /\ before \in Nat
  /\ received \in 0..MaxReceived /\ crashes \in 0..MaxCrash
  /\ seen \subseteq AllFrames /\ gone \subseteq AllFrames
  /\ unready \subseteq AllFrames /\ unpinged \subseteq AllFrames

\* The parts together are the type invariant.
LEMMA TypeParts == TypeInv <=> TaskTypes /\ DiskTypes /\ SoakTypes /\ HistTypes
<1>1. UNION {seen, gone, unready, unpinged} \subseteq AllFrames
        <=> /\ seen \subseteq AllFrames /\ gone \subseteq AllFrames
            /\ unready \subseteq AllFrames /\ unpinged \subseteq AllFrames
  OBVIOUS
<1>. QED
  BY <1>1, Zenon DEF TypeInv, TypeOK, TypeSupport, TaskTypes, DiskTypes, SoakTypes, HistTypes

\* The parts an action leaves alone.
LEMMA QuietTypes ==
  /\ UNCHANGED diskVars /\ DiskTypes => DiskTypes'
  /\ UNCHANGED soakVars /\ SoakTypes => SoakTypes'
  /\ UNCHANGED histVars /\ HistTypes => HistTypes'
<1>1. UNCHANGED diskVars /\ DiskTypes => DiskTypes'
  BY Zenon DEF DiskTypes, diskVars, Stored
<1>2. UNCHANGED soakVars /\ SoakTypes => SoakTypes'
  BY Zenon DEF SoakTypes, soakVars
<1>3. UNCHANGED histVars /\ HistTypes => HistTypes'
  BY Zenon DEF HistTypes, histVars
<1>. QED
  BY <1>1, <1>2, <1>3

\* The first state is well typed.
LEMMA InitTypes == Init => TypeInv
<1>. SUFFICES ASSUME Init PROVE TaskTypes /\ DiskTypes /\ SoakTypes /\ HistTypes
  BY TypeParts
<1>. USE CaptureAssumption DEF Init
<1>1. TaskTypes
  BY EmptySeq DEF TaskTypes, Receiving, Persisting
<1>2. DiskTypes
  <2>1. Stored = {}
    BY DEF Stored
  <2>2. IsFiniteSet(Stored)
    BY <2>1, FS_EmptySet
  <2>. QED
    BY <2>2, EmptySeq DEF DiskTypes, NoBatch
<1>3. SoakTypes
  BY EmptySeq DEF SoakTypes
<1>4. HistTypes
  BY DEF HistTypes
<1>. QED
  BY <1>1, <1>2, <1>3, <1>4

\* What an append does to the types.
LEMMA BufferTypes ==
  ASSUME TaskTypes, HistTypes, NEW f \in AllFrames, Buffer(f)
  PROVE  /\ buffer' \in Seq(AllFrames) /\ Len(buffer') = Len(buffer) + 1
         /\ Len(buffer) \in Nat /\ buffer' # <<>>
         /\ received' \in 0..MaxReceived /\ seen' \subseteq AllFrames
BY CaptureAssumption, AppendProperties, LenProperties DEF TaskTypes, HistTypes, Buffer

\* Connecting, subscribing and receiving keep the types.
LEMMA CollectTypes ==
  ASSUME TaskTypes, DiskTypes, SoakTypes, HistTypes,
         Collect \/ \E f \in AllFrames : ReceiveEarly(f) \/ Receive(f)
  PROVE  TaskTypes' /\ DiskTypes' /\ SoakTypes' /\ HistTypes'
<1>. USE CaptureAssumption DEF Raise, Persist, TurnEnds, Reasons, Receiving, Persisting, batchVars
<1>0. Len(buffer) \in Nat
  BY LenProperties DEF TaskTypes
<1>1. CASE Connect
  <2>1. TaskTypes'
    BY <1>0, <1>1, EmptySeq DEF TaskTypes, Connect
  <2>. QED
    BY <1>1, <2>1, QuietTypes DEF Connect
<1>2. CASE ConnectFails
  <2>1. TaskTypes'
    BY <1>0, <1>2, EmptySeq DEF TaskTypes, ConnectFails
  <2>. QED
    BY <1>2, <2>1, QuietTypes DEF ConnectFails
<1>3. CASE SubscribeFails
  <2>1. TaskTypes'
    BY <1>0, <1>3, EmptySeq DEF TaskTypes, SubscribeFails
  <2>. QED
    BY <1>3, <2>1, QuietTypes DEF SubscribeFails
<1>4. CASE BybitSubscribed
  <2>1. TaskTypes'
    BY <1>0, <1>4, EmptySeq DEF TaskTypes, BybitSubscribed
  <2>. QED
    BY <1>4, <2>1, QuietTypes DEF BybitSubscribed
<1>5. CASE BinanceSubscribed
  <2>1. TaskTypes'
    BY <1>0, <1>5, EmptySeq DEF TaskTypes, BinanceSubscribed
  <2>. QED
    BY <1>5, <2>1, QuietTypes DEF BinanceSubscribed
<1>6. CASE Pong
  <2>1. TaskTypes'
    BY <1>0, <1>6, EmptySeq DEF TaskTypes, Pong
  <2>. QED
    BY <1>6, <2>1, QuietTypes DEF Pong
<1>7. CASE PollTimesOut
  <2>1. TaskTypes'
    BY <1>0, <1>7, EmptySeq DEF TaskTypes, PollTimesOut
  <2>. QED
    BY <1>7, <2>1, QuietTypes DEF PollTimesOut
<1>8. CASE ReceiveFails
  <2>1. TaskTypes'
    BY <1>0, <1>8, EmptySeq DEF TaskTypes, ReceiveFails
  <2>. QED
    BY <1>8, <2>1, QuietTypes DEF ReceiveFails
<1>9. CASE StopReceiving
  <2>1. TaskTypes'
    BY <1>0, <1>9, EmptySeq DEF TaskTypes, StopReceiving
  <2>. QED
    BY <1>9, <2>1, QuietTypes DEF StopReceiving
<1>10. CASE SubscribeRefused
  <2>1. TaskTypes'
    BY <1>10, EmptySeq DEF TaskTypes, SubscribeRefused
  <2>2. HistTypes'
    BY <1>10, RangeIn DEF HistTypes, TaskTypes, SubscribeRefused
  <2>. QED
    BY <1>10, <2>1, <2>2, QuietTypes DEF SubscribeRefused
<1>11. CASE AckUnreadable
  <2>1. TaskTypes'
    BY <1>11, EmptySeq DEF TaskTypes, AckUnreadable
  <2>2. HistTypes'
    BY <1>11, RangeIn DEF HistTypes, TaskTypes, AckUnreadable
  <2>. QED
    BY <1>11, <2>1, <2>2, QuietTypes DEF AckUnreadable
<1>12. CASE PongFails
  <2>1. TaskTypes'
    BY <1>12, EmptySeq DEF TaskTypes, PongFails
  <2>2. HistTypes'
    BY <1>12, RangeIn DEF HistTypes, TaskTypes, PongFails
  <2>. QED
    BY <1>12, <2>1, <2>2, QuietTypes DEF PongFails
<1>13. ASSUME NEW f \in AllFrames, ReceiveEarly(f)
      PROVE  TaskTypes' /\ DiskTypes' /\ SoakTypes' /\ HistTypes'
  <2>1. Buffer(f)
    BY <1>13 DEF ReceiveEarly
  <2>2. TaskTypes'
    BY <1>13, <2>1, BufferTypes DEF TaskTypes, ReceiveEarly
  <2>3. HistTypes'
    BY <1>13, <2>1, BufferTypes DEF HistTypes, ReceiveEarly
  <2>. QED
    BY <1>13, <2>2, <2>3, QuietTypes DEF ReceiveEarly
<1>14. ASSUME NEW f \in AllFrames, Receive(f)
      PROVE  TaskTypes' /\ DiskTypes' /\ SoakTypes' /\ HistTypes'
  <2>1. Buffer(f)
    BY <1>14 DEF Receive
  <2>2. TaskTypes'
    BY <1>14, <2>1, BufferTypes DEF TaskTypes, Receive
  <2>3. HistTypes'
    BY <1>14, <2>1, BufferTypes DEF HistTypes, Receive
  <2>. QED
    BY <1>14, <2>2, <2>3, QuietTypes DEF Receive
<1>. QED
  BY <1>1, <1>2, <1>3, <1>4, <1>5, <1>6, <1>7, <1>8, <1>9, <1>10, <1>11, <1>12, <1>13, <1>14 DEF Collect

\* A manifest row is appended to, or not.
LEMMA PersistTypes ==
  ASSUME TaskTypes, DiskTypes, SoakTypes, HistTypes, PersistBatch
  PROVE  TaskTypes' /\ DiskTypes' /\ SoakTypes' /\ HistTypes'
<1>. USE CaptureAssumption DEF Raise, PersistFails, Reasons, Receiving, Persisting, batchVars
<1>1. CASE Rejected
  <2>1. BatchVerdict(buffer) \in Reasons
    BY <1>1, VerdictTypes DEF Rejected, TaskTypes
  <2>2. TaskTypes'
    BY <1>1, <2>1 DEF TaskTypes, Rejected
  <2>3. UNCHANGED <<diskVars, soakVars, histVars>>
    BY <1>1 DEF Rejected, diskVars
  <2>. QED
    BY <2>2, <2>3, QuietTypes
<1>2. CASE NothingToStore
  <2>1. TaskTypes'
    BY <1>2, EmptySeq DEF TaskTypes, NothingToStore, PersistReturns
  <2>2. SoakTypes'
    BY <1>2 DEF SoakTypes, TaskTypes, NothingToStore, PersistReturns
  <2>. QED
    BY <1>2, <2>1, <2>2, QuietTypes DEF NothingToStore
<1>3. CASE Accepted
  <2>1. TaskTypes'
    BY <1>3 DEF TaskTypes, Accepted
  <2>. QED
    BY <1>3, <2>1, QuietTypes DEF Accepted
<1>4. CASE WriteRaw
  <2>1. Days(Rows(buffer)) # {} /\ {p[1] : p \in {}} = {}
    BY <1>4 DEF WriteRaw, TaskTypes, Days
  <2>2. TaskTypes'
    BY <1>4, <2>1 DEF TaskTypes, WriteRaw
  <2>3. DiskTypes'
    BY <1>4 DEF DiskTypes, TaskTypes, WriteRaw, Stored
  <2>. QED
    BY <1>4, <2>2, <2>3, QuietTypes DEF WriteRaw
<1>5. CASE WriteParquet
  <2>. DEFINE todo == Days(Rows(buffer)) \ {p[1] : p \in made}
              d    == CHOOSE x \in todo : \A y \in todo : x <= y
              gen  == Merge(d, On(Rows(buffer), d))
  <2>1. pc = "parquet"
    BY <1>5 DEF WriteParquet
  <2>2. /\ d \in todo /\ d \in AllDays /\ gen \in Rowsets /\ IsFiniteSet(gen)
        /\ NewRows(d, gen) \in Nat
    BY <2>1, GenerationTypes, TypeParts
  <2>3. /\ parts' = [parts EXCEPT ![d] = @ \cup {gen}]
        /\ made' = made \cup {<<d, gen>>}
        /\ fresh' = fresh + NewRows(d, gen)
        /\ pc' = IF todo = {d} THEN "manifest" ELSE "parquet"
    BY <1>5 DEF WriteParquet
  <2>4. Days(Rows(buffer)) \ {p[1] : p \in made'} = todo \ {d}
    <3>2. {p[1] : p \in made'} = {p[1] : p \in made} \cup {d}
      BY <2>3, FirstsOfAdded
    <3>. HIDE DEF d
    <3>. QED
      BY <3>2
  <2>5. UNION (parts[d] \cup {gen}) = gen
    BY DEF Merge
  <2>. HIDE DEF todo, d, gen
  <2>6. made' \in SUBSET (AllDays \X Rowsets) /\ fresh' \in Nat
    BY <2>2, <2>3 DEF TaskTypes
  <2>7. pc' \in {"parquet", "manifest"} /\ (pc' = "parquet" => todo \ {d} # {})
    BY <2>2, <2>3
  <2>8. TaskTypes'
    BY <1>5, <2>1, <2>4, <2>6, <2>7 DEF TaskTypes, WriteParquet
  <2>9. parts' \in [AllDays -> SUBSET Rowsets]
    BY <2>2, <2>3 DEF DiskTypes
  <2>10. Stored' = Stored \cup gen
    <3>1. \A x \in AllDays : UNION parts'[x] = IF x = d THEN gen ELSE UNION parts[x]
      BY <2>2, <2>3, <2>5 DEF DiskTypes
    <3>2. UNION parts[d] \subseteq gen
      BY <2>5
    <3>. QED
      BY <2>2, <3>1, <3>2 DEF Stored
  <2>12. IsFiniteSet(Stored')
    BY <2>2, <2>10, FS_Union DEF DiskTypes
  <2>13. DiskTypes'
    BY <1>5, <2>9, <2>12 DEF DiskTypes, WriteParquet
  <2>. QED
    BY <1>5, <2>8, <2>13, QuietTypes DEF WriteParquet
<1>6. CASE AppendManifest
  <2>1. TaskTypes'
    BY <1>6 DEF TaskTypes, AppendManifest
  <2>2. [raw |-> buffer, parts |-> made] \in [raw : Seq(AllFrames), parts : SUBSET (AllDays \X Rowsets)]
    BY DEF TaskTypes
  <2>3. manifest' \in Seq([raw : Seq(AllFrames), parts : SUBSET (AllDays \X Rowsets)])
    BY <1>6, <2>2, AppendProperties DEF AppendManifest, DiskTypes
  <2>4. DiskTypes'
    BY <1>6, <2>3 DEF DiskTypes, AppendManifest, Stored
  <2>. QED
    BY <1>6, <2>1, <2>4, QuietTypes DEF AppendManifest
<1>7. CASE WriteCheckpoint
  <2>1. TaskTypes'
    BY <1>7, EmptySeq DEF TaskTypes, WriteCheckpoint, PersistReturns
  <2>2. SoakTypes'
    BY <1>7 DEF SoakTypes, TaskTypes, WriteCheckpoint, PersistReturns
  <2>3. DiskTypes'
    BY <1>7 DEF DiskTypes, TaskTypes, WriteCheckpoint, Stored
  <2>4. HistTypes'
    BY <1>7 DEF HistTypes, WriteCheckpoint
  <2>. QED
    BY <2>1, <2>2, <2>3, <2>4
<1>8. CASE StepFails
  <2>1. PICK r \in IOReasons : PersistFails(r)
    BY <1>8 DEF StepFails
  <2>2. r \in Reasons
    BY <2>1 DEF IOReasons
  <2>. HIDE DEF Reasons
  <2>3. /\ pc' = "quarantine" /\ reason' = r /\ made' = {} /\ fresh' = 0
        /\ UNCHANGED <<venue, flushed, why, buffer, raw, parts, manifest, rejected, soakVars, histVars>>
    BY <2>1
  <2>4. TaskTypes'
    BY <2>2, <2>3 DEF TaskTypes
  <2>5. checkpoint' \in {checkpoint, Torn}
    BY <1>8 DEF StepFails
  <2>6. DiskTypes'
    BY <2>3, <2>5 DEF DiskTypes, Stored
  <2>. QED
    BY <2>3, <2>4, <2>6, QuietTypes
<1>9. CASE QuarantineBuffer
  <2>1. TaskTypes'
    BY <1>9, EmptySeq DEF TaskTypes, QuarantineBuffer
  <2>2. DiskTypes'
    BY <1>9 DEF DiskTypes, TaskTypes, QuarantineBuffer, Stored
  <2>. QED
    BY <1>9, <2>1, <2>2, QuietTypes DEF QuarantineBuffer
<1>10. CASE QuarantineFails
  <2>1. TaskTypes'
    BY <1>10, EmptySeq DEF TaskTypes, QuarantineFails
  <2>2. HistTypes'
    BY <1>10, RangeIn DEF HistTypes, TaskTypes, QuarantineFails
  <2>. QED
    BY <1>10, <2>1, <2>2, QuietTypes DEF QuarantineFails
<1>. QED
  BY <1>1, <1>2, <1>3, <1>4, <1>5, <1>6, <1>7, <1>8, <1>9, <1>10 DEF PersistBatch

\* A gap that is registered has the types of one.
LEMMA RegisterTypes ==
  ASSUME TaskTypes, SoakTypes, NEW until \in 0..MaxAttempts,
         RegisterGap(until, IF errors = <<>> THEN "none" ELSE Last(errors))
  PROVE  gaps' \in Seq([from : 1..MaxAttempts, until : 0..MaxAttempts, reason : Reasons])
<1>. DEFINE GapType == [from : 1..MaxAttempts, until : 0..MaxAttempts, reason : Reasons]
            r == IF errors = <<>> THEN "none" ELSE Last(errors)
<1>1. CASE outage = 0
  BY <1>1 DEF RegisterGap, SoakTypes
<1>2. CASE outage # 0
  <2>1. Len(errors) \in Nat \ {0} /\ errors # <<>>
    BY <1>2, EmptySeq DEF SoakTypes
  <2>2. r \in Reasons
    BY <2>1, ElementOfSeq DEF SoakTypes, Last
  <2>3. outage \in 1..MaxAttempts
    BY <1>2, CaptureAssumption DEF SoakTypes
  <2>. HIDE DEF r
  <2>4. Gap(until, r) \in GapType
    BY <2>2, <2>3 DEF Gap
  <2>5. gaps' = Append(gaps, Gap(until, r))
    BY <1>2 DEF RegisterGap, r
  <2>. QED
    BY <2>4, <2>5, AppendProperties DEF SoakTypes
<1>. QED
  BY <1>1, <1>2

\* The attempt loop, the end of the process and a new run keep the types.
LEMMA LoopTypes ==
  ASSUME TaskTypes, DiskTypes, SoakTypes, HistTypes, Soak \/ Crash \/ StartRun
  PROVE  TaskTypes' /\ DiskTypes' /\ SoakTypes' /\ HistTypes'
<1>. USE CaptureAssumption DEF Receiving, Persisting, batchVars
<1>1. CASE StartAttempt
  <2>1. TaskTypes'
    BY <1>1 DEF TaskTypes, StartAttempt
  <2>2. SoakTypes'
    BY <1>1 DEF SoakTypes, StartAttempt
  <2>. QED
    BY <1>1, <2>1, <2>2, QuietTypes DEF StartAttempt
<1>2. CASE DeadlinePasses
  <2>1. TaskTypes'
    BY <1>2 DEF TaskTypes, DeadlinePasses
  <2>. QED
    BY <1>2, <2>1, QuietTypes DEF DeadlinePasses
<1>3. CASE AttemptCompletes
  <2>1. TaskTypes'
    BY <1>3 DEF TaskTypes, AttemptCompletes
  <2>2. gaps' \in Seq([from : 1..MaxAttempts, until : 0..MaxAttempts, reason : Reasons])
    BY <1>3, RegisterTypes DEF AttemptCompletes, SoakTypes
  <2>3. SoakTypes'
    BY <1>3, <2>2 DEF SoakTypes, TaskTypes, AttemptCompletes
  <2>. QED
    BY <1>3, <2>1, <2>3, QuietTypes DEF AttemptCompletes
<1>4. CASE AttemptFails
  <2>1. TaskTypes'
    BY <1>4 DEF TaskTypes, AttemptFails
  <2>2. gaps' \in Seq([from : 1..MaxAttempts, until : 0..MaxAttempts, reason : Reasons])
    BY <1>4, RegisterTypes DEF AttemptFails, SoakTypes
  <2>3. errors' \in Seq(Reasons) /\ errors' # <<>>
    BY <1>4, AppendProperties DEF AttemptFails, SoakTypes, TaskTypes
  <2>4. SoakTypes'
    BY <1>4, <2>2, <2>3 DEF SoakTypes, AttemptFails
  <2>. QED
    BY <1>4, <2>1, <2>4, QuietTypes DEF AttemptFails
<1>5. CASE FinishRun
  <2>1. TaskTypes'
    BY <1>5 DEF TaskTypes, FinishRun
  <2>2. gaps' \in Seq([from : 1..MaxAttempts, until : 0..MaxAttempts, reason : Reasons])
    <3>1. 0 \in 0..MaxAttempts
      OBVIOUS
    <3>. QED
      BY <1>5, <3>1, RegisterTypes DEF FinishRun
  <2>3. SoakTypes'
    BY <1>5, <2>2 DEF SoakTypes, FinishRun
  <2>. QED
    BY <1>5, <2>1, <2>3, QuietTypes DEF FinishRun
<1>6. CASE Crash
  <2>1. TaskTypes'
    BY <1>6, EmptySeq DEF TaskTypes, Crash
  <2>2. DiskTypes'
    BY <1>6 DEF DiskTypes, Crash, Stored
  <2>3. HistTypes'
    BY <1>6, RangeIn DEF HistTypes, TaskTypes, Crash
  <2>. QED
    BY <1>6, <2>1, <2>2, <2>3, QuietTypes DEF Crash
<1>7. CASE StartRun
  <2>1. TaskTypes'
    BY <1>7 DEF TaskTypes, StartRun
  <2>2. SoakTypes'
    BY <1>7, EmptySeq DEF SoakTypes, StartRun
  <2>3. Cardinality(Stored) \in Nat
    BY FS_CardinalityType DEF DiskTypes
  <2>4. HistTypes'
    BY <1>7, <2>3 DEF HistTypes, StartRun
  <2>. QED
    BY <1>7, <2>1, <2>2, <2>4, QuietTypes DEF StartRun
<1>8. CASE CompletionFails
  <2>1. TaskTypes'
    BY <1>8 DEF TaskTypes, CompletionFails, Reasons
  <2>2. gaps' \in Seq([from : 1..MaxAttempts, until : 0..MaxAttempts, reason : Reasons])
    BY <1>8, RegisterTypes DEF CompletionFails, SoakTypes
  <2>3. SoakTypes'
    BY <1>8, <2>2 DEF SoakTypes, TaskTypes, CompletionFails
  <2>. QED
    BY <1>8, <2>1, <2>3, QuietTypes DEF CompletionFails
<1>. QED
  BY <1>1, <1>2, <1>3, <1>4, <1>5, <1>6, <1>7, <1>8 DEF Soak

\* TypeOK, with what it rests on, holds in every state.
THEOREM TypeCorrect == Spec => []TypeInv
<1>0. (TypeInv <=> TaskTypes /\ DiskTypes /\ SoakTypes /\ HistTypes)'
  BY TypeParts, PTL
<1>1. TypeInv /\ [Next]_vars => TypeInv'
  <2>. SUFFICES ASSUME TypeInv, [Next]_vars PROVE TypeInv'
    OBVIOUS
  <2>1. TaskTypes /\ DiskTypes /\ SoakTypes /\ HistTypes
    BY TypeParts
  <2>2. CASE Next
    <3>1. CASE Collect \/ \E f \in AllFrames : ReceiveEarly(f) \/ Receive(f)
      BY <1>0, <2>1, <3>1, CollectTypes
    <3>2. CASE PersistBatch
      BY <1>0, <2>1, <3>2, PersistTypes
    <3>3. CASE Soak \/ Crash \/ StartRun
      BY <1>0, <2>1, <3>3, LoopTypes
    <3>. QED
      BY <2>2, <3>1, <3>2, <3>3 DEF Next
  <2>3. CASE UNCHANGED vars
    <3>1. TaskTypes'
      BY <2>1, <2>3, Zenon DEF vars, batchVars, TaskTypes
    <3>. QED
      BY <1>0, <2>1, <2>3, <3>1, QuietTypes DEF vars
  <2>. QED
    BY <2>2, <2>3
<1>. QED
  BY <1>1, InitTypes, PTL DEF Spec

-----------------------------------------------------------------------------
(* The files                                                               *)

Writing == {"parquet", "manifest", "checkpoint"}

InManifest(b, gens) ==
  /\ \E row \in Range(manifest) : row.raw = b
  /\ \A p \in gens : \E row \in Range(manifest) : p \in row.parts

\* What the batch being persisted has stored at each of its steps.
StepInv ==
  /\ pc \in Writing => /\ buffer \in raw
                       /\ \A p \in made : p[2] \in parts[p[1]] /\ On(Rows(buffer), p[1]) \subseteq p[2]
  /\ pc \in {"manifest", "checkpoint"} => Days(Rows(buffer)) \subseteq {p[1] : p \in made}
  /\ pc = "checkpoint" => InManifest(buffer, made)

\* What a manifest row names is there and holds its batch.
RowsAreBacked ==
  \A row \in Range(manifest) :
    /\ row.raw \in raw
    /\ \A p \in row.parts : p[2] \in parts[p[1]]
    /\ Rows(row.raw) \subseteq UNION {p[2] : p \in row.parts}

NoRowTwice == \A i, j \in DOMAIN manifest : manifest[i] = manifest[j] => i = j

CheckpointInv ==
  /\ checkpoint \in {row.raw : row \in Range(manifest)} \cup {NoBatch, Torn}
  /\ checkpoint = Torn => venue = "bybit"

FinishedInv == \A b \in finished : InManifest(b.raw, b.parts)

FilesInv ==
  StepInv /\ RowsAreBacked /\ NoRowTwice /\ CheckpointInv /\ FinishedInv /\ LargestIsWhole

\* An action that touches no file keeps the files as they are.
LEMMA QuietFiles ==
  ASSUME FilesInv, UNCHANGED <<venue, raw, parts, manifest, checkpoint, finished>>,
         pc' \notin Writing
  PROVE  FilesInv'
<1>1. StepInv'
  BY DEF StepInv, Writing
<1>2. RowsAreBacked' /\ NoRowTwice' /\ CheckpointInv' /\ FinishedInv' /\ LargestIsWhole'
  BY Zenon DEF FilesInv, RowsAreBacked, NoRowTwice, CheckpointInv, FinishedInv, InManifest, LargestIsWhole
<1>. QED
  BY <1>1, <1>2 DEF FilesInv

\* The actions that touch no file, but for the quarantine.
QuietStep ==
  \/ Collect \/ \E f \in AllFrames : ReceiveEarly(f) \/ Receive(f)
  \/ Rejected \/ NothingToStore \/ Accepted \/ QuarantineBuffer \/ QuarantineFails
  \/ Soak \/ StartRun

\* The steps outside the persistence of a batch leave the disk alone and begin no write.
LEMMA QuietStepIsQuiet ==
  ASSUME TypeInv, QuietStep
  PROVE  /\ UNCHANGED <<venue, raw, parts, manifest, checkpoint, finished>>
         /\ pc' \notin Writing
<1>. USE DEF Writing, diskVars, histVars, batchVars, soakVars, Raise, Persist, PersistFails
<1>1. CASE Collect
  BY <1>1 DEF Collect, Connect, ConnectFails, SubscribeRefused, AckUnreadable, SubscribeFails,
              BybitSubscribed, BinanceSubscribed, Pong, PongFails, PollTimesOut, ReceiveFails,
              StopReceiving, TurnEnds
<1>2. CASE \E f \in AllFrames : ReceiveEarly(f) \/ Receive(f)
  BY <1>2 DEF ReceiveEarly, Receive, Buffer, TurnEnds
<1>3. CASE Rejected \/ NothingToStore \/ Accepted \/ QuarantineBuffer \/ QuarantineFails
  BY <1>3 DEF Rejected, NothingToStore, Accepted, QuarantineBuffer, QuarantineFails,
              PersistReturns, TypeInv, TypeOK
<1>4. CASE Soak \/ StartRun
  BY <1>4 DEF Soak, StartAttempt, DeadlinePasses, AttemptCompletes, CompletionFails, AttemptFails,
              FinishRun, StartRun
<1>. QED
  BY <1>1, <1>2, <1>3, <1>4 DEF QuietStep

\* Every row of a batch whose days are all written is in one of its generations.
LEMMA MadeHoldsBatch ==
  ASSUME TypeInv, StepInv, pc \in {"manifest", "checkpoint"}
  PROVE  /\ Rows(buffer) \subseteq UNION {p[2] : p \in made}
         /\ Rows(buffer) \subseteq Stored
<1>1. /\ Days(Rows(buffer)) \subseteq {p[1] : p \in made}
      /\ \A p \in made : p[2] \in parts[p[1]] /\ On(Rows(buffer), p[1]) \subseteq p[2]
  BY DEF StepInv, Writing
<1>2. ASSUME NEW e \in Rows(buffer)
      PROVE  \E p \in made : e \in p[2] /\ p[2] \in parts[p[1]] /\ p[1] \in AllDays
  <2>1. DayOf(e) \in Days(Rows(buffer))
    BY DEF Days
  <2>2. PICK p \in made : p[1] = DayOf(e)
    BY <1>1, <2>1
  <2>3. e \in On(Rows(buffer), p[1])
    BY <2>2 DEF On
  <2>. QED
    BY <1>1, <2>2, <2>3 DEF TypeInv, TypeOK
<1>. QED
  BY <1>2 DEF Stored

\* Writing the raw file.
LEMMA RawKeepsFiles ==
  ASSUME TypeInv, FilesInv, WriteRaw
  PROVE  FilesInv'
<1>1. /\ pc' = "parquet" /\ raw' = raw \cup {buffer} /\ made = {} /\ made' = made /\ buffer' = buffer
      /\ parts' = parts /\ manifest' = manifest /\ checkpoint' = checkpoint
      /\ venue' = venue /\ finished' = finished
  BY DEF WriteRaw, batchVars, histVars, TypeInv, TypeSupport
<1>2. StepInv'
  BY <1>1 DEF StepInv
<1>3. RowsAreBacked'
  BY <1>1 DEF FilesInv, RowsAreBacked
<1>4. NoRowTwice' /\ CheckpointInv' /\ FinishedInv' /\ LargestIsWhole'
  BY <1>1, Zenon DEF FilesInv, NoRowTwice, CheckpointInv, FinishedInv, InManifest, LargestIsWhole
<1>. QED
  BY <1>2, <1>3, <1>4 DEF FilesInv

\* Writing one partition.
LEMMA ParquetKeepsFiles ==
  ASSUME TypeInv, FilesInv, WriteParquet
  PROVE  FilesInv' /\ Stored \subseteq Stored'
<1>. DEFINE todo == Days(Rows(buffer)) \ {p[1] : p \in made}
            d    == CHOOSE x \in todo : \A y \in todo : x <= y
            gen  == Merge(d, On(Rows(buffer), d))
<1>1. pc = "parquet" /\ buffer' = buffer /\ raw' = raw /\ manifest' = manifest
      /\ checkpoint' = checkpoint /\ venue' = venue /\ finished' = finished
  BY DEF WriteParquet, histVars
<1>2. d \in todo /\ d \in AllDays
  BY <1>1, GenerationTypes
<1>3. /\ parts' = [parts EXCEPT ![d] = @ \cup {gen}]
      /\ made' = made \cup {<<d, gen>>}
      /\ pc' = IF todo = {d} THEN "manifest" ELSE "parquet"
  BY DEF WriteParquet
<1>4. UNION (parts[d] \cup {gen}) = gen /\ On(Rows(buffer), d) \subseteq gen
  BY DEF Merge
<1>5. {p[1] : p \in made'} = {p[1] : p \in made} \cup {d}
  BY <1>3, FirstsOfAdded
<1>6. todo = Days(Rows(buffer)) \ {p[1] : p \in made}
  OBVIOUS
<1>. HIDE DEF todo, d, gen
<1>7. \A x \in AllDays : parts'[x] = IF x = d THEN parts[d] \cup {gen} ELSE parts[x]
  BY <1>2, <1>3 DEF TypeInv, TypeOK
<1>8. \A x \in AllDays : parts[x] \subseteq parts'[x]
  BY <1>7
<1>9. ASSUME NEW p \in made'
      PROVE  p[2] \in parts'[p[1]] /\ On(Rows(buffer), p[1]) \subseteq p[2]
  <2>1. CASE p \in made
    BY <1>1, <1>8, <2>1 DEF FilesInv, StepInv, Writing, TypeInv, TypeOK
  <2>2. CASE p = <<d, gen>>
    BY <1>2, <1>4, <1>7, <2>2
  <2>. QED
    BY <1>3, <2>1, <2>2
<1>10. pc' \in {"parquet", "manifest"} /\ (pc' = "manifest" => Days(Rows(buffer)) \subseteq {p[1] : p \in made'})
  BY <1>3, <1>5, <1>6
<1>11. StepInv'
  BY <1>1, <1>9, <1>10 DEF FilesInv, StepInv, Writing
<1>12. RowsAreBacked'
  <2>. SUFFICES ASSUME NEW row \in Range(manifest)
                PROVE  /\ row.raw \in raw
                       /\ \A p \in row.parts : p[2] \in parts'[p[1]]
                       /\ Rows(row.raw) \subseteq UNION {p[2] : p \in row.parts}
    BY <1>1 DEF RowsAreBacked
  <2>. DEFINE RowType == [raw : Seq(AllFrames), parts : SUBSET (AllDays \X Rowsets)]
  <2>1. manifest \in Seq(RowType)
    BY DEF TypeInv, TypeOK
  <2>2. row \in RowType
    <3>. HIDE DEF RowType
    <3>. QED
      BY <2>1, RangeIn
  <2>3. row.parts \subseteq AllDays \X Rowsets
    BY <2>2
  <2>4. \A p \in row.parts : p[1] \in AllDays
    BY <2>3
  <2>5. /\ row.raw \in raw
        /\ \A p \in row.parts : p[2] \in parts[p[1]]
        /\ Rows(row.raw) \subseteq UNION {p[2] : p \in row.parts}
    BY DEF FilesInv, RowsAreBacked
  <2>6. \A p \in row.parts : p[2] \in parts'[p[1]]
    BY <1>8, <2>4, <2>5
  <2>. QED
    BY <2>5, <2>6
<1>13. LargestIsWhole'
  <2>. SUFFICES ASSUME NEW x \in AllDays, parts'[x] # {}
                PROVE  \E g \in parts'[x] : UNION parts'[x] \subseteq g
    BY DEF LargestIsWhole
  <2>1. CASE x = d
    <3>1. parts'[x] = parts[d] \cup {gen}
      BY <1>2, <1>7, <2>1
    <3>. QED
      BY <1>4, <3>1
  <2>2. CASE x # d
    BY <1>7, <2>2 DEF FilesInv, LargestIsWhole
  <2>. QED
    BY <2>1, <2>2
<1>14. NoRowTwice' /\ CheckpointInv' /\ FinishedInv'
  BY <1>1, Zenon DEF FilesInv, NoRowTwice, CheckpointInv, FinishedInv, InManifest
<1>15. Stored \subseteq Stored'
  BY <1>8 DEF Stored
<1>. QED
  BY <1>11, <1>12, <1>13, <1>14, <1>15 DEF FilesInv

\* Recording the batch.
LEMMA ManifestKeepsFiles ==
  ASSUME TypeInv, FilesInv, AppendManifest
  PROVE  /\ FilesInv'
         /\ \/ manifest' = manifest
            \/ Range(manifest') = Range(manifest) \cup {[raw |-> buffer, parts |-> made]}
<1>. DEFINE new == [raw |-> buffer, parts |-> made]
            Row == [raw : Seq(AllFrames), parts : SUBSET (AllDays \X Rowsets)]
<1>1. /\ pc = "manifest" /\ pc' = "checkpoint" /\ buffer' = buffer /\ made' = made /\ raw' = raw
      /\ parts' = parts /\ checkpoint' = checkpoint /\ venue' = venue /\ finished' = finished
      /\ manifest' = IF Recorded THEN manifest ELSE Append(manifest, new)
  BY DEF AppendManifest, batchVars, histVars
<1>2. new \in Row /\ manifest \in Seq(Row)
  BY DEF TypeInv, TypeOK
<1>3. /\ Range(Append(manifest, new)) = Range(manifest) \cup {new}
      /\ Len(Append(manifest, new)) = Len(manifest) + 1
      /\ \A i \in 1..Len(manifest) : Append(manifest, new)[i] = manifest[i]
      /\ Append(manifest, new)[Len(manifest) + 1] = new
      /\ DOMAIN Append(manifest, new) = 1..Len(manifest) + 1
      /\ DOMAIN manifest = 1..Len(manifest) /\ Len(manifest) \in Nat
      /\ \A i \in DOMAIN manifest : manifest[i] \in Range(manifest)
  <2>. HIDE DEF new, Row
  <2>1. Append(manifest, new) \in Seq(Row) /\ Range(Append(manifest, new)) = Range(manifest) \cup {new}
    BY <1>2, RangeAppend
  <2>2. /\ Len(Append(manifest, new)) = Len(manifest) + 1
        /\ \A i \in 1..Len(manifest) : Append(manifest, new)[i] = manifest[i]
        /\ Append(manifest, new)[Len(manifest) + 1] = new
    BY <1>2, RangeAppend
  <2>3. DOMAIN manifest = 1..Len(manifest) /\ Len(manifest) \in Nat
    BY <1>2, RangeIn
  <2>4. DOMAIN Append(manifest, new) = 1..Len(manifest) + 1
    BY <2>1, <2>2, RangeIn
  <2>5. \A i \in DOMAIN manifest : manifest[i] \in Range(manifest)
    BY <1>2, <2>3, RangeIn
  <2>. QED
    BY <2>1, <2>2, <2>3, <2>4, <2>5
<1>4. new.raw = buffer /\ new.parts = made
  OBVIOUS
<1>5. ~Recorded => new \notin Range(manifest)
  BY <1>4 DEF Recorded, BinanceRecorded, BybitRecorded
<1>6. Recorded => InManifest(buffer, made)
  BY DEF Recorded, BinanceRecorded, BybitRecorded, InManifest
<1>. HIDE DEF new, Row
<1>7. Range(manifest') = IF Recorded THEN Range(manifest) ELSE Range(manifest) \cup {new}
  BY <1>1, <1>3
<1>8. InManifest(buffer, made)'
  BY <1>1, <1>4, <1>6, <1>7 DEF InManifest
<1>9. StepInv'
  BY <1>1, <1>8 DEF FilesInv, StepInv, Writing
<1>10. RowsAreBacked'
  <2>1. new.raw \in raw /\ \A p \in new.parts : p[2] \in parts[p[1]]
    BY <1>1, <1>4 DEF FilesInv, StepInv, Writing
  <2>2. Rows(new.raw) \subseteq UNION {p[2] : p \in new.parts}
    BY <1>1, <1>4, MadeHoldsBatch DEF FilesInv
  <2>. QED
    BY <1>1, <1>7, <2>1, <2>2 DEF FilesInv, RowsAreBacked
<1>11. NoRowTwice'
  <2>1. CASE Recorded
    BY <1>1, <2>1 DEF FilesInv, NoRowTwice
  <2>2. CASE ~Recorded
    <3>. SUFFICES ASSUME NEW i \in 1..Len(manifest) + 1, NEW j \in 1..Len(manifest) + 1,
                         manifest'[i] = manifest'[j]
                  PROVE  i = j
      BY <1>1, <1>3, <2>2 DEF NoRowTwice
    <3>1. \A k \in 1..Len(manifest) : manifest'[k] = manifest[k] /\ manifest[k] # new
      BY <1>1, <1>3, <1>5, <2>2
    <3>2. manifest'[Len(manifest) + 1] = new
      BY <1>1, <1>3, <2>2
    <3>. QED
      BY <1>3, <3>1, <3>2 DEF FilesInv, NoRowTwice
  <2>. QED
    BY <2>1, <2>2
<1>12. CheckpointInv' /\ FinishedInv'
  BY <1>1, <1>7 DEF FilesInv, CheckpointInv, FinishedInv, InManifest
<1>13. LargestIsWhole'
  BY <1>1, Zenon DEF FilesInv, LargestIsWhole
<1>. QED
  BY <1>1, <1>7, <1>9, <1>10, <1>11, <1>12, <1>13 DEF FilesInv, new

\* Writing the checkpoint; the persistence returns.
LEMMA CheckpointKeepsFiles ==
  ASSUME TypeInv, FilesInv, WriteCheckpoint
  PROVE  FilesInv' /\ buffer \in {row.raw : row \in Range(manifest)} /\ buffer # Torn
<1>1. /\ pc = "checkpoint" /\ pc' \notin Writing /\ checkpoint' = buffer
      /\ raw' = raw /\ parts' = parts /\ manifest' = manifest /\ venue' = venue
      /\ finished' = finished \cup {[raw |-> buffer, parts |-> made]}
  BY DEF WriteCheckpoint, PersistReturns, TypeInv, TypeOK, Writing
<1>2. InManifest(buffer, made)
  BY <1>1 DEF FilesInv, StepInv
<1>3. buffer # Torn
  <2>1. Torn \notin Seq(AllFrames)
    <3>. SUFFICES ASSUME Torn \in Seq(AllFrames) PROVE FALSE
      OBVIOUS
    <3>1. Torn[1] \in AllFrames /\ Torn[1] = "torn"
      BY ElementOfSeq DEF Torn
    <3>. QED
      BY <3>1, CaptureAssumption
  <2>. QED
    BY <2>1 DEF TypeInv, TypeOK
<1>4. StepInv'
  BY <1>1 DEF StepInv, Writing
<1>5. buffer \in {row.raw : row \in Range(manifest)}
  BY <1>2 DEF InManifest
<1>6. CheckpointInv' /\ FinishedInv'
  BY <1>1, <1>2, <1>3, <1>5 DEF FilesInv, CheckpointInv, FinishedInv, InManifest
<1>7. RowsAreBacked' /\ NoRowTwice' /\ LargestIsWhole'
  BY <1>1, Zenon DEF FilesInv, RowsAreBacked, NoRowTwice, LargestIsWhole
<1>. QED
  BY <1>3, <1>4, <1>5, <1>6, <1>7 DEF FilesInv

\* The end of the process, or a failed step: a checkpoint written in place may be torn.
LEMMA CutKeepsFiles ==
  ASSUME TypeInv, FilesInv, Crash \/ StepFails
  PROVE  FilesInv' /\ checkpoint' \in {checkpoint, Torn}
<1>1. /\ pc' \in {"down", "quarantine"} /\ raw' = raw /\ parts' = parts /\ manifest' = manifest
      /\ venue' = venue /\ finished' = finished
      /\ checkpoint' = checkpoint \/ (checkpoint' = Torn /\ venue = "bybit")
  BY DEF Crash, StepFails, PersistFails, CheckpointTears, histVars
<1>2. StepInv'
  BY <1>1 DEF StepInv, Writing
<1>3. CheckpointInv'
  BY <1>1 DEF FilesInv, CheckpointInv
<1>4. RowsAreBacked' /\ NoRowTwice' /\ FinishedInv' /\ LargestIsWhole'
  BY <1>1, Zenon DEF FilesInv, RowsAreBacked, NoRowTwice, FinishedInv, InManifest, LargestIsWhole
<1>. QED
  BY <1>1, <1>2, <1>3, <1>4 DEF FilesInv

\* A step is quiet for the files or one of five.
LEMMA NextIsOneOf ==
  Next => QuietStep \/ WriteRaw \/ WriteParquet \/ AppendManifest \/ WriteCheckpoint
          \/ Crash \/ StepFails
BY DEF Next, QuietStep, PersistBatch

\* Whatever cuts a batch off, what the manifest and the checkpoint name is there.
THEOREM FilesInductive == Spec => []FilesInv
<1>1. Init => FilesInv
  <2>. SUFFICES ASSUME Init PROVE FilesInv
    OBVIOUS
  <2>1. Range(manifest) = {} /\ DOMAIN manifest = {} /\ NoBatch # Torn
    BY RangeIn, EmptySeq DEF Init, NoBatch, Torn, Range
  <2>. QED
    BY <2>1 DEF Init, FilesInv, StepInv, RowsAreBacked, NoRowTwice, CheckpointInv, FinishedInv,
                LargestIsWhole, Writing
<1>2. TypeInv /\ FilesInv /\ [Next]_vars => FilesInv'
  <2>. SUFFICES ASSUME TypeInv, FilesInv, [Next]_vars PROVE FilesInv'
    OBVIOUS
  <2>1. CASE QuietStep
    BY <2>1, QuietStepIsQuiet, QuietFiles
  <2>2. CASE UNCHANGED vars
    BY <2>2, Zenon DEF vars, batchVars, diskVars, histVars, FilesInv, StepInv, RowsAreBacked,
         NoRowTwice, CheckpointInv, FinishedInv, InManifest, LargestIsWhole
  <2>. QED
    BY <2>1, <2>2, NextIsOneOf, RawKeepsFiles, ParquetKeepsFiles, ManifestKeepsFiles,
       CheckpointKeepsFiles, CutKeepsFiles
<1>. QED
  BY <1>1, <1>2, TypeCorrect, PTL DEF Spec

\* After any history of failures, crashes and replays the data root passes its audit.
THEOREM AuditAlwaysPasses == Spec => []AuditPasses
<1>1. FilesInv => AuditPasses
  BY DEF FilesInv, RowsAreBacked, NoRowTwice, CheckpointInv, AuditPasses, BrokenRefs
<1>. QED
  BY <1>1, FilesInductive, PTL

\* A reader that takes the largest generation of a partition misses no row.
THEOREM LargestHoldsAll == Spec => []LargestIsWhole
<1>1. FilesInv => LargestIsWhole
  BY DEF FilesInv
<1>. QED
  BY <1>1, FilesInductive, PTL

\* A batch whose persistence has returned is in the manifest, with every row.
THEOREM FinishedStays == Spec => []FinishedIsManifested
<1>1. FilesInv => FinishedIsManifested
  BY DEF FilesInv, FinishedInv, InManifest, RowsAreBacked, FinishedIsManifested
<1>. QED
  BY <1>1, FilesInductive, PTL

-----------------------------------------------------------------------------
(* The collector implements the durable log                                *)

\* The first state is the log's, and every step is a step of the log or none.
LEMMA LogInit == Init => Log!Init
<1>. SUFFICES ASSUME Init PROVE Log!Init
  OBVIOUS
<1>1. Stored = {}
  BY DEF Init, Stored
<1>2. {row.raw : row \in Range(manifest)} = {}
  BY DEF Init, Range
<1>3. NoBatch # Torn
  BY EmptySeq DEF NoBatch, Torn
<1>. QED
  BY <1>1, <1>2, <1>3 DEF Init, Log!Init

\* The raw files that the rows name, after one more row.
LEMMA RawsOfAdded ==
  ASSUME NEW S, NEW b, NEW gens
  PROVE  {row.raw : row \in S \cup {[raw |-> b, parts |-> gens]}} = {row.raw : row \in S} \cup {b}
<1>1. [raw |-> b, parts |-> gens].raw = b
  OBVIOUS
<1>2. ASSUME NEW x \in {row.raw : row \in S \cup {[raw |-> b, parts |-> gens]}}
      PROVE  x \in {row.raw : row \in S} \cup {b}
  BY <1>1, Zenon
<1>3. ASSUME NEW x \in {row.raw : row \in S} \cup {b}
      PROVE  x \in {row.raw : row \in S \cup {[raw |-> b, parts |-> gens]}}
  BY <1>1, Zenon
<1>. QED
  BY <1>2, <1>3, Zenon

\* Every step is a step of the log or leaves what the log sees alone.
LEMMA LogStep ==
  TypeInv /\ FilesInv /\ [Next]_vars =>
    [Log!Next]_<<Stored, {row.raw : row \in Range(manifest)},
                 IF checkpoint = Torn THEN NoBatch ELSE checkpoint>>
<1>. DEFINE done == {row.raw : row \in Range(manifest)}
            mark == IF checkpoint = Torn THEN NoBatch ELSE checkpoint
<1>. SUFFICES ASSUME TypeInv, FilesInv, [Next]_vars
              PROVE  Log!Next \/ UNCHANGED <<Stored, done, mark>>
  OBVIOUS
<1>1. CASE QuietStep \/ UNCHANGED vars
  <2>1. UNCHANGED <<parts, manifest, checkpoint>>
    BY <1>1, QuietStepIsQuiet DEF vars, diskVars
  <2>. QED
    BY <2>1 DEF Stored
<1>2. CASE WriteRaw
  BY <1>2 DEF WriteRaw, Stored
<1>3. CASE WriteParquet
  <2>1. Stored \subseteq Stored'
    BY <1>3, ParquetKeepsFiles
  <2>2. UNCHANGED <<manifest, checkpoint>>
    BY <1>3 DEF WriteParquet
  <2>3. Log!Store
    BY <2>1, <2>2 DEF Log!Store
  <2>. QED
    BY <2>3 DEF Log!Next
<1>4. CASE AppendManifest
  <2>1. UNCHANGED <<parts, checkpoint>>
    BY <1>4 DEF AppendManifest
  <2>2. CASE manifest' = manifest
    BY <2>1, <2>2 DEF Stored
  <2>3. CASE Range(manifest') = Range(manifest) \cup {[raw |-> buffer, parts |-> made]}
    <3>1. buffer \in BoundedSeq(AllFrames, FlushAt)
      <4>1. Len(buffer) \in 0..FlushAt /\ buffer \in [1..Len(buffer) -> AllFrames]
        BY LenProperties, CaptureAssumption DEF TypeInv, TypeOK
      <4>. QED
        BY <4>1 DEF BoundedSeq, SeqOf
    <3>2. Rows(buffer) \subseteq Stored
      BY <1>4, MadeHoldsBatch DEF AppendManifest, FilesInv
    <3>3. done' = done \cup {buffer}
      <4>1. done' = {row.raw : row \in Range(manifest) \cup {[raw |-> buffer, parts |-> made]}}
        BY <2>3, Zenon
      <4>2. {row.raw : row \in Range(manifest) \cup {[raw |-> buffer, parts |-> made]}} = done \cup {buffer}
        BY RawsOfAdded, Zenon
      <4>. QED
        BY <4>1, <4>2, Zenon
    <3>4. UNCHANGED <<Stored, mark>>
      BY <2>1 DEF Stored
    <3>5. Log!Commit
      BY <3>1, <3>2, <3>3, <3>4 DEF Log!Commit
    <3>. QED
      BY <3>5 DEF Log!Next
  <2>. QED
    BY <1>4, <2>2, <2>3, ManifestKeepsFiles
<1>5. CASE WriteCheckpoint
  <2>1. buffer \in done /\ buffer # Torn
    BY <1>5, CheckpointKeepsFiles
  <2>2. checkpoint' = buffer /\ UNCHANGED <<parts, manifest>>
    BY <1>5 DEF WriteCheckpoint
  <2>3. Log!Checkpoint
    BY <2>1, <2>2 DEF Log!Checkpoint, Stored
  <2>. QED
    BY <2>3 DEF Log!Next
<1>6. CASE Crash \/ StepFails
  <2>1. UNCHANGED <<parts, manifest>> /\ checkpoint' \in {checkpoint, Torn}
    BY <1>6, CutKeepsFiles DEF Crash, StepFails, PersistFails
  <2>2. CASE checkpoint' = checkpoint
    BY <2>1, <2>2 DEF Stored
  <2>3. CASE checkpoint' = Torn
    <3>1. Log!Forget
      BY <2>1, <2>3 DEF Log!Forget, Stored
    <3>. QED
      BY <3>1 DEF Log!Next
  <2>. QED
    BY <2>1, <2>2, <2>3
<1>. QED
  BY <1>1, <1>2, <1>3, <1>4, <1>5, <1>6, NextIsOneOf

\* Whatever a failure, a crash or a replay cuts off or repeats, the files behave like
\* the durable log: rows, then the manifest row, then the checkpoint.
THEOREM ImplementsLog == Spec => CommitsLikeALog
<1>. QED
  BY LogInit, LogStep, TypeCorrect, FilesInductive, PTL DEF Spec, CommitsLikeALog, Log!Spec

-----------------------------------------------------------------------------
(* The frames                                                              *)

\* Where a frame that has left the buffer may be.
Elsewhere == Kept \cup Eventless \cup gone \cup unready \cup unpinged

\* No place loses a frame, and the buffer gives its frames up to one of them.
FramesMove ==
  /\ seen' \subseteq seen \cup Range(buffer')
  /\ raw \subseteq raw' /\ rejected \subseteq rejected'
  /\ gone \subseteq gone' /\ unready \subseteq unready' /\ unpinged \subseteq unpinged'
  /\ Range(buffer) \subseteq Range(buffer') \cup Elsewhere'

\* Such a step loses no frame.
LEMMA MoveKeepsFrames == FramesAreKept /\ FramesMove => FramesAreKept'
<1>1. FramesMove => Kept \subseteq Kept'
  BY DEF FramesMove, Kept
<1>2. Eventless' = Eventless
  BY DEF Eventless
<1>. QED
  BY <1>1, <1>2 DEF FramesMove, FramesAreKept, Elsewhere

\* The frames of a batch without rows have no events.
LEMMA NoRowsNoEvents ==
  ASSUME NEW b \in Seq(AllFrames), Rows(b) = {}
  PROVE  Range(b) \subseteq Eventless
<1>. SUFFICES ASSUME NEW f \in Range(b) PROVE f \in Eventless
  OBVIOUS
<1>1. f \in AllFrames /\ Events(f) = {}
  BY RangeIn DEF Rows
<1>2. DaysOf[f] \in Seq(Nat) /\ DOMAIN DaysOf[f] = {}
  BY <1>1, CaptureAssumption DEF Events
<1>3. Range(DaysOf[f]) = {}
  BY <1>2 DEF Range
<1>4. DaysOf[f] = <<>>
  BY <1>2, <1>3, RangeIn
<1>. QED
  BY <1>1, <1>4 DEF Eventless

\* Frames stay where they are while nothing touches the buffer's.
LEMMA QuietFrames ==
  ASSUME UNCHANGED <<seen, raw, rejected, gone, unready, unpinged, buffer>>
  PROVE  FramesMove
BY Zenon DEF FramesMove

\* Every step moves frames so.
LEMMA StepMovesFrames == TypeInv /\ FilesInv /\ [Next]_vars => FramesMove
<1>. SUFFICES ASSUME TypeInv, FilesInv, [Next]_vars PROVE FramesMove
  OBVIOUS
<1>. USE DEF diskVars, histVars, batchVars, soakVars
<1>0. buffer = <<>> => Range(buffer) = {}
  BY RangeIn DEF TypeInv, TypeOK
<1>1. CASE Connect \/ BybitSubscribed \/ BinanceSubscribed \/ Pong \/ PollTimesOut \/ StopReceiving
  <2>1. UNCHANGED <<seen, raw, rejected, gone, unready, unpinged, buffer>>
    BY <1>1 DEF Connect, BybitSubscribed, BinanceSubscribed, Pong, PollTimesOut, StopReceiving
  <2>. QED
    BY <2>1, QuietFrames
<1>2. CASE ConnectFails \/ SubscribeFails \/ ReceiveFails
  <2>1. /\ UNCHANGED <<seen, raw, rejected, gone, unready, unpinged>>
        /\ buffer' = buffer \/ buffer = <<>>
    BY <1>2 DEF ConnectFails, SubscribeFails, ReceiveFails, Raise, Persist, TypeInv, TypeSupport,
         Receiving, Persisting
  <2>. QED
    BY <1>0, <2>1 DEF FramesMove
<1>3. CASE SubscribeRefused \/ AckUnreadable
  BY <1>3 DEF SubscribeRefused, AckUnreadable, Raise, FramesMove, Elsewhere
<1>4. CASE PongFails
  BY <1>4 DEF PongFails, Raise, FramesMove, Elsewhere
<1>5. ASSUME NEW f \in AllFrames, ReceiveEarly(f) \/ Receive(f) PROVE FramesMove
  <2>1. Buffer(f) /\ UNCHANGED <<raw, rejected, gone, unready, unpinged>>
    BY <1>5 DEF ReceiveEarly, Receive
  <2>2. Range(buffer') = Range(buffer) \cup {f} /\ seen' = seen \cup {f}
    BY <2>1, RangeAppend DEF Buffer, TypeInv, TypeOK
  <2>. QED
    BY <2>1, <2>2 DEF FramesMove
<1>6. CASE Rejected \/ Accepted \/ StepFails \/ WriteParquet \/ AppendManifest
  <2>1. UNCHANGED <<seen, raw, rejected, gone, unready, unpinged, buffer>>
    BY <1>6 DEF Rejected, Accepted, StepFails, PersistFails, WriteParquet, AppendManifest
  <2>. QED
    BY <2>1, QuietFrames
<1>7. CASE NothingToStore
  <2>1. Range(buffer) \subseteq Eventless
    BY <1>7, NoRowsNoEvents DEF NothingToStore, TypeInv, TypeOK
  <2>2. UNCHANGED <<seen, raw, rejected, gone, unready, unpinged>>
    BY <1>7 DEF NothingToStore
  <2>. QED
    BY <2>1, <2>2 DEF FramesMove, Elsewhere, Eventless
<1>8. CASE WriteRaw
  BY <1>8 DEF WriteRaw, FramesMove
<1>9. CASE WriteCheckpoint
  <2>1. buffer \in raw
    BY <1>9 DEF WriteCheckpoint, FilesInv, StepInv, Writing
  <2>2. UNCHANGED <<seen, raw, rejected, gone, unready, unpinged>>
    BY <1>9 DEF WriteCheckpoint
  <2>. QED
    BY <2>1, <2>2 DEF FramesMove, Elsewhere, Kept
<1>10. CASE QuarantineBuffer
  BY <1>10 DEF QuarantineBuffer, FramesMove, Elsewhere, Kept
<1>11. CASE QuarantineFails
  BY <1>11 DEF QuarantineFails, Raise, FramesMove, Elsewhere
<1>12. CASE Soak \/ StartRun
  <2>1. UNCHANGED <<seen, raw, rejected, gone, unready, unpinged, buffer>>
    BY <1>12 DEF Soak, StartAttempt, DeadlinePasses, AttemptCompletes, CompletionFails, AttemptFails,
                 FinishRun, StartRun
  <2>. QED
    BY <2>1, QuietFrames
<1>13. CASE Crash
  BY <1>13 DEF Crash, FramesMove, Elsewhere
<1>14. CASE UNCHANGED vars
  <2>1. UNCHANGED <<seen, raw, rejected, gone, unready, unpinged, buffer>>
    BY <1>14 DEF vars
  <2>. QED
    BY <2>1, QuietFrames
<1>. QED
  BY <1>1, <1>2, <1>3, <1>4, <1>5, <1>6, <1>7, <1>8, <1>9, <1>10, <1>11, <1>12, <1>13, <1>14
     DEF Next, Collect, PersistBatch

\* A frame that was received is in the buffer, on disk, or lost in one of the ways
\* the property names, and in no other.
THEOREM FramesKept == Spec => []FramesAreKept
<1>1. Init => FramesAreKept
  BY DEF Init, FramesAreKept
<1>2. TypeInv /\ FilesInv /\ FramesAreKept /\ [Next]_vars => FramesAreKept'
  BY StepMovesFrames, MoveKeepsFrames
<1>. QED
  BY <1>1, <1>2, TypeCorrect, FilesInductive, PTL DEF Spec

-----------------------------------------------------------------------------
(* The gaps                                                                *)

\* An attempt is under way.
Started == {"connect", "quarantine", "failed", "complete"} \cup Receiving \cup Persisting

\* How far the gaps can reach: to the open outage, or to the attempt under way.
Reach == IF outage = 0 THEN Len(errors) + 1 ELSE outage

\* While the run goes on every outage but the open one has its gap, which an attempt
\* no later than the open one closed.  There are gaps and no open outage only while an
\* attempt that was recorded as the end of one is failing after all.
GapsSoFar ==
  /\ \A i \in 1..Len(gaps) :
       /\ gaps[i].from \in Outages
       /\ gaps[i].from < gaps[i].until /\ gaps[i].until <= Reach
       /\ \A j \in 1..(i - 1) : gaps[j].until <= gaps[i].from
  /\ \A k \in Outages : k <= Reach /\ (k < Reach => \E i \in 1..Len(gaps) : gaps[i].from = k)
  /\ outage # 0 => outage \in Outages
  /\ outage = 0 /\ gaps # <<>> => pc = "failed" /\ reason # "WRONG_SYMBOL"

\* Each failed attempt has left one failure.
LoopInv ==
  /\ pc \in {"idle", "finish"} => Len(errors) = attempt
  /\ pc \in Started => Len(errors) + 1 = attempt
  /\ pc \notin {"ended", "down"} => GapsSoFar
  /\ EveryOutageIsAGap
  /\ GapNamesItsFailure

\* The collector and the persistence are one attempt, and leave the loop's state alone.
LEMMA AttemptIsQuiet ==
  ASSUME TypeInv, Collect \/ PersistBatch \/ \E f \in AllFrames : ReceiveEarly(f) \/ Receive(f)
  PROVE  /\ UNCHANGED <<attempt, errors, outage, gaps>>
         /\ pc \in Started \ {"failed"} /\ pc' \in Started
<1>. USE DEF Started, Receiving, Persisting, diskVars, histVars, batchVars, soakVars,
             Raise, Persist, PersistFails
<1>1. CASE Collect
  BY <1>1 DEF Collect, Connect, ConnectFails, SubscribeRefused, AckUnreadable, SubscribeFails,
              BybitSubscribed, BinanceSubscribed, Pong, PongFails, PollTimesOut, ReceiveFails,
              StopReceiving, TurnEnds
<1>2. CASE \E f \in AllFrames : ReceiveEarly(f) \/ Receive(f)
  BY <1>2 DEF ReceiveEarly, Receive, Buffer, TurnEnds
<1>3. CASE Rejected \/ Accepted \/ StepFails \/ QuarantineBuffer \/ QuarantineFails
  BY <1>3 DEF Rejected, Accepted, StepFails, QuarantineBuffer, QuarantineFails
<1>4. CASE NothingToStore \/ WriteCheckpoint
  BY <1>4 DEF NothingToStore, WriteCheckpoint, PersistReturns, TypeInv, TypeOK
<1>5. CASE WriteRaw \/ AppendManifest
  BY <1>5 DEF WriteRaw, AppendManifest
<1>6. CASE WriteParquet
  <2>1. pc = "parquet" /\ pc' \in {"parquet", "manifest"} /\ UNCHANGED <<attempt, errors, outage, gaps>>
    BY <1>6, Zenon DEF WriteParquet
  <2>. QED
    BY <2>1
<1>. QED
  BY <1>1, <1>2, <1>3, <1>4, <1>5, <1>6 DEF PersistBatch

\* A gap that is registered starts with the open outage and follows the others, and
\* the last failure explains it if no failure of the symbol came since.
LEMMA RegisteredGap ==
  ASSUME TypeInv, GapsSoFar, GapNamesItsFailure,
         NEW until \in 0..MaxAttempts, until \in {0, Len(errors) + 1},
         RegisterGap(until, IF errors = <<>> THEN "none" ELSE Last(errors))
  PROVE  /\ outage = 0 => gaps' = gaps
         /\ outage # 0 => /\ Len(gaps') = Len(gaps) + 1
                          /\ \A i \in 1..Len(gaps) : gaps'[i] = gaps[i]
                          /\ gaps'[Len(gaps) + 1].from = outage /\ gaps'[Len(gaps) + 1].until = until
                          /\ outage < Len(errors) + 1
         /\ Len(gaps) \in Nat /\ Len(gaps') \in Nat
         /\ DOMAIN gaps' = 1..Len(gaps')
         /\ \A x : x \in Range(gaps') <=> \E i \in 1..Len(gaps') : gaps'[i] = x
         /\ \A g \in Range(gaps') : g.from \in DOMAIN errors /\ g.until - 1 <= Len(errors) /\ g.until \in Nat
         /\ \A g \in Range(gaps') :
              LET end == IF g.until = 0 THEN Len(errors) ELSE g.until - 1
              IN  (\A k \in (g.from + 1)..end : errors[k] # "WRONG_SYMBOL") => g.reason = errors[g.from]
<1>. DEFINE GapType == [from : 1..MaxAttempts, until : 0..MaxAttempts, reason : Reasons]
            r    == IF errors = <<>> THEN "none" ELSE Last(errors)
            new  == Gap(until, r)
            Explained(g) ==
              LET end == IF g.until = 0 THEN Len(errors) ELSE g.until - 1
              IN  (\A k \in (g.from + 1)..end : errors[k] # "WRONG_SYMBOL") => g.reason = errors[g.from]
<1>1. /\ gaps \in Seq(GapType) /\ errors \in Seq(Reasons) /\ outage \in Nat
      /\ Len(errors) \in Nat /\ DOMAIN errors = 1..Len(errors)
  BY CaptureAssumption, LenProperties DEF TypeInv, TypeOK
<1>2. /\ DOMAIN gaps = 1..Len(gaps) /\ Len(gaps) \in Nat
      /\ \A x : x \in Range(gaps) <=> \E i \in 1..Len(gaps) : gaps[i] = x
      /\ \A i \in 1..Len(gaps) : gaps[i] \in GapType
      /\ gaps = <<>> <=> Len(gaps) = 0
  <2>. HIDE DEF GapType
  <2>. QED
    BY <1>1, RangeIn, ElementOfSeq
<1>3. outage # 0 => outage \in 1..Len(errors) /\ \A k \in (outage + 1)..Len(errors) : errors[k] = "WRONG_SYMBOL"
  <2>1. outage # 0 => outage \in Outages /\ \A k \in Outages : k <= outage
    BY DEF GapsSoFar, Reach
  <2>. QED
    BY <1>1, <2>1 DEF Outages
<1>4. \A g \in Range(gaps) : /\ g.from \in 1..Len(errors) /\ g.until \in Nat /\ g.until - 1 <= Len(errors)
                            /\ Explained(g)
  <2>1. \A g \in Range(gaps) : Explained(g)
    BY DEF GapNamesItsFailure
  <2>. HIDE DEF Explained
  <2>2. ASSUME NEW g \in Range(gaps)
        PROVE  g.from \in 1..Len(errors) /\ g.until \in Nat /\ g.until - 1 <= Len(errors)
    <3>1. PICK i \in 1..Len(gaps) : gaps[i] = g
      BY <1>2
    <3>2. g.from \in 1..Len(errors) /\ g.until <= Reach /\ g \in GapType
      BY <1>1, <1>2, <3>1 DEF GapsSoFar, Outages
    <3>3. g.until \in Nat
      BY <3>2
    <3>4. Reach \in Nat /\ Reach <= Len(errors) + 1
      BY <1>1, <1>3 DEF Reach
    <3>. QED
      BY <1>1, <3>2, <3>3, <3>4
  <2>. QED
    BY <2>1, <2>2
<1>5. CASE outage = 0
  <2>1. gaps' = gaps
    BY <1>5 DEF RegisterGap
  <2>. HIDE DEF Explained, GapType
  <2>. QED
    BY <1>1, <1>2, <1>4, <1>5, <2>1 DEF Explained
<1>6. CASE outage # 0
  <2>1. gaps' = Append(gaps, new)
    BY <1>6 DEF RegisterGap
  <2>2. new.from = outage /\ new.until = until /\ new.reason = r
    BY DEF Gap
  <2>3. errors # <<>> /\ r = errors[Len(errors)]
    BY <1>1, <1>3, <1>6, EmptySeq DEF Last
  <2>4. new \in GapType
    <3>1. errors[Len(errors)] \in Reasons
      BY <1>1, <1>3, <1>6, ElementOfSeq
    <3>2. outage \in 1..MaxAttempts
      BY <1>6, CaptureAssumption DEF TypeInv, TypeOK
    <3>. QED
      BY <2>3, <3>1, <3>2 DEF Gap
  <2>5. Explained(new)
    <3>1. CASE outage = Len(errors)
      BY <2>2, <2>3, <3>1
    <3>2. CASE outage < Len(errors)
      <4>1. Len(errors) \in (outage + 1)..Len(errors) /\ errors[Len(errors)] = "WRONG_SYMBOL"
        <5>1. Len(errors) \in (outage + 1)..Len(errors)
          BY <1>1, <1>3, <1>6, <3>2
        <5>. QED
          BY <1>3, <1>6, <5>1
      <4>2. (IF new.until = 0 THEN Len(errors) ELSE new.until - 1) = Len(errors)
        BY <1>1, <2>2
      <4>. QED
        BY <2>2, <4>1, <4>2
    <3>3. outage \in Nat /\ Len(errors) \in Nat /\ outage <= Len(errors)
      BY <1>1, <1>3, <1>6
    <3>4. outage = Len(errors) \/ outage < Len(errors)
      BY <3>3
    <3>. QED
      BY <3>1, <3>2, <3>4
  <2>. HIDE DEF Explained, GapType, new, r
  <2>6. /\ gaps' \in Seq(GapType) /\ Len(gaps') = Len(gaps) + 1
        /\ \A i \in 1..Len(gaps) : gaps'[i] = gaps[i]
        /\ gaps'[Len(gaps) + 1] = new
        /\ Range(gaps') = Range(gaps) \cup {new}
    BY <1>1, <2>1, <2>4, RangeAppend
  <2>7. /\ DOMAIN gaps' = 1..Len(gaps') /\ Len(gaps') \in Nat
        /\ \A x : x \in Range(gaps') <=> \E i \in 1..Len(gaps') : gaps'[i] = x
    BY <2>6, RangeIn
  <2>8. \A g \in Range(gaps') : g.from \in DOMAIN errors /\ g.until - 1 <= Len(errors) /\ g.until \in Nat /\ Explained(g)
    BY <1>1, <1>3, <1>4, <1>6, <2>2, <2>5, <2>6
  <2>. QED
    BY <1>1, <1>2, <1>3, <1>6, <2>2, <2>6, <2>7, <2>8 DEF Explained
<1>. QED
  BY <1>5, <1>6

\* The set of the positions of the gaps and what the gaps say, in one place.
LEMMA GapsTypes ==
  ASSUME TypeInv
  PROVE  /\ outage \in Nat /\ attempt \in Nat /\ attempt <= MaxAttempts
         /\ Len(errors) \in Nat /\ DOMAIN errors = 1..Len(errors)
         /\ Len(gaps) \in Nat /\ DOMAIN gaps = 1..Len(gaps)
         /\ \A x : x \in Range(gaps) <=> \E i \in 1..Len(gaps) : gaps[i] = x
<1>. DEFINE GapType == [from : 1..MaxAttempts, until : 0..MaxAttempts, reason : Reasons]
<1>1. gaps \in Seq(GapType) /\ errors \in Seq(Reasons)
  BY DEF TypeInv, TypeOK
<1>. HIDE DEF GapType
<1>2. /\ Len(errors) \in Nat /\ DOMAIN errors = 1..Len(errors)
      /\ Len(gaps) \in Nat /\ DOMAIN gaps = 1..Len(gaps)
      /\ \A x : x \in Range(gaps) <=> \E i \in 1..Len(gaps) : gaps[i] = x
  BY <1>1, RangeIn
<1>. QED
  BY <1>2, CaptureAssumption DEF TypeInv, TypeOK

\* The end of the run gives the open outage its gap.
LEMMA EndClosesOutage ==
  ASSUME TypeInv, LoopInv, AttemptCompletes \/ FinishRun
  PROVE  LoopInv'
<1>1. /\ pc' = "ended" /\ errors' = errors /\ attempt' = attempt
      /\ \/ pc = "complete" /\ Len(errors) + 1 = attempt /\ RegisterGap(attempt, IF errors = <<>> THEN "none" ELSE Last(errors))
         \/ pc = "finish" /\ Len(errors) = attempt /\ RegisterGap(0, IF errors = <<>> THEN "none" ELSE Last(errors))
  BY DEF AttemptCompletes, FinishRun, LoopInv, Started
<1>. DEFINE until == IF pc = "finish" THEN 0 ELSE attempt
<1>2. /\ until \in 0..MaxAttempts /\ until \in {0, Len(errors) + 1}
      /\ RegisterGap(until, IF errors = <<>> THEN "none" ELSE Last(errors))
      /\ until = 0 <=> Len(errors) = attempt
  BY <1>1, GapsTypes, CaptureAssumption
<1>3. GapsSoFar /\ GapNamesItsFailure
  BY <1>1 DEF LoopInv
<1>. HIDE DEF until
<1>4. /\ outage = 0 => gaps' = gaps
      /\ outage # 0 => /\ Len(gaps') = Len(gaps) + 1
                       /\ \A i \in 1..Len(gaps) : gaps'[i] = gaps[i]
                       /\ gaps'[Len(gaps) + 1].from = outage /\ gaps'[Len(gaps) + 1].until = until
                       /\ outage < Len(errors) + 1
      /\ Len(gaps) \in Nat /\ Len(gaps') \in Nat
      /\ DOMAIN gaps' = 1..Len(gaps')
      /\ \A x : x \in Range(gaps') <=> \E i \in 1..Len(gaps') : gaps'[i] = x
  BY <1>2, <1>3, RegisteredGap
<1>5. GapNamesItsFailure'
  BY <1>1, <1>2, <1>3, RegisteredGap DEF GapNamesItsFailure
<1>6. Outages' = Outages
  BY <1>1 DEF Outages
<1>7. EveryOutageIsAGap'
  <2>1. CASE outage = 0
    <3>1. gaps = <<>> /\ Len(gaps) = 0
      BY <1>1, <1>3, <2>1, EmptySeq DEF GapsSoFar
    <3>2. Outages = {}
      <4>. SUFFICES ASSUME NEW k \in Outages PROVE FALSE
        OBVIOUS
      <4>1. k \in 1..Len(errors) /\ Len(errors) \in Nat
        BY GapsTypes DEF Outages
      <4>2. k < Reach
        BY <2>1, <4>1 DEF Reach
      <4>. QED
        BY <1>3, <3>1, <4>2 DEF GapsSoFar
    <3>3. gaps' = <<>> /\ Outages' = {} /\ Range(gaps') = {} /\ DOMAIN gaps' = {}
      BY <1>4, <1>6, <2>1, <3>1, <3>2, EmptySeq DEF Range
    <3>. QED
      BY <3>3 DEF EveryOutageIsAGap
  <2>2. CASE outage # 0
    <3>. DEFINE n == Len(gaps)
    <3>1. /\ Len(gaps') = n + 1 /\ \A i \in 1..n : gaps'[i] = gaps[i]
          /\ gaps'[n + 1].from = outage /\ gaps'[n + 1].until = until
          /\ outage < Len(errors) + 1 /\ n \in Nat /\ outage \in Nat /\ Len(errors) \in Nat
      BY <1>4, <2>2, GapsTypes
    <3>2. ASSUME NEW i \in 1..n
          PROVE  /\ gaps[i].from \in Outages /\ gaps[i].from < gaps[i].until /\ gaps[i].until <= outage
                 /\ gaps[i].until # 0 /\ gaps[i].from \in Nat
                 /\ \A j \in 1..(i - 1) : gaps[j].until <= gaps[i].from
      <4>1. gaps[i].from \in Outages /\ gaps[i].from < gaps[i].until /\ gaps[i].until <= outage
            /\ \A j \in 1..(i - 1) : gaps[j].until <= gaps[i].from
        BY <1>3, <2>2 DEF GapsSoFar, Reach
      <4>2. gaps[i].from \in 1..Len(errors)
        BY <4>1, GapsTypes DEF Outages
      <4>. QED
        BY <4>1, <4>2
    <3>3. {g.from : g \in Range(gaps')} = Outages
      <4>1. ASSUME NEW g \in Range(gaps') PROVE g.from \in Outages
        <5>1. PICK i \in 1..n + 1 : gaps'[i] = g
          BY <1>4, <3>1
        <5>2. CASE i = n + 1
          BY <1>3, <2>2, <3>1, <5>1, <5>2 DEF GapsSoFar
        <5>3. CASE i \in 1..n
          BY <3>1, <3>2, <5>1, <5>3
        <5>. QED
          BY <3>1, <5>2, <5>3
      <4>2. ASSUME NEW k \in Outages PROVE \E g \in Range(gaps') : g.from = k
        <5>1. k <= outage /\ (k < outage => \E i \in 1..n : gaps[i].from = k) /\ k \in Nat
          BY <1>3, <2>2, GapsTypes DEF GapsSoFar, Outages, Reach
        <5>2. CASE k = outage
          <6>1. n + 1 \in 1..Len(gaps')
            BY <3>1
          <6>. QED
            BY <1>4, <3>1, <5>2, <6>1
        <5>3. CASE k < outage
          <6>1. PICK i \in 1..n : gaps[i].from = k
            BY <5>1, <5>3
          <6>2. i \in 1..Len(gaps') /\ gaps'[i].from = k
            BY <3>1, <6>1
          <6>. QED
            BY <1>4, <6>2
        <5>. QED
          BY <3>1, <5>1, <5>2, <5>3
      <4>. QED
        BY <4>1, <4>2
    <3>4. ASSUME NEW i \in DOMAIN gaps'
          PROVE  /\ gaps'[i].until = 0 <=> i = Len(gaps') /\ Len(errors') = attempt'
                 /\ gaps'[i].until # 0 => gaps'[i].from < gaps'[i].until
                 /\ \A j \in 1..(i - 1) : gaps'[j].until <= gaps'[i].from
      <4>1. CASE i = n + 1
        <5>1. gaps'[i].until # 0 => gaps'[i].from < gaps'[i].until
          BY <1>2, <3>1, <4>1
        <5>2. \A j \in 1..(i - 1) : gaps'[j].until <= gaps'[i].from
          BY <3>1, <3>2, <4>1
        <5>. QED
          BY <1>1, <1>2, <3>1, <4>1, <5>1, <5>2
      <4>2. CASE i \in 1..n
        <5>1. i # Len(gaps') /\ \A j \in 1..(i - 1) : j \in 1..n
          BY <3>1, <4>2
        <5>. QED
          BY <3>1, <3>2, <4>2, <5>1
      <4>. QED
        BY <1>4, <3>1, <4>1, <4>2
    <3>. QED
      BY <1>6, <3>3, <3>4 DEF EveryOutageIsAGap
  <2>. QED
    BY <2>1, <2>2
<1>. QED
  BY <1>1, <1>5, <1>7 DEF LoopInv, Started, Receiving, Persisting

\* What is known of a gap while the run goes on.
LEMMA GapBounds ==
  ASSUME TypeInv, GapsSoFar, NEW i \in 1..Len(gaps)
  PROVE  /\ gaps[i].from \in 1..Len(errors) /\ gaps[i].until \in Nat /\ gaps[i].until - 1 <= Len(errors)
         /\ gaps[i].until # 0 /\ gaps[i].from < gaps[i].until /\ gaps[i].until <= Reach
<1>1. /\ outage \in Nat /\ Len(errors) \in Nat /\ DOMAIN errors = 1..Len(errors)
  BY GapsTypes
<1>2. Outages \subseteq 1..Len(errors)
  BY <1>1 DEF Outages
<1>3. /\ gaps[i].from \in 1..Len(errors)
      /\ gaps[i].from < gaps[i].until /\ gaps[i].until <= Reach
  BY <1>2 DEF GapsSoFar
<1>4. gaps \in Seq([from : 1..MaxAttempts, until : 0..MaxAttempts, reason : Reasons])
  BY DEF TypeInv, TypeOK
<1>5. gaps[i] \in [from : 1..MaxAttempts, until : 0..MaxAttempts, reason : Reasons]
  BY <1>4, ElementOfSeq, Zenon
<1>6. gaps[i].until \in Nat
  BY <1>5, CaptureAssumption
<1>7. Reach \in Nat /\ Reach <= Len(errors) + 1
  <2>1. outage # 0 => outage \in 1..Len(errors)
    BY <1>2 DEF GapsSoFar
  <2>. QED
    BY <1>1, <2>1 DEF Reach
<1>. QED
  BY <1>1, <1>3, <1>6, <1>7

\* The gaps gs close every outage there has been, in order.
Closed(gs) ==
  /\ \A i \in 1..Len(gs) :
       /\ gs[i].from \in Outages
       /\ gs[i].from < gs[i].until /\ gs[i].until <= Len(errors) + 1
       /\ \A j \in 1..(i - 1) : gs[j].until <= gs[i].from
  /\ \A k \in Outages : \E i \in 1..Len(gs) : gs[i].from = k

\* Registering the open outage up to the attempt under way closes them all.
LEMMA ClosedByRegistering ==
  ASSUME TypeInv, GapsSoFar, GapNamesItsFailure, attempt = Len(errors) + 1,
         RegisterGap(attempt, IF errors = <<>> THEN "none" ELSE Last(errors))
  PROVE  Closed(gaps')
<1>1. /\ outage \in Nat /\ Len(errors) \in Nat /\ DOMAIN errors = 1..Len(errors)
      /\ Len(gaps) \in Nat /\ attempt \in 0..MaxAttempts /\ attempt \in {0, Len(errors) + 1}
  BY GapsTypes, CaptureAssumption
<1>2. Outages \subseteq 1..Len(errors)
  BY <1>1 DEF Outages
<1>3. /\ outage = 0 => gaps' = gaps
      /\ outage # 0 => /\ Len(gaps') = Len(gaps) + 1
                       /\ \A i \in 1..Len(gaps) : gaps'[i] = gaps[i]
                       /\ gaps'[Len(gaps) + 1].from = outage /\ gaps'[Len(gaps) + 1].until = attempt
                       /\ outage < Len(errors) + 1
  BY <1>1, RegisteredGap
<1>4. ASSUME NEW i \in 1..Len(gaps)
      PROVE  /\ gaps[i].from \in Outages
             /\ gaps[i].from < gaps[i].until /\ gaps[i].until <= Len(errors) + 1
             /\ gaps[i].until <= Reach
             /\ \A j \in 1..(i - 1) : gaps[j].until <= gaps[i].from
  BY <1>1, GapBounds DEF GapsSoFar
<1>5. ASSUME NEW k \in Outages, k < Reach
      PROVE  \E i \in 1..Len(gaps) : gaps[i].from = k
  BY <1>5 DEF GapsSoFar
<1>6. CASE outage = 0
  <2>1. \A k \in Outages : k < Reach
    BY <1>1, <1>2, <1>6 DEF Reach
  <2>. QED
    BY <1>3, <1>4, <1>5, <1>6, <2>1 DEF Closed
<1>7. CASE outage # 0
  <2>1. Reach = outage
    BY <1>7 DEF Reach
  <2>2. outage \in Outages /\ \A k \in Outages : k <= outage
    BY <1>7, <2>1 DEF GapsSoFar
  <2>3. ASSUME NEW i \in 1..Len(gaps')
        PROVE  /\ gaps'[i].from \in Outages
               /\ gaps'[i].from < gaps'[i].until /\ gaps'[i].until <= Len(errors) + 1
               /\ \A j \in 1..(i - 1) : gaps'[j].until <= gaps'[i].from
    <3>1. CASE i = Len(gaps) + 1
      <4>1. \A j \in 1..(i - 1) : gaps'[j].until <= gaps'[i].from
        BY <1>1, <1>3, <1>4, <1>7, <2>1, <3>1
      <4>. QED
        BY <1>1, <1>3, <1>7, <2>2, <3>1, <4>1
    <3>2. CASE i \in 1..Len(gaps)
      <4>1. \A j \in 1..(i - 1) : j \in 1..Len(gaps)
        BY <1>1, <3>2
      <4>. QED
        BY <1>3, <1>4, <1>7, <3>2, <4>1
    <3>. QED
      BY <1>1, <1>3, <1>7, <3>1, <3>2
  <2>4. ASSUME NEW k \in Outages PROVE \E i \in 1..Len(gaps') : gaps'[i].from = k
    <3>1. CASE k = outage
      <4>1. Len(gaps) + 1 \in 1..Len(gaps')
        BY <1>1, <1>3, <1>7
      <4>. QED
        BY <1>3, <1>7, <3>1, <4>1
    <3>2. CASE k < outage
      <4>1. PICK i \in 1..Len(gaps) : gaps[i].from = k
        BY <1>5, <2>1, <3>2
      <4>2. i \in 1..Len(gaps') /\ gaps'[i].from = k
        BY <1>1, <1>3, <1>7, <4>1
      <4>. QED
        BY <4>2
    <3>. QED
      BY <1>1, <1>2, <2>2, <3>1, <3>2
  <2>. QED
    BY <2>3, <2>4 DEF Closed
<1>. QED
  BY <1>6, <1>7

\* An attempt that ended well fails after all: what could not be recorded of it is
\* the gap, whose outage stays open, or what came after it.
LEMMA FailedCompletionKeepsGaps ==
  ASSUME TypeInv, LoopInv, CompletionFails
  PROVE  LoopInv'
<1>1. /\ pc = "complete" /\ pc' = "failed" /\ reason' = "NETWORK_FAILURE"
      /\ attempt' = attempt /\ errors' = errors /\ Len(errors) + 1 = attempt
      /\ GapsSoFar /\ GapNamesItsFailure
      /\ \/ gaps' = gaps /\ outage' = outage
         \/ /\ RegisterGap(attempt, IF errors = <<>> THEN "none" ELSE Last(errors))
            /\ outage' = 0
  BY DEF CompletionFails, LoopInv, Started
<1>2. /\ Len(errors) \in Nat /\ attempt \in Nat /\ attempt <= MaxAttempts
      /\ Outages' = Outages /\ Outages \subseteq 1..Len(errors)
  BY <1>1, GapsTypes DEF Outages
<1>3. GapsSoFar' /\ GapNamesItsFailure'
  <2>1. CASE gaps' = gaps /\ outage' = outage
    <3>1. Reach' = Reach
      BY <1>1, <2>1 DEF Reach
    <3>. QED
      BY <1>1, <1>2, <2>1, <3>1 DEF GapsSoFar, GapNamesItsFailure
  <2>2. CASE RegisterGap(attempt, IF errors = <<>> THEN "none" ELSE Last(errors)) /\ outage' = 0
    <3>1. Closed(gaps')
      BY <1>1, <2>2, ClosedByRegistering
    <3>2. Reach' = Len(errors) + 1
      BY <1>1, <2>2 DEF Reach
    <3>3. \A k \in Outages : k <= Len(errors) + 1
      BY <1>2
    <3>4. GapsSoFar'
      BY <1>1, <1>2, <2>2, <3>1, <3>2, <3>3 DEF GapsSoFar, Closed
    <3>5. attempt \in 0..MaxAttempts /\ attempt \in {0, Len(errors) + 1}
      BY <1>1, <1>2, CaptureAssumption
    <3>6. \A g \in Range(gaps') :
            LET end == IF g.until = 0 THEN Len(errors) ELSE g.until - 1
            IN  (\A k \in (g.from + 1)..end : errors[k] # "WRONG_SYMBOL") => g.reason = errors[g.from]
      BY <1>1, <2>2, <3>5, RegisteredGap
    <3>7. GapNamesItsFailure'
      BY <1>1, <3>6 DEF GapNamesItsFailure
    <3>. QED
      BY <3>4, <3>7
  <2>. QED
    BY <1>1, <2>1, <2>2
<1>. QED
  BY <1>1, <1>3 DEF LoopInv, EveryOutageIsAGap, Started, Receiving, Persisting

\* What a failed attempt adds to the failures.
LEMMA FailureAdded ==
  ASSUME TypeInv, AttemptFails
  PROVE  /\ reason \in Reasons /\ Len(errors') = Len(errors) + 1
         /\ \A k \in 1..Len(errors) : errors'[k] = errors[k]
         /\ errors'[Len(errors) + 1] = reason
         /\ DOMAIN errors' = 1..(Len(errors) + 1)
         /\ Outages' = IF reason = "WRONG_SYMBOL" THEN Outages ELSE Outages \cup {Len(errors) + 1}
<1>1. reason \in Reasons /\ errors \in Seq(Reasons) /\ errors' = Append(errors, reason)
  BY DEF AttemptFails, TypeInv, TypeOK, TypeSupport
<1>2. /\ errors' \in Seq(Reasons) /\ Len(errors') = Len(errors) + 1
      /\ \A k \in 1..Len(errors) : errors'[k] = errors[k]
      /\ errors'[Len(errors) + 1] = reason
  BY <1>1, RangeAppend
<1>3. DOMAIN errors = 1..Len(errors) /\ DOMAIN errors' = 1..Len(errors') /\ Len(errors) \in Nat
  BY <1>1, <1>2, RangeIn
<1>4. 1..(Len(errors) + 1) = 1..Len(errors) \cup {Len(errors) + 1}
  BY <1>3
<1>5. Outages' = {k \in 1..Len(errors) : errors'[k] # "WRONG_SYMBOL"}
                   \cup {k \in {Len(errors) + 1} : errors'[k] # "WRONG_SYMBOL"}
  BY <1>2, <1>3, <1>4 DEF Outages
<1>6. Outages = {k \in 1..Len(errors) : errors[k] # "WRONG_SYMBOL"}
  BY <1>3 DEF Outages
<1>7. {k \in 1..Len(errors) : errors'[k] # "WRONG_SYMBOL"} = Outages
  BY <1>2, <1>6
<1>8. {k \in {Len(errors) + 1} : errors'[k] # "WRONG_SYMBOL"} = IF reason = "WRONG_SYMBOL" THEN {} ELSE {Len(errors) + 1}
  BY <1>2
<1>. QED
  BY <1>1, <1>2, <1>3, <1>5, <1>7, <1>8

\* A failure closes the open outage and opens its own, unless it names the symbol.
LEMMA FailureKeepsGaps ==
  ASSUME TypeInv, LoopInv, AttemptFails
  PROVE  LoopInv'
<1>1. /\ pc = "failed" /\ pc' \in {"idle", "finish"} /\ attempt' = attempt /\ Len(errors) + 1 = attempt
      /\ GapsSoFar /\ GapNamesItsFailure /\ attempt \in 0..MaxAttempts
  BY DEF AttemptFails, LoopInv, Started, TypeInv, TypeOK
<1>2. /\ reason \in Reasons /\ Len(errors') = Len(errors) + 1
      /\ \A k \in 1..Len(errors) : errors'[k] = errors[k]
      /\ errors'[Len(errors) + 1] = reason
      /\ Outages' = IF reason = "WRONG_SYMBOL" THEN Outages ELSE Outages \cup {Len(errors) + 1}
  BY FailureAdded
<1>3. /\ outage \in Nat /\ Len(errors) \in Nat /\ DOMAIN errors = 1..Len(errors)
      /\ Len(gaps) \in Nat /\ DOMAIN gaps = 1..Len(gaps)
      /\ \A x : x \in Range(gaps) <=> \E i \in 1..Len(gaps) : gaps[i] = x
  BY GapsTypes
<1>4. Outages \subseteq 1..Len(errors)
  BY <1>3 DEF Outages
\* The explanations of gaps that end before the new failure stand.
<1>5. ASSUME NEW g, g.from \in 1..Len(errors), g.until \in Nat, g.until - 1 <= Len(errors), g.until # 0,
             LET end == IF g.until = 0 THEN Len(errors) ELSE g.until - 1
             IN  (\A k \in (g.from + 1)..end : errors[k] # "WRONG_SYMBOL") => g.reason = errors[g.from]
      PROVE  LET end == IF g.until = 0 THEN Len(errors') ELSE g.until - 1
             IN  (\A k \in (g.from + 1)..end : errors'[k] # "WRONG_SYMBOL") => g.reason = errors'[g.from]
  <2>1. \A k \in (g.from + 1)..(g.until - 1) : k \in 1..Len(errors) /\ errors'[k] = errors[k]
    BY <1>2, <1>3, <1>5
  <2>2. errors'[g.from] = errors[g.from]
    BY <1>2, <1>5
  <2>3. (IF g.until = 0 THEN Len(errors) ELSE g.until - 1) = g.until - 1
        /\ (IF g.until = 0 THEN Len(errors') ELSE g.until - 1) = g.until - 1
    BY <1>5
  <2>4. (\A k \in (g.from + 1)..(g.until - 1) : errors[k] # "WRONG_SYMBOL") => g.reason = errors[g.from]
    BY <1>5, <2>3
  <2>. QED
    BY <2>1, <2>2, <2>3, <2>4
<1>6. ASSUME NEW i \in 1..Len(gaps)
      PROVE  /\ gaps[i].from \in 1..Len(errors) /\ gaps[i].until \in Nat /\ gaps[i].until - 1 <= Len(errors)
             /\ gaps[i].until # 0 /\ gaps[i].from < gaps[i].until /\ gaps[i].until <= Reach
  BY <1>1, GapBounds
<1>7. CASE reason = "WRONG_SYMBOL"
  <2>1. gaps' = gaps /\ outage' = outage /\ Outages' = Outages
    BY <1>2, <1>7 DEF AttemptFails
  <2>2. GapsSoFar'
    <3>1. CASE outage = 0
      <4>1. gaps = <<>> /\ Len(gaps) = 0
        BY <1>1, <1>7, <3>1, EmptySeq DEF GapsSoFar
      <4>2. Outages = {}
        <5>. SUFFICES ASSUME NEW k \in Outages PROVE FALSE
          OBVIOUS
        <5>1. k \in 1..Len(errors) /\ k < Reach
          BY <1>3, <1>4, <3>1 DEF Reach
        <5>. QED
          BY <1>1, <4>1, <5>1 DEF GapsSoFar
      <4>. QED
        BY <2>1, <3>1, <4>1, <4>2 DEF GapsSoFar
    <3>2. CASE outage # 0
      <4>1. Reach' = Reach
        BY <2>1, <3>2 DEF Reach
      <4>. QED
        BY <1>1, <2>1, <3>2, <4>1, Zenon DEF GapsSoFar
    <3>. QED
      BY <3>1, <3>2
  <2>3. GapNamesItsFailure'
    <3>. SUFFICES ASSUME NEW g \in Range(gaps)
                  PROVE  LET end == IF g.until = 0 THEN Len(errors') ELSE g.until - 1
                         IN  (\A k \in (g.from + 1)..end : errors'[k] # "WRONG_SYMBOL") => g.reason = errors'[g.from]
      BY <2>1 DEF GapNamesItsFailure
    <3>1. PICK i \in 1..Len(gaps) : gaps[i] = g
      BY <1>3
    <3>2. /\ g.from \in 1..Len(errors) /\ g.until \in Nat /\ g.until - 1 <= Len(errors) /\ g.until # 0
      BY <1>6, <3>1
    <3>3. LET end == IF g.until = 0 THEN Len(errors) ELSE g.until - 1
          IN  (\A k \in (g.from + 1)..end : errors[k] # "WRONG_SYMBOL") => g.reason = errors[g.from]
      BY <1>1 DEF GapNamesItsFailure
    <3>. QED
      BY <1>5, <3>2, <3>3
  <2>. QED
    BY <1>1, <1>2, <2>2, <2>3 DEF LoopInv, EveryOutageIsAGap, Started, Receiving, Persisting
<1>8. CASE reason # "WRONG_SYMBOL"
  <2>1. /\ RegisterGap(attempt, IF errors = <<>> THEN "none" ELSE Last(errors))
        /\ outage' = attempt /\ Outages' = Outages \cup {attempt}
    BY <1>1, <1>2, <1>8 DEF AttemptFails
  <2>2. /\ outage = 0 => gaps' = gaps
        /\ outage # 0 => /\ Len(gaps') = Len(gaps) + 1
                         /\ \A i \in 1..Len(gaps) : gaps'[i] = gaps[i]
                         /\ gaps'[Len(gaps) + 1].from = outage /\ gaps'[Len(gaps) + 1].until = attempt
                         /\ outage < Len(errors) + 1
        /\ Len(gaps') \in Nat
        /\ \A x : x \in Range(gaps') <=> \E i \in 1..Len(gaps') : gaps'[i] = x
        /\ \A g \in Range(gaps') : g.from \in DOMAIN errors /\ g.until - 1 <= Len(errors) /\ g.until \in Nat
        /\ \A g \in Range(gaps') :
             LET end == IF g.until = 0 THEN Len(errors) ELSE g.until - 1
             IN  (\A k \in (g.from + 1)..end : errors[k] # "WRONG_SYMBOL") => g.reason = errors[g.from]
    <3>1. attempt \in {0, Len(errors) + 1}
      BY <1>1
    <3>. QED
      BY <1>1, <2>1, <3>1, RegisteredGap
  <2>3. /\ Closed(gaps')
        /\ attempt = Len(errors) + 1 /\ attempt # 0
    BY <1>1, <1>3, <2>1, ClosedByRegistering
  <2>4. Reach' = attempt
    BY <2>1, <2>3 DEF Reach
  <2>5. \A k \in Outages : k \in Nat /\ k < attempt
    BY <1>3, <1>4, <2>3
  <2>6. GapsSoFar'
    BY <1>3, <2>1, <2>3, <2>4, <2>5 DEF GapsSoFar, Closed
  <2>7. GapNamesItsFailure'
    <3>. SUFFICES ASSUME NEW g \in Range(gaps')
                  PROVE  LET end == IF g.until = 0 THEN Len(errors') ELSE g.until - 1
                         IN  (\A k \in (g.from + 1)..end : errors'[k] # "WRONG_SYMBOL") => g.reason = errors'[g.from]
      BY DEF GapNamesItsFailure
    <3>1. g.until # 0
      <4>1. PICK i \in 1..Len(gaps') : gaps'[i] = g
        BY <2>2
      <4>2. g.from \in 1..Len(errors) /\ g.from < g.until
        BY <1>4, <2>3, <4>1 DEF Closed
      <4>. QED
        BY <4>2
    <3>2. g.from \in 1..Len(errors) /\ g.until - 1 <= Len(errors) /\ g.until \in Nat
      BY <1>3, <2>2
    <3>3. LET end == IF g.until = 0 THEN Len(errors) ELSE g.until - 1
          IN  (\A k \in (g.from + 1)..end : errors[k] # "WRONG_SYMBOL") => g.reason = errors[g.from]
      BY <2>2
    <3>. QED
      BY <1>5, <3>1, <3>2, <3>3
  <2>. QED
    BY <1>1, <1>2, <2>6, <2>7 DEF LoopInv, EveryOutageIsAGap, Started, Receiving, Persisting
<1>. QED
  BY <1>7, <1>8

\* While the loop's own state stays, so does what is known of it.
LEMMA QuietLoop ==
  ASSUME LoopInv, UNCHANGED <<errors, outage, gaps>>, pc \notin {"ended", "down"}, pc' # "ended",
         pc # "failed" \/ pc' = "down",
         pc' \in {"idle", "finish"} => Len(errors) = attempt',
         pc' \in Started => Len(errors) + 1 = attempt'
  PROVE  LoopInv'
<1>1. pc # "failed" => GapsSoFar'
  BY Zenon DEF LoopInv, GapsSoFar, Reach, Outages
<1>2. GapNamesItsFailure'
  BY Zenon DEF LoopInv, GapNamesItsFailure
<1>. QED
  BY <1>1, <1>2 DEF LoopInv, EveryOutageIsAGap

\* The gaps of a run are right at every step, and complete at its end.
THEOREM GapsInductive == Spec => []LoopInv
<1>1. Init => LoopInv
  <2>. SUFFICES ASSUME Init PROVE LoopInv
    OBVIOUS
  <2>1. /\ errors = <<>> /\ gaps = <<>> /\ outage = 0 /\ attempt = 0 /\ pc = "idle"
        /\ Len(errors) = 0 /\ Len(gaps) = 0 /\ Outages = {} /\ Range(gaps) = {}
    BY EmptySeq DEF Init, Outages, Range
  <2>. QED
    BY <2>1 DEF LoopInv, GapsSoFar, EveryOutageIsAGap, GapNamesItsFailure, Started, Receiving, Persisting
<1>2. TypeInv /\ LoopInv /\ [Next]_vars => LoopInv'
  <2>. SUFFICES ASSUME TypeInv, LoopInv, [Next]_vars PROVE LoopInv'
    OBVIOUS
  <2>1. CASE Collect \/ PersistBatch \/ \E f \in AllFrames : ReceiveEarly(f) \/ Receive(f)
    <3>1. /\ UNCHANGED <<attempt, errors, outage, gaps>>
          /\ pc \in Started \ {"failed"} /\ pc' \in Started
      BY <2>1, AttemptIsQuiet
    <3>2. pc \notin {"ended", "down"} /\ pc' \notin {"ended", "idle", "finish"}
      BY <3>1 DEF Started, Receiving, Persisting
    <3>3. Len(errors) + 1 = attempt'
      BY <3>1 DEF LoopInv
    <3>. QED
      BY <3>1, <3>2, <3>3, QuietLoop
  <2>2. CASE StartAttempt
    <3>1. /\ UNCHANGED <<errors, outage, gaps>> /\ pc = "idle" /\ pc' = "connect"
          /\ attempt' = attempt + 1 /\ Len(errors) = attempt
      BY <2>2 DEF StartAttempt, LoopInv
    <3>. QED
      BY <3>1, QuietLoop
  <2>3. CASE DeadlinePasses
    <3>1. /\ UNCHANGED <<errors, outage, gaps, attempt>> /\ pc = "idle" /\ pc' = "finish"
          /\ Len(errors) = attempt
      BY <2>3 DEF DeadlinePasses, LoopInv, soakVars
    <3>. QED
      BY <3>1, QuietLoop DEF Started, Receiving, Persisting
  <2>4. CASE Crash
    <3>1. /\ UNCHANGED <<errors, outage, gaps>> /\ pc \notin {"ended", "down"} /\ pc' = "down"
      BY <2>4 DEF Crash, soakVars
    <3>. QED
      BY <3>1, QuietLoop DEF Started, Receiving, Persisting
  <2>5. CASE StartRun
    <3>1. /\ errors' = <<>> /\ gaps' = <<>> /\ outage' = 0 /\ attempt' = 0 /\ pc' = "idle"
          /\ Len(errors') = 0 /\ Len(gaps') = 0 /\ Outages' = {} /\ Range(gaps') = {}
      BY <2>5, EmptySeq DEF StartRun, Outages, Range
    <3>. QED
      BY <3>1 DEF LoopInv, GapsSoFar, EveryOutageIsAGap, GapNamesItsFailure, Started, Receiving, Persisting
  <2>6. CASE UNCHANGED vars
    BY <2>6, Zenon DEF vars, soakVars, LoopInv, GapsSoFar, Reach, Outages, EveryOutageIsAGap, GapNamesItsFailure
  <2>. QED
    BY <2>1, <2>2, <2>3, <2>4, <2>5, <2>6, FailureKeepsGaps, EndClosesOutage, FailedCompletionKeepsGaps
       DEF Next, Soak
<1>. QED
  BY <1>1, <1>2, TypeCorrect, PTL DEF Spec

\* When a run has ended every outage is the start of exactly one gap, in order.
THEOREM OutagesAreGaps == Spec => []EveryOutageIsAGap
<1>1. LoopInv => EveryOutageIsAGap
  BY DEF LoopInv
<1>. QED
  BY <1>1, GapsInductive, PTL

\* A gap is explained by the failure that opened it, unless a failure of the symbol
\* came before its end.
THEOREM GapsNameFailures == Spec => []GapNamesItsFailure
<1>1. LoopInv => GapNamesItsFailure
  BY DEF LoopInv
<1>. QED
  BY <1>1, GapsInductive, PTL

-----------------------------------------------------------------------------
(* The counts                                                              *)

\* Every stored row is under its own day, and what has been counted is stored.
CountInv ==
  /\ \A x \in AllDays : \A g \in parts[x] : \A e \in g : DayOf(e) = x
  /\ pc \notin Writing => fresh = 0
  /\ counted + flushed + fresh + before <= Cardinality(Stored)

\* A generation adds at least the rows it is counted for.
LEMMA NewRowsAreStored ==
  ASSUME TypeInv, FilesInv, CountInv, WriteParquet
  PROVE  /\ \A x \in AllDays : \A g \in parts'[x] : \A e \in g : DayOf(e) = x
         /\ \E n \in Nat : /\ fresh' = fresh + n
                           /\ Cardinality(Stored) + n <= Cardinality(Stored')
<1>. DEFINE todo  == Days(Rows(buffer)) \ {p[1] : p \in made}
            d     == CHOOSE x \in todo : \A y \in todo : x <= y
            gen   == Merge(d, On(Rows(buffer), d))
            sizes == {0} \cup {Cardinality(g) : g \in parts[d]}
            old   == UNION parts[d]
<1>1. pc = "parquet" /\ parts' = [parts EXCEPT ![d] = @ \cup {gen}] /\ fresh' = fresh + NewRows(d, gen)
  BY DEF WriteParquet
<1>2. d \in AllDays /\ IsFiniteSet(gen) /\ NewRows(d, gen) \in Nat
  BY <1>1, GenerationTypes
<1>3. gen = On(Rows(buffer), d) \cup old /\ old \subseteq Stored
  BY <1>2 DEF Merge, Stored
<1>4. \A e \in gen : DayOf(e) = d
  BY <1>2, <1>3 DEF On, CountInv
<1>5. IsFiniteSet(Stored) /\ IsFiniteSet(old)
  BY <1>3, FS_Subset DEF TypeInv, TypeSupport
<1>6. NewRows(d, gen) = IF Cardinality(gen) > Max(sizes) THEN Cardinality(gen) - Max(sizes) ELSE 0
  BY DEF NewRows
<1>7. Cardinality(old) \in sizes
  <2>1. CASE parts[d] = {}
    <3>1. Cardinality(old) = 0
      BY <2>1, FS_EmptySet
    <3>. QED
      BY <3>1
  <2>2. CASE parts[d] # {}
    <3>1. PICK g \in parts[d] : old \subseteq g
      BY <1>2, <2>2 DEF FilesInv, LargestIsWhole
    <3>2. g = old
      BY <3>1
    <3>. QED
      BY <3>1, <3>2
  <2>. QED
    BY <2>1, <2>2
<1>8. Max(sizes) \in Nat /\ Cardinality(old) <= Max(sizes) /\ Cardinality(old) \in Nat
  <2>1. \A g \in parts[d] : Cardinality(g) \in Nat /\ Cardinality(g) <= Cardinality(old)
    BY <1>5, FS_Subset, FS_CardinalityType
  <2>2. Cardinality(old) \in Nat
    BY <1>5, FS_CardinalityType
  <2>3. ASSUME NEW y \in sizes PROVE y \in Nat /\ y <= Cardinality(old)
    <3>1. CASE y = 0
      BY <2>2, <3>1
    <3>2. CASE y # 0
      BY <2>1, <3>2
    <3>. QED
      BY <3>1, <3>2
  <2>. HIDE DEF sizes, old
  <2>. QED
    BY <1>7, <2>2, <2>3, MaxIsGreatest
<1>9. Stored' = Stored \cup gen
  <2>. HIDE DEF gen, d
  <2>1. \A x \in AllDays : parts'[x] = IF x = d THEN parts[d] \cup {gen} ELSE parts[x]
    BY <1>1, <1>2 DEF TypeInv, TypeOK
  <2>. QED
    BY <1>2, <2>1 DEF Stored
<1>10. \A x \in AllDays : \A g \in parts'[x] : \A e \in g : DayOf(e) = x
  <2>. HIDE DEF gen, d
  <2>1. \A x \in AllDays : parts'[x] = IF x = d THEN parts[d] \cup {gen} ELSE parts[x]
    BY <1>1, <1>2 DEF TypeInv, TypeOK
  <2>. QED
    BY <1>4, <2>1 DEF CountInv
<1>. HIDE DEF todo, d, gen, sizes, old
<1>11. Stored \cap gen = old
  <2>1. ASSUME NEW e \in Stored, e \in gen PROVE e \in old
    <3>1. PICK x \in AllDays : e \in UNION parts[x]
      BY DEF Stored
    <3>2. DayOf(e) = x /\ DayOf(e) = d
      BY <1>4, <2>1, <3>1 DEF CountInv
    <3>. QED
      BY <3>1, <3>2 DEF old
  <2>. QED
    BY <1>3, <2>1
<1>12. Cardinality(Stored') = Cardinality(Stored) + Cardinality(gen) - Cardinality(old)
  BY <1>2, <1>5, <1>9, <1>11, FS_Union
<1>13. Cardinality(gen) \in Nat /\ Cardinality(Stored) \in Nat /\ Cardinality(old) <= Cardinality(gen)
  BY <1>2, <1>3, <1>5, FS_CardinalityType, FS_Subset
<1>14. Cardinality(Stored) + NewRows(d, gen) <= Cardinality(Stored')
  BY <1>6, <1>8, <1>12, <1>13
<1>. QED
  BY <1>1, <1>2, <1>10, <1>14

\* Nothing is stored, and what is counted only moves from one counter to another or is
\* forgotten with the attempt.
LEMMA QuietCounts ==
  ASSUME TypeInv, CountInv, parts' = parts, pc' \notin Writing => fresh' = 0,
         counted' \in Nat, flushed' \in Nat, fresh' \in Nat, before' = before,
         counted' + flushed' + fresh' <= counted + flushed + fresh
  PROVE  CountInv'
<1>1. Stored' = Stored
  BY DEF Stored
<1>2. Cardinality(Stored) \in Nat /\ counted \in Nat /\ flushed \in Nat /\ fresh \in Nat /\ before \in Nat
  BY FS_CardinalityType DEF TypeInv, TypeOK, TypeSupport
<1>3. counted' + flushed' + fresh' + before' <= Cardinality(Stored)
  BY <1>2 DEF CountInv
<1>. QED
  BY <1>1, <1>3 DEF CountInv

\* What every step but the two that store or start anew does to the counters.
LEMMA StepsMoveCounts ==
  ASSUME TypeInv, TypeInv', CountInv, Next, ~WriteParquet, ~StartRun
  PROVE  /\ parts' = parts /\ before' = before
         /\ pc' \notin Writing => fresh' = 0
         /\ counted' + flushed' + fresh' <= counted + flushed + fresh
<1>. USE DEF Writing, Raise, Persist, PersistFails, diskVars, histVars, batchVars, soakVars
<1>0. /\ counted \in Nat /\ flushed \in Nat /\ fresh \in Nat
      /\ counted' \in Nat /\ flushed' \in Nat /\ fresh' \in Nat
      /\ pc \notin Writing => fresh = 0
  BY DEF TypeInv, TypeOK, CountInv
\* Most steps leave the counters alone, or forget what an attempt has counted.
<1>. DEFINE Forgets == /\ parts' = parts /\ before' = before /\ counted' = counted
                       /\ flushed' = flushed \/ flushed' = 0
                       /\ fresh' = fresh \/ fresh' = 0
                       /\ pc' \notin Writing => fresh' = 0
<1>a. Forgets => /\ parts' = parts /\ before' = before
                 /\ pc' \notin Writing => fresh' = 0
                 /\ counted' + flushed' + fresh' <= counted + flushed + fresh
  <2>1. ASSUME NEW c \in Nat, NEW f \in Nat, NEW n \in Nat,
               NEW f1 \in Nat, NEW n1 \in Nat, f1 = f \/ f1 = 0, n1 = n \/ n1 = 0
        PROVE  c + f1 + n1 <= c + f + n
    BY <2>1
  <2>. QED
    BY <1>0, <2>1
<1>1. CASE Collect
  <2>1. CASE Connect \/ BybitSubscribed \/ BinanceSubscribed \/ Pong
    <3>1. Forgets
      BY <1>0, <2>1 DEF Connect, BybitSubscribed, BinanceSubscribed, Pong
    <3>. QED
      BY <1>a, <3>1
  <2>2. CASE ConnectFails \/ PongFails
    <3>1. Forgets
      BY <1>0, <2>2 DEF ConnectFails, PongFails
    <3>. QED
      BY <1>a, <3>1
  <2>3. CASE SubscribeRefused \/ AckUnreadable
    <3>1. Forgets
      BY <1>0, <2>3 DEF SubscribeRefused, AckUnreadable
    <3>. QED
      BY <1>a, <3>1
  <2>4. CASE SubscribeFails \/ ReceiveFails
    <3>1. Forgets
      BY <1>0, <2>4 DEF SubscribeFails, ReceiveFails
    <3>. QED
      BY <1>a, <3>1
  <2>5. CASE PollTimesOut \/ StopReceiving
    <3>1. Forgets
      BY <1>0, <2>5 DEF PollTimesOut, StopReceiving, TurnEnds
    <3>. QED
      BY <1>a, <3>1
  <2>. QED
    BY <1>1, <2>1, <2>2, <2>3, <2>4, <2>5 DEF Collect
<1>2. CASE \E f \in AllFrames : ReceiveEarly(f) \/ Receive(f)
  <2>1. Forgets
    BY <1>0, <1>2 DEF ReceiveEarly, Receive, Buffer, TurnEnds
  <2>. QED
    BY <1>a, <2>1
<1>3. CASE Rejected \/ Accepted \/ StepFails \/ QuarantineBuffer \/ QuarantineFails \/ WriteRaw
  <2>1. CASE Rejected \/ StepFails
    <3>1. Forgets
      BY <1>0, <2>1 DEF Rejected, StepFails
    <3>. QED
      BY <1>a, <3>1
  <2>2. CASE Accepted
    <3>1. Forgets
      BY <1>0, <2>2 DEF Accepted
    <3>. QED
      BY <1>a, <3>1
  <2>3. CASE QuarantineBuffer \/ QuarantineFails
    <3>1. Forgets
      BY <1>0, <2>3 DEF QuarantineBuffer, QuarantineFails
    <3>. QED
      BY <1>a, <3>1
  <2>4. CASE WriteRaw
    <3>1. Forgets
      BY <1>0, <2>4 DEF WriteRaw
    <3>. QED
      BY <1>a, <3>1
  <2>. QED
    BY <1>3, <2>1, <2>2, <2>3, <2>4
<1>4. CASE NothingToStore \/ WriteCheckpoint
  BY <1>0, <1>4 DEF NothingToStore, WriteCheckpoint, PersistReturns
<1>5. CASE AppendManifest
  BY <1>0, <1>5 DEF AppendManifest
<1>6. CASE StartAttempt \/ DeadlinePasses \/ FinishRun
  <2>1. Forgets
    BY <1>0, <1>6, Zenon DEF StartAttempt, DeadlinePasses, FinishRun
  <2>. QED
    BY <1>a, <2>1
<1>7. CASE AttemptCompletes
  <2>1. /\ counted' = counted + flushed /\ flushed' = 0 /\ fresh' = fresh /\ pc = "complete"
        /\ parts' = parts /\ before' = before
    BY <1>7, Zenon DEF AttemptCompletes
  <2>2. fresh = 0
    BY <1>0, <2>1
  <2>3. counted' + flushed' + fresh' = counted + flushed + fresh
    BY <1>0, <2>1, <2>2
  <2>. QED
    BY <1>0, <2>1, <2>2, <2>3
<1>10. CASE CompletionFails
  <2>1. /\ counted' = counted + flushed /\ flushed' = 0 /\ fresh' = fresh /\ pc = "complete"
        /\ parts' = parts /\ before' = before
    BY <1>10 DEF CompletionFails, batchVars, diskVars, histVars
  <2>2. fresh = 0
    BY <1>0, <2>1
  <2>3. counted' + flushed' + fresh' = counted + flushed + fresh
    BY <1>0, <2>1, <2>2
  <2>. QED
    BY <1>0, <2>1, <2>2, <2>3
<1>8. CASE AttemptFails
  <2>1. Forgets
    <3>1. /\ counted' = counted /\ flushed' = 0 /\ fresh' = fresh /\ pc = "failed"
          /\ parts' = parts /\ before' = before
      BY <1>8, Zenon DEF AttemptFails
    <3>. QED
      BY <1>0, <3>1
  <2>. QED
    BY <1>a, <2>1
<1>9. CASE Crash
  <2>1. Forgets
    BY <1>9 DEF Crash
  <2>. QED
    BY <1>a, <2>1
<1>. QED
  BY <1>1, <1>2, <1>3, <1>4, <1>5, <1>6, <1>7, <1>8, <1>9, <1>10 DEF Next, PersistBatch, Soak

\* However often frames are replayed and steps fail, every row a run reports as new
\* was stored in it.
THEOREM CountsBacked == Spec => []CountsAreBacked
<1>1. TypeInv /\ Init => CountInv
  <2>. SUFFICES ASSUME TypeInv, Init PROVE CountInv
    OBVIOUS
  <2>1. Cardinality(Stored) \in Nat
    BY FS_CardinalityType DEF TypeInv, TypeSupport
  <2>. QED
    BY <2>1 DEF Init, CountInv
<1>2. TypeInv /\ TypeInv' /\ FilesInv /\ CountInv /\ [Next]_vars => CountInv'
  <2>. SUFFICES ASSUME TypeInv, TypeInv', FilesInv, CountInv, [Next]_vars PROVE CountInv'
    OBVIOUS
  <2>0. /\ counted \in Nat /\ flushed \in Nat /\ fresh \in Nat /\ before \in Nat
        /\ counted' \in Nat /\ flushed' \in Nat /\ fresh' \in Nat
        /\ Cardinality(Stored) \in Nat /\ Cardinality(Stored') \in Nat
    BY FS_CardinalityType DEF TypeInv, TypeOK, TypeSupport
  <2>1. CASE WriteParquet
    <3>1. PICK n \in Nat : fresh' = fresh + n /\ Cardinality(Stored) + n <= Cardinality(Stored')
      BY <2>1, NewRowsAreStored
    <3>2. counted' = counted /\ flushed' = flushed /\ before' = before /\ pc' \in Writing
      BY <2>1, Zenon DEF WriteParquet, soakVars, histVars, Writing
    <3>3. counted' + flushed' + fresh' + before' <= Cardinality(Stored')
      BY <2>0, <3>1, <3>2 DEF CountInv
    <3>. QED
      BY <2>1, <3>2, <3>3, NewRowsAreStored DEF CountInv
  <2>2. CASE StartRun
    <3>1. /\ counted' = 0 /\ flushed' = 0 /\ fresh' = fresh /\ pc = "down" /\ pc' = "idle"
          /\ parts' = parts /\ before' = Cardinality(Stored)
      BY <2>2 DEF StartRun, batchVars, diskVars
    <3>2. fresh = 0 /\ Stored' = Stored
      BY <3>1 DEF CountInv, Writing, Stored
    <3>. QED
      BY <2>0, <3>1, <3>2 DEF CountInv
  <2>3. CASE Next /\ ~WriteParquet /\ ~StartRun
    BY <2>0, <2>3, StepsMoveCounts, QuietCounts
  <2>4. CASE UNCHANGED vars
    BY <2>4, Zenon DEF vars, batchVars, diskVars, soakVars, histVars, CountInv, Stored
  <2>. QED
    BY <2>1, <2>2, <2>3, <2>4
<1>3. TypeInv /\ CountInv => CountsAreBacked
  <2>. SUFFICES ASSUME TypeInv, CountInv PROVE CountsAreBacked
    OBVIOUS
  <2>1. counted \in Nat /\ flushed \in Nat /\ fresh \in Nat /\ before \in Nat /\ Cardinality(Stored) \in Nat
    BY FS_CardinalityType DEF TypeInv, TypeOK, TypeSupport
  <2>. QED
    BY <2>1 DEF CountInv, CountsAreBacked
<1>. QED
  BY <1>1, <1>2, <1>3, TypeCorrect, FilesInductive, PTL DEF Spec

\* The variables keep their types, and a buffer is flushed when it is full.
THEOREM TypesHold == Spec => []TypeOK
<1>1. TypeInv => TypeOK
  BY DEF TypeInv
<1>. QED
  BY <1>1, TypeCorrect, PTL
=============================================================================
