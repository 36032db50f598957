--------------------------- MODULE GapRecoveryProofs ---------------------------
(***************************************************************************)
(* Theorems about GapRecovery for every endpoint, limit, page bound and    *)
(* number of trades, threads, gaps and crashes: the types, what a gap      *)
(* recovered from Binance holds however often it is recovered again, that  *)
(* what outages hide is in the registry, and what a healthy completeness   *)
(* is worth.                                                               *)
(***************************************************************************)
EXTENDS GapRecovery, CommonLemmas, TLAPS

RecordType == [status : Statuses \cup {"none"}, pre : 0..MaxTrade, post : 0..MaxTrade]
JobType == [gap : 0..MaxGap, pc : {"idle", "fetch", "open", "write", "update"},
            from : 0..(MaxTrade + 1), target : 0..MaxTrade, pages : 0..(MaxPages - 1),
            items : SUBSET Trades]

\* The gap the caller is annotating has no end yet.
OpenInv ==
  /\ session = "registered" => open # 0
  /\ open # 0 => registry[open].post = NoId

\* A thread is idle when it has no gap; a registered gap's record has a status.
ThreadInv ==
  /\ \A t \in Threads : job[t].pc = "idle" <=> job[t].gap = 0
  /\ \A g \in Registered : memory[g] # "none"

TypeInv == TypeOK /\ OpenInv /\ ThreadInv

\* What a set of ids must hold for a gap with these boundaries.
Spans(r, ids) == r.pre # NoId /\ r.post # NoId /\ (r.pre + 1)..(r.post - 1) \subseteq ids

\* Only a gap whose two ends are known is ever called recovered.
EndsInv ==
  \A g \in Gaps : "RECOVERED" \in {memory[g], registry[g].status} =>
                    registry[g].pre # NoId /\ registry[g].post # NoId

\* Two threads on one gap contend for it.
AloneInv ==
  \A t, u \in Threads : t # u /\ job[t].gap # 0 /\ job[t].gap = job[u].gap => job[t].gap \in contended

\* What a thread that is alone on its gap has brought, and where it has put it.
WorkInv(t) ==
  LET g == job[t].gap
  IN  /\ job[t].pc \in {"open", "write", "update"} /\ memory[g] = "RECOVERED" =>
           job[t].items # {} /\ Spans(registry[g], job[t].items)
      /\ job[t].pc = "write" => file[g] = {} /\ g \in halfDone
      /\ job[t].pc = "update" /\ job[t].items # {} => file[g] = job[t].items

ProofInv ==
  /\ AloneInv
  /\ endpoint # "recent-trade" =>
       EndsInv /\ \A t \in Threads : job[t].gap \notin contended => WorkInv(t)

-----------------------------------------------------------------------------

\* The assumptions of a step, unfolded once.
Typed ==
  /\ MaxTrade \in Nat /\ MaxGap \in Nat /\ MaxCrash \in Nat
  /\ MaxPages \in Nat \ {0} /\ Limit \in Nat \ {0}
  /\ feed \in 0..MaxTrade /\ cursor \in 0..feed /\ written \in 0..cursor
  /\ firstId \in 0..cursor /\ lastId \in 0..cursor
  /\ registry \in [Gaps -> RecordType]
  /\ memory \in [Gaps -> Statuses \cup {"none"}]
  /\ job \in [Threads -> JobType]

\* The invariant gives the ranges that the lemmas below compute with.
LEMMA TypedFromInv == ASSUME RecoveryAssumption, TypeInv PROVE Typed
BY DEF TypeInv, TypeOK, Typed, RecordType, JobType, RecoveryAssumption

\* An answer is a run of executed trades.
LEMMA PagesAreRuns ==
  ASSUME Typed, NEW from \in Nat, NEW page \in Pages(from), page[1] <= page[2]
  PROVE  page[1] \in 1..page[2] /\ page[2] \in 1..feed /\ page[1]..page[2] \subseteq Trades
<1>1. feed \in 0..MaxTrade /\ MaxTrade \in Nat /\ Limit \in Nat \ {0}
  BY DEF Typed
<1>2. ASSUME NEW n \in Nat \ {0}, page \in RunsFrom(n)
      PROVE  page[1] = n /\ page[2] \in (n - 1)..feed
  BY <1>1, <1>2 DEF RunsFrom
<1>3. CASE page \in RecentRuns
  BY <1>1, <1>3 DEF RecentRuns, Trades
<1>4. CASE \E n \in Nat \ {0} : page \in RunsFrom(n)
  <2>1. PICK n \in Nat \ {0} : page \in RunsFrom(n)  BY <1>4
  <2>2. page[1] = n /\ page[2] \in (n - 1)..feed  BY <1>2, <2>1
  <2> QED BY <2>2, <1>1 DEF Trades
<1>5. page \in RecentRuns \/ \E n \in Nat \ {0} : page \in RunsFrom(n)
  BY <1>1 DEF Pages, AnyRun, NoId
<1> QED BY <1>3, <1>4, <1>5

\* Changing one record of a registered gap.
LEMMA UpdateTypes ==
  ASSUME NEW g \in Gaps, NEW r \in RecordType,
         registry \in [Gaps -> RecordType], UpdateGap(g, r)
  PROVE  /\ registry' \in [Gaps -> RecordType]
         /\ registry'[g] = r
         /\ \A h \in Gaps : h # g => registry'[h] = registry[h]
BY DEF UpdateGap

\* One thread moves, the others stay.
Moves(t, r) == job' = [job EXCEPT ![t] = r]

\* The moving thread is where it goes to and the others are where they were.
LEMMA MovesOne ==
  ASSUME job \in [Threads -> JobType], NEW t \in Threads, NEW r \in JobType, Moves(t, r)
  PROVE  /\ job' \in [Threads -> JobType]
         /\ job'[t] = r
         /\ \A u \in Threads : u # t => job'[u] = job[u]
BY DEF Moves

\* Idle is a job.
LEMMA IdleIsAJob ==
  ASSUME Typed
  PROVE  Idle \in JobType /\ Idle.gap = 0 /\ Idle.pc = "idle"
BY DEF Idle, Holding, JobType, NoId, Typed

\* What a thread holds when its requests are over.
Brought(g, ids) == Holding(g, IF ids = {} THEN "update" ELSE "open", ids)

\* The requests of a thread are over, with a verdict the gap's record takes.
FetchEnds(t, ids, proven) ==
  /\ EndFetch(t, ids, proven)
  /\ endpoint # "recent-trade" /\ proven => Verified(job[t].gap, ids)

\* They go on.
FetchesOn(t, r) ==
  r.gap = job[t].gap /\ r.pc = "fetch" /\ Moves(t, r) /\ memory' = memory

\* One request of a thread.
Requests(t) ==
  \/ \E page \in Pages(job[t].from) : FetchPage(t, page) \/ FetchRecent(t, page)
  \/ EmptyPage(t) \/ FetchFails(t)

\* A request either leaves its thread asking or ends its requests.
LEMMA RequestOutcome ==
  ASSUME Typed, NEW t \in Threads, Requests(t)
  PROVE  /\ job[t].pc = "fetch"
         /\ \/ \E r \in JobType : FetchesOn(t, r)
            \/ \E ids \in SUBSET Trades, proven \in BOOLEAN : FetchEnds(t, ids, proven)
<1>1. job[t] \in JobType /\ job[t].items \in SUBSET Trades /\ job[t].pages \in 0..(MaxPages - 1)
      /\ job[t].from \in Nat
  BY DEF Typed, JobType
<1>2. \A g, ids : Verified(g, ids) \in BOOLEAN  BY DEF Verified, Contiguous
<1>3. ASSUME NEW page \in Pages(job[t].from), FetchPage(t, page)
      PROVE  \/ \E r \in JobType : FetchesOn(t, r)
             \/ \E ids \in SUBSET Trades, proven \in BOOLEAN : FetchEnds(t, ids, proven)
  <2> DEFINE ids == job[t].items \cup (page[1]..page[2])
  <2>1. page[1] <= page[2] /\ job[t].pc = "fetch"  BY <1>3 DEF FetchPage
  <2>2. page[2] \in 1..feed /\ page[1]..page[2] \subseteq Trades  BY <1>1, <2>1, PagesAreRuns
  <2>3. ids \in SUBSET Trades  BY <1>1, <2>2
  <2>4. CASE PagesDone(t, page)
    <3>1. EndFetch(t, ids, Verified(job[t].gap, ids))  BY <1>3, <2>4 DEF FetchPage
    <3> HIDE DEF ids
    <3>2. FetchEnds(t, ids, Verified(job[t].gap, ids))  BY <3>1 DEF FetchEnds
    <3> QED BY <1>2, <2>3, <3>2
  <2>5. CASE ~PagesDone(t, page)
    <3> DEFINE r == Asking(job[t].gap, page[2] + 1, job[t].target, job[t].pages + 1, ids)
    <3>1. Moves(t, r) /\ memory' = memory
      <4>1. job' = [job EXCEPT ![t] = r] /\ memory' = memory  BY <1>3, <2>5 DEF FetchPage
      <4> HIDE DEF r
      <4> QED BY <4>1 DEF Moves
    <3>2. job[t].pages + 1 \in 0..(MaxPages - 1)  BY <1>1, <2>5 DEF PagesDone, Typed
    <3>3. page[2] + 1 \in 0..(MaxTrade + 1)  BY <2>2 DEF Typed
    <3>4. r \in JobType /\ r.gap = job[t].gap /\ r.pc = "fetch"
      <4> HIDE DEF ids
      <4> QED BY <1>1, <2>3, <3>2, <3>3 DEF JobType, Asking
    <3> HIDE DEF r
    <3> QED BY <3>1, <3>4 DEF FetchesOn
  <2> QED BY <2>4, <2>5
<1>4. ASSUME NEW page \in Pages(job[t].from), FetchRecent(t, page)
      PROVE  \E ids \in SUBSET Trades, proven \in BOOLEAN : FetchEnds(t, ids, proven)
  <2> DEFINE ids == page[1]..page[2]
             proven == ids # {} /\ page[2] - page[1] + 1 < Limit
  <2>1. EndFetch(t, ids, proven) /\ endpoint = "recent-trade"  BY <1>4 DEF FetchRecent
  <2>2. ids \in SUBSET Trades
    <3>1. page \in RecentRuns  BY <1>4 DEF FetchRecent, Pages
    <3> QED BY <3>1 DEF RecentRuns, Trades, Typed
  <2>3. proven \in BOOLEAN  OBVIOUS
  <2> HIDE DEF ids, proven
  <2>4. FetchEnds(t, ids, proven)  BY <2>1 DEF FetchEnds
  <2> QED BY <2>2, <2>3, <2>4
<1>5. ASSUME EmptyPage(t) PROVE FetchEnds(t, job[t].items, Verified(job[t].gap, job[t].items))
  BY <1>5 DEF EmptyPage, FetchEnds
<1>6. ASSUME FetchFails(t) PROVE FetchEnds(t, job[t].items, FALSE)
  BY <1>6 DEF FetchFails, FetchEnds
<1>7. job[t].pc = "fetch"
  BY DEF Requests, FetchPage, FetchRecent, EmptyPage, FetchFails
<1> QED BY <1>1, <1>2, <1>3, <1>4, <1>5, <1>6, <1>7 DEF Requests

\* The types after EndFetch.
LEMMA EndFetchTypes ==
  ASSUME Typed, NEW t \in Threads, job[t].gap \in Gaps,
         NEW ids \in SUBSET Trades, NEW proven \in BOOLEAN, EndFetch(t, ids, proven)
  PROVE  /\ Brought(job[t].gap, ids) \in JobType
         /\ Moves(t, Brought(job[t].gap, ids))
         /\ memory' \in [Gaps -> Statuses \cup {"none"}]
         /\ memory'[job[t].gap] = Outcome(ids, proven)
         /\ \A h \in Gaps : h # job[t].gap => memory'[h] = memory[h]
<1>1. job[t] \in JobType  BY DEF Typed
<1>2. Moves(t, Brought(job[t].gap, ids))
  BY DEF EndFetch, Moves, Brought
<1>3. /\ 0 \in 0..(MaxPages - 1) /\ NoId \in 0..(MaxTrade + 1) /\ NoId \in 0..MaxTrade
      /\ job[t].gap \in 0..MaxGap
  BY <1>1 DEF NoId, Typed, JobType
<1>4. (IF ids = {} THEN "update" ELSE "open") \in {"idle", "fetch", "open", "write", "update"}
  OBVIOUS
<1>5. Brought(job[t].gap, ids) \in JobType  BY <1>3, <1>4 DEF Brought, Holding, JobType
<1>6. Outcome(ids, proven) \in Statuses  BY DEF Outcome, Statuses
<1>7. memory' = [memory EXCEPT ![job[t].gap] = Outcome(ids, proven)] /\ memory \in [Gaps -> Statuses \cup {"none"}]
  BY DEF EndFetch, Typed
<1> QED BY <1>2, <1>5, <1>6, <1>7

-----------------------------------------------------------------------------

\* The initial state has the types, no gap to annotate and idle threads.
LEMMA InitTypes == RecoveryAssumption /\ Init => TypeInv
<1> SUFFICES ASSUME RecoveryAssumption, Init PROVE TypeInv  OBVIOUS
<1>1. Idle \in JobType /\ Idle.gap = 0 /\ Idle.pc = "idle"
  BY DEF Idle, Holding, JobType, NoId, RecoveryAssumption
<1>2. registry \in [Gaps -> RecordType]
  BY DEF Init, NoRecord, RecordType, NoId, RecoveryAssumption
<1>3. /\ feed \in 0..MaxTrade /\ cursor \in 0..feed /\ written \in 0..cursor
      /\ firstId \in 0..cursor /\ lastId \in 0..cursor /\ crashes \in 0..MaxCrash
  BY DEF Init, NoId, RecoveryAssumption
<1>4. file \in [Gaps -> SUBSET Trades] /\ memory \in [Gaps -> Statuses \cup {"none"}]
  BY DEF Init
<1>5. job \in [Threads -> JobType] /\ \A t \in Threads : job[t].gap = 0 /\ job[t].pc = "idle"
  BY <1>1 DEF Init
<1>6. TypeOK
  BY <1>2, <1>3, <1>4, <1>5 DEF Init, TypeOK, JobType, RecordType
<1>7. Registered = {}  BY DEF Init, NoRecord, Registered
<1> QED BY <1>5, <1>6, <1>7 DEF TypeInv, OpenInv, ThreadInv, Init

\* The steps of the stream that leave the registry and the threads alone.
LEMMA StreamTypes ==
  ASSUME RecoveryAssumption, TypeInv,
         \/ Execute \/ Connect \/ Deliver \/ Write \/ WriteFails \/ Disconnect
         \/ HandleDisconnect \/ Restart
  PROVE  TypeInv'
<1>1. Typed  BY TypedFromInv
<1>2. UNCHANGED <<endpoint, registry, file, memory, job, open, crashes, contended, halfDone>>
  BY DEF Execute, Connect, Deliver, Write, WriteFails, Disconnect, HandleDisconnect, Restart,
         sessionVars, diskVars, threadVars
<1>3. Registered' = Registered  BY <1>2 DEF Registered
<1>4. feed' \in 0..MaxTrade /\ cursor' \in 0..feed' /\ written' \in 0..cursor'
      /\ firstId' \in 0..cursor' /\ lastId' \in 0..cursor'
  <2>1. CASE Execute           BY <1>1, <2>1 DEF Execute, Typed, sessionVars
  <2>2. CASE Connect           BY <1>1, <2>2 DEF Connect, Typed, NoId
  <2>3. CASE Deliver           BY <1>1, <2>3 DEF Deliver, Typed, NoId
  <2>4. CASE Write             BY <1>1, <2>4 DEF Write, Typed
  <2>5. CASE WriteFails        BY <1>1, <2>5 DEF WriteFails, Typed
  <2>6. CASE Disconnect        BY <1>1, <2>6 DEF Disconnect, Typed
  <2>7. CASE HandleDisconnect  BY <1>1, <2>7 DEF HandleDisconnect, Typed
  <2>8. CASE Restart           BY <1>1, <2>8 DEF Restart, Typed
  <2> QED BY <2>1, <2>2, <2>3, <2>4, <2>5, <2>6, <2>7, <2>8
<1>5. session' \in {"none", "live", "lost", "closing", "registered", "failed", "down"}
      /\ (session' = "registered" => session = "registered")
  BY DEF TypeInv, TypeOK, Execute, Connect, Deliver, Write, WriteFails, Disconnect,
         HandleDisconnect, Restart, sessionVars
<1>6. stored' \subseteq Trades /\ delivered' \subseteq Trades
  <2>1. stored \subseteq Trades /\ delivered \subseteq Trades  BY DEF TypeInv, TypeOK
  <2>2. CASE Deliver
    <3>1. cursor + 1 \in Trades  BY <1>1, <2>2 DEF Deliver, Typed, Trades
    <3> QED BY <2>1, <2>2, <3>1 DEF Deliver, diskVars
  <2>3. CASE Write \/ WriteFails
    <3>1. written + 1 \in Trades  BY <1>1, <2>3 DEF Write, WriteFails, Typed, Trades
    <3> QED BY <2>1, <2>3, <3>1 DEF Write, WriteFails
  <2>4. CASE ~Deliver /\ ~Write /\ ~WriteFails
    BY <2>1, <2>4 DEF Execute, Connect, Disconnect, HandleDisconnect, Restart, diskVars
  <2> QED BY <2>2, <2>3, <2>4
<1>7. TypeOK'
  BY <1>2, <1>3, <1>4, <1>5, <1>6 DEF TypeInv, TypeOK
<1> QED BY <1>2, <1>3, <1>5, <1>7 DEF TypeInv, OpenInv, ThreadInv

\* The steps that register a gap.
LEMMA RegisterTypes ==
  ASSUME RecoveryAssumption, TypeInv, NEW g \in Gaps, CloseDrained(g)
  PROVE  TypeInv'
<1>1. Typed  BY TypedFromInv
<1> DEFINE r == [NoRecord EXCEPT !.status = "OPEN"]
<1>2. r \in RecordType /\ r.status = "OPEN" /\ r.post = NoId
  BY <1>1 DEF NoRecord, RecordType, Statuses, NoId, Typed
<1>3. /\ RegisterGap(g) /\ session' = "registered"
      /\ UNCHANGED <<endpoint, feed, cursor, written, firstId, lastId, stored, file, job,
                     delivered, crashes, contended, halfDone>>
  BY DEF CloseDrained
<1>4. /\ registry' \in [Gaps -> RecordType]
      /\ registry'[g].status = "OPEN" /\ registry'[g].post = NoId
      /\ \A h \in Gaps : h # g => registry'[h] = registry[h]
  <2>1. UpdateGap(g, r)  BY <1>3 DEF RegisterGap
  <2>2. registry \in [Gaps -> RecordType]  BY <1>1 DEF Typed
  <2> HIDE DEF r
  <2> QED BY <1>2, <2>1, <2>2, UpdateTypes
<1>5. open' = g /\ g # 0  BY <1>3, <1>1 DEF RegisterGap, Gaps, Typed
<1>6. Registered' = Registered \cup {g}  BY <1>4 DEF Registered
<1>7. /\ memory' \in [Gaps -> Statuses \cup {"none"}] /\ memory'[g] = "OPEN"
      /\ \A h \in Gaps : h # g => memory'[h] = memory[h]
  BY <1>1, <1>3 DEF RegisterGap, Typed, Statuses
<1>8. TypeOK'
  BY <1>3, <1>4, <1>5, <1>6, <1>7 DEF TypeInv, TypeOK, RecordType
<1>9. OpenInv'  BY <1>4, <1>5 DEF OpenInv
<1>10. ThreadInv'
  BY <1>3, <1>6, <1>7 DEF TypeInv, ThreadInv, Registered
<1> QED BY <1>8, <1>9, <1>10 DEF TypeInv

\* The caller's notes replace the record of the gap it has open.
NotedRecord ==
  IF session = "registered" THEN [registry[open] EXCEPT !.pre = lastId, !.status = memory[open]]
                            ELSE [registry[open] EXCEPT !.post = firstId, !.status = memory[open]]

\* A note changes that record only, which stays a registered one.
LEMMA NoteChanges ==
  ASSUME RecoveryAssumption, TypeInv, AnnotatePre \/ AnnotatePost
  PROVE  /\ open # 0 /\ open \in Gaps /\ open \in Registered
         /\ NotedRecord.status = memory[open] /\ memory[open] # "none"
         /\ session = "registered" => NotedRecord.post = registry[open].post /\ AnnotatePre
         /\ session # "registered" => AnnotatePost
         /\ registry' \in [Gaps -> RecordType]
         /\ registry'[open] = NotedRecord
         /\ \A h \in Gaps : h # open => registry'[h] = registry[h]
         /\ Registered' = Registered
<1>1. Typed  BY TypedFromInv
<1>2. open # 0 /\ open \in Gaps /\ open \in Registered
  BY DEF TypeInv, TypeOK, OpenInv, AnnotatePre, AnnotatePost, Registered
<1>3. registry[open] \in RecordType /\ memory[open] \in Statuses \cup {"none"}
      /\ lastId \in 0..MaxTrade /\ firstId \in 0..MaxTrade
      /\ registry \in [Gaps -> RecordType]
  BY <1>1, <1>2 DEF Typed
<1>4. memory[open] # "none"  BY <1>2 DEF TypeInv, ThreadInv
<1>5. NotedRecord \in RecordType /\ NotedRecord.status = memory[open]
      /\ (session = "registered" => NotedRecord.post = registry[open].post)
  BY <1>3 DEF RecordType, NotedRecord
<1>6. UpdateGap(open, NotedRecord)
      /\ (session = "registered" => AnnotatePre) /\ (session # "registered" => AnnotatePost)
  BY DEF AnnotatePre, AnnotatePost, NotedRecord
<1>7. /\ registry' \in [Gaps -> RecordType] /\ registry'[open] = NotedRecord
      /\ \A h \in Gaps : h # open => registry'[h] = registry[h]
  BY <1>2, <1>3, <1>5, <1>6, UpdateTypes
<1>8. Registered' = Registered  BY <1>2, <1>4, <1>5, <1>7 DEF Registered
<1> QED BY <1>2, <1>4, <1>5, <1>6, <1>7, <1>8

\* So it keeps the types.
LEMMA NoteTypes ==
  ASSUME RecoveryAssumption, TypeInv, AnnotatePre \/ AnnotatePost
  PROVE  TypeInv'
<1>1. Typed  BY TypedFromInv
<1>2. UNCHANGED <<endpoint, feed, cursor, written, lastId, stored, file, threadVars, delivered, crashes>>
  BY DEF AnnotatePre, AnnotatePost
<1>3. /\ open \in Gaps /\ open \in Registered
      /\ session = "registered" => NotedRecord.post = registry[open].post /\ AnnotatePre
      /\ session # "registered" => AnnotatePost
      /\ registry' \in [Gaps -> RecordType] /\ registry'[open] = NotedRecord
      /\ Registered' = Registered
  BY NoteChanges
<1>4. firstId' \in 0..cursor /\ open' \in {open, 0} /\ session' \in {"none", "live"}
  BY <1>1 DEF AnnotatePre, AnnotatePost, Typed, NoId
<1>5. TypeOK'
  BY <1>2, <1>3, <1>4 DEF TypeInv, TypeOK, RecordType, threadVars
<1>6. OpenInv'
  BY <1>3, <1>4 DEF TypeInv, OpenInv, AnnotatePre, AnnotatePost
<1>7. ThreadInv'
  BY <1>2, <1>3 DEF TypeInv, ThreadInv, threadVars
<1> QED BY <1>5, <1>6, <1>7 DEF TypeInv

\* A thread's last step gives its gap's record the status in memory.
LEMMA FinishChanges ==
  ASSUME RecoveryAssumption, TypeInv, NEW t \in Threads, FinishRecovery(t)
  PROVE  /\ job[t].gap # 0 /\ job[t].gap \in Gaps /\ job[t].gap \in Registered
         /\ registry' \in [Gaps -> RecordType]
         /\ registry'[job[t].gap].status = memory[job[t].gap]
         /\ \A h \in Gaps : registry'[h].pre = registry[h].pre /\ registry'[h].post = registry[h].post
         /\ \A h \in Gaps : h # job[t].gap => registry'[h] = registry[h]
         /\ Registered' = Registered
         /\ Moves(t, Idle)
<1>1. Typed  BY TypedFromInv
<1> DEFINE g == job[t].gap
           r == [registry[g] EXCEPT !.status = memory[g]]
<1>2. g # 0 /\ g \in Registered /\ g \in Gaps
  BY DEF TypeInv, TypeOK, ThreadInv, FinishRecovery, Registered
<1>3. registry[g] \in RecordType /\ memory[g] \in Statuses \cup {"none"} /\ registry \in [Gaps -> RecordType]
  BY <1>1, <1>2 DEF Typed
<1>4. memory[g] # "none"  BY <1>2 DEF TypeInv, ThreadInv
<1>5. r \in RecordType /\ r.status = memory[g] /\ r.pre = registry[g].pre /\ r.post = registry[g].post
  BY <1>3 DEF RecordType
<1>6. UpdateGap(g, r) /\ Moves(t, Idle)
  BY DEF FinishRecovery, Moves
<1> HIDE DEF r
<1>7. /\ registry' \in [Gaps -> RecordType] /\ registry'[g] = r
      /\ \A h \in Gaps : h # g => registry'[h] = registry[h]
  BY <1>2, <1>3, <1>5, <1>6, UpdateTypes
<1>8. Registered' = Registered  BY <1>2, <1>4, <1>5, <1>7 DEF Registered
<1> QED BY <1>2, <1>5, <1>6, <1>7, <1>8

\* What is left of the types when one thread moves.
LEMMA ThreadStepTypes ==
  ASSUME RecoveryAssumption, TypeInv, NEW t \in Threads, NEW r \in JobType, Moves(t, r),
         r.gap \in Registered \cup {0}, r.pc = "idle" <=> r.gap = 0,
         UNCHANGED <<streamVars>>, registry' \in [Gaps -> RecordType], Registered' = Registered,
         \A g \in Gaps : registry'[g].post = registry[g].post,
         memory' \in [Gaps -> Statuses \cup {"none"}], \A g \in Registered : memory'[g] # "none",
         file' \in [Gaps -> SUBSET Trades], contended' \subseteq Gaps, halfDone' \subseteq Gaps
  PROVE  TypeInv'
<1>1. Typed  BY TypedFromInv
<1>2. /\ job' \in [Threads -> JobType] /\ job'[t] = r
      /\ \A u \in Threads : u # t => job'[u] = job[u]
  BY <1>1, MovesOne DEF Typed
<1>3. \A u \in Threads : /\ job'[u].gap \in Registered \cup {0}
                         /\ job'[u].pc = "idle" <=> job'[u].gap = 0
  BY <1>2 DEF TypeInv, TypeOK, ThreadInv
<1>4. UNCHANGED <<endpoint, feed, session, cursor, written, firstId, lastId, open, stored, delivered, crashes>>
  BY DEF streamVars, sessionVars
<1>5. TypeOK'
  BY <1>2, <1>3, <1>4 DEF TypeInv, TypeOK, JobType, RecordType
<1>6. OpenInv'
  <2>1. open # 0 => open \in Gaps  BY DEF TypeInv, TypeOK, Registered
  <2> QED BY <1>4, <2>1 DEF TypeInv, OpenInv
<1>7. ThreadInv'  BY <1>3 DEF ThreadInv
<1> QED BY <1>5, <1>6, <1>7 DEF TypeInv

\* What a thread starts with.
Started(g) ==
  IF endpoint = "unsupported"
    THEN Holding(g, "update", {})
    ELSE Asking(g, IF registry[g].pre = NoId THEN NoId ELSE registry[g].pre + 1,
                registry[g].post, 0, {})

\* A thread that starts has a registered gap and nothing else.
LEMMA TriggerChanges ==
  ASSUME RecoveryAssumption, TypeInv, NEW t \in Threads, NEW g \in Gaps, TriggerRecovery(t, g)
  PROVE  /\ Started(g) \in JobType /\ Started(g).gap = g /\ Started(g).items = {}
         /\ Started(g).pc = IF endpoint = "unsupported" THEN "update" ELSE "fetch"
         /\ Moves(t, Started(g))
         /\ g \in Registered /\ g # 0 /\ job[t].gap = 0
         /\ memory' \in [Gaps -> Statuses \cup {"none"}]
         /\ memory'[g] = IF endpoint = "unsupported" THEN "UNRECOVERABLE" ELSE memory[g]
         /\ \A h \in Gaps : h # g => memory'[h] = memory[h]
<1>1. Typed  BY TypedFromInv
<1>2. g \in Registered /\ g # 0 /\ g \in 0..MaxGap /\ job[t].gap = 0
  BY <1>1 DEF TriggerRecovery, Gaps, Typed, TypeInv, ThreadInv
<1>3. registry[g] \in RecordType  BY <1>1 DEF Typed
<1>4. (IF registry[g].pre = NoId THEN NoId ELSE registry[g].pre + 1) \in 0..(MaxTrade + 1)
      /\ registry[g].post \in 0..MaxTrade
  BY <1>1, <1>3 DEF RecordType, NoId, Typed
<1>5. 0 \in 0..(MaxPages - 1) /\ NoId \in 0..MaxTrade /\ NoId \in 0..(MaxTrade + 1)
  BY <1>1 DEF Typed, NoId
<1>6. Moves(t, Started(g))  BY DEF TriggerRecovery, Moves, Started
<1>7. CASE endpoint = "unsupported"
  <2>1. Started(g) = Holding(g, "update", {})  BY <1>7 DEF Started
  <2>2. Started(g) \in JobType /\ Started(g).gap = g /\ Started(g).items = {} /\ Started(g).pc = "update"
    BY <1>2, <1>5, <2>1 DEF JobType, Holding
  <2>3. memory' = [memory EXCEPT ![g] = "UNRECOVERABLE"]  BY <1>7 DEF TriggerRecovery
  <2>4. memory' \in [Gaps -> Statuses \cup {"none"}] /\ memory'[g] = "UNRECOVERABLE"
        /\ \A h \in Gaps : h # g => memory'[h] = memory[h]
    BY <1>1, <2>3 DEF Typed, Statuses
  <2> QED BY <1>2, <1>6, <1>7, <2>2, <2>4
<1>8. CASE endpoint # "unsupported"
  <2> DEFINE from == IF registry[g].pre = NoId THEN NoId ELSE registry[g].pre + 1
  <2>1. Started(g) = Asking(g, from, registry[g].post, 0, {})  BY <1>8 DEF Started
  <2>2. from \in 0..(MaxTrade + 1)  BY <1>4
  <2> HIDE DEF from
  <2>3. Started(g) \in JobType /\ Started(g).gap = g /\ Started(g).items = {} /\ Started(g).pc = "fetch"
    BY <1>2, <1>4, <1>5, <2>1, <2>2 DEF JobType, Asking
  <2>4. memory' = memory  BY <1>8 DEF TriggerRecovery
  <2> QED BY <1>1, <1>2, <1>6, <1>8, <2>3, <2>4 DEF Typed
<1> QED BY <1>7, <1>8

\* The steps of a thread that leave the registry alone.
ThreadSteps(t) ==
  \/ \E g \in Gaps : TriggerRecovery(t, g)
  \/ Requests(t) \/ OpenFile(t) \/ WriteFile(t) \/ RecoveryRaises(t)

\* Each keeps the types.
LEMMA ThreadTypes ==
  ASSUME RecoveryAssumption, TypeInv, NEW t \in Threads, ThreadSteps(t) \/ FinishRecovery(t)
  PROVE  TypeInv'
<1>1. Typed  BY TypedFromInv
<1>2. /\ job[t] \in JobType /\ file \in [Gaps -> SUBSET Trades]
      /\ contended \subseteq Gaps /\ halfDone \subseteq Gaps
      /\ registry \in [Gaps -> RecordType] /\ memory \in [Gaps -> Statuses \cup {"none"}]
      /\ \A g \in Registered : memory[g] # "none"
      /\ Registered \subseteq Gaps
      /\ job[t].pc # "idle" => job[t].gap # 0 /\ job[t].gap \in Gaps /\ job[t].gap \in Registered
  BY <1>1 DEF Typed, TypeInv, TypeOK, ThreadInv, Registered
<1>3. CASE \E g \in Gaps : TriggerRecovery(t, g)
  <2>1. PICK g \in Gaps : TriggerRecovery(t, g)  BY <1>3
  <2>2. UNCHANGED <<streamVars, registry, file>> /\ contended' \subseteq Gaps /\ halfDone' \subseteq Gaps
    BY <1>2, <2>1 DEF TriggerRecovery
  <2>3. /\ Started(g) \in JobType /\ Started(g).gap = g
        /\ Started(g).pc = IF endpoint = "unsupported" THEN "update" ELSE "fetch"
        /\ Moves(t, Started(g)) /\ g \in Registered /\ g # 0
        /\ memory' \in [Gaps -> Statuses \cup {"none"}]
        /\ memory'[g] = IF endpoint = "unsupported" THEN "UNRECOVERABLE" ELSE memory[g]
        /\ \A h \in Gaps : h # g => memory'[h] = memory[h]
    BY <2>1, TriggerChanges
  <2>4. \A h \in Registered : memory'[h] # "none"  BY <1>2, <2>3
  <2>5. Started(g).pc # "idle"  BY <2>3
  <2>6. Registered' = Registered  BY <2>2 DEF Registered
  <2> QED BY <1>2, <2>2, <2>3, <2>4, <2>5, <2>6, ThreadStepTypes
<1>4. CASE Requests(t)
  <2>1. UNCHANGED <<streamVars, registry, file, contended, halfDone>>
    BY <1>4 DEF Requests, FetchPage, FetchRecent, EmptyPage, FetchFails
  <2>2. Registered' = Registered  BY <2>1 DEF Registered
  <2>3. job[t].pc = "fetch"  BY <1>1, <1>4, RequestOutcome
  <2>4. CASE \E r \in JobType : FetchesOn(t, r)
    <3>1. PICK r \in JobType : FetchesOn(t, r)  BY <2>4
    <3>2. r.gap = job[t].gap /\ r.pc = "fetch" /\ Moves(t, r) /\ memory' = memory
      BY <3>1 DEF FetchesOn
    <3> QED BY <1>2, <2>1, <2>2, <2>3, <3>2, ThreadStepTypes
  <2>5. CASE \E ids \in SUBSET Trades, proven \in BOOLEAN : FetchEnds(t, ids, proven)
    <3>1. PICK ids \in SUBSET Trades, proven \in BOOLEAN : FetchEnds(t, ids, proven)  BY <2>5
    <3> DEFINE r == Brought(job[t].gap, ids)
    <3>2. /\ r \in JobType /\ Moves(t, r) /\ memory' \in [Gaps -> Statuses \cup {"none"}]
          /\ memory'[job[t].gap] = Outcome(ids, proven)
          /\ \A h \in Gaps : h # job[t].gap => memory'[h] = memory[h]
      <4>1. EndFetch(t, ids, proven) /\ job[t].gap \in Gaps  BY <1>2, <2>3, <3>1 DEF FetchEnds
      <4> QED BY <1>1, <4>1, EndFetchTypes
    <3>3. r.gap = job[t].gap /\ r.pc \in {"update", "open"}  BY DEF Brought, Holding
    <3>4. Outcome(ids, proven) # "none"  BY DEF Outcome
    <3>5. \A h \in Registered : memory'[h] # "none"  BY <1>2, <3>2, <3>4
    <3> HIDE DEF r
    <3> QED BY <1>2, <2>1, <2>2, <2>3, <3>2, <3>3, <3>5, ThreadStepTypes
  <2> QED BY <1>1, <1>4, <2>4, <2>5, RequestOutcome
<1>5. CASE OpenFile(t) \/ WriteFile(t)
  <2> DEFINE r == [job[t] EXCEPT !.pc = IF OpenFile(t) THEN "write" ELSE "update"]
  <2>1. Moves(t, r)  BY <1>5 DEF OpenFile, WriteFile, Moves
  <2>2. r \in JobType /\ r.gap = job[t].gap /\ r.pc # "idle" /\ job[t].pc # "idle"
    BY <1>2, <1>5 DEF JobType, OpenFile, WriteFile
  <2>3. UNCHANGED <<streamVars, registry, memory>>  BY <1>5 DEF OpenFile, WriteFile
  <2>4. file' \in [Gaps -> SUBSET Trades]
    <3>1. CASE OpenFile(t)  BY <1>2, <3>1 DEF OpenFile
    <3>2. CASE WriteFile(t)
      <4>1. PICK rest \in SUBSET file[job[t].gap] :
              file' = [file EXCEPT ![job[t].gap] = job[t].items \cup rest]
        BY <3>2 DEF WriteFile
      <4>2. job[t].items \in SUBSET Trades  BY <1>2 DEF JobType
      <4>3. rest \in SUBSET Trades  BY <1>2, <2>2, <4>1
      <4> QED BY <1>2, <4>1, <4>2, <4>3
    <3> QED BY <1>5, <3>1, <3>2
  <2>5. contended' \subseteq Gaps /\ halfDone' \subseteq Gaps
    BY <1>2, <1>5, <2>2 DEF OpenFile, WriteFile
  <2>6. Registered' = Registered  BY <2>3 DEF Registered
  <2> HIDE DEF r
  <2> QED BY <1>2, <2>1, <2>2, <2>3, <2>4, <2>5, <2>6, ThreadStepTypes
<1>6. CASE RecoveryRaises(t)
  <2>1. Moves(t, Idle) /\ UNCHANGED <<streamVars, registry, file, memory, contended, halfDone>>
    BY <1>6 DEF RecoveryRaises, Moves
  <2>2. Registered' = Registered  BY <2>1 DEF Registered
  <2> QED BY <1>1, <1>2, <2>1, <2>2, IdleIsAJob, ThreadStepTypes
<1>7. CASE FinishRecovery(t)
  <2>1. UNCHANGED <<streamVars, file, memory, contended>> /\ halfDone' \subseteq Gaps
    BY <1>2, <1>7 DEF FinishRecovery
  <2>2. /\ registry' \in [Gaps -> RecordType] /\ Registered' = Registered /\ Moves(t, Idle)
        /\ \A h \in Gaps : registry'[h].post = registry[h].post
    BY <1>7, FinishChanges
  <2> QED BY <1>1, <1>2, <2>1, <2>2, IdleIsAJob, ThreadStepTypes
<1> QED BY <1>3, <1>4, <1>5, <1>6, <1>7 DEF ThreadSteps

\* The end of the process forgets the notes and the threads, and keeps the disk.
LEMMA EndTypes ==
  ASSUME RecoveryAssumption, TypeInv, ProcessEnds
  PROVE  TypeInv'
<1>1. Typed  BY TypedFromInv
<1>2. Registered' = Registered  BY DEF ProcessEnds, Registered, diskVars
<1>3. /\ job' \in [Threads -> JobType]
      /\ \A t \in Threads : job'[t].gap = 0 /\ job'[t].pc = "idle"
  BY <1>1, IdleIsAJob DEF ProcessEnds
<1>4. crashes' \in 0..MaxCrash /\ written' \in 0..cursor' /\ firstId' \in 0..cursor'
      /\ lastId' \in 0..cursor' /\ cursor' \in 0..feed' /\ open' = 0 /\ session' = "down"
  BY <1>1 DEF ProcessEnds, TypeInv, TypeOK, Typed, NoId
<1>5. /\ memory' \in [Gaps -> Statuses \cup {"none"}]
      /\ \A g \in Registered : memory'[g] # "none"
  <2>1. \A g \in Gaps : registry[g].status \in Statuses \cup {"none"}  BY <1>1 DEF Typed, RecordType
  <2> QED BY <2>1 DEF ProcessEnds, Registered
<1>6. TypeOK'
  BY <1>2, <1>3, <1>4, <1>5 DEF TypeInv, TypeOK, ProcessEnds, JobType, diskVars
<1> QED BY <1>2, <1>3, <1>4, <1>5, <1>6 DEF TypeInv, OpenInv, ThreadInv

\* TypeInv is inductive.
THEOREM TypeInductive == RecoveryAssumption /\ TypeInv /\ [Next]_vars => TypeInv'
<1> SUFFICES ASSUME RecoveryAssumption, TypeInv, [Next]_vars PROVE TypeInv'  OBVIOUS
<1>1. CASE \/ Execute \/ Connect \/ Deliver \/ Write \/ WriteFails \/ Disconnect
           \/ HandleDisconnect \/ Restart
  BY <1>1, StreamTypes
<1>2. CASE \E g \in Gaps : CloseDrained(g)  BY <1>2, RegisterTypes
<1>3. CASE AnnotatePre \/ AnnotatePost  BY <1>3, NoteTypes
<1>4. CASE \E t \in Threads : ThreadSteps(t) \/ FinishRecovery(t)  BY <1>4, ThreadTypes
<1>5. CASE CallerFails \/ Crash  BY <1>5, EndTypes DEF CallerFails, Crash
<1>6. CASE UNCHANGED vars
  BY <1>6 DEF vars, sessionVars, diskVars, threadVars, TypeInv, TypeOK, OpenInv, ThreadInv, Registered
<1> QED BY <1>1, <1>2, <1>3, <1>4, <1>5, <1>6 DEF Next, Recover, ThreadSteps, Requests

\* Every reachable state is of the right types; no recovery outgrows its page bound.
THEOREM TypeCorrect == Spec => []TypeOK
<1>1. RecoveryAssumption /\ Init => TypeInv  BY InitTypes
<1>2. RecoveryAssumption /\ TypeInv /\ [Next]_vars => TypeInv'  BY TypeInductive
<1>3. TypeInv => TypeOK  BY DEF TypeInv
<1> QED BY <1>1, <1>2, <1>3, RecoveryAssumption, PTL DEF Spec


-----------------------------------------------------------------------------
(* What a gap recovered from Binance holds                                 *)

RecoveryInv == TypeInv /\ ProofInv /\ RecoveredIsContiguous

EndsKnown(g) ==
  "RECOVERED" \in {memory[g], registry[g].status} => registry[g].pre # NoId /\ registry[g].post # NoId

\* What a step has to show of the one gap it is about.
Settles(t, g) ==
  endpoint # "recent-trade" =>
    /\ EndsKnown(g)
    /\ g \notin contended => WorkInv(t)
    /\ g \notin contended \cup halfDone => Recovered(g)

\* The gaps a step is not about, and what the threads have of them.
Apart(g) ==
  \A h \in Gaps \ {g} :
    /\ registry'[h] = registry[h] /\ memory'[h] = memory[h] /\ file'[h] = file[h]
    /\ h \in contended' <=> h \in contended
    /\ h \in halfDone' <=> h \in halfDone

\* A step of thread t about gap g need not look at the other threads and gaps.
LEMMA OneGapMoves ==
  ASSUME RecoveryAssumption, RecoveryInv, NEW t \in Threads, NEW g \in Gaps, NEW r \in JobType,
         Moves(t, r), r.gap \in {0, g}, r.pc = "idle" <=> r.gap = 0, job[t].gap \in {0, g}, endpoint' = endpoint,
         \A u \in Threads : u # t /\ job[u].gap = g => g \in contended',
         Apart(g), Settles(t, g)'
  PROVE  ProofInv' /\ RecoveredIsContiguous'
<1>1. Typed /\ TypeInv  BY TypedFromInv DEF RecoveryInv
<1>2. /\ job' \in [Threads -> JobType] /\ job'[t] = r
      /\ \A u \in Threads : u # t => job'[u] = job[u]
  BY <1>1, MovesOne DEF Typed
<1>3. g # 0 /\ \A u \in Threads : /\ job[u].gap = 0 \/ job[u].gap \in Gaps
                                  /\ job[u].gap = 0 => job[u].pc = "idle"
  BY <1>1 DEF TypeInv, TypeOK, ThreadInv, Registered, Gaps, Typed
<1>4. AloneInv'
  BY <1>2, <1>3 DEF RecoveryInv, ProofInv, AloneInv, Apart
<1>5. ASSUME endpoint # "recent-trade" PROVE EndsInv'
  <2>1. EndsKnown(g)'  BY <1>5 DEF Settles
  <2>2. EndsInv  BY <1>5 DEF RecoveryInv, ProofInv
  <2> QED BY <2>1, <2>2 DEF EndsInv, EndsKnown, Apart
<1>6. ASSUME endpoint # "recent-trade", NEW u \in Threads, job'[u].gap \notin contended' PROVE WorkInv(u)'
  <2>1. CASE u = t
    <3>1. CASE r.gap = 0  BY <1>2, <2>1, <3>1 DEF WorkInv
    <3>2. CASE r.gap = g  BY <1>2, <1>6, <2>1, <3>2 DEF Settles
    <3> QED BY <3>1, <3>2
  <2>2. CASE u # t /\ job[u].gap = 0  BY <1>2, <1>3, <2>2 DEF WorkInv
  <2>3. CASE u # t /\ job[u].gap # 0
    <3>1. job'[u] = job[u] /\ job[u].gap # g /\ job[u].gap \in Gaps  BY <1>2, <1>3, <1>6, <2>3
    <3>2. job[u].gap \notin contended  BY <1>6, <3>1 DEF Apart
    <3>3. WorkInv(u)  BY <1>6, <3>2 DEF RecoveryInv, ProofInv
    <3> QED BY <3>1, <3>3 DEF WorkInv, Apart, Spans
  <2> QED BY <2>1, <2>2, <2>3
<1>7. RecoveredIsContiguous'
  <2> SUFFICES ASSUME endpoint # "recent-trade", NEW h \in Gaps, h \notin contended' \cup halfDone'
               PROVE  Recovered(h)'
    BY DEF RecoveredIsContiguous
  <2>1. CASE h = g  BY <2>1 DEF Settles
  <2>2. CASE h # g
    <3>1. Recovered(h)  BY <2>2 DEF Apart, RecoveryInv, RecoveredIsContiguous
    <3> QED BY <2>2, <3>1 DEF Apart, Recovered
  <2> QED BY <2>1, <2>2
<1> QED BY <1>4, <1>5, <1>6, <1>7 DEF ProofInv

\* What a recovery has proven spans its gap.
LEMMA VerifiedSpans ==
  ASSUME NEW g \in Gaps, NEW ids, Verified(g, ids)
  PROVE  ids # {} /\ Spans(registry[g], ids)
BY DEF Verified, Contiguous, Spans

\* The steps of one thread.
LEMMA ThreadsRecover ==
  ASSUME RecoveryAssumption, RecoveryInv, NEW t \in Threads, ThreadSteps(t) \/ FinishRecovery(t)
  PROVE  ProofInv' /\ RecoveredIsContiguous'
<1>1. Typed /\ TypeInv  BY TypedFromInv DEF RecoveryInv
<1>0. PICK g : g = job[t].gap  OBVIOUS
<1> USE <1>0
<1>2. /\ job[t] \in JobType /\ \A h \in Gaps : registry[h] \in RecordType
      /\ file \in [Gaps -> SUBSET Trades]
      /\ contended \subseteq Gaps /\ halfDone \subseteq Gaps
      /\ job[t].pc # "idle" => g # 0 /\ g \in Gaps
  BY <1>1 DEF Typed, TypeInv, TypeOK, ThreadInv, Registered
<1>3. \A u \in Threads : u # t /\ g # 0 /\ job[u].gap = g => g \in contended
  BY DEF RecoveryInv, ProofInv, AloneInv
<1>4. ASSUME endpoint # "recent-trade"
      PROVE  /\ \A h \in Gaps : EndsKnown(h)
             /\ g \notin contended => WorkInv(t)
             /\ \A h \in Gaps \ (contended \cup halfDone) : Recovered(h)
  BY <1>4 DEF RecoveryInv, ProofInv, EndsInv, EndsKnown, RecoveredIsContiguous
<1>5. ASSUME NEW h \in Gaps, TriggerRecovery(t, h) PROVE ProofInv' /\ RecoveredIsContiguous'
  <2>1. UNCHANGED <<endpoint, registry, file>>  BY <1>5 DEF TriggerRecovery, streamVars
  <2>2. /\ Started(h) \in JobType /\ Started(h).gap = h /\ Started(h).items = {}
        /\ Started(h).pc = IF endpoint = "unsupported" THEN "update" ELSE "fetch"
        /\ Moves(t, Started(h)) /\ h # 0 /\ job[t].gap = 0
        /\ memory' \in [Gaps -> Statuses \cup {"none"}]
        /\ memory'[h] = IF endpoint = "unsupported" THEN "UNRECOVERABLE" ELSE memory[h]
        /\ \A k \in Gaps : k # h => memory'[k] = memory[k]
    BY <1>1, <1>5, TriggerChanges
  <2>3. /\ \A u \in Threads : u # t /\ job[u].gap = h => h \in contended'
        /\ h \in contended /\ h \notin contended' => h \in halfDone'
        /\ h \in halfDone => h \in halfDone'
        /\ \A k \in Gaps : k # h => (k \in contended' <=> k \in contended) /\ (k \in halfDone' <=> k \in halfDone)
    BY <1>2, <1>5 DEF TriggerRecovery
  <2>4. job'[t] = Started(h)  BY <1>1, <2>2, MovesOne DEF Typed
  <2>5. Apart(h)  BY <2>1, <2>2, <2>3 DEF Apart
  <2>6. Settles(t, h)'
    <3> SUFFICES ASSUME endpoint # "recent-trade"
                 PROVE  /\ EndsKnown(h)' /\ WorkInv(t)'
                        /\ h \notin contended' \cup halfDone' => Recovered(h)'
      BY <2>1 DEF Settles
    <3>1. EndsKnown(h)'  BY <1>4, <2>1, <2>2 DEF EndsKnown
    <3>2. WorkInv(t)'  BY <2>2, <2>4 DEF WorkInv
    <3>3. h \notin contended' \cup halfDone' => Recovered(h)'
      BY <1>4, <2>1, <2>3 DEF Recovered
    <3> QED BY <3>1, <3>2, <3>3
  <2>7. Started(h).pc # "idle"  BY <2>2
  <2> QED BY <2>1, <2>2, <2>3, <2>5, <2>6, <2>7, OneGapMoves
<1>6. ASSUME Requests(t) PROVE ProofInv' /\ RecoveredIsContiguous'
  <2>1. UNCHANGED <<endpoint, registry, file, contended, halfDone>>
    BY <1>6 DEF Requests, FetchPage, FetchRecent, EmptyPage, FetchFails, streamVars
  <2>2. job[t].pc = "fetch" /\ g \in Gaps /\ g # 0  BY <1>1, <1>2, <1>6, RequestOutcome
  <2>3. CASE \E r \in JobType : FetchesOn(t, r)
    <3>1. PICK r \in JobType : FetchesOn(t, r)  BY <2>3
    <3>2. r.gap = g /\ r.pc = "fetch" /\ Moves(t, r) /\ memory' = memory  BY <3>1 DEF FetchesOn
    <3>3. job'[t] = r  BY <1>1, <3>2, MovesOne DEF Typed
    <3>4. Apart(g)  BY <2>1, <3>2 DEF Apart
    <3>5. Settles(t, g)'
      BY <1>4, <2>1, <2>2, <3>2, <3>3 DEF Settles, EndsKnown, WorkInv, Recovered
    <3> QED BY <1>3, <2>1, <2>2, <3>2, <3>4, <3>5, OneGapMoves
  <2>4. CASE \E ids \in SUBSET Trades, proven \in BOOLEAN : FetchEnds(t, ids, proven)
    <3>1. PICK ids \in SUBSET Trades, proven \in BOOLEAN : FetchEnds(t, ids, proven)  BY <2>4
    <3> DEFINE r == Brought(g, ids)
    <3>2. /\ r \in JobType /\ Moves(t, r) /\ memory'[g] = Outcome(ids, proven)
          /\ \A h \in Gaps : h # g => memory'[h] = memory[h]
      <4>1. EndFetch(t, ids, proven) /\ job[t].gap \in Gaps  BY <2>2, <3>1 DEF FetchEnds
      <4>2. /\ Brought(job[t].gap, ids) \in JobType /\ Moves(t, Brought(job[t].gap, ids))
            /\ memory'[job[t].gap] = Outcome(ids, proven)
            /\ \A h \in Gaps : h # job[t].gap => memory'[h] = memory[h]
        BY <1>1, <4>1, EndFetchTypes
      <4> QED BY <4>2
    <3>3. r.gap = g /\ r.pc \in {"update", "open"} /\ r.items = ids  BY DEF Brought, Holding
    <3>4. (endpoint # "recent-trade" /\ memory'[g] = "RECOVERED") => ids # {} /\ Spans(registry[g], ids)
      <4>1. memory'[g] = "RECOVERED" => proven  BY <3>2 DEF Outcome
      <4>2. endpoint # "recent-trade" /\ proven => Verified(g, ids)  BY <3>1 DEF FetchEnds
      <4> QED BY <2>2, <4>1, <4>2, VerifiedSpans
    <3>5. r.pc = "update" => ids = {}  BY DEF Brought, Holding
    <3> HIDE DEF r
    <3>6. job'[t] = r  BY <1>1, <3>2, MovesOne DEF Typed
    <3>7. Apart(g)  BY <2>1, <3>2 DEF Apart
    <3>8. Settles(t, g)'
      <4> SUFFICES ASSUME endpoint # "recent-trade"
                   PROVE  /\ EndsKnown(g)' /\ WorkInv(t)'
                          /\ g \notin contended' \cup halfDone' => Recovered(g)'
        BY <2>1 DEF Settles
      <4>1. EndsKnown(g)'  BY <1>4, <2>1, <2>2, <3>4 DEF EndsKnown, Spans
      <4>2. WorkInv(t)'  BY <2>1, <3>3, <3>4, <3>5, <3>6 DEF WorkInv
      <4>3. g \notin contended' \cup halfDone' => Recovered(g)'
        BY <1>4, <2>1, <2>2 DEF Recovered
      <4> QED BY <4>1, <4>2, <4>3
    <3> QED BY <1>3, <2>1, <2>2, <3>2, <3>3, <3>7, <3>8, OneGapMoves
  <2> QED BY <1>1, <1>6, <2>3, <2>4, RequestOutcome
<1>7. ASSUME OpenFile(t) PROVE ProofInv' /\ RecoveredIsContiguous'
  <2> DEFINE r == [job[t] EXCEPT !.pc = "write"]
  <2>1. Moves(t, r) /\ UNCHANGED <<endpoint, registry, memory, contended>>
    BY <1>7 DEF OpenFile, Moves, streamVars
  <2>2. g \in Gaps /\ g # 0  BY <1>2, <1>7 DEF OpenFile
  <2>3. r \in JobType /\ r.gap = g /\ r.pc = "write" /\ r.items = job[t].items  BY <1>2 DEF JobType
  <2> HIDE DEF r
  <2>4. job'[t] = r  BY <1>1, <2>1, <2>3, MovesOne DEF Typed
  <2>5. /\ file'[g] = {} /\ \A h \in Gaps : h # g => file'[h] = file[h]
        /\ halfDone' = halfDone \cup {g} /\ job[t].pc = "open"
    BY <1>2, <1>7, <2>2 DEF OpenFile
  <2>6. Apart(g)  BY <2>1, <2>5 DEF Apart
  <2>7. Settles(t, g)'
    BY <1>4, <2>1, <2>2, <2>3, <2>4, <2>5 DEF Settles, EndsKnown, WorkInv
  <2>8. r.pc # "idle"  BY <2>3
  <2> QED BY <1>3, <2>1, <2>2, <2>3, <2>6, <2>7, <2>8, OneGapMoves
<1>8. ASSUME WriteFile(t) PROVE ProofInv' /\ RecoveredIsContiguous'
  <2> DEFINE r == [job[t] EXCEPT !.pc = "update"]
  <2>1. Moves(t, r) /\ UNCHANGED <<endpoint, registry, memory, contended, halfDone>> /\ job[t].pc = "write"
    BY <1>8 DEF WriteFile, Moves, streamVars
  <2>2. g \in Gaps /\ g # 0  BY <1>2, <2>1
  <2>3. r \in JobType /\ r.gap = g /\ r.pc = "update" /\ r.items = job[t].items  BY <1>2 DEF JobType
  <2> HIDE DEF r
  <2>4. job'[t] = r  BY <1>1, <2>1, <2>3, MovesOne DEF Typed
  <2>5. PICK rest \in SUBSET file[g] : file' = [file EXCEPT ![g] = job[t].items \cup rest]
    BY <1>8 DEF WriteFile
  <2>6. file'[g] = job[t].items \cup rest /\ \A h \in Gaps : h # g => file'[h] = file[h]
    BY <1>2, <2>2, <2>5
  <2>7. Apart(g)  BY <2>1, <2>6 DEF Apart
  <2>8. Settles(t, g)'
    <3> SUFFICES ASSUME endpoint # "recent-trade"
                 PROVE  /\ EndsKnown(g)' /\ (g \notin contended => WorkInv(t)')
                        /\ g \notin contended' \cup halfDone' => Recovered(g)'
      BY <2>1 DEF Settles
    <3>1. EndsKnown(g)'  BY <1>4, <2>1, <2>2 DEF EndsKnown
    <3>2. ASSUME g \notin contended
          PROVE  /\ memory[g] = "RECOVERED" => job[t].items # {} /\ Spans(registry[g], job[t].items)
                 /\ file[g] = {} /\ g \in halfDone
      BY <1>4, <2>1, <3>2 DEF WorkInv
    <3>3. ASSUME g \notin contended PROVE WorkInv(t)'
      <4>1. file'[g] = job[t].items  BY <2>6, <3>2, <3>3
      <4> QED BY <2>1, <2>3, <2>4, <3>2, <3>3, <4>1 DEF WorkInv
    <3> QED BY <2>1, <3>1, <3>2, <3>3
  <2>9. r.pc # "idle"  BY <2>3
  <2> QED BY <1>3, <2>1, <2>2, <2>3, <2>7, <2>8, <2>9, OneGapMoves
<1>9. ASSUME RecoveryRaises(t) PROVE ProofInv' /\ RecoveredIsContiguous'
  <2>1. Moves(t, Idle) /\ UNCHANGED <<endpoint, registry, file, memory, contended, halfDone>>
    BY <1>9 DEF RecoveryRaises, Moves, streamVars
  <2>2. g \in Gaps /\ g # 0  BY <1>2, <1>9 DEF RecoveryRaises
  <2>3. Idle \in JobType /\ Idle.gap = 0 /\ Idle.pc = "idle"  BY <1>1, IdleIsAJob
  <2>4. job'[t] = Idle  BY <1>1, <2>1, <2>3, MovesOne DEF Typed
  <2>5. Apart(g)  BY <2>1 DEF Apart
  <2>6. Settles(t, g)'
    BY <1>4, <2>1, <2>2, <2>3, <2>4 DEF Settles, EndsKnown, WorkInv, Recovered
  <2> QED BY <1>3, <2>1, <2>2, <2>3, <2>5, <2>6, OneGapMoves
<1>10. ASSUME FinishRecovery(t) PROVE ProofInv' /\ RecoveredIsContiguous'
  <2>1. UNCHANGED <<endpoint, file, memory, contended>> /\ halfDone' = halfDone \ {g} /\ job[t].pc = "update"
    BY <1>10 DEF FinishRecovery, streamVars
  <2>2. /\ g # 0 /\ g \in Gaps /\ registry'[g].status = memory[g]
        /\ \A h \in Gaps : registry'[h].pre = registry[h].pre /\ registry'[h].post = registry[h].post
        /\ \A h \in Gaps : h # g => registry'[h] = registry[h]
        /\ Moves(t, Idle)
    BY <1>1, <1>10, FinishChanges
  <2>3. Idle \in JobType /\ Idle.gap = 0 /\ Idle.pc = "idle"  BY <1>1, IdleIsAJob
  <2>4. job'[t] = Idle  BY <1>1, <2>2, <2>3, MovesOne DEF Typed
  <2>5. Apart(g)  BY <2>1, <2>2 DEF Apart
  <2>6. Settles(t, g)'
    <3> SUFFICES ASSUME endpoint # "recent-trade"
                 PROVE  /\ EndsKnown(g)' /\ WorkInv(t)'
                        /\ g \notin contended => Recovered(g)'
      BY <2>1 DEF Settles
    <3>1. EndsKnown(g)'  BY <1>4, <2>1, <2>2 DEF EndsKnown
    <3>2. WorkInv(t)'  BY <2>3, <2>4 DEF WorkInv
    <3>3. ASSUME g \notin contended, registry'[g].status = "RECOVERED"
          PROVE  Spans(registry[g], file[g])
      BY <1>4, <2>1, <2>2, <3>3 DEF WorkInv
    <3> QED BY <2>1, <2>2, <3>1, <3>2, <3>3 DEF Recovered, Spans
  <2> QED BY <1>3, <2>1, <2>2, <2>3, <2>5, <2>6, OneGapMoves
<1> QED BY <1>5, <1>6, <1>7, <1>8, <1>9, <1>10 DEF ThreadSteps

\* The stream's own steps, which move no thread: they touch at most the record of
\* the gap that is being registered or annotated, and leave it unrecovered.
LEMMA StreamRecovers ==
  ASSUME RecoveryAssumption, RecoveryInv,
         UNCHANGED <<endpoint, file, job, contended, halfDone>>,
         NEW g,
         \A h \in Gaps : h # g => registry'[h] = registry[h] /\ memory'[h] = memory[h],
         g \in Gaps => /\ memory'[g] # "RECOVERED" /\ registry'[g].status # "RECOVERED"
  PROVE  ProofInv' /\ RecoveredIsContiguous'
<1>1. AloneInv'  BY DEF RecoveryInv, ProofInv, AloneInv
<1>2. ASSUME endpoint # "recent-trade" PROVE EndsInv'
  BY <1>2 DEF RecoveryInv, ProofInv, EndsInv
<1>3. ASSUME endpoint # "recent-trade", NEW u \in Threads, job[u].gap \notin contended PROVE WorkInv(u)'
  <2>1. WorkInv(u)  BY <1>3 DEF RecoveryInv, ProofInv
  <2>2. job[u].gap \in Gaps \/ job[u].pc = "idle"
    BY DEF RecoveryInv, TypeInv, TypeOK, ThreadInv, Registered
  <2> QED BY <2>1, <2>2 DEF WorkInv, Spans
<1>4. RecoveredIsContiguous'
  BY DEF RecoveryInv, RecoveredIsContiguous, Recovered
<1> QED BY <1>1, <1>2, <1>3, <1>4 DEF ProofInv

\* The end of the process takes the threads with it and leaves the disk.
LEMMA EndRecovers ==
  ASSUME RecoveryAssumption, RecoveryInv, ProcessEnds
  PROVE  ProofInv' /\ RecoveredIsContiguous'
<1>1. Typed  BY TypedFromInv DEF RecoveryInv
<1>2. UNCHANGED <<endpoint, registry, file, contended, halfDone>>
      /\ \A g \in Gaps : memory'[g] = registry[g].status
  BY DEF ProcessEnds, diskVars
<1>3. \A u \in Threads : job'[u].gap = 0 /\ job'[u].pc = "idle"
  BY <1>1, IdleIsAJob DEF ProcessEnds
<1>4. AloneInv'  BY <1>3 DEF AloneInv
<1>5. endpoint # "recent-trade" => EndsInv'
  BY <1>2 DEF RecoveryInv, ProofInv, EndsInv
<1>6. \A u \in Threads : WorkInv(u)'  BY <1>3 DEF WorkInv
<1>7. RecoveredIsContiguous'  BY <1>2 DEF RecoveryInv, RecoveredIsContiguous, Recovered
<1> QED BY <1>2, <1>4, <1>5, <1>6, <1>7 DEF ProofInv

\* Nothing is recovered at the start.
LEMMA InitRecovery == RecoveryAssumption /\ Init => RecoveryInv
<1> SUFFICES ASSUME RecoveryAssumption, Init PROVE RecoveryInv  OBVIOUS
<1>1. TypeInv  BY InitTypes
<1>2. \A t \in Threads : job[t].gap = 0 /\ job[t].pc = "idle"  BY DEF Init, Idle, Holding
<1>3. \A g \in Gaps : registry[g].status = "none" /\ memory[g] = "none"  BY DEF Init, NoRecord
<1>4. ProofInv  BY <1>2, <1>3 DEF ProofInv, AloneInv, EndsInv, WorkInv
<1>5. RecoveredIsContiguous  BY <1>3 DEF RecoveredIsContiguous, Recovered
<1> QED BY <1>1, <1>4, <1>5 DEF RecoveryInv

\* RecoveryInv is inductive: only a verified run of ids makes a record recovered, what
\* a thread alone on its gap brought is what its file holds when the record says so,
\* and whoever opens the file again leaves the gap half done until a recovery is done.
THEOREM RecoveryInductive == RecoveryAssumption /\ RecoveryInv /\ [Next]_vars => RecoveryInv'
<1> SUFFICES ASSUME RecoveryAssumption, RecoveryInv, [Next]_vars PROVE RecoveryInv'  OBVIOUS
<1>1. TypeInv'  BY TypeInductive DEF RecoveryInv
<1>2. Typed /\ TypeInv  BY TypedFromInv DEF RecoveryInv
<1>3. CASE \/ Execute \/ Connect \/ Deliver \/ Write \/ WriteFails \/ Disconnect
           \/ HandleDisconnect \/ Restart \/ UNCHANGED vars
  <2>1. UNCHANGED <<endpoint, registry, memory, file, job, contended, halfDone>>
    BY <1>3 DEF Execute, Connect, Deliver, Write, WriteFails, Disconnect, HandleDisconnect, Restart,
                sessionVars, diskVars, threadVars, vars
  <2>2. ProofInv' /\ RecoveredIsContiguous'
    BY <2>1 DEF RecoveryInv, ProofInv, AloneInv, EndsInv, WorkInv, Spans, RecoveredIsContiguous, Recovered
  <2> QED BY <1>1, <2>2 DEF RecoveryInv
<1>4. CASE \E g \in Gaps : CloseDrained(g)
  <2>1. PICK g \in Gaps : CloseDrained(g)  BY <1>4
  <2>2. UNCHANGED <<endpoint, file, job, contended, halfDone>> /\ RegisterGap(g)
    BY <2>1 DEF CloseDrained
  <2>3. /\ \A h \in Gaps : h # g => registry'[h] = registry[h] /\ memory'[h] = memory[h]
        /\ memory'[g] = "OPEN" /\ registry'[g].status = "OPEN"
    BY <1>2, <2>2 DEF RegisterGap, UpdateGap, NoRecord, Typed
  <2>4. ProofInv' /\ RecoveredIsContiguous'  BY <2>2, <2>3, StreamRecovers
  <2> QED BY <1>1, <2>4 DEF RecoveryInv
<1>5. CASE AnnotatePre \/ AnnotatePost
  <2>1. UNCHANGED <<endpoint, file, job, memory, contended, halfDone>>
    BY <1>5 DEF AnnotatePre, AnnotatePost, threadVars
  <2>2. /\ open # 0 /\ open \in Gaps /\ registry'[open].status = memory[open]
        /\ \A h \in Gaps : h # open => registry'[h] = registry[h]
    BY <1>2, <1>5, NoteChanges
  <2>3. CASE endpoint = "recent-trade"
    <3>1. RecoveredIsContiguous'  BY <2>1, <2>3 DEF RecoveredIsContiguous
    <3>2. ProofInv'  BY <2>1, <2>3 DEF RecoveryInv, ProofInv, AloneInv
    <3> QED BY <1>1, <3>1, <3>2 DEF RecoveryInv
  <2>4. CASE endpoint # "recent-trade"
    <3>1. registry[open].post = NoId  BY <1>2, <2>2 DEF TypeInv, OpenInv
    <3>2. memory[open] # "RECOVERED"
      BY <2>2, <2>4, <3>1 DEF RecoveryInv, ProofInv, EndsInv
    <3>3. ProofInv' /\ RecoveredIsContiguous'  BY <2>1, <2>2, <3>2, StreamRecovers
    <3> QED BY <1>1, <3>3 DEF RecoveryInv
  <2> QED BY <2>3, <2>4
<1>6. CASE \E t \in Threads : ThreadSteps(t) \/ FinishRecovery(t)
  BY <1>1, <1>6, ThreadsRecover DEF RecoveryInv
<1>7. CASE CallerFails \/ Crash
  BY <1>1, <1>7, EndRecovers DEF CallerFails, Crash, RecoveryInv
<1> QED BY <1>3, <1>4, <1>5, <1>6, <1>7 DEF Next, Recover, ThreadSteps, Requests

\* A gap that the registry calls recovered from Binance has known boundaries and a
\* file with every id between them, unless a later recovery of it has opened the file
\* again and no recovery has been done since, or two recoveries of it ran at once.
THEOREM RecoveredMeansRecovered == Spec => []RecoveredIsContiguous
<1>1. RecoveryAssumption /\ Init => RecoveryInv  BY InitRecovery
<1>2. RecoveryAssumption /\ RecoveryInv /\ [Next]_vars => RecoveryInv'  BY RecoveryInductive
<1>3. RecoveryInv => RecoveredIsContiguous  BY DEF RecoveryInv
<1> QED BY <1>1, <1>2, <1>3, RecoveryAssumption, PTL DEF Spec
-----------------------------------------------------------------------------
(* What the stream skips is in the registry                                *)

\* The session is between its connect and the end of its close.
Running == {"live", "lost", "closing", "failed"}

\* What was delivered is on its way to a segment, and nothing is queued between sessions.
LineInv ==
  /\ delivered \subseteq 1..cursor
  /\ session \in {"none", "registered", "down"} => written = cursor
  /\ crashes = 0 /\ session # "failed" => delivered \subseteq stored \cup Queued

\* The gap starts after the last trade delivered, if its record names one.
PreIsLast(g) ==
  \/ registry[g].pre = NoId
  \/ registry[g].pre \in delivered /\ delivered \subseteq 1..registry[g].pre

\* What the caller remembers of the session, and of the gap it has still to annotate.
NoteInv ==
  /\ lastId # NoId => lastId = cursor /\ lastId \in delivered
  /\ firstId # NoId => lastId # NoId
  /\ crashes = 0 =>
       /\ session # "down"
       /\ open = 0 /\ (lastId = NoId \/ session = "none") => delivered = {}
       /\ open # 0 /\ (firstId = NoId \/ session \in {"none", "registered"}) => PreIsLast(open)

\* The record of a gap that the caller has left agrees with a hole.
LeftBehind(a, b) ==
  \E g \in Registered \ {open} : registry[g].pre \in {a, NoId} /\ registry[g].post \in {b, NoId}

\* So does the record it is annotating, if the session began with the hole's end.
AboutToNote(a, b) ==
  /\ session \in Running
  /\ open # 0 /\ firstId = b /\ registry[open].pre \in {a, NoId}

HolesInv ==
  crashes = 0 => \A a, b \in Trades : Hole(a, b) => LeftBehind(a, b) \/ AboutToNote(a, b)

OutageInv == LineInv /\ NoteInv /\ HolesInv

\* The steps that touch neither the trades nor what the caller remembers.
LEMMA QuietKeepsOutages ==
  ASSUME TypeInv, OutageInv,
         UNCHANGED <<cursor, written, firstId, lastId, open, stored, delivered, crashes>>,
         \/ session' = session
         \/ {session, session'} \subseteq Running \ {"failed"}
         \/ session = "down" /\ session' = "none",
         Registered' = Registered,
         \A g \in Gaps : registry'[g].pre = registry[g].pre /\ registry'[g].post = registry[g].post
  PROVE  OutageInv'
<1>1. open # 0 => open \in Gaps
  BY DEF TypeInv, TypeOK, Registered
<1>2. LineInv'
  BY DEF OutageInv, LineInv, Queued, Running
<1>3. NoteInv'
  <2>1. open # 0 /\ PreIsLast(open) => PreIsLast(open)'
    BY <1>1 DEF PreIsLast
  <2>2. open # 0 => registry'[open].post = registry[open].post
    BY <1>1
  <2>. QED
    BY <2>1, <2>2 DEF OutageInv, NoteInv, Running
<1>4. HolesInv'
  <2>1. ASSUME NEW a, NEW b PROVE Hole(a, b)' <=> Hole(a, b)
    BY DEF Hole
  <2>2. ASSUME NEW a, NEW b, LeftBehind(a, b) PROVE LeftBehind(a, b)'
    BY <2>2 DEF LeftBehind, Registered
  <2>3. ASSUME NEW a, NEW b, AboutToNote(a, b) PROVE AboutToNote(a, b)'
    BY <1>1, <2>3 DEF AboutToNote, Running
  <2>. QED
    BY <2>1, <2>2, <2>3 DEF OutageInv, HolesInv
<1>. QED
  BY <1>2, <1>3, <1>4 DEF OutageInv

\* A new session begins with the trade after the last one executed.
LEMMA ConnectKeepsOutages ==
  ASSUME RecoveryAssumption, TypeInv, OutageInv, Connect
  PROVE  OutageInv'
<1>1. /\ session = "none" /\ session' = "live" /\ cursor' = feed /\ written' = feed
      /\ firstId' = NoId /\ lastId' = NoId
      /\ UNCHANGED <<open, stored, registry, delivered, crashes>>
  BY DEF Connect, diskVars
<1>2. Typed /\ cursor \in 0..feed /\ feed \in Nat
  BY TypedFromInv DEF Typed
<1>3. LineInv'
  <2>1. delivered \subseteq 1..feed
    BY <1>2 DEF OutageInv, LineInv
  <2>2. Queued = {}
    BY <1>1, <1>2 DEF OutageInv, LineInv, Queued
  <2>. QED
    BY <1>1, <2>1, <2>2 DEF OutageInv, LineInv
<1>4. NoteInv'
  BY <1>1 DEF OutageInv, NoteInv, PreIsLast
<1>5. HolesInv'
  <2>1. ASSUME NEW a, NEW b PROVE /\ Hole(a, b)' <=> Hole(a, b)
                                  /\ LeftBehind(a, b)' <=> LeftBehind(a, b)
    BY <1>1 DEF Hole, LeftBehind, Registered
  <2>2. ASSUME NEW a, NEW b PROVE ~AboutToNote(a, b)
    BY <1>1 DEF AboutToNote, Running
  <2>. QED
    BY <1>1, <2>1, <2>2 DEF OutageInv, HolesInv
<1>. QED
  BY <1>3, <1>4, <1>5 DEF OutageInv

\* A delivery makes a hole only when it is the session's first, and then the caller has
\* an open gap that starts where the hole does.
LEMMA DeliverKeepsOutages ==
  ASSUME RecoveryAssumption, TypeInv, OutageInv, Deliver
  PROVE  OutageInv'
<1>. DEFINE n == cursor + 1
<1>1. /\ session = "live" /\ session' = "live" /\ cursor' = n /\ lastId' = n
      /\ firstId' = IF open # 0 /\ firstId = NoId THEN n ELSE firstId
      /\ delivered' = delivered \cup {n}
      /\ UNCHANGED <<written, open, stored, registry, crashes>>
  BY DEF Deliver, diskVars
<1>2. /\ cursor \in Nat /\ written \in 0..cursor /\ n \in Nat /\ n # NoId
      /\ firstId \in 0..cursor /\ lastId \in 0..cursor
  <2>1. Typed
    BY TypedFromInv
  <2>. QED
    BY <2>1 DEF Typed, NoId
<1>3. delivered \subseteq 1..cursor /\ delivered \subseteq Nat
  BY DEF OutageInv, LineInv
<1>4. LineInv'
  <2>1. delivered' \subseteq 1..n
    BY <1>1, <1>2, <1>3
  <2>2. (written + 1)..n = Queued \cup {n}
    BY <1>1, <1>2 DEF Queued
  <2>. QED
    BY <1>1, <2>1, <2>2 DEF OutageInv, LineInv, Queued
<1>5. NoteInv'
  <2>1. lastId' # NoId /\ lastId' = cursor' /\ lastId' \in delivered' /\ session' # "none"
    BY <1>1, <1>2
  <2>2. open # 0 => firstId' # NoId
    BY <1>1, <1>2
  <2>. QED
    BY <1>1, <2>1, <2>2 DEF OutageInv, NoteInv
<1>6. HolesInv'
  <2>. SUFFICES ASSUME crashes = 0, NEW a \in Trades, NEW b \in Trades, Hole(a, b)'
                PROVE  (LeftBehind(a, b) \/ AboutToNote(a, b))'
    BY <1>1 DEF HolesInv
  <2>1. /\ a \in delivered' /\ b \in delivered' /\ a + 1 < b /\ a \in Nat /\ b \in Nat
        /\ \A m \in (a + 1)..(b - 1) : m \notin delivered'
    BY DEF Hole, Trades
  <2>2. a \in delivered
    BY <1>1, <1>2, <1>3, <2>1
  <2>3. CASE b \in delivered
    <3>1. Hole(a, b)
      BY <1>1, <2>1, <2>2, <2>3 DEF Hole
    <3>2. LeftBehind(a, b) => LeftBehind(a, b)'
      BY <1>1 DEF LeftBehind, Registered
    <3>3. AboutToNote(a, b) => AboutToNote(a, b)'
      BY <1>1, <1>2, <2>1, <2>3, <1>3 DEF AboutToNote, NoId
    <3>. QED
      BY <3>1, <3>2, <3>3 DEF OutageInv, HolesInv
  <2>4. CASE b \notin delivered
    <3>1. b = n
      BY <1>1, <2>1, <2>4
    <3>2. cursor \notin delivered
      BY <1>1, <1>2, <1>3, <2>1, <2>2, <3>1
    <3>3. lastId = NoId /\ firstId = NoId /\ open # 0
      BY <2>2, <3>2 DEF OutageInv, NoteInv
    <3>4. PreIsLast(open)
      BY <3>3 DEF OutageInv, NoteInv
    <3>5. registry[open].pre \in {a, NoId}
      <4>. SUFFICES ASSUME registry[open].pre # NoId PROVE registry[open].pre = a
        OBVIOUS
      <4>. DEFINE pre == registry[open].pre
      <4>1. pre \in delivered /\ delivered \subseteq 1..pre
        BY <3>4 DEF PreIsLast
      <4>. HIDE DEF pre
      <4>2. pre \in Nat /\ a <= pre /\ pre < b
        <5>1. pre \in 1..cursor /\ a \in 1..pre
          BY <1>3, <2>2, <4>1
        <5>. QED
          BY <1>2, <3>1, <5>1
      <4>3. ~(a < pre)
        <5>1. pre \in delivered'
          BY <1>1, <4>1
        <5>. QED
          BY <2>1, <4>2, <5>1
      <4>4. pre = a
        BY <2>1, <4>2, <4>3
      <4>. QED
        BY <4>4 DEF pre
    <3>6. session' \in Running /\ firstId' = b
      BY <1>1, <3>1, <3>3 DEF Running
    <3>. QED
      BY <1>1, <3>3, <3>5, <3>6 DEF AboutToNote
  <2>. QED
    BY <2>3, <2>4
<1>. QED
  BY <1>4, <1>5, <1>6 DEF OutageInv

\* The consumer moves the next queued trade to its segment, or fails with it.
LEMMA WriteKeepsOutages ==
  ASSUME RecoveryAssumption, TypeInv, OutageInv, Write \/ WriteFails
  PROVE  OutageInv'
<1>1. /\ session \in Running /\ session # "failed" /\ written' = written + 1 /\ written < cursor
      /\ \/ session' = session /\ stored' = stored \cup {written + 1}
         \/ session' = "failed"
      /\ UNCHANGED <<cursor, firstId, lastId, open, registry, delivered, crashes>>
  BY DEF Write, WriteFails, Running
<1>2. written \in Nat /\ cursor \in Nat
  <2>1. Typed
    BY TypedFromInv
  <2>. QED
    BY <2>1 DEF Typed
<1>3. session' # "failed" => stored \cup Queued \subseteq stored' \cup Queued'
  BY <1>1, <1>2 DEF Queued
<1>4. session' \in Running
  BY <1>1 DEF Running
<1>5. LineInv'
  BY <1>1, <1>3, <1>4 DEF OutageInv, LineInv, Running
<1>6. NoteInv'
  BY <1>1, <1>4 DEF OutageInv, NoteInv, PreIsLast, Running
<1>7. HolesInv'
  <2>1. ASSUME NEW a, NEW b PROVE /\ Hole(a, b)' <=> Hole(a, b)
                                  /\ LeftBehind(a, b)' <=> LeftBehind(a, b)
                                  /\ AboutToNote(a, b)' <=> AboutToNote(a, b)
    BY <1>1, <1>4 DEF Hole, LeftBehind, Registered, AboutToNote
  <2>. QED
    BY <1>1, <2>1 DEF OutageInv, HolesInv
<1>. QED
  BY <1>5, <1>6, <1>7 DEF OutageInv

\* A new gap leaves the one before behind, with its far end unknown.
LEMMA RegisterKeepsOutages ==
  ASSUME RecoveryAssumption, TypeInv, OutageInv, NEW g \in Gaps, CloseDrained(g)
  PROVE  OutageInv'
<1>1. /\ session = "closing" /\ session' = "registered" /\ g \notin Registered
      /\ registry' = [registry EXCEPT ![g] = [NoRecord EXCEPT !.status = "OPEN"]] /\ open' = g
      /\ UNCHANGED <<cursor, firstId, lastId, stored, delivered, crashes>>
      /\ written = cursor /\ written' = written
  BY DEF CloseDrained, RegisterGap, UpdateGap
<1>2. Typed /\ g # 0
  BY TypedFromInv DEF Gaps
<1>3. /\ registry'[g].pre = NoId /\ registry'[g].post = NoId /\ registry'[g].status = "OPEN"
      /\ \A h \in Gaps : h # g => registry'[h] = registry[h]
  BY <1>1, <1>2 DEF Typed, NoRecord
<1>4. Registered' = Registered \cup {g}
  BY <1>3 DEF Registered
<1>5. LineInv'
  BY <1>1 DEF OutageInv, LineInv, Queued
<1>6. NoteInv'
  BY <1>1, <1>2, <1>3 DEF OutageInv, NoteInv, PreIsLast
<1>7. HolesInv'
  <2>1. ASSUME NEW a, NEW b PROVE Hole(a, b)' <=> Hole(a, b)
    BY <1>1 DEF Hole
  <2>2. ASSUME NEW h \in Registered PROVE h \in Registered' \ {open'} /\ registry'[h] = registry[h]
    BY <1>1, <1>3, <1>4, <2>2 DEF Registered
  <2>3. ASSUME NEW a, NEW b, LeftBehind(a, b) PROVE LeftBehind(a, b)'
    BY <2>2, <2>3 DEF LeftBehind
  <2>4. ASSUME NEW a, NEW b, AboutToNote(a, b) PROVE LeftBehind(a, b)'
    <3>1. open # 0 /\ open \in Registered /\ registry[open].post = NoId /\ registry[open].pre \in {a, NoId}
      BY <2>4 DEF AboutToNote, TypeInv, TypeOK, OpenInv
    <3>. QED
      BY <2>2, <3>1 DEF LeftBehind
  <2>. QED
    BY <1>1, <2>1, <2>3, <2>4 DEF OutageInv, HolesInv
<1>. QED
  BY <1>5, <1>6, <1>7 DEF OutageInv

\* The caller's notes give the gap it has open the ends it remembers.
LEMMA NotesKeepOutages ==
  ASSUME RecoveryAssumption, TypeInv, OutageInv, AnnotatePre \/ AnnotatePost
  PROVE  OutageInv'
<1>1. /\ Typed /\ open # 0 /\ open \in Registered /\ open \in Gaps
      /\ session = "registered" => NotedRecord.post = registry[open].post /\ AnnotatePre
      /\ session # "registered" => AnnotatePost
      /\ registry'[open] = NotedRecord
  BY TypedFromInv, NoteChanges
<1>2. UNCHANGED <<cursor, written, lastId, stored, delivered, crashes>>
  BY DEF AnnotatePre, AnnotatePost
<1>3. registry[open] \in RecordType
  BY <1>1 DEF Typed
<1>4. \A h \in Gaps : h # open => registry'[h] = registry[h]
  BY NoteChanges
<1>5. Registered' = Registered
  BY NoteChanges
<1>6. LineInv'
  BY <1>2 DEF AnnotatePre, AnnotatePost, OutageInv, LineInv, Queued
<1>7. ASSUME NEW a, NEW b PROVE Hole(a, b)' <=> Hole(a, b)
  BY <1>2 DEF Hole
<1>8. CASE AnnotatePre
  <2>1. /\ session = "registered" /\ session' = "none" /\ UNCHANGED <<firstId, open>>
        /\ registry'[open].pre = lastId /\ registry'[open].post = registry[open].post
    BY <1>1, <1>3, <1>8 DEF AnnotatePre, NotedRecord, RecordType
  <2>2. PreIsLast(open)'
    BY <1>2, <2>1 DEF PreIsLast, OutageInv, NoteInv, LineInv
  <2>3. NoteInv'
    BY <1>1, <1>2, <2>1, <2>2 DEF OutageInv, NoteInv
  <2>4. HolesInv'
    <3>1. ASSUME NEW a, NEW b PROVE ~AboutToNote(a, b) /\ (LeftBehind(a, b) => LeftBehind(a, b)')
      <4>1. ~AboutToNote(a, b)
        BY <2>1 DEF AboutToNote, Running
      <4>2. LeftBehind(a, b) => LeftBehind(a, b)'
        BY <1>4, <1>5, <2>1 DEF LeftBehind, Registered
      <4>. QED
        BY <4>1, <4>2
    <3>. QED
      BY <1>2, <1>7, <3>1 DEF OutageInv, HolesInv
  <2>. QED
    BY <1>6, <2>3, <2>4 DEF OutageInv
<1>9. CASE AnnotatePost
  <2>1. /\ session = "live" /\ session' = "live" /\ firstId # NoId /\ firstId' = NoId /\ open' = 0
        /\ registry'[open].post = firstId /\ registry'[open].pre = registry[open].pre
    BY <1>1, <1>3, <1>9 DEF AnnotatePost, NotedRecord, RecordType
  <2>2. NoteInv'
    BY <1>2, <2>1 DEF OutageInv, NoteInv
  <2>3. HolesInv'
    <3>1. ASSUME NEW a, NEW b, LeftBehind(a, b) PROVE LeftBehind(a, b)'
      <4>1. PICK h \in Registered \ {open} : registry[h].pre \in {a, NoId} /\ registry[h].post \in {b, NoId}
        BY <3>1 DEF LeftBehind
      <4>2. h \in Registered' \ {open'} /\ registry'[h] = registry[h]
        BY <1>4, <1>5, <2>1, <4>1 DEF Registered, Gaps
      <4>. QED
        BY <4>1, <4>2 DEF LeftBehind
    <3>2. ASSUME NEW a, NEW b, AboutToNote(a, b) PROVE LeftBehind(a, b)'
      <4>1. open \in Registered' \ {open'}
        BY <1>1, <1>5, <2>1
      <4>2. registry'[open].pre \in {a, NoId} /\ registry'[open].post \in {b, NoId}
        BY <2>1, <3>2 DEF AboutToNote
      <4>. QED
        BY <4>1, <4>2 DEF LeftBehind
    <3>. QED
      BY <1>2, <1>7, <3>1, <3>2 DEF OutageInv, HolesInv
  <2>. QED
    BY <1>6, <2>2, <2>3 DEF OutageInv
<1>. QED
  BY <1>8, <1>9

\* When the process ends only the line of trades is left to keep.
LEMMA EndKeepsOutages ==
  ASSUME RecoveryAssumption, TypeInv, OutageInv, ProcessEnds
  PROVE  OutageInv'
<1>1. /\ crashes' = crashes + 1 /\ session' = "down" /\ written' = cursor
      /\ firstId' = NoId /\ lastId' = NoId /\ open' = 0 /\ UNCHANGED <<cursor, delivered>>
  BY DEF ProcessEnds
<1>2. crashes' # 0
  BY <1>1 DEF TypeInv, TypeOK
<1>. QED
  BY <1>1, <1>2 DEF OutageInv, LineInv, NoteInv, HolesInv

\* What an outage is about to hide, and what it has hidden, is in the registry's reach
\* in every state.
THEOREM OutagesInductive == Spec => []OutageInv
<1>1. Init => OutageInv
  <2>. SUFFICES ASSUME Init PROVE OutageInv
    OBVIOUS
  <2>1. LineInv
    BY DEF Init, LineInv
  <2>2. NoteInv
    BY DEF Init, NoteInv
  <2>3. HolesInv
    BY DEF Init, HolesInv, Hole
  <2>. QED
    BY <2>1, <2>2, <2>3 DEF OutageInv
<1>2. RecoveryAssumption /\ TypeInv /\ OutageInv /\ [Next]_vars => OutageInv'
  <2>. SUFFICES ASSUME RecoveryAssumption, TypeInv, OutageInv, [Next]_vars PROVE OutageInv'
    OBVIOUS
  <2>1. ASSUME UNCHANGED <<cursor, written, firstId, lastId, open, stored, delivered, crashes, registry>>,
               \/ session' = session
               \/ {session, session'} \subseteq Running \ {"failed"}
               \/ session = "down" /\ session' = "none"
        PROVE  OutageInv'
    <3>1. Registered' = Registered
      BY <2>1 DEF Registered
    <3>. QED
      BY <2>1, <3>1, QuietKeepsOutages
  <2>2. CASE Execute \/ Disconnect \/ HandleDisconnect \/ Restart
    BY <2>1, <2>2 DEF Execute, Disconnect, HandleDisconnect, Restart, Running, sessionVars, diskVars
  <2>3. CASE Connect \/ Deliver \/ Write \/ WriteFails
    BY <2>3, ConnectKeepsOutages, DeliverKeepsOutages, WriteKeepsOutages
  <2>4. CASE \E g \in Gaps : CloseDrained(g)
    BY <2>4, RegisterKeepsOutages
  <2>5. CASE AnnotatePre \/ AnnotatePost
    BY <2>5, NotesKeepOutages
  <2>6. CASE \E t \in Threads : FinishRecovery(t)
    <3>1. PICK t \in Threads : FinishRecovery(t)
      BY <2>6
    <3>2. /\ Registered' = Registered
          /\ \A g \in Gaps : registry'[g].pre = registry[g].pre /\ registry'[g].post = registry[g].post
      BY <3>1, FinishChanges
    <3>3. UNCHANGED <<sessionVars, stored, delivered, crashes>>
      BY <3>1 DEF FinishRecovery, streamVars
    <3>. QED
      BY <3>2, <3>3, QuietKeepsOutages DEF sessionVars
  <2>7. CASE \E t \in Threads : ThreadSteps(t)
    <3>1. UNCHANGED <<sessionVars, stored, registry, delivered, crashes>>
      BY <2>7 DEF ThreadSteps, Requests, TriggerRecovery, FetchPage, FetchRecent, EmptyPage, FetchFails,
         OpenFile, WriteFile, RecoveryRaises, streamVars
    <3>. QED
      BY <2>1, <3>1 DEF sessionVars
  <2>8. CASE CallerFails \/ Crash
    BY <2>8, EndKeepsOutages DEF CallerFails, Crash
  <2>9. CASE UNCHANGED vars
    BY <2>1, <2>9 DEF vars, sessionVars, diskVars
  <2>. QED
    BY <2>2, <2>3, <2>4, <2>5, <2>6, <2>7, <2>8, <2>9 DEF Next, Recover, ThreadSteps, Requests
<1>3. RecoveryAssumption /\ Init => TypeInv
  BY InitTypes
<1>4. RecoveryAssumption /\ TypeInv /\ [Next]_vars => TypeInv'
  BY TypeInductive
<1>. QED
  BY <1>1, <1>2, <1>3, <1>4, RecoveryAssumption, PTL DEF Spec

\* While the process lives, whatever an outage made the stream skip belongs to a gap of
\* the registry (HolesAreRegistered), however often the stream is lost, with or without
\* a trade in between.
THEOREM HolesRegistered == Spec => []HolesAreRegistered
<1>1. RecoveryAssumption /\ TypeInv /\ OutageInv => HolesAreRegistered
  <2>. SUFFICES ASSUME TypeInv, OutageInv, crashes = 0, NEW a \in Trades, NEW b \in Trades, Hole(a, b)
                PROVE  \E g \in Registered : registry[g].pre \in {a, NoId} /\ registry[g].post \in {b, NoId}
    BY DEF HolesAreRegistered
  <2>1. LeftBehind(a, b) \/ AboutToNote(a, b)
    BY DEF OutageInv, HolesInv
  <2>2. ASSUME AboutToNote(a, b)
        PROVE  open \in Registered /\ registry[open].pre \in {a, NoId} /\ registry[open].post = NoId
    BY <2>2 DEF AboutToNote, TypeInv, TypeOK, OpenInv
  <2>. QED
    BY <2>1, <2>2 DEF LeftBehind
<1>2. RecoveryAssumption /\ Init => TypeInv
  BY InitTypes
<1>3. RecoveryAssumption /\ TypeInv /\ [Next]_vars => TypeInv'
  BY TypeInductive
<1>. QED
  BY <1>1, <1>2, <1>3, OutagesInductive, RecoveryAssumption, PTL DEF Spec

\* A trade that was not delivered, between two that were, is inside a hole.
LEMMA MissedIsInAHole ==
  ASSUME delivered \subseteq Trades, MaxTrade \in Nat, NEW x \in delivered, NEW y \in delivered,
         NEW n \in x..y, n \notin delivered
  PROVE  \E a, b \in Trades : Hole(a, b) /\ n \in (a + 1)..(b - 1)
<1>. DEFINE Before == {t \in delivered : t < n}
            After  == {t \in delivered : n < t}
<1>1. delivered \subseteq Nat /\ n \in Nat /\ x < n /\ n < y
  <2>1. Trades \subseteq Nat
    BY DEF Trades
  <2>2. x \in Nat /\ y \in Nat /\ n # x /\ n # y
    BY <2>1
  <2>3. n \in Nat /\ x <= n /\ n <= y
    BY <2>2
  <2>. QED
    BY <2>1, <2>2, <2>3
<1>2. Before \in SUBSET Nat /\ Before # {} /\ \A t \in Before : t <= n
  <2>1. x \in Before
    BY <1>1
  <2>2. ASSUME NEW t \in Before PROVE t \in Nat /\ t <= n
    BY <1>1
  <2>. QED
    BY <2>1, <2>2
<1>3. After \in SUBSET Nat /\ After # {}
  BY <1>1
<1>4. Max(Before) \in Before /\ \A t \in Before : t <= Max(Before)
  <2>. HIDE DEF Before
  <2>. QED
    BY <1>1, <1>2, MaxIsGreatest
<1>5. PICK b \in After : \A t \in After : b <= t
  <2>. HIDE DEF After
  <2>. QED
    BY <1>3, LeastExists
<1>6. PICK a \in Before : \A t \in Before : t <= a
  BY <1>4
<1>7. a \in delivered /\ b \in delivered /\ a < n /\ n < b /\ a \in Nat /\ b \in Nat
  BY <1>1, <1>5, <1>6
<1>8. ASSUME NEW m \in (a + 1)..(b - 1) PROVE m \notin delivered
  <2>1. ASSUME m \in delivered PROVE FALSE
    <3>1. CASE m < n
      BY <1>1, <1>6, <1>7, <2>1, <3>1
    <3>2. CASE n < m
      BY <1>1, <1>5, <1>7, <2>1, <3>2
    <3>3. m # n
      BY <2>1
    <3>. QED
      BY <1>1, <1>7, <3>1, <3>2, <3>3
  <2>. QED
    BY <2>1
<1>9. Hole(a, b) /\ n \in (a + 1)..(b - 1)
  BY <1>1, <1>7, <1>8 DEF Hole
<1>. QED
  BY <1>7, <1>9

\* When health reports a stream complete or recovered, every trade between the first and
\* the last one delivered is in a segment, on its way to one, or in a recovery file
\* (CompletenessIsHonest): a hole has a gap, a gap that is neither open nor partial is
\* recovered, and a recovered gap's file holds the hole.
THEOREM HonestCompleteness == Spec => []CompletenessIsHonest
<1>1. RecoveryAssumption /\ RecoveryInv /\ OutageInv /\ HolesAreRegistered => CompletenessIsHonest
  <2>. SUFFICES ASSUME RecoveryAssumption, RecoveryInv, OutageInv, HolesAreRegistered,
                       crashes = 0, session # "failed", endpoint # "recent-trade",
                       contended \cup halfDone = {},
                       Completeness \in {"COMPLETE", "RECOVERED"}
                PROVE  NothingMissing
    BY DEF CompletenessIsHonest
  <2>1. \A g \in Gaps : registry[g].status \notin {"OPEN", "PARTIAL", "UNRECOVERABLE"}
    <3>. DEFINE opened   == \E g \in Gaps : registry[g].status \in {"OPEN"}
                ended    == \E g \in Gaps : registry[g].status \in {"PARTIAL", "UNRECOVERABLE"}
                regained == \E g \in Gaps : registry[g].status \in {"RECOVERED"}
    <3>1. Completeness = IF opened THEN "GAPPED" ELSE IF ended THEN "PARTIAL"
                         ELSE IF regained THEN "RECOVERED" ELSE "COMPLETE"
      BY DEF Completeness
    <3>2. ~opened /\ ~ended
      <4>. HIDE DEF opened, ended, regained
      <4>. QED
        BY <3>1
    <3>. QED
      BY <3>2
  <2>2. \A g \in Registered : registry[g].status = "RECOVERED"
    <3>1. \A g \in Gaps : registry[g].status \in Statuses \cup {"none"}
      BY DEF RecoveryInv, TypeInv, TypeOK
    <3>. QED
      BY <2>1, <3>1 DEF Registered, Statuses
  <2>3. \A g \in Registered : Recovered(g)
    BY DEF RecoveryInv, RecoveredIsContiguous, Registered
  <2>4. delivered \subseteq stored \cup Queued
    BY DEF OutageInv, LineInv
  <2>5. delivered \subseteq Trades /\ MaxTrade \in Nat
    BY DEF RecoveryInv, TypeInv, TypeOK, RecoveryAssumption
  <2>6. ASSUME NEW x \in delivered, NEW y \in delivered, NEW n \in x..y PROVE n \in Kept
    <3>1. CASE n \in delivered
      BY <2>4, <3>1 DEF Kept
    <3>2. CASE n \notin delivered
      <4>1. PICK a \in Trades, b \in Trades : Hole(a, b) /\ n \in (a + 1)..(b - 1)
        BY <2>5, <3>2, MissedIsInAHole
      <4>2. PICK g \in Registered : registry[g].pre \in {a, NoId} /\ registry[g].post \in {b, NoId}
        BY <4>1 DEF HolesAreRegistered
      <4>3. registry[g].pre = a /\ registry[g].post = b /\ (a + 1)..(b - 1) \subseteq file[g]
        BY <2>2, <2>3, <4>2 DEF Recovered
      <4>. QED
        BY <4>1, <4>3 DEF Kept
    <3>. QED
      BY <3>1, <3>2
  <2>. QED
    BY <2>6 DEF NothingMissing
<1>2. RecoveryAssumption /\ Init => RecoveryInv
  BY InitRecovery
<1>3. RecoveryAssumption /\ RecoveryInv /\ [Next]_vars => RecoveryInv'
  BY RecoveryInductive
<1>. QED
  BY <1>1, <1>2, <1>3, OutagesInductive, HolesRegistered, RecoveryAssumption, PTL DEF Spec
=============================================================================
