------------------------------ MODULE GapRecovery ------------------------------
(***************************************************************************)
(* The stream supervisor of ingestion/realtime_supervisor.py, the gap      *)
(* registry and the REST recovery of ingestion/realtime_recovery.py, from  *)
(* the trade that is executed to the completeness that health.py reports.  *)
(*                                                                         *)
(* A trade is its id; the exchange executes 1, 2, 3, ...  One process      *)
(* captures the stream, loses the socket, registers the outage, reconnects *)
(* and recovers the missed ids in threads while the stream goes on.        *)
(* Timestamps are left out: recovery works by ids.  The session inside is  *)
(* the one RealtimeSession models, reduced to what a close can end in.     *)
(***************************************************************************)
EXTENDS Integers, FiniteSets

CONSTANTS Endpoints,  \* the REST endpoints the gaps may be recovered from
          Limit,      \* endpoint_limit
          MaxPages,   \* 10 in the code
          Threads,    \* bound: recoveries under way at once
          MaxTrade,   \* bound: trades executed
          MaxGap,     \* bound: gaps registered
          MaxCrash    \* bound: ends of the process

ASSUME RecoveryAssumption ==
  /\ Endpoints \subseteq {"historicalTrades", "aggTrades", "recent-trade", "unsupported"}
  /\ Limit \in Nat \ {0}
  /\ MaxPages \in Nat \ {0}
  /\ MaxTrade \in Nat
  /\ MaxGap \in Nat
  /\ MaxCrash \in Nat

Trades == 1..MaxTrade
Gaps   == 1..MaxGap

\* An id a record does not have (None in the code); no trade has it.
NoId == 0

VARIABLES
  endpoint,   \* which endpoint this stream's exchange, market and class select
  feed,       \* the last trade the exchange has executed
  session,    \* the process and its capture session
  cursor,     \* the last trade the socket has handed over
  written,    \* the consumer has written the session's trades up to this one
  firstId,    \* the caller's first_trade_id of this session, until it is noted
  lastId,     \* the caller's last_trade_id of this session
  open,       \* the gap whose post_gap_first_trade_id the caller still owes
  stored,     \* trades in raw segments
  registry,   \* per gap: the last line the registry holds of it
  file,       \* per gap: the ids in its recovery file
  memory,     \* per gap: the status in its GapRecord, which caller and threads share
  job,        \* per thread: the recovery it runs
  delivered,  \* history: trades pushed into a session
  crashes,    \* history: times the process has ended
  contended,  \* history: gaps of two recoveries at once, until one starts alone
  halfDone    \* history: gaps whose file no recovery that ran alone has reported on yet

sessionVars == <<session, cursor, written, firstId, lastId, open>>
diskVars    == <<stored, registry, file>>
threadVars  == <<memory, job, contended, halfDone>>
vars == <<endpoint, feed, sessionVars, diskVars, threadVars, delivered, crashes>>

Statuses   == {"OPEN", "RECOVERED", "PARTIAL", "UNRECOVERABLE"}
NoRecord   == [status |-> "none", pre |-> NoId, post |-> NoId]
Registered == {g \in Gaps : registry[g].status # "none"}

\* A recovery: while it asks for pages, and with what it has brought.
Asking(g, from, target, pages, ids) ==
  [gap |-> g, pc |-> "fetch", from |-> from, target |-> target, pages |-> pages, items |-> ids]
Holding(g, pc, ids) ==
  [gap |-> g, pc |-> pc, from |-> NoId, target |-> NoId, pages |-> 0, items |-> ids]

Idle == Holding(0, "idle", {})

\* What the consumer has still to write; a dead one writes no more.
Queued == IF session = "failed" THEN {} ELSE (written + 1)..cursor

Init ==
  /\ endpoint \in Endpoints
  /\ feed = 0
  /\ session = "none"
  /\ cursor = 0 /\ written = 0
  /\ firstId = NoId /\ lastId = NoId
  /\ open = 0
  /\ stored = {}
  /\ registry = [g \in Gaps |-> NoRecord]
  /\ file = [g \in Gaps |-> {}]
  /\ memory = [g \in Gaps |-> "none"]
  /\ job = [t \in Threads |-> Idle]
  /\ delivered = {} /\ crashes = 0
  /\ contended = {} /\ halfDone = {}

\* The exchange executes a trade.
Execute ==
  /\ feed < MaxTrade
  /\ feed' = feed + 1
  /\ UNCHANGED <<endpoint, sessionVars, diskVars, threadVars, delivered, crashes>>

-----------------------------------------------------------------------------
(* The stream: connect, deliver, write, lose the socket                    *)

\* create_new_session and the caller's connect: the subscription starts with
\* the next trade.
Connect ==
  /\ session = "none"
  /\ session' = "live"
  /\ cursor' = feed
  /\ written' = feed
  /\ firstId' = NoId
  /\ lastId' = NoId
  /\ UNCHANGED <<endpoint, feed, open, diskVars, threadVars, delivered, crashes>>

\* The caller receives the next trade and pushes it.
Deliver ==
  /\ session = "live"
  /\ cursor < feed
  /\ cursor' = cursor + 1
  /\ firstId' = IF open # 0 /\ firstId = NoId THEN cursor + 1 ELSE firstId
  /\ lastId' = cursor + 1
  /\ delivered' = delivered \cup {cursor + 1}
  /\ UNCHANGED <<endpoint, feed, session, written, open, diskVars, threadVars, crashes>>

\* The consumer writes the next queued trade.
Write ==
  /\ session \in {"live", "lost", "closing"}
  /\ written < cursor
  /\ written' = written + 1
  /\ stored' = stored \cup {written + 1}
  /\ UNCHANGED <<endpoint, feed, session, cursor, firstId, lastId, open, registry, file, threadVars, delivered, crashes>>

\* The consumer takes the next trade off the queue and its write raises, or the
\* normalization after the write: the trade is written or lost, the consumer is
\* dead, and push_envelope and close_session raise.
WriteFails ==
  /\ session \in {"live", "lost", "closing"}
  /\ written < cursor
  /\ session' = "failed"
  /\ written' = written + 1
  /\ stored' \in {stored, stored \cup {written + 1}}
  /\ UNCHANGED <<endpoint, feed, cursor, firstId, lastId, open, registry, file, threadVars, delivered, crashes>>

Disconnect ==
  /\ session = "live"
  /\ Registered # Gaps                               \* bound
  /\ session' = "lost"
  /\ UNCHANGED <<endpoint, feed, cursor, written, firstId, lastId, open, diskVars, threadVars, delivered, crashes>>

-----------------------------------------------------------------------------
(* handle_disconnect and the caller's notes on the gap                     *)

UpdateGap(g, record) == registry' = [registry EXCEPT ![g] = record]

\* Mutant of RegisterGap: the record replaces the one still open.
RegisterGapReusing(g) ==
  /\ g \in Gaps
  /\ g = open \/ (open = 0 /\ g \notin Registered /\ \A h \in Gaps \ Registered : g <= h)
  /\ UpdateGap(g, [NoRecord EXCEPT !.status = "OPEN"])
  /\ memory' = [memory EXCEPT ![g] = "OPEN"]
  /\ open' = g

\* register_gap: a new OPEN record, without trade ids.
RegisterGap(g) ==
  /\ g \in Gaps \ Registered
  /\ \A h \in Gaps \ Registered : g <= h
  /\ UpdateGap(g, [NoRecord EXCEPT !.status = "OPEN"])
  /\ memory' = [memory EXCEPT ![g] = "OPEN"]
  /\ open' = g

\* handle_disconnect up to the await of close_session.
HandleDisconnect ==
  /\ session = "lost"
  /\ session' = "closing"
  /\ UNCHANGED <<endpoint, feed, cursor, written, firstId, lastId, open, diskVars, threadVars, delivered, crashes>>

\* close_session has drained the queue, which nothing fills any more and which the
\* consumer empties without suspending; the gap is registered at once.
CloseDrained(g) ==
  /\ session = "closing"
  /\ written = cursor
  /\ session' = "registered"
  /\ RegisterGap(g)
  /\ UNCHANGED <<endpoint, feed, cursor, written, firstId, lastId, stored, file, job,
                 delivered, crashes, contended, halfDone>>

\* The caller notes the last trade it received before the gap, and writes the record
\* with the status its threads have left in it.
AnnotatePre ==
  /\ session = "registered"
  /\ session' = "none"
  /\ UpdateGap(open, [registry[open] EXCEPT !.pre = lastId, !.status = memory[open]])
  /\ UNCHANGED <<endpoint, feed, cursor, written, firstId, lastId, open, stored, file,
                 threadVars, delivered, crashes>>

\* The caller notes the first trade of the new session, likewise.
AnnotatePost ==
  /\ session = "live"
  /\ open # 0
  /\ firstId # NoId
  /\ open' = 0
  /\ firstId' = NoId
  /\ UpdateGap(open, [registry[open] EXCEPT !.post = firstId, !.status = memory[open]])
  /\ UNCHANGED <<endpoint, feed, session, cursor, written, lastId, stored, file,
                 threadVars, delivered, crashes>>

-----------------------------------------------------------------------------
(* perform_gap_recovery                                                    *)

\* What a request may be answered with: a run lo..hi of executed trades, at
\* most Limit of them, possibly fewer than there are (none when hi < lo).
RunsFrom(first) == {<<first, hi>> : hi \in {n \in (first - 1)..feed : n < first + Limit}}
RecentRuns      == {<<lo, feed>> : lo \in {n \in 1..(feed + 1) : feed < n + Limit}}
AnyRun          == UNION {RunsFrom(n) : n \in 1..feed}

\* fromId is sent when the gap's last id before the outage is known; without
\* it historicalTrades answers with recent trades and aggTrades with those of
\* a time window.  A refused historicalTrades request is sent again to /trades.
Pages(from) ==
  CASE endpoint = "historicalTrades" ->
         RecentRuns \cup (IF from = NoId THEN {} ELSE RunsFrom(from))
    [] endpoint = "aggTrades" ->
         IF from = NoId THEN AnyRun ELSE RunsFrom(from)
    [] OTHER -> RecentRuns

\* verify_trade_id_continuity: the boundaries are reached and no id between
\* them is missing.
Contiguous(pre, post, ids) ==
  /\ pre # NoId /\ post # NoId /\ ids # {}
  /\ \E first \in ids : first <= pre + 1
  /\ \E last \in ids : last >= post - 1
  /\ (pre + 1)..(post - 1) \subseteq ids

\* What the steps of a recovery up to its file leave alone.
streamVars == <<endpoint, feed, sessionVars, stored, delivered, crashes>>

\* trigger_gap_recovery hands any gap to a thread: one it has not finished annotating,
\* one that is recovered already, or one that another thread is working on.
TriggerRecovery(t, g) ==
  /\ session # "down"
  /\ job[t].pc = "idle"
  /\ g \in Registered
  /\ IF endpoint = "unsupported"
       THEN /\ memory' = [memory EXCEPT ![g] = "UNRECOVERABLE"]
            /\ job' = [job EXCEPT ![t] = Holding(g, "update", {})]
       ELSE /\ memory' = memory
            /\ job' = [job EXCEPT ![t] =
                 Asking(g, IF registry[g].pre = NoId THEN NoId ELSE registry[g].pre + 1,
                        registry[g].post, 0, {})]
  /\ IF \E u \in Threads : job[u].gap = g
       THEN contended' = contended \cup {g} /\ halfDone' = halfDone
       ELSE contended' = contended \ {g} /\ halfDone' = halfDone \cup (contended \cap {g})
  /\ UNCHANGED <<streamVars, registry, file>>

Outcome(ids, proven) ==
  IF ids = {} THEN "UNRECOVERABLE" ELSE IF proven THEN "RECOVERED" ELSE "PARTIAL"

\* The end of the requests: the record in memory gets its status at once; a file is
\* written only if there is something to write.
EndFetch(t, ids, proven) ==
  /\ job' = [job EXCEPT ![t] =
                Holding(job[t].gap, IF ids = {} THEN "update" ELSE "open", ids)]
  /\ memory' = [memory EXCEPT ![job[t].gap] = Outcome(ids, proven)]

Verified(g, ids) == Contiguous(registry[g].pre, registry[g].post, ids)

\* Mutant of PagesDone: the page bound is one too high.
PagesDoneLate(t, page) ==
  \/ job[t].target # NoId /\ page[2] >= job[t].target - 1
  \/ page[2] - page[1] + 1 < Limit
  \/ job[t].pages + 1 > MaxPages

\* The loop's two exits after a page with records.
PagesDone(t, page) ==
  \/ job[t].target # NoId /\ page[2] >= job[t].target - 1
  \/ page[2] - page[1] + 1 < Limit
  \/ job[t].pages + 1 >= MaxPages

\* Mutant of EmptyPage: an empty page is asked for again and the page bound is
\* not looked at (the count of pages, which grows for ever, is cut short here).
EmptyPageRetried(t) ==
  /\ job[t].pc = "fetch"
  /\ endpoint # "recent-trade"
  /\ job' = [job EXCEPT ![t].pages = (@ + 1) % MaxPages]
  /\ UNCHANGED <<streamVars, registry, file, memory, contended, halfDone>>

\* No records in the page, or no request accepted.
EmptyPage(t) ==
  /\ job[t].pc = "fetch"
  /\ endpoint # "recent-trade"
  /\ EndFetch(t, job[t].items, Verified(job[t].gap, job[t].items))
  /\ UNCHANGED <<streamVars, registry, file, contended, halfDone>>

\* One Binance request and what the loop does with its page.
FetchPage(t, page) ==
  LET ids == job[t].items \cup (page[1]..page[2])
  IN  /\ job[t].pc = "fetch"
      /\ endpoint # "recent-trade"
      /\ page[1] <= page[2]
      /\ IF PagesDone(t, page)
           THEN EndFetch(t, ids, Verified(job[t].gap, ids))
           ELSE /\ job' = [job EXCEPT ![t] =
                     Asking(job[t].gap, page[2] + 1, job[t].target, job[t].pages + 1, ids)]
                /\ memory' = memory
      /\ UNCHANGED <<streamVars, registry, file, contended, halfDone>>

\* The one Bybit request: fewer rows than the limit count as coverage.
FetchRecent(t, page) ==
  LET ids == page[1]..page[2]
  IN  /\ job[t].pc = "fetch"
      /\ endpoint = "recent-trade"
      /\ EndFetch(t, ids, ids # {} /\ page[2] - page[1] + 1 < Limit)
      /\ UNCHANGED <<streamVars, registry, file, contended, halfDone>>

\* A request raises: what earlier pages brought is kept, nothing is verified.
FetchFails(t) ==
  /\ job[t].pc = "fetch"
  /\ EndFetch(t, job[t].items, FALSE)
  /\ UNCHANGED <<streamVars, registry, file, contended, halfDone>>

\* Mutant of OpenFile: the registry hears of the outcome before the file is written.
OpenFileUpdated(t) ==
  /\ job[t].pc = "open"
  /\ file' = [file EXCEPT ![job[t].gap] = {}]
  /\ UpdateGap(job[t].gap, [registry[job[t].gap] EXCEPT !.status = memory[job[t].gap]])
  /\ job' = [job EXCEPT ![t].pc = "write"]
  /\ UNCHANGED <<streamVars, memory, contended, halfDone>>

\* The recovery file is opened for writing, which empties it.
OpenFile(t) ==
  /\ job[t].pc = "open"
  /\ file' = [file EXCEPT ![job[t].gap] = {}]
  /\ job' = [job EXCEPT ![t].pc = "write"]
  /\ halfDone' = halfDone \cup {job[t].gap}
  /\ UNCHANGED <<streamVars, registry, memory, contended>>

\* The items are written from the start of the file; what another thread's handle
\* has put there meanwhile is overwritten in part.
WriteFile(t) ==
  /\ job[t].pc = "write"
  /\ \E rest \in SUBSET file[job[t].gap] :
       file' = [file EXCEPT ![job[t].gap] = job[t].items \cup rest]
  /\ job' = [job EXCEPT ![t].pc = "update"]
  /\ UNCHANGED <<streamVars, registry, memory, contended, halfDone>>

\* The record, with the status it has in memory by now, goes to the registry last.
FinishRecovery(t) ==
  /\ job[t].pc = "update"
  /\ UpdateGap(job[t].gap, [registry[job[t].gap] EXCEPT !.status = memory[job[t].gap]])
  /\ job' = [job EXCEPT ![t] = Idle]
  /\ halfDone' = halfDone \ {job[t].gap}
  /\ UNCHANGED <<streamVars, file, memory, contended>>

\* A file error ends the thread; the registry does not hear of the attempt.
RecoveryRaises(t) ==
  /\ job[t].pc \in {"open", "write", "update"}
  /\ job' = [job EXCEPT ![t] = Idle]
  /\ UNCHANGED <<streamVars, registry, file, memory, contended, halfDone>>

-----------------------------------------------------------------------------
(* The end of the process                                                  *)

\* What was in memory is gone; a later caller has the records that list_gaps reads.
ProcessEnds ==
  /\ crashes < MaxCrash                              \* bound
  /\ crashes' = crashes + 1
  /\ session' = "down"
  /\ written' = cursor
  /\ firstId' = NoId /\ lastId' = NoId /\ open' = 0
  /\ memory' = [g \in Gaps |-> registry[g].status]
  /\ job' = [t \in Threads |-> Idle]
  /\ UNCHANGED <<endpoint, feed, cursor, diskVars, delivered, contended, halfDone>>

\* handle_disconnect awaits a close_session that raises, or the caller pushes
\* into a failed session: nobody handles the exception.
CallerFails == session = "failed" /\ ProcessEnds

Crash == session \notin {"down", "failed"} /\ ProcessEnds

Restart ==
  /\ session = "down"
  /\ session' = "none"
  /\ UNCHANGED <<endpoint, feed, cursor, written, firstId, lastId, open, diskVars,
                 threadVars, delivered, crashes>>

-----------------------------------------------------------------------------

Recover(t) ==
  \/ \E page \in Pages(job[t].from) : FetchPage(t, page) \/ FetchRecent(t, page)
  \/ EmptyPage(t) \/ FetchFails(t)
  \/ OpenFile(t) \/ WriteFile(t) \/ FinishRecovery(t) \/ RecoveryRaises(t)

Next ==
  \/ Execute \/ Connect \/ Deliver \/ Write \/ WriteFails \/ Disconnect
  \/ HandleDisconnect \/ AnnotatePre \/ AnnotatePost
  \/ \E g \in Gaps : CloseDrained(g) \/ \E t \in Threads : TriggerRecovery(t, g)
  \/ \E t \in Threads : Recover(t)
  \/ CallerFails \/ Crash \/ Restart

Spec == Init /\ [][Next]_vars

\* Each thread is a thread of the operating system, and every request it makes has a
\* timeout of 10 s.
FairSpec == Spec /\ \A t \in Threads : WF_vars(Recover(t))

-----------------------------------------------------------------------------
(* What health.py reports of the registry                                  *)

\* Mutant of Completeness: an unrecoverable gap is not looked for.
CompletenessForgetful ==
  LET some(S) == \E g \in Gaps : registry[g].status \in S
  IN  IF some({"OPEN"}) THEN "GAPPED"
      ELSE IF some({"PARTIAL"}) THEN "PARTIAL"
      ELSE IF some({"RECOVERED"}) THEN "RECOVERED"
      ELSE "COMPLETE"

Completeness ==
  LET some(S) == \E g \in Gaps : registry[g].status \in S
  IN  IF some({"OPEN"}) THEN "GAPPED"
      ELSE IF some({"PARTIAL", "UNRECOVERABLE"}) THEN "PARTIAL"
      ELSE IF some({"RECOVERED"}) THEN "RECOVERED"
      ELSE "COMPLETE"

-----------------------------------------------------------------------------
(* Properties                                                              *)

\* Types; in particular the pages of one recovery never exceed the bound.
TypeOK ==
  /\ endpoint \in Endpoints
  /\ feed \in 0..MaxTrade
  /\ session \in {"none", "live", "lost", "closing", "registered", "failed", "down"}
  /\ cursor \in 0..feed
  /\ written \in 0..cursor
  /\ firstId \in 0..cursor
  /\ lastId \in 0..cursor
  /\ open \in Registered \cup {0}
  /\ stored \subseteq Trades
  /\ registry \in [Gaps -> [status : Statuses \cup {"none"}, pre : 0..MaxTrade, post : 0..MaxTrade]]
  /\ file \in [Gaps -> SUBSET Trades]
  /\ memory \in [Gaps -> Statuses \cup {"none"}]
  /\ \A t \in Threads : job[t].gap \in Registered \cup {0}
  /\ job \in [Threads ->
       [gap : 0..MaxGap, pc : {"idle", "fetch", "open", "write", "update"},
        from : 0..(MaxTrade + 1), target : 0..MaxTrade, pages : 0..(MaxPages - 1),
        items : SUBSET Trades]]
  /\ delivered \subseteq Trades
  /\ crashes \in 0..MaxCrash
  /\ contended \subseteq Gaps /\ halfDone \subseteq Gaps

\* Strict invariant 1 of perform_gap_recovery, on disk: RECOVERED means that the
\* gap's boundaries are known and its file holds every id between them.
Recovered(g) ==
  LET r == registry[g]
  IN  r.status = "RECOVERED" =>
        r.pre # NoId /\ r.post # NoId /\ (r.pre + 1)..(r.post - 1) \subseteq file[g]

\* A gap recovered from Binance stays so across failures, crashes and further
\* recoveries of it, with the two exceptions the code has: a later recovery that
\* has opened the file again and is not done, or was cut short there, until one
\* that is done says what the file now holds; and two recoveries of the gap at
\* the same time, which share its record and its file, until one that runs alone
\* is done.
RecoveredIsContiguous ==
  endpoint # "recent-trade" => \A g \in Gaps \ (contended \cup halfDone) : Recovered(g)

\* The same for every exchange and without the exceptions, as the docstring states it.
RecoveredIsProven == \A g \in Gaps : Recovered(g)

\* Two trades were delivered and none between them.
Hole(a, b) ==
  /\ a \in delivered /\ b \in delivered /\ a + 1 < b
  /\ \A n \in (a + 1)..(b - 1) : n \notin delivered

\* While the process lives, whatever an outage made the stream skip belongs to a
\* gap of the registry whose ids, as far as they are known, are its two ends.
HolesAreRegistered ==
  crashes = 0 =>
    \A a, b \in Trades : Hole(a, b) =>
      \E g \in Registered : registry[g].pre \in {a, NoId} /\ registry[g].post \in {b, NoId}

Kept == stored \cup Queued \cup UNION {file[g] : g \in Registered}

NothingMissing == \A a, b \in delivered : a..b \subseteq Kept

\* Completeness that health reports is the truth: if no gap is open, partial or
\* unrecoverable, every trade between the first and the last one delivered is in
\* a segment, on its way there, or in a recovery file; unless the session itself
\* says it has failed, or a recovered gap is being recovered again.
CompletenessIsHonest ==
  ( /\ crashes = 0 /\ session # "failed"
    /\ endpoint # "recent-trade"
    /\ contended \cup halfDone = {}
    /\ Completeness \in {"COMPLETE", "RECOVERED"} ) => NothingMissing

\* Every recovery ends, whatever the endpoints answer.
RecoveryEnds == \A t \in Threads : job[t].pc # "idle" ~> job[t].pc = "idle"
=============================================================================
