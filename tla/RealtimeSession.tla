---------------------------- MODULE RealtimeSession ----------------------------
(***************************************************************************)
(* The realtime capture session of ingestion/realtime_session.py: producer *)
(* tasks push envelopes into a bounded asyncio queue, one consumer task    *)
(* moves them to a raw segment file, and close_session drains and seals.   *)
(*                                                                         *)
(* A step is what one asyncio task does between two points at which it     *)
(* suspends.  The consumer does not suspend while the queue holds an       *)
(* envelope (wait_for awaits the get coroutine itself on Python 3.12), so  *)
(* it keeps the event loop from one envelope to the next: consumer is      *)
(* "running" meanwhile and no other task moves.                            *)
(***************************************************************************)
EXTENDS Integers, Sequences, SequencesExt, FiniteSets

CONSTANTS Producers,  \* tasks that call push_envelope, each one call at a time
          Closers,    \* tasks that call close_session, once each
          Capacity,   \* queue_maxsize
          MaxPush     \* bound: envelopes each producer pushes

ASSUME SessionAssumption ==
  /\ Capacity \in Nat \ {0}     \* the ValueError of the queue's constructor
  /\ MaxPush \in Nat

Envelope == Producers \X (1..MaxPush)

VARIABLES
  state,      \* meta.state
  stop,       \* _stop_requested
  queue,      \* the asyncio queue's items
  putters,    \* its _putters: pushes blocked on the full queue, oldest first
  push,       \* per producer: "idle", "waiting" in put(), or "woken" out of it
  pushed,     \* per producer: envelopes push_envelope has taken
  consumer,   \* the consumer task
  close,      \* per closer: where its close_session call is
  written,    \* envelopes written and fsynced, in file order, over all segments
  sealed,     \* how many of them are in sealed segments
  handle,     \* the writer holds an open .partial file
  received,   \* meta.envelopes_received
  enqueued,   \* meta.envelopes_enqueued
  dequeued,   \* queue.messages_dequeued
  abandoned,  \* history: envelopes whose push was cancelled
  lost,       \* history: envelopes whose write raised
  owed,       \* history: envelopes whose push had returned when DRAINING began
  early       \* history: close_session was called before the session was ACTIVE

queueVars   == <<queue, putters, push, pushed>>
fileVars    == <<written, sealed, handle>>
counterVars == <<received, enqueued, dequeued>>
historyVars == <<abandoned, lost, owed, early>>
vars == <<state, stop, queueVars, consumer, close, fileVars, counterVars, historyVars>>

States == {"CREATED", "CONNECTING", "ACTIVE", "DRAINING", "CLOSED", "FAILED"}

ValidTransitions == [s \in States |->
  CASE s = "CREATED"    -> {"CONNECTING", "FAILED"}
    [] s = "CONNECTING" -> {"ACTIVE", "FAILED"}
    [] s = "ACTIVE"     -> {"DRAINING", "FAILED"}
    [] s = "DRAINING"   -> {"CLOSED", "FAILED"}
    [] OTHER            -> {}]

\* The consumer task: not created; scheduled at the top of its loop; holding the
\* event loop; suspended in get(); its get() completed but the task not yet run.
LiveConsumer == {"ready", "running", "getting", "woken"}
Finished     == {"done", "failed", "cancelled"}

LoopFree == consumer # "running"

\* The envelope producer p is pushing, or pushed last.
Current(p) == <<p, pushed[p]>>
InFlight   == {Current(p) : p \in {q \in Producers : push[q] # "idle"}}
Pushed     == {e \in Envelope : e[2] <= pushed[e[1]]}
Returned   == Pushed \ (InFlight \cup abandoned)

Init ==
  /\ state = "CREATED"
  /\ stop = FALSE
  /\ queue = <<>> /\ putters = <<>>
  /\ push = [p \in Producers |-> "idle"]
  /\ pushed = [p \in Producers |-> 0]
  /\ consumer = "none"
  /\ close = [c \in Closers |-> "idle"]
  /\ written = <<>> /\ sealed = 0 /\ handle = FALSE
  /\ received = 0 /\ enqueued = 0 /\ dequeued = 0
  /\ abandoned = {} /\ lost = {} /\ owed = {} /\ early = FALSE

-----------------------------------------------------------------------------
(* State machine and task bookkeeping                                      *)

TransitionTo(target) ==
  /\ target \in ValidTransitions[state]
  /\ state' = target

\* Mutant of MarkFailed: a failure is reported only by a session that is not yet draining.
MarkFailedIfActive ==
  state' = IF state \in {"CONNECTING", "ACTIVE"} THEN "FAILED" ELSE state

\* transition_to(FAILED) where a refused transition changes nothing.
MarkFailed ==
  state' = IF "FAILED" \in ValidTransitions[state] THEN "FAILED" ELSE state

\* The consumer task ends; every close_session awaiting it will resume with
\* its result, its exception or its cancellation.
FinishConsumer(outcome) ==
  /\ consumer' = outcome
  /\ close' = [c \in Closers |-> IF close[c] = "awaiting" THEN outcome ELSE close[c]]

Seal ==
  /\ sealed' = IF handle THEN Len(written) ELSE sealed
  /\ handle' = FALSE
  /\ UNCHANGED written

\* The caller's own transitions: connect, subscribe, give up.
CallerTransition(target) ==
  /\ LoopFree
  /\ TransitionTo(target)
  /\ UNCHANGED <<stop, queueVars, consumer, close, fileVars, counterVars, historyVars>>

\* Callers start the consumer while they set the session up.
StartConsumer ==
  /\ LoopFree
  /\ state \in {"CREATED", "CONNECTING", "ACTIVE"}
  /\ consumer \notin LiveConsumer
  /\ consumer' = "ready"
  /\ UNCHANGED <<state, stop, queueVars, close, fileVars, counterVars, historyVars>>

-----------------------------------------------------------------------------
(* Producers: push_envelope and the queue's put                            *)

\* put_nowait and what push_envelope does after it.
Enqueue(p, e) ==
  /\ queue' = Append(queue, e)
  /\ push' = [push EXCEPT ![p] = "idle"]
  /\ consumer' = IF consumer = "getting" THEN "woken" ELSE consumer
  /\ enqueued' = enqueued + 1

\* Mutant of Block: the push is counted before there is room for it.
BlockCounting(p) ==
  /\ putters' = Append(putters, p)
  /\ push' = [push EXCEPT ![p] = "waiting"]
  /\ enqueued' = enqueued + 1
  /\ UNCHANGED <<queue, consumer>>

\* put() on a full queue: the push joins the waiters.
Block(p) ==
  /\ putters' = Append(putters, p)
  /\ push' = [push EXCEPT ![p] = "waiting"]
  /\ UNCHANGED <<queue, consumer, enqueued>>

PushEnvelope(p) ==
  /\ LoopFree
  /\ push[p] = "idle" /\ pushed[p] < MaxPush
  /\ state \in {"CONNECTING", "ACTIVE"}
  /\ pushed' = [pushed EXCEPT ![p] = @ + 1]
  /\ received' = received + 1
  /\ \/ Len(queue) < Capacity /\ Enqueue(p, <<p, pushed[p] + 1>>) /\ UNCHANGED putters
     \/ Len(queue) >= Capacity /\ Block(p)
  /\ UNCHANGED <<state, stop, close, fileVars, dequeued, historyVars>>

\* Mutant of ResumePush: put() tests full() once (if for while) and trusts its wake-up.
ResumePushUnchecked(p) ==
  /\ LoopFree
  /\ push[p] = "woken"
  /\ Enqueue(p, Current(p))
  /\ UNCHANGED <<state, stop, putters, pushed, close, fileVars, received, dequeued, historyVars>>

\* A woken put() looks at the queue again, and nothing looks at the session state.
ResumePush(p) ==
  /\ LoopFree
  /\ push[p] = "woken"
  /\ \/ Len(queue) < Capacity /\ Enqueue(p, Current(p)) /\ UNCHANGED putters
     \/ Len(queue) >= Capacity /\ Block(p)
  /\ UNCHANGED <<state, stop, pushed, close, fileVars, received, dequeued, historyVars>>

\* _wakeup_next(_putters), with `others` the pushes as they stand.
WakePutter(others) ==
  IF putters = <<>>
  THEN push' = others /\ UNCHANGED putters
  ELSE push' = [others EXCEPT ![Head(putters)] = "woken"] /\ putters' = Tail(putters)

\* Mutant of CancelPush: a cancelled put keeps its unused wake-up to itself.
CancelPushSilently(p) ==
  /\ LoopFree
  /\ push[p] # "idle"
  /\ \/ push[p] = "woken" /\ UNCHANGED putters
     \/ \E i \in 1..Len(putters) : putters[i] = p /\ putters' = RemoveAt(putters, i)
  /\ push' = [push EXCEPT ![p] = "idle"]
  /\ abandoned' = abandoned \cup {Current(p)}
  /\ UNCHANGED <<state, stop, queue, pushed, consumer, close, fileVars, counterVars,
                 lost, owed, early>>

\* The task in push_envelope is cancelled: put() leaves the waiters, or passes a
\* wake-up it will not use on to the next of them.
CancelPush(p) ==
  /\ LoopFree
  /\ push[p] # "idle"
  /\ LET others == [push EXCEPT ![p] = "idle"]
     IN  \/ /\ push[p] = "waiting"
            /\ \E i \in 1..Len(putters) :
                 putters[i] = p /\ putters' = RemoveAt(putters, i)
            /\ push' = others
         \/ push[p] = "woken" /\ Len(queue) < Capacity /\ WakePutter(others)
         \/ push[p] = "woken" /\ Len(queue) >= Capacity /\ push' = others /\ UNCHANGED putters
  /\ abandoned' = abandoned \cup {Current(p)}
  /\ UNCHANGED <<state, stop, queue, pushed, consumer, close, fileVars, counterVars,
                 lost, owed, early>>

-----------------------------------------------------------------------------
(* The consumer loop                                                       *)

\* The head leaves the queue and the oldest blocked push is woken.
Dequeue ==
  /\ consumer \in {"ready", "running", "woken"}
  /\ queue # <<>>
  /\ queue' = Tail(queue)
  /\ WakePutter(push)
  /\ dequeued' = dequeued + 1
  /\ UNCHANGED <<stop, pushed, sealed, received, enqueued, abandoned, owed, early>>

\* Mutant of ConsumeEnvelope: the stop is tested after the get, envelope in hand.
ConsumeUnlessStopped ==
  /\ Dequeue
  /\ UNCHANGED <<state, lost>>
  /\ \/ /\ stop
        /\ FinishConsumer("done")
        /\ UNCHANGED <<written, handle>>
     \/ /\ ~stop
        /\ written' = Append(written, Head(queue)) /\ handle' = TRUE
        /\ consumer' = "running" /\ UNCHANGED close

ConsumeEnvelope ==
  /\ Dequeue
  /\ written' = Append(written, Head(queue))
  /\ handle' = TRUE
  /\ consumer' = "running"
  /\ UNCHANGED <<state, close, lost>>

\* write_envelope raises: before or after it has opened the file.
WriteFails ==
  /\ Dequeue
  /\ lost' = lost \cup {Head(queue)}
  /\ handle' \in {handle, TRUE}
  /\ MarkFailed
  /\ FinishConsumer("failed")
  /\ UNCHANGED written

\* Mutant of NormalizeFails: the envelope goes back into the queue for another try.
NormalizeRetried ==
  /\ consumer \in {"ready", "running", "woken"}
  /\ queue # <<>>
  /\ queue' = Append(Tail(queue), Head(queue))
  /\ written' = Append(written, Head(queue)) /\ Len(written) < 2 * Cardinality(Envelope)
  /\ handle' = TRUE
  /\ dequeued' = dequeued + 1 /\ enqueued' = enqueued + 1
  /\ consumer' = "running"
  /\ UNCHANGED <<state, stop, putters, push, pushed, close, sealed, received, historyVars>>

\* The envelope is on disk and counted, and normalizing it raises.
NormalizeFails ==
  /\ Dequeue
  /\ written' = Append(written, Head(queue))
  /\ handle' = TRUE
  /\ MarkFailed
  /\ FinishConsumer("failed")
  /\ UNCHANGED lost

ConsumerWait ==
  /\ consumer \in {"ready", "running"}
  /\ queue = <<>> /\ ~stop
  /\ consumer' = "getting"
  /\ UNCHANGED <<state, stop, queueVars, close, fileVars, counterVars, historyVars>>

\* Mutant of ConsumerExit: the loop ends on the stop, whatever is queued.
ConsumerExitAtOnce ==
  /\ consumer \in {"ready", "running"}
  /\ stop
  /\ FinishConsumer("done")
  /\ UNCHANGED <<state, stop, queueVars, fileVars, counterVars, historyVars>>

ConsumerExit ==
  /\ consumer \in {"ready", "running"}
  /\ queue = <<>> /\ stop
  /\ FinishConsumer("done")
  /\ UNCHANGED <<state, stop, queueVars, fileVars, counterVars, historyVars>>

\* The 0.2 s of wait_for expire: TimeoutError, and the loop goes round.
GetTimeout ==
  /\ consumer \in {"getting", "woken"}
  /\ consumer' = "ready"
  /\ UNCHANGED <<state, stop, queueVars, close, fileVars, counterVars, historyVars>>

\* The consumer task is cancelled from outside.
CancelConsumer ==
  /\ consumer \in LiveConsumer \ {"running"}
  /\ FinishConsumer("cancelled")
  /\ UNCHANGED <<state, stop, queueVars, fileVars, counterVars, historyVars>>

-----------------------------------------------------------------------------
(* close_session                                                           *)

\* Mutant of SealAndClose: the session is CLOSED and its segment left to the recovery.
CloseUnsealed(c, from) ==
  /\ state' = IF from = "DRAINING" THEN "CLOSED" ELSE from
  /\ close' = [close EXCEPT ![c] = "returned"]
  /\ UNCHANGED fileVars

\* seal(), then CLOSED if the session is draining (from is the state by then).
SealAndClose(c, from) ==
  /\ Seal
  /\ state' = IF from = "DRAINING" THEN "CLOSED" ELSE from
  /\ close' = [close EXCEPT ![c] = "returned"]

\* Up to the await of the consumer task, which completes at once if the task has ended.
CloseSession(c) ==
  /\ LoopFree
  /\ close[c] = "idle"
  /\ stop' = TRUE
  /\ owed' = IF state = "ACTIVE" THEN Returned ELSE owed
  /\ early' = (early \/ state \in {"CREATED", "CONNECTING"})
  /\ LET next == IF state = "ACTIVE" THEN "DRAINING" ELSE state
     IN  \/ /\ state = "CONNECTING"      \* CONNECTING -> DRAINING raises ValueError
            /\ close' = [close EXCEPT ![c] = "raised"]
            /\ UNCHANGED <<state, fileVars>>
         \/ /\ state # "CONNECTING"
            /\ consumer \in {"none", "done"}
            /\ SealAndClose(c, next)
         \/ /\ state # "CONNECTING"
            /\ consumer \notin {"none", "done"}
            /\ state' = next
            /\ close' = [close EXCEPT ![c] =
                 IF consumer \in LiveConsumer THEN "awaiting" ELSE "raised"]
            /\ UNCHANGED fileVars
  /\ UNCHANGED <<queueVars, consumer, counterVars, abandoned, lost>>

\* The awaited consumer has returned.
CloseReturns(c) ==
  /\ LoopFree
  /\ close[c] = "done"
  /\ SealAndClose(c, state)
  /\ UNCHANGED <<stop, queueVars, consumer, counterVars, historyVars>>

\* The awaited consumer has raised or was cancelled, and so does close_session.
CloseRaises(c) ==
  /\ LoopFree
  /\ close[c] \in {"failed", "cancelled"}
  /\ close' = [close EXCEPT ![c] = "raised"]
  /\ UNCHANGED <<state, stop, queueVars, consumer, fileVars, counterVars, historyVars>>

\* drain_timeout_sec expires before the closer has run again.  The timeout cancels
\* the closer and, through the await, a consumer that is still alive.
DrainTimeout(c) ==
  /\ LoopFree
  /\ close[c] \in {"awaiting"} \cup Finished
  /\ IF consumer \in LiveConsumer /\ close[c] = "awaiting"
     THEN /\ consumer' = "cancelled"
          /\ close' = [d \in Closers |-> IF d = c THEN "timedout"
                         ELSE IF close[d] = "awaiting" THEN "cancelled" ELSE close[d]]
     ELSE close' = [close EXCEPT ![c] = "timedout"] /\ UNCHANGED consumer
  /\ UNCHANGED <<state, stop, queueVars, fileVars, counterVars, historyVars>>

\* Mutant of CloseTimedOut: a drain that timed out is awaited again.
CloseRetried(c) ==
  /\ LoopFree
  /\ close[c] = "timedout"
  /\ close' = [close EXCEPT ![c] = "awaiting"]
  /\ UNCHANGED <<state, stop, queueVars, consumer, fileVars, counterVars, historyVars>>

\* The except TimeoutError branch: FAILED, if the state machine lets it, and seal.
CloseTimedOut(c) ==
  /\ LoopFree
  /\ close[c] = "timedout"
  /\ \/ /\ TransitionTo("FAILED")
        /\ Seal
        /\ close' = [close EXCEPT ![c] = "returned"]
     \/ /\ "FAILED" \notin ValidTransitions[state]
        /\ close' = [close EXCEPT ![c] = "raised"]
        /\ UNCHANGED <<state, fileVars>>
  /\ UNCHANGED <<stop, queueVars, consumer, counterVars, historyVars>>

-----------------------------------------------------------------------------

Producing(p)  == PushEnvelope(p) \/ ResumePush(p) \/ CancelPush(p)
Consuming     == \/ ConsumeEnvelope \/ WriteFails \/ NormalizeFails
                 \/ ConsumerWait \/ ConsumerExit
Closing(c)    == \/ CloseSession(c) \/ CloseReturns(c) \/ CloseRaises(c)
                 \/ DrainTimeout(c) \/ CloseTimedOut(c)

Next ==
  \/ \E target \in {"CONNECTING", "ACTIVE", "FAILED"} : CallerTransition(target)
  \/ StartConsumer
  \/ \E p \in Producers : Producing(p)
  \/ Consuming \/ GetTimeout \/ CancelConsumer
  \/ \E c \in Closers : Closing(c)

Spec == Init /\ [][Next]_vars

\* Tasks in the event loop's ready queue run, and timers expire.  Nothing is
\* assumed of callers: they may never push, connect, close or cancel.
Fairness ==
  /\ WF_vars(Consuming)
  /\ WF_vars(GetTimeout)
  /\ \A p \in Producers : WF_vars(ResumePush(p))
  /\ \A c \in Closers : /\ WF_vars(CloseReturns(c)) /\ WF_vars(CloseRaises(c))
                        /\ WF_vars(DrainTimeout(c)) /\ WF_vars(CloseTimedOut(c))

FairSpec == Spec /\ Fairness

-----------------------------------------------------------------------------
(* Properties                                                              *)

\* Types, and the queue never holds more than queue_maxsize.
TypeOK ==
  /\ state \in States
  /\ stop \in BOOLEAN /\ handle \in BOOLEAN /\ early \in BOOLEAN
  /\ queue \in Seq(Envelope) /\ Len(queue) <= Capacity
  /\ putters \in Seq(Producers)
  /\ push \in [Producers -> {"idle", "waiting", "woken"}]
  /\ pushed \in [Producers -> 0..MaxPush]
  /\ consumer \in {"none"} \cup LiveConsumer \cup Finished
  /\ close \in [Closers -> {"idle", "awaiting", "timedout", "returned", "raised"} \cup Finished]
  /\ written \in Seq(Envelope)
  /\ sealed \in Nat
  /\ received \in Nat /\ enqueued \in Nat /\ dequeued \in Nat
  /\ abandoned \subseteq Envelope /\ lost \subseteq Envelope /\ owed \subseteq Envelope

\* Data conservation: an envelope whose push has returned is in the segment
\* files, in the queue, or is the one whose write raised; and in no two of them.
NoEnvelopeVanishes ==
  /\ Returned = ToSet(written) \cup ToSet(queue) \cup lost
  /\ ToSet(written) \cap ToSet(queue) = {}
  /\ lost \cap (ToSet(written) \cup ToSet(queue)) = {}

\* Order preservation: what one producer pushed is written, and waits to be
\* written, in the order it pushed it and once, whoever else was blocked meanwhile.
FifoPerProducer ==
  LET s == written \o queue
  IN  \A i, j \in 1..Len(s) : i < j /\ s[i][1] = s[j][1] => s[i][2] < s[j][2]

\* Auditable counters: the differences of the session's counters are exactly the
\* pushes in flight or cancelled, the queue's length and the failed writes.
CountersAudit ==
  /\ received = enqueued + Cardinality(InFlight \cup abandoned)
  /\ enqueued = dequeued + Len(queue)
  /\ dequeued = Len(written) + Cardinality(lost)

\* A failed disk write is never hidden by a close that races with it: the
\* session is FAILED from then on (no close preceded ACTIVE).
LossIsReported == lost # {} /\ ~early => state = "FAILED"

\* A CLOSED session has no open partial, no live consumer, and all it wrote is
\* sealed, unless close_session was also called before the session was ACTIVE.
ClosedIsSealed ==
  state = "CLOSED" /\ ~early =>
    ~handle /\ sealed = Len(written) /\ consumer \notin LiveConsumer

\* Graceful drain: CLOSED means that every envelope whose push had returned when
\* draining began is on disk (a consumer was started, no close preceded ACTIVE).
GracefulDrain ==
  state = "CLOSED" /\ consumer # "none" /\ ~early => owed \subseteq ToSet(written)

\* "Zero silent drops": no push returns normally for an envelope that a CLOSED
\* session has not written.
NoSilentDrop ==
  state = "CLOSED" /\ consumer # "none" => Returned \subseteq ToSet(written)

\* A close_session call ends, whatever the consumer and the other callers do.
CloseEnds ==
  \A c \in Closers : close[c] = "awaiting" ~> close[c] \in {"returned", "raised"}

\* A push blocked on the full queue goes on, unless the consumer is gone.
BackpressureReleases ==
  \A p \in Producers :
    push[p] = "waiting" ~> push[p] # "waiting" \/ consumer \notin LiveConsumer

=============================================================================
