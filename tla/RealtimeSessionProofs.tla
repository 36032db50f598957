------------------------- MODULE RealtimeSessionProofs -------------------------
(***************************************************************************)
(* Proofs about RealtimeSession for every set of producers and closers,    *)
(* every queue capacity and any number of envelopes.                       *)
(***************************************************************************)
EXTENDS RealtimeSession, SequenceTheorems, FiniteSetTheorems, TLAPS

-----------------------------------------------------------------------------
(* Sequences                                                               *)

\* Removing one waiter from the queue's deque keeps the others and their order.
LEMMA RemoveAtProperties ==
  ASSUME NEW S, NEW s \in Seq(S), NEW i \in 1..Len(s)
  PROVE  /\ RemoveAt(s, i) \in Seq(S)
         /\ Len(RemoveAt(s, i)) = Len(s) - 1
         /\ \A j \in 1..Len(s) - 1 :
              RemoveAt(s, i)[j] = IF j < i THEN s[j] ELSE s[j + 1]
<1>. DEFINE front == SubSeq(s, 1, i - 1)
            back  == SubSeq(s, i + 1, Len(s))
<1>1. Len(s) \in Nat
  OBVIOUS
<1>2. front \in Seq(S) /\ Len(front) = i - 1 /\ \A j \in 1..i - 1 : front[j] = s[j]
  BY <1>1
<1>3. back \in Seq(S) /\ Len(back) = Len(s) - i /\ \A j \in 1..Len(s) - i : back[j] = s[i + j]
  BY <1>1
<1>4. RemoveAt(s, i) = front \o back
  BY DEF RemoveAt
<1>. HIDE DEF front, back
<1>5. RemoveAt(s, i) \in Seq(S) /\ Len(RemoveAt(s, i)) = Len(s) - 1
  BY <1>1, <1>2, <1>3, <1>4, ConcatProperties
<1>6. ASSUME NEW j \in 1..Len(s) - 1
      PROVE  RemoveAt(s, i)[j] = IF j < i THEN s[j] ELSE s[j + 1]
  <2>1. CASE j < i
    BY <1>1, <1>2, <1>3, <1>4, <2>1, ConcatProperties
  <2>2. CASE j >= i
    <3>1. (front \o back)[j] = back[j - (i - 1)] /\ j - (i - 1) \in 1..Len(s) - i
      BY <1>1, <1>2, <1>3, <2>2, ConcatProperties
    <3>2. back[j - (i - 1)] = s[i + (j - (i - 1))] /\ i + (j - (i - 1)) = j + 1
      BY <1>1, <1>3, <3>1
    <3>. QED
      BY <1>4, <2>2, <3>1, <3>2
  <2>. QED
    BY <1>1, <2>1, <2>2
<1>. QED
  BY <1>5, <1>6

\* What appending does to the set of a sequence's elements and to their distinctness.
LEMMA AppendSet ==
  ASSUME NEW S, NEW s \in Seq(S), NEW e \in S
  PROVE  /\ ToSet(Append(s, e)) = ToSet(s) \cup {e}
         /\ IsInjective(s) /\ e \notin ToSet(s) => IsInjective(Append(s, e))
<1>1. /\ Append(s, e) \in Seq(S) /\ Len(Append(s, e)) = Len(s) + 1
      /\ Append(s, e)[Len(s) + 1] = e
      /\ \A i \in 1..Len(s) : Append(s, e)[i] = s[i]
  BY AppendProperties
<1>2. Len(s) \in Nat /\ DOMAIN s = 1..Len(s) /\ DOMAIN Append(s, e) = 1..Len(s) + 1
  BY <1>1
<1>3. 1..Len(s) + 1 = 1..Len(s) \cup {Len(s) + 1} /\ Len(s) + 1 \notin 1..Len(s)
  BY <1>2
<1>4. ToSet(Append(s, e)) = ToSet(s) \cup {e}
  <2>1. ASSUME NEW x \in ToSet(Append(s, e)) PROVE x \in ToSet(s) \cup {e}
    BY <1>1, <1>2, <1>3 DEF ToSet
  <2>2. ASSUME NEW x \in ToSet(s) PROVE x \in ToSet(Append(s, e))
    BY <1>1, <1>2, <1>3 DEF ToSet
  <2>3. e \in ToSet(Append(s, e))
    BY <1>1, <1>2, <1>3 DEF ToSet
  <2>. QED
    BY <2>1, <2>2, <2>3
<1>5. ASSUME IsInjective(s), e \notin ToSet(s)
      PROVE  IsInjective(Append(s, e))
  <2>. SUFFICES ASSUME NEW a \in 1..Len(s) + 1, NEW b \in 1..Len(s) + 1,
                       Append(s, e)[a] = Append(s, e)[b]
                PROVE  a = b
    BY <1>2 DEF IsInjective
  <2>1. \A i \in 1..Len(s) : s[i] # e
    BY <1>2, <1>5 DEF ToSet
  <2>. QED
    BY <1>1, <1>2, <1>3, <1>5, <2>1 DEF IsInjective
<1>. QED
  BY <1>4, <1>5

\* What taking the head does to them.
LEMMA TailSet ==
  ASSUME NEW S, NEW s \in Seq(S), s # <<>>, IsInjective(s)
  PROVE  /\ Head(s) \in ToSet(s)
         /\ ToSet(Tail(s)) = ToSet(s) \ {Head(s)}
         /\ IsInjective(Tail(s))
<1>1. Len(s) \in Nat \ {0} /\ DOMAIN s = 1..Len(s) /\ Head(s) = s[1]
  OBVIOUS
<1>2. Tail(s) \in Seq(S) /\ DOMAIN Tail(s) = 1..Len(s) - 1
  BY <1>1
<1>3. \A i \in 1..Len(s) - 1 : Tail(s)[i] = s[i + 1] /\ i + 1 \in 1..Len(s) /\ i + 1 # 1
  BY <1>1
<1>4. \A i \in 1..Len(s) : i # 1 => i - 1 \in 1..Len(s) - 1 /\ Tail(s)[i - 1] = s[i]
  BY <1>1
<1>5. 1 \in 1..Len(s)
  BY <1>1
<1>6. Head(s) \in ToSet(s)
  BY <1>1, <1>5 DEF ToSet
<1>7. \A i \in 1..Len(s) : s[i] = s[1] => i = 1
  BY <1>1, <1>5 DEF IsInjective
<1>8. ToSet(Tail(s)) = ToSet(s) \ {Head(s)}
  <2>1. ASSUME NEW x \in ToSet(Tail(s)) PROVE x \in ToSet(s) \ {Head(s)}
    BY <1>1, <1>2, <1>3, <1>7 DEF ToSet
  <2>2. ASSUME NEW x \in ToSet(s) \ {Head(s)} PROVE x \in ToSet(Tail(s))
    <3>1. PICK i \in 1..Len(s) : s[i] = x
      BY <1>1, <2>2 DEF ToSet
    <3>2. i # 1
      BY <1>1, <2>2, <3>1
    <3>3. i - 1 \in DOMAIN Tail(s) /\ Tail(s)[i - 1] = x
      BY <1>2, <1>4, <3>1, <3>2
    <3>. QED
      BY <3>3 DEF ToSet
  <2>. QED
    BY <2>1, <2>2
<1>9. IsInjective(Tail(s))
  BY <1>1, <1>2, <1>3 DEF IsInjective
<1>. QED
  BY <1>6, <1>8, <1>9

\* What removing one element does to them.
LEMMA RemoveAtSet ==
  ASSUME NEW S, NEW s \in Seq(S), NEW i \in 1..Len(s), IsInjective(s)
  PROVE  /\ RemoveAt(s, i) \in Seq(S)
         /\ ToSet(RemoveAt(s, i)) = ToSet(s) \ {s[i]}
         /\ IsInjective(RemoveAt(s, i))
<1>. DEFINE r == RemoveAt(s, i)
            from(j) == IF j < i THEN j ELSE j + 1
            to(k) == IF k < i THEN k ELSE k - 1
<1>1. /\ r \in Seq(S) /\ Len(r) = Len(s) - 1
      /\ \A j \in 1..Len(s) - 1 : r[j] = IF j < i THEN s[j] ELSE s[j + 1]
  BY RemoveAtProperties
<1>. HIDE DEF r
<1>2. Len(s) \in Nat /\ DOMAIN s = 1..Len(s) /\ DOMAIN r = 1..Len(s) - 1
  BY <1>1
<1>3. \A j \in 1..Len(s) - 1 : from(j) \in 1..Len(s) /\ from(j) # i /\ r[j] = s[from(j)]
  BY <1>1, <1>2
<1>4. \A k \in 1..Len(s) : k # i => to(k) \in 1..Len(s) - 1 /\ from(to(k)) = k
  BY <1>2
<1>5. \A a, b \in 1..Len(s) - 1 : from(a) = from(b) => a = b
  BY <1>2
<1>. HIDE DEF from, to
<1>6. \A a, b \in 1..Len(s) : s[a] = s[b] => a = b
  BY <1>2 DEF IsInjective
<1>7. IsInjective(r)
  BY <1>2, <1>3, <1>5, <1>6 DEF IsInjective
<1>8. ToSet(r) = ToSet(s) \ {s[i]}
  <2>1. ASSUME NEW x \in ToSet(r) PROVE x \in ToSet(s) \ {s[i]}
    BY <1>2, <1>3, <1>6 DEF ToSet
  <2>2. ASSUME NEW x \in ToSet(s) \ {s[i]} PROVE x \in ToSet(r)
    <3>1. PICK k \in 1..Len(s) : x = s[k] /\ k # i
      BY <1>2 DEF ToSet
    <3>2. to(k) \in 1..Len(s) - 1 /\ r[to(k)] = x
      BY <1>3, <1>4, <3>1
    <3>. QED
      BY <1>2, <3>2 DEF ToSet
  <2>. QED
    BY <2>1, <2>2
<1>. QED
  BY <1>1, <1>7, <1>8 DEF r

-----------------------------------------------------------------------------
(* Types and the queue's waiters                                           *)

\* The deque of blocked pushes lists waiting producers, none twice, and a push in
\* flight has taken an envelope.
WaitersOK ==
  /\ \A q \in ToSet(putters) : push[q] = "waiting"
  /\ IsInjective(putters)
  /\ \A p \in Producers : push[p] # "idle" => pushed[p] >= 1

TypeInv == TypeOK /\ WaitersOK

PushType == [Producers -> {"idle", "waiting", "woken"}]

\* The waiters are distinct producers, and every producer has a place in its push.
LEMMA WaitersTypes ==
  ASSUME TypeInv
  PROVE  /\ putters \in Seq(Producers) /\ push \in PushType
         /\ pushed \in [Producers -> 0..MaxPush]
         /\ IsInjective(putters) /\ ToSet(putters) \subseteq Producers
<1>1. putters \in Seq(Producers) /\ DOMAIN putters = 1..Len(putters)
  BY DEF TypeInv, TypeOK
<1>2. ToSet(putters) \subseteq Producers
  BY <1>1 DEF ToSet
<1>. QED
  BY <1>1, <1>2 DEF TypeInv, TypeOK, WaitersOK, PushType

\* Waking the oldest waiter keeps the deque and the pushes in step.
LEMMA WakePutterKeepsTypes ==
  ASSUME TypeInv, NEW others \in PushType,
         \A q \in ToSet(putters) : others[q] = "waiting",
         \A q \in Producers : others[q] # "idle" => pushed[q] >= 1,
         pushed' = pushed, WakePutter(others)
  PROVE  putters' \in Seq(Producers) /\ push' \in PushType /\ WaitersOK'
<1>1. CASE putters = <<>>
  BY <1>1, WaitersTypes DEF WakePutter, WaitersOK
<1>2. CASE putters # <<>>
  <2>1. putters' = Tail(putters) /\ push' = [others EXCEPT ![Head(putters)] = "woken"]
    BY <1>2 DEF WakePutter
  <2>2. /\ Head(putters) \in ToSet(putters) /\ ToSet(putters') = ToSet(putters) \ {Head(putters)}
        /\ IsInjective(putters') /\ putters' \in Seq(Producers)
    BY <1>2, <2>1, WaitersTypes, TailSet
  <2>3. ToSet(putters) \subseteq Producers
    BY WaitersTypes
  <2>. QED
    BY <2>1, <2>2, <2>3 DEF WaitersOK, PushType
<1>. QED
  BY <1>1, <1>2

\* A push that blocks joins the deque once.
LEMMA BlockKeepsTypes ==
  ASSUME TypeInv, NEW p \in Producers, push[p] # "waiting", Block(p),
         \A q \in Producers : q = p \/ push[q] # "idle" => pushed'[q] >= 1
  PROVE  putters' \in Seq(Producers) /\ push' \in PushType /\ WaitersOK'
<1>1. putters' = Append(putters, p) /\ push' = [push EXCEPT ![p] = "waiting"]
  BY DEF Block
<1>2. p \notin ToSet(putters)
  BY DEF TypeInv, WaitersOK
<1>3. /\ putters' \in Seq(Producers) /\ IsInjective(putters')
      /\ ToSet(putters') = ToSet(putters) \cup {p}
  BY <1>1, <1>2, WaitersTypes, AppendSet
<1>4. push \in PushType /\ ToSet(putters) \subseteq Producers
  BY WaitersTypes
<1>. QED
  BY <1>1, <1>3, <1>4 DEF TypeInv, WaitersOK, PushType

\* A push that ends without having waited touches no waiter.
LEMMA IdleKeepsWaiters ==
  ASSUME TypeInv, NEW p \in Producers, push[p] # "waiting",
         push' = [push EXCEPT ![p] = "idle"], putters' = putters,
         \A q \in Producers : push[q] # "idle" => pushed'[q] >= 1
  PROVE  push' \in PushType /\ WaitersOK'
<1>1. push \in PushType /\ ToSet(putters) \subseteq Producers
  BY WaitersTypes
<1>2. p \notin ToSet(putters)
  BY DEF TypeInv, WaitersOK
<1>. QED
  BY <1>1, <1>2 DEF TypeInv, WaitersOK, PushType

\* A cancelled push that was waiting leaves the deque.
LEMMA RemoveKeepsWaiters ==
  ASSUME TypeInv, NEW p \in Producers, NEW i \in 1..Len(putters), putters[i] = p,
         putters' = RemoveAt(putters, i), push' = [push EXCEPT ![p] = "idle"],
         pushed' = pushed
  PROVE  putters' \in Seq(Producers) /\ push' \in PushType /\ WaitersOK'
<1>1. push \in PushType /\ ToSet(putters) \subseteq Producers
  BY WaitersTypes
<1>2. /\ putters' \in Seq(Producers) /\ IsInjective(putters')
      /\ ToSet(putters') = ToSet(putters) \ {p}
  BY WaitersTypes, RemoveAtSet
<1>. QED
  BY <1>1, <1>2 DEF TypeInv, WaitersOK, PushType

\* What putting an envelope into a queue with room does to the types.
LEMMA EnqueueKeepsTypes ==
  ASSUME TypeInv, NEW p \in Producers, push[p] # "waiting", NEW e \in Envelope,
         Len(queue) < Capacity, Enqueue(p, e), putters' = putters,
         \A q \in Producers : push[q] # "idle" => pushed'[q] >= 1
  PROVE  /\ queue' \in Seq(Envelope) /\ Len(queue') <= Capacity
         /\ consumer' \in {"none"} \cup LiveConsumer \cup Finished
         /\ enqueued' \in Nat
         /\ push' \in PushType /\ WaitersOK'
<1>1. queue \in Seq(Envelope) /\ Capacity \in Nat
  BY SessionAssumption DEF TypeInv, TypeOK
<1>2. queue' \in Seq(Envelope) /\ Len(queue') <= Capacity
  BY <1>1 DEF Enqueue
<1>3. enqueued' \in Nat /\ consumer' \in {"none"} \cup LiveConsumer \cup Finished
  BY DEF Enqueue, TypeInv, TypeOK, LiveConsumer
<1>. QED
  BY <1>2, <1>3, IdleKeepsWaiters DEF Enqueue

\* The head of a nonempty queue is an envelope, and the rest is a queue.
LEMMA DequeueTypes ==
  ASSUME TypeInv, Dequeue
  PROVE  /\ Head(queue) \in Envelope
         /\ queue' \in Seq(Envelope) /\ Len(queue') <= Capacity
         /\ putters' \in Seq(Producers) /\ push' \in PushType /\ WaitersOK'
         /\ dequeued' \in Nat
<1>1. queue \in Seq(Envelope) /\ queue # <<>> /\ Len(queue) <= Capacity /\ Capacity \in Nat
  BY SessionAssumption DEF TypeInv, TypeOK, Dequeue
<1>2. /\ Head(queue) \in Envelope
      /\ Tail(queue) \in Seq(Envelope) /\ Len(Tail(queue)) <= Capacity
  BY <1>1
<1>3. putters' \in Seq(Producers) /\ push' \in PushType /\ WaitersOK'
  BY WakePutterKeepsTypes, WaitersTypes DEF Dequeue, TypeInv, WaitersOK
<1>. QED
  BY <1>2, <1>3 DEF Dequeue, TypeInv, TypeOK

\* Sealing keeps the types of the file's state, and so does leaving it alone.
LEMMA SealTypes ==
  ASSUME TypeInv, Seal \/ UNCHANGED fileVars
  PROVE  written' \in Seq(Envelope) /\ sealed' \in Nat /\ handle' \in BOOLEAN
<1>1. written \in Seq(Envelope) /\ Len(written) \in Nat /\ sealed \in Nat /\ handle \in BOOLEAN
  BY DEF TypeInv, TypeOK
<1>2. CASE Seal
  BY <1>1, <1>2 DEF Seal
<1>3. CASE UNCHANGED fileVars
  BY <1>1, <1>3 DEF fileVars
<1>. QED
  BY <1>2, <1>3

\* Steps that leave the queue, its waiters and the pushes alone.
LEMMA QuietKeepsWaiters ==
  ASSUME TypeInv, UNCHANGED queueVars
  PROVE  /\ WaitersOK'
         /\ queue' \in Seq(Envelope) /\ Len(queue') <= Capacity
         /\ putters' \in Seq(Producers) /\ push' \in PushType
         /\ pushed' \in [Producers -> 0..MaxPush]
<1>1. queue' = queue /\ putters' = putters /\ push' = push /\ pushed' = pushed
  BY DEF queueVars
<1>2. WaitersOK'
  BY <1>1 DEF TypeInv, WaitersOK
<1>3. /\ queue \in Seq(Envelope) /\ Len(queue) <= Capacity
      /\ putters \in Seq(Producers) /\ push \in PushType
      /\ pushed \in [Producers -> 0..MaxPush]
  BY DEF TypeInv, TypeOK, PushType
<1>. QED
  BY <1>1, <1>2, <1>3

\* The queue bound and the types hold in every reachable state, for every capacity.
THEOREM TypeCorrect == Spec => []TypeInv
<1>1. Init => TypeInv
  <2>. SUFFICES ASSUME Init PROVE TypeInv
    OBVIOUS
  <2>1. TypeOK
    <3>1. queue \in Seq(Envelope) /\ Len(queue) <= Capacity /\ written \in Seq(Envelope)
      BY SessionAssumption DEF Init
    <3>2. putters \in Seq(Producers) /\ pushed \in [Producers -> 0..MaxPush]
      BY SessionAssumption DEF Init
    <3>. QED
      BY <3>1, <3>2 DEF Init, TypeOK, States
  <2>2. WaitersOK
    BY DEF Init, WaitersOK, IsInjective, ToSet
  <2>. QED
    BY <2>1, <2>2 DEF TypeInv
<1>2. TypeInv /\ [Next]_vars => TypeInv'
  <2>. SUFFICES ASSUME TypeInv, [Next]_vars PROVE TypeInv'
    OBVIOUS
  <2>. USE SessionAssumption
  <2>1. ASSUME NEW target \in {"CONNECTING", "ACTIVE", "FAILED"}, CallerTransition(target)
        PROVE  TypeInv'
    <3>1. state' \in States
      BY <2>1 DEF CallerTransition, TransitionTo, States
    <3>2. UNCHANGED queueVars
      BY <2>1 DEF CallerTransition
    <3>3. UNCHANGED <<stop, consumer, close, fileVars, counterVars, historyVars>>
      BY <2>1 DEF CallerTransition
    <3>. QED
      BY <3>1, <3>2, <3>3, QuietKeepsWaiters DEF fileVars, counterVars,
         historyVars, TypeInv, TypeOK, PushType
  <2>2. CASE StartConsumer
    BY <2>2 DEF StartConsumer, LiveConsumer, queueVars, fileVars, counterVars, historyVars,
                TypeInv, TypeOK, WaitersOK
  <2>3. ASSUME NEW p \in Producers, PushEnvelope(p) PROVE TypeInv'
    <3>1. /\ pushed \in [Producers -> 0..MaxPush] /\ pushed[p] < MaxPush
          /\ pushed' = [pushed EXCEPT ![p] = @ + 1] /\ push[p] = "idle"
      BY <2>3 DEF PushEnvelope, TypeInv, TypeOK
    <3>2. /\ pushed' \in [Producers -> 0..MaxPush]
          /\ \A q \in Producers : q = p \/ push[q] # "idle" => pushed'[q] >= 1
          /\ <<p, pushed[p] + 1>> \in Envelope
      BY <3>1 DEF TypeInv, WaitersOK, Envelope
    <3>3. /\ queue' \in Seq(Envelope) /\ Len(queue') <= Capacity
          /\ consumer' \in {"none"} \cup LiveConsumer \cup Finished
          /\ enqueued' \in Nat
          /\ putters' \in Seq(Producers) /\ push' \in PushType /\ WaitersOK'
      <4>1. CASE Len(queue) < Capacity /\ Enqueue(p, <<p, pushed[p] + 1>>) /\ UNCHANGED putters
        BY <3>1, <3>2, <4>1, EnqueueKeepsTypes DEF TypeInv, TypeOK
      <4>2. CASE Block(p)
        BY <3>1, <3>2, <4>2, BlockKeepsTypes DEF Block, TypeInv, TypeOK
      <4>. QED
        BY <2>3, <4>1, <4>2 DEF PushEnvelope
    <3>. QED
      BY <2>3, <3>2, <3>3 DEF PushEnvelope, PushType, fileVars, historyVars, TypeInv, TypeOK
  <2>4. ASSUME NEW p \in Producers, ResumePush(p) PROVE TypeInv'
    <3>1. /\ pushed \in [Producers -> 0..MaxPush] /\ pushed' = pushed /\ push[p] = "woken"
      BY <2>4 DEF ResumePush, TypeInv, TypeOK
    <3>2. /\ \A q \in Producers : q = p \/ push[q] # "idle" => pushed'[q] >= 1
          /\ Current(p) \in Envelope
      BY <3>1 DEF TypeInv, WaitersOK, Envelope, Current
    <3>3. /\ queue' \in Seq(Envelope) /\ Len(queue') <= Capacity
          /\ consumer' \in {"none"} \cup LiveConsumer \cup Finished
          /\ enqueued' \in Nat
          /\ putters' \in Seq(Producers) /\ push' \in PushType /\ WaitersOK'
      <4>1. CASE Len(queue) < Capacity /\ Enqueue(p, Current(p)) /\ UNCHANGED putters
        BY <3>1, <3>2, <4>1, EnqueueKeepsTypes DEF TypeInv, TypeOK
      <4>2. CASE Block(p)
        BY <3>1, <3>2, <4>2, BlockKeepsTypes DEF Block, TypeInv, TypeOK
      <4>. QED
        BY <2>4, <4>1, <4>2 DEF ResumePush
    <3>. QED
      BY <2>4, <3>1, <3>3 DEF ResumePush, PushType, fileVars, historyVars, TypeInv, TypeOK
  <2>5. ASSUME NEW p \in Producers, CancelPush(p) PROVE TypeInv'
    <3>. DEFINE others == [push EXCEPT ![p] = "idle"]
    <3>1. /\ pushed' = pushed /\ push[p] # "idle" /\ push \in PushType
          /\ Current(p) \in Envelope
      BY <2>5, WaitersTypes DEF CancelPush, TypeInv, WaitersOK, Envelope, Current
    <3>2. putters' \in Seq(Producers) /\ push' \in PushType /\ WaitersOK'
      <4>1. ASSUME NEW i \in 1..Len(putters), putters[i] = p, push' = others,
                   putters' = RemoveAt(putters, i)
            PROVE  putters' \in Seq(Producers) /\ push' \in PushType /\ WaitersOK'
        BY <3>1, <4>1, RemoveKeepsWaiters
      <4>2. CASE push[p] = "woken" /\ WakePutter(others)
        <5>1. /\ others \in PushType
              /\ \A q \in ToSet(putters) : others[q] = "waiting"
              /\ \A q \in Producers : others[q] # "idle" => pushed[q] >= 1
          BY <3>1, <4>2, WaitersTypes DEF TypeInv, WaitersOK, PushType
        <5>. QED
          BY <3>1, <4>2, <5>1, WakePutterKeepsTypes
      <4>3. CASE push[p] = "woken" /\ push' = others /\ UNCHANGED putters
        BY <3>1, <4>3, IdleKeepsWaiters, WaitersTypes DEF TypeInv, WaitersOK
      <4>. QED
        BY <2>5, <4>1, <4>2, <4>3 DEF CancelPush
    <3>. QED
      BY <2>5, <3>1, <3>2 DEF CancelPush, PushType, fileVars, counterVars, TypeInv, TypeOK
  <2>6. CASE ConsumeEnvelope
    BY <2>6, DequeueTypes DEF ConsumeEnvelope, Dequeue, PushType, LiveConsumer, TypeInv, TypeOK
  <2>7. CASE WriteFails
    BY <2>7, DequeueTypes DEF WriteFails, Dequeue, MarkFailed, FinishConsumer, PushType,
       States, Finished, TypeInv, TypeOK
  <2>8. CASE NormalizeFails
    BY <2>8, DequeueTypes DEF NormalizeFails, Dequeue, MarkFailed, FinishConsumer, PushType,
       States, Finished, TypeInv, TypeOK
  <2>9. CASE ConsumerWait \/ GetTimeout
    BY <2>9 DEF ConsumerWait, GetTimeout, LiveConsumer, queueVars, fileVars, counterVars,
                historyVars, TypeInv, TypeOK, WaitersOK
  <2>10. CASE ConsumerExit \/ CancelConsumer
    BY <2>10 DEF ConsumerExit, CancelConsumer, FinishConsumer, Finished, queueVars, fileVars,
                 counterVars, historyVars, TypeInv, TypeOK, WaitersOK
  <2>11. ASSUME NEW c \in Closers, CloseSession(c) PROVE TypeInv'
    <3>1. Returned \subseteq Envelope
      BY DEF Returned, Pushed
    <3>2. Seal \/ UNCHANGED fileVars
      BY <2>11 DEF CloseSession, SealAndClose
    <3>3. state' \in States
      BY <2>11 DEF CloseSession, SealAndClose, States, TypeInv, TypeOK
    <3>4. close' \in [Closers -> {"idle", "awaiting", "timedout", "returned", "raised"} \cup Finished]
      BY <2>11 DEF CloseSession, SealAndClose, TypeInv, TypeOK
    <3>. QED
      BY <2>11, <3>1, <3>2, <3>3, <3>4, SealTypes, QuietKeepsWaiters
         DEF CloseSession, counterVars, PushType, TypeInv, TypeOK
  <2>12. ASSUME NEW c \in Closers, CloseReturns(c) \/ CloseRaises(c) PROVE TypeInv'
    <3>1. Seal \/ UNCHANGED fileVars
      BY <2>12 DEF CloseReturns, CloseRaises, SealAndClose
    <3>. QED
      BY <2>12, <3>1, SealTypes, QuietKeepsWaiters DEF CloseReturns, CloseRaises, SealAndClose,
         States, counterVars, historyVars, PushType, TypeInv, TypeOK
  <2>13. ASSUME NEW c \in Closers, DrainTimeout(c) PROVE TypeInv'
    BY <2>13 DEF DrainTimeout, Finished, queueVars, fileVars, counterVars, historyVars,
       TypeInv, TypeOK, WaitersOK
  <2>14. ASSUME NEW c \in Closers, CloseTimedOut(c) PROVE TypeInv'
    <3>1. Seal \/ UNCHANGED fileVars
      BY <2>14 DEF CloseTimedOut
    <3>. QED
      BY <2>14, <3>1, SealTypes, QuietKeepsWaiters DEF CloseTimedOut, TransitionTo, States,
         counterVars, historyVars, PushType, TypeInv, TypeOK
  <2>15. CASE UNCHANGED vars
    BY <2>15 DEF vars, queueVars, fileVars, counterVars, historyVars, TypeInv, TypeOK,
       WaitersOK
  <2>. QED
    BY <2>1, <2>2, <2>3, <2>4, <2>5, <2>6, <2>7, <2>8, <2>9, <2>10, <2>11, <2>12, <2>13,
       <2>14, <2>15 DEF Next, Producing, Consuming, Closing
<1>. QED
  BY <1>1, <1>2, PTL DEF Spec

-----------------------------------------------------------------------------
(* Conservation                                                            *)

\* NoEnvelopeVanishes is not inductive alone: an envelope is in the queue once, and
\* a cancelled push's envelope is pushed and no longer in flight.
ConservationInv ==
  /\ NoEnvelopeVanishes
  /\ IsInjective(queue)
  /\ abandoned \subseteq Pushed
  /\ InFlight \cap abandoned = {}

\* Taking an envelope adds exactly a new one to those pushed.
LEMMA TakeEnvelope ==
  ASSUME TypeInv, NEW p \in Producers, pushed[p] < MaxPush,
         pushed' = [pushed EXCEPT ![p] = @ + 1]
  PROVE  /\ <<p, pushed[p] + 1>> \in Envelope \ Pushed
         /\ Pushed' = Pushed \cup {<<p, pushed[p] + 1>>}
<1>1. pushed \in [Producers -> 0..MaxPush] /\ MaxPush \in Nat
  BY SessionAssumption DEF TypeInv, TypeOK
<1>2. \A q \in Producers : pushed'[q] = IF q = p THEN pushed[p] + 1 ELSE pushed[q]
  BY <1>1
<1>3. pushed[p] \in Nat /\ pushed[p] + 1 \in 1..MaxPush
  BY <1>1
<1>4. <<p, pushed[p] + 1>> \in Envelope \ Pushed
  BY <1>3 DEF Envelope, Pushed
<1>5. ASSUME NEW q \in Producers, NEW n \in 1..MaxPush
      PROVE  n <= pushed'[q] <=> n <= pushed[q] \/ (q = p /\ n = pushed[p] + 1)
  BY <1>1, <1>2, <1>3
<1>6. Pushed' = Pushed \cup {<<p, pushed[p] + 1>>}
  <2>1. ASSUME NEW e \in Envelope PROVE e \in Pushed' <=> e \in Pushed \cup {<<p, pushed[p] + 1>>}
    <3>1. PICK q \in Producers, n \in 1..MaxPush : e = <<q, n>>
      BY DEF Envelope
    <3>. QED
      BY <1>5, <3>1 DEF Pushed
  <2>. QED
    BY <1>4, <2>1 DEF Pushed
<1>. QED
  BY <1>4, <1>6

\* What is in flight has been pushed.
LEMMA FlightIsPushed ==
  ASSUME TypeInv
  PROVE  InFlight \subseteq Pushed
<1>. SUFFICES ASSUME NEW p \in Producers, push[p] # "idle" PROVE Current(p) \in Pushed
  BY DEF InFlight
<1>1. pushed[p] \in 1..MaxPush
  BY SessionAssumption DEF TypeInv, TypeOK, WaitersOK
<1>. QED
  BY <1>1 DEF Current, Pushed, Envelope

\* Flights depend only on which pushes are idle.
LEMMA SameFlight ==
  ASSUME \A q \in Producers : push'[q] # "idle" <=> push[q] # "idle", pushed' = pushed
  PROVE  InFlight' = InFlight
BY DEF InFlight, Current

\* A push that becomes idle takes its envelope out of the flight.
LEMMA FlightLands ==
  ASSUME NEW p \in Producers, push[p] # "idle", push'[p] = "idle", pushed' = pushed,
         \A q \in Producers : q # p => (push'[q] # "idle" <=> push[q] # "idle")
  PROVE  /\ Current(p) \in InFlight
         /\ InFlight' = InFlight \ {Current(p)}
<1>1. \A q \in Producers : Current(q) = Current(p) => q = p
  BY DEF Current
<1>. QED
  BY <1>1 DEF InFlight, Current

\* Waking a waiter changes no push between idle and in flight.
LEMMA WakeKeepsIdle ==
  ASSUME TypeInv, NEW others \in PushType, \A q \in ToSet(putters) : others[q] = "waiting",
         WakePutter(others)
  PROVE  \A q \in Producers : push'[q] # "idle" <=> others[q] # "idle"
<1>1. CASE putters = <<>>
  BY <1>1 DEF WakePutter
<1>2. CASE putters # <<>>
  <2>1. push' = [others EXCEPT ![Head(putters)] = "woken"]
    BY <1>2 DEF WakePutter
  <2>2. others[Head(putters)] = "waiting"
    BY <1>2, WaitersTypes, TailSet
  <2>. QED
    BY <2>1, <2>2 DEF PushType
<1>. QED
  BY <1>1, <1>2

\* An envelope that arrives in the queue is new to the session's outcome.
LEMMA ArrivalConserves ==
  ASSUME TypeInv, ConservationInv, NEW e \in Envelope, e \notin Returned,
         queue' = Append(queue, e), written' = written, lost' = lost,
         Returned' = Returned \cup {e}
  PROVE  NoEnvelopeVanishes' /\ IsInjective(queue')
<1>1. queue \in Seq(Envelope) /\ e \notin ToSet(queue)
  BY DEF TypeInv, TypeOK, ConservationInv, NoEnvelopeVanishes
<1>2. ToSet(queue') = ToSet(queue) \cup {e} /\ IsInjective(queue')
  BY <1>1, AppendSet DEF ConservationInv
<1>. QED
  BY <1>2 DEF ConservationInv, NoEnvelopeVanishes

\* An envelope that leaves the queue for the segment or for the failed writes.
LEMMA DepartureConserves ==
  ASSUME TypeInv, ConservationInv, Dequeue, Returned' = Returned,
         \/ written' = Append(written, Head(queue)) /\ lost' = lost
         \/ written' = written /\ lost' = lost \cup {Head(queue)}
  PROVE  NoEnvelopeVanishes' /\ IsInjective(queue')
<1>1. queue \in Seq(Envelope) /\ queue # <<>> /\ IsInjective(queue) /\ queue' = Tail(queue)
  BY DEF TypeInv, TypeOK, ConservationInv, Dequeue
<1>2. /\ Head(queue) \in ToSet(queue) /\ ToSet(queue') = ToSet(queue) \ {Head(queue)}
      /\ IsInjective(queue')
  BY <1>1, TailSet
<1>3. Head(queue) \in Envelope /\ written \in Seq(Envelope)
  BY DequeueTypes DEF TypeInv, TypeOK
<1>4. ToSet(Append(written, Head(queue))) = ToSet(written) \cup {Head(queue)}
  BY <1>3, AppendSet
<1>. QED
  BY <1>2, <1>4 DEF ConservationInv, NoEnvelopeVanishes

\* A push that starts either stays idle or puts its new envelope in flight.
LEMMA FlightTakesOff ==
  ASSUME TypeInv, NEW p \in Producers, push[p] = "idle",
         pushed' = [pushed EXCEPT ![p] = @ + 1],
         \A q \in Producers : q # p => (push'[q] # "idle" <=> push[q] # "idle")
  PROVE  /\ push'[p] = "idle" => InFlight' = InFlight
         /\ push'[p] # "idle" => InFlight' = InFlight \cup {<<p, pushed[p] + 1>>}
<1>1. pushed'[p] = pushed[p] + 1 /\ \A q \in Producers : q # p => pushed'[q] = pushed[q]
  BY DEF TypeInv, TypeOK
<1>. QED
  BY <1>1 DEF InFlight, Current

\* Steps of the queue that leave the set of returned pushes as it is.
LEMMA QuietConserves ==
  ASSUME ConservationInv, queue' = queue, written' = written, lost' = lost,
         InFlight' \cap abandoned' = {}, abandoned' \subseteq Pushed',
         Returned' = Returned
  PROVE  ConservationInv'
BY DEF ConservationInv, NoEnvelopeVanishes

\* The conservation invariant holds in every reachable state.
THEOREM ConservationInductive == Spec => []ConservationInv
<1>1. Init => ConservationInv
  <2>. SUFFICES ASSUME Init PROVE ConservationInv
    OBVIOUS
  <2>1. Pushed = {} /\ InFlight = {}
    BY DEF Init, Pushed, InFlight, Envelope
  <2>2. ToSet(queue) = {} /\ ToSet(written) = {} /\ IsInjective(queue)
    BY DEF Init, ToSet, IsInjective
  <2>. QED
    BY <2>1, <2>2 DEF Init, ConservationInv, NoEnvelopeVanishes, Returned
<1>2. TypeInv /\ ConservationInv /\ [Next]_vars => ConservationInv'
  <2>. SUFFICES ASSUME TypeInv, ConservationInv, [Next]_vars PROVE ConservationInv'
    OBVIOUS
  <2>1. ASSUME NEW p \in Producers, PushEnvelope(p) PROVE ConservationInv'
    <3>. DEFINE e == <<p, pushed[p] + 1>>
    <3>1. /\ pushed' = [pushed EXCEPT ![p] = @ + 1] /\ push[p] = "idle" /\ pushed[p] < MaxPush
          /\ written' = written /\ lost' = lost /\ abandoned' = abandoned
      BY <2>1 DEF PushEnvelope, fileVars, historyVars
    <3>2. e \in Envelope \ Pushed /\ Pushed' = Pushed \cup {e}
      BY <3>1, TakeEnvelope
    <3>. HIDE DEF e
    <3>3. push \in PushType
      BY WaitersTypes
    <3>4. e \notin InFlight \cup abandoned \cup Returned
      BY <3>2, FlightIsPushed DEF ConservationInv, Returned
    <3>5. CASE Enqueue(p, e)
      <4>1. InFlight' = InFlight
        BY <3>1, <3>3, <3>5, FlightTakesOff DEF Enqueue, PushType
      <4>2. Returned' = Returned \cup {e}
        BY <3>1, <3>2, <3>4, <4>1 DEF Returned
      <4>3. NoEnvelopeVanishes' /\ IsInjective(queue')
        BY <3>1, <3>2, <3>4, <3>5, <4>2, ArrivalConserves DEF Enqueue
      <4>. QED
        BY <3>1, <3>2, <4>1, <4>3 DEF ConservationInv
    <3>6. CASE Block(p)
      <4>1. InFlight' = InFlight \cup {e}
        BY <3>1, <3>3, <3>6, FlightTakesOff DEF Block, PushType, e
      <4>2. Returned' = Returned
        BY <3>1, <3>2, <3>4, <4>1 DEF Returned
      <4>3. InFlight' \cap abandoned' = {} /\ abandoned' \subseteq Pushed'
        BY <3>1, <3>2, <3>4, <4>1 DEF ConservationInv
      <4>. QED
        BY <3>1, <3>6, <4>2, <4>3, QuietConserves DEF Block
    <3>. QED
      BY <2>1, <3>5, <3>6 DEF PushEnvelope, e
  <2>2. ASSUME NEW p \in Producers, ResumePush(p) PROVE ConservationInv'
    <3>1. /\ pushed' = pushed /\ push[p] = "woken" /\ push \in PushType
          /\ written' = written /\ lost' = lost /\ abandoned' = abandoned
      BY <2>2, WaitersTypes DEF ResumePush, fileVars, historyVars
    <3>2. Pushed' = Pushed
      BY <3>1 DEF Pushed
    <3>3. CASE Enqueue(p, Current(p))
      <4>1. Current(p) \in InFlight /\ InFlight' = InFlight \ {Current(p)}
        BY <3>1, <3>3, FlightLands DEF Enqueue, PushType
      <4>2. Current(p) \in Envelope /\ Current(p) \notin Returned /\ Returned' = Returned \cup {Current(p)}
        BY <3>1, <3>2, <4>1, FlightIsPushed DEF Returned, ConservationInv, Pushed
      <4>3. NoEnvelopeVanishes' /\ IsInjective(queue')
        BY <3>1, <3>3, <4>2, ArrivalConserves DEF Enqueue
      <4>. QED
        BY <3>1, <3>2, <4>1, <4>3 DEF ConservationInv
    <3>4. CASE Block(p)
      <4>1. InFlight' = InFlight
        BY <3>1, <3>4, SameFlight DEF Block, PushType
      <4>. QED
        BY <3>1, <3>2, <3>4, <4>1, QuietConserves DEF Block, Returned, ConservationInv
    <3>. QED
      BY <2>2, <3>3, <3>4 DEF ResumePush
  <2>3. ASSUME NEW p \in Producers, CancelPush(p) PROVE ConservationInv'
    <3>. DEFINE others == [push EXCEPT ![p] = "idle"]
    <3>1. /\ pushed' = pushed /\ push[p] # "idle" /\ push \in PushType
          /\ queue' = queue /\ written' = written /\ lost' = lost
          /\ abandoned' = abandoned \cup {Current(p)}
      BY <2>3, WaitersTypes DEF CancelPush, fileVars
    <3>2. \A q \in Producers : push'[q] # "idle" <=> others[q] # "idle"
      <4>1. CASE push[p] = "woken" /\ WakePutter(others)
        <5>1. others \in PushType /\ \A q \in ToSet(putters) : others[q] = "waiting"
          BY <3>1, <4>1, WaitersTypes DEF TypeInv, WaitersOK, PushType
        <5>. QED
          BY <4>1, <5>1, WakeKeepsIdle
      <4>2. CASE push' = others
        BY <4>2
      <4>. QED
        BY <2>3, <4>1, <4>2 DEF CancelPush
    <3>3. Current(p) \in InFlight /\ InFlight' = InFlight \ {Current(p)}
      BY <3>1, <3>2, FlightLands DEF PushType
    <3>4. Pushed' = Pushed
      BY <3>1 DEF Pushed
    <3>5. Returned' = Returned
      BY <3>1, <3>3, <3>4 DEF Returned
    <3>6. InFlight' \cap abandoned' = {} /\ abandoned' \subseteq Pushed'
      BY <3>1, <3>3, <3>4, FlightIsPushed DEF ConservationInv
    <3>. QED
      BY <3>1, <3>5, <3>6, QuietConserves
  <2>4. CASE ConsumeEnvelope \/ WriteFails \/ NormalizeFails
    <3>1. /\ Dequeue
          /\ \/ written' = Append(written, Head(queue)) /\ lost' = lost
             \/ written' = written /\ lost' = lost \cup {Head(queue)}
      BY <2>4 DEF ConsumeEnvelope, WriteFails, NormalizeFails
    <3>2. pushed' = pushed /\ abandoned' = abandoned /\ WakePutter(push)
      BY <3>1 DEF Dequeue
    <3>3. \A q \in Producers : push'[q] # "idle" <=> push[q] # "idle"
      BY <3>2, WakeKeepsIdle, WaitersTypes DEF TypeInv, WaitersOK
    <3>4. InFlight' = InFlight /\ Pushed' = Pushed
      BY <3>2, <3>3, SameFlight DEF Pushed
    <3>5. Returned' = Returned
      BY <3>2, <3>4 DEF Returned
    <3>6. NoEnvelopeVanishes' /\ IsInjective(queue')
      BY <3>1, <3>5, DepartureConserves
    <3>. QED
      BY <3>2, <3>4, <3>6 DEF ConservationInv
  <2>5. ASSUME UNCHANGED <<queue, push, pushed, written, lost, abandoned>>
        PROVE  ConservationInv'
    <3>1. InFlight' = InFlight /\ Pushed' = Pushed
      BY <2>5 DEF InFlight, Current, Pushed
    <3>. QED
      BY <2>5, <3>1, QuietConserves DEF Returned, ConservationInv
  <2>6. \/ \E p \in Producers : PushEnvelope(p) \/ ResumePush(p) \/ CancelPush(p)
        \/ ConsumeEnvelope \/ WriteFails \/ NormalizeFails
        \/ UNCHANGED <<queue, push, pushed, written, lost, abandoned>>
    <3>. USE DEF queueVars, fileVars, historyVars
    <3>1. ASSUME NEW target \in {"CONNECTING", "ACTIVE", "FAILED"}, CallerTransition(target)
          PROVE  UNCHANGED <<queue, push, pushed, written, lost, abandoned>>
      BY <3>1 DEF CallerTransition
    <3>2. CASE StartConsumer \/ ConsumerWait \/ ConsumerExit \/ GetTimeout \/ CancelConsumer
      BY <3>2 DEF StartConsumer, ConsumerWait, ConsumerExit, GetTimeout, CancelConsumer
    <3>3. ASSUME NEW c \in Closers, Closing(c)
          PROVE  UNCHANGED <<queue, push, pushed, written, lost, abandoned>>
      BY <3>3 DEF Closing, CloseSession, CloseReturns, CloseRaises, DrainTimeout, CloseTimedOut,
         SealAndClose, Seal
    <3>4. CASE UNCHANGED vars
      BY <3>4 DEF vars
    <3>. QED
      BY <3>1, <3>2, <3>3, <3>4 DEF Next, Producing, Consuming
  <2>. QED
    BY <2>1, <2>2, <2>3, <2>4, <2>5, <2>6
<1>. QED
  BY <1>1, <1>2, TypeCorrect, PTL DEF Spec

\* No envelope whose push has returned is lost from sight, and none is in two places,
\* for every number of producers, closers, envelopes and every capacity.
THEOREM Conservation == Spec => []NoEnvelopeVanishes
<1>1. ConservationInv => NoEnvelopeVanishes
  BY DEF ConservationInv
<1>. QED
  BY <1>1, ConservationInductive, PTL

\* The types of the variables and the bound of the queue (TypeOK).
THEOREM TypesHold == Spec => []TypeOK
<1>1. TypeInv => TypeOK
  BY DEF TypeInv
<1>. QED
  BY <1>1, TypeCorrect, PTL

-----------------------------------------------------------------------------
(* Order                                                                   *)

\* An envelope is before another of its producer, and a sequence is in that order.
Before(a, b) == a[1] = b[1] => a[2] < b[2]
InOrder(s)   == \A i, j \in 1..Len(s) : i < j => Before(s[i], s[j])

\* What is written is before what is queued, and both are in order.
FifoInv ==
  /\ InOrder(written) /\ InOrder(queue)
  /\ \A a \in ToSet(written), b \in ToSet(queue) : Before(a, b)

\* A sequence stays in order when what is appended comes after all of it.
LEMMA AppendInOrder ==
  ASSUME NEW S, NEW s \in Seq(S), NEW e \in S, InOrder(s), \A x \in ToSet(s) : Before(x, e)
  PROVE  InOrder(Append(s, e))
<1>1. /\ Append(s, e) \in Seq(S) /\ Len(Append(s, e)) = Len(s) + 1
      /\ Append(s, e)[Len(s) + 1] = e
      /\ \A i \in 1..Len(s) : Append(s, e)[i] = s[i]
  BY AppendProperties
<1>2. Len(s) \in Nat /\ \A i \in 1..Len(s) : s[i] \in ToSet(s)
  BY LenProperties DEF ToSet
<1>3. \A i, j \in 1..Len(s) : i < j => Before(s[i], s[j])
  BY DEF InOrder
<1>4. ASSUME NEW i \in 1..(Len(s) + 1), NEW j \in 1..(Len(s) + 1), i < j
      PROVE  Before(Append(s, e)[i], Append(s, e)[j])
  <2>1. i \in 1..Len(s) /\ (j \in 1..Len(s) \/ j = Len(s) + 1)
    BY <1>2, <1>4
  <2>. QED
    BY <1>1, <1>2, <1>3, <1>4, <2>1
<1>. QED
  BY <1>1, <1>4 DEF InOrder

\* A sequence stays in order without its head, which comes before the rest.
LEMMA TailInOrder ==
  ASSUME NEW S, NEW s \in Seq(S), s # <<>>, InOrder(s)
  PROVE  InOrder(Tail(s)) /\ \A x \in ToSet(Tail(s)) : Before(Head(s), x)
<1>1. Len(s) \in Nat \ {0} /\ Head(s) = s[1] /\ Len(Tail(s)) = Len(s) - 1 /\ DOMAIN Tail(s) = 1..(Len(s) - 1)
  OBVIOUS
<1>2. \A i \in 1..(Len(s) - 1) : Tail(s)[i] = s[i + 1] /\ i + 1 \in 1..Len(s) /\ 1 < i + 1
  BY <1>1
<1>3. 1 \in 1..Len(s)
  BY <1>1
<1>4. InOrder(Tail(s))
  BY <1>1, <1>2 DEF InOrder
<1>5. ASSUME NEW x \in ToSet(Tail(s)) PROVE Before(Head(s), x)
  <2>1. PICK i \in 1..(Len(s) - 1) : x = Tail(s)[i]
    BY <1>1 DEF ToSet
  <2>. QED
    BY <1>1, <1>2, <1>3, <2>1 DEF InOrder
<1>. QED
  BY <1>4, <1>5

\* An envelope that arrives comes after all its producer's envelopes on record.
LEMMA ArrivalKeepsOrder ==
  ASSUME TypeInv, FifoInv, NEW e \in Envelope, \A x \in ToSet(written) \cup ToSet(queue) : Before(x, e),
         queue' = Append(queue, e), written' = written
  PROVE  FifoInv'
<1>1. queue \in Seq(Envelope)
  BY DEF TypeInv, TypeOK
<1>2. ToSet(queue') = ToSet(queue) \cup {e}
  BY <1>1, AppendSet
<1>3. InOrder(queue')
  BY <1>1, AppendInOrder DEF FifoInv
<1>. QED
  BY <1>2, <1>3 DEF FifoInv

\* The queue's head comes after what is written and before the rest of the queue.
LEMMA DepartureKeepsOrder ==
  ASSUME TypeInv, FifoInv, queue # <<>>, IsInjective(queue), queue' = Tail(queue),
         written' = Append(written, Head(queue)) \/ written' = written
  PROVE  FifoInv'
<1>1. queue \in Seq(Envelope) /\ written \in Seq(Envelope)
  BY DEF TypeInv, TypeOK
<1>2. Head(queue) \in ToSet(queue) /\ ToSet(queue') = ToSet(queue) \ {Head(queue)} /\ Head(queue) \in Envelope
  BY <1>1, TailSet
<1>3. InOrder(queue') /\ \A x \in ToSet(queue') : Before(Head(queue), x)
  BY <1>1, TailInOrder DEF FifoInv
<1>4. CASE written' = Append(written, Head(queue))
  <2>1. ToSet(written') = ToSet(written) \cup {Head(queue)}
    BY <1>1, <1>2, <1>4, AppendSet
  <2>2. InOrder(written')
    BY <1>1, <1>2, <1>4, AppendInOrder DEF FifoInv
  <2>. QED
    BY <1>2, <1>3, <2>1, <2>2 DEF FifoInv
<1>5. CASE written' = written
  BY <1>2, <1>3, <1>5 DEF FifoInv
<1>. QED
  BY <1>4, <1>5

\* The steps that move no envelope.
LEMMA StillOrMoves ==
  ASSUME [Next]_vars
  PROVE  \/ \E p \in Producers : PushEnvelope(p) \/ ResumePush(p) \/ CancelPush(p)
         \/ ConsumeEnvelope \/ WriteFails \/ NormalizeFails
         \/ UNCHANGED <<queue, push, pushed, written, lost, abandoned, counterVars>>
<1>. USE DEF queueVars, fileVars, historyVars
<1>1. ASSUME NEW target \in {"CONNECTING", "ACTIVE", "FAILED"}, CallerTransition(target)
      PROVE  UNCHANGED <<queue, push, pushed, written, lost, abandoned, counterVars>>
  BY <1>1 DEF CallerTransition
<1>2. CASE StartConsumer \/ ConsumerWait \/ ConsumerExit \/ GetTimeout \/ CancelConsumer
  BY <1>2 DEF StartConsumer, ConsumerWait, ConsumerExit, GetTimeout, CancelConsumer
<1>3. ASSUME NEW c \in Closers, Closing(c)
      PROVE  UNCHANGED <<queue, push, pushed, written, lost, abandoned, counterVars>>
  BY <1>3 DEF Closing, CloseSession, CloseReturns, CloseRaises, DrainTimeout, CloseTimedOut,
     SealAndClose, Seal
<1>4. CASE UNCHANGED vars
  BY <1>4 DEF vars
<1>. QED
  BY <1>1, <1>2, <1>3, <1>4 DEF Next, Producing, Consuming

\* The order is kept in every step.
THEOREM OrderInductive == Spec => []FifoInv
<1>1. Init => FifoInv
  <2>. SUFFICES ASSUME Init PROVE FifoInv
    OBVIOUS
  <2>1. queue = <<>> /\ written = <<>> /\ ToSet(queue) = {} /\ Len(queue) = 0
    BY DEF Init, ToSet
  <2>. QED
    BY <2>1 DEF FifoInv, InOrder
<1>2. TypeInv /\ ConservationInv /\ FifoInv /\ [Next]_vars => FifoInv'
  <2>. SUFFICES ASSUME TypeInv, ConservationInv, FifoInv, [Next]_vars PROVE FifoInv'
    OBVIOUS
  <2>0. /\ ToSet(written) \cup ToSet(queue) \subseteq Returned
        /\ pushed \in [Producers -> 0..MaxPush] /\ MaxPush \in Nat
    BY SessionAssumption DEF ConservationInv, NoEnvelopeVanishes, TypeInv, TypeOK
  <2>1. ASSUME NEW p \in Producers, PushEnvelope(p) PROVE FifoInv'
    <3>. DEFINE e == <<p, pushed[p] + 1>>
    <3>1. pushed[p] < MaxPush /\ written' = written
          /\ (queue' = Append(queue, e) \/ queue' = queue)
      BY <2>1 DEF PushEnvelope, Enqueue, Block, fileVars
    <3>2. e \in Envelope /\ e[1] = p /\ e[2] = pushed[p] + 1
      BY <2>0, <3>1 DEF Envelope
    <3>3. ASSUME NEW x \in Returned PROVE Before(x, e)
      <4>1. x \in Envelope /\ x[2] <= pushed[x[1]]
        BY DEF Returned, Pushed
      <4>2. x[2] \in Nat /\ pushed[p] \in Nat
        BY <2>0, <4>1 DEF Envelope
      <4>. QED
        BY <3>2, <4>1, <4>2 DEF Before
    <3>. HIDE DEF e
    <3>4. CASE queue' = Append(queue, e)
      BY <2>0, <3>1, <3>2, <3>3, <3>4, ArrivalKeepsOrder
    <3>5. CASE queue' = queue
      BY <3>1, <3>5 DEF FifoInv
    <3>. QED
      BY <3>1, <3>4, <3>5
  <2>2. ASSUME NEW p \in Producers, ResumePush(p) PROVE FifoInv'
    <3>. DEFINE e == Current(p)
    <3>1. push[p] = "woken" /\ written' = written /\ (queue' = Append(queue, e) \/ queue' = queue)
      BY <2>2 DEF ResumePush, Enqueue, Block, fileVars
    <3>2. e \in InFlight /\ e[1] = p /\ e[2] = pushed[p]
      BY <3>1 DEF InFlight, Current
    <3>3. e \in Envelope
      BY <3>2, FlightIsPushed DEF Pushed
    <3>4. ASSUME NEW x \in Returned PROVE Before(x, e)
      <4>1. x \in Envelope /\ x[2] <= pushed[x[1]] /\ x # e
        BY <3>2 DEF Returned, Pushed
      <4>2. PICK q \in Producers, n \in 1..MaxPush : x = <<q, n>>
        BY <4>1 DEF Envelope
      <4>3. q = p => n # pushed[p] /\ n <= pushed[p]
        BY <4>1, <4>2 DEF Current
      <4>4. n \in Nat /\ pushed[p] \in Nat
        BY <2>0
      <4>. QED
        BY <3>2, <4>2, <4>3, <4>4 DEF Before
    <3>. HIDE DEF e
    <3>5. CASE queue' = Append(queue, e)
      BY <2>0, <3>1, <3>3, <3>4, <3>5, ArrivalKeepsOrder
    <3>6. CASE queue' = queue
      BY <3>1, <3>6 DEF FifoInv
    <3>. QED
      BY <3>1, <3>5, <3>6
  <2>3. CASE ConsumeEnvelope \/ WriteFails \/ NormalizeFails
    <3>1. queue # <<>> /\ queue' = Tail(queue) /\ (written' = Append(written, Head(queue)) \/ written' = written)
      BY <2>3 DEF ConsumeEnvelope, WriteFails, NormalizeFails, Dequeue
    <3>2. IsInjective(queue)
      BY DEF ConservationInv
    <3>. QED
      BY <3>1, <3>2, DepartureKeepsOrder
  <2>4. ASSUME UNCHANGED <<queue, written>> PROVE FifoInv'
    BY <2>4 DEF FifoInv
  <2>5. ASSUME NEW p \in Producers, CancelPush(p) PROVE FifoInv'
    BY <2>4, <2>5 DEF CancelPush, fileVars
  <2>. QED
    BY <2>1, <2>2, <2>3, <2>4, <2>5, StillOrMoves
<1>. QED
  BY <1>1, <1>2, TypeCorrect, ConservationInductive, PTL DEF Spec

\* Each producer's envelopes are written, and wait to be written, in the order it pushed
\* them (FifoPerProducer), whichever pushes were blocked, woken, overtaken or cancelled.
THEOREM FifoHolds == Spec => []FifoPerProducer
<1>1. TypeInv /\ FifoInv => FifoPerProducer
  <2>. SUFFICES ASSUME TypeInv, FifoInv,
                       NEW i \in 1..Len(written \o queue), NEW j \in 1..Len(written \o queue), i < j
                PROVE  Before((written \o queue)[i], (written \o queue)[j])
    BY DEF FifoPerProducer, Before
  <2>1. /\ written \in Seq(Envelope) /\ queue \in Seq(Envelope)
        /\ Len(written) \in Nat /\ Len(queue) \in Nat
        /\ DOMAIN written = 1..Len(written) /\ DOMAIN queue = 1..Len(queue)
    BY LenProperties DEF TypeInv, TypeOK
  <2>2. /\ Len(written \o queue) = Len(written) + Len(queue)
        /\ \A k \in 1..(Len(written) + Len(queue)) :
             (written \o queue)[k] = IF k <= Len(written) THEN written[k] ELSE queue[k - Len(written)]
    BY <2>1, ConcatProperties
  <2>3. CASE j <= Len(written)
    BY <2>1, <2>2, <2>3 DEF FifoInv, InOrder
  <2>4. CASE i <= Len(written) /\ j > Len(written)
    <3>1. (written \o queue)[i] = written[i] /\ (written \o queue)[j] = queue[j - Len(written)]
          /\ i \in DOMAIN written /\ j - Len(written) \in DOMAIN queue
      BY <2>1, <2>2, <2>4
    <3>. QED
      BY <3>1 DEF FifoInv, ToSet
  <2>5. CASE i > Len(written)
    <3>1. /\ (written \o queue)[i] = queue[i - Len(written)] /\ (written \o queue)[j] = queue[j - Len(written)]
          /\ i - Len(written) \in 1..Len(queue) /\ j - Len(written) \in 1..Len(queue)
          /\ i - Len(written) < j - Len(written)
      BY <2>1, <2>2, <2>5
    <3>. QED
      BY <3>1 DEF FifoInv, InOrder
  <2>. QED
    BY <2>1, <2>2, <2>3, <2>4, <2>5
<1>. QED
  BY <1>1, TypeCorrect, OrderInductive, PTL

-----------------------------------------------------------------------------
(* Counters                                                                *)

\* The counters are exact, over sets that are finite however many producers there are.
CountInv ==
  /\ CountersAudit
  /\ IsFiniteSet(InFlight \cup abandoned) /\ IsFiniteSet(lost)

\* The difference between two sets' sizes when one element comes or goes.
LEMMA SizesOf ==
  ASSUME NEW S, IsFiniteSet(S), NEW x
  PROVE  /\ Cardinality(S) \in Nat /\ IsFiniteSet(S \cup {x}) /\ IsFiniteSet(S \ {x})
         /\ x \notin S => Cardinality(S \cup {x}) = Cardinality(S) + 1
         /\ x \in S => Cardinality(S) = Cardinality(S \ {x}) + 1
<1>1. Cardinality(S) \in Nat /\ IsFiniteSet(S \cup {x}) /\ (x \notin S => Cardinality(S \cup {x}) = Cardinality(S) + 1)
  BY FS_CardinalityType, FS_AddElement
<1>2. IsFiniteSet(S \ {x}) /\ Cardinality(S \ {x}) \in Nat
  BY FS_RemoveElement, FS_CardinalityType
<1>3. x \in S => Cardinality(S \ {x}) = Cardinality(S) - 1
  BY FS_RemoveElement
<1>. QED
  BY <1>1, <1>2, <1>3

\* The envelopes taken from a producer that did not enter the queue.
Missing == InFlight \cup abandoned

\* A push moves both sides of the counters' balance alike: it enters the queue, it comes
\* to wait for room, or it leaves the waiters for the queue.
LEMMA CountersFollow ==
  ASSUME TypeInv, CountInv, UNCHANGED <<written, lost, dequeued>>, IsFiniteSet(Missing'),
         \/ /\ Cardinality(Missing') = Cardinality(Missing)
            /\ received' = received + 1 /\ enqueued' = enqueued + 1 /\ Len(queue') = Len(queue) + 1
         \/ /\ Cardinality(Missing') = Cardinality(Missing) + 1
            /\ received' = received + 1 /\ enqueued' = enqueued /\ Len(queue') = Len(queue)
         \/ /\ Cardinality(Missing) = Cardinality(Missing') + 1
            /\ received' = received /\ enqueued' = enqueued + 1 /\ Len(queue') = Len(queue) + 1
  PROVE  CountInv'
<1>1. /\ IsFiniteSet(Missing) /\ received = enqueued + Cardinality(Missing)
      /\ enqueued = dequeued + Len(queue) /\ dequeued = Len(written) + Cardinality(lost)
      /\ IsFiniteSet(lost)
  BY DEF CountInv, CountersAudit, Missing
<1>2. /\ Cardinality(Missing) \in Nat /\ Cardinality(Missing') \in Nat
      /\ Len(queue) \in Nat /\ enqueued \in Nat /\ received \in Nat /\ dequeued \in Nat
  BY <1>1, FS_CardinalityType DEF TypeInv, TypeOK
<1>. DEFINE size    == Cardinality(Missing)
            newSize == Cardinality(Missing')
<1>3. received' = enqueued' + newSize /\ enqueued' = dequeued' + Len(queue')
  <2>1. /\ received = enqueued + size /\ enqueued = dequeued + Len(queue)
        /\ size \in Nat /\ newSize \in Nat /\ dequeued' = dequeued
    BY <1>1, <1>2
  <2>2. \/ /\ newSize = size /\ received' = received + 1 /\ enqueued' = enqueued + 1
           /\ Len(queue') = Len(queue) + 1
        \/ /\ newSize = size + 1 /\ received' = received + 1 /\ enqueued' = enqueued
           /\ Len(queue') = Len(queue)
        \/ /\ size = newSize + 1 /\ received' = received /\ enqueued' = enqueued + 1
           /\ Len(queue') = Len(queue) + 1
    OBVIOUS
  <2>. DEFINE waiting == Len(queue)
              newLen  == Len(queue')
  <2>3. /\ received = enqueued + size /\ enqueued = dequeued + waiting /\ dequeued' = dequeued
        /\ waiting \in Nat /\ size \in Nat /\ newSize \in Nat
        /\ enqueued \in Nat /\ received \in Nat /\ dequeued \in Nat
    BY <1>2, <2>1
  <2>4. \/ newSize = size /\ received' = received + 1 /\ enqueued' = enqueued + 1 /\ newLen = waiting + 1
        \/ newSize = size + 1 /\ received' = received + 1 /\ enqueued' = enqueued /\ newLen = waiting
        \/ size = newSize + 1 /\ received' = received /\ enqueued' = enqueued + 1 /\ newLen = waiting + 1
    BY <2>2
  <2>5. received' = enqueued' + newSize /\ enqueued' = dequeued' + newLen
    <3>. HIDE DEF size, newSize, waiting, newLen
    <3>1. CASE newSize = size /\ received' = received + 1 /\ enqueued' = enqueued + 1 /\ newLen = waiting + 1
      BY <2>3, <3>1
    <3>2. CASE newSize = size + 1 /\ received' = received + 1 /\ enqueued' = enqueued /\ newLen = waiting
      BY <2>3, <3>2
    <3>3. CASE size = newSize + 1 /\ received' = received /\ enqueued' = enqueued + 1 /\ newLen = waiting + 1
      BY <2>3, <3>3
    <3>. QED
      BY <2>4, <3>1, <3>2, <3>3
  <2>. QED
    BY <2>5
<1>4. dequeued' = Len(written') + Cardinality(lost') /\ IsFiniteSet(lost')
  BY <1>1
<1>5. (CountersAudit /\ IsFiniteSet(Missing) /\ IsFiniteSet(lost))'
  BY <1>3, <1>4 DEF CountersAudit, Missing
<1>. QED
  BY <1>5 DEF CountInv, Missing

\* The counters are exact in every state.
THEOREM CountersInductive == Spec => []CountInv
<1>1. Init => CountInv
  <2>. SUFFICES ASSUME Init PROVE CountInv
    OBVIOUS
  <2>1. InFlight = {} /\ abandoned = {} /\ lost = {}
    BY DEF Init, InFlight
  <2>2. Len(queue) = 0 /\ Len(written) = 0 /\ received = 0 /\ enqueued = 0 /\ dequeued = 0
    BY DEF Init
  <2>. QED
    BY <2>1, <2>2, FS_EmptySet DEF CountInv, CountersAudit
<1>2. TypeInv /\ ConservationInv /\ CountInv /\ [Next]_vars => CountInv'
  <2>. SUFFICES ASSUME TypeInv, ConservationInv, CountInv, [Next]_vars PROVE CountInv'
    OBVIOUS
  <2>. DEFINE gone == InFlight \cup abandoned
  <2>0. /\ queue \in Seq(Envelope) /\ written \in Seq(Envelope) /\ Len(queue) \in Nat /\ Len(written) \in Nat
        /\ received \in Nat /\ enqueued \in Nat /\ dequeued \in Nat
        /\ IsFiniteSet(gone) /\ IsFiniteSet(lost) /\ Cardinality(gone) \in Nat /\ Cardinality(lost) \in Nat
        /\ received = enqueued + Cardinality(gone) /\ enqueued = dequeued + Len(queue)
        /\ dequeued = Len(written) + Cardinality(lost)
    BY FS_CardinalityType DEF TypeInv, TypeOK, CountInv, CountersAudit
  <2>1. ASSUME NEW p \in Producers, PushEnvelope(p) PROVE CountInv'
    <3>. DEFINE e == <<p, pushed[p] + 1>>
    <3>1. /\ pushed' = [pushed EXCEPT ![p] = @ + 1] /\ push[p] = "idle" /\ pushed[p] < MaxPush
          /\ UNCHANGED <<written, lost, abandoned, dequeued>> /\ received' = received + 1
      BY <2>1 DEF PushEnvelope, fileVars, historyVars
    <3>2. e \in Envelope \ Pushed
      BY <3>1, TakeEnvelope
    <3>. HIDE DEF e
    <3>3. push \in PushType
      BY WaitersTypes
    <3>4. e \notin gone
      BY <3>2, FlightIsPushed DEF ConservationInv
    <3>5. CASE Enqueue(p, e)
      <4>1. InFlight' = InFlight
        BY <3>1, <3>3, <3>5, FlightTakesOff DEF Enqueue, PushType
      <4>2. Len(queue') = Len(queue) + 1 /\ enqueued' = enqueued + 1
        BY <2>0, <3>2, <3>5, AppendProperties DEF Enqueue
      <4>3. Missing' = gone /\ Missing = gone
        BY <3>1, <4>1 DEF Missing
      <4>. HIDE DEF gone
      <4>. QED
        BY <2>0, <3>1, <4>2, <4>3, CountersFollow
    <3>6. CASE Block(p)
      <4>1. InFlight' = InFlight \cup {e}
        BY <3>1, <3>3, <3>6, FlightTakesOff DEF Block, PushType, e
      <4>2. (InFlight \cup abandoned)' = gone \cup {e} /\ queue' = queue /\ enqueued' = enqueued
        BY <3>1, <3>6, <4>1 DEF Block
      <4>3. Cardinality(gone \cup {e}) = Cardinality(gone) + 1 /\ IsFiniteSet(gone \cup {e})
        BY <2>0, <3>4, SizesOf
      <4>. DEFINE more == gone \cup {e}
      <4>4. Missing' = more /\ Missing = gone
        BY <4>2 DEF Missing
      <4>5. Cardinality(more) = Cardinality(gone) + 1 /\ IsFiniteSet(more)
        BY <4>3
      <4>. HIDE DEF gone, more
      <4>. QED
        BY <3>1, <4>2, <4>4, <4>5, CountersFollow
    <3>. QED
      BY <2>1, <3>5, <3>6 DEF PushEnvelope, e
  <2>2. ASSUME NEW p \in Producers, ResumePush(p) PROVE CountInv'
    <3>1. /\ pushed' = pushed /\ push[p] = "woken" /\ push \in PushType
          /\ UNCHANGED <<written, lost, abandoned, received, dequeued>>
      BY <2>2, WaitersTypes DEF ResumePush, fileVars, historyVars
    <3>2. CASE Enqueue(p, Current(p))
      <4>1. Current(p) \in InFlight /\ InFlight' = InFlight \ {Current(p)}
        BY <3>1, <3>2, FlightLands DEF Enqueue, PushType
      <4>2. Current(p) \in gone /\ Current(p) \in Envelope /\ (InFlight \cup abandoned)' = gone \ {Current(p)}
        BY <3>1, <4>1, FlightIsPushed DEF ConservationInv, Pushed
      <4>3. Cardinality(gone) = Cardinality(gone \ {Current(p)}) + 1 /\ IsFiniteSet(gone \ {Current(p)})
            /\ Cardinality(gone \ {Current(p)}) \in Nat
        BY <2>0, <4>2, SizesOf, FS_CardinalityType
      <4>4. Len(queue') = Len(queue) + 1 /\ enqueued' = enqueued + 1
        BY <2>0, <3>2, <4>2, AppendProperties DEF Enqueue
      <4>. DEFINE rest == gone \ {Current(p)}
      <4>5. Missing' = rest /\ Missing = gone
        BY <4>2 DEF Missing
      <4>6. Cardinality(gone) = Cardinality(rest) + 1 /\ IsFiniteSet(rest)
        BY <4>3
      <4>. HIDE DEF gone, rest
      <4>. QED
        BY <3>1, <4>4, <4>5, <4>6, CountersFollow
    <3>3. CASE Block(p)
      <4>1. InFlight' = InFlight /\ queue' = queue /\ enqueued' = enqueued
        BY <3>1, <3>3, SameFlight DEF Block, PushType
      <4>. QED
        BY <2>0, <3>1, <4>1 DEF CountInv, CountersAudit
    <3>. QED
      BY <2>2, <3>2, <3>3 DEF ResumePush
  <2>3. ASSUME NEW p \in Producers, CancelPush(p) PROVE CountInv'
    <3>. DEFINE others == [push EXCEPT ![p] = "idle"]
    <3>1. /\ pushed' = pushed /\ push[p] # "idle" /\ push \in PushType
          /\ UNCHANGED <<queue, written, lost, received, enqueued, dequeued>>
          /\ abandoned' = abandoned \cup {Current(p)}
      BY <2>3, WaitersTypes DEF CancelPush, fileVars, counterVars
    <3>2. \A q \in Producers : push'[q] # "idle" <=> others[q] # "idle"
      <4>1. CASE push[p] = "woken" /\ WakePutter(others)
        <5>1. others \in PushType /\ \A q \in ToSet(putters) : others[q] = "waiting"
          BY <3>1, <4>1, WaitersTypes DEF TypeInv, WaitersOK, PushType
        <5>. QED
          BY <4>1, <5>1, WakeKeepsIdle
      <4>2. CASE push' = others
        BY <4>2
      <4>. QED
        BY <2>3, <4>1, <4>2 DEF CancelPush
    <3>3. Current(p) \in InFlight /\ InFlight' = InFlight \ {Current(p)}
      BY <3>1, <3>2, FlightLands DEF PushType
    <3>4. (InFlight \cup abandoned)' = gone
      BY <3>1, <3>3
    <3>. QED
      BY <2>0, <3>1, <3>4 DEF CountInv, CountersAudit
  <2>4. CASE ConsumeEnvelope \/ WriteFails \/ NormalizeFails
    <3>1. /\ Dequeue
          /\ \/ written' = Append(written, Head(queue)) /\ lost' = lost
             \/ written' = written /\ lost' = lost \cup {Head(queue)}
      BY <2>4 DEF ConsumeEnvelope, WriteFails, NormalizeFails
    <3>2. /\ UNCHANGED <<pushed, abandoned, received, enqueued>> /\ WakePutter(push) /\ queue # <<>>
          /\ queue' = Tail(queue) /\ dequeued' = dequeued + 1
      BY <3>1 DEF Dequeue
    <3>3. \A q \in Producers : push'[q] # "idle" <=> push[q] # "idle"
      BY <3>2, WakeKeepsIdle, WaitersTypes DEF TypeInv, WaitersOK
    <3>4. InFlight' = InFlight
      BY <3>2, <3>3, SameFlight
    <3>5. Len(queue') = Len(queue) - 1 /\ Head(queue) \in Envelope
      <4>1. queue \in Seq(Envelope) /\ queue # <<>> /\ queue' = Tail(queue)
        BY <2>0, <3>2
      <4>. QED
        BY <4>1, HeadTailProperties
    <3>6. Head(queue) \notin lost
      <4>1. Head(queue) \in ToSet(queue)
        BY <2>0, <3>2, TailSet DEF ConservationInv
      <4>. QED
        BY <4>1 DEF ConservationInv, NoEnvelopeVanishes
    <3>7. /\ IsFiniteSet(lost')
          /\ dequeued' = Len(written') + Cardinality(lost')
      <4>1. CASE written' = Append(written, Head(queue)) /\ lost' = lost
        <5>1. Len(written') = Len(written) + 1
          <6>1. written \in Seq(Envelope) /\ Head(queue) \in Envelope
            BY <2>0, <3>5
          <6>2. Len(Append(written, Head(queue))) = Len(written) + 1
            BY <6>1, AppendProperties
          <6>. QED
            BY <4>1, <6>2
        <5>2. dequeued = Len(written) + Cardinality(lost) /\ Len(written) \in Nat /\ Cardinality(lost) \in Nat
          BY <2>0
        <5>3. dequeued' = dequeued + 1 /\ lost' = lost /\ IsFiniteSet(lost)
          BY <2>0, <3>2, <4>1
        <5>4. dequeued' = Len(written') + Cardinality(lost)
          BY <5>1, <5>2, <5>3
        <5>. QED
          BY <5>3, <5>4
      <4>2. CASE written' = written /\ lost' = lost \cup {Head(queue)}
        <5>1. IsFiniteSet(lost') /\ Cardinality(lost') = Cardinality(lost) + 1
          BY <2>0, <3>6, <4>2, SizesOf
        <5>. QED
          BY <2>0, <3>2, <4>2, <5>1
      <4>. QED
        BY <3>1, <4>1, <4>2
    <3>. QED
      BY <2>0, <3>2, <3>4, <3>5, <3>7 DEF CountInv, CountersAudit
  <2>5. ASSUME UNCHANGED <<queue, push, pushed, written, lost, abandoned, counterVars>>
        PROVE  CountInv'
    <3>1. InFlight' = InFlight
      BY <2>5 DEF InFlight, Current
    <3>. QED
      BY <2>0, <2>5, <3>1 DEF CountInv, CountersAudit, counterVars
  <2>. QED
    BY <2>1, <2>2, <2>3, <2>4, <2>5, StillOrMoves
<1>. QED
  BY <1>1, <1>2, TypeCorrect, ConservationInductive, PTL DEF Spec

\* The counters of a session account for every envelope (CountersAudit): their differences
\* are the pushes that did not enter the queue, the queue's length and the failed writes.
THEOREM CountersExact == Spec => []CountersAudit
<1>1. CountInv => CountersAudit
  BY DEF CountInv
<1>. QED
  BY <1>1, CountersInductive, PTL

-----------------------------------------------------------------------------
(* The close protocol                                                      *)

OnRecord == ToSet(written) \cup ToSet(queue) \cup lost

\* A requested stop is seen in the state, the consumer ends well only after one, and
\* a closer told so can rely on it.
StopIsSeen ==
  /\ stop => state \in {"DRAINING", "CLOSED", "FAILED"}
  /\ consumer = "done" => stop
  /\ \A c \in Closers : close[c] # "idle" => stop
  /\ \A c \in Closers : close[c] = "done" => consumer = "done"

\* What was owed when draining began is on record, and no longer queued once the
\* consumer has ended well.
OwedIsOnRecord ==
  /\ owed \subseteq OnRecord
  /\ consumer = "done" => owed \cap ToSet(queue) = {}

\* The inductive invariant behind the three close properties.
CloseInv ==
  /\ ~handle => sealed = Len(written)
  /\ ~early => /\ StopIsSeen
               /\ OwedIsOnRecord
               /\ lost # {} => state = "FAILED"
               /\ state = "CLOSED" => ~handle /\ consumer \in {"none", "done"}

\* What a put changes for the close protocol: at most one new envelope in the queue,
\* one that was not on record, and a consumer woken from its wait.
LEMMA ArrivalKeepsClose ==
  ASSUME TypeInv, CloseInv, UNCHANGED <<state, stop, close, fileVars, lost, owed, early>>,
         consumer' = consumer \/ (consumer = "getting" /\ consumer' = "woken"),
         queue' = queue \/ \E e \in Envelope \ OnRecord : queue' = Append(queue, e)
  PROVE  CloseInv'
<1>1. /\ consumer' = "done" <=> consumer = "done"
      /\ consumer \in {"none", "done"} => consumer' \in {"none", "done"}
  OBVIOUS
<1>2. queue \in Seq(Envelope)
  BY DEF TypeInv, TypeOK
<1>3. \/ ToSet(queue') = ToSet(queue)
      \/ \E e \in Envelope \ OnRecord : ToSet(queue') = ToSet(queue) \cup {e}
  <2>1. CASE queue' = queue
    BY <2>1
  <2>2. ASSUME NEW e \in Envelope \ OnRecord, queue' = Append(queue, e)
        PROVE  ToSet(queue') = ToSet(queue) \cup {e}
    BY <1>2, <2>2, AppendSet
  <2>. QED
    BY <2>1, <2>2
<1>4. OwedIsOnRecord => OwedIsOnRecord'
  BY <1>1, <1>3 DEF OwedIsOnRecord, OnRecord, fileVars
<1>5. StopIsSeen => StopIsSeen'
  BY <1>1 DEF StopIsSeen
<1>. QED
  BY <1>1, <1>4, <1>5 DEF CloseInv, fileVars

\* A dequeued envelope stays on record.
LEMMA DequeueKeepsRecord ==
  ASSUME TypeInv, ConservationInv, Dequeue,
         \/ written' = Append(written, Head(queue)) /\ lost' = lost
         \/ written' = written /\ lost' = lost \cup {Head(queue)}
  PROVE  OnRecord' = OnRecord /\ ToSet(queue') \subseteq ToSet(queue)
<1>1. queue \in Seq(Envelope) /\ queue # <<>> /\ IsInjective(queue) /\ queue' = Tail(queue)
  BY DEF TypeInv, TypeOK, ConservationInv, Dequeue
<1>2. Head(queue) \in ToSet(queue) /\ ToSet(queue') = ToSet(queue) \ {Head(queue)}
  BY <1>1, TailSet
<1>3. ToSet(Append(written, Head(queue))) = ToSet(written) \cup {Head(queue)}
  BY DequeueTypes, AppendSet DEF TypeInv, TypeOK
<1>. QED
  BY <1>2, <1>3 DEF OnRecord

\* Sealing leaves nothing unsealed, and moves no envelope.
LEMMA SealSeals ==
  ASSUME TypeInv, CloseInv, Seal, UNCHANGED <<queue, lost>>
  PROVE  ~handle' /\ sealed' = Len(written') /\ OnRecord' = OnRecord
<1>1. written' = written /\ handle' = FALSE /\ handle \in BOOLEAN
  BY DEF Seal, TypeInv, TypeOK
<1>2. sealed' = Len(written)
  BY <1>1 DEF Seal, CloseInv
<1>. QED
  BY <1>1, <1>2 DEF OnRecord

\* The close protocol's invariant holds in every reachable state.
THEOREM CloseInductive == Spec => []CloseInv
<1>1. Init => CloseInv
  <2>. SUFFICES ASSUME Init PROVE CloseInv
    OBVIOUS
  <2>1. ToSet(queue) = {} /\ Len(written) = 0
    BY DEF Init, ToSet
  <2>. QED
    BY <2>1 DEF Init, CloseInv, StopIsSeen, OwedIsOnRecord
<1>2. TypeInv /\ ConservationInv /\ CloseInv /\ [Next]_vars => CloseInv'
  <2>. SUFFICES ASSUME TypeInv, ConservationInv, CloseInv, [Next]_vars PROVE CloseInv'
    OBVIOUS
  <2>0. OnRecord = Returned
    BY DEF ConservationInv, NoEnvelopeVanishes, OnRecord
  <2>1. ASSUME NEW p \in Producers, PushEnvelope(p) PROVE CloseInv'
    <3>1. /\ pushed[p] < MaxPush /\ pushed' = [pushed EXCEPT ![p] = @ + 1]
          /\ UNCHANGED <<state, stop, close, fileVars, lost, owed, early>>
      BY <2>1 DEF PushEnvelope, historyVars
    <3>2. <<p, pushed[p] + 1>> \in Envelope \ OnRecord
      BY <2>0, <3>1, TakeEnvelope DEF Returned
    <3>3. /\ consumer' = consumer \/ (consumer = "getting" /\ consumer' = "woken")
          /\ queue' = queue \/ queue' = Append(queue, <<p, pushed[p] + 1>>)
      BY <2>1 DEF PushEnvelope, Enqueue, Block
    <3>. QED
      BY <3>1, <3>2, <3>3, ArrivalKeepsClose
  <2>2. ASSUME NEW p \in Producers, ResumePush(p) PROVE CloseInv'
    <3>1. UNCHANGED <<state, stop, close, fileVars, lost, owed, early>> /\ push[p] = "woken"
      BY <2>2 DEF ResumePush, historyVars
    <3>2. Current(p) \in Envelope \ OnRecord
      BY <2>0, <3>1, FlightIsPushed DEF Returned, InFlight, Pushed
    <3>3. /\ consumer' = consumer \/ (consumer = "getting" /\ consumer' = "woken")
          /\ queue' = queue \/ queue' = Append(queue, Current(p))
      BY <2>2 DEF ResumePush, Enqueue, Block
    <3>. QED
      BY <3>1, <3>2, <3>3, ArrivalKeepsClose
  <2>3. ASSUME NEW p \in Producers, CancelPush(p) PROVE CloseInv'
    BY <2>3, ArrivalKeepsClose DEF CancelPush
  <2>4. CASE ConsumeEnvelope
    <3>1. OnRecord' = OnRecord /\ ToSet(queue') \subseteq ToSet(queue)
      BY <2>4, DequeueKeepsRecord DEF ConsumeEnvelope
    <3>2. /\ UNCHANGED <<state, stop, close, lost, owed, early>> /\ handle' = TRUE
          /\ consumer \notin {"none", "done"} /\ consumer' = "running"
      BY <2>4 DEF ConsumeEnvelope, Dequeue
    <3>. QED
      BY <3>1, <3>2 DEF CloseInv, StopIsSeen, OwedIsOnRecord
  <2>5. CASE WriteFails \/ NormalizeFails
    <3>1. OnRecord' = OnRecord /\ ToSet(queue') \subseteq ToSet(queue)
      BY <2>5, DequeueKeepsRecord DEF WriteFails, NormalizeFails
    <3>2. /\ UNCHANGED <<stop, sealed, owed, early>> /\ consumer \notin {"none", "done"}
          /\ handle' = TRUE \/ (handle' = handle /\ written' = written)
          /\ MarkFailed /\ FinishConsumer("failed")
      BY <2>5 DEF WriteFails, NormalizeFails, Dequeue
    <3>3. ~early => state # "CLOSED"
      BY <3>2 DEF CloseInv
    <3>4. ~early => state' = "FAILED"
      BY <3>2, <3>3 DEF MarkFailed, ValidTransitions, States, TypeInv, TypeOK
    <3>5. /\ consumer' = "failed"
          /\ \A c \in Closers : /\ close'[c] # "idle" => close[c] # "idle"
                                /\ close'[c] = "done" => close[c] = "done"
      BY <3>2 DEF FinishConsumer, TypeInv, TypeOK
    <3>6. ~early => StopIsSeen'
      BY <3>2, <3>4, <3>5 DEF CloseInv, StopIsSeen
    <3>. QED
      BY <3>1, <3>2, <3>4, <3>5, <3>6 DEF CloseInv, OwedIsOnRecord
  <2>6. CASE ConsumerExit
    <3>1. /\ UNCHANGED <<state, stop, queue, fileVars, lost, owed, early>>
          /\ queue = <<>> /\ stop /\ FinishConsumer("done")
      BY <2>6 DEF ConsumerExit, queueVars, historyVars
    <3>2. ToSet(queue) = {} /\ OnRecord' = OnRecord
      BY <3>1 DEF ToSet, OnRecord, fileVars
    <3>3. /\ consumer' = "done"
          /\ \A c \in Closers : close'[c] # "idle" => close[c] # "idle"
      BY <3>1 DEF FinishConsumer, TypeInv, TypeOK
    <3>. QED
      BY <3>1, <3>2, <3>3 DEF CloseInv, StopIsSeen, OwedIsOnRecord, fileVars
  <2>7. CASE StartConsumer \/ ConsumerWait \/ GetTimeout \/ CancelConsumer
    <3>1. /\ UNCHANGED <<state, stop, queue, fileVars, lost, owed, early>>
          /\ consumer' \notin {"none", "done"}
          /\ state \in {"CREATED", "CONNECTING", "ACTIVE"} \/ consumer \in LiveConsumer
      BY <2>7 DEF StartConsumer, ConsumerWait, GetTimeout, CancelConsumer, FinishConsumer,
         LiveConsumer, queueVars, historyVars
    <3>2. \A c \in Closers : /\ close'[c] # "idle" => close[c] # "idle"
                             /\ close'[c] = "done" => close[c] = "done"
      BY <2>7 DEF StartConsumer, ConsumerWait, GetTimeout, CancelConsumer, FinishConsumer,
         TypeInv, TypeOK
    <3>3. OnRecord' = OnRecord
      BY <3>1 DEF OnRecord, fileVars
    <3>4. ~early => (\A c \in Closers : close[c] # "done") /\ state # "CLOSED"
      BY <3>1 DEF CloseInv, StopIsSeen, LiveConsumer
    <3>. QED
      BY <3>1, <3>2, <3>3, <3>4 DEF CloseInv, StopIsSeen, OwedIsOnRecord, fileVars
  <2>8. ASSUME NEW target \in {"CONNECTING", "ACTIVE", "FAILED"}, CallerTransition(target)
        PROVE  CloseInv'
    <3>1. /\ UNCHANGED <<stop, consumer, close, queue, fileVars, lost, owed, early>>
          /\ state' = target /\ target \in ValidTransitions[state] /\ state \in States
      BY <2>8 DEF CallerTransition, TransitionTo, queueVars, historyVars, TypeInv, TypeOK
    <3>2. state \in {"DRAINING", "CLOSED", "FAILED"} => state' = "FAILED" /\ state = "DRAINING"
      BY <3>1 DEF ValidTransitions, States
    <3>3. OnRecord' = OnRecord
      BY <3>1 DEF OnRecord, fileVars
    <3>4. StopIsSeen => StopIsSeen'
      BY <3>1, <3>2 DEF StopIsSeen
    <3>. QED
      BY <3>1, <3>2, <3>3, <3>4 DEF CloseInv, OwedIsOnRecord, fileVars
  <2>9. ASSUME NEW c \in Closers, CloseSession(c) PROVE CloseInv'
    <3>. DEFINE next == IF state = "ACTIVE" THEN "DRAINING" ELSE state
    <3>1. /\ stop' = TRUE /\ owed' = IF state = "ACTIVE" THEN Returned ELSE owed
          /\ early' = (early \/ state \in {"CREATED", "CONNECTING"})
          /\ UNCHANGED <<queue, consumer, lost>>
      BY <2>9 DEF CloseSession, queueVars
    <3>2. /\ OnRecord' = OnRecord
          /\ ~handle' => sealed' = Len(written')
      <4>1. CASE Seal
        BY <3>1, <4>1, SealSeals
      <4>2. CASE UNCHANGED fileVars
        BY <3>1, <4>2 DEF OnRecord, fileVars, CloseInv
      <4>. QED
        BY <2>9, <4>1, <4>2 DEF CloseSession, SealAndClose
    <3>3. \A d \in Closers : close'[d] = "done" => close[d] = "done"
      BY <2>9 DEF CloseSession, SealAndClose, TypeInv, TypeOK
    <3>. SUFFICES ASSUME ~early' PROVE /\ StopIsSeen' /\ OwedIsOnRecord'
                                       /\ lost' # {} => state' = "FAILED"
                                       /\ state' = "CLOSED" => ~handle' /\ consumer' \in {"none", "done"}
      BY <3>2 DEF CloseInv
    <3>4. ~early /\ state \in {"ACTIVE", "DRAINING", "CLOSED", "FAILED"}
      BY <3>1 DEF TypeInv, TypeOK, States
    <3>5. \/ Seal /\ consumer \in {"none", "done"} /\ state' = IF next = "DRAINING" THEN "CLOSED" ELSE next
          \/ UNCHANGED fileVars /\ consumer \notin {"none", "done"} /\ state' = next
      BY <2>9, <3>4 DEF CloseSession, SealAndClose
    <3>6. StopIsSeen'
      BY <3>1, <3>3, <3>4, <3>5 DEF CloseInv, StopIsSeen
    <3>7. OwedIsOnRecord'
      BY <2>0, <3>1, <3>2, <3>4 DEF CloseInv, StopIsSeen, OwedIsOnRecord
    <3>8. lost' # {} => state' = "FAILED"
      BY <3>1, <3>4, <3>5 DEF CloseInv
    <3>9. state' = "CLOSED" => ~handle' /\ consumer' \in {"none", "done"}
      BY <3>1, <3>4, <3>5 DEF CloseInv, Seal
    <3>. QED
      BY <3>6, <3>7, <3>8, <3>9
  <2>10. ASSUME NEW c \in Closers, CloseReturns(c) PROVE CloseInv'
    <3>1. /\ UNCHANGED <<stop, queue, consumer, lost, owed, early>> /\ Seal /\ close[c] = "done"
          /\ state' = IF state = "DRAINING" THEN "CLOSED" ELSE state
          /\ close' = [close EXCEPT ![c] = "returned"]
      BY <2>10 DEF CloseReturns, SealAndClose, queueVars, historyVars
    <3>2. ~handle' /\ sealed' = Len(written') /\ OnRecord' = OnRecord
      BY <3>1, SealSeals
    <3>3. StopIsSeen => StopIsSeen'
      BY <3>1 DEF StopIsSeen, TypeInv, TypeOK
    <3>. QED
      BY <3>1, <3>2, <3>3 DEF CloseInv, StopIsSeen, OwedIsOnRecord
  <2>11. ASSUME NEW c \in Closers, CloseRaises(c) \/ DrainTimeout(c) PROVE CloseInv'
    <3>1. /\ UNCHANGED <<state, stop, queue, fileVars, lost, owed, early>>
          /\ consumer' = consumer \/ (consumer \in LiveConsumer /\ consumer' = "cancelled")
      BY <2>11 DEF CloseRaises, DrainTimeout, queueVars, historyVars
    <3>2. \A d \in Closers : /\ close'[d] # "idle" => close[d] # "idle"
                             /\ close'[d] = "done" => close[d] = "done"
      BY <2>11 DEF CloseRaises, DrainTimeout, Finished, TypeInv, TypeOK
    <3>3. OnRecord' = OnRecord
      BY <3>1 DEF OnRecord, fileVars
    <3>. QED
      BY <3>1, <3>2, <3>3 DEF CloseInv, StopIsSeen, OwedIsOnRecord, LiveConsumer, fileVars
  <2>12. ASSUME NEW c \in Closers, CloseTimedOut(c) PROVE CloseInv'
    <3>1. /\ UNCHANGED <<stop, queue, consumer, lost, owed, early>> /\ close[c] = "timedout"
          /\ \/ Seal /\ state' = "FAILED"
             \/ UNCHANGED <<state, fileVars>>
          /\ \A d \in Closers : /\ close'[d] # "idle" => close[d] # "idle"
                                /\ close'[d] = "done" => close[d] = "done"
      BY <2>12 DEF CloseTimedOut, TransitionTo, queueVars, historyVars, TypeInv, TypeOK
    <3>2. /\ OnRecord' = OnRecord
          /\ ~handle' => sealed' = Len(written')
      <4>1. CASE Seal
        BY <3>1, <4>1, SealSeals
      <4>2. CASE UNCHANGED fileVars
        BY <3>1, <4>2 DEF OnRecord, fileVars, CloseInv
      <4>. QED
        BY <3>1, <4>1, <4>2
    <3>3. StopIsSeen => StopIsSeen'
      BY <3>1 DEF StopIsSeen
    <3>. QED
      BY <3>1, <3>2, <3>3 DEF CloseInv, OwedIsOnRecord, fileVars
  <2>13. CASE UNCHANGED vars
    BY <2>13 DEF vars, queueVars, fileVars, historyVars, CloseInv, StopIsSeen, OwedIsOnRecord, OnRecord
  <2>. QED
    BY <2>1, <2>2, <2>3, <2>4, <2>5, <2>6, <2>7, <2>8, <2>9, <2>10, <2>11, <2>12, <2>13
       DEF Next, Producing, Consuming, Closing
<1>. QED
  BY <1>1, <1>2, TypeCorrect, ConservationInductive, PTL DEF Spec

\* A failed write is always reported as FAILED, however the close and the failure
\* interleave, for every number of callers.
THEOREM LossReported == Spec => []LossIsReported
<1>1. CloseInv => LossIsReported
  BY DEF CloseInv, LossIsReported
<1>. QED
  BY <1>1, CloseInductive, PTL

\* A CLOSED session is sealed to the last envelope it wrote, and stays so.
THEOREM SealedWhenClosed == Spec => []ClosedIsSealed
<1>1. CloseInv => ClosedIsSealed
  BY DEF CloseInv, ClosedIsSealed, LiveConsumer
<1>. QED
  BY <1>1, CloseInductive, PTL

\* CLOSED keeps the promise of the graceful drain, for every queue and every timing.
THEOREM DrainIsGraceful == Spec => []GracefulDrain
<1>1. CloseInv => GracefulDrain
  <2>. SUFFICES ASSUME CloseInv, state = "CLOSED", consumer # "none", ~early
                PROVE  owed \subseteq ToSet(written)
    BY DEF GracefulDrain
  <2>1. consumer = "done" /\ lost = {}
    BY DEF CloseInv
  <2>. QED
    BY <2>1 DEF CloseInv, OwedIsOnRecord, OnRecord
<1>. QED
  BY <1>1, CloseInductive, PTL

=============================================================================
