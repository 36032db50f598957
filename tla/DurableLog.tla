------------------------------- MODULE DurableLog -------------------------------
(***************************************************************************)
(* What a durable commit promises, whatever steps it takes: rows are       *)
(* stored before the batch they come from is committed, a batch is         *)
(* committed before the checkpoint names it, and nothing stored or         *)
(* committed is ever taken back.  A checkpoint may be lost; it is never    *)
(* ahead.                                                                  *)
(***************************************************************************)
CONSTANTS Batches,      \* everything that may be committed
          Contents(_),  \* the rows of a batch
          NoBatch       \* no checkpoint

VARIABLES stored,       \* rows readers can find
          committed,    \* batches the manifest has recorded
          mark          \* the batch the checkpoint names

Init == stored = {} /\ committed = {} /\ mark = NoBatch

\* Rows become readable, ahead of their commit.
Store == /\ stored \subseteq stored'
         /\ UNCHANGED <<committed, mark>>

\* A batch all of whose rows are stored is recorded.
Commit == /\ \E b \in Batches : /\ Contents(b) \subseteq stored
                                /\ committed' = committed \cup {b}
          /\ UNCHANGED <<stored, mark>>

\* The checkpoint moves to a committed batch.
Checkpoint == /\ mark' \in committed
              /\ UNCHANGED <<stored, committed>>

\* The checkpoint is lost.
Forget == /\ mark' = NoBatch
          /\ UNCHANGED <<stored, committed>>

Next == Store \/ Commit \/ Checkpoint \/ Forget

Spec == Init /\ [][Next]_<<stored, committed, mark>>
=============================================================================
