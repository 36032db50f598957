---------------------------- MODULE DurableLogProofs ----------------------------
(***************************************************************************)
(* What the abstract log promises, for every set of batches: the reason    *)
(* for showing that the two detailed specifications implement it.          *)
(***************************************************************************)
EXTENDS DurableLog, TLAPS

LogVars == <<stored, committed, mark>>

\* A reader finds every row of every committed batch, and the checkpoint never
\* names a batch that is not committed.
LogIsWhole ==
  /\ \A b \in committed : b \in Batches /\ Contents(b) \subseteq stored
  /\ mark \in committed \cup {NoBatch}

\* The log is whole in every state.
THEOREM WholeLog == Spec => []LogIsWhole
<1>1. Init => LogIsWhole
  BY DEF Init, LogIsWhole
<1>2. LogIsWhole /\ [Next]_LogVars => LogIsWhole'
  <2>. SUFFICES ASSUME LogIsWhole, [Next]_LogVars
                PROVE  LogIsWhole'
    OBVIOUS
  <2>. USE DEF LogIsWhole
  <2>1. CASE Store
    BY <2>1 DEF Store
  <2>2. CASE Commit
    BY <2>2 DEF Commit
  <2>3. CASE Checkpoint
    BY <2>3 DEF Checkpoint
  <2>4. CASE Forget
    BY <2>4 DEF Forget
  <2>5. CASE UNCHANGED LogVars
    BY <2>5 DEF LogVars
  <2>. QED
    BY <2>1, <2>2, <2>3, <2>4, <2>5 DEF Next
<1>. QED
  BY <1>1, <1>2, PTL DEF Spec, LogVars

\* Nothing that was stored or committed is taken back, and a checkpoint moves only
\* to a batch that is committed already, or is lost.
THEOREM NothingTakenBack ==
  Spec => [][/\ stored \subseteq stored' /\ committed \subseteq committed'
             /\ mark' # mark => mark' \in committed \cup {NoBatch}]_LogVars
<1>. DEFINE Kept == /\ stored \subseteq stored' /\ committed \subseteq committed'
                    /\ mark' # mark => mark' \in committed \cup {NoBatch}
<1>1. [Next]_LogVars => [Kept]_LogVars
  BY DEF Next, Store, Commit, Checkpoint, Forget, LogVars
<1>. QED
  BY <1>1, PTL DEF Spec, LogVars
=============================================================================
