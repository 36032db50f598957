----------------------------- MODULE RetentionProofs -----------------------------
(***************************************************************************)
(* Proofs about Retention for any artifacts, gaps, trades and hold         *)
(* targets, and any number of managers, sweepers, holds and failures.      *)
(***************************************************************************)
EXTENDS Retention, CommonLemmas

-----------------------------------------------------------------------------
(* Types                                                                   *)

Hold      == [id : 1..MaxHolds, over : SUBSET Artifacts, active : BOOLEAN]
HoldEvent == [id : 1..MaxHolds, over : SUBSET Artifacts, action : {"CREATED", "REMOVED"}]
HoldsFile == {Torn} \cup (SUBSET Hold)
ManagerT  == [step : {"idle", "open", "write", "log"}, read : HoldsFile \cup {{}}, list : SUBSET Hold,
              hold : Hold \cup {NoHold}, action : {"CREATED", "REMOVED"}]
SweepT    == [step : {"idle", "look", "unlink", "record"}, todo : SUBSET Artifacts, at : SUBSET Artifacts,
              keep : SUBSET Artifacts, fresh : SUBSET Artifacts, log : SUBSET HoldEvent]

\* The variables, by the part that keeps them.
HoldTypes ==
  /\ holds \in HoldsFile
  /\ events \subseteq HoldEvent
  /\ manager \in [Managers -> ManagerT]
  /\ \A m \in Managers : manager[m].step # "idle" => manager[m].hold \in Hold
  /\ added \in 0..MaxHolds
SourceTypes ==
  /\ gaps \in [Gaps -> {"NONE", "OPEN", "PARTIAL", "RECOVERED", "UNRECOVERABLE"}]
  /\ conflicts \subseteq Artifacts /\ old \subseteq Artifacts
SweepTypes ==
  /\ files \subseteq Artifacts /\ heldLost \subseteq Artifacts
  /\ ledger \in [Artifacts -> Nat]
  /\ sweep \in [Sweepers -> SweepT]
  /\ \A s \in Sweepers :
       IF sweep[s].step \in {"unlink", "record"} THEN \E a \in Artifacts : sweep[s].at = {a} ELSE sweep[s].at = {}
CutTypes == cuts \in 0..MaxCuts /\ undermined \in BOOLEAN

TypeInv == HoldTypes /\ SourceTypes /\ SweepTypes /\ CutTypes

\* The variables an action leaves alone.
LEMMA QuietTypes ==
  /\ UNCHANGED holdVars /\ HoldTypes => HoldTypes'
  /\ UNCHANGED sourceVars /\ SourceTypes => SourceTypes'
  /\ UNCHANGED sweepVars /\ SweepTypes => SweepTypes'
  /\ UNCHANGED <<cuts, undermined>> /\ CutTypes => CutTypes'
<1>1. UNCHANGED holdVars /\ HoldTypes => HoldTypes'
  BY Zenon DEF HoldTypes, holdVars
<1>2. UNCHANGED sourceVars /\ SourceTypes => SourceTypes'
  BY Zenon DEF SourceTypes, sourceVars
<1>3. UNCHANGED sweepVars /\ SweepTypes => SweepTypes'
  BY Zenon DEF SweepTypes, sweepVars
<1>4. UNCHANGED <<cuts, undermined>> /\ CutTypes => CutTypes'
  BY DEF CutTypes
<1>. QED
  BY <1>1, <1>2, <1>3, <1>4

\* What list_holds returns is a list of holds, and never the torn file.
LEMMA ListedHolds ==
  ASSUME HoldTypes
  PROVE  Listed \in SUBSET Hold /\ (holds # Torn => Listed = holds)
BY DEF HoldTypes, Listed, HoldsFile

\* A file that was read as holds is not the torn one.
LEMMA TornIsNoList ==
  ASSUME NEW L \in SUBSET Hold
  PROVE  L # Torn
<1>1. NoHold \notin Hold
  BY DEF NoHold, Hold
<1>2. NoHold \in Torn
  BY DEF NoHold, Torn
<1>. QED
  BY <1>1, <1>2

\* A change begun is well typed.
LEMMA BegunTypes ==
  ASSUME TypeInv, NEW m \in Managers, NEW list \in SUBSET Hold, NEW hold \in Hold,
         NEW action \in {"CREATED", "REMOVED"}, Begin(m, list, hold, action), added' \in 0..MaxHolds
  PROVE  TypeInv'
<1>1. manager' = [manager EXCEPT ![m] = [step |-> "open", read |-> holds, list |-> list,
                                         hold |-> hold, action |-> action]]
      /\ UNCHANGED <<holds, events, sourceVars, sweepVars, cuts>> /\ undermined' = (undermined \/ holds = Torn)
  BY DEF Begin
<1>. DEFINE new == [step |-> "open", read |-> holds, list |-> list, hold |-> hold, action |-> action]
<1>2. new \in ManagerT /\ new.hold \in Hold
  BY DEF TypeInv, HoldTypes, ManagerT, HoldsFile
<1>. HIDE DEF new
<1>3. manager' = [manager EXCEPT ![m] = new]
  BY <1>1 DEF new
<1>4. HoldTypes'
  BY <1>1, <1>2, <1>3 DEF TypeInv, HoldTypes
<1>5. CutTypes'
  BY <1>1, Zenon DEF TypeInv, CutTypes
<1>. QED
  BY <1>1, <1>4, <1>5, QuietTypes DEF TypeInv

\* A sweep that goes on to the next file is well typed.
LEMMA GoOnTypes ==
  ASSUME SweepTypes, NEW s \in Sweepers, NEW todo \in SUBSET Artifacts, GoOn(s, todo)
  PROVE  /\ sweep' \in [Sweepers -> SweepT]
         /\ \A t \in Sweepers :
              IF sweep'[t].step \in {"unlink", "record"} THEN \E a \in Artifacts : sweep'[t].at = {a} ELSE sweep'[t].at = {}
<1>. DEFINE new == IF todo = {} THEN NoSweep ELSE [sweep[s] EXCEPT !.step = "look", !.todo = todo, !.at = {}, !.log = {}]
<1>1. sweep' = [sweep EXCEPT ![s] = new]
  BY DEF SweepTypes, GoOn
<1>2. new \in SweepT /\ new.at = {} /\ new.step \in {"idle", "look"}
  BY DEF SweepTypes, SweepT, NoSweep
<1>. HIDE DEF new
<1>. QED
  BY <1>1, <1>2 DEF SweepTypes

\* What is new to the sweeps is part of what they visit.
LEMMA MarkedTypes ==
  ASSUME SweepTypes, NEW A, Marked(A), UNCHANGED <<files, ledger, heldLost>>
  PROVE  SweepTypes'
<1>1. ASSUME NEW s \in Sweepers
      PROVE  /\ sweep'[s] = [sweep[s] EXCEPT !.fresh = @ \cup (A \cap (sweep[s].todo \cup sweep[s].at))]
             /\ sweep'[s] \in SweepT /\ sweep'[s].step = sweep[s].step /\ sweep'[s].at = sweep[s].at
  BY DEF Marked, SweepTypes, SweepT
<1>2. sweep' \in [Sweepers -> SweepT]
  BY <1>1 DEF Marked
<1>. QED
  BY <1>1, <1>2 DEF SweepTypes

\* Every variable keeps its type.
THEOREM TypeCorrect == Spec => []TypeInv
<1>1. Init => TypeInv
  <2>. SUFFICES ASSUME Init PROVE TypeInv
    OBVIOUS
  <2>. USE RetentionAssumption
  <2>1. HoldTypes
    <3>1. Resting \in ManagerT /\ Resting.step = "idle"
      BY DEF Resting, ManagerT, NoHold, HoldsFile
    <3>2. 0 \in 0..MaxHolds
      OBVIOUS
    <3>. QED
      BY <3>1, <3>2 DEF Init, HoldTypes, HoldsFile
  <2>2. SourceTypes
    BY DEF Init, SourceTypes
  <2>3. SweepTypes
    <3>1. NoSweep \in SweepT /\ NoSweep.step = "idle" /\ NoSweep.at = {}
      BY DEF NoSweep, SweepT
    <3>. QED
      BY <3>1 DEF Init, SweepTypes
  <2>4. CutTypes
    <3>1. 0 \in 0..MaxCuts
      OBVIOUS
    <3>. QED
      BY <3>1 DEF Init, CutTypes
  <2>. QED
    BY <2>1, <2>2, <2>3, <2>4 DEF TypeInv
<1>2. TypeInv /\ [Next]_vars => TypeInv'
  <2>. SUFFICES ASSUME TypeInv, [Next]_vars PROVE TypeInv'
    OBVIOUS
  <2>. USE RetentionAssumption
  <2>0. HoldTypes /\ SourceTypes /\ SweepTypes /\ CutTypes
    BY DEF TypeInv
  <2>1. ASSUME NEW m \in Managers, NEW over \in Targets, AddHold(m, over) PROVE TypeInv'
    <3>. DEFINE hold == [id |-> added + 1, over |-> over, active |-> TRUE]
    <3>1. added' \in 0..MaxHolds /\ hold \in Hold
      BY <2>0, <2>1 DEF AddHold, HoldTypes, Hold
    <3>2. Begin(m, Listed \cup {hold}, hold, "CREATED")
      BY <2>1, Zenon DEF AddHold
    <3>3. Listed \cup {hold} \in SUBSET Hold
      BY <2>0, <3>1, ListedHolds
    <3>. HIDE DEF hold
    <3>. QED
      BY <3>1, <3>2, <3>3, BegunTypes
  <2>2. ASSUME NEW m \in Managers, RemoveHold(m) PROVE TypeInv'
    <3>1. PICK hold \in {h \in Listed : h.active} :
            Begin(m, (Listed \ {hold}) \cup {[hold EXCEPT !.active = FALSE]}, hold, "REMOVED")
      BY <2>2, Zenon DEF RemoveHold
    <3>2. hold \in Hold /\ added' \in 0..MaxHolds
      BY <2>0, <2>2, <3>1, ListedHolds DEF RemoveHold, HoldTypes
    <3>3. [hold EXCEPT !.active = FALSE] \in Hold
      BY <3>2 DEF Hold
    <3>4. (Listed \ {hold}) \cup {[hold EXCEPT !.active = FALSE]} \in SUBSET Hold
      BY <2>0, <3>3, ListedHolds
    <3>. QED
      BY <3>1, <3>2, <3>4, BegunTypes
  <2>3. ASSUME NEW m \in Managers, OpenHolds(m) PROVE TypeInv'
    <3>1. HoldTypes'
      <4>1. manager[m] \in ManagerT /\ manager[m].hold \in Hold
        BY <2>0, <2>3 DEF OpenHolds, HoldTypes
      <4>2. [manager[m] EXCEPT !.step = "write", !.read = {}] \in ManagerT
        BY <4>1 DEF ManagerT
      <4>3. manager' = [manager EXCEPT ![m] = [manager[m] EXCEPT !.step = "write", !.read = {}]]
        BY <2>0, <2>3 DEF OpenHolds, HoldTypes
      <4>4. manager' \in [Managers -> ManagerT]
        BY <2>0, <4>2, <4>3 DEF HoldTypes
      <4>5. \A n \in Managers : manager'[n].step # "idle" => manager'[n].hold \in Hold
        BY <2>0, <4>1, <4>3 DEF HoldTypes, ManagerT
      <4>6. holds' \in HoldsFile /\ events' \subseteq HoldEvent /\ added' \in 0..MaxHolds
        BY <2>0, <2>3 DEF OpenHolds, HoldTypes, HoldsFile
      <4>. QED
        BY <4>4, <4>5, <4>6 DEF HoldTypes
    <3>2. CutTypes'
      BY <2>0, <2>3 DEF OpenHolds, CutTypes
    <3>. QED
      BY <2>0, <2>3, <3>1, <3>2, QuietTypes DEF OpenHolds, TypeInv
  <2>4. ASSUME NEW m \in Managers, WriteHolds(m) PROVE TypeInv'
    <3>1. HoldTypes'
      <4>1. manager[m] \in ManagerT /\ manager[m].hold \in Hold
        BY <2>0, <2>4 DEF WriteHolds, HoldTypes
      <4>2. [manager[m] EXCEPT !.step = "log", !.list = {}] \in ManagerT
        BY <4>1 DEF ManagerT
      <4>3. manager' = [manager EXCEPT ![m] = [manager[m] EXCEPT !.step = "log", !.list = {}]]
        BY <2>0, <2>4 DEF WriteHolds, HoldTypes
      <4>4. manager[m].list \subseteq Hold
        BY <4>1 DEF ManagerT
      <4>5. holds' \in HoldsFile
        BY <2>4, <4>4 DEF WriteHolds, HoldsFile
      <4>6. manager' \in [Managers -> ManagerT]
        BY <2>0, <4>2, <4>3 DEF HoldTypes
      <4>7. \A n \in Managers : manager'[n].step # "idle" => manager'[n].hold \in Hold
        BY <2>0, <4>1, <4>3 DEF HoldTypes, ManagerT
      <4>8. events' \subseteq HoldEvent /\ added' \in 0..MaxHolds
        BY <2>0, <2>4 DEF WriteHolds, HoldTypes
      <4>. QED
        BY <4>5, <4>6, <4>7, <4>8 DEF HoldTypes
    <3>. QED
      BY <2>0, <2>4, <3>1, QuietTypes DEF WriteHolds, TypeInv, CutTypes
  <2>5. ASSUME NEW m \in Managers, LogHold(m) PROVE TypeInv'
    <3>1. HoldTypes'
      <4>1. Resting \in ManagerT /\ Resting.step = "idle"
        BY DEF Resting, ManagerT, NoHold, HoldsFile
      <4>2. manager[m].hold \in Hold /\ manager[m].action \in {"CREATED", "REMOVED"}
        BY <2>0, <2>5 DEF LogHold, HoldTypes, ManagerT
      <4>3. [id |-> manager[m].hold.id, over |-> manager[m].hold.over, action |-> manager[m].action] \in HoldEvent
        BY <4>2 DEF Hold, HoldEvent
      <4>. QED
        BY <2>0, <2>5, <4>1, <4>3 DEF LogHold, HoldTypes
    <3>. QED
      BY <2>0, <2>5, <3>1, QuietTypes DEF LogHold, TypeInv, CutTypes
  <2>6. ASSUME NEW m \in Managers, ManagerDies(m) PROVE TypeInv'
    <3>1. HoldTypes'
      <4>1. Resting \in ManagerT /\ Resting.step = "idle"
        BY DEF Resting, ManagerT, NoHold, HoldsFile
      <4>. QED
        BY <2>0, <2>6, <4>1 DEF ManagerDies, HoldTypes
    <3>2. CutTypes'
      BY <2>0, <2>6 DEF ManagerDies, CutTypes
    <3>. QED
      BY <2>0, <2>6, <3>1, <3>2, QuietTypes DEF ManagerDies, TypeInv
  <2>7. ASSUME NEW g \in Gaps, NEW status \in {"OPEN", "PARTIAL", "RECOVERED", "UNRECOVERABLE"}, GapChanges(g, status)
        PROVE  TypeInv'
    <3>1. SourceTypes'
      BY <2>0, <2>7 DEF GapChanges, SourceTypes, Rest
    <3>2. \E A : Marked(A)
      BY <2>7 DEF GapChanges
    <3>3. UNCHANGED <<holdVars, files, ledger, heldLost, cuts, undermined>>
      BY <2>7 DEF GapChanges, Rest
    <3>. QED
      BY <2>0, <3>1, <3>2, <3>3, QuietTypes, MarkedTypes DEF TypeInv, CutTypes
  <2>8. ASSUME NEW archive \in SUBSET Trades, NEW stream \in SUBSET Trades,
               NEW differ \in SUBSET ((archive \cap stream) \X (1..3)), Reconcile(archive, stream, differ)
        PROVE  TypeInv'
    <3>. DEFINE extra   == IF archive = {} THEN {} ELSE stream \ archive
                found   == (((archive \ stream) \cup extra) \X {0}) \cup differ
                upTo(d) == {e \in found : e[1] < d[1] \/ (e[1] = d[1] /\ e[2] <= d[2])}
                listed  == {e \in found : Cardinality(upTo(e)) <= MaxDetails}
                named   == UNION {NamedByTrade[d[1]] : d \in listed}
    <3>1. conflicts' = conflicts \cup named /\ Marked(named \ conflicts) /\ UNCHANGED <<gaps, Rest>>
      BY <2>8 DEF Reconcile
    <3>2. named \subseteq Artifacts
      <4>1. \A d \in found : d[1] \in Trades
        OBVIOUS
      <4>2. listed \subseteq found
        OBVIOUS
      <4>. HIDE DEF found, listed
      <4>. QED
        BY <4>1, <4>2
    <3>. HIDE DEF named
    <3>3. SourceTypes'
      BY <2>0, <3>1, <3>2 DEF SourceTypes, Rest
    <3>4. UNCHANGED <<holdVars, files, ledger, heldLost, cuts, undermined>>
      BY <3>1 DEF Rest
    <3>. QED
      BY <2>0, <3>1, <3>3, <3>4, QuietTypes, MarkedTypes DEF TypeInv, CutTypes
  <2>9. ASSUME NEW a \in Artifacts, Expire(a) PROVE TypeInv'
    <3>1. SourceTypes'
      BY <2>0, <2>9 DEF Expire, SourceTypes
    <3>. QED
      BY <2>0, <2>9, <3>1, QuietTypes DEF Expire, TypeInv, CutTypes
  <2>10. ASSUME NEW s \in Sweepers, StartSweep(s) PROVE TypeInv'
    <3>. DEFINE new == [NoSweep EXCEPT !.step = "look", !.todo = files, !.keep = Evidence \cup (files \ old)]
    <3>1. Evidence \subseteq Artifacts
      BY <2>0 DEF Evidence, SourceTypes
    <3>2. new \in SweepT /\ new.step = "look" /\ new.at = {}
      BY <2>0, <3>1 DEF NoSweep, SweepT, SweepTypes
    <3>3. sweep' = [sweep EXCEPT ![s] = new]
      BY <2>10 DEF StartSweep
    <3>. HIDE DEF new
    <3>4. SweepTypes'
      BY <2>0, <2>10, <3>2, <3>3 DEF StartSweep, SweepTypes
    <3>. QED
      BY <2>0, <2>10, <3>4, QuietTypes DEF StartSweep, TypeInv, CutTypes
  <2>11. ASSUME NEW s \in Sweepers, NEW a \in Artifacts, Look(s, a) PROVE TypeInv'
    <3>1. UNCHANGED <<holdVars, sourceVars, files, ledger, cuts>> /\ sweep[s].todo \subseteq Artifacts
      BY <2>0, <2>11 DEF Look, SweepTypes, SweepT
    <3>2. heldLost' = heldLost /\ events \in SUBSET HoldEvent
      BY <2>0, <2>11 DEF Look, HoldTypes
    <3>3. ASSUME sweep' = [sweep EXCEPT ![s].todo = @ \ {a}, ![s].at = {a}, ![s].step = "unlink", ![s].log = events]
          PROVE  SweepTypes'
      <4>. DEFINE new == [sweep[s] EXCEPT !.todo = @ \ {a}, !.at = {a}, !.step = "unlink", !.log = events]
      <4>1. sweep' = [sweep EXCEPT ![s] = new]
        BY <2>0, <3>3 DEF SweepTypes
      <4>2. new \in SweepT /\ new.step = "unlink" /\ new.at = {a}
        <5>1. sweep[s] \in SweepT /\ {a} \in SUBSET Artifacts
          BY <2>0 DEF SweepTypes
        <5>. QED
          BY <3>2, <5>1 DEF SweepT
      <4>. HIDE DEF new
      <4>. QED
        BY <2>0, <3>1, <3>2, <4>1, <4>2 DEF SweepTypes
    <3>4. ASSUME GoOn(s, sweep[s].todo \ {a})
          PROVE  SweepTypes'
      <4>. sweep[s].todo \ {a} \in SUBSET Artifacts
        BY <3>1
      <4>. QED
        BY <2>0, <3>1, <3>2, <3>4, GoOnTypes DEF SweepTypes
    <3>5. SweepTypes'
      BY <2>11, <3>3, <3>4 DEF Look
    <3>6. CutTypes'
      BY <2>0, <2>11 DEF Look, CutTypes
    <3>. QED
      BY <2>0, <3>1, <3>5, <3>6, QuietTypes DEF TypeInv
  <2>12. ASSUME NEW s \in Sweepers, UnlinkFile(s) PROVE TypeInv'
    <3>. DEFINE new == [sweep[s] EXCEPT !.step = "record", !.log = {}]
    <3>1. /\ sweep' = [sweep EXCEPT ![s] = new] /\ ledger' = ledger /\ files' = files \ sweep[s].at
          /\ heldLost' = heldLost \cup {a \in sweep[s].at : \E e \in InForce \cap sweep[s].log : a \in e.over}
          /\ sweep[s].step = "unlink"
      BY <2>0, <2>12 DEF UnlinkFile, SweepTypes
    <3>2. new \in SweepT /\ new.step = "record" /\ new.at = sweep[s].at /\ sweep[s].at \subseteq Artifacts
      <4>1. sweep[s] \in SweepT
        BY <2>0 DEF SweepTypes
      <4>. QED
        BY <4>1 DEF SweepT
    <3>. HIDE DEF new
    <3>3. heldLost' \subseteq Artifacts
      BY <2>0, <3>1, <3>2 DEF SweepTypes
    <3>4. sweep' \in [Sweepers -> SweepT]
      BY <2>0, <3>1, <3>2 DEF SweepTypes
    <3>5. \A t \in Sweepers : sweep'[t].step \in {"unlink", "record"} =>
            sweep[t].step \in {"unlink", "record"} /\ sweep'[t].at = sweep[t].at
      BY <2>0, <3>1, <3>2 DEF SweepTypes
    <3>6. \A t \in Sweepers : sweep'[t].step \notin {"unlink", "record"} => sweep'[t] = sweep[t]
      BY <2>0, <3>1, <3>2 DEF SweepTypes
    <3>7. SweepTypes'
      BY <2>0, <3>1, <3>3, <3>4, <3>5, <3>6 DEF SweepTypes
    <3>. QED
      BY <2>0, <2>12, <3>7, QuietTypes DEF UnlinkFile, TypeInv, CutTypes
  <2>13. ASSUME NEW s \in Sweepers, RecordDeletion(s) PROVE TypeInv'
    <3>1. ledger' \in [Artifacts -> Nat]
      BY <2>0, <2>13 DEF RecordDeletion, SweepTypes
    <3>2. GoOn(s, sweep[s].todo) /\ sweep[s].todo \in SUBSET Artifacts
      BY <2>0, <2>13 DEF RecordDeletion, SweepTypes, SweepT
    <3>3. SweepTypes'
      BY <2>0, <2>13, <3>1, <3>2, GoOnTypes DEF RecordDeletion, SweepTypes
    <3>. QED
      BY <2>0, <2>13, <3>3, QuietTypes DEF RecordDeletion, TypeInv, CutTypes
  <2>14. ASSUME NEW s \in Sweepers, FileFails(s) PROVE TypeInv'
    <3>1. GoOn(s, sweep[s].todo) /\ sweep[s].todo \in SUBSET Artifacts
      BY <2>0, <2>14 DEF FileFails, SweepTypes, SweepT
    <3>2. SweepTypes'
      BY <2>0, <2>14, <3>1, GoOnTypes DEF FileFails, SweepTypes
    <3>3. CutTypes'
      BY <2>0, <2>14 DEF FileFails, CutTypes
    <3>. QED
      BY <2>0, <2>14, <3>2, <3>3, QuietTypes DEF FileFails, TypeInv
  <2>15. ASSUME NEW s \in Sweepers, SweepDies(s) PROVE TypeInv'
    <3>1. NoSweep \in SweepT /\ NoSweep.step = "idle" /\ NoSweep.at = {}
      BY DEF NoSweep, SweepT
    <3>2. SweepTypes'
      BY <2>0, <2>15, <3>1 DEF SweepDies, SweepTypes
    <3>3. CutTypes'
      BY <2>0, <2>15 DEF SweepDies, CutTypes
    <3>. QED
      BY <2>0, <2>15, <3>2, <3>3, QuietTypes DEF SweepDies, TypeInv
  <2>16. CASE UNCHANGED vars
    BY <2>0, <2>16, QuietTypes DEF TypeInv, vars, holdVars, sourceVars, sweepVars
  <2>. QED
    BY <2>1, <2>2, <2>3, <2>4, <2>5, <2>6, <2>7, <2>8, <2>9, <2>10, <2>11, <2>12, <2>13, <2>14, <2>15, <2>16 DEF Next
<1>. QED
  BY <1>1, <1>2, PTL DEF Spec

\* Every run's type invariant holds for every value of the constants.
THEOREM TypesHold == Spec => []TypeOK
<1>1. TypeInv => TypeOK
  <2>. SUFFICES ASSUME TypeInv PROVE TypeOK
    OBVIOUS
  <2>0. HoldTypes /\ SourceTypes /\ SweepTypes /\ MaxHolds \in Nat
    BY RetentionAssumption DEF TypeInv
  <2>1. \A h \in holds : h.id \in 0..MaxHolds /\ h.over \subseteq Artifacts /\ h.active \in BOOLEAN
    <3>1. CASE holds \in SUBSET Hold
      BY <2>0, <3>1 DEF Hold
    <3>2. CASE holds = Torn
      <4>1. 0 \in 0..MaxHolds
        BY <2>0
      <4>2. NoHold.id = 0 /\ NoHold.over = {} /\ NoHold.active = FALSE
        BY DEF NoHold
      <4>3. \A h \in holds : h = NoHold
        BY <3>2 DEF Torn, NoHold
      <4>. QED
        BY <4>1, <4>2, <4>3
    <3>. QED
      BY <2>0, <3>1, <3>2 DEF HoldTypes, HoldsFile
  <2>2. \A e \in events : e.id \in 1..MaxHolds /\ e.action \in {"CREATED", "REMOVED"}
    BY <2>0 DEF HoldTypes, HoldEvent
  <2>3. \A m \in Managers : manager[m].step \in {"idle", "open", "write", "log"}
    BY <2>0 DEF HoldTypes, ManagerT
  <2>4. \A g \in Gaps : gaps[g] \in {"NONE", "OPEN", "PARTIAL", "RECOVERED", "UNRECOVERABLE"}
    BY <2>0 DEF SourceTypes
  <2>5. ASSUME NEW s \in Sweepers
        PROVE  /\ sweep[s].step \in {"idle", "look", "unlink", "record"}
               /\ Cardinality(sweep[s].at) = (IF sweep[s].step \in {"unlink", "record"} THEN 1 ELSE 0)
    <3>1. sweep[s].step \in {"idle", "look", "unlink", "record"}
      BY <2>0 DEF SweepTypes, SweepT
    <3>2. CASE sweep[s].step \in {"unlink", "record"}
      BY <2>0, <3>1, <3>2, FS_Singleton DEF SweepTypes
    <3>3. CASE sweep[s].step \notin {"unlink", "record"}
      BY <2>0, <3>1, <3>3, FS_EmptySet DEF SweepTypes
    <3>. QED
      BY <3>1, <3>2, <3>3
  <2>. QED
    BY <2>0, <2>1, <2>2, <2>3, <2>4, <2>5 DEF TypeOK, SourceTypes, SweepTypes
<1>. QED
  BY <1>1, TypeCorrect, PTL

-----------------------------------------------------------------------------
(* The holds file and its log                                              *)

\* What a manager has saved, or is saving, and logs in its last step.
EventOf(m) == [id |-> manager[m].hold.id, over |-> manager[m].hold.over, action |-> manager[m].action]
Due        == {m \in Managers : manager[m].step \in {"write", "log"}}
Told       == events \cup {EventOf(m) : m \in Due}

\* The holds that a log tells of.
Removed(log, i) == \E r \in log : r.id = i /\ r.action = "REMOVED"
HoldOf(log, e)  == [id |-> e.id, over |-> e.over, active |-> ~Removed(log, e.id)]
Replay(log)     == {HoldOf(log, e) : e \in {c \in log : c.action = "CREATED"}}

\* A list with one change made to it.
Changed(list, hold, action) ==
  IF action = "CREATED" THEN list \cup {hold} ELSE (list \ {hold}) \cup {[hold EXCEPT !.active = FALSE]}

\* As long as nothing has gone wrong, one manager at a time rewrites the file, and the
\* file, or what is being written to it, is the replay of the log with what is due.
FileReplays ==
  /\ \A m \in Managers : manager[m].step = "write" => holds = Torn /\ manager[m].list = Replay(Told)
  /\ \A m, n \in Managers : manager[m].step = "write" /\ manager[n].step = "write" => m = n
  /\ (\A m \in Managers : manager[m].step # "write") => holds = Replay(Told)

\* What a manager is about to save is its change to the file as it read it.
ChangeBegun ==
  \A m \in Managers : manager[m].step = "open" =>
    /\ manager[m].read # Torn
    /\ manager[m].hold.active
    /\ manager[m].list = Changed(manager[m].read, manager[m].hold, manager[m].action)
    /\ manager[m].action = "REMOVED" => manager[m].hold \in manager[m].read

\* The identifiers of holds are new, and stay unique.
FreshIds ==
  /\ \A e \in Told : e.id <= added
  /\ \A e, f \in Told : e.action = "CREATED" /\ f.action = "CREATED" /\ e.id = f.id => e = f
  /\ \A m \in Managers : manager[m].step # "idle" => manager[m].hold.id <= added
  /\ \A m \in Managers : manager[m].step = "open" /\ manager[m].action = "CREATED" =>
       /\ \A e \in Told : e.id # manager[m].hold.id
       /\ \A n \in Managers \ {m} : manager[n].step # "idle" => manager[n].hold.id # manager[m].hold.id

HoldInv == undermined \/ (FileReplays /\ ChangeBegun /\ FreshIds)

-----------------------------------------------------------------------------
(* The sweep                                                               *)

\* What must not be deleted now.
NeededNow == conflicts \cup UNION {NamedByGap[g] : g \in {h \in Gaps : gaps[h] \in Unresolved}}

\* A sweep keeps all of it that it may still visit, except what is new to it.
SweepInv ==
  \A s \in Sweepers :
    /\ NeededNow \cap (sweep[s].todo \cup sweep[s].at) \subseteq sweep[s].keep \cup sweep[s].fresh
    /\ sweep[s].at \cap sweep[s].keep = {}

\* Deleted artifacts without a record, and the sweeps that are to write one.
Gone      == {a \in Artifacts \ files : ledger[a] = 0}
Recording == {s \in Sweepers : sweep[s].step = "record"}

\* A record is due for a deleted artifact without one, from one sweep; and every
\* deletion without a record has its sweep, or has cost a failure.
LedgerInv ==
  /\ \A a \in Artifacts : ledger[a] <= 1 /\ (ledger[a] = 1 => a \notin files)
  /\ \A s \in Recording : sweep[s].at \subseteq Gone
  /\ \A s, t \in Recording : sweep[s].at \cap sweep[t].at # {} => s = t
  /\ IsFiniteSet(Gone) /\ IsFiniteSet(Recording)
  /\ Cardinality(Gone) <= cuts + Cardinality(Recording)
\* A manager's step, and how it leaves the sweeps.
ManagerStep(m) ==
  \/ \E over \in Targets : AddHold(m, over)
  \/ RemoveHold(m) \/ OpenHolds(m) \/ WriteHolds(m) \/ LogHold(m) \/ ManagerDies(m)

\* The managers of holds touch no file, no record and no sweep.
LEMMA ManagersAndSweeps ==
  ASSUME TypeInv, NEW m \in Managers, ManagerStep(m)
  PROVE  UNCHANGED <<gaps, conflicts, old, files, ledger, sweep, heldLost>> /\ cuts' \in {cuts, cuts + 1}
BY DEF ManagerStep, AddHold, RemoveHold, Begin, OpenHolds, WriteHolds, LogHold, ManagerDies, sourceVars, sweepVars

\* What a gap or a reconciliation brings: A is what is needed now and was not, and the
\* sweeps under way do not know of it.
LEMMA NewlyNeeded ==
  ASSUME TypeInv,
         \/ \E g \in Gaps, status \in {"OPEN", "PARTIAL", "RECOVERED", "UNRECOVERABLE"} : GapChanges(g, status)
         \/ \E archive, stream \in SUBSET Trades : \E differ \in SUBSET ((archive \cap stream) \X (1..3)) :
              Reconcile(archive, stream, differ)
  PROVE  /\ \E A : Marked(A) /\ NeededNow' \subseteq NeededNow \cup A
         /\ UNCHANGED Rest
<1>1. ASSUME NEW g \in Gaps, NEW status \in {"OPEN", "PARTIAL", "RECOVERED", "UNRECOVERABLE"}, GapChanges(g, status)
      PROVE  (\E A : Marked(A) /\ NeededNow' \subseteq NeededNow \cup A) /\ UNCHANGED Rest
  <2>. DEFINE A == IF gaps[g] \notin Unresolved /\ status \in Unresolved THEN NamedByGap[g] ELSE {}
  <2>1. gaps' = [gaps EXCEPT ![g] = status] /\ Marked(A) /\ UNCHANGED <<conflicts, Rest>>
    BY <1>1 DEF GapChanges
  <2>2. gaps'[g] = status /\ \A h \in Gaps : h # g => gaps'[h] = gaps[h]
    BY <2>1 DEF TypeInv, SourceTypes
  <2>3. ASSUME NEW a \in NeededNow' PROVE a \in NeededNow \cup A
    <3>1. CASE a \in conflicts
      BY <3>1 DEF NeededNow
    <3>2. CASE \E h \in Gaps : a \in NamedByGap[h] /\ gaps'[h] \in Unresolved
      <4>1. PICK h \in Gaps : a \in NamedByGap[h] /\ gaps'[h] \in Unresolved
        BY <3>2
      <4>2. CASE h = g
        BY <2>2, <4>1, <4>2 DEF NeededNow
      <4>3. CASE h # g
        BY <2>2, <4>1, <4>3 DEF NeededNow
      <4>. QED
        BY <4>2, <4>3
    <3>. QED
      BY <2>1, <2>3, <3>1, <3>2 DEF NeededNow
  <2>. QED
    BY <2>1, <2>3
<1>2. ASSUME NEW archive \in SUBSET Trades, NEW stream \in SUBSET Trades,
             NEW differ \in SUBSET ((archive \cap stream) \X (1..3)), Reconcile(archive, stream, differ)
      PROVE  (\E A : Marked(A) /\ NeededNow' \subseteq NeededNow \cup A) /\ UNCHANGED Rest
  <2>1. \E named : conflicts' = conflicts \cup named /\ Marked(named \ conflicts) /\ UNCHANGED <<gaps, Rest>>
    BY <1>2 DEF Reconcile
  <2>. QED
    BY <2>1 DEF NeededNow
<1>. QED
  BY <1>1, <1>2

\* One sweep moves on and the others stay.
LEMMA OneSweepMoves ==
  ASSUME TypeInv, SweepInv, UNCHANGED <<gaps, conflicts>>, NEW s \in Sweepers,
         \A t \in Sweepers : t # s => sweep'[t] = sweep[t],
         NeededNow \cap (sweep'[s].todo \cup sweep'[s].at) \subseteq sweep'[s].keep \cup sweep'[s].fresh,
         sweep'[s].at \cap sweep'[s].keep = {}
  PROVE  SweepInv'
<1>1. NeededNow' = NeededNow
  BY DEF NeededNow
<1>. QED
  BY <1>1 DEF SweepInv

\* After GoOn a sweep is over, or has less to visit.
LEMMA GoneOn ==
  ASSUME SweepTypes, NEW s \in Sweepers, NEW todo \in SUBSET sweep[s].todo, GoOn(s, todo)
  PROVE  /\ \A t \in Sweepers : t # s => sweep'[t] = sweep[t]
         /\ sweep'[s].at = {} /\ sweep'[s].step \in {"idle", "look"}
         /\ \/ sweep'[s].todo = {}
            \/ sweep'[s].todo \subseteq sweep[s].todo /\ sweep'[s].keep = sweep[s].keep
               /\ sweep'[s].fresh = sweep[s].fresh
<1>. DEFINE new == [sweep[s] EXCEPT !.step = "look", !.todo = todo, !.at = {}, !.log = {}]
<1>1. new.at = {} /\ new.step = "look" /\ new.todo = todo /\ new.keep = sweep[s].keep /\ new.fresh = sweep[s].fresh
  <2>1. sweep[s] \in SweepT
    BY DEF SweepTypes
  <2>. QED
    BY <2>1 DEF SweepT
<1>2. NoSweep.at = {} /\ NoSweep.todo = {} /\ NoSweep.step = "idle"
  BY DEF NoSweep
<1>3. sweep' = [sweep EXCEPT ![s] = IF todo = {} THEN NoSweep ELSE new]
  BY DEF SweepTypes, GoOn
<1>. HIDE DEF new
<1>. QED
  BY <1>1, <1>2, <1>3 DEF SweepTypes

\* A sweep knows of all that must be kept, but for what is newer than its start.
THEOREM SweepsInductive == Spec => []SweepInv
<1>1. Init => SweepInv
  BY DEF Init, SweepInv, NoSweep
<1>2. TypeInv /\ SweepInv /\ [Next]_vars => SweepInv'
  <2>. SUFFICES ASSUME TypeInv, SweepInv, [Next]_vars PROVE SweepInv'
    OBVIOUS
  <2>0. SweepTypes /\ \A t \in Sweepers : sweep[t] \in SweepT
    BY DEF TypeInv, SweepTypes
  <2>1. ASSUME UNCHANGED <<gaps, conflicts, sweep>> PROVE SweepInv'
    <3>1. NeededNow' = NeededNow
      BY <2>1 DEF NeededNow
    <3>. QED
      BY <2>1, <3>1 DEF SweepInv
  <2>2. ASSUME NEW m \in Managers, ManagerStep(m) PROVE SweepInv'
    BY <2>1, <2>2, ManagersAndSweeps
  <2>3. CASE \/ \E g \in Gaps, status \in {"OPEN", "PARTIAL", "RECOVERED", "UNRECOVERABLE"} : GapChanges(g, status)
             \/ \E archive, stream \in SUBSET Trades : \E differ \in SUBSET ((archive \cap stream) \X (1..3)) :
                  Reconcile(archive, stream, differ)
    <3>1. PICK A : Marked(A) /\ NeededNow' \subseteq NeededNow \cup A
      BY <2>3, NewlyNeeded
    <3>2. ASSUME NEW t \in Sweepers
          PROVE  /\ sweep'[t].todo = sweep[t].todo /\ sweep'[t].at = sweep[t].at /\ sweep'[t].keep = sweep[t].keep
                 /\ sweep'[t].fresh = sweep[t].fresh \cup (A \cap (sweep[t].todo \cup sweep[t].at))
      BY <2>0, <3>1 DEF Marked, SweepT
    <3>. QED
      BY <3>1, <3>2 DEF SweepInv
  <2>4. ASSUME NEW a \in Artifacts, Expire(a) PROVE SweepInv'
    BY <2>1, <2>4 DEF Expire, sweepVars
  <2>5. ASSUME NEW s \in Sweepers, StartSweep(s) PROVE SweepInv'
    <3>. DEFINE new == [NoSweep EXCEPT !.step = "look", !.todo = files, !.keep = Evidence \cup (files \ old)]
    <3>1. sweep' = [sweep EXCEPT ![s] = new] /\ UNCHANGED <<gaps, conflicts>>
      BY <2>5 DEF StartSweep, sourceVars
    <3>2. new.at = {} /\ new.keep = Evidence \cup (files \ old)
      BY DEF NoSweep
    <3>3. NeededNow \subseteq Evidence
      BY DEF NeededNow, Evidence, TypeInv, SourceTypes
    <3>. HIDE DEF new
    <3>4. sweep'[s] = new /\ \A t \in Sweepers : t # s => sweep'[t] = sweep[t]
      BY <2>0, <3>1 DEF SweepTypes
    <3>. QED
      BY <3>1, <3>2, <3>3, <3>4, OneSweepMoves
  <2>6. ASSUME NEW s \in Sweepers, NEW todo \in SUBSET sweep[s].todo, GoOn(s, todo), UNCHANGED <<gaps, conflicts>>
        PROVE  SweepInv'
    <3>1. NeededNow \cap (sweep'[s].todo \cup sweep'[s].at) \subseteq sweep'[s].keep \cup sweep'[s].fresh
      BY <2>0, <2>6, GoneOn DEF SweepInv
    <3>. QED
      BY <2>0, <2>6, <3>1, GoneOn, OneSweepMoves
  <2>7. ASSUME NEW s \in Sweepers, NEW a \in Artifacts, Look(s, a) PROVE SweepInv'
    <3>1. CASE GoOn(s, sweep[s].todo \ {a})
      BY <2>6, <2>7, <3>1 DEF Look, sourceVars
    <3>2. CASE a \notin sweep[s].keep
               /\ sweep' = [sweep EXCEPT ![s].todo = @ \ {a}, ![s].at = {a}, ![s].step = "unlink", ![s].log = events]
      <4>1. /\ sweep'[s].todo = sweep[s].todo \ {a} /\ sweep'[s].at = {a}
            /\ sweep'[s].keep = sweep[s].keep /\ sweep'[s].fresh = sweep[s].fresh
        <5>1. sweep[s] \in SweepT
          BY <2>0
        <5>. QED
          BY <2>0, <3>2, <5>1 DEF SweepT, SweepTypes
      <4>2. a \in sweep[s].todo /\ UNCHANGED <<gaps, conflicts>>
        BY <2>7 DEF Look, sourceVars
      <4>3. NeededNow \cap (sweep'[s].todo \cup sweep'[s].at) \subseteq sweep'[s].keep \cup sweep'[s].fresh
        BY <4>1, <4>2 DEF SweepInv
      <4>4. \A t \in Sweepers : t # s => sweep'[t] = sweep[t]
        BY <2>0, <3>2 DEF SweepTypes
      <4>5. sweep'[s].at \cap sweep'[s].keep = {}
        BY <3>2, <4>1
      <4>. QED
        BY <4>2, <4>3, <4>4, <4>5, OneSweepMoves
    <3>. QED
      BY <2>7, <3>1, <3>2 DEF Look
  <2>8. ASSUME NEW s \in Sweepers, UnlinkFile(s) PROVE SweepInv'
    <3>1. sweep' = [sweep EXCEPT ![s].step = "record", ![s].log = {}] /\ UNCHANGED <<gaps, conflicts>>
      BY <2>8 DEF UnlinkFile, sourceVars
    <3>2. ASSUME NEW t \in Sweepers
          PROVE  /\ sweep'[t].todo = sweep[t].todo /\ sweep'[t].at = sweep[t].at /\ sweep'[t].keep = sweep[t].keep
                 /\ sweep'[t].fresh = sweep[t].fresh
      BY <2>0, <3>1 DEF SweepT, SweepTypes
    <3>3. NeededNow' = NeededNow
      BY <3>1 DEF NeededNow
    <3>. QED
      BY <3>2, <3>3 DEF SweepInv
  <2>9. ASSUME NEW s \in Sweepers, RecordDeletion(s) \/ FileFails(s) PROVE SweepInv'
    BY <2>6, <2>9 DEF RecordDeletion, FileFails, sourceVars
  <2>10. ASSUME NEW s \in Sweepers, SweepDies(s) PROVE SweepInv'
    <3>1. sweep' = [sweep EXCEPT ![s] = NoSweep] /\ UNCHANGED <<gaps, conflicts>>
      BY <2>10 DEF SweepDies, sourceVars
    <3>2. NoSweep.at = {} /\ NoSweep.todo = {}
      BY DEF NoSweep
    <3>3. sweep'[s] = NoSweep /\ \A t \in Sweepers : t # s => sweep'[t] = sweep[t]
      BY <2>0, <3>1 DEF SweepTypes
    <3>. QED
      BY <3>1, <3>2, <3>3, OneSweepMoves
  <2>11. CASE UNCHANGED vars
    BY <2>1, <2>11 DEF vars, sourceVars, sweepVars
  <2>. QED
    BY <2>2, <2>3, <2>4, <2>5, <2>7, <2>8, <2>9, <2>10, <2>11 DEF Next, ManagerStep
<1>. QED
  BY <1>1, <1>2, TypeCorrect, PTL DEF Spec

\* Only an unlink deletes, and only what its own sweep has given up.
LEMMA OnlyUnlinksDelete ==
  ASSUME TypeInv, [Next]_vars
  PROVE  \/ files' = files
         \/ \E s \in Sweepers : /\ UnlinkFile(s) /\ files' = files \ sweep[s].at
                                /\ \A t \in Sweepers : t # s => sweep'[t] = sweep[t]
<1>1. ASSUME NEW m \in Managers, ManagerStep(m) PROVE files' = files
  BY <1>1, ManagersAndSweeps
<1>2. CASE \/ \E g \in Gaps, status \in {"OPEN", "PARTIAL", "RECOVERED", "UNRECOVERABLE"} : GapChanges(g, status)
           \/ \E archive, stream \in SUBSET Trades : \E differ \in SUBSET ((archive \cap stream) \X (1..3)) :
                Reconcile(archive, stream, differ)
  BY <1>2, NewlyNeeded DEF Rest
<1>3. ASSUME NEW s \in Sweepers, UnlinkFile(s)
      PROVE  files' = files \ sweep[s].at /\ \A t \in Sweepers : t # s => sweep'[t] = sweep[t]
  BY <1>3 DEF UnlinkFile, TypeInv, SweepTypes
<1>4. ASSUME NEW s \in Sweepers,
             \/ StartSweep(s) \/ (\E a \in Artifacts : Look(s, a))
             \/ RecordDeletion(s) \/ FileFails(s) \/ SweepDies(s)
      PROVE  files' = files
  BY <1>4 DEF StartSweep, Look, RecordDeletion, FileFails, SweepDies
<1>5. ASSUME NEW a \in Artifacts, Expire(a) PROVE files' = files
  BY <1>5 DEF Expire, sweepVars
<1>6. CASE UNCHANGED vars
  BY <1>6 DEF vars, sweepVars
<1>. QED
  BY <1>1, <1>2, <1>3, <1>4, <1>5, <1>6 DEF Next, ManagerStep

\* No sweep deletes what an unresolved gap or a listed conflict named when it started.
THEOREM EvidenceSurvives == Spec => EvidenceIsKept
<1>1. TypeInv /\ SweepInv /\ [Next]_vars =>
        [ \A s \in Sweepers : sweep[s].step = "unlink" /\ sweep'[s].step = "record" =>
            \A a \in files \ files' :
              (a \in conflicts \/ \E g \in Gaps : a \in NamedByGap[g] /\ gaps[g] \in Unresolved)
              => a \in sweep[s].fresh ]_vars
  <2>. SUFFICES ASSUME TypeInv, SweepInv, [Next]_vars, NEW s \in Sweepers,
                       sweep[s].step = "unlink", sweep'[s].step = "record", NEW a \in files \ files',
                       a \in conflicts \/ \E g \in Gaps : a \in NamedByGap[g] /\ gaps[g] \in Unresolved
                PROVE  a \in sweep[s].fresh
    OBVIOUS
  <2>1. a \in NeededNow
    BY DEF NeededNow
  <2>2. a \in sweep[s].at
    BY OnlyUnlinksDelete
  <2>. QED
    BY <2>1, <2>2 DEF SweepInv
<1>. QED
  BY <1>1, SweepsInductive, TypeCorrect, PTL DEF Spec, EvidenceIsKept
-----------------------------------------------------------------------------
(* The deletion ledger                                                     *)

\* A sweep that is not about to delete stops or moves on, at the cost of a failure if
\* it was to record.
LEMMA RecordForgone ==
  ASSUME TypeInv, LedgerInv, NEW s \in Sweepers, UNCHANGED <<files, ledger>>,
         \A t \in Sweepers : t # s => sweep'[t].step = sweep[t].step /\ sweep'[t].at = sweep[t].at,
         sweep'[s].step # "record",
         cuts' \in Nat, cuts' >= cuts + (IF sweep[s].step = "record" THEN 1 ELSE 0)
  PROVE  LedgerInv'
<1>0. cuts \in Nat
  BY RetentionAssumption DEF TypeInv, CutTypes
<1>1. Gone' = Gone
  BY DEF Gone
<1>2. Recording' = Recording \ {s}
  BY DEF Recording
<1>3. IsFiniteSet(Recording) /\ IsFiniteSet(Gone) /\ Cardinality(Gone) \in Nat /\ Cardinality(Recording) \in Nat
  BY FS_CardinalityType DEF LedgerInv
<1>4. /\ IsFiniteSet(Recording')
      /\ Cardinality(Recording') = IF s \in Recording THEN Cardinality(Recording) - 1 ELSE Cardinality(Recording)
  BY <1>2, <1>3, FS_RemoveElement
<1>5. s \in Recording <=> sweep[s].step = "record"
  BY DEF Recording
<1>6. Cardinality(Gone') <= cuts' + Cardinality(Recording')
  BY <1>0, <1>1, <1>3, <1>4, <1>5 DEF LedgerInv
<1>7. \A t \in Recording' : t \in Recording /\ sweep'[t].at = sweep[t].at
  BY <1>2 DEF Recording
<1>8. /\ \A t \in Recording' : sweep'[t].at \subseteq Gone'
      /\ \A t, u \in Recording' : sweep'[t].at \cap sweep'[u].at # {} => t = u
  BY <1>1, <1>7 DEF LedgerInv
<1>. QED
  BY <1>1, <1>3, <1>4, <1>6, <1>8 DEF LedgerInv

\* The sweeps' steps are what they were.
LEMMA LedgerQuiet ==
  ASSUME TypeInv, LedgerInv, UNCHANGED <<files, ledger>>, cuts' \in Nat, cuts' >= cuts,
         \A t \in Sweepers : sweep'[t].step = sweep[t].step /\ sweep'[t].at = sweep[t].at
  PROVE  LedgerInv'
<1>0. cuts \in Nat
  BY RetentionAssumption DEF TypeInv, CutTypes
<1>1. Gone' = Gone /\ Recording' = Recording
  BY DEF Gone, Recording
<1>2. Cardinality(Gone) \in Nat /\ Cardinality(Recording) \in Nat
  BY FS_CardinalityType DEF LedgerInv
<1>3. /\ \A t \in Recording' : sweep'[t].at \subseteq Gone'
      /\ \A t, u \in Recording' : sweep'[t].at \cap sweep'[u].at # {} => t = u
  BY <1>1 DEF LedgerInv, Recording
<1>4. \A a \in Artifacts : ledger'[a] <= 1 /\ (ledger'[a] = 1 => a \notin files')
  BY DEF LedgerInv
<1>. QED
  BY <1>0, <1>1, <1>2, <1>3, <1>4 DEF LedgerInv

\* A deletion is due to be recorded.
LEMMA UnlinkIsDue ==
  ASSUME TypeInv, LedgerInv, NEW s \in Sweepers, UnlinkFile(s)
  PROVE  LedgerInv'
<1>0. SweepTypes /\ cuts \in Nat /\ cuts' = cuts
  BY RetentionAssumption DEF TypeInv, CutTypes, UnlinkFile
<1>1. PICK a \in Artifacts : sweep[s].at = {a}
  BY <1>0 DEF UnlinkFile, SweepTypes
<1>2. a \in files /\ files' = files \ {a} /\ ledger' = ledger
      /\ sweep[s].step = "unlink" /\ sweep' = [sweep EXCEPT ![s].step = "record", ![s].log = {}]
  BY <1>1 DEF UnlinkFile
<1>3. /\ \A t \in Sweepers : t # s => sweep'[t] = sweep[t]
      /\ sweep'[s].step = "record" /\ sweep'[s].at = {a}
  <2>1. sweep[s] \in SweepT
    BY <1>0 DEF SweepTypes
  <2>. QED
    BY <1>0, <1>1, <1>2, <2>1 DEF SweepTypes, SweepT
<1>4. ledger[a] = 0
  <2>1. ledger[a] \in Nat /\ ledger[a] <= 1 /\ ledger[a] # 1
    BY <1>0, <1>2 DEF LedgerInv, SweepTypes
  <2>. QED
    BY <2>1
<1>5. Gone' = Gone \cup {a} /\ a \notin Gone
  BY <1>2, <1>4 DEF Gone
<1>6. Recording' = Recording \cup {s} /\ s \notin Recording
  BY <1>2, <1>3 DEF Recording
<1>7. /\ IsFiniteSet(Gone') /\ IsFiniteSet(Recording')
      /\ Cardinality(Gone') = Cardinality(Gone) + 1 /\ Cardinality(Recording') = Cardinality(Recording) + 1
      /\ Cardinality(Gone) \in Nat /\ Cardinality(Recording) \in Nat
  BY <1>5, <1>6, FS_AddElement, FS_CardinalityType DEF LedgerInv
<1>8. Cardinality(Gone') <= cuts' + Cardinality(Recording')
  BY <1>0, <1>7 DEF LedgerInv
<1>9. \A t \in Recording : sweep'[t].at \subseteq Gone /\ sweep'[t].at = sweep[t].at
  BY <1>3, <1>6 DEF LedgerInv, Recording
<1>10. \A t \in Recording' : sweep'[t].at \subseteq Gone'
  BY <1>3, <1>5, <1>6, <1>9
<1>11. \A t, u \in Recording' : sweep'[t].at \cap sweep'[u].at # {} => t = u
  <2>1. \A t, u \in Recording : sweep'[t].at \cap sweep'[u].at # {} => t = u
    BY <1>9 DEF LedgerInv
  <2>2. \A t \in Recording : sweep'[t].at \cap sweep'[s].at = {}
    BY <1>3, <1>5, <1>9
  <2>. QED
    BY <1>6, <2>1, <2>2
<1>12. \A b \in Artifacts : ledger'[b] <= 1 /\ (ledger'[b] = 1 => b \notin files')
  BY <1>2 DEF LedgerInv
<1>. QED
  BY <1>7, <1>8, <1>10, <1>11, <1>12 DEF LedgerInv

\* A record pays for its deletion.
LEMMA RecordPays ==
  ASSUME TypeInv, LedgerInv, NEW s \in Sweepers, RecordDeletion(s)
  PROVE  LedgerInv'
<1>0. SweepTypes /\ cuts \in Nat /\ cuts' = cuts
  BY RetentionAssumption DEF TypeInv, CutTypes, RecordDeletion
<1>1. PICK a \in Artifacts : sweep[s].at = {a}
  BY <1>0 DEF RecordDeletion, SweepTypes
<1>2. /\ ledger' = [b \in Artifacts |-> IF b = a THEN ledger[b] + 1 ELSE ledger[b]]
      /\ files' = files /\ sweep[s].step = "record" /\ GoOn(s, sweep[s].todo)
  BY <1>1 DEF RecordDeletion
<1>3. (\A t \in Sweepers : t # s => sweep'[t] = sweep[t]) /\ sweep'[s].step \in {"idle", "look"}
  BY <1>0, <1>2, GoneOn
<1>4. s \in Recording /\ a \in Gone
  BY <1>1, <1>2 DEF Recording, LedgerInv
<1>5. ledger[a] = 0 /\ a \notin files /\ ledger'[a] = 1 /\ \A b \in Artifacts : b # a => ledger'[b] = ledger[b]
  BY <1>2, <1>4 DEF Gone
<1>6. Gone' = Gone \ {a}
  BY <1>2, <1>5 DEF Gone
<1>7. Recording' = Recording \ {s}
  BY <1>3 DEF Recording
<1>8. /\ IsFiniteSet(Gone') /\ IsFiniteSet(Recording')
      /\ Cardinality(Gone') = Cardinality(Gone) - 1 /\ Cardinality(Recording') = Cardinality(Recording) - 1
      /\ Cardinality(Gone) \in Nat /\ Cardinality(Recording) \in Nat
  BY <1>4, <1>6, <1>7, FS_RemoveElement, FS_CardinalityType DEF LedgerInv
<1>9. Cardinality(Gone') <= cuts' + Cardinality(Recording')
  BY <1>0, <1>8 DEF LedgerInv
<1>10. \A t \in Recording' : t \in Recording /\ t # s /\ sweep'[t].at = sweep[t].at
  BY <1>3, <1>7 DEF Recording
<1>11. \A t \in Recording' : sweep'[t].at \subseteq Gone'
  BY <1>1, <1>4, <1>6, <1>10 DEF LedgerInv
<1>12. \A t, u \in Recording' : sweep'[t].at \cap sweep'[u].at # {} => t = u
  BY <1>10 DEF LedgerInv
<1>13. \A b \in Artifacts : ledger'[b] <= 1 /\ (ledger'[b] = 1 => b \notin files')
  BY <1>2, <1>5 DEF LedgerInv
<1>. QED
  BY <1>8, <1>9, <1>11, <1>12, <1>13 DEF LedgerInv

\* At most one record for each artifact, and one missing for each failure at most.
THEOREM LedgerInductive == Spec => []LedgerInv
<1>1. TypeInv /\ Init => LedgerInv
  <2>. SUFFICES ASSUME TypeInv, Init PROVE LedgerInv
    OBVIOUS
  <2>1. Gone = {} /\ Recording = {}
    BY DEF Init, Gone, Recording, NoSweep
  <2>2. cuts = 0 /\ \A a \in Artifacts : ledger[a] = 0
    BY DEF Init
  <2>. QED
    BY <2>1, <2>2, FS_EmptySet DEF LedgerInv
<1>2. TypeInv /\ TypeInv' /\ LedgerInv /\ [Next]_vars => LedgerInv'
  <2>. SUFFICES ASSUME TypeInv, TypeInv', LedgerInv, [Next]_vars PROVE LedgerInv'
    OBVIOUS
  <2>0. SweepTypes /\ cuts \in Nat /\ cuts' \in Nat /\ \A t \in Sweepers : sweep[t] \in SweepT
    BY RetentionAssumption DEF TypeInv, CutTypes, SweepTypes
  <2>1. ASSUME NEW m \in Managers, ManagerStep(m) PROVE LedgerInv'
    <3>1. cuts' >= cuts /\ UNCHANGED <<files, ledger, sweep>>
      BY <2>0, <2>1, ManagersAndSweeps
    <3>. QED
      BY <2>0, <3>1, LedgerQuiet
  <2>2. CASE \/ \E g \in Gaps, status \in {"OPEN", "PARTIAL", "RECOVERED", "UNRECOVERABLE"} : GapChanges(g, status)
             \/ \E archive, stream \in SUBSET Trades : \E differ \in SUBSET ((archive \cap stream) \X (1..3)) :
                  Reconcile(archive, stream, differ)
    <3>1. (\E A : Marked(A)) /\ UNCHANGED <<files, ledger, cuts>>
      BY <2>2, NewlyNeeded DEF Rest
    <3>2. \A t \in Sweepers : sweep'[t].step = sweep[t].step /\ sweep'[t].at = sweep[t].at
      BY <2>0, <3>1 DEF Marked, SweepT
    <3>. QED
      BY <2>0, <3>1, <3>2, LedgerQuiet
  <2>3. ASSUME NEW a \in Artifacts, Expire(a) PROVE LedgerInv'
    BY <2>0, <2>3, LedgerQuiet DEF Expire, sweepVars
  <2>4. ASSUME NEW s \in Sweepers, StartSweep(s) PROVE LedgerInv'
    <3>. DEFINE new == [NoSweep EXCEPT !.step = "look", !.todo = files, !.keep = Evidence \cup (files \ old)]
    <3>1. sweep' = [sweep EXCEPT ![s] = new] /\ UNCHANGED <<files, ledger, cuts>> /\ sweep[s].step = "idle"
      BY <2>4 DEF StartSweep
    <3>2. new.step = "look"
      BY DEF NoSweep
    <3>. HIDE DEF new
    <3>3. sweep'[s] = new /\ \A t \in Sweepers : t # s => sweep'[t] = sweep[t]
      BY <2>0, <3>1 DEF SweepTypes
    <3>. QED
      BY <2>0, <3>1, <3>2, <3>3, RecordForgone
  <2>5. ASSUME NEW s \in Sweepers, NEW a \in Artifacts, Look(s, a) PROVE LedgerInv'
    <3>1. sweep[s].step = "look" /\ UNCHANGED <<files, ledger, cuts>>
      BY <2>5 DEF Look
    <3>2. CASE GoOn(s, sweep[s].todo \ {a})
      <4>1. (\A t \in Sweepers : t # s => sweep'[t] = sweep[t]) /\ sweep'[s].step \in {"idle", "look"}
        BY <2>0, <3>2, GoneOn
      <4>. QED
        BY <2>0, <3>1, <4>1, RecordForgone
    <3>3. CASE sweep' = [sweep EXCEPT ![s].todo = @ \ {a}, ![s].at = {a}, ![s].step = "unlink", ![s].log = events]
      <4>1. sweep'[s].step = "unlink"
        <5>1. sweep[s] \in SweepT
          BY <2>0
        <5>. QED
          BY <2>0, <3>3, <5>1 DEF SweepT, SweepTypes
      <4>2. \A t \in Sweepers : t # s => sweep'[t] = sweep[t]
        BY <2>0, <3>3 DEF SweepTypes
      <4>. QED
        BY <2>0, <3>1, <4>1, <4>2, RecordForgone
    <3>. QED
      BY <2>5, <3>2, <3>3 DEF Look
  <2>6. ASSUME NEW s \in Sweepers, FileFails(s) PROVE LedgerInv'
    <3>1. UNCHANGED <<files, ledger>> /\ cuts' >= cuts + (IF sweep[s].step = "record" THEN 1 ELSE 0)
      BY <2>0, <2>6 DEF FileFails
    <3>2. (\A t \in Sweepers : t # s => sweep'[t] = sweep[t]) /\ sweep'[s].step \in {"idle", "look"}
      BY <2>0, <2>6, GoneOn DEF FileFails
    <3>. QED
      BY <2>0, <3>1, <3>2, RecordForgone
  <2>7. ASSUME NEW s \in Sweepers, SweepDies(s) PROVE LedgerInv'
    <3>1. UNCHANGED <<files, ledger>> /\ cuts' = cuts + 1 /\ sweep' = [sweep EXCEPT ![s] = NoSweep]
      BY <2>7 DEF SweepDies
    <3>2. sweep'[s].step = "idle" /\ \A t \in Sweepers : t # s => sweep'[t] = sweep[t]
      BY <2>0, <3>1 DEF SweepTypes, NoSweep
    <3>. QED
      BY <2>0, <3>1, <3>2, RecordForgone
  <2>8. CASE UNCHANGED vars
    BY <2>0, <2>8, LedgerQuiet DEF vars, sweepVars
  <2>. QED
    BY <2>1, <2>2, <2>3, <2>4, <2>5, <2>6, <2>7, <2>8, UnlinkIsDue, RecordPays DEF Next, ManagerStep
<1>. QED
  BY <1>1, <1>2, TypeCorrect, PTL DEF Spec

\* The ledger is exact, however many sweeps overlap.
THEOREM LedgerHolds == Spec => []LedgerIsExact
<1>1. LedgerInv => LedgerIsExact
  BY DEF LedgerInv, LedgerIsExact, Gone, Recording
<1>. QED
  BY <1>1, LedgerInductive, PTL
-----------------------------------------------------------------------------
(* Holds                                                                   *)

\* What has been told of is in the log, or due to a manager.
LEMMA ToldIs ==
  ASSUME NEW e
  PROVE  e \in Told <=> e \in events \/ \E m \in Managers : manager[m].step \in {"write", "log"} /\ e = EventOf(m)
BY DEF Told, Due

\* What the log tells, or will tell, after a step.
LEMMA ToldNextIs ==
  ASSUME NEW e
  PROVE  e \in Told' <=> \/ e \in events'
                         \/ \E m \in Managers : manager'[m].step \in {"write", "log"} /\ e = EventOf(m)'
BY DEF Told, Due

\* Replaying one creation more adds the hold.
LEMMA ReplayCreation ==
  ASSUME NEW log, NEW hold \in Hold, hold.active, \A c \in log : c.id # hold.id,
         NEW e, e.id = hold.id, e.over = hold.over, e.action = "CREATED"
  PROVE  Replay(log \cup {e}) = Changed(Replay(log), hold, "CREATED")
<1>. DEFINE Creations(L) == {c \in L : c.action = "CREATED"}
<1>1. Creations(log \cup {e}) = Creations(log) \cup {e}
  OBVIOUS
<1>2. \A i : Removed(log \cup {e}, i) <=> Removed(log, i)
  BY DEF Removed
<1>3. \A c : HoldOf(log \cup {e}, c) = HoldOf(log, c)
  BY <1>2 DEF HoldOf
<1>4. ~Removed(log, e.id)
  BY DEF Removed
<1>5. HoldOf(log, e) = hold
  BY <1>4 DEF HoldOf, Hold
<1>6. Replay(log \cup {e}) = {HoldOf(log, c) : c \in Creations(log) \cup {e}}
  BY <1>1, <1>3 DEF Replay
<1>7. Replay(log) = {HoldOf(log, c) : c \in Creations(log)}
  BY DEF Replay
<1>. HIDE DEF Creations
<1>8. {HoldOf(log, c) : c \in Creations(log) \cup {e}} = {HoldOf(log, c) : c \in Creations(log)} \cup {HoldOf(log, e)}
  OBVIOUS
<1>. QED
  BY <1>5, <1>6, <1>7, <1>8 DEF Changed

\* Replaying one removal more ends the hold.
LEMMA ReplayRemoval ==
  ASSUME NEW log, NEW hold \in Hold, hold.active, hold \in Replay(log),
         \A c, d \in log : c.action = "CREATED" /\ d.action = "CREATED" /\ c.id = d.id => c = d,
         NEW e, e.id = hold.id, e.action = "REMOVED"
  PROVE  Replay(log \cup {e}) = Changed(Replay(log), hold, "REMOVED")
<1>. DEFINE C == {c \in log : c.action = "CREATED"}
            ended == [hold EXCEPT !.active = FALSE]
<1>1. {c \in log \cup {e} : c.action = "CREATED"} = C
  OBVIOUS
<1>2. \A i : Removed(log \cup {e}, i) <=> Removed(log, i) \/ i = hold.id
  BY DEF Removed
<1>3. PICK o \in C : hold = HoldOf(log, o)
  BY DEF Replay
<1>4. o.id = hold.id /\ o.over = hold.over
  BY <1>3 DEF HoldOf
<1>5. HoldOf(log \cup {e}, o) = ended
  <2>1. Removed(log \cup {e}, o.id)
    BY <1>2, <1>4
  <2>2. ended = [id |-> hold.id, over |-> hold.over, active |-> FALSE]
    <3>1. ended \in Hold /\ ended.id = hold.id /\ ended.over = hold.over /\ ended.active = FALSE
      BY DEF Hold
    <3>. HIDE DEF ended
    <3>. QED
      BY <3>1 DEF Hold
  <2>. QED
    BY <1>4, <2>1, <2>2 DEF HoldOf
<1>6. ASSUME NEW c \in C, c # o
      PROVE  HoldOf(log \cup {e}, c) = HoldOf(log, c) /\ HoldOf(log, c) # hold
  <2>1. c.id # hold.id
    BY <1>3, <1>4, <1>6
  <2>2. Removed(log \cup {e}, c.id) <=> Removed(log, c.id)
    BY <1>2, <2>1
  <2>3. HoldOf(log, c).id = c.id
    BY DEF HoldOf
  <2>. QED
    BY <2>1, <2>2, <2>3 DEF HoldOf
<1>7. Replay(log \cup {e}) = {HoldOf(log \cup {e}, c) : c \in C}
  BY <1>1 DEF Replay
<1>8. Replay(log) = {HoldOf(log, c) : c \in C}
  BY DEF Replay
<1>. HIDE DEF C, ended
<1>9. {HoldOf(log \cup {e}, c) : c \in C} = ({HoldOf(log, c) : c \in C} \ {hold}) \cup {ended}
  <2>1. ASSUME NEW x \in {HoldOf(log \cup {e}, c) : c \in C}
        PROVE  x \in ({HoldOf(log, c) : c \in C} \ {hold}) \cup {ended}
    BY <1>5, <1>6
  <2>2. ASSUME NEW x \in {HoldOf(log, c) : c \in C} \ {hold} PROVE x \in {HoldOf(log \cup {e}, c) : c \in C}
    <3>1. PICK c \in C : x = HoldOf(log, c)
      OBVIOUS
    <3>2. c # o
      BY <1>3, <3>1
    <3>. QED
      BY <1>6, <3>1, <3>2
  <2>3. ended \in {HoldOf(log \cup {e}, c) : c \in C}
    BY <1>3, <1>5
  <2>. QED
    BY <2>1, <2>2, <2>3
<1>. QED
  BY <1>7, <1>8, <1>9 DEF Changed, ended

\* A manager that begins a change has read what the log tells.
LEMMA BegunHolds ==
  ASSUME TypeInv, HoldInv, ~undermined', NEW m \in Managers, manager[m].step = "idle",
         NEW hold \in Hold, hold.active, NEW action \in {"CREATED", "REMOVED"},
         Begin(m, Changed(Listed, hold, action), hold, action),
         IF action = "CREATED" THEN added' = added + 1 /\ hold.id = added + 1
                               ELSE added' = added /\ hold \in Listed
  PROVE  HoldInv'
<1>. DEFINE new == [step |-> "open", read |-> holds, list |-> Changed(Listed, hold, action),
                    hold |-> hold, action |-> action]
<1>1. /\ manager' = [manager EXCEPT ![m] = new] /\ UNCHANGED <<holds, events>>
      /\ ~undermined /\ holds # Torn
  BY DEF Begin
<1>2. FileReplays /\ ChangeBegun /\ FreshIds /\ HoldTypes /\ added \in Nat
  BY <1>1 DEF HoldInv, TypeInv, HoldTypes
<1>3. Listed = holds
  BY <1>1, <1>2, ListedHolds
<1>4. /\ new.step = "open" /\ new.read = holds /\ new.list = Changed(holds, hold, action)
      /\ new.hold = hold /\ new.action = action
  BY <1>3
<1>. HIDE DEF new
<1>5. manager'[m] = new /\ \A n \in Managers : n # m => manager'[n] = manager[n]
  BY <1>1, <1>2 DEF HoldTypes
<1>6. \A n \in Managers : manager[n].step # "write"
  BY <1>1, <1>2 DEF FileReplays
<1>7. Told' = Told
  <2>1. ASSUME NEW e PROVE e \in Told' <=> e \in Told
    <3>1. \A n \in Managers : n # m => EventOf(n)' = EventOf(n)
      BY <1>5 DEF EventOf
    <3>. QED
      BY <1>1, <1>4, <1>5, <3>1, ToldIs, ToldNextIs
  <2>. QED
    BY <2>1
<1>8. holds = Replay(Told)
  BY <1>2, <1>6 DEF FileReplays
<1>9. FileReplays'
  BY <1>1, <1>4, <1>5, <1>6, <1>7, <1>8 DEF FileReplays
<1>10. ChangeBegun'
  <2>1. action = "REMOVED" => hold \in holds
    BY <1>3
  <2>. QED
    BY <1>1, <1>2, <1>4, <1>5, <2>1 DEF ChangeBegun
<1>11. hold.id <= added' /\ added <= added' /\ added' \in Nat /\ (action = "CREATED" => hold.id > added)
       /\ (action = "REMOVED" => \E e \in Told : e.id = hold.id)
  <2>1. CASE action = "CREATED"
    BY <1>2, <2>1
  <2>2. CASE action = "REMOVED"
    <3>1. hold \in Replay(Told) /\ added' = added
      BY <1>3, <1>8, <2>2
    <3>2. PICK e \in Told : hold.id = e.id
      BY <3>1 DEF Replay, HoldOf
    <3>. QED
      BY <1>2, <2>2, <3>1, <3>2 DEF FreshIds
  <2>. QED
    BY <2>1, <2>2
<1>12. FreshIds'
  <2>0. hold.id \in Nat /\ (\A e \in Told : e.id \in Nat)
        /\ \A n \in Managers : manager[n].step # "idle" => manager[n].hold.id \in Nat
    <3>1. \A n \in Managers : manager[n].step # "idle" => manager[n].hold \in Hold
      BY <1>2 DEF HoldTypes
    <3>2. \A n \in Managers : manager[n].step # "idle" => EventOf(n).id \in Nat
      BY <3>1 DEF EventOf, Hold
    <3>3. \A e \in events : e.id \in Nat
      BY <1>2 DEF HoldTypes, HoldEvent
    <3>. QED
      BY <3>1, <3>2, <3>3, ToldIs DEF Hold
  <2>1. \A e \in Told' : e.id <= added'
    BY <1>2, <1>7, <1>11, <2>0 DEF FreshIds
  <2>2. \A e, f \in Told' : e.action = "CREATED" /\ f.action = "CREATED" /\ e.id = f.id => e = f
    BY <1>2, <1>7 DEF FreshIds
  <2>3. ASSUME NEW n \in Managers, manager'[n].step # "idle" PROVE manager'[n].hold.id <= added'
    <3>1. CASE n = m
      BY <1>4, <1>5, <1>11, <3>1
    <3>2. CASE n # m
      BY <1>2, <1>5, <1>11, <2>0, <2>3, <3>2 DEF FreshIds
    <3>. QED
      BY <3>1, <3>2
  <2>4. ASSUME NEW n \in Managers, manager'[n].step = "open", manager'[n].action = "CREATED"
        PROVE  /\ \A e \in Told' : e.id # manager'[n].hold.id
               /\ \A k \in Managers \ {n} : manager'[k].step # "idle" => manager'[k].hold.id # manager'[n].hold.id
    <3>1. CASE n = m
      <4>1. manager'[n].hold.id = hold.id /\ hold.id > added
        BY <1>4, <1>5, <1>11, <2>4, <3>1
      <4>2. \A k \in Managers \ {n} : manager'[k] = manager[k]
        BY <1>5, <3>1
      <4>. QED
        BY <1>2, <1>7, <2>0, <4>1, <4>2 DEF FreshIds
    <3>2. CASE n # m
      <4>1. manager'[n] = manager[n] /\ manager[n].step # "idle"
        BY <1>5, <2>4, <3>2
      <4>2. \A e \in Told : e.id # manager[n].hold.id
        BY <1>2, <2>4, <4>1 DEF FreshIds
      <4>3. hold.id # manager[n].hold.id
        <5>1. CASE action = "CREATED"
          <6>1. manager[n].hold.id <= added /\ manager[n].hold.id \in Nat
            BY <1>2, <2>0, <4>1 DEF FreshIds
          <6>. QED
            BY <1>2, <1>11, <2>0, <5>1, <6>1
        <5>2. CASE action = "REMOVED"
          BY <1>11, <4>2, <5>2
        <5>. QED
          BY <5>1, <5>2
      <4>4. ASSUME NEW k \in Managers \ {n}, manager'[k].step # "idle"
            PROVE  manager'[k].hold.id # manager'[n].hold.id
        <5>1. CASE k = m
          BY <1>4, <1>5, <4>1, <4>3, <5>1
        <5>2. CASE k # m
          BY <1>2, <1>5, <2>4, <4>1, <4>4, <5>2 DEF FreshIds
        <5>. QED
          BY <5>1, <5>2
      <4>. QED
        BY <1>7, <4>1, <4>2, <4>4
    <3>. QED
      BY <3>1, <3>2
  <2>. QED
    BY <2>1, <2>2, <2>3, <2>4 DEF FreshIds
<1>. QED
  BY <1>9, <1>10, <1>12 DEF HoldInv
\* What a manager has saved is told of already when it is logged.
LEMMA SavedHolds ==
  ASSUME TypeInv, HoldInv, ~undermined, NEW m \in Managers,
         UNCHANGED added, \A n \in Managers : n # m => manager'[n] = manager[n],
         Told' = Told, FileReplays',
         manager'[m].step \in {"idle", "log"},
         manager'[m].step = "log" => manager[m].step # "idle" /\ manager'[m].hold = manager[m].hold
  PROVE  HoldInv'
<1>1. ChangeBegun /\ FreshIds
  BY DEF HoldInv
<1>2. ChangeBegun'
  BY <1>1 DEF ChangeBegun
<1>3. FreshIds'
  <2>1. /\ \A e \in Told' : e.id <= added'
        /\ \A e, f \in Told' : e.action = "CREATED" /\ f.action = "CREATED" /\ e.id = f.id => e = f
    BY <1>1 DEF FreshIds
  <2>2. ASSUME NEW n \in Managers, manager'[n].step # "idle"
        PROVE  manager'[n].hold = manager[n].hold /\ manager[n].step # "idle"
    BY <2>2
  <2>3. \A n \in Managers : manager'[n].step # "idle" => manager'[n].hold.id <= added'
    BY <1>1, <2>2 DEF FreshIds
  <2>4. ASSUME NEW n \in Managers, manager'[n].step = "open", manager'[n].action = "CREATED"
        PROVE  /\ \A e \in Told' : e.id # manager'[n].hold.id
               /\ \A k \in Managers \ {n} : manager'[k].step # "idle" => manager'[k].hold.id # manager'[n].hold.id
    <3>1. n # m /\ manager'[n] = manager[n]
      BY <2>4
    <3>. QED
      BY <1>1, <2>2, <2>4, <3>1 DEF FreshIds
  <2>. QED
    BY <2>1, <2>3, <2>4 DEF FreshIds
<1>. QED
  BY <1>2, <1>3 DEF HoldInv

\* A sweep's step leaves the holds alone.
SweepStep(s) ==
  \/ StartSweep(s)
  \/ \E a \in Artifacts : Look(s, a)
  \/ UnlinkFile(s) \/ RecordDeletion(s) \/ FileFails(s) \/ SweepDies(s)

\* The sweeps touch no hold, and a hold once undermined stays so.
LEMMA SweepsAndHolds ==
  ASSUME NEW s \in Sweepers, SweepStep(s)
  PROVE  UNCHANGED holdVars /\ (undermined => undermined')
<1>1. CASE \E a \in Artifacts : Look(s, a)
  BY <1>1 DEF Look
<1>2. CASE StartSweep(s) \/ UnlinkFile(s)
  BY <1>2 DEF StartSweep, UnlinkFile
<1>3. CASE RecordDeletion(s) \/ FileFails(s) \/ SweepDies(s)
  BY <1>3 DEF RecordDeletion, FileFails, SweepDies
<1>. QED
  BY <1>1, <1>2, <1>3 DEF SweepStep

\* As long as nothing has gone wrong, the holds file replays its log.
THEOREM HoldsInductive == Spec => []HoldInv
<1>1. TypeInv /\ Init => HoldInv
  <2>. SUFFICES ASSUME TypeInv, Init PROVE HoldInv
    OBVIOUS
  <2>1. Told = {}
    BY DEF Init, Told, Due, Resting
  <2>2. FileReplays
    BY <2>1 DEF Init, FileReplays, Replay, Resting
  <2>3. ChangeBegun /\ FreshIds
    BY <2>1 DEF Init, ChangeBegun, FreshIds, Resting
  <2>. QED
    BY <2>2, <2>3 DEF HoldInv
<1>2. TypeInv /\ HoldInv /\ [Next]_vars => HoldInv'
  <2>. SUFFICES ASSUME TypeInv, HoldInv, [Next]_vars PROVE HoldInv'
    OBVIOUS
  <2>0. HoldTypes /\ \A n \in Managers : manager[n] \in ManagerT
    BY DEF TypeInv, HoldTypes
  <2>1. ASSUME UNCHANGED holdVars, undermined => undermined' PROVE HoldInv'
    <3>1. UNCHANGED <<holds, events, manager, added>>
      BY <2>1 DEF holdVars
    <3>2. Told' = Told
      BY <3>1 DEF Told, Due, EventOf
    <3>3. FileReplays => FileReplays'
      BY <3>1, <3>2 DEF FileReplays
    <3>4. ChangeBegun => ChangeBegun'
      BY <3>1 DEF ChangeBegun
    <3>5. FreshIds => FreshIds'
      BY <3>1, <3>2 DEF FreshIds
    <3>. QED
      BY <2>1, <3>3, <3>4, <3>5 DEF HoldInv
  <2>2. ASSUME NEW m \in Managers, NEW over \in Targets, AddHold(m, over) PROVE HoldInv'
    <3>. DEFINE hold == [id |-> added + 1, over |-> over, active |-> TRUE]
    <3>1. hold \in Hold /\ hold.active /\ hold.id = added + 1
      BY <2>0, <2>2, RetentionAssumption DEF AddHold, HoldTypes, Hold
    <3>2. Begin(m, Listed \cup {hold}, hold, "CREATED")
      BY <2>2, Zenon DEF AddHold
    <3>3. added' = added + 1 /\ manager[m].step = "idle"
      BY <2>2 DEF AddHold
    <3>. HIDE DEF hold
    <3>4. Begin(m, Changed(Listed, hold, "CREATED"), hold, "CREATED")
      BY <3>2 DEF Changed
    <3>5. CASE ~undermined'
      BY <3>1, <3>3, <3>4, <3>5, BegunHolds
    <3>. QED
      BY <3>5 DEF HoldInv
  <2>3. ASSUME NEW m \in Managers, RemoveHold(m) PROVE HoldInv'
    <3>1. PICK hold \in {h \in Listed : h.active} :
            Begin(m, (Listed \ {hold}) \cup {[hold EXCEPT !.active = FALSE]}, hold, "REMOVED")
      BY <2>3, Zenon DEF RemoveHold
    <3>2. hold \in Hold /\ hold.active /\ hold \in Listed /\ added' = added /\ manager[m].step = "idle"
      BY <2>0, <2>3, <3>1, ListedHolds DEF RemoveHold
    <3>3. Begin(m, Changed(Listed, hold, "REMOVED"), hold, "REMOVED")
      BY <3>1 DEF Changed
    <3>4. CASE ~undermined'
      BY <3>2, <3>3, <3>4, BegunHolds
    <3>. QED
      BY <3>4 DEF HoldInv
  <2>4. ASSUME NEW m \in Managers, OpenHolds(m) PROVE HoldInv'
    <3>. SUFFICES ASSUME ~undermined' PROVE FileReplays' /\ ChangeBegun' /\ FreshIds'
      BY DEF HoldInv
    <3>1. /\ manager[m].step = "open" /\ holds' = Torn /\ UNCHANGED <<events, added>>
          /\ manager' = [manager EXCEPT ![m].step = "write", ![m].read = {}]
          /\ ~undermined /\ holds = manager[m].read
      BY <2>4 DEF OpenHolds
    <3>2. FileReplays /\ ChangeBegun /\ FreshIds
      BY <3>1 DEF HoldInv
    <3>3. /\ manager'[m].step = "write" /\ manager'[m].list = manager[m].list
          /\ manager'[m].hold = manager[m].hold /\ manager'[m].action = manager[m].action
      BY <2>0, <3>1 DEF HoldTypes, ManagerT
    <3>4. \A n \in Managers : n # m => manager'[n] = manager[n]
      BY <2>0, <3>1 DEF HoldTypes
    <3>5. /\ holds # Torn /\ manager[m].hold.active /\ manager[m].hold \in Hold
          /\ manager[m].list = Changed(holds, manager[m].hold, manager[m].action)
          /\ manager[m].action = "REMOVED" => manager[m].hold \in holds
          /\ manager[m].action \in {"CREATED", "REMOVED"}
      BY <2>0, <3>1, <3>2 DEF ChangeBegun, HoldTypes, ManagerT
    <3>6. \A n \in Managers : manager[n].step # "write"
      BY <3>2, <3>5 DEF FileReplays
    <3>7. holds = Replay(Told)
      BY <3>2, <3>6 DEF FileReplays
    <3>8. Told' = Told \cup {EventOf(m)}
      <4>1. ASSUME NEW e PROVE e \in Told' <=> e \in Told \cup {EventOf(m)}
        <5>1. \A n \in Managers : EventOf(n)' = EventOf(n)
          BY <3>3, <3>4 DEF EventOf
        <5>2. ASSUME NEW n \in Managers, n # m
              PROVE  manager'[n].step \in {"write", "log"} /\ e = EventOf(n)'
                       <=> manager[n].step \in {"write", "log"} /\ e = EventOf(n)
          BY <3>4, <5>1, <5>2
        <5>3. manager'[m].step \in {"write", "log"} /\ manager[m].step \notin {"write", "log"} /\ EventOf(m)' = EventOf(m)
          BY <3>1, <3>3, <5>1
        <5>. QED
          BY <3>1, <5>2, <5>3, ToldIs, ToldNextIs, Zenon
      <4>. QED
        BY <4>1
    <3>9. EventOf(m).id = manager[m].hold.id /\ EventOf(m).over = manager[m].hold.over
          /\ EventOf(m).action = manager[m].action
      BY DEF EventOf
    <3>10. manager[m].list = Replay(Told')
      <4>1. CASE manager[m].action = "CREATED"
        <5>1. \A c \in Told : c.id # manager[m].hold.id
          BY <3>1, <3>2, <4>1 DEF FreshIds
        <5>2. Replay(Told \cup {EventOf(m)}) = Changed(Replay(Told), manager[m].hold, "CREATED")
          BY <3>5, <3>9, <4>1, <5>1, ReplayCreation
        <5>. QED
          BY <3>5, <3>7, <3>8, <4>1, <5>2
      <4>2. CASE manager[m].action = "REMOVED"
        <5>1. \A c, d \in Told : c.action = "CREATED" /\ d.action = "CREATED" /\ c.id = d.id => c = d
          BY <3>2 DEF FreshIds
        <5>2. Replay(Told \cup {EventOf(m)}) = Changed(Replay(Told), manager[m].hold, "REMOVED")
          BY <3>5, <3>7, <3>9, <4>2, <5>1, ReplayRemoval
        <5>. QED
          BY <3>5, <3>7, <3>8, <4>2, <5>2
      <4>. QED
        BY <3>5, <4>1, <4>2
    <3>11. FileReplays'
      BY <3>1, <3>3, <3>4, <3>6, <3>10 DEF FileReplays
    <3>12. ChangeBegun'
      BY <3>2, <3>3, <3>4 DEF ChangeBegun
    <3>13. FreshIds'
      <4>1. manager[m].hold.id <= added /\ \A e \in Told' : e.id <= added'
        BY <3>1, <3>2, <3>8, <3>9 DEF FreshIds
      <4>2. ASSUME NEW e \in Told', NEW f \in Told', e.action = "CREATED", f.action = "CREATED", e.id = f.id
            PROVE  e = f
        <5>1. CASE manager[m].action = "CREATED"
          <6>1. \A c \in Told : c.id # EventOf(m).id
            BY <3>1, <3>2, <3>9, <5>1 DEF FreshIds
          <6>. QED
            BY <3>2, <3>8, <4>2, <6>1 DEF FreshIds
        <5>2. CASE manager[m].action # "CREATED"
          BY <3>2, <3>8, <3>9, <4>2, <5>2 DEF FreshIds
        <5>. QED
          BY <5>1, <5>2
      <4>3. ASSUME NEW n \in Managers, manager'[n].step # "idle"
            PROVE  manager'[n].hold = manager[n].hold /\ manager[n].step # "idle"
        BY <3>1, <3>3, <3>4, <4>3
      <4>4. \A n \in Managers : manager'[n].step # "idle" => manager'[n].hold.id <= added'
        BY <3>1, <3>2, <4>3 DEF FreshIds
      <4>5. ASSUME NEW n \in Managers, manager'[n].step = "open", manager'[n].action = "CREATED"
            PROVE  /\ \A e \in Told' : e.id # manager'[n].hold.id
                   /\ \A k \in Managers \ {n} : manager'[k].step # "idle" => manager'[k].hold.id # manager'[n].hold.id
        <5>1. n # m /\ manager'[n] = manager[n]
          BY <3>3, <3>4, <4>5
        <5>2. \A k \in Managers \ {n} : manager[k].step # "idle" => manager[k].hold.id # manager[n].hold.id
          BY <3>2, <4>5, <5>1 DEF FreshIds
        <5>3. manager[m].hold.id # manager[n].hold.id
          BY <3>1, <5>1, <5>2
        <5>4. \A e \in Told : e.id # manager[n].hold.id
          BY <3>2, <4>5, <5>1 DEF FreshIds
        <5>. QED
          BY <3>8, <3>9, <4>3, <5>1, <5>2, <5>3, <5>4
      <4>. QED
        BY <4>1, <4>2, <4>4, <4>5 DEF FreshIds
    <3>. QED
      BY <3>11, <3>12, <3>13
  <2>5. ASSUME NEW m \in Managers, WriteHolds(m) PROVE HoldInv'
    <3>. SUFFICES ASSUME ~undermined' PROVE HoldInv'
      BY DEF HoldInv
    <3>1. /\ manager[m].step = "write" /\ UNCHANGED <<events, added>> /\ undermined' = undermined
          /\ manager' = [manager EXCEPT ![m].step = "log", ![m].list = {}]
          /\ holds' = manager[m].list \/ (holds # Torn /\ holds' = Torn)
      BY <2>5 DEF WriteHolds
    <3>2. FileReplays
      BY <3>1 DEF HoldInv
    <3>3. holds' = Replay(Told) /\ \A n \in Managers : manager[n].step = "write" => n = m
      BY <3>1, <3>2 DEF FileReplays
    <3>4. /\ manager'[m].step = "log" /\ manager'[m].hold = manager[m].hold
          /\ manager'[m].action = manager[m].action
      BY <2>0, <3>1 DEF HoldTypes, ManagerT
    <3>5. \A n \in Managers : n # m => manager'[n] = manager[n]
      BY <2>0, <3>1 DEF HoldTypes
    <3>6. Told' = Told
      <4>1. ASSUME NEW e PROVE e \in Told' <=> e \in Told
        <5>1. \A n \in Managers : EventOf(n)' = EventOf(n)
          BY <3>4, <3>5 DEF EventOf
        <5>2. ASSUME NEW n \in Managers
              PROVE  manager'[n].step \in {"write", "log"} /\ e = EventOf(n)'
                       <=> manager[n].step \in {"write", "log"} /\ e = EventOf(n)
          BY <3>1, <3>4, <3>5, <5>1
        <5>. QED
          BY <3>1, <5>2, ToldIs, ToldNextIs, Zenon
      <4>. QED
        BY <4>1
    <3>7. FileReplays'
      BY <3>3, <3>4, <3>5, <3>6 DEF FileReplays
    <3>. QED
      BY <3>1, <3>4, <3>5, <3>6, <3>7, SavedHolds
  <2>6. ASSUME NEW m \in Managers, LogHold(m) PROVE HoldInv'
    <3>. SUFFICES ASSUME ~undermined' PROVE HoldInv'
      BY DEF HoldInv
    <3>1. /\ manager[m].step = "log" /\ UNCHANGED <<holds, added>> /\ undermined' = undermined
          /\ manager' = [manager EXCEPT ![m] = Resting] /\ events' = events \cup {EventOf(m)}
      BY <2>6 DEF LogHold, EventOf
    <3>2. manager'[m].step = "idle" /\ \A n \in Managers : n # m => manager'[n] = manager[n]
      BY <2>0, <3>1 DEF HoldTypes, Resting
    <3>3. Told' = Told
      <4>1. ASSUME NEW e PROVE e \in Told' <=> e \in Told
        <5>1. \A n \in Managers : n # m => EventOf(n)' = EventOf(n)
          BY <3>2 DEF EventOf
        <5>. QED
          BY <3>1, <3>2, <5>1, ToldIs, ToldNextIs
      <4>. QED
        BY <4>1
    <3>4. FileReplays'
      BY <3>1, <3>2, <3>3 DEF FileReplays, HoldInv
    <3>. QED
      BY <3>1, <3>2, <3>3, <3>4, SavedHolds
  <2>7. ASSUME NEW m \in Managers, ManagerDies(m) PROVE HoldInv'
    <3>. SUFFICES ASSUME ~undermined' PROVE HoldInv'
      BY DEF HoldInv
    <3>1. /\ manager[m].step = "open" /\ UNCHANGED <<holds, events, added>> /\ ~undermined
          /\ manager' = [manager EXCEPT ![m] = Resting]
      BY <2>7 DEF ManagerDies
    <3>2. manager'[m].step = "idle" /\ \A n \in Managers : n # m => manager'[n] = manager[n]
      BY <2>0, <3>1 DEF HoldTypes, Resting
    <3>3. Told' = Told
      <4>1. ASSUME NEW e PROVE e \in Told' <=> e \in Told
        <5>1. \A n \in Managers : n # m => EventOf(n)' = EventOf(n)
          BY <3>2 DEF EventOf
        <5>. QED
          BY <3>1, <3>2, <5>1, ToldIs, ToldNextIs
      <4>. QED
        BY <4>1
    <3>4. FileReplays'
      BY <3>1, <3>2, <3>3 DEF FileReplays, HoldInv
    <3>. QED
      BY <3>1, <3>2, <3>3, <3>4, SavedHolds
  <2>8. CASE \/ \E g \in Gaps, status \in {"OPEN", "PARTIAL", "RECOVERED", "UNRECOVERABLE"} : GapChanges(g, status)
             \/ \E archive, stream \in SUBSET Trades : \E differ \in SUBSET ((archive \cap stream) \X (1..3)) :
                  Reconcile(archive, stream, differ)
    BY <2>1, <2>8, NewlyNeeded DEF Rest
  <2>9. ASSUME NEW a \in Artifacts, Expire(a) PROVE HoldInv'
    BY <2>1, <2>9 DEF Expire
  <2>10. ASSUME NEW s \in Sweepers, SweepStep(s) PROVE HoldInv'
    BY <2>1, <2>10, SweepsAndHolds
  <2>11. CASE UNCHANGED vars
    BY <2>1, <2>11 DEF vars
  <2>. QED
    BY <2>2, <2>3, <2>4, <2>5, <2>6, <2>7, <2>8, <2>9, <2>10, <2>11 DEF Next, SweepStep
<1>. QED
  BY <1>1, <1>2, TypeCorrect, PTL DEF Spec

\* Between changes, the holds file says what its log says.
THEOREM HoldsMatch == Spec => []HoldsMatchTheirLog
<1>1. TypeInv /\ HoldInv => HoldsMatchTheirLog
  <2>. SUFFICES ASSUME TypeInv, HoldInv, ~undermined, \A m \in Managers : manager[m].step = "idle"
                PROVE  {[id |-> h.id, over |-> h.over] : h \in {g \in Listed : g.active}}
                         = {[id |-> e.id, over |-> e.over] : e \in InForce}
    BY DEF HoldsMatchTheirLog
  <2>1. Told = events
    BY DEF Told, Due
  <2>2. holds = Replay(events)
    BY <2>1 DEF HoldInv, FileReplays
  <2>3. Listed = Replay(events)
    <3>1. HoldTypes
      BY DEF TypeInv
    <3>2. NoHold \notin Replay(events)
      <4>1. \A e \in events : e.id # 0
        BY <3>1 DEF HoldTypes, HoldEvent
      <4>. QED
        BY <4>1 DEF Replay, HoldOf, NoHold
    <3>3. NoHold \in Torn
      BY DEF Torn, NoHold
    <3>. QED
      BY <2>2, <3>1, <3>2, <3>3, ListedHolds
  <2>4. ASSUME NEW e PROVE e \in InForce <=> e \in events /\ e.action = "CREATED" /\ ~Removed(events, e.id)
    BY DEF InForce, Removed
  <2>5. ASSUME NEW e
        PROVE  /\ HoldOf(events, e).active <=> ~Removed(events, e.id)
               /\ HoldOf(events, e).id = e.id /\ HoldOf(events, e).over = e.over
    BY DEF HoldOf
  <2>6. ASSUME NEW x \in {[id |-> h.id, over |-> h.over] : h \in {g \in Listed : g.active}}
        PROVE  x \in {[id |-> e.id, over |-> e.over] : e \in InForce}
    <3>1. PICK h \in Listed : h.active /\ x = [id |-> h.id, over |-> h.over]
      OBVIOUS
    <3>2. PICK e \in events : e.action = "CREATED" /\ h = HoldOf(events, e)
      BY <2>3, <3>1 DEF Replay
    <3>. QED
      BY <2>4, <2>5, <3>1, <3>2
  <2>7. ASSUME NEW x \in {[id |-> e.id, over |-> e.over] : e \in InForce}
        PROVE  x \in {[id |-> h.id, over |-> h.over] : h \in {g \in Listed : g.active}}
    <3>1. PICK e \in InForce : x = [id |-> e.id, over |-> e.over]
      OBVIOUS
    <3>2. HoldOf(events, e) \in Listed
      BY <2>3, <2>4 DEF Replay
    <3>. QED
      BY <2>4, <2>5, <3>1, <3>2
  <2>. QED
    BY <2>6, <2>7
<1>. QED
  BY <1>1, TypeCorrect, HoldsInductive, PTL

\* What has been told of stays told of, unless a manager is killed before it logs.
LEMMA ToldGrows ==
  ASSUME TypeInv, NEW m \in Managers, ManagerStep(m), ~undermined'
  PROVE  Told \subseteq Told' /\ ~undermined
<1>0. manager \in [Managers -> ManagerT]
  BY DEF TypeInv, HoldTypes
<1>1. ~undermined /\ events \subseteq events'
  <2>1. CASE (\E over \in Targets : AddHold(m, over)) \/ RemoveHold(m)
    BY <2>1 DEF AddHold, RemoveHold, Begin
  <2>2. CASE OpenHolds(m)
    BY <2>2 DEF OpenHolds
  <2>3. CASE WriteHolds(m)
    BY <2>3 DEF WriteHolds
  <2>4. CASE LogHold(m)
    BY <2>4 DEF LogHold
  <2>5. CASE ManagerDies(m)
    BY <2>5 DEF ManagerDies
  <2>. QED
    BY <2>1, <2>2, <2>3, <2>4, <2>5 DEF ManagerStep
<1>2. \A n \in Managers : n # m => manager'[n] = manager[n]
  BY <1>0 DEF ManagerStep, AddHold, RemoveHold, Begin, OpenHolds, WriteHolds, LogHold, ManagerDies
<1>3. ASSUME manager[m].step \in {"write", "log"}
      PROVE  EventOf(m) \in Told'
  <2>1. CASE WriteHolds(m)
    <3>1. manager' = [manager EXCEPT ![m].step = "log", ![m].list = {}]
      BY <2>1 DEF WriteHolds
    <3>2. manager'[m].step = "log" /\ manager'[m].hold = manager[m].hold /\ manager'[m].action = manager[m].action
      BY <1>0, <3>1 DEF ManagerT
    <3>. QED
      BY <3>2, ToldNextIs DEF EventOf
  <2>2. CASE LogHold(m)
    <3>1. EventOf(m) \in events'
      BY <2>2 DEF LogHold, EventOf
    <3>. QED
      BY <3>1, ToldNextIs
  <2>3. ~(\E over \in Targets : AddHold(m, over)) /\ ~RemoveHold(m) /\ ~OpenHolds(m) /\ ~ManagerDies(m)
    BY <1>3 DEF AddHold, RemoveHold, OpenHolds, ManagerDies
  <2>. QED
    BY <2>1, <2>2, <2>3 DEF ManagerStep
<1>4. ASSUME NEW e \in Told PROVE e \in Told'
  <2>1. CASE e \in events
    BY <1>1, <2>1, ToldNextIs
  <2>2. ASSUME NEW n \in Managers, manager[n].step \in {"write", "log"}, e = EventOf(n) PROVE e \in Told'
    <3>1. CASE n = m
      BY <1>3, <2>2, <3>1
    <3>2. CASE n # m
      <4>1. manager'[n].step \in {"write", "log"} /\ e = EventOf(n)'
        BY <1>2, <2>2, <3>2 DEF EventOf
      <4>. QED
        BY <4>1, ToldNextIs
    <3>. QED
      BY <3>1, <3>2
  <2>. QED
    BY <2>1, <2>2, ToldIs
<1>. QED
  BY <1>1, <1>4

\* A sweep that is about to delete saw every logged hold on its artifact removed, or
\* about to be.
LetGo(s) ==
  sweep[s].step = "unlink" =>
    \A e \in sweep[s].log : e.action = "CREATED" =>
      (\A a \in sweep[s].at : a \notin e.over) \/ Removed(Told, e.id)
LooksInv == undermined \/ \A s \in Sweepers : LetGo(s)

\* A hold in force holds.
LEMMA InForceIsHeld ==
  ASSUME TypeInv, HoldInv, ~undermined, holds # Torn,
         NEW e \in events, e.action = "CREATED", ~Removed(Told, e.id), NEW a \in e.over
  PROVE  IsHeld(a)
<1>1. FileReplays /\ HoldTypes
  BY DEF HoldInv, TypeInv
<1>2. Listed = Replay(Told)
  BY <1>1, ListedHolds DEF FileReplays
<1>3. HoldOf(Told, e) \in Listed
  BY <1>2, ToldIs DEF Replay
<1>4. HoldOf(Told, e).active /\ HoldOf(Told, e).over = e.over
  BY DEF HoldOf
<1>. QED
  BY <1>3, <1>4 DEF IsHeld

\* What a sweep lets go is not held when it looks.
THEOREM LooksInductive == Spec => []LooksInv
<1>1. Init => LooksInv
  BY DEF Init, LooksInv, LetGo, NoSweep
<1>2. TypeInv /\ HoldInv /\ LooksInv /\ [Next]_vars => LooksInv'
  <2>. SUFFICES ASSUME TypeInv, HoldInv, LooksInv, [Next]_vars, ~undermined' PROVE \A s \in Sweepers : LetGo(s)'
    BY DEF LooksInv
  <2>0. SweepTypes /\ (\A t \in Sweepers : sweep[t] \in SweepT) /\ events \subseteq HoldEvent
    BY DEF TypeInv, SweepTypes, HoldTypes
  <2>1. ASSUME Told \subseteq Told', ~undermined, NEW s \in Sweepers,
               sweep'[s].step = "unlink" => sweep[s].step = "unlink" /\ sweep'[s].at = sweep[s].at /\ sweep'[s].log = sweep[s].log
        PROVE  LetGo(s)'
    <3>1. LetGo(s) /\ \A i : Removed(Told, i) => Removed(Told, i)'
      BY <2>1 DEF LooksInv, Removed
    <3>. QED
      BY <2>1, <3>1 DEF LetGo
  <2>2. UNCHANGED holdVars => Told' = Told
    BY DEF holdVars, Told, Due, EventOf
  <2>3. ASSUME NEW m \in Managers, ManagerStep(m), NEW s \in Sweepers PROVE LetGo(s)'
    BY <2>1, <2>3, ToldGrows, ManagersAndSweeps
  <2>4. CASE \/ \E g \in Gaps, status \in {"OPEN", "PARTIAL", "RECOVERED", "UNRECOVERABLE"} : GapChanges(g, status)
             \/ \E archive, stream \in SUBSET Trades : \E differ \in SUBSET ((archive \cap stream) \X (1..3)) :
                  Reconcile(archive, stream, differ)
    <3>1. UNCHANGED Rest /\ \E A : Marked(A)
      BY <2>4, NewlyNeeded
    <3>2. Told' = Told /\ ~undermined
      BY <2>2, <3>1 DEF Rest
    <3>3. ASSUME NEW t \in Sweepers
          PROVE  sweep'[t].step = sweep[t].step /\ sweep'[t].at = sweep[t].at /\ sweep'[t].log = sweep[t].log
      BY <2>0, <3>1 DEF Marked, SweepT
    <3>. QED
      BY <2>1, <3>2, <3>3
  <2>5. ASSUME NEW a \in Artifacts, Expire(a), NEW s \in Sweepers PROVE LetGo(s)'
    BY <2>1, <2>2, <2>5 DEF Expire, sweepVars
  <2>6. ASSUME NEW s \in Sweepers, SweepStep(s), (\A t \in Sweepers : t # s => sweep'[t] = sweep[t]), LetGo(s)'
        PROVE  \A t \in Sweepers : LetGo(t)'
    BY <2>1, <2>2, <2>6, SweepsAndHolds
  <2>7. ASSUME NEW s \in Sweepers, SweepStep(s), (\A t \in Sweepers : t # s => sweep'[t] = sweep[t]),
               sweep'[s].step # "unlink"
        PROVE  \A t \in Sweepers : LetGo(t)'
    BY <2>6, <2>7 DEF LetGo
  <2>8. ASSUME NEW s \in Sweepers, NEW a \in Artifacts, Look(s, a) PROVE \A t \in Sweepers : LetGo(t)'
    <3>0. SweepStep(s) /\ UNCHANGED holdVars /\ ~undermined /\ holds # Torn
      BY <2>8 DEF SweepStep, Look
    <3>1. CASE GoOn(s, sweep[s].todo \ {a})
      BY <2>0, <2>7, <3>0, <3>1, GoneOn
    <3>2. CASE ~IsHeld(a) /\ sweep' = [sweep EXCEPT ![s].todo = @ \ {a}, ![s].at = {a}, ![s].step = "unlink", ![s].log = events]
      <4>1. sweep'[s].at = {a} /\ sweep'[s].log = events
        <5>1. sweep[s] \in SweepT
          BY <2>0
        <5>. QED
          BY <2>0, <3>2, <5>1 DEF SweepT, SweepTypes
      <4>2. \A t \in Sweepers : t # s => sweep'[t] = sweep[t]
        BY <2>0, <3>2 DEF SweepTypes
      <4>3. ASSUME NEW e \in events, e.action = "CREATED", ~Removed(Told, e.id) PROVE a \notin e.over
        BY <3>0, <3>2, <4>3, InForceIsHeld
      <4>4. Told' = Told
        BY <2>2, <3>0
      <4>5. LetGo(s)'
        BY <4>1, <4>3, <4>4 DEF LetGo, Removed
      <4>. QED
        BY <2>6, <3>0, <4>2, <4>5
    <3>. QED
      BY <2>8, <3>1, <3>2 DEF Look
  <2>9. ASSUME NEW s \in Sweepers, RecordDeletion(s) \/ FileFails(s) PROVE \A t \in Sweepers : LetGo(t)'
    <3>1. GoOn(s, sweep[s].todo) /\ SweepStep(s)
      BY <2>9 DEF RecordDeletion, FileFails, SweepStep
    <3>. QED
      BY <2>0, <2>7, <3>1, GoneOn
  <2>10. ASSUME NEW s \in Sweepers, StartSweep(s) PROVE \A t \in Sweepers : LetGo(t)'
    <3>. DEFINE new == [NoSweep EXCEPT !.step = "look", !.todo = files, !.keep = Evidence \cup (files \ old)]
    <3>1. sweep' = [sweep EXCEPT ![s] = new] /\ SweepStep(s)
      BY <2>10 DEF StartSweep, SweepStep
    <3>2. new.step = "look"
      BY DEF NoSweep
    <3>. HIDE DEF new
    <3>3. sweep'[s] = new /\ \A t \in Sweepers : t # s => sweep'[t] = sweep[t]
      BY <2>0, <3>1 DEF SweepTypes
    <3>. QED
      BY <2>7, <3>1, <3>2, <3>3
  <2>11. ASSUME NEW s \in Sweepers, UnlinkFile(s) PROVE \A t \in Sweepers : LetGo(t)'
    <3>1. SweepStep(s) /\ sweep' = [sweep EXCEPT ![s].step = "record", ![s].log = {}]
      BY <2>11 DEF UnlinkFile, SweepStep
    <3>2. sweep'[s].step = "record"
      BY <2>0, <3>1 DEF SweepTypes, SweepT
    <3>3. \A t \in Sweepers : t # s => sweep'[t] = sweep[t]
      BY <2>0, <3>1 DEF SweepTypes
    <3>. QED
      BY <2>7, <3>1, <3>2, <3>3
  <2>12. ASSUME NEW s \in Sweepers, SweepDies(s) PROVE \A t \in Sweepers : LetGo(t)'
    <3>1. SweepStep(s) /\ sweep' = [sweep EXCEPT ![s] = NoSweep]
      BY <2>12 DEF SweepDies, SweepStep
    <3>2. sweep'[s].step = "idle" /\ \A t \in Sweepers : t # s => sweep'[t] = sweep[t]
      BY <2>0, <3>1 DEF SweepTypes, NoSweep
    <3>. QED
      BY <2>7, <3>1, <3>2
  <2>13. CASE UNCHANGED vars
    <3>1. UNCHANGED holdVars /\ sweep' = sweep /\ undermined' = undermined
      BY <2>13 DEF vars, sweepVars
    <3>. QED
      BY <2>1, <2>2, <3>1
  <2>. QED
    BY <2>3, <2>4, <2>5, <2>8, <2>9, <2>10, <2>11, <2>12, <2>13 DEF Next, ManagerStep
<1>. QED
  BY <1>1, <1>2, TypeCorrect, HoldsInductive, PTL DEF Spec

\* An artifact under a hold in force is deleted only by a sweep that had looked before
\* the hold was logged, or after one of the three accidents of HeldIsKept.
THEOREM HeldIsSafe == Spec => []HeldIsKept
<1>1. Init => HeldIsKept
  BY DEF Init, HeldIsKept
<1>2. TypeInv /\ LooksInv /\ HeldIsKept /\ [Next]_vars => HeldIsKept'
  <2>. SUFFICES ASSUME TypeInv, LooksInv, HeldIsKept, [Next]_vars PROVE HeldIsKept'
    OBVIOUS
  <2>1. ASSUME UNCHANGED heldLost, undermined => undermined' PROVE HeldIsKept'
    BY <2>1 DEF HeldIsKept
  <2>2. ASSUME NEW m \in Managers, ManagerStep(m) PROVE HeldIsKept'
    <3>1. undermined => undermined'
      BY <2>2 DEF ManagerStep, AddHold, RemoveHold, Begin, OpenHolds, WriteHolds, LogHold, ManagerDies
    <3>. QED
      BY <2>1, <2>2, <3>1, ManagersAndSweeps
  <2>3. CASE \/ \E g \in Gaps, status \in {"OPEN", "PARTIAL", "RECOVERED", "UNRECOVERABLE"} : GapChanges(g, status)
             \/ \E archive, stream \in SUBSET Trades : \E differ \in SUBSET ((archive \cap stream) \X (1..3)) :
                  Reconcile(archive, stream, differ)
    BY <2>1, <2>3, NewlyNeeded DEF Rest
  <2>4. ASSUME NEW a \in Artifacts, Expire(a) PROVE HeldIsKept'
    BY <2>1, <2>4 DEF Expire, sweepVars
  <2>5. ASSUME NEW s \in Sweepers, UnlinkFile(s) PROVE HeldIsKept'
    <3>. SUFFICES ASSUME ~undermined PROVE heldLost' = {}
      BY <2>5 DEF HeldIsKept, UnlinkFile
    <3>1. sweep[s].step = "unlink" /\ heldLost = {} /\ LetGo(s)
      BY <2>5 DEF UnlinkFile, HeldIsKept, LooksInv
    <3>2. ASSUME NEW a \in sweep[s].at, NEW e \in InForce \cap sweep[s].log, a \in e.over PROVE FALSE
      <4>1. e.action = "CREATED"
        BY DEF InForce
      <4>2. PICK r \in Told : r.id = e.id /\ r.action = "REMOVED"
        BY <3>1, <3>2, <4>1 DEF LetGo, Removed
      <4>3. CASE r \in events
        BY <4>2, <4>3 DEF InForce
      <4>4. ASSUME NEW m \in Managers, manager[m].step \in {"write", "log"}, r = EventOf(m) PROVE FALSE
        BY <4>2, <4>4 DEF InForce, EventOf
      <4>. QED
        BY <4>3, <4>4, ToldIs
    <3>3. heldLost' = heldLost \cup {a \in sweep[s].at : \E e \in InForce \cap sweep[s].log : a \in e.over}
      BY <2>5 DEF UnlinkFile
    <3>. QED
      BY <3>1, <3>2, <3>3
  <2>6. ASSUME NEW s \in Sweepers,
               \/ StartSweep(s) \/ (\E a \in Artifacts : Look(s, a))
               \/ RecordDeletion(s) \/ FileFails(s) \/ SweepDies(s)
        PROVE  HeldIsKept'
    BY <2>1, <2>6 DEF StartSweep, Look, RecordDeletion, FileFails, SweepDies
  <2>7. CASE UNCHANGED vars
    BY <2>1, <2>7 DEF vars, sweepVars
  <2>. QED
    BY <2>2, <2>3, <2>4, <2>5, <2>6, <2>7 DEF Next, ManagerStep
<1>. QED
  BY <1>1, <1>2, TypeCorrect, LooksInductive, PTL DEF Spec
=============================================================================
