------------------------------- MODULE Retention -------------------------------
(***************************************************************************)
(* The retention sweep (ingestion/retention.py) beside the registries that *)
(* tell it what to keep: the holds, a JSON file that every change reads    *)
(* whole and writes back in place, with an append-only log of the changes; *)
(* the gap registry; and the reconciliation manifest (reconciliation.py).  *)
(* Several processes may manage holds, and several may sweep.              *)
(*                                                                         *)
(* The sweep protects an artifact when a hold's target, a gap's id or a    *)
(* trade's id occurs in its name: here each of them is the set of          *)
(* artifacts it occurs in.  Only artifacts a sweep visits are modelled:    *)
(* raw envelopes and normalized trades.  It looks for derived buckets      *)
(* under a directory name that build_buckets does not use.                 *)
(***************************************************************************)
EXTENDS Integers, FiniteSets

CONSTANTS Artifacts, Managers, Sweepers,
          Gaps, Trades,
          NamedByGap, NamedByTrade,  \* gap or trade -> artifacts whose name contains its id
          Targets,                   \* what a hold may cover: sets of artifacts
          MaxDetails,                \* discrepancies kept in a reconciliation record (50)
          MaxHolds, MaxCuts          \* bounds: holds added, failures and kills

ASSUME RetentionAssumption ==
  /\ Targets \subseteq SUBSET Artifacts /\ Trades \subseteq Nat
  /\ NamedByGap \in [Gaps -> SUBSET Artifacts] /\ NamedByTrade \in [Trades -> SUBSET Artifacts]
  /\ MaxDetails \in Nat /\ MaxHolds \in Nat /\ MaxCuts \in Nat

VARIABLES
  holds,      \* the holds file: a set of [id, over, active], or Torn
  events,     \* the hold event log: [id, over, action]
  manager,    \* of every manager: [step, read, list, hold, action]
  gaps,       \* gap -> status, or "NONE"
  conflicts,  \* artifacts named by a trade that a reconciliation without a match lists
  old,        \* artifacts past their retention
  files,      \* artifacts that exist
  ledger,     \* artifact -> deletion records of it
  sweep,      \* of every sweeper: [step, todo, at, keep, fresh, log]; history: fresh, what
              \* became evidence after the snapshots, and log, the hold events at the last look
  added, cuts, \* history: holds added, failures
  undermined, \* history: the holds file was read torn, overwritten unseen, or left unlogged
  heldLost    \* history: artifacts deleted under a hold logged before the sweep looked

holdVars   == <<holds, events, manager, added>>
sourceVars == <<gaps, conflicts, old>>
sweepVars  == <<files, ledger, sweep, heldLost>>
vars == <<holdVars, sourceVars, sweepVars, cuts, undermined>>

Torn     == {[id |-> 0, over |-> {}, active |-> FALSE]}
NoHold   == [id |-> 0, over |-> {}, active |-> FALSE]
Resting  == [step |-> "idle", read |-> {}, list |-> {}, hold |-> NoHold, action |-> "CREATED"]
NoSweep  == [step |-> "idle", todo |-> {}, at |-> {}, keep |-> {}, fresh |-> {}, log |-> {}]

Unresolved == {"OPEN", "PARTIAL"}   \* UNKNOWN, too, but no code sets it

Init ==
  /\ holds = {} /\ events = {} /\ manager = [m \in Managers |-> Resting] /\ added = 0
  /\ gaps = [g \in Gaps |-> "NONE"] /\ conflicts = {} /\ old = {}
  /\ files = Artifacts /\ ledger = [a \in Artifacts |-> 0]
  /\ sweep = [s \in Sweepers |-> NoSweep] /\ heldLost = {}
  /\ cuts = 0 /\ undermined = FALSE

-----------------------------------------------------------------------------
(* HoldRegistry                                                            *)

\* list_holds: a file that cannot be read holds nothing.
Listed == IF holds = Torn THEN {} ELSE holds

\* The change is made to what was read, to be saved as the whole file.
Begin(m, list, hold, action) ==
  /\ manager' = [manager EXCEPT ![m] = [step |-> "open", read |-> holds, list |-> list,
                                        hold |-> hold, action |-> action]]
  /\ undermined' = (undermined \/ holds = Torn)
  /\ UNCHANGED <<holds, events, sourceVars, sweepVars, cuts>>

\* Mutant of AddHold: the list starts anew.
AddHoldAlone(m, over) ==
  /\ manager[m].step = "idle" /\ added < MaxHolds    \* bound
  /\ added' = added + 1
  /\ LET hold == [id |-> added + 1, over |-> over, active |-> TRUE]
     IN  Begin(m, {hold}, hold, "CREATED")

AddHold(m, over) ==
  /\ manager[m].step = "idle" /\ added < MaxHolds    \* bound
  /\ added' = added + 1
  /\ LET hold == [id |-> added + 1, over |-> over, active |-> TRUE]
     IN  Begin(m, Listed \cup {hold}, hold, "CREATED")

\* Only an active hold can be removed; it stays in the file, inactive.
RemoveHold(m) ==
  /\ manager[m].step = "idle"
  /\ \E hold \in {h \in Listed : h.active} :
       Begin(m, (Listed \ {hold}) \cup {[hold EXCEPT !.active = FALSE]}, hold, "REMOVED")
  /\ UNCHANGED added

\* write_text empties the file ...
OpenHolds(m) ==
  /\ manager[m].step = "open"
  /\ holds' = Torn
  /\ undermined' = (undermined \/ holds # manager[m].read)
  /\ manager' = [manager EXCEPT ![m].step = "write", ![m].read = {}]
  /\ UNCHANGED <<events, added, sourceVars, sweepVars, cuts>>

\* ... and fills it; over what another process has written meanwhile, the end of
\* the longer text may stay.
WriteHolds(m) ==
  /\ manager[m].step = "write"
  /\ \/ holds' = manager[m].list
     \/ holds # Torn /\ holds' = Torn
  /\ manager' = [manager EXCEPT ![m].step = "log", ![m].list = {}]
  /\ UNCHANGED <<events, added, sourceVars, sweepVars, cuts, undermined>>

LogHold(m) ==
  /\ manager[m].step = "log"
  /\ events' = events \cup {[id |-> manager[m].hold.id, over |-> manager[m].hold.over, action |-> manager[m].action]}
  /\ manager' = [manager EXCEPT ![m] = Resting]
  /\ UNCHANGED <<holds, added, sourceVars, sweepVars, cuts, undermined>>

ManagerDies(m) ==
  /\ manager[m].step # "idle"
  /\ cuts < MaxCuts /\ cuts' = cuts + 1              \* bound
  /\ undermined' = (undermined \/ manager[m].step # "open")
  /\ manager' = [manager EXCEPT ![m] = Resting]
  /\ UNCHANGED <<holds, events, added, sourceVars, sweepVars>>

-----------------------------------------------------------------------------
(* The gap registry and the reconciliation manifest                        *)

\* Sweeps that have taken their snapshots see nothing of this.
Marked(artifacts) ==
  sweep' = [s \in Sweepers |->
              [sweep[s] EXCEPT !.fresh = @ \cup (artifacts \cap (sweep[s].todo \cup sweep[s].at))]]

Rest == <<holdVars, old, files, ledger, heldLost, cuts, undermined>>

\* register_gap and update_gap.  A registered gap never becomes OPEN again, but a retry
\* may make a settled one PARTIAL.
GapChanges(g, status) ==
  /\ status # gaps[g] /\ (status = "OPEN" <=> gaps[g] = "NONE")
  /\ gaps' = [gaps EXCEPT ![g] = status]
  /\ Marked(IF gaps[g] \notin Unresolved /\ status \in Unresolved THEN NamedByGap[g] ELSE {})
  /\ UNCHANGED <<conflicts, Rest>>

\* reconcile_trade_datasets of an archive with the stream: differ are the trades of
\* both with what is not the same, their fields (1), side (2) or time (3).  Trades that
\* only the stream has are discrepancies, but do not keep the record from being a
\* match.  The first MaxDetails discrepancies are listed, by trade.
Reconcile(archive, stream, differ) ==
  LET missing == archive \ stream
      extra   == IF archive = {} THEN {} ELSE stream \ archive
      found   == ((missing \cup extra) \X {0}) \cup differ
      upTo(d) == {e \in found : e[1] < d[1] \/ (e[1] = d[1] /\ e[2] <= d[2])}
      named   == UNION {NamedByTrade[d[1]] : d \in {e \in found : Cardinality(upTo(e)) <= MaxDetails}}
  IN  /\ missing # {} \/ differ # {}                   \* coverage is not proven
      /\ ~(named \subseteq conflicts)                   \* another record protects nothing new
      /\ conflicts' = conflicts \cup named
      /\ Marked(named \ conflicts)
      /\ UNCHANGED <<gaps, Rest>>

\* A month passes over an artifact's coverage.
Expire(a) ==
  /\ a \in files \ old
  /\ old' = old \cup {a}
  /\ UNCHANGED <<holdVars, gaps, conflicts, sweepVars, cuts, undermined>>

-----------------------------------------------------------------------------
(* enforce_retention_policy                                                *)

\* Mutant of Evidence: a gap that is partly recovered is settled.
EvidenceOfOpenGaps ==
  conflicts \cup UNION {NamedByGap[g] : g \in {h \in Gaps : gaps[h] = "OPEN"}}

\* What unresolved gaps and listed conflicts protect.
Evidence ==
  conflicts \cup UNION {NamedByGap[g] : g \in {h \in Gaps : gaps[h] \in Unresolved}}

\* Gaps, conflicts, manifests and the time are read once.  A dry run deletes nothing,
\* and is left out.
StartSweep(s) ==
  /\ sweep[s].step = "idle" /\ files # {}
  /\ sweep' = [sweep EXCEPT ![s] = [NoSweep EXCEPT !.step = "look", !.todo = files,
                                                   !.keep = Evidence \cup (files \ old)]]
  /\ UNCHANGED <<holdVars, sourceVars, files, ledger, heldLost, cuts, undermined>>

\* Mutant of IsHeld: the first hold on a file settles it, active or not.
IsHeldByFirst(a) ==
  \E h \in Listed : h.active /\ a \in h.over /\ \A g \in Listed : a \in g.over => h.id <= g.id

\* The holds are read for every file.
IsHeld(a) == \E h \in Listed : h.active /\ a \in h.over

\* Holds the log says are in force, and nobody is about to remove.
InForce ==
  {e \in events : /\ e.action = "CREATED"
                  /\ ~\E r \in events : r.id = e.id /\ r.action = "REMOVED"
                  /\ ~\E m \in Managers : manager[m].step # "idle" /\ manager[m].hold.id = e.id}

\* Mutant of GoOn: the last file is not let go.
GoOnStale(s, todo) ==
  sweep' = [sweep EXCEPT ![s] = [@ EXCEPT !.step = "look", !.todo = todo]]

\* On to the next file; after the last one the sweep is over.
GoOn(s, todo) ==
  sweep' = [sweep EXCEPT ![s] = IF todo = {} THEN NoSweep
                                ELSE [@ EXCEPT !.step = "look", !.todo = todo, !.at = {}, !.log = {}]]

\* A file is spared or given up.
Look(s, a) ==
  /\ sweep[s].step = "look" /\ a \in sweep[s].todo
  /\ IF IsHeld(a) \/ a \in sweep[s].keep
     THEN GoOn(s, sweep[s].todo \ {a})
     ELSE sweep' = [sweep EXCEPT ![s].todo = @ \ {a}, ![s].at = {a}, ![s].step = "unlink", ![s].log = events]
  /\ undermined' = (undermined \/ holds = Torn)
  /\ UNCHANGED <<holdVars, sourceVars, files, ledger, heldLost, cuts>>

\* Mutant of UnlinkFile: a file that is gone counts as deleted.
UnlinkMissing(s) ==
  /\ sweep[s].step = "unlink"
  /\ files' = files \ sweep[s].at
  /\ sweep' = [sweep EXCEPT ![s].step = "record", ![s].log = {}]
  /\ UNCHANGED <<holdVars, sourceVars, ledger, heldLost, cuts, undermined>>

\* The holds are not read again.
UnlinkFile(s) ==
  /\ sweep[s].step = "unlink" /\ sweep[s].at \subseteq files
  /\ files' = files \ sweep[s].at
  /\ sweep' = [sweep EXCEPT ![s].step = "record", ![s].log = {}]
  /\ heldLost' = heldLost \cup {a \in sweep[s].at : \E e \in InForce \cap sweep[s].log : a \in e.over}
  /\ UNCHANGED <<holdVars, sourceVars, ledger, cuts, undermined>>

RecordDeletion(s) ==
  /\ sweep[s].step = "record"
  /\ ledger' = [a \in Artifacts |-> IF a \in sweep[s].at THEN ledger[a] + 1 ELSE ledger[a]]
  /\ GoOn(s, sweep[s].todo)
  /\ UNCHANGED <<holdVars, sourceVars, files, heldLost, cuts, undermined>>

\* The file is gone, or the disk fails: the exception is logged, the sweep goes on.
FileFails(s) ==
  /\ sweep[s].step \in {"unlink", "record"}
  /\ \/ sweep[s].step = "unlink" /\ ~(sweep[s].at \subseteq files) /\ cuts' = cuts
     \/ cuts < MaxCuts /\ cuts' = cuts + 1           \* bound
  /\ GoOn(s, sweep[s].todo)
  /\ UNCHANGED <<holdVars, sourceVars, files, ledger, heldLost, undermined>>

SweepDies(s) ==
  /\ sweep[s].step # "idle"
  /\ cuts < MaxCuts /\ cuts' = cuts + 1              \* bound
  /\ sweep' = [sweep EXCEPT ![s] = NoSweep]
  /\ UNCHANGED <<holdVars, sourceVars, files, ledger, heldLost, undermined>>

-----------------------------------------------------------------------------

Next ==
  \/ \E m \in Managers :
       \/ \E over \in Targets : AddHold(m, over)
       \/ RemoveHold(m) \/ OpenHolds(m) \/ WriteHolds(m) \/ LogHold(m) \/ ManagerDies(m)
  \/ \E g \in Gaps, status \in {"OPEN", "PARTIAL", "RECOVERED", "UNRECOVERABLE"} : GapChanges(g, status)
  \/ \E archive, stream \in SUBSET Trades : \E differ \in SUBSET ((archive \cap stream) \X (1..3)) :
       Reconcile(archive, stream, differ)
  \/ \E a \in Artifacts : Expire(a)
  \/ \E s \in Sweepers :
       \/ StartSweep(s)
       \/ \E a \in Artifacts : Look(s, a)
       \/ UnlinkFile(s) \/ RecordDeletion(s) \/ FileFails(s) \/ SweepDies(s)

Spec == Init /\ [][Next]_vars

-----------------------------------------------------------------------------
(* Properties                                                              *)

\* The variables have their types.
TypeOK ==
  /\ \A h \in holds : h.id \in 0..MaxHolds /\ h.over \subseteq Artifacts /\ h.active \in BOOLEAN
  /\ \A e \in events : e.id \in 1..MaxHolds /\ e.action \in {"CREATED", "REMOVED"}
  /\ \A m \in Managers : manager[m].step \in {"idle", "open", "write", "log"}
  /\ \A g \in Gaps : gaps[g] \in {"NONE", "OPEN", "PARTIAL", "RECOVERED", "UNRECOVERABLE"}
  /\ conflicts \subseteq Artifacts /\ old \subseteq Artifacts /\ files \subseteq Artifacts
  /\ \A s \in Sweepers : /\ sweep[s].step \in {"idle", "look", "unlink", "record"}
                         /\ Cardinality(sweep[s].at) = (IF sweep[s].step \in {"unlink", "record"} THEN 1 ELSE 0)

\* An artifact is deleted under a hold in force only if the hold was logged after the
\* sweep had looked, or the holds file has been read while it was rewritten,
\* overwritten by a process that had not seen the hold, or left by a process killed
\* while rewriting or before logging.
HeldIsKept == heldLost = {} \/ undermined

\* "Active Holds [...]: Fully protected from deletion" (retention.py:15).  The code
\* does not promise it: a sweep that looks while a manager rewrites the holds file
\* finds no holds.
HoldsProtect == heldLost = {}

\* Once every change is done, the holds file says what its log says, but for the same
\* three accidents.
HoldsMatchTheirLog ==
  (\A m \in Managers : manager[m].step = "idle") =>
    {[id |-> h.id, over |-> h.over] : h \in {g \in Listed : g.active}}
      = {[id |-> e.id, over |-> e.over] : e \in InForce}
    \/ undermined

\* An artifact is deleted while its gap is unresolved, or its trade in conflict, only
\* by a sweep that had begun before the gap became unresolved or the conflict was listed.
EvidenceIsKept ==
  [][ \A s \in Sweepers : sweep[s].step = "unlink" /\ sweep'[s].step = "record" =>
        \A a \in files \ files' :
          (a \in conflicts \/ \E g \in Gaps : a \in NamedByGap[g] /\ gaps[g] \in Unresolved)
          => a \in sweep[s].fresh ]_vars

\* However sweeps overlap, are repeated or fail, an artifact has at most one deletion
\* record, only once it is deleted, and a deletion lacks one only in passing or for
\* one failure each.
LedgerIsExact ==
  /\ \A a \in Artifacts : ledger[a] <= 1 /\ (ledger[a] = 1 => a \notin files)
  /\ Cardinality({a \in Artifacts \ files : ledger[a] = 0})
       <= cuts + Cardinality({s \in Sweepers : sweep[s].step = "record"})
=============================================================================
