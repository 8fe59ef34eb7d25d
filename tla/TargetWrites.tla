----------------------------- MODULE TargetWrites -----------------------------
(***************************************************************************)
(* Everything that writes the managed accounts of a target node: the       *)
(* executors of ManagedActions, the corrector that pushes the local        *)
(* schedulable state back over remote drift after a target sync            *)
(* (syncManagedAccountSchedulableStates), and an operator's priority edit  *)
(* (updateManagedAccountPriority).  Neither of the last two takes the      *)
(* account's mutex.                                                        *)
(***************************************************************************)
EXTENDS ManagedActions

VARIABLES
  drift,   \* the corrector: its phase and the rows it still holds
  manual   \* the priority edit in progress

targetVars == <<vars, drift, manual>>

DriftIdle  == [phase |-> "idle", rows |-> {}]
ManualIdle == [phase |-> "idle"]

LocalRow == [account : Account, value : Switch]

TargetTypeOK ==
  /\ TypeOK
  /\ drift \in [phase : {"idle", "rows", "fetch", "write"},
                rows : SUBSET LocalRow]
  /\ manual \in {ManualIdle} \cup
       [phase : {"send", "save"}, account : Account, value : Priority]

TargetInit == Init /\ drift = DriftIdle /\ manual = ManualIdle

-------------------------------------------------------------------------------
(* The corrector                                                           *)

(* Only the write permission of the target is consulted, and only one      *)
(* corrector runs per target.                                              *)
DriftStart ==
  /\ drift.phase = "idle"
  /\ "write_disabled" \notin settings
  /\ drift' = [phase |-> "rows", rows |-> {}]
  /\ UNCHANGED <<vars, manual>>

HasPendingSwitch(a) ==
  \E i \in Intent : /\ Live(i)
                    /\ intent[i].account = a
                    /\ intent[i].field = "schedulable"

(* A bug: a round that ends without giving its turn back. *)
DriftRowsForever(rows, phase) == drift' = [phase |-> phase, rows |-> rows]

DriftRows(rows, phase) ==
  drift' = IF rows = {} THEN DriftIdle ELSE [phase |-> phase, rows |-> rows]

DriftReadRows ==
  /\ drift.phase = "rows"
  /\ DriftRows({[account |-> a, value |-> row[a]["schedulable"]] :
                  a \in {b \in Account : ~HasPendingSwitch(b)}}, "fetch")
  /\ UNCHANGED <<vars, manual>>

DriftFetch ==
  /\ drift.phase = "fetch"
  /\ DriftRows({w \in drift.rows : remote[w.account]["schedulable"] # w.value},
               "write")
  /\ UNCHANGED <<vars, manual>>

DriftWrite(w) ==
  /\ drift.phase = "write"
  /\ w \in drift.rows
  /\ remote' = Update(remote, w.account, "schedulable", w.value)
  /\ DriftRows(drift.rows \ {w}, "write")
  /\ UNCHANGED <<envVars, row, late, timers, queueVars, todo, boundVars, manual>>

DriftWriteFails(w) ==
  /\ drift.phase = "write"
  /\ w \in drift.rows
  /\ Fault("refused")
  /\ DriftRows(drift.rows \ {w}, "write")
  /\ UNCHANGED <<envVars, row, nodeVars, timers, queueVars, todo, manual>>

-------------------------------------------------------------------------------
(* The operator's priority edit: gates, remote write, local row.           *)

ManualStart(a, p) ==
  /\ Input("manual")
  /\ manual = ManualIdle
  /\ settings \cap {"emergency_freeze", "write_disabled"} = {}
  /\ manual' = [phase |-> "send", account |-> a, value |-> p]
  /\ UNCHANGED <<envVars, row, nodeVars, timers, queueVars, todo, drift>>

ManualSend ==
  /\ manual.phase = "send"
  /\ remote' = Update(remote, manual.account, "priority", manual.value)
  /\ manual' = [manual EXCEPT !.phase = "save"]
  /\ UNCHANGED <<envVars, row, late, timers, queueVars, todo, boundVars, drift>>

(* The request is refused, its reply is lost, or the database does not     *)
(* take what the node has taken.                                           *)
ManualFails(kind) ==
  /\ Fault(kind)
  /\ manual.phase = IF kind = "database" THEN "save" ELSE "send"
  /\ late' = IF kind # "lost" THEN late
             ELSE [late EXCEPT ![manual.account] =
                     @ \cup {[field |-> "priority", value |-> manual.value]}]
  /\ manual' = ManualIdle
  /\ UNCHANGED <<envVars, row, remote, timers, queueVars, todo, drift>>

ManualSave ==
  /\ manual.phase = "save"
  /\ row' = Update(row, manual.account, "priority", manual.value)
  /\ timers' = [timers EXCEPT ![manual.account] = @ \cup {"synced"}]
  /\ manual' = ManualIdle
  /\ UNCHANGED <<envVars, nodeVars, queueVars, todo, boundVars, drift>>

-------------------------------------------------------------------------------
(* Somebody switches the account on the node itself.                       *)
RemoteDrifts(a) ==
  /\ Input("drift")
  /\ \E s \in Switch \ {remote[a]["schedulable"]} :
       remote' = Update(remote, a, "schedulable", s)
  /\ UNCHANGED <<envVars, row, late, timers, queueVars, todo, drift, manual>>

Corrector ==
  \/ DriftStart
  \/ DriftReadRows
  \/ DriftFetch
  \/ \E w \in drift.rows : DriftWrite(w) \/ DriftWriteFails(w)

PriorityEdit ==
  \/ \E a \in Account, p \in Priority : ManualStart(a, p)
  \/ ManualSend
  \/ \E kind \in {"refused", "lost", "database"} : ManualFails(kind)
  \/ ManualSave

RestartAll == Restart /\ drift' = DriftIdle /\ manual' = ManualIdle

TargetNext ==
  \/ Step /\ UNCHANGED <<drift, manual>>
  \/ Corrector
  \/ PriorityEdit
  \/ \E a \in Account : RemoteDrifts(a)
  \/ RestartAll

TargetSpec == TargetInit /\ [][TargetNext]_targetVars

(* The corrector runs after every target sync, and a request under way     *)
(* ends.                                                                   *)
TargetFairness ==
  /\ Fairness
  /\ WF_targetVars(DriftStart)
  /\ WF_targetVars(DriftReadRows)
  /\ WF_targetVars(DriftFetch)
  /\ WF_targetVars(\E w \in drift.rows : DriftWrite(w))
  /\ WF_targetVars(ManualSend \/ ManualSave)

FairTargetSpec == TargetSpec /\ TargetFairness

-------------------------------------------------------------------------------
(* Beside the corrector, the priority edit and restarts, the switch in a   *)
(* local row still changes only to the goal that stands at that moment, or *)
(* to "off" when an action of the account finds it gone on the node        *)
(* (control.go:380-414, 663).                                              *)
SwitchesFollowGoals ==
  [][\A a \in Account :
       \/ row'[a]["schedulable"] = row[a]["schedulable"]
       \/ row'[a]["schedulable"] = Goal[<<a, "schedulable">>]
       \/ /\ row'[a]["schedulable"] = "off"
          /\ \E f \in Field : Goal[<<a, f>>] # NoGoal]_targetVars

(* Liveness: while the gates stay open the node itself ends up with every  *)
(* account in the state the policy wants, although lost replies, revoked   *)
(* actions, stale corrections and drift on the node leave it apart from    *)
(* the local row for a while (targets.go:359-449).                         *)
RemoteConverges ==
  <>[]GatesOpen =>
    <>[](\A a \in Account : remote[a]["schedulable"] = Desired(a))

(* README.md:68-72, the safety model: every remote write requires that     *)
(* neither the emergency freeze nor the shadow mode is on, whether an      *)
(* executor, the corrector or a priority edit makes it.                    *)
RemoteWrite ==
  \/ \E i \in Intent : Send(i)
  \/ \E w \in drift.rows : DriftWrite(w)
  \/ ManualSend

WritesRespectGates == [][RemoteWrite => ~WritesBlocked]_targetVars

(* CHANGELOG.md:86: the corrector does not override the result of a policy *)
(* action.  What it writes is the state the local row has at that moment.  *)
CorrectionsAreCurrent ==
  [][\A w \in drift.rows : DriftWrite(w) => row[w.account]["schedulable"] = w.value]_targetVars

=============================================================================
