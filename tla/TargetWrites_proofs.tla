-------------------------- MODULE TargetWrites_proofs --------------------------
(***************************************************************************)
(* The queue beside the corrector, the priority edit and whoever switches  *)
(* accounts on the node: what ManagedActions_proofs and                    *)
(* GoalRegister_proofs say of the queue alone holds beside them, too.      *)
(***************************************************************************)
EXTENDS TargetWrites, GoalRegister_proofs

(* What the corrector, the edit and the node's administrator leave alone.  *)
Aside ==
  /\ UNCHANGED <<envVars, queueVars, todo>>
  /\ \/ row' = row
     \/ /\ manual.phase = "save"
        /\ row' = Update(row, manual.account, "priority", manual.value)

(* An edit under way names an account and a priority.                      *)
LEMMA ManualType ==
  ASSUME TargetTypeOK, manual # ManualIdle
  PROVE  /\ manual \in [phase : {"send", "save"}, account : Account, value : Priority]
         /\ manual.account \in Account /\ manual.value \in Priority
<1>1. manual \in [phase : {"send", "save"}, account : Account, value : Priority]
  BY DEF TargetTypeOK
<1>2. QED
  BY <1>1

(* A row or the node after a write of one field of one account.            *)
LEMMA WriteType ==
  ASSUME NEW state \in [Account -> [Field -> Value]], NEW a \in Account,
         NEW f \in Field, NEW v \in Value
  PROVE  Update(state, a, f, v) \in [Account -> [Field -> Value]]
BY UpdateType

(* A step of the corrector keeps the types and stands aside.               *)
LEMMA CorrectorStep ==
  ASSUME TargetTypeOK, \A a \in Account : row[a]["schedulable"] \in Switch, Corrector
  PROVE  TargetTypeOK' /\ Aside
<1> USE DEF envVars, nodeVars, boundVars, queueVars
<1>1. ASSUME NEW rows \in SUBSET LocalRow, NEW phase \in {"fetch", "write"},
             DriftRows(rows, phase)
      PROVE  drift' \in [phase : {"idle", "rows", "fetch", "write"}, rows : SUBSET LocalRow]
  BY <1>1 DEF DriftRows, DriftIdle
<1>2. drift.rows \in SUBSET LocalRow
  BY DEF TargetTypeOK
<1>3. CASE DriftStart
  BY <1>3 DEF DriftStart, TargetTypeOK, TypeOK, vars, Aside
<1>4. CASE DriftReadRows
  <2>1. {[account |-> a, value |-> row[a]["schedulable"]] :
           a \in {b \in Account : ~HasPendingSwitch(b)}} \in SUBSET LocalRow
    BY DEF LocalRow
  <2>2. QED
    BY <1>1, <1>4, <2>1 DEF DriftReadRows, TargetTypeOK, TypeOK, vars, Aside
<1>5. CASE DriftFetch
  <2>1. {w \in drift.rows : remote[w.account]["schedulable"] # w.value} \in SUBSET LocalRow
    BY <1>2
  <2>2. QED
    BY <1>1, <1>5, <2>1 DEF DriftFetch, TargetTypeOK, TypeOK, vars, Aside
<1>6. ASSUME NEW w \in drift.rows, DriftWrite(w) \/ DriftWriteFails(w)
      PROVE  TargetTypeOK' /\ Aside
  <2>1. drift.rows \ {w} \in SUBSET LocalRow
    BY <1>2
  <2>2. drift' \in [phase : {"idle", "rows", "fetch", "write"}, rows : SUBSET LocalRow]
    BY <1>1, <1>6, <2>1 DEF DriftWrite, DriftWriteFails
  <2>3. CASE DriftWrite(w)
    <3>1. w.account \in Account /\ w.value \in Value /\ "schedulable" \in Field
      BY <1>2 DEF LocalRow, Value, Field
    <3>2. remote' \in [Account -> [Field -> Value]]
      BY <2>3, <3>1, WriteType DEF DriftWrite, TargetTypeOK, TypeOK
    <3>3. QED
      BY <2>2, <2>3, <3>2 DEF DriftWrite, TargetTypeOK, TypeOK, Aside
  <2>4. CASE DriftWriteFails(w)
    <3>1. faults' \in 0 .. MaxFaults /\ inputs' = inputs
      BY <2>4, ConstantsAssumption DEF DriftWriteFails, Fault, TargetTypeOK, TypeOK
    <3>2. QED
      BY <2>2, <2>4, <3>1 DEF DriftWriteFails, TargetTypeOK, TypeOK, Aside
  <2>5. QED
    BY <1>6, <2>3, <2>4
<1>7. QED
  BY <1>3, <1>4, <1>5, <1>6 DEF Corrector

(* A step of the priority edit keeps the types and stands aside.           *)
LEMMA PriorityEditStep ==
  ASSUME TargetTypeOK, PriorityEdit
  PROVE  TargetTypeOK' /\ Aside
<1> USE DEF envVars, nodeVars, boundVars, queueVars
<1>1. Priority \subseteq Value /\ "priority" \in Field
  BY DEF Value, Field
<1>2. ASSUME NEW a \in Account, NEW p \in Priority, ManualStart(a, p)
      PROVE  TargetTypeOK' /\ Aside
  <2>1. inputs' \in 0 .. MaxInputs /\ faults' = faults
    BY <1>2, ConstantsAssumption DEF ManualStart, Input, TargetTypeOK, TypeOK
  <2>2. QED
    BY <1>2, <2>1 DEF ManualStart, TargetTypeOK, TypeOK, Aside
<1>3. CASE ManualSend
  <2>1. manual # ManualIdle
    BY <1>3 DEF ManualSend, ManualIdle
  <2>2. remote' \in [Account -> [Field -> Value]]
    BY <1>1, <1>3, <2>1, ManualType, WriteType DEF ManualSend, TargetTypeOK, TypeOK
  <2>3. manual' \in [phase : {"send", "save"}, account : Account, value : Priority]
    BY <1>3, <2>1, ManualType DEF ManualSend
  <2>4. QED
    BY <1>3, <2>2, <2>3 DEF ManualSend, TargetTypeOK, TypeOK, Aside
<1>4. ASSUME NEW kind \in {"refused", "lost", "database"}, ManualFails(kind)
      PROVE  TargetTypeOK' /\ Aside
  <2>1. manual # ManualIdle
    BY <1>4 DEF ManualFails, ManualIdle
  <2>2. [field |-> "priority", value |-> manual.value] \in Write
    BY <1>1, <2>1, ManualType DEF Write
  <2>3. late' \in [Account -> SUBSET Write]
    BY <1>4, <2>2 DEF ManualFails, TargetTypeOK, TypeOK
  <2>4. faults' \in 0 .. MaxFaults /\ inputs' = inputs
    BY <1>4, ConstantsAssumption DEF ManualFails, Fault, TargetTypeOK, TypeOK
  <2>5. QED
    BY <1>4, <2>3, <2>4 DEF ManualFails, TargetTypeOK, TypeOK, Aside
<1>5. CASE ManualSave
  <2>1. manual # ManualIdle
    BY <1>5 DEF ManualSave, ManualIdle
  <2>2. row' \in [Account -> [Field -> Value]]
    BY <1>1, <1>5, <2>1, ManualType, WriteType DEF ManualSave, TargetTypeOK, TypeOK
  <2>3. timers' \in [Account -> SUBSET Timer]
    BY <1>5 DEF ManualSave, TargetTypeOK, TypeOK, Timer
  <2>4. QED
    BY <1>5, <2>2, <2>3 DEF ManualSave, TargetTypeOK, TypeOK, Aside
<1>6. QED
  BY <1>2, <1>3, <1>4, <1>5 DEF PriorityEdit

(* Drift on the node keeps the types and stands aside.                     *)
LEMMA RemoteDriftStep ==
  ASSUME TargetTypeOK, NEW a \in Account, RemoteDrifts(a)
  PROVE  TargetTypeOK' /\ Aside
<1> USE DEF envVars, nodeVars, boundVars, queueVars
<1>1. inputs' \in 0 .. MaxInputs /\ faults' = faults
  BY ConstantsAssumption DEF RemoteDrifts, Input, TargetTypeOK, TypeOK
<1>2. PICK s \in Switch : remote' = Update(remote, a, "schedulable", s)
  BY DEF RemoteDrifts
<1>3. remote' \in [Account -> [Field -> Value]]
  BY <1>2, WriteType DEF TargetTypeOK, TypeOK, Value, Field
<1>4. QED
  BY <1>1, <1>3 DEF RemoteDrifts, TargetTypeOK, TypeOK, Aside

-------------------------------------------------------------------------------
(* Switches are states of a switch: whatever is asked for an account's     *)
(* field, in a request, an intent or a row, is a value of that field.      *)

Fits(field, value) == field = "schedulable" => value \in Switch

SwitchesFit ==
  /\ \A a \in Account : row[a]["schedulable"] \in Switch
  /\ \A i \in Intent : Live(i) => Fits(intent[i].field, intent[i].after)
  /\ \A c \in Caller : \A r \in todo[c] : Fits(r.field, r.after)

(* What an evaluation or a handler asks for fits.                          *)
LEMMA RequestsFit ==
  ASSUME NEW a \in Account
  PROVE  /\ Fits(StopRequest(a).field, StopRequest(a).after)
         /\ \A r \in Decision(a) : Fits(r.field, r.after)
BY DEF Fits, StopRequest, Decision, PolicyRequest, Desired, Switch

(* What is left to be asked for was asked for before, or is new and fits.  *)
LEMMA TodoFits ==
  ASSUME IInv, SwitchesFit, [Next]_vars
  PROVE  \A c \in Caller : \A r \in todo'[c] : Fits(r.field, r.after)
<1>1. CASE ListAccounts
  BY <1>1, RequestsFit DEF ListAccounts, SwitchesFit, IInv, TypeOK
<1>2. ASSUME NEW e \in Evaluator, Evaluate(e)
      PROVE  \A c \in Caller : \A r \in todo'[c] : Fits(r.field, r.after)
  BY <1>2, RequestsFit DEF Evaluate, SwitchesFit, IInv, TypeOK
<1>3. ASSUME NEW c \in Caller, NEW r \in todo[c], Enqueue(c, r) \/ EnqueueFails(c, r)
      PROVE  \A d \in Caller : \A q \in todo'[d] : Fits(q.field, q.after)
  BY <1>3 DEF Enqueue, EnqueueFails, SwitchesFit, IInv, TypeOK
<1>4. CASE Restart
  BY <1>4 DEF Restart
<1>5. CASE UNCHANGED todo
  BY <1>5 DEF SwitchesFit
<1>6. ASSUME NEW i \in Intent, ExecuteAction(i)
      PROVE  UNCHANGED todo
  BY <1>6 DEF ExecuteAction, BeginBlocked, Begin, BeginFails, AcquireLock, Load, LoadRefused,
     LoadSuperseded, LoadFails, Send, SendFails, Fail, Commit, CloseFails
<1>7. ASSUME NEW a \in Account, World(a)
      PROVE  UNCHANGED todo
  BY <1>7 DEF World, SetHealth, Replan, EvidenceAges, EvidenceArrives, LateRequestLands,
     LateRequestVanishes, TimerElapses
<1>8. ASSUME Operator, ~ListAccounts
      PROVE  UNCHANGED todo
  BY <1>8 DEF Operator, Toggle, PauseSource, ResumeSource, UntrustSource, TrustSource
<1>9. QED
  BY <1>1, <1>2, <1>3, <1>4, <1>5, <1>6, <1>7, <1>8 DEF Next, Step, vars

(* A live intent was live before, or is the request that is enqueued.      *)
LEMMA IntentsFit ==
  ASSUME IInv, SwitchesFit, [Next]_vars
  PROVE  \A i \in Intent : Live(i)' => Fits(intent'[i].field, intent'[i].after)
<1>1. CASE Keeps
  BY <1>1 DEF Keeps, KeepsIntent, SwitchesFit
<1>2. ASSUME NEW c \in Caller, NEW r \in todo[c], Enqueue(c, r)
      PROVE  \A i \in Intent : Live(i)' => Fits(intent'[i].field, intent'[i].after)
  <2> DEFINE R == Rejected(Conflicting(r))
  <2>1. \A i \in Conflicting(r) : i \in Intent /\ Live(i)
    BY DEF Conflicting
  <2>2. TypeOK /\ LockInv
    BY DEF IInv
  <2>3. \A j \in Intent : R[j].status = "APPROVED" => Live(j) /\ R[j] = intent[j]
    BY <2>1, <2>2, RejectedRow
  <2>4. CASE intent' = R
    BY <2>3, <2>4 DEF Live, SwitchesFit
  <2>5. ASSUME NEW i \in Intent, intent' = [R EXCEPT ![i] = NewRow(r)]
        PROVE  \A j \in Intent : Live(j)' => Fits(intent'[j].field, intent'[j].after)
    <3>1. intent'[i] = NewRow(r) /\ \A j \in Intent : j # i => intent'[j] = R[j]
      BY <2>5 DEF Rejected
    <3>2. Fits(NewRow(r).field, NewRow(r).after)
      BY <1>2 DEF SwitchesFit, NewRow
    <3>3. QED
      BY <2>3, <3>1, <3>2 DEF Live, SwitchesFit
  <2>6. QED
    BY <1>2, <2>4, <2>5 DEF Enqueue
<1>3. QED
  BY <1>1, <1>2, StepKeeps DEF IInv

(* A switch in a row changes only with the goal of its account's switch,   *)
(* or to "off" while a goal of the account stands.                         *)
LEMMA SwitchChange ==
  ASSUME IInv, row' = row \/ \E i \in Intent : RowChange(i), NEW a \in Account
  PROVE  \/ row'[a]["schedulable"] = row[a]["schedulable"]
         \/ \E i \in Intent : /\ Live(i) /\ intent[i].account = a
                              /\ \/ /\ intent[i].field = "schedulable"
                                    /\ row'[a]["schedulable"] = intent[i].after
                                 \/ row'[a]["schedulable"] = "off"
<1>1. CASE row' = row
  BY <1>1
<1>2. ASSUME NEW i \in Intent, RowChange(i), row'[a]["schedulable"] # row[a]["schedulable"]
      PROVE  /\ Live(i) /\ intent[i].account = a
             /\ \/ /\ intent[i].field = "schedulable"
                   /\ row'[a]["schedulable"] = intent[i].after
                \/ row'[a]["schedulable"] = "off"
  <2>1. Live(i) /\ row \in [Account -> [Field -> Value]] /\ intent[i] \in Row
    BY <1>2, LiveRow DEF RowChange, IInv, TypeOK
  <2>2. QED
    BY <1>2, <2>1 DEF RowChange, Update, Field, Row
<1>3. QED
  BY <1>1, <1>2

(* Every step of the queue keeps values in their fields.                   *)
LEMMA QueueFits ==
  ASSUME IInv, SwitchesFit, [Next]_vars
  PROVE  SwitchesFit'
<1>1. \A a \in Account : row'[a]["schedulable"] \in Switch
  BY StepRow, SwitchChange DEF SwitchesFit, Fits, Switch
<1>2. QED
  BY <1>1, TodoFits, IntentsFit DEF SwitchesFit

-------------------------------------------------------------------------------
(* The invariant.                                                          *)

TargetInv == TargetTypeOK /\ IInv /\ SwitchesFit

(* A priority edit leaves every switch as it was.                          *)
LEMMA AsideRow ==
  ASSUME TargetTypeOK, Aside, NEW a \in Account
  PROVE  row'[a]["schedulable"] = row[a]["schedulable"]
<1>1. row \in [Account -> [Field -> Value]] /\ row[a] \in [Field -> Value]
  BY DEF TargetTypeOK, TypeOK
<1>2. CASE row' = [row EXCEPT ![manual.account]["priority"] = manual.value]
  <2>1. row'[a] = row[a] \/ row'[a] = [row[a] EXCEPT !["priority"] = manual.value]
    BY <1>1, <1>2
  <2>2. QED
    BY <1>1, <2>1 DEF Field
<1>3. QED
  BY <1>2 DEF Aside, Update

(* A step that stands aside keeps what the queue's proofs rest on.         *)
LEMMA AsideKeeps ==
  ASSUME TargetInv, TargetTypeOK', Aside
  PROVE  TargetInv'
<1>1. Keeps
  BY UnchangedKeeps DEF TargetInv, IInv, Aside
<1>2. IInv'
  BY <1>1, KeepsInv DEF TargetInv, IInv, TargetTypeOK
<1>3. ASSUME NEW a \in Account
      PROVE  row'[a]["schedulable"] = row[a]["schedulable"]
  BY <1>3, AsideRow DEF TargetInv
<1>4. SwitchesFit'
  BY <1>3 DEF Aside, TargetInv, SwitchesFit, queueVars, Live
<1>5. QED
  BY <1>2, <1>4 DEF TargetInv

(* Every step is a step of the queue, or one that stands aside.            *)
LEMMA QueueOrAside ==
  ASSUME TargetInv, [TargetNext]_targetVars
  PROVE  /\ TargetTypeOK'
         /\ [Next]_vars \/ Aside
<1> USE DEF TargetInv
<1>1. ASSUME [Next]_vars, \/ UNCHANGED <<drift, manual>>
                          \/ drift' = DriftIdle /\ manual' = ManualIdle
      PROVE  TargetTypeOK'
  <2>1. TypeOK'
    BY <1>1, TypeStep DEF IInv
  <2>2. QED
    BY <1>1, <2>1 DEF TargetTypeOK, DriftIdle
<1>2. CASE Corrector
  BY <1>2, CorrectorStep DEF SwitchesFit
<1>3. CASE PriorityEdit
  BY <1>3, PriorityEditStep
<1>4. CASE \E a \in Account : RemoteDrifts(a)
  BY <1>4, RemoteDriftStep
<1>5. CASE Step /\ UNCHANGED <<drift, manual>>
  BY <1>1, <1>5 DEF Next
<1>6. CASE RestartAll
  BY <1>1, <1>6 DEF RestartAll, Next
<1>7. CASE UNCHANGED targetVars
  BY <1>1, <1>7 DEF targetVars
<1>8. QED
  BY <1>2, <1>3, <1>4, <1>5, <1>6, <1>7 DEF TargetNext, Next

LEMMA TargetInitInv == TargetInit => TargetInv
<1> SUFFICES ASSUME TargetInit PROVE TargetInv
  OBVIOUS
<1>1. IInv
  BY InitInv DEF TargetInit
<1>2. TargetTypeOK
  BY <1>1 DEF TargetInit, TargetTypeOK, IInv, DriftIdle
<1>3. SwitchesFit
  BY DEF TargetInit, Init, SwitchesFit, Live, NoIntent, Field
<1>4. QED
  BY <1>1, <1>2, <1>3 DEF TargetInv

LEMMA TargetNextInv == TargetInv /\ [TargetNext]_targetVars => TargetInv'
<1> SUFFICES ASSUME TargetInv, [TargetNext]_targetVars PROVE TargetInv'
  OBVIOUS
<1>1. CASE [Next]_vars
  BY <1>1, QueueOrAside, NextInv, QueueFits DEF TargetInv
<1>2. CASE Aside
  BY <1>2, QueueOrAside, AsideKeeps
<1>3. QED
  BY <1>1, <1>2, QueueOrAside

(* The invariant of the queue survives everybody else who writes the node: *)
(* mutex, agreement of live intents and freshness of what is in flight.    *)
THEOREM TargetInvariance == TargetSpec => []TargetInv
BY TargetInitInv, TargetNextInv, PTL DEF TargetSpec

(* Every variable keeps its type, and the corrector holds rows whose value *)
(* is a state of a switch (targets.go:359-449, operations.go:465-510).     *)
THEOREM TargetTypeCorrect == TargetSpec => []TargetTypeOK
BY TargetInvariance, PTL DEF TargetInv
-------------------------------------------------------------------------------
(* Beside the corrector, the priority edit and restarts, the switch in a   *)
(* local row changes only to the goal that stands at that moment, or to    *)
(* "off" when an action of the account finds it gone on the node           *)
(* (control.go:380-414, 663).                                              *)
THEOREM SwitchesFollow == TargetSpec => SwitchesFollowGoals
<1> DEFINE Follows(a) ==
      \/ row'[a]["schedulable"] = row[a]["schedulable"]
      \/ row'[a]["schedulable"] = Goal[<<a, "schedulable">>]
      \/ /\ row'[a]["schedulable"] = "off"
         /\ \E f \in Field : Goal[<<a, f>>] # NoGoal
<1>1. ASSUME TargetInv, [TargetNext]_targetVars, NEW a \in Account
      PROVE  Follows(a)
  <2>1. CASE Aside
    BY <1>1, <2>1, AsideRow DEF TargetInv
  <2>2. CASE [Next]_vars
    <3>1. IInv /\ (row' = row \/ \E i \in Intent : RowChange(i))
      BY <1>1, <2>2, StepRow DEF TargetInv
    <3>2. ASSUME NEW i \in Intent, Live(i), intent[i].account = a
          PROVE  /\ intent[i].field \in Field
                 /\ Goal[<<a, intent[i].field>>] = intent[i].after
                 /\ Goal[<<a, intent[i].field>>] # NoGoal
      BY <3>1, <3>2, GoalOfLive, NoGoalOfNone
    <3>3. CASE row'[a]["schedulable"] # row[a]["schedulable"]
      <4>1. PICK i \in Intent : /\ Live(i) /\ intent[i].account = a
                               /\ \/ /\ intent[i].field = "schedulable"
                                     /\ row'[a]["schedulable"] = intent[i].after
                                  \/ row'[a]["schedulable"] = "off"
        BY <3>1, <3>3, SwitchChange
      <4>2. QED
        BY <3>2, <4>1
    <3>4. QED
      BY <3>3
  <2>3. QED
    BY <1>1, <2>1, <2>2, QueueOrAside
<1>2. TargetInv /\ [TargetNext]_targetVars => [\A a \in Account : Follows(a)]_targetVars
  BY <1>1
<1>3. QED
  BY <1>2, TargetInvariance, PTL DEF TargetSpec, SwitchesFollowGoals

(* Without priority edits by hand, the queue implements the goal register  *)
(* beside the corrector and whatever happens on the node.                  *)
THEOREM ImplementsBesideCorrector ==
  ASSUME "manual" \notin Inputs
  PROVE  TargetSpec => RegisterSpec
<1> DEFINE Unedited == manual = ManualIdle
<1>1. TargetInit => Unedited
  BY DEF TargetInit
<1>2. Unedited /\ [TargetNext]_targetVars => Unedited'
  <2> SUFFICES ASSUME Unedited, [TargetNext]_targetVars PROVE Unedited'
    OBVIOUS
  <2>1. ~PriorityEdit
    BY DEF PriorityEdit, ManualStart, Input, ManualSend, ManualFails, ManualSave, ManualIdle
  <2>2. CASE Corrector
    BY <2>2 DEF Corrector, DriftStart, DriftReadRows, DriftFetch, DriftWrite, DriftWriteFails
  <2>3. CASE (Step /\ UNCHANGED <<drift, manual>>) \/ RestartAll \/ UNCHANGED targetVars
    BY <2>3 DEF RestartAll, targetVars
  <2>4. CASE \E a \in Account : RemoteDrifts(a)
    BY <2>4 DEF RemoteDrifts
  <2>5. QED
    BY <2>1, <2>2, <2>3, <2>4 DEF TargetNext
<1>3. TargetInv /\ Unedited /\ [TargetNext]_targetVars
        => [Register!Next]_(Register!regVars)
  <2> SUFFICES ASSUME TargetInv, Unedited, [TargetNext]_targetVars
               PROVE  [Register!Next]_(Register!regVars)
    OBVIOUS
  <2>1. CASE [Next]_vars
    BY <2>1, RegisterStep DEF TargetInv
  <2>2. CASE Aside
    <3>1. row' = row
      BY <2>2 DEF Aside, ManualIdle
    <3>2. Goal' = Goal
      BY <2>2 DEF Aside, queueVars, Goal, LiveFor, Live
    <3>3. QED
      BY <3>1, <3>2 DEF Register!regVars
  <2>3. QED
    BY <2>1, <2>2, QueueOrAside
<1>4. TargetInit => Register!Init
  BY RegisterInit DEF TargetInit
<1>5. QED
  BY <1>1, <1>2, <1>3, <1>4, TargetInvariance, PTL DEF TargetSpec, RegisterSpec, Register!Spec

-------------------------------------------------------------------------------
(* When an approved intent may lose its executor.  Without a freeze, the   *)
(* shadow mode, a database error or a restart, it never does: an executor  *)
(* ends only together with its intent, since whoever is past the mutex is  *)
(* not superseded before it has closed its own row.                        *)

Calm ==
  /\ Inputs \cap {"emergency_freeze", "shadow_mode"} = {}
  /\ Faults \cap {"database", "restart"} = {}

NewestFails == \A i \in Intent : pc[i] \in {"fail", "gone"} => ~Superseded(i)

CalmInv == ~WritesBlocked /\ ApprovedHasExecutor /\ NewestFails

(* A superseded intent was superseded before the step, unless it waits.    *)
LEMMA SupersededBefore ==
  ASSUME IInv, [Next]_vars, NEW i \in Intent, Executing(i), pc'[i] # "done", Superseded(i)'
  PROVE  Superseded(i)
<1>1. PICK k \in newer'[i] : Live(k)' /\ SameTarget(i, k)'
  BY DEF Superseded
<1>2. CASE Keeps
  <2>1. k \in newer[i] /\ k \in Intent
    BY <1>1, <1>2 DEF Keeps, IInv, TypeOK
  <2>2. Live(k) /\ SameTarget(i, k)
    BY <1>1, <1>2, <2>1 DEF Keeps, KeepsIntent, SameTarget
  <2>3. QED
    BY <2>1, <2>2 DEF Superseded
<1>3. ASSUME NEW c \in Caller, NEW r \in todo[c], Enqueue(c, r), ~Keeps
      PROVE  Superseded(i)
  <2> DEFINE R == Rejected(Conflicting(r))
  <2>1. TypeOK /\ LockInv /\ \A j \in Conflicting(r) : j \in Intent /\ Live(j)
    BY DEF IInv, Conflicting
  <2>2. ~Duplicate(r) /\ ~CoolingDown(r)
    <3>1. CASE intent' = R /\ UNCHANGED <<newer, pc, lock>>
      BY <1>3, <2>1, <3>1, RejectionKeeps
    <3>2. QED
      BY <1>3, <3>1 DEF Enqueue
  <2>3. PICK j \in Intent :
          /\ Unused(j)
          /\ intent' = [R EXCEPT ![j] = NewRow(r)]
          /\ newer' = [l \in Intent |-> IF l = j \/ Unused(l) THEN {}
                                          ELSE newer[l] \cup {j}]
    BY <1>3, <2>2 DEF Enqueue
  <2>4. /\ intent'[j] = NewRow(r)
        /\ \A l \in Intent : l # j => intent'[l] = R[l]
    BY <2>3 DEF Rejected
  <2>5. i # j /\ newer'[i] \subseteq newer[i] \cup {j}
    BY <2>3 DEF Unused, Executing
  <2>6. pc[i] # "done"
    BY DEF Executing
  <2>7. /\ intent'[i].account = intent[i].account
        /\ intent'[i].field = intent[i].field
    BY <2>1, <2>4, <2>5, <2>6, RejectedRow
  <2>8. k # j
    <3>1. lock[intent[i].account] = i /\ i # Free /\ lock[r.account] = Free
      BY <1>3, <2>1, ConstantsAssumption DEF LockInv, Enqueue, HasTurn
    <3>2. NewRow(r).account = r.account
      BY DEF NewRow
    <3>3. QED
      BY <1>1, <2>4, <2>7, <3>1, <3>2 DEF SameTarget
  <2>9. k \in newer[i] /\ k \in Intent
    BY <1>1, <2>1, <2>5, <2>8 DEF TypeOK
  <2>10. Live(k) /\ intent'[k] = intent[k]
    BY <1>1, <2>1, <2>4, <2>8, <2>9, RejectedRow DEF Live
  <2>11. QED
    BY <1>1, <2>7, <2>9, <2>10 DEF Superseded, SameTarget
<1>4. QED
  BY <1>2, <1>3, StepKeeps DEF IInv

(* The steps of an executor in calm weather.                               *)
LEMMA CalmExecution ==
  ASSUME Calm, IInv, CalmInv, NEW i \in Intent, ExecuteAction(i)
  PROVE  /\ \A j \in Intent : j # i => intent'[j] = intent[j] /\ pc'[j] = pc[j]
         /\ pc'[i] = "done" => ~Live(i)'
         /\ pc'[i] \in {"fail", "gone"} => pc[i] = "send"
<1> DEFINE Ends ==
      /\ \A j \in Intent : j # i => intent'[j] = intent[j]
      /\ ~Live(i)' /\ pc' = [pc EXCEPT ![i] = "done"]
<1>1. TypeOK /\ (Executing(i) /\ pc[i] # "load" => ~Superseded(i))
  BY DEF IInv, CalmInv, NewestFails, InFlightIsNewest, InFlight, Executing
<1>2. intent \in [Intent -> Row \cup {NoIntent}] /\ pc \in [Intent -> Phase]
  BY <1>1 DEF TypeOK
<1>3. \A kind \in {"database"} : ~Fault(kind)
  BY DEF Calm, Fault
<1>4. ASSUME NEW gone \in BOOLEAN, FailAction(i, gone), ~Superseded(i), Goto(i, "done")
      PROVE  Ends
  BY <1>2, <1>4 DEF FailAction, LeftBehind, Live, NoIntent, Goto
<1>5. CASE LoadRefused(i)
  BY <1>2, <1>4, <1>5 DEF LoadRefused
<1>6. CASE Fail(i)
  <2>1. (pc[i] = "gone") \in BOOLEAN /\ FailAction(i, pc[i] = "gone") /\ Goto(i, "done")
    BY <1>6 DEF Fail
  <2>2. QED
    BY <1>1, <1>2, <1>4, <1>6, <2>1 DEF Fail, Executing
<1>7. CASE Commit(i)
  BY <1>1, <1>2, <1>7 DEF Commit, LeftBehind, Live, NoIntent, Goto, Executing
<1>8. CASE LoadSuperseded(i)
  BY <1>2, <1>8 DEF LoadSuperseded, Live, NoIntent, Goto
<1>9. CASE Begin(i)
  BY <1>2, <1>9 DEF Begin, LeftBehind, Live, NoIntent, Goto
<1>10. CASE AcquireLock(i) \/ Load(i) \/ Send(i)
  BY <1>2, <1>10 DEF AcquireLock, Load, Send, Goto
<1>11. CASE \E kind \in {"refused", "gone", "lost"} : SendFails(i, kind)
  BY <1>2, <1>11 DEF SendFails, Goto
<1>12. ~BeginBlocked(i) /\ ~BeginFails(i) /\ ~LoadFails(i) /\ ~CloseFails(i)
  BY <1>3 DEF BeginBlocked, BeginFails, LoadFails, CloseFails, CalmInv
<1>13. QED
  BY <1>2, <1>5, <1>6, <1>7, <1>8, <1>9, <1>10, <1>11, <1>12 DEF ExecuteAction

(* A step of the queue in calm weather.                                    *)
LEMMA CalmStep ==
  ASSUME Calm, IInv, CalmInv, [Next]_vars
  PROVE  CalmInv'
<1>1. TypeOK /\ LockInv
  BY DEF IInv
<1>2. ~WritesBlocked'
  <2>1. CASE \E g \in Gate : Toggle(g)
    BY <2>1 DEF Calm, CalmInv, Toggle, Input, Gate, WritesBlocked
  <2>2. CASE UNCHANGED settings
    BY <2>2 DEF CalmInv, WritesBlocked
  <2>3. QED
    BY <2>1, <2>2 DEF Next, Step, Operator, World, PauseSource, ResumeSource, UntrustSource,
       TrustSource, ListAccounts, SetHealth, Replan, EvidenceAges, EvidenceArrives,
       LateRequestLands, LateRequestVanishes, TimerElapses, Evaluate, Enqueue, EnqueueFails,
       ExecuteAction, BeginBlocked, Begin, BeginFails, AcquireLock, Load, LoadRefused,
       LoadSuperseded, LoadFails, Send, SendFails, Fail, Commit, CloseFails, Restart, vars,
       envVars
<1>3. \/ \E i \in Intent : ExecuteAction(i)
      \/ \E c \in Caller : \E r \in todo[c] : Enqueue(c, r)
      \/ /\ pc' = pc
         /\ intent' = intent \/ intent' = Rejected(LiveStarts)
  BY DEF Next, Step, Operator, World, Toggle, PauseSource, ResumeSource, UntrustSource,
     TrustSource, ListAccounts, SetHealth, Replan, EvidenceAges, EvidenceArrives,
     LateRequestLands, LateRequestVanishes, TimerElapses, Evaluate, EnqueueFails,
     Restart, Fault, Calm, vars, queueVars
<1>4. ApprovedHasExecutor'
  <2>1. ASSUME NEW i \in Intent, ExecuteAction(i)
        PROVE  ApprovedHasExecutor'
    BY <2>1, CalmExecution DEF CalmInv, ApprovedHasExecutor, Live
  <2>2. ASSUME NEW c \in Caller, NEW r \in todo[c], Enqueue(c, r), NEW j \in Intent, Live(j)'
        PROVE  pc'[j] # "done"
    <3> DEFINE R == Rejected(Conflicting(r))
    <3>1. \A k \in Conflicting(r) : k \in Intent /\ Live(k)
      BY DEF Conflicting
    <3>2. R[j].status = "APPROVED" => Live(j)
      BY <1>1, <3>1, RejectedRow
    <3>3. CASE intent' = R /\ pc' = pc
      BY <2>2, <3>2, <3>3 DEF Live, CalmInv, ApprovedHasExecutor
    <3>4. ASSUME NEW i \in Intent, intent' = [R EXCEPT ![i] = NewRow(r)], Goto(i, "start")
          PROVE  pc'[j] # "done"
      <4>1. CASE j = i
        BY <1>1, <3>4, <4>1 DEF Goto, TypeOK
      <4>2. CASE j # i
        <5>1. intent'[j] = R[j] /\ pc'[j] = pc[j]
          BY <1>1, <3>4, <4>2 DEF Rejected, Goto, TypeOK
        <5>2. QED
          BY <2>2, <3>2, <5>1 DEF Live, CalmInv, ApprovedHasExecutor
      <4>3. QED
        BY <4>1, <4>2
    <3>5. QED
      BY <2>2, <3>3, <3>4 DEF Enqueue
  <2>3. CASE pc' = pc /\ (intent' = intent \/ intent' = Rejected(LiveStarts))
    <3>1. \A k \in LiveStarts : k \in Intent /\ Live(k)
      BY DEF LiveStarts
    <3>2. \A j \in Intent : Live(j)' => Live(j)
      BY <1>1, <2>3, <3>1, RejectedRow DEF Live
    <3>3. QED
      BY <2>3, <3>2 DEF CalmInv, ApprovedHasExecutor
  <2>4. QED
    BY <1>3, <2>1, <2>2, <2>3 DEF ApprovedHasExecutor
<1>5. NewestFails'
  <2> SUFFICES ASSUME NEW i \in Intent, pc'[i] \in {"fail", "gone"}, Superseded(i)'
               PROVE  FALSE
    BY DEF NewestFails
  <2>1. pc[i] \in {"send", "fail", "gone"}
    <3>1. CASE \E j \in Intent : ExecuteAction(j)
      BY <3>1, CalmExecution
    <3>2. CASE \E c \in Caller : \E r \in todo[c] : Enqueue(c, r)
      BY <1>1, <3>2 DEF Enqueue, Goto, TypeOK
    <3>3. QED
      BY <1>3, <3>1, <3>2
  <2>2. Executing(i) /\ ~Superseded(i)
    BY <2>1 DEF Executing, CalmInv, NewestFails, IInv, InFlightIsNewest, InFlight
  <2>3. QED
    BY <2>2, SupersededBefore
<1>6. QED
  BY <1>2, <1>4, <1>5 DEF CalmInv

(* As long as nobody freezes the actions, the database answers and the     *)
(* process runs, every approved intent has the goroutine that executes or  *)
(* closes it, although the gates of the node close, requests are refused   *)
(* or lost, accounts vanish and newer decisions replace older ones         *)
(* (control.go:283-419).                                                   *)
THEOREM ApprovedAreExecuted ==
  ASSUME Calm
  PROVE  TargetSpec => []ApprovedHasExecutor
<1>1. TargetInit => CalmInv
  BY DEF TargetInit, Init, CalmInv, WritesBlocked, ApprovedHasExecutor, NewestFails, Live,
     NoIntent
<1>2. TargetInv /\ CalmInv /\ [TargetNext]_targetVars => CalmInv'
  <2> SUFFICES ASSUME TargetInv, CalmInv, [TargetNext]_targetVars PROVE CalmInv'
    OBVIOUS
  <2>1. CASE [Next]_vars
    BY <2>1, CalmStep DEF TargetInv
  <2>2. CASE Aside
    BY <2>2 DEF Aside, envVars, queueVars, CalmInv, WritesBlocked, ApprovedHasExecutor,
       NewestFails, Live, Superseded, SameTarget
  <2>3. QED
    BY <2>1, <2>2, QueueOrAside
<1>3. CalmInv => ApprovedHasExecutor
  BY DEF CalmInv
<1>4. QED
  BY <1>1, <1>2, <1>3, TargetInvariance, PTL DEF TargetSpec
===============================================================================
