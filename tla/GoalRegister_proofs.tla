-------------------------- MODULE GoalRegister_proofs --------------------------
(***************************************************************************)
(* ManagedActions implements GoalRegister: every step of the queue is a    *)
(* step of the register or leaves it unchanged.                            *)
(***************************************************************************)
EXTENDS ManagedActions_proofs

(* A slot with a live intent has the goal all of its live intents name.    *)
LEMMA GoalOfLive ==
  ASSUME IInv, NEW i \in Intent, Live(i)
  PROVE  /\ <<intent[i].account, intent[i].field>> \in Account \X Field
         /\ Goal[<<intent[i].account, intent[i].field>>] = intent[i].after
         /\ intent[i].after \in Value
<1> DEFINE s == <<intent[i].account, intent[i].field>>
<1>1. intent[i] \in Row
  BY LiveRow DEF IInv
<1>2. s \in Account \X Field /\ intent[i].after \in Value
  BY <1>1 DEF Row
<1>3. i \in LiveFor(s)
  BY DEF LiveFor
<1>4. \A j \in LiveFor(s) : intent[j].after = intent[i].after
  BY DEF IInv, OneGoal, LiveFor, SameTarget
<1>5. Goal[s] = intent[CHOOSE j \in LiveFor(s) : TRUE].after
  BY <1>2, <1>3 DEF Goal
<1>6. QED
  BY <1>2, <1>3, <1>4, <1>5

(* A slot without a live intent has no goal, and no goal is not a value.   *)
LEMMA NoGoalOfNone ==
  ASSUME NEW s \in Account \X Field
  PROVE  /\ LiveFor(s) = {} => Goal[s] = NoGoal
         /\ NoGoal \notin Value
BY ConstantsAssumption DEF Goal, Value, Switch

(* A step that brings no intent to life leaves each goal or revokes it.    *)
LEMMA GoalKept ==
  ASSUME IInv, IInv', \A j \in Intent : Live(j)' => Live(j) /\ intent'[j] = intent[j],
         NEW s \in Account \X Field
  PROVE  Goal'[s] = Goal[s] \/ (LiveFor(s)' = {} /\ Goal'[s] = NoGoal)
<1>1. CASE LiveFor(s)' = {}
  BY <1>1 DEF Goal
<1>2. CASE LiveFor(s)' # {}
  <2>1. PICK j \in Intent : /\ Live(j)'
                            /\ intent'[j].account = s[1]
                            /\ intent'[j].field = s[2]
    BY <1>2 DEF LiveFor
  <2>2. Live(j) /\ intent'[j] = intent[j]
    BY <2>1
  <2>3. s = <<intent[j].account, intent[j].field>>
    BY <2>1, <2>2
  <2>4. Goal[s] = intent[j].after
    BY <2>2, <2>3, GoalOfLive
  <2>5. j \in LiveFor(s)' /\ \A k \in LiveFor(s)' : intent'[k].after = intent'[j].after
    BY <2>1 DEF LiveFor, IInv, OneGoal, SameTarget
  <2>6. Goal'[s] = intent'[CHOOSE k \in LiveFor(s)' : TRUE].after
    BY <1>2 DEF Goal
  <2>7. QED
    BY <2>2, <2>4, <2>5, <2>6
<1>3. QED
  BY <1>1, <1>2

(* Steps that keep the intents and the rows revoke goals, or do nothing.   *)
LEMMA KeepsRevokes ==
  ASSUME IInv, IInv', \A j \in Intent : Live(j)' => Live(j) /\ intent'[j] = intent[j],
         row' = row
  PROVE  Register!Next
<1> DEFINE S == {s \in Account \X Field : LiveFor(s)' = {}}
<1>1. Goal' = [s \in Account \X Field |-> IF s \in S THEN NoGoal ELSE Goal[s]]
  <2>1. \A s \in Account \X Field :
           Goal'[s] = IF s \in S THEN NoGoal ELSE Goal[s]
    BY GoalKept DEF Goal
  <2>2. QED
    BY <2>1 DEF Goal
<1>2. Register!Revoke(S)
  BY <1>1 DEF Register!Revoke, Register!Slot
<1>3. QED
  BY <1>2 DEF Register!Next, Register!Slot

(* What becomes of the goals when one live intent ends.                    *)
LEMMA SpendGoal ==
  ASSUME IInv, IInv', NEW i \in Intent, Live(i),
         intent' = [intent EXCEPT ![i] = NoIntent]
  PROVE  Register!Spend(<<intent[i].account, intent[i].field>>)
<1> DEFINE s == <<intent[i].account, intent[i].field>>
<1>1. \A j \in Intent : Live(j)' => j # i /\ Live(j) /\ intent'[j] = intent[j]
  BY DEF Live, NoIntent, IInv, TypeOK
<1>2. ASSUME NEW t \in Account \X Field, t # s
      PROVE  Goal'[t] = Goal[t]
  <2>1. CASE LiveFor(t) = {}
    <3>1. LiveFor(t)' = {}
      BY <1>1, <2>1 DEF LiveFor
    <3>2. QED
      BY <2>1, <3>1 DEF Goal
  <2>2. CASE LiveFor(t) # {}
    <3>1. PICK j \in LiveFor(t) : TRUE
      BY <2>2
    <3>2. j \in Intent /\ Live(j) /\ intent[j].account = t[1] /\ intent[j].field = t[2]
      BY <3>1 DEF LiveFor
    <3>3. j # i
      BY <1>2, <3>2
    <3>4. intent'[j] = intent[j]
      BY <3>2, <3>3 DEF IInv, TypeOK
    <3>5. j \in LiveFor(t)'
      BY <3>2, <3>4 DEF LiveFor, Live
    <3>6. QED
      BY <1>1, <3>5, GoalKept
  <2>3. QED
    BY <2>1, <2>2
<1>3. Goal'[s] \in {Goal[s], NoGoal}
  BY <1>1, GoalKept, GoalOfLive
<1>4. /\ Goal = [t \in Account \X Field |-> Goal[t]]
      /\ Goal' = [t \in Account \X Field |-> Goal'[t]]
  BY DEF Goal
<1>5. Goal' = [Goal EXCEPT ![s] = NoGoal] \/ Goal' = Goal
  <2> DEFINE G == Goal
             H == Goal'
  <2>1. /\ G = [t \in Account \X Field |-> G[t]]
        /\ H = [t \in Account \X Field |-> H[t]]
    BY <1>4
  <2>2. \A t \in Account \X Field : t # s => H[t] = G[t]
    BY <1>2
  <2>3. H[s] \in {G[s], NoGoal}
    BY <1>3
  <2> HIDE DEF G, H, s
  <2>4. H = [G EXCEPT ![s] = NoGoal] \/ H = G
    BY <2>1, <2>2, <2>3
  <2>5. QED
    BY <2>4 DEF G, H
<1>6. QED
  BY <1>5 DEF Register!Spend

(* A row changes only when a live intent ends that asks for the change, or *)
(* whose account the node calls gone.                                      *)
RowChange(i) ==
  /\ Live(i)
  /\ intent' = [intent EXCEPT ![i] = NoIntent]
  /\ \/ row' = Update(row, intent[i].account, intent[i].field, intent[i].after)
     \/ row' = Update(row, intent[i].account, "schedulable", "off")

(* failAction changes a row only in that way. *)
LEMMA FailActionRow ==
  ASSUME NEW i \in Intent, NEW gone \in BOOLEAN, FailAction(i, gone)
  PROVE  row' = row \/ RowChange(i)
BY DEF FailAction, RowChange

(* Every step leaves the rows alone or changes one in that way. *)
LEMMA StepRow ==
  ASSUME [Next]_vars
  PROVE  row' = row \/ \E i \in Intent : RowChange(i)
<1>1. ASSUME NEW i \in Intent, ExecuteAction(i)
      PROVE  row' = row \/ RowChange(i)
  <2>1. CASE BeginBlocked(i) \/ BeginFails(i) \/ LoadRefused(i)
    BY <2>1, FailActionRow DEF BeginBlocked, BeginFails, LoadRefused
  <2>2. CASE Fail(i)
    <3>1. (pc[i] = "gone") \in BOOLEAN /\ FailAction(i, pc[i] = "gone")
      BY <2>2 DEF Fail
    <3>2. QED
      BY <3>1, FailActionRow
  <2>3. CASE Commit(i)
    BY <2>3 DEF Commit, RowChange
  <2>4. CASE \/ Begin(i) \/ AcquireLock(i) \/ Load(i) \/ LoadSuperseded(i)
             \/ LoadFails(i) \/ Send(i) \/ CloseFails(i)
             \/ \E kind \in {"refused", "gone", "lost"} : SendFails(i, kind)
    BY <2>4 DEF Begin, AcquireLock, Load, LoadSuperseded, LoadFails, Send,
       CloseFails, SendFails
  <2>5. QED
    BY <1>1, <2>1, <2>2, <2>3, <2>4 DEF ExecuteAction
<1>2. CASE Operator \/ \E a \in Account : World(a)
  BY <1>2 DEF Operator, World, Toggle, PauseSource, ResumeSource, UntrustSource,
     TrustSource, ListAccounts, SetHealth, Replan, EvidenceAges, EvidenceArrives,
     LateRequestLands, LateRequestVanishes, TimerElapses
<1>3. CASE Restart \/ UNCHANGED vars
  BY <1>3 DEF Restart, vars
<1>4. CASE \/ \E e \in Evaluator : Evaluate(e)
           \/ \E c \in Caller : \E r \in todo[c] : Enqueue(c, r) \/ EnqueueFails(c, r)
  BY <1>4 DEF Evaluate, Enqueue, EnqueueFails
<1>5. QED
  BY <1>1, <1>2, <1>3, <1>4 DEF Next, Step

(* A row change adopts the goal, or records that the account is gone.      *)
LEMMA RowChangeAdopts ==
  ASSUME IInv, IInv', NEW i \in Intent, RowChange(i)
  PROVE  Register!Next
<1> DEFINE s == <<intent[i].account, intent[i].field>>
<1>1. /\ s \in Account \X Field
      /\ Goal[s] = intent[i].after
      /\ Goal[s] # NoGoal
  BY GoalOfLive, NoGoalOfNone DEF RowChange
<1>2. Register!Spend(s)
  BY SpendGoal DEF RowChange
<1>3. CASE row' = Update(row, intent[i].account, intent[i].field, intent[i].after)
  <2>1. Register!Adopt(s)
    BY <1>1, <1>2, <1>3 DEF Register!Adopt, Update
  <2>2. QED
    BY <1>1, <2>1 DEF Register!Next, Register!Slot
<1>4. CASE row' = Update(row, intent[i].account, "schedulable", "off")
  <2>1. Register!Gone(s)
    BY <1>1, <1>2, <1>4 DEF Register!Gone, Update
  <2>2. QED
    BY <1>1, <2>1 DEF Register!Next, Register!Slot
<1>5. QED
  BY <1>3, <1>4 DEF RowChange

(* An enqueue sets the goal of its slot, or revokes goals.                 *)
LEMMA EnqueueSetsGoal ==
  ASSUME IInv, IInv', NEW c \in Caller, NEW r \in todo[c], Enqueue(c, r)
  PROVE  Register!Next
<1>1. CASE Duplicate(r) \/ CoolingDown(r)
  <2>1. intent' = Rejected(Conflicting(r)) /\ UNCHANGED <<newer, pc, lock>>
    BY <1>1 DEF Enqueue
  <2>2. Keeps
    BY <2>1, RejectionKeeps DEF IInv, Conflicting
  <2>3. row' = row
    BY DEF Enqueue
  <2>4. QED
    BY <2>2, <2>3, KeepsRevokes DEF Keeps, KeepsIntent
<1>2. CASE ~Duplicate(r) /\ ~CoolingDown(r)
  <2> DEFINE s == <<r.account, r.field>>
             R == Rejected(Conflicting(r))
  <2>1. PICK i \in Intent : Unused(i) /\ intent' = [R EXCEPT ![i] = NewRow(r)]
    BY <1>2 DEF Enqueue
  <2>2. r \in Request
    BY DEF IInv, TypeOK
  <2>3. s \in Account \X Field /\ r.after \in Value
    BY <2>2 DEF Request
  <2>4. intent'[i] = NewRow(r) /\ \A j \in Intent : j # i => intent'[j] = R[j]
    BY <2>1 DEF Rejected
  <2>5. i \in LiveFor(s)'
    BY <2>4 DEF LiveFor, Live, NewRow
  <2>6. \A j \in LiveFor(s)' : intent'[j].after = r.after
    BY <2>4, <2>5 DEF IInv, OneGoal, LiveFor, SameTarget, NewRow
  <2>7. Goal'[s] = r.after
    <3>1. Goal'[s] = intent'[CHOOSE j \in LiveFor(s)' : TRUE].after
      BY <2>3, <2>5 DEF Goal
    <3>2. QED
      BY <2>5, <2>6, <3>1
  <2>8. ASSUME NEW t \in Account \X Field, t # s
        PROVE  Goal'[t] = Goal[t]
    <3>1. ASSUME NEW j \in LiveFor(t)
          PROVE  j \in LiveFor(t)' /\ intent'[j] = intent[j]
      <4>1. /\ j \in Intent /\ Live(j)
            /\ intent[j].account = t[1] /\ intent[j].field = t[2]
        BY DEF LiveFor
      <4>2. j # i
        BY <2>1, <4>1 DEF Unused, NoIntent, Live
      <4>3. j \notin Conflicting(r)
        BY <2>8, <4>1 DEF Conflicting
      <4>4. intent'[j] = intent[j]
        BY <2>4, <4>1, <4>2, <4>3 DEF Rejected
      <4>5. QED
        BY <4>1, <4>4 DEF LiveFor, Live
    <3>2. ASSUME NEW j \in LiveFor(t)'
          PROVE  j \in LiveFor(t)
      <4>1. /\ j \in Intent /\ Live(j)'
            /\ intent'[j].account = t[1] /\ intent'[j].field = t[2]
        BY DEF LiveFor
      <4>2. j # i
        BY <2>4, <2>8, <4>1 DEF NewRow
      <4>3. R[j].status = "APPROVED"
        BY <2>4, <4>1, <4>2 DEF Live
      <4>4. Live(j) /\ R[j] = intent[j]
        BY <4>1, <4>3, RejectedRow DEF IInv, Conflicting
      <4>5. QED
        BY <2>4, <4>1, <4>2, <4>4 DEF LiveFor
    <3>3. LiveFor(t)' = LiveFor(t)
      BY <3>1, <3>2
    <3>4. CASE LiveFor(t) = {}
      BY <3>3, <3>4 DEF Goal
    <3>5. CASE LiveFor(t) # {}
      <4>1. Goal[t] = intent[CHOOSE j \in LiveFor(t) : TRUE].after
        BY <3>5 DEF Goal
      <4>2. Goal'[t] = intent'[CHOOSE j \in LiveFor(t)' : TRUE].after
        BY <3>3, <3>5 DEF Goal
      <4>3. (CHOOSE j \in LiveFor(t) : TRUE) \in LiveFor(t)
        BY <3>5
      <4>4. QED
        BY <3>1, <3>3, <4>1, <4>2, <4>3
    <3>6. QED
      BY <3>4, <3>5
  <2>9. Goal' = [Goal EXCEPT ![s] = r.after]
    <3>1. /\ Goal = [t \in Account \X Field |-> Goal[t]]
          /\ Goal' = [t \in Account \X Field |-> Goal'[t]]
      BY DEF Goal
    <3> DEFINE G == Goal
               H == Goal'
    <3>2. /\ G = [t \in Account \X Field |-> G[t]]
          /\ H = [t \in Account \X Field |-> H[t]]
      BY <3>1
    <3>3. \A t \in Account \X Field : t # s => H[t] = G[t]
      BY <2>8
    <3>4. H[s] = r.after
      BY <2>7
    <3> HIDE DEF G, H, s
    <3>5. H = [G EXCEPT ![s] = r.after]
      BY <2>3, <3>2, <3>3, <3>4
    <3>6. QED
      BY <3>5 DEF G, H
  <2>10. Register!SetGoal(s, r.after)
    BY <2>9 DEF Register!SetGoal, Enqueue
  <2>11. QED
    BY <2>3, <2>10 DEF Register!Next, Register!Slot
<1>3. QED
  BY <1>1, <1>2

(* The initial states of the queue are initial states of the register.     *)
LEMMA RegisterInit == Init => Register!Init
<1> SUFFICES ASSUME Init PROVE Register!Init
  OBVIOUS
<1>1. \A s \in Account \X Field : LiveFor(s) = {}
  BY DEF Init, LiveFor, Live, NoIntent
<1>2. Goal = [s \in Account \X Field |-> NoGoal]
  BY <1>1 DEF Goal
<1>3. row \in [Account -> [Field -> Value]]
  BY InitInv DEF IInv, TypeOK
<1>4. QED
  BY <1>2, <1>3 DEF Register!Init, Register!Slot

(* Every step of the queue is a step of the register.                      *)
LEMMA RegisterStep == IInv /\ [Next]_vars => Register!Next
<1> SUFFICES ASSUME IInv, [Next]_vars PROVE Register!Next
  OBVIOUS
<1>1. IInv'
  BY NextInv
<1>2. CASE \E c \in Caller : \E r \in todo[c] : Enqueue(c, r)
  BY <1>1, <1>2, EnqueueSetsGoal
<1>3. CASE \E i \in Intent : RowChange(i)
  BY <1>1, <1>3, RowChangeAdopts
<1>4. CASE Keeps /\ row' = row
  BY <1>1, <1>4, KeepsRevokes DEF Keeps, KeepsIntent
<1>5. QED
  BY <1>2, <1>3, <1>4, StepKeeps, StepRow DEF IInv

(* The queue implements the goal register: a local row changes only to     *)
(* what its live intents ask for at that moment, whatever is replaced,     *)
(* revoked, lost or restarted meanwhile (control.go:378-414).              *)
THEOREM Implements == Spec => RegisterSpec
<1>1. IInv /\ [Next]_vars => [Register!Next]_(Register!regVars)
  BY RegisterStep
<1>2. QED
  BY <1>1, RegisterInit, Invariance, PTL DEF Spec, RegisterSpec, Register!Spec

===============================================================================
