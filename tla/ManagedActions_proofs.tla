------------------------ MODULE ManagedActions_proofs ------------------------
(***************************************************************************)
(* Theorems about ManagedActions for any number of accounts, intents,      *)
(* priorities and evaluations, any inputs and any faults.                  *)
(***************************************************************************)
EXTENDS ManagedActions, TLAPS

(* A live intent has a row. *)
LEMMA LiveRow ==
  ASSUME TypeOK, NEW i \in Intent, Live(i)
  PROVE  intent[i] \in Row
BY DEF TypeOK, Live, NoIntent

(* Rejecting live intents keeps every row a row. *)
LEMMA RejectedType ==
  ASSUME TypeOK, NEW S, \A i \in S : i \in Intent /\ Live(i)
  PROVE  Rejected(S) \in [Intent -> Row \cup {NoIntent}]
<1>1. ASSUME NEW i \in Intent
      PROVE  (IF i \notin S THEN intent[i]
              ELSE IF pc[i] = "done" THEN NoIntent
              ELSE [intent[i] EXCEPT !.status = "REJECTED"]) \in Row \cup {NoIntent}
  <2>1. CASE i \in S
    <3>1. intent[i] \in Row
      BY <2>1, LiveRow
    <3>2. [intent[i] EXCEPT !.status = "REJECTED"] \in Row
      BY <3>1 DEF Row
    <3>3. QED
      BY <2>1, <3>2
  <2>2. CASE i \notin S
    BY <2>2 DEF TypeOK
  <2>3. QED
    BY <2>1, <2>2
<1>2. QED
  BY <1>1 DEF Rejected

(* Leaving a row behind, or forgetting it, keeps every row a row. *)
LEMMA LeftBehindType ==
  ASSUME TypeOK, NEW i \in Intent
  PROVE  /\ LeftBehind(i) \in [Intent -> Row \cup {NoIntent}]
         /\ [intent EXCEPT ![i] = NoIntent] \in [Intent -> Row \cup {NoIntent}]
BY DEF TypeOK, LeftBehind

(* A write to one field of one account keeps the shape of the state. *)
LEMMA UpdateType ==
  ASSUME NEW state \in [Account -> [Field -> Value]],
         NEW a \in Account, NEW f \in Field, NEW v \in Value
  PROVE  Update(state, a, f, v) \in [Account -> [Field -> Value]]
BY DEF Update

(* Starting a cooldown keeps the shape of the timers. *)
LEMMA TimersType ==
  ASSUME timers \in [Account -> SUBSET Timer],
         NEW a \in Account, NEW t \in Timer
  PROVE  [timers EXCEPT ![a] = timers[a] \cup {t}] \in [Account -> SUBSET Timer]
OBVIOUS

(* failAction keeps the types of what it changes. *)
LEMMA FailActionType ==
  ASSUME TypeOK, NEW i \in Intent, NEW gone \in BOOLEAN, FailAction(i, gone)
  PROVE  /\ intent' \in [Intent -> Row \cup {NoIntent}]
         /\ timers' \in [Account -> SUBSET Timer]
         /\ row' \in [Account -> [Field -> Value]]
<1>1. CASE Live(i) /\ ~Superseded(i)
  <2>1. intent[i].account \in Account /\ intent[i].field \in Field
    BY <1>1, LiveRow DEF Row
  <2>2. intent' = [intent EXCEPT ![i] = NoIntent]
    BY <1>1 DEF FailAction
  <2>3. timers' \in [Account -> SUBSET Timer]
    <3>1. timers \in [Account -> SUBSET Timer] /\ intent[i].field \in Timer
      BY <2>1 DEF TypeOK, Timer
    <3>2. timers' = [timers EXCEPT ![intent[i].account] =
                       timers[intent[i].account] \cup {intent[i].field}]
      BY <1>1 DEF FailAction
    <3>3. QED
      BY <2>1, <3>1, <3>2, TimersType
  <2>4. Update(row, intent[i].account, "schedulable", "off") \in [Account -> [Field -> Value]]
    BY <2>1, UpdateType DEF TypeOK, Field, Value, Switch
  <2>5. row' \in [Account -> [Field -> Value]]
    BY <1>1, <2>4 DEF FailAction, TypeOK
  <2>6. QED
    BY <2>2, <2>3, <2>5, LeftBehindType
<1>2. CASE ~(Live(i) /\ ~Superseded(i))
  BY <1>2, LeftBehindType DEF FailAction, TypeOK
<1>3. QED
  BY <1>1, <1>2

(* The steps of one goroutine keep the types. *)
LEMMA ExecuteActionType ==
  ASSUME TypeOK, LockInv, NEW i \in Intent, ExecuteAction(i)
  PROVE  TypeOK'
<1> USE DEF envVars, nodeVars, boundVars, queueVars
<1>1. CASE BeginBlocked(i)
  <2>1. pc' \in [Intent -> Phase]
    BY <1>1 DEF BeginBlocked, Goto, TypeOK, Phase
  <2>2. QED
    BY <1>1, <2>1, FailActionType DEF BeginBlocked, TypeOK
<1>2. CASE Begin(i)
  <2>1. pc' \in [Intent -> Phase]
    BY <1>2 DEF Begin, Goto, TypeOK, Phase
  <2>2. intent' \in [Intent -> Row \cup {NoIntent}]
    BY <1>2, LeftBehindType DEF Begin
  <2>3. QED
    BY <1>2, <2>1, <2>2 DEF Begin, TypeOK
<1>3. CASE AcquireLock(i)
  <2>1. pc' \in [Intent -> Phase]
    BY <1>3 DEF AcquireLock, Goto, TypeOK, Phase
  <2>2. lock' \in [Account -> Intent \cup {Free}]
    BY <1>3 DEF AcquireLock, TypeOK
  <2>3. QED
    BY <1>3, <2>1, <2>2 DEF AcquireLock, TypeOK
<1>4. CASE Load(i)
  <2>1. pc' \in [Intent -> Phase]
    BY <1>4 DEF Load, Goto, TypeOK, Phase
  <2>2. QED
    BY <1>4, <2>1 DEF Load, TypeOK
<1>5. CASE LoadRefused(i)
  <2>1. pc' \in [Intent -> Phase]
    BY <1>5 DEF LoadRefused, Goto, TypeOK, Phase
  <2>2. lock' \in [Account -> Intent \cup {Free}]
    BY <1>5 DEF LoadRefused, Unlock, TypeOK
  <2>3. QED
    BY <1>5, <2>1, <2>2, FailActionType DEF LoadRefused, TypeOK
<1>6. CASE LoadSuperseded(i)
  <2>1. pc' \in [Intent -> Phase]
    BY <1>6 DEF LoadSuperseded, Goto, TypeOK, Phase
  <2>2. lock' \in [Account -> Intent \cup {Free}]
    BY <1>6 DEF LoadSuperseded, Unlock, TypeOK
  <2>3. intent' \in [Intent -> Row \cup {NoIntent}]
    BY <1>6, LeftBehindType DEF LoadSuperseded
  <2>4. QED
    BY <1>6, <2>1, <2>2, <2>3 DEF LoadSuperseded, TypeOK
<1>7. CASE Send(i)
  <2>1. pc' \in [Intent -> Phase]
    BY <1>7 DEF Send, Goto, TypeOK, Phase
  <2>2. intent[i] \in Row
    BY <1>7 DEF Send, LockInv, TypeOK
  <2>3. /\ intent[i].account \in Account
        /\ intent[i].field \in Field
        /\ intent[i].after \in Value
    BY <2>2 DEF Row
  <2>4. remote \in [Account -> [Field -> Value]]
    BY DEF TypeOK
  <2>5. remote' \in [Account -> [Field -> Value]]
    BY <1>7, <2>3, <2>4, UpdateType DEF Send
  <2>6. QED
    BY <1>7, <2>1, <2>5 DEF Send, TypeOK
<1>8. CASE \E kind \in {"refused", "gone", "lost"} : SendFails(i, kind)
  <2>1. PICK kind \in {"refused", "gone", "lost"} : SendFails(i, kind)
    BY <1>8
  <2>2. pc' \in [Intent -> Phase]
    BY <2>1 DEF SendFails, Goto, TypeOK, Phase
  <2>3. intent[i] \in Row
    BY <2>1 DEF SendFails, LockInv, TypeOK
  <2>4. [field |-> intent[i].field, value |-> intent[i].after] \in Write
    BY <2>3 DEF Row, Write
  <2>5. late' \in [Account -> SUBSET Write]
    <3>1. late \in [Account -> SUBSET Write] /\ intent[i].account \in Account
      BY <2>3 DEF TypeOK, Row
    <3>2. late' = late \/ late' = [late EXCEPT ![intent[i].account] =
                     late[intent[i].account] \cup
                       {[field |-> intent[i].field, value |-> intent[i].after]}]
      BY <2>1 DEF SendFails
    <3>3. QED
      BY <2>4, <3>1, <3>2
  <2>6. faults' \in 0 .. MaxFaults /\ inputs' = inputs
    BY <2>1, ConstantsAssumption DEF SendFails, Fault, TypeOK
  <2>7. QED
    BY <2>1, <2>2, <2>5, <2>6 DEF SendFails, TypeOK
<1>9. CASE Fail(i)
  <2>1. pc' \in [Intent -> Phase]
    BY <1>9 DEF Fail, Goto, TypeOK, Phase
  <2>2. lock' \in [Account -> Intent \cup {Free}]
    BY <1>9 DEF Fail, Unlock, TypeOK
  <2>3. QED
    BY <1>9, <2>1, <2>2, FailActionType DEF Fail, TypeOK
<1>10. CASE Commit(i)
  <2>1. pc' \in [Intent -> Phase]
    BY <1>10 DEF Commit, Goto, TypeOK, Phase
  <2>2. lock' \in [Account -> Intent \cup {Free}]
    BY <1>10 DEF Commit, Unlock, TypeOK
  <2>3. intent' \in [Intent -> Row \cup {NoIntent}]
    BY <1>10, LeftBehindType DEF Commit
  <2>4. row' \in [Account -> [Field -> Value]] /\ timers' \in [Account -> SUBSET Timer]
    <3>1. CASE Live(i) /\ ~Superseded(i)
      <4>1. /\ intent[i].account \in Account
            /\ intent[i].field \in Field
            /\ intent[i].after \in Value
        BY <3>1, LiveRow DEF Row
      <4>2. row \in [Account -> [Field -> Value]] /\ timers \in [Account -> SUBSET Timer]
        BY DEF TypeOK
      <4>3. row' \in [Account -> [Field -> Value]]
        <5>1. row' = Update(row, intent[i].account, intent[i].field, intent[i].after)
          BY <1>10, <3>1 DEF Commit
        <5>2. QED
          BY <4>1, <4>2, <5>1, UpdateType
      <4>4. "synced" \in Timer
        BY DEF Timer
      <4>5. timers' = timers \/ timers' = [timers EXCEPT ![intent[i].account] =
                                            timers[intent[i].account] \cup {"synced"}]
        BY <1>10, <3>1 DEF Commit
      <4>6. [timers EXCEPT ![intent[i].account] =
               timers[intent[i].account] \cup {"synced"}] \in [Account -> SUBSET Timer]
        BY <4>1, <4>2, <4>4, TimersType
      <4>7. timers' \in [Account -> SUBSET Timer]
        BY <4>2, <4>5, <4>6
      <4>8. QED
        BY <4>3, <4>7
    <3>2. CASE ~(Live(i) /\ ~Superseded(i))
      BY <1>10, <3>2 DEF Commit, TypeOK
    <3>3. QED
      BY <3>1, <3>2
  <2>5. QED
    BY <1>10, <2>1, <2>2, <2>3, <2>4 DEF Commit, TypeOK
<1>11. CASE CloseFails(i)
  <2>1. pc' \in [Intent -> Phase]
    BY <1>11 DEF CloseFails, Goto, TypeOK, Phase
  <2>2. lock' \in [Account -> Intent \cup {Free}]
    BY <1>11 DEF CloseFails, Unlock, TypeOK
  <2>3. intent' \in [Intent -> Row \cup {NoIntent}]
    BY <1>11, LeftBehindType DEF CloseFails
  <2>4. faults' \in 0 .. MaxFaults /\ inputs' = inputs
    BY <1>11, ConstantsAssumption DEF CloseFails, Fault, TypeOK
  <2>5. QED
    BY <1>11, <2>1, <2>2, <2>3, <2>4 DEF CloseFails, TypeOK
<1>12. CASE BeginFails(i)
  <2>1. pc' \in [Intent -> Phase]
    BY <1>12 DEF BeginFails, Goto, TypeOK, Phase
  <2>2. /\ intent' \in [Intent -> Row \cup {NoIntent}]
        /\ timers' \in [Account -> SUBSET Timer]
        /\ row' \in [Account -> [Field -> Value]]
    BY <1>12, FailActionType, LeftBehindType DEF BeginFails, TypeOK
  <2>3. faults' \in 0 .. MaxFaults /\ inputs' = inputs
    BY <1>12, ConstantsAssumption DEF BeginFails, Fault, TypeOK
  <2>4. QED
    BY <1>12, <2>1, <2>2, <2>3 DEF BeginFails, TypeOK
<1>13. CASE LoadFails(i)
  <2>1. pc' \in [Intent -> Phase]
    BY <1>13 DEF LoadFails, Goto, TypeOK, Phase
  <2>2. faults' \in 0 .. MaxFaults /\ inputs' = inputs
    BY <1>13, ConstantsAssumption DEF LoadFails, Fault, TypeOK
  <2>3. QED
    BY <1>13, <2>1, <2>2 DEF LoadFails, TypeOK
<1>14. QED
  BY <1>1, <1>2, <1>3, <1>4, <1>5, <1>6, <1>7, <1>8, <1>9, <1>10, <1>11,
     <1>12, <1>13 DEF ExecuteAction

(* Enqueueing keeps the types. *)
LEMMA EnqueueType ==
  ASSUME TypeOK, NEW c \in Caller, NEW r \in todo[c], Enqueue(c, r)
  PROVE  TypeOK'
<1> USE DEF envVars, nodeVars, boundVars
<1>1. r \in Request
  BY DEF TypeOK
<1>2. todo' \in [Caller -> SUBSET Request]
  BY DEF Enqueue, TypeOK
<1>3. Rejected(Conflicting(r)) \in [Intent -> Row \cup {NoIntent}]
  BY RejectedType DEF Conflicting
<1>4. /\ intent' \in [Intent -> Row \cup {NoIntent}]
      /\ newer' \in [Intent -> SUBSET Intent]
      /\ pc' \in [Intent -> Phase]
  <2>1. CASE Duplicate(r) \/ CoolingDown(r)
    BY <1>3, <2>1 DEF Enqueue, TypeOK
  <2>2. CASE ~Duplicate(r) /\ ~CoolingDown(r)
    <3>1. PICK i \in Intent :
            /\ intent' = [Rejected(Conflicting(r)) EXCEPT ![i] = NewRow(r)]
            /\ newer' = [j \in Intent |-> IF j = i \/ Unused(j) THEN {}
                                            ELSE newer[j] \cup {i}]
            /\ Goto(i, "start")
      BY <2>2 DEF Enqueue
    <3>2. NewRow(r) \in Row
      BY <1>1 DEF NewRow, Row, Request
    <3>3. intent' \in [Intent -> Row \cup {NoIntent}]
      BY <1>3, <3>1, <3>2
    <3>4. newer' \in [Intent -> SUBSET Intent]
      BY <3>1 DEF TypeOK
    <3>5. pc' \in [Intent -> Phase]
      BY <3>1 DEF Goto, TypeOK, Phase
    <3>6. QED
      BY <3>3, <3>4, <3>5
  <2>3. QED
    BY <2>1, <2>2
<1>5. QED
  BY <1>2, <1>4 DEF Enqueue, TypeOK

(* What an evaluation or a handler asks for is a request. *)
LEMMA RequestType ==
  ASSUME TypeOK, NEW a \in Account
  PROVE  StopRequest(a) \in Request /\ Decision(a) \in SUBSET Request
<1>1. row[a]["schedulable"] \in Value /\ row[a]["priority"] \in Value
  BY DEF TypeOK, Field
<1>2. StopRequest(a) \in Request
  BY <1>1 DEF StopRequest, Request, Field, Value, Switch
<1>3. channel[a].planned \in Value /\ Desired(a) \in Value
  BY DEF TypeOK, Value, Desired, Switch
<1>4. PolicyRequest(a, "priority", channel[a].planned) \in Request
  BY <1>1, <1>3 DEF PolicyRequest, Request, Field
<1>5. PolicyRequest(a, "schedulable", Desired(a)) \in Request
  BY <1>1, <1>3 DEF PolicyRequest, Request, Field
<1>6. QED
  BY <1>2, <1>4, <1>5 DEF Decision

(* Every step keeps the types. *)
LEMMA TypeStep == TypeOK /\ LockInv /\ [Next]_vars => TypeOK'
<1> SUFFICES ASSUME TypeOK, LockInv, [Next]_vars
             PROVE  TypeOK'
  OBVIOUS
<1> USE DEF envVars, nodeVars, boundVars, queueVars
<1>1. ASSUME NEW g \in Gate, Toggle(g)
      PROVE  TypeOK'
  BY <1>1, ConstantsAssumption DEF Toggle, Input, TypeOK
<1>2. ASSUME NEW a \in Account, SetHealth(a)
      PROVE  TypeOK'
  <2>1. inputs' \in 0 .. MaxInputs
    BY <1>2, ConstantsAssumption DEF SetHealth, Input, TypeOK
  <2>2. channel' \in [Account -> [healthy : BOOLEAN, planned : Priority,
                                  fresh : BOOLEAN]]
    BY <1>2 DEF SetHealth, TypeOK
  <2>3. QED
    BY <1>2, <2>1, <2>2 DEF SetHealth, Input, TypeOK
<1>3. ASSUME NEW a \in Account, NEW p \in Priority, Replan(a, p)
      PROVE  TypeOK'
  <2>1. inputs' \in 0 .. MaxInputs
    BY <1>3, ConstantsAssumption DEF Replan, Input, TypeOK
  <2>2. channel' \in [Account -> [healthy : BOOLEAN, planned : Priority,
                                  fresh : BOOLEAN]]
    BY <1>3 DEF Replan, TypeOK
  <2>3. QED
    BY <1>3, <2>1, <2>2 DEF Replan, Input, TypeOK
<1>4. ASSUME NEW a \in Account, EvidenceAges(a)
      PROVE  TypeOK'
  <2>1. inputs' \in 0 .. MaxInputs
    BY <1>4, ConstantsAssumption DEF EvidenceAges, Input, TypeOK
  <2>2. channel' \in [Account -> [healthy : BOOLEAN, planned : Priority,
                                  fresh : BOOLEAN]]
    BY <1>4 DEF EvidenceAges, TypeOK
  <2>3. QED
    BY <1>4, <2>1, <2>2 DEF EvidenceAges, Input, TypeOK
<1>5. ASSUME NEW a \in Account, EvidenceArrives(a)
      PROVE  TypeOK'
  <2>1. channel' \in [Account -> [healthy : BOOLEAN, planned : Priority,
                                  fresh : BOOLEAN]]
    BY <1>5 DEF EvidenceArrives, TypeOK
  <2>2. QED
    BY <1>5, <2>1 DEF EvidenceArrives, TypeOK
<1>6. CASE PauseSource
  <2>1. inputs' \in 0 .. MaxInputs
    BY <1>6, ConstantsAssumption DEF PauseSource, Input, TypeOK
  <2>2. intent' \in [Intent -> Row \cup {NoIntent}]
    BY <1>6, RejectedType DEF PauseSource, LiveStarts
  <2>3. QED
    BY <1>6, <2>1, <2>2 DEF PauseSource, Input, TypeOK
<1>7. CASE ResumeSource
  <2>1. inputs' \in 0 .. MaxInputs
    BY <1>7, ConstantsAssumption DEF ResumeSource, Input, TypeOK
  <2>2. source' \in [paused : BOOLEAN, untrusted : BOOLEAN]
    BY <1>7 DEF ResumeSource, TypeOK
  <2>3. QED
    BY <1>7, <2>1, <2>2 DEF ResumeSource, Input, TypeOK
<1>8. CASE UntrustSource
  <2>1. inputs' \in 0 .. MaxInputs
    BY <1>8, ConstantsAssumption DEF UntrustSource, Input, TypeOK
  <2>2. intent' \in [Intent -> Row \cup {NoIntent}]
    BY <1>8, RejectedType DEF UntrustSource, LiveStarts
  <2>3. channel' \in [Account -> [healthy : BOOLEAN, planned : Priority,
                                  fresh : BOOLEAN]]
    BY <1>8 DEF UntrustSource, Unhealthy, TypeOK
  <2>4. QED
    BY <1>8, <2>1, <2>2, <2>3 DEF UntrustSource, Input, TypeOK
<1>9. CASE TrustSource
  <2>1. inputs' \in 0 .. MaxInputs
    BY <1>9, ConstantsAssumption DEF TrustSource, Input, TypeOK
  <2>2. channel' \in [Account -> [healthy : BOOLEAN, planned : Priority,
                                  fresh : BOOLEAN]]
    BY <1>9 DEF TrustSource, Unhealthy, TypeOK
  <2>3. QED
    BY <1>9, <2>1, <2>2 DEF TrustSource, Input, TypeOK
<1>10. CASE ListAccounts
  <2>1. todo' \in [Caller -> SUBSET Request]
    <3>1. {StopRequest(a) : a \in {b \in Account : api = "pause" \/
              row[b]["schedulable"] = "on"}} \in SUBSET Request
      BY RequestType
    <3>2. QED
      BY <1>10, <3>1 DEF ListAccounts, TypeOK
  <2>2. QED
    BY <1>10, <2>1 DEF ListAccounts, TypeOK
<1>11. ASSUME NEW a \in Account, LateRequestLands(a)
       PROVE  TypeOK'
  <2>1. PICK w \in late[a] : /\ remote' = Update(remote, a, w.field, w.value)
                             /\ late' = [late EXCEPT ![a] = @ \ {w}]
    BY <1>11 DEF LateRequestLands
  <2>2. w.field \in Field /\ w.value \in Value
    BY DEF TypeOK, Write
  <2>3. remote \in [Account -> [Field -> Value]]
    BY DEF TypeOK
  <2>4. remote' \in [Account -> [Field -> Value]]
    BY <2>1, <2>2, <2>3, UpdateType
  <2>5. late' \in [Account -> SUBSET Write]
    BY <2>1 DEF TypeOK
  <2>6. QED
    BY <1>11, <2>4, <2>5 DEF LateRequestLands, TypeOK
<1>12. ASSUME NEW a \in Account, LateRequestVanishes(a)
       PROVE  TypeOK'
  <2>1. late' \in [Account -> SUBSET Write]
    BY <1>12 DEF LateRequestVanishes, TypeOK
  <2>2. QED
    BY <1>12, <2>1 DEF LateRequestVanishes, TypeOK
<1>13. ASSUME NEW a \in Account, TimerElapses(a)
       PROVE  TypeOK'
  <2>1. timers' \in [Account -> SUBSET Timer]
    BY <1>13 DEF TimerElapses, TypeOK
  <2>2. QED
    BY <1>13, <2>1 DEF TimerElapses, TypeOK
<1>14. ASSUME NEW e \in Evaluator, Evaluate(e)
       PROVE  TypeOK'
  <2>1. todo' \in [Caller -> SUBSET Request]
    <3>1. UNION {Decision(a) : a \in Account} \in SUBSET Request
      BY RequestType
    <3>2. QED
      BY <1>14, <3>1 DEF Evaluate, TypeOK
  <2>2. QED
    BY <1>14, <2>1 DEF Evaluate, TypeOK
<1>15. ASSUME NEW c \in Caller, NEW r \in todo[c], Enqueue(c, r)
       PROVE  TypeOK'
  BY <1>15, EnqueueType
<1>16. ASSUME NEW i \in Intent, ExecuteAction(i)
       PROVE  TypeOK'
  BY <1>16, ExecuteActionType
<1>17. CASE Restart
  <2>1. intent' \in [Intent -> Row \cup {NoIntent}]
    BY <1>17 DEF Restart, TypeOK
  <2>2. pc' \in [Intent -> Phase] /\ lock' \in [Account -> Intent \cup {Free}]
    BY <1>17 DEF Restart, Phase
  <2>3. todo' \in [Caller -> SUBSET Request]
    BY <1>17 DEF Restart
  <2>4. faults' \in 0 .. MaxFaults /\ inputs' = inputs
    BY <1>17, ConstantsAssumption DEF Restart, Fault, TypeOK
  <2>5. QED
    BY <1>17, <2>1, <2>2, <2>3, <2>4 DEF Restart, TypeOK
<1>18. CASE UNCHANGED vars
  BY <1>18 DEF vars, TypeOK
<1>19. ASSUME NEW c \in Caller, NEW r \in todo[c], EnqueueFails(c, r)
       PROVE  TypeOK'
  <2>1. todo' \in [Caller -> SUBSET Request]
    BY <1>19 DEF EnqueueFails, TypeOK
  <2>2. intent' \in [Intent -> Row \cup {NoIntent}]
    BY <1>19, RejectedType DEF EnqueueFails, Conflicting, TypeOK
  <2>3. faults' \in 0 .. MaxFaults /\ inputs' = inputs
    BY <1>19, ConstantsAssumption DEF EnqueueFails, Fault, TypeOK
  <2>4. QED
    BY <1>19, <2>1, <2>2, <2>3 DEF EnqueueFails, TypeOK
<1>20. QED
  BY <1>1, <1>2, <1>3, <1>4, <1>5, <1>6, <1>7, <1>8, <1>9, <1>10, <1>11, <1>12,
     <1>13, <1>14, <1>15, <1>16, <1>17, <1>18, <1>19
     DEF Next, Step, Operator, World

-------------------------------------------------------------------------------
(* What every step but an enqueue does to one intent: it does not come to  *)
(* life, keeps its row while it has a goroutine, holds the mutex whenever  *)
(* it executes, and is not superseded when it gets in flight.              *)
KeepsIntent(j) ==
  /\ Live(j)' => Live(j) /\ intent'[j] = intent[j]
  /\ pc'[j] # "done" => /\ pc[j] # "done"
                        /\ intent'[j] # NoIntent
                        /\ intent'[j].account = intent[j].account
                        /\ intent'[j].field = intent[j].field
                        /\ intent'[j].after = intent[j].after
  /\ Executing(j)' => lock'[intent[j].account] = j
  /\ InFlight(j)' => InFlight(j) \/ ~Superseded(j)

Keeps == newer' = newer /\ \A j \in Intent : KeepsIntent(j)

(* A step that leaves the queue alone keeps every intent. *)
LEMMA UnchangedKeeps ==
  ASSUME TypeOK, LockInv, UNCHANGED queueVars
  PROVE  Keeps
BY DEF queueVars, Keeps, KeepsIntent, LockInv, Live, Executing, InFlight, Superseded, SameTarget

(* Rejecting intents keeps them. *)
LEMMA RejectionKeeps ==
  ASSUME TypeOK, LockInv, NEW S, \A i \in S : i \in Intent /\ Live(i),
         intent' = Rejected(S), UNCHANGED <<newer, pc, lock>>
  PROVE  Keeps
<1>1. ASSUME NEW j \in Intent
      PROVE  KeepsIntent(j)
  <2>1. CASE j \notin S
    <3>1. intent'[j] = intent[j]
      BY <2>1 DEF Rejected
    <3>2. QED
      BY <3>1 DEF KeepsIntent, LockInv, Live, Executing, InFlight
  <2>2. CASE j \in S /\ pc[j] = "done"
    BY <2>2 DEF Rejected, KeepsIntent, Live, Executing, InFlight, NoIntent
  <2>3. CASE j \in S /\ pc[j] # "done"
    <3>1. intent'[j] = [intent[j] EXCEPT !.status = "REJECTED"]
      BY <2>3 DEF Rejected
    <3>2. intent[j] \in Row
      BY <2>3, LiveRow
    <3>3. intent'[j] \in Row /\ intent'[j].status = "REJECTED"
      BY <3>1, <3>2 DEF Row
    <3>4. /\ intent'[j].account = intent[j].account
          /\ intent'[j].field = intent[j].field
          /\ intent'[j].after = intent[j].after
      BY <3>1, <3>2 DEF Row
    <3>5. intent'[j] # NoIntent
      BY <3>3 DEF NoIntent
    <3>6. QED
      BY <2>3, <3>3, <3>4, <3>5 DEF KeepsIntent, LockInv, Live, Executing, InFlight
  <2>4. QED
    BY <2>1, <2>2, <2>3
<1>2. QED
  BY <1>1 DEF Keeps

(* A goroutine that ends leaves its own row unchanged or forgets it. *)
LEMMA EndKeeps ==
  ASSUME TypeOK, LockInv, NEW i \in Intent, pc[i] # "done", Goto(i, "done"),
         intent' = LeftBehind(i) \/ intent' = [intent EXCEPT ![i] = NoIntent],
         lock' = lock \/ (Executing(i) /\ Unlock(i)),
         newer' = newer
  PROVE  Keeps
<1>1. ASSUME NEW j \in Intent, j # i
      PROVE  KeepsIntent(j)
  <2>1. intent'[j] = intent[j] /\ pc'[j] = pc[j]
    BY <1>1 DEF LeftBehind, Goto, TypeOK
  <2>2. ASSUME Executing(j)
        PROVE  lock'[intent[j].account] = j
    <3>1. lock[intent[j].account] = j
      BY <2>2 DEF LockInv
    <3>2. CASE lock' = lock
      BY <3>1, <3>2
    <3>3. CASE Executing(i) /\ Unlock(i)
      <4>1. lock[intent[i].account] = i
        BY <3>3 DEF LockInv
      <4>2. intent[i].account # intent[j].account
        BY <1>1, <3>1, <4>1
      <4>3. intent[j] \in Row
        BY <2>2 DEF LockInv, Executing, TypeOK
      <4>4. QED
        BY <3>1, <3>3, <4>2, <4>3 DEF Unlock, TypeOK, Row
    <3>4. QED
      BY <3>2, <3>3
  <2>3. QED
    BY <2>1, <2>2 DEF KeepsIntent, LockInv, Live, Executing, InFlight
<1>2. KeepsIntent(i)
  <2>1. pc'[i] = "done"
    BY DEF Goto, TypeOK
  <2>2. Live(i)' => Live(i) /\ intent'[i] = intent[i]
    BY DEF Live, LeftBehind, NoIntent, TypeOK
  <2>3. QED
    BY <2>1, <2>2 DEF KeepsIntent, Executing, InFlight
<1>3. QED
  BY <1>1, <1>2 DEF Keeps

(* A goroutine that goes on to another phase without touching the rows. *)
LEMMA AdvanceKeeps ==
  ASSUME TypeOK, LockInv, NEW i \in Intent, NEW phase \in Phase, pc[i] # "done",
         Goto(i, phase), UNCHANGED <<intent, newer, lock>>,
         phase \in {"load", "send", "commit", "fail", "gone"} => Executing(i),
         phase \in {"send", "commit"} => InFlight(i) \/ ~Superseded(i)
  PROVE  Keeps
<1>1. ASSUME NEW j \in Intent, j # i
      PROVE  KeepsIntent(j)
  BY <1>1 DEF KeepsIntent, LockInv, Live, Executing, InFlight, Goto, TypeOK
<1>2. KeepsIntent(i)
  <2>1. pc'[i] = phase /\ intent' = intent /\ lock' = lock
    BY DEF Goto, TypeOK
  <2>2. QED
    BY <2>1 DEF KeepsIntent, LockInv, Live, Executing, InFlight
<1>3. QED
  BY <1>1, <1>2 DEF Keeps

(* Every step of executeAction keeps the intents. *)
LEMMA ExecuteActionKeeps ==
  ASSUME TypeOK, LockInv, NEW i \in Intent, ExecuteAction(i)
  PROVE  Keeps
<1>1. CASE BeginBlocked(i)
  BY <1>1, EndKeeps DEF BeginBlocked, FailAction
<1>2. CASE Begin(i)
  <2>1. CASE Live(i)
    <3>1. intent' = intent /\ Goto(i, "wait")
      BY <1>2, <2>1 DEF Begin, LeftBehind, TypeOK
    <3>2. QED
      BY <1>2, <3>1, AdvanceKeeps DEF Begin, Phase
  <2>2. CASE ~Live(i)
    BY <1>2, <2>2, EndKeeps DEF Begin
  <2>3. QED
    BY <2>1, <2>2
<1>3. CASE AcquireLock(i)
  <2>1. /\ pc[i] = "wait" /\ pc' = [pc EXCEPT ![i] = "load"]
        /\ lock[intent[i].account] = Free
        /\ lock' = [lock EXCEPT ![intent[i].account] = i]
        /\ UNCHANGED <<intent, newer>>
    BY <1>3 DEF AcquireLock, Goto
  <2>2. intent[i] \in Row
    BY <2>1 DEF LockInv, TypeOK
  <2>3. ASSUME NEW j \in Intent, j # i
        PROVE  KeepsIntent(j)
    <3>1. Executing(j) => lock[intent[j].account] = j /\ j # Free
      BY ConstantsAssumption DEF LockInv
    <3>2. Executing(j) => lock'[intent[j].account] = j
      BY <2>1, <3>1 DEF TypeOK
    <3>3. pc'[j] = pc[j]
      BY <2>1, <2>3 DEF TypeOK
    <3>4. QED
      BY <2>1, <3>2, <3>3 DEF KeepsIntent, LockInv, Live, Executing, InFlight
  <2>4. KeepsIntent(i)
    <3>1. pc'[i] = "load" /\ lock'[intent[i].account] = i
      BY <2>1, <2>2 DEF TypeOK, Row
    <3>2. QED
      BY <2>1, <3>1 DEF KeepsIntent, LockInv, Live, Executing, InFlight
  <2>5. QED
    BY <2>1, <2>3, <2>4 DEF Keeps
<1>4. CASE Load(i)
  BY <1>4, AdvanceKeeps DEF Load, Executing, Phase
<1>5. CASE LoadRefused(i)
  BY <1>5, EndKeeps DEF LoadRefused, FailAction, Executing
<1>6. CASE LoadSuperseded(i)
  BY <1>6, EndKeeps DEF LoadSuperseded, Executing
<1>7. CASE Send(i)
  BY <1>7, AdvanceKeeps DEF Send, Executing, InFlight, Phase
<1>8. CASE \E kind \in {"refused", "gone", "lost"} : SendFails(i, kind)
  <2>1. PICK kind \in {"refused", "gone", "lost"} : SendFails(i, kind)
    BY <1>8
  <2>2. PICK phase \in {"gone", "fail"} : Goto(i, phase)
    BY <2>1 DEF SendFails
  <2>3. QED
    BY <2>1, <2>2, AdvanceKeeps DEF SendFails, Executing, InFlight, Phase
<1>9. CASE Fail(i)
  BY <1>9, EndKeeps DEF Fail, FailAction, Executing
<1>10. CASE Commit(i)
  BY <1>10, EndKeeps DEF Commit, Executing
<1>11. CASE CloseFails(i)
  BY <1>11, EndKeeps DEF CloseFails, Executing
<1>12. CASE BeginFails(i)
  <2>1. pc[i] = "start" /\ UNCHANGED <<newer, lock>>
    BY <1>12 DEF BeginFails
  <2>2. CASE FailAction(i, FALSE) /\ Goto(i, "done")
    BY <2>1, <2>2, EndKeeps DEF FailAction
  <2>3. CASE intent' = LeftBehind(i) /\ Goto(i, "done")
    BY <2>1, <2>3, EndKeeps
  <2>4. CASE Goto(i, "wait") /\ UNCHANGED intent
    BY <2>1, <2>4, AdvanceKeeps DEF Phase
  <2>5. QED
    BY <1>12, <2>2, <2>3, <2>4 DEF BeginFails
<1>13. CASE LoadFails(i)
  BY <1>13, AdvanceKeeps DEF LoadFails, Executing, Phase
<1>14. QED
  BY <1>1, <1>2, <1>3, <1>4, <1>5, <1>6, <1>7, <1>8, <1>9, <1>10, <1>11,
     <1>12, <1>13 DEF ExecuteAction

(* A restart keeps the live intents and ends every goroutine. *)
LEMMA RestartKeeps ==
  ASSUME TypeOK, LockInv, Restart
  PROVE  Keeps
<1>1. ASSUME NEW j \in Intent
      PROVE  KeepsIntent(j)
  BY DEF Restart, KeepsIntent, Live, Executing, InFlight, NoIntent
<1>2. QED
  BY <1>1 DEF Keeps, Restart

(* Apart from an enqueue, every step keeps the intents. *)
LEMMA StepKeeps ==
  ASSUME TypeOK, LockInv, [Next]_vars
  PROVE  Keeps \/ \E c \in Caller : \E r \in todo[c] : Enqueue(c, r)
<1>1. CASE UNCHANGED vars
  BY <1>1, UnchangedKeeps DEF vars, queueVars
<1>2. ASSUME NEW g \in Gate, Toggle(g)
      PROVE  Keeps
  BY <1>2, UnchangedKeeps DEF Toggle
<1>3. CASE PauseSource
  BY <1>3, RejectionKeeps DEF PauseSource, LiveStarts
<1>4. CASE UntrustSource
  BY <1>4, RejectionKeeps DEF UntrustSource, LiveStarts
<1>5. CASE ResumeSource \/ TrustSource \/ ListAccounts
  BY <1>5, UnchangedKeeps DEF ResumeSource, TrustSource, ListAccounts
<1>6. ASSUME NEW a \in Account, World(a)
      PROVE  Keeps
  BY <1>6, UnchangedKeeps DEF World, SetHealth, Replan, EvidenceAges,
     EvidenceArrives, LateRequestLands, LateRequestVanishes, TimerElapses
<1>7. ASSUME NEW e \in Evaluator, Evaluate(e)
      PROVE  Keeps
  BY <1>7, UnchangedKeeps DEF Evaluate
<1>8. ASSUME NEW i \in Intent, ExecuteAction(i)
      PROVE  Keeps
  BY <1>8, ExecuteActionKeeps
<1>9. CASE Restart
  BY <1>9, RestartKeeps
<1>10. ASSUME NEW c \in Caller, NEW r \in todo[c], EnqueueFails(c, r)
       PROVE  Keeps
  <2>1. CASE intent' = intent
    BY <1>10, <2>1, UnchangedKeeps DEF EnqueueFails, queueVars
  <2>2. CASE intent' = Rejected(Conflicting(r))
    BY <1>10, <2>2, RejectionKeeps DEF EnqueueFails, Conflicting
  <2>3. QED
    BY <1>10, <2>1, <2>2 DEF EnqueueFails
<1>11. QED
  BY <1>1, <1>2, <1>3, <1>4, <1>5, <1>6, <1>7, <1>8, <1>9, <1>10
     DEF Next, Step, Operator

-------------------------------------------------------------------------------
(* The inductive invariant.  OneGoal and InFlightIsNewest follow from each *)
(* other's absence of newer goals only because enqueueing waits for the    *)
(* mutex that LockInv says every executor holds.                           *)
IInv == TypeOK /\ LockInv /\ OneGoal /\ InFlightIsNewest

(* Steps that keep the intents keep the invariant. *)
LEMMA KeepsInv ==
  ASSUME IInv, Keeps
  PROVE  LockInv' /\ OneGoal' /\ InFlightIsNewest'
<1>1. LockInv'
  BY DEF IInv, LockInv, Keeps, KeepsIntent, Executing
<1>2. OneGoal'
  BY DEF IInv, OneGoal, Keeps, KeepsIntent, Live, SameTarget
<1>3. InFlightIsNewest'
  <2> SUFFICES ASSUME NEW i \in Intent, InFlight(i)', Superseded(i)'
               PROVE  FALSE
    BY DEF InFlightIsNewest
  <2>1. PICK j \in newer[i] : Live(j)' /\ SameTarget(i, j)'
    BY DEF Superseded, Keeps
  <2>2. j \in Intent
    BY DEF IInv, TypeOK
  <2>3. Live(j) /\ intent'[j] = intent[j]
    BY <2>1, <2>2 DEF Keeps, KeepsIntent
  <2>4. intent'[i].account = intent[i].account /\ intent'[i].field = intent[i].field
    BY DEF Keeps, KeepsIntent, InFlight
  <2>5. SameTarget(i, j)
    BY <2>1, <2>3, <2>4 DEF SameTarget
  <2>6. Superseded(i)
    BY <2>1, <2>3, <2>5 DEF Superseded
  <2>7. QED
    BY <2>6 DEF Keeps, KeepsIntent, IInv, InFlightIsNewest
<1>4. QED
  BY <1>1, <1>2, <1>3

(* What a row becomes when live intents are rejected. *)
LEMMA RejectedRow ==
  ASSUME TypeOK, LockInv, NEW S, \A i \in S : i \in Intent /\ Live(i), NEW j \in Intent
  PROVE  /\ Rejected(S)[j].status = "APPROVED" =>
              j \notin S /\ Live(j) /\ Rejected(S)[j] = intent[j]
         /\ pc[j] # "done" => /\ Rejected(S)[j] # NoIntent
                              /\ Rejected(S)[j].account = intent[j].account
                              /\ Rejected(S)[j].field = intent[j].field
<1>1. CASE j \notin S
  BY <1>1 DEF Rejected, LockInv, Live
<1>2. CASE j \in S /\ pc[j] = "done"
  BY <1>2 DEF Rejected, NoIntent
<1>3. CASE j \in S /\ pc[j] # "done"
  <2>1. intent[j] \in Row
    BY <1>3, LiveRow
  <2>2. Rejected(S)[j] = [intent[j] EXCEPT !.status = "REJECTED"]
    BY <1>3 DEF Rejected
  <2>3. /\ Rejected(S)[j].status = "REJECTED"
        /\ Rejected(S)[j].account = intent[j].account
        /\ Rejected(S)[j].field = intent[j].field
    BY <2>1, <2>2 DEF Row
  <2>4. QED
    BY <2>3 DEF NoIntent
<1>4. QED
  BY <1>1, <1>2, <1>3

(* An enqueue keeps the invariant: the new intent agrees with the live     *)
(* ones it left, and nobody in flight works on its account.                *)
LEMMA EnqueueInv ==
  ASSUME IInv, NEW c \in Caller, NEW r \in todo[c], Enqueue(c, r)
  PROVE  LockInv' /\ OneGoal' /\ InFlightIsNewest'
<1> DEFINE R == Rejected(Conflicting(r))
<1>1. TypeOK /\ LockInv /\ \A i \in Conflicting(r) : i \in Intent /\ Live(i)
  BY DEF IInv, Conflicting
<1>2. lock[r.account] = Free /\ lock' = lock
  BY DEF Enqueue, HasTurn
<1>3. CASE Duplicate(r) \/ CoolingDown(r)
  <2>1. intent' = R /\ UNCHANGED <<newer, pc, lock>>
    BY <1>2, <1>3 DEF Enqueue
  <2>2. Keeps
    BY <1>1, <2>1, RejectionKeeps
  <2>3. QED
    BY <2>2, KeepsInv
<1>4. CASE ~Duplicate(r) /\ ~CoolingDown(r)
  <2>1. PICK i \in Intent :
          /\ Unused(i)
          /\ intent' = [R EXCEPT ![i] = NewRow(r)]
          /\ newer' = [j \in Intent |-> IF j = i \/ Unused(j) THEN {}
                                          ELSE newer[j] \cup {i}]
          /\ Goto(i, "start")
    BY <1>4 DEF Enqueue
  <2>2. /\ intent'[i] = NewRow(r)
        /\ \A j \in Intent : j # i => intent'[j] = R[j]
    BY <2>1 DEF Rejected
  <2>3. pc'[i] = "start" /\ \A j \in Intent : j # i => pc'[j] = pc[j]
    BY <1>1, <2>1 DEF Goto, TypeOK
  <2>4. \A j \in Intent : Executing(j)' => j # i /\ Executing(j)
    BY <2>3 DEF Executing
  <2>5. \A j \in Intent : InFlight(j)' => j # i /\ InFlight(j) /\ Executing(j)
    BY <2>3 DEF InFlight, Executing
  <2>6. \A j \in Intent :
           Live(j)' /\ j # i => Live(j) /\ intent'[j] = intent[j] /\ j \notin Conflicting(r)
    BY <1>1, <2>2, RejectedRow DEF Live
  <2>7. \A j \in Intent : pc'[j] # "done" /\ j # i =>
           /\ intent'[j] # NoIntent
           /\ intent'[j].account = intent[j].account
           /\ intent'[j].field = intent[j].field
    BY <1>1, <2>2, <2>3, RejectedRow
  <2>8. /\ NewRow(r).account = r.account
        /\ NewRow(r).field = r.field
        /\ NewRow(r).after = r.after
        /\ NewRow(r) # NoIntent
    BY DEF NewRow, NoIntent
  <2>9. LockInv'
    BY <1>1, <1>2, <2>2, <2>4, <2>7, <2>8 DEF LockInv, Executing
  <2>10. OneGoal'
    <3>1. ASSUME NEW j \in Intent, j # i, Live(j)', SameTarget(i, j)'
          PROVE  intent'[j].after = r.after
      BY <2>2, <2>6, <2>8, <3>1 DEF Conflicting, SameTarget
    <3>2. ASSUME NEW j \in Intent, NEW k \in Intent, j # i, k # i,
                 Live(j)', Live(k)', SameTarget(j, k)'
          PROVE  intent'[j].after = intent'[k].after
      BY <2>6, <3>2 DEF IInv, OneGoal, SameTarget
    <3>3. QED
      BY <2>2, <2>8, <3>1, <3>2 DEF OneGoal, SameTarget
  <2>11. InFlightIsNewest'
    <3> SUFFICES ASSUME NEW j \in Intent, InFlight(j)', Superseded(j)'
                 PROVE  FALSE
      BY DEF InFlightIsNewest
    <3>1. j # i /\ InFlight(j) /\ Executing(j) /\ pc'[j] # "done"
      BY <2>5 DEF InFlight
    <3>2. newer'[j] \subseteq newer[j] \cup {i}
      BY <2>1
    <3>3. PICK k \in newer'[j] : Live(k)' /\ SameTarget(j, k)'
      BY DEF Superseded
    <3>4. k # i
      <4>1. lock[intent[j].account] = j /\ j # Free
        BY <1>1, <3>1, ConstantsAssumption DEF LockInv
      <4>2. intent'[j].account = intent[j].account
        BY <2>7, <3>1
      <4>3. QED
        BY <1>2, <2>2, <2>8, <3>3, <4>1, <4>2 DEF SameTarget
    <3>5. k \in newer[j] /\ k \in Intent
      BY <1>1, <3>2, <3>3, <3>4 DEF TypeOK
    <3>6. SameTarget(j, k) /\ Live(k)
      BY <2>6, <2>7, <3>1, <3>3, <3>4, <3>5 DEF SameTarget
    <3>7. QED
      BY <3>1, <3>5, <3>6 DEF IInv, InFlightIsNewest, Superseded
  <2>12. QED
    BY <2>9, <2>10, <2>11
<1>5. QED
  BY <1>3, <1>4

(* The initial states satisfy the invariant. *)
LEMMA InitInv == Init => IInv
<1> SUFFICES ASSUME Init PROVE IInv
  OBVIOUS
<1>1. PICK p \in Priority, s \in Switch :
        /\ channel = [a \in Account |->
                        [healthy |-> s = "on", planned |-> p, fresh |-> TRUE]]
        /\ row = [a \in Account |->
                    [f \in Field |-> IF f = "schedulable" THEN s ELSE p]]
  BY DEF Init
<1>2. channel \in [Account -> [healthy : BOOLEAN, planned : Priority, fresh : BOOLEAN]]
  BY <1>1
<1>3. row \in [Account -> [Field -> Value]] /\ remote = row
  BY <1>1 DEF Init, Value
<1>4. TypeOK
  BY <1>2, <1>3, ConstantsAssumption DEF Init, TypeOK, Phase
<1>5. LockInv /\ OneGoal /\ InFlightIsNewest
  BY DEF Init, LockInv, OneGoal, InFlightIsNewest, Executing, InFlight, Live, NoIntent
<1>6. QED
  BY <1>4, <1>5 DEF IInv

(* Every step preserves the invariant. *)
LEMMA NextInv == IInv /\ [Next]_vars => IInv'
<1> SUFFICES ASSUME IInv, [Next]_vars PROVE IInv'
  OBVIOUS
<1>1. TypeOK'
  BY TypeStep DEF IInv
<1>2. LockInv' /\ OneGoal' /\ InFlightIsNewest'
  BY StepKeeps, KeepsInv, EnqueueInv DEF IInv
<1>3. QED
  BY <1>1, <1>2 DEF IInv

(* The inductive invariant holds in every reachable state. *)
THEOREM Invariance == Spec => []IInv
BY InitInv, NextInv, PTL DEF Spec

(* Every variable keeps its type (worker.go:699, control.go:283). *)
THEOREM TypeCorrect == Spec => []TypeOK
BY Invariance, PTL DEF IInv

(* Two goroutines never execute actions of the same account at once        *)
(* (control.go:296-298).                                                   *)
THEOREM MutualExclusion == Spec => []OneExecutorPerAccount
<1>1. IInv => OneExecutorPerAccount
  BY DEF IInv, LockInv, OneExecutorPerAccount
<1>2. QED
  BY <1>1, Invariance, PTL

(* Whoever executes an action holds the mutex of its account, and every    *)
(* goroutine has its row (control.go:283-298).                             *)
THEOREM MutexHeld == Spec => []LockInv
BY Invariance, PTL DEF IInv

(* All live intents of one account and action type ask for the same state  *)
(* (worker.go:704-711).                                                    *)
THEOREM GoalsAgree == Spec => []OneGoal
BY Invariance, PTL DEF IInv

(* What an executor writes to the node has not been replaced by a newer    *)
(* intent (control.go:303-313, worker.go:701).                             *)
THEOREM NewestInFlight == Spec => []InFlightIsNewest
BY Invariance, PTL DEF IInv

===============================================================================
