---------------------------- MODULE ManagedActions ----------------------------
(***************************************************************************)
(* The action queue of the control plane: how a decision to start or stop  *)
(* a managed account, or to move its priority, becomes a row of            *)
(* action_intents, a goroutine, a write to the remote node, and at last a  *)
(* change of the local managed_accounts row.                               *)
(*                                                                         *)
(* Callers (policy evaluations and the operator's API handlers) compute    *)
(* enqueue requests from a snapshot and hand them over one at a time.      *)
(* enqueueManagedActionWithCooldown runs under the account's mutex,        *)
(* rejects the live intents with another goal, inserts an APPROVED intent  *)
(* and starts executeAction in a goroutine, which waits for the same       *)
(* mutex, writes the remote node and commits.  Settings, pause and trust   *)
(* changes, lost replies, database errors and restarts interleave at every *)
(* step.                                                                   *)
(*                                                                         *)
(* A field of an account stands for an action type: "schedulable" for      *)
(* SET_SCHEDULABLE, "priority" for SET_PRIORITY.  All accounts belong to   *)
(* one source.                                                             *)
(***************************************************************************)
EXTENDS Naturals, FiniteSets

CONSTANTS
  Account,      \* managed accounts
  Intent,       \* identities of action_intents rows that may matter at once
  Priority,     \* the priorities the policy plans with
  Evaluator,    \* concurrent policy evaluations
  Api,          \* the operator's request handler, a caller like an evaluation
  Free,         \* the value of a mutex nobody holds
  NoGoal,       \* an account's field for which no intent is live
  Inputs,       \* the operator and environment inputs an instance enables
  Faults,       \* the faults an instance enables
  MaxInputs,    \* bound on the number of inputs
  MaxFaults,    \* bound on the number of faults
  MaxEvents     \* bound on inputs and faults together

ASSUME ConstantsAssumption ==
  /\ Api \notin Evaluator
  /\ Free \notin Intent
  /\ NoGoal \notin Priority \cup {"on", "off"}
  /\ Priority \cap {"on", "off"} = {}
  /\ MaxInputs \in Nat
  /\ MaxFaults \in Nat
  /\ MaxEvents \in Nat

VARIABLES
  settings,  \* the write gates now closed
  source,    \* the source's scheduling_paused and manually_untrusted
  channel,   \* what a policy evaluation reads about each account's channel
  row,       \* the managed_accounts row: field -> value
  remote,    \* the account on the target node: field -> value
  late,      \* remote requests whose reply was lost and that may still land
  timers,    \* cooldowns that have not elapsed
  intent,    \* the action_intents rows that are live or have a goroutine
  newer,     \* newer[i]: the intents created after i
  pc,        \* where the executeAction goroutine of an intent is
  lock,      \* managedActionLock of each account
  todo,      \* enqueue requests a caller has computed and not handed over
  api,       \* the source-level request that has committed its transaction
  inputs,    \* inputs so far
  faults     \* faults so far

envVars   == <<settings, source, channel, api>>
queueVars == <<intent, newer, pc, lock>>
nodeVars  == <<remote, late>>
boundVars == <<inputs, faults>>
vars == <<envVars, row, nodeVars, timers, queueVars, todo, boundVars>>

-------------------------------------------------------------------------------
Field  == {"schedulable", "priority"}
Switch == {"on", "off"}
Value  == Switch \cup Priority
Gate   == {"emergency_freeze", "shadow_mode", "write_disabled"}
Caller == Evaluator \cup {Api}
Write  == [field : Field, value : Value]
(* A field names the cooldown that follows a FAILED action of its type,    *)
(* "synced" the one that follows a priority change.                        *)
Timer  == {"synced"} \cup Field
Phase  == {"done", "start", "wait", "load", "send", "commit", "fail", "gone"}

Request == [account : Account, field : Field, before : Value, after : Value,
            cooldown : BOOLEAN]
Row     == [status : {"APPROVED", "REJECTED"}, account : Account,
            field : Field, before : Value, after : Value]

(* Nothing reads a terminal row once its goroutine has ended, except the   *)
(* cooldown of a FAILED one, which timers keeps: such a row is forgotten   *)
(* and its identity may be used again.                                     *)
NoIntent == [status |-> "NONE"]

TypeOK ==
  /\ settings \in SUBSET Gate
  /\ source \in [paused : BOOLEAN, untrusted : BOOLEAN]
  /\ channel \in [Account -> [healthy : BOOLEAN, planned : Priority,
                              fresh : BOOLEAN]]
  /\ row \in [Account -> [Field -> Value]]
  /\ remote \in [Account -> [Field -> Value]]
  /\ late \in [Account -> SUBSET Write]
  /\ timers \in [Account -> SUBSET Timer]
  /\ intent \in [Intent -> Row \cup {NoIntent}]
  /\ newer \in [Intent -> SUBSET Intent]
  /\ pc \in [Intent -> Phase]
  /\ lock \in [Account -> Intent \cup {Free}]
  /\ todo \in [Caller -> SUBSET Request]
  /\ api \in {"idle", "pause", "untrust"}
  /\ inputs \in 0 .. MaxInputs
  /\ faults \in 0 .. MaxFaults

Init ==
  /\ settings = {}
  /\ source = [paused |-> FALSE, untrusted |-> FALSE]
  /\ \E p \in Priority, s \in Switch :
       /\ channel = [a \in Account |->
                       [healthy |-> s = "on", planned |-> p, fresh |-> TRUE]]
       /\ row = [a \in Account |->
                   [f \in Field |-> IF f = "schedulable" THEN s ELSE p]]
  /\ remote = row
  /\ late = [a \in Account |-> {}]
  /\ timers = [a \in Account |-> {}]
  /\ intent = [i \in Intent |-> NoIntent]
  /\ newer = [i \in Intent |-> {}]
  /\ pc = [i \in Intent |-> "done"]
  /\ lock = [a \in Account |-> Free]
  /\ todo = [c \in Caller |-> {}]
  /\ api = "idle"
  /\ inputs = 0
  /\ faults = 0

-------------------------------------------------------------------------------
(* Intents                                                                 *)

Live(i) == intent[i].status = "APPROVED"

SameTarget(i, j) ==
  /\ intent[i].account = intent[j].account
  /\ intent[i].field = intent[j].field

(* The NOT EXISTS subquery of executeAction, failAction and the commit: a  *)
(* newer APPROVED intent of the same account and action type.              *)
Superseded(i) == \E j \in newer[i] : Live(j) /\ SameTarget(i, j)

(* A row update to a terminal status made by someone else than the         *)
(* intent's own goroutine.                                                 *)
Rejected(S) ==
  [i \in Intent |-> IF i \notin S THEN intent[i]
                    ELSE IF pc[i] = "done" THEN NoIntent
                    ELSE [intent[i] EXCEPT !.status = "REJECTED"]]

(* What is left of the row when its goroutine ends without updating it.    *)
LeftBehind(i) == [intent EXCEPT ![i] = IF Live(i) THEN @ ELSE NoIntent]

Update(state, a, f, v) == [state EXCEPT ![a][f] = v]

Unlock(i) == lock' = [lock EXCEPT ![intent[i].account] = Free]
Goto(i, phase) == pc' = [pc EXCEPT ![i] = phase]

WritesBlocked == settings \cap {"emergency_freeze", "shadow_mode"} # {}

-------------------------------------------------------------------------------
(* Operator and environment inputs                                         *)

Input(kind) ==
  /\ kind \in Inputs
  /\ inputs < MaxInputs
  /\ inputs + faults < MaxEvents
  /\ inputs' = inputs + 1
  /\ UNCHANGED faults

Fault(kind) ==
  /\ kind \in Faults
  /\ faults < MaxFaults
  /\ inputs + faults < MaxEvents
  /\ faults' = faults + 1
  /\ UNCHANGED inputs

(* updateSettings for the freeze and shadow mode, updateTarget for the     *)
(* write permission.                                                       *)
Toggle(gate) ==
  /\ Input(gate)
  /\ settings' = IF gate \in settings THEN settings \ {gate}
                                      ELSE settings \cup {gate}
  /\ UNCHANGED <<source, channel, api, row, nodeVars, timers, queueVars, todo>>

(* Probes, metrics and scans change what the policy thinks of a channel.   *)
SetHealth(a) ==
  /\ Input("health")
  /\ channel' = [channel EXCEPT ![a].healthy = ~@, ![a].fresh = TRUE]
  /\ UNCHANGED <<settings, source, api, row, nodeVars, timers, queueVars, todo>>

Replan(a, p) ==
  /\ Input("plan")
  /\ channel[a].planned # p
  /\ channel' = [channel EXCEPT ![a].planned = p]
  /\ UNCHANGED <<settings, source, api, row, nodeVars, timers, queueVars, todo>>

EvidenceAges(a) ==
  /\ Input("evidence")
  /\ channel[a].fresh
  /\ channel' = [channel EXCEPT ![a].fresh = FALSE]
  /\ UNCHANGED <<settings, source, api, row, nodeVars, timers, queueVars, todo>>

EvidenceArrives(a) ==
  /\ ~channel[a].fresh
  /\ channel' = [channel EXCEPT ![a].fresh = TRUE]
  /\ UNCHANGED <<settings, source, api, row, nodeVars, timers, queueVars, todo,
                 boundVars>>

-------------------------------------------------------------------------------
(* The source-level requests                                               *)

(* The live intents that would switch an account of the source on: the     *)
(* after_state @> {"schedulable":true} of both handlers.                   *)
LiveStarts == {i \in Intent : Live(i) /\ intent[i].after = "on"}

ApiIdle == api = "idle" /\ todo[Api] = {}

PauseSource ==
  /\ Input("pause")
  /\ ApiIdle
  /\ source' = [source EXCEPT !.paused = TRUE]
  /\ intent' = Rejected(LiveStarts)
  /\ api' = "pause"
  /\ UNCHANGED <<settings, channel, row, nodeVars, timers, newer, pc, lock, todo>>

ResumeSource ==
  /\ Input("pause")
  /\ ApiIdle
  /\ ~source.untrusted
  /\ source' = [source EXCEPT !.paused = FALSE]
  /\ UNCHANGED <<settings, channel, api, row, nodeVars, timers, queueVars, todo>>

Unhealthy == [a \in Account |-> [channel[a] EXCEPT !.healthy = FALSE]]

UntrustSource ==
  /\ Input("trust")
  /\ ApiIdle
  /\ ~source.untrusted
  /\ source' = [source EXCEPT !.untrusted = TRUE]
  /\ channel' = Unhealthy
  /\ intent' = Rejected(LiveStarts)
  /\ api' = "untrust"
  /\ UNCHANGED <<settings, row, nodeVars, timers, newer, pc, lock, todo>>

TrustSource ==
  /\ Input("trust")
  /\ ApiIdle
  /\ source.untrusted
  /\ source' = [source EXCEPT !.untrusted = FALSE]
  /\ channel' = Unhealthy
  /\ UNCHANGED <<settings, api, row, nodeVars, timers, queueVars, todo>>

StopRequest(a) ==
  [account |-> a, field |-> "schedulable", before |-> row[a]["schedulable"],
   after |-> "off", cooldown |-> FALSE]

(* After its commit a handler reads the accounts and enqueues stops: pause *)
(* for all of them, untrust for those whose row says schedulable.          *)
ListAccounts ==
  /\ api # "idle"
  /\ api' = "idle"
  /\ todo' = [todo EXCEPT ![Api] =
                {StopRequest(a) : a \in {b \in Account :
                   api = "pause" \/ row[b]["schedulable"] = "on"}}]
  /\ UNCHANGED <<settings, source, channel, row, nodeVars, timers, queueVars,
                 boundVars>>

-------------------------------------------------------------------------------
(* Policy evaluation                                                       *)

Desired(a) ==
  IF channel[a].healthy /\ ~source.paused /\ ~source.untrusted
  THEN "on" ELSE "off"

PolicyRequest(a, f, v) ==
  [account |-> a, field |-> f, before |-> row[a][f], after |-> v,
   cooldown |-> TRUE]

WantsPriority(a) ==
  Desired(a) = "on" /\ row[a]["priority"] # channel[a].planned

(* What one evaluation decides for one account: the priority comes first   *)
(* and the switch waits for a later round; a running account keeps its     *)
(* priority for priorityChangeCooldown; a stop needs fresh evidence.       *)
Decision(a) ==
  IF WantsPriority(a)
  THEN IF row[a]["schedulable"] = "on" /\ "synced" \in timers[a] THEN {}
       ELSE {PolicyRequest(a, "priority", channel[a].planned)}
  ELSE IF \/ Desired(a) = row[a]["schedulable"]
          \/ Desired(a) = "off" /\ ~channel[a].fresh THEN {}
       ELSE {PolicyRequest(a, "schedulable", Desired(a))}

Evaluate(e) ==
  /\ todo[e] = {}
  /\ ~WritesBlocked
  /\ todo' = [todo EXCEPT ![e] = UNION {Decision(a) : a \in Account}]
  /\ UNCHANGED <<envVars, row, nodeVars, timers, queueVars, boundVars>>

-------------------------------------------------------------------------------
(* enqueueManagedActionWithCooldown                                        *)

(* A bug: the comparison with the wrong state. *)
ConflictingByBefore(r) ==
  {i \in Intent : /\ Live(i)
                  /\ intent[i].account = r.account
                  /\ intent[i].field = r.field
                  /\ intent[i].before # r.before}

Conflicting(r) ==
  {i \in Intent : /\ Live(i)
                  /\ intent[i].account = r.account
                  /\ intent[i].field = r.field
                  /\ intent[i].after # r.after}

(* The partial unique index on the idempotency key, a hash of account,     *)
(* action, before and after.                                               *)
Duplicate(r) ==
  \E i \in Intent : /\ Live(i)
                    /\ intent[i].account = r.account
                    /\ intent[i].field = r.field
                    /\ intent[i].before = r.before
                    /\ intent[i].after = r.after

CoolingDown(r) == r.cooldown /\ r.field \in timers[r.account]

(* A bug: an insert that leaves the status to the column's default. *)
NewRowPending(r) == [status |-> "PENDING", account |-> r.account,
                     field |-> r.field, before |-> r.before, after |-> r.after]

NewRow(r) == [status |-> "APPROVED", account |-> r.account, field |-> r.field,
              before |-> r.before, after |-> r.after]

Unused(i) == intent[i] = NoIntent /\ pc[i] = "done"

(* A bug: enqueueing without the account's mutex. *)
HasTurnUnlocked(c, r) == r \in todo[c]

HasTurn(c, r) == r \in todo[c] /\ lock[r.account] = Free

Enqueue(c, r) ==
  /\ HasTurn(c, r)
  /\ todo' = [todo EXCEPT ![c] = @ \ {r}]
  /\ \/ /\ Duplicate(r) \/ CoolingDown(r)
        /\ intent' = Rejected(Conflicting(r))
        /\ UNCHANGED <<newer, pc>>
     \/ /\ ~Duplicate(r) /\ ~CoolingDown(r)
        /\ \E i \in Intent :
             /\ Unused(i)
             /\ intent' = [Rejected(Conflicting(r)) EXCEPT ![i] = NewRow(r)]
             /\ newer' = [j \in Intent |-> IF j = i \/ Unused(j) THEN {}
                                                    ELSE newer[j] \cup {i}]
             /\ Goto(i, "start")
  /\ UNCHANGED <<envVars, row, nodeVars, timers, lock, boundVars>>

(* A database error of the update or of the insert drops the request.      *)
EnqueueFails(c, r) ==
  /\ HasTurn(c, r)
  /\ Fault("database")
  /\ todo' = [todo EXCEPT ![c] = @ \ {r}]
  /\ intent' \in {intent, Rejected(Conflicting(r))}
  /\ UNCHANGED <<envVars, row, nodeVars, timers, newer, pc, lock>>

-------------------------------------------------------------------------------
(* executeAction                                                           *)

(* A bug: an update that never matches. *)
FailActionMisses(i, gone) == UNCHANGED <<intent, timers, row>>

(* failAction: only a live intent that is not superseded becomes FAILED.   *)
FailAction(i, gone) ==
  IF Live(i) /\ ~Superseded(i)
  THEN /\ intent' = [intent EXCEPT ![i] = NoIntent]
       /\ timers' = [timers EXCEPT ![intent[i].account] =
                       @ \cup {intent[i].field}]
       /\ row' = IF gone THEN Update(row, intent[i].account, "schedulable", "off")
                         ELSE row
  ELSE /\ intent' = LeftBehind(i)
       /\ UNCHANGED <<timers, row>>

BeginBlocked(i) ==
  /\ pc[i] = "start"
  /\ WritesBlocked
  /\ FailAction(i, FALSE)
  /\ Goto(i, "done")
  /\ UNCHANGED <<envVars, nodeVars, newer, lock, todo, boundVars>>

Begin(i) ==
  /\ pc[i] = "start"
  /\ ~WritesBlocked
  /\ Goto(i, IF Live(i) THEN "wait" ELSE "done")
  /\ intent' = LeftBehind(i)
  /\ UNCHANGED <<envVars, row, nodeVars, timers, newer, lock, todo, boundVars>>

(* A database error before the mutex is taken: the intent fails, or the    *)
(* update that should say so fails as well; or only the read of the gates  *)
(* does, which counts as gates that are open.                              *)
BeginFails(i) ==
  /\ pc[i] = "start"
  /\ Fault("database")
  /\ \/ FailAction(i, FALSE) /\ Goto(i, "done")
     \/ intent' = LeftBehind(i) /\ Goto(i, "done") /\ UNCHANGED <<timers, row>>
     \/ WritesBlocked /\ Live(i) /\ Goto(i, "wait") /\ UNCHANGED <<intent, timers, row>>
  /\ UNCHANGED <<envVars, nodeVars, newer, lock, todo>>

(* A bug: a mutex that is not waited for. *)
AcquireLockAnyway(i) ==
  /\ pc[i] = "wait"
  /\ lock' = [lock EXCEPT ![intent[i].account] = i]
  /\ Goto(i, "load")
  /\ UNCHANGED <<envVars, row, nodeVars, timers, intent, newer, todo, boundVars>>

AcquireLock(i) ==
  /\ pc[i] = "wait"
  /\ lock[intent[i].account] = Free
  /\ lock' = [lock EXCEPT ![intent[i].account] = i]
  /\ Goto(i, "load")
  /\ UNCHANGED <<envVars, row, nodeVars, timers, intent, newer, todo, boundVars>>

(* The intent is still to be executed and the target accepts writes.       *)
Load(i) ==
  /\ pc[i] = "load"
  /\ Live(i) /\ ~Superseded(i)
  /\ "write_disabled" \notin settings
  /\ Goto(i, "send")
  /\ UNCHANGED <<envVars, row, nodeVars, timers, intent, newer, lock, todo,
                 boundVars>>

LoadRefused(i) ==
  /\ pc[i] = "load"
  /\ Live(i) /\ ~Superseded(i)
  /\ "write_disabled" \in settings
  /\ FailAction(i, FALSE)
  /\ Goto(i, "done")
  /\ Unlock(i)
  /\ UNCHANGED <<envVars, nodeVars, newer, todo, boundVars>>

(* rejectSupersededAction, which leaves a row that is no longer APPROVED.  *)
LoadSuperseded(i) ==
  /\ pc[i] = "load"
  /\ ~Live(i) \/ Superseded(i)
  /\ intent' = [intent EXCEPT ![i] = NoIntent]
  /\ Goto(i, "done")
  /\ Unlock(i)
  /\ UNCHANGED <<envVars, row, nodeVars, timers, newer, todo, boundVars>>

LoadFails(i) ==
  /\ pc[i] = "load"
  /\ Fault("database")
  /\ Goto(i, "fail")
  /\ UNCHANGED <<envVars, row, nodeVars, timers, intent, newer, lock, todo>>

Send(i) ==
  /\ pc[i] = "send"
  /\ remote' = Update(remote, intent[i].account, intent[i].field, intent[i].after)
  /\ Goto(i, "commit")
  /\ UNCHANGED <<envVars, row, late, timers, intent, newer, lock, todo, boundVars>>

(* Authentication or the request itself is refused ("refused"), the node   *)
(* says the account does not exist ("gone"), or the reply is lost and the  *)
(* request lands later, or never ("lost").                                 *)
SendFails(i, kind) ==
  /\ pc[i] = "send"
  /\ Fault(kind)
  /\ late' = IF kind # "lost" THEN late
             ELSE [late EXCEPT ![intent[i].account] =
                     @ \cup {[field |-> intent[i].field, value |-> intent[i].after]}]
  /\ Goto(i, IF kind = "gone" THEN "gone" ELSE "fail")
  /\ UNCHANGED <<envVars, row, remote, timers, intent, newer, lock, todo>>

Fail(i) ==
  /\ pc[i] \in {"fail", "gone"}
  /\ FailAction(i, pc[i] = "gone")
  /\ Goto(i, "done")
  /\ Unlock(i)
  /\ UNCHANGED <<envVars, nodeVars, newer, todo, boundVars>>

(* A bug: a transaction that does not look at the intent's status again. *)
CommitUnchecked(i) ==
  /\ pc[i] = "commit"
  /\ row' = Update(row, intent[i].account, intent[i].field, intent[i].after)
  /\ intent' = [intent EXCEPT ![i] = NoIntent]
  /\ Goto(i, "done")
  /\ Unlock(i)
  /\ UNCHANGED <<envVars, nodeVars, timers, newer, todo, boundVars>>

(* The transaction after the remote write: EXECUTED and the local row, or  *)
(* nothing when the intent was rejected or superseded meanwhile.           *)
Commit(i) ==
  /\ pc[i] = "commit"
  /\ IF Live(i) /\ ~Superseded(i)
     THEN /\ row' = Update(row, intent[i].account, intent[i].field, intent[i].after)
          /\ timers' = IF intent[i].field = "priority"
                       THEN [timers EXCEPT ![intent[i].account] = @ \cup {"synced"}]
                       ELSE timers
          /\ intent' = [intent EXCEPT ![i] = NoIntent]
     ELSE /\ intent' = LeftBehind(i)
          /\ UNCHANGED <<row, timers>>
  /\ Goto(i, "done")
  /\ Unlock(i)
  /\ UNCHANGED <<envVars, nodeVars, newer, todo, boundVars>>

(* A database error of that transaction, of failAction or of               *)
(* rejectSupersededAction is returned to a goroutine nobody waits for: the *)
(* row keeps its status.                                                   *)
CloseFails(i) ==
  /\ pc[i] \in {"load", "commit", "fail", "gone"}
  /\ Fault("database")
  /\ intent' = LeftBehind(i)
  /\ Goto(i, "done")
  /\ Unlock(i)
  /\ UNCHANGED <<envVars, row, nodeVars, timers, newer, todo>>

-------------------------------------------------------------------------------
(* The world                                                               *)

LateRequestLands(a) ==
  \E w \in late[a] :
    /\ remote' = Update(remote, a, w.field, w.value)
    /\ late' = [late EXCEPT ![a] = @ \ {w}]
    /\ UNCHANGED <<envVars, row, timers, queueVars, todo, boundVars>>

LateRequestVanishes(a) ==
  \E w \in late[a] :
    /\ late' = [late EXCEPT ![a] = @ \ {w}]
    /\ UNCHANGED <<envVars, row, remote, timers, queueVars, todo, boundVars>>

TimerElapses(a) ==
  \E t \in timers[a] :
    /\ timers' = [timers EXCEPT ![a] = @ \ {t}]
    /\ UNCHANGED <<envVars, row, nodeVars, queueVars, todo, boundVars>>

(* The process stops and starts again: goroutines, mutexes and requests in *)
(* memory are gone, the tables stay.  The migration rejects PENDING rows,  *)
(* which no code path inserts any more, and leaves APPROVED ones.          *)
Restart ==
  /\ Fault("restart")
  /\ pc' = [i \in Intent |-> "done"]
  /\ intent' = [i \in Intent |-> IF Live(i) THEN intent[i] ELSE NoIntent]
  /\ lock' = [a \in Account |-> Free]
  /\ todo' = [c \in Caller |-> {}]
  /\ api' = "idle"
  /\ UNCHANGED <<settings, source, channel, row, nodeVars, timers, newer>>

-------------------------------------------------------------------------------
ExecuteAction(i) ==
  \/ BeginBlocked(i)
  \/ Begin(i)
  \/ BeginFails(i)
  \/ AcquireLock(i)
  \/ Load(i)
  \/ LoadRefused(i)
  \/ LoadSuperseded(i)
  \/ LoadFails(i)
  \/ Send(i)
  \/ \E kind \in {"refused", "gone", "lost"} : SendFails(i, kind)
  \/ Fail(i)
  \/ Commit(i)
  \/ CloseFails(i)

Operator ==
  \/ \E g \in Gate : Toggle(g)
  \/ PauseSource
  \/ ResumeSource
  \/ UntrustSource
  \/ TrustSource
  \/ ListAccounts

World(a) ==
  \/ SetHealth(a)
  \/ \E p \in Priority : Replan(a, p)
  \/ EvidenceAges(a)
  \/ EvidenceArrives(a)
  \/ LateRequestLands(a)
  \/ LateRequestVanishes(a)
  \/ TimerElapses(a)

Step ==
  \/ Operator
  \/ \E a \in Account : World(a)
  \/ \E e \in Evaluator : Evaluate(e)
  \/ \E c \in Caller : \E r \in todo[c] : Enqueue(c, r) \/ EnqueueFails(c, r)
  \/ \E i \in Intent : ExecuteAction(i)

Next == Step \/ Restart

Spec == Init /\ [][Next]_vars

-------------------------------------------------------------------------------
(* Safety                                                                  *)

Executing(i) == pc[i] \in {"load", "send", "commit", "fail", "gone"}
InFlight(i)  == pc[i] \in {"send", "commit"}

(* An account's mutex is held by the one executor that is past it, and a   *)
(* goroutine always has its row.                                           *)
LockInv ==
  \A i \in Intent :
    /\ Executing(i) => lock[intent[i].account] = i
    /\ pc[i] # "done" => intent[i] # NoIntent

(* Two executeAction goroutines never work on the same account at once     *)
(* (control.go:296, managedActionLock).                                    *)
OneExecutorPerAccount ==
  \A i, j \in Intent :
    Executing(i) /\ Executing(j) /\ intent[i].account = intent[j].account => i = j

(* All intents that are still to be executed for one account and action    *)
(* type ask for the same state: enqueueing rejects the others.             *)
OneGoal ==
  \A i, j \in Intent :
    Live(i) /\ Live(j) /\ SameTarget(i, j) => intent[i].after = intent[j].after

(* No newer intent of its kind is waiting when an executor is about to     *)
(* write the remote node or has just done so, although that was only       *)
(* checked before: the mutex keeps newer ones out.                         *)
InFlightIsNewest == \A i \in Intent : InFlight(i) => ~Superseded(i)

(* Every intent that is APPROVED has the goroutine that will execute or    *)
(* close it.                                                               *)
ApprovedHasExecutor == \A i \in Intent : Live(i) => pc[i] # "done"

(* While no executor works on an account and no lost request can still     *)
(* land, the local row tells the state of the account on the node.         *)
Quiet(a) ==
  /\ late[a] = {}
  /\ \A i \in Intent : Executing(i) => intent[i].account # a

RowTellsRemote == \A a \in Account : Quiet(a) => remote[a] = row[a]

-------------------------------------------------------------------------------
(* The abstract specification: the goal of a field is what the live        *)
(* intents of its type agree on.                                           *)

LiveFor(s) ==
  {i \in Intent : Live(i) /\ intent[i].account = s[1] /\ intent[i].field = s[2]}

Goal == [s \in Account \X Field |->
           IF LiveFor(s) = {} THEN NoGoal
           ELSE intent[CHOOSE i \in LiveFor(s) : TRUE].after]

Register == INSTANCE GoalRegister WITH goal <- Goal

(* The queue implements the goal register: whatever is pending, rejected,  *)
(* superseded or lost, a row changes only to the state its live intents    *)
(* ask for at that moment (control.go:380-414).                            *)
RegisterSpec == Register!Spec

-------------------------------------------------------------------------------
(* Liveness                                                                *)

(* Goroutines run, Go's mutexes do not starve a waiter, the scheduler      *)
(* evaluates every 15 seconds, cooldowns elapse, lost requests land or     *)
(* vanish, and traffic or probes keep producing evidence.                  *)
Fairness ==
  /\ \A i \in Intent :
       /\ WF_vars(BeginBlocked(i) \/ Begin(i))
       /\ SF_vars(AcquireLock(i))
       /\ WF_vars(Load(i) \/ LoadRefused(i) \/ LoadSuperseded(i))
       /\ WF_vars(Send(i) \/ Fail(i) \/ Commit(i))
  /\ \A c \in Caller : SF_vars(\E r \in todo[c] : Enqueue(c, r))
  /\ \A e \in Evaluator : SF_vars(Evaluate(e))
  /\ WF_vars(ListAccounts)
  /\ \A a \in Account :
       /\ WF_vars(EvidenceArrives(a))
       /\ WF_vars(LateRequestLands(a) \/ LateRequestVanishes(a))
       /\ WF_vars(TimerElapses(a))

FairSpec == Spec /\ Fairness

GatesOpen == settings = {}

(* When the write gates stay open, every row ends up in the state the      *)
(* policy wants and stays there: no start or stop is blocked for good by   *)
(* an earlier action (CHANGELOG.md:286), a cooldown or a stale decision.   *)
RowsConverge ==
  <>[]GatesOpen =>
    <>[](\A a \in Account : row[a]["schedulable"] = Desired(a))

=============================================================================
