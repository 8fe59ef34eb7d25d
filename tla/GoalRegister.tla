----------------------------- MODULE GoalRegister -----------------------------
(***************************************************************************)
(* What the action queue promises about the local rows, without intents,   *)
(* goroutines or locks: each field of each account has at most one goal, a *)
(* goal may be set, replaced or revoked at any time, and a row changes     *)
(* only by adopting the goal that stands at that moment - or, when the     *)
(* node says the account is gone while a goal of it stood, by being        *)
(* switched off.                                                           *)
(***************************************************************************)
CONSTANTS Account, Field, Value, NoGoal

VARIABLES goal, row

regVars == <<goal, row>>

Slot == Account \X Field

Init ==
  /\ goal = [s \in Slot |-> NoGoal]
  /\ row \in [Account -> [Field -> Value]]

SetGoal(s, v) ==
  /\ goal' = [goal EXCEPT ![s] = v]
  /\ UNCHANGED row

Revoke(S) ==
  /\ goal' = [s \in Slot |-> IF s \in S THEN NoGoal ELSE goal[s]]
  /\ UNCHANGED row

(* The goal stays only when another request for the same state is queued.  *)
Spend(s) == goal' \in {goal, [goal EXCEPT ![s] = NoGoal]}

Adopt(s) ==
  /\ goal[s] # NoGoal
  /\ row' = [row EXCEPT ![s[1]][s[2]] = goal[s]]
  /\ Spend(s)

Gone(s) ==
  /\ goal[s] # NoGoal
  /\ row' = [row EXCEPT ![s[1]]["schedulable"] = "off"]
  /\ Spend(s)

Next ==
  \/ \E s \in Slot : (\E v \in Value : SetGoal(s, v)) \/ Adopt(s) \/ Gone(s)
  \/ \E S \in SUBSET Slot : Revoke(S)

Spec == Init /\ [][Next]_regVars

=============================================================================
