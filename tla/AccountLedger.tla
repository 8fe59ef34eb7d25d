---------------------------- MODULE AccountLedger ----------------------------
(***************************************************************************)
(* What the managed accounts of a source promise, seen from the node: an   *)
(* account is pending until it is bound, bound once, retired only by the   *)
(* account that takes its place, and never comes back; it is gone when it  *)
(* has been deleted, lost when a fault has left it behind.                 *)
(***************************************************************************)
EXTENDS Naturals, Sequences

VARIABLE stage  \* of each account, in the order of their creation

DOM == DOMAIN stage

\* Of its accounts some make one of the moves, each its own, and the others none.
Only(moves) ==
  /\ DOMAIN stage' = DOM
  /\ \A a \in DOM : stage'[a] = stage[a] \/ <<stage[a], stage'[a]>> \in moves

\* Accounts come: pending, restored into a row that has lost its own, or lost with
\* the reply that would have named them.
Create ==
  /\ DOM \subseteq DOMAIN stage' /\ \A a \in DOM : stage'[a] = stage[a]
  /\ \A a \in DOMAIN stage' \ DOM : stage'[a] \in {"pending", "bound", "lost"}

\* Rows are inserted for accounts that were pending.
Bind == Only({<<"pending", "bound">>})

\* The rollback of what has not been bound.
Withdraw == Only({<<"pending", "gone">>, <<"pending", "lost">>})

\* One account takes the place of another.
Replace ==
  \E old, new \in DOM :
    /\ stage[old] = "bound" /\ stage[new] = "pending"
    /\ stage' = [stage EXCEPT ![old] = "retired", ![new] = "bound"]

Delete ==
  \E a \in DOM : /\ stage[a] \in {"bound", "retired", "doomed"}
                 /\ stage' = [stage EXCEPT ![a] = "gone"]

\* The rows go, with what they have retired: what is left is to be deleted.
Forget == Only({<<"bound", "doomed">>, <<"retired", "doomed">>, <<"retired", "lost">>})

\* The one attempt to delete a doomed account has failed.
Leave ==
  \E a \in DOM : stage[a] = "doomed" /\ stage' = [stage EXCEPT ![a] = "lost"]

Crash ==
  stage' = [a \in DOM |-> IF stage[a] \in {"pending", "doomed"} THEN "lost" ELSE stage[a]]

Init == stage \in Seq({"bound"})

Next == Create \/ Bind \/ Withdraw \/ Replace \/ Delete \/ Forget \/ Leave \/ Crash

Spec == Init /\ [][Next]_stage
===============================================================================
