--------------------------- MODULE AccountLifecycle ---------------------------
(***************************************************************************)
(* The managed accounts of module Bindings, and what deletes and replaces  *)
(* them: the deletion of the source, the recreation of a slow account, the *)
(* cleanup of the accounts a recreation has retired, and the groups that   *)
(* vanish from the source or from the node; and the restart of the process *)
(* in the middle of any of these.                                          *)
(***************************************************************************)
EXTENDS Bindings

VARIABLES
  deleter,  \* the goroutine of the latest source_deletion_jobs row
  builder,  \* a recreation: the evaluation that asks for it, its intent, its steps
  sweeper,  \* accounts the cleanup of vanished groups has still to delete
  crashed   \* the process has been restarted

vars == <<bindVars, deleter, builder, sweeper, crashed>>
others == <<deleter, builder, sweeper, crashed>>

-------------------------------------------------------------------------------
(* The deletion of the source. *)

NoDeletion == [phase |-> "idle", todo |-> {}, at |-> 0]

\* Mutant: the intents of the accounts are left as they are.
StillLive == builder

\* The intent of a recreation is rejected: it will not commit.
Rejected == [builder EXCEPT !.live = FALSE]

\* Mutant: it does not wait for the edit of a mapping (mappingMu).
RequestDeletionBeside ==
  /\ Requested("delete") /\ asked' = asked + 1
  /\ source \in {"ACTIVE", "DELETING"} /\ deleter = NoDeletion
  /\ \A j \in Jobs : ~Active(j)
  /\ source' = "DELETING" /\ builder' = Rejected
  /\ rows' = {[r EXCEPT !.on = FALSE] : r \in rows}
  /\ deleter' = [NoDeletion EXCEPT !.phase = "queued"]
  /\ UNCHANGED <<node, history, present, jobs, mapper, maker, lost, told, kit, sweeper, crashed>>

\* A source that is DELETING may be asked for again once its job has ended.
RequestDeletion ==
  /\ Requested("delete") /\ asked' = asked + 1
  /\ source \in {"ACTIVE", "DELETING"} /\ deleter = NoDeletion
  /\ mapper = NoEdit /\ \A j \in Jobs : ~Active(j)
  /\ source' = "DELETING" /\ builder' = Rejected
  /\ rows' = {[r EXCEPT !.on = FALSE] : r \in rows}
  /\ deleter' = [NoDeletion EXCEPT !.phase = "queued"]
  /\ UNCHANGED <<node, history, present, jobs, mapper, maker, lost, told, kit, sweeper, crashed>>

DeletionLoad ==
  /\ deleter.phase = "queued"
  /\ deleter' = [deleter EXCEPT !.phase = "deleting", !.todo = rows]
  /\ UNCHANGED <<bindVars, builder, sweeper, crashed>>

\* The account a row named when the job read it; a failure ends the job.
DeletionCall ==
  /\ deleter.phase = "deleting"
  /\ \E r \in deleter.todo :
       /\ \A q \in deleter.todo : r.id =< q.id
       /\ \/ /\ node' = With({r.account}, "gone")
             /\ deleter' = [deleter EXCEPT !.phase = "removing", !.at = r.id]
          \/ /\ Fails("call") /\ ~Gone(r.account)
             /\ deleter' = NoDeletion /\ UNCHANGED node
  /\ UNCHANGED <<rows, history, source, present, jobs, mapper, maker, lost, told, kit, asked,
                 builder, sweeper, crashed>>

DeletionRemove ==
  /\ deleter.phase = "removing"
  /\ \/ /\ rows' = Without({deleter.at}) /\ history' = Forgetting({deleter.at})
        /\ deleter' = [deleter EXCEPT !.phase = "deleting", !.at = 0,
                                      !.todo = {r \in @ : r.id # deleter.at}]
     \/ Fails("commit") /\ deleter' = NoDeletion /\ UNCHANGED <<rows, history>>
  /\ UNCHANGED <<node, source, present, jobs, mapper, maker, lost, told, kit, asked, builder,
                 sweeper, crashed>>

DeletionFinish ==
  /\ deleter.phase = "deleting" /\ deleter.todo = {}
  /\ \/ rows = {} /\ source' = "gone"
     \/ (rows # {} \/ Fails("commit")) /\ UNCHANGED source
  /\ deleter' = NoDeletion
  /\ UNCHANGED <<node, rows, history, present, jobs, mapper, maker, lost, told, kit, asked,
                 builder, sweeper, crashed>>

-------------------------------------------------------------------------------
(* The recreation of a slow account as the last fallback of its slot. *)

NotBuilding == [phase |-> "idle", id |-> 0, old |-> 0, new |-> 0, was |-> FALSE,
                oldOff |-> FALSE, live |-> FALSE]

bindUnchanged == UNCHANGED <<history, source, present, jobs, mapper, maker, kit, asked>>

\* An evaluation reads the account and decides ...
Plan(r) ==
  /\ Requested("recreate") /\ builder = NotBuilding /\ asked' = asked + 1
  /\ source = "ACTIVE"
  /\ builder' = [NotBuilding EXCEPT !.phase = "planned", !.id = r.id, !.was = r.on]
  /\ UNCHANGED <<node, rows, history, source, present, jobs, mapper, maker, lost, told, kit,
                 deleter, sweeper, crashed>>

\* ... and inserts an approved intent for it, whatever has become of the source.
Enqueue ==
  LET exists == \E r \in rows : r.id = builder.id IN
  /\ builder.phase = "planned"
  /\ builder' = IF exists /\ (source = "ACTIVE" \/ Fails("stale"))
                THEN [builder EXCEPT !.phase = "queued", !.live = TRUE]
                ELSE NotBuilding
  /\ UNCHANGED <<bindVars, deleter, sweeper, crashed>>

BuildLoad ==
  /\ builder.phase = "queued"
  /\ builder' = IF builder.live /\ \E r \in rows : r.id = builder.id
                THEN [builder EXCEPT !.phase = "creating",
                        !.old = (CHOOSE r \in rows : r.id = builder.id).account]
                ELSE NotBuilding
  /\ UNCHANGED <<bindVars, deleter, sweeper, crashed>>

\* The model mapping is read from the old account first.
BuildCreate ==
  /\ builder.phase = "creating"
  /\ \/ /\ ~Gone(builder.old)
        /\ node' = Append(node, "stopped")
        /\ \/ /\ builder' = [builder EXCEPT !.phase = "stopping", !.new = Len(node')]
              /\ UNCHANGED <<lost, told>>
           \/ /\ Fails("reply") /\ builder' = NotBuilding
              /\ lost' = lost \cup {Len(node')} /\ told' = told \cup {builder.old}
     \/ /\ Gone(builder.old) \/ Fails("call")
        /\ builder' = NotBuilding /\ told' = told \cup {builder.old}
        /\ UNCHANGED <<node, lost>>
  /\ bindUnchanged /\ UNCHANGED <<rows, deleter, sweeper, crashed>>

BuildSwitch(phase, a, state, next) ==
  /\ builder.phase = phase
  /\ \/ /\ ~Gone(a)
        /\ node' = With({a}, state)
        /\ builder' = [builder EXCEPT !.phase = next, !.oldOff = TRUE]
     \/ /\ Gone(a) \/ Fails("call")
        /\ builder' = [builder EXCEPT !.phase = "undoing"]
        /\ UNCHANGED node
  /\ bindUnchanged /\ UNCHANGED <<rows, lost, told, deleter, sweeper, crashed>>

BuildStop  == BuildSwitch("stopping", builder.old, "stopped", "starting")
BuildStart == BuildSwitch("starting", builder.new, "running", "committing")

\* Mutant: the old account is not recorded.
Unrecorded(id, old) == history

Retired(id, old) == history \cup {[row |-> id, account |-> old]}

\* The transaction: the old account is recorded, the intent still approved, the
\* row still names the old account.
BuildCommit ==
  LET mine == {r \in rows : r.id = builder.id /\ r.account = builder.old} IN
  /\ builder.phase = "committing"
  /\ \/ /\ builder.live /\ mine # {}
        /\ rows' = (rows \ mine) \cup {[r EXCEPT !.account = builder.new, !.on = TRUE] : r \in mine}
        /\ history' = Retired(builder.id, builder.old)
        /\ builder' = [builder EXCEPT !.phase = "retiring", !.live = FALSE]
     \/ /\ ~builder.live \/ mine = {} \/ Fails("commit")
        /\ builder' = [builder EXCEPT !.phase = "undoing"]
        /\ UNCHANGED <<rows, history>>
  /\ UNCHANGED <<node, source, present, jobs, mapper, maker, lost, told, kit, asked,
                 deleter, sweeper, crashed>>

\* The new account off, the old one on again, the new one deleted, each error
\* ignored.  A superseded recreation ends without an event.
BuildUndo ==
  LET back == IF builder.oldOff /\ builder.was /\ ~Gone(builder.old) THEN {builder.old} ELSE {} IN
  /\ builder.phase = "undoing"
  /\ \E kept \in Leftovers({builder.new}), off \in SUBSET back, on \in BOOLEAN :
       /\ off # {} \/ on => Fails("call")
       /\ node' = [a \in DOMAIN node |->
                     CASE a = builder.new -> IF kept = {} THEN "gone"
                                             ELSE IF on THEN node[a] ELSE "stopped"
                       [] a \in (back \ off) \ {builder.new} -> "running"
                       [] OTHER           -> node[a]]
       /\ lost' = lost \cup kept
  /\ told' = IF builder.live THEN told \cup {builder.old, builder.new} ELSE told
  /\ builder' = NotBuilding
  /\ bindUnchanged /\ UNCHANGED <<rows, deleter, sweeper, crashed>>

BuildRetire ==
  /\ builder.phase = "retiring"
  /\ \/ /\ node' = With({builder.old}, "gone")
        /\ history' = {h \in history : h.account # builder.old}
        /\ UNCHANGED told
     \/ /\ Fails("call") /\ ~Gone(builder.old) /\ told' = told \cup {builder.old}
        /\ UNCHANGED <<node, history>>
  /\ builder' = NotBuilding
  /\ UNCHANGED <<rows, source, present, jobs, mapper, maker, lost, kit, asked, deleter, sweeper,
                 crashed>>

-------------------------------------------------------------------------------
(* The worker's next attempt to delete a retired account. *)

\* Mutant: an attempt that failed is the last.
NeverTried(h) == "clean" \in kit.sagas /\ h.account \notin told

\* The next attempt comes 15 minutes after the last.
Due(h) == "clean" \in kit.sagas

Clean(h) ==
  /\ Due(h)
  /\ node' = With({h.account}, "gone") /\ history' = history \ {h}
  /\ UNCHANGED <<rows, source, present, jobs, mapper, maker, lost, told, kit, asked, others>>

CleanFails(h) ==
  /\ Due(h) /\ Fails("call") /\ ~Gone(h.account)
  /\ h.account \notin told /\ told' = told \cup {h.account}
  /\ UNCHANGED <<node, rows, history, source, present, jobs, mapper, maker, lost, kit, asked,
                 others>>

-------------------------------------------------------------------------------
(* A group that a scan of the source, or a sync of the node, no longer finds. *)

\* Rows first ...
Vanish(x) ==
  LET swept == {r \in rows : x \in {r.group, r.slot}}
      ids   == {r.id : r \in swept} IN
  /\ Requested("sweep") /\ asked' = asked + 1
  /\ source = "ACTIVE" /\ x \in present
  /\ present' = present \ {x}
  /\ rows' = rows \ swept /\ history' = Forgetting(ids)
  /\ builder' = IF builder.id \in ids THEN Rejected ELSE builder
  /\ sweeper' = sweeper \cup AccountsOf(swept)
  /\ UNCHANGED <<node, source, jobs, mapper, maker, lost, told, kit, deleter, crashed>>

\* ... then the accounts, once each.
Sweep(a) ==
  /\ sweeper' = sweeper \ {a}
  /\ \/ node' = With({a}, "gone") /\ UNCHANGED <<lost, told>>
     \/ /\ Fails("call") /\ ~Gone(a)
        /\ lost' = lost \cup {a} /\ told' = told \cup {a} /\ UNCHANGED node
  /\ UNCHANGED <<rows, history, source, present, jobs, mapper, maker, kit, asked, deleter,
                 builder, crashed>>

-------------------------------------------------------------------------------
(* The restart. *)

\* Accounts no row names yet ...
Pending ==
  AccountsOf(UNION {jobs[j].held : j \in Jobs}) \cup AccountsOf(mapper.made)
    \cup (IF maker.phase = "inserting" THEN {maker.account} ELSE {})
    \cup (IF builder.phase \in {"stopping", "starting", "committing", "undoing"}
          THEN {builder.new} ELSE {})

\* ... and accounts no row names any more.
Doomed == sweeper \cup (IF builder.phase = "retiring" THEN {builder.old} ELSE {})

\* Accounts that only the memory of a goroutine names.
InHand == Pending \cup Doomed

\* Mutant: the jobs of the process before are left as they were.
JobsAsTheyWere == [j \in Jobs |-> [jobs[j] EXCEPT !.held = {}, !.runs = FALSE]]

\* The migration fails the jobs that were under way.
JobsAfterRestart ==
  [j \in Jobs |-> [jobs[j] EXCEPT !.status = IF Active(j) THEN "FAILED" ELSE @,
                                   !.held = {}, !.runs = FALSE]]

Restart ==
  /\ Fails("crash") /\ ~crashed /\ crashed' = TRUE
  /\ jobs' = JobsAfterRestart
  /\ mapper' = NoEdit /\ maker' = NotMaking /\ deleter' = NoDeletion
  /\ builder' = NotBuilding /\ sweeper' = {}
  /\ lost' = lost \cup {a \in InHand : ~Gone(a)}
  /\ UNCHANGED <<node, rows, history, source, present, told, kit, asked>>

-------------------------------------------------------------------------------

Init ==
  /\ BindInit
  /\ deleter = NoDeletion /\ builder = NotBuilding /\ sweeper = {} /\ crashed = FALSE

Binding == (Deploying \/ Mapping \/ Making) /\ UNCHANGED others

DeletionSteps == DeletionLoad \/ DeletionCall \/ DeletionRemove \/ DeletionFinish

BuildSteps ==
  \/ Enqueue \/ BuildLoad \/ BuildCreate \/ BuildStop \/ BuildStart \/ BuildCommit
  \/ BuildUndo \/ BuildRetire

Next ==
  \/ Binding
  \/ RequestDeletion \/ DeletionSteps
  \/ \E r \in rows : Plan(r)
  \/ BuildSteps
  \/ \E h \in history : Clean(h) \/ CleanFails(h)
  \/ \E x \in present : Vanish(x)
  \/ \E a \in sweeper : Sweep(a)
  \/ Restart

Spec == Init /\ [][Next]_vars

\* Goroutines go on until they end, and the worker's turn of cleaning comes again
\* and again; a node that goes on answering will answer one of its attempts.
FairSpec ==
  /\ Spec
  /\ WF_vars(BindSteps /\ UNCHANGED others) /\ WF_vars(DeletionSteps) /\ WF_vars(BuildSteps)
  /\ SF_vars(\E h \in history : Clean(h))

-------------------------------------------------------------------------------
(* Properties. *)

\* Types.
SagaTypeOK ==
  /\ node \in Seq({"stopped", "running", "gone"})
  /\ \A r \in rows : r.account \in DOMAIN node /\ r.group \in Groups /\ r.slot \in Slots
  /\ \A h \in history : h.account \in DOMAIN node
  /\ source \in {"ACTIVE", "DELETING", "gone"} /\ present \subseteq Groups \cup Slots
  /\ \A j \in Jobs : /\ jobs[j].status \in {"", "QUEUED", "RUNNING", "COMPLETED", "FAILED"}
                     /\ jobs[j].status = "COMPLETED" => jobs[j].held = {}
  /\ mapper.phase \in {"idle", "creating", "stopping", "deleting", "restoring", "undoing"}
  /\ mapper.phase # "idle" => source = "ACTIVE"
  /\ deleter.phase \in {"idle", "queued", "deleting", "removing"}
  /\ deleter.phase # "idle" => source = "DELETING"
  /\ lost \cup told \cup sweeper \subseteq DOMAIN node

\* Every account on the node is named by a row, recorded as retired, in the hands
\* of a goroutine, or one that a failed call, a lost reply or a crash has left
\* behind: however the sagas interleave, none of them loses an account by itself.
Tracked ==
  \A a \in DOMAIN node :
    Gone(a) \/ a \in AccountsOf(rows) \cup AccountsOf(history) \cup InHand \cup lost

\* A binding whose account is no longer there is one whose removal is under way,
\* or an event has told the operator of it.
MissingIsKnown ==
  \A r \in rows :
    Gone(r.account) => \/ source = "DELETING" \/ r.account \in told
                       \/ \E q \in mapper.deleted : q.id = r.id

\* However its requests overlap in time, no group of the source is bound twice to
\* one slot: the lock, the unique index and the validation at start together.
OneBinding ==
  \A q, r \in rows : q.group = r.group /\ q.slot = r.slot => q = r

\* The source is removed after every account of it has been deleted
\* (source_deletions.go:20-22): what is left on the node then are accounts lost to
\* a fault, or in the hands of a rollback, of a cleanup, or of a recreation whose
\* intent is no longer approved, which deletes them.
DeletedHasNothing ==
  source = "gone" =>
    /\ ~builder.live /\ maker = NotMaking
    /\ \A a \in DOMAIN node : Gone(a) \/ a \in lost \cup InHand

\* A deployment, an edit and a deletion end, so that none of them keeps the others
\* out for ever, not even when the process is restarted in the middle of it.
SagasEnd ==
  /\ \A j \in Jobs : Active(j) ~> ~Active(j)
  /\ (mapper # NoEdit) ~> (mapper = NoEdit)
  /\ (deleter # NoDeletion) ~> (deleter = NoDeletion)

\* An account recorded as retired is deleted in the end, whatever the outcome of
\* the first attempts and of a restart between the replacement and the deletion.
RetiredAreDeleted ==
  \A a \in 1..(4 * Cardinality(Slots)) :
    (a \in AccountsOf(history)) ~> (a \in DOMAIN node /\ Gone(a))

Stage ==
  [a \in DOMAIN node |->
     IF Gone(a)                          THEN "gone"
     ELSE IF a \in AccountsOf(rows)      THEN "bound"
     ELSE IF a \in AccountsOf(history)   THEN "retired"
     ELSE IF a \in Pending               THEN "pending"
     ELSE IF a \in Doomed                THEN "doomed"
     ELSE IF a \in lost                  THEN "lost"
     ELSE                                     "unknown"]

Ledger == INSTANCE AccountLedger WITH stage <- Stage

\* However the sagas interleave, an account is bound once, retired only by the one
\* that takes its place, and never comes back; what no fault has left behind is
\* deleted: the sagas implement AccountLedger.
LedgerSpec == Ledger!Spec
===============================================================================
