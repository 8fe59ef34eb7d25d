------------------------------- MODULE Bindings -------------------------------
(***************************************************************************)
(* The managed accounts of one source on one target node, and the three    *)
(* operations that bind its groups to the slots (target groups) of the     *)
(* node: the deployment job of groups that have no account, the edit of a  *)
(* group's mapping, and the account made by hand.                          *)
(*                                                                         *)
(* Each is a saga: it creates accounts on the node first, names them in    *)
(* the database last, and deletes what it has created when a step between  *)
(* fails.  Everything here is about one question: which accounts of the    *)
(* node does the database know of, and which of its rows name an account   *)
(* that is there.  Module AccountLifecycle adds what deletes and replaces  *)
(* accounts.                                                               *)
(***************************************************************************)
EXTENDS Naturals, Sequences, FiniteSets, SequencesExt

CONSTANTS
  Groups,       \* groups of the source
  Slots,        \* target groups of the node; numbers, disjoint from Groups
  Jobs,         \* deployment jobs that may be submitted, numbered in that order
  Kits          \* what may happen in one behaviour: which sagas, which faults and,
                \* a bound, how many requests: [sagas, faults, requests]

ASSUME BindingsAssumption ==
  /\ Groups \subseteq Nat /\ Slots \subseteq Nat /\ Groups \cap Slots = {}
  /\ Groups # {} /\ Slots # {} /\ IsFiniteSet(Groups) /\ IsFiniteSet(Slots)
  /\ \A k \in Kits : k.requests \in Nat

VARIABLES
  node,     \* the accounts on the node, in the order they were created
  rows,     \* managed_accounts of the source
  history,  \* managed_account_remote_history: retired, not yet deleted
  source,   \* sources.status, or "gone" with the row
  present,  \* source groups and target groups that have a row
  jobs,     \* deployment_jobs, with what their goroutines hold
  mapper,   \* the edit of a mapping
  maker,    \* the creation by hand
  lost,     \* accounts a failed call, a lost reply or a crash has left behind
  told,     \* accounts an event has been opened about
  kit,      \* the member of Kits this behaviour is of
  asked     \* requests made so far

bindVars == <<node, rows, history, source, present, jobs, mapper, maker, lost, told, kit, asked>>
scene == <<source, present, kit, asked>>

-------------------------------------------------------------------------------
(* Rows and the node's calls. *)

Fails(f) == f \in kit.faults

Requested(saga) == saga \in kit.sagas /\ asked < kit.requests

Of(g) == {r \in rows : r.group = g}

Row(g, s, a, on) == [id |-> a, group |-> g, slot |-> s, account |-> a, on |-> on]

Without(ids) == {r \in rows : r.id \notin ids}

\* The history of a row goes with it (ON DELETE CASCADE).
Forgetting(ids) == {h \in history : h.row \notin ids}

Gone(a) == node[a] = "gone"

With(as, state) == [a \in DOMAIN node |-> IF a \in as THEN state ELSE node[a]]

\* What creating an account for each of the slots may come to: those whose id
\* is known, and those created by a call whose reply is lost.
Creations(slots) ==
  {c \in [made : SUBSET slots, astray : SUBSET slots] :
     /\ c.made \cap c.astray = {}
     /\ c.made # slots => Fails("call")
     /\ c.astray # {} => Fails("reply")}

Born(c) ==
  node \o [i \in 1..(Cardinality(c.made) + Cardinality(c.astray)) |-> "stopped"]

\* The slots, one after the other, with the accounts after the n-th.
Numbered(slots, n) ==
  {[slot |-> SetToSeq(slots)[i], account |-> n + i] : i \in 1..Cardinality(slots)}

Named(c) == Numbered(c.made, Len(node))

Strays(c) == (Len(node) + Cardinality(c.made) + 1)..Len(Born(c))

AccountsOf(S) == {x.account : x \in S}

\* Accounts that deleting all of as, every error ignored, may leave.
Leftovers(as) ==
  {k \in SUBSET {a \in as : ~Gone(a)} : k # {} => Fails("call")}

-------------------------------------------------------------------------------
(* Deployment jobs. *)

NoJob ==
  [status |-> "", groups |-> {}, slots |-> {}, done |-> {}, held |-> {}, runs |-> FALSE]

Active(j) == jobs[j].status \in {"QUEUED", "RUNNING"}

Names(g) == \E j \in Jobs : Active(j) /\ g \in jobs[j].groups

Deployable(gs, ss) == gs \cup ss \subseteq present /\ \A g \in gs : Of(g) = {}

\* Mutant: no unique index on the active job of a group.
FreeUnindexed(gs) == Cardinality(gs) = 1 => mapper.group \notin gs

\* A request for one group is serialised with the edit of its mapping and has
\* one active job (idx_deployment_jobs_active_group).  One for several groups is
\* neither: that it names a group another one names is the "overlap" of a kit.
Free(gs) ==
  /\ Cardinality(gs) = 1 => mapper.group \notin gs
  /\ \A j \in Jobs : Active(j) /\ jobs[j].groups \cap gs # {} =>
       Fails("overlap") /\ Cardinality(gs) + Cardinality(jobs[j].groups) > 2

Submit(j, gs, ss) ==
  /\ Requested("deploy") /\ asked' = asked + 1
  /\ jobs[j] = NoJob /\ \A k \in Jobs : k < j => jobs[k] # NoJob
  /\ source = "ACTIVE" /\ Deployable(gs, ss) /\ Free(gs)
  /\ jobs' = [jobs EXCEPT ![j] = [NoJob EXCEPT !.status = "QUEUED", !.groups = gs,
                                               !.slots = ss, !.runs = TRUE]]
  /\ UNCHANGED <<node, rows, history, source, present, mapper, maker, lost, told, kit>>

JobStart(j) ==
  /\ jobs[j].status = "QUEUED" /\ jobs[j].runs
  /\ LET fit == source = "ACTIVE" /\ Deployable(jobs[j].groups, jobs[j].slots) IN
     \E status \in {"RUNNING", "FAILED"} :
        /\ status = "RUNNING" => fit
        /\ status = "FAILED"  => ~fit \/ Fails("call")
        /\ jobs' = [jobs EXCEPT ![j].status = status]
  /\ UNCHANGED <<node, rows, history, mapper, maker, lost, told, scene>>

\* One group: its key, the models the key gives, an account for every slot.
JobGroup(j) ==
  /\ jobs[j].status = "RUNNING" /\ jobs[j].runs
  /\ \E g \in jobs[j].groups \ jobs[j].done, c \in Creations(jobs[j].slots) :
       /\ node' = Born(c) /\ lost' = lost \cup Strays(c)
       /\ jobs' = [jobs EXCEPT
            ![j].status = IF c.made = jobs[j].slots THEN @ ELSE "FAILED",
            ![j].done   = @ \cup {g},
            ![j].held   = @ \cup {Row(g, n.slot, n.account, FALSE) : n \in Named(c)}]
  /\ UNCHANGED <<rows, history, mapper, maker, told, scene>>

\* The transaction that names them all.
JobCommit(j) ==
  LET job == jobs[j] IN
  /\ job.status = "RUNNING" /\ job.runs /\ job.done = job.groups
  /\ \/ /\ job.groups \cup job.slots \subseteq present
        /\ rows' = rows \cup job.held
        /\ jobs' = [jobs EXCEPT ![j].status = "COMPLETED", ![j].held = {}]
     \/ /\ ~(job.groups \cup job.slots \subseteq present) \/ Fails("commit")
        /\ jobs' = [jobs EXCEPT ![j].status = "FAILED"]
        /\ UNCHANGED rows
  /\ UNCHANGED <<node, history, mapper, maker, lost, told, scene>>

\* Mutant: the accounts of the group that failed are not rolled back.
RolledBackButLast(job) == {r \in job.held : \A q \in job.held : q.id =< r.id => q.group = r.group}

RolledBack(job) == job.held

\* The goroutine that deletes what a failed job has created.
JobRollback(j) ==
  /\ jobs[j].status = "FAILED" /\ jobs[j].held # {}
  /\ LET as == AccountsOf(RolledBack(jobs[j])) IN
     \E kept \in Leftovers(as) :
        node' = With(as \ kept, "gone") /\ lost' = lost \cup kept
  /\ jobs' = [jobs EXCEPT ![j].held = {}]
  /\ UNCHANGED <<rows, history, mapper, maker, told, scene>>

Deploying ==
  \E j \in Jobs :
    \/ \E gs \in SUBSET Groups \ {{}}, ss \in SUBSET Slots \ {{}} : Submit(j, gs, ss)
    \/ JobStart(j) \/ JobGroup(j) \/ JobCommit(j) \/ JobRollback(j)

-------------------------------------------------------------------------------
(* The edit of a group's mapping. *)

NoEdit == [phase |-> "idle", group |-> 0, removed |-> {}, added |-> {}, made |-> {},
           deleted |-> {}]

MapLoad(g, desired) ==
  LET current == Of(g)
      removed == {r \in current : r.slot \notin desired}
      added   == desired \ {r.slot : r \in current} IN
  /\ Requested("map") /\ mapper = NoEdit /\ asked' = asked + 1
  /\ source = "ACTIVE" /\ ~Names(g) /\ {g} \cup desired \subseteq present
  /\ current # {} /\ \A q, r \in current : q.slot = r.slot => q = r
  /\ removed # {} \/ added # {}
  /\ mapper' = [NoEdit EXCEPT !.phase = "creating", !.group = g, !.removed = removed,
                              !.added = added]
  /\ UNCHANGED <<node, rows, history, source, present, jobs, maker, lost, told, kit>>

MapCreate ==
  /\ mapper.phase = "creating"
  /\ \E c \in Creations(mapper.added) :
       /\ node' = Born(c) /\ lost' = lost \cup Strays(c)
       /\ mapper' = IF c.made = mapper.added
                    THEN [mapper EXCEPT !.phase = "stopping", !.made = Named(c)]
                    ELSE [mapper EXCEPT !.phase = "undoing", !.made = Named(c), !.removed = {}]
  /\ UNCHANGED <<rows, history, jobs, maker, told, scene>>

MapStop ==
  /\ mapper.phase = "stopping"
  /\ LET as == AccountsOf(mapper.removed) IN
     \/ /\ \A a \in as : ~Gone(a)
        /\ node' = With(as, "stopped")
        /\ mapper' = [mapper EXCEPT !.phase = "deleting"]
     \/ \E a \in as, stopped \in SUBSET as :
          /\ a \notin stopped /\ \A b \in stopped : ~Gone(b)
          /\ Gone(a) \/ Fails("call")
          /\ node' = With(stopped, "stopped")
          /\ mapper' = [mapper EXCEPT !.phase = "undoing"]
  /\ UNCHANGED <<rows, history, jobs, maker, lost, told, scene>>

\* An account that is no longer there counts as deleted.
MapDelete ==
  /\ mapper.phase = "deleting"
  /\ \E r \in mapper.removed \ mapper.deleted :
       \/ /\ node' = With({r.account}, "gone")
          /\ mapper' = [mapper EXCEPT !.deleted = @ \cup {r}]
       \/ /\ Fails("call") /\ ~Gone(r.account)
          /\ mapper' = [mapper EXCEPT !.phase = "restoring"]
          /\ UNCHANGED node
  /\ UNCHANGED <<rows, history, jobs, maker, lost, told, scene>>

\* The transaction: new rows, and the removed ones deleted, each of which must
\* still be there, whatever account it names by now.
MapCommit ==
  LET ids == {r.id : r \in mapper.removed}
      fit == ids \subseteq {r.id : r \in rows} /\ {mapper.group} \cup mapper.added \subseteq present
  IN
  /\ mapper.phase = "deleting" /\ mapper.deleted = mapper.removed
  /\ \/ /\ fit
        /\ rows' = Without(ids)
                     \cup {Row(mapper.group, n.slot, n.account, FALSE) : n \in mapper.made}
        /\ history' = Forgetting(ids)
        /\ mapper' = NoEdit
     \/ /\ ~fit \/ Fails("commit")
        /\ mapper' = [mapper EXCEPT !.phase = "restoring"]
        /\ UNCHANGED <<rows, history>>
  /\ UNCHANGED <<node, jobs, maker, lost, told, scene>>

\* Mutant: an account that cannot be created again is not reported.
UntoldRestore(r) == told

\* The account of the row, restored or not, of which an event tells.
ToldRestore(r) == told \cup {r.account}

\* A deleted account is created again, under a new id the row is given.
MapRestore ==
  /\ mapper.phase = "restoring"
  /\ \E r \in mapper.deleted :
       /\ mapper' = [mapper EXCEPT !.deleted = @ \ {r}, !.removed = @ \ {r}]
       /\ \/ /\ Fails("call") /\ told' = ToldRestore(r)
             /\ UNCHANGED <<node, rows, lost>>
          \/ \E state \in {"running", "stopped"}, saved \in BOOLEAN :
               /\ state = "running" => r.on
               /\ saved \/ Fails("commit")
               /\ r.on /\ state = "stopped" => Fails("call")
               /\ node' = Append(node, state)
               /\ rows' = IF saved
                          THEN {IF q.id = r.id THEN [q EXCEPT !.account = Len(node')] ELSE q : q \in rows}
                          ELSE rows
               /\ lost' = IF saved THEN lost ELSE lost \cup {Len(node')}
               /\ told' = IF saved /\ (state = "running") = r.on
                          THEN told ELSE told \cup {r.account, Len(node')}
  /\ UNCHANGED <<history, jobs, maker, scene>>

\* The new accounts are deleted and those not yet deleted switched on again.
MapUndo ==
  LET back == AccountsOf({r \in mapper.removed : r.on /\ ~Gone(r.account)})
      made == AccountsOf(mapper.made) IN
  /\ mapper.deleted = {} /\ mapper.phase \in {"undoing", "restoring"}
  /\ \E kept \in Leftovers(made), off \in SUBSET back :
       /\ off # {} => Fails("call")
       /\ node' = [a \in DOMAIN node |->
                     CASE a \in made \ kept -> "gone"
                       [] a \in back \ made -> IF a \in off THEN "stopped" ELSE "running"
                       [] OTHER             -> node[a]]
       /\ lost' = lost \cup kept
  /\ mapper' = NoEdit
  /\ UNCHANGED <<rows, history, jobs, maker, told, scene>>

Mapping ==
  \/ \E g \in Groups, desired \in SUBSET Slots : MapLoad(g, desired)
  \/ MapCreate \/ MapStop \/ MapDelete \/ MapCommit \/ MapRestore \/ MapUndo

-------------------------------------------------------------------------------
(* The account made by hand, for a slot the operator sees unbound. *)

NotMaking == [phase |-> "idle", group |-> 0, slot |-> 0, account |-> 0]

MakeCheck(g, s) ==
  /\ Requested("make") /\ maker = NotMaking /\ asked' = asked + 1
  /\ source = "ACTIVE" /\ {g, s} \subseteq present
  /\ \A r \in Of(g) : r.slot # s
  /\ maker' = [NotMaking EXCEPT !.phase = "creating", !.group = g, !.slot = s]
  /\ UNCHANGED <<node, rows, history, source, present, jobs, mapper, lost, told, kit>>

MakeCreate ==
  /\ maker.phase = "creating"
  /\ \E c \in Creations({maker.slot}) :
       /\ node' = Born(c) /\ lost' = lost \cup Strays(c)
       /\ maker' = IF c.made = {} THEN NotMaking
                   ELSE [maker EXCEPT !.phase = "inserting", !.account = Len(node')]
  /\ UNCHANGED <<rows, history, jobs, mapper, told, scene>>

\* A row that cannot be inserted leaves the account where it is.
MakeInsert ==
  LET fit == {maker.group, maker.slot} \subseteq present /\ source # "gone" IN
  /\ maker.phase = "inserting"
  /\ \/ /\ fit /\ UNCHANGED lost
        /\ rows' = rows \cup {Row(maker.group, maker.slot, maker.account, FALSE)}
     \/ /\ ~fit /\ UNCHANGED <<rows, lost>>
     \/ /\ Fails("commit") /\ lost' = lost \cup {maker.account} /\ UNCHANGED rows
  /\ maker' = NotMaking
  /\ UNCHANGED <<node, history, jobs, mapper, told, scene>>

Making ==
  \/ \E g \in Groups, s \in Slots : MakeCheck(g, s)
  \/ MakeCreate \/ MakeInsert

-------------------------------------------------------------------------------

\* One group of the source is bound to some slots, by accounts that serve.
BindInit ==
  /\ \E g \in Groups, ss \in SUBSET Slots \ {{}} :
       /\ \A h \in Groups : g =< h
       /\ node = [i \in 1..Cardinality(ss) |-> "running"]
       /\ rows = {Row(g, n.slot, n.account, TRUE) : n \in Numbered(ss, 0)}
  /\ history = {} /\ source = "ACTIVE" /\ present = Groups \cup Slots
  /\ jobs = [j \in Jobs |-> NoJob] /\ mapper = NoEdit /\ maker = NotMaking
  /\ lost = {} /\ told = {} /\ kit \in Kits /\ asked = 0

\* The steps a request, once made, takes by itself.
BindSteps ==
  \/ \E j \in Jobs : JobStart(j) \/ JobGroup(j) \/ JobCommit(j)
  \/ MapCreate \/ MapStop \/ MapDelete \/ MapCommit \/ MapRestore \/ MapUndo
  \/ MakeCreate \/ MakeInsert
===============================================================================
