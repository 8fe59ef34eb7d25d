------------------------ MODULE AccountLifecycle_proofs ------------------------
(***************************************************************************)
(* Theorems about AccountLifecycle for any number of groups, slots, jobs   *)
(* and requests: which accounts the database knows of, and which of its    *)
(* rows name an account that is there, however the sagas interleave.       *)
(***************************************************************************)
EXTENDS AccountLifecycle, FiniteSetTheorems, SequenceTheorems, TLAPS

-------------------------------------------------------------------------------
(* The node. *)

States == {"stopped", "running", "gone"}

Accounts == 1 .. Len(node)

LEMMA SequenceOf ==
  ASSUME NEW S, NEW n \in Nat, NEW f \in [1 .. n -> S]
  PROVE  f \in Seq(S) /\ Len(f) = n /\ DOMAIN f = 1 .. n
OBVIOUS

(* A step of the node deletes the accounts of G, and may create some. *)
NodeStep(G) ==
  /\ node' \in Seq(States)
  /\ Len(node) <= Len(node')
  /\ \A a \in Accounts : node'[a] = "gone" <=> node[a] = "gone" \/ a \in G
  /\ \A a \in Accounts' \ Accounts : node'[a] # "gone"

LEMMA NotLess == \A n \in Nat : n <= n
OBVIOUS

LEMMA NodeStays ==
  ASSUME node \in Seq(States), node' = node
  PROVE  NodeStep({})
BY DEF NodeStep, Gone, Accounts

LEMMA NodeChanges ==
  ASSUME node \in Seq(States), NEW as, NEW state \in States, node' = With(as, state)
  PROVE  /\ node' \in Seq(States)
         /\ Len(node') = Len(node)
         /\ \A a \in Accounts : node'[a] = IF a \in as THEN state ELSE node[a]
<1>1. /\ Len(node) \in Nat
      /\ DOMAIN node = 1 .. Len(node)
      /\ \A a \in 1 .. Len(node) : node[a] \in States
  OBVIOUS
<1>2. node' = [a \in 1 .. Len(node) |-> IF a \in as THEN state ELSE node[a]]
  BY <1>1 DEF With
<1>3. node' \in [1 .. Len(node) -> States]
  BY <1>1, <1>2
<1>4. node' \in Seq(States) /\ Len(node') = Len(node)
  BY <1>1, <1>3, SequenceOf
<1>5. QED
  BY <1>2, <1>4 DEF Accounts

LEMMA NodeBecomes ==
  ASSUME node \in Seq(States), node' \in [Accounts -> States], NEW G,
         \A a \in Accounts : node'[a] = "gone" <=> node[a] = "gone" \/ a \in G
  PROVE  NodeStep(G) /\ Len(node') = Len(node)
<1>1. Len(node) \in Nat
  OBVIOUS
<1>2. node' \in Seq(States) /\ Len(node') = Len(node)
  BY <1>1, SequenceOf DEF Accounts
<1>3. Accounts' = Accounts
  BY <1>2 DEF Accounts
<1>4. Len(node) <= Len(node')
  BY <1>1, <1>2, NotLess, Zenon
<1>5. \A a \in Accounts' \ Accounts : node'[a] # "gone"
  BY <1>3
<1>6. QED
  BY <1>2, <1>4, <1>5 DEF NodeStep

LEMMA NodeDeletes ==
  ASSUME node \in Seq(States), NEW as, node' = With(as, "gone")
  PROVE  NodeStep(as) /\ Len(node') = Len(node)
<1>1. /\ node' \in Seq(States)
      /\ Len(node') = Len(node)
      /\ \A a \in Accounts : node'[a] = IF a \in as THEN "gone" ELSE node[a]
  BY NodeChanges DEF States
<1>2. Accounts' = Accounts
  BY <1>1 DEF Accounts
<1>3. \A a \in Accounts : node'[a] = "gone" <=> node[a] = "gone" \/ a \in as
  BY <1>1 DEF Gone, Accounts
<1>4. Len(node) \in Nat
  OBVIOUS
<1>5. Len(node) <= Len(node')
  BY <1>1, <1>4, NotLess, Zenon
<1>6. \A a \in Accounts' \ Accounts : node'[a] # "gone"
  BY <1>2
<1>7. QED
  BY <1>1, <1>3, <1>5, <1>6 DEF NodeStep

LEMMA NodeSwitches ==
  ASSUME node \in Seq(States), NEW as, \A a \in as : ~Gone(a),
         NEW state \in {"stopped", "running"}, node' = With(as, state)
  PROVE  NodeStep({}) /\ Len(node') = Len(node)
<1>1. /\ node' \in Seq(States)
      /\ Len(node') = Len(node)
      /\ \A a \in Accounts : node'[a] = IF a \in as THEN state ELSE node[a]
  BY NodeChanges DEF States
<1>2. Accounts' = Accounts
  BY <1>1 DEF Accounts
<1>3. \A a \in Accounts : node'[a] = "gone" <=> node[a] = "gone" \/ a \in {}
  BY <1>1 DEF Gone, Accounts
<1>4. Len(node) \in Nat
  OBVIOUS
<1>5. Len(node) <= Len(node')
  BY <1>1, <1>4, NotLess, Zenon
<1>6. \A a \in Accounts' \ Accounts : node'[a] # "gone"
  BY <1>2
<1>7. QED
  BY <1>1, <1>3, <1>5, <1>6 DEF NodeStep

LEMMA NodeAppends ==
  ASSUME node \in Seq(States), NEW state \in {"stopped", "running"},
         node' = Append(node, state)
  PROVE  NodeStep({}) /\ Len(node') = Len(node) + 1
<1>1. node' \in Seq(States) /\ Len(node') = Len(node) + 1
  BY DEF States
<1>2. QED
  BY <1>1 DEF NodeStep, Gone, Accounts

(* The slots of an operation, one after the other: each has one account. *)
LEMMA Numbers ==
  ASSUME NEW slots \in SUBSET Slots, NEW n \in Nat
  PROVE  /\ Cardinality(slots) \in Nat
         /\ Numbered(slots, n) \in SUBSET [slot : Slots,
                                           account : n + 1 .. n + Cardinality(slots)]
         /\ \A x \in Numbered(slots, n) : x.slot \in slots
         /\ \A a \in n + 1 .. n + Cardinality(slots) :
              \E x \in Numbered(slots, n) : x.account = a
         /\ \A x, y \in Numbered(slots, n) : x.account = y.account => x = y
         /\ \A x, y \in Numbered(slots, n) : x.slot = y.slot => x = y
<1> DEFINE k == Cardinality(slots)
           f == SetToSeq(slots)
<1>1. IsFiniteSet(slots)
  BY FS_Subset, BindingsAssumption
<1>2. k \in Nat /\ ExistsBijection(1 .. k, slots)
  BY <1>1, FS_CardinalityType
<1>3. \E g \in [1 .. k -> slots] : IsInjective(g)
  BY <1>2 DEF ExistsBijection, Bijection, Injection
<1>4. f \in [1 .. k -> slots] /\ IsInjective(f)
  BY <1>3 DEF SetToSeq
<1>5. \A i, j \in 1 .. k : f[i] = f[j] => i = j
  BY <1>4 DEF IsInjective
<1>6. \A x : x \in Numbered(slots, n) <=> 
               \E i \in 1 .. k : x = [slot |-> f[i], account |-> n + i]
  BY DEF Numbered
<1> HIDE DEF f, k
<1>7. \A a \in n + 1 .. n + k : \E x \in Numbered(slots, n) : x.account = a
  <2>1. SUFFICES ASSUME NEW a \in n + 1 .. n + k
                 PROVE  \E x \in Numbered(slots, n) : x.account = a
    OBVIOUS
  <2>2. a - n \in 1 .. k /\ n + (a - n) = a
    BY <1>2, <2>1
  <2> DEFINE x == [slot |-> f[a - n], account |-> n + (a - n)]
  <2>3. x \in Numbered(slots, n)
    BY <1>6, <2>2
  <2>4. x.account = a
    BY <2>2
  <2>5. QED
    BY <2>3, <2>4
<1>8. \A x \in Numbered(slots, n) :
        /\ x \in [slot : Slots, account : n + 1 .. n + k]
        /\ x.slot \in slots
  BY <1>2, <1>4, <1>6
<1>9. \A x, y \in Numbered(slots, n) :
        /\ x.account = y.account => x = y
        /\ x.slot = y.slot => x = y
  BY <1>2, <1>4, <1>5, <1>6
<1>10. QED
  BY <1>2, <1>7, <1>8, <1>9 DEF k

(* Accounts are born behind those that are there, and each is named or     *)
(* astray.                                                                 *)
LEMMA Births ==
  ASSUME node \in Seq(States), NEW slots \in SUBSET Slots, NEW c \in Creations(slots),
         node' = Born(c)
  PROVE  /\ NodeStep({})
         /\ c.made \in SUBSET Slots
         /\ Named(c) \in SUBSET [slot : Slots, account : Accounts' \ Accounts]
         /\ Strays(c) \in SUBSET (Accounts' \ Accounts)
         /\ \A a \in Accounts' \ Accounts : a \in AccountsOf(Named(c)) \cup Strays(c)
         /\ \A x, y \in Named(c) : x.account = y.account => x = y
         /\ \A x, y \in Named(c) : x.slot = y.slot => x = y
         /\ \A x \in Named(c) : x.slot \in c.made
<1> DEFINE m == Cardinality(c.made)
           s == Cardinality(c.astray)
           new == [i \in 1 .. m + s |-> "stopped"]
<1>1. c.made \in SUBSET Slots /\ c.astray \in SUBSET Slots
  BY DEF Creations
<1>2. m \in Nat /\ s \in Nat /\ Len(node) \in Nat
  BY <1>1, Numbers
<1>3. new \in Seq(States) /\ Len(new) = m + s
  BY <1>2, SequenceOf DEF States
<1>4. node' = node \o new
  BY DEF Born
<1> HIDE DEF new, m, s
<1>5. /\ node' \in Seq(States)
      /\ Len(node') = Len(node) + m + s
      /\ \A a \in 1 .. Len(node) : node'[a] = node[a]
      /\ \A a \in Len(node) + 1 .. Len(node) + m + s : node'[a] = new[a - Len(node)]
  BY <1>2, <1>3, <1>4, ConcatProperties
<1>6. NodeStep({})
  <2>1. \A a \in Accounts' \ Accounts : node'[a] # "gone"
    BY <1>2, <1>5 DEF Accounts, Gone, new
  <2>2. QED
    BY <1>2, <1>5, <2>1 DEF NodeStep, Gone, Accounts
<1>7. Accounts' \ Accounts = Len(node) + 1 .. Len(node) + m + s
  BY <1>2, <1>5 DEF Accounts
<1>8. Strays(c) = Len(node) + m + 1 .. Len(node) + m + s
  BY <1>4, <1>5 DEF Strays, m, new, Born, s
<1>9. /\ Named(c) \in SUBSET [slot : Slots, account : Len(node) + 1 .. Len(node) + m]
      /\ \A x \in Named(c) : x.slot \in c.made
      /\ \A a \in Len(node) + 1 .. Len(node) + m : \E x \in Named(c) : x.account = a
      /\ \A x, y \in Named(c) : x.account = y.account => x = y
      /\ \A x, y \in Named(c) : x.slot = y.slot => x = y
  BY <1>1, <1>2, Numbers DEF Named, m
<1>10. Named(c) \in SUBSET [slot : Slots, account : Accounts' \ Accounts]
  <2>1. Len(node) + 1 .. Len(node) + m \subseteq Accounts' \ Accounts
    BY <1>2, <1>7
  <2>2. QED
    BY <1>9, <2>1
<1>11. \A a \in Accounts' \ Accounts : a \in AccountsOf(Named(c)) \cup Strays(c)
  BY <1>2, <1>7, <1>8, <1>9 DEF AccountsOf
<1>12. Strays(c) \in SUBSET (Accounts' \ Accounts)
  BY <1>2, <1>7, <1>8
<1>13. QED
  BY <1>1, <1>6, <1>9, <1>10, <1>11, <1>12

-------------------------------------------------------------------------------
(* Types. *)

RowType == [id : Accounts, group : Groups, slot : Slots, account : Accounts, on : BOOLEAN]

RetiredType == [row : Accounts, account : Accounts]

JobType ==
  [status : {"", "QUEUED", "RUNNING", "COMPLETED", "FAILED"}, groups : SUBSET Groups,
   slots : SUBSET Slots, done : SUBSET Groups, held : SUBSET RowType, runs : BOOLEAN]

Editing ==
  [phase : {"creating", "stopping", "deleting", "restoring", "undoing"},
   group : Groups, removed : SUBSET RowType, added : SUBSET Slots,
   made : SUBSET [slot : Slots, account : Accounts], deleted : SUBSET RowType]

EditType == {NoEdit} \cup Editing

Inserting ==
  [phase : {"inserting"}, group : Groups, slot : Slots, account : Accounts]

MakeType ==
  {NotMaking} \cup Inserting
    \cup [phase : {"creating"}, group : Groups, slot : Slots, account : {0}]

Deletion ==
  [phase : {"queued", "deleting", "removing"}, todo : SUBSET RowType, at : Accounts \cup {0}]

DeletionType == {NoDeletion} \cup Deletion

Resting ==
  [phase : {"idle"}, id : {0}, old : {0}, new : {0}, was : {FALSE}, oldOff : {FALSE},
   live : {FALSE}]

Planning ==
  [phase : {"planned", "queued"}, id : Accounts, old : {0}, new : {0}, was : BOOLEAN,
   oldOff : {FALSE}, live : BOOLEAN]

Creating ==
  [phase : {"creating"}, id : Accounts, old : Accounts, new : {0}, was : BOOLEAN,
   oldOff : {FALSE}, live : BOOLEAN]

Replacing ==
  [phase : {"stopping", "starting", "committing", "undoing", "retiring"}, id : Accounts,
   old : Accounts, new : Accounts, was : BOOLEAN, oldOff : BOOLEAN, live : BOOLEAN]

BuildType == Resting \cup Planning \cup Creating \cup Replacing

TypeInv ==
  /\ node \in Seq(States)
  /\ rows \in SUBSET RowType
  /\ history \in SUBSET RetiredType
  /\ source \in {"ACTIVE", "DELETING", "gone"}
  /\ present \in SUBSET (Groups \cup Slots)
  /\ jobs \in [Jobs -> JobType]
  /\ mapper \in EditType
  /\ maker \in MakeType
  /\ lost \in SUBSET Accounts
  /\ told \in SUBSET Accounts
  /\ kit \in Kits
  /\ deleter \in DeletionType
  /\ builder \in BuildType
  /\ sweeper \in SUBSET Accounts

(* What has a type keeps it while the node grows. *)
LEMMA TypesGrow ==
  ASSUME TypeInv, NEW G, NodeStep(G)
  PROVE  /\ node' \in Seq(States)
         /\ Accounts \subseteq Accounts'
         /\ RowType \subseteq RowType'
         /\ RetiredType \subseteq RetiredType'
         /\ JobType \subseteq JobType'
         /\ EditType \subseteq EditType'
         /\ MakeType \subseteq MakeType'
         /\ DeletionType \subseteq DeletionType'
         /\ BuildType \subseteq BuildType'
         /\ [Jobs -> JobType] \subseteq [Jobs -> JobType']
<1>1. node' \in Seq(States)
  BY DEF NodeStep
<1>2. Accounts \subseteq Accounts'
  BY DEF NodeStep, Accounts, TypeInv
<1>3. RowType \subseteq RowType'
  BY <1>2 DEF RowType
<1>4. RetiredType \subseteq RetiredType'
  BY <1>2 DEF RetiredType
<1>5. JobType \subseteq JobType'
  BY <1>3 DEF JobType
<1>6. EditType \subseteq EditType'
  BY <1>2, <1>3 DEF EditType, Editing
<1>7. MakeType \subseteq MakeType'
  BY <1>2 DEF MakeType, Inserting
<1>8. DeletionType \subseteq DeletionType'
  BY <1>2, <1>3 DEF DeletionType, Deletion
<1>9. BuildType \subseteq BuildType'
  BY <1>2 DEF BuildType, Resting, Planning, Creating, Replacing
<1>10. [Jobs -> JobType] \subseteq [Jobs -> JobType']
  BY <1>5
<1>11. QED
  BY <1>1, <1>2, <1>3, <1>4, <1>5, <1>6, <1>7, <1>8, <1>9, <1>10

(* The types of a step, by what it leaves alone. *)
LEMMA TypesKept ==
  ASSUME TypeInv, NEW G, NodeStep(G)
  PROVE  /\ node' \in Seq(States)
         /\ rows \in SUBSET RowType'
         /\ history \in SUBSET RetiredType'
         /\ jobs \in [Jobs -> JobType']
         /\ mapper \in EditType'
         /\ maker \in MakeType'
         /\ lost \in SUBSET Accounts'
         /\ told \in SUBSET Accounts'
         /\ deleter \in DeletionType'
         /\ builder \in BuildType'
         /\ sweeper \in SUBSET Accounts'
BY TypesGrow DEF TypeInv

LEMMA AccountsInType ==
  \A S \in SUBSET RowType : AccountsOf(S) \in SUBSET Accounts
BY DEF RowType, AccountsOf

LEMMA DeployingType ==
  ASSUME TypeInv, Deploying, UNCHANGED others
  PROVE  TypeInv'
<1> USE DEF others, scene
<1>1. ASSUME NEW j \in Jobs, NEW gs \in SUBSET Groups \ {{}}, NEW ss \in SUBSET Slots \ {{}},
             Submit(j, gs, ss)
      PROVE  TypeInv'
  <2>1. NodeStep({})
    BY <1>1, NodeStays DEF Submit, TypeInv
  <2>2. RowType' = RowType /\ JobType' = JobType
    BY <1>1 DEF Submit, RowType, JobType, Accounts
  <2>3. jobs' \in [Jobs -> JobType]
    BY <1>1 DEF Submit, TypeInv, JobType, NoJob
  <2>4. QED
    BY <1>1, <2>1, <2>2, <2>3, TypesKept DEF Submit, TypeInv
<1>2. ASSUME NEW j \in Jobs, JobStart(j)
      PROVE  TypeInv'
  <2>1. NodeStep({})
    BY <1>2, NodeStays DEF JobStart, TypeInv
  <2>2. JobType' = JobType
    BY <1>2 DEF JobStart, RowType, JobType, Accounts
  <2>3. jobs \in [Jobs -> JobType] /\ jobs[j] \in JobType
    BY DEF TypeInv
  <2>4. PICK status \in {"RUNNING", "FAILED"} : jobs' = [jobs EXCEPT ![j].status = status]
    BY <1>2 DEF JobStart
  <2>5. [jobs[j] EXCEPT !.status = status] \in JobType
    BY <2>3 DEF JobType
  <2>6. jobs' \in [Jobs -> JobType]
    BY <2>3, <2>4, <2>5
  <2>7. QED
    BY <1>2, <2>1, <2>2, <2>6, TypesKept DEF JobStart, TypeInv
<1>3. ASSUME NEW j \in Jobs, JobGroup(j)
      PROVE  TypeInv'
  <2>1. PICK g \in jobs[j].groups \ jobs[j].done, c \in Creations(jobs[j].slots) :
          /\ node' = Born(c) /\ lost' = lost \cup Strays(c)
          /\ jobs' = [jobs EXCEPT
               ![j].status = IF c.made = jobs[j].slots THEN @ ELSE "FAILED",
               ![j].done   = @ \cup {g},
               ![j].held   = @ \cup {Row(g, n.slot, n.account, FALSE) : n \in Named(c)}]
    BY <1>3 DEF JobGroup
  <2>2. jobs[j] \in JobType
    BY DEF TypeInv
  <2>3. jobs[j].slots \in SUBSET Slots /\ g \in Groups
    BY <2>1, <2>2 DEF JobType
  <2>4. /\ NodeStep({})
        /\ Named(c) \in SUBSET [slot : Slots, account : Accounts' \ Accounts]
        /\ Strays(c) \in SUBSET (Accounts' \ Accounts)
    BY <2>1, <2>3, Births DEF TypeInv
  <2>5. {Row(g, n.slot, n.account, FALSE) : n \in Named(c)} \in SUBSET RowType'
    <3>1. \A n \in Named(c) : Row(g, n.slot, n.account, FALSE) \in RowType'
      BY <2>3, <2>4 DEF Row, RowType
    <3>2. QED
      BY <3>1
  <2>6. jobs \in [Jobs -> JobType'] /\ jobs[j] \in JobType'
    BY <2>2, <2>4, TypesKept
  <2>7. jobs' \in [Jobs -> JobType']
    BY <2>1, <2>3, <2>5, <2>6 DEF JobType
  <2>8. QED
    BY <1>3, <2>1, <2>4, <2>7, TypesKept DEF JobGroup, TypeInv
<1>4. ASSUME NEW j \in Jobs, JobCommit(j)
      PROVE  TypeInv'
  <2>1. NodeStep({})
    BY <1>4, NodeStays DEF JobCommit, TypeInv
  <2>2. RowType' = RowType /\ JobType' = JobType
    BY <1>4 DEF JobCommit, RowType, JobType, Accounts
  <2>3. jobs' \in [Jobs -> JobType]
    <3>1. jobs \in [Jobs -> JobType] /\ jobs[j] \in JobType
      BY DEF TypeInv
    <3>2. /\ [jobs[j] EXCEPT !.status = "FAILED"] \in JobType
          /\ [jobs[j] EXCEPT !.status = "COMPLETED", !.held = {}] \in JobType
      BY <3>1 DEF JobType
    <3>3. \/ jobs' = [jobs EXCEPT ![j] = [@ EXCEPT !.status = "FAILED"]]
          \/ jobs' = [jobs EXCEPT ![j] = [@ EXCEPT !.status = "COMPLETED", !.held = {}]]
      BY <1>4, <3>1 DEF JobCommit
    <3>4. QED
      BY <3>1, <3>2, <3>3
  <2>4. rows' \in SUBSET RowType
    <3>1. jobs[j].held \in SUBSET RowType
      BY DEF TypeInv, JobType
    <3>2. QED
      BY <1>4, <3>1 DEF JobCommit, TypeInv
  <2>5. QED
    BY <1>4, <2>1, <2>2, <2>3, <2>4, TypesKept DEF JobCommit, TypeInv
<1>5. ASSUME NEW j \in Jobs, JobRollback(j)
      PROVE  TypeInv'
  <2>1. PICK kept \in Leftovers(AccountsOf(jobs[j].held)) :
          /\ node' = With(AccountsOf(jobs[j].held) \ kept, "gone")
          /\ lost' = lost \cup kept
    BY <1>5 DEF JobRollback, RolledBack
  <2>2. NodeStep(AccountsOf(jobs[j].held) \ kept)
    BY <2>1, NodeDeletes DEF TypeInv
  <2>3. AccountsOf(jobs[j].held) \in SUBSET Accounts
    <3>1. jobs[j].held \in SUBSET RowType
      BY DEF TypeInv, JobType
    <3>2. QED
      BY <3>1, AccountsInType
  <2>4. kept \in SUBSET Accounts
    BY <2>3 DEF Leftovers
  <2>5. jobs' \in [Jobs -> JobType]
    BY <1>5 DEF JobRollback, TypeInv, JobType
  <2>6. QED
    BY <1>5, <2>1, <2>2, <2>4, <2>5, TypesGrow, TypesKept DEF JobRollback, TypeInv
<1>6. QED
  BY <1>1, <1>2, <1>3, <1>4, <1>5 DEF Deploying

(* The end of an edit that fails deletes what it has made, or has lost it. *)
LEMMA UndoesMapping ==
  ASSUME TypeInv, MapUndo
  PROVE  \E G \in SUBSET AccountsOf(mapper.made) :
           /\ NodeStep(G)
           /\ Len(node') = Len(node)
           /\ lost' \in SUBSET (lost \cup AccountsOf(mapper.made))
           /\ AccountsOf(mapper.made) \ G \subseteq lost'
<1> DEFINE back == AccountsOf({r \in mapper.removed : r.on /\ ~Gone(r.account)})
           made == AccountsOf(mapper.made)
<1>1. PICK kept \in Leftovers(made), off \in SUBSET back :
        /\ node' = [a \in DOMAIN node |->
                      CASE a \in made \ kept -> "gone"
                        [] a \in back \ made -> IF a \in off THEN "stopped" ELSE "running"
                        [] OTHER             -> node[a]]
        /\ lost' = lost \cup kept
  BY DEF MapUndo
<1>2. \A a \in back : ~Gone(a)
  BY DEF AccountsOf
<1>3. kept \in SUBSET made
  BY DEF Leftovers
<1> HIDE DEF back, made
<1>4. DOMAIN node = Accounts /\ \A a \in Accounts : node[a] \in States
  BY DEF TypeInv, Accounts
<1>5. /\ node' \in [Accounts -> States]
      /\ \A a \in Accounts : node'[a] = "gone" <=> node[a] = "gone" \/ a \in made \ kept
  BY <1>1, <1>2, <1>4 DEF States, Gone
<1>6. NodeStep(made \ kept) /\ Len(node') = Len(node)
  <2> DEFINE G == made \ kept
  <2>1. node \in Seq(States)
    BY DEF TypeInv
  <2>2. \A a \in Accounts : node'[a] = "gone" <=> node[a] = "gone" \/ a \in G
    BY <1>5
  <2> HIDE DEF G
  <2>3. NodeStep(G) /\ Len(node') = Len(node)
    BY <1>5, <2>1, <2>2, NodeBecomes
  <2>4. QED
    BY <2>3 DEF G
<1>7. /\ made \ kept \in SUBSET made
      /\ lost' \in SUBSET (lost \cup made)
      /\ made \ (made \ kept) \subseteq lost'
  BY <1>1, <1>3
<1>8. QED
  BY <1>6, <1>7 DEF made

LEMMA MappingType ==
  ASSUME TypeInv, Mapping, UNCHANGED others
  PROVE  TypeInv'
<1> USE DEF others, scene
<1>0. mapper \in EditType /\ AccountsOf(mapper.removed) \in SUBSET Accounts
  BY AccountsInType DEF TypeInv, EditType, Editing, NoEdit
<1>1. ASSUME NEW g \in Groups, NEW desired \in SUBSET Slots, MapLoad(g, desired)
      PROVE  TypeInv'
  <2>1. NodeStep({})
    BY <1>1, NodeStays DEF MapLoad, TypeInv
  <2>2. EditType' = EditType
    BY <1>1 DEF MapLoad, EditType, Editing, RowType, Accounts
  <2>3. mapper' \in EditType
    BY <1>1 DEF MapLoad, TypeInv, EditType, Editing, NoEdit, Of
  <2>4. QED
    BY <1>1, <2>1, <2>2, <2>3, TypesKept DEF MapLoad, TypeInv
<1>2. ASSUME MapCreate
      PROVE  TypeInv'
  <2>1. PICK c \in Creations(mapper.added) :
          /\ node' = Born(c) /\ lost' = lost \cup Strays(c)
          /\ mapper' = IF c.made = mapper.added
                       THEN [mapper EXCEPT !.phase = "stopping", !.made = Named(c)]
                       ELSE [mapper EXCEPT !.phase = "undoing", !.made = Named(c),
                                           !.removed = {}]
    BY <1>2 DEF MapCreate
  <2>2. /\ NodeStep({})
        /\ Named(c) \in SUBSET [slot : Slots, account : Accounts' \ Accounts]
        /\ Strays(c) \in SUBSET (Accounts' \ Accounts)
    BY <1>0, <2>1, Births DEF TypeInv, EditType, Editing, NoEdit
  <2>3. mapper \in Editing'
    BY <1>2, <2>2, TypesKept DEF EditType, MapCreate, NoEdit
  <2>4. Named(c) \in SUBSET [slot : Slots, account : Accounts']
    BY <2>2
  <2>5. mapper' \in EditType'
    BY <2>1, <2>3, <2>4 DEF EditType, Editing
  <2>6. QED
    BY <1>2, <2>1, <2>2, <2>5, TypesKept DEF MapCreate, TypeInv
<1>3. ASSUME MapStop
      PROVE  TypeInv'
  <2>1. NodeStep({})
    <3>1. \E as : node' = With(as, "stopped") /\ \A a \in as : ~Gone(a)
      BY <1>3 DEF MapStop
    <3>2. QED
      BY <3>1, NodeSwitches DEF TypeInv
  <2>2. mapper' \in EditType
    BY <1>0, <1>3 DEF MapStop, EditType, Editing, NoEdit
  <2>3. QED
    BY <1>3, <2>1, <2>2, TypesGrow, TypesKept DEF MapStop, TypeInv
<1>4. ASSUME MapDelete
      PROVE  TypeInv'
  <2>1. \E G : NodeStep(G)
    <3>1. UNCHANGED node \/ \E as : node' = With(as, "gone")
      BY <1>4 DEF MapDelete
    <3>2. QED
      BY <3>1, NodeDeletes, NodeStays DEF TypeInv
  <2>2. mapper' \in EditType
    <3>1. PICK r \in mapper.removed : \/ mapper' = [mapper EXCEPT !.deleted = @ \cup {r}]
                                      \/ mapper' = [mapper EXCEPT !.phase = "restoring"]
      BY <1>4 DEF MapDelete
    <3>2. r \in RowType
      BY <1>0 DEF EditType, Editing, NoEdit
    <3>3. QED
      BY <1>0, <1>4, <3>1, <3>2 DEF EditType, Editing, NoEdit, MapDelete
  <2>3. QED
    BY <1>4, <2>1, <2>2, TypesGrow, TypesKept DEF MapDelete, TypeInv
<1>5. ASSUME MapCommit
      PROVE  TypeInv'
  <2>1. NodeStep({})
    BY <1>5, NodeStays DEF MapCommit, TypeInv
  <2>2. RowType' = RowType
    BY <1>5 DEF MapCommit, RowType, Accounts
  <2>3. mapper' \in EditType
    <3>1. mapper' = NoEdit \/ mapper' = [mapper EXCEPT !.phase = "restoring"]
      BY <1>5 DEF MapCommit
    <3>2. mapper \in Editing
      BY <1>0, <1>5 DEF EditType, NoEdit, MapCommit
    <3>3. QED
      BY <3>1, <3>2 DEF EditType, Editing
  <2>4. history' \in SUBSET RetiredType
    <3>1. history' \subseteq history
      BY <1>5 DEF MapCommit, Forgetting
    <3>2. QED
      BY <3>1 DEF TypeInv
  <2>5. rows' \in SUBSET RowType
    <3>1. rows' = rows \/ \E ids : rows' = Without(ids)
             \cup {Row(mapper.group, n.slot, n.account, FALSE) : n \in mapper.made}
      BY <1>5 DEF MapCommit
    <3>2. ASSUME NEW n \in mapper.made
          PROVE  Row(mapper.group, n.slot, n.account, FALSE) \in RowType
      BY <1>0, <1>5, <3>2 DEF Row, RowType, EditType, Editing, NoEdit, MapCommit
    <3>3. \A ids : Without(ids) \in SUBSET RowType
      BY DEF Without, TypeInv
    <3>4. {Row(mapper.group, n.slot, n.account, FALSE) : n \in mapper.made} \in SUBSET RowType
      BY <3>2
    <3>5. rows \in SUBSET RowType
      BY DEF TypeInv
    <3>6. QED
      BY <3>1, <3>3, <3>4, <3>5
  <2>6. UNCHANGED <<node, source, present, jobs, maker, lost, told, kit, others>>
    BY <1>5 DEF MapCommit
  <2>7. QED
    BY <2>1, <2>3, <2>4, <2>5, <2>6, TypesGrow, TypesKept DEF TypeInv
<1>6. ASSUME MapRestore
      PROVE  TypeInv'
  <2>1. PICK r \in mapper.deleted :
          /\ mapper' = [mapper EXCEPT !.deleted = @ \ {r}, !.removed = @ \ {r}]
          /\ \/ /\ told' = told \cup {r.account}
                /\ UNCHANGED <<node, rows, lost>>
             \/ \E state \in {"running", "stopped"} :
                  /\ node' = Append(node, state)
                  /\ \/ rows' = rows
                     \/ rows' = {IF q.id = r.id THEN [q EXCEPT !.account = Len(node')] ELSE q :
                                   q \in rows}
                  /\ lost' = lost \/ lost' = lost \cup {Len(node')}
                  /\ told' = told \/ told' = told \cup {r.account, Len(node')}
    BY <1>6, Zenon DEF MapRestore, ToldRestore
  <2>2. r.account \in Accounts
    BY <1>0, <2>1 DEF EditType, Editing, NoEdit, RowType
  <2>3. NodeStep({})
    BY <2>1, NodeStays, NodeAppends DEF TypeInv
  <2>4. mapper' \in EditType'
    <3>1. mapper' \in EditType
      <4>1. mapper \in Editing
        BY <1>0, <1>6 DEF EditType, NoEdit, MapRestore
      <4>2. QED
        BY <2>1, <4>1 DEF EditType, Editing
    <3>2. QED
      BY <2>3, <3>1, TypesGrow
  <2>5. CASE UNCHANGED <<node, rows, lost>>
    BY <1>6, <2>1, <2>2, <2>3, <2>4, <2>5, TypesGrow, TypesKept DEF MapRestore, TypeInv
  <2>6. CASE \E state \in {"running", "stopped"} : node' = Append(node, state)
    <3>1. Len(node') \in Accounts'
      BY <2>6 DEF TypeInv, Accounts, States
    <3>2. r.account \in Accounts'
      BY <2>2, <2>3, TypesGrow
    <3>3. told' \in SUBSET Accounts' /\ lost' \in SUBSET Accounts'
      BY <2>1, <2>3, <3>1, <3>2, TypesKept
    <3>4. \A q \in rows : q \in RowType' /\ [q EXCEPT !.account = Len(node')] \in RowType'
      BY <2>3, <3>1, TypesKept DEF RowType
    <3>5. rows' \in SUBSET RowType'
      <4>1. CASE rows' = rows
        BY <3>4, <4>1
      <4>2. CASE rows' = {IF q.id = r.id THEN [q EXCEPT !.account = Len(node')] ELSE q :
                            q \in rows}
        BY <3>4, <4>2
      <4>3. \A q \in rows : q \in RowType
        BY DEF TypeInv
      <4>4. QED
        BY <2>1, <2>6, <4>1, <4>2
    <3>6. UNCHANGED <<history, jobs, maker, scene, others>>
      BY <1>6 DEF MapRestore
    <3>7. QED
      BY <2>3, <2>4, <3>3, <3>5, <3>6, TypesKept DEF TypeInv
  <2>7. QED
    BY <2>1, <2>5, <2>6
<1>7. ASSUME MapUndo
      PROVE  TypeInv'
  <2>1. \E G : NodeStep(G)
    BY <1>7, UndoesMapping
  <2>2. lost' \in SUBSET Accounts
    <3>1. AccountsOf(mapper.made) \in SUBSET Accounts
      BY <1>0 DEF EditType, Editing, NoEdit, AccountsOf
    <3>2. QED
      BY <1>7, <3>1 DEF MapUndo, Leftovers, TypeInv
  <2>3. mapper' \in EditType'
    BY <1>7 DEF MapUndo, EditType
  <2>4. QED
    BY <1>7, <2>1, <2>2, <2>3, TypesGrow, TypesKept DEF MapUndo, TypeInv
<1>8. QED
  BY <1>1, <1>2, <1>3, <1>4, <1>5, <1>6, <1>7 DEF Mapping

(* The one account of a slot is the last of the node.                      *)
LEMMA MakesOne ==
  ASSUME node \in Seq(States), NEW s \in Slots, NEW c \in Creations({s}), node' = Born(c),
         c.made # {}
  PROVE  /\ Len(node') \in Accounts' \ Accounts
         /\ \A a \in Accounts' \ Accounts : a = Len(node')
<1>1. c.made = {s} /\ c.astray = {}
  BY DEF Creations
<1>2. Cardinality(c.made) = 1 /\ Cardinality(c.astray) = 0
  BY <1>1, FS_Singleton, FS_EmptySet, Zenon
<1> DEFINE new == [i \in 1 .. 1 |-> "stopped"]
<1>3. new \in Seq(States) /\ Len(new) = 1
  BY SequenceOf DEF States
<1>4. 1 + 0 = 1
  OBVIOUS
<1>5. node' = node \o new
  BY <1>2, <1>4 DEF Born
<1> HIDE DEF new
<1>6. Len(node') = Len(node) + 1
  <2>1. Len(node \o new) = Len(node) + Len(new)
    BY <1>3, ConcatProperties
  <2>2. QED
    BY <1>3, <1>5, <2>1
<1>7. Len(node) \in Nat
  OBVIOUS
<1>8. QED
  BY <1>6, <1>7 DEF Accounts

LEMMA RestingType == NotBuilding \in Resting
BY DEF NotBuilding, Resting

LEMMA RejectedType ==
  TypeInv => Rejected \in BuildType
<1> SUFFICES ASSUME TypeInv PROVE Rejected \in BuildType
  OBVIOUS
<1>1. builder \in BuildType
  BY DEF TypeInv
<1>2. CASE builder \in Resting
  BY <1>2 DEF Rejected, BuildType, Resting
<1>3. CASE builder \in Planning
  BY <1>3 DEF Rejected, BuildType, Planning
<1>4. CASE builder \in Creating
  BY <1>4 DEF Rejected, BuildType, Creating
<1>5. CASE builder \in Replacing
  BY <1>5 DEF Rejected, BuildType, Replacing
<1>6. QED
  BY <1>1, <1>2, <1>3, <1>4, <1>5 DEF BuildType

LEMMA MakingType ==
  ASSUME TypeInv, Making, UNCHANGED others
  PROVE  TypeInv'
<1> USE DEF others, scene
<1>1. ASSUME NEW g \in Groups, NEW s \in Slots, MakeCheck(g, s)
      PROVE  TypeInv'
  <2>1. NodeStep({})
    BY <1>1, NodeStays DEF MakeCheck, TypeInv
  <2>2. maker' \in MakeType'
    BY <1>1 DEF MakeCheck, MakeType, NotMaking
  <2>3. QED
    BY <1>1, <2>1, <2>2, TypesKept DEF MakeCheck, TypeInv
<1>2. ASSUME MakeCreate
      PROVE  TypeInv'
  <2>1. PICK c \in Creations({maker.slot}) :
          /\ node' = Born(c) /\ lost' = lost \cup Strays(c)
          /\ maker' = IF c.made = {} THEN NotMaking
                      ELSE [maker EXCEPT !.phase = "inserting", !.account = Len(node')]
    BY <1>2 DEF MakeCreate
  <2>2. maker \in [phase : {"creating"}, group : Groups, slot : Slots, account : {0}]
    BY <1>2 DEF MakeCreate, TypeInv, MakeType, NotMaking, Inserting
  <2>3. /\ NodeStep({})
        /\ Strays(c) \in SUBSET (Accounts' \ Accounts)
    BY <2>1, <2>2, Births DEF TypeInv
  <2>4. c.made # {} => Len(node') \in Accounts'
    <3>1. node \in Seq(States) /\ maker.slot \in Slots
      BY <2>2 DEF TypeInv
    <3>2. QED
      BY <2>1, <3>1, MakesOne
  <2>5. maker' \in MakeType'
    BY <2>1, <2>2, <2>4 DEF MakeType, Inserting
  <2>6. UNCHANGED <<rows, history, jobs, mapper, told, scene, others>>
    BY <1>2 DEF MakeCreate
  <2>7. QED
    BY <2>1, <2>3, <2>5, <2>6, TypesKept DEF TypeInv
<1>3. ASSUME MakeInsert
      PROVE  TypeInv'
  <2>1. maker \in Inserting
    BY <1>3 DEF MakeInsert, TypeInv, MakeType, NotMaking
  <2>2. NodeStep({})
    BY <1>3, NodeStays DEF MakeInsert, TypeInv
  <2>3. rows' \in SUBSET RowType
    <3>1. Row(maker.group, maker.slot, maker.account, FALSE) \in RowType
      BY <2>1 DEF Inserting, Row, RowType
    <3>2. rows' \subseteq rows \cup {Row(maker.group, maker.slot, maker.account, FALSE)}
      BY <1>3 DEF MakeInsert
    <3>3. QED
      BY <3>1, <3>2 DEF TypeInv
  <2>4. lost' \in SUBSET Accounts
    BY <1>3, <2>1 DEF MakeInsert, TypeInv, Inserting
  <2>5. maker' \in MakeType'
    BY <1>3 DEF MakeInsert, MakeType
  <2>6. UNCHANGED <<history, jobs, mapper, told, scene, others>>
    BY <1>3 DEF MakeInsert
  <2>7. QED
    BY <2>2, <2>3, <2>4, <2>5, <2>6, TypesGrow, TypesKept DEF TypeInv
<1>4. QED
  BY <1>1, <1>2, <1>3 DEF Making

LEMMA DeletingType ==
  ASSUME TypeInv, RequestDeletion \/ DeletionSteps
  PROVE  TypeInv'
<1>1. CASE RequestDeletion
  <2>1. NodeStep({})
    BY <1>1, NodeStays DEF RequestDeletion, TypeInv
  <2>2. rows' \in SUBSET RowType
    <3>1. \A r \in rows : [r EXCEPT !.on = FALSE] \in RowType
      BY DEF TypeInv, RowType
    <3>2. QED
      BY <1>1, <3>1 DEF RequestDeletion
  <2>3. builder' \in BuildType
    BY <1>1, RejectedType DEF RequestDeletion
  <2>4. deleter' \in DeletionType'
    BY <1>1 DEF RequestDeletion, DeletionType, Deletion, NoDeletion
  <2>5. UNCHANGED <<node, history, present, jobs, mapper, maker, lost, told, kit, sweeper>>
        /\ source' = "DELETING"
    BY <1>1 DEF RequestDeletion
  <2>6. QED
    BY <2>1, <2>2, <2>3, <2>4, <2>5, TypesGrow, TypesKept DEF TypeInv
<1>2. CASE DeletionLoad
  <2>1. NodeStep({})
    BY <1>2, NodeStays DEF DeletionLoad, TypeInv, bindVars
  <2>2. deleter' \in DeletionType
    <3>1. deleter \in Deletion
      BY <1>2 DEF DeletionLoad, TypeInv, DeletionType, NoDeletion
    <3>2. rows \in SUBSET RowType
      BY DEF TypeInv
    <3>3. QED
      BY <1>2, <3>1, <3>2 DEF DeletionLoad, DeletionType, Deletion
  <2>3. QED
    BY <1>2, <2>1, <2>2, TypesGrow, TypesKept DEF DeletionLoad, TypeInv, bindVars
<1>3. CASE DeletionCall
  <2>1. PICK r \in deleter.todo :
          \/ /\ node' = With({r.account}, "gone")
             /\ deleter' = [deleter EXCEPT !.phase = "removing", !.at = r.id]
          \/ deleter' = NoDeletion /\ UNCHANGED node
    BY <1>3 DEF DeletionCall
  <2>2. deleter \in Deletion
    BY <1>3 DEF DeletionCall, TypeInv, DeletionType, NoDeletion
  <2>3. r.id \in Accounts
    BY <2>1, <2>2 DEF Deletion, RowType
  <2>4. deleter' \in DeletionType
    BY <2>1, <2>2, <2>3 DEF Deletion, DeletionType
  <2>5. \E G : NodeStep(G)
    BY <2>1, NodeDeletes, NodeStays DEF TypeInv
  <2>6. UNCHANGED <<rows, history, source, present, jobs, mapper, maker, lost, told, kit,
                    builder, sweeper>>
    BY <1>3 DEF DeletionCall
  <2>7. QED
    BY <2>4, <2>5, <2>6, TypesGrow, TypesKept DEF TypeInv
<1>4. CASE DeletionRemove
  <2>1. NodeStep({})
    BY <1>4, NodeStays DEF DeletionRemove, TypeInv
  <2>2. deleter \in Deletion
    BY <1>4 DEF DeletionRemove, TypeInv, DeletionType, NoDeletion
  <2>3. \/ deleter' = NoDeletion
        \/ deleter' = [deleter EXCEPT !.phase = "deleting", !.at = 0,
                                      !.todo = {r \in @ : r.id # deleter.at}]
    BY <1>4 DEF DeletionRemove
  <2>4. deleter' \in DeletionType
    BY <2>2, <2>3 DEF Deletion, DeletionType
  <2>5. rows' \subseteq rows /\ history' \subseteq history
    BY <1>4 DEF DeletionRemove, Without, Forgetting
  <2>6. UNCHANGED <<node, source, present, jobs, mapper, maker, lost, told, kit, builder, sweeper>>
    BY <1>4 DEF DeletionRemove
  <2>7. QED
    BY <2>1, <2>4, <2>5, <2>6, TypesGrow, TypesKept DEF TypeInv
<1>5. CASE DeletionFinish
  <2>1. NodeStep({})
    BY <1>5, NodeStays DEF DeletionFinish, TypeInv
  <2>2. deleter' \in DeletionType' /\ source' \in {"ACTIVE", "DELETING", "gone"}
    BY <1>5 DEF DeletionFinish, DeletionType, TypeInv
  <2>3. UNCHANGED <<node, rows, history, present, jobs, mapper, maker, lost, told, kit, builder,
                    sweeper>>
    BY <1>5 DEF DeletionFinish
  <2>4. QED
    BY <2>1, <2>2, <2>3, TypesKept DEF TypeInv
<1>6. QED
  BY <1>1, <1>2, <1>3, <1>4, <1>5 DEF DeletionSteps

(* The end of a recreation that fails deletes the new account or loses it. *)
LEMMA UndoesBuilding ==
  ASSUME TypeInv, BuildUndo
  PROVE  \E G \in SUBSET {builder.new} :
           /\ NodeStep(G)
           /\ Len(node') = Len(node)
           /\ lost' \in SUBSET (lost \cup {builder.new})
           /\ builder.new \in G \cup lost'
<1> DEFINE back == IF builder.oldOff /\ builder.was /\ ~Gone(builder.old) THEN {builder.old} ELSE {}
<1>1. PICK kept \in Leftovers({builder.new}), off \in SUBSET back, on \in BOOLEAN :
        /\ node' = [a \in DOMAIN node |->
                      CASE a = builder.new -> IF kept = {} THEN "gone"
                                              ELSE IF on THEN node[a] ELSE "stopped"
                        [] a \in (back \ off) \ {builder.new} -> "running"
                        [] OTHER           -> node[a]]
        /\ lost' = lost \cup kept
  BY Z3 DEF BuildUndo
<1>2. \A a \in back : ~Gone(a)
  OBVIOUS
<1>3. kept \in SUBSET {builder.new} /\ \A a \in kept : ~Gone(a)
  BY DEF Leftovers
<1> HIDE DEF back
<1>4. DOMAIN node = Accounts /\ \A a \in Accounts : node[a] \in States
  BY DEF TypeInv, Accounts
<1> DEFINE G == {builder.new} \ kept
<1>5. /\ node' \in [Accounts -> States]
      /\ \A a \in Accounts : node'[a] = "gone" <=> node[a] = "gone" \/ a \in G
  BY <1>1, <1>2, <1>3, <1>4 DEF States, Gone
<1>6. /\ G \in SUBSET {builder.new}
      /\ lost' \in SUBSET (lost \cup {builder.new})
      /\ builder.new \in G \cup lost'
  BY <1>1, <1>3
<1> HIDE DEF G
<1>7. node \in Seq(States)
  BY DEF TypeInv
<1>8. NodeStep(G) /\ Len(node') = Len(node)
  BY <1>5, <1>7, NodeBecomes
<1>9. QED
  BY <1>6, <1>8

LEMMA BuildingType ==
  ASSUME TypeInv, BuildSteps \/ (\E r \in rows : Plan(r))
  PROVE  TypeInv'
<1> USE DEF bindVars, bindUnchanged
<1>0. builder \in Resting \cup Planning \cup Creating \cup Replacing
  BY DEF TypeInv, BuildType
<1>1. ASSUME NEW r \in rows, Plan(r)
      PROVE  TypeInv'
  <2>1. NodeStep({})
    BY <1>1, NodeStays DEF Plan, TypeInv
  <2>2. r \in RowType
    BY DEF TypeInv
  <2>3. builder' = [NotBuilding EXCEPT !.phase = "planned", !.id = r.id, !.was = r.on]
    BY <1>1 DEF Plan
  <2>4. builder' \in Planning
    BY <2>2, <2>3 DEF Planning, NotBuilding, RowType
  <2>5. UNCHANGED <<node, rows, history, source, present, jobs, mapper, maker, lost, told, kit,
                    deleter, sweeper>>
    BY <1>1 DEF Plan
  <2>6. QED
    BY <2>1, <2>4, <2>5, TypesGrow, TypesKept DEF TypeInv, BuildType
<1>2. CASE Enqueue
  <2>1. NodeStep({})
    BY <1>2, NodeStays DEF Enqueue, TypeInv
  <2>2. builder \in Planning /\ builder.phase = "planned"
    BY <1>0, <1>2 DEF Enqueue, Resting, Creating, Replacing
  <2>3. builder' = NotBuilding \/ builder' = [builder EXCEPT !.phase = "queued", !.live = TRUE]
    BY <1>2 DEF Enqueue
  <2>4. builder' \in BuildType
    BY <2>2, <2>3, RestingType DEF Planning, BuildType
  <2>5. UNCHANGED <<bindVars, deleter, sweeper>>
    BY <1>2 DEF Enqueue
  <2>6. QED
    BY <2>1, <2>4, <2>5, TypesGrow, TypesKept DEF TypeInv
<1>3. CASE BuildLoad
  <2>1. NodeStep({})
    BY <1>3, NodeStays DEF BuildLoad, TypeInv
  <2>2. builder \in Planning
    BY <1>0, <1>3 DEF BuildLoad, Resting, Creating, Replacing
  <2>3. builder' = NotBuilding
          \/ \E r \in rows : builder' = [builder EXCEPT !.phase = "creating", !.old = r.account]
    BY <1>3 DEF BuildLoad
  <2>4. \A r \in rows : r.account \in Accounts
    BY DEF TypeInv, RowType
  <2>5. builder' \in BuildType
    BY <2>2, <2>3, <2>4, RestingType DEF Planning, Creating, BuildType
  <2>6. UNCHANGED <<bindVars, deleter, sweeper>>
    BY <1>3 DEF BuildLoad
  <2>7. QED
    BY <2>1, <2>5, <2>6, TypesGrow, TypesKept DEF TypeInv
<1>4. CASE BuildCreate
  <2>1. builder \in Creating
    BY <1>0, <1>4 DEF BuildCreate, Resting, Planning, Replacing
  <2>2. \/ /\ node' = Append(node, "stopped")
           /\ \/ /\ builder' = [builder EXCEPT !.phase = "stopping", !.new = Len(node')]
                 /\ UNCHANGED <<lost, told>>
              \/ /\ builder' = NotBuilding
                 /\ lost' = lost \cup {Len(node')} /\ told' = told \cup {builder.old}
        \/ /\ builder' = NotBuilding /\ told' = told \cup {builder.old}
           /\ UNCHANGED <<node, lost>>
    BY <1>4 DEF BuildCreate
  <2>3. NodeStep({})
    BY <2>2, NodeStays, NodeAppends DEF TypeInv
  <2>4. builder.old \in Accounts'
    BY <2>1, <2>3, TypesGrow DEF Creating
  <2>5. node' = Append(node, "stopped") => Len(node') \in Accounts'
    BY DEF TypeInv, Accounts, States
  <2>6. lost' \in SUBSET Accounts' /\ told' \in SUBSET Accounts'
    BY <2>2, <2>3, <2>4, <2>5, TypesKept
  <2>7. builder' \in BuildType'
    <3>1. CASE builder' = NotBuilding
      BY <3>1, RestingType DEF BuildType, Resting
    <3>2. CASE /\ node' = Append(node, "stopped")
               /\ builder' = [builder EXCEPT !.phase = "stopping", !.new = Len(node')]
      <4>1. builder \in Creating'
        BY <2>1, <2>3, TypesGrow DEF Creating
      <4>2. builder' \in Replacing'
        BY <2>5, <3>2, <4>1 DEF Creating, Replacing
      <4>3. QED
        BY <4>2 DEF BuildType
    <3>3. QED
      BY <2>2, <3>1, <3>2
  <2>8. UNCHANGED <<rows, history, source, present, jobs, mapper, maker, kit, deleter, sweeper>>
    BY <1>4 DEF BuildCreate
  <2>9. QED
    BY <2>3, <2>6, <2>7, <2>8, TypesKept DEF TypeInv
<1>5. ASSUME NEW phase \in {"stopping", "starting"}, NEW a, NEW state \in {"stopped", "running"},
             NEW next \in {"starting", "committing"}, BuildSwitch(phase, a, state, next)
      PROVE  TypeInv'
  <2>1. \/ /\ ~Gone(a)
           /\ node' = With({a}, state)
           /\ builder' = [builder EXCEPT !.phase = next, !.oldOff = TRUE]
        \/ builder' = [builder EXCEPT !.phase = "undoing"] /\ UNCHANGED node
    BY <1>5 DEF BuildSwitch
  <2>2. builder \in Replacing
    BY <1>0, <1>5 DEF BuildSwitch, Resting, Planning, Creating
  <2>3. NodeStep({})
    BY <2>1, NodeStays, NodeSwitches DEF TypeInv
  <2>4. builder' \in BuildType
    BY <2>1, <2>2 DEF Replacing, BuildType
  <2>5. UNCHANGED <<rows, history, source, present, jobs, mapper, maker, lost, told, kit, deleter,
                    sweeper>>
    BY <1>5 DEF BuildSwitch
  <2>6. QED
    BY <2>3, <2>4, <2>5, TypesGrow, TypesKept DEF TypeInv
<1>6. CASE BuildCommit
  <2>1. NodeStep({})
    BY <1>6, NodeStays DEF BuildCommit, TypeInv
  <2>2. builder \in Replacing
    BY <1>0, <1>6 DEF BuildCommit, Resting, Planning, Creating
  <2>3. builder' = [builder EXCEPT !.phase = "retiring", !.live = FALSE]
          \/ builder' = [builder EXCEPT !.phase = "undoing"]
    BY <1>6 DEF BuildCommit
  <2>4. builder' \in BuildType
    BY <2>2, <2>3 DEF Replacing, BuildType
  <2>5. history' = history \/ history' = history \cup {[row |-> builder.id, account |-> builder.old]}
    BY <1>6 DEF BuildCommit, Retired
  <2>6. [row |-> builder.id, account |-> builder.old] \in RetiredType
    BY <2>2 DEF Replacing, RetiredType
  <2>7. history' \in SUBSET RetiredType
    BY <2>5, <2>6 DEF TypeInv
  <2>8. rows' \in SUBSET RowType
    <3>1. \A r \in rows : r \in RowType /\ [r EXCEPT !.account = builder.new, !.on = TRUE] \in RowType
      BY <2>2 DEF TypeInv, RowType, Replacing
    <3>2. \/ rows' = rows
          \/ \E mine \in SUBSET rows :
               rows' = (rows \ mine)
                         \cup {[r EXCEPT !.account = builder.new, !.on = TRUE] : r \in mine}
      BY <1>6, Zenon DEF BuildCommit
    <3>3. rows \in SUBSET RowType
      BY DEF TypeInv
    <3>4. ASSUME NEW mine \in SUBSET rows
          PROVE  {[r EXCEPT !.account = builder.new, !.on = TRUE] : r \in mine} \in SUBSET RowType
      BY <3>1
    <3>5. QED
      BY <3>2, <3>3, <3>4
  <2>9. UNCHANGED <<node, source, present, jobs, mapper, maker, lost, told, kit, deleter, sweeper>>
    BY <1>6 DEF BuildCommit
  <2>10. QED
    BY <2>1, <2>4, <2>7, <2>8, <2>9, TypesGrow, TypesKept DEF TypeInv
<1>7. CASE BuildUndo
  <2>1. builder \in Replacing
    BY <1>0, <1>7 DEF BuildUndo, Resting, Planning, Creating
  <2>2. PICK G : NodeStep(G) /\ lost' \in SUBSET (lost \cup {builder.new})
    BY <1>7, UndoesBuilding
  <2>3. lost' \in SUBSET Accounts
    BY <2>1, <2>2 DEF TypeInv, Replacing
  <2>4. told' \in SUBSET Accounts
    BY <1>7, <2>1 DEF BuildUndo, TypeInv, Replacing
  <2>5. builder' \in BuildType
    BY <1>7, RestingType DEF BuildUndo, BuildType
  <2>6. UNCHANGED <<rows, history, source, present, jobs, mapper, maker, kit, deleter, sweeper>>
    BY <1>7 DEF BuildUndo
  <2>7. QED
    BY <2>2, <2>3, <2>4, <2>5, <2>6, TypesGrow, TypesKept DEF TypeInv
<1>8. CASE BuildRetire
  <2>1. builder \in Replacing
    BY <1>0, <1>8 DEF BuildRetire, Resting, Planning, Creating
  <2>2. \E G : NodeStep(G)
    BY <1>8, NodeDeletes, NodeStays DEF BuildRetire, TypeInv
  <2>3. told' \in SUBSET Accounts
    BY <1>8, <2>1 DEF BuildRetire, TypeInv, Replacing
  <2>4. history' \subseteq history
    BY <1>8 DEF BuildRetire
  <2>5. builder' \in BuildType
    BY <1>8, RestingType DEF BuildRetire, BuildType
  <2>6. UNCHANGED <<rows, source, present, jobs, mapper, maker, lost, kit, deleter, sweeper>>
    BY <1>8 DEF BuildRetire
  <2>7. QED
    BY <2>2, <2>3, <2>4, <2>5, <2>6, TypesGrow, TypesKept DEF TypeInv
<1>9. QED
  BY <1>1, <1>2, <1>3, <1>4, <1>5, <1>6, <1>7, <1>8 DEF BuildSteps, BuildStop, BuildStart

LEMMA InHandType ==
  TypeInv => InHand \in SUBSET Accounts
<1> SUFFICES ASSUME TypeInv PROVE InHand \in SUBSET Accounts
  OBVIOUS
<1>1. AccountsOf(UNION {jobs[j].held : j \in Jobs}) \in SUBSET Accounts
  <2>1. \A j \in Jobs : jobs[j].held \in SUBSET RowType
    BY DEF TypeInv, JobType
  <2>2. UNION {jobs[j].held : j \in Jobs} \in SUBSET RowType
    BY <2>1
  <2>3. QED
    BY <2>2, AccountsInType
<1>2. AccountsOf(mapper.made) \in SUBSET Accounts
  BY DEF TypeInv, EditType, Editing, NoEdit, AccountsOf
<1>3. maker.phase = "inserting" => maker.account \in Accounts
  BY DEF TypeInv, MakeType, Inserting, NotMaking
<1>4. builder.phase \in {"stopping", "starting", "committing", "undoing"}
        => builder.new \in Accounts
  BY DEF TypeInv, BuildType, Resting, Planning, Creating, Replacing
<1>5. builder.phase = "retiring" => builder.old \in Accounts
  BY DEF TypeInv, BuildType, Resting, Planning, Creating, Replacing
<1>6. sweeper \in SUBSET Accounts
  BY DEF TypeInv
<1>7. QED
  BY <1>1, <1>2, <1>3, <1>4, <1>5, <1>6 DEF InHand, Pending, Doomed

LEMMA CleaningType ==
  ASSUME TypeInv,
         \/ \E h \in history : Clean(h) \/ CleanFails(h)
         \/ \E x \in present : Vanish(x)
         \/ \E a \in sweeper : Sweep(a)
         \/ Restart
  PROVE  TypeInv'
<1> USE DEF others
<1>1. ASSUME NEW h \in history, Clean(h) \/ CleanFails(h)
      PROVE  TypeInv'
  <2>1. \E G : NodeStep(G)
    BY <1>1, NodeDeletes, NodeStays DEF Clean, CleanFails, TypeInv
  <2>2. history' \subseteq history
    BY <1>1 DEF Clean, CleanFails
  <2>3. told' \in SUBSET Accounts
    BY <1>1 DEF Clean, CleanFails, TypeInv, RetiredType
  <2>4. UNCHANGED <<rows, source, present, jobs, mapper, maker, lost, kit, deleter, builder, sweeper>>
    BY <1>1 DEF Clean, CleanFails
  <2>5. QED
    BY <2>1, <2>2, <2>3, <2>4, TypesGrow, TypesKept DEF TypeInv
<1>2. ASSUME NEW x \in present, Vanish(x)
      PROVE  TypeInv'
  <2>1. NodeStep({})
    BY <1>2, NodeStays DEF Vanish, TypeInv
  <2>2. rows' \subseteq rows /\ history' \subseteq history /\ present' \subseteq present
    BY <1>2 DEF Vanish, Forgetting
  <2>3. builder' \in BuildType
    BY <1>2, RejectedType DEF Vanish, TypeInv
  <2>4. \E swept \in SUBSET rows : sweeper' = sweeper \cup AccountsOf(swept)
    BY <1>2, Zenon DEF Vanish
  <2>5. sweeper' \in SUBSET Accounts
    BY <2>4, AccountsInType DEF TypeInv
  <2>6. UNCHANGED <<node, source, jobs, mapper, maker, lost, told, kit, deleter>>
    BY <1>2 DEF Vanish
  <2>7. QED
    BY <2>1, <2>2, <2>3, <2>5, <2>6, TypesGrow, TypesKept DEF TypeInv
<1>3. ASSUME NEW a \in sweeper, Sweep(a)
      PROVE  TypeInv'
  <2>1. \E G : NodeStep(G)
    BY <1>3, NodeDeletes, NodeStays DEF Sweep, TypeInv
  <2>2. /\ sweeper' \in SUBSET Accounts
        /\ lost' \in SUBSET Accounts
        /\ told' \in SUBSET Accounts
    BY <1>3 DEF Sweep, TypeInv
  <2>3. UNCHANGED <<rows, history, source, present, jobs, mapper, maker, kit, deleter, builder>>
    BY <1>3 DEF Sweep
  <2>4. QED
    BY <2>1, <2>2, <2>3, TypesGrow, TypesKept DEF TypeInv
<1>4. CASE Restart
  <2>1. NodeStep({})
    BY <1>4, NodeStays DEF Restart, TypeInv
  <2>2. RowType' = RowType /\ Accounts' = Accounts
    BY <1>4 DEF Restart, RowType, Accounts
  <2>3. jobs' \in [Jobs -> JobType]
    <3>1. \A j \in Jobs : jobs[j] \in JobType
      BY DEF TypeInv
    <3>2. \A j \in Jobs : [jobs[j] EXCEPT !.status = IF Active(j) THEN "FAILED" ELSE @,
                                          !.held = {}, !.runs = FALSE] \in JobType
      BY <3>1 DEF JobType
    <3>3. QED
      BY <1>4, <3>2 DEF Restart, JobsAfterRestart
  <2>4. lost' \in SUBSET Accounts
    BY <1>4, InHandType DEF Restart, TypeInv
  <2>5. /\ mapper' \in EditType' /\ maker' \in MakeType' /\ deleter' \in DeletionType'
        /\ builder' \in BuildType
    BY <1>4, RestingType DEF Restart, EditType, MakeType, DeletionType, BuildType
  <2>6. sweeper' = {}
    BY <1>4 DEF Restart
  <2>7. UNCHANGED <<node, rows, history, source, present, told, kit>>
    BY <1>4 DEF Restart
  <2>8. QED
    BY <2>1, <2>3, <2>4, <2>5, <2>6, <2>7, TypesGrow, TypesKept DEF TypeInv
<1>5. QED
  BY <1>1, <1>2, <1>3, <1>4

LEMMA TypeInit ==
  Init => TypeInv
<1> SUFFICES ASSUME Init PROVE TypeInv
  OBVIOUS
<1> USE DEF Init, BindInit
<1>1. PICK g \in Groups, ss \in SUBSET Slots :
        /\ node = [i \in 1 .. Cardinality(ss) |-> "running"]
        /\ rows = {Row(g, n.slot, n.account, TRUE) : n \in Numbered(ss, 0)}
  OBVIOUS
<1>2. /\ Cardinality(ss) \in Nat
      /\ Numbered(ss, 0) \in SUBSET [slot : Slots, account : 0 + 1 .. 0 + Cardinality(ss)]
  BY Numbers
<1>3. node \in Seq(States) /\ Len(node) = Cardinality(ss)
  <2>1. node \in [1 .. Cardinality(ss) -> States]
    BY <1>1 DEF States
  <2>2. QED
    BY <1>2, <2>1, SequenceOf
<1>4. 0 + 1 .. 0 + Cardinality(ss) = Accounts
  <2>1. \A n \in Nat : 0 + 1 .. 0 + n = 1 .. n
    OBVIOUS
  <2>2. QED
    BY <1>2, <1>3, <2>1 DEF Accounts
<1>5. rows \in SUBSET RowType
  <2>1. \A n \in Numbered(ss, 0) : Row(g, n.slot, n.account, TRUE) \in RowType
    BY <1>2, <1>4 DEF Row, RowType
  <2>2. QED
    BY <1>1, <2>1
<1>6. jobs \in [Jobs -> JobType]
  <2>1. NoJob \in JobType
    BY DEF NoJob, JobType
  <2>2. QED
    BY <2>1
<1>7. mapper \in EditType /\ maker \in MakeType /\ deleter \in DeletionType /\ builder \in BuildType
  BY RestingType DEF EditType, MakeType, DeletionType, BuildType
<1>8. /\ source \in {"ACTIVE", "DELETING", "gone"} /\ present = Groups \cup Slots
      /\ history = {} /\ lost = {} /\ told = {} /\ sweeper = {} /\ kit \in Kits
  OBVIOUS
<1>9. QED
  BY <1>3, <1>5, <1>6, <1>7, <1>8 DEF TypeInv

LEMMA TypeStep ==
  TypeInv /\ [Next]_vars => TypeInv'
<1> SUFFICES ASSUME TypeInv, [Next]_vars PROVE TypeInv'
  OBVIOUS
<1>1. CASE UNCHANGED vars
  <2>1. NodeStep({})
    BY <1>1, NodeStays DEF vars, bindVars, TypeInv
  <2>2. BuildType' = BuildType
    BY <1>1 DEF vars, bindVars, BuildType, Planning, Creating, Replacing, Accounts
  <2>3. QED
    BY <1>1, <2>1, TypesKept DEF vars, bindVars, TypeInv
<1>2. QED
  BY <1>1, DeployingType, MappingType, MakingType, DeletingType, BuildingType, CleaningType
     DEF Next, Binding

-------------------------------------------------------------------------------
(* Which phases a saga can be in, and which kits it can be in them under. *)

PhaseInv ==
  /\ \A j \in Jobs : jobs[j].status = "COMPLETED" => jobs[j].held = {}
  /\ source # "ACTIVE" => mapper = NoEdit /\ \A j \in Jobs : ~Active(j)
  /\ deleter # NoDeletion => source = "DELETING"
  /\ mapper.deleted \subseteq mapper.removed
  /\ mapper.phase = "creating" => mapper.made = {}
  /\ mapper.phase \in {"creating", "stopping", "undoing"} => mapper.deleted = {}

Used ==
  /\ mapper # NoEdit => "map" \in kit.sagas
  /\ maker # NotMaking => "make" \in kit.sagas
  /\ builder.phase # "idle" \/ history # {} => "recreate" \in kit.sagas
  /\ source # "ACTIVE" => "delete" \in kit.sagas
  /\ present # Groups \cup Slots => "sweep" \in kit.sagas
  /\ \A j \in Jobs : jobs[j].status # "" => "deploy" \in kit.sagas

Basics == TypeInv /\ PhaseInv /\ Used

LEMMA PhaseInit ==
  Init => PhaseInv /\ Used
<1> SUFFICES ASSUME Init PROVE PhaseInv /\ Used
  OBVIOUS
<1>1. /\ source = "ACTIVE" /\ mapper = NoEdit /\ maker = NotMaking /\ deleter = NoDeletion
      /\ builder = NotBuilding /\ history = {} /\ present = Groups \cup Slots
  BY DEF Init, BindInit
<1>2. \A j \in Jobs : jobs[j].status = "" /\ jobs[j].held = {}
  BY DEF Init, BindInit, NoJob
<1>3. NoEdit.phase = "idle" /\ NoEdit.deleted = {} /\ NoEdit.removed = {}
  BY DEF NoEdit
<1>4. NotBuilding.phase = "idle"
  BY DEF NotBuilding
<1>5. QED
  BY <1>1, <1>2, <1>3, <1>4 DEF PhaseInv, Used

LEMMA DeployingPhase ==
  ASSUME Basics, Deploying, UNCHANGED others
  PROVE  PhaseInv' /\ Used'
<1> USE DEF others, scene, Basics
<1>0. jobs \in [Jobs -> JobType] /\ \A k \in Jobs : jobs[k] \in JobType
  BY DEF TypeInv
<1>1. ASSUME NEW j \in Jobs, NEW gs, NEW ss, Submit(j, gs, ss)
      PROVE  PhaseInv' /\ Used'
  <2>1. jobs' = [jobs EXCEPT ![j] = [NoJob EXCEPT !.status = "QUEUED", !.groups = gs,
                                                  !.slots = ss, !.runs = TRUE]]
    BY <1>1 DEF Submit
  <2>2. /\ \A k \in Jobs : k # j => jobs'[k] = jobs[k]
        /\ jobs'[j].status = "QUEUED" /\ "deploy" \in kit.sagas /\ source = "ACTIVE"
    BY <1>0, <1>1, <2>1 DEF Submit, NoJob, Requested
  <2>3. UNCHANGED <<node, rows, history, source, present, mapper, maker, kit, builder, deleter>>
    BY <1>1 DEF Submit
  <2>4. PhaseInv'
    BY <2>2, <2>3 DEF PhaseInv, Active
  <2>5. QED
    BY <2>2, <2>3, <2>4 DEF Used
<1>2. ASSUME NEW j \in Jobs, JobStart(j) \/ JobGroup(j) \/ JobCommit(j) \/ JobRollback(j)
      PROVE  PhaseInv' /\ Used'
  <2>1. /\ \A k \in Jobs : k # j => jobs'[k] = jobs[k]
        /\ jobs'[j].status = "COMPLETED" => jobs'[j].held = {}
        /\ jobs[j].status # ""
        /\ jobs'[j].status \in {"RUNNING", "QUEUED"} => Active(j)
    <3>1. CASE JobStart(j)
      BY <1>0, <3>1 DEF JobStart, Active
    <3>2. CASE JobGroup(j)
      BY <1>0, <3>2 DEF JobGroup, Active
    <3>3. CASE JobCommit(j)
      <4>1. \/ jobs' = [jobs EXCEPT ![j] = [@ EXCEPT !.status = "FAILED"]]
            \/ jobs' = [jobs EXCEPT ![j] = [@ EXCEPT !.status = "COMPLETED", !.held = {}]]
        BY <1>0, <3>3 DEF JobCommit
      <4>2. jobs[j].status = "RUNNING"
        BY <3>3 DEF JobCommit
      <4>3. jobs[j] \in JobType
        BY <1>0
      <4>4. QED
        <5>1. CASE jobs' = [jobs EXCEPT ![j] = [@ EXCEPT !.status = "FAILED"]]
          BY <1>0, <4>2, <4>3, <5>1 DEF JobType
        <5>2. CASE jobs' = [jobs EXCEPT ![j] = [@ EXCEPT !.status = "COMPLETED", !.held = {}]]
          BY <1>0, <4>2, <4>3, <5>2 DEF JobType
        <5>3. QED
          BY <4>1, <5>1, <5>2
    <3>4. CASE JobRollback(j)
      BY <1>0, <3>4 DEF JobRollback, Active
    <3>5. QED
      BY <1>2, <3>1, <3>2, <3>3, <3>4
  <2>2. UNCHANGED <<history, source, present, mapper, maker, kit, builder, deleter>>
    BY <1>2 DEF JobStart, JobGroup, JobCommit, JobRollback
  <2>3. PhaseInv'
    BY <2>1, <2>2 DEF PhaseInv, Active
  <2>4. QED
    BY <2>1, <2>2, <2>3 DEF Used
<1>3. QED
  BY <1>1, <1>2 DEF Deploying

LEMMA MappingPhase ==
  ASSUME Basics, Mapping, UNCHANGED others
  PROVE  PhaseInv' /\ Used'
<1> USE DEF others, scene, Basics
<1>1. UNCHANGED <<source, present, jobs, maker, kit, builder, deleter>>
  BY DEF Mapping, MapLoad, MapCreate, MapStop, MapDelete, MapCommit, MapRestore, MapUndo
<1>2. history' \subseteq history
  BY DEF Mapping, MapLoad, MapCreate, MapStop, MapDelete, MapCommit, MapRestore, MapUndo,
         Forgetting
<1>3. mapper \in {NoEdit} \cup Editing
  BY DEF TypeInv, EditType
<1>4. \/ mapper' = NoEdit
      \/ /\ source = "ACTIVE" /\ "map" \in kit.sagas
         /\ mapper'.deleted \subseteq mapper'.removed
         /\ mapper'.phase = "creating" => mapper'.made = {}
         /\ mapper'.phase \in {"creating", "stopping", "undoing"} => mapper'.deleted = {}
  <2>1. ASSUME NEW g \in Groups, NEW desired \in SUBSET Slots, MapLoad(g, desired)
        PROVE  <1>4!2
    BY <2>1 DEF MapLoad, NoEdit, Requested
  <2>2. mapper.phase # "idle" =>
          /\ source = "ACTIVE" /\ "map" \in kit.sagas /\ mapper \in Editing
    <3>1. mapper.phase # "idle" => mapper # NoEdit
      BY DEF NoEdit
    <3>2. QED
      BY <1>3, <3>1 DEF PhaseInv, Used
  <2>3. CASE MapCreate
    BY <2>2, <2>3 DEF MapCreate, PhaseInv, Editing
  <2>4. CASE MapStop
    BY <2>2, <2>4 DEF MapStop, PhaseInv, Editing
  <2>5. CASE MapDelete
    BY <2>2, <2>5 DEF MapDelete, PhaseInv, Editing
  <2>6. CASE MapCommit
    <3>1. mapper' = NoEdit \/ mapper' = [mapper EXCEPT !.phase = "restoring"]
      BY <2>6 DEF MapCommit
    <3>2. mapper.phase = "deleting"
      BY <2>6 DEF MapCommit
    <3>3. QED
      BY <2>2, <3>1, <3>2 DEF PhaseInv, Editing
  <2>7. CASE MapRestore
    <3>1. \E r \in mapper.deleted :
            mapper' = [mapper EXCEPT !.deleted = @ \ {r}, !.removed = @ \ {r}]
      BY <2>7 DEF MapRestore
    <3>2. mapper.phase = "restoring"
      BY <2>7 DEF MapRestore
    <3>3. QED
      BY <2>2, <3>1, <3>2 DEF PhaseInv, Editing
  <2>8. CASE MapUndo
    BY <2>8 DEF MapUndo
  <2>9. QED
    BY <2>1, <2>3, <2>4, <2>5, <2>6, <2>7, <2>8 DEF Mapping
<1>5. PhaseInv'
  BY <1>1, <1>4 DEF PhaseInv, Active, NoEdit
<1>6. QED
  BY <1>1, <1>2, <1>4, <1>5 DEF Used

LEMMA MakingPhase ==
  ASSUME Basics, Making, UNCHANGED others
  PROVE  PhaseInv' /\ Used'
<1> USE DEF others, scene, Basics
<1>1. UNCHANGED <<history, source, present, jobs, mapper, kit, builder, deleter>>
  BY DEF Making, MakeCheck, MakeCreate, MakeInsert
<1>2. "make" \in kit.sagas
  <2>1. maker.phase # "idle" => maker # NotMaking
    BY DEF NotMaking
  <2>2. QED
    BY <2>1 DEF Used, Making, MakeCheck, MakeCreate, MakeInsert, Requested
<1>3. QED
  BY <1>1, <1>2 DEF PhaseInv, Used, Active

LEMMA DeletingPhase ==
  ASSUME Basics, RequestDeletion \/ DeletionSteps
  PROVE  PhaseInv' /\ Used'
<1> USE DEF Basics
<1>0. \/ deleter = NoDeletion /\ deleter.phase = "idle"
      \/ deleter # NoDeletion /\ source = "DELETING"
  BY DEF PhaseInv, NoDeletion
<1>1. UNCHANGED <<present, jobs, mapper, maker, kit>>
  BY DEF RequestDeletion, DeletionSteps, DeletionLoad, DeletionCall, DeletionRemove, DeletionFinish,
         bindVars
<1>2. history' \subseteq history
  BY DEF RequestDeletion, DeletionSteps, DeletionLoad, DeletionCall, DeletionRemove, DeletionFinish,
         bindVars, Forgetting
<1>3. builder'.phase = builder.phase
  <2>1. Rejected.phase = builder.phase
    BY DEF Rejected, TypeInv, BuildType, Resting, Planning, Creating, Replacing
  <2>2. QED
    BY <2>1 DEF RequestDeletion, DeletionSteps, DeletionLoad, DeletionCall, DeletionRemove,
                DeletionFinish
<1>4. /\ source' # "ACTIVE" => /\ "delete" \in kit.sagas
                               /\ mapper = NoEdit /\ \A j \in Jobs : ~Active(j)
      /\ deleter' # NoDeletion => source' = "DELETING"
  <2>1. CASE RequestDeletion
    BY <2>1 DEF RequestDeletion, Requested
  <2>2. CASE DeletionLoad \/ DeletionCall \/ DeletionRemove
    BY <1>0, <2>2 DEF DeletionLoad, DeletionCall, DeletionRemove, PhaseInv, Used, bindVars
  <2>3. CASE DeletionFinish
    BY <1>0, <2>3 DEF DeletionFinish, PhaseInv, Used
  <2>4. QED
    BY <2>1, <2>2, <2>3 DEF DeletionSteps
<1>5. PhaseInv'
  BY <1>1, <1>4 DEF PhaseInv, Active
<1>6. QED
  BY <1>1, <1>2, <1>3, <1>4, <1>5 DEF Used

LEMMA BuildingPhase ==
  ASSUME Basics, BuildSteps \/ (\E r \in rows : Plan(r))
  PROVE  PhaseInv' /\ Used'
<1> USE DEF Basics, bindVars, bindUnchanged
<1>1. UNCHANGED <<source, present, jobs, mapper, maker, kit, deleter>>
  BY DEF BuildSteps, Plan, Enqueue, BuildLoad, BuildCreate, BuildStop, BuildStart, BuildSwitch,
         BuildCommit, BuildUndo, BuildRetire
<1>2. "recreate" \in kit.sagas
  BY DEF BuildSteps, Plan, Enqueue, BuildLoad, BuildCreate, BuildStop, BuildStart, BuildSwitch,
         BuildCommit, BuildUndo, BuildRetire, Used, Requested
<1>3. QED
  BY <1>1, <1>2 DEF PhaseInv, Used, Active

LEMMA CleaningPhase ==
  ASSUME Basics,
         \/ \E h \in history : Clean(h) \/ CleanFails(h)
         \/ \E x \in present : Vanish(x)
         \/ \E a \in sweeper : Sweep(a)
  PROVE  PhaseInv' /\ Used'
<1> USE DEF Basics, others
<1>1. UNCHANGED <<source, jobs, mapper, maker, kit, deleter>>
  BY DEF Clean, CleanFails, Vanish, Sweep
<1>2. history' \subseteq history
  BY DEF Clean, CleanFails, Vanish, Sweep, Forgetting
<1>3. builder'.phase = builder.phase
  <2>1. Rejected.phase = builder.phase
    BY DEF Rejected, TypeInv, BuildType, Resting, Planning, Creating, Replacing
  <2>2. QED
    BY <2>1 DEF Clean, CleanFails, Vanish, Sweep
<1>4. present' = present \/ "sweep" \in kit.sagas
  BY DEF Clean, CleanFails, Vanish, Sweep, Requested
<1>5. QED
  BY <1>1, <1>2, <1>3, <1>4 DEF PhaseInv, Used, Active

LEMMA RestartPhase ==
  ASSUME Basics, Restart
  PROVE  PhaseInv' /\ Used'
<1> USE DEF Basics
<1>1. UNCHANGED <<history, source, present, kit>>
  BY DEF Restart
<1>2. /\ mapper' = NoEdit /\ maker' = NotMaking /\ deleter' = NoDeletion
      /\ builder' = NotBuilding
  BY DEF Restart
<1>3. \A j \in Jobs : /\ jobs'[j].held = {}
                      /\ jobs'[j].status \notin {"QUEUED", "RUNNING"}
                      /\ jobs'[j].status # "" => jobs[j].status # ""
  <2>1. SUFFICES ASSUME NEW j \in Jobs
                 PROVE  /\ jobs'[j].held = {}
                        /\ jobs'[j].status \notin {"QUEUED", "RUNNING"}
                        /\ jobs'[j].status # "" => jobs[j].status # ""
    OBVIOUS
  <2>2. jobs'[j] = [jobs[j] EXCEPT !.status = IF Active(j) THEN "FAILED" ELSE @,
                                   !.held = {}, !.runs = FALSE]
    BY DEF Restart, JobsAfterRestart
  <2>3. jobs[j] \in JobType
    BY DEF TypeInv
  <2>4. QED
    BY <2>2, <2>3 DEF JobType, Active
<1>4. PhaseInv'
  BY <1>1, <1>2, <1>3 DEF PhaseInv, Active, NoEdit
<1>5. QED
  BY <1>1, <1>2, <1>3, <1>4 DEF Used, NotBuilding

LEMMA BasicsInvariant ==
  Spec => []Basics
<1>1. Init => Basics
  BY TypeInit, PhaseInit DEF Basics
<1>2. Basics /\ [Next]_vars => Basics'
  <2>1. SUFFICES ASSUME Basics, [Next]_vars PROVE Basics'
    OBVIOUS
  <2>2. TypeInv'
    BY <2>1, TypeStep DEF Basics
  <2>3. PhaseInv' /\ Used'
    <3>1. CASE UNCHANGED vars
      BY <2>1, <3>1 DEF vars, bindVars, Basics, PhaseInv, Used, Active
    <3>2. QED
      BY <2>1, <3>1, DeployingPhase, MappingPhase, MakingPhase, DeletingPhase, BuildingPhase,
         CleaningPhase, RestartPhase DEF Next, Binding
  <2>4. QED
    BY <2>2, <2>3 DEF Basics
<1>3. QED
  BY <1>1, <1>2, PTL DEF Spec

\* The accounts that the database and the goroutines name are accounts of the node,
\* and each saga runs only while the status of the source lets it
\* (source_deletions.go, mappings.go, deployments.go).
THEOREM SagasTypeCorrect ==
  Spec => []SagaTypeOK
<1>1. Basics => SagaTypeOK
  <2> SUFFICES ASSUME Basics PROVE SagaTypeOK
    OBVIOUS
  <2> USE DEF Basics
  <2>2. DOMAIN node = Accounts
    BY DEF TypeInv, Accounts
  <2>3. node \in Seq({"stopped", "running", "gone"})
    BY DEF TypeInv, States
  <2>4. \A r \in rows : r.account \in DOMAIN node /\ r.group \in Groups /\ r.slot \in Slots
    BY <2>2 DEF TypeInv, RowType
  <2>5. \A h \in history : h.account \in DOMAIN node
    BY <2>2 DEF TypeInv, RetiredType
  <2>6. \A j \in Jobs : /\ jobs[j].status \in {"", "QUEUED", "RUNNING", "COMPLETED", "FAILED"}
                        /\ jobs[j].status = "COMPLETED" => jobs[j].held = {}
    BY DEF TypeInv, JobType, PhaseInv
  <2>7. /\ mapper.phase \in {"idle", "creating", "stopping", "deleting", "restoring", "undoing"}
        /\ mapper.phase # "idle" => source = "ACTIVE"
    BY DEF TypeInv, EditType, Editing, NoEdit, PhaseInv
  <2>8. /\ deleter.phase \in {"idle", "queued", "deleting", "removing"}
        /\ deleter.phase # "idle" => source = "DELETING"
    BY DEF TypeInv, DeletionType, Deletion, NoDeletion, PhaseInv
  <2>9. source \in {"ACTIVE", "DELETING", "gone"} /\ present \subseteq Groups \cup Slots
    BY DEF TypeInv
  <2>10. lost \cup told \cup sweeper \subseteq DOMAIN node
    BY <2>2 DEF TypeInv
  <2>11. QED
    BY <2>3, <2>4, <2>5, <2>6, <2>7, <2>8, <2>9, <2>10 DEF SagaTypeOK
<1>2. QED
  BY <1>1, BasicsInvariant, PTL

-------------------------------------------------------------------------------
(* One account for a group and a slot.                                     *)

(* What the kit must leave out: requests for several groups that overlap,  *)
(* which nothing serialises; an account made by hand beside the two other  *)
(* sagas that bind, which do not look at it; and a group that vanishes and *)
(* is deployed again during the edit of its mapping.                       *)
Serial(k) ==
  /\ "overlap" \notin k.faults
  /\ "make" \in k.sagas => "deploy" \notin k.sagas /\ "map" \notin k.sagas
  /\ ~({"deploy", "map", "sweep"} \subseteq k.sagas)

SameKey(q, r) == q.group = r.group /\ q.slot = r.slot

Separated ==
  \A j, k \in Jobs :
    j # k /\ Active(j) /\ Active(k) => jobs[j].groups \cap jobs[k].groups = {}

Vacant ==
  \A j \in Jobs : jobs[j].status = "RUNNING" => \A r \in rows : r.group \notin jobs[j].groups

Carried ==
  \A j \in Jobs :
    /\ jobs[j].done \subseteq jobs[j].groups
    /\ \A q \in jobs[j].held : q.group \in jobs[j].done
    /\ \A q, r \in jobs[j].held : SameKey(q, r) => q = r

Edited ==
  mapper # NoEdit =>
    /\ \A j \in Jobs : Active(j) => mapper.group \notin jobs[j].groups
    /\ "deploy" \in kit.sagas => \E r \in rows : r.group = mapper.group
    /\ \A r \in rows : r.group = mapper.group => r.slot \notin mapper.added
    /\ \A n \in mapper.made : n.slot \in mapper.added
    /\ \A m, n \in mapper.made : m.slot = n.slot => m = n

Unmade ==
  maker # NotMaking => \A r \in rows : ~(r.group = maker.group /\ r.slot = maker.slot)

OneInv ==
  Serial(kit) /\ OneBinding /\ Separated /\ Vacant /\ Carried /\ Edited /\ Unmade

LEMMA OneInit ==
  ASSUME \A k \in Kits : Serial(k), Init
  PROVE  OneInv
<1>1. kit \in Kits /\ mapper = NoEdit /\ maker = NotMaking
  BY DEF Init, BindInit
<1>2. \A j \in Jobs : jobs[j] = NoJob
  BY DEF Init, BindInit
<1>3. PICK g \in Groups, ss \in SUBSET Slots :
        rows = {Row(g, n.slot, n.account, TRUE) : n \in Numbered(ss, 0)}
  BY DEF Init, BindInit
<1>4. \A x, y \in Numbered(ss, 0) : x.slot = y.slot => x = y
  BY Numbers
<1>5. OneBinding
  <2>1. SUFFICES ASSUME NEW q \in rows, NEW r \in rows, q.group = r.group, q.slot = r.slot
                 PROVE  q = r
    BY DEF OneBinding
  <2>2. PICK m \in Numbered(ss, 0), n \in Numbered(ss, 0) :
          q = Row(g, m.slot, m.account, TRUE) /\ r = Row(g, n.slot, n.account, TRUE)
    BY <1>3
  <2>3. m.slot = n.slot
    BY <2>1, <2>2 DEF Row
  <2>4. QED
    BY <1>4, <2>2, <2>3
<1>6. Separated /\ Vacant /\ Carried
  <2>1. \A j \in Jobs : jobs[j].status = "" /\ jobs[j].done = {} /\ jobs[j].held = {}
    <3>1. NoJob.status = "" /\ NoJob.done = {} /\ NoJob.held = {}
      BY DEF NoJob
    <3>2. QED
      BY <1>2, <3>1
  <2>2. \A j \in Jobs : ~Active(j)
    BY <2>1 DEF Active
  <2>3. Separated /\ Vacant
    BY <2>1, <2>2 DEF Separated, Vacant
  <2>4. Carried
    BY <2>1 DEF Carried
  <2>5. QED
    BY <2>3, <2>4
<1>7. QED
  BY <1>1, <1>5, <1>6 DEF OneInv, Edited, Unmade

(* Steps that bind nothing: every row has the key of one that was there.   *)
LEMMA OneKept ==
  ASSUME OneInv, UNCHANGED <<jobs, kit>>,
         \A x \in rows' : \E r \in rows : SameKey(x, r),
         \A x, y \in rows' : SameKey(x, y) => x = y,
         \/ mapper' = NoEdit
         \/ /\ mapper # NoEdit /\ mapper'.group = mapper.group /\ mapper'.added = mapper.added
            /\ mapper'.made = mapper.made
            /\ "deploy" \in kit.sagas => \A r \in rows : \E x \in rows' : x.group = r.group,
         \/ maker' = NotMaking
         \/ maker # NotMaking /\ maker'.group = maker.group /\ maker'.slot = maker.slot
  PROVE  OneInv'
<1> USE DEF OneInv, SameKey
<1>1. OneBinding'
  BY DEF OneBinding
<1>2. Separated' /\ Carried'
  BY DEF Separated, Carried, Active
<1>3. Vacant'
  BY DEF Vacant
<1>4. Edited'
  <2>1. CASE mapper' = NoEdit
    BY <2>1 DEF Edited
  <2>2. CASE mapper' # NoEdit
    <3>1. /\ mapper # NoEdit /\ mapper'.group = mapper.group /\ mapper'.added = mapper.added
          /\ mapper'.made = mapper.made
          /\ "deploy" \in kit.sagas => \A r \in rows : \E x \in rows' : x.group = r.group
      BY <2>2
    <3>2. \A r \in rows' : r.group = mapper'.group => r.slot \notin mapper'.added
      BY <3>1 DEF Edited
    <3>3. "deploy" \in kit.sagas => \E r \in rows' : r.group = mapper'.group
      BY <3>1 DEF Edited
    <3>4. QED
      BY <3>1, <3>2, <3>3 DEF Edited, Active
  <2>3. QED
    BY <2>1, <2>2
<1>5. Unmade'
  BY DEF Unmade
<1>6. QED
  BY <1>1, <1>2, <1>3, <1>4, <1>5

LEMMA DeployingOne ==
  ASSUME Basics, OneInv, Deploying, UNCHANGED others
  PROVE  OneInv'
<1> USE DEF others, scene
<1>0. jobs \in [Jobs -> JobType] /\ \A k \in Jobs : jobs[k] \in JobType
  BY DEF Basics, TypeInv
<1>1. UNCHANGED <<mapper, maker, kit>>
  BY DEF Deploying, Submit, JobStart, JobGroup, JobCommit, JobRollback
<1>2. ASSUME NEW j \in Jobs, NEW gs \in SUBSET Groups \ {{}}, NEW ss \in SUBSET Slots \ {{}},
             Submit(j, gs, ss)
      PROVE  OneInv'
  <2>1. /\ \A k \in Jobs : k # j => jobs'[k] = jobs[k]
        /\ jobs'[j] = [NoJob EXCEPT !.status = "QUEUED", !.groups = gs, !.slots = ss,
                                    !.runs = TRUE]
    BY <1>0, <1>2 DEF Submit
  <2>2. /\ jobs'[j].status = "QUEUED" /\ jobs'[j].groups = gs /\ jobs'[j].done = {}
        /\ jobs'[j].held = {}
    BY <2>1 DEF NoJob
  <2>3. rows' = rows /\ "deploy" \in kit.sagas /\ Deployable(gs, ss) /\ Free(gs)
    BY <1>2 DEF Submit, Requested
  <2>4. \A k \in Jobs : Active(k) => jobs[k].groups \cap gs = {}
    BY <2>3 DEF Free, Fails, OneInv, Serial
  <2>5. mapper # NoEdit => mapper.group \notin gs
    BY <2>3 DEF Deployable, Of, OneInv, Edited
  <2>6. OneBinding' /\ Unmade'
    BY <1>1, <2>3 DEF OneInv, OneBinding, Unmade
  <2>7. Separated'
    BY <2>1, <2>2, <2>4 DEF OneInv, Separated, Active
  <2>8. Vacant' /\ Carried'
    BY <2>1, <2>2, <2>3 DEF OneInv, Vacant, Carried
  <2>9. Edited'
    BY <1>1, <2>1, <2>2, <2>3, <2>5 DEF OneInv, Edited, Active
  <2>10. QED
    BY <1>1, <2>6, <2>7, <2>8, <2>9 DEF OneInv
<1>3. ASSUME NEW j \in Jobs, JobStart(j)
      PROVE  OneInv'
  <2>1. PICK status \in {"RUNNING", "FAILED"} :
          /\ status = "RUNNING" => Deployable(jobs[j].groups, jobs[j].slots)
          /\ jobs' = [jobs EXCEPT ![j].status = status]
    BY <1>3 DEF JobStart
  <2>2. /\ \A k \in Jobs : /\ k # j => jobs'[k] = jobs[k]
                           /\ jobs'[k].groups = jobs[k].groups
                           /\ jobs'[k].done = jobs[k].done
                           /\ jobs'[k].held = jobs[k].held
        /\ jobs'[j].status = status
    BY <1>0, <2>1 DEF JobType
  <2>3. rows' = rows /\ Active(j)
    BY <1>3 DEF JobStart, Active
  <2>4. OneBinding' /\ Unmade' /\ Carried'
    BY <1>1, <2>2, <2>3 DEF OneInv, OneBinding, Unmade, Carried
  <2>5. Separated' /\ Edited'
    BY <1>1, <2>2, <2>3 DEF OneInv, Separated, Edited, Active
  <2>6. Vacant'
    BY <2>1, <2>2, <2>3 DEF OneInv, Vacant, Deployable, Of
  <2>7. QED
    BY <1>1, <2>4, <2>5, <2>6 DEF OneInv
<1>4. ASSUME NEW j \in Jobs, JobGroup(j)
      PROVE  OneInv'
  <2>1. PICK g \in jobs[j].groups \ jobs[j].done, c \in Creations(jobs[j].slots) :
          /\ node' = Born(c)
          /\ jobs' = [jobs EXCEPT
               ![j].status = IF c.made = jobs[j].slots THEN @ ELSE "FAILED",
               ![j].done   = @ \cup {g},
               ![j].held   = @ \cup {Row(g, n.slot, n.account, FALSE) : n \in Named(c)}]
    BY <1>4 DEF JobGroup
  <2>2. \A m, n \in Named(c) : m.slot = n.slot => m = n
    <3>1. jobs[j].slots \in SUBSET Slots
      BY <1>0 DEF JobType
    <3>2. QED
      BY <2>1, <3>1, Births DEF Basics, TypeInv
  <2>3. /\ \A k \in Jobs : /\ k # j => jobs'[k] = jobs[k]
                           /\ jobs'[k].groups = jobs[k].groups
        /\ jobs'[j].status \in {jobs[j].status, "FAILED"}
        /\ jobs'[j].done = jobs[j].done \cup {g}
        /\ jobs'[j].held = jobs[j].held \cup {Row(g, n.slot, n.account, FALSE) : n \in Named(c)}
    BY <1>0, <2>1 DEF JobType
  <2>4. rows' = rows /\ Active(j) /\ jobs[j].status = "RUNNING"
    BY <1>4 DEF JobGroup, Active
  <2>5. OneBinding' /\ Unmade' /\ Vacant'
    BY <1>1, <2>3, <2>4 DEF OneInv, OneBinding, Unmade, Vacant
  <2>6. Separated' /\ Edited'
    BY <1>1, <2>3, <2>4 DEF OneInv, Separated, Edited, Active
  <2>7. Carried'
    <3>1. /\ jobs'[j].done \subseteq jobs'[j].groups
          /\ \A q \in jobs'[j].held : q.group \in jobs'[j].done
      <4>1. \A n : Row(g, n.slot, n.account, FALSE).group = g
        BY DEF Row
      <4>2. \A q \in jobs'[j].held : q \in jobs[j].held \/ q.group = g
        BY <2>3, <4>1
      <4>3. g \in jobs[j].groups
        BY <2>1
      <4>4. QED
        BY <2>3, <4>2, <4>3 DEF OneInv, Carried
    <3>2. ASSUME NEW q \in jobs'[j].held, NEW r \in jobs'[j].held, SameKey(q, r)
          PROVE  q = r
      <4>1. CASE q \in jobs[j].held /\ r \in jobs[j].held
        BY <3>2, <4>1 DEF OneInv, Carried
      <4>2. CASE q \notin jobs[j].held /\ r \notin jobs[j].held
        <5>1. PICK m \in Named(c), n \in Named(c) : /\ q = Row(g, m.slot, m.account, FALSE)
                                                    /\ r = Row(g, n.slot, n.account, FALSE)
          BY <2>3, <4>2
        <5>2. m.slot = n.slot
          BY <3>2, <5>1 DEF SameKey, Row
        <5>3. QED
          BY <2>2, <5>1, <5>2
      <4>3. \A x \in jobs'[j].held : x \in jobs[j].held \/ x.group = g
        BY <2>3 DEF Row
      <4>4. \A x \in jobs[j].held : x.group # g
        BY <2>1 DEF OneInv, Carried
      <4>5. QED
        BY <3>2, <4>1, <4>2, <4>3, <4>4 DEF SameKey
    <3>3. QED
      BY <2>3, <3>1, <3>2 DEF OneInv, Carried
  <2>8. QED
    BY <1>1, <2>5, <2>6, <2>7 DEF OneInv
<1>5. ASSUME NEW j \in Jobs, JobCommit(j)
      PROVE  OneInv'
  <2>1. \/ /\ rows' = rows \cup jobs[j].held
           /\ jobs' = [jobs EXCEPT ![j] = [@ EXCEPT !.status = "COMPLETED", !.held = {}]]
        \/ /\ rows' = rows
           /\ jobs' = [jobs EXCEPT ![j] = [@ EXCEPT !.status = "FAILED"]]
    BY <1>0, <1>5 DEF JobCommit
  <2>2. jobs[j] \in JobType /\ jobs[j].status = "RUNNING"
    BY <1>0, <1>5 DEF JobCommit
  <2>3. /\ \A k \in Jobs : /\ k # j => jobs'[k] = jobs[k]
                           /\ jobs'[k].groups = jobs[k].groups
                           /\ jobs'[k].done = jobs[k].done
                           /\ jobs'[k].held \subseteq jobs[k].held
        /\ jobs'[j].status \in {"COMPLETED", "FAILED"}
    <3>1. CASE jobs' = [jobs EXCEPT ![j] = [@ EXCEPT !.status = "COMPLETED", !.held = {}]]
      BY <1>0, <2>2, <3>1 DEF JobType
    <3>2. CASE jobs' = [jobs EXCEPT ![j] = [@ EXCEPT !.status = "FAILED"]]
      BY <1>0, <2>2, <3>2 DEF JobType
    <3>3. QED
      BY <2>1, <3>1, <3>2
  <2>4. rows \subseteq rows' /\ rows' \subseteq rows \cup jobs[j].held
    BY <2>1
  <2>5. \A q \in jobs[j].held : q.group \in jobs[j].groups
    BY DEF OneInv, Carried
  <2>6. OneBinding'
    BY <2>2, <2>4, <2>5 DEF OneInv, OneBinding, Vacant, Carried, SameKey
  <2>7. "deploy" \in kit.sagas
    BY <2>2 DEF Basics, Used
  <2>8. Unmade'
    BY <1>1, <2>7 DEF OneInv, Serial, Unmade, Basics, Used
  <2>9. Separated' /\ Carried'
    BY <2>3 DEF OneInv, Separated, Carried, Active
  <2>10. Vacant'
    BY <2>2, <2>3, <2>4, <2>5 DEF OneInv, Vacant, Separated, Active
  <2>11. Edited'
    BY <1>1, <2>2, <2>3, <2>4, <2>5 DEF OneInv, Edited, Active
  <2>12. QED
    BY <1>1, <2>6, <2>8, <2>9, <2>10, <2>11 DEF OneInv
<1>6. ASSUME NEW j \in Jobs, JobRollback(j)
      PROVE  OneInv'
  <2>1. \A k \in Jobs : /\ jobs'[k].status = jobs[k].status
                        /\ jobs'[k].groups = jobs[k].groups
                        /\ jobs'[k].done = jobs[k].done
                        /\ jobs'[k].held \subseteq jobs[k].held
    BY <1>0, <1>6 DEF JobRollback, JobType
  <2>2. rows' = rows
    BY <1>6 DEF JobRollback
  <2>3. OneBinding' /\ Unmade' /\ Vacant' /\ Carried'
    BY <1>1, <2>1, <2>2 DEF OneInv, OneBinding, Unmade, Vacant, Carried
  <2>4. Separated' /\ Edited'
    BY <1>1, <2>1, <2>2 DEF OneInv, Separated, Edited, Active
  <2>5. QED
    BY <1>1, <2>3, <2>4 DEF OneInv
<1>7. QED
  BY <1>2, <1>3, <1>4, <1>5, <1>6 DEF Deploying

LEMMA MappingOne ==
  ASSUME Basics, OneInv, Mapping, UNCHANGED others
  PROVE  OneInv'
<1> USE DEF others, scene
<1>0. UNCHANGED <<jobs, maker, kit>>
  BY DEF Mapping, MapLoad, MapCreate, MapStop, MapDelete, MapCommit, MapRestore, MapUndo
<1>1. OneBinding /\ rows \in SUBSET RowType /\ mapper \in {NoEdit} \cup Editing
  BY DEF OneInv, Basics, TypeInv, EditType
<1>2. /\ \A x \in rows : \E r \in rows : SameKey(x, r)
      /\ \A x, y \in rows : SameKey(x, y) => x = y
      /\ \A r \in rows : \E x \in rows : x.group = r.group
  BY <1>1 DEF OneBinding, SameKey
<1>3. mapper.phase # "idle" => mapper # NoEdit /\ mapper \in Editing
  BY <1>1 DEF NoEdit
<1>4. \/ maker' = NotMaking
      \/ maker # NotMaking /\ maker'.group = maker.group /\ maker'.slot = maker.slot
  BY <1>0
<1>5. ASSUME NEW g \in Groups, NEW desired \in SUBSET Slots, MapLoad(g, desired)
      PROVE  OneInv'
  <2>1. /\ ~Names(g) /\ Of(g) # {} /\ rows' = rows
        /\ mapper' = [NoEdit EXCEPT !.phase = "creating", !.group = g,
                        !.removed = {r \in Of(g) : r.slot \notin desired},
                        !.added = desired \ {r.slot : r \in Of(g)}]
    BY <1>5 DEF MapLoad
  <2>2. /\ mapper'.group = g /\ mapper'.made = {}
        /\ mapper'.added = desired \ {r.slot : r \in Of(g)}
    BY <2>1 DEF NoEdit
  <2>3. Edited'
    BY <1>0, <2>1, <2>2 DEF Edited, Names, Of, Active
  <2>4. QED
    BY <1>0, <2>1, <2>3
       DEF OneInv, OneBinding, Separated, Vacant, Carried, Unmade, Active
<1>6. CASE MapCreate
  <2>1. PICK c \in Creations(mapper.added) :
          /\ node' = Born(c)
          /\ mapper' = IF c.made = mapper.added
                       THEN [mapper EXCEPT !.phase = "stopping", !.made = Named(c)]
                       ELSE [mapper EXCEPT !.phase = "undoing", !.made = Named(c),
                                           !.removed = {}]
    BY <1>6 DEF MapCreate
  <2>2. mapper # NoEdit /\ mapper \in Editing /\ rows' = rows
    BY <1>3, <1>6 DEF MapCreate
  <2>3. /\ \A m, n \in Named(c) : m.slot = n.slot => m = n
        /\ \A n \in Named(c) : n.slot \in mapper.added
    <3>1. mapper.added \in SUBSET Slots /\ node \in Seq(States)
      BY <2>2 DEF Editing, Basics, TypeInv
    <3>2. c.made \subseteq mapper.added
      BY DEF Creations
    <3>3. QED
      BY <2>1, <3>1, <3>2, Births
  <2>4. /\ mapper'.made = Named(c) /\ mapper'.group = mapper.group
        /\ mapper'.added = mapper.added
    BY <2>1, <2>2 DEF Editing
  <2>5. Edited'
    BY <1>0, <2>2, <2>3, <2>4 DEF OneInv, Edited, Active
  <2>6. QED
    BY <1>0, <2>2, <2>5
       DEF OneInv, OneBinding, Separated, Vacant, Carried, Unmade, Active
<1>7. CASE MapStop \/ MapDelete
  <2>1. mapper # NoEdit /\ mapper \in Editing /\ rows' = rows
    BY <1>3, <1>7 DEF MapStop, MapDelete
  <2>2. /\ mapper'.made = mapper.made /\ mapper'.group = mapper.group
        /\ mapper'.added = mapper.added
    BY <1>7, <2>1 DEF MapStop, MapDelete, Editing
  <2>3. QED
    BY <1>0, <1>2, <1>4, <2>1, <2>2, OneKept
<1>8. CASE MapCommit
  <2>1. \/ /\ \E ids : rows' = Without(ids)
                 \cup {Row(mapper.group, n.slot, n.account, FALSE) : n \in mapper.made}
           /\ mapper' = NoEdit
        \/ rows' = rows /\ mapper' = [mapper EXCEPT !.phase = "restoring"]
    BY <1>8 DEF MapCommit
  <2>2. mapper # NoEdit /\ mapper \in Editing
    BY <1>3, <1>8 DEF MapCommit
  <2>3. CASE rows' = rows /\ mapper' = [mapper EXCEPT !.phase = "restoring"]
    <3>1. /\ mapper'.made = mapper.made /\ mapper'.group = mapper.group
          /\ mapper'.added = mapper.added
      BY <2>2, <2>3 DEF Editing
    <3>2. QED
      BY <1>0, <1>2, <1>4, <2>2, <2>3, <3>1, OneKept
  <2>4. CASE /\ mapper' = NoEdit
             /\ \E ids : rows' = Without(ids)
                   \cup {Row(mapper.group, n.slot, n.account, FALSE) : n \in mapper.made}
    <3> DEFINE New(n) == Row(mapper.group, n.slot, n.account, FALSE)
    <3>1. \A x \in rows' : x \in rows \/ \E n \in mapper.made : x = New(n)
      BY <2>4 DEF Without
    <3>2. \A n : New(n).group = mapper.group /\ New(n).slot = n.slot
      BY DEF Row
    <3> HIDE DEF New
    <3>3. /\ \A r \in rows : r.group = mapper.group => r.slot \notin mapper.added
          /\ \A n \in mapper.made : n.slot \in mapper.added
          /\ \A m, n \in mapper.made : m.slot = n.slot => m = n
          /\ \A j \in Jobs : Active(j) => mapper.group \notin jobs[j].groups
      BY <2>2 DEF OneInv, Edited
    <3>4. OneBinding'
      <4>1. SUFFICES ASSUME NEW x \in rows', NEW y \in rows', x.group = y.group, x.slot = y.slot
                     PROVE  x = y
        BY DEF OneBinding
      <4>2. CASE x \in rows /\ y \in rows
        BY <1>1, <4>1, <4>2 DEF OneBinding
      <4>3. CASE (\E n \in mapper.made : x = New(n)) /\ (\E n \in mapper.made : y = New(n))
        BY <3>2, <3>3, <4>1, <4>3
      <4>4. ~(x \in rows /\ \E n \in mapper.made : y = New(n))
              /\ ~(y \in rows /\ \E n \in mapper.made : x = New(n))
        BY <3>2, <3>3, <4>1
      <4>5. QED
        BY <3>1, <4>2, <4>3, <4>4
    <3>5. Vacant'
      BY <1>0, <3>1, <3>2, <3>3 DEF OneInv, Vacant, Active
    <3>6. maker = NotMaking
      BY <2>2 DEF Basics, Used, OneInv, Serial
    <3>7. QED
      BY <1>0, <2>4, <3>4, <3>5, <3>6
         DEF OneInv, Separated, Carried, Edited, Unmade, Active
  <2>5. QED
    BY <2>1, <2>3, <2>4
<1>9. CASE MapRestore
  <2>1. PICK r \in mapper.deleted :
          /\ mapper' = [mapper EXCEPT !.deleted = @ \ {r}, !.removed = @ \ {r}]
          /\ \/ rows' = rows
             \/ rows' = {IF q.id = r.id THEN [q EXCEPT !.account = Len(node')] ELSE q :
                           q \in rows}
    BY <1>9, Zenon DEF MapRestore
  <2>2. mapper # NoEdit /\ mapper \in Editing
    BY <1>3, <1>9 DEF MapRestore
  <2>3. /\ mapper'.made = mapper.made /\ mapper'.group = mapper.group
        /\ mapper'.added = mapper.added
    BY <2>1, <2>2 DEF Editing
  <2>4. /\ \A x \in rows' : \E q \in rows : SameKey(x, q)
        /\ \A x, y \in rows' : SameKey(x, y) => x = y
        /\ \A q \in rows : \E x \in rows' : x.group = q.group
    <3>1. CASE rows' = rows
      BY <1>2, <3>1
    <3>2. CASE rows' = {IF q.id = r.id THEN [q EXCEPT !.account = Len(node')] ELSE q : q \in rows}
      <4> DEFINE New(q) == IF q.id = r.id THEN [q EXCEPT !.account = Len(node')] ELSE q
      <4>1. \A q \in rows : SameKey(New(q), q)
        BY <1>1 DEF RowType, SameKey
      <4>2. rows' = {New(q) : q \in rows}
        BY <3>2
      <4> HIDE DEF New
      <4>3. QED
        BY <1>2, <4>1, <4>2 DEF SameKey
    <3>3. QED
      BY <2>1, <3>1, <3>2, Zenon
  <2>5. QED
    BY <1>0, <1>4, <2>2, <2>3, <2>4, OneKept
<1>10. CASE MapUndo
  BY <1>0, <1>2, <1>4, <1>10, OneKept DEF MapUndo
<1>11. QED
  BY <1>5, <1>6, <1>7, <1>8, <1>9, <1>10 DEF Mapping

LEMMA MakingOne ==
  ASSUME Basics, OneInv, Making, UNCHANGED others
  PROVE  OneInv'
<1> USE DEF others, scene
<1>0. UNCHANGED <<jobs, mapper, kit>>
  BY DEF Making, MakeCheck, MakeCreate, MakeInsert
<1>1. maker.phase # "idle" => maker # NotMaking
  BY DEF NotMaking
<1>2. ASSUME "make" \in kit.sagas
      PROVE  mapper = NoEdit /\ \A j \in Jobs : jobs[j].status = ""
  BY <1>2 DEF OneInv, Serial, Basics, Used
<1>3. ASSUME NEW g \in Groups, NEW s \in Slots, MakeCheck(g, s)
      PROVE  OneInv'
  <2>1. /\ rows' = rows /\ \A r \in rows : ~(r.group = g /\ r.slot = s)
        /\ maker' = [NotMaking EXCEPT !.phase = "creating", !.group = g, !.slot = s]
    BY <1>3 DEF MakeCheck, Of
  <2>2. maker'.group = g /\ maker'.slot = s
    BY <2>1 DEF NotMaking
  <2>3. Unmade'
    BY <2>1, <2>2 DEF Unmade
  <2>4. QED
    BY <1>0, <2>1, <2>3
       DEF OneInv, OneBinding, Separated, Vacant, Carried, Edited, Active
<1>4. CASE MakeCreate
  <2>1. /\ rows' = rows /\ maker.phase = "creating"
        /\ \/ maker' = NotMaking
           \/ maker' = [maker EXCEPT !.phase = "inserting", !.account = Len(node')]
    BY <1>4 DEF MakeCreate
  <2>2. maker # NotMaking /\ maker \in [phase : {"creating"}, group : Groups, slot : Slots,
                                        account : {0}]
    BY <1>1, <2>1 DEF Basics, TypeInv, MakeType, Inserting
  <2>3. maker' = NotMaking \/ (maker'.group = maker.group /\ maker'.slot = maker.slot)
    <3>1. CASE maker' = [maker EXCEPT !.phase = "inserting", !.account = Len(node')]
      BY <2>2, <3>1
    <3>2. QED
      BY <2>1, <3>1, Zenon
  <2>4. Unmade'
    BY <2>1, <2>2, <2>3 DEF OneInv, Unmade
  <2>5. QED
    BY <1>0, <2>1, <2>4
       DEF OneInv, OneBinding, Separated, Vacant, Carried, Edited, Active
<1>5. CASE MakeInsert
  <2>1. /\ maker # NotMaking /\ maker' = NotMaking
        /\ rows' \subseteq rows \cup {Row(maker.group, maker.slot, maker.account, FALSE)}
    BY <1>1, <1>5 DEF MakeInsert
  <2>2. /\ mapper = NoEdit /\ \A j \in Jobs : jobs[j].status = ""
    BY <1>2, <2>1 DEF Basics, Used
  <2>3. /\ Row(maker.group, maker.slot, maker.account, FALSE).group = maker.group
        /\ Row(maker.group, maker.slot, maker.account, FALSE).slot = maker.slot
    BY DEF Row
  <2>4. OneBinding'
    BY <2>1, <2>3 DEF OneInv, OneBinding, Unmade
  <2>5. QED
    BY <1>0, <2>1, <2>2, <2>4
       DEF OneInv, Separated, Vacant, Carried, Edited, Unmade, Active
<1>6. QED
  BY <1>3, <1>4, <1>5 DEF Making

LEMMA OtherOne ==
  ASSUME Basics, OneInv,
         \/ RequestDeletion \/ DeletionSteps \/ BuildSteps \/ \E r \in rows : Plan(r)
         \/ \E h \in history : Clean(h) \/ CleanFails(h)
         \/ \E x \in present : Vanish(x)
         \/ \E a \in sweeper : Sweep(a)
         \/ UNCHANGED vars
  PROVE  OneInv'
<1> USE DEF others, bindVars, bindUnchanged
<1>1. UNCHANGED <<jobs, mapper, maker, kit>>
  BY DEF RequestDeletion, DeletionSteps, DeletionLoad, DeletionCall, DeletionRemove, DeletionFinish,
         Plan, BuildSteps, Enqueue, BuildLoad, BuildCreate, BuildStop, BuildStart, BuildSwitch,
         BuildCommit, BuildUndo, BuildRetire, Clean, CleanFails, Vanish, Sweep, vars
<1>2. OneBinding /\ rows \in SUBSET RowType
  BY DEF OneInv, Basics, TypeInv
<1>3. /\ \A x \in rows : \E r \in rows : SameKey(x, r)
      /\ \A x, y \in rows : SameKey(x, y) => x = y
      /\ \A r \in rows : \E x \in rows : x.group = r.group
  BY <1>2 DEF OneBinding, SameKey
<1>4. CASE UNCHANGED rows
  BY <1>1, <1>3, <1>4, OneKept
<1>5. CASE RequestDeletion
  <2>1. rows' = {[r EXCEPT !.on = FALSE] : r \in rows} /\ mapper = NoEdit
    BY <1>5 DEF RequestDeletion
  <2>2. \A r \in rows : SameKey([r EXCEPT !.on = FALSE], r)
    BY <1>2 DEF SameKey, RowType
  <2>3. /\ \A x \in rows' : \E r \in rows : SameKey(x, r)
        /\ \A x, y \in rows' : SameKey(x, y) => x = y
    <3> DEFINE New(r) == [r EXCEPT !.on = FALSE]
    <3>1. rows' = {New(r) : r \in rows} /\ \A r \in rows : SameKey(New(r), r)
      BY <2>1, <2>2
    <3> HIDE DEF New
    <3>2. QED
      BY <1>3, <3>1 DEF SameKey
  <2>4. QED
    BY <1>1, <2>1, <2>3, OneKept
<1>6. CASE DeletionRemove
  <2>1. rows' \subseteq rows
    BY <1>6 DEF DeletionRemove, Without
  <2>2. deleter.phase = "removing" => deleter # NoDeletion
    BY DEF NoDeletion
  <2>3. mapper = NoEdit
    BY <1>6, <2>2 DEF DeletionRemove, Basics, PhaseInv
  <2>4. QED
    BY <1>1, <1>3, <2>1, <2>3, OneKept
<1>7. CASE BuildCommit
  <2>1. \/ rows' = rows
        \/ \E mine \in SUBSET rows :
             rows' = (rows \ mine)
                       \cup {[r EXCEPT !.account = builder.new, !.on = TRUE] : r \in mine}
    BY <1>7, Zenon DEF BuildCommit
  <2>2. \A r \in rows : SameKey([r EXCEPT !.account = builder.new, !.on = TRUE], r)
    BY <1>2 DEF SameKey, RowType
  <2>3. ASSUME NEW mine \in SUBSET rows,
               rows' = (rows \ mine)
                         \cup {[r EXCEPT !.account = builder.new, !.on = TRUE] : r \in mine}
        PROVE  /\ \A x \in rows' : \E r \in rows : SameKey(x, r)
               /\ \A x, y \in rows' : SameKey(x, y) => x = y
               /\ \A r \in rows : \E x \in rows' : x.group = r.group
    <3> DEFINE New(r) == [r EXCEPT !.account = builder.new, !.on = TRUE]
    <3>1. /\ \A x \in rows' : x \in rows \ mine \/ \E r \in mine : x = New(r)
          /\ \A r \in mine : New(r) \in rows'
          /\ \A r \in rows \ mine : r \in rows'
      BY <2>3
    <3>2. \A r \in rows : SameKey(New(r), r)
      BY <2>2
    <3> HIDE DEF New
    <3>3. QED
      BY <1>3, <3>1, <3>2 DEF SameKey
  <2>4. QED
    BY <1>1, <1>3, <2>1, <2>3, OneKept
<1>8. ASSUME NEW x \in present, Vanish(x)
      PROVE  OneInv'
  <2>1. rows' \subseteq rows /\ "sweep" \in kit.sagas
    BY <1>8 DEF Vanish, Requested
  <2>2. mapper = NoEdit \/ "deploy" \notin kit.sagas
    BY <2>1 DEF OneInv, Serial, Basics, Used
  <2>3. QED
    BY <1>1, <1>3, <2>1, <2>2, OneKept
<1>9. QED
  BY <1>4, <1>5, <1>6, <1>7, <1>8
     DEF DeletionSteps, DeletionLoad, DeletionCall, DeletionFinish,
         Plan, BuildSteps, Enqueue, BuildLoad, BuildCreate, BuildStop, BuildStart, BuildSwitch,
         BuildUndo, BuildRetire, Clean, CleanFails, Sweep, vars

LEMMA RestartOne ==
  ASSUME Basics, OneInv, Restart
  PROVE  OneInv'
<1>1. UNCHANGED <<rows, kit>> /\ mapper' = NoEdit /\ maker' = NotMaking
  BY DEF Restart
<1>2. \A j \in Jobs : /\ jobs'[j].held = {}
                      /\ jobs'[j].status \notin {"QUEUED", "RUNNING"}
                      /\ jobs'[j].done = jobs[j].done /\ jobs'[j].groups = jobs[j].groups
  <2>1. SUFFICES ASSUME NEW j \in Jobs
                 PROVE  /\ jobs'[j].held = {}
                        /\ jobs'[j].status \notin {"QUEUED", "RUNNING"}
                        /\ jobs'[j].done = jobs[j].done /\ jobs'[j].groups = jobs[j].groups
    OBVIOUS
  <2>2. jobs'[j] = [jobs[j] EXCEPT !.status = IF Active(j) THEN "FAILED" ELSE @,
                                   !.held = {}, !.runs = FALSE]
    BY DEF Restart, JobsAfterRestart
  <2>3. jobs[j] \in JobType
    BY DEF Basics, TypeInv
  <2>4. QED
    BY <2>2, <2>3 DEF JobType, Active
<1>3. Separated' /\ Vacant' /\ Carried'
  BY <1>1, <1>2 DEF OneInv, Separated, Vacant, Carried, Active
<1>4. QED
  BY <1>1, <1>3 DEF OneInv, OneBinding, Edited, Unmade

\* No group of the source is bound twice to one slot, however the deployments, the
\* edits of a mapping, the deletion and the recreations of the source interleave, as
\* long as no two requests for several groups overlap, no account is made by hand
\* beside them and no group vanishes between them: the edit keeps to the slots its
\* group is not bound to, a running job to groups that have no row, and the lock and
\* the index keep the two apart (mappings.go, deployments.go).
THEOREM OneBindingPerSlot ==
  ASSUME \A k \in Kits : Serial(k)
  PROVE  Spec => []OneBinding
<1>1. Init => OneInv
  BY OneInit
<1>2. Basics /\ OneInv /\ [Next]_vars => OneInv'
  BY DeployingOne, MappingOne, MakingOne, OtherOne, RestartOne DEF Next, Binding
<1>3. OneInv => OneBinding
  BY DEF OneInv
<1>4. QED
  BY <1>1, <1>2, <1>3, BasicsInvariant, PTL DEF Spec

-------------------------------------------------------------------------------
(* Whose an account is.                                                    *)

Held == [j \in Jobs |-> AccountsOf(jobs[j].held)]

Made == AccountsOf(mapper.made)

InMaking == IF maker.phase = "inserting" THEN {maker.account} ELSE {}

InBuilding ==
  IF builder.phase \in {"stopping", "starting", "committing", "undoing"} THEN {builder.new} ELSE {}

InRetiring == IF builder.phase = "retiring" THEN {builder.old} ELSE {}

Bound == AccountsOf(rows)

Ids == {r.id : r \in rows}

Retiring == sweeper \cup AccountsOf(history) \cup InRetiring

(* The accounts that some saga may delete or bind: those pending must not  *)
(* be among them.  A row's id is the number of its first account.          *)
Spoken ==
  Bound \cup Ids \cup Retiring \cup AccountsOf(mapper.removed) \cup AccountsOf(deleter.todo)

Disjoint(H, M, K, B, S) ==
  /\ \A j, k \in Jobs : j # k => H[j] \cap H[k] = {}
  /\ \A j \in Jobs : H[j] \cap (M \cup K \cup B \cup S) = {}
  /\ M \cap (K \cup B \cup S) = {}
  /\ K \cap (B \cup S) = {}
  /\ B \cap S = {}

Apart == Disjoint(Held, Made, InMaking, InBuilding, Spoken) /\ Bound \cap Retiring = {}

Alive ==
  /\ \A j \in Jobs : \A a \in Held[j] : node[a] # "gone"
  /\ \A a \in Made \cup InMaking \cup InBuilding : node[a] # "gone"

Unique ==
  /\ \A q, r \in rows : q.id = r.id => q = r
  /\ \A q, r \in rows : q.account = r.account => q = r
  /\ \A j \in Jobs : \A q, r \in jobs[j].held : q.account = r.account => q = r
  /\ \A j \in Jobs : \A q \in jobs[j].held : q.id = q.account
  /\ \A m, n \in mapper.made : m.account = n.account => m = n
  /\ \A r \in rows, q \in mapper.removed : r.account = q.account => r.id = q.id

Owned == Apart /\ Alive /\ Unique

LEMMA InSpoken ==
  /\ Bound \subseteq Spoken /\ Ids \subseteq Spoken
  /\ sweeper \subseteq Retiring /\ AccountsOf(history) \subseteq Retiring
  /\ InRetiring \subseteq Retiring /\ Retiring \subseteq Spoken
  /\ AccountsOf(mapper.removed) \subseteq Spoken /\ AccountsOf(deleter.todo) \subseteq Spoken
BY DEF Spoken, Retiring

LEMMA HandsAreAccounts ==
  ASSUME TypeInv
  PROVE  /\ \A j \in Jobs : Held[j] \in SUBSET Accounts
         /\ Made \in SUBSET Accounts
         /\ InMaking \in SUBSET Accounts
         /\ InBuilding \in SUBSET Accounts
         /\ Bound \in SUBSET Accounts
         /\ Ids \in SUBSET Accounts
         /\ InRetiring \in SUBSET Accounts
         /\ Retiring \in SUBSET Accounts
         /\ Spoken \in SUBSET Accounts
<1>1. \A j \in Jobs : Held[j] \in SUBSET Accounts
  <2>1. \A j \in Jobs : jobs[j].held \in SUBSET RowType
    BY DEF TypeInv, JobType
  <2>2. QED
    BY <2>1, AccountsInType DEF Held
<1>2. Made \in SUBSET Accounts
  BY DEF Made, TypeInv, EditType, Editing, NoEdit, AccountsOf
<1>3. InMaking \in SUBSET Accounts
  BY DEF InMaking, TypeInv, MakeType, Inserting, NotMaking
<1>4. InBuilding \in SUBSET Accounts /\ InRetiring \in SUBSET Accounts
  BY DEF InBuilding, InRetiring, TypeInv, BuildType, Resting, Planning, Creating, Replacing
<1>5. Bound \in SUBSET Accounts /\ Ids \in SUBSET Accounts
  BY AccountsInType DEF Bound, Ids, TypeInv, RowType
<1>6. AccountsOf(mapper.removed) \in SUBSET Accounts
  <2>1. mapper.removed \in SUBSET RowType
    BY DEF TypeInv, EditType, Editing, NoEdit
  <2>2. QED
    BY <2>1, AccountsInType
<1>7. AccountsOf(deleter.todo) \in SUBSET Accounts
  <2>1. deleter.todo \in SUBSET RowType
    BY DEF TypeInv, DeletionType, Deletion, NoDeletion
  <2>2. QED
    BY <2>1, AccountsInType
<1>8. Retiring \in SUBSET Accounts
  BY <1>4 DEF Retiring, TypeInv, RetiredType, AccountsOf
<1>9. QED
  BY <1>1, <1>2, <1>3, <1>4, <1>5, <1>6, <1>7, <1>8 DEF Spoken

(* What a step leaves alone. *)
LEMMA HandsKept ==
  /\ UNCHANGED jobs => Held' = Held
  /\ UNCHANGED mapper => Made' = Made /\ AccountsOf(mapper.removed)' = AccountsOf(mapper.removed)
  /\ UNCHANGED maker => InMaking' = InMaking
  /\ UNCHANGED builder => InBuilding' = InBuilding /\ InRetiring' = InRetiring
  /\ UNCHANGED rows => Bound' = Bound /\ Ids' = Ids
  /\ UNCHANGED <<builder, history, sweeper>> => Retiring' = Retiring
BY DEF Held, Made, InMaking, InBuilding, InRetiring, Bound, Ids, Retiring, AccountsOf

LEMMA AccountsGrow ==
  \A S, T : S \subseteq T => AccountsOf(S) \subseteq AccountsOf(T)
BY DEF AccountsOf

(* A step that gives nobody an account, or only the rows one that is new,  *)
(* and deletes none that is pending after it.                              *)
LEMMA HandsShrink ==
  ASSUME TypeInv, Apart, Alive, NEW G, NodeStep(G),
         \A j \in Jobs : Held'[j] \subseteq Held[j],
         Made' \subseteq Made, InMaking' \subseteq InMaking, InBuilding' \subseteq InBuilding,
         Spoken' \subseteq Spoken \cup (Accounts' \ Accounts),
         Bound' \cap Retiring' = {},
         \A j \in Jobs : G \cap Held'[j] = {},
         G \cap (Made' \cup InMaking' \cup InBuilding') = {}
  PROVE  Apart' /\ Alive'
<1>1. Disjoint(Held', Made', InMaking', InBuilding', Spoken')
  BY HandsAreAccounts DEF Apart, Disjoint
<1>2. Apart'
  BY <1>1 DEF Apart
<1>3. Alive'
  <2>1. ASSUME NEW a, (\E j \in Jobs : a \in Held'[j]) \/ a \in Made' \cup InMaking' \cup InBuilding'
        PROVE  node'[a] # "gone"
    <3>1. a \in Accounts /\ node[a] # "gone" /\ a \notin G
      BY <2>1, HandsAreAccounts DEF Alive
    <3>2. QED
      BY <3>1 DEF NodeStep
  <2>2. QED
    BY <2>1 DEF Alive
<1>4. QED
  BY <1>2, <1>3

(* Rows that go and accounts in hand that go leave the others as they are. *)
LEMMA OwnedKept ==
  ASSUME TypeInv, Owned, NEW G, NodeStep(G),
         rows' \subseteq rows,
         \A j \in Jobs : jobs'[j].held \subseteq jobs[j].held,
         mapper'.made \subseteq mapper.made, mapper'.removed \subseteq mapper.removed,
         InMaking' \subseteq InMaking, InBuilding' \subseteq InBuilding,
         Retiring' \subseteq Retiring,
         AccountsOf(deleter'.todo) \subseteq Spoken,
         \A j \in Jobs : G \cap Held'[j] = {},
         G \cap (Made' \cup InMaking' \cup InBuilding') = {}
  PROVE  Owned'
<1>1. Bound' \subseteq Bound /\ Ids' \subseteq Ids
  BY AccountsGrow DEF Bound, Ids
<1>2. \A j \in Jobs : Held'[j] \subseteq Held[j]
  BY AccountsGrow DEF Held
<1>3. Made' \subseteq Made
  BY AccountsGrow DEF Made
<1>4. AccountsOf(mapper'.removed) \subseteq AccountsOf(mapper.removed)
  BY AccountsGrow
<1>5. Spoken' \subseteq Spoken
  BY <1>1, <1>4, InSpoken DEF Spoken
<1>6. Bound' \cap Retiring' = {}
  BY <1>1 DEF Owned, Apart
<1>7. Apart' /\ Alive'
  BY <1>2, <1>3, <1>5, <1>6, HandsShrink DEF Owned
<1>8. Unique'
  BY DEF Owned, Unique
<1>9. QED
  BY <1>7, <1>8 DEF Owned

LEMMA OwnedInit ==
  Init => Owned
<1> SUFFICES ASSUME Init PROVE Owned
  OBVIOUS
<1>1. /\ mapper = NoEdit /\ maker = NotMaking /\ deleter = NoDeletion /\ builder = NotBuilding
      /\ sweeper = {} /\ history = {}
  BY DEF Init, BindInit
<1>2. \A j \in Jobs : jobs[j].held = {}
  <2>1. NoJob.held = {}
    BY DEF NoJob
  <2>2. QED
    BY <2>1 DEF Init, BindInit
<1>3. /\ \A j \in Jobs : Held[j] = {}
      /\ Made = {} /\ InMaking = {} /\ InBuilding = {} /\ Retiring = {}
  <2>1. \A j \in Jobs : Held[j] = {}
    BY <1>2 DEF Held, AccountsOf
  <2>2. Made = {} /\ InMaking = {}
    BY <1>1 DEF Made, InMaking, AccountsOf, NoEdit, NotMaking
  <2>3. InBuilding = {} /\ Retiring = {}
    BY <1>1 DEF InBuilding, Retiring, InRetiring, AccountsOf, NotBuilding
  <2>4. QED
    BY <2>1, <2>2, <2>3
<1>4. Apart /\ Alive
  BY <1>3 DEF Apart, Alive, Disjoint
<1>5. PICK g \in Groups, ss \in SUBSET Slots :
        rows = {Row(g, n.slot, n.account, TRUE) : n \in Numbered(ss, 0)}
  BY DEF Init, BindInit
<1>6. \A x, y \in Numbered(ss, 0) : x.account = y.account => x = y
  BY Numbers
<1>7. \A n : /\ Row(g, n.slot, n.account, TRUE).id = n.account
             /\ Row(g, n.slot, n.account, TRUE).account = n.account
  BY DEF Row
<1>8. \A q, r \in rows : q.id = r.id \/ q.account = r.account => q = r
  <2>1. SUFFICES ASSUME NEW q \in rows, NEW r \in rows, q.id = r.id \/ q.account = r.account
                 PROVE  q = r
    OBVIOUS
  <2>2. PICK m \in Numbered(ss, 0), n \in Numbered(ss, 0) :
          q = Row(g, m.slot, m.account, TRUE) /\ r = Row(g, n.slot, n.account, TRUE)
    BY <1>5
  <2>3. m.account = n.account
    BY <1>7, <2>1, <2>2
  <2>4. QED
    BY <1>6, <2>2, <2>3
<1>9. mapper.made = {} /\ mapper.removed = {}
  BY <1>1 DEF NoEdit
<1>10. Unique
  BY <1>2, <1>8, <1>9 DEF Unique
<1>11. QED
  BY <1>4, <1>10 DEF Owned

LEMMA DeployingOwned ==
  ASSUME Basics, Owned, Deploying, UNCHANGED others
  PROVE  Owned'
<1> USE DEF others, scene, Basics
<1>0. jobs \in [Jobs -> JobType] /\ \A k \in Jobs : jobs[k] \in JobType
  BY DEF TypeInv
<1>1. UNCHANGED <<mapper, maker, history, builder, deleter, sweeper>>
  BY DEF Deploying, Submit, JobStart, JobGroup, JobCommit, JobRollback
<1>2. /\ Made' = Made /\ InMaking' = InMaking /\ InBuilding' = InBuilding
      /\ Retiring' = Retiring /\ AccountsOf(deleter'.todo) \subseteq Spoken
  BY <1>1, HandsKept, InSpoken
<1>3. ASSUME NEW j \in Jobs,
             \/ \E gs \in SUBSET Groups \ {{}}, ss \in SUBSET Slots \ {{}} : Submit(j, gs, ss)
             \/ JobStart(j)
      PROVE  Owned'
  <2>1. \A k \in Jobs : jobs'[k].held \subseteq jobs[k].held
    <3>1. CASE \E gs, ss : Submit(j, gs, ss)
      BY <1>0, <3>1 DEF Submit, NoJob
    <3>2. CASE JobStart(j)
      <4>1. PICK status : jobs' = [jobs EXCEPT ![j].status = status]
        BY <3>2 DEF JobStart
      <4>2. QED
        BY <1>0, <4>1 DEF JobType
    <3>3. QED
      BY <1>3, <3>1, <3>2
  <2>2. UNCHANGED <<node, rows>>
    BY <1>3 DEF Submit, JobStart
  <2>3. NodeStep({})
    BY <2>2, NodeStays DEF TypeInv
  <2>4. QED
    BY <1>1, <1>2, <2>1, <2>2, <2>3, OwnedKept
<1>4. ASSUME NEW j \in Jobs, JobGroup(j)
      PROVE  Owned'
  <2>1. PICK g \in jobs[j].groups \ jobs[j].done, c \in Creations(jobs[j].slots) :
          /\ node' = Born(c)
          /\ jobs' = [jobs EXCEPT
               ![j].status = IF c.made = jobs[j].slots THEN @ ELSE "FAILED",
               ![j].done   = @ \cup {g},
               ![j].held   = @ \cup {Row(g, n.slot, n.account, FALSE) : n \in Named(c)}]
    BY <1>4 DEF JobGroup
  <2>2. /\ NodeStep({})
        /\ Named(c) \in SUBSET [slot : Slots, account : Accounts' \ Accounts]
        /\ \A m, n \in Named(c) : m.account = n.account => m = n
    <3>1. jobs[j].slots \in SUBSET Slots
      BY <1>0 DEF JobType
    <3>2. QED
      BY <2>1, <3>1, Births DEF TypeInv
  <2> DEFINE new == {Row(g, n.slot, n.account, FALSE) : n \in Named(c)}
  <2>3. /\ \A k \in Jobs : k # j => jobs'[k] = jobs[k]
        /\ jobs'[j].held = jobs[j].held \cup new
    BY <1>0, <2>1 DEF JobType
  <2>4. /\ \A q \in new : q.account \in Accounts' \ Accounts /\ q.id = q.account
        /\ \A q, r \in new : q.account = r.account => q = r
    <3> DEFINE New(n) == Row(g, n.slot, n.account, FALSE)
    <3>1. \A n : New(n).account = n.account /\ New(n).id = n.account
      BY DEF Row
    <3>2. \A q \in new : \E n \in Named(c) : q = New(n)
      OBVIOUS
    <3> HIDE DEF new, New
    <3>3. \A n \in Named(c) : n.account \in Accounts' \ Accounts
      BY <2>2
    <3>4. QED
      BY <2>2, <3>1, <3>2, <3>3
  <2> HIDE DEF new
  <2>5. rows' = rows
    BY <1>4 DEF JobGroup
  <2>6. Spoken' = Spoken
    BY <1>1, <2>5, HandsKept DEF Spoken
  <2>7. /\ \A k \in Jobs : k # j => Held'[k] = Held[k]
        /\ Held'[j] \subseteq Held[j] \cup (Accounts' \ Accounts)
    BY <2>3, <2>4 DEF Held, AccountsOf
  <2>8. Apart'
    <3>1. Disjoint(Held', Made, InMaking, InBuilding, Spoken)
      BY <2>7, HandsAreAccounts DEF Owned, Apart, Disjoint
    <3>2. QED
      BY <1>2, <2>5, <2>6, <3>1, HandsKept DEF Owned, Apart
  <2>9. Alive'
    BY <1>2, <2>2, <2>7, HandsAreAccounts DEF Owned, Alive, NodeStep
  <2>10. Unique'
    <3>1. \A q \in jobs[j].held : q.account \in Accounts
      BY <1>0 DEF JobType, RowType
    <3>2. /\ \A q, r \in jobs'[j].held : q.account = r.account => q = r
          /\ \A q \in jobs'[j].held : q.id = q.account
      BY <2>3, <2>4, <3>1 DEF Owned, Unique
    <3>3. QED
      BY <1>1, <2>3, <2>5, <3>2 DEF Owned, Unique
  <2>11. QED
    BY <2>8, <2>9, <2>10 DEF Owned
<1>5. ASSUME NEW j \in Jobs, JobCommit(j)
      PROVE  Owned'
  <2>1. \/ /\ rows' = rows \cup jobs[j].held
           /\ jobs' = [jobs EXCEPT ![j] = [@ EXCEPT !.status = "COMPLETED", !.held = {}]]
        \/ /\ rows' = rows
           /\ jobs' = [jobs EXCEPT ![j] = [@ EXCEPT !.status = "FAILED"]]
    BY <1>0, <1>5 DEF JobCommit
  <2>2. node' = node
    BY <1>5 DEF JobCommit
  <2>3. NodeStep({})
    BY <2>2, NodeStays DEF TypeInv
  <2>4. CASE /\ rows' = rows
             /\ jobs' = [jobs EXCEPT ![j] = [@ EXCEPT !.status = "FAILED"]]
    <3>1. \A k \in Jobs : jobs'[k].held \subseteq jobs[k].held
      BY <1>0, <2>4 DEF JobType
    <3>2. QED
      BY <1>1, <1>2, <2>3, <2>4, <3>1, OwnedKept
  <2>5. CASE /\ rows' = rows \cup jobs[j].held
             /\ jobs' = [jobs EXCEPT ![j] = [@ EXCEPT !.status = "COMPLETED", !.held = {}]]
    <3>1. /\ \A k \in Jobs : k # j => jobs'[k].held = jobs[k].held
          /\ jobs'[j].held = {}
      BY <1>0, <2>5 DEF JobType
    <3>2. Bound' = Bound \cup Held[j] /\ Ids' = Ids \cup Held[j]
      BY <2>5 DEF Bound, Ids, Held, AccountsOf, Owned, Unique
    <3>3. /\ \A k \in Jobs : k # j => Held'[k] = Held[k]
          /\ Held'[j] = {}
      BY <3>1 DEF Held, AccountsOf
    <3>4. Spoken' = Spoken \cup Held[j]
      BY <1>1, <1>2, <3>2, HandsKept DEF Spoken
    <3>5. Apart'
      <4>1. Disjoint(Held', Made', InMaking', InBuilding', Spoken')
        BY <1>2, <3>3, <3>4 DEF Owned, Apart, Disjoint
      <4>2. Bound' \cap Retiring' = {}
        BY <1>2, <3>2, InSpoken DEF Owned, Apart, Disjoint
      <4>3. QED
        BY <4>1, <4>2 DEF Apart
    <3>6. Alive'
      BY <1>2, <2>2, <3>3 DEF Owned, Alive
    <3>7. Unique'
      <4>1. \A q \in jobs[j].held : /\ q.account \in Held[j] /\ q.id = q.account
                                    /\ q.account \notin Bound \cup Ids \cup AccountsOf(mapper.removed)
        BY InSpoken DEF Held, AccountsOf, Owned, Unique, Apart, Disjoint
      <4>2. \A r \in rows : r.account \in Bound /\ r.id \in Ids
        BY DEF Bound, Ids, AccountsOf
      <4>3. \A q \in mapper.removed : q.account \in AccountsOf(mapper.removed)
        BY DEF AccountsOf
      <4>4. /\ \A q, r \in rows' : q.id = r.id => q = r
            /\ \A q, r \in rows' : q.account = r.account => q = r
        BY <2>5, <4>1, <4>2 DEF Owned, Unique
      <4>5. \A r \in rows', q \in mapper.removed : r.account = q.account => r.id = q.id
        BY <2>5, <4>1, <4>3 DEF Owned, Unique
      <4>6. QED
        BY <1>1, <3>1, <4>4, <4>5 DEF Owned, Unique
    <3>8. QED
      BY <3>5, <3>6, <3>7 DEF Owned
  <2>6. QED
    BY <2>1, <2>4, <2>5
<1>6. ASSUME NEW j \in Jobs, JobRollback(j)
      PROVE  Owned'
  <2>1. PICK kept : node' = With(AccountsOf(jobs[j].held) \ kept, "gone")
    BY <1>6 DEF JobRollback, RolledBack
  <2> DEFINE G == AccountsOf(jobs[j].held) \ kept
  <2>2. G \subseteq Held[j]
    BY DEF Held
  <2>3. NodeStep(G)
    BY <2>1, NodeDeletes DEF TypeInv
  <2> HIDE DEF G
  <2>4. /\ \A k \in Jobs : k # j => jobs'[k].held = jobs[k].held
        /\ jobs'[j].held = {} /\ rows' = rows
    BY <1>0, <1>6 DEF JobRollback, JobType
  <2>5. /\ \A k \in Jobs : k # j => Held'[k] = Held[k]
        /\ Held'[j] = {}
    BY <2>4 DEF Held, AccountsOf
  <2>6. /\ \A k \in Jobs : G \cap Held'[k] = {}
        /\ G \cap (Made' \cup InMaking' \cup InBuilding') = {}
    BY <1>2, <2>2, <2>5 DEF Owned, Apart, Disjoint
  <2>7. QED
    BY <1>1, <1>2, <2>3, <2>4, <2>6, OwnedKept
<1>7. QED
  BY <1>3, <1>4, <1>5, <1>6 DEF Deploying

LEMMA MappingOwned ==
  ASSUME Basics, Owned, Mapping, UNCHANGED others
  PROVE  Owned'
<1> USE DEF others, scene, Basics
<1>0. mapper \in {NoEdit} \cup Editing
  BY DEF TypeInv, EditType
<1>1. UNCHANGED <<jobs, maker, builder, deleter, sweeper>>
  BY DEF Mapping, MapLoad, MapCreate, MapStop, MapDelete, MapCommit, MapRestore, MapUndo
<1>2. /\ Held' = Held /\ InMaking' = InMaking /\ InBuilding' = InBuilding
      /\ InRetiring' = InRetiring /\ AccountsOf(deleter'.todo) \subseteq Spoken
      /\ \A j \in Jobs : jobs'[j].held \subseteq jobs[j].held
  BY <1>1, HandsKept, InSpoken
<1>3. history' \subseteq history
  BY DEF Mapping, MapLoad, MapCreate, MapStop, MapDelete, MapCommit, MapRestore, MapUndo,
         Forgetting
<1>4. Retiring' \subseteq Retiring
  BY <1>1, <1>2, <1>3, AccountsGrow DEF Retiring
<1>5. mapper.phase # "idle" => mapper \in Editing
  BY <1>0 DEF NoEdit
<1>6. Disjoint(Held, Made, InMaking, InBuilding, Spoken)
  BY DEF Owned, Apart
<1>7. ASSUME NEW g \in Groups, NEW desired \in SUBSET Slots, MapLoad(g, desired)
      PROVE  Owned'
  <2>1. /\ mapper' = [NoEdit EXCEPT !.phase = "creating", !.group = g,
                        !.removed = {r \in Of(g) : r.slot \notin desired},
                        !.added = desired \ {r.slot : r \in Of(g)}]
        /\ UNCHANGED <<node, rows>>
    BY <1>7 DEF MapLoad
  <2>2. mapper'.made = {} /\ mapper'.removed \subseteq rows
    BY <2>1 DEF NoEdit, Of
  <2>3. Made' = {} /\ AccountsOf(mapper'.removed) \subseteq Bound
    BY <2>2, AccountsGrow DEF Made, AccountsOf, Bound
  <2>4. Bound' = Bound /\ Ids' = Ids
    BY <2>1, HandsKept
  <2>5. Spoken' \subseteq Spoken
    BY <1>1, <1>4, <2>3, <2>4, InSpoken DEF Spoken
  <2>6. NodeStep({})
    BY <2>1, NodeStays DEF TypeInv
  <2>7. Bound' \cap Retiring' = {}
    BY <1>4, <2>4 DEF Owned, Apart
  <2>8. Apart' /\ Alive'
    BY <1>2, <2>3, <2>5, <2>6, <2>7, HandsShrink DEF Owned
  <2>9. Unique'
    BY <1>1, <2>1, <2>2 DEF Owned, Unique
  <2>10. QED
    BY <2>8, <2>9 DEF Owned
<1>8. CASE MapCreate
  <2>1. PICK c \in Creations(mapper.added) :
          /\ node' = Born(c)
          /\ mapper' = IF c.made = mapper.added
                       THEN [mapper EXCEPT !.phase = "stopping", !.made = Named(c)]
                       ELSE [mapper EXCEPT !.phase = "undoing", !.made = Named(c),
                                           !.removed = {}]
    BY <1>8 DEF MapCreate
  <2>2. mapper \in Editing /\ rows' = rows
    BY <1>5, <1>8 DEF MapCreate
  <2>3. /\ NodeStep({})
        /\ Named(c) \in SUBSET [slot : Slots, account : Accounts' \ Accounts]
        /\ \A m, n \in Named(c) : m.account = n.account => m = n
    <3>1. mapper.added \in SUBSET Slots
      BY <2>2 DEF Editing
    <3>2. QED
      BY <2>1, <3>1, Births DEF TypeInv
  <2>4. mapper'.made = Named(c) /\ mapper'.removed \subseteq mapper.removed
    BY <2>1, <2>2 DEF Editing
  <2>5. Made' \subseteq Accounts' \ Accounts
    BY <2>3, <2>4 DEF Made, AccountsOf
  <2>6. Bound' = Bound /\ Ids' = Ids
    BY <2>2, HandsKept
  <2>7. AccountsOf(mapper'.removed) \subseteq AccountsOf(mapper.removed)
    BY <2>4, AccountsGrow
  <2>8. Spoken' \subseteq Spoken
    BY <1>1, <1>4, <2>6, <2>7, InSpoken DEF Spoken
  <2>9. Apart'
    <3>1. Disjoint(Held, Made', InMaking, InBuilding, Spoken')
      BY <1>6, <2>5, <2>8, HandsAreAccounts DEF Disjoint
    <3>2. Bound' \cap Retiring' = {}
      BY <1>4, <2>6 DEF Owned, Apart
    <3>3. QED
      BY <1>2, <3>1, <3>2 DEF Apart
  <2>10. Alive'
    BY <1>2, <2>3, <2>5, HandsAreAccounts DEF Owned, Alive, NodeStep
  <2>11. Unique'
    BY <1>1, <2>2, <2>3, <2>4 DEF Owned, Unique
  <2>12. QED
    BY <2>9, <2>10, <2>11 DEF Owned
<1>9. CASE MapStop
  <2>1. mapper \in Editing /\ rows' = rows
    BY <1>5, <1>9 DEF MapStop
  <2>2. NodeStep({})
    <3>1. \E as : node' = With(as, "stopped") /\ \A a \in as : ~Gone(a)
      BY <1>9 DEF MapStop
    <3>2. QED
      BY <3>1, NodeSwitches DEF TypeInv
  <2>3. mapper'.made = mapper.made /\ mapper'.removed = mapper.removed
    BY <1>9, <2>1 DEF MapStop, Editing
  <2>4. QED
    BY <1>2, <1>4, <2>1, <2>2, <2>3, OwnedKept
<1>10. CASE MapDelete
  <2>1. mapper \in Editing /\ rows' = rows
    BY <1>5, <1>10 DEF MapDelete
  <2>2. \E G : NodeStep(G) /\ G \subseteq Spoken
    <3>1. \/ UNCHANGED node
          \/ \E r \in mapper.removed : node' = With({r.account}, "gone")
      BY <1>10 DEF MapDelete
    <3>2. \A r \in mapper.removed : r.account \in Spoken
      BY InSpoken DEF AccountsOf
    <3>3. CASE UNCHANGED node
      <4>1. NodeStep({}) /\ {} \subseteq Spoken
        BY <3>3, NodeStays DEF TypeInv
      <4>2. QED
        BY <4>1
    <3>4. ASSUME NEW r \in mapper.removed, node' = With({r.account}, "gone")
          PROVE  \E G : NodeStep(G) /\ G \subseteq Spoken
      <4>1. NodeStep({r.account}) /\ {r.account} \subseteq Spoken
        BY <3>2, <3>4, NodeDeletes DEF TypeInv
      <4>2. QED
        BY <4>1
    <3>5. QED
      BY <3>1, <3>3, <3>4
  <2>3. mapper'.made = mapper.made /\ mapper'.removed = mapper.removed
    BY <1>10, <2>1 DEF MapDelete, Editing
  <2>4. Made' = Made
    BY <2>3 DEF Made
  <2>5. PICK G : /\ NodeStep(G)
                 /\ \A j \in Jobs : G \cap Held'[j] = {}
                 /\ G \cap (Made' \cup InMaking' \cup InBuilding') = {}
    BY <1>2, <1>6, <2>2, <2>4 DEF Disjoint
  <2>6. QED
    BY <1>2, <1>4, <2>1, <2>3, <2>5, OwnedKept
<1>11. CASE MapCommit
  <2>1. \/ /\ \E ids : rows' = Without(ids)
                 \cup {Row(mapper.group, n.slot, n.account, FALSE) : n \in mapper.made}
           /\ mapper' = NoEdit
        \/ rows' = rows /\ mapper' = [mapper EXCEPT !.phase = "restoring"]
    BY <1>11 DEF MapCommit
  <2>2. mapper \in Editing /\ node' = node
    BY <1>5, <1>11 DEF MapCommit
  <2>3. NodeStep({})
    BY <2>2, NodeStays DEF TypeInv
  <2>4. CASE rows' = rows /\ mapper' = [mapper EXCEPT !.phase = "restoring"]
    <3>1. mapper'.made = mapper.made /\ mapper'.removed = mapper.removed
      BY <2>2, <2>4 DEF Editing
    <3>2. QED
      BY <1>2, <1>4, <2>3, <2>4, <3>1, OwnedKept
  <2>5. CASE /\ mapper' = NoEdit
             /\ \E ids : rows' = Without(ids)
                   \cup {Row(mapper.group, n.slot, n.account, FALSE) : n \in mapper.made}
    <3> DEFINE New(n) == Row(mapper.group, n.slot, n.account, FALSE)
    <3>1. \A x \in rows' : x \in rows \/ \E n \in mapper.made : x = New(n)
      BY <2>5 DEF Without
    <3>2. \A n : New(n).id = n.account /\ New(n).account = n.account
      BY DEF Row
    <3> HIDE DEF New
    <3>3. \A n \in mapper.made : n.account \in Made
      BY DEF Made, AccountsOf
    <3>4. \A r \in rows : r.account \in Bound /\ r.id \in Ids
      BY DEF Bound, Ids, AccountsOf
    <3>5. Bound' \subseteq Bound \cup Made /\ Ids' \subseteq Ids \cup Made
      BY <3>1, <3>2, <3>3, <3>4 DEF Bound, Ids, AccountsOf
    <3>6. mapper'.made = {} /\ mapper'.removed = {}
      BY <2>5 DEF NoEdit
    <3>7. Made' = {} /\ AccountsOf(mapper'.removed) = {}
      BY <3>6 DEF Made, AccountsOf
    <3>8. Spoken' \subseteq Spoken \cup Made
      BY <1>1, <1>4, <3>5, <3>7, InSpoken DEF Spoken
    <3>9. Apart'
      <4>1. Disjoint(Held, Made', InMaking, InBuilding, Spoken')
        BY <1>6, <3>7, <3>8 DEF Disjoint
      <4>2. Bound' \cap Retiring' = {}
        BY <1>4, <1>6, <3>5, InSpoken DEF Owned, Apart, Disjoint
      <4>3. QED
        BY <1>2, <4>1, <4>2 DEF Apart
    <3>10. Alive'
      BY <1>2, <2>2, <3>7 DEF Owned, Alive
    <3>11. Unique'
      <4>1. \A n \in mapper.made : n.account \notin Bound \cup Ids
        BY <1>6, <3>3, InSpoken DEF Disjoint
      <4>2. \A q, r \in rows' : q.id = r.id => q = r
        BY <3>1, <3>2, <3>4, <4>1 DEF Owned, Unique
      <4>3. \A q, r \in rows' : q.account = r.account => q = r
        BY <3>1, <3>2, <3>4, <4>1 DEF Owned, Unique
      <4>4. QED
        BY <1>1, <3>6, <4>2, <4>3 DEF Owned, Unique
    <3>12. QED
      BY <3>9, <3>10, <3>11 DEF Owned
  <2>6. QED
    BY <2>1, <2>4, <2>5
<1>12. CASE MapRestore
  <2>1. PICK r \in mapper.deleted :
          /\ mapper' = [mapper EXCEPT !.deleted = @ \ {r}, !.removed = @ \ {r}]
          /\ \/ UNCHANGED <<node, rows>>
             \/ \E state \in {"running", "stopped"} :
                  /\ node' = Append(node, state)
                  /\ \/ rows' = rows
                     \/ rows' = {IF q.id = r.id THEN [q EXCEPT !.account = Len(node')] ELSE q :
                                   q \in rows}
    BY <1>12, Zenon DEF MapRestore
  <2>2. mapper \in Editing
    BY <1>5, <1>12 DEF MapRestore
  <2>3. mapper'.made = mapper.made /\ mapper'.removed \subseteq mapper.removed
    BY <2>1, <2>2 DEF Editing
  <2>4. NodeStep({})
    BY <2>1, NodeStays, NodeAppends DEF TypeInv
  <2>5. CASE rows' = rows
    BY <1>2, <1>4, <2>3, <2>4, <2>5, OwnedKept
  <2>6. CASE /\ \E state \in {"running", "stopped"} : node' = Append(node, state)
             /\ rows' = {IF q.id = r.id THEN [q EXCEPT !.account = Len(node')] ELSE q : q \in rows}
    <3> DEFINE New(q) == IF q.id = r.id THEN [q EXCEPT !.account = Len(node')] ELSE q
    <3>1. rows \in SUBSET RowType
      BY DEF TypeInv
    <3>2. \A q \in rows : /\ New(q).id = q.id
                          /\ New(q).account = IF q.id = r.id THEN Len(node') ELSE q.account
      BY <3>1 DEF RowType
    <3>3. \A x \in rows' : \E q \in rows : x = New(q)
      BY <2>6
    <3> HIDE DEF New
    <3>4. Len(node') \in Accounts' \ Accounts
      BY <2>6 DEF TypeInv, Accounts, States
    <3>5. \A q \in rows : q.account \in Bound /\ q.id \in Ids /\ q.account \in Accounts
      BY <3>1 DEF Bound, Ids, AccountsOf, RowType
    <3>6. Bound' \subseteq Bound \cup (Accounts' \ Accounts) /\ Ids' \subseteq Ids
      BY <3>2, <3>3, <3>4, <3>5 DEF Bound, Ids, AccountsOf
    <3>7. Made' = Made /\ AccountsOf(mapper'.removed) \subseteq AccountsOf(mapper.removed)
      BY <2>3, AccountsGrow DEF Made
    <3>8. Spoken' \subseteq Spoken \cup (Accounts' \ Accounts)
      BY <1>1, <1>4, <3>6, <3>7, InSpoken DEF Spoken
    <3>9. Bound' \cap Retiring' = {}
      BY <1>4, <3>6, HandsAreAccounts DEF Owned, Apart
    <3>10. Apart' /\ Alive'
      BY <1>2, <2>4, <3>7, <3>8, <3>9, HandsShrink DEF Owned
    <3>11. Unique'
      <4>1. \A x, y \in rows' : x.id = y.id => x = y
        BY <3>2, <3>3 DEF Owned, Unique
      <4>2. \A x, y \in rows' : x.account = y.account => x = y
        BY <3>2, <3>3, <3>4, <3>5 DEF Owned, Unique
      <4>3. \A q \in mapper.removed : q.account \in Accounts
        BY <2>2 DEF Editing, RowType
      <4>4. \A x \in rows', q \in mapper.removed : x.account = q.account => x.id = q.id
        BY <3>2, <3>3, <3>4, <4>3 DEF Owned, Unique
      <4>5. QED
        BY <1>1, <2>3, <4>1, <4>2, <4>4 DEF Owned, Unique
    <3>12. QED
      BY <3>10, <3>11 DEF Owned
  <2>7. QED
    BY <2>1, <2>5, <2>6
<1>13. CASE MapUndo
  <2>1. PICK G \in SUBSET Made : NodeStep(G)
    BY <1>13, UndoesMapping DEF Made
  <2>2. rows' = rows /\ mapper'.made = {} /\ mapper'.removed = {}
    BY <1>13 DEF MapUndo, NoEdit
  <2>3. Made' = {}
    BY <2>2 DEF Made, AccountsOf
  <2>4. /\ \A j \in Jobs : G \cap Held'[j] = {}
        /\ G \cap (Made' \cup InMaking' \cup InBuilding') = {}
    BY <1>2, <1>6, <2>3 DEF Disjoint
  <2>5. QED
    BY <1>2, <1>4, <2>1, <2>2, <2>4, OwnedKept
<1>14. QED
  BY <1>7, <1>8, <1>9, <1>10, <1>11, <1>12, <1>13 DEF Mapping

LEMMA MakingOwned ==
  ASSUME Basics, Owned, Making, UNCHANGED others
  PROVE  Owned'
<1> USE DEF others, scene, Basics
<1>1. UNCHANGED <<history, jobs, mapper, builder, deleter, sweeper>>
  BY DEF Making, MakeCheck, MakeCreate, MakeInsert
<1>2. /\ Held' = Held /\ Made' = Made /\ InBuilding' = InBuilding /\ Retiring' = Retiring
      /\ AccountsOf(deleter'.todo) \subseteq Spoken
      /\ \A j \in Jobs : jobs'[j].held \subseteq jobs[j].held
      /\ mapper'.made = mapper.made /\ mapper'.removed = mapper.removed
  BY <1>1, HandsKept, InSpoken
<1>3. Disjoint(Held, Made, InMaking, InBuilding, Spoken)
  BY DEF Owned, Apart
<1>4. ASSUME NEW g \in Groups, NEW s \in Slots, MakeCheck(g, s)
      PROVE  Owned'
  <2>1. InMaking' = {}
    BY <1>4 DEF MakeCheck, InMaking, NotMaking
  <2>2. NodeStep({}) /\ rows' = rows
    BY <1>4, NodeStays DEF MakeCheck, TypeInv
  <2>3. QED
    BY <1>2, <2>1, <2>2, OwnedKept
<1>5. CASE MakeCreate
  <2>1. PICK c \in Creations({maker.slot}) :
          /\ node' = Born(c)
          /\ maker' = IF c.made = {} THEN NotMaking
                      ELSE [maker EXCEPT !.phase = "inserting", !.account = Len(node')]
    BY <1>5 DEF MakeCreate
  <2>2. /\ maker \in [phase : {"creating"}, group : Groups, slot : Slots, account : {0}]
        /\ rows' = rows
    BY <1>5 DEF MakeCreate, TypeInv, MakeType, NotMaking, Inserting
  <2>3. NodeStep({})
    BY <2>1, <2>2, Births DEF TypeInv
  <2>4. c.made # {} => Len(node') \in Accounts' \ Accounts
    <3>1. node \in Seq(States) /\ maker.slot \in Slots
      BY <2>2 DEF TypeInv
    <3>2. QED
      BY <2>1, <3>1, MakesOne
  <2>5. InMaking' \subseteq Accounts' \ Accounts
    BY <2>1, <2>2, <2>4 DEF InMaking, NotMaking
  <2>6. Spoken' = Spoken
    BY <1>1, <1>2, <2>2, HandsKept DEF Spoken
  <2>7. Apart'
    <3>1. Disjoint(Held, Made, InMaking', InBuilding, Spoken)
      BY <1>3, <2>5, HandsAreAccounts DEF Disjoint
    <3>2. QED
      BY <1>2, <2>2, <2>6, <3>1, HandsKept DEF Owned, Apart
  <2>8. Alive'
    BY <1>2, <2>3, <2>5, HandsAreAccounts DEF Owned, Alive, NodeStep
  <2>9. Unique'
    BY <1>1, <2>2 DEF Owned, Unique
  <2>10. QED
    BY <2>7, <2>8, <2>9 DEF Owned
<1>6. CASE MakeInsert
  <2> DEFINE new == Row(maker.group, maker.slot, maker.account, FALSE)
  <2>1. /\ maker' = NotMaking /\ node' = node
        /\ rows' \subseteq rows \cup {new}
    BY <1>6 DEF MakeInsert
  <2>2. InMaking = {maker.account}
    BY <1>6 DEF MakeInsert, InMaking
  <2>3. new.id = maker.account /\ new.account = maker.account
    BY DEF Row
  <2> HIDE DEF new
  <2>4. InMaking' = {}
    BY <2>1 DEF InMaking, NotMaking
  <2>5. Bound' \subseteq Bound \cup InMaking /\ Ids' \subseteq Ids \cup InMaking
    BY <2>1, <2>2, <2>3 DEF Bound, Ids, AccountsOf
  <2>6. Spoken' \subseteq Spoken \cup InMaking
    BY <1>1, <1>2, <2>5, InSpoken DEF Spoken
  <2>7. Apart'
    <3>1. Disjoint(Held, Made, InMaking', InBuilding, Spoken')
      BY <1>3, <2>4, <2>6 DEF Disjoint
    <3>2. Bound' \cap Retiring' = {}
      BY <1>2, <1>3, <2>5, InSpoken DEF Owned, Apart, Disjoint
    <3>3. QED
      BY <1>2, <3>1, <3>2 DEF Apart
  <2>8. Alive'
    BY <1>2, <2>1, <2>4 DEF Owned, Alive
  <2>9. Unique'
    <3>1. maker.account \notin Bound \cup Ids \cup AccountsOf(mapper.removed)
      BY <1>3, <2>2, InSpoken DEF Disjoint
    <3>2. \A r \in rows : r.account # maker.account /\ r.id # maker.account
      BY <3>1 DEF Bound, Ids, AccountsOf
    <3>3. \A q \in mapper.removed : q.account # maker.account
      BY <3>1 DEF AccountsOf
    <3>4. QED
      BY <1>1, <2>1, <2>3, <3>2, <3>3 DEF Owned, Unique
  <2>10. QED
    BY <2>7, <2>8, <2>9 DEF Owned
<1>7. QED
  BY <1>4, <1>5, <1>6 DEF Making

(* The recreation of which the intent is rejected holds what it held.      *)
LEMMA RejectedHolds ==
  ASSUME TypeInv
  PROVE  /\ Rejected.phase = builder.phase /\ Rejected.new = builder.new
         /\ Rejected.old = builder.old /\ ~Rejected.live
BY DEF Rejected, TypeInv, BuildType, Resting, Planning, Creating, Replacing

LEMMA DeletingOwned ==
  ASSUME Basics, Owned, RequestDeletion \/ DeletionSteps
  PROVE  Owned'
<1> USE DEF Basics, bindVars
<1>1. UNCHANGED <<jobs, mapper, maker, sweeper>>
  BY DEF RequestDeletion, DeletionSteps, DeletionLoad, DeletionCall, DeletionRemove, DeletionFinish
<1>2. history' \subseteq history
  BY DEF RequestDeletion, DeletionSteps, DeletionLoad, DeletionCall, DeletionRemove, DeletionFinish,
         Forgetting
<1>3. /\ builder'.phase = builder.phase /\ builder'.new = builder.new
      /\ builder'.old = builder.old
  BY RejectedHolds
     DEF RequestDeletion, DeletionSteps, DeletionLoad, DeletionCall, DeletionRemove, DeletionFinish
<1>4. InBuilding' = InBuilding /\ InRetiring' = InRetiring
  BY <1>3 DEF InBuilding, InRetiring
<1>5. Retiring' \subseteq Retiring
  BY <1>1, <1>2, <1>4, AccountsGrow DEF Retiring
<1>6. /\ Held' = Held /\ Made' = Made /\ InMaking' = InMaking
      /\ \A j \in Jobs : jobs'[j].held \subseteq jobs[j].held
      /\ mapper'.made = mapper.made /\ mapper'.removed = mapper.removed
  BY <1>1, HandsKept
<1>7. Disjoint(Held, Made, InMaking, InBuilding, Spoken)
  BY DEF Owned, Apart
<1>8. CASE RequestDeletion
  <2>1. /\ rows' = {[r EXCEPT !.on = FALSE] : r \in rows} /\ node' = node
        /\ deleter' = [NoDeletion EXCEPT !.phase = "queued"]
    BY <1>8 DEF RequestDeletion
  <2> DEFINE New(r) == [r EXCEPT !.on = FALSE]
  <2>2. rows' = {New(r) : r \in rows}
    BY <2>1
  <2>3. \A r \in rows : New(r).id = r.id /\ New(r).account = r.account
    BY DEF TypeInv, RowType
  <2> HIDE DEF New
  <2>4. Bound' \subseteq Bound /\ Ids' \subseteq Ids
    BY <2>2, <2>3 DEF Bound, Ids, AccountsOf
  <2>5. deleter'.todo = {}
    BY <2>1 DEF NoDeletion
  <2>6. Spoken' \subseteq Spoken
    BY <1>5, <1>6, <2>4, <2>5, InSpoken DEF Spoken, AccountsOf
  <2>7. NodeStep({})
    BY <2>1, NodeStays DEF TypeInv
  <2>8. Bound' \cap Retiring' = {}
    BY <1>5, <2>4 DEF Owned, Apart
  <2>9. Apart' /\ Alive'
    BY <1>4, <1>6, <2>6, <2>7, <2>8, HandsShrink DEF Owned
  <2>10. Unique'
    BY <1>6, <2>2, <2>3 DEF Owned, Unique
  <2>11. QED
    BY <2>9, <2>10 DEF Owned
<1>9. CASE DeletionSteps
  <2>1. rows' \subseteq rows
    BY <1>9 DEF DeletionSteps, DeletionLoad, DeletionCall, DeletionRemove, DeletionFinish, Without
  <2>2. AccountsOf(deleter'.todo) \subseteq Spoken
    <3>1. deleter'.todo \subseteq deleter.todo \/ deleter'.todo = rows
      <4>1. NoDeletion.todo = {}
        BY DEF NoDeletion
      <4>2. deleter.phase # "idle" => deleter \in Deletion
        BY DEF TypeInv, DeletionType, NoDeletion
      <4>3. CASE DeletionLoad
        BY <4>2, <4>3 DEF DeletionLoad, Deletion
      <4>4. CASE DeletionCall
        BY <4>1, <4>2, <4>4 DEF DeletionCall, Deletion
      <4>5. CASE DeletionRemove
        BY <4>1, <4>2, <4>5 DEF DeletionRemove, Deletion
      <4>6. CASE DeletionFinish
        BY <4>1, <4>6 DEF DeletionFinish
      <4>7. QED
        BY <1>9, <4>3, <4>4, <4>5, <4>6 DEF DeletionSteps
    <3>2. QED
      BY <3>1, AccountsGrow, InSpoken DEF Bound
  <2>3. \E G : NodeStep(G) /\ G \subseteq Spoken
    <3>1. CASE UNCHANGED node
      <4>1. NodeStep({}) /\ {} \subseteq Spoken
        BY <3>1, NodeStays DEF TypeInv
      <4>2. QED
        BY <4>1
    <3>2. ASSUME NEW r \in deleter.todo, node' = With({r.account}, "gone")
          PROVE  \E G : NodeStep(G) /\ G \subseteq Spoken
      <4>1. r.account \in Spoken
        BY InSpoken DEF AccountsOf
      <4>2. NodeStep({r.account}) /\ {r.account} \subseteq Spoken
        BY <3>2, <4>1, NodeDeletes DEF TypeInv
      <4>3. QED
        BY <4>2
    <3>3. UNCHANGED node \/ \E r \in deleter.todo : node' = With({r.account}, "gone")
      BY <1>9 DEF DeletionSteps, DeletionLoad, DeletionCall, DeletionRemove, DeletionFinish
    <3>4. QED
      BY <3>1, <3>2, <3>3
  <2>4. PICK G : /\ NodeStep(G)
                 /\ \A j \in Jobs : G \cap Held'[j] = {}
                 /\ G \cap (Made' \cup InMaking' \cup InBuilding') = {}
    BY <1>4, <1>6, <1>7, <2>3 DEF Disjoint
  <2>5. QED
    BY <1>4, <1>5, <1>6, <2>1, <2>2, <2>4, OwnedKept
<1>10. QED
  BY <1>8, <1>9

LEMMA BuildingOwned ==
  ASSUME Basics, Owned, BuildSteps \/ (\E r \in rows : Plan(r))
  PROVE  Owned'
<1> USE DEF Basics, bindVars, bindUnchanged
<1>0. builder \in Resting \cup Planning \cup Creating \cup Replacing
  BY DEF TypeInv, BuildType
<1>1. UNCHANGED <<jobs, mapper, maker, deleter, sweeper>>
  BY DEF BuildSteps, Plan, Enqueue, BuildLoad, BuildCreate, BuildStop, BuildStart, BuildSwitch,
         BuildCommit, BuildUndo, BuildRetire
<1>2. /\ Held' = Held /\ Made' = Made /\ InMaking' = InMaking
      /\ AccountsOf(deleter'.todo) \subseteq Spoken
      /\ \A j \in Jobs : jobs'[j].held \subseteq jobs[j].held
      /\ mapper'.made = mapper.made /\ mapper'.removed = mapper.removed
  BY <1>1, HandsKept, InSpoken
<1>3. Disjoint(Held, Made, InMaking, InBuilding, Spoken)
  BY DEF Owned, Apart
<1>4. ASSUME UNCHANGED rows, history' \subseteq history,
             InBuilding' \subseteq InBuilding, InRetiring' \subseteq InRetiring,
             NEW G, NodeStep(G), \A j \in Jobs : G \cap Held[j] = {},
             G \cap (Made \cup InMaking \cup InBuilding') = {}
      PROVE  Owned'
  <2>1. Retiring' \subseteq Retiring
    BY <1>1, <1>4, AccountsGrow DEF Retiring
  <2>2. QED
    BY <1>2, <1>4, <2>1, OwnedKept
<1>5. CASE (\E r \in rows : Plan(r)) \/ Enqueue \/ BuildLoad
  <2>1. UNCHANGED <<node, rows, history>>
    BY <1>5 DEF Plan, Enqueue, BuildLoad
  <2>2. NodeStep({})
    BY <2>1, NodeStays DEF TypeInv
  <2>3. builder'.phase \in {"idle", "planned", "queued", "creating"}
    <3>1. NotBuilding.phase = "idle"
      BY DEF NotBuilding
    <3>2. CASE \E r \in rows : Plan(r)
      BY <3>2 DEF Plan, NotBuilding
    <3>3. CASE Enqueue
      <4>1. builder' = NotBuilding \/ builder' = [builder EXCEPT !.phase = "queued", !.live = TRUE]
        BY <3>3 DEF Enqueue
      <4>2. QED
        BY <1>0, <3>1, <4>1 DEF Resting, Planning, Creating, Replacing
    <3>4. CASE BuildLoad
      <4>1. builder' = NotBuilding
              \/ \E a : builder' = [builder EXCEPT !.phase = "creating", !.old = a]
        BY <3>4 DEF BuildLoad
      <4>2. QED
        BY <1>0, <3>1, <4>1 DEF Resting, Planning, Creating, Replacing
    <3>5. QED
      BY <1>5, <3>2, <3>3, <3>4
  <2>4. InBuilding' = {} /\ InRetiring' = {}
    BY <2>3 DEF InBuilding, InRetiring
  <2>5. QED
    BY <1>4, <2>1, <2>2, <2>4
<1>6. CASE BuildCreate
  <2>1. builder \in Creating /\ rows' = rows /\ history' = history
    BY <1>0, <1>6 DEF BuildCreate, Resting, Planning, Replacing
  <2>2. \/ node' = Append(node, "stopped") /\ builder' = NotBuilding
        \/ UNCHANGED node /\ builder' = NotBuilding
        \/ /\ node' = Append(node, "stopped")
           /\ builder' = [builder EXCEPT !.phase = "stopping", !.new = Len(node')]
    BY <1>6 DEF BuildCreate
  <2>3. NodeStep({})
    BY <2>2, NodeStays, NodeAppends DEF TypeInv
  <2>4. node' = Append(node, "stopped") => Len(node') \in Accounts' \ Accounts
    BY DEF TypeInv, Accounts, States
  <2>5. InRetiring' = {} /\ InBuilding' \subseteq Accounts' \ Accounts
    <3>1. CASE builder' = NotBuilding
      BY <3>1 DEF InBuilding, InRetiring, NotBuilding
    <3>2. CASE /\ node' = Append(node, "stopped")
               /\ builder' = [builder EXCEPT !.phase = "stopping", !.new = Len(node')]
      <4>1. builder'.phase = "stopping" /\ builder'.new = Len(node')
        BY <2>1, <3>2 DEF Creating
      <4>2. QED
        BY <2>4, <3>2, <4>1 DEF InBuilding, InRetiring
    <3>3. QED
      BY <2>2, <3>1, <3>2
  <2>6. Bound' = Bound /\ Ids' = Ids
    BY <2>1, HandsKept
  <2>7. Retiring' \subseteq Retiring
    BY <1>1, <2>1, <2>5 DEF Retiring
  <2>8. Spoken' \subseteq Spoken
    BY <1>1, <2>6, <2>7, InSpoken DEF Spoken
  <2>9. Apart'
    <3>1. Disjoint(Held, Made, InMaking, InBuilding', Spoken')
      BY <1>3, <2>5, <2>8, HandsAreAccounts DEF Disjoint
    <3>2. Bound' \cap Retiring' = {}
      BY <2>6, <2>7 DEF Owned, Apart
    <3>3. QED
      BY <1>2, <3>1, <3>2 DEF Apart
  <2>10. Alive'
    BY <1>2, <2>3, <2>5, HandsAreAccounts DEF Owned, Alive, NodeStep
  <2>11. Unique'
    BY <1>1, <2>1 DEF Owned, Unique
  <2>12. QED
    BY <2>9, <2>10, <2>11 DEF Owned
<1>7. ASSUME NEW phase \in {"stopping", "starting"}, NEW a, NEW state \in {"stopped", "running"},
             NEW next \in {"starting", "committing"}, BuildSwitch(phase, a, state, next)
      PROVE  Owned'
  <2>1. \/ /\ ~Gone(a)
           /\ node' = With({a}, state)
           /\ builder' = [builder EXCEPT !.phase = next, !.oldOff = TRUE]
        \/ builder' = [builder EXCEPT !.phase = "undoing"] /\ UNCHANGED node
    BY <1>7 DEF BuildSwitch
  <2>2. builder \in Replacing /\ builder.phase = phase /\ UNCHANGED <<rows, history>>
    BY <1>0, <1>7 DEF BuildSwitch, Resting, Planning, Creating
  <2>3. NodeStep({})
    BY <2>1, NodeStays, NodeSwitches DEF TypeInv
  <2>4. builder'.new = builder.new /\ builder'.phase \in {"starting", "committing", "undoing"}
    BY <2>1, <2>2 DEF Replacing
  <2>5. InBuilding' = InBuilding /\ InRetiring' = {}
    BY <2>2, <2>4 DEF InBuilding, InRetiring
  <2>6. QED
    BY <1>4, <2>2, <2>3, <2>5
<1>8. CASE BuildCommit
  <2> DEFINE mine == {r \in rows : r.id = builder.id /\ r.account = builder.old}
             New(r) == [r EXCEPT !.account = builder.new, !.on = TRUE]
  <2>1. builder \in Replacing /\ builder.phase = "committing" /\ node' = node
    BY <1>0, <1>8 DEF BuildCommit, Resting, Planning, Creating
  <2>2. NodeStep({})
    BY <2>1, NodeStays DEF TypeInv
  <2>3. \/ /\ mine # {}
           /\ rows' = (rows \ mine) \cup {New(r) : r \in mine}
           /\ history' = Retired(builder.id, builder.old)
           /\ builder' = [builder EXCEPT !.phase = "retiring", !.live = FALSE]
        \/ /\ builder' = [builder EXCEPT !.phase = "undoing"]
           /\ UNCHANGED <<rows, history>>
    BY <1>8 DEF BuildCommit
  <2>4. CASE /\ builder' = [builder EXCEPT !.phase = "undoing"]
             /\ UNCHANGED <<rows, history>>
    <3>1. builder'.new = builder.new /\ builder'.phase = "undoing"
      BY <2>1, <2>4 DEF Replacing
    <3>2. InBuilding' = InBuilding /\ InRetiring' = {}
      BY <2>1, <3>1 DEF InBuilding, InRetiring
    <3>3. QED
      BY <1>4, <2>2, <2>4, <3>2
  <2>5. CASE /\ mine # {}
             /\ rows' = (rows \ mine) \cup {New(r) : r \in mine}
             /\ history' = Retired(builder.id, builder.old)
             /\ builder' = [builder EXCEPT !.phase = "retiring", !.live = FALSE]
    <3>1. builder'.old = builder.old /\ builder'.phase = "retiring"
      BY <2>1, <2>5 DEF Replacing
    <3>2. InBuilding' = {} /\ InRetiring' = {builder.old} /\ InBuilding = {builder.new}
      BY <2>1, <3>1 DEF InBuilding, InRetiring
    <3>3. \A r \in mine : /\ New(r).id = r.id /\ New(r).account = builder.new
                          /\ r \in rows /\ r.account = builder.old /\ r.id = builder.id
      BY DEF TypeInv, RowType
    <3>4. /\ \A x \in rows' : (x \in rows /\ x \notin mine) \/ \E r \in mine : x = New(r)
          /\ mine # {}
      BY <2>5
    <3> HIDE DEF New, mine
    <3>5. \A r \in rows : r.account \in Bound /\ r.id \in Ids
      BY DEF Bound, Ids, AccountsOf
    <3>6. builder.old \in Bound /\ builder.new \notin Spoken
      BY <1>3, <3>2, <3>3, <3>4, <3>5 DEF Disjoint
    <3>7. Bound' \subseteq Bound \cup InBuilding /\ Ids' \subseteq Ids
      BY <3>2, <3>3, <3>4, <3>5 DEF Bound, Ids, AccountsOf
    <3>8. Retiring' \subseteq Retiring \cup {builder.old}
      <4>1. AccountsOf(history') \subseteq AccountsOf(history) \cup {builder.old}
        BY <2>5 DEF Retired, AccountsOf
      <4>2. QED
        BY <1>1, <3>2, <4>1 DEF Retiring
    <3>9. Spoken' \subseteq Spoken \cup InBuilding
      BY <1>1, <3>6, <3>7, <3>8, InSpoken DEF Spoken
    <3>10. builder.old \notin Bound'
      <4>1. \A x \in rows' : x.account # builder.old
        BY <3>3, <3>4, <3>6, InSpoken DEF Owned, Unique
      <4>2. QED
        BY <4>1 DEF Bound, AccountsOf
    <3>11. Apart'
      <4>1. Disjoint(Held, Made, InMaking, InBuilding', Spoken')
        BY <1>3, <3>2, <3>9 DEF Disjoint
      <4>2. Bound' \cap Retiring' = {}
        BY <3>2, <3>6, <3>7, <3>8, <3>10, InSpoken DEF Owned, Apart
      <4>3. QED
        BY <1>2, <4>1, <4>2 DEF Apart
    <3>12. Alive'
      BY <1>2, <2>1, <3>2 DEF Owned, Alive
    <3>13. Unique'
      <4>1. \A r \in rows : r.account # builder.new
        BY <3>5, <3>6, InSpoken
      <4>2. \A q \in mapper.removed : q.account # builder.new
        BY <3>6, InSpoken DEF AccountsOf
      <4>3. \A x, y \in rows' : x.id = y.id => x = y
        BY <3>3, <3>4 DEF Owned, Unique
      <4>4. \A x, y \in rows' : x.account = y.account => x = y
        BY <3>3, <3>4, <4>1 DEF Owned, Unique
      <4>5. \A x \in rows', q \in mapper.removed : x.account = q.account => x.id = q.id
        BY <3>3, <3>4, <4>2 DEF Owned, Unique
      <4>6. QED
        BY <1>1, <4>3, <4>4, <4>5 DEF Owned, Unique
    <3>14. QED
      BY <3>11, <3>12, <3>13 DEF Owned
  <2>6. QED
    BY <2>3, <2>4, <2>5
<1>9. CASE BuildUndo
  <2>1. builder.phase = "undoing" /\ builder' = NotBuilding /\ UNCHANGED <<rows, history>>
    BY <1>9 DEF BuildUndo
  <2>2. PICK G \in SUBSET {builder.new} : NodeStep(G)
    BY <1>9, UndoesBuilding
  <2>3. InBuilding' = {} /\ InRetiring' = {} /\ InBuilding = {builder.new}
    BY <2>1 DEF InBuilding, InRetiring, NotBuilding
  <2>4. /\ \A j \in Jobs : G \cap Held[j] = {}
        /\ G \cap (Made \cup InMaking \cup InBuilding') = {}
    BY <1>3, <2>2, <2>3 DEF Disjoint
  <2>5. QED
    BY <1>4, <2>1, <2>2, <2>3, <2>4
<1>10. CASE BuildRetire
  <2>1. /\ builder.phase = "retiring" /\ builder' = NotBuilding /\ rows' = rows
        /\ history' \subseteq history
    BY <1>10 DEF BuildRetire
  <2>2. InBuilding' = {} /\ InRetiring' = {} /\ InRetiring = {builder.old}
    BY <2>1 DEF InBuilding, InRetiring, NotBuilding
  <2>3. PICK G \in SUBSET {builder.old} : NodeStep(G)
    <3>1. UNCHANGED node \/ node' = With({builder.old}, "gone")
      BY <1>10 DEF BuildRetire
    <3>2. NodeStep({}) \/ NodeStep({builder.old})
      BY <3>1, NodeStays, NodeDeletes DEF TypeInv
    <3>3. QED
      BY <3>2
  <2>4. G \subseteq Spoken
    BY <2>2, <2>3, InSpoken
  <2>5. /\ \A j \in Jobs : G \cap Held[j] = {}
        /\ G \cap (Made \cup InMaking \cup InBuilding') = {}
    BY <1>3, <2>2, <2>4 DEF Disjoint
  <2>6. QED
    BY <1>4, <2>1, <2>2, <2>3, <2>5
<1>11. QED
  BY <1>5, <1>6, <1>7, <1>8, <1>9, <1>10 DEF BuildSteps, BuildStop, BuildStart


LEMMA CleaningOwned ==
  ASSUME Basics, Owned,
         \/ \E h \in history : Clean(h) \/ CleanFails(h)
         \/ \E x \in present : Vanish(x)
         \/ \E a \in sweeper : Sweep(a)
  PROVE  Owned'
<1> USE DEF Basics, others
<1>1. UNCHANGED <<jobs, mapper, maker, deleter>>
  BY DEF Clean, CleanFails, Vanish, Sweep
<1>2. /\ Held' = Held /\ Made' = Made /\ InMaking' = InMaking
      /\ AccountsOf(deleter'.todo) \subseteq Spoken
      /\ \A j \in Jobs : jobs'[j].held \subseteq jobs[j].held
      /\ mapper'.made = mapper.made /\ mapper'.removed = mapper.removed
  BY <1>1, HandsKept, InSpoken
<1>3. Disjoint(Held, Made, InMaking, InBuilding, Spoken)
  BY DEF Owned, Apart
<1>4. history' \subseteq history
  BY DEF Clean, CleanFails, Vanish, Sweep, Forgetting
<1>5. ASSUME UNCHANGED <<rows, builder>>, sweeper' \subseteq sweeper,
             NEW a \in Retiring, UNCHANGED node \/ node' = With({a}, "gone")
      PROVE  Owned'
  <2>1. InBuilding' = InBuilding /\ InRetiring' = InRetiring
    BY <1>5, HandsKept
  <2>2. Retiring' \subseteq Retiring
    BY <1>4, <1>5, <2>1, AccountsGrow DEF Retiring
  <2>3. a \in Spoken
    BY <1>5, InSpoken
  <2>4. NodeStep({}) \/ NodeStep({a})
    BY <1>5, NodeStays, NodeDeletes DEF TypeInv
  <2>5. PICK G \in SUBSET {a} : NodeStep(G)
    BY <2>4
  <2>6. /\ \A j \in Jobs : G \cap Held'[j] = {}
        /\ G \cap (Made' \cup InMaking' \cup InBuilding') = {}
    BY <1>2, <1>3, <2>1, <2>3 DEF Disjoint
  <2>7. QED
    BY <1>2, <1>5, <2>1, <2>2, <2>5, <2>6, OwnedKept
<1>6. ASSUME NEW h \in history, Clean(h) \/ CleanFails(h)
      PROVE  Owned'
  <2>1. h.account \in Retiring
    BY InSpoken DEF AccountsOf
  <2>2. UNCHANGED <<rows, builder, sweeper>> /\ (UNCHANGED node \/ node' = With({h.account}, "gone"))
    BY <1>6 DEF Clean, CleanFails
  <2>3. QED
    BY <1>5, <2>1, <2>2
<1>7. ASSUME NEW x \in present, Vanish(x)
      PROVE  Owned'
  <2> DEFINE swept == {r \in rows : x \in {r.group, r.slot}}
  <2>1. /\ rows' = rows \ swept /\ swept \subseteq rows /\ node' = node
        /\ sweeper' = sweeper \cup AccountsOf(swept)
        /\ builder' = Rejected \/ builder' = builder
    BY <1>7 DEF Vanish
  <2> HIDE DEF swept
  <2>2. InBuilding' = InBuilding /\ InRetiring' = InRetiring
    BY <2>1, RejectedHolds DEF InBuilding, InRetiring
  <2>3. NodeStep({})
    BY <2>1, NodeStays DEF TypeInv
  <2>4. /\ Bound' \subseteq Bound /\ Ids' \subseteq Ids
        /\ AccountsOf(swept) \subseteq Bound /\ AccountsOf(history') \subseteq AccountsOf(history)
    BY <1>4, <2>1, AccountsGrow DEF Bound, Ids
  <2>5. Retiring' \subseteq Retiring \cup AccountsOf(swept)
    BY <2>1, <2>2, <2>4 DEF Retiring
  <2>6. Spoken' \subseteq Spoken
    BY <1>1, <2>4, <2>5, InSpoken DEF Spoken
  <2>7. Bound' \cap AccountsOf(swept) = {}
    BY <2>1 DEF Bound, AccountsOf, Owned, Unique
  <2>8. Bound' \cap Retiring' = {}
    BY <2>4, <2>5, <2>7 DEF Owned, Apart
  <2>9. Apart' /\ Alive'
    BY <1>2, <2>2, <2>3, <2>6, <2>8, HandsShrink DEF Owned
  <2>10. Unique'
    BY <1>1, <2>1 DEF Owned, Unique
  <2>11. QED
    BY <2>9, <2>10 DEF Owned
<1>8. ASSUME NEW a \in sweeper, Sweep(a)
      PROVE  Owned'
  <2>1. a \in Retiring
    BY InSpoken
  <2>2. /\ UNCHANGED <<rows, builder>> /\ sweeper' \subseteq sweeper
        /\ UNCHANGED node \/ node' = With({a}, "gone")
    BY <1>8 DEF Sweep
  <2>3. QED
    BY <1>5, <2>1, <2>2
<1>9. QED
  BY <1>6, <1>7, <1>8

LEMMA RestartOwned ==
  ASSUME Basics, Owned, Restart
  PROVE  Owned'
<1> USE DEF Basics
<1>1. /\ UNCHANGED <<node, rows, history>> /\ mapper' = NoEdit /\ maker' = NotMaking
      /\ deleter' = NoDeletion /\ builder' = NotBuilding /\ sweeper' = {}
  BY DEF Restart
<1>2. \A j \in Jobs : jobs'[j].held = {}
  <2>1. SUFFICES ASSUME NEW j \in Jobs PROVE jobs'[j].held = {}
    OBVIOUS
  <2>2. jobs'[j] = [jobs[j] EXCEPT !.status = IF Active(j) THEN "FAILED" ELSE @,
                                   !.held = {}, !.runs = FALSE]
    BY DEF Restart, JobsAfterRestart
  <2>3. jobs[j] \in JobType
    BY DEF TypeInv
  <2>4. QED
    BY <2>2, <2>3 DEF JobType
<1>3. \A j \in Jobs : Held'[j] = {}
  BY <1>2 DEF Held, AccountsOf
<1>4. mapper'.made = {} /\ mapper'.removed = {} /\ deleter'.todo = {}
  BY <1>1 DEF NoEdit, NoDeletion
<1>5. Made' = {} /\ AccountsOf(deleter'.todo) \subseteq Spoken
  BY <1>4 DEF Made, AccountsOf
<1>6. InMaking' = {} /\ InBuilding' = {} /\ InRetiring' = {}
  BY <1>1 DEF InMaking, InBuilding, InRetiring, NotMaking, NotBuilding
<1>7. Retiring' \subseteq Retiring
  BY <1>1, <1>6 DEF Retiring
<1>8. NodeStep({})
  BY <1>1, NodeStays DEF TypeInv
<1>9. QED
  BY <1>1, <1>2, <1>3, <1>4, <1>5, <1>6, <1>7, <1>8, OwnedKept

LEMMA OwnedInvariant ==
  Spec => []Owned
<1>1. Basics /\ Owned /\ [Next]_vars => Owned'
  <2>1. SUFFICES ASSUME Basics, Owned, [Next]_vars PROVE Owned'
    OBVIOUS
  <2>2. CASE UNCHANGED vars
    BY <2>1, <2>2 DEF vars, bindVars, Owned, Apart, Disjoint, Alive, Unique, Held, Made, InMaking,
                      InBuilding, InRetiring, Bound, Ids, Retiring, Spoken, AccountsOf
  <2>3. QED
    BY <2>1, <2>2, DeployingOwned, MappingOwned, MakingOwned, DeletingOwned, BuildingOwned,
       CleaningOwned, RestartOwned DEF Next, Binding
<1>2. QED
  BY <1>1, OwnedInit, BasicsInvariant, PTL DEF Spec

-------------------------------------------------------------------------------
(* Rows whose account is gone.                                             *)

Excused == told \cup AccountsOf(mapper.deleted)

Known ==
  /\ source = "ACTIVE" => \A r \in rows : node[r.account] = "gone" => r.account \in Excused
  /\ source = "gone" => rows = {}

LEMMA KnownKept ==
  ASSUME TypeInv, Known, NEW G, NodeStep(G), source' = source,
         \A x \in rows' : x.account \in Bound \/ node'[x.account] # "gone",
         source = "gone" => rows' = {},
         Excused \cap Bound' \subseteq Excused', G \cap Bound' \subseteq Excused'
  PROVE  Known'
<1>1. \A x \in rows' : x.account \in Bound'
  BY DEF Bound, AccountsOf
<1>2. ASSUME NEW x \in rows', source = "ACTIVE", node'[x.account] = "gone"
      PROVE  x.account \in Excused'
  <2>1. PICK r \in rows : r.account = x.account
    BY <1>2 DEF Bound, AccountsOf
  <2>2. x.account \in Accounts
    BY <2>1 DEF TypeInv, RowType
  <2>3. node[x.account] = "gone" \/ x.account \in G
    BY <1>2, <2>2 DEF NodeStep
  <2>4. QED
    BY <1>1, <1>2, <2>1, <2>3 DEF Known
<1>3. QED
  BY <1>2 DEF Known

LEMMA RowsAreBound ==
  \A r \in rows : r.account \in Bound
BY DEF Bound, AccountsOf

LEMMA DeployingKnown ==
  ASSUME Basics, Owned, Known, Deploying, UNCHANGED others
  PROVE  Known'
<1> USE DEF others, scene, Basics
<1>0. jobs \in [Jobs -> JobType] /\ \A k \in Jobs : jobs[k] \in JobType
  BY DEF TypeInv
<1>1. UNCHANGED <<source, mapper, told>>
  BY DEF Deploying, Submit, JobStart, JobGroup, JobCommit, JobRollback
<1>2. Excused' = Excused
  BY <1>1 DEF Excused, AccountsOf
<1>3. ASSUME UNCHANGED rows, NEW G, NodeStep(G), G \cap Bound = {}
      PROVE  Known'
  <2>1. Bound' = Bound
    BY <1>3, HandsKept
  <2>2. source = "gone" => rows' = {}
    BY <1>3 DEF Known
  <2>3. QED
    BY <1>1, <1>2, <1>3, <2>1, <2>2, KnownKept, RowsAreBound
<1>4. ASSUME NEW j \in Jobs,
             \/ \E gs \in SUBSET Groups \ {{}}, ss \in SUBSET Slots \ {{}} : Submit(j, gs, ss)
             \/ JobStart(j)
      PROVE  Known'
  <2>1. UNCHANGED <<node, rows>>
    BY <1>4 DEF Submit, JobStart
  <2>2. QED
    BY <1>3, <2>1, NodeStays DEF TypeInv
<1>5. ASSUME NEW j \in Jobs, JobGroup(j)
      PROVE  Known'
  <2>1. PICK c \in Creations(jobs[j].slots) : node' = Born(c)
    BY <1>5 DEF JobGroup
  <2>2. jobs[j].slots \in SUBSET Slots
    BY <1>0 DEF JobType
  <2>3. NodeStep({}) /\ rows' = rows
    BY <1>5, <2>1, <2>2, Births DEF TypeInv, JobGroup
  <2>4. QED
    BY <1>3, <2>3
<1>6. ASSUME NEW j \in Jobs, JobCommit(j)
      PROVE  Known'
  <2>1. /\ rows' = rows \cup jobs[j].held \/ rows' = rows
        /\ node' = node /\ Active(j)
    BY <1>6 DEF JobCommit, Active
  <2>2. source # "gone"
    BY <2>1 DEF PhaseInv
  <2>3. \A q \in jobs[j].held : node'[q.account] # "gone"
    BY <2>1 DEF Owned, Alive, Held, AccountsOf
  <2>4. \A x \in rows' : x.account \in Bound \/ node'[x.account] # "gone"
    BY <2>1, <2>3, RowsAreBound
  <2>5. NodeStep({})
    BY <2>1, NodeStays DEF TypeInv
  <2>6. QED
    BY <1>1, <1>2, <2>2, <2>4, <2>5, KnownKept
<1>7. ASSUME NEW j \in Jobs, JobRollback(j)
      PROVE  Known'
  <2>1. PICK kept : node' = With(AccountsOf(jobs[j].held) \ kept, "gone")
    BY <1>7 DEF JobRollback, RolledBack
  <2> DEFINE G == AccountsOf(jobs[j].held) \ kept
  <2>2. G \subseteq Held[j]
    BY DEF Held
  <2>3. NodeStep(G)
    BY <2>1, NodeDeletes DEF TypeInv
  <2> HIDE DEF G
  <2>4. G \cap Bound = {} /\ rows' = rows
    BY <1>7, <2>2, InSpoken DEF JobRollback, Owned, Apart, Disjoint
  <2>5. QED
    BY <1>3, <2>3, <2>4
<1>8. QED
  BY <1>4, <1>5, <1>6, <1>7 DEF Deploying

LEMMA MappingKnown ==
  ASSUME Basics, Owned, Known, Mapping, UNCHANGED others
  PROVE  Known'
<1> USE DEF others, scene, Basics
<1>1. source' = source
  BY DEF Mapping, MapLoad, MapCreate, MapStop, MapDelete, MapCommit, MapRestore, MapUndo
<1>2. mapper.phase # "idle" => mapper \in Editing /\ source = "ACTIVE"
  <2>1. mapper.phase # "idle" => mapper # NoEdit
    BY DEF NoEdit
  <2>2. QED
    BY <2>1 DEF TypeInv, EditType, PhaseInv
<1>3. \A r \in mapper.deleted : r.account \in AccountsOf(mapper.deleted) /\ r \in mapper.removed
  BY DEF AccountsOf, PhaseInv
<1>4. \A q \in rows, r \in mapper.removed : q.account = r.account => q.id = r.id
  BY DEF Owned, Unique
<1>5. NoEdit.deleted = {} /\ AccountsOf({}) = {}
  BY DEF NoEdit, AccountsOf
<1>6. Made \cap Spoken = {} /\ Made \cap Bound = {}
  BY InSpoken DEF Owned, Apart, Disjoint
<1>7. ASSUME UNCHANGED rows, NEW G, NodeStep(G), Excused \subseteq Excused',
             G \cap Bound \subseteq Excused'
      PROVE  Known'
  <2>1. Bound' = Bound
    BY <1>7, HandsKept
  <2>2. source = "gone" => rows' = {}
    BY <1>7 DEF Known
  <2>3. QED
    BY <1>1, <1>7, <2>1, <2>2, KnownKept, RowsAreBound
<1>8. ASSUME NEW g \in Groups, NEW desired \in SUBSET Slots, MapLoad(g, desired)
      PROVE  Known'
  <2>1. mapper = NoEdit /\ UNCHANGED <<node, rows, told>>
    BY <1>8 DEF MapLoad
  <2>2. Excused \subseteq Excused'
    BY <1>5, <2>1 DEF Excused
  <2>3. NodeStep({})
    BY <2>1, NodeStays DEF TypeInv
  <2>4. QED
    BY <1>7, <2>1, <2>2, <2>3
<1>9. CASE MapCreate
  <2>1. mapper.deleted = {} /\ UNCHANGED <<rows, told>>
    BY <1>9 DEF MapCreate, PhaseInv
  <2>2. Excused \subseteq Excused'
    BY <1>5, <2>1 DEF Excused
  <2>3. NodeStep({})
    <3>1. PICK c \in Creations(mapper.added) : node' = Born(c)
      BY <1>9 DEF MapCreate
    <3>2. mapper.added \in SUBSET Slots
      BY <1>2, <1>9 DEF MapCreate, Editing
    <3>3. QED
      BY <3>1, <3>2, Births DEF TypeInv
  <2>4. QED
    BY <1>7, <2>1, <2>2, <2>3
<1>10. CASE MapStop
  <2>1. mapper.deleted = {} /\ UNCHANGED <<rows, told>>
    BY <1>10 DEF MapStop, PhaseInv
  <2>2. Excused \subseteq Excused'
    BY <1>5, <2>1 DEF Excused
  <2>3. NodeStep({})
    <3>1. \E as : node' = With(as, "stopped") /\ \A a \in as : ~Gone(a)
      BY <1>10 DEF MapStop
    <3>2. QED
      BY <3>1, NodeSwitches DEF TypeInv
  <2>4. QED
    BY <1>7, <2>1, <2>2, <2>3
<1>11. CASE MapDelete
  <2>1. PICK r \in mapper.removed \ mapper.deleted :
          \/ /\ node' = With({r.account}, "gone")
             /\ mapper' = [mapper EXCEPT !.deleted = @ \cup {r}]
          \/ /\ mapper' = [mapper EXCEPT !.phase = "restoring"]
             /\ UNCHANGED node
    BY <1>11 DEF MapDelete
  <2>2. mapper \in Editing /\ UNCHANGED <<rows, told>>
    BY <1>2, <1>11 DEF MapDelete
  <2>3. CASE /\ node' = With({r.account}, "gone")
             /\ mapper' = [mapper EXCEPT !.deleted = @ \cup {r}]
    <3>1. mapper'.deleted = mapper.deleted \cup {r}
      BY <2>2, <2>3 DEF Editing
    <3>2. Excused' = Excused \cup {r.account}
      BY <2>2, <3>1 DEF Excused, AccountsOf
    <3>3. NodeStep({r.account})
      BY <2>3, NodeDeletes DEF TypeInv
    <3>4. QED
      BY <1>7, <2>2, <3>2, <3>3
  <2>4. CASE mapper' = [mapper EXCEPT !.phase = "restoring"] /\ UNCHANGED node
    <3>1. mapper'.deleted = mapper.deleted
      BY <2>2, <2>4 DEF Editing
    <3>2. Excused' = Excused
      BY <2>2, <3>1 DEF Excused
    <3>3. NodeStep({})
      BY <2>4, NodeStays DEF TypeInv
    <3>4. QED
      BY <1>7, <2>2, <3>2, <3>3
  <2>5. QED
    BY <2>1, <2>3, <2>4
<1>12. CASE MapCommit
  <2>1. /\ mapper \in Editing /\ source = "ACTIVE" /\ mapper.deleted = mapper.removed
        /\ node' = node /\ told' = told
    BY <1>2, <1>12 DEF MapCommit
  <2>2. NodeStep({})
    BY <2>1, NodeStays DEF TypeInv
  <2> DEFINE ids == {r.id : r \in mapper.removed}
             New(n) == Row(mapper.group, n.slot, n.account, FALSE)
  <2>3. \/ rows' = Without(ids) \cup {New(n) : n \in mapper.made} /\ mapper' = NoEdit
        \/ rows' = rows /\ mapper' = [mapper EXCEPT !.phase = "restoring"]
    BY <1>12 DEF MapCommit
  <2>4. CASE rows' = rows /\ mapper' = [mapper EXCEPT !.phase = "restoring"]
    <3>1. mapper'.deleted = mapper.deleted
      BY <2>1, <2>4 DEF Editing
    <3>2. Excused' = Excused
      BY <2>1, <3>1 DEF Excused
    <3>3. QED
      BY <1>7, <2>2, <2>4, <3>2
  <2>5. CASE rows' = Without(ids) \cup {New(n) : n \in mapper.made} /\ mapper' = NoEdit
    <3>1. \A n : New(n).account = n.account
      BY DEF Row
    <3>2. \A x \in rows' : \/ x \in rows /\ \A q \in mapper.removed : x.id # q.id
                           \/ \E n \in mapper.made : x = New(n)
      BY <2>5 DEF Without
    <3> HIDE DEF New, ids
    <3>3. \A n \in mapper.made : n.account \in Made
      BY DEF Made, AccountsOf
    <3>4. \A x \in rows' : \/ x.account \in Bound
                           \/ x.account \in Made /\ node'[x.account] # "gone"
      BY <2>1, <3>1, <3>2, <3>3, RowsAreBound DEF Owned, Alive
    <3>5. \A q \in mapper.removed : q.account \in Spoken
      BY InSpoken DEF AccountsOf
    <3>6. \A x \in rows', q \in mapper.removed : x.account # q.account
      BY <1>4, <1>6, <3>1, <3>2, <3>3, <3>5
    <3>7. Excused \cap Bound' \subseteq Excused'
      BY <1>5, <2>1, <2>5, <3>6 DEF Excused, Bound, AccountsOf
    <3>8. QED
      BY <1>1, <2>1, <2>2, <3>4, <3>7, KnownKept
  <2>6. QED
    BY <2>3, <2>4, <2>5
<1>13. CASE MapRestore
  <2>1. PICK r \in mapper.deleted :
          /\ mapper' = [mapper EXCEPT !.deleted = @ \ {r}, !.removed = @ \ {r}]
          /\ \/ UNCHANGED <<node, rows>> /\ told' = told \cup {r.account}
             \/ \E state \in {"running", "stopped"} :
                  /\ node' = Append(node, state)
                  /\ \/ rows' = rows /\ told' = told \cup {r.account, Len(node')}
                     \/ /\ rows' = {IF q.id = r.id THEN [q EXCEPT !.account = Len(node')] ELSE q :
                                      q \in rows}
                        /\ told \subseteq told'
    BY <1>13, Zenon DEF MapRestore, ToldRestore
  <2>2. mapper \in Editing /\ source = "ACTIVE"
    BY <1>2, <1>13 DEF MapRestore
  <2>3. mapper'.deleted = mapper.deleted \ {r}
    BY <2>1, <2>2 DEF Editing
  <2>4. NodeStep({})
    BY <2>1, NodeStays, NodeAppends DEF TypeInv
  <2>5. /\ told \subseteq told'
        /\ \A a \in Excused : a \in Excused' \/ a = r.account
    BY <2>1, <2>3 DEF Excused, AccountsOf
  <2>6. CASE rows' = rows /\ r.account \in told'
    <3>1. Excused \subseteq Excused'
      BY <2>5, <2>6 DEF Excused
    <3>2. QED
      BY <1>7, <2>4, <2>6, <3>1
  <2>7. CASE /\ \E state \in {"running", "stopped"} : node' = Append(node, state)
             /\ rows' = {IF q.id = r.id THEN [q EXCEPT !.account = Len(node')] ELSE q : q \in rows}
    <3> DEFINE New(q) == IF q.id = r.id THEN [q EXCEPT !.account = Len(node')] ELSE q
    <3>1. rows \in SUBSET RowType
      BY DEF TypeInv
    <3>2. \A q \in rows : New(q).account = IF q.id = r.id THEN Len(node') ELSE q.account
      BY <3>1 DEF RowType
    <3>3. \A x \in rows' : \E q \in rows : x = New(q)
      BY <2>7
    <3> HIDE DEF New
    <3>4. Len(node') \in Accounts' \ Accounts
      BY <2>7 DEF TypeInv, Accounts, States
    <3>5. node'[Len(node')] # "gone"
      BY <2>4, <3>4 DEF NodeStep
    <3>6. \A x \in rows' : x.account \in Bound \/ node'[x.account] # "gone"
      BY <3>2, <3>3, <3>5, RowsAreBound
    <3>7. r.account \in Accounts
      BY <1>3, <2>2 DEF Editing, RowType
    <3>8. \A x \in rows' : x.account # r.account
      BY <1>3, <1>4, <3>2, <3>3, <3>4, <3>7
    <3>9. Excused \cap Bound' \subseteq Excused'
      BY <2>5, <3>8 DEF Bound, AccountsOf
    <3>10. QED
      BY <1>1, <2>2, <2>4, <3>6, <3>9, KnownKept
  <2>8. QED
    BY <2>1, <2>6, <2>7
<1>14. CASE MapUndo
  <2>1. PICK G \in SUBSET Made : NodeStep(G)
    BY <1>14, UndoesMapping DEF Made
  <2>2. mapper.deleted = {} /\ UNCHANGED <<rows, told>>
    BY <1>14 DEF MapUndo
  <2>3. Excused \subseteq Excused'
    BY <1>5, <2>2 DEF Excused
  <2>4. QED
    BY <1>6, <1>7, <2>1, <2>2, <2>3
<1>15. QED
  BY <1>8, <1>9, <1>10, <1>11, <1>12, <1>13, <1>14 DEF Mapping

LEMMA MakingKnown ==
  ASSUME Basics, Owned, Known, Making, UNCHANGED others
  PROVE  Known'
<1> USE DEF others, scene, Basics
<1>1. UNCHANGED <<source, mapper, told>>
  BY DEF Making, MakeCheck, MakeCreate, MakeInsert
<1>2. Excused' = Excused
  BY <1>1 DEF Excused, AccountsOf
<1>3. ASSUME UNCHANGED rows, NodeStep({})
      PROVE  Known'
  <2>1. source = "gone" => rows' = {}
    BY <1>3 DEF Known
  <2>2. QED
    BY <1>1, <1>2, <1>3, <2>1, KnownKept, RowsAreBound
<1>4. ASSUME NEW g \in Groups, NEW s \in Slots, MakeCheck(g, s)
      PROVE  Known'
  <2>1. UNCHANGED <<node, rows>>
    BY <1>4 DEF MakeCheck
  <2>2. QED
    BY <1>3, <2>1, NodeStays DEF TypeInv
<1>5. CASE MakeCreate
  <2>1. PICK c \in Creations({maker.slot}) : node' = Born(c)
    BY <1>5 DEF MakeCreate
  <2>2. {maker.slot} \in SUBSET Slots
    <3>1. maker.phase = "creating" /\ NotMaking.phase = "idle"
      BY <1>5 DEF MakeCreate, NotMaking
    <3>2. QED
      BY <3>1 DEF TypeInv, MakeType, Inserting
  <2>3. NodeStep({}) /\ rows' = rows
    BY <1>5, <2>1, <2>2, Births DEF TypeInv, MakeCreate
  <2>4. QED
    BY <1>3, <2>3
<1>6. CASE MakeInsert
  <2>1. /\ node' = node /\ maker.phase = "inserting"
        /\ \/ rows' = rows
           \/ /\ source # "gone"
              /\ rows' = rows \cup {Row(maker.group, maker.slot, maker.account, FALSE)}
    BY <1>6 DEF MakeInsert
  <2>2. NodeStep({})
    BY <2>1, NodeStays DEF TypeInv
  <2>3. node'[maker.account] # "gone"
    BY <2>1 DEF Owned, Alive, InMaking
  <2>4. \A x \in rows' : x.account \in Bound \/ node'[x.account] # "gone"
    BY <2>1, <2>3, RowsAreBound DEF Row
  <2>5. source = "gone" => rows' = {}
    BY <2>1 DEF Known
  <2>6. QED
    BY <1>1, <1>2, <2>2, <2>4, <2>5, KnownKept
<1>7. QED
  BY <1>4, <1>5, <1>6 DEF Making

LEMMA DeletingKnown ==
  ASSUME Basics, Owned, Known, RequestDeletion \/ DeletionSteps
  PROVE  Known'
<1>1. deleter.phase # "idle" => source = "DELETING"
  <2>1. deleter.phase # "idle" => deleter # NoDeletion
    BY DEF NoDeletion
  <2>2. QED
    BY <2>1 DEF Basics, PhaseInv
<1>2. source' = "DELETING" \/ (source' = "gone" /\ rows' = {})
  BY <1>1 DEF RequestDeletion, DeletionSteps, DeletionLoad, DeletionCall, DeletionRemove,
              DeletionFinish, bindVars
<1>3. QED
  BY <1>2 DEF Known

LEMMA BuildingKnown ==
  ASSUME Basics, Owned, Known, BuildSteps \/ (\E r \in rows : Plan(r))
  PROVE  Known'
<1> USE DEF Basics, bindVars, bindUnchanged
<1>1. UNCHANGED <<source, mapper>> /\ told \subseteq told'
  BY DEF BuildSteps, Plan, Enqueue, BuildLoad, BuildCreate, BuildStop, BuildStart, BuildSwitch,
         BuildCommit, BuildUndo, BuildRetire
<1>2. Excused \subseteq Excused'
  BY <1>1 DEF Excused
<1>3. InBuilding \cap Bound = {} /\ InRetiring \cap Bound = {}
  BY InSpoken DEF Owned, Apart, Disjoint
<1>4. ASSUME UNCHANGED rows, NEW G, NodeStep(G), G \cap Bound = {}
      PROVE  Known'
  <2>1. Bound' = Bound
    BY <1>4, HandsKept
  <2>2. source = "gone" => rows' = {}
    BY <1>4 DEF Known
  <2>3. QED
    BY <1>1, <1>2, <1>4, <2>1, <2>2, KnownKept, RowsAreBound
<1>5. CASE (\E r \in rows : Plan(r)) \/ Enqueue \/ BuildLoad
  <2>1. UNCHANGED <<node, rows>>
    BY <1>5 DEF Plan, Enqueue, BuildLoad
  <2>2. QED
    BY <1>4, <2>1, NodeStays DEF TypeInv
<1>6. CASE BuildCreate
  <2>1. rows' = rows /\ (node' = node \/ node' = Append(node, "stopped"))
    BY <1>6 DEF BuildCreate
  <2>2. NodeStep({})
    BY <2>1, NodeStays, NodeAppends DEF TypeInv
  <2>3. QED
    BY <1>4, <2>1, <2>2
<1>7. ASSUME NEW phase, NEW a, NEW state \in {"stopped", "running"}, NEW next,
             BuildSwitch(phase, a, state, next)
      PROVE  Known'
  <2>1. rows' = rows /\ (node' = node \/ (~Gone(a) /\ node' = With({a}, state)))
    BY <1>7 DEF BuildSwitch
  <2>2. NodeStep({})
    BY <2>1, NodeStays, NodeSwitches DEF TypeInv
  <2>3. QED
    BY <1>4, <2>1, <2>2
<1>8. CASE BuildCommit
  <2> DEFINE mine == {r \in rows : r.id = builder.id /\ r.account = builder.old}
             New(r) == [r EXCEPT !.account = builder.new, !.on = TRUE]
  <2>1. /\ node' = node /\ builder.phase = "committing"
        /\ \/ rows' = rows
           \/ mine # {} /\ rows' = (rows \ mine) \cup {New(r) : r \in mine}
    BY <1>8 DEF BuildCommit
  <2>2. NodeStep({})
    BY <2>1, NodeStays DEF TypeInv
  <2>3. \A r \in mine : New(r).account = builder.new /\ r \in rows
    BY DEF TypeInv, RowType
  <2> HIDE DEF New, mine
  <2>4. node'[builder.new] # "gone"
    BY <2>1 DEF Owned, Alive, InBuilding
  <2>5. \A x \in rows' : x.account \in Bound \/ x.account = builder.new
    BY <2>1, <2>3, RowsAreBound
  <2>6. source = "gone" => rows' = {}
    BY <2>1, <2>3 DEF Known
  <2>7. builder.new \in InBuilding
    BY <2>1 DEF InBuilding
  <2>8. QED
    BY <1>1, <1>2, <2>2, <2>4, <2>5, <2>6, KnownKept
<1>9. CASE BuildUndo
  <2>1. PICK G \in SUBSET {builder.new} : NodeStep(G)
    BY <1>9, UndoesBuilding
  <2>2. rows' = rows /\ builder.new \in InBuilding
    BY <1>9 DEF BuildUndo, InBuilding
  <2>3. QED
    BY <1>3, <1>4, <2>1, <2>2
<1>10. CASE BuildRetire
  <2>1. /\ rows' = rows /\ builder.old \in InRetiring
        /\ UNCHANGED node \/ node' = With({builder.old}, "gone")
    BY <1>10 DEF BuildRetire, InRetiring
  <2>2. NodeStep({}) \/ NodeStep({builder.old})
    BY <2>1, NodeStays, NodeDeletes DEF TypeInv
  <2>3. {} \cap Bound = {} /\ {builder.old} \cap Bound = {}
    BY <1>3, <2>1
  <2>4. QED
    BY <1>4, <2>1, <2>2, <2>3
<1>11. QED
  BY <1>5, <1>6, <1>7, <1>8, <1>9, <1>10 DEF BuildSteps, BuildStop, BuildStart

LEMMA CleaningKnown ==
  ASSUME Basics, Owned, Known,
         \/ \E h \in history : Clean(h) \/ CleanFails(h)
         \/ \E x \in present : Vanish(x)
         \/ \E a \in sweeper : Sweep(a)
  PROVE  Known'
<1> USE DEF Basics, others
<1>1. UNCHANGED <<source, mapper>> /\ told \subseteq told' /\ rows' \subseteq rows
  BY DEF Clean, CleanFails, Vanish, Sweep
<1>2. Excused \subseteq Excused'
  BY <1>1 DEF Excused
<1>3. Bound' \subseteq Bound /\ Bound \cap Retiring = {}
  BY <1>1, AccountsGrow DEF Bound, Owned, Apart
<1>4. UNCHANGED node \/ \E a \in Retiring : node' = With({a}, "gone")
  <2>1. \A h \in history : h.account \in Retiring
    BY InSpoken DEF AccountsOf
  <2>2. QED
    BY <2>1, InSpoken DEF Clean, CleanFails, Vanish, Sweep
<1>5. \E G : NodeStep(G) /\ G \subseteq Retiring
  <2>1. CASE UNCHANGED node
    <3>1. NodeStep({}) /\ {} \subseteq Retiring
      BY <2>1, NodeStays DEF TypeInv
    <3>2. QED
      BY <3>1
  <2>2. ASSUME NEW a \in Retiring, node' = With({a}, "gone")
        PROVE  \E G : NodeStep(G) /\ G \subseteq Retiring
    <3>1. NodeStep({a}) /\ {a} \subseteq Retiring
      BY <2>2, NodeDeletes DEF TypeInv
    <3>2. QED
      BY <3>1
  <2>3. QED
    BY <1>4, <2>1, <2>2
<1>6. PICK G : NodeStep(G) /\ G \cap Bound' = {}
  BY <1>3, <1>5
<1>7. source = "gone" => rows' = {}
  BY <1>1 DEF Known
<1>8. QED
  BY <1>1, <1>2, <1>6, <1>7, KnownKept, RowsAreBound

\* A row whose account is no longer there is one whose removal is under way, or an
\* event has told the operator of it, however the sagas interleave and whichever of
\* their calls fail, as long as the process is not restarted in the middle of an edit
\* of a mapping: the accounts the edit has deleted and not yet created again are known
\* to its goroutine alone (mappings.go).
THEOREM MissingAreKnown ==
  ASSUME \A k \in Kits : "map" \in k.sagas => "crash" \notin k.faults
  PROVE  Spec => []MissingIsKnown
<1>1. Init => Known
  <2>1. SUFFICES ASSUME Init PROVE Known
    OBVIOUS
  <2>2. PICK g \in Groups, ss \in SUBSET Slots :
          /\ node = [i \in 1 .. Cardinality(ss) |-> "running"]
          /\ rows = {Row(g, n.slot, n.account, TRUE) : n \in Numbered(ss, 0)}
    BY <2>1, Zenon DEF Init, BindInit
  <2>3. \A n \in Numbered(ss, 0) : n.account \in 1 .. Cardinality(ss)
    <3>1. /\ Cardinality(ss) \in Nat
          /\ Numbered(ss, 0) \in SUBSET [slot : Slots, account : 0 + 1 .. 0 + Cardinality(ss)]
      BY Numbers
    <3>2. QED
      BY <3>1
  <2>4. \A n : Row(g, n.slot, n.account, TRUE).account = n.account
    BY DEF Row
  <2>5. \A r \in rows : node[r.account] # "gone"
    BY <2>2, <2>3, <2>4
  <2>6. QED
    BY <2>1, <2>5 DEF Known, Init, BindInit
<1>2. Basics /\ Owned /\ Known /\ [Next]_vars => Known'
  <2>1. SUFFICES ASSUME Basics, Owned, Known, [Next]_vars PROVE Known'
    OBVIOUS
  <2>2. CASE Restart
    <3>1. /\ UNCHANGED <<node, rows, source, told>> /\ mapper' = NoEdit /\ "crash" \in kit.faults
      BY <2>2 DEF Restart, Fails
    <3>2. mapper = NoEdit
      BY <2>1, <3>1 DEF Basics, Used, TypeInv
    <3>3. QED
      BY <2>1, <3>1, <3>2 DEF Known, Excused, AccountsOf
  <2>3. CASE UNCHANGED vars
    BY <2>1, <2>3 DEF vars, bindVars, Known, Excused, AccountsOf
  <2>4. QED
    BY <2>1, <2>2, <2>3, DeployingKnown, MappingKnown, MakingKnown, DeletingKnown, BuildingKnown,
       CleaningKnown DEF Next, Binding
<1>3. Basics /\ Owned /\ Known => MissingIsKnown
  <2>1. SUFFICES ASSUME Basics, Owned, Known, NEW r \in rows, Gone(r.account),
                        source # "DELETING", r.account \notin told
                 PROVE  \E q \in mapper.deleted : q.id = r.id
    BY DEF MissingIsKnown
  <2>2. source = "ACTIVE"
    BY <2>1 DEF Known, Basics, TypeInv
  <2>3. r.account \in AccountsOf(mapper.deleted)
    BY <2>1, <2>2 DEF Known, Excused, Gone
  <2>4. PICK q \in mapper.deleted : q.account = r.account
    BY <2>3 DEF AccountsOf
  <2>5. q \in mapper.removed
    BY <2>1 DEF Basics, PhaseInv
  <2>6. QED
    BY <2>1, <2>4, <2>5 DEF Owned, Unique
<1>4. QED
  BY <1>1, <1>2, <1>3, BasicsInvariant, OwnedInvariant, PTL DEF Spec

-------------------------------------------------------------------------------
(* No account is lost.                                                     *)

(* What the kit must leave out: the restore of a row that a recreation or  *)
(* a vanished group has changed or deleted during the edit; an account     *)
(* made by hand whose row cannot be inserted, which nobody deletes; and    *)
(* the history of a row that goes with the row while the retired account   *)
(* is still there.                                                         *)
Tame(k) ==
  /\ "map" \in k.sagas => "recreate" \notin k.sagas /\ "sweep" \notin k.sagas
  /\ "make" \in k.sagas => "delete" \notin k.sagas /\ "sweep" \notin k.sagas
  /\ "recreate" \in k.sagas /\ "delete" \in k.sagas =>
       "call" \notin k.faults /\ "stale" \notin k.faults
  /\ "recreate" \in k.sagas /\ "sweep" \in k.sagas => "call" \notin k.faults

Dead == {a \in Accounts : node[a] = "gone"}

(* The accounts that are gone, and those somebody knows of. *)
Settled == Dead \cup Bound \cup AccountsOf(history) \cup InHand \cup lost

NoneLost == Accounts \subseteq Settled

EditFits ==
  /\ mapper.removed \subseteq rows
  /\ \A r \in mapper.deleted : r.account \in Dead

DeletionFits ==
  /\ deleter.phase \in {"deleting", "removing"} =>
       \A r \in deleter.todo, q \in rows : q.id = r.id => q = r
  /\ deleter.phase = "removing" => \A r \in rows : r.id = deleter.at => r.account \in Dead

IntentFits == builder.live => source = "ACTIVE"

HistoryFits ==
  /\ \A h \in history : \E r \in rows : r.id = h.row
  /\ "delete" \in kit.sagas \/ "sweep" \in kit.sagas =>
       AccountsOf(history) \subseteq Dead \cup lost \cup InRetiring
  /\ "call" \in kit.faults => InRetiring \subseteq Dead \cup lost \cup AccountsOf(history)

Emptied == source = "gone" => rows = {}

Fits == EditFits /\ DeletionFits /\ IntentFits /\ HistoryFits /\ Emptied

LEMMA InHandIs ==
  \A a : a \in InHand <=> \/ \E j \in Jobs : a \in Held[j]
                          \/ a \in Made \/ a \in sweeper \/ a \in InMaking \/ a \in InBuilding
                          \/ a \in InRetiring
<1>1. \A a : a \in AccountsOf(UNION {jobs[j].held : j \in Jobs}) <=> \E j \in Jobs : a \in Held[j]
  BY DEF Held, AccountsOf
<1>2. QED
  BY <1>1 DEF InHand, Pending, Doomed, Made, InMaking, InBuilding, InRetiring

LEMMA InHandBecomes ==
  \A a : a \in InHand' <=> \/ \E j \in Jobs : a \in Held'[j]
                           \/ a \in Made' \/ a \in sweeper' \/ a \in InMaking'
                           \/ a \in InBuilding' \/ a \in InRetiring'
<1>1. \A a : a \in AccountsOf(UNION {jobs'[j].held : j \in Jobs}) <=> \E j \in Jobs : a \in Held'[j]
  BY DEF Held, AccountsOf
<1>2. QED
  BY <1>1 DEF InHand, Pending, Doomed, Made, InMaking, InBuilding, InRetiring

LEMMA HandsSettled ==
  /\ \A j \in Jobs : Held'[j] \subseteq Settled'
  /\ Made' \subseteq Settled' /\ sweeper' \subseteq Settled' /\ InMaking' \subseteq Settled'
  /\ InBuilding' \subseteq Settled' /\ InRetiring' \subseteq Settled'
  /\ Bound' \subseteq Settled' /\ AccountsOf(history') \subseteq Settled' /\ lost' \subseteq Settled'
  /\ Dead' \subseteq Settled'
<1>1. InHand' \subseteq Settled' /\ AccountsOf(history)' = AccountsOf(history')
  BY DEF Settled, AccountsOf
<1>2. /\ Bound' \subseteq Settled' /\ AccountsOf(history') \subseteq Settled'
      /\ lost' \subseteq Settled' /\ Dead' \subseteq Settled'
  BY <1>1 DEF Settled
<1>3. QED
  BY <1>1, <1>2, InHandBecomes

(* Every hand is emptied into one that is known of. *)
LEMMA NoneLostKept ==
  ASSUME NoneLost, Dead \subseteq Dead', lost \subseteq lost',
         \A j \in Jobs : Held[j] \subseteq Settled',
         Made \subseteq Settled', sweeper \subseteq Settled', InMaking \subseteq Settled',
         InBuilding \subseteq Settled', InRetiring \subseteq Settled', Bound \subseteq Settled',
         AccountsOf(history) \subseteq Settled', Accounts' \ Accounts \subseteq Settled'
  PROVE  NoneLost'
<1>1. InHand \subseteq Settled'
  BY InHandIs
<1>2. Settled \subseteq Settled'
  BY <1>1, HandsSettled DEF Settled
<1>3. QED
  BY <1>2 DEF NoneLost

LEMMA DeadStays ==
  ASSUME TypeInv, NEW G, NodeStep(G)
  PROVE  /\ Dead \subseteq Dead' /\ G \cap Accounts \subseteq Dead'
         /\ Accounts \subseteq Accounts'
         /\ (Len(node') = Len(node) => Accounts' = Accounts)
<1>1. Accounts \subseteq Accounts'
  BY TypesGrow
<1>2. QED
  BY <1>1 DEF Dead, NodeStep, Accounts

(* What a step of each kind does to the node. *)
LEMMA NodeMoves ==
  ASSUME Basics, [Next]_vars
  PROVE  \E G : NodeStep(G)
<1> USE DEF Basics, bindVars, bindUnchanged, scene, others
<1>1. CASE UNCHANGED node
  BY <1>1, NodeStays DEF TypeInv
<1>2. ASSUME NEW as, node' = With(as, "gone")
      PROVE  \E G : NodeStep(G)
  BY <1>2, NodeDeletes DEF TypeInv
<1>3. ASSUME NEW as, \A a \in as : ~Gone(a), NEW state \in {"stopped", "running"},
             node' = With(as, state)
      PROVE  \E G : NodeStep(G)
  BY <1>3, NodeSwitches DEF TypeInv
<1>4. ASSUME NEW state \in {"stopped", "running"}, node' = Append(node, state)
      PROVE  \E G : NodeStep(G)
  BY <1>4, NodeAppends DEF TypeInv
<1>5. ASSUME NEW ss \in SUBSET Slots, NEW c \in Creations(ss), node' = Born(c)
      PROVE  \E G : NodeStep(G)
  BY <1>5, Births DEF TypeInv
<1>6. CASE Deploying
  <2>1. \A j \in Jobs : jobs[j].slots \in SUBSET Slots
    BY DEF TypeInv, JobType
  <2>2. \/ UNCHANGED node
        \/ \E j \in Jobs : \E c \in Creations(jobs[j].slots) : node' = Born(c)
        \/ \E as : node' = With(as, "gone")
    BY <1>6 DEF Deploying, Submit, JobStart, JobGroup, JobCommit, JobRollback
  <2>3. QED
    BY <1>1, <1>2, <1>5, <2>1, <2>2
<1>7. CASE Mapping
  <2>1. mapper.added \in SUBSET Slots
    BY DEF TypeInv, EditType, Editing, NoEdit
  <2>2. CASE MapUndo
    BY <2>2, UndoesMapping
  <2>3. CASE MapStop
    <3>1. \E as : node' = With(as, "stopped") /\ \A a \in as : ~Gone(a)
      BY <2>3 DEF MapStop
    <3>2. QED
      BY <1>3, <3>1
  <2>4. CASE MapCreate
    BY <1>5, <2>1, <2>4 DEF MapCreate
  <2>5. CASE MapDelete
    BY <1>1, <1>2, <2>5 DEF MapDelete
  <2>6. CASE MapRestore
    <3>1. UNCHANGED node \/ \E state \in {"running", "stopped"} : node' = Append(node, state)
      BY <2>6 DEF MapRestore
    <3>2. QED
      BY <1>1, <1>4, <3>1
  <2>7. QED
    BY <1>1, <1>7, <2>2, <2>3, <2>4, <2>5, <2>6 DEF Mapping, MapLoad, MapCommit
<1>8. CASE Making
  <2>1. maker.phase = "creating" => {maker.slot} \in SUBSET Slots
    <3>1. NotMaking.phase = "idle"
      BY DEF NotMaking
    <3>2. QED
      BY <3>1 DEF TypeInv, MakeType, Inserting
  <2>2. CASE MakeCreate
    BY <1>5, <2>1, <2>2 DEF MakeCreate
  <2>3. QED
    BY <1>1, <1>8, <2>2 DEF Making, MakeCheck, MakeInsert
<1>9. CASE RequestDeletion \/ DeletionSteps
  BY <1>1, <1>2, <1>9
     DEF RequestDeletion, DeletionSteps, DeletionLoad, DeletionCall, DeletionRemove, DeletionFinish
<1>10. CASE BuildSteps \/ \E r \in rows : Plan(r)
  <2>1. CASE BuildUndo
    BY <2>1, UndoesBuilding
  <2>2. ASSUME NEW phase, NEW a, NEW state \in {"stopped", "running"}, NEW next,
               BuildSwitch(phase, a, state, next)
        PROVE  \E G : NodeStep(G)
    <3>1. UNCHANGED node \/ (node' = With({a}, state) /\ \A b \in {a} : ~Gone(b))
      BY <2>2 DEF BuildSwitch
    <3>2. QED
      BY <1>1, <1>3, <3>1
  <2>3. CASE BuildCreate
    BY <1>1, <1>4, <2>3 DEF BuildCreate
  <2>4. CASE BuildRetire
    BY <1>1, <1>2, <2>4 DEF BuildRetire
  <2>5. CASE (\E r \in rows : Plan(r)) \/ Enqueue \/ BuildLoad \/ BuildCommit
    BY <1>1, <2>5 DEF Plan, Enqueue, BuildLoad, BuildCommit
  <2>6. QED
    BY <1>10, <2>1, <2>2, <2>3, <2>4, <2>5 DEF BuildSteps, BuildStop, BuildStart
<1>11. CASE \/ \E h \in history : Clean(h) \/ CleanFails(h)
            \/ \E x \in present : Vanish(x)
            \/ \E a \in sweeper : Sweep(a)
  BY <1>1, <1>2, <1>11 DEF Clean, CleanFails, Vanish, Sweep
<1>12. CASE Restart \/ UNCHANGED vars
  BY <1>1, <1>12 DEF Restart, vars
<1>13. QED
  BY <1>6, <1>7, <1>8, <1>9, <1>10, <1>11, <1>12 DEF Next, Binding

(* What the kit leaves out, seen from the state. *)
LEMMA TameMeans ==
  ASSUME Basics, Tame(kit)
  PROVE  /\ mapper # NoEdit =>
              /\ source = "ACTIVE" /\ "sweep" \notin kit.sagas /\ "recreate" \notin kit.sagas
              /\ builder.phase = "idle" /\ history = {}
         /\ maker # NotMaking => source = "ACTIVE" /\ present = Groups \cup Slots
         /\ source # "ACTIVE" =>
              /\ mapper = NoEdit /\ maker = NotMaking /\ \A j \in Jobs : ~Active(j)
              /\ "recreate" \in kit.sagas => "stale" \notin kit.faults
BY DEF Basics, PhaseInv, Used, Tame

LEMMA Phases ==
  /\ NoEdit.phase = "idle" /\ NotMaking.phase = "idle" /\ NoDeletion.phase = "idle"
  /\ NotBuilding.phase = "idle" /\ ~NotBuilding.live
  /\ NoEdit.made = {} /\ NoEdit.removed = {} /\ NoEdit.deleted = {} /\ NoDeletion.todo = {}
BY DEF NoEdit, NotMaking, NoDeletion, NotBuilding

LEMMA LostStays ==
  ASSUME [Next]_vars
  PROVE  lost \subseteq lost'
<1> USE DEF bindVars, bindUnchanged, scene, others
<1>1. CASE Deploying
  BY <1>1 DEF Deploying, Submit, JobStart, JobGroup, JobCommit, JobRollback
<1>2. CASE Mapping
  <2>1. CASE MapRestore
    BY <2>1 DEF MapRestore
  <2>2. QED
    BY <1>2, <2>1 DEF Mapping, MapLoad, MapCreate, MapStop, MapDelete, MapCommit, MapUndo
<1>3. CASE Making
  BY <1>3 DEF Making, MakeCheck, MakeCreate, MakeInsert
<1>4. CASE RequestDeletion \/ DeletionSteps
  BY <1>4
     DEF RequestDeletion, DeletionSteps, DeletionLoad, DeletionCall, DeletionRemove, DeletionFinish
<1>5. CASE BuildSteps \/ \E r \in rows : Plan(r)
  BY <1>5
     DEF BuildSteps, Plan, Enqueue, BuildLoad, BuildCreate, BuildStop, BuildStart, BuildSwitch,
         BuildCommit, BuildUndo, BuildRetire
<1>6. CASE \/ \E h \in history : Clean(h) \/ CleanFails(h)
           \/ \E x \in present : Vanish(x)
           \/ \E a \in sweeper : Sweep(a)
  BY <1>6 DEF Clean, CleanFails, Vanish, Sweep
<1>7. CASE Restart \/ UNCHANGED vars
  BY <1>7 DEF Restart, vars
<1>8. QED
  BY <1>1, <1>2, <1>3, <1>4, <1>5, <1>6, <1>7 DEF Next, Binding

(* Nobody binds an account to a source that is no longer active. *)
LEMMA Frozen ==
  ASSUME Basics, Tame(kit), IntentFits, [Next]_vars, source # "ACTIVE"
  PROVE  rows' \subseteq rows \/ RequestDeletion
<1> USE DEF bindVars, bindUnchanged, scene, others
<1>1. /\ mapper.phase = "idle" /\ maker.phase = "idle" /\ ~builder.live
      /\ \A j \in Jobs : jobs[j].status \notin {"QUEUED", "RUNNING"}
  BY TameMeans, Phases DEF IntentFits, Active
<1>2. CASE Deploying
  BY <1>1, <1>2 DEF Deploying, Submit, JobStart, JobGroup, JobCommit, JobRollback
<1>3. CASE Mapping
  BY <1>1, <1>3 DEF Mapping, MapLoad, MapCreate, MapStop, MapDelete, MapCommit, MapRestore, MapUndo
<1>4. CASE Making
  BY <1>1, <1>4 DEF Making, MakeCheck, MakeCreate, MakeInsert
<1>5. CASE DeletionSteps
  BY <1>5 DEF DeletionSteps, DeletionLoad, DeletionCall, DeletionRemove, DeletionFinish, Without
<1>6. CASE BuildSteps \/ \E r \in rows : Plan(r)
  BY <1>1, <1>6
     DEF BuildSteps, Plan, Enqueue, BuildLoad, BuildCreate, BuildStop, BuildStart, BuildSwitch,
         BuildCommit, BuildUndo, BuildRetire
<1>7. CASE \/ \E h \in history : Clean(h) \/ CleanFails(h)
           \/ \E x \in present : Vanish(x)
           \/ \E a \in sweeper : Sweep(a)
  BY <1>7 DEF Clean, CleanFails, Vanish, Sweep
<1>8. CASE Restart \/ UNCHANGED vars
  BY <1>8 DEF Restart, vars
<1>9. QED
  BY <1>2, <1>3, <1>4, <1>5, <1>6, <1>7, <1>8 DEF Next, Binding

LEMMA EditKept ==
  ASSUME Basics, Owned, Tame(kit), EditFits, [Next]_vars
  PROVE  EditFits'
<1> USE DEF bindVars, bindUnchanged, scene, others
<1>1. Dead \subseteq Dead'
  BY NodeMoves, DeadStays DEF Basics
<1>2. CASE mapper' = NoEdit
  BY <1>2, Phases DEF EditFits
<1>3. ASSUME mapper' = mapper, rows \subseteq rows'
      PROVE  EditFits'
  BY <1>1, <1>3 DEF EditFits
<1>4. ASSUME mapper # NoEdit, mapper' # NoEdit, ~Mapping
      PROVE  mapper' = mapper /\ rows \subseteq rows'
  <2>1. /\ source = "ACTIVE" /\ "sweep" \notin kit.sagas /\ "recreate" \notin kit.sagas
        /\ builder.phase = "idle" /\ deleter.phase = "idle"
    BY <1>4, TameMeans, Phases DEF Basics, PhaseInv
  <2>2. CASE Deploying
    BY <2>2 DEF Deploying, Submit, JobStart, JobGroup, JobCommit, JobRollback
  <2>3. CASE Making
    BY <2>3 DEF Making, MakeCheck, MakeCreate, MakeInsert
  <2>4. CASE RequestDeletion \/ DeletionSteps
    BY <1>4, <2>1, <2>4
       DEF RequestDeletion, DeletionSteps, DeletionLoad, DeletionCall, DeletionRemove, DeletionFinish
  <2>5. CASE BuildSteps \/ \E r \in rows : Plan(r)
    BY <2>1, <2>5
       DEF BuildSteps, Plan, Enqueue, BuildLoad, BuildCreate, BuildStop, BuildStart, BuildSwitch,
           BuildCommit, BuildUndo, BuildRetire, Requested
  <2>6. CASE \/ \E h \in history : Clean(h) \/ CleanFails(h)
             \/ \E x \in present : Vanish(x)
             \/ \E a \in sweeper : Sweep(a)
    BY <2>1, <2>6 DEF Clean, CleanFails, Vanish, Sweep, Requested
  <2>7. CASE Restart \/ UNCHANGED vars
    BY <1>4, <2>7 DEF Restart, vars
  <2>8. QED
    BY <1>4, <2>2, <2>3, <2>4, <2>5, <2>6, <2>7 DEF Next, Binding
<1>5. ASSUME mapper = NoEdit, mapper' # NoEdit, ~Mapping
      PROVE  mapper' = mapper
  BY <1>5
     DEF Next, Binding, Deploying, Submit, JobStart, JobGroup, JobCommit, JobRollback,
         Making, MakeCheck, MakeCreate, MakeInsert,
         RequestDeletion, DeletionSteps, DeletionLoad, DeletionCall, DeletionRemove, DeletionFinish,
         BuildSteps, Plan, Enqueue, BuildLoad, BuildCreate, BuildStop, BuildStart, BuildSwitch,
         BuildCommit, BuildUndo, BuildRetire, Clean, CleanFails, Vanish, Sweep, Restart, vars
<1>6. ASSUME Mapping
      PROVE  EditFits'
  <2>0. mapper.phase # "idle" => mapper \in Editing
    BY Phases DEF Basics, TypeInv, EditType
  <2>1. ASSUME NEW g \in Groups, NEW desired \in SUBSET Slots, MapLoad(g, desired)
        PROVE  EditFits'
    <3>1. mapper'.removed \subseteq rows /\ mapper'.deleted = {} /\ rows' = rows
      BY <2>1 DEF MapLoad, NoEdit, Of
    <3>2. QED
      BY <3>1 DEF EditFits
  <2>2. CASE MapCreate
    <3>1. PICK c : mapper' = IF c.made = mapper.added
                     THEN [mapper EXCEPT !.phase = "stopping", !.made = Named(c)]
                     ELSE [mapper EXCEPT !.phase = "undoing", !.made = Named(c), !.removed = {}]
      BY <2>2 DEF MapCreate
    <3>2. mapper \in Editing /\ rows' = rows
      BY <2>0, <2>2 DEF MapCreate
    <3>3. mapper'.removed \subseteq mapper.removed /\ mapper'.deleted = mapper.deleted
      BY <3>1, <3>2 DEF Editing
    <3>4. QED
      BY <1>1, <3>2, <3>3 DEF EditFits
  <2>3. CASE MapStop
    <3>1. mapper \in Editing /\ rows' = rows
      BY <2>0, <2>3 DEF MapStop
    <3>2. mapper'.removed = mapper.removed /\ mapper'.deleted = mapper.deleted
      BY <2>3, <3>1 DEF MapStop, Editing
    <3>3. QED
      BY <1>1, <3>1, <3>2 DEF EditFits
  <2>4. CASE MapDelete
    <3>1. PICK r \in mapper.removed \ mapper.deleted :
            \/ /\ node' = With({r.account}, "gone")
               /\ mapper' = [mapper EXCEPT !.deleted = @ \cup {r}]
            \/ mapper' = [mapper EXCEPT !.phase = "restoring"]
      BY <2>4 DEF MapDelete
    <3>2. mapper \in Editing /\ rows' = rows
      BY <2>0, <2>4 DEF MapDelete
    <3>3. CASE /\ node' = With({r.account}, "gone")
               /\ mapper' = [mapper EXCEPT !.deleted = @ \cup {r}]
      <4>1. mapper'.removed = mapper.removed /\ mapper'.deleted = mapper.deleted \cup {r}
        BY <3>2, <3>3 DEF Editing
      <4>2. r.account \in Accounts
        BY <3>2 DEF Editing, RowType
      <4>3. r.account \in Dead'
        BY <3>3, <4>2, NodeDeletes, DeadStays DEF Basics, TypeInv
      <4>4. QED
        BY <1>1, <3>2, <4>1, <4>3 DEF EditFits
    <3>4. CASE mapper' = [mapper EXCEPT !.phase = "restoring"]
      <4>1. mapper'.removed = mapper.removed /\ mapper'.deleted = mapper.deleted
        BY <3>2, <3>4 DEF Editing
      <4>2. QED
        BY <1>1, <3>2, <4>1 DEF EditFits
    <3>5. QED
      BY <3>1, <3>3, <3>4
  <2>5. CASE MapCommit
    <3>1. mapper \in Editing /\ (mapper' = NoEdit \/ rows' = rows)
      BY <2>0, <2>5 DEF MapCommit
    <3>2. mapper' = NoEdit \/ mapper' = [mapper EXCEPT !.phase = "restoring"]
      BY <2>5 DEF MapCommit
    <3>3. mapper' = NoEdit \/ (mapper'.removed = mapper.removed /\ mapper'.deleted = mapper.deleted)
      BY <3>1, <3>2 DEF Editing
    <3>4. QED
      BY <1>1, <1>2, <3>1, <3>3 DEF EditFits
  <2>6. CASE MapRestore
    <3>1. PICK r \in mapper.deleted :
            /\ mapper' = [mapper EXCEPT !.deleted = @ \ {r}, !.removed = @ \ {r}]
            /\ \/ rows' = rows
               \/ rows' = {IF q.id = r.id THEN [q EXCEPT !.account = Len(node')] ELSE q : q \in rows}
      BY <2>6, Zenon DEF MapRestore
    <3>2. mapper \in Editing
      BY <2>0, <2>6 DEF MapRestore
    <3>3. mapper'.removed = mapper.removed \ {r} /\ mapper'.deleted \subseteq mapper.deleted
      BY <3>1, <3>2 DEF Editing
    <3>4. r \in rows
      BY DEF EditFits, Basics, PhaseInv
    <3>5. \A q \in mapper'.removed : q \in rows /\ q.id # r.id
      BY <3>3, <3>4 DEF EditFits, Owned, Unique
    <3>6. mapper'.removed \subseteq rows'
      BY <3>1, <3>5
    <3>7. QED
      BY <1>1, <3>3, <3>6 DEF EditFits
  <2>7. CASE MapUndo
    BY <1>2, <2>7 DEF MapUndo
  <2>8. QED
    BY <1>6, <2>1, <2>2, <2>3, <2>4, <2>5, <2>6, <2>7 DEF Mapping
<1>7. QED
  BY <1>2, <1>3, <1>4, <1>5, <1>6

LEMMA DeleterLater ==
  ASSUME [Next]_vars
  PROVE  RequestDeletion \/ DeletionSteps \/ deleter' = NoDeletion \/ deleter' = deleter
BY DEF Next, Binding, BuildSteps, Plan, Enqueue, BuildLoad, BuildCreate, BuildStop, BuildStart,
       BuildSwitch, BuildCommit, BuildUndo, BuildRetire, Clean, CleanFails, Vanish, Sweep, Restart,
       vars, others

LEMMA DeletionKept ==
  ASSUME Basics, Owned, Tame(kit), IntentFits, DeletionFits, [Next]_vars
  PROVE  DeletionFits'
<1> USE DEF bindVars
<1>1. Dead \subseteq Dead'
  BY NodeMoves, DeadStays DEF Basics
<1>2. deleter.phase # "idle" => deleter \in Deletion /\ source # "ACTIVE"
  BY Phases DEF Basics, TypeInv, DeletionType, PhaseInv
<1>3. CASE RequestDeletion
  <2>1. deleter'.phase = "queued"
    BY <1>3 DEF RequestDeletion, NoDeletion
  <2>2. QED
    BY <2>1 DEF DeletionFits
<1>4. CASE DeletionLoad
  <2>1. rows' = rows /\ deleter' = [deleter EXCEPT !.phase = "deleting", !.todo = rows]
    BY <1>4 DEF DeletionLoad
  <2>2. deleter'.todo = rows /\ deleter'.phase = "deleting"
    BY <1>2, <1>4, <2>1 DEF DeletionLoad, Deletion
  <2>3. QED
    BY <2>1, <2>2 DEF DeletionFits, Owned, Unique
<1>5. CASE DeletionCall
  <2>1. PICK r \in deleter.todo :
          \/ /\ node' = With({r.account}, "gone")
             /\ deleter' = [deleter EXCEPT !.phase = "removing", !.at = r.id]
          \/ deleter' = NoDeletion
    BY <1>5 DEF DeletionCall
  <2>2. rows' = rows /\ deleter.phase = "deleting" /\ deleter \in Deletion
    BY <1>2, <1>5 DEF DeletionCall
  <2>3. CASE /\ node' = With({r.account}, "gone")
             /\ deleter' = [deleter EXCEPT !.phase = "removing", !.at = r.id]
    <3>1. deleter'.todo = deleter.todo /\ deleter'.at = r.id
      BY <2>2, <2>3 DEF Deletion
    <3>2. r.account \in Accounts
      BY <2>2 DEF Deletion, RowType
    <3>3. r.account \in Dead'
      BY <2>3, <3>2, NodeDeletes, DeadStays DEF Basics, TypeInv
    <3>4. QED
      BY <2>2, <3>1, <3>3 DEF DeletionFits
  <2>4. QED
    BY <2>1, <2>3, Phases DEF DeletionFits
<1>6. CASE DeletionRemove
  <2>1. \/ deleter' = NoDeletion
        \/ deleter' = [deleter EXCEPT !.phase = "deleting", !.at = 0,
                                      !.todo = {r \in @ : r.id # deleter.at}]
    BY <1>6 DEF DeletionRemove
  <2>2. rows' \subseteq rows /\ deleter.phase = "removing" /\ deleter \in Deletion
    BY <1>2, <1>6 DEF DeletionRemove, Without
  <2>3. CASE deleter' = [deleter EXCEPT !.phase = "deleting", !.at = 0,
                                        !.todo = {r \in @ : r.id # deleter.at}]
    <3>1. deleter'.todo \subseteq deleter.todo /\ deleter'.phase = "deleting"
      BY <2>2, <2>3 DEF Deletion
    <3>2. QED
      BY <2>2, <3>1 DEF DeletionFits
  <2>4. QED
    BY <2>1, <2>3, Phases DEF DeletionFits
<1>7. CASE DeletionFinish \/ deleter' = NoDeletion
  <2>1. deleter'.phase = "idle"
    BY <1>7, Phases DEF DeletionFinish
  <2>2. QED
    BY <2>1 DEF DeletionFits
<1>8. CASE deleter' = deleter /\ ~RequestDeletion
  <2>1. ASSUME deleter.phase # "idle"
        PROVE  rows' \subseteq rows
    BY <1>2, <1>8, <2>1, Frozen
  <2>2. QED
    BY <1>1, <1>8, <2>1 DEF DeletionFits
<1>9. QED
  BY <1>3, <1>4, <1>5, <1>6, <1>7, <1>8, DeleterLater DEF DeletionSteps

LEMMA IntentKept ==
  ASSUME Basics, Tame(kit), IntentFits, [Next]_vars
  PROVE  IntentFits'
<1> USE DEF bindVars, bindUnchanged, scene, others, Basics
<1>0. builder \in Resting \cup Planning \cup Creating \cup Replacing
  BY DEF TypeInv, BuildType
<1>1. CASE RequestDeletion
  BY <1>1, RejectedHolds DEF RequestDeletion, IntentFits
<1>2. CASE DeletionSteps
  <2>1. deleter # NoDeletion
    BY <1>2, Phases
       DEF DeletionSteps, DeletionLoad, DeletionCall, DeletionRemove, DeletionFinish
  <2>2. source = "DELETING" /\ builder' = builder
    BY <1>2, <2>1
       DEF PhaseInv, DeletionSteps, DeletionLoad, DeletionCall, DeletionRemove, DeletionFinish
  <2>3. QED
    BY <2>2 DEF IntentFits
<1>3. CASE Enqueue
  <2>1. \/ builder' = NotBuilding
        \/ source = "ACTIVE" \/ Fails("stale")
    BY <1>3 DEF Enqueue
  <2>2. "recreate" \in kit.sagas /\ source' = source
    BY <1>3 DEF Enqueue, Used
  <2>3. QED
    BY <2>1, <2>2, TameMeans, Phases DEF IntentFits, Fails
<1>4. CASE BuildSteps \/ \E r \in rows : Plan(r)
  <2>1. source' = source
    BY <1>4
       DEF BuildSteps, Plan, Enqueue, BuildLoad, BuildCreate, BuildStop, BuildStart, BuildSwitch,
           BuildCommit, BuildUndo, BuildRetire
  <2>2. CASE \E r \in rows : Plan(r)
    BY <2>1, <2>2 DEF Plan, IntentFits
  <2>3. CASE BuildLoad
    <3>1. builder' = NotBuilding \/ \E a : builder' = [builder EXCEPT !.phase = "creating", !.old = a]
      BY <2>3 DEF BuildLoad
    <3>2. builder'.live => builder.live
      BY <1>0, <3>1, Phases DEF Resting, Planning, Creating, Replacing
    <3>3. QED
      BY <2>1, <3>2 DEF IntentFits
  <2>4. CASE BuildCreate
    <3>1. builder' = NotBuilding \/ \E a : builder' = [builder EXCEPT !.phase = "stopping", !.new = a]
      BY <2>4 DEF BuildCreate
    <3>2. builder'.live => builder.live
      BY <1>0, <3>1, Phases DEF Resting, Planning, Creating, Replacing
    <3>3. QED
      BY <2>1, <3>2 DEF IntentFits
  <2>5. ASSUME NEW phase, NEW a, NEW state, NEW next, BuildSwitch(phase, a, state, next)
        PROVE  IntentFits'
    <3>1. \/ builder' = [builder EXCEPT !.phase = next, !.oldOff = TRUE]
          \/ builder' = [builder EXCEPT !.phase = "undoing"]
      BY <2>5 DEF BuildSwitch
    <3>2. builder'.live => builder.live
      BY <1>0, <3>1 DEF Resting, Planning, Creating, Replacing
    <3>3. QED
      BY <2>1, <3>2 DEF IntentFits
  <2>6. CASE BuildCommit
    <3>1. \/ builder' = [builder EXCEPT !.phase = "retiring", !.live = FALSE]
          \/ builder' = [builder EXCEPT !.phase = "undoing"]
      BY <2>6 DEF BuildCommit
    <3>2. builder'.live => builder.live
      BY <1>0, <3>1 DEF Resting, Planning, Creating, Replacing
    <3>3. QED
      BY <2>1, <3>2 DEF IntentFits
  <2>7. CASE BuildUndo \/ BuildRetire
    BY <2>7, Phases DEF BuildUndo, BuildRetire, IntentFits
  <2>8. QED
    BY <1>3, <1>4, <2>2, <2>3, <2>4, <2>5, <2>6, <2>7 DEF BuildSteps, BuildStop, BuildStart
<1>5. CASE \/ \E h \in history : Clean(h) \/ CleanFails(h)
           \/ \E x \in present : Vanish(x)
           \/ \E a \in sweeper : Sweep(a)
  <2>1. source' = source /\ (builder' = builder \/ builder' = Rejected)
    BY <1>5 DEF Clean, CleanFails, Vanish, Sweep
  <2>2. QED
    BY <2>1, RejectedHolds DEF IntentFits
<1>6. CASE Restart
  BY <1>6, Phases DEF Restart, IntentFits
<1>7. CASE Binding \/ UNCHANGED vars
  <2>1. UNCHANGED <<source, builder>>
    BY <1>7
       DEF Binding, Deploying, Submit, JobStart, JobGroup, JobCommit, JobRollback,
           Mapping, MapLoad, MapCreate, MapStop, MapDelete, MapCommit, MapRestore, MapUndo,
           Making, MakeCheck, MakeCreate, MakeInsert, vars
  <2>2. QED
    BY <2>1 DEF IntentFits
<1>8. QED
  BY <1>1, <1>2, <1>4, <1>5, <1>6, <1>7 DEF Next

LEMMA EmptiedKept ==
  ASSUME Basics, Tame(kit), IntentFits, Emptied, [Next]_vars
  PROVE  Emptied'
<1>1. source' = "gone" => source = "gone" \/ rows' = {}
  BY DEF Next, Binding, Deploying, Submit, JobStart, JobGroup, JobCommit, JobRollback,
         Mapping, MapLoad, MapCreate, MapStop, MapDelete, MapCommit, MapRestore, MapUndo,
         Making, MakeCheck, MakeCreate, MakeInsert,
         RequestDeletion, DeletionSteps, DeletionLoad, DeletionCall, DeletionRemove, DeletionFinish,
         BuildSteps, Plan, Enqueue, BuildLoad, BuildCreate, BuildStop, BuildStart, BuildSwitch,
         BuildCommit, BuildUndo, BuildRetire, Clean, CleanFails, Vanish, Sweep, Restart, vars,
         bindVars, bindUnchanged, scene
<1>2. source' = "gone" => ~RequestDeletion
  BY DEF RequestDeletion
<1>3. QED
  BY <1>1, <1>2, Frozen DEF Emptied

RowsKnown == \A h \in history : \E r \in rows : r.id = h.row

LEMMA RowsKnownKept ==
  ASSUME Basics, RowsKnown, [Next]_vars
  PROVE  RowsKnown'
<1> USE DEF bindVars, bindUnchanged, scene, others
<1>0. rows \in SUBSET RowType
  BY DEF Basics, TypeInv
<1>1. ASSUME history' \subseteq history, rows \subseteq rows'
      PROVE  RowsKnown'
  BY <1>1 DEF RowsKnown
<1>2. ASSUME NEW ids, Without(ids) \subseteq rows', history' = Forgetting(ids)
      PROVE  RowsKnown'
  BY <1>2 DEF RowsKnown, Without, Forgetting
<1>3. ASSUME history' \subseteq history, \A r \in rows : \E x \in rows' : x.id = r.id
      PROVE  RowsKnown'
  BY <1>3 DEF RowsKnown
<1>4. CASE Deploying
  BY <1>1, <1>4 DEF Deploying, Submit, JobStart, JobGroup, JobCommit, JobRollback
<1>5. CASE MapCommit
  BY <1>1, <1>2, <1>5 DEF MapCommit
<1>6. CASE MapRestore
  <2>1. /\ history' = history
        /\ \/ rows' = rows
           \/ \E r \in mapper.deleted :
                rows' = {IF q.id = r.id THEN [q EXCEPT !.account = Len(node')] ELSE q : q \in rows}
    BY <1>6, Zenon DEF MapRestore
  <2>2. ASSUME NEW r \in mapper.deleted,
               rows' = {IF q.id = r.id THEN [q EXCEPT !.account = Len(node')] ELSE q : q \in rows}
        PROVE  \A s \in rows : \E x \in rows' : x.id = s.id
    <3> DEFINE New(q) == IF q.id = r.id THEN [q EXCEPT !.account = Len(node')] ELSE q
    <3>1. \A q \in rows : New(q) \in rows' /\ New(q).id = q.id
      BY <1>0, <2>2 DEF RowType
    <3> HIDE DEF New
    <3>2. QED
      BY <3>1
  <2>3. QED
    BY <1>1, <1>3, <2>1, <2>2
<1>7. CASE Mapping
  BY <1>1, <1>5, <1>6, <1>7 DEF Mapping, MapLoad, MapCreate, MapStop, MapDelete, MapUndo
<1>8. CASE Making
  BY <1>1, <1>8 DEF Making, MakeCheck, MakeCreate, MakeInsert
<1>9. CASE RequestDeletion
  <2>1. history' = history /\ rows' = {[r EXCEPT !.on = FALSE] : r \in rows}
    BY <1>9 DEF RequestDeletion
  <2> DEFINE New(r) == [r EXCEPT !.on = FALSE]
  <2>2. \A r \in rows : New(r) \in rows' /\ New(r).id = r.id
    BY <1>0, <2>1 DEF RowType
  <2> HIDE DEF New
  <2>3. QED
    BY <1>3, <2>1, <2>2
<1>10. CASE DeletionRemove
  BY <1>1, <1>2, <1>10 DEF DeletionRemove
<1>11. CASE DeletionSteps
  BY <1>1, <1>10, <1>11 DEF DeletionSteps, DeletionLoad, DeletionCall, DeletionFinish
<1>12. CASE BuildCommit
  <2> DEFINE mine == {r \in rows : r.id = builder.id /\ r.account = builder.old}
             New(r) == [r EXCEPT !.account = builder.new, !.on = TRUE]
  <2>1. \/ /\ mine # {} /\ rows' = (rows \ mine) \cup {New(r) : r \in mine}
           /\ history' = Retired(builder.id, builder.old)
        \/ UNCHANGED <<rows, history>>
    BY <1>12 DEF BuildCommit
  <2>2. ASSUME mine # {}, rows' = (rows \ mine) \cup {New(r) : r \in mine},
               history' = Retired(builder.id, builder.old)
        PROVE  RowsKnown'
    <3>1. \A r \in mine : New(r).id = r.id /\ r.id = builder.id
      BY <1>0 DEF RowType
    <3>2. \A r \in rows : r \in rows' \/ (r \in mine /\ New(r) \in rows')
      BY <2>2
    <3> HIDE DEF New, mine
    <3>3. \A r \in mine : New(r) \in rows'
      BY <2>2
    <3>4. \A r \in rows : \E x \in rows' : x.id = r.id
      BY <3>1, <3>2
    <3>5. \E x \in rows' : x.id = builder.id
      BY <2>2, <3>1, <3>3
    <3>6. \A h \in history' : h \in history \/ h.row = builder.id
      BY <2>2 DEF Retired
    <3>7. QED
      BY <3>4, <3>5, <3>6 DEF RowsKnown
  <2>3. QED
    BY <1>1, <2>1, <2>2
<1>13. CASE BuildSteps \/ \E r \in rows : Plan(r)
  <2>1. CASE BuildRetire
    BY <1>1, <2>1 DEF BuildRetire
  <2>2. QED
    BY <1>1, <1>12, <1>13, <2>1
       DEF BuildSteps, Plan, Enqueue, BuildLoad, BuildCreate, BuildStop, BuildStart, BuildSwitch,
           BuildUndo
<1>14. ASSUME NEW x \in present, Vanish(x)
       PROVE  RowsKnown'
  <2>1. \E ids : Without(ids) \subseteq rows' /\ history' = Forgetting(ids)
    <3> DEFINE swept == {r \in rows : x \in {r.group, r.slot}}
               ids == {r.id : r \in swept}
    <3>1. rows' = rows \ swept /\ history' = Forgetting(ids)
      BY <1>14 DEF Vanish
    <3>2. Without(ids) \subseteq rows'
      BY <3>1 DEF Without
    <3>3. QED
      BY <3>1, <3>2
  <2>2. QED
    BY <1>2, <2>1
<1>15. CASE (\E h \in history : Clean(h) \/ CleanFails(h)) \/ \E a \in sweeper : Sweep(a)
  BY <1>1, <1>15 DEF Clean, CleanFails, Sweep
<1>16. CASE Restart \/ UNCHANGED vars
  BY <1>1, <1>16 DEF Restart, vars
<1>17. QED
  BY <1>4, <1>7, <1>8, <1>9, <1>11, <1>13, <1>14, <1>15, <1>16 DEF Next, Binding

LEMMA RetiringLater ==
  ASSUME Basics, [Next]_vars, ~BuildSteps, ~\E r \in rows : Plan(r), ~Restart
  PROVE  InRetiring' = InRetiring /\ history' \subseteq history
<1> USE DEF bindVars, bindUnchanged, scene, others, Basics
<1>1. builder' = builder \/ builder' = Rejected
  BY DEF Next, Binding, RequestDeletion, DeletionSteps, DeletionLoad, DeletionCall, DeletionRemove,
         DeletionFinish, Clean, CleanFails, Vanish, Sweep, vars
<1>2. history' \subseteq history
  BY DEF Next, Binding, Deploying, Submit, JobStart, JobGroup, JobCommit, JobRollback,
         Mapping, MapLoad, MapCreate, MapStop, MapDelete, MapCommit, MapRestore, MapUndo,
         Making, MakeCheck, MakeCreate, MakeInsert,
         RequestDeletion, DeletionSteps, DeletionLoad, DeletionCall, DeletionRemove,
         DeletionFinish, Clean, CleanFails, Vanish, Sweep, vars, Forgetting
<1>3. QED
  BY <1>1, <1>2, RejectedHolds DEF InRetiring

(* While retired accounts are there and a call may fail, only their own    *)
(* deletion takes them from the history.                                   *)
LEMMA HistoryStays ==
  ASSUME Basics, Tame(kit), [Next]_vars, ~BuildSteps, "call" \in kit.faults,
         "recreate" \in kit.sagas
  PROVE  AccountsOf(history) \subseteq AccountsOf(history') \cup Dead'
<1> USE DEF bindVars, bindUnchanged, scene, others, Basics
<1>1. /\ mapper.phase = "idle" /\ deleter.phase = "idle" /\ "sweep" \notin kit.sagas
  BY Phases DEF Tame, Used, PhaseInv
<1>2. ASSUME NEW h \in history, Clean(h)
      PROVE  AccountsOf(history) \subseteq AccountsOf(history') \cup Dead'
  <2>1. node' = With({h.account}, "gone") /\ history' = history \ {h}
    BY <1>2 DEF Clean
  <2>2. h.account \in Accounts
    BY DEF TypeInv, RetiredType
  <2>3. h.account \in Dead'
    BY <2>1, <2>2, NodeDeletes, DeadStays DEF TypeInv
  <2>4. QED
    BY <2>1, <2>3 DEF AccountsOf
<1>3. history' = history \/ \E h \in history : Clean(h)
  BY <1>1
     DEF Next, Binding, Deploying, Submit, JobStart, JobGroup, JobCommit, JobRollback,
         Mapping, MapLoad, MapCreate, MapStop, MapDelete, MapCommit, MapRestore, MapUndo,
         Making, MakeCheck, MakeCreate, MakeInsert,
         RequestDeletion, DeletionSteps, DeletionLoad, DeletionCall, DeletionRemove,
         DeletionFinish, Plan, CleanFails, Vanish, Sweep, Restart, Requested, vars
<1>4. QED
  BY <1>2, <1>3

LEMMA HistoryKept ==
  ASSUME Basics, Tame(kit), HistoryFits, [Next]_vars
  PROVE  HistoryFits'
<1> USE DEF bindVars, bindUnchanged, Basics
<1>1. Dead \subseteq Dead' /\ lost \subseteq lost' /\ kit' = kit
  <2>1. kit' = kit
    BY DEF Next, Binding, Deploying, Submit, JobStart, JobGroup, JobCommit, JobRollback,
           Mapping, MapLoad, MapCreate, MapStop, MapDelete, MapCommit, MapRestore, MapUndo,
           Making, MakeCheck, MakeCreate, MakeInsert,
           RequestDeletion, DeletionSteps, DeletionLoad, DeletionCall, DeletionRemove, DeletionFinish,
           BuildSteps, Plan, Enqueue, BuildLoad, BuildCreate, BuildStop, BuildStart, BuildSwitch,
           BuildCommit, BuildUndo, BuildRetire, Clean, CleanFails, Vanish, Sweep, Restart, vars,
           scene, others
  <2>2. QED
    BY <2>1, NodeMoves, DeadStays, LostStays
<1>2. RowsKnown'
  BY RowsKnownKept DEF HistoryFits, RowsKnown
<1>3. ASSUME "delete" \in kit.sagas \/ "sweep" \in kit.sagas
             => AccountsOf(history') \subseteq Dead' \cup lost' \cup InRetiring',
             "call" \in kit.faults => InRetiring' \subseteq Dead' \cup lost' \cup AccountsOf(history')
      PROVE  HistoryFits'
  <2>1. AccountsOf(history)' = AccountsOf(history')
    BY DEF AccountsOf
  <2>2. QED
    BY <1>1, <1>2, <1>3, <2>1 DEF HistoryFits, RowsKnown
<1>4. CASE ~BuildSteps /\ ~(\E r \in rows : Plan(r)) /\ ~Restart
  <2>1. InRetiring' = InRetiring /\ AccountsOf(history') \subseteq AccountsOf(history)
    BY <1>4, RetiringLater, AccountsGrow
  <2>2. ASSUME "call" \in kit.faults, InRetiring # {}
        PROVE  InRetiring' \subseteq Dead' \cup lost' \cup AccountsOf(history')
    <3>1. "recreate" \in kit.sagas
      BY <2>2 DEF InRetiring, Used
    <3>2. AccountsOf(history) \subseteq AccountsOf(history') \cup Dead'
      BY <1>4, <2>2, <3>1, HistoryStays
    <3>3. QED
      BY <1>1, <2>1, <2>2, <3>2 DEF HistoryFits
  <2>3. QED
    BY <1>1, <1>3, <2>1, <2>2 DEF HistoryFits
<1>5. CASE Restart
  <2>1. /\ history' = history /\ builder' = NotBuilding
        /\ lost' = lost \cup {a \in InHand : ~Gone(a)}
    BY <1>5 DEF Restart
  <2>2. InRetiring \subseteq Dead' \cup lost'
    BY <1>1, <2>1, InHandIs, HandsAreAccounts DEF Dead, Gone
  <2>3. InRetiring' = {}
    BY <2>1, Phases DEF InRetiring
  <2>4. QED
    BY <1>1, <1>3, <2>1, <2>2, <2>3 DEF HistoryFits
<1>6. CASE BuildCommit
  <2>0. builder \in Replacing /\ builder.phase = "committing"
    BY <1>6 DEF BuildCommit, TypeInv, BuildType, Resting, Planning, Creating
  <2>1. \/ /\ history' = Retired(builder.id, builder.old)
           /\ builder' = [builder EXCEPT !.phase = "retiring", !.live = FALSE]
        \/ /\ history' = history
           /\ builder' = [builder EXCEPT !.phase = "undoing"]
    BY <1>6 DEF BuildCommit
  <2>2. InRetiring = {}
    BY <2>0 DEF InRetiring
  <2>3. CASE /\ history' = Retired(builder.id, builder.old)
             /\ builder' = [builder EXCEPT !.phase = "retiring", !.live = FALSE]
    <3>1. builder'.phase = "retiring" /\ builder'.old = builder.old
      BY <2>0, <2>3 DEF Replacing
    <3>2. InRetiring' = {builder.old}
      BY <3>1 DEF InRetiring
    <3>3. AccountsOf(history') \subseteq AccountsOf(history) \cup {builder.old}
      BY <2>3 DEF Retired, AccountsOf
    <3>4. builder.old \in AccountsOf(history')
      <4>1. [row |-> builder.id, account |-> builder.old] \in history'
        BY <2>3 DEF Retired
      <4>2. [row |-> builder.id, account |-> builder.old].account = builder.old
        OBVIOUS
      <4>3. QED
        BY <4>1, <4>2 DEF AccountsOf
    <3>5. QED
      BY <1>1, <1>3, <2>2, <3>2, <3>3, <3>4 DEF HistoryFits
  <2>4. CASE history' = history /\ builder' = [builder EXCEPT !.phase = "undoing"]
    <3>1. builder'.phase = "undoing"
      BY <2>0, <2>4 DEF Replacing
    <3>2. InRetiring' = {}
      BY <3>1 DEF InRetiring
    <3>3. QED
      BY <1>1, <1>3, <2>2, <2>4, <3>2 DEF HistoryFits
  <2>5. QED
    BY <2>1, <2>3, <2>4
<1>7. CASE BuildRetire
  <2>1. /\ builder.phase = "retiring" /\ builder' = NotBuilding
        /\ \/ /\ node' = With({builder.old}, "gone")
              /\ history' = {h \in history : h.account # builder.old}
           \/ Fails("call") /\ history' = history
    BY <1>7 DEF BuildRetire
  <2>2. InRetiring = {builder.old} /\ InRetiring' = {}
    BY <2>1, Phases DEF InRetiring
  <2>3. CASE /\ node' = With({builder.old}, "gone")
             /\ history' = {h \in history : h.account # builder.old}
    <3>1. AccountsOf(history') \subseteq AccountsOf(history) \ {builder.old}
      BY <2>3 DEF AccountsOf
    <3>2. QED
      BY <1>1, <1>3, <2>2, <3>1 DEF HistoryFits
  <2>4. CASE Fails("call") /\ history' = history
    <3>1. "recreate" \in kit.sagas
      BY <2>1 DEF Used
    <3>2. "delete" \notin kit.sagas /\ "sweep" \notin kit.sagas
      BY <2>4, <3>1 DEF Tame, Fails
    <3>3. QED
      BY <1>3, <2>2, <3>2
  <2>5. QED
    BY <2>1, <2>3, <2>4
<1>8. CASE (\E r \in rows : Plan(r)) \/ (BuildSteps /\ ~BuildCommit /\ ~BuildRetire)
  <2>0. builder \in Resting \cup Planning \cup Creating \cup Replacing
    BY DEF TypeInv, BuildType
  <2>1. history' = history
    BY <1>8 DEF BuildSteps, Plan, Enqueue, BuildLoad, BuildCreate, BuildStop, BuildStart,
                BuildSwitch, BuildUndo
  <2>2. InRetiring = {} /\ InRetiring' = {}
    <3>1. builder.phase # "retiring"
      BY <1>8, Phases DEF BuildSteps, Plan, Enqueue, BuildLoad, BuildCreate, BuildStop, BuildStart,
                          BuildSwitch, BuildUndo
    <3>2. ASSUME NEW r \in rows, Plan(r)
          PROVE  builder'.phase # "retiring"
      BY <3>2 DEF Plan, NotBuilding
    <3>3. ASSUME BuildSteps, ~BuildCommit, ~BuildRetire, builder' # NotBuilding
          PROVE  builder'.phase # "retiring"
      <4>1. \/ builder' = [builder EXCEPT !.phase = "queued", !.live = TRUE]
            \/ \E a : builder' = [builder EXCEPT !.phase = "creating", !.old = a]
            \/ \E a : builder' = [builder EXCEPT !.phase = "stopping", !.new = a]
            \/ builder' = [builder EXCEPT !.phase = "starting", !.oldOff = TRUE]
            \/ builder' = [builder EXCEPT !.phase = "committing", !.oldOff = TRUE]
            \/ builder' = [builder EXCEPT !.phase = "undoing"]
        BY <3>3 DEF BuildSteps, Enqueue, BuildLoad, BuildCreate, BuildStop, BuildStart, BuildSwitch,
                    BuildUndo
      <4>2. builder'.phase # "retiring"
        BY <2>0, <4>1 DEF Resting, Planning, Creating, Replacing
      <4>3. QED
        BY <4>2
    <3>4. builder'.phase # "retiring"
      BY <1>8, <3>2, <3>3, Phases
    <3>5. QED
      BY <3>1, <3>4 DEF InRetiring
  <2>3. QED
    BY <1>1, <1>3, <2>1, <2>2 DEF HistoryFits
<1>9. QED
  BY <1>4, <1>5, <1>6, <1>7, <1>8

(* What every step of the process leaves settled. *)
LEMMA Grows ==
  ASSUME Basics, [Next]_vars
  PROVE  Dead \subseteq Dead' /\ lost \subseteq lost'
BY NodeMoves, DeadStays, LostStays DEF Basics

LEMMA NoneBorn ==
  ASSUME TypeInv
  PROVE  /\ node' = node => Accounts' \ Accounts = {}
         /\ \A as : node' = With(as, "gone") => Accounts' \ Accounts = {} /\ as \cap Accounts \subseteq Dead'
         /\ \A as, state : state \in {"stopped", "running"} /\ (\A a \in as : ~Gone(a))
                           /\ node' = With(as, state) => Accounts' \ Accounts = {}
         /\ \A state : state \in {"stopped", "running"} /\ node' = Append(node, state)
                       => Accounts' \ Accounts \subseteq {Len(node')}
<1>1. node \in Seq(States)
  BY DEF TypeInv
<1>2. node' = node => Accounts' \ Accounts = {}
  BY DEF Accounts
<1>3. ASSUME NEW as, node' = With(as, "gone")
      PROVE  Accounts' \ Accounts = {} /\ as \cap Accounts \subseteq Dead'
  <2>1. NodeStep(as) /\ Len(node') = Len(node)
    BY <1>1, <1>3, NodeDeletes
  <2>2. QED
    BY <2>1, DeadStays
<1>4. ASSUME NEW as, NEW state \in {"stopped", "running"}, \A a \in as : ~Gone(a),
             node' = With(as, state)
      PROVE  Accounts' \ Accounts = {}
  <2>1. NodeStep({}) /\ Len(node') = Len(node)
    BY <1>1, <1>4, NodeSwitches
  <2>2. QED
    BY <2>1, DeadStays
<1>5. ASSUME NEW state \in {"stopped", "running"}, node' = Append(node, state)
      PROVE  Accounts' \ Accounts \subseteq {Len(node')}
  <2>1. Len(node') = Len(node) + 1 /\ Len(node) \in Nat
    BY <1>1, <1>5
  <2>2. \A n \in Nat : (1 .. n + 1) \ (1 .. n) \subseteq {n + 1}
    OBVIOUS
  <2>3. QED
    BY <2>1, <2>2 DEF Accounts
<1>6. QED
  BY <1>2, <1>3, <1>4, <1>5

LEMMA DeployingLoses ==
  ASSUME Basics, NoneLost, [Next]_vars, Deploying, UNCHANGED others
  PROVE  NoneLost'
<1> USE DEF others, scene, Basics
<1>0. jobs \in [Jobs -> JobType] /\ \A k \in Jobs : jobs[k] \in JobType
  BY DEF TypeInv
<1>1. UNCHANGED <<mapper, maker, history, builder, deleter, sweeper>>
  BY DEF Deploying, Submit, JobStart, JobGroup, JobCommit, JobRollback
<1>2. rows \subseteq rows'
  BY DEF Deploying, Submit, JobStart, JobGroup, JobCommit, JobRollback
<1>3. /\ Made \subseteq Settled' /\ sweeper \subseteq Settled' /\ InMaking \subseteq Settled'
      /\ InBuilding \subseteq Settled' /\ InRetiring \subseteq Settled'
      /\ AccountsOf(history) \subseteq Settled'
  BY <1>1, HandsKept, HandsSettled
<1>4. Bound \subseteq Settled'
  <2>1. Bound \subseteq Bound'
    BY <1>2, AccountsGrow DEF Bound
  <2>2. QED
    BY <2>1, HandsSettled
<1>5. ASSUME \A k \in Jobs : Held[k] \subseteq Settled', Accounts' \ Accounts \subseteq Settled'
      PROVE  NoneLost'
  BY <1>3, <1>4, <1>5, Grows, NoneLostKept
<1>6. ASSUME NEW k \in Jobs, jobs[k].held \subseteq jobs'[k].held
      PROVE  Held[k] \subseteq Settled'
  <2>1. Held[k] \subseteq Held'[k]
    BY <1>6, AccountsGrow DEF Held
  <2>2. QED
    BY <2>1, HandsSettled
<1>7. ASSUME NEW j \in Jobs,
             \/ \E gs \in SUBSET Groups \ {{}}, ss \in SUBSET Slots \ {{}} : Submit(j, gs, ss)
             \/ JobStart(j)
      PROVE  NoneLost'
  <2>1. \A k \in Jobs : jobs[k].held \subseteq jobs'[k].held
    <3>1. CASE \E gs, ss : Submit(j, gs, ss)
      <4>1. PICK gs, ss : Submit(j, gs, ss)
        BY <3>1
      <4>2. /\ jobs[j] = NoJob
            /\ jobs' = [jobs EXCEPT ![j] = [NoJob EXCEPT !.status = "QUEUED", !.groups = gs,
                                                         !.slots = ss, !.runs = TRUE]]
        BY <4>1 DEF Submit
      <4>3. jobs[j].held = {}
        <5>1. NoJob.held = {}
          BY DEF NoJob
        <5>2. QED
          BY <4>2, <5>1
      <4>4. \A k \in Jobs : k # j => jobs'[k] = jobs[k]
        BY <1>0, <4>2
      <4>5. QED
        BY <4>3, <4>4
    <3>2. CASE JobStart(j)
      <4>1. PICK status : jobs' = [jobs EXCEPT ![j].status = status]
        BY <3>2 DEF JobStart
      <4>2. QED
        BY <1>0, <4>1 DEF JobType
    <3>3. QED
      BY <1>7, <3>1, <3>2
  <2>2. node' = node
    BY <1>7 DEF Submit, JobStart
  <2>3. QED
    BY <1>5, <1>6, <2>1, <2>2, NoneBorn
<1>8. ASSUME NEW j \in Jobs, JobGroup(j)
      PROVE  NoneLost'
  <2>1. PICK g \in jobs[j].groups \ jobs[j].done, c \in Creations(jobs[j].slots) :
          /\ node' = Born(c) /\ lost' = lost \cup Strays(c)
          /\ jobs' = [jobs EXCEPT
               ![j].status = IF c.made = jobs[j].slots THEN @ ELSE "FAILED",
               ![j].done   = @ \cup {g},
               ![j].held   = @ \cup {Row(g, n.slot, n.account, FALSE) : n \in Named(c)}]
    BY <1>8 DEF JobGroup
  <2>2. \A a \in Accounts' \ Accounts : a \in AccountsOf(Named(c)) \cup Strays(c)
    <3>1. jobs[j].slots \in SUBSET Slots
      BY <1>0 DEF JobType
    <3>2. QED
      BY <2>1, <3>1, Births DEF TypeInv
  <2> DEFINE new == {Row(g, n.slot, n.account, FALSE) : n \in Named(c)}
  <2>3. /\ \A k \in Jobs : k # j => jobs'[k] = jobs[k]
        /\ jobs'[j].held = jobs[j].held \cup new
    BY <1>0, <2>1 DEF JobType
  <2>4. AccountsOf(Named(c)) \subseteq AccountsOf(new)
    <3>1. \A n \in Named(c) : /\ Row(g, n.slot, n.account, FALSE) \in new
                              /\ Row(g, n.slot, n.account, FALSE).account = n.account
      BY DEF Row
    <3> HIDE DEF new
    <3>2. QED
      BY <3>1 DEF AccountsOf
  <2> HIDE DEF new
  <2>5. AccountsOf(new) \subseteq Held'[j]
    BY <2>3, AccountsGrow DEF Held
  <2>6. \A a \in Accounts' \ Accounts : a \in Held'[j] \cup lost'
    BY <2>1, <2>2, <2>4, <2>5
  <2>7. \A k \in Jobs : jobs[k].held \subseteq jobs'[k].held
    BY <2>3
  <2>8. QED
    BY <1>5, <1>6, <2>6, <2>7, HandsSettled
<1>9. ASSUME NEW j \in Jobs, JobCommit(j)
      PROVE  NoneLost'
  <2>1. \/ /\ rows' = rows \cup jobs[j].held
           /\ jobs' = [jobs EXCEPT ![j] = [@ EXCEPT !.status = "COMPLETED", !.held = {}]]
        \/ jobs' = [jobs EXCEPT ![j] = [@ EXCEPT !.status = "FAILED"]]
    BY <1>0, <1>9 DEF JobCommit
  <2>2. node' = node
    BY <1>9 DEF JobCommit
  <2>3. \A k \in Jobs : k # j => jobs'[k].held = jobs[k].held
    BY <1>0, <2>1
  <2>4. Held[j] \subseteq Settled'
    <3>1. CASE rows' = rows \cup jobs[j].held
      <4>1. Held[j] \subseteq Bound'
        BY <3>1, AccountsGrow DEF Held, Bound
      <4>2. QED
        BY <4>1, HandsSettled
    <3>2. CASE jobs' = [jobs EXCEPT ![j] = [@ EXCEPT !.status = "FAILED"]]
      <4>1. jobs'[j].held = jobs[j].held
        BY <1>0, <3>2 DEF JobType
      <4>2. QED
        BY <1>6, <4>1
    <3>3. QED
      BY <2>1, <3>1, <3>2
  <2>5. QED
    BY <1>5, <1>6, <2>2, <2>3, <2>4, NoneBorn
<1>10. ASSUME NEW j \in Jobs, JobRollback(j)
       PROVE  NoneLost'
  <2>1. PICK kept : /\ node' = With(AccountsOf(jobs[j].held) \ kept, "gone")
                    /\ lost' = lost \cup kept
    BY <1>10 DEF JobRollback, RolledBack
  <2>2. \A k \in Jobs : k # j => jobs'[k].held = jobs[k].held
    BY <1>0, <1>10 DEF JobRollback
  <2>3. Held[j] \subseteq Dead' \cup lost'
    <3>1. Held[j] \in SUBSET Accounts
      BY HandsAreAccounts
    <3>2. (Held[j] \ kept) \cap Accounts \subseteq Dead'
      BY <2>1, NoneBorn DEF Held
    <3>3. QED
      BY <2>1, <3>1, <3>2
  <2>4. QED
    BY <1>5, <1>6, <2>1, <2>2, <2>3, NoneBorn, HandsSettled
<1>11. QED
  BY <1>7, <1>8, <1>9, <1>10 DEF Deploying

LEMMA MappingLoses ==
  ASSUME Basics, Owned, Tame(kit), NoneLost, EditFits, [Next]_vars, Mapping, UNCHANGED others
  PROVE  NoneLost'
<1> USE DEF others, scene, Basics
<1>0. mapper.phase # "idle" => mapper \in Editing /\ history = {}
  BY TameMeans, Phases DEF TypeInv, EditType
<1>1. UNCHANGED <<jobs, maker, builder, deleter, sweeper>>
  BY DEF Mapping, MapLoad, MapCreate, MapStop, MapDelete, MapCommit, MapRestore, MapUndo
<1>2. /\ \A j \in Jobs : Held[j] \subseteq Settled'
      /\ sweeper \subseteq Settled' /\ InMaking \subseteq Settled'
      /\ InBuilding \subseteq Settled' /\ InRetiring \subseteq Settled'
  BY <1>1, HandsKept, HandsSettled
<1>3. AccountsOf(history) \subseteq Settled'
  <2>1. CASE history' = history
    BY <2>1, HandsSettled
  <2>2. CASE history = {}
    BY <2>2 DEF AccountsOf
  <2>3. history' = history \/ history = {}
    BY <1>0 DEF Mapping, MapLoad, MapCreate, MapStop, MapDelete, MapCommit, MapRestore, MapUndo
  <2>4. QED
    BY <2>1, <2>2, <2>3
<1>4. ASSUME Made \subseteq Settled', Bound \subseteq Settled', Accounts' \ Accounts \subseteq Settled'
      PROVE  NoneLost'
  BY <1>2, <1>3, <1>4, Grows, NoneLostKept
<1>5. rows' = rows => Bound \subseteq Settled'
  BY HandsKept, HandsSettled
<1>6. mapper'.made = mapper.made => Made \subseteq Settled'
  BY HandsSettled DEF Made
<1>7. mapper.made = {} => Made \subseteq Settled'
  BY DEF Made, AccountsOf
<1>8. ASSUME NEW g \in Groups, NEW desired \in SUBSET Slots, MapLoad(g, desired)
      PROVE  NoneLost'
  <2>1. mapper.made = {} /\ UNCHANGED <<node, rows>>
    BY <1>8, Phases DEF MapLoad
  <2>2. QED
    BY <1>4, <1>5, <1>7, <2>1, NoneBorn
<1>9. CASE MapCreate
  <2>1. PICK c \in Creations(mapper.added) :
          /\ node' = Born(c) /\ lost' = lost \cup Strays(c)
          /\ mapper' = IF c.made = mapper.added
                       THEN [mapper EXCEPT !.phase = "stopping", !.made = Named(c)]
                       ELSE [mapper EXCEPT !.phase = "undoing", !.made = Named(c),
                                           !.removed = {}]
    BY <1>9 DEF MapCreate
  <2>2. mapper \in Editing /\ rows' = rows /\ mapper.made = {}
    BY <1>0, <1>9 DEF MapCreate, PhaseInv
  <2>3. \A a \in Accounts' \ Accounts : a \in AccountsOf(Named(c)) \cup Strays(c)
    <3>1. mapper.added \in SUBSET Slots
      BY <2>2 DEF Editing
    <3>2. QED
      BY <2>1, <3>1, Births DEF TypeInv
  <2>4. mapper'.made = Named(c)
    BY <2>1, <2>2 DEF Editing
  <2>5. Made' = AccountsOf(Named(c))
    BY <2>4 DEF Made, AccountsOf
  <2>6. Accounts' \ Accounts \subseteq Settled'
    BY <2>1, <2>3, <2>5, HandsSettled
  <2>7. QED
    BY <1>4, <1>5, <1>7, <2>2, <2>6
<1>10. CASE MapStop
  <2>1. mapper \in Editing /\ rows' = rows
    BY <1>0, <1>10 DEF MapStop
  <2>2. mapper'.made = mapper.made
    BY <1>10, <2>1 DEF MapStop, Editing
  <2>3. \E as : node' = With(as, "stopped") /\ \A a \in as : ~Gone(a)
    BY <1>10 DEF MapStop
  <2>4. Accounts' \ Accounts \subseteq Settled'
    BY <2>3, NoneBorn
  <2>5. QED
    BY <1>4, <1>5, <1>6, <2>1, <2>2, <2>4
<1>11. CASE MapDelete
  <2>1. mapper \in Editing /\ rows' = rows
    BY <1>0, <1>11 DEF MapDelete
  <2>2. mapper'.made = mapper.made
    BY <1>11, <2>1 DEF MapDelete, Editing
  <2>3. node' = node \/ \E as : node' = With(as, "gone")
    BY <1>11 DEF MapDelete
  <2>4. Accounts' \ Accounts \subseteq Settled'
    BY <2>3, NoneBorn
  <2>5. QED
    BY <1>4, <1>5, <1>6, <2>1, <2>2, <2>4
<1>12. CASE MapCommit
  <2> DEFINE ids == {r.id : r \in mapper.removed}
             New(n) == Row(mapper.group, n.slot, n.account, FALSE)
  <2>1. mapper \in Editing /\ node' = node /\ mapper.deleted = mapper.removed
    BY <1>0, <1>12 DEF MapCommit
  <2>2. \/ rows' = Without(ids) \cup {New(n) : n \in mapper.made} /\ mapper' = NoEdit
        \/ rows' = rows /\ mapper' = [mapper EXCEPT !.phase = "restoring"]
    BY <1>12 DEF MapCommit
  <2>3. Accounts' \ Accounts \subseteq Settled'
    BY <2>1, NoneBorn
  <2>4. CASE rows' = rows /\ mapper' = [mapper EXCEPT !.phase = "restoring"]
    <3>1. mapper'.made = mapper.made
      BY <2>1, <2>4 DEF Editing
    <3>2. QED
      BY <1>4, <1>5, <1>6, <2>3, <2>4, <3>1
  <2>5. CASE rows' = Without(ids) \cup {New(n) : n \in mapper.made} /\ mapper' = NoEdit
    <3>1. \A n \in mapper.made : New(n) \in rows' /\ New(n).account = n.account
      BY <2>5 DEF Row
    <3>2. \A r \in rows : r \in rows' \/ \E q \in mapper.removed : q.id = r.id
      BY <2>5 DEF Without
    <3> HIDE DEF New, ids
    <3>3. Made \subseteq Bound'
      BY <3>1 DEF Made, Bound, AccountsOf
    <3>4. \A r \in rows, q \in mapper.removed : q.id = r.id => r.account \in Dead
      BY <2>1 DEF EditFits, Owned, Unique
    <3>5. \A r \in rows : r \in rows' \/ r.account \in Dead
      BY <3>2, <3>4
    <3>6. Bound \subseteq Bound' \cup Dead
      BY <3>5 DEF Bound, AccountsOf
    <3>7. QED
      BY <1>4, <2>3, <3>3, <3>6, Grows, HandsSettled
  <2>6. QED
    BY <2>2, <2>4, <2>5
<1>13. CASE MapRestore
  <2>1. PICK r \in mapper.deleted :
          /\ mapper' = [mapper EXCEPT !.deleted = @ \ {r}, !.removed = @ \ {r}]
          /\ \/ UNCHANGED <<node, rows>>
             \/ \E state \in {"running", "stopped"} :
                  /\ node' = Append(node, state)
                  /\ \/ rows' = rows /\ lost' = lost \cup {Len(node')}
                     \/ rows' = {IF q.id = r.id THEN [q EXCEPT !.account = Len(node')] ELSE q :
                                   q \in rows}
    BY <1>13, Zenon DEF MapRestore
  <2>2. mapper \in Editing
    BY <1>0, <1>13 DEF MapRestore
  <2>3. mapper'.made = mapper.made
    BY <2>1, <2>2 DEF Editing
  <2>4. CASE UNCHANGED <<node, rows>>
    BY <1>4, <1>5, <1>6, <2>3, <2>4, NoneBorn
  <2>5. ASSUME NEW state \in {"running", "stopped"}, node' = Append(node, state),
               rows' = rows, lost' = lost \cup {Len(node')}
        PROVE  NoneLost'
    <3>1. Accounts' \ Accounts \subseteq lost'
      BY <2>5, NoneBorn
    <3>2. QED
      BY <1>4, <1>5, <1>6, <2>3, <2>5, <3>1, HandsSettled
  <2>6. ASSUME NEW state \in {"running", "stopped"}, node' = Append(node, state),
               rows' = {IF q.id = r.id THEN [q EXCEPT !.account = Len(node')] ELSE q : q \in rows}
        PROVE  NoneLost'
    <3> DEFINE New(q) == IF q.id = r.id THEN [q EXCEPT !.account = Len(node')] ELSE q
    <3>1. rows \in SUBSET RowType
      BY DEF TypeInv
    <3>2. r \in rows
      BY DEF EditFits, PhaseInv
    <3>3. \A q \in rows : /\ New(q) \in rows'
                          /\ New(q).account = IF q.id = r.id THEN Len(node') ELSE q.account
      BY <2>6, <3>1 DEF RowType
    <3> HIDE DEF New
    <3>4. \A q \in rows : q.id = r.id => q.account \in Dead
      BY <3>2 DEF Owned, Unique, EditFits
    <3>5. Bound \subseteq Bound' \cup Dead
      BY <3>3, <3>4 DEF Bound, AccountsOf
    <3>6. Len(node') \in Bound'
      BY <3>2, <3>3 DEF Bound, AccountsOf
    <3>7. Accounts' \ Accounts \subseteq Bound'
      BY <2>6, <3>6, NoneBorn
    <3>8. QED
      BY <1>4, <1>6, <2>3, <3>5, <3>7, Grows, HandsSettled
  <2>7. QED
    BY <2>1, <2>4, <2>5, <2>6
<1>14. CASE MapUndo
  <2>1. PICK G \in SUBSET Made : NodeStep(G) /\ Len(node') = Len(node) /\ Made \ G \subseteq lost'
    BY <1>14, UndoesMapping DEF Made
  <2>2. rows' = rows
    BY <1>14 DEF MapUndo
  <2>3. G \subseteq Dead' /\ Accounts' = Accounts
    BY <2>1, DeadStays, HandsAreAccounts
  <2>4. Made \subseteq Settled'
    BY <2>1, <2>3, HandsSettled
  <2>5. QED
    BY <1>4, <1>5, <2>2, <2>3, <2>4
<1>15. QED
  BY <1>8, <1>9, <1>10, <1>11, <1>12, <1>13, <1>14 DEF Mapping

LEMMA MakingLoses ==
  ASSUME Basics, Tame(kit), NoneLost, [Next]_vars, Making, UNCHANGED others
  PROVE  NoneLost'
<1> USE DEF others, scene, Basics
<1>1. UNCHANGED <<jobs, mapper, history, builder, deleter, sweeper>>
  BY DEF Making, MakeCheck, MakeCreate, MakeInsert
<1>2. /\ \A j \in Jobs : Held[j] \subseteq Settled'
      /\ Made \subseteq Settled' /\ sweeper \subseteq Settled'
      /\ InBuilding \subseteq Settled' /\ InRetiring \subseteq Settled'
      /\ AccountsOf(history) \subseteq Settled'
  BY <1>1, HandsKept, HandsSettled
<1>3. Bound \subseteq Settled'
  <2>1. rows \subseteq rows'
    BY DEF Making, MakeCheck, MakeCreate, MakeInsert
  <2>2. Bound \subseteq Bound'
    BY <2>1, AccountsGrow DEF Bound
  <2>3. QED
    BY <2>2, HandsSettled
<1>4. ASSUME InMaking \subseteq Settled', Accounts' \ Accounts \subseteq Settled'
      PROVE  NoneLost'
  BY <1>2, <1>3, <1>4, Grows, NoneLostKept
<1>5. ASSUME NEW g \in Groups, NEW s \in Slots, MakeCheck(g, s)
      PROVE  NoneLost'
  <2>1. node' = node /\ InMaking = {}
    BY <1>5, Phases DEF MakeCheck, InMaking
  <2>2. QED
    BY <1>4, <2>1, NoneBorn
<1>6. CASE MakeCreate
  <2>1. PICK c \in Creations({maker.slot}) :
          /\ node' = Born(c) /\ lost' = lost \cup Strays(c)
          /\ maker' = IF c.made = {} THEN NotMaking
                      ELSE [maker EXCEPT !.phase = "inserting", !.account = Len(node')]
    BY <1>6 DEF MakeCreate
  <2>2. maker \in [phase : {"creating"}, group : Groups, slot : Slots, account : {0}]
    BY <1>6, Phases DEF MakeCreate, TypeInv, MakeType, Inserting
  <2>3. InMaking = {} /\ maker.slot \in Slots /\ {maker.slot} \in SUBSET Slots
    BY <2>2 DEF InMaking
  <2>4. CASE c.made = {}
    <3>1. /\ \A a \in Accounts' \ Accounts : a \in AccountsOf(Named(c)) \cup Strays(c)
          /\ \A x \in Named(c) : x.slot \in c.made
      BY <2>1, <2>3, Births DEF TypeInv
    <3>2. Accounts' \ Accounts \subseteq lost'
      BY <2>1, <2>4, <3>1 DEF AccountsOf
    <3>3. QED
      BY <1>4, <2>3, <3>2, HandsSettled
  <2>5. CASE c.made # {}
    <3>1. \A a \in Accounts' \ Accounts : a = Len(node')
      BY <2>1, <2>3, <2>5, MakesOne DEF TypeInv
    <3>2. maker'.phase = "inserting" /\ maker'.account = Len(node')
      BY <2>1, <2>2, <2>5
    <3>3. InMaking' = {Len(node')}
      BY <3>2 DEF InMaking
    <3>4. QED
      BY <1>4, <2>3, <3>1, <3>3, HandsSettled
  <2>6. QED
    BY <2>4, <2>5
<1>7. CASE MakeInsert
  <2>1. maker \in Inserting /\ node' = node
    BY <1>7, Phases DEF MakeInsert, TypeInv, MakeType
  <2>2. /\ source = "ACTIVE" /\ {maker.group, maker.slot} \subseteq present
        /\ InMaking = {maker.account}
    BY <2>1, TameMeans, Phases DEF Inserting, InMaking
  <2>3. \/ rows' = rows \cup {Row(maker.group, maker.slot, maker.account, FALSE)}
        \/ lost' = lost \cup {maker.account}
    BY <1>7, <2>2 DEF MakeInsert
  <2>4. CASE rows' = rows \cup {Row(maker.group, maker.slot, maker.account, FALSE)}
    <3>1. /\ Row(maker.group, maker.slot, maker.account, FALSE) \in rows'
          /\ Row(maker.group, maker.slot, maker.account, FALSE).account = maker.account
      BY <2>4 DEF Row
    <3>2. maker.account \in Bound'
      BY <3>1 DEF Bound, AccountsOf
    <3>3. QED
      BY <1>4, <2>1, <2>2, <3>2, NoneBorn, HandsSettled
  <2>5. CASE lost' = lost \cup {maker.account}
    BY <1>4, <2>1, <2>2, <2>5, NoneBorn, HandsSettled
  <2>6. QED
    BY <2>3, <2>4, <2>5
<1>8. QED
  BY <1>5, <1>6, <1>7 DEF Making

LEMMA DeletingLoses ==
  ASSUME Basics, Owned, NoneLost, DeletionFits, HistoryFits, [Next]_vars,
         RequestDeletion \/ DeletionSteps
  PROVE  NoneLost'
<1> USE DEF Basics, bindVars
<1>1. UNCHANGED <<jobs, mapper, maker, sweeper>>
  BY DEF RequestDeletion, DeletionSteps, DeletionLoad, DeletionCall, DeletionRemove, DeletionFinish
<1>2. /\ builder'.phase = builder.phase /\ builder'.new = builder.new
      /\ builder'.old = builder.old
  BY RejectedHolds
     DEF RequestDeletion, DeletionSteps, DeletionLoad, DeletionCall, DeletionRemove, DeletionFinish
<1>3. InBuilding' = InBuilding /\ InRetiring' = InRetiring
  BY <1>2 DEF InBuilding, InRetiring
<1>4. /\ \A j \in Jobs : Held[j] \subseteq Settled'
      /\ Made \subseteq Settled' /\ sweeper \subseteq Settled' /\ InMaking \subseteq Settled'
      /\ InBuilding \subseteq Settled' /\ InRetiring \subseteq Settled'
  BY <1>1, <1>3, HandsKept, HandsSettled
<1>5. Accounts' \ Accounts = {}
  <2>1. node' = node \/ \E as : node' = With(as, "gone")
    BY DEF RequestDeletion, DeletionSteps, DeletionLoad, DeletionCall, DeletionRemove, DeletionFinish
  <2>2. QED
    BY <2>1, NoneBorn
<1>6. ASSUME Bound \subseteq Settled', AccountsOf(history) \subseteq Settled'
      PROVE  NoneLost'
  BY <1>4, <1>5, <1>6, Grows, NoneLostKept
<1>7. CASE RequestDeletion
  <2>1. rows' = {[r EXCEPT !.on = FALSE] : r \in rows} /\ history' = history
    BY <1>7 DEF RequestDeletion
  <2> DEFINE New(r) == [r EXCEPT !.on = FALSE]
  <2>2. \A r \in rows : New(r) \in rows' /\ New(r).account = r.account
    BY <2>1 DEF TypeInv, RowType
  <2> HIDE DEF New
  <2>3. Bound \subseteq Bound'
    BY <2>2 DEF Bound, AccountsOf
  <2>4. QED
    BY <1>6, <2>1, <2>3, HandsSettled
<1>8. CASE DeletionRemove
  <2>1. \/ rows' = Without({deleter.at}) /\ history' = Forgetting({deleter.at})
        \/ UNCHANGED <<rows, history>>
    BY <1>8 DEF DeletionRemove
  <2>2. deleter.phase = "removing" /\ "delete" \in kit.sagas
    BY <1>8, Phases DEF DeletionRemove, PhaseInv, Used
  <2>3. AccountsOf(history) \subseteq Settled'
    BY <1>4, <2>2, Grows, HandsSettled DEF HistoryFits
  <2>4. CASE rows' = Without({deleter.at})
    <3>1. \A r \in rows : r \in rows' \/ r.account \in Dead
      BY <2>2, <2>4 DEF Without, DeletionFits
    <3>2. Bound \subseteq Bound' \cup Dead
      BY <3>1 DEF Bound, AccountsOf
    <3>3. QED
      BY <1>6, <2>3, <3>2, Grows, HandsSettled
  <2>5. CASE UNCHANGED rows
    BY <1>6, <2>3, <2>5, HandsKept, HandsSettled
  <2>6. QED
    BY <2>1, <2>4, <2>5
<1>9. CASE DeletionLoad \/ DeletionCall \/ DeletionFinish
  <2>1. UNCHANGED <<rows, history>>
    BY <1>9 DEF DeletionLoad, DeletionCall, DeletionFinish
  <2>2. QED
    BY <1>6, <2>1, HandsKept, HandsSettled
<1>10. QED
  BY <1>7, <1>8, <1>9 DEF DeletionSteps

LEMMA BuildingLoses ==
  ASSUME Basics, Owned, Tame(kit), NoneLost, HistoryFits, [Next]_vars,
         BuildSteps \/ (\E r \in rows : Plan(r))
  PROVE  NoneLost'
<1> USE DEF Basics, bindVars, bindUnchanged
<1>0. builder \in Resting \cup Planning \cup Creating \cup Replacing
  BY DEF TypeInv, BuildType
<1>1. UNCHANGED <<jobs, mapper, maker, sweeper>>
  BY DEF BuildSteps, Plan, Enqueue, BuildLoad, BuildCreate, BuildStop, BuildStart, BuildSwitch,
         BuildCommit, BuildUndo, BuildRetire
<1>2. /\ \A j \in Jobs : Held[j] \subseteq Settled'
      /\ Made \subseteq Settled' /\ sweeper \subseteq Settled' /\ InMaking \subseteq Settled'
  BY <1>1, HandsKept, HandsSettled
<1>3. ASSUME Bound \subseteq Settled', AccountsOf(history) \subseteq Settled',
             InBuilding \subseteq Settled', InRetiring \subseteq Settled',
             Accounts' \ Accounts \subseteq Settled'
      PROVE  NoneLost'
  BY <1>2, <1>3, Grows, NoneLostKept
<1>4. UNCHANGED <<rows, history>> => Bound \subseteq Settled' /\ AccountsOf(history) \subseteq Settled'
  BY HandsKept, HandsSettled
<1>5. CASE (\E r \in rows : Plan(r)) \/ Enqueue \/ BuildLoad
  <2>1. /\ UNCHANGED <<node, rows, history>>
        /\ builder.phase \in {"idle", "planned", "queued"}
    BY <1>5, Phases DEF Plan, Enqueue, BuildLoad
  <2>2. InBuilding = {} /\ InRetiring = {}
    BY <2>1 DEF InBuilding, InRetiring
  <2>3. QED
    BY <1>3, <1>4, <2>1, <2>2, NoneBorn
<1>6. CASE BuildCreate
  <2>1. builder \in Creating /\ UNCHANGED <<rows, history>>
    BY <1>0, <1>6 DEF BuildCreate, Resting, Planning, Replacing
  <2>2. InBuilding = {} /\ InRetiring = {}
    BY <2>1 DEF InBuilding, InRetiring, Creating
  <2>3. \/ node' = Append(node, "stopped") /\ lost' = lost \cup {Len(node')}
        \/ node' = node
        \/ /\ node' = Append(node, "stopped")
           /\ builder' = [builder EXCEPT !.phase = "stopping", !.new = Len(node')]
    BY <1>6 DEF BuildCreate
  <2>4. Accounts' \ Accounts \subseteq Settled'
    <3>1. CASE node' = node
      BY <3>1, NoneBorn
    <3>2. CASE node' = Append(node, "stopped") /\ lost' = lost \cup {Len(node')}
      BY <3>2, NoneBorn, HandsSettled
    <3>3. CASE /\ node' = Append(node, "stopped")
               /\ builder' = [builder EXCEPT !.phase = "stopping", !.new = Len(node')]
      <4>1. builder'.phase = "stopping" /\ builder'.new = Len(node')
        BY <2>1, <3>3 DEF Creating
      <4>2. InBuilding' = {Len(node')}
        BY <4>1 DEF InBuilding
      <4>3. QED
        BY <3>3, <4>2, NoneBorn, HandsSettled
    <3>4. QED
      BY <2>3, <3>1, <3>2, <3>3
  <2>5. QED
    BY <1>3, <1>4, <2>1, <2>2, <2>4
<1>7. ASSUME NEW phase \in {"stopping", "starting"}, NEW a, NEW state \in {"stopped", "running"},
             NEW next \in {"starting", "committing"}, BuildSwitch(phase, a, state, next)
      PROVE  NoneLost'
  <2>1. \/ /\ ~Gone(a) /\ node' = With({a}, state)
           /\ builder' = [builder EXCEPT !.phase = next, !.oldOff = TRUE]
        \/ builder' = [builder EXCEPT !.phase = "undoing"] /\ node' = node
    BY <1>7 DEF BuildSwitch
  <2>2. builder \in Replacing /\ builder.phase = phase /\ UNCHANGED <<rows, history>>
    BY <1>0, <1>7 DEF BuildSwitch, Resting, Planning, Creating
  <2>3. builder'.new = builder.new /\ builder'.phase \in {"starting", "committing", "undoing"}
    BY <2>1, <2>2 DEF Replacing
  <2>4. InBuilding' = InBuilding /\ InRetiring = {}
    BY <2>2, <2>3 DEF InBuilding, InRetiring
  <2>5. Accounts' \ Accounts = {}
    <3>1. ~Gone(a) => \A b \in {a} : ~Gone(b)
      OBVIOUS
    <3>2. QED
      BY <2>1, <3>1, NoneBorn
  <2>6. QED
    BY <1>3, <1>4, <2>2, <2>4, <2>5, HandsSettled
<1>8. CASE BuildCommit
  <2> DEFINE mine == {r \in rows : r.id = builder.id /\ r.account = builder.old}
             New(r) == [r EXCEPT !.account = builder.new, !.on = TRUE]
  <2>1. builder \in Replacing /\ builder.phase = "committing" /\ node' = node
    BY <1>0, <1>8 DEF BuildCommit, Resting, Planning, Creating
  <2>2. \/ /\ mine # {}
           /\ rows' = (rows \ mine) \cup {New(r) : r \in mine}
           /\ history' = Retired(builder.id, builder.old)
           /\ builder' = [builder EXCEPT !.phase = "retiring", !.live = FALSE]
        \/ /\ builder' = [builder EXCEPT !.phase = "undoing"]
           /\ UNCHANGED <<rows, history>>
    BY <1>8 DEF BuildCommit
  <2>3. InBuilding = {builder.new} /\ InRetiring = {}
    BY <2>1 DEF InBuilding, InRetiring
  <2>4. CASE /\ builder' = [builder EXCEPT !.phase = "undoing"]
             /\ UNCHANGED <<rows, history>>
    <3>1. builder'.new = builder.new /\ builder'.phase = "undoing"
      BY <2>1, <2>4 DEF Replacing
    <3>2. InBuilding' = InBuilding
      BY <2>1, <3>1 DEF InBuilding
    <3>3. QED
      BY <1>3, <1>4, <2>1, <2>3, <2>4, <3>2, NoneBorn, HandsSettled
  <2>5. CASE /\ mine # {}
             /\ rows' = (rows \ mine) \cup {New(r) : r \in mine}
             /\ history' = Retired(builder.id, builder.old)
             /\ builder' = [builder EXCEPT !.phase = "retiring", !.live = FALSE]
    <3>1. builder'.old = builder.old /\ builder'.phase = "retiring"
      BY <2>1, <2>5 DEF Replacing
    <3>2. InRetiring' = {builder.old}
      BY <3>1 DEF InRetiring
    <3>3. /\ \A r \in mine : /\ New(r) \in rows' /\ New(r).account = builder.new
                             /\ r.account = builder.old
          /\ \A r \in rows : r \in rows' \/ r \in mine
          /\ mine # {}
      BY <2>5 DEF TypeInv, RowType
    <3> HIDE DEF New, mine
    <3>4. Bound \subseteq Bound' \cup InRetiring'
      BY <3>2, <3>3 DEF Bound, AccountsOf
    <3>5. InBuilding \subseteq Bound'
      BY <2>3, <3>3 DEF Bound, AccountsOf
    <3>6. AccountsOf(history) \subseteq AccountsOf(history')
      BY <2>5, AccountsGrow DEF Retired
    <3>7. QED
      BY <1>3, <2>1, <2>3, <3>4, <3>5, <3>6, NoneBorn, HandsSettled
  <2>6. QED
    BY <2>2, <2>4, <2>5
<1>9. CASE BuildUndo
  <2>1. builder.phase = "undoing" /\ UNCHANGED <<rows, history>>
    BY <1>9 DEF BuildUndo
  <2>2. PICK G \in SUBSET {builder.new} :
          NodeStep(G) /\ Len(node') = Len(node) /\ builder.new \in G \cup lost'
    BY <1>9, UndoesBuilding
  <2>3. InBuilding = {builder.new} /\ InRetiring = {}
    BY <2>1 DEF InBuilding, InRetiring
  <2>4. G \subseteq Dead' /\ Accounts' = Accounts
    BY <2>2, <2>3, DeadStays, HandsAreAccounts
  <2>5. InBuilding \subseteq Settled'
    BY <2>2, <2>3, <2>4, HandsSettled
  <2>6. QED
    BY <1>3, <1>4, <2>1, <2>3, <2>4, <2>5
<1>10. CASE BuildRetire
  <2>1. /\ builder.phase = "retiring" /\ rows' = rows
        /\ \/ /\ node' = With({builder.old}, "gone")
              /\ history' = {h \in history : h.account # builder.old}
           \/ Fails("call") /\ UNCHANGED <<node, history>>
    BY <1>10 DEF BuildRetire
  <2>2. InBuilding = {} /\ InRetiring = {builder.old} /\ Bound \subseteq Settled'
    BY <2>1, HandsKept, HandsSettled DEF InBuilding, InRetiring
  <2>3. CASE /\ node' = With({builder.old}, "gone")
             /\ history' = {h \in history : h.account # builder.old}
    <3>1. builder.old \in Dead' /\ Accounts' \ Accounts = {}
      BY <2>2, <2>3, NoneBorn, HandsAreAccounts
    <3>2. AccountsOf(history) \subseteq AccountsOf(history') \cup {builder.old}
      BY <2>3 DEF AccountsOf
    <3>3. QED
      BY <1>3, <2>2, <3>1, <3>2, HandsSettled
  <2>4. CASE Fails("call") /\ UNCHANGED <<node, history>>
    <3>1. InRetiring \subseteq Dead \cup lost \cup AccountsOf(history)
      BY <2>4 DEF HistoryFits, Fails
    <3>2. AccountsOf(history) \subseteq Settled'
      BY <2>4, HandsSettled
    <3>3. QED
      BY <1>3, <2>2, <2>4, <3>1, <3>2, NoneBorn, Grows, HandsSettled
  <2>5. QED
    BY <2>1, <2>3, <2>4
<1>11. QED
  BY <1>5, <1>6, <1>7, <1>8, <1>9, <1>10 DEF BuildSteps, BuildStop, BuildStart

LEMMA CleaningLoses ==
  ASSUME Basics, NoneLost, HistoryFits, [Next]_vars,
         \/ \E h \in history : Clean(h) \/ CleanFails(h)
         \/ \E x \in present : Vanish(x)
         \/ \E a \in sweeper : Sweep(a)
  PROVE  NoneLost'
<1> USE DEF Basics, others
<1>1. UNCHANGED <<jobs, mapper, maker>> /\ (builder' = builder \/ builder' = Rejected)
  BY DEF Clean, CleanFails, Vanish, Sweep
<1>2. InBuilding' = InBuilding /\ InRetiring' = InRetiring
  BY <1>1, RejectedHolds DEF InBuilding, InRetiring
<1>3. /\ \A j \in Jobs : Held[j] \subseteq Settled'
      /\ Made \subseteq Settled' /\ InMaking \subseteq Settled'
      /\ InBuilding \subseteq Settled' /\ InRetiring \subseteq Settled'
  BY <1>1, <1>2, HandsKept, HandsSettled
<1>4. Accounts' \ Accounts = {}
  <2>1. node' = node \/ \E as : node' = With(as, "gone")
    BY DEF Clean, CleanFails, Vanish, Sweep
  <2>2. QED
    BY <2>1, NoneBorn
<1>5. ASSUME Bound \subseteq Settled', AccountsOf(history) \subseteq Settled', sweeper \subseteq Settled'
      PROVE  NoneLost'
  BY <1>3, <1>4, <1>5, Grows, NoneLostKept
<1>6. ASSUME NEW h \in history, Clean(h)
      PROVE  NoneLost'
  <2>1. /\ node' = With({h.account}, "gone") /\ history' = history \ {h}
        /\ UNCHANGED <<rows, sweeper>>
    BY <1>6 DEF Clean
  <2>2. h.account \in Accounts
    BY DEF TypeInv, RetiredType
  <2>3. h.account \in Dead'
    BY <2>1, <2>2, NoneBorn
  <2>4. AccountsOf(history) \subseteq AccountsOf(history') \cup {h.account}
    BY <2>1 DEF AccountsOf
  <2>5. QED
    BY <1>5, <2>1, <2>3, <2>4, HandsKept, HandsSettled
<1>7. ASSUME NEW h \in history, CleanFails(h)
      PROVE  NoneLost'
  <2>1. UNCHANGED <<rows, history, sweeper>>
    BY <1>7 DEF CleanFails
  <2>2. QED
    BY <1>5, <2>1, HandsKept, HandsSettled
<1>8. ASSUME NEW x \in present, Vanish(x)
      PROVE  NoneLost'
  <2> DEFINE swept == {r \in rows : x \in {r.group, r.slot}}
  <2>1. /\ rows' = rows \ swept /\ sweeper' = sweeper \cup AccountsOf(swept)
        /\ "sweep" \in kit.sagas
    BY <1>8 DEF Vanish, Requested
  <2> HIDE DEF swept
  <2>2. Bound \subseteq Bound' \cup sweeper'
    BY <2>1 DEF Bound, AccountsOf
  <2>3. AccountsOf(history) \subseteq Dead \cup lost \cup InRetiring
    BY <2>1 DEF HistoryFits
  <2>4. QED
    BY <1>3, <1>5, <2>1, <2>2, <2>3, Grows, HandsSettled
<1>9. ASSUME NEW a \in sweeper, Sweep(a)
      PROVE  NoneLost'
  <2>1. /\ UNCHANGED <<rows, history>> /\ sweeper' = sweeper \ {a}
        /\ node' = With({a}, "gone") \/ lost' = lost \cup {a}
    BY <1>9 DEF Sweep
  <2>2. a \in Accounts
    BY DEF TypeInv
  <2>3. a \in Dead' \cup lost'
    BY <2>1, <2>2, NoneBorn
  <2>4. QED
    BY <1>5, <2>1, <2>3, HandsKept, HandsSettled
<1>10. QED
  BY <1>6, <1>7, <1>8, <1>9

LEMMA RestartLoses ==
  ASSUME Basics, NoneLost, [Next]_vars, Restart
  PROVE  NoneLost'
<1> USE DEF Basics
<1>1. /\ UNCHANGED <<node, rows, history>>
      /\ lost' = lost \cup {a \in InHand : ~Gone(a)}
  BY DEF Restart
<1>2. \A a \in Accounts : a \in InHand => a \in Dead \cup lost'
  BY <1>1 DEF Dead, Gone
<1>3. Dead \subseteq Dead' /\ lost \subseteq lost' /\ Accounts' = Accounts
  BY <1>1, Grows DEF Accounts
<1>4. Bound \subseteq Settled' /\ AccountsOf(history) \subseteq Settled'
  BY <1>1, HandsKept, HandsSettled
<1>5. QED
  BY <1>2, <1>3, <1>4, HandsSettled DEF NoneLost, Settled

LEMMA InitSettled ==
  Init => NoneLost /\ Fits
<1> SUFFICES ASSUME Init PROVE NoneLost /\ Fits
  OBVIOUS
<1>1. /\ history = {} /\ source = "ACTIVE" /\ mapper = NoEdit /\ deleter = NoDeletion
      /\ builder = NotBuilding
  BY DEF Init, BindInit
<1>2. PICK g \in Groups, ss \in SUBSET Slots :
        /\ node = [i \in 1 .. Cardinality(ss) |-> "running"]
        /\ rows = {Row(g, n.slot, n.account, TRUE) : n \in Numbered(ss, 0)}
  BY Zenon DEF Init, BindInit
<1>3. /\ Cardinality(ss) \in Nat
      /\ \A a \in 0 + 1 .. 0 + Cardinality(ss) : \E x \in Numbered(ss, 0) : x.account = a
  BY Numbers
<1>4. \A k \in Nat : 0 + 1 .. 0 + k = 1 .. k
  OBVIOUS
<1>5. Accounts = 1 .. Cardinality(ss)
  <2>1. "running" \in States
    BY DEF States
  <2>2. node \in [1 .. Cardinality(ss) -> States]
    BY <1>2, <2>1
  <2>3. Len(node) = Cardinality(ss)
    BY <1>3, <2>2, SequenceOf
  <2>4. QED
    BY <2>3 DEF Accounts
<1>6. NoneLost
  <2>1. SUFFICES ASSUME NEW a \in Accounts PROVE a \in Settled
    BY DEF NoneLost
  <2>2. PICK x \in Numbered(ss, 0) : x.account = a
    BY <1>3, <1>4, <1>5, <2>1
  <2>3. Row(g, x.slot, x.account, TRUE) \in rows /\ Row(g, x.slot, x.account, TRUE).account = a
    BY <1>2, <2>2 DEF Row
  <2>4. QED
    BY <2>3 DEF Settled, Bound, AccountsOf
<1>7. InRetiring = {} /\ AccountsOf(history) = {}
  BY <1>1, Phases DEF InRetiring, AccountsOf
<1>8. QED
  BY <1>1, <1>6, <1>7, Phases
     DEF Fits, EditFits, DeletionFits, IntentFits, HistoryFits, Emptied

LEMMA SettledInvariant ==
  ASSUME \A k \in Kits : Tame(k)
  PROVE  Spec => [](NoneLost /\ Fits)
<1>1. ASSUME Basics, Owned, NoneLost, Fits, [Next]_vars
      PROVE  NoneLost' /\ Fits'
  <2>1. Tame(kit)
    BY <1>1 DEF Basics, TypeInv
  <2>2. EditFits' /\ DeletionFits' /\ IntentFits' /\ HistoryFits' /\ Emptied'
    BY <1>1, <2>1, EditKept, DeletionKept, IntentKept, HistoryKept, EmptiedKept DEF Fits
  <2>3. NoneLost'
    <3>1. CASE UNCHANGED vars
      BY <1>1, <3>1, HandsKept, HandsSettled, Grows, NoneBorn, NoneLostKept
         DEF vars, bindVars, Basics
    <3>2. QED
      BY <1>1, <2>1, <3>1, DeployingLoses, MappingLoses, MakingLoses, DeletingLoses, BuildingLoses,
         CleaningLoses, RestartLoses DEF Fits, Next, Binding
  <2>4. QED
    BY <2>2, <2>3 DEF Fits
<1>2. QED
  BY <1>1, InitSettled, BasicsInvariant, OwnedInvariant, PTL DEF Spec

\* Every account on the node is named by a row, recorded as retired, in the hands of a
\* goroutine, or one that a failed call, a lost reply or a crash has left behind: none
\* of the sagas loses an account by itself, however they interleave and whichever of
\* their calls fail, as long as the pairs that Tame names do not meet: the edit of a
\* mapping with a recreation or with a group that vanishes, an account made by hand
\* with what deletes its source or its group, and a recreation whose retired account
\* cannot be deleted, or whose intent is approved late, with what deletes its row.
THEOREM AccountsAreTracked ==
  ASSUME \A k \in Kits : Tame(k)
  PROVE  Spec => []Tracked
<1>1. Basics /\ NoneLost => Tracked
  BY DEF Basics, TypeInv, NoneLost, Settled, Tracked, Dead, Bound, Gone, Accounts
<1>2. QED
  BY <1>1, BasicsInvariant, SettledInvariant, PTL

\* A source is removed after every account of it has been deleted: what is left on the
\* node then are accounts lost to a fault, or in the hands of a rollback, of a cleanup,
\* or of a recreation whose intent is no longer approved, which deletes them; under the
\* same condition on the sagas that meet (source_deletions.go).
THEOREM DeletedSourceHasNothing ==
  ASSUME \A k \in Kits : Tame(k)
  PROVE  Spec => []DeletedHasNothing
<1>1. Basics /\ NoneLost /\ Fits => DeletedHasNothing
  <2>1. SUFFICES ASSUME Basics, NoneLost, Fits, source = "gone"
                 PROVE  /\ ~builder.live /\ maker = NotMaking
                        /\ \A a \in DOMAIN node : Gone(a) \/ a \in lost \cup InHand
    BY DEF DeletedHasNothing
  <2>2. ~builder.live /\ rows = {}
    BY <2>1 DEF Fits, IntentFits, Emptied
  <2>3. maker = NotMaking
    BY <2>1, TameMeans DEF Basics, TypeInv
  <2>4. history = {}
    BY <2>1, <2>2 DEF Fits, HistoryFits
  <2>5. Bound = {} /\ AccountsOf(history) = {}
    BY <2>2, <2>4 DEF Bound, AccountsOf
  <2>6. \A a \in Accounts : a \in Dead \/ a \in lost \cup InHand
    BY <2>1, <2>5 DEF NoneLost, Settled
  <2>7. DOMAIN node = Accounts
    BY <2>1 DEF Basics, TypeInv, Accounts
  <2>8. QED
    BY <2>2, <2>3, <2>6, <2>7 DEF Dead, Gone
<1>2. QED
  BY <1>1, BasicsInvariant, SettledInvariant, PTL
-------------------------------------------------------------------------------
(* The ledger: every account is in one stage, and only moves on.           *)

Hist == AccountsOf(history)

Stages == {"pending", "bound", "retired", "doomed", "lost", "gone"}

(* The parts of the accounts that the stages are, but for those lost.      *)
Sorted ==
  /\ Pending \cap (Dead \cup Bound \cup Hist \cup Doomed) = {}
  /\ Bound \cap (Hist \cup Doomed) = {}

Staged ==
  /\ Stage \in [Accounts -> Stages]
  /\ \A a \in Accounts :
       /\ Stage[a] = "gone" <=> a \in Dead
       /\ Stage[a] = "bound" <=> a \in Bound /\ a \notin Dead
       /\ Stage[a] = "retired" <=> a \in Hist /\ a \notin Dead
       /\ Stage[a] = "pending" <=> a \in Pending
       /\ Stage[a] = "doomed" <=> a \in Doomed /\ a \notin Hist /\ a \notin Dead
       /\ Stage[a] = "lost" <=> a \notin Dead \cup Bound \cup Hist \cup Pending \cup Doomed

LEMMA PendingIs ==
  /\ \A a : a \in Pending <=> \/ \E j \in Jobs : a \in Held[j]
                              \/ a \in Made \/ a \in InMaking \/ a \in InBuilding
  /\ Doomed = sweeper \cup InRetiring
<1>1. \A a : a \in AccountsOf(UNION {jobs[j].held : j \in Jobs}) <=> \E j \in Jobs : a \in Held[j]
  BY DEF Held, AccountsOf
<1>2. QED
  BY <1>1 DEF Pending, Doomed, Made, InMaking, InBuilding, InRetiring

LEMMA PendingBecomes ==
  /\ \A a : a \in Pending' <=> \/ \E j \in Jobs : a \in Held'[j]
                               \/ a \in Made' \/ a \in InMaking' \/ a \in InBuilding'
  /\ Doomed' = sweeper' \cup InRetiring'
<1>1. \A a : a \in AccountsOf(UNION {jobs'[j].held : j \in Jobs}) <=> \E j \in Jobs : a \in Held'[j]
  BY DEF Held, AccountsOf
<1>2. QED
  BY <1>1 DEF Pending, Doomed, Made, InMaking, InBuilding, InRetiring

LEMMA StagesAre == Basics /\ Owned /\ NoneLost => Sorted /\ Staged
<1> SUFFICES ASSUME Basics, Owned, NoneLost PROVE Sorted /\ Staged
  OBVIOUS
<1>1. Doomed \subseteq Retiring /\ Hist \subseteq Retiring
  BY PendingIs, InSpoken DEF Hist
<1>2. ASSUME NEW a \in Pending
      PROVE  a \notin Dead \cup Spoken
  <2>1. node[a] # "gone"
    BY <1>2, PendingIs DEF Owned, Alive
  <2>2. a \notin Spoken
    BY <1>2, PendingIs DEF Owned, Apart, Disjoint
  <2>3. QED
    BY <2>1, <2>2 DEF Dead
<1>3. Sorted
  BY <1>1, <1>2, InSpoken DEF Sorted, Owned, Apart
<1>4. DOMAIN node = Accounts
  BY DEF Basics, TypeInv, Accounts
<1>5. \A a \in Accounts : a \in Dead <=> Gone(a)
  BY DEF Dead, Gone
<1>6. \A a \in Accounts : a \in Dead \cup Bound \cup Hist \cup Pending \cup Doomed \cup lost
  BY DEF NoneLost, Settled, InHand, Hist
<1>7. Stage = [a \in Accounts |->
                 IF a \in Dead        THEN "gone"
                 ELSE IF a \in Bound   THEN "bound"
                 ELSE IF a \in Hist    THEN "retired"
                 ELSE IF a \in Pending THEN "pending"
                 ELSE IF a \in Doomed  THEN "doomed"
                 ELSE                      "lost"]
  BY <1>4, <1>5, <1>6 DEF Stage, Bound, Hist
<1>8. Stage \in [Accounts -> Stages]
  BY <1>7 DEF Stages
<1>9. QED
  BY <1>3, <1>7, <1>8 DEF Staged, Sorted

(* An account whose parts stay stays in its stage.                         *)
LEMMA StageStays ==
  ASSUME Staged, Staged', Accounts' = Accounts, Dead' = Dead, Bound' = Bound, Hist' = Hist,
         Pending' = Pending, Doomed' = Doomed
  PROVE  Stage' = Stage
<1>1. \A a \in Accounts : Stage'[a] = Stage[a]
  BY DEF Staged, Stages
<1>2. QED
  BY <1>1 DEF Staged

LEMMA StagesOnly ==
  ASSUME Staged, Staged', Accounts' = Accounts, NEW moves,
         \A a \in Accounts : Stage'[a] = Stage[a] \/ <<Stage[a], Stage'[a]>> \in moves
  PROVE  Ledger!Only(moves)
<1>1. DOMAIN Stage = Accounts /\ DOMAIN Stage' = Accounts
  BY DEF Staged
<1>2. QED
  BY <1>1 DEF Ledger!Only, Ledger!DOM

(* One account moves.                                                      *)
LEMMA StageOf ==
  ASSUME Staged, Staged', Accounts' = Accounts, NEW b \in Accounts, NEW s, Stage'[b] = s,
         \A a \in Accounts : a # b => Stage'[a] = Stage[a]
  PROVE  Stage' = [Stage EXCEPT ![b] = s] /\ b \in Ledger!DOM
<1>1. DOMAIN Stage = Accounts /\ DOMAIN Stage' = Accounts
  BY DEF Staged
<1>2. DOMAIN [Stage EXCEPT ![b] = s] = Accounts
  BY <1>1
<1>3. \A a \in Accounts : Stage'[a] = [Stage EXCEPT ![b] = s][a]
  BY <1>1
<1>4. Stage' \in [Accounts -> Stages]
  BY DEF Staged
<1>5. QED
  BY <1>1, <1>2, <1>3, <1>4 DEF Ledger!DOM, Staged

LEMMA DeadBecomes ==
  ASSUME TypeInv, NEW G, NodeStep(G)
  PROVE  /\ Accounts \subseteq Accounts'
         /\ \A a \in Accounts : a \in Dead' <=> a \in Dead \/ a \in G
         /\ \A a \in Accounts' \ Accounts : a \notin Dead'
         /\ Len(node') = Len(node) => Accounts' = Accounts /\ Dead' = Dead \cup (G \cap Accounts)
<1>1. Accounts \subseteq Accounts'
  BY TypesGrow
<1>2. \A a \in Accounts : a \in Dead' <=> a \in Dead \/ a \in G
  BY <1>1 DEF Dead, NodeStep
<1>3. \A a \in Accounts' \ Accounts : a \notin Dead'
  BY DEF Dead, NodeStep
<1>4. ASSUME Len(node') = Len(node)
      PROVE  Accounts' = Accounts /\ Dead' = Dead \cup (G \cap Accounts)
  <2>1. Accounts' = Accounts
    BY <1>4 DEF Accounts
  <2>2. \A a \in Dead \cup Dead' : a \in Accounts
    BY <2>1 DEF Dead
  <2>3. QED
    BY <1>2, <2>1, <2>2
<1>5. QED
  BY <1>1, <1>2, <1>3, <1>4

(* What the calls of the sagas make of the node.                           *)
LEMMA CallsMove ==
  ASSUME TypeInv
  PROVE  /\ node' = node => Accounts' = Accounts /\ Dead' = Dead
         /\ \A as : node' = With(as, "gone") =>
                      Accounts' = Accounts /\ Dead' = Dead \cup (as \cap Accounts)
         /\ \A as, state : state \in {"stopped", "running"} /\ (\A a \in as : ~Gone(a))
                           /\ node' = With(as, state) => Accounts' = Accounts /\ Dead' = Dead
<1>1. node \in Seq(States)
  BY DEF TypeInv
<1>2. node' = node => Accounts' = Accounts /\ Dead' = Dead
  BY DEF Accounts, Dead
<1>3. ASSUME NEW as, node' = With(as, "gone")
      PROVE  Accounts' = Accounts /\ Dead' = Dead \cup (as \cap Accounts)
  BY <1>1, <1>3, NodeDeletes, DeadBecomes
<1>4. ASSUME NEW as, NEW state \in {"stopped", "running"}, \A a \in as : ~Gone(a),
             node' = With(as, state)
      PROVE  Accounts' = Accounts /\ Dead' = Dead
  <2>1. NodeStep({}) /\ Len(node') = Len(node)
    BY <1>1, <1>4, NodeSwitches
  <2>2. Accounts' = Accounts /\ Dead' = Dead \cup ({} \cap Accounts)
    BY <2>1, DeadBecomes, Zenon
  <2>3. QED
    BY <2>2
<1>5. \A as : node' = With(as, "gone") =>
                Accounts' = Accounts /\ Dead' = Dead \cup (as \cap Accounts)
  BY <1>3
<1>6. \A as, state : state \in {"stopped", "running"} /\ (\A a \in as : ~Gone(a))
                     /\ node' = With(as, state) => Accounts' = Accounts /\ Dead' = Dead
  BY <1>4
<1>7. QED
  BY <1>2, <1>5, <1>6, Zenon

(* The accounts that were there stay as they are, and new ones come.       *)
LEMMA Creates ==
  ASSUME TypeInv, Staged, Staged', NodeStep({}),
         \A a \in Accounts : /\ a \in Bound' /\ a \notin Dead' <=> a \in Bound /\ a \notin Dead
                             /\ a \in Hist' <=> a \in Hist
                             /\ a \in Pending' <=> a \in Pending
                             /\ a \in Doomed' <=> a \in Doomed,
         Hist' \subseteq Accounts, Doomed' \subseteq Accounts
  PROVE  Ledger!Create
<1>1. DOMAIN Stage = Accounts /\ DOMAIN Stage' = Accounts' /\ Accounts \subseteq Accounts'
  BY DeadBecomes DEF Staged
<1>2. \A a \in Accounts : a \in Dead' <=> a \in Dead
  BY DeadBecomes
<1>3. \A a \in Accounts : a \in Accounts' /\ Stage'[a] = Stage[a]
  BY <1>1, <1>2 DEF Staged, Stages
<1>4. ASSUME NEW a \in Accounts' \ Accounts
      PROVE  Stage'[a] \in {"pending", "bound", "lost"}
  <2>1. a \notin Dead' /\ a \notin Hist' /\ a \notin Doomed'
    BY <1>4, DeadBecomes
  <2>2. QED
    BY <2>1 DEF Staged, Stages
<1>5. QED
  BY <1>1, <1>3, <1>4 DEF Ledger!Create, Ledger!DOM

LEMMA DeployingLedger ==
  ASSUME Basics, Owned, Sorted, Staged, Staged', Deploying, UNCHANGED others
  PROVE  Ledger!Next \/ Stage' = Stage
<1> USE DEF others, scene, Basics
<1>0. jobs \in [Jobs -> JobType] /\ \A k \in Jobs : jobs[k] \in JobType
  BY DEF TypeInv
<1>1. UNCHANGED <<mapper, maker, history, builder, deleter, sweeper>>
  BY DEF Deploying, Submit, JobStart, JobGroup, JobCommit, JobRollback
<1>2. /\ Made' = Made /\ InMaking' = InMaking /\ InBuilding' = InBuilding
      /\ Doomed' = Doomed /\ Hist' = Hist
  BY <1>1, HandsKept, PendingIs, PendingBecomes DEF Hist, AccountsOf
<1>3. Hist \subseteq Accounts /\ Doomed \subseteq Accounts
  BY HandsAreAccounts, PendingIs, InSpoken DEF Hist
<1>4. ASSUME \A k \in Jobs : jobs'[k].held = jobs[k].held
      PROVE  Pending' = Pending
  <2>1. \A k \in Jobs : Held'[k] = Held[k]
    BY <1>4 DEF Held
  <2>2. QED
    BY <1>2, <2>1, PendingIs, PendingBecomes
<1>5. ASSUME \A k \in Jobs : jobs'[k].held = jobs[k].held, UNCHANGED <<node, rows>>
      PROVE  Stage' = Stage
  <2>1. Accounts' = Accounts /\ Dead' = Dead /\ Bound' = Bound
    BY <1>5, CallsMove, HandsKept
  <2>2. QED
    BY <1>2, <1>4, <1>5, <2>1, StageStays
<1>6. ASSUME NEW j \in Jobs,
             \/ \E gs \in SUBSET Groups \ {{}}, ss \in SUBSET Slots \ {{}} : Submit(j, gs, ss)
             \/ JobStart(j)
      PROVE  Stage' = Stage
  <2>1. \A k \in Jobs : jobs'[k].held = jobs[k].held
    <3>1. CASE \E gs, ss : Submit(j, gs, ss)
      <4>1. PICK gs, ss : Submit(j, gs, ss)
        BY <3>1
      <4>2. /\ jobs[j] = NoJob
            /\ jobs' = [jobs EXCEPT ![j] = [NoJob EXCEPT !.status = "QUEUED", !.groups = gs,
                                                         !.slots = ss, !.runs = TRUE]]
        BY <4>1 DEF Submit
      <4>3. jobs[j].held = {} /\ jobs'[j].held = {}
        <5>1. NoJob.held = {}
          BY DEF NoJob
        <5>2. jobs'[j] = [NoJob EXCEPT !.status = "QUEUED", !.groups = gs, !.slots = ss,
                                       !.runs = TRUE]
          BY <1>0, <4>2
        <5>3. QED
          BY <4>2, <5>1, <5>2 DEF NoJob
      <4>4. \A k \in Jobs : k # j => jobs'[k] = jobs[k]
        BY <1>0, <4>2
      <4>5. QED
        BY <4>3, <4>4
    <3>2. CASE JobStart(j)
      <4>1. PICK status : jobs' = [jobs EXCEPT ![j].status = status]
        BY <3>2 DEF JobStart
      <4>2. QED
        BY <1>0, <4>1 DEF JobType
    <3>3. QED
      BY <1>6, <3>1, <3>2
  <2>2. UNCHANGED <<node, rows>>
    BY <1>6 DEF Submit, JobStart
  <2>3. QED
    BY <1>5, <2>1, <2>2
<1>7. ASSUME NEW j \in Jobs, JobGroup(j)
      PROVE  Ledger!Create
  <2>1. PICK g \in jobs[j].groups \ jobs[j].done, c \in Creations(jobs[j].slots) :
          /\ node' = Born(c)
          /\ jobs' = [jobs EXCEPT
               ![j].status = IF c.made = jobs[j].slots THEN @ ELSE "FAILED",
               ![j].done   = @ \cup {g},
               ![j].held   = @ \cup {Row(g, n.slot, n.account, FALSE) : n \in Named(c)}]
    BY <1>7 DEF JobGroup
  <2>2. NodeStep({}) /\ \A n \in Named(c) : n.account \notin Accounts
    <3>1. jobs[j].slots \in SUBSET Slots
      BY <1>0 DEF JobType
    <3>2. /\ NodeStep({})
          /\ Named(c) \in SUBSET [slot : Slots, account : Accounts' \ Accounts]
      BY <2>1, <3>1, Births DEF TypeInv
    <3>3. QED
      BY <3>2
  <2> DEFINE new == {Row(g, n.slot, n.account, FALSE) : n \in Named(c)}
  <2>3. /\ \A k \in Jobs : k # j => jobs'[k] = jobs[k]
        /\ jobs'[j].held = jobs[j].held \cup new
    BY <1>0, <2>1 DEF JobType
  <2>4. \A a \in AccountsOf(new) : a \notin Accounts
    BY <2>2 DEF AccountsOf, Row
  <2> HIDE DEF new
  <2>5. /\ \A k \in Jobs : k # j => Held'[k] = Held[k]
        /\ Held'[j] = Held[j] \cup AccountsOf(new)
    BY <2>3 DEF Held, AccountsOf
  <2>6. \A a \in Accounts : a \in Pending' <=> a \in Pending
    BY <1>2, <2>4, <2>5, PendingIs, PendingBecomes
  <2>7. Bound' = Bound
    BY <1>7, HandsKept DEF JobGroup
  <2>8. \A a \in Accounts : a \in Dead' <=> a \in Dead
    BY <2>2, DeadBecomes
  <2>9. QED
    BY <1>2, <1>3, <2>2, <2>6, <2>7, <2>8, Creates
<1>8. ASSUME NEW j \in Jobs, JobCommit(j)
      PROVE  Ledger!Bind \/ Stage' = Stage
  <2>1. \/ /\ rows' = rows \cup jobs[j].held
           /\ jobs' = [jobs EXCEPT ![j] = [@ EXCEPT !.status = "COMPLETED", !.held = {}]]
        \/ jobs' = [jobs EXCEPT ![j] = [@ EXCEPT !.status = "FAILED"]] /\ rows' = rows
    BY <1>0, <1>8 DEF JobCommit
  <2>2. node' = node
    BY <1>8 DEF JobCommit
  <2>3. CASE /\ rows' = rows \cup jobs[j].held
             /\ jobs' = [jobs EXCEPT ![j] = [@ EXCEPT !.status = "COMPLETED", !.held = {}]]
    <3>1. jobs'[j].held = {} /\ \A k \in Jobs : k # j => jobs'[k].held = jobs[k].held
      BY <1>0, <2>3 DEF JobType
    <3>2. Held'[j] = {} /\ \A k \in Jobs : k # j => Held'[k] = Held[k]
      BY <3>1 DEF Held, AccountsOf
    <3>3. Bound' = Bound \cup Held[j]
      BY <2>3 DEF Bound, Held, AccountsOf
    <3>4. /\ \A a : a \in Pending' => a \in Pending
          /\ \A a : a \in Pending => a \in Pending' \/ a \in Held[j]
          /\ Held[j] \subseteq Pending
      BY <1>2, <3>2, PendingIs, PendingBecomes
    <3>5. Accounts' = Accounts /\ Dead' = Dead
      BY <2>2, CallsMove
    <3>6. \A a \in Accounts : Stage'[a] = Stage[a] \/ (Stage[a] = "pending" /\ Stage'[a] = "bound")
      BY <1>2, <3>3, <3>4, <3>5 DEF Staged, Stages, Sorted
    <3>7. QED
      BY <3>5, <3>6, StagesOnly DEF Ledger!Bind
  <2>4. CASE jobs' = [jobs EXCEPT ![j] = [@ EXCEPT !.status = "FAILED"]] /\ rows' = rows
    <3>1. \A k \in Jobs : jobs'[k].held = jobs[k].held
      BY <1>0, <2>4 DEF JobType
    <3>2. QED
      BY <1>5, <2>2, <2>4, <3>1
  <2>5. QED
    BY <2>1, <2>3, <2>4
<1>9. ASSUME NEW j \in Jobs, JobRollback(j)
      PROVE  Ledger!Withdraw
  <2>1. PICK kept : node' = With(AccountsOf(jobs[j].held) \ kept, "gone")
    BY <1>9 DEF JobRollback, RolledBack
  <2>2. jobs' = [jobs EXCEPT ![j] = [@ EXCEPT !.held = {}]] /\ rows' = rows
    BY <1>0, <1>9 DEF JobRollback
  <2>3. jobs'[j].held = {} /\ \A k \in Jobs : k # j => jobs'[k].held = jobs[k].held
    BY <1>0, <2>2 DEF JobType
  <2>4. Held'[j] = {} /\ \A k \in Jobs : k # j => Held'[k] = Held[k]
    BY <2>3 DEF Held, AccountsOf
  <2>5. /\ \A a : a \in Pending' => a \in Pending
        /\ \A a : a \in Pending => a \in Pending' \/ a \in Held[j]
        /\ Held[j] \subseteq Pending
    BY <1>2, <2>4, PendingIs, PendingBecomes
  <2>6. Accounts' = Accounts /\ Dead' = Dead \cup ((Held[j] \ kept) \cap Accounts)
    BY <2>1, CallsMove DEF Held
  <2>7. Bound' = Bound
    BY <2>2, HandsKept
  <2>8. \A a \in Accounts : \/ Stage'[a] = Stage[a]
                            \/ Stage[a] = "pending" /\ Stage'[a] \in {"gone", "lost"}
    BY <1>2, <2>5, <2>6, <2>7 DEF Staged, Stages, Sorted
  <2>9. QED
    BY <2>6, <2>8, StagesOnly DEF Ledger!Withdraw
<1>10. QED
  BY <1>6, <1>7, <1>8, <1>9 DEF Deploying, Ledger!Next

LEMMA MappingLedger ==
  ASSUME Basics, Owned, Tame(kit), EditFits, Sorted, Staged, Staged', Mapping, UNCHANGED others
  PROVE  Ledger!Next \/ Stage' = Stage
<1> USE DEF others, scene, Basics
<1>0. mapper.phase # "idle" => mapper \in Editing /\ history = {}
  BY TameMeans, Phases DEF TypeInv, EditType
<1>1. UNCHANGED <<jobs, maker, builder, deleter, sweeper>>
  BY DEF Mapping, MapLoad, MapCreate, MapStop, MapDelete, MapCommit, MapRestore, MapUndo
<1>2. history' = history
  BY <1>0 DEF Mapping, MapLoad, MapCreate, MapStop, MapDelete, MapCommit, MapRestore, MapUndo,
              Forgetting
<1>3. /\ Held' = Held /\ InMaking' = InMaking /\ InBuilding' = InBuilding
      /\ Doomed' = Doomed /\ Hist' = Hist
  BY <1>1, <1>2, HandsKept, PendingIs, PendingBecomes DEF Hist, AccountsOf
<1>4. Hist \subseteq Accounts /\ Doomed \subseteq Accounts
  BY HandsAreAccounts, PendingIs, InSpoken DEF Hist
<1>5. mapper'.made = mapper.made => Pending' = Pending
  BY <1>3, PendingIs, PendingBecomes DEF Made, AccountsOf
<1>6. rows' = rows => Bound' = Bound
  BY HandsKept
<1>7. ASSUME mapper'.made = mapper.made, rows' = rows, Accounts' = Accounts, Dead' = Dead
      PROVE  Stage' = Stage
  BY <1>3, <1>5, <1>6, <1>7, StageStays
<1>8. ASSUME NEW g \in Groups, NEW desired \in SUBSET Slots, MapLoad(g, desired)
      PROVE  Stage' = Stage
  <2>1. mapper'.made = mapper.made /\ UNCHANGED <<node, rows>>
    BY <1>8 DEF MapLoad, NoEdit
  <2>2. QED
    BY <1>7, <2>1, CallsMove
<1>9. CASE MapCreate
  <2>1. PICK c \in Creations(mapper.added) :
          /\ node' = Born(c)
          /\ mapper' = IF c.made = mapper.added
                       THEN [mapper EXCEPT !.phase = "stopping", !.made = Named(c)]
                       ELSE [mapper EXCEPT !.phase = "undoing", !.made = Named(c),
                                           !.removed = {}]
    BY <1>9 DEF MapCreate
  <2>2. mapper \in Editing /\ rows' = rows /\ mapper.made = {}
    BY <1>0, <1>9 DEF MapCreate, PhaseInv
  <2>3. NodeStep({}) /\ \A n \in Named(c) : n.account \notin Accounts
    <3>1. mapper.added \in SUBSET Slots
      BY <2>2 DEF Editing
    <3>2. /\ NodeStep({})
          /\ Named(c) \in SUBSET [slot : Slots, account : Accounts' \ Accounts]
      BY <2>1, <3>1, Births DEF TypeInv
    <3>3. QED
      BY <3>2
  <2>4. mapper'.made = Named(c)
    BY <2>1, <2>2 DEF Editing
  <2>5. Made = {} /\ \A a \in Made' : a \notin Accounts
    BY <2>2, <2>3, <2>4 DEF Made, AccountsOf
  <2>6. \A a \in Accounts : a \in Pending' <=> a \in Pending
    BY <1>3, <2>5, PendingIs, PendingBecomes
  <2>7. \A a \in Accounts : a \in Dead' <=> a \in Dead
    BY <2>3, DeadBecomes
  <2>8. Ledger!Create
    BY <1>3, <1>4, <1>6, <2>2, <2>3, <2>6, <2>7, Creates
  <2>9. QED
    BY <2>8 DEF Ledger!Next
<1>10. CASE MapStop
  <2>1. mapper \in Editing /\ rows' = rows
    BY <1>0, <1>10 DEF MapStop
  <2>2. mapper'.made = mapper.made
    BY <1>10, <2>1 DEF MapStop, Editing
  <2>3. \E as : node' = With(as, "stopped") /\ \A a \in as : ~Gone(a)
    BY <1>10 DEF MapStop
  <2>4. QED
    BY <1>7, <2>1, <2>2, <2>3, CallsMove
<1>11. CASE MapDelete
  <2>1. mapper \in Editing /\ rows' = rows
    BY <1>0, <1>11 DEF MapDelete
  <2>2. mapper'.made = mapper.made
    BY <1>11, <2>1 DEF MapDelete, Editing
  <2>3. PICK r \in mapper.removed \ mapper.deleted :
          node' = With({r.account}, "gone") \/ node' = node
    BY <1>11, Zenon DEF MapDelete
  <2>4. CASE node' = node
    BY <1>7, <2>1, <2>2, <2>4, CallsMove
  <2>5. CASE node' = With({r.account}, "gone")
    <3>1. r.account \in Bound /\ r.account \in Accounts
      BY HandsAreAccounts DEF EditFits, Bound, AccountsOf
    <3>2. Accounts' = Accounts /\ Dead' = Dead \cup {r.account}
      BY <2>5, <3>1, CallsMove
    <3>3. Bound' = Bound /\ Pending' = Pending
      BY <1>5, <1>6, <2>1, <2>2
    <3>4. \A a \in Accounts : a # r.account => Stage'[a] = Stage[a]
      BY <1>3, <3>2, <3>3 DEF Staged, Stages
    <3>5. Stage'[r.account] = "gone" /\ Stage[r.account] \in {"bound", "gone"}
      BY <3>1, <3>2 DEF Staged
    <3>6. CASE Stage[r.account] = "bound"
      <4>1. Ledger!Delete
        BY <3>1, <3>2, <3>4, <3>5, <3>6, StageOf DEF Ledger!Delete
      <4>2. QED
        BY <4>1 DEF Ledger!Next
    <3>7. CASE Stage[r.account] = "gone"
      <4>1. Dead' = Dead
        BY <3>1, <3>2, <3>7 DEF Staged
      <4>2. QED
        BY <1>7, <2>1, <2>2, <3>2, <4>1
    <3>8. QED
      BY <3>5, <3>6, <3>7
  <2>6. QED
    BY <2>3, <2>4, <2>5
<1>12. CASE MapCommit
  <2> DEFINE ids == {r.id : r \in mapper.removed}
             New(n) == Row(mapper.group, n.slot, n.account, FALSE)
  <2>1. mapper \in Editing /\ node' = node /\ mapper.deleted = mapper.removed
    BY <1>0, <1>12 DEF MapCommit
  <2>2. \/ rows' = Without(ids) \cup {New(n) : n \in mapper.made} /\ mapper' = NoEdit
        \/ rows' = rows /\ mapper' = [mapper EXCEPT !.phase = "restoring"]
    BY <1>12 DEF MapCommit
  <2>3. Accounts' = Accounts /\ Dead' = Dead
    BY <2>1, CallsMove
  <2>4. CASE rows' = rows /\ mapper' = [mapper EXCEPT !.phase = "restoring"]
    <3>1. mapper'.made = mapper.made
      BY <2>1, <2>4 DEF Editing
    <3>2. QED
      BY <1>7, <2>3, <2>4, <3>1
  <2>5. CASE rows' = Without(ids) \cup {New(n) : n \in mapper.made} /\ mapper' = NoEdit
    <3>1. \A n \in mapper.made : New(n) \in rows' /\ New(n).account = n.account
      BY <2>5 DEF Row
    <3>2. \A r \in rows : r \in rows' \/ \E q \in mapper.removed : q.id = r.id
      BY <2>5 DEF Without
    <3>3. \A x \in rows' : x \in rows \/ \E n \in mapper.made : x = New(n)
      BY <2>5 DEF Without
    <3>4. \A n : New(n).account = n.account
      BY DEF Row
    <3> HIDE DEF New, ids
    <3>5. \A r \in rows, q \in mapper.removed : q.id = r.id => r.account \in Dead
      BY <2>1 DEF EditFits, Owned, Unique
    <3>6. \A r \in rows : r \in rows' \/ r.account \in Dead
      BY <3>2, <3>5
    <3>7. Bound \subseteq Bound' \cup Dead
      BY <3>6 DEF Bound, AccountsOf
    <3>8. Made \subseteq Bound'
      BY <3>1 DEF Made, Bound, AccountsOf
    <3>9. Bound' \subseteq Bound \cup Made
      BY <3>3, <3>4 DEF Made, Bound, AccountsOf
    <3>10. Made' = {}
      BY <2>5, Phases DEF Made, AccountsOf
    <3>11. /\ \A a : a \in Pending' => a \in Pending
           /\ \A a : a \in Pending => a \in Pending' \/ a \in Made
           /\ Made \subseteq Pending
      BY <1>3, <3>10, PendingIs, PendingBecomes
    <3>12. \A a \in Accounts : \/ Stage'[a] = Stage[a]
                               \/ Stage[a] = "pending" /\ Stage'[a] = "bound"
      BY <1>3, <2>3, <3>7, <3>8, <3>9, <3>11 DEF Staged, Stages, Sorted
    <3>13. Ledger!Bind
      BY <2>3, <3>12, StagesOnly DEF Ledger!Bind
    <3>14. QED
      BY <3>13 DEF Ledger!Next
  <2>6. QED
    BY <2>2, <2>4, <2>5
<1>13. CASE MapRestore
  <2>1. PICK r \in mapper.deleted :
          /\ mapper' = [mapper EXCEPT !.deleted = @ \ {r}, !.removed = @ \ {r}]
          /\ \/ UNCHANGED <<node, rows>>
             \/ \E state \in {"running", "stopped"} :
                  /\ node' = Append(node, state)
                  /\ \/ rows' = rows
                     \/ rows' = {IF q.id = r.id THEN [q EXCEPT !.account = Len(node')] ELSE q :
                                   q \in rows}
    BY <1>13, Zenon DEF MapRestore
  <2>2. mapper \in Editing
    BY <1>0, <1>13 DEF MapRestore
  <2>3. mapper'.made = mapper.made
    BY <2>1, <2>2 DEF Editing
  <2>4. CASE UNCHANGED <<node, rows>>
    BY <1>7, <2>3, <2>4, CallsMove
  <2>5. ASSUME NEW state \in {"running", "stopped"}, node' = Append(node, state),
               \/ rows' = rows
               \/ rows' = {IF q.id = r.id THEN [q EXCEPT !.account = Len(node')] ELSE q :
                             q \in rows}
        PROVE  Ledger!Create
    <3> DEFINE New(q) == IF q.id = r.id THEN [q EXCEPT !.account = Len(node')] ELSE q
    <3>1. NodeStep({}) /\ Len(node') \notin Accounts
      BY <2>5, NodeAppends DEF TypeInv, Accounts
    <3>2. \A a \in Accounts : a \in Dead' <=> a \in Dead
      BY <3>1, DeadBecomes
    <3>3. \A a \in Accounts : a \in Bound' /\ a \notin Dead <=> a \in Bound /\ a \notin Dead
      <4>1. CASE rows' = rows
        BY <1>6, <4>1
      <4>2. CASE rows' = {New(q) : q \in rows}
        <5>1. rows \in SUBSET RowType /\ r \in rows
          BY DEF TypeInv, EditFits, PhaseInv
        <5>2. /\ \A q \in rows : /\ New(q) \in rows'
                                 /\ New(q).account = IF q.id = r.id THEN Len(node') ELSE q.account
              /\ \A x \in rows' : \E q \in rows : x = New(q)
          BY <4>2, <5>1 DEF RowType
        <5> HIDE DEF New
        <5>3. \A q \in rows : q.id = r.id => q.account \in Dead
          BY <5>1 DEF Owned, Unique, EditFits
        <5>4. Bound \subseteq Bound' \cup Dead
          BY <5>2, <5>3 DEF Bound, AccountsOf
        <5>5. Bound' \subseteq Bound \cup {Len(node')}
          BY <5>2 DEF Bound, AccountsOf
        <5>6. QED
          BY <3>1, <5>4, <5>5
      <4>3. QED
        BY <2>5, <4>1, <4>2
    <3>4. QED
      BY <1>3, <1>4, <1>5, <2>3, <3>1, <3>2, <3>3, Creates
  <2>6. QED
    BY <2>1, <2>4, <2>5 DEF Ledger!Next
<1>14. CASE MapUndo
  <2>1. PICK G \in SUBSET Made : NodeStep(G) /\ Len(node') = Len(node)
    BY <1>14, UndoesMapping DEF Made
  <2>2. rows' = rows /\ mapper' = NoEdit
    BY <1>14 DEF MapUndo
  <2>3. Accounts' = Accounts /\ Dead' = Dead \cup (G \cap Accounts)
    BY <2>1, DeadBecomes
  <2>4. Made' = {}
    BY <2>2, Phases DEF Made, AccountsOf
  <2>5. /\ \A a : a \in Pending' => a \in Pending
        /\ \A a : a \in Pending => a \in Pending' \/ a \in Made
        /\ Made \subseteq Pending
    BY <1>3, <2>4, PendingIs, PendingBecomes
  <2>6. \A a \in Accounts : \/ Stage'[a] = Stage[a]
                            \/ Stage[a] = "pending" /\ Stage'[a] \in {"gone", "lost"}
    BY <1>3, <1>6, <2>1, <2>2, <2>3, <2>5 DEF Staged, Stages, Sorted
  <2>7. Ledger!Withdraw
    BY <2>3, <2>6, StagesOnly DEF Ledger!Withdraw
  <2>8. QED
    BY <2>7 DEF Ledger!Next
<1>15. QED
  BY <1>8, <1>9, <1>10, <1>11, <1>12, <1>13, <1>14 DEF Mapping

(* A step that deletes one account which a row names, which is recorded as *)
(* retired, or which is doomed.                                            *)
LEMMA DeletesOne ==
  ASSUME TypeInv, Staged, Staged', NEW b \in Accounts, node' = With({b}, "gone"),
         b \in Bound \cup Hist \cup Doomed \cup Dead, Bound' = Bound, Pending' = Pending,
         \A a \in Accounts : a # b => /\ a \in Hist' <=> a \in Hist
                                      /\ a \in Doomed' <=> a \in Doomed
  PROVE  Ledger!Next \/ Stage' = Stage
<1>1. Accounts' = Accounts /\ Dead' = Dead \cup {b}
  BY CallsMove
<1>2. \A a \in Accounts : a # b => Stage'[a] = Stage[a]
  BY <1>1 DEF Staged, Stages
<1>3. Stage'[b] = "gone" /\ Stage[b] \in Stages
  BY <1>1 DEF Staged
<1>4. CASE b \in Dead
  <2>1. Stage'[b] = Stage[b]
    BY <1>3, <1>4 DEF Staged
  <2>2. QED
    BY <1>1, <1>2, <2>1 DEF Staged
<1>5. CASE b \notin Dead
  <2>1. Stage[b] \in {"bound", "retired", "doomed"}
    BY <1>5 DEF Staged
  <2>2. Ledger!Delete
    BY <1>1, <1>2, <1>3, <2>1, StageOf DEF Ledger!Delete
  <2>3. QED
    BY <2>2 DEF Ledger!Next
<1>6. QED
  BY <1>4, <1>5

(* A step that fails to, and does not try again.                           *)
LEMMA LeavesOne ==
  ASSUME TypeInv, Staged, Staged', NEW b \in Accounts, node' = node, b \in Doomed,
         Bound' = Bound, Pending' = Pending, Hist' = Hist,
         \A a \in Accounts : a # b => (a \in Doomed' <=> a \in Doomed)
  PROVE  Ledger!Next \/ Stage' = Stage
<1>1. Accounts' = Accounts /\ Dead' = Dead
  BY CallsMove
<1>2. \A a \in Accounts : a # b => Stage'[a] = Stage[a]
  BY <1>1 DEF Staged, Stages
<1>3. \/ Stage'[b] = Stage[b]
      \/ Stage[b] = "doomed" /\ Stage'[b] = "lost"
  BY <1>1 DEF Staged, Stages
<1>4. CASE Stage'[b] = Stage[b]
  BY <1>1, <1>2, <1>4 DEF Staged
<1>5. CASE Stage[b] = "doomed" /\ Stage'[b] = "lost"
  <2>1. Ledger!Leave
    BY <1>1, <1>2, <1>5, StageOf DEF Ledger!Leave
  <2>2. QED
    BY <2>1 DEF Ledger!Next
<1>6. QED
  BY <1>3, <1>4, <1>5

LEMMA MakingLedger ==
  ASSUME Basics, Owned, Tame(kit), Sorted, Staged, Staged', Making, UNCHANGED others
  PROVE  Ledger!Next \/ Stage' = Stage
<1> USE DEF others, scene, Basics
<1>1. UNCHANGED <<history, jobs, mapper, builder, deleter, sweeper>>
  BY DEF Making, MakeCheck, MakeCreate, MakeInsert
<1>2. /\ Held' = Held /\ Made' = Made /\ InBuilding' = InBuilding
      /\ Doomed' = Doomed /\ Hist' = Hist
  BY <1>1, HandsKept, PendingIs, PendingBecomes DEF Hist, AccountsOf
<1>3. Hist \subseteq Accounts /\ Doomed \subseteq Accounts
  BY HandsAreAccounts, PendingIs, InSpoken DEF Hist
<1>4. ASSUME NEW g \in Groups, NEW s \in Slots, MakeCheck(g, s)
      PROVE  Stage' = Stage
  <2>1. InMaking' = {} /\ InMaking = {} /\ UNCHANGED <<node, rows>>
    BY <1>4 DEF MakeCheck, InMaking, NotMaking
  <2>2. Pending' = Pending /\ Bound' = Bound
    BY <1>2, <2>1, HandsKept, PendingIs, PendingBecomes
  <2>3. QED
    BY <1>2, <2>1, <2>2, CallsMove, StageStays
<1>5. CASE MakeCreate
  <2>1. PICK c \in Creations({maker.slot}) :
          /\ node' = Born(c)
          /\ maker' = IF c.made = {} THEN NotMaking
                      ELSE [maker EXCEPT !.phase = "inserting", !.account = Len(node')]
    BY <1>5 DEF MakeCreate
  <2>2. /\ maker \in [phase : {"creating"}, group : Groups, slot : Slots, account : {0}]
        /\ rows' = rows
    BY <1>5 DEF MakeCreate, TypeInv, MakeType, NotMaking, Inserting
  <2>3. NodeStep({})
    BY <2>1, <2>2, Births DEF TypeInv
  <2>4. c.made # {} => Len(node') \in Accounts' \ Accounts
    <3>1. node \in Seq(States) /\ maker.slot \in Slots
      BY <2>2 DEF TypeInv
    <3>2. QED
      BY <2>1, <3>1, MakesOne
  <2>5. InMaking' \subseteq Accounts' \ Accounts /\ InMaking = {}
    BY <2>1, <2>2, <2>4 DEF InMaking, NotMaking
  <2>6. \A a \in Accounts : a \in Pending' <=> a \in Pending
    BY <1>2, <2>5, PendingIs, PendingBecomes
  <2>7. Bound' = Bound /\ \A a \in Accounts : a \in Dead' <=> a \in Dead
    BY <2>2, <2>3, HandsKept, DeadBecomes
  <2>8. Ledger!Create
    BY <1>2, <1>3, <2>3, <2>6, <2>7, Creates
  <2>9. QED
    BY <2>8 DEF Ledger!Next
<1>6. CASE MakeInsert
  <2> DEFINE new == Row(maker.group, maker.slot, maker.account, FALSE)
  <2>1. maker \in Inserting /\ node' = node /\ maker' = NotMaking
    BY <1>6, Phases DEF MakeInsert, TypeInv, MakeType
  <2>2. /\ source = "ACTIVE" /\ {maker.group, maker.slot} \subseteq present
        /\ InMaking = {maker.account}
    BY <2>1, TameMeans, Phases DEF Inserting, InMaking
  <2>3. rows' = rows \cup {new} \/ rows' = rows
    BY <1>6 DEF MakeInsert
  <2>4. new.account = maker.account
    BY DEF Row
  <2> HIDE DEF new
  <2>5. InMaking' = {}
    BY <2>1 DEF InMaking, NotMaking
  <2>6. /\ \A a : a \in Pending' => a \in Pending
        /\ \A a : a \in Pending => a \in Pending' \/ a \in InMaking
        /\ InMaking \subseteq Pending
    BY <1>2, <2>5, PendingIs, PendingBecomes
  <2>7. Accounts' = Accounts /\ Dead' = Dead
    BY <2>1, CallsMove
  <2>8. CASE rows' = rows \cup {new}
    <3>1. Bound' = Bound \cup InMaking
      BY <2>2, <2>4, <2>8 DEF Bound, AccountsOf
    <3>2. \A a \in Accounts : Stage'[a] = Stage[a] \/ (Stage[a] = "pending" /\ Stage'[a] = "bound")
      BY <1>2, <2>6, <2>7, <3>1 DEF Staged, Stages, Sorted
    <3>3. Ledger!Bind
      BY <2>7, <3>2, StagesOnly DEF Ledger!Bind
    <3>4. QED
      BY <3>3 DEF Ledger!Next
  <2>9. CASE rows' = rows
    <3>1. Bound' = Bound
      BY <2>9, HandsKept
    <3>2. \A a \in Accounts : Stage'[a] = Stage[a] \/ (Stage[a] = "pending" /\ Stage'[a] = "lost")
      BY <1>2, <2>6, <2>7, <3>1 DEF Staged, Stages, Sorted
    <3>3. Ledger!Withdraw
      BY <2>7, <3>2, StagesOnly DEF Ledger!Withdraw
    <3>4. QED
      BY <3>3 DEF Ledger!Next
  <2>10. QED
    BY <2>3, <2>8, <2>9
<1>7. QED
  BY <1>4, <1>5, <1>6 DEF Making

(* The rows the deletion goes through are there until it removes them.     *)
TodoFits == deleter.todo \subseteq rows

LEMMA TodoKept ==
  ASSUME Basics, Tame(kit), IntentFits, TodoFits, [Next]_vars
  PROVE  TodoFits'
<1> USE DEF bindVars, bindUnchanged, scene, others
<1>1. deleter.phase # "idle" => deleter \in Deletion /\ source # "ACTIVE"
  BY Phases DEF Basics, TypeInv, DeletionType, PhaseInv
<1>2. CASE deleter' = NoDeletion \/ RequestDeletion
  <2>1. deleter'.todo = {}
    BY <1>2, Phases DEF RequestDeletion, NoDeletion
  <2>2. QED
    BY <2>1 DEF TodoFits
<1>3. CASE DeletionLoad
  <2>1. rows' = rows /\ deleter'.todo = rows
    BY <1>1, <1>3 DEF DeletionLoad, Deletion
  <2>2. QED
    BY <2>1 DEF TodoFits
<1>4. CASE DeletionCall
  <2>1. deleter \in Deletion /\ rows' = rows
    BY <1>1, <1>4 DEF DeletionCall
  <2>2. deleter' = NoDeletion \/ \E n : deleter' = [deleter EXCEPT !.phase = "removing", !.at = n]
    BY <1>4 DEF DeletionCall
  <2>3. deleter' = NoDeletion \/ deleter'.todo = deleter.todo
    BY <2>1, <2>2 DEF Deletion
  <2>4. QED
    BY <1>2, <2>1, <2>3 DEF TodoFits
<1>5. CASE DeletionRemove
  <2>1. deleter \in Deletion
    BY <1>1, <1>5 DEF DeletionRemove
  <2>2. \/ deleter' = NoDeletion
        \/ /\ rows' = Without({deleter.at})
           /\ deleter' = [deleter EXCEPT !.phase = "deleting", !.at = 0,
                                         !.todo = {r \in @ : r.id # deleter.at}]
    BY <1>5 DEF DeletionRemove
  <2>3. \/ deleter' = NoDeletion
        \/ /\ rows' = Without({deleter.at})
           /\ deleter'.todo = {r \in deleter.todo : r.id # deleter.at}
    BY <2>1, <2>2 DEF Deletion
  <2>4. QED
    BY <1>2, <2>3 DEF TodoFits, Without
<1>6. CASE DeletionFinish
  BY <1>2, <1>6 DEF DeletionFinish
<1>7. CASE deleter' = deleter /\ ~RequestDeletion /\ ~DeletionSteps
  <2>1. CASE deleter.phase = "idle"
    <3>1. deleter.todo = {}
      BY <2>1, Phases DEF Basics, TypeInv, DeletionType, Deletion
    <3>2. QED
      BY <1>7, <3>1 DEF TodoFits
  <2>2. CASE deleter.phase # "idle"
    <3>1. /\ mapper.phase = "idle" /\ maker.phase = "idle" /\ ~builder.live
          /\ source # "ACTIVE" /\ \A j \in Jobs : jobs[j].status \notin {"QUEUED", "RUNNING"}
      BY <1>1, <2>2, TameMeans, Phases DEF IntentFits, Active
    <3>2. rows' = rows
      BY <1>7, <3>1
         DEF Next, Binding, Deploying, Submit, JobStart, JobGroup, JobCommit, JobRollback,
             Mapping, MapLoad, MapCreate, MapStop, MapDelete, MapCommit, MapRestore, MapUndo,
             Making, MakeCheck, MakeCreate, MakeInsert,
             BuildSteps, Plan, Enqueue, BuildLoad, BuildCreate, BuildStop, BuildStart, BuildSwitch,
             BuildCommit, BuildUndo, BuildRetire, Clean, CleanFails, Vanish, Sweep, Restart, vars
    <3>3. QED
      BY <1>7, <3>2 DEF TodoFits
  <2>3. QED
    BY <2>1, <2>2
<1>8. QED
  BY <1>2, <1>3, <1>4, <1>5, <1>6, <1>7, DeleterLater DEF DeletionSteps

LEMMA DeletingLedger ==
  ASSUME Basics, Owned, DeletionFits, TodoFits, Sorted, Staged, Staged',
         RequestDeletion \/ DeletionSteps
  PROVE  Ledger!Next \/ Stage' = Stage
<1> USE DEF Basics, bindVars
<1>1. UNCHANGED <<jobs, mapper, maker, sweeper>>
  BY DEF RequestDeletion, DeletionSteps, DeletionLoad, DeletionCall, DeletionRemove, DeletionFinish
<1>2. /\ builder'.phase = builder.phase /\ builder'.new = builder.new
      /\ builder'.old = builder.old
  BY RejectedHolds
     DEF RequestDeletion, DeletionSteps, DeletionLoad, DeletionCall, DeletionRemove, DeletionFinish
<1>3. InBuilding' = InBuilding /\ InRetiring' = InRetiring
  BY <1>2 DEF InBuilding, InRetiring
<1>4. Pending' = Pending /\ Doomed' = Doomed
  BY <1>1, <1>3, HandsKept, PendingIs, PendingBecomes
<1>5. history' = history => Hist' = Hist
  BY DEF Hist, AccountsOf
<1>6. CASE RequestDeletion
  <2>1. rows' = {[r EXCEPT !.on = FALSE] : r \in rows} /\ UNCHANGED <<node, history>>
    BY <1>6 DEF RequestDeletion
  <2>2. \A r \in rows : [r EXCEPT !.on = FALSE].account = r.account
    BY DEF TypeInv, RowType
  <2>3. Bound' = Bound
    BY <2>1, <2>2 DEF Bound, AccountsOf
  <2>4. QED
    BY <1>4, <1>5, <2>1, <2>3, CallsMove, StageStays
<1>7. CASE DeletionLoad \/ DeletionFinish
  <2>1. UNCHANGED <<node, rows, history>>
    BY <1>7 DEF DeletionLoad, DeletionFinish
  <2>2. QED
    BY <1>4, <1>5, <2>1, HandsKept, CallsMove, StageStays
<1>8. CASE DeletionCall
  <2>1. PICK r \in deleter.todo : node' = With({r.account}, "gone") \/ node' = node
    BY <1>8 DEF DeletionCall
  <2>2. UNCHANGED <<rows, history>>
    BY <1>8 DEF DeletionCall
  <2>3. Hist' = Hist /\ Bound' = Bound
    BY <1>5, <2>2, HandsKept
  <2>4. r.account \in Bound /\ r.account \in Accounts
    BY HandsAreAccounts DEF TodoFits, Bound, AccountsOf
  <2>5. CASE node' = With({r.account}, "gone")
    BY <1>4, <2>3, <2>4, <2>5, DeletesOne
  <2>6. CASE node' = node
    BY <1>4, <2>3, <2>6, CallsMove, StageStays
  <2>7. QED
    BY <2>1, <2>5, <2>6
<1>9. CASE DeletionRemove
  <2>1. /\ node' = node /\ deleter.phase = "removing"
        /\ \/ rows' = Without({deleter.at}) /\ history' = Forgetting({deleter.at})
           \/ UNCHANGED <<rows, history>>
    BY <1>9 DEF DeletionRemove
  <2>2. Accounts' = Accounts /\ Dead' = Dead
    BY <2>1, CallsMove
  <2>3. CASE UNCHANGED <<rows, history>>
    BY <1>4, <1>5, <2>2, <2>3, HandsKept, StageStays
  <2>4. CASE rows' = Without({deleter.at}) /\ history' = Forgetting({deleter.at})
    <3>1. Bound' \subseteq Bound /\ Hist' \subseteq Hist
      BY <2>4 DEF Bound, Hist, AccountsOf, Without, Forgetting
    <3>2. \A r \in rows : r \in rows' \/ r.account \in Dead
      BY <2>1, <2>4 DEF Without, DeletionFits
    <3>3. Bound \subseteq Bound' \cup Dead
      BY <3>2 DEF Bound, AccountsOf
    <3>4. \A a \in Accounts : \/ Stage'[a] = Stage[a]
                              \/ Stage[a] = "retired" /\ Stage'[a] \in {"doomed", "lost"}
      BY <1>4, <2>2, <3>1, <3>3 DEF Staged, Stages, Sorted
    <3>5. Ledger!Forget
      BY <2>2, <3>4, StagesOnly DEF Ledger!Forget
    <3>6. QED
      BY <3>5 DEF Ledger!Next
  <2>5. QED
    BY <2>1, <2>3, <2>4
<1>10. QED
  BY <1>6, <1>7, <1>8, <1>9 DEF DeletionSteps

LEMMA BuildingLedger ==
  ASSUME Basics, Owned, Sorted, Staged, Staged', BuildSteps \/ (\E r \in rows : Plan(r))
  PROVE  Ledger!Next \/ Stage' = Stage
<1> USE DEF Basics, bindVars, bindUnchanged
<1>0. builder \in Resting \cup Planning \cup Creating \cup Replacing
  BY DEF TypeInv, BuildType
<1>1. UNCHANGED <<jobs, mapper, maker, deleter, sweeper>>
  BY DEF BuildSteps, Plan, Enqueue, BuildLoad, BuildCreate, BuildStop, BuildStart, BuildSwitch,
         BuildCommit, BuildUndo, BuildRetire
<1>2. Held' = Held /\ Made' = Made /\ InMaking' = InMaking
  BY <1>1, HandsKept
<1>3. InBuilding' = InBuilding => Pending' = Pending
  BY <1>2, PendingIs, PendingBecomes
<1>4. InRetiring' = InRetiring => Doomed' = Doomed
  BY <1>1, PendingIs, PendingBecomes
<1>5. UNCHANGED <<rows, history>> => Bound' = Bound /\ Hist' = Hist
  BY HandsKept DEF Hist, AccountsOf
<1>6. InBuilding \subseteq Accounts /\ InRetiring \subseteq Accounts /\ Hist \subseteq Accounts
      /\ Doomed \subseteq Accounts
  BY HandsAreAccounts, PendingIs, InSpoken DEF Hist
<1>7. CASE (\E r \in rows : Plan(r)) \/ Enqueue \/ BuildLoad
  <2>1. /\ UNCHANGED <<node, rows, history>>
        /\ builder.phase \in {"idle", "planned", "queued"}
    BY <1>7, Phases DEF Plan, Enqueue, BuildLoad
  <2>2. builder'.phase \in {"idle", "planned", "queued", "creating"}
    <3>1. CASE \E r \in rows : Plan(r)
      BY <3>1 DEF Plan, NotBuilding
    <3>2. CASE Enqueue
      <4>1. builder' = NotBuilding \/ builder' = [builder EXCEPT !.phase = "queued", !.live = TRUE]
        BY <3>2 DEF Enqueue
      <4>2. QED
        BY <1>0, <4>1, Phases DEF Resting, Planning, Creating, Replacing
    <3>3. CASE BuildLoad
      <4>1. builder' = NotBuilding
              \/ \E a : builder' = [builder EXCEPT !.phase = "creating", !.old = a]
        BY <3>3 DEF BuildLoad
      <4>2. QED
        BY <1>0, <4>1, Phases DEF Resting, Planning, Creating, Replacing
    <3>4. QED
      BY <1>7, <3>1, <3>2, <3>3
  <2>3. InBuilding' = InBuilding /\ InRetiring' = InRetiring
    BY <2>1, <2>2 DEF InBuilding, InRetiring
  <2>4. QED
    BY <1>3, <1>4, <1>5, <2>1, <2>3, CallsMove, StageStays
<1>8. CASE BuildCreate
  <2>1. builder \in Creating /\ UNCHANGED <<rows, history>>
    BY <1>0, <1>8 DEF BuildCreate, Resting, Planning, Replacing
  <2>2. \/ node' = Append(node, "stopped") /\ builder' = NotBuilding
        \/ UNCHANGED node /\ builder' = NotBuilding
        \/ /\ node' = Append(node, "stopped")
           /\ builder' = [builder EXCEPT !.phase = "stopping", !.new = Len(node')]
    BY <1>8 DEF BuildCreate
  <2>3. NodeStep({})
    BY <2>2, NodeStays, NodeAppends DEF TypeInv
  <2>4. node' = Append(node, "stopped") => Len(node') \in Accounts' \ Accounts
    BY DEF TypeInv, Accounts, States
  <2>5. /\ InBuilding = {} /\ InRetiring = {} /\ InRetiring' = {}
        /\ InBuilding' \subseteq Accounts' \ Accounts
    <3>1. CASE builder' = NotBuilding
      BY <2>1, <3>1 DEF InBuilding, InRetiring, NotBuilding, Creating
    <3>2. CASE /\ node' = Append(node, "stopped")
               /\ builder' = [builder EXCEPT !.phase = "stopping", !.new = Len(node')]
      <4>1. builder'.phase = "stopping" /\ builder'.new = Len(node')
        BY <2>1, <3>2 DEF Creating
      <4>2. QED
        BY <2>1, <2>4, <3>2, <4>1 DEF InBuilding, InRetiring, Creating
    <3>3. QED
      BY <2>2, <3>1, <3>2
  <2>6. \A a \in Accounts : a \in Pending' <=> a \in Pending
    BY <1>2, <2>5, PendingIs, PendingBecomes
  <2>7. \A a \in Accounts : a \in Dead' <=> a \in Dead
    BY <2>3, DeadBecomes
  <2>8. Ledger!Create
    BY <1>4, <1>5, <1>6, <2>1, <2>3, <2>5, <2>6, <2>7, Creates
  <2>9. QED
    BY <2>8 DEF Ledger!Next
<1>9. ASSUME NEW phase \in {"stopping", "starting"}, NEW a, NEW state \in {"stopped", "running"},
             NEW next \in {"starting", "committing"}, BuildSwitch(phase, a, state, next)
      PROVE  Stage' = Stage
  <2>1. \/ /\ ~Gone(a)
           /\ node' = With({a}, state)
           /\ builder' = [builder EXCEPT !.phase = next, !.oldOff = TRUE]
        \/ builder' = [builder EXCEPT !.phase = "undoing"] /\ UNCHANGED node
    BY <1>9 DEF BuildSwitch
  <2>2. builder \in Replacing /\ builder.phase = phase /\ UNCHANGED <<rows, history>>
    BY <1>0, <1>9 DEF BuildSwitch, Resting, Planning, Creating
  <2>3. builder'.new = builder.new /\ builder'.phase \in {"starting", "committing", "undoing"}
    BY <2>1, <2>2 DEF Replacing
  <2>4. InBuilding' = InBuilding /\ InRetiring' = InRetiring
    BY <2>2, <2>3 DEF InBuilding, InRetiring
  <2>5. Accounts' = Accounts /\ Dead' = Dead
    <3>1. ~Gone(a) => \A b \in {a} : ~Gone(b)
      OBVIOUS
    <3>2. QED
      BY <2>1, <3>1, CallsMove
  <2>6. QED
    BY <1>3, <1>4, <1>5, <2>2, <2>4, <2>5, StageStays
<1>10. CASE BuildCommit
  <2> DEFINE mine == {r \in rows : r.id = builder.id /\ r.account = builder.old}
             New(r) == [r EXCEPT !.account = builder.new, !.on = TRUE]
  <2>1. builder \in Replacing /\ builder.phase = "committing" /\ node' = node
    BY <1>0, <1>10 DEF BuildCommit, Resting, Planning, Creating
  <2>2. \/ /\ mine # {}
           /\ rows' = (rows \ mine) \cup {New(r) : r \in mine}
           /\ history' = Retired(builder.id, builder.old)
           /\ builder' = [builder EXCEPT !.phase = "retiring", !.live = FALSE]
        \/ /\ builder' = [builder EXCEPT !.phase = "undoing"]
           /\ UNCHANGED <<rows, history>>
    BY <1>10 DEF BuildCommit
  <2>3. /\ InBuilding = {builder.new} /\ InRetiring = {}
        /\ Accounts' = Accounts /\ Dead' = Dead
    BY <2>1, CallsMove DEF InBuilding, InRetiring
  <2>4. CASE /\ builder' = [builder EXCEPT !.phase = "undoing"]
             /\ UNCHANGED <<rows, history>>
    <3>1. builder'.new = builder.new /\ builder'.phase = "undoing"
      BY <2>1, <2>4 DEF Replacing
    <3>2. InBuilding' = InBuilding /\ InRetiring' = InRetiring
      BY <2>1, <3>1 DEF InBuilding, InRetiring
    <3>3. QED
      BY <1>3, <1>4, <1>5, <2>3, <2>4, <3>2, StageStays
  <2>5. CASE /\ mine # {}
             /\ rows' = (rows \ mine) \cup {New(r) : r \in mine}
             /\ history' = Retired(builder.id, builder.old)
             /\ builder' = [builder EXCEPT !.phase = "retiring", !.live = FALSE]
    <3>1. builder'.old = builder.old /\ builder'.phase = "retiring"
      BY <2>1, <2>5 DEF Replacing
    <3>2. InBuilding' = {} /\ InRetiring' = {builder.old}
      BY <3>1 DEF InBuilding, InRetiring
    <3>3. /\ \A r \in mine : /\ New(r) \in rows' /\ New(r).account = builder.new
                             /\ r \in rows /\ r.account = builder.old
          /\ \A r \in rows : r \in rows' \/ r \in mine
          /\ \A x \in rows' : (x \in rows /\ x \notin mine) \/ \E r \in mine : x = New(r)
          /\ mine # {}
      BY <2>5 DEF TypeInv, RowType
    <3> HIDE DEF New, mine
    <3>4. builder.old \in Bound /\ builder.old \in Accounts /\ builder.new \in Accounts
      BY <1>6, <2>3, <3>3, HandsAreAccounts DEF Bound, AccountsOf
    <3>5. builder.new \notin Bound \cup Hist \cup Doomed /\ builder.new \in Pending
      <4>1. builder.new \in Pending
        BY <2>3, PendingIs
      <4>2. QED
        BY <4>1 DEF Sorted
    <3>6. \A x \in rows' : x.account = builder.new \/ (x.account \in Bound /\ x.account # builder.old)
      <4>1. PICK r \in mine : TRUE
        BY <3>3
      <4>2. \A x \in rows : x \notin mine => x.account # builder.old
        BY <3>3, <4>1 DEF Owned, Unique
      <4>3. QED
        BY <3>3, <4>2 DEF Bound, AccountsOf
    <3>7. \A a : a \in Bound' <=> a = builder.new \/ (a \in Bound /\ a # builder.old)
      <4>1. builder.new \in Bound'
        BY <3>3 DEF Bound, AccountsOf
      <4>2. \A a \in Bound : a # builder.old => a \in Bound'
        BY <3>3 DEF Bound, AccountsOf
      <4>3. \A a \in Bound' : a = builder.new \/ (a \in Bound /\ a # builder.old)
        BY <3>6 DEF Bound, AccountsOf
      <4>4. QED
        BY <4>1, <4>2, <4>3
    <3>8. \A a : a \in Hist' <=> a \in Hist \/ a = builder.old
      <4> DEFINE new == [row |-> builder.id, account |-> builder.old]
      <4>1. history' = history \cup {new}
        BY <2>5 DEF Retired
      <4>2. new.account = builder.old
        OBVIOUS
      <4> HIDE DEF new
      <4>3. QED
        BY <4>1, <4>2 DEF Hist, AccountsOf
    <3>9. /\ \A a : a \in Pending' => a \in Pending
          /\ \A a : a \in Pending => a \in Pending' \/ a = builder.new
          /\ \A a : a \in Doomed' <=> a \in Doomed \/ a = builder.old
      BY <1>1, <1>2, <2>3, <3>2, PendingIs, PendingBecomes
    <3>10. builder.new \notin Dead /\ Stage[builder.new] = "pending" /\ Stage'[builder.new] = "bound"
      BY <2>3, <3>4, <3>5, <3>7 DEF Staged, Sorted
    <3>11. \A a \in Accounts : a # builder.old /\ a # builder.new => Stage'[a] = Stage[a]
      BY <2>3, <3>7, <3>8, <3>9 DEF Staged, Stages
    <3>12. CASE builder.old \in Dead
      <4>1. Stage'[builder.old] = Stage[builder.old]
        BY <2>3, <3>4, <3>12 DEF Staged
      <4>2. \A a \in Accounts : \/ Stage'[a] = Stage[a]
                                \/ Stage[a] = "pending" /\ Stage'[a] = "bound"
        BY <3>10, <3>11, <4>1
      <4>3. Ledger!Bind
        BY <2>3, <4>2, StagesOnly DEF Ledger!Bind
      <4>4. QED
        BY <4>3 DEF Ledger!Next
    <3>13. CASE builder.old \notin Dead
      <4>1. Stage[builder.old] = "bound" /\ Stage'[builder.old] = "retired"
        BY <2>3, <3>4, <3>8, <3>13 DEF Staged
      <4>2. DOMAIN Stage = Accounts /\ Stage' \in [Accounts -> Stages] /\ Stage \in [Accounts -> Stages]
        BY <2>3 DEF Staged
      <4>3. Stage' = [Stage EXCEPT ![builder.old] = "retired", ![builder.new] = "bound"]
        BY <3>10, <3>11, <4>1, <4>2
      <4>4. Ledger!Replace
        BY <3>4, <3>10, <4>1, <4>2, <4>3 DEF Ledger!Replace, Ledger!DOM
      <4>5. QED
        BY <4>4 DEF Ledger!Next
    <3>14. QED
      BY <3>12, <3>13
  <2>6. QED
    BY <2>2, <2>4, <2>5
<1>11. CASE BuildUndo
  <2>1. builder.phase = "undoing" /\ builder' = NotBuilding /\ UNCHANGED <<rows, history>>
    BY <1>11 DEF BuildUndo
  <2>2. PICK G \in SUBSET {builder.new} : NodeStep(G) /\ Len(node') = Len(node)
    BY <1>11, UndoesBuilding
  <2>3. InBuilding' = {} /\ InRetiring' = InRetiring /\ InBuilding = {builder.new}
    BY <2>1 DEF InBuilding, InRetiring, NotBuilding
  <2>4. Accounts' = Accounts /\ Dead' = Dead \cup (G \cap Accounts)
    BY <2>2, DeadBecomes
  <2>5. /\ \A a : a \in Pending' => a \in Pending
        /\ \A a : a \in Pending => a \in Pending' \/ a = builder.new
        /\ builder.new \in Pending
    BY <1>2, <2>3, PendingIs, PendingBecomes
  <2>6. \A a \in Accounts : \/ Stage'[a] = Stage[a]
                            \/ Stage[a] = "pending" /\ Stage'[a] \in {"gone", "lost"}
    BY <1>4, <1>5, <2>1, <2>2, <2>3, <2>4, <2>5 DEF Staged, Stages, Sorted
  <2>7. Ledger!Withdraw
    BY <2>4, <2>6, StagesOnly DEF Ledger!Withdraw
  <2>8. QED
    BY <2>7 DEF Ledger!Next
<1>12. CASE BuildRetire
  <2>1. /\ builder.phase = "retiring" /\ builder' = NotBuilding /\ rows' = rows
        /\ \/ /\ node' = With({builder.old}, "gone")
              /\ history' = {h \in history : h.account # builder.old}
           \/ UNCHANGED <<node, history>>
    BY <1>12 DEF BuildRetire
  <2>2. /\ InBuilding' = InBuilding /\ InRetiring = {builder.old} /\ InRetiring' = {}
        /\ Bound' = Bound
    BY <2>1, HandsKept DEF InBuilding, InRetiring, NotBuilding
  <2>3. /\ builder.old \in Doomed /\ builder.old \in Accounts
        /\ \A a \in Accounts : a # builder.old => (a \in Doomed' <=> a \in Doomed)
    BY <1>1, <1>6, <2>2, PendingIs, PendingBecomes
  <2>4. CASE /\ node' = With({builder.old}, "gone")
             /\ history' = {h \in history : h.account # builder.old}
    <3>1. \A a \in Accounts : a # builder.old => (a \in Hist' <=> a \in Hist)
      BY <2>4 DEF Hist, AccountsOf
    <3>2. QED
      BY <1>3, <2>2, <2>3, <2>4, <3>1, DeletesOne
  <2>5. CASE UNCHANGED <<node, history>>
    BY <1>3, <1>5, <2>1, <2>2, <2>3, <2>5, LeavesOne
  <2>6. QED
    BY <2>1, <2>4, <2>5
<1>13. QED
  BY <1>7, <1>8, <1>9, <1>10, <1>11, <1>12 DEF BuildSteps, BuildStop, BuildStart

LEMMA CleaningLedger ==
  ASSUME Basics, Owned, Sorted, Staged, Staged',
         \/ \E h \in history : Clean(h) \/ CleanFails(h)
         \/ \E x \in present : Vanish(x)
         \/ \E a \in sweeper : Sweep(a)
  PROVE  Ledger!Next \/ Stage' = Stage
<1> USE DEF Basics, others
<1>1. UNCHANGED <<jobs, mapper, maker>> /\ (builder' = builder \/ builder' = Rejected)
  BY DEF Clean, CleanFails, Vanish, Sweep
<1>2. InBuilding' = InBuilding /\ InRetiring' = InRetiring
  BY <1>1, RejectedHolds DEF InBuilding, InRetiring
<1>3. Pending' = Pending
  BY <1>1, <1>2, HandsKept, PendingIs, PendingBecomes
<1>4. sweeper' = sweeper => Doomed' = Doomed
  BY <1>2, PendingIs, PendingBecomes
<1>5. history' = history => Hist' = Hist
  BY DEF Hist, AccountsOf
<1>6. ASSUME NEW h \in history, Clean(h)
      PROVE  Ledger!Next \/ Stage' = Stage
  <2>1. /\ node' = With({h.account}, "gone") /\ history' = history \ {h}
        /\ UNCHANGED <<rows, sweeper>>
    BY <1>6 DEF Clean
  <2>2. h.account \in Accounts /\ h.account \in Hist
    BY DEF TypeInv, RetiredType, Hist, AccountsOf
  <2>3. \A a \in Accounts : a # h.account => (a \in Hist' <=> a \in Hist)
    BY <2>1 DEF Hist, AccountsOf
  <2>4. QED
    BY <1>3, <1>4, <2>1, <2>2, <2>3, HandsKept, DeletesOne
<1>7. ASSUME NEW h \in history, CleanFails(h)
      PROVE  Stage' = Stage
  <2>1. UNCHANGED <<node, rows, history, sweeper>>
    BY <1>7 DEF CleanFails
  <2>2. QED
    BY <1>3, <1>4, <1>5, <2>1, HandsKept, CallsMove, StageStays
<1>8. ASSUME NEW x \in present, Vanish(x)
      PROVE  Ledger!Forget
  <2> DEFINE swept == {r \in rows : x \in {r.group, r.slot}}
  <2>1. /\ rows' = rows \ swept /\ swept \subseteq rows /\ node' = node
        /\ sweeper' = sweeper \cup AccountsOf(swept) /\ history' \subseteq history
    BY <1>8 DEF Vanish, Forgetting
  <2> HIDE DEF swept
  <2>2. Accounts' = Accounts /\ Dead' = Dead
    BY <2>1, CallsMove
  <2>3. \A a : a \in Bound' <=> a \in Bound /\ a \notin AccountsOf(swept)
    BY <2>1 DEF Bound, AccountsOf, Owned, Unique
  <2>4. AccountsOf(swept) \subseteq Bound /\ Hist' \subseteq Hist
    BY <2>1, AccountsGrow DEF Bound, Hist, AccountsOf
  <2>5. \A a : a \in Doomed' <=> a \in Doomed \/ a \in AccountsOf(swept)
    BY <1>2, <2>1, PendingIs, PendingBecomes
  <2>6. \A a \in Accounts : \/ Stage'[a] = Stage[a]
                            \/ Stage[a] = "bound" /\ Stage'[a] = "doomed"
                            \/ Stage[a] = "retired" /\ Stage'[a] \in {"doomed", "lost"}
    BY <1>3, <2>2, <2>3, <2>4, <2>5 DEF Staged, Stages, Sorted
  <2>7. QED
    BY <2>2, <2>6, StagesOnly DEF Ledger!Forget
<1>9. ASSUME NEW a \in sweeper, Sweep(a)
      PROVE  Ledger!Next \/ Stage' = Stage
  <2>1. /\ UNCHANGED <<rows, history>> /\ sweeper' = sweeper \ {a}
        /\ node' = With({a}, "gone") \/ node' = node
    BY <1>9 DEF Sweep
  <2>2. a \in Doomed /\ a \in Accounts
    BY PendingIs DEF TypeInv
  <2>3. \A b \in Accounts : b # a => (b \in Doomed' <=> b \in Doomed)
    BY <1>2, <2>1, PendingIs, PendingBecomes
  <2>4. Bound' = Bound /\ Hist' = Hist
    BY <1>5, <2>1, HandsKept
  <2>5. CASE node' = With({a}, "gone")
    BY <1>3, <2>2, <2>3, <2>4, <2>5, DeletesOne
  <2>6. CASE node' = node
    BY <1>3, <2>2, <2>3, <2>4, <2>6, LeavesOne
  <2>7. QED
    BY <2>1, <2>5, <2>6
<1>10. QED
  BY <1>6, <1>7, <1>8, <1>9 DEF Ledger!Next

LEMMA RestartLedger ==
  ASSUME Basics, Sorted, Staged, Staged', Restart
  PROVE  Ledger!Next
<1> USE DEF Basics
<1>1. /\ UNCHANGED <<node, rows, history>> /\ sweeper' = {}
      /\ mapper' = NoEdit /\ maker' = NotMaking /\ builder' = NotBuilding
      /\ jobs' = JobsAfterRestart
  BY DEF Restart
<1>2. /\ Accounts' = Accounts /\ Dead' = Dead /\ Bound' = Bound /\ Hist' = Hist
  BY <1>1, CallsMove, HandsKept DEF Hist, AccountsOf
<1>3. \A j \in Jobs : Held'[j] = {}
  <2>1. \A j \in Jobs : jobs'[j].held = {}
    BY <1>1 DEF JobsAfterRestart, TypeInv, JobType
  <2>2. QED
    BY <2>1 DEF Held, AccountsOf
<1>4. Made' = {} /\ InMaking' = {} /\ InBuilding' = {} /\ InRetiring' = {}
  BY <1>1, Phases DEF Made, InMaking, InBuilding, InRetiring, AccountsOf
<1>5. Pending' = {} /\ Doomed' = {}
  BY <1>1, <1>3, <1>4, PendingBecomes
<1>6. \A a \in Accounts :
        Stage'[a] = IF Stage[a] \in {"pending", "doomed"} THEN "lost" ELSE Stage[a]
  BY <1>2, <1>5 DEF Staged, Stages, Sorted
<1>7. DOMAIN Stage = Accounts /\ Stage' \in [Accounts -> Stages]
  BY <1>2 DEF Staged
<1>8. Ledger!Crash
  BY <1>6, <1>7 DEF Ledger!Crash, Ledger!DOM
<1>9. QED
  BY <1>8 DEF Ledger!Next

LEMMA LedgerInit ==
  ASSUME Init, Staged
  PROVE  Ledger!Init
<1>1. PICK g \in Groups, ss \in SUBSET Slots :
        /\ node = [i \in 1 .. Cardinality(ss) |-> "running"]
        /\ rows = {Row(g, n.slot, n.account, TRUE) : n \in Numbered(ss, 0)}
  BY Zenon DEF Init, BindInit
<1>2. /\ Cardinality(ss) \in Nat
      /\ \A a \in 0 + 1 .. 0 + Cardinality(ss) : \E x \in Numbered(ss, 0) : x.account = a
  BY Numbers
<1>3. \A k \in Nat : 0 + 1 .. 0 + k = 1 .. k
  OBVIOUS
<1>4. Accounts = 1 .. Cardinality(ss) /\ \A a \in Accounts : node[a] = "running"
  <2>1. "running" \in States
    BY DEF States
  <2>2. node \in [1 .. Cardinality(ss) -> States]
    BY <1>1, <2>1
  <2>3. Len(node) = Cardinality(ss)
    BY <1>2, <2>2, SequenceOf
  <2>4. QED
    BY <1>1, <2>3 DEF Accounts
<1>5. ASSUME NEW a \in Accounts
      PROVE  Stage[a] = "bound"
  <2>1. PICK x \in Numbered(ss, 0) : x.account = a
    BY <1>2, <1>3, <1>4, <1>5
  <2>2. Row(g, x.slot, x.account, TRUE) \in rows /\ Row(g, x.slot, x.account, TRUE).account = a
    BY <1>1, <2>1 DEF Row
  <2>3. a \in Bound
    BY <2>2 DEF Bound, AccountsOf
  <2>4. a \notin Dead
    BY <1>4, <1>5 DEF Dead
  <2>5. QED
    BY <2>3, <2>4 DEF Staged
<1>6. Stage \in [1 .. Cardinality(ss) -> {"bound"}]
  BY <1>4, <1>5 DEF Staged
<1>7. QED
  BY <1>2, <1>6, SequenceOf DEF Ledger!Init

\* However the sagas interleave and whichever of their calls fail, an account is bound
\* once, retired only by the one that takes its place, and never comes back: the sagas
\* implement AccountLedger, under the condition Tame on the sagas that meet.
THEOREM SagasKeepLedger ==
  ASSUME \A k \in Kits : Tame(k)
  PROVE  Spec => LedgerSpec
<1>1. Init => TodoFits
  BY Phases DEF Init, TodoFits
<1>2. Basics /\ Fits /\ TodoFits /\ [Next]_vars => TodoFits'
  BY TodoKept DEF Basics, TypeInv, Fits
<1>3. Basics /\ Owned /\ NoneLost => Staged
  BY StagesAre
<1>4. Init /\ Staged => Ledger!Init
  BY LedgerInit
<1>5. Basics /\ Owned /\ NoneLost /\ Fits /\ TodoFits /\ Staged' /\ [Next]_vars
        => [Ledger!Next]_Stage
  <2>1. SUFFICES ASSUME Basics, Owned, NoneLost, Fits, TodoFits, Staged', [Next]_vars
                 PROVE  Ledger!Next \/ Stage' = Stage
    OBVIOUS
  <2>2. Sorted /\ Staged /\ Tame(kit)
    BY <2>1, StagesAre DEF Basics, TypeInv
  <2>3. CASE Deploying /\ UNCHANGED others
    BY <2>1, <2>2, <2>3, DeployingLedger
  <2>4. CASE Mapping /\ UNCHANGED others
    BY <2>1, <2>2, <2>4, MappingLedger DEF Fits
  <2>5. CASE Making /\ UNCHANGED others
    BY <2>1, <2>2, <2>5, MakingLedger
  <2>6. CASE RequestDeletion \/ DeletionSteps
    BY <2>1, <2>2, <2>6, DeletingLedger DEF Fits
  <2>7. CASE BuildSteps \/ \E r \in rows : Plan(r)
    BY <2>1, <2>2, <2>7, BuildingLedger
  <2>8. CASE \/ \E h \in history : Clean(h) \/ CleanFails(h)
             \/ \E x \in present : Vanish(x)
             \/ \E a \in sweeper : Sweep(a)
    BY <2>1, <2>2, <2>8, CleaningLedger
  <2>9. CASE Restart
    BY <2>1, <2>2, <2>9, RestartLedger
  <2>10. CASE UNCHANGED vars
    <3>1. /\ Held' = Held /\ Made' = Made /\ InMaking' = InMaking /\ InBuilding' = InBuilding
          /\ InRetiring' = InRetiring /\ Bound' = Bound /\ Hist' = Hist
      BY <2>10, HandsKept DEF vars, bindVars, Hist, AccountsOf
    <3>2. Pending' = Pending /\ Doomed' = Doomed
      BY <2>10, <3>1, PendingIs, PendingBecomes DEF vars, bindVars
    <3>3. QED
      BY <2>1, <2>2, <2>10, <3>1, <3>2, CallsMove, StageStays DEF vars, bindVars, Basics
  <2>11. QED
    BY <2>1, <2>3, <2>4, <2>5, <2>6, <2>7, <2>8, <2>9, <2>10 DEF Next, Binding
<1>6. QED
  BY <1>1, <1>2, <1>3, <1>4, <1>5, BasicsInvariant, OwnedInvariant, SettledInvariant, PTL
     DEF Spec, LedgerSpec, Ledger!Spec
===============================================================================
