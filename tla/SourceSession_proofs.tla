------------------------ MODULE SourceSession_proofs ------------------------
(***************************************************************************)
(* Theorems about SourceSession for any number of goroutines and tokens,   *)
(* any inputs and any faults.                                              *)
(***************************************************************************)
EXTENDS SourceSession, TLAPS

(* What the source thinks of its tokens stays well-typed, and no token     *)
(* that is forgotten gets another state than "none".                       *)
LEMMA RememberType ==
  ASSUME NEW f, f \in [Token -> TokenState], Remember(f)
  PROVE  tokens' \in [Token -> TokenState]
BY DEF Remember, TokenState

LEMMA RememberOnly ==
  ASSUME NEW f, Remember(f), NEW t \in Token
  PROVE  tokens'[t] \in {f[t], "none"}
BY DEF Remember

(* A token that is still known keeps what the source thinks of it.         *)
LEMMA RememberKnown ==
  ASSUME NEW f, Remember(f), NEW t \in Token, t \in Known'
  PROVE  tokens'[t] = f[t]
BY DEF Remember

LEMMA ForsakeType ==
  ASSUME SessionTypeOK, NEW S
  PROVE  Forsake(S) \in [Token -> TokenState]
BY DEF SessionTypeOK, Forsake, TokenState

(* Ending a goroutine keeps the types of what it resets.                   *)
LEMMA EndType ==
  ASSUME SessionTypeOK, NEW w \in Worker, End(w)
  PROVE  /\ job' \in [Worker -> Job]
         /\ at' \in [Worker -> Phase]
         /\ seen' \in [Worker -> Credential]
         /\ current' \in [Worker -> Credential]
         /\ session' \in [Worker -> Token \cup {NoToken}]
         /\ collected' \in [Worker -> BOOLEAN]
         /\ lock' \in Worker \cup {Free}
<1>1. Blank \in Credential
  BY SessionAssumption DEF Blank, Credential
<1>2. QED
  BY <1>1 DEF End, Goto, SessionTypeOK, Job, Phase

(* The steps of one goroutine keep the types. *)
LEMMA WorkType ==
  ASSUME SessionTypeOK, NEW w \in Worker, Work(w)
  PROVE  SessionTypeOK'
<1> USE SessionAssumption DEF rowVars, remoteVars, workVars, boundVars
<1>1. CASE ScanStart(w)
  BY <1>1 DEF ScanStart, Start, Goto, SessionTypeOK, Job, Phase, Status
<1>2. CASE DeploymentStart(w)
  BY <1>2 DEF DeploymentStart, Start, Goto, Input, SessionTypeOK, Job, Phase
<1>3. CASE KeepaliveStart(w)
  BY <1>3 DEF KeepaliveStart, Start, Goto, SessionTypeOK, Job, Phase
<1>4. CASE ReadCredential(w)
  <2>1. credential.token \in Token \cup {NoToken}
    BY DEF SessionTypeOK, Credential
  <2>2. QED
    BY <1>4, <2>1 DEF ReadCredential, Goto, SessionTypeOK, Phase
<1>5. CASE Collect(w)
  BY <1>5 DEF Collect, CollectServed, CollectRefused, Goto, SessionTypeOK, Phase
<1>6. CASE AcquireLock(w)
  BY <1>6 DEF AcquireLock, Goto, SessionTypeOK, Phase
<1>7. CASE KeepaliveSkips(w)
  BY <1>7, EndType DEF KeepaliveSkips, SessionTypeOK
<1>8. CASE KeepaliveRenews(w)
  BY <1>8 DEF KeepaliveRenews, Goto, SessionTypeOK, Phase
<1>9. CASE Reread(w)
  <2>1. tokens' \in [Token -> TokenState]
    BY <1>9, RememberType DEF Reread, SessionTypeOK
  <2>2. credential.token \in Token \cup {NoToken}
    BY DEF SessionTypeOK, Credential
  <2>3. at' \in [Worker -> Phase]
    BY <1>9 DEF Reread, Goto, Renewed, SessionTypeOK, Phase
  <2>4. lock' \in Worker \cup {Free}
    BY <1>9 DEF Reread, Release, SessionTypeOK
  <2>5. session' \in [Worker -> Token \cup {NoToken}]
    BY <1>9, <2>2 DEF Reread, SessionTypeOK
  <2>6. QED
    BY <1>9, <2>1, <2>3, <2>4, <2>5 DEF Reread, SessionTypeOK
<1>10. CASE Refresh(w)
  <2>1. PICK t \in Token :
          /\ session' = [session EXCEPT ![w] = t]
          /\ Remember([tokens EXCEPT ![current[w].token] = "spent", ![t] = "fresh"])
    BY <1>10 DEF Refresh
  <2>2. tokens' \in [Token -> TokenState]
    <3>1. [tokens EXCEPT ![current[w].token] = "spent", ![t] = "fresh"]
             \in [Token -> TokenState]
      BY DEF SessionTypeOK, TokenState
    <3>2. QED
      BY <2>1, <3>1, RememberType
  <2>3. QED
    BY <1>10, <2>1, <2>2 DEF Refresh, Goto, SessionTypeOK, Phase
<1>11. CASE RefreshRefused(w)
  BY <1>11 DEF RefreshRefused, Goto, SessionTypeOK, Phase
<1>12. CASE Login(w)
  <2>1. PICK t \in Token :
          /\ session' = [session EXCEPT ![w] = t]
          /\ Remember([tokens EXCEPT ![t] = "fresh"])
    BY <1>12 DEF Login
  <2>2. tokens' \in [Token -> TokenState]
    <3>1. [tokens EXCEPT ![t] = "fresh"] \in [Token -> TokenState]
      BY DEF SessionTypeOK, TokenState
    <3>2. QED
      BY <2>1, <3>1, RememberType
  <2>3. QED
    BY <1>12, <2>1, <2>2 DEF Login, Goto, SessionTypeOK, Phase
<1>13. CASE LoginRefused(w)
  BY <1>13 DEF LoginRefused, FailRenewal, Goto, SessionTypeOK, Phase
<1>14. CASE Persist(w)
  <2>1. tokens' \in [Token -> TokenState]
    BY <1>14, RememberType DEF Persist, SessionTypeOK
  <2>2. credential' \in Credential
    BY <1>14 DEF Persist, SessionTypeOK, Credential
  <2>3. at' \in [Worker -> Phase] /\ lock' \in Worker \cup {Free}
    BY <1>14 DEF Persist, Goto, Release, Renewed, SessionTypeOK, Phase
  <2>4. QED
    BY <1>14, <2>1, <2>2, <2>3 DEF Persist, SessionTypeOK, Status
<1>15. CASE ScanEnd(w)
  <2>1. tokens' \in [Token -> TokenState]
    BY <1>15, RememberType DEF ScanEnd, SessionTypeOK
  <2>2. scanStatus' \in Status
    BY <1>15 DEF ScanEnd, Verdict, Status
  <2>3. QED
    BY <1>15, <2>1, <2>2, EndType DEF ScanEnd, SessionTypeOK
<1>16. CASE KeepaliveEnd(w)
  <2>1. tokens' \in [Token -> TokenState]
    BY <1>16, RememberType DEF KeepaliveEnd, SessionTypeOK
  <2>2. QED
    BY <1>16, <2>1, EndType DEF KeepaliveEnd, SessionTypeOK
<1>17. CASE DeploymentEnd(w)
  <2>1. tokens' \in [Token -> TokenState]
    BY <1>17, RememberType DEF DeploymentEnd, SessionTypeOK
  <2>2. QED
    BY <1>17, <2>1, EndType DEF DeploymentEnd, SessionTypeOK
<1>18. CASE CollectFails(w)
  BY <1>18 DEF CollectFails, Fault, Goto, SessionTypeOK, Phase
<1>19. CASE RefreshLost(w)
  <2>1. [tokens EXCEPT ![current[w].token] = "lost"] \in [Token -> TokenState]
    BY DEF SessionTypeOK, TokenState
  <2>2. QED
    BY <1>19, <2>1 DEF RefreshLost, Fault, FailRenewal, Goto, SessionTypeOK, Phase
<1>20. CASE RenewalFails(w)
  BY <1>20 DEF RenewalFails, Fault, FailRenewal, Goto, SessionTypeOK, Phase
<1>21. CASE PersistFails(w)
  BY <1>21, ForsakeType
     DEF PersistFails, Fault, FailRenewal, Goto, SessionTypeOK, Phase
<1>22. CASE EndFails(w)
  <2>1. tokens' \in [Token -> TokenState]
    BY <1>22, RememberType DEF EndFails, SessionTypeOK
  <2>2. QED
    BY <1>22, <2>1, EndType DEF EndFails, Fault, SessionTypeOK
<1>23. QED
  BY <1>1, <1>2, <1>3, <1>4, <1>5, <1>6, <1>7, <1>8, <1>9, <1>10, <1>11, <1>12,
     <1>13, <1>14, <1>15, <1>16, <1>17, <1>18, <1>19, <1>20, <1>21, <1>22
     DEF Work, Renewal, Finish, WorkFails

LEMMA InitType == Init => SessionTypeOK
<1>1. Blank \in Credential /\ 0 \in 0 .. MaxInputs /\ 0 \in 0 .. MaxFaults
  BY SessionAssumption DEF Blank, Credential
<1>2. QED
  BY <1>1 DEF Init, SessionTypeOK, Job, Status, Phase, TokenState

LEMMA StepType ==
  ASSUME SessionTypeOK, [Next]_vars
  PROVE  SessionTypeOK'
<1> USE SessionAssumption DEF rowVars, remoteVars, workVars, boundVars
<1>1. CASE \E w \in Worker : Work(w)
  BY <1>1, WorkType
<1>2. ASSUME NEW c \in Credential, Edit(c)
      PROVE  SessionTypeOK'
  <2>1. [t \in Token |-> IF t = c.token THEN "fresh" ELSE tokens[t]]
           \in [Token -> TokenState]
    BY DEF SessionTypeOK, TokenState
  <2>2. tokens' \in [Token -> TokenState]
    BY <1>2, <2>1, RememberType DEF Edit
  <2>3. edits' \in 0 .. MaxInputs
    BY <1>2 DEF Edit, Credential
  <2>4. QED
    BY <1>2, <2>2, <2>3 DEF Edit, Input, SessionTypeOK, Status
<1>3. CASE Retry
  BY <1>3 DEF Retry, Input, SessionTypeOK, Status
<1>4. ASSUME NEW t \in Token, AccessExpires(t) \/ Revoke(t)
      PROVE  SessionTypeOK'
  <2>1. /\ [tokens EXCEPT ![t] = "stale"] \in [Token -> TokenState]
        /\ [tokens EXCEPT ![t] = "revoked"] \in [Token -> TokenState]
    BY DEF SessionTypeOK, TokenState
  <2>2. QED
    BY <1>4, <2>1 DEF AccessExpires, Revoke, Input, SessionTypeOK
<1>5. CASE ToggleWall
  BY <1>5 DEF ToggleWall, Input, SessionTypeOK
<1>6. CASE DueElapses
  BY <1>6 DEF DueElapses, SessionTypeOK
<1>7. CASE Restart
  <2>1. tokens' \in [Token -> TokenState]
    BY <1>7, ForsakeType, RememberType DEF Restart
  <2>2. Blank \in Credential
    BY DEF Blank, Credential
  <2>3. QED
    BY <1>7, <2>1, <2>2 DEF Restart, Fault, SessionTypeOK, Job, Phase, Status
<1>8. CASE UNCHANGED vars
  BY <1>8 DEF vars, SessionTypeOK
<1>9. QED
  BY <1>1, <1>2, <1>3, <1>4, <1>5, <1>6, <1>7, <1>8 DEF Next

(* Every variable of a source's session and scans keeps its type, and a    *)
(* scan's verdict is one of the statuses the scheduler knows.              *)
THEOREM SessionTypeCorrect == Spec => []SessionTypeOK
BY InitType, StepType, PTL DEF Spec

-------------------------------------------------------------------------------
(* Whoever renews holds the mutex. *)
Holder == \A w \in Worker : Renewing(w) => lock = w

LEMMA HolderWork ==
  ASSUME SessionTypeOK, Holder, NEW w \in Worker, Work(w)
  PROVE  Holder'
<1> USE SessionAssumption DEF Holder, Renewing, SessionTypeOK, Goto
<1>1. CASE ScanStart(w) \/ DeploymentStart(w) \/ KeepaliveStart(w)
  BY <1>1 DEF ScanStart, DeploymentStart, KeepaliveStart, Start
<1>2. CASE ReadCredential(w) \/ Collect(w) \/ CollectFails(w)
  BY <1>2 DEF ReadCredential, Collect, CollectServed, CollectRefused, CollectFails
<1>3. CASE AcquireLock(w)
  BY <1>3 DEF AcquireLock
<1>4. CASE KeepaliveRenews(w)
  BY <1>4 DEF KeepaliveRenews
<1>5. CASE Reread(w)
  BY <1>5 DEF Reread, Release, Renewed
<1>6. CASE Refresh(w) \/ Login(w)
  BY <1>6 DEF Refresh, Login
<1>7. CASE RefreshRefused(w)
  BY <1>7 DEF RefreshRefused
<1>8. CASE Persist(w)
  BY <1>8 DEF Persist, Release, Renewed
<1>9. CASE LoginRefused(w) \/ RefreshLost(w) \/ RenewalFails(w) \/ PersistFails(w)
  <2>1. lock = w
    BY <1>9 DEF LoginRefused, RefreshLost, RenewalFails, PersistFails
  <2>2. PICK phase \in {"fail", "wall"} : FailRenewal(w, phase)
    BY <1>9 DEF LoginRefused, RefreshLost, RenewalFails, PersistFails
  <2>3. QED
    BY <2>1, <2>2 DEF FailRenewal
<1>10. CASE KeepaliveSkips(w) \/ ScanEnd(w) \/ KeepaliveEnd(w) \/ DeploymentEnd(w)
            \/ EndFails(w)
  <2>1. End(w)
    BY <1>10 DEF KeepaliveSkips, ScanEnd, KeepaliveEnd, DeploymentEnd, EndFails
  <2>2. QED
    BY <2>1 DEF End
<1>11. QED
  BY <1>1, <1>2, <1>3, <1>4, <1>5, <1>6, <1>7, <1>8, <1>9, <1>10
     DEF Work, Renewal, Finish, WorkFails

LEMMA HolderStep ==
  ASSUME SessionTypeOK, Holder, [Next]_vars
  PROVE  Holder'
<1>1. CASE \E w \in Worker : Work(w)
  BY <1>1, HolderWork
<1>2. CASE Restart
  BY <1>2 DEF Restart, Holder, Renewing
<1>3. CASE UNCHANGED <<lock, at>>
  BY <1>3 DEF Holder, Renewing
<1>4. QED
  BY <1>1, <1>2, <1>3 DEF Next, Edit, Retry, AccessExpires, Revoke, ToggleWall,
                          DueElapses, vars

(* Two goroutines never renew the source's session at once, however many   *)
(* there are: each renews only while it holds the source's mutex.          *)
THEOREM RenewalsExclude == Spec => []OneRenewal
<1>1. Init => SessionTypeOK /\ Holder
  BY InitType DEF Init, Holder, Renewing
<1>2. SessionTypeOK /\ Holder /\ [Next]_vars => SessionTypeOK' /\ Holder'
  BY StepType, HolderStep
<1>3. SessionTypeOK /\ Holder => OneRenewal
  BY DEF Holder, OneRenewal
<1>4. QED
  BY <1>1, <1>2, <1>3, PTL DEF Spec

-------------------------------------------------------------------------------
(* What is to be exchanged was not exchanged before; what a renewal has    *)
(* been given is new; a stored token that was exchanged is about to be     *)
(* replaced by the one who exchanged it.                                   *)
RefreshUnspent ==
  \A w \in Worker : at[w] = "refresh" =>
    current[w].token \in Token /\ tokens[current[w].token] # "spent"

NewIsUnspent ==
  \A w \in Worker : at[w] = "persist" =>
    session[w] \in Token /\ tokens[session[w]] \notin {"none", "spent"}

SpentIsBeingReplaced ==
  credential.token \in Token /\ tokens[credential.token] = "spent" =>
    \E w \in Worker : at[w] = "persist" /\ current[w].token = credential.token

TokenInv == RefreshUnspent /\ NewIsUnspent /\ SpentIsBeingReplaced

(* As long as nobody has edited the credentials a renewal goes on with the *)
(* stored token.                                                           *)
EditsBound ==
  credential.edit <= edits /\ \A w \in Worker : current[w].edit <= edits

CurrentIsStored ==
  \A w \in Worker :
    at[w] \in {"refresh", "login"} /\ current[w].edit = credential.edit
      => current[w].token = credential.token

LoginInv == EditsBound /\ CurrentIsStored /\ LoginsAreNeeded

(* Steps that leave the stored credentials and every renewal alone, except *)
(* that a renewal may fail, and that spend, revive and forget no token     *)
(* anybody knows.                                                          *)
Aside ==
  /\ credential' = credential
  /\ edits' = edits
  /\ \A w \in Worker :
       /\ at'[w] \in {"refresh", "login", "persist"} =>
            /\ at'[w] = at[w]
            /\ current'[w] = current[w]
            /\ session'[w] = session[w]
       /\ at[w] = "persist" => at'[w] = "persist"
       /\ current'[w] \in {current[w], Blank}
  /\ \A t \in Token :
       /\ tokens'[t] = "spent" => tokens[t] = "spent"
       /\ tokens'[t] \in {"fresh", "stale"} => tokens[t] \in {"fresh", "stale"}
       /\ t \in Known' /\ tokens[t] # "none" => tokens'[t] # "none"

LEMMA AsideTokens ==
  ASSUME TokenInv, Aside
  PROVE  TokenInv'
<1> USE DEF TokenInv, Aside
<1>1. RefreshUnspent'
  BY DEF RefreshUnspent
<1>2. NewIsUnspent'
  <2>1. \A w \in Worker : session'[w] \in Known'
    BY DEF Known
  <2>2. QED
    BY <2>1 DEF NewIsUnspent
<1>3. SpentIsBeingReplaced'
  BY DEF SpentIsBeingReplaced
<1>4. QED
  BY <1>1, <1>2, <1>3

LEMMA AsideLogins ==
  ASSUME SessionTypeOK, LoginInv, Aside
  PROVE  LoginInv'
<1> USE DEF LoginInv, Aside
<1>1. EditsBound'
  BY DEF EditsBound, SessionTypeOK, Blank
<1>2. CurrentIsStored'
  BY DEF CurrentIsStored
<1>3. LoginsAreNeeded'
  BY DEF LoginsAreNeeded, Alive
<1>4. QED
  BY <1>1, <1>2, <1>3

(* Most steps of a goroutine only start, collect, fail or end.             *)
Minor(w) ==
  \/ ScanStart(w) \/ DeploymentStart(w) \/ KeepaliveStart(w)
  \/ ReadCredential(w) \/ Collect(w) \/ CollectFails(w)
  \/ AcquireLock(w) \/ KeepaliveSkips(w) \/ KeepaliveRenews(w)
  \/ LoginRefused(w) \/ RefreshLost(w) \/ RenewalFails(w)
  \/ Finish(w) \/ EndFails(w)

LEMMA TokensKept ==
  ASSUME Remember(tokens)
  PROVE  \A t \in Token :
           /\ tokens'[t] = "spent" => tokens[t] = "spent"
           /\ tokens'[t] \in {"fresh", "stale"} => tokens[t] \in {"fresh", "stale"}
           /\ t \in Known' /\ tokens[t] # "none" => tokens'[t] # "none"
BY DEF Remember

LEMMA MinorAside ==
  ASSUME SessionTypeOK, NEW w \in Worker, Minor(w)
  PROVE  Aside
<1> USE DEF Aside, SessionTypeOK, Goto, rowVars, remoteVars, workVars
<1>1. CASE ScanStart(w) \/ DeploymentStart(w) \/ KeepaliveStart(w)
  BY <1>1 DEF ScanStart, DeploymentStart, KeepaliveStart, Start
<1>2. CASE ReadCredential(w) \/ Collect(w) \/ CollectFails(w)
  BY <1>2 DEF ReadCredential, Collect, CollectServed, CollectRefused, CollectFails
<1>3. CASE AcquireLock(w) \/ KeepaliveRenews(w)
  BY <1>3 DEF AcquireLock, KeepaliveRenews
<1>4. CASE LoginRefused(w) \/ RenewalFails(w)
  BY <1>4 DEF LoginRefused, RenewalFails, FailRenewal
<1>5. CASE RefreshLost(w)
  BY <1>5 DEF RefreshLost, FailRenewal
<1>6. CASE KeepaliveSkips(w)
  BY <1>6 DEF KeepaliveSkips, End
<1>7. CASE Finish(w) \/ EndFails(w)
  <2>1. End(w) /\ at[w] \in {"succeed", "fail", "wall"} /\ Remember(tokens)
    BY <1>7 DEF Finish, ScanEnd, KeepaliveEnd, DeploymentEnd, EndFails
  <2>2. credential' = credential /\ edits' = edits
    BY <1>7 DEF Finish, ScanEnd, KeepaliveEnd, DeploymentEnd, EndFails
  <2>3. QED
    BY <2>1, <2>2, TokensKept DEF End
<1>8. QED
  BY <1>1, <1>2, <1>3, <1>4, <1>5, <1>6, <1>7 DEF Minor

LEMMA WorldAside ==
  ASSUME SessionTypeOK,
         \/ Retry \/ ToggleWall \/ DueElapses \/ UNCHANGED vars
         \/ \E t \in Token : AccessExpires(t) \/ Revoke(t)
  PROVE  Aside
<1> USE DEF Aside, rowVars, remoteVars, workVars
<1>1. CASE Retry \/ ToggleWall \/ DueElapses \/ UNCHANGED vars
  BY <1>1 DEF Retry, ToggleWall, DueElapses, vars
<1>2. ASSUME NEW t \in Token, AccessExpires(t) \/ Revoke(t)
      PROVE  Aside
  BY <1>2 DEF AccessExpires, Revoke, Alive, SessionTypeOK
<1>3. QED
  BY <1>1, <1>2

(* While one goroutine renews no other one does. *)
LEMMA Alone ==
  ASSUME Holder, NEW v \in Worker, NEW w \in Worker,
         at[v] \in {"due", "reread", "refresh", "login", "persist"},
         at[w] \in {"due", "reread", "refresh", "login", "persist"}
  PROVE  v = w
BY DEF Holder, Renewing

(* The steps of a renewal keep the tokens in order. *)
LEMMA RenewalTokens ==
  ASSUME SessionTypeOK, Holder, TokenInv, NEW w \in Worker,
         \/ Reread(w) \/ Refresh(w) \/ RefreshRefused(w)
         \/ Login(w) \/ Persist(w) \/ PersistFails(w)
  PROVE  TokenInv'
<1> USE DEF TokenInv, SessionTypeOK, Goto, rowVars, remoteVars, workVars
<1>1. CASE Reread(w)
  <2>1. \A v \in Worker : at[v] # "persist" /\ at'[v] # "persist"
    BY <1>1, Alone DEF Reread, Renewed
  <2>2. ~(credential.token \in Token /\ tokens[credential.token] = "spent")
    BY <2>1 DEF SpentIsBeingReplaced
  <2>3. \A t \in Token : tokens'[t] \in {tokens[t], "none"}
    BY <1>1, RememberOnly DEF Reread
  <2>4. credential' = credential
    BY <1>1 DEF Reread
  <2>5. RefreshUnspent'
    <3>1. SUFFICES ASSUME NEW v \in Worker, at'[v] = "refresh"
                   PROVE  current'[v].token \in Token /\ tokens'[current'[v].token] # "spent"
      BY DEF RefreshUnspent
    <3>2. v = w
      BY <1>1, <3>1, Alone DEF Reread, Renewed
    <3>3. current'[v] = credential /\ HasSession(credential)
      BY <1>1, <3>1, <3>2 DEF Reread, Renewed
    <3>4. credential.token \in Token
      BY <3>3 DEF HasSession, Credential
    <3>5. QED
      BY <2>2, <2>3, <3>3, <3>4
  <2>6. QED
    BY <2>1, <2>2, <2>3, <2>4, <2>5 DEF NewIsUnspent, SpentIsBeingReplaced
<1>2. CASE Refresh(w)
  <2>1. PICK t \in Token :
          /\ Issue(t)
          /\ session' = [session EXCEPT ![w] = t]
          /\ Remember([tokens EXCEPT ![current[w].token] = "spent", ![t] = "fresh"])
    BY <1>2 DEF Refresh
  <2>2. \A v \in Worker : v # w => at[v] \notin {"refresh", "persist"}
    BY <1>2, Alone DEF Refresh
  <2>3. at' = [at EXCEPT ![w] = "persist"] /\ credential' = credential /\ current' = current
    BY <1>2 DEF Refresh
  <2>4. t \in Known'
    BY <2>1 DEF Known
  <2>5. tokens'[t] = "fresh"
    <3> DEFINE f == [tokens EXCEPT ![current[w].token] = "spent", ![t] = "fresh"]
    <3>1. f[t] = "fresh"
      OBVIOUS
    <3>2. Remember(f)
      BY <2>1
    <3> HIDE DEF f
    <3>3. QED
      BY <2>4, <3>1, <3>2, RememberKnown
  <2>6. \A u \in Token : tokens'[u] = "spent" => tokens[u] = "spent" \/ u = current[w].token
    <3> DEFINE f == [tokens EXCEPT ![current[w].token] = "spent", ![t] = "fresh"]
    <3>1. \A u \in Token : tokens'[u] \in {f[u], "none"}
      BY <2>1, RememberOnly
    <3>2. \A u \in Token : f[u] = "spent" => tokens[u] = "spent" \/ u = current[w].token
      OBVIOUS
    <3> HIDE DEF f
    <3>3. QED
      BY <3>1, <3>2
  <2>7. SpentIsBeingReplaced'
    BY <1>2, <2>2, <2>3, <2>6 DEF SpentIsBeingReplaced, Refresh
  <2>8. RefreshUnspent'
    BY <2>2, <2>3 DEF RefreshUnspent
  <2>9. \A v \in Worker : at'[v] = "persist" => v = w
    BY <2>2, <2>3
  <2>10. session'[w] = t
    BY <2>1
  <2>11. NewIsUnspent'
    BY <2>5, <2>9, <2>10 DEF NewIsUnspent
  <2>12. QED
    BY <2>7, <2>8, <2>11
<1>3. CASE RefreshRefused(w)
  BY <1>3 DEF RefreshRefused, RefreshUnspent, NewIsUnspent, SpentIsBeingReplaced
<1>4. CASE Login(w)
  <2>1. PICK t \in Token :
          /\ Issue(t)
          /\ session' = [session EXCEPT ![w] = t]
          /\ Remember([tokens EXCEPT ![t] = "fresh"])
    BY <1>4 DEF Login
  <2>2. \A v \in Worker : v # w => at[v] \notin {"refresh", "persist"}
    BY <1>4, Alone DEF Login
  <2>3. at' = [at EXCEPT ![w] = "persist"] /\ credential' = credential /\ current' = current
    BY <1>4 DEF Login
  <2>4. t \in Known'
    BY <2>1 DEF Known
  <2>5. tokens'[t] = "fresh"
    <3> DEFINE f == [tokens EXCEPT ![t] = "fresh"]
    <3>1. f[t] = "fresh"
      OBVIOUS
    <3>2. Remember(f)
      BY <2>1
    <3> HIDE DEF f
    <3>3. QED
      BY <2>4, <3>1, <3>2, RememberKnown
  <2>6. \A u \in Token : tokens'[u] = "spent" => tokens[u] = "spent"
    <3> DEFINE f == [tokens EXCEPT ![t] = "fresh"]
    <3>1. \A u \in Token : tokens'[u] \in {f[u], "none"}
      BY <2>1, RememberOnly
    <3>2. \A u \in Token : f[u] = "spent" => tokens[u] = "spent"
      OBVIOUS
    <3> HIDE DEF f
    <3>3. QED
      BY <3>1, <3>2
  <2>7. SpentIsBeingReplaced'
    BY <1>4, <2>2, <2>3, <2>6 DEF SpentIsBeingReplaced, Login
  <2>8. RefreshUnspent'
    BY <2>2, <2>3 DEF RefreshUnspent
  <2>9. \A v \in Worker : at'[v] = "persist" => v = w
    BY <2>2, <2>3
  <2>10. session'[w] = t
    BY <2>1
  <2>11. NewIsUnspent'
    BY <2>5, <2>9, <2>10 DEF NewIsUnspent
  <2>12. QED
    BY <2>7, <2>8, <2>11
<1>5. CASE Persist(w)
  <2>1. \A v \in Worker : at'[v] \notin {"refresh", "persist"}
    BY <1>5, Alone DEF Persist, Renewed
  <2>2. credential'.token = session[w] /\ session[w] \in Token /\ tokens[session[w]] # "spent"
    BY <1>5 DEF Persist, NewIsUnspent, Credential
  <2>3. tokens'[session[w]] # "spent"
    BY <1>5, <2>2, RememberOnly DEF Persist
  <2>4. QED
    BY <2>1, <2>2, <2>3 DEF RefreshUnspent, NewIsUnspent, SpentIsBeingReplaced
<1>6. CASE PersistFails(w)
  <2>1. \A v \in Worker : at'[v] \notin {"refresh", "persist"}
    BY <1>6, Alone DEF PersistFails, FailRenewal
  <2>2. ~(credential.token \in Token /\ tokens'[credential.token] = "spent")
    <3>1. SUFFICES ASSUME credential.token \in Token, tokens'[credential.token] = "spent"
                   PROVE  FALSE
      OBVIOUS
    <3>2. tokens[credential.token] = "spent"
      BY <1>6, <3>1 DEF PersistFails, Forsake
    <3>3. current[w].token = credential.token
      BY <1>6, <3>1, <3>2, Alone DEF PersistFails, SpentIsBeingReplaced
    <3>4. QED
      BY <1>6, <3>1, <3>2, <3>3 DEF PersistFails, Forsake
  <2>3. credential' = credential
    BY <1>6 DEF PersistFails
  <2>4. QED
    BY <2>1, <2>2, <2>3 DEF RefreshUnspent, NewIsUnspent, SpentIsBeingReplaced
<1>7. QED
  BY <1>1, <1>2, <1>3, <1>4, <1>5, <1>6

(* The steps of a renewal go on with the stored token, and log in only     *)
(* when it is no good.                                                     *)
LEMMA RenewalLogins ==
  ASSUME SessionTypeOK, Holder, LoginInv, NEW w \in Worker,
         \/ Reread(w) \/ Refresh(w) \/ RefreshRefused(w)
         \/ Login(w) \/ Persist(w) \/ PersistFails(w)
  PROVE  LoginInv'
<1> USE DEF LoginInv, SessionTypeOK, Goto, rowVars, remoteVars, workVars
<1>1. \A v \in Worker : v # w => at[v] \notin {"refresh", "login"}
  BY Alone DEF Reread, Refresh, RefreshRefused, Login, Persist, PersistFails
<1>2. EditsBound'
  BY DEF EditsBound, Reread, Refresh, RefreshRefused, Login, Persist, PersistFails,
         Credential
<1>3. CASE Reread(w)
  <2>1. \A v \in Worker : v # w => at'[v] \notin {"refresh", "login"}
    BY <1>1, <1>3 DEF Reread
  <2>2. current'[w] = credential /\ credential' = credential
    BY <1>3 DEF Reread
  <2>3. at'[w] = "login" => ~HasSession(credential)
    BY <1>3 DEF Reread, Renewed
  <2>4. CurrentIsStored'
    BY <2>1, <2>2 DEF CurrentIsStored
  <2>5. LoginsAreNeeded'
    BY <2>1, <2>2, <2>3, SessionAssumption DEF LoginsAreNeeded, HasSession, Alive
  <2>6. QED
    BY <1>2, <2>4, <2>5
<1>4. CASE RefreshRefused(w)
  <2>1. CurrentIsStored'
    BY <1>1, <1>4 DEF RefreshRefused, CurrentIsStored
  <2>2. LoginsAreNeeded'
    BY <1>1, <1>4 DEF RefreshRefused, CurrentIsStored, LoginsAreNeeded, Alive
  <2>3. QED
    BY <1>2, <2>1, <2>2
<1>5. CASE Refresh(w) \/ Login(w) \/ Persist(w) \/ PersistFails(w)
  <2>1. \A v \in Worker : at'[v] \notin {"refresh", "login"}
    BY <1>1, <1>5 DEF Refresh, Login, Persist, PersistFails, FailRenewal, Renewed
  <2>2. QED
    BY <1>2, <2>1 DEF CurrentIsStored, LoginsAreNeeded
<1>6. QED
  BY <1>3, <1>4, <1>5

(* New credentials disturb no renewal's token, and no renewal's            *)
(* credentials are those of the new edit.                                  *)
LEMMA EditStep ==
  ASSUME SessionTypeOK, TokenInv, LoginInv, NEW c \in Credential, Edit(c)
  PROVE  TokenInv' /\ LoginInv'
<1> USE DEF Edit, SessionTypeOK, workVars
<1> DEFINE f == [t \in Token |-> IF t = c.token THEN "fresh" ELSE tokens[t]]
<1>1. credential' = c /\ c.edit = edits + 1 /\ edits' = edits + 1
  OBVIOUS
<1>2. at' = at /\ current' = current /\ session' = session
  OBVIOUS
<1>3. Remember(f)
  OBVIOUS
<1>4. c.token \in Token => f[c.token] = "fresh"
  OBVIOUS
<1>5. \A t \in Token : f[t] \in {tokens[t], "fresh"}
  OBVIOUS
<1> HIDE DEF f
<1>6. \A t \in Token : tokens'[t] \in {f[t], "none"}
  BY <1>3, RememberOnly
<1>7. TokenInv'
  <2>1. RefreshUnspent'
    BY <1>2, <1>5, <1>6 DEF TokenInv, RefreshUnspent
  <2>2. NewIsUnspent'
    <3>1. SUFFICES ASSUME NEW w \in Worker, at[w] = "persist"
                   PROVE  session[w] \in Token /\ tokens'[session[w]] \notin {"none", "spent"}
      BY <1>2 DEF NewIsUnspent
    <3>2. session[w] \in Token /\ tokens[session[w]] \notin {"none", "spent"}
      BY <3>1 DEF TokenInv, NewIsUnspent
    <3>3. session[w] \in Known'
      BY <1>2 DEF Known
    <3>4. tokens'[session[w]] = f[session[w]]
      BY <1>3, <3>2, <3>3, RememberKnown
    <3>5. QED
      BY <1>5, <3>2, <3>4
  <2>3. SpentIsBeingReplaced'
    BY <1>1, <1>4, <1>6 DEF SpentIsBeingReplaced
  <2>4. QED
    BY <2>1, <2>2, <2>3 DEF TokenInv
<1>8. LoginInv'
  <2>1. \A w \in Worker : current[w].edit <= edits /\ current[w].edit \in Nat
    BY DEF LoginInv, EditsBound, Credential
  <2>2. \A w \in Worker : current'[w].edit # credential'.edit
    BY <1>1, <1>2, <2>1
  <2>3. EditsBound'
    BY <1>1, <1>2, <2>1 DEF EditsBound
  <2>4. QED
    BY <2>2, <2>3 DEF LoginInv, CurrentIsStored, LoginsAreNeeded
<1>9. QED
  BY <1>7, <1>8

(* A restart forsakes the token a renewal had exchanged. *)
LEMMA RestartStep ==
  ASSUME SessionTypeOK, TokenInv, LoginInv, Restart
  PROVE  TokenInv' /\ LoginInv'
<1> DEFINE S == {current[w].token : w \in {v \in Worker : at[v] = "persist"}}
<1>1. \A w \in Worker : at'[w] = "idle" /\ current'[w] = Blank
  BY DEF Restart
<1>2. credential' = credential /\ edits' = edits
  BY DEF Restart
<1>3. \A t \in Token : tokens'[t] \in {Forsake(S)[t], "none"}
  BY RememberOnly DEF Restart
<1>4. SpentIsBeingReplaced'
  <2>1. SUFFICES ASSUME credential.token \in Token, tokens'[credential.token] = "spent"
                 PROVE  FALSE
    BY <1>2 DEF SpentIsBeingReplaced
  <2>2. Forsake(S)[credential.token] = "spent"
    BY <1>3, <2>1
  <2>3. tokens[credential.token] = "spent" /\ credential.token \notin S
    BY <2>1, <2>2 DEF Forsake
  <2>4. credential.token \in S
    BY <2>1, <2>3 DEF TokenInv, SpentIsBeingReplaced
  <2>5. QED
    BY <2>3, <2>4
<1>5. EditsBound'
  BY <1>1, <1>2 DEF LoginInv, EditsBound, Blank, SessionTypeOK
<1>6. QED
  BY <1>1, <1>4, <1>5 DEF TokenInv, RefreshUnspent, NewIsUnspent, LoginInv,
                          CurrentIsStored, LoginsAreNeeded

LEMMA TokenStep ==
  ASSUME SessionTypeOK, Holder, TokenInv, LoginInv, [Next]_vars
  PROVE  TokenInv' /\ LoginInv'
<1>1. ASSUME NEW w \in Worker, Work(w)
      PROVE  TokenInv' /\ LoginInv'
  <2>1. CASE Minor(w)
    BY <2>1, MinorAside, AsideTokens, AsideLogins
  <2>2. CASE \/ Reread(w) \/ Refresh(w) \/ RefreshRefused(w)
             \/ Login(w) \/ Persist(w) \/ PersistFails(w)
    BY <2>2, RenewalTokens, RenewalLogins
  <2>3. QED
    BY <1>1, <2>1, <2>2 DEF Work, Renewal, WorkFails, Minor
<1>2. CASE \E c \in Credential : Edit(c)
  BY <1>2, EditStep
<1>3. CASE Restart
  BY <1>3, RestartStep
<1>4. CASE \/ Retry \/ ToggleWall \/ DueElapses \/ UNCHANGED vars
           \/ \E t \in Token : AccessExpires(t) \/ Revoke(t)
  BY <1>4, WorldAside, AsideTokens, AsideLogins
<1>5. QED
  BY <1>1, <1>2, <1>3, <1>4 DEF Next

LEMMA InitTokens == Init => TokenInv /\ LoginInv
BY SessionAssumption
   DEF Init, TokenInv, RefreshUnspent, NewIsUnspent, SpentIsBeingReplaced,
       LoginInv, EditsBound, CurrentIsStored, LoginsAreNeeded, Blank

SessionInv == SessionTypeOK /\ Holder /\ TokenInv /\ LoginInv

LEMMA SessionInvariant == Spec => []SessionInv
<1>1. Init => SessionInv
  BY InitType, InitTokens DEF SessionInv, Init, Holder, Renewing
<1>2. SessionInv /\ [Next]_vars => SessionInv'
  BY StepType, HolderStep, TokenStep DEF SessionInv
<1>3. QED
  BY <1>1, <1>2, PTL DEF Spec

(* No token pair that was exchanged for one the process holds is offered   *)
(* for exchange again, for any number of goroutines, tokens, edits and     *)
(* crashes: the mutex and the second look at the row keep stale copies     *)
(* away from the source.                                                   *)
THEOREM TokensSpentOnce == Spec => []NoTokenSpentTwice
<1>1. SessionInv => NoTokenSpentTwice
  BY DEF SessionInv, TokenInv, RefreshUnspent, NoTokenSpentTwice
<1>2. QED
  BY <1>1, SessionInvariant, PTL

(* Nobody logs in while the session stored for the same credentials is     *)
(* alive, for any number of goroutines, edits and crashes.                 *)
THEOREM LoginsOnlyWhenNeeded == Spec => []LoginsAreNeeded
<1>1. SessionInv => LoginsAreNeeded
  BY DEF SessionInv, LoginInv
<1>2. QED
  BY <1>1, SessionInvariant, PTL

-------------------------------------------------------------------------------
(* A goroutine that does nothing has no job, and only a keepalive looks    *)
(* whether the session is due.                                             *)
JobsFit ==
  \A w \in Worker :
    /\ at[w] = "idle" => job[w] = "none"
    /\ at[w] = "due" => job[w] = "keepalive"

(* A goroutine keeps its job until it ends. *)
Working(w) ==
  /\ job' = job
  /\ \A v \in Worker : v # w => at'[v] = at[v]
  /\ at'[w] # "idle"
  /\ at'[w] = "due" => job[w] = "keepalive"
  /\ scanStatus' = "RUNNING" => scanStatus = "RUNNING"

LEMMA WorkingKeepsScan ==
  ASSUME JobsFit, RunningHasScan, NEW w \in Worker, Working(w)
  PROVE  JobsFit' /\ RunningHasScan'
<1>1. JobsFit'
  BY DEF JobsFit, Working
<1>2. RunningHasScan'
  BY DEF RunningHasScan, Working
<1>3. QED
  BY <1>1, <1>2

(* Who starts was idle, so that no scan loses its goroutine. *)
LEMMA StartKeepsScan ==
  ASSUME SessionTypeOK, JobsFit, RunningHasScan, NEW w \in Worker,
         ScanStart(w) \/ DeploymentStart(w) \/ KeepaliveStart(w)
  PROVE  JobsFit' /\ RunningHasScan'
<1> USE DEF SessionTypeOK, Start, Goto
<1>1. at[w] = "idle" /\ job[w] = "none"
  BY DEF ScanStart, DeploymentStart, KeepaliveStart, JobsFit
<1>2. JobsFit'
  BY DEF ScanStart, DeploymentStart, KeepaliveStart, JobsFit
<1>3. CASE ScanStart(w)
  <2>1. job'[w] = "scan"
    BY <1>3 DEF ScanStart
  <2>2. QED
    BY <1>2, <2>1 DEF RunningHasScan
<1>4. CASE DeploymentStart(w) \/ KeepaliveStart(w)
  <2>1. scanStatus' = scanStatus
    BY <1>4 DEF DeploymentStart, KeepaliveStart, rowVars
  <2>2. \A v \in Worker : v # w => job'[v] = job[v]
    BY <1>4 DEF DeploymentStart, KeepaliveStart
  <2>3. QED
    BY <1>1, <1>2, <2>1, <2>2 DEF RunningHasScan
<1>5. QED
  BY <1>3, <1>4

(* A scan that ends leaves its verdict, which is never RUNNING; whatever   *)
(* else ends is no scan.                                                   *)
LEMMA EndKeepsScan ==
  ASSUME SessionTypeOK, JobsFit, RunningHasScan, NEW w \in Worker,
         KeepaliveSkips(w) \/ Finish(w)
  PROVE  JobsFit' /\ RunningHasScan'
<1>1. /\ End(w)
      /\ \/ scanStatus' # "RUNNING"
         \/ scanStatus' = scanStatus /\ job[w] # "scan"
  <2>1. CASE KeepaliveSkips(w)
    BY <2>1 DEF KeepaliveSkips, JobsFit
  <2>2. CASE ScanEnd(w)
    BY <2>2 DEF ScanEnd, Verdict
  <2>3. CASE KeepaliveEnd(w) \/ DeploymentEnd(w)
    BY <2>3 DEF KeepaliveEnd, DeploymentEnd, rowVars
  <2>4. QED
    BY <2>1, <2>2, <2>3 DEF Finish
<1>2. JobsFit'
  BY <1>1 DEF End, Goto, JobsFit, SessionTypeOK
<1>3. \A v \in Worker : v # w => job'[v] = job[v]
  BY <1>1 DEF End, SessionTypeOK
<1>4. RunningHasScan'
  BY <1>1, <1>3 DEF RunningHasScan
<1>5. QED
  BY <1>2, <1>4

LEMMA WorkKeepsScan ==
  ASSUME "verdict" \notin Faults,
         SessionTypeOK, JobsFit, RunningHasScan, NEW w \in Worker, Work(w)
  PROVE  JobsFit' /\ RunningHasScan'
<1>1. CASE ScanStart(w) \/ DeploymentStart(w) \/ KeepaliveStart(w)
  BY <1>1, StartKeepsScan
<1>2. CASE KeepaliveSkips(w) \/ Finish(w)
  BY <1>2, EndKeepsScan
<1>3. CASE \/ ReadCredential(w) \/ Collect(w) \/ AcquireLock(w) \/ KeepaliveRenews(w)
           \/ Reread(w) \/ Refresh(w) \/ RefreshRefused(w) \/ Login(w)
           \/ LoginRefused(w) \/ Persist(w) \/ CollectFails(w) \/ RefreshLost(w)
           \/ RenewalFails(w) \/ PersistFails(w)
  <2> SUFFICES Working(w)
    BY WorkingKeepsScan
  <2> USE DEF Working, SessionTypeOK, Goto, rowVars, workVars
  <2>1. CASE ReadCredential(w) \/ Collect(w) \/ AcquireLock(w) \/ KeepaliveRenews(w)
    <3>1. job' = job /\ scanStatus' = scanStatus
      BY <2>1 DEF ReadCredential, Collect, CollectServed, CollectRefused, AcquireLock,
                  KeepaliveRenews
    <3>2. PICK phase \in Phase \ {"idle"} :
            /\ Goto(w, phase)
            /\ phase = "due" => job[w] = "keepalive"
      BY <2>1 DEF ReadCredential, Collect, CollectServed, CollectRefused, AcquireLock,
                  KeepaliveRenews, Phase
    <3>3. QED
      BY <3>1, <3>2
  <2>2. CASE Reread(w) \/ Refresh(w) \/ RefreshRefused(w) \/ Login(w) \/ Persist(w)
    <3>1. job' = job /\ (scanStatus' = "RUNNING" => scanStatus = "RUNNING")
      BY <2>2 DEF Reread, Refresh, RefreshRefused, Login, Persist
    <3>2. PICK phase \in Phase \ {"idle", "due"} : Goto(w, phase)
      BY <2>2 DEF Reread, Refresh, RefreshRefused, Login, Persist, Renewed, Phase
    <3>3. QED
      BY <3>1, <3>2
  <2>3. CASE LoginRefused(w) \/ CollectFails(w) \/ RefreshLost(w) \/ RenewalFails(w)
             \/ PersistFails(w)
    <3>1. job' = job /\ scanStatus' = scanStatus
      BY <2>3 DEF LoginRefused, CollectFails, RefreshLost, RenewalFails, PersistFails
    <3>2. PICK phase \in {"fail", "wall"} : Goto(w, phase)
      BY <2>3 DEF LoginRefused, CollectFails, RefreshLost, RenewalFails, PersistFails,
                  FailRenewal
    <3>3. QED
      BY <3>1, <3>2
  <2>4. QED
    BY <1>3, <2>1, <2>2, <2>3
<1>4. QED
  BY <1>1, <1>2, <1>3 DEF Work, Renewal, WorkFails, EndFails, Fault

(* A source is RUNNING only while a goroutine scans it, for any number of  *)
(* goroutines and whatever the operator, the source, failures and crashes  *)
(* do to it.  The hypothesis is that the update with the scan's verdict    *)
(* never fails: the code ignores its error, and the source then stays      *)
(* RUNNING with nobody scanning it.                                        *)
THEOREM ScansAreAccountedFor ==
  ASSUME "verdict" \notin Faults
  PROVE  Spec => []RunningHasScan
<1> DEFINE ScanInv == SessionTypeOK /\ JobsFit /\ RunningHasScan
<1>1. Init => ScanInv
  BY InitType DEF Init, JobsFit, RunningHasScan
<1>2. ScanInv /\ [Next]_vars => ScanInv'
  <2>1. SUFFICES ASSUME SessionTypeOK, JobsFit, RunningHasScan, [Next]_vars
                 PROVE  JobsFit' /\ RunningHasScan'
    BY StepType
  <2>2. CASE \E w \in Worker : Work(w)
    BY <2>1, <2>2, WorkKeepsScan
  <2>3. CASE Restart
    BY <2>1, <2>3 DEF Restart, JobsFit, RunningHasScan
  <2>4. CASE \/ \E c \in Credential : Edit(c)
             \/ Retry \/ ToggleWall \/ DueElapses \/ UNCHANGED vars
             \/ \E t \in Token : AccessExpires(t) \/ Revoke(t)
    <3>1. /\ job' = job /\ at' = at
          /\ scanStatus' = "RUNNING" => scanStatus = "RUNNING"
      BY <2>4 DEF Edit, Retry, ToggleWall, DueElapses, AccessExpires, Revoke,
                  vars, rowVars, workVars
    <3>2. QED
      BY <2>1, <3>1 DEF JobsFit, RunningHasScan
  <2>5. QED
    BY <2>1, <2>2, <2>3, <2>4 DEF Next
<1>3. QED
  BY <1>1, <1>2, PTL DEF Spec

=============================================================================
