---------------------------- MODULE SourceSession ----------------------------
(***************************************************************************)
(* The remote session of one data source and the scans that need it.       *)
(*                                                                         *)
(* Scans, the keepalive and deployments all start from a copy of the       *)
(* stored credentials; whoever finds the session refused renews it under   *)
(* the source's mutex: it reads the credentials again, takes over a        *)
(* session somebody else has stored meanwhile, or refreshes the stored     *)
(* token pair, or logs in, and stores what it got.  A refresh spends the   *)
(* token pair at the source.  The operator may replace the credentials at  *)
(* any time, without that mutex; the process may stop at any step.         *)
(*                                                                         *)
(* A token stands for an access and a refresh token, or a session and its  *)
(* cookie, that were issued together.                                      *)
(***************************************************************************)
EXTENDS Naturals

CONSTANTS
  Worker,       \* goroutines that may work for the source at once
  Token,        \* identities of token pairs that are known at once
  NoToken,      \* credentials without a session
  Free,         \* the value of a mutex nobody holds
  Inputs,       \* the operator's and the source's inputs an instance enables
  Faults,       \* the faults an instance enables
  MaxInputs,    \* bound on the number of inputs
  MaxFaults     \* bound on the number of faults

ASSUME SessionAssumption ==
  /\ NoToken \notin Token
  /\ Free \notin Worker
  /\ MaxInputs \in Nat
  /\ MaxFaults \in Nat

VARIABLES
  credential,  \* sources.credential_cipher
  scanStatus,  \* sources.scan_status
  due,         \* sources.token_refresh_next_at has passed
  edits,       \* how often the operator has replaced the credentials
  tokens,      \* what the source thinks of each token pair
  wall,        \* the source demands a slider check of whoever logs in
  lock,        \* sourceAuthLocks of the source
  job,         \* what a goroutine does
  at,          \* where it is
  seen,        \* the credentials it started from
  current,     \* the credentials it has read under the mutex
  session,     \* the token pair it uses, or has been given
  collected,   \* it has tried to collect once
  inputs,      \* inputs so far
  faults       \* faults so far

rowVars    == <<credential, scanStatus, due>>
remoteVars == <<tokens, wall>>
workVars   == <<job, seen, current, session, collected>>
boundVars  == <<inputs, faults>>
vars == <<rowVars, edits, remoteVars, lock, workVars, at, boundVars>>

-------------------------------------------------------------------------------
Credential == [edit : 0 .. MaxInputs, mode : {"PASSWORD", "TOKEN"},
               token : Token \cup {NoToken}]

Job    == {"none", "scan", "keepalive", "deployment"}
Status == {"IDLE", "UNKNOWN", "RUNNING", "SUCCESS", "FAILED", "AUTH_REQUIRED"}

(* renew waits for the mutex; due, reread, refresh, login, persist and a   *)
(* keepalive's failure are under it.                                       *)
Phase == {"idle", "read", "collect", "renew", "due", "reread", "refresh",
          "login", "persist", "succeed", "fail", "wall"}

(* fresh: serves; stale: the access token has expired; spent: exchanged    *)
(* for a pair that was stored or is about to be; lost: exchanged for a     *)
(* pair that never was; revoked: ended by the source; none: nobody knows   *)
(* it any more, its identity may be issued again.                          *)
TokenState == {"none", "fresh", "stale", "spent", "lost", "revoked"}

SessionTypeOK ==
  /\ credential \in Credential
  /\ scanStatus \in Status
  /\ due \in BOOLEAN
  /\ edits \in 0 .. MaxInputs
  /\ tokens \in [Token -> TokenState]
  /\ wall \in BOOLEAN
  /\ lock \in Worker \cup {Free}
  /\ job \in [Worker -> Job]
  /\ at \in [Worker -> Phase]
  /\ seen \in [Worker -> Credential]
  /\ current \in [Worker -> Credential]
  /\ session \in [Worker -> Token \cup {NoToken}]
  /\ collected \in [Worker -> BOOLEAN]
  /\ inputs \in 0 .. MaxInputs
  /\ faults \in 0 .. MaxFaults

Blank == [edit |-> 0, mode |-> "PASSWORD", token |-> NoToken]

(* createSource with an account and a password, before its first scan.     *)
Init ==
  /\ credential = Blank
  /\ scanStatus = "IDLE"
  /\ due = TRUE
  /\ edits = 0
  /\ tokens = [t \in Token |-> "none"]
  /\ wall = FALSE
  /\ lock = Free
  /\ job = [w \in Worker |-> "none"]
  /\ at = [w \in Worker |-> "idle"]
  /\ seen = [w \in Worker |-> Blank]
  /\ current = [w \in Worker |-> Blank]
  /\ session = [w \in Worker |-> NoToken]
  /\ collected = [w \in Worker |-> FALSE]
  /\ inputs = 0
  /\ faults = 0

-------------------------------------------------------------------------------
HasSession(c) == c.token # NoToken

Known ==
  {credential.token} \cup
  {seen[w].token : w \in Worker} \cup
  {current[w].token : w \in Worker} \cup
  {session[w] : w \in Worker}

(* The source's view f of the tokens, of those that are still known.       *)
Remember(f) ==
  tokens' = [t \in Token |-> IF t \in Known' THEN f[t] ELSE "none"]

Alive(t) == t \in Token /\ tokens[t] \in {"fresh", "stale"}
Issue(t) == t \in Token /\ tokens[t] = "none"

Input(kind) ==
  /\ kind \in Inputs
  /\ inputs < MaxInputs
  /\ inputs' = inputs + 1
  /\ UNCHANGED faults

Fault(kind) ==
  /\ kind \in Faults
  /\ faults < MaxFaults
  /\ faults' = faults + 1
  /\ UNCHANGED inputs

Goto(w, phase) == at' = [at EXCEPT ![w] = phase]
Release == lock' = Free

(* A bug: a mutex that is left locked. *)
EndLocked(w) ==
  /\ Goto(w, "idle")
  /\ job' = [job EXCEPT ![w] = "none"]
  /\ seen' = [seen EXCEPT ![w] = Blank]
  /\ current' = [current EXCEPT ![w] = Blank]
  /\ session' = [session EXCEPT ![w] = NoToken]
  /\ collected' = [collected EXCEPT ![w] = FALSE]
  /\ UNCHANGED lock

(* A goroutine ends; a deferred unlock gives the mutex back.               *)
End(w) ==
  /\ Goto(w, "idle")
  /\ job' = [job EXCEPT ![w] = "none"]
  /\ seen' = [seen EXCEPT ![w] = Blank]
  /\ current' = [current EXCEPT ![w] = Blank]
  /\ session' = [session EXCEPT ![w] = NoToken]
  /\ collected' = [collected EXCEPT ![w] = FALSE]
  /\ lock' = IF lock = w THEN Free ELSE lock

(* renewSourceSession gives the mutex back when it fails; a keepalive      *)
(* keeps it until it has recorded the failure.                             *)
FailRenewal(w, phase) ==
  /\ Goto(w, phase)
  /\ lock' = IF job[w] = "keepalive" THEN lock ELSE Free

-------------------------------------------------------------------------------
(* Goroutines start                                                        *)

Start(w, kind, phase) ==
  /\ at[w] = "idle"
  /\ job' = [job EXCEPT ![w] = kind]
  /\ Goto(w, phase)
  /\ UNCHANGED <<edits, remoteVars, lock, seen, current, session, collected>>

(* scanSource, from the scheduler, after an edit or a retry.               *)
ScanStart(w) ==
  /\ scanStatus \notin {"RUNNING", "AUTH_REQUIRED"}
  /\ scanStatus' = "RUNNING"
  /\ Start(w, "scan", "read")
  /\ UNCHANGED <<credential, due, boundVars>>

(* A deployment refuses a source that needs the operator.                  *)
DeploymentStart(w) ==
  /\ Input("deployment")
  /\ scanStatus # "AUTH_REQUIRED"
  /\ Start(w, "deployment", "read")
  /\ UNCHANGED rowVars

(* One round of refreshDueSourceTokens at a time.                          *)
KeepaliveStart(w) ==
  /\ due
  /\ \A v \in Worker : job[v] # "keepalive"
  /\ Start(w, "keepalive", "renew")
  /\ UNCHANGED <<rowVars, boundVars>>

-------------------------------------------------------------------------------
(* authenticateSource and collectSource                                    *)

ReadCredential(w) ==
  /\ at[w] = "read"
  /\ seen' = [seen EXCEPT ![w] = credential]
  /\ session' = [session EXCEPT ![w] = credential.token]
  /\ Goto(w, IF HasSession(credential) THEN "collect" ELSE "renew")
  /\ UNCHANGED <<rowVars, edits, remoteVars, lock, job, current, collected,
                 boundVars>>

(* The access token of a pair that was exchanged may serve a while longer. *)
CollectServed(w) ==
  /\ at[w] = "collect"
  /\ tokens[session[w]] \in {"fresh", "spent", "lost"}
  /\ Goto(w, "succeed")
  /\ UNCHANGED <<rowVars, edits, remoteVars, lock, workVars, boundVars>>

(* A scan renews once and collects once more.                              *)
CollectRefused(w) ==
  /\ at[w] = "collect"
  /\ tokens[session[w]] # "fresh"
  /\ Goto(w, IF collected[w] THEN "fail" ELSE "renew")
  /\ collected' = [collected EXCEPT ![w] = TRUE]
  /\ UNCHANGED <<rowVars, edits, remoteVars, lock, job, seen, current, session,
                 boundVars>>

CollectFails(w) ==
  /\ at[w] = "collect"
  /\ Fault("refused")
  /\ Goto(w, "fail")
  /\ UNCHANGED <<rowVars, edits, remoteVars, lock, workVars>>

-------------------------------------------------------------------------------
(* Renewal                                                                 *)

(* A bug: renewing without the source's mutex. *)
AcquireLockAnyway(w) ==
  /\ at[w] = "renew"
  /\ lock' = w
  /\ Goto(w, IF job[w] = "keepalive" THEN "due" ELSE "reread")
  /\ UNCHANGED <<rowVars, edits, remoteVars, workVars, boundVars>>

AcquireLock(w) ==
  /\ at[w] = "renew"
  /\ lock = Free
  /\ lock' = w
  /\ Goto(w, IF job[w] = "keepalive" THEN "due" ELSE "reread")
  /\ UNCHANGED <<rowVars, edits, remoteVars, workVars, boundVars>>

(* The keepalive looks again whether it is still due and whether there is  *)
(* a session to keep alive.                                                *)
KeepaliveSkips(w) ==
  /\ at[w] = "due"
  /\ ~due \/ ~HasSession(credential)
  /\ due' = FALSE
  /\ End(w)
  /\ UNCHANGED <<credential, scanStatus, edits, remoteVars, boundVars>>

KeepaliveRenews(w) ==
  /\ at[w] = "due"
  /\ due /\ HasSession(credential)
  /\ seen' = [seen EXCEPT ![w] = credential]
  /\ Goto(w, "reread")
  /\ UNCHANGED <<rowVars, edits, remoteVars, lock, job, current, session,
                 collected, boundVars>>

(* What renewSourceSession returns to: a keepalive is done, a deployment   *)
(* has its session, a scan collects.                                       *)
Renewed(w) == IF job[w] = "scan" THEN "collect" ELSE "succeed"

(* A bug: going on with the credentials the goroutine started from. *)
RereadSeen(w) ==
  /\ at[w] = "reread"
  /\ current' = [current EXCEPT ![w] = seen[w]]
  /\ Goto(w, IF HasSession(seen[w]) THEN "refresh" ELSE "login")
  /\ UNCHANGED <<lock, session>>
  /\ UNCHANGED <<rowVars, edits, wall, job, seen, collected, boundVars>>
  /\ Remember(tokens)

(* renewSourceSessionLocked reads the credentials again: a session that    *)
(* is not the refused one has been stored by somebody else.                *)
Reread(w) ==
  /\ at[w] = "reread"
  /\ current' = [current EXCEPT ![w] = credential]
  /\ \/ /\ HasSession(credential) /\ credential.token # seen[w].token
        /\ session' = [session EXCEPT ![w] = credential.token]
        /\ Goto(w, Renewed(w))
        /\ Release
     \/ /\ ~(HasSession(credential) /\ credential.token # seen[w].token)
        /\ Goto(w, IF HasSession(credential) THEN "refresh" ELSE "login")
        /\ UNCHANGED <<lock, session>>
  /\ UNCHANGED <<rowVars, edits, wall, job, seen, collected, boundVars>>
  /\ Remember(tokens)

Refresh(w) ==
  /\ at[w] = "refresh"
  /\ Alive(current[w].token)
  /\ Goto(w, "persist")
  /\ UNCHANGED <<rowVars, edits, wall, lock, job, seen, current, collected,
                 boundVars>>
  /\ \E t \in Token :
       /\ Issue(t)
       /\ session' = [session EXCEPT ![w] = t]
       /\ Remember([tokens EXCEPT ![current[w].token] = "spent", ![t] = "fresh"])

RefreshRefused(w) ==
  /\ at[w] = "refresh"
  /\ ~Alive(current[w].token)
  /\ Goto(w, "login")
  /\ UNCHANGED <<rowVars, edits, remoteVars, lock, workVars, boundVars>>

(* The source exchanges the pair and the reply is lost.                    *)
RefreshLost(w) ==
  /\ at[w] = "refresh"
  /\ Alive(current[w].token)
  /\ Fault("lost")
  /\ tokens' = [tokens EXCEPT ![current[w].token] = "lost"]
  /\ FailRenewal(w, "fail")
  /\ UNCHANGED <<rowVars, edits, wall, workVars>>

Login(w) ==
  /\ at[w] = "login"
  /\ current[w].mode = "PASSWORD"
  /\ ~wall
  /\ Goto(w, "persist")
  /\ UNCHANGED <<rowVars, edits, wall, lock, job, seen, current, collected,
                 boundVars>>
  /\ \E t \in Token :
       /\ Issue(t)
       /\ session' = [session EXCEPT ![w] = t]
       /\ Remember([tokens EXCEPT ![t] = "fresh"])

(* No account to log in with, or the source demands an interactive check.  *)
LoginRefused(w) ==
  /\ at[w] = "login"
  /\ current[w].mode = "TOKEN" \/ wall
  /\ FailRenewal(w, IF current[w].mode = "PASSWORD" THEN "wall" ELSE "fail")
  /\ UNCHANGED <<rowVars, edits, remoteVars, workVars, boundVars>>

RenewalFails(w) ==
  /\ at[w] \in {"refresh", "login"}
  /\ Fault("refused")
  /\ FailRenewal(w, "fail")
  /\ UNCHANGED <<rowVars, edits, remoteVars, workVars>>

(* persistSourceSession stores the credentials it was given, with the new  *)
(* session, and ends a source's need for the operator.                     *)
Persist(w) ==
  /\ at[w] = "persist"
  /\ credential' = [current[w] EXCEPT !.token = session[w]]
  /\ scanStatus' = IF scanStatus = "AUTH_REQUIRED" THEN "UNKNOWN" ELSE scanStatus
  /\ due' = FALSE
  /\ Goto(w, Renewed(w))
  /\ Release
  /\ UNCHANGED <<edits, wall, workVars, boundVars>>
  /\ Remember(tokens)

(* A token that was exchanged and whose successor is gone.                 *)
Forsake(S) ==
  [t \in Token |-> IF tokens[t] = "spent" /\ t \in S THEN "lost" ELSE tokens[t]]

PersistFails(w) ==
  /\ at[w] = "persist"
  /\ Fault("database")
  /\ tokens' = Forsake({current[w].token})
  /\ FailRenewal(w, "fail")
  /\ UNCHANGED <<rowVars, edits, wall, workVars>>

-------------------------------------------------------------------------------
(* Goroutines end                                                          *)

(* A bug: a failure nobody records. *)
VerdictForgotten(w) == IF at[w] = "succeed" THEN "SUCCESS" ELSE scanStatus

(* A bug: the code of the API error in place of the status. *)
VerdictOfError(w) ==
  IF at[w] = "succeed" THEN "SUCCESS"
  ELSE IF at[w] = "wall" THEN "SOURCE_AUTH_ACTION_REQUIRED" ELSE "FAILED"

Verdict(w) ==
  IF at[w] = "succeed" THEN "SUCCESS"
  ELSE IF at[w] = "wall" THEN "AUTH_REQUIRED" ELSE "FAILED"

(* The scan's verdict, whatever has happened to the source meanwhile.      *)
ScanEnd(w) ==
  /\ job[w] = "scan"
  /\ at[w] \in {"succeed", "fail", "wall"}
  /\ scanStatus' = Verdict(w)
  /\ End(w)
  /\ UNCHANGED <<credential, due, edits, wall, boundVars>>
  /\ Remember(tokens)

(* A failed keepalive is tried again after a back-off.                     *)
KeepaliveEnd(w) ==
  /\ job[w] = "keepalive"
  /\ at[w] \in {"succeed", "fail", "wall"}
  /\ due' = (due /\ at[w] = "succeed")
  /\ End(w)
  /\ UNCHANGED <<credential, scanStatus, edits, wall, boundVars>>
  /\ Remember(tokens)

DeploymentEnd(w) ==
  /\ job[w] = "deployment"
  /\ at[w] \in {"succeed", "fail", "wall"}
  /\ End(w)
  /\ UNCHANGED <<rowVars, edits, wall, boundVars>>
  /\ Remember(tokens)

(* The error of a scan's last update is ignored; that of a keepalive's is  *)
(* logged.                                                                 *)
EndFails(w) ==
  /\ job[w] \in {"scan", "keepalive"}
  /\ at[w] \in {"succeed", "fail", "wall"}
  /\ Fault("verdict")
  /\ End(w)
  /\ UNCHANGED <<rowVars, edits, wall>>
  /\ Remember(tokens)

-------------------------------------------------------------------------------
(* The operator                                                            *)

(* updateSource with new credentials: an account and a password, or a      *)
(* token pair the operator has obtained.                                   *)
Edit(c) ==
  /\ Input("edit")
  /\ edits' = edits + 1
  /\ c.edit = edits'
  /\ IF c.mode = "TOKEN" THEN Issue(c.token) ELSE c.token = NoToken
  /\ credential' = c
  /\ scanStatus' = "UNKNOWN"
  /\ due' = TRUE
  /\ UNCHANGED <<wall, lock, workVars, at>>
  /\ Remember([t \in Token |-> IF t = c.token THEN "fresh" ELSE tokens[t]])

(* retrySourceScan. *)
Retry ==
  /\ Input("retry")
  /\ scanStatus' = "UNKNOWN"
  /\ UNCHANGED <<credential, due, edits, remoteVars, lock, workVars, at>>

-------------------------------------------------------------------------------
(* The source and the clock                                                *)

AccessExpires(t) ==
  /\ Input("expiry")
  /\ tokens[t] = "fresh"
  /\ tokens' = [tokens EXCEPT ![t] = "stale"]
  /\ UNCHANGED <<rowVars, edits, wall, lock, workVars, at>>

Revoke(t) ==
  /\ Input("revoke")
  /\ Alive(t)
  /\ tokens' = [tokens EXCEPT ![t] = "revoked"]
  /\ UNCHANGED <<rowVars, edits, wall, lock, workVars, at>>

ToggleWall ==
  /\ Input("wall")
  /\ wall' = ~wall
  /\ UNCHANGED <<rowVars, edits, tokens, lock, workVars, at>>

DueElapses ==
  /\ ~due
  /\ due' = TRUE
  /\ UNCHANGED <<credential, scanStatus, edits, remoteVars, lock, workVars, at,
                 boundVars>>

(* The process stops and starts again: the migration resets RUNNING.       *)
Restart ==
  /\ Fault("restart")
  /\ job' = [w \in Worker |-> "none"]
  /\ at' = [w \in Worker |-> "idle"]
  /\ seen' = [w \in Worker |-> Blank]
  /\ current' = [w \in Worker |-> Blank]
  /\ session' = [w \in Worker |-> NoToken]
  /\ collected' = [w \in Worker |-> FALSE]
  /\ lock' = Free
  /\ scanStatus' = IF scanStatus = "RUNNING" THEN "IDLE" ELSE scanStatus
  /\ UNCHANGED <<credential, due, edits, wall>>
  /\ Remember(Forsake({current[w].token : w \in {v \in Worker : at[v] = "persist"}}))

-------------------------------------------------------------------------------
Renewal(w) ==
  \/ KeepaliveSkips(w)
  \/ KeepaliveRenews(w)
  \/ Reread(w)
  \/ Refresh(w)
  \/ RefreshRefused(w)
  \/ Login(w)
  \/ LoginRefused(w)
  \/ Persist(w)

Collect(w) == CollectServed(w) \/ CollectRefused(w)

Finish(w) == ScanEnd(w) \/ KeepaliveEnd(w) \/ DeploymentEnd(w)

WorkFails(w) ==
  \/ CollectFails(w)
  \/ RefreshLost(w)
  \/ RenewalFails(w)
  \/ PersistFails(w)
  \/ EndFails(w)

Work(w) ==
  \/ ScanStart(w)
  \/ DeploymentStart(w)
  \/ KeepaliveStart(w)
  \/ ReadCredential(w)
  \/ Collect(w)
  \/ AcquireLock(w)
  \/ Renewal(w)
  \/ Finish(w)
  \/ WorkFails(w)

Next ==
  \/ \E w \in Worker : Work(w)
  \/ \E c \in Credential : Edit(c)
  \/ Retry
  \/ \E t \in Token : AccessExpires(t) \/ Revoke(t)
  \/ ToggleWall
  \/ DueElapses
  \/ Restart

Spec == Init /\ [][Next]_vars

-------------------------------------------------------------------------------
(* Safety                                                                  *)

Renewing(w) == at[w] \in {"due", "reread", "refresh", "login", "persist"}

(* Two goroutines never renew the source's session at once (sources.go:497,*)
(* CHANGELOG.md:80, one lock per source).                                  *)
OneRenewal ==
  \A v, w \in Worker : Renewing(v) /\ Renewing(w) => v = w

(* A token pair that was exchanged for another one the process holds is    *)
(* never offered for exchange again, although every scan, keepalive and    *)
(* deployment starts from a copy of the credentials that others may have   *)
(* renewed since (sources.go:519).                                         *)
NoTokenSpentTwice ==
  \A w \in Worker : at[w] = "refresh" => tokens[current[w].token] # "spent"

(* CHANGELOG.md:402: nobody logs in with the account and password while    *)
(* the session stored for those credentials is alive (sources.go:519-544), *)
(* at a source that can refresh sessions.                                  *)
LoginsAreNeeded ==
  \A w \in Worker :
    at[w] = "login" /\ current[w].edit = credential.edit => ~Alive(credential.token)

(* A source is RUNNING only while a scan of it runs: the scheduler skips   *)
(* RUNNING sources (worker.go:240), so a source left RUNNING is never      *)
(* scanned again.                                                          *)
RunningHasScan ==
  scanStatus = "RUNNING" => \E w \in Worker : job[w] = "scan"

(* CHANGELOG.md:254: a source can be given new credentials, which are the  *)
(* stored ones from then on: a renewal that began with the old ones does   *)
(* not put them back (sources.go:316, sources.go:570).                     *)
EditsStand == credential.edit = edits

-------------------------------------------------------------------------------
(* Liveness                                                                *)

(* Goroutines run, the mutex does not starve a waiter, the tickers start   *)
(* scans and keepalives, the refresh time passes, and the keepalive, which *)
(* renews once before each expiry, does not overtake every collection.     *)
Fairness ==
  /\ \A w \in Worker :
       /\ SF_vars(ScanStart(w))
       /\ SF_vars(AcquireLock(w))
       /\ SF_vars(CollectServed(w))
       /\ WF_vars(ReadCredential(w) \/ Collect(w) \/ Renewal(w) \/ Finish(w))
  /\ \A w \in Worker : WF_vars(KeepaliveStart(w))
  /\ WF_vars(DueElapses)

FairSpec == Spec /\ Fairness

(* A source that is not in need of the operator, and has an account and a  *)
(* password, is scanned successfully again and again: no lost reply, no    *)
(* failed renewal and no restart leaves it without a session or its mutex  *)
(* locked (sources.go:399-447, 497-551, 641-677).                          *)
ScansGoOn ==
  <>[](scanStatus # "AUTH_REQUIRED" /\ ~wall /\ credential.mode = "PASSWORD")
    => []<>(scanStatus = "SUCCESS")

=============================================================================
