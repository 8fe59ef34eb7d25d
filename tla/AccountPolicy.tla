---------------------------- MODULE AccountPolicy ----------------------------
(***************************************************************************)
(* What the policy of one target group makes of its managed accounts       *)
(* (worker.go): measurements of the first token arrive from the node's     *)
(* usage log and from probes, an evaluation advances the latency state of  *)
(* every account, ranks the accounts, picks slow ones as last resort, and  *)
(* requests actions, which are executed later, in any order, or fail.      *)
(*                                                                         *)
(* A point in time is the number of minutes since, kept up to the largest  *)
(* the code compares; NULL is Old, and so is what the ranking would still  *)
(* use of a probe that is no longer fresh.  P50 and P90 of a measurement   *)
(* are one figure.  The reasons to reject an account other than its        *)
(* latency are one verdict, fit.  The queue itself is ManagedActions, the  *)
(* steps of a recreation are AccountLifecycle; the price of a group, the   *)
(* cache states and shadow mode are left out, the cooldown between         *)
(* priority changes is the queue's.                                        *)
(***************************************************************************)
EXTENDS Integers, FiniteSets

CONSTANTS
  Account,       \* the accounts, by their ids
  Figures,       \* first tokens that are measured, in milliseconds
  Limit,         \* the policy's MaxFirstTokenMs
  MinAvailable,  \* the policy's MinAvailableChannels
  PriorityStart, \* the policy's PriorityStart
  PriorityStep,  \* the policy's PriorityStep
  BadLimit,      \* bad measurements in a row that make an account slow
  GoodLimit,     \* good ones in a row that lift a slow hold
  Hold,          \* latencyRecoveryHold
  Fresh,         \* businessLatencyFreshness
  MaxEvents      \* bound on changes of fitness and failed actions together

ASSUME AccountPolicyAssumption ==
  /\ Account \subseteq Nat
  /\ IsFiniteSet(Account)
  /\ Figures \subseteq Nat
  /\ {Limit, MinAvailable, MaxEvents} \subseteq Nat
  /\ BadLimit \in {2, 3}
  /\ {GoodLimit, Hold, Fresh, PriorityStart, PriorityStep} \subseteq Nat \ {0}

VARIABLES
  account,   \* managed_accounts: latency, switch, priority and fallback
  business,  \* the last measurement of real traffic of each account
  probe,     \* the last probe of each account's channel
  fit,       \* nothing but its latency speaks against the account
  logsOnly,  \* the setting business_logs_only
  pending,   \* requested actions that are not executed yet
  streak,    \* history: equal verdicts in a row over different measurements
  events     \* changes of fitness and failed actions so far

vars == <<account, business, probe, fit, logsOnly, pending, streak, events>>

-------------------------------------------------------------------------------
Larger(x, y)  == IF x > y THEN x ELSE y
Smaller(x, y) == IF x < y THEN x ELSE y
Old      == Fresh + 1
Age      == 0 .. Old
Kind     == {"rebuild", "priority", "switch"}
Verdict  == {"good", "middling", "bad", "severe"}
None     == [age |-> Old, ms |-> 0, used |-> FALSE]

ObservingPriorityStart == 300000
FallbackPriorityStart  == 900000

(* Nothing is planned beyond a last band that holds all the accounts.      *)
Priority ==
  PriorityStart .. Larger(PriorityStart, FallbackPriorityStart)
                     + PriorityStep * (Cardinality(Account) - 1)

Measurement == [age : Age, ms : Figures \cup {0}, used : BOOLEAN]
NoRequest   == [kind |-> "none"]

PolicyTypeOK ==
  /\ account \in [Account ->
       [state : {"NORMAL", "OBSERVING", "SLOW"}, bad : 0 .. BadLimit,
        good : 0 .. GoodLimit, at : Age, since : 0 .. Hold,
        fallback : BOOLEAN, on : BOOLEAN, priority : Priority]]
  /\ business \in [Account -> Measurement]
  /\ probe \in [Account -> Measurement]
  /\ fit \in [Account -> BOOLEAN]
  /\ logsOnly \in BOOLEAN
  /\ pending \in [Account -> SUBSET
       ([kind : {"rebuild"}, priority : Priority]
        \cup [kind : {"priority"}, priority : Priority, release : BOOLEAN]
        \cup [kind : {"switch"}, on : BOOLEAN])]
  /\ streak \in [Account -> [verdict : Verdict, length : 0 .. Larger(BadLimit, GoodLimit)]]
  /\ events \in 0 .. MaxEvents

Init ==
  /\ account = [a \in Account |->
       [state |-> "NORMAL", bad |-> 0, good |-> 0, at |-> Old, since |-> Hold,
        fallback |-> FALSE, on |-> FALSE, priority |-> PriorityStart]]
  /\ business = [a \in Account |-> None]
  /\ probe = [a \in Account |-> None]
  /\ fit \in [Account -> BOOLEAN]
  /\ logsOnly \in BOOLEAN
  /\ pending = [a \in Account |-> {}]
  /\ streak = [a \in Account |-> [verdict |-> "good", length |-> 0]]
  /\ events = 0

-------------------------------------------------------------------------------
(* The latency of one account                                              *)

(* latencyBadSnapshotLimit: severe figures count at once only for the      *)
(* policy's own model.                                                     *)
Judge(ms) ==
  LET severe == BadLimit = 2 /\ 2 * ms >= 3 * Limit
  IN IF severe THEN "severe"
     ELSE IF ms > Limit THEN "bad"
     ELSE IF 10 * ms < 8 * Limit THEN "good"
     ELSE "middling"

(* A bug: the same measurement counts in every evaluation.                 *)
IsNewAgain(m, r) == m.age <= Fresh

IsNew(m, r) == m.age <= Fresh /\ m.age < r.at

(* Real traffic first; a probe only speaks for an account that is slow.    *)
Evidence(a) ==
  CASE IsNew(business[a], account[a]) -> "business"
    [] /\ ~IsNew(business[a], account[a])
       /\ account[a].state = "SLOW"
       /\ IsNew(probe[a], account[a]) -> "probe"
    [] OTHER -> "none"

Measured(a) == IF Evidence(a) = "business" THEN business[a] ELSE probe[a]

(* A bug: the third good measurement lifts the hold at once.               *)
RecoversAtOnce(r) == r.state = "SLOW" /\ r.good >= GoodLimit /\ r.at <= Fresh

Recovers(r) ==
  /\ r.state = "SLOW"
  /\ r.good >= GoodLimit
  /\ r.since >= Hold
  /\ r.at <= Fresh

Ignored(a) ==
  logsOnly /\ Evidence(a) = "probe" /\ Judge(probe[a].ms) # "good"

Advances(a) == Evidence(a) # "none" /\ ~Ignored(a) /\ ~Recovers(account[a])

(* The time of the change is only read of a slow account.                  *)
Entered(r, state) ==
  [r EXCEPT !.state = state,
            !.since = IF r.state = state THEN @ ELSE IF state = "SLOW" THEN 0 ELSE Hold]

Counted(r, verdict) ==
  CASE verdict \in {"bad", "severe"} ->
         LET bad == Smaller(r.bad + 1, BadLimit)
         IN [Entered(r, IF \/ r.state = "SLOW" \/ verdict = "severe" \/ bad >= BadLimit
                        THEN "SLOW" ELSE "OBSERVING")
              EXCEPT !.bad = bad, !.good = 0]
    [] verdict = "good" /\ r.state = "SLOW" ->
         [r EXCEPT !.bad = 0, !.good = Smaller(@ + 1, GoodLimit)]
    [] verdict = "good" /\ r.state = "OBSERVING" /\ r.good = 0 ->
         [r EXCEPT !.bad = 0, !.good = 1]
    [] verdict = "good" /\ (r.state = "NORMAL" \/ (r.state = "OBSERVING" /\ r.good > 0)) ->
         [Entered(r, "NORMAL") EXCEPT !.bad = 0, !.good = 0]
    [] verdict = "middling" ->
         [Entered(r, IF r.state = "SLOW" THEN "SLOW" ELSE "OBSERVING")
            EXCEPT !.bad = 0, !.good = 0]

(* A normal account is nobody's fallback any more.                         *)
Released(r) == IF r.state = "NORMAL" THEN [r EXCEPT !.fallback = FALSE] ELSE r

Advanced(a) ==
  CASE Recovers(account[a]) ->
         Released([Entered(account[a], "NORMAL") EXCEPT !.bad = 0, !.good = 0])
    [] Advances(a) ->
         Released([Counted(account[a], Judge(Measured(a).ms))
                     EXCEPT !.at = Measured(a).age])
    [] OTHER -> account[a]

-------------------------------------------------------------------------------
(* The plan: bands of priorities, fastest first, over the rows r           *)

HasScore(a) == business[a].age <= Fresh \/ probe[a].age < Old
Score(a)    == IF business[a].age <= Fresh THEN business[a].ms ELSE probe[a].ms

(* speedStabilityBandMs * .01, in hundredths of a millisecond.             *)
SameBand(x, y) == 100 * (Larger(x, y) - Smaller(x, y)) < 50

FasterThan(r, a, b) ==
  LET settled == r[a].priority < r[b].priority
      equal   == r[a].priority = r[b].priority
  IN CASE HasScore(a) # HasScore(b) -> HasScore(a)
       [] HasScore(a) = HasScore(b) /\ (~HasScore(a) \/ SameBand(Score(a), Score(b))) ->
            settled \/ (equal /\ a < b)
       [] OTHER -> Score(a) < Score(b)

Eligible(r, a) == fit[a] /\ r[a].state # "SLOW"

Band(r, state) == {a \in Account : fit[a] /\ r[a].state = state}

(* The place in the sorted band.  The figures are whole milliseconds, so   *)
(* SameBand is equality and either order is total.                         *)
Place(r, a) ==
  LET Before(b) == IF r[a].state = "SLOW"
                   THEN Score(b) < Score(a) \/ (Score(b) = Score(a) /\ b < a)
                   ELSE FasterThan(r, b, a)
  IN Cardinality({b \in Band(r, r[a].state) : Before(b)})

Available(r) == Cardinality({a \in Account : Eligible(r, a) /\ r[a].on})

(* A bug: accounts that are switched off count as available.               *)
NeededOfAll(r) == Larger(0, MinAvailable - Cardinality({a \in Account : fit[a]}))

Needed(r) == Larger(0, MinAvailable - Available(r))

(* A band that begins at start ends where the next one may begin.          *)
After(start, r, state) == start + PriorityStep * Cardinality(Band(r, state))

ObservingStart(r) == Larger(ObservingPriorityStart, After(PriorityStart, r, "NORMAL"))
FallbackStart(r)  == Larger(FallbackPriorityStart, After(ObservingStart(r), r, "OBSERVING"))

Start(r, state) ==
  CASE state = "NORMAL"    -> PriorityStart
    [] state = "OBSERVING" -> ObservingStart(r)
    [] state = "SLOW"      -> FallbackStart(r)

(* A bug: the first of a band is counted as its second.                    *)
PlannedAfter(r, a) == Start(r, r[a].state) + PriorityStep * (Place(r, a) + 1)

Planned(r, a) == Start(r, r[a].state) + PriorityStep * Place(r, a)

LastResort(r, a) ==
  a \in Band(r, "SLOW") /\ Place(r, a) < Needed(r)

(* A bug: an account that is off is not switched on again.                 *)
WantsStop(r, a) == ~fit[a] /\ r[a].on

WantsSwitch(r, a) == fit[a] # r[a].on

(* What one evaluation requests for an account, if anything.               *)
Decision(r, a) ==
  LET lastResort == LastResort(r, a)
      planned    == IF fit[a] THEN Planned(r, a) ELSE r[a].priority
  IN CASE lastResort /\ ~r[a].fallback ->
            [kind |-> "rebuild", priority |-> planned]
       [] (lastResort => r[a].fallback) /\ planned # r[a].priority ->
            [kind |-> "priority", priority |-> planned,
             release |-> r[a].fallback /\ ~lastResort]
       [] /\ lastResort => r[a].fallback
          /\ planned = r[a].priority
          /\ WantsSwitch(r, a) ->
            [kind |-> "switch", on |-> fit[a]]
       [] OTHER -> NoRequest

(* The queue keeps one goal per account and type.                          *)
Enqueued(queue, d) ==
  IF d = NoRequest THEN queue ELSE {q \in queue : q.kind # d.kind} \cup {d}

Evaluate ==
  LET used(a, m, source) ==
        IF Advances(a) /\ Evidence(a) = source THEN [m[a] EXCEPT !.used = TRUE] ELSE m[a]
      verdict(a) == Judge(Measured(a).ms)
      extended(a) ==
        IF ~Advances(a) \/ Measured(a).used THEN streak[a]
        ELSE [verdict |-> verdict(a),
              length |-> IF verdict(a) # streak[a].verdict THEN 1
                         ELSE Smaller(streak[a].length + 1, Larger(BadLimit, GoodLimit))]
  IN /\ account' = [a \in Account |-> Advanced(a)]
     /\ business' = [a \in Account |-> used(a, business, "business")]
     /\ probe' = [a \in Account |-> used(a, probe, "probe")]
     /\ streak' = [a \in Account |-> extended(a)]
     /\ pending' = [a \in Account |-> Enqueued(pending[a], Decision(account', a))]
     /\ UNCHANGED <<fit, logsOnly, events>>

-------------------------------------------------------------------------------
(* The queue's executors                                                   *)

Done(a, q) == pending' = [pending EXCEPT ![a] = @ \ {q}]

Executed(r, q) ==
  CASE q.kind = "rebuild" ->
         [r EXCEPT !.priority = q.priority, !.on = TRUE, !.fallback = TRUE]
    [] q.kind = "priority" ->
         [r EXCEPT !.priority = q.priority, !.fallback = @ /\ ~q.release]
    [] q.kind = "switch" ->
         [r EXCEPT !.on = q.on, !.fallback = @ /\ q.on]

Execute(a, q) ==
  /\ account' = [account EXCEPT ![a] = Executed(@, q)]
  /\ Done(a, q)
  /\ UNCHANGED <<business, probe, fit, logsOnly, streak, events>>

(* A recreation that fails before the new account exists leaves the old    *)
(* one at the priority of the last resort, if the node takes it.           *)
ExecuteFails(a, q) ==
  /\ events < MaxEvents
  /\ events' = events + 1
  /\ Done(a, q)
  /\ \/ account' = account
     \/ /\ q.kind = "rebuild"
        /\ account' = [account EXCEPT ![a].priority = q.priority]
  /\ UNCHANGED <<business, probe, fit, logsOnly, streak>>

-------------------------------------------------------------------------------
(* Measurements, verdicts and time                                         *)

New(ms) == [age |-> 0, ms |-> ms, used |-> FALSE]

(* A sync of the node's usage log finds newer requests of an account that  *)
(* is in scheduling.                                                       *)
Traffic(a, ms) ==
  /\ account[a].on
  /\ business[a].age > 0
  /\ business' = [business EXCEPT ![a] = New(ms)]
  /\ UNCHANGED <<account, probe, fit, logsOnly, pending, streak, events>>

TrafficStops(a) ==
  /\ business[a].age \in 1 .. Old - 1
  /\ business' = [business EXCEPT ![a] = None]
  /\ UNCHANGED <<account, probe, fit, logsOnly, pending, streak, events>>

(* A channel is probed while an account of it is slow or has no fresh      *)
(* business figure.                                                        *)
ProbeResult(a, ms) ==
  /\ account[a].state = "SLOW" \/ business[a].age > Fresh
  /\ probe[a].age > 0
  /\ probe' = [probe EXCEPT ![a] = New(ms)]
  /\ UNCHANGED <<account, business, fit, logsOnly, pending, streak, events>>

Older(m) == IF m.age + 1 >= Old THEN None ELSE [m EXCEPT !.age = @ + 1]

(* The scheduler evaluates every 15 seconds, so before a minute has gone by *)
(* whatever there is to see is seen.                                       *)
Tick ==
  LET later(t, end) == Smaller(t + 1, end)
  IN /\ \A a \in Account : Evidence(a) = "none" /\ ~Recovers(account[a])
     /\ account' = [a \in Account |->
           [account[a] EXCEPT !.at = later(@, Old), !.since = later(@, Hold)]]
     /\ business' = [a \in Account |-> Older(business[a])]
     /\ probe' = [a \in Account |-> Older(probe[a])]
     /\ UNCHANGED <<fit, logsOnly, pending, streak, events>>

FitnessChanges(a) ==
  /\ events < MaxEvents
  /\ events' = events + 1
  /\ fit' = [fit EXCEPT ![a] = ~@]
  /\ UNCHANGED <<account, business, probe, logsOnly, pending, streak>>

World(a) ==
  \/ \E ms \in Figures : Traffic(a, ms) \/ ProbeResult(a, ms)
  \/ TrafficStops(a)
  \/ FitnessChanges(a)

Next ==
  \/ Evaluate
  \/ \E a \in Account : \E q \in pending[a] : Execute(a, q) \/ ExecuteFails(a, q)
  \/ \E a \in Account : World(a)
  \/ Tick

Spec == Init /\ [][Next]_vars

(* The scheduler goes on, the node takes an action in the end and accounts *)
(* in scheduling get traffic.                                              *)
Fairness ==
  /\ WF_vars(Tick)
  /\ WF_vars(Evaluate)
  /\ \A a \in Account :
       /\ WF_vars(\E ms \in Figures : Traffic(a, ms))
       /\ WF_vars(\E q \in pending[a] : Execute(a, q))

FairSpec == Spec /\ Fairness

-------------------------------------------------------------------------------
(* An account becomes slow on BadLimit different measurements over the     *)
(* limit, one after the other, or on a severe one: evaluations that read   *)
(* the same measurement again never add up (worker.go:998-1075).           *)
SlowIsConfirmed ==
  [][\A a \in Account :
       account[a].state # "SLOW" /\ account'[a].state = "SLOW" =>
         \/ streak'[a].verdict = "severe"
         \/ streak'[a].verdict = "bad" /\ streak'[a].length >= BadLimit]_vars

(* A slow account returns to the normal ranking only after the hold and    *)
(* with GoodLimit different good measurements as its last ones, whether    *)
(* traffic, probes or both made them (worker.go:1005-1013).                *)
HoldLasts ==
  [][\A a \in Account :
       account[a].state = "SLOW" /\ account'[a].state # "SLOW" =>
         /\ account[a].since >= Hold
         /\ streak[a].verdict = "good"
         /\ streak[a].length >= GoodLimit]_vars

(* Liveness: a fit account that is measured fast from some time on has one *)
(* of the first priorities for good, whatever requests for it were still   *)
(* waiting or failed (worker.go:455-598).                                  *)
Fast(m) == m.age = Old \/ Judge(m.ms) = "good"

SlowIsLifted ==
  \A a \in Account :
    <>[](fit[a] /\ Fast(business[a]) /\ Fast(probe[a])) =>
      <>[](/\ account[a].state = "NORMAL"
           /\ account[a].on
           /\ ~account[a].fallback
           /\ account[a].priority < PriorityStart + PriorityStep * Cardinality(Account))

(* Liveness: when normal accounts and slow ones together do not exceed the *)
(* number the policy asks for, each slow one ends up recreated as a last   *)
(* resort, and serves (worker.go:1111-1180, 553-595).                      *)
AllNeeded ==
  Cardinality({b \in Account : fit[b] /\ account[b].state = "SLOW"})
    + Available(account) <= MinAvailable

LastResortServes ==
  \A a \in Account :
    <>[](fit[a] /\ account[a].state = "SLOW" /\ AllNeeded) =>
      <>[](/\ account[a].fallback
           /\ account[a].on
           /\ account[a].priority >= FallbackPriorityStart)

(* README.md:45: accounts whose speeds lie within 50 ms of each other are  *)
(* not ranked anew: the one that stands before the other stays there.      *)
NearSpeedsKeepTheirOrder ==
  \A a, b \in Account :
    (/\ fit[a] /\ account[a].state = "NORMAL" /\ HasScore(a)
     /\ fit[b] /\ account[b].state = "NORMAL" /\ HasScore(b)
     /\ Larger(Score(a), Score(b)) - Smaller(Score(a), Score(b)) < 50
     /\ account[a].priority < account[b].priority)
      => Planned(account, a) < Planned(account, b)

=============================================================================
