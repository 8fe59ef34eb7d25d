---------------------------- MODULE ChannelHealth ----------------------------
(***************************************************************************)
(* The health of one channel beside its capability gate.                   *)
(*                                                                         *)
(* A probe is a goroutine, started by the scheduler, by the operator or by *)
(* a quick validation.  It reads the row to learn which kind of probe the  *)
(* channel needs, samples the channel, and writes what it found in a       *)
(* transaction that reads the row again.  The operator holds and resumes   *)
(* the channel and marks its source; the policy reads the row to decide    *)
(* whether its accounts take part.                                         *)
(***************************************************************************)
EXTENDS QualityGate

CONSTANTS
  Prober,                \* goroutines that may probe the channel at once
  ConfirmationFailures,  \* confirmation_failures
  TransientFailures,     \* transient_confirmation_failures
  RecoverySamples,       \* recoverySuccessSamples
  MaxInputs,             \* bound: what happens to the channel from outside
  Births                 \* how the channel may have come into the database

ASSUME HealthAssumption ==
  /\ ConfirmationFailures \in Nat \ {0}
  /\ TransientFailures \in Nat
  /\ TransientFailures >= ConfirmationFailures
  /\ RecoverySamples \in Nat \ {0}
  /\ MaxInputs \in Nat
  /\ Check # {}

VARIABLES
  failures,  \* consecutive_failures, up to the larger threshold
  streak,    \* the successes the latest RECOVERY rows of probe_runs end with
  probed,    \* last_probe_at falls in this life of the process
  prober,    \* what each probing goroutine does
  inputs     \* how much has happened to the channel from outside

healthVars == <<failures, streak, probed, prober, inputs>>

vars == <<gateVars, failures, streak, probed, prober, inputs>>

-------------------------------------------------------------------------------
Smaller(a, b) == IF a < b THEN a ELSE b

IsSlow(ch) == ch.life = "QUARANTINED" /\ ch.reason = "slow"

Resting == [at |-> "idle", left |-> 0, managed |-> FALSE]

Ready(samples) == [at |-> "ready", left |-> samples, managed |-> FALSE]

NewRow == [life |-> "DISCOVERED", reason |-> "awaiting", required |-> TRUE,
           status |-> "PENDING", trigger |-> "NEW", override |-> FALSE]

OldRow(life, reason) == [life |-> life, reason |-> reason, required |-> FALSE,
                         status |-> "LEGACY", trigger |-> "", override |-> FALSE]

\* A channel is found by a scan, created with accounts by a deployment, or was
\* there before the gate; an earlier release may have left it quarantined for
\* being slow.
Init ==
  /\ \/ /\ "new" \in Births
        /\ channel = NewRow
        /\ scope \in {"none", "others", "openai"}
        /\ cleared = FALSE
        /\ \E c \in Check :
             check = [d \in Check |-> IF d = c THEN [at |-> "called", trigger |-> "NEW"]
                                      ELSE Idle]
     \/ /\ "old" \in Births
        /\ channel = OldRow("HEALTHY", "sampled")
        /\ scope = "openai"
        /\ cleared = TRUE
        /\ check = [c \in Check |-> Idle]
     \/ /\ "slow" \in Births
        /\ channel = OldRow("QUARANTINED", "slow")
        /\ scope = "openai"
        /\ cleared = TRUE
        /\ check = [c \in Check |-> Idle]
  /\ lastRun = ""
  /\ source = [active |-> TRUE, trusted |-> TRUE]
  /\ logsOnly = FALSE
  /\ reserved = FALSE
  /\ failures = 0
  /\ streak = 0
  /\ probed = FALSE
  /\ prober = [p \in Prober |-> Resting]
  /\ inputs = 0

-------------------------------------------------------------------------------
(* Probes. *)

\* By the scheduler, when it is due, or by the operator, whatever its state.
Probe(p) ==
  /\ prober[p] = Resting
  /\ prober' = [prober EXCEPT ![p] = Ready(1)]
  /\ UNCHANGED <<gateVars, failures, streak, probed>>

\* A quick validation samples a slow channel as often as its recovery needs.
QuickValidation(p) ==
  /\ "validate" \in Inputs
  /\ prober[p] = Resting
  /\ channel.life # "MANUAL_HOLD"
  /\ prober' = [prober EXCEPT ![p] = Ready(IF IsSlow(channel) THEN RecoverySamples ELSE 1)]
  /\ UNCHANGED <<gateVars, failures, streak, probed>>

Read(p) ==
  /\ prober[p].at = "ready"
  /\ prober' = [prober EXCEPT ![p] =
       IF channel.life = "MANUAL_HOLD" THEN Resting
       ELSE IF IsSlow(channel) /\ ~OwnsHealth(channel) THEN [@ EXCEPT !.at = "slow"]
       ELSE [@ EXCEPT !.at = "plain", !.managed = scope # "none"]]
  /\ UNCHANGED <<gateVars, failures, streak, probed>>

\* Mutant: one sample too many.
GoOnOnce(p, ok) ==
  prober' = [prober EXCEPT ![p] =
    IF ok /\ IsSlow(channel') THEN Ready(@.left - 1) ELSE Resting]

\* A validation goes on while the channel is slow and its samples do not fail.
GoOn(p, ok) ==
  prober' = [prober EXCEPT ![p] =
    IF ok /\ @.left > 1 /\ IsSlow(channel') THEN Ready(@.left - 1) ELSE Resting]

\* The states a plain probe leaves to the gate, to the operator and to the
\* business logs: there it restores, and never takes away.
LeftAlone == channel.life = "MANUAL_HOLD" \/ OwnsHealth(channel) \/ logsOnly

\* Mutant: a success restores a held channel, too.
RestoredEvenHeld == [channel EXCEPT !.life = "HEALTHY", !.reason = "sampled"]

Healthy ==
  IF channel.life = "MANUAL_HOLD" THEN channel
  ELSE [channel EXCEPT !.life = "HEALTHY", !.reason = "sampled"]

\* Failures of an earlier life of the process do not count for a managed channel.
ManagedFailures ==
  IF ~probed THEN 1 ELSE Smaller(failures + 1, TransientFailures)

Threshold(outcome) ==
  IF outcome = "transient" THEN TransientFailures ELSE ConfirmationFailures

Samples(managed) ==
  IF managed THEN {"ok", "skipped", "transient", "error", "isolating"}
  ELSE {"ok", "transient", "error", "confirmed"}

\* A managed channel is isolated at once or after several failures; before, it
\* is healthy.
ManagedFails(outcome) ==
  /\ failures' = ManagedFailures
  /\ channel' = [channel EXCEPT
       !.reason = IF outcome = "error" THEN "other" ELSE outcome,
       !.life = IF \/ @ = "QUARANTINED"
                   \/ outcome = "isolating"
                   \/ ManagedFailures >= Threshold(outcome)
                THEN "QUARANTINED" ELSE "HEALTHY"]

\* Of an unmanaged channel the business metrics may confirm the failure.
UnmanagedFails(outcome) ==
  LET count == Smaller(failures + 1, TransientFailures) IN
  /\ failures' = count
  /\ channel' = [channel EXCEPT
       !.reason = IF outcome = "transient" THEN outcome ELSE "other",
       !.life = IF outcome = "confirmed" \/ count >= Threshold(outcome)
                THEN "QUARANTINED" ELSE "SUSPECT"]

PlainEnds(p, outcome) ==
  /\ prober[p].at = "plain"
  /\ outcome \in Samples(prober[p].managed)
  /\ IF outcome = "ok" \/ (outcome = "skipped" /\ LeftAlone)
     THEN /\ channel' = Healthy
          /\ failures' = IF channel.life = "MANUAL_HOLD" THEN failures ELSE 0
     ELSE IF outcome = "skipped" \/ LeftAlone THEN UNCHANGED <<channel, failures>>
     ELSE IF prober[p].managed THEN ManagedFails(outcome)
     ELSE UnmanagedFails(outcome)
  /\ probed' = IF outcome \in {"ok", "skipped"} /\ channel.life = "MANUAL_HOLD"
               THEN probed ELSE TRUE
  /\ GoOn(p, outcome \in {"ok", "skipped"})
  /\ UNCHANGED <<lastRun, source, scope, logsOnly, reserved, check, cleared, streak>>

\* A slow channel recovers after several good samples in a row.
SlowEnds(p, outcome) ==
  /\ prober[p].at = "slow"
  /\ probed' = TRUE
  /\ LET run       == IF outcome = "ok" THEN Smaller(streak + 1, RecoverySamples) ELSE 0
         recovered == outcome = "ok" /\ run >= RecoverySamples IN
     IF outcome = "unavailable" THEN UNCHANGED <<channel, failures, streak>>
     ELSE /\ streak' = run
          /\ IF recovered
             THEN /\ channel' = [channel EXCEPT !.life = "HEALTHY", !.reason = "slow"]
                  /\ failures' = 0
             ELSE IF LeftAlone THEN UNCHANGED <<channel, failures>>
             ELSE /\ channel' = [channel EXCEPT !.life = "QUARANTINED", !.reason = "slow"]
                  /\ failures' = IF outcome = "ok" THEN 0
                                 ELSE Smaller(failures + 1, TransientFailures)
  /\ GoOn(p, outcome # "bad")
  /\ UNCHANGED <<lastRun, source, scope, logsOnly, reserved, check, cleared>>

-------------------------------------------------------------------------------
(* The operator. *)

Hold ==
  /\ "hold" \in Inputs
  /\ channel' = [channel EXCEPT !.life = "MANUAL_HOLD", !.reason = "other"]
  /\ UNCHANGED <<lastRun, source, scope, logsOnly, reserved, check, cleared,
                 failures, streak, probed, prober>>

\* The channel is validated anew, unless the gate blocks it.
Resume ==
  /\ "hold" \in Inputs
  /\ ~BlocksScheduling(channel) \/ logsOnly
  /\ channel' = [channel EXCEPT !.life = "VALIDATING", !.reason = "other"]
  /\ failures' = 0
  /\ \E p \in Prober : prober[p] = Resting /\ prober' = [prober EXCEPT ![p] = Ready(1)]
  /\ UNCHANGED <<lastRun, source, scope, logsOnly, reserved, check, cleared,
                 streak, probed>>

\* Marking the source holds all of its channels; unmarking it sets them back.
Untrust ==
  /\ "trust" \in Inputs
  /\ source' = [source EXCEPT !.trusted = FALSE]
  /\ channel' = [channel EXCEPT !.life = "MANUAL_HOLD", !.reason = "other"]
  /\ UNCHANGED <<lastRun, scope, logsOnly, reserved, check, cleared,
                 failures, streak, probed, prober>>

Trust ==
  /\ "trust" \in Inputs
  /\ source' = [source EXCEPT !.trusted = TRUE]
  /\ channel' = [channel EXCEPT !.life = "DISCOVERED", !.reason = "other"]
  /\ failures' = 0
  /\ probed' = FALSE
  /\ UNCHANGED <<lastRun, scope, logsOnly, reserved, check, cleared, streak, prober>>

Restart ==
  /\ "restart" \in Inputs
  /\ RestartGate
  /\ prober' = [p \in Prober |-> Resting]
  /\ probed' = FALSE
  /\ UNCHANGED <<failures, streak>>

-------------------------------------------------------------------------------
(* What the policy makes of the row. *)

Limit == Threshold(channel.reason)

Unconfirmed == ~logsOnly /\ failures > 0 /\ failures < Limit

ProbesBlock ==
  /\ ~logsOnly
  /\ \/ channel.reason = "isolating"
     \/ failures >= Limit /\ channel.reason # "sampled"

\* The channel's part of policyRejectionReasons.
Rejected ==
  \/ ~source.active \/ ~source.trusted
  \/ BlocksScheduling(channel) /\ ~logsOnly
  \/ /\ channel.life # "HEALTHY"
     /\ ~Unconfirmed
     /\ ~logsOnly \/ channel.life = "MANUAL_HOLD"
  \/ ProbesBlock

-------------------------------------------------------------------------------
GateStep ==
  /\ (\E c \in Check : CheckStep(c)) \/ Reconcile
  /\ UNCHANGED healthVars

ProbeStep(p) ==
  \/ Probe(p)
  \/ Read(p)
  \/ \E outcome \in {"ok", "skipped", "transient", "error", "isolating", "confirmed"} :
       PlainEnds(p, outcome)
  \/ \E outcome \in {"ok", "bad", "unavailable"} : SlowEnds(p, outcome)

Input ==
  \/ GateInput /\ UNCHANGED <<failures, streak, probed, prober>>
  \/ \E p \in Prober : QuickValidation(p)
  \/ Hold
  \/ Resume
  \/ Untrust
  \/ Trust
  \/ Restart

Next ==
  \/ GateStep
  \/ (\E p \in Prober : ProbeStep(p)) /\ UNCHANGED inputs
  \/ Input /\ inputs < MaxInputs /\ inputs' = inputs + 1

Spec == Init /\ [][Next]_vars

\* Started checks go on and end (their requests have timeouts), and scans
\* reconcile again and again.  What comes from outside is not fair.
FairSpec ==
  /\ Spec
  /\ \A c \in Check : WF_vars(CheckStep(c) /\ UNCHANGED healthVars)
  /\ WF_vars(Reconcile /\ UNCHANGED healthVars)

-------------------------------------------------------------------------------
(* Properties. *)

\* Every variable keeps its type.
HealthTypeOK ==
  /\ channel \in [life : Life, reason : Reason, required : BOOLEAN, status : Status,
                  trigger : Trigger, override : BOOLEAN]
  /\ lastRun \in Verdicts \cup {""}
  /\ source \in [active : BOOLEAN, trusted : BOOLEAN]
  /\ scope \in {"none", "others", "openai"}
  /\ logsOnly \in BOOLEAN /\ reserved \in BOOLEAN /\ cleared \in BOOLEAN
  /\ check \in [Check -> [at : {"idle", "called", "admitted", "queued", "running"},
                          trigger : Trigger]]
  /\ failures \in 0..TransientFailures
  /\ streak \in 0..RecoverySamples
  /\ probed \in BOOLEAN
  /\ prober \in [Prober -> [at : {"idle", "ready", "plain", "slow"},
                            left : 0..RecoverySamples, managed : BOOLEAN]]
  /\ inputs \in 0..MaxInputs

\* A row that says a check runs has one: neither a restart nor a store that
\* fails leaves RUNNING behind, which no later check could leave.
RunningHasCheck ==
  channel.status = "RUNNING" => \E c \in Check : check[c].at = "running"

\* At most one check of a channel is queued or runs, however many are asked for
\* by the operator, a scan and a restart, and it holds the reservation.
OneCheck ==
  LET active == {c \in Check : check[c].at \in {"queued", "running"}} IN
  /\ \A c, d \in active : c = d
  /\ reserved <=> active # {}

\* A channel that needs a check takes no part in the production before it has
\* passed or skipped one, whatever probes, resumptions, restarts, changed
\* mappings and checks that end late have made of its row.
NewChannelsAreGated ==
  ~Rejected /\ ~logsOnly /\ ~channel.override => cleared

\* An operator's hold is left when the operator resumes the channel or trusts
\* its source again.  (The one probe that leaves it, too, is that of a channel
\* an earlier release has quarantined for being slow.)
HoldYields ==
  [][channel.life = "MANUAL_HOLD" /\ channel'.life # "MANUAL_HOLD" =>
       Resume \/ Trust \/ \E p \in Prober : prober[p].at = "slow"]_vars

\* A channel that has failed its check stays out while a rerun is in flight.
RerunHoldsBack ==
  [][Rejected /\ channel.status = "FAILED" /\ channel'.status \in {"PENDING", "RUNNING"}
       => Rejected']_vars

\* An operator's hold keeps the channel out of the production.
HeldIsRejected == channel.life = "MANUAL_HOLD" => Rejected

\* A new channel that is mapped to an OpenAI group for good, with a source that
\* stays usable, is checked.
MappedIsChecked ==
  <>[](scope = "openai" /\ source.active /\ source.trusted /\ ~logsOnly /\ ~channel.override)
    => []<>(channel.status # "PENDING")
===============================================================================
