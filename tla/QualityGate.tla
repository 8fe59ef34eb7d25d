----------------------------- MODULE QualityGate -----------------------------
(***************************************************************************)
(* The model capability gate of one channel.                               *)
(*                                                                         *)
(* A check is a goroutine: it is called for a new channel or by the        *)
(* operator, admitted after a look at the source and at the target groups  *)
(* the channel is mapped to, reserves the channel in memory and queues     *)
(* itself in the row, starts when a slot is free, and writes its verdict.  *)
(* Beside it the mapping, the source and the settings change, scans        *)
(* reconcile the gate with the mapping, the operator overrides it, and the *)
(* process restarts.                                                       *)
(*                                                                         *)
(* The verdict of a run is one that module QualityProbe produces.          *)
(***************************************************************************)
EXTENDS Naturals, FiniteSets

CONSTANTS
  Check,   \* goroutines that may start or run a check of the channel at once
  Inputs,  \* what may happen to the channel from outside, besides the checks
  Faults   \* the statements of a check that may fail

VARIABLES
  channel,   \* lifecycle and gate columns of the row of channels
  lastRun,   \* the latest row of model_check_runs
  source,    \* sources.status = 'ACTIVE' and sources.manually_untrusted
  scope,     \* the target groups its accounts are in: none, others, an OpenAI one
  logsOnly,  \* the setting business_logs_only
  reserved,  \* modelQualityRunning has the channel
  check,     \* what each goroutine does
  cleared    \* since it last needed a check, it has passed or skipped one

gateVars == <<channel, lastRun, source, scope, logsOnly, reserved, check, cleared>>

-------------------------------------------------------------------------------
(* The row. *)

Life == {"DISCOVERED", "VALIDATING", "HEALTHY", "SUSPECT", "QUARANTINED", "MANUAL_HOLD"}

\* What the code recognises in the reason of a lifecycle state.
Reason == {"awaiting", "failed", "forced", "sampled", "slow", "transient", "isolating",
           "other"}

Status == {"LEGACY", "PENDING", "RUNNING", "PASSED", "FAILED", "UNKNOWN", "SKIPPED"}

Trigger == {"", "NEW", "MANUAL"}

Verdicts == {"PASSED", "FAILED", "UNKNOWN"}

\* A lifecycle state the gate has put the channel in.
LifecycleHeld(ch) ==
  \/ ch.life = "QUARANTINED" /\ ch.reason = "failed"
  \/ ch.life \in {"DISCOVERED", "VALIDATING"} /\ ch.reason = "awaiting"

OwnsHealth(ch) ==
  /\ ~ch.override
  /\ ch.status # "PASSED"
  /\ ch.life # "MANUAL_HOLD"
  /\ ch.required \/ ch.status = "FAILED" \/ LifecycleHeld(ch)

BlocksScheduling(ch) ==
  /\ ~ch.override
  /\ IF ch.required THEN ch.status # "PASSED" ELSE ch.status = "FAILED"

\* A channel none of whose target groups is an OpenAI one is released.
Skipped(ch) ==
  IF ch.status = "RUNNING" THEN ch
  ELSE LET released == ch.life # "MANUAL_HOLD" /\ ch.reason \in {"awaiting", "failed"} IN
       [ch EXCEPT !.required = FALSE, !.status = "SKIPPED", !.trigger = "",
                  !.life   = IF released THEN "VALIDATING" ELSE @,
                  !.reason = IF released THEN "other" ELSE @]

\* Mutant: any verdict ends the requirement.
RequiredAfterAny(required, verdict) == FALSE

RequiredAfter(required, verdict) == required /\ verdict # "PASSED"

\* A verdict writes the gate's columns, and the lifecycle where the gate holds it.
Judged(ch, trigger, verdict) ==
  LET judged == [ch EXCEPT !.required = RequiredAfter(@, verdict),
                           !.status = verdict, !.trigger = trigger] IN
  IF ch.override \/ ch.life = "MANUAL_HOLD" THEN judged
  ELSE IF verdict = "FAILED"
    THEN [judged EXCEPT !.life = "QUARANTINED", !.reason = "failed"]
  ELSE IF verdict = "PASSED" /\ LifecycleHeld(ch)
    THEN [judged EXCEPT !.life = "VALIDATING", !.reason = "other"]
  ELSE judged

\* An override releases the lifecycle the gate holds; taking it back restores it
\* from the latest run.
Forced(ch) ==
  IF LifecycleHeld(ch)
  THEN [ch EXCEPT !.override = TRUE, !.life = "VALIDATING", !.reason = "forced"]
  ELSE [ch EXCEPT !.override = TRUE]

Restored(ch, run) ==
  LET actual == IF run = "" THEN ch.status ELSE run
      back   == [ch EXCEPT !.override = FALSE] IN
  IF ch.life = "MANUAL_HOLD" THEN back
  ELSE IF ch.required /\ actual \notin {"PASSED", "FAILED"}
    THEN [back EXCEPT !.life = "DISCOVERED", !.reason = "awaiting"]
  ELSE IF ch.reason # "forced" /\ actual # "FAILED" /\ ~LifecycleHeld(ch) THEN back
  ELSE CASE actual = "FAILED" -> [back EXCEPT !.life = "QUARANTINED", !.reason = "failed"]
         [] actual = "PASSED" -> [back EXCEPT !.life = "VALIDATING", !.reason = "other"]
         [] OTHER             -> [back EXCEPT !.life = "DISCOVERED", !.reason = "awaiting"]

-------------------------------------------------------------------------------
(* The checks. *)

Idle == [at |-> "idle", trigger |-> ""]

Called(c, trigger) ==
  /\ check[c] = Idle
  /\ check' = [check EXCEPT ![c] = [at |-> "called", trigger |-> trigger]]

\* The automatic check of new channels, which the setting switches off.
QueueNew ==
  IF logsOnly THEN UNCHANGED check ELSE \E c \in Check : Called(c, "NEW")

ManualCheck ==
  /\ "check" \in Inputs
  /\ \E c \in Check : Called(c, "MANUAL")
  /\ UNCHANGED <<channel, lastRun, source, scope, logsOnly, reserved, cleared>>

\* A start reads the source, the override and the mapping.  An unmapped new
\* channel stays PENDING.
Refused(trigger) ==
  \/ ~source.active
  \/ trigger = "NEW" /\ (~source.trusted \/ channel.override)
  \/ scope = "none"
  \/ scope = "others" /\ trigger = "MANUAL"

Admit(c) ==
  /\ check[c].at = "called"
  /\ LET trigger == check[c].trigger
         skips == ~Refused(trigger) /\ scope = "others" IN
     /\ check' = [check EXCEPT ![c] = IF Refused(trigger) \/ skips THEN Idle
                                      ELSE [@ EXCEPT !.at = "admitted"]]
     /\ channel' = IF skips THEN Skipped(channel) ELSE channel
     /\ cleared' = (cleared \/ (skips /\ channel.status # "RUNNING"))
  /\ UNCHANGED <<lastRun, source, scope, logsOnly, reserved>>

\* The conditions of the statement that queues a check in the row.
Startable(trigger) ==
  /\ channel.status # "RUNNING"
  /\ trigger = "NEW" => /\ channel.required
                        /\ channel.status = "PENDING"
                        /\ channel.trigger \in {"", "NEW"}
                        /\ ~channel.override
                        /\ source.trusted

\* Mutant: the reservation is not tested.
EnqueueAnyway(c) ==
  /\ check[c].at = "admitted"
  /\ IF Startable(check[c].trigger)
     THEN /\ reserved' = TRUE
          /\ channel' = [channel EXCEPT !.status = "PENDING", !.trigger = check[c].trigger]
          /\ check' = [check EXCEPT ![c].at = "queued"]
     ELSE check' = [check EXCEPT ![c] = Idle] /\ UNCHANGED <<reserved, channel>>
  /\ UNCHANGED <<lastRun, source, scope, logsOnly, cleared>>

Enqueue(c) ==
  /\ check[c].at = "admitted"
  /\ IF ~reserved /\ Startable(check[c].trigger)
     THEN /\ reserved' = TRUE
          /\ channel' = [channel EXCEPT !.status = "PENDING", !.trigger = check[c].trigger]
          /\ check' = [check EXCEPT ![c].at = "queued"]
     ELSE check' = [check EXCEPT ![c] = Idle] /\ UNCHANGED <<reserved, channel>>
  /\ UNCHANGED <<lastRun, source, scope, logsOnly, cleared>>

\* The row still is what the check has queued.
Runnable(trigger) ==
  /\ channel.status = "PENDING"
  /\ channel.trigger = trigger
  /\ source.active
  /\ trigger = "NEW" => channel.required /\ ~channel.override /\ source.trusted

\* A check that ends gives its reservation back.
End(c) ==
  /\ check' = [check EXCEPT ![c] = Idle]
  /\ reserved' = FALSE

Begin(c) ==
  /\ check[c].at = "queued"
  /\ IF Runnable(check[c].trigger)
     THEN /\ channel' = [channel EXCEPT !.status = "RUNNING"]
          /\ check' = [check EXCEPT ![c].at = "running"]
          /\ UNCHANGED reserved
     ELSE End(c) /\ UNCHANGED channel
  /\ UNCHANGED <<lastRun, source, scope, logsOnly, cleared>>

BeginFails(c) ==
  /\ "begin" \in Faults
  /\ check[c].at = "queued"
  /\ channel' = IF channel.status = "PENDING" /\ channel.trigger = check[c].trigger
                THEN [channel EXCEPT !.status = "UNKNOWN"] ELSE channel
  /\ End(c)
  /\ UNCHANGED <<lastRun, source, scope, logsOnly, cleared>>

Finish(c, verdict) ==
  /\ check[c].at = "running"
  /\ channel' = Judged(channel, check[c].trigger, verdict)
  /\ lastRun' = verdict
  /\ cleared' = (cleared \/ verdict = "PASSED")
  /\ End(c)
  /\ UNCHANGED <<source, scope, logsOnly>>

\* The result cannot be stored; the row is not left RUNNING.
FinishFails(c) ==
  /\ "finish" \in Faults
  /\ check[c].at = "running"
  /\ channel' = IF channel.status = "RUNNING"
                THEN [channel EXCEPT !.status = "UNKNOWN"] ELSE channel
  /\ End(c)
  /\ UNCHANGED <<lastRun, source, scope, logsOnly, cleared>>

-------------------------------------------------------------------------------
(* What happens beside the checks. *)

\* After every scan, target synchronisation and change of the mapping.
Reconcile ==
  /\ scope # "none"
  /\ IF scope = "others"
     THEN /\ channel' = Skipped(channel)
          /\ cleared' = (cleared \/ channel.status # "RUNNING")
          /\ UNCHANGED check
     ELSE /\ channel.status = "SKIPPED"
          /\ ~channel.override
          /\ channel' = [channel EXCEPT !.required = TRUE, !.status = "PENDING",
                                        !.trigger = "NEW"]
          /\ QueueNew
          /\ cleared' = FALSE
  /\ UNCHANGED <<lastRun, source, scope, logsOnly, reserved>>

Remap(s) ==
  /\ "map" \in Inputs
  /\ scope # s
  /\ scope' = s
  /\ UNCHANGED <<channel, lastRun, source, logsOnly, reserved, check, cleared>>

\* A scan finds the source unusable, or usable again.
SourceTurns ==
  /\ "source" \in Inputs
  /\ source' = [source EXCEPT !.active = ~@]
  /\ UNCHANGED <<channel, lastRun, scope, logsOnly, reserved, check, cleared>>

SetLogsOnly ==
  /\ "settings" \in Inputs
  /\ logsOnly' = ~logsOnly
  /\ UNCHANGED <<channel, lastRun, source, scope, reserved, check, cleared>>

SetOverride ==
  /\ "override" \in Inputs
  /\ channel' = IF channel.override THEN Restored(channel, lastRun) ELSE Forced(channel)
  /\ UNCHANGED <<lastRun, source, scope, logsOnly, reserved, check, cleared>>

\* Mutant: the rows of interrupted checks stay as they are.
RestartedAsItWas(ch) == ch

\* The migrations that every start of the process runs over the row.
Restarted(ch) ==
  LET marked == IF /\ ~ch.required
                   /\ ch.status \in {"PENDING", "RUNNING"}
                   /\ ch.reason = "awaiting"
                THEN [ch EXCEPT !.required = TRUE,
                                !.trigger = IF @ = "" THEN "NEW" ELSE @]
                ELSE ch
      ended  == IF \/ marked.status = "PENDING" /\ marked.trigger = "MANUAL"
                   \/ marked.status = "RUNNING"
                THEN [marked EXCEPT !.status = "UNKNOWN"] ELSE marked
      eased  == [ended EXCEPT !.required = @ /\ ended.status # "PASSED"] IN
  IF scope = "others" THEN Skipped(eased) ELSE eased

\* The goroutines are gone; a new channel's check that has not started is
\* called again.
Pending(ch) ==
  /\ ch.required
  /\ ch.status = "PENDING"
  /\ ch.trigger \in {"", "NEW"}
  /\ source.active
  /\ source.trusted

RestartGate ==
  /\ channel' = Restarted(channel)
  /\ cleared' = (cleared \/ scope = "others")
  /\ reserved' = FALSE
  /\ LET none == [c \in Check |-> Idle] IN
     IF Pending(Restarted(channel)) /\ ~logsOnly
     THEN \E c \in Check : check' = [none EXCEPT ![c] = [at |-> "called", trigger |-> "NEW"]]
     ELSE check' = none
  /\ UNCHANGED <<lastRun, source, scope, logsOnly>>

CheckStep(c) ==
  \/ Admit(c)
  \/ Enqueue(c)
  \/ Begin(c)
  \/ BeginFails(c)
  \/ \E verdict \in Verdicts : Finish(c, verdict)
  \/ FinishFails(c)

GateInput ==
  \/ ManualCheck
  \/ \E s \in {"none", "others", "openai"} : Remap(s)
  \/ SourceTurns
  \/ SetLogsOnly
  \/ SetOverride
===============================================================================
