------------------------- MODULE ChannelHealth_proofs -------------------------
(***************************************************************************)
(* Proofs about ChannelHealth, for any number of checks and probes of the  *)
(* channel, any thresholds and any number of inputs.                       *)
(***************************************************************************)
EXTENDS ChannelHealth, TLAPS

Row == [life : Life, reason : Reason, required : BOOLEAN, status : Status,
        trigger : Trigger, override : BOOLEAN]

At == {"idle", "called", "admitted", "queued", "running"}

CheckState == [at : At, trigger : Trigger]

ProberState == [at : {"idle", "ready", "plain", "slow"}, left : 0 .. RecoverySamples,
                managed : BOOLEAN]

(* Since it last needed a check and before it has passed or skipped one,   *)
(* the row requires a check and says that none was passed.                 *)
Pledged == ~cleared => channel.required /\ channel.status # "PASSED"

Active == {"queued", "running"}

(* OneCheck, spelled out.                                                  *)
Exclusive ==
  /\ \A c, d \in Check : check[c].at \in Active /\ check[d].at \in Active => c = d
  /\ reserved => \E c \in Check : check[c].at \in Active
  /\ ~reserved => \A c \in Check : check[c].at \notin Active

GateTypes ==
  /\ channel \in Row
  /\ lastRun \in Verdicts \cup {""}
  /\ source \in [active : BOOLEAN, trusted : BOOLEAN]
  /\ scope \in {"none", "others", "openai"}
  /\ logsOnly \in BOOLEAN /\ reserved \in BOOLEAN /\ cleared \in BOOLEAN
  /\ check \in [Check -> CheckState]

HealthTypes ==
  /\ failures \in 0 .. TransientFailures
  /\ streak \in 0 .. RecoverySamples
  /\ probed \in BOOLEAN
  /\ prober \in [Prober -> ProberState]

GateInv == GateTypes /\ RunningHasCheck /\ Exclusive /\ Pledged

IInv == GateInv /\ HealthTypes /\ inputs \in 0 .. MaxInputs

-------------------------------------------------------------------------------
(* What the operators of the gate make of a row.                           *)

LEMMA Strings ==
  /\ "VALIDATING" \in Life /\ "QUARANTINED" \in Life /\ "DISCOVERED" \in Life
  /\ "HEALTHY" \in Life /\ "SUSPECT" \in Life /\ "MANUAL_HOLD" \in Life
  /\ "other" \in Reason /\ "failed" \in Reason /\ "awaiting" \in Reason
  /\ "forced" \in Reason /\ "sampled" \in Reason /\ "slow" \in Reason
  /\ "transient" \in Reason /\ "isolating" \in Reason
  /\ "SKIPPED" \in Status /\ "PENDING" \in Status /\ "UNKNOWN" \in Status
  /\ "RUNNING" \in Status /\ "LEGACY" \in Status
  /\ "" \in Trigger /\ "NEW" \in Trigger /\ "MANUAL" \in Trigger
  /\ Verdicts \subseteq Status
BY DEF Life, Reason, Status, Trigger, Verdicts

(* A skipped row is one that has not been RUNNING, and a hold stays.       *)
LEMMA SkippedRow ==
  ASSUME NEW ch \in Row
  PROVE  /\ Skipped(ch) \in Row
         /\ ch.status = "RUNNING" => Skipped(ch) = ch
         /\ ch.status # "RUNNING" => Skipped(ch).status = "SKIPPED"
         /\ ch.life = "MANUAL_HOLD" => Skipped(ch).life = "MANUAL_HOLD"
<1>1. Skipped(ch) \in Row
  BY Strings, Zenon DEF Skipped, Row
<1>2. ch.status = "RUNNING" => Skipped(ch) = ch
  BY Zenon DEF Skipped
<1>3. ch.status # "RUNNING" => Skipped(ch).status = "SKIPPED"
  BY Zenon DEF Skipped, Row
<1>4. ch.life = "MANUAL_HOLD" => Skipped(ch).life = "MANUAL_HOLD"
  BY Zenon DEF Skipped, Row
<1>5. QED
  BY <1>1, <1>2, <1>3, <1>4

(* A verdict is stored as it is; the requirement ends with PASSED only.    *)
LEMMA JudgedRow ==
  ASSUME NEW ch \in Row, NEW trigger \in Trigger, NEW verdict \in Verdicts
  PROVE  /\ Judged(ch, trigger, verdict) \in Row
         /\ Judged(ch, trigger, verdict).status = verdict
         /\ verdict # "PASSED" => Judged(ch, trigger, verdict).required = ch.required
         /\ ch.life = "MANUAL_HOLD" => Judged(ch, trigger, verdict).life = "MANUAL_HOLD"
<1> DEFINE judged == [ch EXCEPT !.required = RequiredAfter(@, verdict),
                                !.status = verdict, !.trigger = trigger]
<1>1. judged \in Row
  BY Strings, Zenon DEF Row, RequiredAfter
<1>2. judged.status = verdict /\ judged.life = ch.life
  BY Zenon DEF Row
<1>3. verdict # "PASSED" => judged.required = ch.required
  BY Zenon DEF Row, RequiredAfter
<1>4. Judged(ch, trigger, verdict) =
        IF ch.override \/ ch.life = "MANUAL_HOLD" THEN judged
        ELSE IF verdict = "FAILED"
          THEN [judged EXCEPT !.life = "QUARANTINED", !.reason = "failed"]
        ELSE IF verdict = "PASSED" /\ LifecycleHeld(ch)
          THEN [judged EXCEPT !.life = "VALIDATING", !.reason = "other"]
        ELSE judged
  BY Zenon DEF Judged
<1>5. QED
  <2> HIDE DEF judged
  <2>1. Judged(ch, trigger, verdict) \in Row
    BY <1>1, <1>4, Strings, Zenon DEF Row
  <2>2. /\ Judged(ch, trigger, verdict).status = judged.status
        /\ Judged(ch, trigger, verdict).required = judged.required
    BY <1>1, <1>4, Zenon DEF Row
  <2>3. ch.life = "MANUAL_HOLD" => Judged(ch, trigger, verdict) = judged
    BY <1>4, Zenon
  <2>4. QED
    BY <1>2, <1>3, <2>1, <2>2, <2>3

(* An override, and taking it back, leave status and requirement alone.    *)
LEMMA ForcedRow ==
  ASSUME NEW ch \in Row
  PROVE  /\ Forced(ch) \in Row
         /\ Forced(ch).status = ch.status
         /\ Forced(ch).required = ch.required
         /\ ch.life = "MANUAL_HOLD" => Forced(ch).life = "MANUAL_HOLD"
<1>1. Forced(ch) \in Row
  BY Strings, Zenon DEF Forced, Row
<1>2. Forced(ch).status = ch.status /\ Forced(ch).required = ch.required
  BY Zenon DEF Forced, Row
<1>3. ch.life = "MANUAL_HOLD" => Forced(ch).life = "MANUAL_HOLD"
  BY DEF Forced, LifecycleHeld, Row
<1>4. QED
  BY <1>1, <1>2, <1>3

LEMMA RestoredRow ==
  ASSUME NEW ch \in Row, NEW run
  PROVE  /\ Restored(ch, run) \in Row
         /\ Restored(ch, run).status = ch.status
         /\ Restored(ch, run).required = ch.required
         /\ ch.life = "MANUAL_HOLD" => Restored(ch, run).life = "MANUAL_HOLD"
<1> DEFINE back == [ch EXCEPT !.override = FALSE]
<1>1. /\ back \in Row /\ back.status = ch.status /\ back.required = ch.required
      /\ back.life = ch.life
  BY Zenon DEF Row
<1>2. /\ Restored(ch, run) \in
           {back, [back EXCEPT !.life = "DISCOVERED", !.reason = "awaiting"],
            [back EXCEPT !.life = "QUARANTINED", !.reason = "failed"],
            [back EXCEPT !.life = "VALIDATING", !.reason = "other"]}
      /\ ch.life = "MANUAL_HOLD" => Restored(ch, run) = back
  BY Zenon DEF Restored
<1>3. QED
  <2> HIDE DEF back
  <2>1. Restored(ch, run) \in Row
    BY <1>1, <1>2, Strings, Zenon DEF Row
  <2>2. Restored(ch, run).status = back.status /\ Restored(ch, run).required = back.required
    BY <1>1, <1>2, Zenon DEF Row
  <2>3. QED
    BY <1>1, <1>2, <2>1, <2>2, Zenon

(* After a restart no check runs, and a requirement without a pass stays,  *)
(* unless the channel is skipped.                                          *)
LEMMA RestartedRow ==
  ASSUME NEW ch \in Row
  PROVE  /\ Restarted(ch) \in Row
         /\ Restarted(ch).status # "RUNNING"
         /\ scope # "others" /\ ch.required /\ ch.status # "PASSED" =>
              Restarted(ch).required /\ Restarted(ch).status # "PASSED"
         /\ ch.life = "MANUAL_HOLD" => Restarted(ch).life = "MANUAL_HOLD"
<1> DEFINE marked == IF /\ ~ch.required
                        /\ ch.status \in {"PENDING", "RUNNING"}
                        /\ ch.reason = "awaiting"
                     THEN [ch EXCEPT !.required = TRUE,
                                     !.trigger = IF @ = "" THEN "NEW" ELSE @]
                     ELSE ch
           ended  == IF \/ marked.status = "PENDING" /\ marked.trigger = "MANUAL"
                        \/ marked.status = "RUNNING"
                     THEN [marked EXCEPT !.status = "UNKNOWN"] ELSE marked
           eased  == [ended EXCEPT !.required = @ /\ ended.status # "PASSED"]
<1>1. marked \in Row
  BY Strings, Zenon DEF Row
<1>2. /\ ch.required => marked = ch
      /\ marked.life = ch.life
  BY Zenon DEF Row
<1>3. ended \in Row
  <2> HIDE DEF marked
  <2> QED BY <1>1, Strings, Zenon DEF Row
<1>4. /\ ended.status # "RUNNING"
      /\ ended.required = marked.required /\ ended.life = marked.life
      /\ marked.status # "PASSED" => ended.status # "PASSED"
  <2> HIDE DEF marked
  <2> QED BY <1>1 DEF Row
<1>5. eased \in Row
  <2> HIDE DEF ended
  <2> QED BY <1>3, Zenon DEF Row
<1>6. /\ eased.status = ended.status /\ eased.life = ended.life
      /\ ended.status # "PASSED" => eased.required = ended.required
  <2> HIDE DEF ended
  <2> QED BY <1>3, Zenon DEF Row
<1>7. Restarted(ch) = IF scope = "others" THEN Skipped(eased) ELSE eased
  BY Zenon DEF Restarted
<1>8. QED
  <2> HIDE DEF marked, ended, eased
  <2> QED BY <1>2, <1>4, <1>5, <1>6, <1>7, SkippedRow

-------------------------------------------------------------------------------
(* The parts of the invariant.                                             *)

LEMMA IInvImpliesTypes == IInv => HealthTypeOK
BY DEF IInv, GateInv, GateTypes, HealthTypes, HealthTypeOK, Row, CheckState, At, ProberState

LEMMA ExclusiveIsOneCheck == ASSUME reserved \in BOOLEAN PROVE Exclusive <=> OneCheck
BY DEF Exclusive, OneCheck, Active

LEMMA IdleState == Idle \in CheckState /\ Idle.at \notin Active /\ Idle.at # "running"
BY DEF Idle, CheckState, At, Trigger, Active

(* One check moves on.                                                     *)
LEMMA MovedCheck ==
  ASSUME check \in [Check -> CheckState], NEW c \in Check, NEW at \in At,
         check' = [check EXCEPT ![c].at = at]
  PROVE  /\ check' \in [Check -> CheckState]
         /\ check'[c].at = at
         /\ \A d \in Check : d # c => check'[d] = check[d]
BY DEF CheckState

LEMMA SetCheck ==
  ASSUME check \in [Check -> CheckState], NEW c \in Check, NEW new \in CheckState,
         check' = [check EXCEPT ![c] = new]
  PROVE  /\ check' \in [Check -> CheckState]
         /\ check'[c] = new
         /\ \A d \in Check : d # c => check'[d] = check[d]
OBVIOUS

(* A step that writes no more of the row than its lifecycle and the        *)
(* override keeps the gate's invariant.                                    *)
LEMMA LifecycleOnly ==
  ASSUME GateInv, channel' \in Row,
         channel'.required = channel.required, channel'.status = channel.status,
         lastRun' = lastRun, source' \in [active : BOOLEAN, trusted : BOOLEAN],
         scope' \in {"none", "others", "openai"}, logsOnly' \in BOOLEAN,
         UNCHANGED <<reserved, check, cleared>>
  PROVE  GateInv'
BY DEF GateInv, GateTypes, RunningHasCheck, Exclusive, Pledged

(* A check that is not active goes to a state that is not active.          *)
LEMMA Inactive ==
  ASSUME GateInv, NEW c \in Check, check[c].at \notin Active,
         check' \in [Check -> CheckState], check'[c].at \notin Active,
         \A d \in Check : d # c => check'[d] = check[d], reserved' = reserved
  PROVE  /\ Exclusive'
         /\ (\E d \in Check : check[d].at = "running") =>
              \E d \in Check : check'[d].at = "running"
BY DEF GateInv, Exclusive, Active

(* An active check ends, and with it the reservation.                      *)
LEMMA Ended ==
  ASSUME GateInv, NEW c \in Check, check[c].at \in Active, End(c)
  PROVE  /\ check' \in [Check -> CheckState]
         /\ reserved' = FALSE
         /\ Exclusive'
         /\ \A d \in Check : d # c => check[d].at # "running"
<1>1. /\ check' \in [Check -> CheckState] /\ check'[c] = Idle
      /\ \A d \in Check : d # c => check'[d] = check[d]
  BY SetCheck, IdleState DEF GateInv, GateTypes, End
<1>2. \A d \in Check : d # c => check[d].at \notin Active
  BY DEF GateInv, Exclusive
<1>3. reserved' = FALSE /\ \A d \in Check : check'[d].at \notin Active
  BY <1>1, <1>2, IdleState DEF End
<1>4. QED
  BY <1>1, <1>2, <1>3 DEF Exclusive, Active

-------------------------------------------------------------------------------
(* The steps of a check.                                                   *)

LEMMA AdmitGate == ASSUME GateInv, NEW c \in Check, Admit(c) PROVE GateInv'
<1> DEFINE skips == ~Refused(check[c].trigger) /\ scope = "others"
<1>1. channel \in Row /\ check \in [Check -> CheckState] /\ check[c].at = "called"
  BY DEF Admit, GateInv, GateTypes
<1>2. /\ check' \in [Check -> CheckState]
      /\ check'[c].at \notin Active
      /\ \A d \in Check : d # c => check'[d] = check[d]
  <2>1. CASE check' = [check EXCEPT ![c] = Idle]
    BY <1>1, <2>1, IdleState, SetCheck
  <2>2. CASE check' = [check EXCEPT ![c].at = "admitted"]
    <3>1. "admitted" \in At /\ "admitted" \notin Active
      BY DEF At, Active
    <3>2. QED BY <1>1, <2>2, <3>1, MovedCheck
  <2>3. QED BY <2>1, <2>2 DEF Admit
<1>3. /\ reserved' = reserved /\ UNCHANGED <<lastRun, source, scope, logsOnly>>
      /\ check[c].at \notin Active
  BY <1>1 DEF Admit, Active
<1>4. /\ Exclusive'
      /\ (\E d \in Check : check[d].at = "running") =>
           \E d \in Check : check'[d].at = "running"
  BY <1>2, <1>3, Inactive
<1>5. channel' = (IF skips THEN Skipped(channel) ELSE channel)
  BY DEF Admit
<1>6. cleared' = (cleared \/ (skips /\ channel.status # "RUNNING"))
  BY DEF Admit
<1> HIDE DEF skips
<1>7. channel' \in Row /\ (channel'.status = "RUNNING" => channel.status = "RUNNING")
  BY <1>1, <1>5, SkippedRow
<1>8. RunningHasCheck'
  BY <1>4, <1>7 DEF GateInv, RunningHasCheck
<1>9. Pledged'
  BY <1>1, <1>5, <1>6, SkippedRow DEF GateInv, Pledged
<1>10. GateTypes'
  BY <1>2, <1>3, <1>6, <1>7 DEF GateInv, GateTypes
<1>11. QED BY <1>4, <1>8, <1>9, <1>10 DEF GateInv

LEMMA EnqueueGate == ASSUME GateInv, NEW c \in Check, Enqueue(c) PROVE GateInv'
<1>1. /\ channel \in Row /\ check \in [Check -> CheckState] /\ check[c].at = "admitted"
      /\ UNCHANGED <<lastRun, source, scope, logsOnly, cleared>>
  BY DEF Enqueue, GateInv, GateTypes
<1>2. CASE ~reserved /\ Startable(check[c].trigger)
  <2>1. /\ reserved' = TRUE /\ check' = [check EXCEPT ![c].at = "queued"]
        /\ channel' = [channel EXCEPT !.status = "PENDING", !.trigger = check[c].trigger]
    BY <1>2 DEF Enqueue
  <2>2. /\ channel' \in Row /\ channel'.status = "PENDING"
        /\ channel'.required = channel.required
    BY <1>1, <2>1, Strings, Zenon DEF Row, CheckState
  <2>3. "queued" \in At /\ "queued" \in Active
    BY DEF At, Active
  <2>4. /\ check' \in [Check -> CheckState] /\ check'[c].at = "queued"
        /\ \A d \in Check : d # c => check'[d] = check[d]
    BY <1>1, <2>1, <2>3, MovedCheck
  <2>5. Exclusive'
    BY <1>2, <2>1, <2>3, <2>4 DEF GateInv, Exclusive
  <2>6. QED
    BY <1>1, <2>1, <2>2, <2>4, <2>5
       DEF GateInv, GateTypes, RunningHasCheck, Pledged
<1>3. CASE ~(~reserved /\ Startable(check[c].trigger))
  <2>1. check' = [check EXCEPT ![c] = Idle] /\ UNCHANGED <<reserved, channel>>
    BY <1>3 DEF Enqueue
  <2>2. /\ check' \in [Check -> CheckState] /\ check'[c].at \notin Active
        /\ \A d \in Check : d # c => check'[d] = check[d]
    BY <1>1, <2>1, SetCheck, IdleState
  <2>3. check[c].at \notin Active
    BY <1>1 DEF Active
  <2>4. /\ Exclusive'
        /\ (\E d \in Check : check[d].at = "running") =>
             \E d \in Check : check'[d].at = "running"
    BY <2>1, <2>2, <2>3, Inactive
  <2>5. QED
    BY <1>1, <2>1, <2>2, <2>4 DEF GateInv, GateTypes, RunningHasCheck, Pledged
<1>4. QED BY <1>2, <1>3

LEMMA BeginGate == ASSUME GateInv, NEW c \in Check, Begin(c) PROVE GateInv'
<1>1. /\ channel \in Row /\ check \in [Check -> CheckState] /\ check[c].at = "queued"
      /\ UNCHANGED <<lastRun, source, scope, logsOnly, cleared>>
      /\ check[c].at \in Active
  BY DEF Begin, GateInv, GateTypes, Active
<1>2. CASE Runnable(check[c].trigger)
  <2>1. /\ UNCHANGED reserved /\ check' = [check EXCEPT ![c].at = "running"]
        /\ channel' = [channel EXCEPT !.status = "RUNNING"]
    BY <1>2 DEF Begin
  <2>2. /\ channel' \in Row /\ channel'.status = "RUNNING"
        /\ channel'.required = channel.required
    BY <1>1, <2>1, Strings, Zenon DEF Row
  <2>3. "running" \in At /\ "running" \in Active
    BY DEF At, Active
  <2>4. /\ check' \in [Check -> CheckState] /\ check'[c].at = "running"
        /\ \A d \in Check : d # c => check'[d] = check[d]
    BY <1>1, <2>1, <2>3, MovedCheck
  <2>5. Exclusive'
    BY <1>1, <2>1, <2>3, <2>4 DEF GateInv, Exclusive
  <2>6. QED
    BY <1>1, <2>1, <2>2, <2>4, <2>5
       DEF GateInv, GateTypes, RunningHasCheck, Pledged
<1>3. CASE ~Runnable(check[c].trigger)
  <2>1. End(c) /\ UNCHANGED channel
    BY <1>3 DEF Begin
  <2>2. /\ check' \in [Check -> CheckState] /\ reserved' = FALSE /\ Exclusive'
        /\ \A d \in Check : d # c => check[d].at # "running"
    BY <1>1, <2>1, Ended
  <2>3. channel.status # "RUNNING"
    BY <1>1, <2>2 DEF GateInv, RunningHasCheck
  <2>4. QED
    BY <1>1, <2>1, <2>2, <2>3 DEF GateInv, GateTypes, RunningHasCheck, Pledged
<1>4. QED BY <1>2, <1>3

LEMMA BeginFailsGate == ASSUME GateInv, NEW c \in Check, BeginFails(c) PROVE GateInv'
<1>1. /\ channel \in Row /\ check[c].at = "queued" /\ End(c)
      /\ UNCHANGED <<lastRun, source, scope, logsOnly, cleared>>
      /\ check[c].at \in Active
      /\ channel' = channel \/ channel' = [channel EXCEPT !.status = "UNKNOWN"]
  BY DEF BeginFails, GateInv, GateTypes, Active
<1>2. /\ check' \in [Check -> CheckState] /\ reserved' = FALSE /\ Exclusive'
      /\ \A d \in Check : d # c => check[d].at # "running"
  BY <1>1, Ended
<1>3. channel.status # "RUNNING"
  BY <1>1, <1>2 DEF GateInv, RunningHasCheck
<1>4. /\ channel' \in Row /\ channel'.status \in {channel.status, "UNKNOWN"}
      /\ channel'.required = channel.required
  BY <1>1, Strings, Zenon DEF Row
<1>5. QED
  BY <1>1, <1>2, <1>3, <1>4 DEF GateInv, GateTypes, RunningHasCheck, Pledged

LEMMA FinishGate ==
  ASSUME GateInv, NEW c \in Check, NEW verdict \in Verdicts, Finish(c, verdict)
  PROVE  GateInv'
<1>1. /\ channel \in Row /\ End(c) /\ check[c].at \in Active
      /\ check[c].trigger \in Trigger
      /\ channel' = Judged(channel, check[c].trigger, verdict)
      /\ lastRun' = verdict /\ UNCHANGED <<source, scope, logsOnly>>
      /\ cleared' = (cleared \/ verdict = "PASSED")
  BY DEF Finish, GateInv, GateTypes, CheckState, Active
<1>2. /\ check' \in [Check -> CheckState] /\ reserved' = FALSE /\ Exclusive'
  BY <1>1, Ended
<1>3. /\ channel' \in Row /\ channel'.status = verdict
      /\ verdict # "PASSED" => channel'.required = channel.required
  BY <1>1, JudgedRow
<1>4. verdict # "RUNNING"
  BY DEF Verdicts
<1>5. QED
  BY <1>1, <1>2, <1>3, <1>4 DEF GateInv, GateTypes, RunningHasCheck, Pledged

LEMMA FinishFailsGate == ASSUME GateInv, NEW c \in Check, FinishFails(c) PROVE GateInv'
<1>1. /\ channel \in Row /\ End(c) /\ check[c].at \in Active
      /\ UNCHANGED <<lastRun, source, scope, logsOnly, cleared>>
      /\ channel' = IF channel.status = "RUNNING"
                    THEN [channel EXCEPT !.status = "UNKNOWN"] ELSE channel
  BY DEF FinishFails, GateInv, GateTypes, Active
<1>2. /\ check' \in [Check -> CheckState] /\ reserved' = FALSE /\ Exclusive'
  BY <1>1, Ended
<1>3. /\ channel' \in Row /\ channel'.status \in {channel.status, "UNKNOWN"} \ {"RUNNING"}
      /\ channel'.required = channel.required
  BY <1>1, Strings, Zenon DEF Row
<1>4. QED
  BY <1>1, <1>2, <1>3 DEF GateInv, GateTypes, RunningHasCheck, Pledged

-------------------------------------------------------------------------------
(* The steps beside the checks.                                            *)

(* A goroutine that was idle is called.                                    *)
LEMMA CalledCheck ==
  ASSUME GateInv, NEW c \in Check, NEW trigger \in Trigger, Called(c, trigger),
         reserved' = reserved
  PROVE  /\ check' \in [Check -> CheckState]
         /\ Exclusive'
         /\ (\E d \in Check : check[d].at = "running") =>
              \E d \in Check : check'[d].at = "running"
<1> DEFINE new == [at |-> "called", trigger |-> trigger]
<1>1. new \in CheckState /\ new.at \notin Active
  BY DEF CheckState, At, Active
<1>2. /\ check \in [Check -> CheckState] /\ check[c].at \notin Active
      /\ check' = [check EXCEPT ![c] = new]
  BY IdleState DEF Called, GateInv, GateTypes
<1> HIDE DEF new
<1>3. /\ check' \in [Check -> CheckState] /\ check'[c] = new
      /\ \A d \in Check : d # c => check'[d] = check[d]
  BY <1>1, <1>2, SetCheck
<1>4. QED
  BY <1>1, <1>2, <1>3, Inactive

LEMMA ReconcileGate == ASSUME GateInv, Reconcile PROVE GateInv'
<1>1. /\ channel \in Row
      /\ UNCHANGED <<lastRun, source, scope, logsOnly, reserved>>
  BY DEF Reconcile, GateInv, GateTypes
<1>2. CASE scope = "others"
  <2>1. /\ channel' = Skipped(channel) /\ UNCHANGED check
        /\ cleared' = (cleared \/ channel.status # "RUNNING")
    BY <1>2 DEF Reconcile
  <2>2. channel' \in Row /\ (channel'.status = "RUNNING" => channel.status = "RUNNING")
    BY <1>1, <2>1, SkippedRow
  <2>3. Pledged'
    BY <1>1, <2>1, SkippedRow DEF GateInv, Pledged
  <2>4. QED
    BY <1>1, <2>1, <2>2, <2>3 DEF GateInv, GateTypes, RunningHasCheck, Exclusive
<1>3. CASE scope # "others"
  <2>1. /\ channel' = [channel EXCEPT !.required = TRUE, !.status = "PENDING",
                                      !.trigger = "NEW"]
        /\ cleared' = FALSE /\ QueueNew
    BY <1>3 DEF Reconcile
  <2>2. channel' \in Row /\ channel'.status = "PENDING" /\ channel'.required
    BY <1>1, <2>1, Strings, Zenon DEF Row
  <2>3. check' \in [Check -> CheckState] /\ Exclusive'
    <3>1. CASE UNCHANGED check
      BY <1>1, <3>1 DEF GateInv, GateTypes, Exclusive
    <3>2. CASE \E c \in Check : Called(c, "NEW")
      BY <1>1, <3>2, CalledCheck, Strings
    <3>3. QED BY <2>1, <3>1, <3>2 DEF QueueNew
  <2>4. QED
    BY <1>1, <2>1, <2>2, <2>3 DEF GateInv, GateTypes, RunningHasCheck, Pledged
<1>4. QED BY <1>2, <1>3

LEMMA GateInputGate == ASSUME GateInv, GateInput PROVE GateInv'
<1> USE DEF GateInv, GateTypes
<1>1. CASE ManualCheck
  <2>1. PICK c \in Check : Called(c, "MANUAL")
    BY <1>1 DEF ManualCheck
  <2>2. UNCHANGED <<channel, lastRun, source, scope, logsOnly, reserved, cleared>>
    BY <1>1 DEF ManualCheck
  <2>3. /\ check' \in [Check -> CheckState] /\ Exclusive'
        /\ (\E d \in Check : check[d].at = "running") =>
             \E d \in Check : check'[d].at = "running"
    BY <2>1, <2>2, CalledCheck, Strings
  <2>4. QED BY <2>2, <2>3 DEF RunningHasCheck, Pledged
<1>2. CASE \E s \in {"none", "others", "openai"} : Remap(s)
  BY <1>2, LifecycleOnly DEF Remap
<1>3. CASE SourceTurns
  <2>1. source' \in [active : BOOLEAN, trusted : BOOLEAN]
    BY <1>3, Zenon DEF SourceTurns
  <2>2. QED BY <1>3, <2>1, LifecycleOnly DEF SourceTurns
<1>4. CASE SetLogsOnly
  BY <1>4, LifecycleOnly DEF SetLogsOnly
<1>5. CASE SetOverride
  <2>1. channel' = IF channel.override THEN Restored(channel, lastRun) ELSE Forced(channel)
    BY <1>5 DEF SetOverride
  <2>2. /\ channel' \in Row /\ channel'.required = channel.required
        /\ channel'.status = channel.status
    BY <2>1, ForcedRow, RestoredRow
  <2>3. QED BY <1>5, <2>2, LifecycleOnly DEF SetOverride
<1>6. QED
  BY <1>1, <1>2, <1>3, <1>4, <1>5 DEF GateInput

LEMMA RestartGateGate == ASSUME GateInv, RestartGate PROVE GateInv'
<1>1. /\ channel \in Row /\ channel' = Restarted(channel) /\ reserved' = FALSE
      /\ cleared' = (cleared \/ scope = "others")
      /\ UNCHANGED <<lastRun, source, scope, logsOnly>>
  BY DEF RestartGate, GateInv, GateTypes
<1>2. channel' \in Row /\ channel'.status # "RUNNING"
  BY <1>1, RestartedRow
<1>3. Pledged'
  BY <1>1, RestartedRow DEF GateInv, Pledged
<1>4. /\ check' \in [Check -> CheckState]
      /\ \A d \in Check : check'[d].at \notin Active
  <2> DEFINE none == [c \in Check |-> Idle]
             new  == [at |-> "called", trigger |-> "NEW"]
  <2>1. new \in CheckState /\ new.at \notin Active
    BY DEF CheckState, At, Active, Trigger
  <2>2. none \in [Check -> CheckState] /\ \A d \in Check : none[d].at \notin Active
    BY IdleState
  <2>3. check' = none \/ \E c \in Check : check' = [none EXCEPT ![c] = new]
    BY DEF RestartGate
  <2> HIDE DEF none, new
  <2>4. QED BY <2>1, <2>2, <2>3
<1>5. QED
  BY <1>1, <1>2, <1>3, <1>4 DEF GateInv, GateTypes, RunningHasCheck, Exclusive

LEMMA CheckStepGate == ASSUME GateInv, NEW c \in Check, CheckStep(c) PROVE GateInv'
BY AdmitGate, EnqueueGate, BeginGate, BeginFailsGate, FinishGate, FinishFailsGate
   DEF CheckStep

-------------------------------------------------------------------------------
(* The probes and the operator.                                            *)

LEMMA SmallerType ==
  ASSUME NEW a \in Nat, NEW b \in Nat
  PROVE  Smaller(a, b) \in 0 .. b
BY DEF Smaller

LEMMA ProberStates ==
  /\ Resting \in ProberState
  /\ \A n \in 0 .. RecoverySamples : Ready(n) \in ProberState
  /\ Ready(1) \in ProberState
  /\ Ready(RecoverySamples) \in ProberState
BY HealthAssumption DEF Resting, Ready, ProberState

(* What GoOn makes of a prober.                                            *)
GoesOn(p) ==
  \E new : /\ prober' = [prober EXCEPT ![p] = new]
           /\ \/ new = Resting
              \/ prober[p].left > 1 /\ new = Ready(prober[p].left - 1)

LEMMA GoneOn ==
  ASSUME HealthTypes, NEW p \in Prober, GoesOn(p)
  PROVE  prober' \in [Prober -> ProberState]
<1>1. prober \in [Prober -> ProberState] /\ prober[p].left \in 0 .. RecoverySamples
  BY DEF HealthTypes, ProberState
<1>2. PICK new : /\ prober' = [prober EXCEPT ![p] = new]
                 /\ \/ new = Resting
                    \/ prober[p].left > 1 /\ new = Ready(prober[p].left - 1)
  BY Zenon DEF GoesOn
<1>3. prober[p].left > 1 => prober[p].left - 1 \in 0 .. RecoverySamples
  BY <1>1, HealthAssumption
<1>4. new \in ProberState
  BY <1>2, <1>3, ProberStates
<1>5. QED BY <1>1, <1>2, <1>4

LEMMA HealthyRow ==
  ASSUME GateInv
  PROVE  /\ Healthy \in Row
         /\ Healthy.required = channel.required /\ Healthy.status = channel.status
         /\ channel.life = "MANUAL_HOLD" => Healthy = channel
BY Strings, Zenon DEF Healthy, GateInv, GateTypes, Row

(* What a step outside of the gate may do to the channel.                  *)
RowKept ==
  /\ channel' \in Row
  /\ channel'.required = channel.required
  /\ channel'.status = channel.status

LEMMA PlainRow ==
  ASSUME GateInv, HealthTypes, NEW p \in Prober, NEW outcome, PlainEnds(p, outcome)
  PROVE  /\ RowKept /\ failures' \in 0 .. TransientFailures
         /\ channel.life = "MANUAL_HOLD" => channel'.life = "MANUAL_HOLD"
<1>1. channel \in Row /\ failures \in 0 .. TransientFailures
  BY DEF GateInv, GateTypes, HealthTypes
<1>2. /\ 0 \in 0 .. TransientFailures
      /\ Smaller(failures + 1, TransientFailures) \in 0 .. TransientFailures
      /\ ManagedFailures \in 0 .. TransientFailures
  BY <1>1, SmallerType, HealthAssumption DEF ManagedFailures
<1>3. CASE outcome = "ok" \/ (outcome = "skipped" /\ LeftAlone)
  <2>1. /\ channel' = Healthy
        /\ failures' = IF channel.life = "MANUAL_HOLD" THEN failures ELSE 0
    BY <1>3 DEF PlainEnds
  <2>2. QED BY <1>1, <1>2, <2>1, HealthyRow DEF RowKept
<1>4. CASE /\ ~(outcome = "ok" \/ (outcome = "skipped" /\ LeftAlone))
           /\ outcome = "skipped" \/ LeftAlone
  <2>1. UNCHANGED <<channel, failures>>
    BY <1>4 DEF PlainEnds
  <2>2. QED BY <1>1, <2>1 DEF RowKept
<1>5. CASE ~(outcome = "ok" \/ outcome = "skipped" \/ LeftAlone)
  <2>1. channel.life # "MANUAL_HOLD"
    BY <1>5 DEF LeftAlone
  <2>2. outcome \in {"transient", "error", "isolating", "confirmed"}
    BY <1>5 DEF PlainEnds, Samples
  <2>3. CASE prober[p].managed
    <3>1. outcome \in {"transient", "error", "isolating"}
      BY <1>5, <2>3 DEF PlainEnds, Samples
    <3>2. ManagedFails(outcome)
      BY <1>5, <2>3 DEF PlainEnds
    <3>3. PICK life \in Life, reason \in Reason :
            channel' = [channel EXCEPT !.reason = reason, !.life = life]
      <4>1. (IF outcome = "error" THEN "other" ELSE outcome) \in Reason
        BY <3>1 DEF Reason
      <4>2. (IF \/ channel.life = "QUARANTINED"
                \/ outcome = "isolating"
                \/ ManagedFailures >= Threshold(outcome)
             THEN "QUARANTINED" ELSE "HEALTHY") \in Life
        BY DEF Life
      <4>3. QED BY <3>2, <4>1, <4>2, Zenon DEF ManagedFails
    <3>4. RowKept
      BY <1>1, <3>3, Zenon DEF Row, RowKept
    <3>5. QED BY <1>2, <2>1, <3>2, <3>4 DEF ManagedFails
  <2>4. CASE ~prober[p].managed
    <3>1. UnmanagedFails(outcome)
      BY <1>5, <2>4 DEF PlainEnds
    <3>2. PICK life \in Life, reason \in Reason :
            channel' = [channel EXCEPT !.reason = reason, !.life = life]
      <4> DEFINE count == Smaller(failures + 1, TransientFailures)
      <4>1. (IF outcome = "transient" THEN outcome ELSE "other") \in Reason
        BY DEF Reason
      <4>2. (IF outcome = "confirmed" \/ count >= Threshold(outcome)
             THEN "QUARANTINED" ELSE "SUSPECT") \in Life
        BY DEF Life
      <4>3. QED BY <3>1, <4>1, <4>2, Zenon DEF UnmanagedFails
    <3>3. RowKept
      BY <1>1, <3>2, Zenon DEF Row, RowKept
    <3>4. failures' = Smaller(failures + 1, TransientFailures)
      BY <3>1 DEF UnmanagedFails
    <3>5. QED BY <1>2, <2>1, <3>3, <3>4
  <2>5. QED BY <2>3, <2>4
<1>6. QED BY <1>3, <1>4, <1>5

LEMMA SlowRow ==
  ASSUME GateInv, HealthTypes, NEW p \in Prober, NEW outcome, SlowEnds(p, outcome)
  PROVE  /\ RowKept /\ failures' \in 0 .. TransientFailures
         /\ streak' \in 0 .. RecoverySamples
<1> DEFINE run == IF outcome = "ok" THEN Smaller(streak + 1, RecoverySamples) ELSE 0
<1>1. /\ channel \in Row /\ failures \in 0 .. TransientFailures
      /\ streak \in 0 .. RecoverySamples
  BY DEF GateInv, GateTypes, HealthTypes
<1>2. /\ 0 \in 0 .. TransientFailures
      /\ Smaller(failures + 1, TransientFailures) \in 0 .. TransientFailures
      /\ run \in 0 .. RecoverySamples
  BY <1>1, SmallerType, HealthAssumption
<1>3. /\ streak' \in {streak, run}
      /\ failures' \in {failures, 0, Smaller(failures + 1, TransientFailures)}
      /\ channel' \in {channel, [channel EXCEPT !.life = "HEALTHY", !.reason = "slow"],
                       [channel EXCEPT !.life = "QUARANTINED", !.reason = "slow"]}
  BY Zenon DEF SlowEnds
<1>4. RowKept
  BY <1>1, <1>3, Strings, Zenon DEF RowKept, Row
<1> HIDE DEF run
<1>5. QED BY <1>1, <1>2, <1>3, <1>4

LEMMA ProbeStepInv ==
  ASSUME GateInv, HealthTypes, NEW p \in Prober, ProbeStep(p)
  PROVE  GateInv' /\ HealthTypes'
<1> USE DEF HealthTypes
<1>1. /\ channel \in Row /\ source \in [active : BOOLEAN, trusted : BOOLEAN]
      /\ scope \in {"none", "others", "openai"} /\ logsOnly \in BOOLEAN
  BY DEF GateInv, GateTypes
<1>2. CASE Probe(p)
  <2>1. GateInv'
    BY <1>1, <1>2, LifecycleOnly DEF Probe, gateVars
  <2>2. QED BY <1>2, <2>1, ProberStates DEF Probe
<1>3. CASE Read(p)
  <2>1. GateInv'
    BY <1>1, <1>3, LifecycleOnly DEF Read, gateVars
  <2>2. PICK new : /\ prober' = [prober EXCEPT ![p] = new]
                   /\ new \in {Resting, [prober[p] EXCEPT !.at = "slow"],
                       [prober[p] EXCEPT !.at = "plain", !.managed = scope # "none"]}
    BY <1>3, Zenon DEF Read
  <2>3. new \in ProberState
    <3>1. prober[p] \in ProberState
      OBVIOUS
    <3>2. (scope # "none") \in BOOLEAN
      OBVIOUS
    <3>3. "slow" \in {"idle", "ready", "plain", "slow"} /\ "plain" \in {"idle", "ready", "plain", "slow"}
      OBVIOUS
    <3>4. [prober[p] EXCEPT !.at = "slow"] \in ProberState
      BY <3>1, <3>3, Zenon DEF ProberState
    <3>5. [prober[p] EXCEPT !.at = "plain", !.managed = scope # "none"] \in ProberState
      BY <3>1, <3>2, <3>3, Zenon DEF ProberState
    <3>6. QED BY <2>2, <3>4, <3>5, ProberStates, Zenon
  <2>4. QED BY <1>3, <2>1, <2>2, <2>3 DEF Read
<1>4. ASSUME NEW outcome, PlainEnds(p, outcome) PROVE GateInv' /\ HealthTypes'
  <2>1. RowKept /\ failures' \in 0 .. TransientFailures
    BY <1>4, PlainRow
  <2>2. GateInv'
    BY <1>1, <1>4, <2>1, LifecycleOnly DEF PlainEnds, RowKept
  <2>3. prober' \in [Prober -> ProberState]
    <3>1. GoesOn(p)
      BY <1>4, Zenon DEF PlainEnds, GoOn, GoesOn
    <3>2. QED BY <3>1, GoneOn
  <2>4. /\ streak' = streak
        /\ probed' = IF outcome \in {"ok", "skipped"} /\ channel.life = "MANUAL_HOLD"
                     THEN probed ELSE TRUE
    BY <1>4 DEF PlainEnds
  <2>5. QED BY <2>1, <2>2, <2>3, <2>4
<1>5. ASSUME NEW outcome, SlowEnds(p, outcome) PROVE GateInv' /\ HealthTypes'
  <2>1. RowKept /\ failures' \in 0 .. TransientFailures /\ streak' \in 0 .. RecoverySamples
    BY <1>5, SlowRow
  <2>2. GateInv'
    BY <1>1, <1>5, <2>1, LifecycleOnly DEF SlowEnds, RowKept
  <2>3. prober' \in [Prober -> ProberState]
    <3>1. GoesOn(p)
      BY <1>5, Zenon DEF SlowEnds, GoOn, GoesOn
    <3>2. QED BY <3>1, GoneOn
  <2>4. probed' = TRUE
    BY <1>5 DEF SlowEnds
  <2>5. QED BY <2>1, <2>2, <2>3, <2>4
<1>6. QED BY <1>2, <1>3, <1>4, <1>5 DEF ProbeStep

LEMMA InputInv ==
  ASSUME GateInv, HealthTypes, Input
  PROVE  GateInv' /\ HealthTypes'
<1> USE DEF HealthTypes
<1>1. /\ channel \in Row /\ source \in [active : BOOLEAN, trusted : BOOLEAN]
      /\ scope \in {"none", "others", "openai"} /\ logsOnly \in BOOLEAN
  BY DEF GateInv, GateTypes
<1>2. 0 \in 0 .. TransientFailures
  BY HealthAssumption
<1>3. CASE GateInput /\ UNCHANGED <<failures, streak, probed, prober>>
  BY <1>3, GateInputGate
<1>4. ASSUME NEW p \in Prober, QuickValidation(p) PROVE GateInv' /\ HealthTypes'
  <2>1. GateInv'
    BY <1>1, <1>4, LifecycleOnly DEF QuickValidation, gateVars
  <2>2. QED BY <1>4, <2>1, ProberStates DEF QuickValidation
<1>5. CASE Hold
  <2>1. RowKept
    BY <1>1, <1>5, Strings, Zenon DEF Hold, RowKept, Row
  <2>2. GateInv'
    BY <1>1, <1>5, <2>1, LifecycleOnly DEF Hold, RowKept
  <2>3. QED BY <1>5, <2>2 DEF Hold
<1>6. CASE Resume
  <2>1. RowKept
    BY <1>1, <1>6, Strings, Zenon DEF Resume, RowKept, Row
  <2>2. GateInv'
    BY <1>1, <1>6, <2>1, LifecycleOnly DEF Resume, RowKept
  <2>3. QED BY <1>2, <1>6, <2>2, ProberStates DEF Resume
<1>7. CASE Untrust
  <2>1. RowKept
    BY <1>1, <1>7, Strings, Zenon DEF Untrust, RowKept, Row
  <2>2. source' \in [active : BOOLEAN, trusted : BOOLEAN]
    BY <1>1, <1>7, Zenon DEF Untrust
  <2>3. GateInv'
    BY <1>1, <1>7, <2>1, <2>2, LifecycleOnly DEF Untrust, RowKept
  <2>4. QED BY <1>7, <2>3 DEF Untrust
<1>8. CASE Trust
  <2>1. RowKept
    BY <1>1, <1>8, Strings, Zenon DEF Trust, RowKept, Row
  <2>2. source' \in [active : BOOLEAN, trusted : BOOLEAN]
    BY <1>1, <1>8, Zenon DEF Trust
  <2>3. GateInv'
    BY <1>1, <1>8, <2>1, <2>2, LifecycleOnly DEF Trust, RowKept
  <2>4. QED BY <1>2, <1>8, <2>3 DEF Trust
<1>9. CASE Restart
  <2>1. GateInv'
    BY <1>9, RestartGateGate DEF Restart
  <2>2. QED BY <1>9, <2>1, ProberStates DEF Restart
<1>10. QED
  BY <1>3, <1>4, <1>5, <1>6, <1>7, <1>8, <1>9 DEF Input

-------------------------------------------------------------------------------
(* The invariant is inductive.                                             *)

LEMMA InitInv == ASSUME Init PROVE IInv
<1>1. channel \in Row /\ channel.status # "RUNNING" /\ Pledged
  <2>1. CASE channel = NewRow
    BY <2>1, Strings DEF NewRow, Row, Pledged
  <2>2. CASE /\ cleared
             /\ \/ channel = OldRow("HEALTHY", "sampled")
                \/ channel = OldRow("QUARANTINED", "slow")
    <3>1. ASSUME NEW life \in Life, NEW reason \in Reason
          PROVE  OldRow(life, reason) \in Row /\ OldRow(life, reason).status = "LEGACY"
      BY Strings DEF OldRow, Row
    <3>2. QED BY <2>2, <3>1, Strings DEF Pledged
  <2>3. QED BY <2>1, <2>2 DEF Init
<1>2. check \in [Check -> CheckState] /\ \A c \in Check : check[c].at \notin Active
  <2> DEFINE new == [at |-> "called", trigger |-> "NEW"]
  <2>1. new \in CheckState /\ new.at \notin Active
    BY DEF CheckState, At, Active, Trigger
  <2>2. \/ check = [c \in Check |-> Idle]
        \/ \E c \in Check : check = [d \in Check |-> IF d = c THEN new ELSE Idle]
    BY DEF Init
  <2> HIDE DEF new
  <2>3. QED BY <2>1, <2>2, IdleState
<1>3. GateTypes
  BY <1>1, <1>2 DEF Init, GateTypes
<1>4. HealthTypes /\ inputs \in 0 .. MaxInputs
  <2>1. /\ 0 \in 0 .. TransientFailures /\ 0 \in 0 .. RecoverySamples
        /\ 0 \in 0 .. MaxInputs
    BY HealthAssumption
  <2>2. QED BY <2>1, ProberStates DEF Init, HealthTypes
<1>5. RunningHasCheck /\ Exclusive
  BY <1>1, <1>2 DEF Init, RunningHasCheck, Exclusive
<1>6. QED BY <1>1, <1>3, <1>4, <1>5 DEF IInv, GateInv

LEMMA NextInv == ASSUME IInv, [Next]_vars PROVE IInv'
<1> USE DEF IInv
<1>1. CASE GateStep
  <2>1. GateInv'
    BY <1>1, CheckStepGate, ReconcileGate DEF GateStep
  <2>2. QED BY <1>1, <2>1 DEF GateStep, healthVars, HealthTypes
<1>2. CASE (\E p \in Prober : ProbeStep(p)) /\ UNCHANGED inputs
  BY <1>2, ProbeStepInv
<1>3. CASE Input /\ inputs < MaxInputs /\ inputs' = inputs + 1
  BY <1>3, InputInv, HealthAssumption
<1>4. CASE UNCHANGED vars
  BY <1>4 DEF vars, gateVars, GateInv, GateTypes, HealthTypes, RunningHasCheck, Exclusive,
              Pledged
<1>5. QED BY <1>1, <1>2, <1>3, <1>4 DEF Next

(* No order of checks, probes, holds, edits and restarts breaks the types,  *)
(* leaves a row RUNNING without its check, lets two checks hold the         *)
(* reservation, or frees a new channel of its pledge to be checked.         *)
THEOREM HealthInvariant == Spec => []IInv
BY InitInv, NextInv, PTL DEF Spec

-------------------------------------------------------------------------------
(* What the runs check, for every value of the constants.                  *)

(* Every variable keeps its type.                                          *)
THEOREM HealthTypeCorrect == Spec => []HealthTypeOK
BY HealthInvariant, IInvImpliesTypes, PTL

(* model_quality.go:838-896: however checks, failed stores, scans and      *)
(* restarts interleave, a row that says RUNNING has a check that runs, and *)
(* so is left again.                                                       *)
THEOREM ChecksAreRunning == Spec => []RunningHasCheck
<1>1. IInv => RunningHasCheck
  BY DEF IInv, GateInv
<1>2. QED BY <1>1, HealthInvariant, PTL

(* model_quality.go:771-789: the reservation in memory is held exactly     *)
(* while a check is queued or runs, and only one is.                       *)
THEOREM ChecksExclude == Spec => []OneCheck
<1>1. IInv => OneCheck
  BY ExclusiveIsOneCheck DEF IInv, GateInv, GateTypes
<1>2. QED BY <1>1, HealthInvariant, PTL

(* model_quality.go:1382-1391, worker.go:1449-1480: a channel that has to  *)
(* be checked takes no part before it has passed or skipped a check.       *)
THEOREM GateHolds == Spec => []NewChannelsAreGated
<1>1. IInv => NewChannelsAreGated
  <2> SUFFICES ASSUME IInv, ~logsOnly, ~channel.override, ~cleared
               PROVE  Rejected
    BY DEF NewChannelsAreGated
  <2>1. channel.required /\ channel.status # "PASSED"
    BY DEF IInv, GateInv, Pledged
  <2>2. BlocksScheduling(channel)
    BY <2>1 DEF BlocksScheduling
  <2>3. QED BY <2>2 DEF Rejected
<1>2. QED BY <1>1, HealthInvariant, PTL

-------------------------------------------------------------------------------
(* An operator's hold.                                                     *)

Keeps == channel.life = "MANUAL_HOLD" => channel'.life = "MANUAL_HOLD"

LEMMA CheckStepKeeps == ASSUME GateInv, NEW c \in Check, CheckStep(c) PROVE Keeps
<1> USE DEF Keeps
<1>1. channel \in Row /\ check \in [Check -> CheckState]
  BY DEF GateInv, GateTypes
<1>2. CASE Admit(c)
  <2>1. channel' \in {channel, Skipped(channel)}
    BY <1>2, Zenon DEF Admit
  <2>2. QED BY <1>1, <2>1, SkippedRow
<1>3. CASE Enqueue(c) \/ Begin(c) \/ BeginFails(c) \/ FinishFails(c)
  <2>1. \/ channel' = channel
        \/ channel' = [channel EXCEPT !.status = "PENDING", !.trigger = check[c].trigger]
        \/ \E status \in Status : channel' = [channel EXCEPT !.status = status]
    BY <1>3, Strings, Zenon DEF Enqueue, Begin, BeginFails, FinishFails
  <2>2. channel'.life = channel.life
    BY <1>1, <2>1, Zenon DEF Row
  <2>3. QED BY <2>2
<1>4. ASSUME NEW verdict \in Verdicts, Finish(c, verdict) PROVE Keeps
  <2>1. channel' = Judged(channel, check[c].trigger, verdict) /\ check[c].trigger \in Trigger
    BY <1>1, <1>4 DEF Finish, CheckState
  <2>2. QED BY <1>1, <2>1, JudgedRow
<1>5. QED BY <1>2, <1>3, <1>4 DEF CheckStep

LEMMA GateKeeps ==
  ASSUME GateInv, Reconcile \/ GateInput \/ RestartGate
  PROVE  Keeps
<1> USE DEF Keeps
<1>1. channel \in Row
  BY DEF GateInv, GateTypes
<1>2. CASE Reconcile
  <2>1. \/ channel' = Skipped(channel)
        \/ channel' = [channel EXCEPT !.required = TRUE, !.status = "PENDING",
                                      !.trigger = "NEW"]
    BY <1>2, Zenon DEF Reconcile
  <2>2. CASE channel' = Skipped(channel)
    BY <1>1, <2>2, SkippedRow
  <2>3. CASE channel' = [channel EXCEPT !.required = TRUE, !.status = "PENDING",
                                        !.trigger = "NEW"]
    BY <1>1, <2>3, Zenon DEF Row
  <2>4. QED BY <2>1, <2>2, <2>3
<1>3. CASE GateInput
  <2>1. channel' \in {channel, Restored(channel, lastRun), Forced(channel)}
    BY <1>3, Zenon DEF GateInput, ManualCheck, Remap, SourceTurns, SetLogsOnly, SetOverride
  <2>2. QED BY <1>1, <2>1, ForcedRow, RestoredRow
<1>4. CASE RestartGate
  BY <1>1, <1>4, RestartedRow DEF RestartGate
<1>5. QED BY <1>2, <1>3, <1>4

(* operations.go:212-240, model_quality.go:1299: of all that writes the    *)
(* row - checks, scans, probes, restarts - nothing takes back a hold but   *)
(* the operator and, latency_probe.go:181, the probe of a slow channel.    *)
THEOREM HoldsYield == Spec => HoldYields
<1> DEFINE Leaves == Resume \/ Trust \/ \E p \in Prober : prober[p].at = "slow"
<1>1. ASSUME IInv, Next, ~Leaves PROVE Keeps
  <2>1. GateInv /\ HealthTypes /\ channel \in Row
    BY <1>1 DEF IInv, GateInv, GateTypes
  <2>2. CASE GateStep
    BY <2>1, <2>2, CheckStepKeeps, GateKeeps DEF GateStep
  <2>3. ASSUME NEW p \in Prober, ProbeStep(p) PROVE Keeps
    <3>1. CASE Probe(p) \/ Read(p)
      BY <3>1 DEF Probe, Read, gateVars, Keeps
    <3>2. ASSUME NEW outcome, PlainEnds(p, outcome) PROVE Keeps
      BY <2>1, <3>2, PlainRow DEF Keeps
    <3>3. ASSUME NEW outcome, SlowEnds(p, outcome) PROVE Keeps
      BY <1>1, <3>3 DEF SlowEnds
    <3>4. QED BY <2>3, <3>1, <3>2, <3>3 DEF ProbeStep
  <2>4. CASE Input
    <3>1. CASE GateInput
      BY <2>1, <3>1, GateKeeps
    <3>2. CASE Restart
      BY <2>1, <3>2, GateKeeps DEF Restart
    <3>3. CASE \E p \in Prober : QuickValidation(p)
      BY <3>3 DEF QuickValidation, gateVars, Keeps
    <3>4. CASE Hold \/ Untrust
      BY <2>1, <3>4, Zenon DEF Hold, Untrust, Keeps, Row
    <3>5. QED BY <1>1, <2>4, <3>1, <3>2, <3>3, <3>4 DEF Input
  <2>5. QED BY <1>1, <2>2, <2>3, <2>4 DEF Next
<1>2. IInv /\ [Next]_vars =>
        [channel.life = "MANUAL_HOLD" /\ channel'.life # "MANUAL_HOLD" => Leaves]_vars
  BY <1>1 DEF Keeps
<1>3. QED BY <1>2, HealthInvariant, PTL DEF Spec, HoldYields
==============================================================================
