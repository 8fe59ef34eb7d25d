----------------------------- MODULE QualityProbe -----------------------------
(***************************************************************************)
(* One run of the model capability check of a channel: seven questions     *)
(* whose values are drawn anew for every run, asked one after the other,   *)
(* and the verdict over the sheet of answers.                              *)
(*                                                                         *)
(* A question is what its prompt says and the answer the program expects.  *)
(* A reply is what the gateway returns: an answer is "right" when it is    *)
(* the text the validator of the question accepts.                         *)
(***************************************************************************)
EXTENDS Integers, Sequences, FiniteSets, SequencesExt, FiniteSetsExt

CONSTANTS
  Starts,      \* the numbers the arithmetic question may start from
  Threshold,   \* the least amount of a record the JSON question keeps
  MaxReplies   \* bound on the parts of a reply's content

ASSUME ProbeAssumption ==
  /\ Starts \subseteq 18 .. 40
  /\ Threshold \in 15 .. 40
  /\ MaxReplies \in Nat

VARIABLES
  at,        \* what the run does next
  question,  \* the question that is asked
  attempt,   \* how often it has been asked
  sheet,     \* the results of the questions asked so far
  verdict,   \* the status of the run, UNKNOWN until it has ended
  trouble    \* a request has failed for good, or a reply was no answer

vars == <<at, question, attempt, sheet, verdict, trouble>>

-------------------------------------------------------------------------------
(* The questions. *)

Weight   == <<15, 20, 15, 15, 15, 10, 10>>
Critical == 1 .. 4

\* Mutant: the subtrahend is any multiple of the divisor.
SubtractMultiple(base, by, extra) == by * extra

\* Start, multiply, subtract, divide.  The subtrahend is chosen so that the
\* division leaves no remainder.
Subtract(base, by, extra) == (base % by) + by * extra

Arithmetic ==
  { [prompt |-> <<start, times, Subtract(start * times, by, extra), by>>,
     expected |-> (start * times - Subtract(start * times, by, extra)) \div by] :
      start \in Starts, times \in 3 .. 7, by \in 2 .. 6, extra \in 2 .. 6 }

\* Five symbols in a hidden order, and clues about them; the answer is where
\* each symbol stands.
Orders == { order \in [1 .. 5 -> 1 .. 5] : IsInjective(order) }

Place(order) == [symbol \in 1 .. 5 |-> CHOOSE p \in 1 .. 5 : order[p] = symbol]

\* names[1] is immediately before names[2], names[3] immediately before
\* names[4], names[2] somewhere before names[3], names[5] is not adjacent to
\* names[1], and names[4] is not in the last position.
Clues(names, place) ==
  LET p(i) == place[names[i]] IN
  /\ p(2) = p(1) + 1
  /\ p(4) = p(3) + 1
  /\ p(2) < p(3)
  /\ p(5) - p(1) \notin {-1, 1}
  /\ p(4) # 5

Logic == { [prompt |-> order, expected |-> Place(order)] : order \in Orders }

\* Records that are enabled or not and hold an amount; those that are kept are
\* summed up and named in reverse order.  Where none is kept, one of them is
\* changed so that it is.
Record == { [enabled |-> e, amount |-> a] :
              e \in BOOLEAN, a \in {Threshold - 7, Threshold} }

Keeps(record) == record.enabled /\ record.amount >= Threshold

Kept(records) ==
  LET kept(i) == IF Keeps(records[i]) THEN <<i>> ELSE <<>> IN
  kept(1) \o kept(2) \o kept(3) \o kept(4) \o kept(5)

Total(records) == MapThenSumSet(LAMBDA i : records[i].amount, ToSet(Kept(records)))

JSONQuestion(records) ==
  [prompt |-> records,
   expected |-> [answer |-> Total(records), valid |-> Len(Kept(records)) = 2,
                 items |-> Reverse(Kept(records))]]

WithSomeKept(records, i) ==
  IF Kept(records) # <<>> THEN records
  ELSE [records EXCEPT ![i] = [enabled |-> TRUE, amount |-> Threshold + 3]]

JSONQuestions == { JSONQuestion(WithSomeKept(records, i)) :
                     records \in [1 .. 5 -> Record], i \in 1 .. 5 }

\* The values the traced program filters and transforms; the answer is its
\* output, from the last value to the first.
CodeValues(d) == <<d * 2, d * 2 + 1, d * 3 + 2, d * 4, d * 5 + 1, d * 6 + 2,
                   d * 7, d * 8 + 1>>

CodeOutput(d, factor, offset) ==
  LET out(i) == LET value == CodeValues(d)[i] IN
                IF value % d # 0 THEN <<(value + offset) * factor>> ELSE <<>>
  IN  out(8) \o out(6) \o out(4) \o out(2)

Code == { [prompt |-> <<d, factor, offset>>,
           expected |-> CodeOutput(d, factor, offset)] :
            d \in 3 .. 5, factor \in 2 .. 4, offset \in 1 .. 7 }

\* The token to repeat, to refuse with, or to prefer over the user's.
Token == { [prompt |-> "token", expected |-> "token"] }

Questions(i) ==
  CASE i = 2 -> Arithmetic
    [] i = 3 -> Logic
    [] i = 4 -> JSONQuestions
    [] i = 5 -> Code
    [] OTHER -> Token

-------------------------------------------------------------------------------
(* The replies. *)

\* choices may be wrapped several times; a choice has a message or a text, a
\* content of several parts, and a reason for its end.
Part == {"right", "wrong", "reasoning", "tool", "refusal", "odd"}

Reply == [wraps : {4, 5}, choice : {"message", "text", "none"},
          finish : {"stop", "cut"}, content : BoundedSeq(Part, MaxReplies)]

\* The text of a reply: its parts without those that are no part of the answer.
Answer(reply) == SelectSeq(reply.content, LAMBDA part : part \in {"right", "wrong"})

\* Unwrapping stops after four steps; a truncated or empty text, a refusal and
\* a part of an unknown kind are no answer.
Readable(reply) ==
  /\ reply.wraps <= 4
  /\ reply.choice # "none"
  /\ reply.finish = "stop"
  /\ \A i \in DOMAIN reply.content : reply.content[i] \notin {"refusal", "odd"}
  /\ Answer(reply) # <<>>

\* Mutant: a reply without an answer counts as a wrong answer.
ResultOfAnything(reply) ==
  IF Answer(reply) = <<"right">> THEN "passed" ELSE "failed"

\* The validator compares the whole text with what it expects.
Result(reply) ==
  IF ~Readable(reply) THEN "technical"
  ELSE IF Answer(reply) = <<"right">> THEN "passed"
  ELSE "failed"

\* What a request may end with instead of a reply.  A gateway that cannot be
\* reached, limits the rate or answers no JSON is asked once more.
Errors == {"unavailable", "refused", "deadline"}

Retried(error) == error = "unavailable"

MaxAttempts == 2

-------------------------------------------------------------------------------
(* The verdict. *)

MinScore         == 75
FailScore        == 55
MinTasks         == 5
CriticalFailures == 2

Marked(results, mark) == { i \in DOMAIN results : results[i] = mark }

Weights(tasks) ==
  LET weight(i) == IF i \in tasks THEN Weight[i] ELSE 0 IN
  weight(1) + weight(2) + weight(3) + weight(4) + weight(5) + weight(6) + weight(7)

\* Mutant: only the weights of failed questions are added up.
ScoreOfFailures(passed, failed) ==
  IF failed = {} THEN [earned |-> 0, of |-> 100]
  ELSE [earned |-> 100 * Weights(passed), of |-> Weights(failed)]

\* The score is the quotient of what was earned over the questions answered.
Score(passed, failed) ==
  [earned |-> 100 * Weights(passed), of |-> Weights(passed \cup failed)]

AtLeast(score, limit) == score.earned >= limit * score.of
AtMost(score, limit)  == score.earned <= limit * score.of

Verdict(results) ==
  LET passed == Marked(results, "passed")
      failed == Marked(results, "failed")
      wrong  == Cardinality(failed \cap Critical) IN
  IF \/ Marked(results, "technical") # {}
     \/ Marked(results, "skipped") # {}
     \/ Cardinality(passed \cup failed) < MinTasks
  THEN "UNKNOWN"
  ELSE IF AtLeast(Score(passed, failed), MinScore) /\ wrong = 0 THEN "PASSED"
  ELSE IF AtMost(Score(passed, failed), FailScore) \/ wrong >= CriticalFailures THEN "FAILED"
  ELSE "UNKNOWN"

-------------------------------------------------------------------------------
NoQuestion == [prompt |-> "none", expected |-> "none"]

Init ==
  /\ at = "loading"
  /\ question = NoQuestion
  /\ attempt = 0
  /\ sheet = <<>>
  /\ verdict = "UNKNOWN"
  /\ trouble = FALSE

\* The source, its key, the model and the address of the gateway are read.
Load ==
  /\ at = "loading"
  /\ at' = "choosing"
  /\ UNCHANGED <<question, attempt, sheet, verdict, trouble>>

LoadFails ==
  /\ at = "loading"
  /\ at' = "ended"
  /\ trouble' = TRUE
  /\ UNCHANGED <<question, attempt, sheet, verdict>>

Ask ==
  /\ at = "choosing"
  /\ Len(sheet) < Len(Weight)
  /\ question' \in Questions(Len(sheet) + 1)
  /\ attempt' = 1
  /\ at' = "asking"
  /\ UNCHANGED <<sheet, verdict, trouble>>

\* The first technical failure ends the run: the other questions are skipped.
GiveUp ==
  /\ sheet' = sheet \o <<"technical">>
                \o [i \in 1 .. Len(Weight) - Len(sheet) - 1 |-> "skipped"]
  /\ at' = "ended"
  /\ question' = NoQuestion
  /\ attempt' = 0
  /\ UNCHANGED verdict

Replied(reply) ==
  /\ at = "asking"
  /\ IF Result(reply) = "technical" THEN GiveUp
     ELSE /\ sheet' = Append(sheet, Result(reply))
          /\ at' = "choosing"
          /\ question' = NoQuestion
          /\ attempt' = 0
          /\ UNCHANGED verdict
  /\ trouble' = (trouble \/ ~Readable(reply))

Fails(error) ==
  /\ at = "asking"
  /\ IF Retried(error) /\ attempt < MaxAttempts
     THEN attempt' = attempt + 1 /\ UNCHANGED <<at, question, sheet, verdict, trouble>>
     ELSE GiveUp /\ trouble' = TRUE

\* Mutant: a run without a sheet of its own is judged as well.
JudgeEarly ==
  /\ at = "choosing"
  /\ Len(sheet) >= MinTasks
  /\ verdict' = Verdict(sheet)
  /\ UNCHANGED <<at, question, attempt, sheet, trouble>>

Judge ==
  /\ at = "choosing"
  /\ Len(sheet) = Len(Weight)
  /\ verdict' = Verdict(sheet)
  /\ at' = "ended"
  /\ UNCHANGED <<question, attempt, sheet, trouble>>

Next ==
  \/ Load
  \/ LoadFails
  \/ Ask
  \/ \E reply \in Reply : Replied(reply)
  \/ \E error \in Errors : Fails(error)
  \/ Judge

Spec == Init /\ [][Next]_vars

-------------------------------------------------------------------------------
Mark == {"passed", "failed", "technical", "skipped"}

\* The variables have their types, and only an ended run has a verdict
\* (executeModelQualityCheck, modelQualityTaskResult).
ProbeTypeOK ==
  /\ at \in {"loading", "choosing", "asking", "ended"}
  /\ attempt \in 0 .. MaxAttempts
  /\ attempt > 0 <=> at = "asking"
  /\ sheet \in BoundedSeq(Mark, Len(Weight))
  /\ verdict \in {"PASSED", "FAILED", "UNKNOWN"}
  /\ verdict # "UNKNOWN" => at = "ended"
  /\ trouble \in BOOLEAN

ExactDivision(p, e) == e >= 0 /\ e * p[4] = p[1] * p[2] - p[3]

OnlyOrder(p, e) == { place \in Orders : Clues(p, place) } = {e}

KeptInReverse(p, e) ==
  /\ e.items # <<>>
  /\ e.valid = (Cardinality(ToSet(e.items)) = 2)
  /\ ToSet(e.items) = { i \in 1 .. 5 : Keeps(p[i]) }
  /\ \A j \in 2 .. Len(e.items) : e.items[j] < e.items[j - 1]

\* What the prompt says has exactly one answer, and it is the one the program
\* expects: the division leaves no remainder, the clues fix the order, and the
\* records and values are never all filtered away
\* (modelQualityProbeValuesFor).
AnswersFollowPrompts ==
  at = "asking" =>
    LET n == Len(sheet) + 1
        p == question.prompt
        e == question.expected IN
    /\ n = 2 => ExactDivision(p, e)
    /\ n = 3 => OnlyOrder(p, e)
    /\ n = 4 => KeptInReverse(p, e)
    /\ n = 5 => e # <<>>

\* Technical trouble anywhere in a run is never taken for a lack of capability,
\* nor for a pass (parseModelQualityResponse, executeModelQualityTask,
\* modelQualityVerdict).
TroubleIsNotIncapacity == trouble => verdict = "UNKNOWN"

Rank(status) == CASE status = "FAILED" -> 0 [] status = "UNKNOWN" -> 1 [] OTHER -> 2

\* One more right answer never makes the verdict worse (modelQualityVerdict).
VerdictIsMonotone ==
  at = "ended" => \A i \in Marked(sheet, "failed") :
                    Rank(verdict) <= Rank(Verdict([sheet EXCEPT ![i] = "passed"]))

===============================================================================
