-------------------------- MODULE QualityProbe_proofs --------------------------
(***************************************************************************)
(* Theorems about QualityProbe for any start of the arithmetic question,   *)
(* any threshold and replies of any length.                                *)
(***************************************************************************)
EXTENDS QualityProbe, FiniteSetTheorems, TLAPS

(* A sheet is a sequence of at most seven marks. *)
LEMMA Sheets ==
  ASSUME NEW s
  PROVE  s \in BoundedSeq(Mark, Len(Weight)) <=> s \in Seq(Mark) /\ Len(s) <= 7
<1>1. Len(Weight) = 7
  BY DEF Weight
<1>2. ASSUME s \in BoundedSeq(Mark, Len(Weight))
      PROVE  s \in Seq(Mark) /\ Len(s) <= 7
  <2>1. PICK m \in 0 .. 7 : s \in [1 .. m -> Mark]
    BY <1>1, <1>2 DEF BoundedSeq, SeqOf
  <2>2. QED
    BY <2>1
<1>3. ASSUME s \in Seq(Mark), Len(s) <= 7
      PROVE  s \in BoundedSeq(Mark, Len(Weight))
  <2>1. s \in [1 .. Len(s) -> Mark]
    BY <1>3
  <2>2. Len(s) \in 0 .. 7
    <3>1. Len(s) \in Nat /\ Len(s) <= 7
      BY <1>3
    <3>2. \A n \in Nat : n <= 7 => n \in 0 .. 7
      OBVIOUS
    <3>3. QED
      BY <3>1, <3>2, Zenon
  <2>3. \E m \in 0 .. 7 : s \in [1 .. m -> Mark]
    <3> WITNESS Len(s) \in 0 .. 7
    <3>1. QED
      BY <2>1
  <2>4. QED
    BY <1>1, <2>3 DEF BoundedSeq, SeqOf
<1>4. QED
  BY <1>2, <1>3

LEMMA GivingUp ==
  ASSUME sheet \in Seq(Mark), Len(sheet) < 7, GiveUp
  PROVE  /\ sheet' \in Seq(Mark) 
         /\ Len(sheet') = 7
         /\ sheet'[Len(sheet) + 1] = "technical"
<1>1. Len(Weight) = 7
  BY DEF Weight
<1> DEFINE n    == 6 - Len(sheet)
           rest == [i \in 1 .. n |-> "skipped"]
<1>2. n \in Nat /\ sheet' = (sheet \o <<"technical">>) \o rest
  BY <1>1 DEF GiveUp
<1>3. rest \in Seq(Mark) /\ Len(rest) = n
  BY <1>2 DEF Mark
<1> HIDE DEF rest
<1>4. /\ sheet \o <<"technical">> \in Seq(Mark)
      /\ Len(sheet \o <<"technical">>) = Len(sheet) + 1
      /\ (sheet \o <<"technical">>)[Len(sheet) + 1] = "technical"
  BY DEF Mark
<1>5. QED
  BY <1>2, <1>3, <1>4
-------------------------------------------------------------------------------
(* The verdict. *)

LEMMA Marks ==
  ASSUME NEW s \in Seq(Mark), Len(s) <= 7, NEW mark
  PROVE  /\ Marked(s, mark) \subseteq 1 .. 7
         /\ IsFiniteSet(Marked(s, mark))
<1>1. Marked(s, mark) \in SUBSET (1 .. 7)
  BY DEF Marked
<1>2. IsFiniteSet(1 .. 7)
  <2>1. 1 \in Int /\ 7 \in Int
    OBVIOUS
  <2>2. QED
    BY <2>1, FS_Interval, Zenon
<1>3. QED
  BY <1>1, <1>2, FS_Subset

(* The weights of more questions add up to no less. *)
LEMMA WeightsGrow ==
  ASSUME NEW S \in SUBSET (1 .. 7), NEW T \in SUBSET (1 .. 7), S \subseteq T
  PROVE  /\ Weights(S) \in Nat
         /\ Weights(S) <= Weights(T)
BY DEF Weights, Weight

(* The results with one more right answer. *)
LEMMA Corrected ==
  ASSUME NEW s \in Seq(Mark), Len(s) <= 7, NEW i \in Marked(s, "failed"),
         NEW t, t = [s EXCEPT ![i] = "passed"]
  PROVE  /\ t \in Seq(Mark)
         /\ Len(t) <= 7
         /\ Marked(t, "passed") = Marked(s, "passed") \cup {i}
         /\ Marked(t, "failed") = Marked(s, "failed") \ {i}
         /\ Marked(t, "technical") = Marked(s, "technical")
         /\ Marked(t, "skipped") = Marked(s, "skipped")
<1>1. i \in DOMAIN s /\ s[i] = "failed"
  BY DEF Marked
<1>2. t \in Seq(Mark) /\ Len(t) = Len(s)
  <2>1. Len(s) \in Nat /\ s \in [1 .. Len(s) -> Mark]
    OBVIOUS
  <2>2. t \in [1 .. Len(s) -> Mark]
    BY <2>1 DEF Mark
  <2>3. QED
    BY <2>1, <2>2
<1>3. DOMAIN t = DOMAIN s
  OBVIOUS
<1>4. \A j \in DOMAIN s : t[j] = IF j = i THEN "passed" ELSE s[j]
  OBVIOUS
<1>5. QED
  BY <1>1, <1>2, <1>3, <1>4 DEF Marked

(* One more right answer never makes the verdict worse. *)
LEMMA VerdictGrows ==
  ASSUME NEW s \in Seq(Mark), Len(s) <= 7, NEW i \in Marked(s, "failed")
  PROVE  Rank(Verdict(s)) <= Rank(Verdict([s EXCEPT ![i] = "passed"]))
<1> DEFINE t  == [s EXCEPT ![i] = "passed"]
           Ps == Marked(s, "passed")
           Pt == Marked(t, "passed")
           Fs == Marked(s, "failed")
           Ft == Marked(t, "failed")
           Ws == Cardinality(Fs \cap Critical)
           Wt == Cardinality(Ft \cap Critical)
<1>1. /\ t \in Seq(Mark)
      /\ Len(t) <= 7
      /\ Pt = Ps \cup {i}
      /\ Ft = Fs \ {i}
      /\ Marked(t, "technical") = Marked(s, "technical")
      /\ Marked(t, "skipped") = Marked(s, "skipped")
  BY Corrected
<1>2. /\ Ps \subseteq 1 .. 7 /\ Pt \subseteq 1 .. 7
      /\ Fs \subseteq 1 .. 7 /\ IsFiniteSet(Fs)
  BY <1>1, Marks
<1>3. i \in Fs
  OBVIOUS
<1> HIDE DEF t, Ps, Pt, Fs, Ft
<1>4. Pt \cup Ft = Ps \cup Fs
  BY <1>1, <1>3
<1>5. Wt <= Ws /\ Wt \in Nat /\ Ws \in Nat
  <2>1. IsFiniteSet(Fs \cap Critical)
    BY <1>2, FS_Subset
  <2>2. Ft \cap Critical \in SUBSET (Fs \cap Critical)
    BY <1>1
  <2>3. QED
    BY <2>1, <2>2, FS_Subset, FS_CardinalityType
<1>6. /\ Weights(Ps) \in Nat /\ Weights(Pt) \in Nat
      /\ Weights(Ps) <= Weights(Pt)
  BY <1>1, <1>2, WeightsGrow
<1>7. Weights(Ps \cup Fs) \in Nat
  BY <1>2, WeightsGrow
<1>8. /\ AtLeast(Score(Ps, Fs), MinScore) => AtLeast(Score(Pt, Ft), MinScore)
      /\ AtMost(Score(Pt, Ft), FailScore) => AtMost(Score(Ps, Fs), FailScore)
  <2>1. /\ Score(Ps, Fs) = [earned |-> 100 * Weights(Ps), of |-> Weights(Ps \cup Fs)]
        /\ Score(Pt, Ft) = [earned |-> 100 * Weights(Pt), of |-> Weights(Ps \cup Fs)]
    BY <1>4 DEF Score
  <2>2. QED
    BY <1>6, <1>7, <2>1 DEF AtLeast, AtMost, MinScore, FailScore
<1>9. CASE \/ Marked(s, "technical") # {}
           \/ Marked(s, "skipped") # {}
           \/ Cardinality(Ps \cup Fs) < MinTasks
  <2>1. Verdict(s) = "UNKNOWN"
    BY <1>9 DEF Verdict, Ps, Fs
  <2>2. Verdict(t) = "UNKNOWN"
    BY <1>1, <1>4, <1>9 DEF Verdict, Pt, Ft
  <2>3. QED
    BY <2>1, <2>2 DEF Rank, t
<1>10. CASE ~ \/ Marked(s, "technical") # {}
              \/ Marked(s, "skipped") # {}
              \/ Cardinality(Ps \cup Fs) < MinTasks
  <2>1. Verdict(s) = IF AtLeast(Score(Ps, Fs), MinScore) /\ Ws = 0 THEN "PASSED"
                     ELSE IF AtMost(Score(Ps, Fs), FailScore) \/ Ws >= CriticalFailures
                          THEN "FAILED" ELSE "UNKNOWN"
    BY <1>10 DEF Verdict, Ps, Fs
  <2>2. Verdict(t) = IF AtLeast(Score(Pt, Ft), MinScore) /\ Wt = 0 THEN "PASSED"
                     ELSE IF AtMost(Score(Pt, Ft), FailScore) \/ Wt >= CriticalFailures
                          THEN "FAILED" ELSE "UNKNOWN"
    BY <1>1, <1>4, <1>10 DEF Verdict, Pt, Ft
  <2>3. Ws = 0 => Wt = 0
    BY <1>5
  <2>4. Wt >= CriticalFailures => Ws >= CriticalFailures
    BY <1>5 DEF CriticalFailures
  <2>5. QED
    BY <1>8, <2>1, <2>2, <2>3, <2>4 DEF Rank, t
<1>11. QED
  BY <1>9, <1>10

LEMMA NoVerdict ==
  ASSUME NEW s \in Seq(Mark), s = <<>> \/ \E j \in 1 .. Len(s) : s[j] = "technical"
  PROVE  Verdict(s) = "UNKNOWN"
<1>1. CASE s = <<>>
  <2>1. Marked(s, "passed") \cup Marked(s, "failed") = {}
    BY <1>1 DEF Marked
  <2>2. Cardinality(Marked(s, "passed") \cup Marked(s, "failed")) < MinTasks
    <3>1. Cardinality({}) = 0
      BY FS_EmptySet, Zenon
    <3>2. 0 < MinTasks
      BY DEF MinTasks
    <3>3. QED
      BY <2>1, <3>1, <3>2, Zenon
  <2>3. QED
    BY <2>2 DEF Verdict
<1>2. CASE \E j \in 1 .. Len(s) : s[j] = "technical"
  <2>1. Marked(s, "technical") # {}
    BY <1>2 DEF Marked
  <2>2. QED
    BY <2>1 DEF Verdict
<1>3. QED
  BY <1>1, <1>2

-------------------------------------------------------------------------------
(* The run. *)

(* A run that goes on has met no trouble; one that has ended has the       *)
(* verdict over its sheet, and none after trouble.                         *)
ProbeInv ==
  /\ ProbeTypeOK
  /\ at = "asking" => Len(sheet) < 7 /\ question \in Questions(Len(sheet) + 1)
  /\ at = "loading" => sheet = <<>>
  /\ at # "ended" => ~trouble
  /\ at = "ended" => verdict = Verdict(sheet)
  /\ TroubleIsNotIncapacity

LEMMA InitProbe == Init => ProbeInv
<1> SUFFICES ASSUME Init PROVE ProbeInv
  OBVIOUS
<1>1. sheet \in BoundedSeq(Mark, Len(Weight))
  <2>1. <<>> \in Seq(Mark) /\ Len(<<>>) <= 7
    OBVIOUS
  <2>2. QED
    BY <2>1, Sheets DEF Init
<1>2. attempt \in 0 .. MaxAttempts /\ ~(attempt > 0)
  BY DEF Init, MaxAttempts
<1>3. QED
  BY <1>1, <1>2 DEF Init, ProbeInv, ProbeTypeOK, TroubleIsNotIncapacity

(* A run that is given up is about no capability. *)
LEMMA GiveUpKeeps ==
  ASSUME ProbeInv, at = "asking", GiveUp, trouble' \in BOOLEAN
  PROVE  ProbeInv'
<1>1. sheet \in Seq(Mark) /\ Len(sheet) < 7
  BY Sheets DEF ProbeInv, ProbeTypeOK
<1>2. sheet' \in Seq(Mark) /\ Len(sheet') = 7 /\ sheet'[Len(sheet) + 1] = "technical"
  BY <1>1, GivingUp
<1>3. Verdict(sheet') = "UNKNOWN"
  BY <1>1, <1>2, NoVerdict
<1>4. verdict' = "UNKNOWN"
  BY DEF GiveUp, ProbeInv, ProbeTypeOK
<1>5. sheet' \in BoundedSeq(Mark, Len(Weight))
  BY <1>2, Sheets, 7 <= 7
<1>6. at' = "ended" /\ attempt' = 0
  BY DEF GiveUp
<1>7. QED
  BY <1>3, <1>4, <1>5, <1>6
     DEF ProbeInv, ProbeTypeOK, TroubleIsNotIncapacity, MaxAttempts

LEMMA StepProbe ==
  ASSUME ProbeInv, [Next]_vars
  PROVE  ProbeInv'
<1> USE DEF ProbeInv, ProbeTypeOK, TroubleIsNotIncapacity, MaxAttempts
<1>0. sheet \in Seq(Mark) /\ Len(sheet) <= 7 /\ Len(sheet) \in Nat
  BY Sheets
<1>1. CASE Load
  BY <1>1 DEF Load
<1>2. CASE LoadFails
  <2>1. Verdict(sheet) = "UNKNOWN"
    BY <1>0, <1>2, NoVerdict DEF LoadFails
  <2>2. QED
    BY <1>2, <2>1 DEF LoadFails
<1>3. CASE Ask
  <2>1. Len(Weight) = 7
    BY DEF Weight
  <2>2. Len(sheet) < 7 /\ question' \in Questions(Len(sheet) + 1)
    BY <1>3, <2>1 DEF Ask
  <2>3. QED
    BY <1>3, <2>2 DEF Ask
<1>4. ASSUME NEW reply \in Reply, Replied(reply)
      PROVE  ProbeInv'
  <2>1. CASE Result(reply) = "technical"
    BY <1>4, <2>1, GiveUpKeeps DEF Replied, Readable
  <2>2. CASE Result(reply) # "technical"
    <3>1. Readable(reply)
      BY <2>2 DEF Result
    <3>2. Result(reply) \in Mark
      BY DEF Result, Mark
    <3>3. sheet' = Append(sheet, Result(reply)) /\ at' = "choosing"
      BY <1>4, <2>2 DEF Replied
    <3>4. sheet' \in Seq(Mark) /\ Len(sheet') = Len(sheet) + 1 /\ Len(sheet) < 7
      BY <1>0, <1>4, <3>2, <3>3 DEF Replied
    <3>5. sheet' \in BoundedSeq(Mark, Len(Weight))
      BY <1>0, <3>4, Sheets
    <3>6. QED
      BY <1>4, <2>2, <3>1, <3>3, <3>5 DEF Replied
  <2>3. QED
    BY <2>1, <2>2
<1>5. ASSUME NEW error \in Errors, Fails(error)
      PROVE  ProbeInv'
  <2>1. CASE Retried(error) /\ attempt < MaxAttempts
    BY <1>5, <2>1 DEF Fails
  <2>2. CASE ~(Retried(error) /\ attempt < MaxAttempts)
    BY <1>5, <2>2, GiveUpKeeps DEF Fails
  <2>3. QED
    BY <2>1, <2>2
<1>6. CASE Judge
  <2>1. Verdict(sheet) \in {"PASSED", "FAILED", "UNKNOWN"}
    BY DEF Verdict
  <2>2. QED
    BY <1>6, <2>1 DEF Judge
<1>7. CASE UNCHANGED vars
  BY <1>7 DEF vars
<1>8. QED
  BY <1>1, <1>2, <1>3, <1>4, <1>5, <1>6, <1>7 DEF Next

LEMMA ProbeInvariant == Spec => []ProbeInv
BY InitProbe, StepProbe, PTL DEF Spec

(* The variables of a run have their types, and only an ended run has a    *)
(* verdict, for replies of any length and any mix of failures.             *)
THEOREM ProbeTypeCorrect == Spec => []ProbeTypeOK
<1>1. ProbeInv => ProbeTypeOK
  BY DEF ProbeInv
<1>2. QED
  BY <1>1, ProbeInvariant, PTL

(* No reply and no failure of a request, however it is retried, lets       *)
(* technical trouble be judged a lack of capability, or a pass.            *)
THEOREM TroubleIsUnknown == Spec => []TroubleIsNotIncapacity
<1>1. ProbeInv => TroubleIsNotIncapacity
  BY DEF ProbeInv
<1>2. QED
  BY <1>1, ProbeInvariant, PTL

(* One more right answer never makes the verdict of a run worse: the score *)
(* grows, fewer critical questions are failed, and as many are answered.   *)
THEOREM VerdictsAreMonotone == Spec => []VerdictIsMonotone
<1>1. ProbeInv => VerdictIsMonotone
  BY Sheets, VerdictGrows DEF ProbeInv, ProbeTypeOK, VerdictIsMonotone
<1>2. QED
  BY <1>1, ProbeInvariant, PTL

-------------------------------------------------------------------------------
(* The questions. *)

(* The remainder is what is subtracted, and a few times the divisor. *)
LEMMA Divides ==
  ASSUME NEW base \in Nat, base >= 54, NEW by \in 2 .. 6, NEW extra \in 2 .. 6
  PROVE  LET rest == base - Subtract(base, by, extra) IN
         rest \div by >= 0 /\ (rest \div by) * by = rest
<1> USE DEF Subtract
<1>1. CASE by = 2
  BY <1>1
<1>2. CASE by = 3
  BY <1>2
<1>3. CASE by = 4
  BY <1>3
<1>4. CASE by = 5
  BY <1>4
<1>5. CASE by = 6
  BY <1>5
<1>6. QED
  BY <1>1, <1>2, <1>3, <1>4, <1>5

LEMMA ArithmeticIsExact ==
  ASSUME NEW q \in Arithmetic
  PROVE  ExactDivision(q.prompt, q.expected)
<1>1. PICK start \in Starts, times \in 3 .. 7, by \in 2 .. 6, extra \in 2 .. 6 :
        q = [prompt |-> <<start, times, Subtract(start * times, by, extra), by>>,
             expected |-> (start * times - Subtract(start * times, by, extra)) \div by]
  BY DEF Arithmetic
<1>2. start * times \in Nat /\ start * times >= 54
  <2>1. start \in 18 .. 40
    BY ProbeAssumption
  <2>2. QED
    BY <2>1
<1> DEFINE base == start * times
           sub  == Subtract(base, by, extra)
<1>3. (base - sub) \div by >= 0 /\ ((base - sub) \div by) * by = base - sub
  BY <1>2, Divides
<1>4. /\ q.expected = (base - sub) \div by
      /\ q.prompt[1] = start /\ q.prompt[2] = times
      /\ q.prompt[3] = sub /\ q.prompt[4] = by
  BY <1>1
<1> HIDE DEF sub
<1>5. QED
  BY <1>3, <1>4 DEF ExactDivision

(* Where the symbols stand is the order read the other way round. *)
LEMMA Places ==
  ASSUME NEW order \in Orders
  PROVE  /\ Place(order) \in Orders
         /\ \A i \in 1 .. 5 : Place(order)[order[i]] = i
<1>1. order \in [1 .. 5 -> 1 .. 5]
      /\ \A i, j \in 1 .. 5 : order[i] = order[j] => i = j
  BY DEF Orders, IsInjective
<1>2. \A symbol \in 1 .. 5 : \E i \in 1 .. 5 : order[i] = symbol
  BY <1>1
<1>3. /\ Place(order) \in [1 .. 5 -> 1 .. 5]
      /\ \A symbol \in 1 .. 5 : order[Place(order)[symbol]] = symbol
  BY <1>2 DEF Place
<1>4. \A i \in 1 .. 5 : Place(order)[order[i]] = i
  BY <1>1, <1>3
<1>5. Place(order) \in Orders
  BY <1>3 DEF Orders, IsInjective
<1>6. QED
  BY <1>4, <1>5

(* Four symbols in a row leave the fifth one the last place. *)
LEMMA CluesFixPlaces ==
  ASSUME NEW names \in Orders, NEW place \in Orders, Clues(names, place)
  PROVE  \A i \in 1 .. 5 : place[names[i]] = i
<1> DEFINE p(i) == place[names[i]]
<1>1. \A i \in 1 .. 5 : p(i) \in 1 .. 5
  BY DEF Orders
<1>2. \A i, j \in 1 .. 5 : p(i) = p(j) => i = j
  BY DEF Orders, IsInjective
<1>3. /\ p(2) = p(1) + 1
      /\ p(4) = p(3) + 1
      /\ p(2) < p(3)
      /\ p(4) # 5
  BY DEF Clues
<1> HIDE DEF p
<1>4. p(1) = 1 /\ p(2) = 2 /\ p(3) = 3 /\ p(4) = 4
  BY <1>1, <1>3
<1>5. p(5) = 5
  BY <1>1, <1>2, <1>4
<1>6. \A i \in 1 .. 5 : p(i) = i
  BY <1>4, <1>5
<1>7. QED
  BY <1>6 DEF p

LEMMA LogicIsUnique ==
  ASSUME NEW q \in Logic
  PROVE  OnlyOrder(q.prompt, q.expected)
<1>1. PICK order \in Orders : q = [prompt |-> order, expected |-> Place(order)]
  BY DEF Logic
<1>2. Clues(order, Place(order))
  BY Places DEF Clues
<1>3. ASSUME NEW place \in Orders, Clues(order, place)
      PROVE  place = Place(order)
  <2>1. \A i \in 1 .. 5 : place[order[i]] = Place(order)[order[i]]
    BY <1>3, CluesFixPlaces, Places
  <2>2. \A symbol \in 1 .. 5 : \E i \in 1 .. 5 : order[i] = symbol
    BY DEF Orders, IsInjective
  <2>3. \A symbol \in 1 .. 5 : place[symbol] = Place(order)[symbol]
    BY <2>1, <2>2
  <2>4. place \in [1 .. 5 -> 1 .. 5] /\ Place(order) \in [1 .. 5 -> 1 .. 5]
    BY Places DEF Orders
  <2>5. QED
    BY <2>3, <2>4
<1>4. QED
  BY <1>1, <1>2, <1>3, Places DEF OnlyOrder

(* A sequence of records' numbers that grow, up to n at most.              *)
Ascends(s, n) ==
  /\ s \in Seq(1 .. 5)
  /\ \A j \in 1 .. Len(s) : s[j] <= n
  /\ \A j, k \in 1 .. Len(s) : j < k => s[j] < s[k]

(* One more record, which is kept or not.                                  *)
LEMMA OneMore ==
  ASSUME NEW s, NEW n \in 0 .. 4, Ascends(s, n), NEW t, t \in {<<>>, <<n + 1>>}
  PROVE  Ascends(s \o t, n + 1) /\ ToSet(s \o t) = ToSet(s) \cup ToSet(t)
<1>1. CASE t = <<>>
  <2>1. s \o t = s
    BY <1>1 DEF Ascends
  <2>2. ToSet(t) = {}
    BY <1>1 DEF ToSet
  <2>3. QED
    BY <2>1, <2>2 DEF Ascends
<1>2. CASE t = <<n + 1>>
  <2> DEFINE u == s \o t
  <2>1. /\ u \in Seq(1 .. 5) /\ Len(u) = Len(s) + 1 /\ Len(s) \in Nat
        /\ \A j \in 1 .. Len(s) : u[j] = s[j]
        /\ u[Len(s) + 1] = n + 1
    BY <1>2 DEF Ascends
  <2> HIDE DEF u
  <2>2. \A j \in 1 .. Len(u) : j \in 1 .. Len(s) \/ j = Len(s) + 1
    BY <2>1
  <2>3. \A j \in 1 .. Len(s) : s[j] \in 1 .. 5 /\ s[j] < n + 1
    BY DEF Ascends
  <2>4. Ascends(u, n + 1)
    <3>1. \A j \in 1 .. Len(u) : u[j] <= n + 1
      BY <2>1, <2>2, <2>3
    <3>2. ASSUME NEW j \in 1 .. Len(u), NEW k \in 1 .. Len(u), j < k
          PROVE  u[j] < u[k]
      <4>1. j \in 1 .. Len(s)
        BY <2>1, <2>2, <3>2
      <4>2. CASE k \in 1 .. Len(s)
        BY <2>1, <3>2, <4>1, <4>2 DEF Ascends
      <4>3. CASE k = Len(s) + 1
        BY <2>1, <2>3, <4>1, <4>3
      <4>4. QED
        BY <2>2, <4>2, <4>3
    <3>3. QED
      BY <2>1, <3>1, <3>2 DEF Ascends
  <2>5. ToSet(u) = ToSet(s) \cup {n + 1}
    <3>1. DOMAIN u = 1 .. Len(u) /\ DOMAIN s = 1 .. Len(s)
      BY <2>1 DEF Ascends
    <3>2. ASSUME NEW x \in ToSet(u)
          PROVE  x \in ToSet(s) \cup {n + 1}
      <4>1. PICK j \in 1 .. Len(u) : x = u[j]
        BY <3>1, <3>2 DEF ToSet
      <4>2. QED
        BY <2>1, <2>2, <3>1, <4>1 DEF ToSet
    <3>3. ASSUME NEW x \in ToSet(s)
          PROVE  x \in ToSet(u)
      <4>1. PICK j \in 1 .. Len(s) : x = s[j]
        BY <3>1, <3>3 DEF ToSet
      <4>2. j \in 1 .. Len(u) /\ u[j] = x
        BY <2>1, <4>1
      <4>3. QED
        BY <3>1, <4>2 DEF ToSet
    <3>4. n + 1 \in ToSet(u)
      <4>1. Len(s) + 1 \in 1 .. Len(u)
        BY <2>1
      <4>2. QED
        BY <2>1, <3>1, <4>1 DEF ToSet
    <3>5. QED
      BY <3>2, <3>3, <3>4
  <2>6. ToSet(t) = {n + 1}
    <3>1. DOMAIN t = {1} /\ t[1] = n + 1
      BY <1>2
    <3>2. QED
      BY <3>1 DEF ToSet
  <2>7. QED
    BY <2>4, <2>5, <2>6 DEF u
<1>3. QED
  BY <1>1, <1>2

(* The kept records, in their order.                                       *)
LEMMA KeptAscend ==
  ASSUME NEW r
  PROVE  Ascends(Kept(r), 5) /\ ToSet(Kept(r)) = {i \in 1 .. 5 : Keeps(r[i])}
<1> DEFINE kept(i) == IF Keeps(r[i]) THEN <<i>> ELSE <<>>
<1>1. \A i \in 1 .. 5 : kept(i) \in {<<>>, <<i>>} /\ ToSet(kept(i)) = {j \in {i} : Keeps(r[j])}
  <2>1. TAKE i \in 1 .. 5
  <2>2. CASE Keeps(r[i])
    <3>1. kept(i) = <<i>> /\ DOMAIN <<i>> = {1} /\ <<i>>[1] = i
      BY <2>2
    <3>2. ToSet(kept(i)) = {i}
      BY <3>1 DEF ToSet
    <3>3. QED
      BY <2>2, <3>1, <3>2
  <2>3. CASE ~Keeps(r[i])
    <3>1. kept(i) = <<>> /\ DOMAIN <<>> = {}
      BY <2>3
    <3>2. ToSet(kept(i)) = {}
      BY <3>1 DEF ToSet
    <3>3. QED
      BY <2>3, <3>1, <3>2
  <2>4. QED
    BY <2>2, <2>3
<1>2. Kept(r) = kept(1) \o kept(2) \o kept(3) \o kept(4) \o kept(5)
  BY DEF Kept
<1>3. Ascends(<<>>, 0) /\ ToSet(<<>>) = {} /\ <<>> \o kept(1) = kept(1)
  <2>1. Ascends(<<>>, 0)
    BY DEF Ascends
  <2>2. ToSet(<<>>) = {}
    BY DEF ToSet
  <2>3. <<>> \o kept(1) = kept(1)
    <3>1. kept(1) \in {<<>>, <<1>>}
      BY <1>1
    <3> HIDE DEF kept
    <3>2. <<>> \o <<>> = <<>> /\ <<>> \o <<1>> = <<1>>
      OBVIOUS
    <3>3. QED
      BY <3>1, <3>2
  <2>4. QED
    BY <2>1, <2>2, <2>3
<1> HIDE DEF kept
<1> DEFINE s1 == kept(1)
           s2 == s1 \o kept(2)
           s3 == s2 \o kept(3)
           s4 == s3 \o kept(4)
           s5 == s4 \o kept(5)
<1>4. Ascends(s1, 1) /\ ToSet(s1) = ToSet(kept(1))
  <2>1. kept(1) \in {<<>>, <<0 + 1>>}
    BY <1>1
  <2>2. Ascends(<<>> \o kept(1), 0 + 1)
    <3>1. 0 \in 0 .. 4
      OBVIOUS
    <3>2. QED
      BY <1>3, <2>1, <3>1, OneMore, Zenon
  <2>3. 0 + 1 = 1
    OBVIOUS
  <2>4. Ascends(kept(1), 1)
    BY <1>3, <2>2, <2>3, Zenon
  <2>5. QED
    BY <2>4, Zenon
<1>5. Ascends(s2, 2) /\ ToSet(s2) = ToSet(s1) \cup ToSet(kept(2))
  <2>1. kept(2) \in {<<>>, <<1 + 1>>}
    BY <1>1
  <2> HIDE DEF s1
  <2>2. Ascends(s1 \o kept(2), 1 + 1) /\ ToSet(s1 \o kept(2)) = ToSet(s1) \cup ToSet(kept(2))
    BY <1>4, <2>1, OneMore
  <2>3. QED
    BY <2>2
<1>6. Ascends(s3, 3) /\ ToSet(s3) = ToSet(s2) \cup ToSet(kept(3))
  <2>1. kept(3) \in {<<>>, <<2 + 1>>}
    BY <1>1
  <2> HIDE DEF s2
  <2>2. Ascends(s2 \o kept(3), 2 + 1) /\ ToSet(s2 \o kept(3)) = ToSet(s2) \cup ToSet(kept(3))
    BY <1>5, <2>1, OneMore
  <2>3. QED
    BY <2>2
<1>7. Ascends(s4, 4) /\ ToSet(s4) = ToSet(s3) \cup ToSet(kept(4))
  <2>1. kept(4) \in {<<>>, <<3 + 1>>}
    BY <1>1
  <2> HIDE DEF s3
  <2>2. Ascends(s3 \o kept(4), 3 + 1) /\ ToSet(s3 \o kept(4)) = ToSet(s3) \cup ToSet(kept(4))
    BY <1>6, <2>1, OneMore
  <2>3. QED
    BY <2>2
<1>8. Ascends(s5, 5) /\ ToSet(s5) = ToSet(s4) \cup ToSet(kept(5))
  <2>1. kept(5) \in {<<>>, <<4 + 1>>}
    BY <1>1
  <2> HIDE DEF s4
  <2>2. Ascends(s4 \o kept(5), 4 + 1) /\ ToSet(s4 \o kept(5)) = ToSet(s4) \cup ToSet(kept(5))
    BY <1>7, <2>1, OneMore
  <2>3. QED
    BY <2>2
<1>9. Kept(r) = s5
  BY <1>2
<1> HIDE DEF s1, s2, s3, s4, s5
<1>10. ToSet(s5) = {i \in 1 .. 5 : Keeps(r[i])}
  <2>1. ToSet(s5) = ToSet(kept(1)) \cup ToSet(kept(2)) \cup ToSet(kept(3)) \cup ToSet(kept(4))
                      \cup ToSet(kept(5))
    BY <1>4, <1>5, <1>6, <1>7, <1>8
  <2>2. \A i : i \in 1 .. 5 <=> i \in {1, 2, 3, 4, 5}
    OBVIOUS
  <2>3. QED
    BY <1>1, <2>1, <2>2
<1>11. QED
  BY <1>8, <1>9, <1>10

(* The expected items are the kept records, backwards.                     *)
LEMMA ItemsFollow ==
  ASSUME NEW r, Kept(r) # <<>>
  PROVE  KeptInReverse(r, JSONQuestion(r).expected)
<1> DEFINE s == Kept(r)
           e == JSONQuestion(r).expected
<1>1. e.items = Reverse(s) /\ e.valid = (Len(s) = 2)
  BY DEF JSONQuestion
<1>2. Ascends(s, 5) /\ ToSet(s) = {i \in 1 .. 5 : Keeps(r[i])}
  BY KeptAscend
<1> HIDE DEF s, e
<1>3. s \in Seq(1 .. 5) /\ Len(s) \in Nat /\ DOMAIN s = 1 .. Len(s)
  BY <1>2 DEF Ascends
<1>4. Len(s) > 0
  BY <1>3 DEF s
<1>5. /\ Reverse(s) \in Seq(1 .. 5) /\ Len(Reverse(s)) = Len(s)
      /\ DOMAIN Reverse(s) = 1 .. Len(s)
      /\ \A j \in 1 .. Len(s) : Reverse(s)[j] = s[Len(s) - j + 1]
  <2>1. \A j \in 1 .. Len(s) : s[Len(s) - j + 1] \in 1 .. 5
    BY <1>3
  <2>2. Reverse(s) = [j \in 1 .. Len(s) |-> s[Len(s) - j + 1]]
    BY DEF Reverse
  <2>3. QED
    BY <1>3, <2>1, <2>2
<1>6. ToSet(Reverse(s)) = ToSet(s)
  <2>1. ASSUME NEW x \in ToSet(Reverse(s))
        PROVE  x \in ToSet(s)
    <3>1. PICK j \in 1 .. Len(s) : x = s[Len(s) - j + 1]
      BY <1>5, <2>1 DEF ToSet
    <3>2. Len(s) - j + 1 \in 1 .. Len(s)
      BY <1>3
    <3>3. QED
      BY <1>3, <3>1, <3>2 DEF ToSet
  <2>2. ASSUME NEW x \in ToSet(s)
        PROVE  x \in ToSet(Reverse(s))
    <3>1. PICK j \in 1 .. Len(s) : x = s[j]
      BY <1>3, <2>2 DEF ToSet
    <3>2. Len(s) - j + 1 \in 1 .. Len(s) /\ Len(s) - (Len(s) - j + 1) + 1 = j
      BY <1>3
    <3>3. Reverse(s)[Len(s) - j + 1] = x
      BY <1>5, <3>1, <3>2
    <3>4. QED
      BY <1>5, <3>2, <3>3 DEF ToSet
  <2>3. QED
    BY <2>1, <2>2
<1>7. Cardinality(ToSet(s)) = Len(s)
  <2>1. s \in Bijection(1 .. Len(s), ToSet(s))
    <3>1. s \in [1 .. Len(s) -> ToSet(s)]
      BY <1>3 DEF ToSet
    <3>2. \A j, k \in 1 .. Len(s) : s[j] = s[k] => j = k
      <4>1. \A j, k \in 1 .. Len(s) : j < k => s[j] < s[k]
        BY <1>2 DEF Ascends
      <4>2. QED
        BY <1>3, <4>1
    <3>3. \A x \in ToSet(s) : \E j \in 1 .. Len(s) : s[j] = x
      BY <1>3 DEF ToSet
    <3>4. QED
      BY <3>1, <3>2, <3>3 DEF Bijection, Injection, Surjection, IsInjective
  <2>2. IsFiniteSet(1 .. Len(s)) /\ Cardinality(1 .. Len(s)) = Len(s)
    <3>1. 1 \in Int /\ Len(s) \in Int
      BY <1>3
    <3>2. /\ IsFiniteSet(1 .. Len(s))
          /\ Cardinality(1 .. Len(s)) = IF 1 > Len(s) THEN 0 ELSE Len(s) - 1 + 1
      BY <3>1, FS_Interval, Zenon
    <3>3. QED
      BY <1>3, <3>2
  <2>3. QED
    <3>1. ExistsBijection(1 .. Len(s), ToSet(s))
      BY <2>1 DEF ExistsBijection
    <3>2. Cardinality(ToSet(s)) = Cardinality(1 .. Len(s))
      BY <2>2, <3>1, FS_Bijection, Zenon
    <3>3. QED
      BY <2>2, <3>2
<1>8. \A j \in 2 .. Len(e.items) : e.items[j] < e.items[j - 1]
  <2>1. ASSUME NEW j \in 2 .. Len(s)
        PROVE  Reverse(s)[j] < Reverse(s)[j - 1]
    <3>1. /\ j \in 1 .. Len(s) /\ j - 1 \in 1 .. Len(s)
          /\ Len(s) - j + 1 \in 1 .. Len(s) /\ Len(s) - (j - 1) + 1 \in 1 .. Len(s)
          /\ Len(s) - j + 1 < Len(s) - (j - 1) + 1
      BY <1>3
    <3>2. QED
      BY <1>2, <1>5, <3>1 DEF Ascends
  <2>2. QED
    BY <1>1, <1>5, <2>1
<1>9. e.items # <<>>
  BY <1>1, <1>4, <1>5
<1>10. QED
  BY <1>1, <1>2, <1>6, <1>7, <1>8, <1>9 DEF KeptInReverse, e

(* Every record question keeps a record.                                   *)
LEMMA RecordsFollow ==
  ASSUME NEW q \in JSONQuestions
  PROVE  KeptInReverse(q.prompt, q.expected)
<1>1. PICK records \in [1 .. 5 -> Record], i \in 1 .. 5 :
        q = JSONQuestion(WithSomeKept(records, i))
  BY DEF JSONQuestions
<1> DEFINE changed == [records EXCEPT ![i] = [enabled |-> TRUE, amount |-> Threshold + 3]]
<1>2. ASSUME NEW r, Kept(r) # <<>>, q = JSONQuestion(r)
      PROVE  KeptInReverse(q.prompt, q.expected)
  <2>1. q.prompt = r
    BY <1>2 DEF JSONQuestion
  <2>2. QED
    BY <1>2, <2>1, ItemsFollow
<1>3. Kept(changed) # <<>>
  <2>1. Keeps(changed[i])
    <3>1. changed[i] = [enabled |-> TRUE, amount |-> Threshold + 3]
      OBVIOUS
    <3>2. Threshold \in Nat
      BY ProbeAssumption
    <3>3. QED
      BY <3>1, <3>2 DEF Keeps
  <2>2. i \in ToSet(Kept(changed))
    BY <2>1, KeptAscend
  <2>3. ToSet(<<>>) = {}
    BY DEF ToSet
  <2>4. QED
    BY <2>2, <2>3
<1>4. Kept(WithSomeKept(records, i)) # <<>>
  BY <1>3, Zenon DEF WithSomeKept
<1>5. QED
  BY <1>1, <1>2, <1>4

(* The traced program never filters everything away: it always keeps the   *)
(* second value.                                                           *)
LEMMA CodeHasOutput ==
  ASSUME NEW q \in Code
  PROVE  q.expected # <<>>
<1>1. PICK d \in 3 .. 5, factor \in 2 .. 4, offset \in 1 .. 7 : q.expected = CodeOutput(d, factor, offset)
  BY DEF Code
<1> DEFINE out(i) == LET value == CodeValues(d)[i] IN
                     IF value % d # 0 THEN <<(value + offset) * factor>> ELSE <<>>
<1>2. q.expected = out(8) \o out(6) \o out(4) \o out(2)
  BY <1>1 DEF CodeOutput
<1>3. \A i \in 1 .. 8 : CodeValues(d)[i] \in Nat
  BY DEF CodeValues
<1>4. \A i \in 1 .. 8 : out(i) \in Seq(Nat)
  <2>1. TAKE i \in 1 .. 8
  <2>2. PICK v \in Nat : v = CodeValues(d)[i]
    BY <1>3
  <2>3. (v + offset) * factor \in Nat
    OBVIOUS
  <2>4. QED
    BY <2>2, <2>3
<1>5. Len(out(2)) = 1
  <2>1. CodeValues(d)[2] = d * 2 + 1
    BY DEF CodeValues
  <2>2. (d * 2 + 1) % d # 0
    <3>1. d = 3 \/ d = 4 \/ d = 5
      OBVIOUS
    <3>2. (3 * 2 + 1) % 3 = 1 /\ (4 * 2 + 1) % 4 = 1 /\ (5 * 2 + 1) % 5 = 1
      OBVIOUS
    <3>3. QED
      BY <3>1, <3>2
  <2>3. QED
    BY <2>1, <2>2
<1> HIDE DEF out
<1>6. Len(out(8) \o out(6) \o out(4) \o out(2)) > 0
  <2>1. out(8) \in Seq(Nat) /\ out(6) \in Seq(Nat) /\ out(4) \in Seq(Nat) /\ out(2) \in Seq(Nat)
    BY <1>4
  <2>2. out(8) \o out(6) \o out(4) \in Seq(Nat)
    BY <2>1
  <2>3. QED
    <3> DEFINE start == out(8) \o out(6) \o out(4)
    <3>1. start \in Seq(Nat) /\ out(2) \in Seq(Nat)
      BY <2>1, <2>2
    <3> HIDE DEF start
    <3>2. Len(start \o out(2)) = Len(start) + Len(out(2)) /\ Len(start) \in Nat
      BY <3>1
    <3>3. Len(start \o out(2)) > 0
      BY <1>5, <3>2
    <3>4. QED
      BY <3>3 DEF start
<1>7. Len(q.expected) > 0
  BY <1>2, <1>6
<1>8. Len(<<>>) = 0
  OBVIOUS
<1>9. SUFFICES ASSUME q.expected = <<>>
               PROVE  FALSE
  OBVIOUS
<1>10. Len(q.expected) = 0
  BY <1>8, <1>9, Zenon
<1>11. QED
  BY <1>7, <1>10

(* Each question has one answer, which the program expects: the quotient,  *)
(* the order, the kept records backwards, an output that is not empty      *)
(* (modelQualityProbeValuesFor).                                           *)
THEOREM AnswersAreRight == Spec => []AnswersFollowPrompts
<1>1. ProbeInv => AnswersFollowPrompts
  BY ArithmeticIsExact, LogicIsUnique, RecordsFollow, CodeHasOutput
     DEF ProbeInv, Questions, AnswersFollowPrompts
<1>2. QED
  BY <1>1, ProbeInvariant, PTL

===============================================================================
