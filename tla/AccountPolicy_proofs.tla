-------------------------- MODULE AccountPolicy_proofs --------------------------
(***************************************************************************)
(* Proofs about AccountPolicy, for any accounts, limits, holds and figures *)
(* and any number of events.                                               *)
(***************************************************************************)
EXTENDS AccountPolicy, FiniteSetTheorems, TLAPS

State == {"NORMAL", "OBSERVING", "SLOW"}

Row == [state : State, bad : 0 .. BadLimit, good : 0 .. GoodLimit, at : Age,
        since : 0 .. Hold, fallback : BOOLEAN, on : BOOLEAN, priority : Priority]

Request == [kind : {"rebuild"}, priority : Priority]
           \cup [kind : {"priority"}, priority : Priority, release : BOOLEAN]
           \cup [kind : {"switch"}, on : BOOLEAN]

Cap == Larger(BadLimit, GoodLimit)

Streak == [verdict : Verdict, length : 0 .. Cap]

(* A measurement that was used is not newer than the account's last one.   *)
UsedIsOld ==
  \A a \in Account : /\ business[a].used => account[a].at <= business[a].age
                     /\ probe[a].used => account[a].at <= probe[a].age

(* The counters of an account do not exceed the streak of equal verdicts   *)
(* that different measurements made.                                       *)
CountsAreStreaks ==
  \A a \in Account :
    /\ account[a].state # "SLOW" /\ account[a].bad > 0 =>
         streak[a].verdict = "bad" /\ streak[a].length >= account[a].bad
    /\ account[a].good > 0 =>
         streak[a].verdict = "good" /\ streak[a].length >= account[a].good

IInv == PolicyTypeOK /\ UsedIsOld /\ CountsAreStreaks

-------------------------------------------------------------------------------
(* The types, one set at a time.                                           *)

LEMMA Types ==
  ASSUME PolicyTypeOK
  PROVE  /\ account \in [Account -> Row]
         /\ business \in [Account -> Measurement] /\ probe \in [Account -> Measurement]
         /\ fit \in [Account -> BOOLEAN]
         /\ pending \in [Account -> SUBSET Request]
         /\ streak \in [Account -> Streak]
BY DEF PolicyTypeOK, Row, State, Request, Streak, Cap

LEMMA TypesBack ==
  ASSUME account \in [Account -> Row],
         business \in [Account -> Measurement], probe \in [Account -> Measurement],
         fit \in [Account -> BOOLEAN], logsOnly \in BOOLEAN,
         pending \in [Account -> SUBSET Request],
         streak \in [Account -> Streak], events \in 0 .. MaxEvents
  PROVE  PolicyTypeOK
BY DEF PolicyTypeOK, Row, State, Request, Streak, Cap

LEMMA Numbers ==
  /\ Limit \in Nat /\ MinAvailable \in Nat /\ MaxEvents \in Nat /\ BadLimit \in Nat
  /\ GoodLimit \in Nat /\ Hold \in Nat /\ Fresh \in Nat /\ Cap \in Nat
  /\ BadLimit > 0 /\ GoodLimit > 0 /\ Hold > 0 /\ Fresh > 0
  /\ Cap >= BadLimit /\ Cap >= GoodLimit
  /\ Old \in Nat /\ Old = Fresh + 1
BY AccountPolicyAssumption DEF Cap, Larger, Old

LEMMA PriorityNumbers ==
  /\ Cardinality(Account) \in Nat
  /\ PriorityStart \in Nat /\ PriorityStart > 0
  /\ PriorityStep \in Nat /\ PriorityStep > 0
BY FS_CardinalityType, AccountPolicyAssumption

LEMMA Priorities == Priority \subseteq Nat
BY PriorityNumbers DEF Priority

LEMMA Measurements ==
  ASSUME NEW m \in Measurement
  PROVE  m.age \in Age /\ m.ms \in Nat /\ m.used \in BOOLEAN
<1>1. Figures \cup {0} \subseteq Nat
  BY AccountPolicyAssumption
<1>2. QED BY <1>1 DEF Measurement

LEMMA JudgeType == ASSUME NEW ms \in Nat PROVE Judge(ms) \in Verdict
<1> DEFINE severe == BadLimit = 2 /\ 2 * ms >= 3 * Limit
           over   == ms > Limit
           under  == 10 * ms < 8 * Limit
<1>1. Judge(ms) = IF severe THEN "severe" ELSE IF over THEN "bad"
                  ELSE IF under THEN "good" ELSE "middling"
  BY DEF Judge
<1> HIDE DEF severe, over, under
<1>2. QED BY <1>1 DEF Verdict

LEMMA RowFields ==
  ASSUME NEW r \in Row
  PROVE  /\ r.state \in State /\ r.bad \in 0 .. BadLimit /\ r.good \in 0 .. GoodLimit
         /\ r.at \in Age /\ r.since \in 0 .. Hold /\ r.fallback \in BOOLEAN
         /\ r.on \in BOOLEAN /\ r.priority \in Priority
BY DEF Row

-------------------------------------------------------------------------------
(* What a measurement makes of a row.                                      *)

LEMMA StateNames == "NORMAL" \in State /\ "OBSERVING" \in State /\ "SLOW" \in State
BY DEF State

LEMMA EnteredRow ==
  ASSUME NEW r \in Row, NEW state \in State
  PROVE  /\ Entered(r, state) \in Row
         /\ Entered(r, state).state = state
<1>1. (IF r.state = state THEN r.since ELSE IF state = "SLOW" THEN 0 ELSE Hold) \in 0 .. Hold
  BY Numbers DEF Row
<1>2. QED
  BY <1>1, Zenon DEF Entered, Row

(* What a verdict does to the counters.                                    *)
Reset(r, bad, good) == [r EXCEPT !.bad = bad, !.good = good]

LEMMA ResetRow ==
  ASSUME NEW r \in Row, NEW bad \in 0 .. BadLimit, NEW good \in 0 .. GoodLimit
  PROVE  /\ Reset(r, bad, good) \in Row /\ Reset(r, bad, good).state = r.state
         /\ Reset(r, bad, good).bad = bad /\ Reset(r, bad, good).good = good
BY Zenon DEF Reset, Row

LEMMA ResetEntered ==
  ASSUME NEW r \in Row, NEW state \in State,
         NEW bad \in 0 .. BadLimit, NEW good \in 0 .. GoodLimit
  PROVE  /\ Reset(Entered(r, state), bad, good) \in Row
         /\ Reset(Entered(r, state), bad, good).state = state
         /\ Reset(Entered(r, state), bad, good).bad = bad
         /\ Reset(Entered(r, state), bad, good).good = good
<1>1. PICK e \in Row : e = Entered(r, state) /\ e.state = state
  BY EnteredRow
<1>2. /\ Reset(e, bad, good) \in Row /\ Reset(e, bad, good).state = state
      /\ Reset(e, bad, good).bad = bad /\ Reset(e, bad, good).good = good
  BY <1>1, ResetRow
<1>3. QED BY <1>1, <1>2

(* What a row c may be that has counted a verdict: bad ones add up outside *)
(* of SLOW, good ones in a row, and only bad ones lead to SLOW.            *)
Counts(r, verdict, c) ==
  /\ c \in Row
  /\ r.state = "SLOW" => c.state = "SLOW"
  /\ r.state # "SLOW" /\ c.state = "SLOW" =>
       verdict = "severe" \/ (verdict = "bad" /\ c.bad >= BadLimit)
  /\ c.state # "SLOW" /\ c.bad > 0 => verdict = "bad"
  /\ c.bad <= r.bad + 1
  /\ c.good > 0 => verdict = "good" /\ c.good <= r.good + 1

LEMMA CountedRow ==
  ASSUME NEW r \in Row, NEW verdict \in Verdict
  PROVE  Counts(r, verdict, Counted(r, verdict))
<1>1. /\ r.state \in State /\ r.bad \in 0 .. BadLimit /\ r.good \in 0 .. GoodLimit
      /\ 0 \in 0 .. BadLimit /\ 0 \in 0 .. GoodLimit /\ 1 \in 0 .. GoodLimit
      /\ 0 <= r.bad + 1
  BY Numbers DEF Row
<1>2. CASE verdict \in {"bad", "severe"}
  <2> DEFINE bad   == Smaller(r.bad + 1, BadLimit)
             state == IF r.state = "SLOW" \/ verdict = "severe" \/ bad >= BadLimit
                      THEN "SLOW" ELSE "OBSERVING"
  <2>1. bad \in 0 .. BadLimit /\ bad <= r.bad + 1
    BY <1>1, Numbers DEF Smaller
  <2>2. state \in State
    BY StateNames
  <2>3. Counted(r, verdict) = Reset(Entered(r, state), bad, 0)
    BY <1>2 DEF Counted, Reset
  <2>4. /\ state = "SLOW" =>
             r.state = "SLOW" \/ verdict = "severe" \/ (verdict = "bad" /\ bad >= BadLimit)
        /\ state # "SLOW" => r.state # "SLOW" /\ verdict = "bad"
    BY <1>2
  <2> HIDE DEF bad, state
  <2>5. /\ Reset(Entered(r, state), bad, 0) \in Row
        /\ Reset(Entered(r, state), bad, 0).state = state
        /\ Reset(Entered(r, state), bad, 0).bad = bad
        /\ Reset(Entered(r, state), bad, 0).good = 0
    BY <1>1, <2>1, <2>2, ResetEntered
  <2>6. QED
    BY <2>1, <2>3, <2>4, <2>5 DEF Counts
<1>3. CASE verdict = "good" /\ r.state = "SLOW"
  <2> DEFINE good == Smaller(r.good + 1, GoodLimit)
  <2>1. good \in 0 .. GoodLimit /\ good <= r.good + 1
    BY <1>1, Numbers DEF Smaller
  <2>2. Counted(r, verdict) = Reset(r, 0, good)
    BY <1>3 DEF Counted, Reset
  <2> HIDE DEF good
  <2>3. /\ Reset(r, 0, good) \in Row /\ Reset(r, 0, good).state = r.state
        /\ Reset(r, 0, good).bad = 0 /\ Reset(r, 0, good).good = good
    BY <1>1, <2>1, ResetRow
  <2>4. QED
    BY <1>1, <1>3, <2>1, <2>2, <2>3 DEF Counts
<1>4. CASE verdict = "good" /\ r.state = "OBSERVING" /\ r.good = 0
  <2>1. Counted(r, verdict) = Reset(r, 0, 1)
    BY <1>4 DEF Counted, Reset
  <2>2. /\ Reset(r, 0, 1) \in Row /\ Reset(r, 0, 1).state = r.state
        /\ Reset(r, 0, 1).bad = 0 /\ Reset(r, 0, 1).good = 1
    BY <1>1, ResetRow
  <2>3. QED
    BY <1>1, <1>4, <2>1, <2>2 DEF Counts
<1>5. CASE verdict = "good" /\ (r.state = "NORMAL" \/ (r.state = "OBSERVING" /\ r.good > 0))
  <2>1. Counted(r, verdict) = Reset(Entered(r, "NORMAL"), 0, 0)
    BY <1>1, <1>5 DEF Counted, Reset
  <2>2. /\ Reset(Entered(r, "NORMAL"), 0, 0) \in Row
        /\ Reset(Entered(r, "NORMAL"), 0, 0).state = "NORMAL"
        /\ Reset(Entered(r, "NORMAL"), 0, 0).bad = 0
        /\ Reset(Entered(r, "NORMAL"), 0, 0).good = 0
    BY <1>1, StateNames, ResetEntered
  <2>3. QED
    BY <1>1, <1>5, <2>1, <2>2 DEF Counts
<1>6. CASE verdict = "middling"
  <2> DEFINE state == IF r.state = "SLOW" THEN "SLOW" ELSE "OBSERVING"
  <2>1. Counted(r, verdict) = Reset(Entered(r, state), 0, 0)
    BY <1>6 DEF Counted, Reset
  <2>2. state = "SLOW" <=> r.state = "SLOW"
    OBVIOUS
  <2>3. state \in State
    BY StateNames
  <2> HIDE DEF state
  <2>4. /\ Reset(Entered(r, state), 0, 0) \in Row
        /\ Reset(Entered(r, state), 0, 0).state = state
        /\ Reset(Entered(r, state), 0, 0).bad = 0
        /\ Reset(Entered(r, state), 0, 0).good = 0
    BY <1>1, <2>3, ResetEntered
  <2>5. QED
    BY <1>1, <1>6, <2>1, <2>2, <2>4 DEF Counts
<1>7. QED
  <2>1. /\ verdict = "good" \/ verdict = "middling" \/ verdict \in {"bad", "severe"}
        /\ r.state = "NORMAL" \/ r.state = "OBSERVING" \/ r.state = "SLOW"
    BY <1>1 DEF Verdict, State
  <2>2. r.good = 0 \/ r.good > 0
    BY <1>1, Numbers
  <2>3. QED BY <1>2, <1>3, <1>4, <1>5, <1>6, <2>1, <2>2

LEMMA ReleasedRow ==
  ASSUME NEW r \in Row
  PROVE  /\ Released(r) \in Row
         /\ Released(r).state = r.state /\ Released(r).bad = r.bad
         /\ Released(r).good = r.good /\ Released(r).at = r.at
BY DEF Released, Row

LEMMA DatedRow ==
  ASSUME NEW r \in Row, NEW at \in Age
  PROVE  LET dated == [r EXCEPT !.at = at] IN
         /\ dated \in Row /\ dated.at = at
         /\ dated.state = r.state /\ dated.bad = r.bad /\ dated.good = r.good
BY DEF Row

LEMMA MeasuredType ==
  ASSUME PolicyTypeOK, NEW a \in Account
  PROVE  Measured(a) \in Measurement
BY Types DEF Measured

(* An evaluation lifts a hold, counts one new measurement, or leaves the   *)
(* row as it is.                                                           *)
LEMMA AdvancedRow ==
  ASSUME PolicyTypeOK, NEW a \in Account
  PROVE  /\ Advanced(a) \in Row
         /\ Recovers(account[a]) =>
              /\ Advanced(a).bad = 0 /\ Advanced(a).good = 0
              /\ Advanced(a).state # "SLOW" /\ Advanced(a).at = account[a].at
         /\ Advances(a) => /\ Counts(account[a], Judge(Measured(a).ms), Advanced(a))
                           /\ Advanced(a).at = Measured(a).age
         /\ ~Recovers(account[a]) /\ ~Advances(a) => Advanced(a) = account[a]
<1>1. account[a] \in Row
  BY Types
<1>2. CASE Recovers(account[a])
  <2> DEFINE r == Reset(Entered(account[a], "NORMAL"), 0, 0)
  <2>1. Advanced(a) = Released(r) /\ ~Advances(a)
    BY <1>2 DEF Advanced, Advances, Reset
  <2>2. r \in Row /\ r.state = "NORMAL" /\ r.bad = 0 /\ r.good = 0
    BY <1>1, Numbers, StateNames, ResetEntered
  <2>3. r.at = account[a].at
    BY <1>1, Zenon DEF Reset, Entered, Row
  <2> HIDE DEF r
  <2>4. QED BY <1>2, <2>1, <2>2, <2>3, ReleasedRow
<1>3. CASE Advances(a)
  <2> DEFINE verdict == Judge(Measured(a).ms)
             counted == Counted(account[a], verdict)
             dated   == [counted EXCEPT !.at = Measured(a).age]
  <2>1. Advanced(a) = Released(dated) /\ ~Recovers(account[a])
    BY <1>3 DEF Advanced, Advances
  <2>2. Measured(a).age \in Age /\ verdict \in Verdict
    BY MeasuredType, Measurements, JudgeType
  <2>3. counted \in Row /\ Counts(account[a], verdict, counted)
    BY <1>1, <2>2, CountedRow DEF Counts
  <2> HIDE DEF counted, verdict
  <2>4. /\ dated \in Row /\ dated.at = Measured(a).age
        /\ dated.state = counted.state /\ dated.bad = counted.bad
        /\ dated.good = counted.good
    BY <2>2, <2>3, DatedRow
  <2> HIDE DEF dated
  <2>5. /\ Released(dated) \in Row /\ Released(dated).at = Measured(a).age
        /\ Released(dated).state = counted.state /\ Released(dated).bad = counted.bad
        /\ Released(dated).good = counted.good
    BY <2>4, ReleasedRow
  <2>6. Counts(account[a], verdict, Released(dated))
    BY <2>3, <2>5 DEF Counts
  <2>7. QED BY <1>3, <2>1, <2>5, <2>6 DEF verdict
<1>4. CASE ~Recovers(account[a]) /\ ~Advances(a)
  BY <1>1, <1>4 DEF Advanced
<1>5. QED BY <1>2, <1>3, <1>4

-------------------------------------------------------------------------------
(* The plan and the requests.                                              *)

LEMMA ScoreType ==
  ASSUME PolicyTypeOK, NEW a \in Account
  PROVE  Score(a) \in Nat
BY Types, Measurements DEF Score

(* Scores are whole, so two of them are in one band when they are equal.    *)
LEMMA SameBandIsEqual ==
  ASSUME NEW x \in Nat, NEW y \in Nat
  PROVE  SameBand(x, y) <=> x = y
BY DEF SameBand, Larger, Smaller

(* The order of a band, as Place reads it.                                  *)
Ahead(r, state, b, a) ==
  IF state = "SLOW" THEN Score(b) < Score(a) \/ (Score(b) = Score(a) /\ b < a)
  ELSE FasterThan(r, b, a)

Before(r, a) == {b \in Band(r, r[a].state) : Ahead(r, r[a].state, b, a)}

LEMMA PlaceIsBefore ==
  ASSUME NEW r, NEW a
  PROVE  Place(r, a) = Cardinality(Before(r, a))
BY DEF Place, Before, Ahead

(* The comparison of the sort is a strict total order, so that there is one *)
(* way to sort a band: by score, then as before, then by id.                *)
LEMMA AheadIsOrder ==
  ASSUME PolicyTypeOK, NEW r \in [Account -> Row], NEW state,
         NEW a \in Account, NEW b \in Account, NEW c \in Account
  PROVE  /\ ~Ahead(r, state, a, a)
         /\ a # b => Ahead(r, state, a, b) \/ Ahead(r, state, b, a)
         /\ Ahead(r, state, a, b) /\ Ahead(r, state, b, c) => Ahead(r, state, a, c)
<1>1. /\ Score(a) \in Nat /\ Score(b) \in Nat /\ Score(c) \in Nat
      /\ a \in Nat /\ b \in Nat /\ c \in Nat
      /\ r[a].priority \in Nat /\ r[b].priority \in Nat /\ r[c].priority \in Nat
  BY ScoreType, RowFields, Priorities, AccountPolicyAssumption
<1>2. CASE state = "SLOW"
  BY <1>1, <1>2 DEF Ahead
<1>3. CASE state # "SLOW"
  <2> DEFINE ByRest(x, y) == \/ r[x].priority < r[y].priority
                             \/ r[x].priority = r[y].priority /\ x < y
             ByScore(x, y) ==
               IF HasScore(x) # HasScore(y) THEN HasScore(x)
               ELSE IF ~HasScore(x) THEN ByRest(x, y)
               ELSE \/ Score(x) < Score(y)
                    \/ Score(x) = Score(y) /\ ByRest(x, y)
  <2>1. ASSUME NEW x \in {a, b, c}, NEW y \in {a, b, c}
        PROVE  Ahead(r, state, x, y) <=> ByScore(x, y)
    <3>1. HasScore(x) \in BOOLEAN /\ HasScore(y) \in BOOLEAN
      BY DEF HasScore
    <3>2. SameBand(Score(x), Score(y)) <=> Score(x) = Score(y)
      BY <1>1, SameBandIsEqual
    <3>3. Score(x) \in Nat /\ Score(y) \in Nat
      BY <1>1
    <3>4. Ahead(r, state, x, y) <=> FasterThan(r, x, y)
      BY <1>3 DEF Ahead
    <3>5. CASE HasScore(x) # HasScore(y)
      BY <3>4, <3>5 DEF FasterThan
    <3>6. CASE HasScore(x) = HasScore(y) /\ ~HasScore(x)
      BY <3>4, <3>6 DEF FasterThan
    <3>7. CASE HasScore(x) = HasScore(y) /\ HasScore(x) /\ Score(x) = Score(y)
      <4>1. FasterThan(r, x, y) <=> ByRest(x, y)
        BY <3>2, <3>7 DEF FasterThan
      <4>2. ~(Score(x) < Score(y))
        BY <3>3, <3>7
      <4>3. ByScore(x, y) <=> ByRest(x, y)
        BY <3>7, <4>2
      <4>4. QED BY <3>4, <4>1, <4>3
    <3>8. CASE HasScore(x) = HasScore(y) /\ HasScore(x) /\ Score(x) # Score(y)
      BY <3>2, <3>4, <3>8 DEF FasterThan
    <3>9. QED BY <3>5, <3>6, <3>7, <3>8
  <2>2. /\ ~ByScore(a, a)
        /\ a # b => ByScore(a, b) \/ ByScore(b, a)
        /\ ByScore(a, b) /\ ByScore(b, c) => ByScore(a, c)
    <3>1. HasScore(a) \in BOOLEAN /\ HasScore(b) \in BOOLEAN /\ HasScore(c) \in BOOLEAN
      BY DEF HasScore
    <3>2. QED BY <1>1, <3>1
  <2> HIDE DEF ByScore
  <2>3. QED BY <2>1, <2>2
<1>4. QED BY <1>2, <1>3

LEMMA Bands ==
  ASSUME NEW r, NEW state
  PROVE  /\ Band(r, state) \subseteq Account /\ IsFiniteSet(Band(r, state))
         /\ Cardinality(Band(r, state)) \in Nat
<1>1. Band(r, state) \subseteq Account
  BY DEF Band
<1>2. QED BY <1>1, FS_Subset, FS_CardinalityType, AccountPolicyAssumption

LEMMA Befores ==
  ASSUME NEW r, NEW a
  PROVE  /\ Before(r, a) \subseteq Band(r, r[a].state) /\ IsFiniteSet(Before(r, a))
         /\ Cardinality(Before(r, a)) \in Nat
<1>1. Before(r, a) \subseteq Band(r, r[a].state)
  BY DEF Before
<1>2. QED BY <1>1, Bands, FS_Subset, FS_CardinalityType

(* The place of an account is less than the size of its band.               *)
LEMMA PlaceType ==
  ASSUME PolicyTypeOK, NEW r \in [Account -> Row], NEW a \in Account, fit[a]
  PROVE  /\ Place(r, a) \in Nat
         /\ Place(r, a) < Cardinality(Band(r, r[a].state))
<1>1. a \in Band(r, r[a].state) /\ a \notin Before(r, a)
  BY AheadIsOrder DEF Band, Before
<1>2. Before(r, a) # Band(r, r[a].state)
  BY <1>1
<1>3. /\ Cardinality(Before(r, a)) <= Cardinality(Band(r, r[a].state))
      /\ Cardinality(Before(r, a)) # Cardinality(Band(r, r[a].state))
  BY <1>2, Befores, Bands, FS_Subset
<1>4. QED BY <1>3, Befores, Bands, PlaceIsBefore

(* Places follow the order.                                                 *)
LEMMA PlacesGrow ==
  ASSUME PolicyTypeOK, NEW r \in [Account -> Row], NEW a \in Account, NEW b \in Account,
         fit[a], r[a].state = r[b].state, Ahead(r, r[a].state, a, b)
  PROVE  Place(r, a) < Place(r, b)
<1>1. ASSUME NEW c \in Before(r, a) PROVE c \in Before(r, b)
  BY <1>1, AheadIsOrder DEF Before, Band
<1>2. a \in Before(r, b) /\ a \notin Before(r, a)
  BY AheadIsOrder DEF Band, Before
<1>3. Before(r, a) \subseteq Before(r, b) /\ Before(r, a) # Before(r, b)
  BY <1>1, <1>2
<1>4. /\ Cardinality(Before(r, a)) <= Cardinality(Before(r, b))
      /\ Cardinality(Before(r, a)) # Cardinality(Before(r, b))
  BY <1>3, Befores, FS_Subset
<1>5. QED BY <1>4, Befores, PlaceIsBefore

(* What a number of steps comes to.                                         *)
Steps(n) == PriorityStep * n

LEMMA StepsGrow ==
  ASSUME NEW m \in Nat, NEW n \in Nat
  PROVE  /\ Steps(m) \in Nat
         /\ Steps(m + n) = Steps(m) + Steps(n)
         /\ m < n => Steps(m) < Steps(n) /\ Steps(m) + PriorityStep <= Steps(n)
<1>1. PriorityStep \in Nat /\ PriorityStep > 0
  BY PriorityNumbers
<1>2. Steps(m) \in Nat /\ Steps(m + n) = Steps(m) + Steps(n)
  BY <1>1 DEF Steps
<1>3. ASSUME m < n PROVE Steps(m) + PriorityStep <= Steps(n)
  <2>1. n - m - 1 \in Nat
    BY <1>3
  <2>2. n = m + 1 + (n - m - 1)
    BY <1>3
  <2>3. Steps(n) = Steps(m) + PriorityStep + Steps(n - m - 1)
    BY <1>1, <2>1, <2>2 DEF Steps
  <2>4. Steps(n - m - 1) \in Nat
    BY <1>1, <2>1 DEF Steps
  <2>5. Steps(n) \in Nat
    BY <1>1 DEF Steps
  <2>6. QED BY <1>1, <1>2, <2>3, <2>4, <2>5
<1>4. Steps(n) \in Nat
  BY <1>1 DEF Steps
<1>5. QED BY <1>1, <1>2, <1>3, <1>4

Size(r, state) == Cardinality(Band(r, state))

(* An account is in one band.                                               *)
LEMMA BandsAreApart ==
  ASSUME NEW r
  PROVE  Size(r, "NORMAL") + Size(r, "OBSERVING") + Size(r, "SLOW") <= Cardinality(Account)
<1> DEFINE N == Band(r, "NORMAL")
           O == Band(r, "OBSERVING")
           S == Band(r, "SLOW")
<1>1. /\ N \cap O = {} /\ (N \cup O) \cap S = {}
      /\ (N \cup O) \cup S \subseteq Account
  BY DEF Band
<1>2. /\ IsFiniteSet(N) /\ IsFiniteSet(O) /\ IsFiniteSet(S)
      /\ Cardinality(N) \in Nat /\ Cardinality(O) \in Nat /\ Cardinality(S) \in Nat
  BY Bands
<1> HIDE DEF N, O, S
<1>3. IsFiniteSet(N \cup O) /\ Cardinality(N \cup O) = Cardinality(N) + Cardinality(O)
  <2>1. /\ IsFiniteSet(N \cup O)
        /\ Cardinality(N \cup O) = Cardinality(N) + Cardinality(O) - Cardinality(N \cap O)
    BY <1>2, FS_Union
  <2>2. QED BY <1>1, <1>2, <2>1, FS_EmptySet
<1>4. Cardinality((N \cup O) \cup S) = Cardinality(N) + Cardinality(O) + Cardinality(S)
  <2>1. Cardinality((N \cup O) \cup S)
          = Cardinality(N \cup O) + Cardinality(S) - Cardinality((N \cup O) \cap S)
    BY <1>2, <1>3, FS_Union
  <2>2. Cardinality((N \cup O) \cap S) = 0
    BY <1>1, FS_EmptySet
  <2>3. QED BY <1>2, <1>3, <2>1, <2>2
<1>5. Cardinality((N \cup O) \cup S) <= Cardinality(Account)
  BY <1>1, FS_Subset, AccountPolicyAssumption
<1>6. QED BY <1>4, <1>5 DEF Size, N, O, S

(* Where the bands begin and end.                                           *)
LEMMA BandsFollow ==
  ASSUME NEW r
  PROVE  /\ ObservingStart(r) \in Nat /\ FallbackStart(r) \in Nat
         /\ PriorityStart + Steps(Size(r, "NORMAL")) <= ObservingStart(r)
         /\ ObservingStart(r) + Steps(Size(r, "OBSERVING")) <= FallbackStart(r)
         /\ \/ ObservingStart(r) = ObservingPriorityStart
            \/ ObservingStart(r) = PriorityStart + Steps(Size(r, "NORMAL"))
         /\ \/ FallbackStart(r) = FallbackPriorityStart
            \/ FallbackStart(r) = ObservingStart(r) + Steps(Size(r, "OBSERVING"))
<1> DEFINE n == Steps(Size(r, "NORMAL"))
           o == Steps(Size(r, "OBSERVING"))
<1>1. n \in Nat /\ o \in Nat
  BY Bands, StepsGrow DEF Size
<1>2. /\ ObservingStart(r) = Larger(ObservingPriorityStart, PriorityStart + n)
      /\ FallbackStart(r) = Larger(FallbackPriorityStart, ObservingStart(r) + o)
  BY DEF ObservingStart, FallbackStart, After, Steps, Size
<1> HIDE DEF n, o
<1>3. ObservingStart(r) \in Nat
  BY <1>1, <1>2, PriorityNumbers DEF Larger, ObservingPriorityStart
<1>4. FallbackStart(r) \in Nat
  BY <1>1, <1>2, <1>3 DEF Larger, FallbackPriorityStart
<1>5. QED
  BY <1>1, <1>2, <1>3, <1>4, PriorityNumbers
     DEF Larger, ObservingPriorityStart, FallbackPriorityStart, n, o

(* A planned priority lies in the band of the account's state.              *)
LEMMA PlannedInBand ==
  ASSUME PolicyTypeOK, NEW r \in [Account -> Row], NEW a \in Account, fit[a]
  PROVE  /\ Planned(r, a) \in Nat
         /\ Start(r, r[a].state) \in Nat
         /\ Planned(r, a) = Start(r, r[a].state) + Steps(Place(r, a))
         /\ Start(r, r[a].state) <= Planned(r, a)
         /\ Planned(r, a) + PriorityStep
              <= Start(r, r[a].state) + Steps(Size(r, r[a].state))
<1>1. Place(r, a) \in Nat /\ Size(r, r[a].state) \in Nat /\ Place(r, a) < Size(r, r[a].state)
  BY PlaceType, Bands DEF Size
<1>2. /\ Steps(Place(r, a)) \in Nat
      /\ Steps(Place(r, a)) + PriorityStep <= Steps(Size(r, r[a].state))
  BY <1>1, StepsGrow
<1>3. Steps(Size(r, r[a].state)) \in Nat
  BY <1>1, StepsGrow
<1>4. Start(r, r[a].state) \in Nat
  BY BandsFollow, PriorityNumbers, RowFields DEF Start, State
<1>5. Planned(r, a) = Start(r, r[a].state) + Steps(Place(r, a))
  BY DEF Planned, Steps
<1>6. QED BY <1>2, <1>3, <1>4, <1>5, PriorityNumbers

LEMMA Starts ==
  ASSUME NEW r
  PROVE  /\ Start(r, "NORMAL") = PriorityStart
         /\ Start(r, "OBSERVING") = ObservingStart(r)
         /\ Start(r, "SLOW") = FallbackStart(r)
BY DEF Start

LEMMA PlannedType ==
  ASSUME PolicyTypeOK, NEW r \in [Account -> Row], NEW a \in Account, fit[a]
  PROVE  Planned(r, a) \in Priority
<1> DEFINE first == Larger(PriorityStart, FallbackPriorityStart)
           all   == Steps(Cardinality(Account) - 1)
           n     == Size(r, "NORMAL")
           o     == Size(r, "OBSERVING")
           s     == Size(r, "SLOW")
           card  == Cardinality(Account)
<1>1. /\ n \in Nat /\ o \in Nat /\ s \in Nat /\ card \in Nat /\ n + o + s <= card
  BY Bands, BandsAreApart, PriorityNumbers DEF Size
<1>2. card - 1 \in Nat
  <2>1. a \in Account
    OBVIOUS
  <2>2. card # 0
    BY <2>1, FS_EmptySet, AccountPolicyAssumption
  <2>3. QED BY <1>1, <2>2
<1>3. Steps(card) = all + PriorityStep /\ all \in Nat
  <2>1. all \in Nat /\ Steps((card - 1) + 1) = all + Steps(1)
    BY <1>2, StepsGrow
  <2>2. Steps(1) = PriorityStep /\ (card - 1) + 1 = card
    BY <1>1, PriorityNumbers DEF Steps
  <2>3. QED BY <2>1, <2>2
<1>4. /\ Steps(n) \in Nat /\ Steps(o) \in Nat /\ Steps(s) \in Nat
      /\ Steps(n) + Steps(o) + Steps(s) <= Steps(card)
  <2>1. n + o \in Nat /\ n + o + s \in Nat
    BY <1>1
  <2>2. Steps(n + o + s) = Steps(n) + Steps(o) + Steps(s)
    BY <1>1, <2>1, StepsGrow
  <2>3. Steps(n + o + s) <= Steps(card)
    <3>1. CASE n + o + s = card
      BY <1>1, <3>1, StepsGrow
    <3>2. CASE n + o + s < card
      BY <1>1, <2>1, <3>2, StepsGrow, PriorityNumbers
    <3>3. QED BY <1>1, <3>1, <3>2
  <2>4. QED BY <1>1, <2>2, <2>3, StepsGrow
<1>5. /\ ObservingStart(r) \in Nat /\ FallbackStart(r) \in Nat
      /\ PriorityStart + Steps(n) <= ObservingStart(r)
      /\ ObservingStart(r) + Steps(o) <= FallbackStart(r)
      /\ \/ ObservingStart(r) = ObservingPriorityStart
         \/ ObservingStart(r) = PriorityStart + Steps(n)
      /\ \/ FallbackStart(r) = FallbackPriorityStart
         \/ FallbackStart(r) = ObservingStart(r) + Steps(o)
  BY BandsFollow
<1>6. /\ first \in Nat /\ PriorityStart <= first /\ FallbackPriorityStart <= first
      /\ ObservingPriorityStart <= FallbackPriorityStart
      /\ ObservingPriorityStart \in Nat /\ FallbackPriorityStart \in Nat
  BY PriorityNumbers DEF Larger, ObservingPriorityStart, FallbackPriorityStart
<1>7. Priority = PriorityStart .. first + all
  BY DEF Priority, Steps
<1>8. /\ Planned(r, a) \in Nat
      /\ Start(r, r[a].state) <= Planned(r, a)
      /\ Planned(r, a) + PriorityStep
           <= Start(r, r[a].state) + Steps(Size(r, r[a].state))
  BY PlannedInBand
<1> HIDE DEF first, all, n, o, s, card
<1>9. CASE r[a].state = "NORMAL"
  <2>1. /\ PriorityStart <= Planned(r, a)
        /\ Planned(r, a) + PriorityStep <= PriorityStart + Steps(n)
    BY <1>8, <1>9, Starts DEF n
  <2>2. QED BY <1>3, <1>4, <1>6, <1>7, <1>8, <2>1, PriorityNumbers
<1>10. CASE r[a].state = "OBSERVING"
  <2>1. /\ ObservingStart(r) <= Planned(r, a)
        /\ Planned(r, a) + PriorityStep <= ObservingStart(r) + Steps(o)
    BY <1>8, <1>10, Starts DEF o
  <2>2. ObservingStart(r) + Steps(o) <= first + Steps(n) + Steps(o)
    BY <1>4, <1>5, <1>6, PriorityNumbers
  <2>3. Planned(r, a) + PriorityStep <= first + all + PriorityStep
    BY <1>3, <1>4, <1>5, <1>6, <1>8, <2>1, <2>2, PriorityNumbers
  <2>4. PriorityStart <= Planned(r, a)
    BY <1>4, <1>5, <1>8, <2>1, PriorityNumbers
  <2>5. QED BY <1>3, <1>6, <1>7, <1>8, <2>3, <2>4, PriorityNumbers
<1>11. CASE r[a].state = "SLOW"
  <2>1. /\ FallbackStart(r) <= Planned(r, a)
        /\ Planned(r, a) + PriorityStep <= FallbackStart(r) + Steps(s)
    BY <1>8, <1>11, Starts DEF s
  <2>2. ObservingStart(r) <= first + Steps(n)
    BY <1>4, <1>5, <1>6, PriorityNumbers
  <2>3. FallbackStart(r) <= first + Steps(n) + Steps(o)
    BY <1>4, <1>5, <1>6, <2>2, PriorityNumbers
  <2>4. Planned(r, a) + PriorityStep <= first + all + PriorityStep
    BY <1>3, <1>4, <1>5, <1>6, <1>8, <2>1, <2>3, PriorityNumbers
  <2>5. PriorityStart <= Planned(r, a)
    BY <1>4, <1>5, <1>8, <2>1, PriorityNumbers
  <2>6. QED BY <1>3, <1>6, <1>7, <1>8, <2>4, <2>5, PriorityNumbers
<1>12. QED BY <1>9, <1>10, <1>11, RowFields DEF State

LEMMA DecisionType ==
  ASSUME PolicyTypeOK, NEW r \in [Account -> Row], NEW a \in Account
  PROVE  Decision(r, a) \in Request \cup {NoRequest}
<1> DEFINE lastResort == LastResort(r, a)
           planned    == IF fit[a] THEN Planned(r, a) ELSE r[a].priority
<1>1. planned \in Priority
  <2>1. CASE fit[a]
    BY <2>1, PlannedType
  <2>2. CASE ~fit[a]
    BY <2>2, RowFields
  <2>3. QED BY <2>1, <2>2
<1>2. /\ fit[a] \in BOOLEAN
      /\ (r[a].fallback /\ ~lastResort) \in BOOLEAN
  BY Types
<1> HIDE DEF planned, lastResort
<1>3. /\ [kind |-> "rebuild", priority |-> planned] \in Request
      /\ [kind |-> "priority", priority |-> planned,
          release |-> r[a].fallback /\ ~lastResort] \in Request
      /\ [kind |-> "switch", on |-> fit[a]] \in Request
  BY <1>1, <1>2, Zenon DEF Request
<1>4. Decision(r, a) \in {[kind |-> "rebuild", priority |-> planned],
                         [kind |-> "priority", priority |-> planned,
                          release |-> r[a].fallback /\ ~lastResort],
                         [kind |-> "switch", on |-> fit[a]], NoRequest}
  BY DEF Decision, planned, lastResort
<1>5. QED BY <1>3, <1>4, Zenon

LEMMA EnqueuedType ==
  ASSUME NEW queue \in SUBSET Request, NEW d \in Request \cup {NoRequest}
  PROVE  Enqueued(queue, d) \in SUBSET Request
BY DEF Enqueued

(* An executed request writes no latency state.                            *)
LEMMA ExecutedRow ==
  ASSUME NEW r \in Row, NEW q \in Request
  PROVE  /\ Executed(r, q) \in Row
         /\ Executed(r, q).state = r.state /\ Executed(r, q).bad = r.bad
         /\ Executed(r, q).good = r.good /\ Executed(r, q).at = r.at
<1>1. CASE q.kind = "rebuild"
  <2>1. q.priority \in Priority
    BY <1>1 DEF Request
  <2>2. Executed(r, q) =
          [r EXCEPT !.priority = q.priority, !.on = TRUE, !.fallback = TRUE]
    BY <1>1 DEF Executed
  <2>3. QED BY <2>1, <2>2, Zenon DEF Row
<1>2. CASE q.kind = "priority"
  <2>1. q.priority \in Priority /\ (r.fallback /\ ~q.release) \in BOOLEAN
    BY <1>2 DEF Request
  <2>2. Executed(r, q) =
          [r EXCEPT !.priority = q.priority, !.fallback = r.fallback /\ ~q.release]
    BY <1>2 DEF Executed
  <2>3. QED BY <2>1, <2>2, Zenon DEF Row
<1>3. CASE q.kind = "switch"
  <2>1. q.on \in BOOLEAN /\ (r.fallback /\ q.on) \in BOOLEAN
    BY <1>3 DEF Request
  <2>2. Executed(r, q) = [r EXCEPT !.on = q.on, !.fallback = r.fallback /\ q.on]
    BY <1>3 DEF Executed
  <2>3. QED BY <2>1, <2>2, Zenon DEF Row
<1>4. QED BY <1>1, <1>2, <1>3 DEF Request

-------------------------------------------------------------------------------
(* The steps.                                                              *)

(* What an evaluation makes of the history.                                *)
Extended(a) ==
  IF ~Advances(a) \/ Measured(a).used THEN streak[a]
  ELSE [verdict |-> Judge(Measured(a).ms),
        length |-> IF Judge(Measured(a).ms) # streak[a].verdict THEN 1
                   ELSE Smaller(streak[a].length + 1, Cap)]

Used(a, m, source) ==
  IF Advances(a) /\ Evidence(a) = source THEN [m[a] EXCEPT !.used = TRUE] ELSE m[a]

LEMMA EvaluateIs ==
  ASSUME Evaluate
  PROVE  /\ account' = [a \in Account |-> Advanced(a)]
         /\ business' = [a \in Account |-> Used(a, business, "business")]
         /\ probe' = [a \in Account |-> Used(a, probe, "probe")]
         /\ streak' = [a \in Account |-> Extended(a)]
         /\ pending' = [a \in Account |-> Enqueued(pending[a], Decision(account', a))]
         /\ UNCHANGED <<fit, logsOnly, events>>
BY Zenon DEF Evaluate, Extended, Used, Cap

LEMMA ExtendedType ==
  ASSUME PolicyTypeOK, NEW a \in Account
  PROVE  Extended(a) \in Streak
<1>1. streak[a] \in Streak /\ Judge(Measured(a).ms) \in Verdict
  BY Types, MeasuredType, Measurements, JudgeType
<1>2. streak[a].length \in 0 .. Cap
  BY <1>1 DEF Streak
<1>3. (IF Judge(Measured(a).ms) # streak[a].verdict THEN 1
       ELSE Smaller(streak[a].length + 1, Cap)) \in 0 .. Cap
  BY <1>2, Numbers DEF Smaller
<1>4. QED BY <1>1, <1>3, Zenon DEF Extended, Streak

LEMMA UsedType ==
  ASSUME NEW a \in Account, NEW m \in [Account -> Measurement], NEW source
  PROVE  /\ Used(a, m, source) \in Measurement
         /\ Used(a, m, source).age = m[a].age
         /\ Used(a, m, source).used => m[a].used \/ (Advances(a) /\ Evidence(a) = source)
BY DEF Used, Measurement

(* What an account's evidence is, has not been used before.                *)
LEMMA EvidenceIsNew ==
  ASSUME PolicyTypeOK, UsedIsOld, NEW a \in Account, Advances(a)
  PROVE  /\ ~Measured(a).used /\ Measured(a).age < account[a].at
         /\ Evidence(a) \in {"business", "probe"}
         /\ Measured(a) = IF Evidence(a) = "business" THEN business[a] ELSE probe[a]
<1>1. /\ account[a].at \in Nat /\ business[a].age \in Nat /\ probe[a].age \in Nat
  BY Types, RowFields, Measurements, Numbers DEF Age
<1>2. \/ Evidence(a) = "business" /\ IsNew(business[a], account[a])
      \/ Evidence(a) = "probe" /\ IsNew(probe[a], account[a])
  BY DEF Advances, Evidence
<1>3. Measured(a) = IF Evidence(a) = "business" THEN business[a] ELSE probe[a]
  BY DEF Measured
<1>4. QED
  BY <1>1, <1>2, <1>3 DEF IsNew, UsedIsOld

LEMMA EvaluateInv ==
  ASSUME IInv, Evaluate
  PROVE  IInv'
<1>1. PolicyTypeOK /\ UsedIsOld /\ CountsAreStreaks
  BY DEF IInv
<1>2. PolicyTypeOK'
  <2>1. account' \in [Account -> Row]
    BY <1>1, EvaluateIs, AdvancedRow
  <2>2. /\ business' \in [Account -> Measurement]
        /\ probe' \in [Account -> Measurement]
    BY <1>1, EvaluateIs, UsedType, Types
  <2>3. streak' \in [Account -> Streak]
    BY <1>1, EvaluateIs, ExtendedType
  <2>4. pending' \in [Account -> SUBSET Request]
    <3>1. \A a \in Account : Decision(account', a) \in Request \cup {NoRequest}
      BY <1>1, <2>1, DecisionType
    <3>2. \A a \in Account : pending[a] \in SUBSET Request
      BY <1>1, Types
    <3>3. QED BY <3>1, <3>2, EvaluateIs, EnqueuedType
  <2>5. fit' \in [Account -> BOOLEAN] /\ logsOnly' \in BOOLEAN /\ events' \in 0 .. MaxEvents
    BY <1>1, EvaluateIs DEF PolicyTypeOK
  <2>6. QED
    BY <2>1, <2>2, <2>3, <2>4, <2>5 DEF PolicyTypeOK, Row, State, Request, Streak, Cap
<1>3. ASSUME NEW a \in Account
      PROVE  /\ business'[a].used => account'[a].at <= business'[a].age
             /\ probe'[a].used => account'[a].at <= probe'[a].age
  <2>1. /\ account[a].at \in Nat /\ business[a].age \in Nat /\ probe[a].age \in Nat
    BY <1>1, Types, RowFields, Measurements, Numbers DEF Age
  <2>2. /\ business'[a].age = business[a].age /\ probe'[a].age = probe[a].age
        /\ business'[a].used =>
             business[a].used \/ (Advances(a) /\ Evidence(a) = "business")
        /\ probe'[a].used => probe[a].used \/ (Advances(a) /\ Evidence(a) = "probe")
    BY <1>1, EvaluateIs, UsedType, Types
  <2>3. account'[a] = Advanced(a)
    BY EvaluateIs
  <2>4. CASE Advances(a)
    <3>1. account'[a].at = Measured(a).age /\ Measured(a).age < account[a].at
      BY <1>1, <2>3, <2>4, AdvancedRow, EvidenceIsNew
    <3>2. Measured(a) = IF Evidence(a) = "business" THEN business[a] ELSE probe[a]
      BY <1>1, <2>4, EvidenceIsNew
    <3>3. /\ business[a].used => account[a].at <= business[a].age
          /\ probe[a].used => account[a].at <= probe[a].age
      BY <1>1 DEF UsedIsOld
    <3>4. Evidence(a) = "probe" => Evidence(a) # "business"
      OBVIOUS
    <3>5. QED BY <2>1, <2>2, <3>1, <3>2, <3>3, <3>4
  <2>5. CASE ~Advances(a)
    <3>1. account'[a].at = account[a].at
      BY <1>1, <2>3, <2>5, AdvancedRow
    <3>2. QED BY <1>1, <2>2, <2>5, <3>1 DEF UsedIsOld
  <2>6. QED BY <2>4, <2>5
<1>4. ASSUME NEW a \in Account
      PROVE  /\ account'[a].state # "SLOW" /\ account'[a].bad > 0 =>
                  streak'[a].verdict = "bad" /\ streak'[a].length >= account'[a].bad
             /\ account'[a].good > 0 =>
                  streak'[a].verdict = "good" /\ streak'[a].length >= account'[a].good
  <2>1. account'[a] = Advanced(a) /\ streak'[a] = Extended(a)
    BY EvaluateIs
  <2>2. /\ account[a].state # "SLOW" /\ account[a].bad > 0 =>
             streak[a].verdict = "bad" /\ streak[a].length >= account[a].bad
        /\ account[a].good > 0 =>
             streak[a].verdict = "good" /\ streak[a].length >= account[a].good
    BY <1>1 DEF CountsAreStreaks
  <2>3. CASE Advances(a)
    <3> DEFINE verdict == Judge(Measured(a).ms)
               length  == IF verdict # streak[a].verdict THEN 1
                          ELSE Smaller(streak[a].length + 1, Cap)
    <3>1. Counts(account[a], verdict, Advanced(a))
      BY <1>1, <2>3, AdvancedRow
    <3>2. Extended(a) = [verdict |-> verdict, length |-> length]
      BY <1>1, <2>3, EvidenceIsNew DEF Extended
    <3>3. /\ account[a].bad \in Nat /\ account[a].good \in Nat
          /\ Advanced(a).bad \in 0 .. BadLimit /\ Advanced(a).good \in 0 .. GoodLimit
          /\ streak[a].length \in 0 .. Cap
      BY <1>1, Types, RowFields, AdvancedRow, Numbers DEF Streak
    <3>4. /\ length \in Nat /\ length >= 1
          /\ verdict = streak[a].verdict =>
               length >= Cap \/ length >= streak[a].length + 1
      BY <3>3, Numbers DEF Smaller
    <3> HIDE DEF verdict, length
    <3>5. streak'[a].verdict = verdict /\ streak'[a].length = length
      BY <2>1, <3>2
    <3>6. /\ Advanced(a).state # "SLOW" /\ Advanced(a).bad > 0 =>
               /\ account[a].state # "SLOW"
               /\ verdict = "bad" /\ Advanced(a).bad <= account[a].bad + 1
          /\ Advanced(a).good > 0 =>
               verdict = "good" /\ Advanced(a).good <= account[a].good + 1
      BY <3>1 DEF Counts
    <3>7. Advanced(a).state # "SLOW" /\ Advanced(a).bad > 0 => length >= Advanced(a).bad
      BY <2>2, <3>3, <3>4, <3>6, Numbers
    <3>8. Advanced(a).good > 0 => length >= Advanced(a).good
      BY <2>2, <3>3, <3>4, <3>6, Numbers
    <3>9. QED BY <2>1, <3>5, <3>6, <3>7, <3>8
  <2>4. CASE ~Advances(a)
    <3>1. streak'[a] = streak[a]
      BY <2>1, <2>4 DEF Extended
    <3>2. \/ account'[a] = account[a]
          \/ account'[a].bad = 0 /\ account'[a].good = 0
      BY <1>1, <2>1, <2>4, AdvancedRow
    <3>3. QED BY <2>2, <3>1, <3>2
  <2>5. QED BY <2>3, <2>4
<1>5. QED
  BY <1>2, <1>3, <1>4 DEF IInv, UsedIsOld, CountsAreStreaks

(* A step that neither measures nor counts.                                *)
LEMMA Uncounted ==
  ASSUME IInv, PolicyTypeOK', UNCHANGED <<business, probe, streak>>,
         \A a \in Account :
           /\ account'[a].state = account[a].state /\ account'[a].bad = account[a].bad
           /\ account'[a].good = account[a].good /\ account'[a].at = account[a].at
  PROVE  IInv'
BY DEF IInv, UsedIsOld, CountsAreStreaks

LEMMA ExecuteInv ==
  ASSUME IInv, NEW a \in Account, NEW q \in pending[a],
         Execute(a, q) \/ ExecuteFails(a, q)
  PROVE  IInv'
<1>1. /\ PolicyTypeOK /\ account \in [Account -> Row] /\ q \in Request
      /\ pending \in [Account -> SUBSET Request] /\ streak \in [Account -> Streak]
  BY Types DEF IInv
<1>2. PICK new \in Row :
        /\ account' = [account EXCEPT ![a] = new]
        /\ new.state = account[a].state /\ new.bad = account[a].bad
        /\ new.good = account[a].good /\ new.at = account[a].at
  <2>1. CASE Execute(a, q)
    BY <1>1, <2>1, ExecutedRow DEF Execute
  <2>2. CASE ExecuteFails(a, q) /\ account' = account
    BY <1>1, <2>2
  <2>3. CASE /\ ExecuteFails(a, q) /\ q.kind = "rebuild"
             /\ account' = [account EXCEPT ![a].priority = q.priority]
    <3> DEFINE new == [account[a] EXCEPT !.priority = q.priority]
    <3>1. q.priority \in Priority /\ account[a] \in Row
      BY <1>1, <2>3 DEF Request
    <3>2. /\ new \in Row
          /\ new.state = account[a].state /\ new.bad = account[a].bad
          /\ new.good = account[a].good /\ new.at = account[a].at
      BY <3>1, Zenon DEF Row
    <3>3. account' = [account EXCEPT ![a] = new]
      BY <2>3
    <3> HIDE DEF new
    <3>4. QED BY <3>2, <3>3
  <2>4. QED BY <2>1, <2>2, <2>3 DEF ExecuteFails
<1>3. /\ account' \in [Account -> Row] /\ pending' \in [Account -> SUBSET Request]
      /\ UNCHANGED <<business, probe, fit, logsOnly, streak>>
  BY <1>1, <1>2 DEF Execute, ExecuteFails, Done
<1>4. events' \in 0 .. MaxEvents
  BY <1>1, Numbers DEF PolicyTypeOK, Execute, ExecuteFails
<1>5. PolicyTypeOK'
  BY <1>1, <1>3, <1>4 DEF PolicyTypeOK, Row, State, Request, Streak, Cap
<1>6. QED BY <1>1, <1>2, <1>3, <1>5, Uncounted

LEMMA NewMeasurement ==
  ASSUME NEW ms \in Figures
  PROVE  New(ms) \in Measurement /\ ~New(ms).used
BY Numbers DEF New, Measurement, Age

LEMMA NoMeasurement == None \in Measurement /\ ~None.used
BY Numbers DEF None, Measurement, Age

(* A measurement that is replaced by one that was not used.                *)
LEMMA Replaced ==
  ASSUME IInv, NEW a \in Account, NEW m \in Measurement, ~m.used,
         \/ business' = [business EXCEPT ![a] = m] /\ probe' = probe
         \/ probe' = [probe EXCEPT ![a] = m] /\ business' = business,
         UNCHANGED <<account, fit, logsOnly, pending, streak, events>>
  PROVE  IInv'
<1>1. /\ business \in [Account -> Measurement] /\ probe \in [Account -> Measurement]
  BY Types DEF IInv
<1>2. /\ business' \in [Account -> Measurement] /\ probe' \in [Account -> Measurement]
  BY <1>1
<1>3. PolicyTypeOK'
  BY <1>2 DEF IInv, PolicyTypeOK
<1>4. \A b \in Account : /\ business'[b].used => business'[b] = business[b]
                         /\ probe'[b].used => probe'[b] = probe[b]
  BY <1>1
<1>5. UsedIsOld'
  BY <1>4 DEF IInv, UsedIsOld
<1>6. QED BY <1>3, <1>5 DEF IInv, CountsAreStreaks

LEMMA WorldInv ==
  ASSUME IInv, NEW a \in Account, World(a)
  PROVE  IInv'
<1>1. ASSUME NEW ms \in Figures, Traffic(a, ms) PROVE IInv'
  BY <1>1, NewMeasurement, Replaced DEF Traffic
<1>2. ASSUME NEW ms \in Figures, ProbeResult(a, ms) PROVE IInv'
  BY <1>2, NewMeasurement, Replaced DEF ProbeResult
<1>3. CASE TrafficStops(a)
  BY <1>3, NoMeasurement, Replaced DEF TrafficStops
<1>4. CASE FitnessChanges(a)
  <2>1. PolicyTypeOK'
    BY <1>4, Numbers DEF FitnessChanges, IInv, PolicyTypeOK
  <2>2. QED BY <1>4, <2>1, Uncounted DEF FitnessChanges
<1>5. QED BY <1>1, <1>2, <1>3, <1>4 DEF World

(* An account and its measurements age together, until they are forgotten. *)
LEMMA OlderType ==
  ASSUME NEW m \in Measurement
  PROVE  /\ Older(m) \in Measurement
         /\ Older(m).used => m.used /\ Older(m).age = m.age + 1
<1>1. m.age \in 0 .. Old
  BY Measurements DEF Age
<1>2. CASE m.age + 1 >= Old
  BY <1>2, NoMeasurement DEF Older
<1>3. CASE ~(m.age + 1 >= Old)
  <2>1. m.age + 1 \in Age
    BY <1>1, <1>3, Numbers DEF Age
  <2>2. Older(m) = [m EXCEPT !.age = m.age + 1]
    BY <1>3 DEF Older
  <2>3. QED BY <2>1, <2>2, Zenon DEF Measurement
<1>4. QED BY <1>2, <1>3

LEMMA TickInv ==
  ASSUME IInv, Tick
  PROVE  IInv'
<1> DEFINE aged(a) == [account[a] EXCEPT !.at = Smaller(account[a].at + 1, Old),
                                         !.since = Smaller(account[a].since + 1, Hold)]
<1>1. /\ PolicyTypeOK /\ account \in [Account -> Row]
      /\ business \in [Account -> Measurement] /\ probe \in [Account -> Measurement]
  BY Types DEF IInv
<1>2. /\ account' = [a \in Account |-> aged(a)]
      /\ business' = [a \in Account |-> Older(business[a])]
      /\ probe' = [a \in Account |-> Older(probe[a])]
      /\ UNCHANGED <<fit, logsOnly, pending, streak, events>>
  BY Zenon DEF Tick
<1>3. ASSUME NEW a \in Account
      PROVE  /\ aged(a) \in Row
             /\ aged(a).state = account[a].state /\ aged(a).bad = account[a].bad
             /\ aged(a).good = account[a].good
             /\ aged(a).at <= account[a].at + 1
  <2>1. account[a].at \in 0 .. Old /\ account[a].since \in 0 .. Hold
    BY <1>1, RowFields DEF Age
  <2>2. /\ Smaller(account[a].at + 1, Old) \in Age
        /\ Smaller(account[a].at + 1, Old) <= account[a].at + 1
        /\ Smaller(account[a].since + 1, Hold) \in 0 .. Hold
    BY <2>1, Numbers DEF Smaller, Age
  <2>3. account[a] \in Row
    BY <1>1
  <2>4. /\ aged(a) \in Row
        /\ aged(a).state = account[a].state /\ aged(a).bad = account[a].bad
        /\ aged(a).good = account[a].good
        /\ aged(a).at = Smaller(account[a].at + 1, Old)
    BY <2>2, <2>3, Zenon DEF Row
  <2>5. QED BY <2>2, <2>4
<1> HIDE DEF aged
<1>4. /\ account' \in [Account -> Row]
      /\ business' \in [Account -> Measurement] /\ probe' \in [Account -> Measurement]
  BY <1>1, <1>2, <1>3, OlderType
<1>5. PolicyTypeOK'
  BY <1>1, <1>2, <1>4 DEF PolicyTypeOK, Row, State
<1>6. ASSUME NEW a \in Account
      PROVE  /\ business'[a].used => account'[a].at <= business'[a].age
             /\ probe'[a].used => account'[a].at <= probe'[a].age
  <2>1. /\ account[a].at \in Nat /\ aged(a).at \in Nat
        /\ business[a].age \in Nat /\ probe[a].age \in Nat
    BY <1>1, <1>3, RowFields, Measurements, Numbers DEF Age
  <2>2. /\ business[a].used => account[a].at <= business[a].age
        /\ probe[a].used => account[a].at <= probe[a].age
    BY DEF IInv, UsedIsOld
  <2>3. /\ business'[a].used => business[a].used /\ business'[a].age = business[a].age + 1
        /\ probe'[a].used => probe[a].used /\ probe'[a].age = probe[a].age + 1
    BY <1>1, <1>2, OlderType
  <2>4. account'[a].at = aged(a).at
    BY <1>2
  <2>5. QED BY <1>3, <2>1, <2>2, <2>3, <2>4
<1>7. CountsAreStreaks'
  BY <1>2, <1>3 DEF IInv, CountsAreStreaks
<1>8. QED BY <1>5, <1>6, <1>7 DEF IInv, UsedIsOld

LEMMA PolicyInit == ASSUME Init PROVE IInv
<1>2. ASSUME NEW a \in Account PROVE PriorityStart \in Priority
  <2>1. Cardinality(Account) # 0
    BY <1>2, FS_EmptySet, AccountPolicyAssumption
  <2>2. Cardinality(Account) - 1 \in Nat
    BY <2>1, PriorityNumbers
  <2>3. PriorityStep * (Cardinality(Account) - 1) \in Nat
    BY <2>2, PriorityNumbers
  <2>4. QED BY <2>3, PriorityNumbers DEF Priority, Larger, FallbackPriorityStart
<1> DEFINE first == [state |-> "NORMAL", bad |-> 0, good |-> 0, at |-> Old, since |-> Hold,
                     fallback |-> FALSE, on |-> FALSE, priority |-> PriorityStart]
<1>3. ASSUME NEW a \in Account PROVE first \in Row
  BY <1>2, <1>3, Numbers DEF Row, State, Age
<1>4. account = [a \in Account |-> first]
  BY DEF Init
<1>5. account \in [Account -> Row]
  <2> HIDE DEF first
  <2> QED BY <1>3, <1>4
<1>6. /\ business \in [Account -> Measurement] /\ probe \in [Account -> Measurement]
      /\ \A a \in Account : ~business[a].used /\ ~probe[a].used
  BY NoMeasurement DEF Init
<1>7. streak \in [Account -> Streak]
  BY Numbers DEF Init, Streak, Verdict
<1>8. PolicyTypeOK
  <2>1. /\ fit \in [Account -> BOOLEAN] /\ logsOnly \in BOOLEAN
        /\ pending \in [Account -> SUBSET Request]
    BY DEF Init
  <2>2. events \in 0 .. MaxEvents
    BY Numbers DEF Init
  <2>3. QED BY <1>5, <1>6, <1>7, <2>1, <2>2, TypesBack
<1>9. \A a \in Account : account[a].bad = 0 /\ account[a].good = 0
  BY <1>4
<1>10. QED BY <1>6, <1>8, <1>9 DEF IInv, UsedIsOld, CountsAreStreaks

LEMMA PolicyNext == ASSUME IInv, [Next]_vars PROVE IInv'
<1>1. CASE UNCHANGED vars
  BY <1>1 DEF vars, IInv, PolicyTypeOK, UsedIsOld, CountsAreStreaks
<1>2. QED
  BY <1>1, EvaluateInv, ExecuteInv, WorldInv, TickInv DEF Next

(* Everything below follows from the invariant.                            *)
THEOREM PolicyInvariant == Spec => []IInv
BY PolicyInit, PolicyNext, PTL DEF Spec

-------------------------------------------------------------------------------
(* What the runs check, for every value of the constants.                  *)

(* Every variable keeps its type; in particular no priority lies beyond a  *)
(* last band that holds all the accounts (worker.go:1111-1180).            *)
THEOREM PolicyTypeCorrect == Spec => []PolicyTypeOK
<1>1. IInv => PolicyTypeOK
  BY DEF IInv
<1>2. QED BY <1>1, PolicyInvariant, PTL

(* Outside of an evaluation nothing changes a latency state.               *)
LEMMA StatesStay ==
  ASSUME IInv, [Next]_vars, ~Evaluate, NEW a \in Account
  PROVE  account'[a].state = account[a].state
<1>1. account \in [Account -> Row] /\ pending \in [Account -> SUBSET Request]
  BY Types DEF IInv
<1>2. ASSUME NEW b \in Account, NEW q \in pending[b], Execute(b, q)
      PROVE  account'[a].state = account[a].state
  <2>1. /\ account' = [account EXCEPT ![b] = Executed(account[b], q)]
        /\ Executed(account[b], q).state = account[b].state
    BY <1>1, <1>2, ExecutedRow DEF Execute
  <2>2. QED BY <1>1, <2>1
<1>3. ASSUME NEW b \in Account, NEW q \in pending[b], ExecuteFails(b, q)
      PROVE  account'[a].state = account[a].state
  <2>1. CASE account' = account
    BY <2>1
  <2>2. CASE account' = [account EXCEPT ![b].priority = q.priority]
    BY <1>1, <2>2 DEF Row
  <2>3. QED BY <1>3, <2>1, <2>2 DEF ExecuteFails
<1>4. CASE Tick
  BY <1>1, <1>4 DEF Tick, Row
<1>5. CASE \E b \in Account : World(b)
  BY <1>5 DEF World, Traffic, TrafficStops, ProbeResult, FitnessChanges
<1>6. CASE UNCHANGED vars
  BY <1>6 DEF vars
<1>7. QED BY <1>2, <1>3, <1>4, <1>5, <1>6 DEF Next

(* worker.go:998-1075: an account becomes slow only on BadLimit different  *)
(* measurements over the limit in a row, or on a severe one.               *)
THEOREM SlownessConfirmed == Spec => SlowIsConfirmed
<1>1. ASSUME IInv, [Next]_vars, NEW a \in Account,
             account[a].state # "SLOW", account'[a].state = "SLOW"
      PROVE  \/ streak'[a].verdict = "severe"
             \/ streak'[a].verdict = "bad" /\ streak'[a].length >= BadLimit
  <2>1. Evaluate
    BY <1>1, StatesStay
  <2>2. PolicyTypeOK /\ UsedIsOld /\ account'[a] = Advanced(a) /\ streak'[a] = Extended(a)
    BY <1>1, <2>1, EvaluateIs DEF IInv
  <2>3. Advances(a)
    BY <1>1, <2>2, AdvancedRow DEF Recovers
  <2>4. /\ Counts(account[a], Judge(Measured(a).ms), Advanced(a))
        /\ ~Measured(a).used
    BY <2>2, <2>3, AdvancedRow, EvidenceIsNew
  <2>5. streak'[a].verdict = Judge(Measured(a).ms)
    BY <2>2, <2>3, <2>4 DEF Extended
  <2>6. CASE Judge(Measured(a).ms) = "severe"
    BY <2>5, <2>6
  <2>7. CASE Judge(Measured(a).ms) = "bad" /\ Advanced(a).bad >= BadLimit
    <3>1. streak'[a].length = IF "bad" # streak[a].verdict THEN 1
                              ELSE Smaller(streak[a].length + 1, Cap)
      BY <2>2, <2>3, <2>4, <2>7 DEF Extended
    <3>2. /\ account[a].bad \in Nat /\ Advanced(a).bad \in 0 .. BadLimit
          /\ streak[a].length \in 0 .. Cap
      BY <2>2, Types, RowFields, AdvancedRow, Numbers DEF Streak
    <3>3. account[a].bad > 0 => streak[a].verdict = "bad" /\ streak[a].length >= account[a].bad
      BY <1>1 DEF IInv, CountsAreStreaks
    <3>4. Advanced(a).bad <= account[a].bad + 1
      BY <2>4 DEF Counts
    <3>5. account[a].bad = 0 => streak'[a].length >= BadLimit
      BY <2>7, <3>1, <3>2, <3>4, Numbers DEF Smaller
    <3>6. account[a].bad > 0 => streak'[a].length >= BadLimit
      BY <2>7, <3>1, <3>2, <3>3, <3>4, Numbers DEF Smaller
    <3>7. QED BY <2>5, <2>7, <3>2, <3>5, <3>6
  <2>8. QED BY <1>1, <2>2, <2>4, <2>6, <2>7 DEF Counts
<1>2. IInv /\ [Next]_vars =>
        [\A a \in Account :
           account[a].state # "SLOW" /\ account'[a].state = "SLOW" =>
             \/ streak'[a].verdict = "severe"
             \/ streak'[a].verdict = "bad" /\ streak'[a].length >= BadLimit]_vars
  BY <1>1
<1>3. QED BY <1>2, PolicyInvariant, PTL DEF Spec, SlowIsConfirmed

(* worker.go:1005-1013: a slow account returns only after the hold and     *)
(* with GoodLimit different good measurements as its last ones.            *)
THEOREM HoldLastsLong == Spec => HoldLasts
<1>1. ASSUME IInv, [Next]_vars, NEW a \in Account,
             account[a].state = "SLOW", account'[a].state # "SLOW"
      PROVE  /\ account[a].since >= Hold
             /\ streak[a].verdict = "good"
             /\ streak[a].length >= GoodLimit
  <2>1. Evaluate
    BY <1>1, StatesStay
  <2>2. PolicyTypeOK /\ account'[a] = Advanced(a)
    BY <1>1, <2>1, EvaluateIs DEF IInv
  <2>3. Recovers(account[a])
    BY <1>1, <2>2, AdvancedRow DEF Counts
  <2>4. /\ account[a].good \in Nat /\ streak[a].length \in Nat
    BY <2>2, Types, RowFields, Numbers DEF Streak
  <2>5. streak[a].verdict = "good" /\ streak[a].length >= account[a].good
    BY <1>1, <2>3, <2>4, Numbers DEF IInv, CountsAreStreaks, Recovers
  <2>6. QED BY <2>3, <2>4, <2>5, Numbers DEF Recovers
<1>2. IInv /\ [Next]_vars =>
        [\A a \in Account :
           account[a].state = "SLOW" /\ account'[a].state # "SLOW" =>
             /\ account[a].since >= Hold
             /\ streak[a].verdict = "good"
             /\ streak[a].length >= GoodLimit]_vars
  BY <1>1
<1>3. QED BY <1>2, PolicyInvariant, PTL DEF Spec, HoldLasts

-------------------------------------------------------------------------------
(* The plan prefers normal accounts to observed ones and those to slow     *)
(* ones, and of equal ones the faster.                                     *)
InOrder(a, b) ==
  LET planned(x) == Planned(account, x)
  IN /\ a # b => planned(a) # planned(b)
     /\ account[a].state = "NORMAL" /\ account[b].state # "NORMAL" => planned(a) < planned(b)
     /\ account[a].state # "SLOW" /\ account[b].state = "SLOW" => planned(a) < planned(b)
     /\ /\ account[a].state = account[b].state
        /\ HasScore(a) /\ HasScore(b) /\ Score(a) < Score(b)
        => planned(a) < planned(b)

(* Of two accounts that may serve, the one to be preferred has the lower   *)
(* priority, whatever the policy's priorities start with and however many  *)
(* accounts there are, and no two have the same (worker.go:1111-1180).     *)
PlanKeepsOrder == \A a, b \in Account : fit[a] /\ fit[b] => InOrder(a, b)

LEMMA PlannedByPlace ==
  ASSUME PolicyTypeOK, NEW r \in [Account -> Row], NEW a \in Account, NEW b \in Account,
         fit[a], fit[b], r[a].state = r[b].state, Ahead(r, r[a].state, a, b)
  PROVE  Planned(r, a) < Planned(r, b)
<1>1. Place(r, a) \in Nat /\ Place(r, b) \in Nat /\ Place(r, a) < Place(r, b)
  BY PlaceType, PlacesGrow
<1>2. Steps(Place(r, a)) < Steps(Place(r, b))
  BY <1>1, StepsGrow
<1>3. /\ Planned(r, a) = Start(r, r[a].state) + Steps(Place(r, a))
      /\ Planned(r, b) = Start(r, r[a].state) + Steps(Place(r, b))
      /\ Start(r, r[a].state) \in Nat
  BY PlannedInBand
<1>4. Steps(Place(r, a)) \in Nat /\ Steps(Place(r, b)) \in Nat
  BY <1>1, StepsGrow
<1>5. QED BY <1>2, <1>3, <1>4

LEMMA PlannedByState ==
  ASSUME PolicyTypeOK, NEW r \in [Account -> Row], NEW a \in Account, NEW b \in Account,
         fit[a], fit[b],
         \/ r[a].state = "NORMAL" /\ r[b].state # "NORMAL"
         \/ r[a].state # "SLOW" /\ r[b].state = "SLOW"
  PROVE  Planned(r, a) < Planned(r, b)
<1> DEFINE endOf(state) == Start(r, state) + Steps(Size(r, state))
<1>1. /\ Planned(r, a) \in Nat /\ Planned(r, b) \in Nat
      /\ Planned(r, a) + PriorityStep <= endOf(r[a].state)
      /\ Start(r, r[b].state) <= Planned(r, b)
  BY PlannedInBand
<1>2. /\ ObservingStart(r) \in Nat /\ FallbackStart(r) \in Nat
      /\ endOf("NORMAL") <= ObservingStart(r)
      /\ endOf("OBSERVING") <= FallbackStart(r)
  BY BandsFollow, Starts
<1>3. \A state : Steps(Size(r, state)) \in Nat
  BY Bands, StepsGrow DEF Size
<1>4. endOf("NORMAL") \in Nat /\ endOf("OBSERVING") \in Nat
  BY <1>2, <1>3, Starts, PriorityNumbers
<1>5. ObservingStart(r) <= FallbackStart(r)
  BY <1>2, <1>3, Starts
<1>6. endOf(r[a].state) \in Nat /\ endOf(r[a].state) <= Start(r, r[b].state)
  <2>1. CASE r[a].state = "NORMAL" /\ r[b].state = "OBSERVING"
    BY <1>2, <1>4, <2>1, Starts
  <2>2. CASE r[a].state = "NORMAL" /\ r[b].state = "SLOW"
    BY <1>2, <1>4, <1>5, <2>2, Starts
  <2>3. CASE r[a].state = "OBSERVING" /\ r[b].state = "SLOW"
    BY <1>2, <1>4, <2>3, Starts
  <2>4. QED BY <2>1, <2>2, <2>3, RowFields DEF State
<1>7. Start(r, r[b].state) \in Nat
  BY PlannedInBand
<1> HIDE DEF endOf
<1>8. QED BY <1>1, <1>6, <1>7, PriorityNumbers

(* The plan puts every account where its state and its speed say, and no   *)
(* two on one priority, for every number of accounts and every start and   *)
(* step an operator may choose (control.go:787-792).                       *)
THEOREM PlanInOrder == Spec => []PlanKeepsOrder
<1>1. ASSUME IInv, NEW a \in Account, NEW b \in Account, fit[a], fit[b]
      PROVE  InOrder(a, b)
  <2>1. PolicyTypeOK /\ account \in [Account -> Row]
    BY <1>1, Types DEF IInv
  <2>2. Planned(account, a) \in Nat /\ Planned(account, b) \in Nat
    BY <1>1, <2>1, PlannedInBand
  <2>3. ASSUME \/ account[a].state = "NORMAL" /\ account[b].state # "NORMAL"
               \/ account[a].state # "SLOW" /\ account[b].state = "SLOW"
        PROVE  Planned(account, a) < Planned(account, b)
    BY <1>1, <2>1, <2>3, PlannedByState
  <2>4. ASSUME account[a].state = account[b].state, HasScore(a), HasScore(b),
               Score(a) < Score(b)
        PROVE  Planned(account, a) < Planned(account, b)
    <3>1. Score(a) \in Nat /\ Score(b) \in Nat
      BY <1>1, <2>1, ScoreType
    <3>2. Ahead(account, account[a].state, a, b)
      BY <2>4, <3>1, SameBandIsEqual DEF Ahead, FasterThan
    <3>3. QED BY <1>1, <2>1, <2>4, <3>2, PlannedByPlace
  <2>5. ASSUME a # b PROVE Planned(account, a) # Planned(account, b)
    <3>1. CASE account[a].state = account[b].state
      <4>1. \/ Ahead(account, account[a].state, a, b)
            \/ Ahead(account, account[b].state, b, a)
        BY <1>1, <2>1, <2>5, <3>1, AheadIsOrder
      <4>2. \/ Planned(account, a) < Planned(account, b)
            \/ Planned(account, b) < Planned(account, a)
        BY <1>1, <2>1, <3>1, <4>1, PlannedByPlace
      <4>3. QED BY <2>2, <4>2
    <3>2. CASE account[a].state # account[b].state
      <4>1. account[a].state \in State /\ account[b].state \in State
        BY <1>1, <2>1, RowFields
      <4>2. \/ account[a].state = "NORMAL" /\ account[b].state # "NORMAL"
            \/ account[a].state # "SLOW" /\ account[b].state = "SLOW"
            \/ account[b].state = "NORMAL" /\ account[a].state # "NORMAL"
            \/ account[b].state # "SLOW" /\ account[a].state = "SLOW"
        BY <3>2, <4>1 DEF State
      <4>3. \/ Planned(account, a) < Planned(account, b)
            \/ Planned(account, b) < Planned(account, a)
        BY <1>1, <2>1, <4>2, PlannedByState
      <4>4. QED BY <2>2, <4>3
    <3>3. QED BY <3>1, <3>2
  <2>6. QED BY <2>3, <2>4, <2>5 DEF InOrder
<1>2. IInv => PlanKeepsOrder
  BY <1>1 DEF PlanKeepsOrder
<1>3. QED BY <1>2, PolicyInvariant, PTL

=============================================================================
