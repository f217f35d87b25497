--------------------------- MODULE RecommendProofs ---------------------------
(***************************************************************************)
(* Theorems about Recommend, for any number of providers, any window and   *)
(* any latencies.  The two loops are recursive functions; that a function  *)
(* with the recursive equation exists, and what it computes, is shown by   *)
(* looking at the least number for which it would fail.                    *)
(***************************************************************************)
EXTENDS Recommend, FiniteSetTheorems, TLAPS

LEMMA LeastNumber ==
  ASSUME NEW S, S \subseteq Nat, S # {}
  PROVE  Min(S) \in S /\ \A y \in S : Min(S) <= y
<1>1. PICK x \in S : \A y \in S : ~(<<y, x>> \in OpToRel(<, Nat))
  BY NatLessThanWellFounded, WFMin
<1>2. \A y \in S : x <= y
  <2> SUFFICES ASSUME NEW y \in S, y < x PROVE FALSE
    OBVIOUS
  <2> QED
    BY <1>1 DEF OpToRel
<1> QED
  BY <1>2 DEF Min

-----------------------------------------------------------------------------
(***************************************************************************)
(* The order of the scores                                                 *)
(***************************************************************************)

(* What the first loop computes: no more successes than rows. *)
Sound == {s \in Score : s.successes <= s.total}

LEMMA SoundFields ==
  ASSUME NEW s \in Sound
  PROVE  /\ s.successes \in Nat /\ s.total \in Nat /\ s.latency \in Nat
         /\ s.successes > 0 => s.total > 0
BY DEF Sound, Score

LEMMA Monotone == \A a, b, c \in Nat : a <= b => a * c <= b * c
OBVIOUS

LEMMA Strict == \A a, b, c \in Nat : a < b /\ c > 0 => a * c < b * c
OBVIOUS

LEMMA Products == \A a, b \in Nat : a * b \in Nat /\ (a > 0 /\ b > 0 => a * b > 0)
<1> SUFFICES ASSUME NEW a \in Nat, NEW b \in Nat
             PROVE  a * b \in Nat /\ (a > 0 /\ b > 0 => a * b > 0)
  OBVIOUS
<1>1. a * b \in Nat
  OBVIOUS
<1>2. a > 0 /\ b > 0 => 0 * b < a * b
  BY Strict
<1> QED
  BY <1>1, <1>2

LEMMA FractionOfScore ==
  ASSUME NEW s \in Sound
  PROVE  /\ Numerator(s) \in Nat /\ Denominator(s) \in Nat /\ Denominator(s) > 0
         /\ Numerator(s) = s.successes * s.successes
         /\ s.successes > 0 =>
              /\ Numerator(s) > 0
              /\ Denominator(s) = s.total * (s.successes + s.latency)
<1>1. /\ s.successes \in Nat /\ s.total \in Nat /\ s.latency \in Nat
      /\ s.successes > 0 => s.total > 0
  BY SoundFields
<1>2. Numerator(s) = s.successes * s.successes
  BY DEF Numerator
<1>3. CASE s.successes = 0
  BY <1>1, <1>2, <1>3 DEF Denominator
<1>4. CASE s.successes > 0
  <2>1. Denominator(s) = s.total * (s.successes + s.latency)
    BY <1>1, <1>4 DEF Denominator
  <2>2. s.successes + s.latency \in Nat /\ s.successes + s.latency > 0
    BY <1>1, <1>4
  <2> QED
    BY <1>1, <1>2, <1>4, <2>1, <2>2, Products
<1> QED
  BY <1>1, <1>3, <1>4

(* Comparing fractions, crosswise. *)
LEMMA Crosswise ==
  ASSUME NEW a \in Nat, NEW b \in Nat, NEW c \in Nat,
         NEW x \in Nat, NEW y \in Nat, NEW z \in Nat, x > 0, y > 0, z > 0,
         a * y >= b * x, b * z >= c * y
  PROVE  /\ a * z >= c * x
         /\ a * y > b * x \/ b * z > c * y => a * z > c * x
<1>1. (b * x) * z \in Nat /\ a * y \in Nat /\ b * x \in Nat /\ b * z \in Nat /\ c * y \in Nat
      /\ a * z \in Nat /\ c * x \in Nat
  BY Products
<1>2. (b * x) * z <= (a * y) * z /\ (c * y) * x <= (b * z) * x
  BY <1>1, Monotone
<1>3. /\ (a * y) * z = (a * z) * y
      /\ (b * x) * z = (b * z) * x
      /\ (c * y) * x = (c * x) * y
  OBVIOUS
<1>4. (c * x) * y <= (a * z) * y
  BY <1>1, <1>2, <1>3, Products
<1>5. a * z >= c * x
  <2> SUFFICES ASSUME a * z < c * x PROVE FALSE
    BY <1>1
  <2> QED
    BY <1>1, <1>4, Strict, Products
<1>6. ASSUME a * y > b * x \/ b * z > c * y PROVE a * z > c * x
  <2>1. (b * x) * z < (a * y) * z \/ (c * y) * x < (b * z) * x
    BY <1>1, <1>6, Strict
  <2>2. (c * x) * y < (a * z) * y
    BY <1>1, <1>2, <1>3, <2>1, Products
  <2> QED
    BY <1>1, <1>5, <2>2, Products
<1> QED
  BY <1>5, <1>6

(* Nobody beats itself, and who does not lose to b beats whom b beats. *)
LEMMA BeatsIsAnOrder ==
  ASSUME NEW a \in Sound, NEW b \in Sound, NEW c \in Sound
  PROVE  /\ ~Beats(a, a)
         /\ Beats(a, b) => ~Beats(b, a)
         /\ ~Beats(b, a) /\ ~Beats(c, b) => ~Beats(c, a)
         /\ ~Beats(b, a) /\ Beats(b, c) => Beats(a, c)
         /\ Beats(a, b) /\ ~Beats(c, b) => Beats(a, c)
<1> DEFINE na == Numerator(a)  da == Denominator(a)
           nb == Numerator(b)  db == Denominator(b)
           nc == Numerator(c)  dc == Denominator(c)
<1>1. /\ na \in Nat /\ da \in Nat /\ da > 0
      /\ nb \in Nat /\ db \in Nat /\ db > 0
      /\ nc \in Nat /\ dc \in Nat /\ dc > 0
  BY FractionOfScore
<1>2. /\ Beats(a, a) <=> na * da > na * da
      /\ Beats(a, b) <=> na * db > nb * da
      /\ Beats(b, a) <=> nb * da > na * db
      /\ Beats(b, c) <=> nb * dc > nc * db
      /\ Beats(c, b) <=> nc * db > nb * dc
      /\ Beats(a, c) <=> na * dc > nc * da
      /\ Beats(c, a) <=> nc * da > na * dc
  BY DEF Beats
<1> HIDE DEF na, da, nb, db, nc, dc
<1>3. /\ na * da \in Nat /\ na * db \in Nat /\ nb * da \in Nat /\ nb * dc \in Nat
      /\ nc * db \in Nat /\ na * dc \in Nat /\ nc * da \in Nat
  BY <1>1, Products
<1>4. na * db >= nb * da /\ nb * dc >= nc * db =>
        /\ na * dc >= nc * da
        /\ na * db > nb * da \/ nb * dc > nc * db => na * dc > nc * da
  BY <1>1, Crosswise
<1> QED
  BY <1>2, <1>3, <1>4

-----------------------------------------------------------------------------
(***************************************************************************)
(* The last loop                                                           *)
(***************************************************************************)
Turn(list, best, i) ==
  IF i = 0 THEN 0
  ELSE IF i = 1 THEN 1
  ELSE IF Beats(list[i], list[best[i - 1]]) THEN i ELSE best[i - 1]

(* There is such a function, for any number of turns. *)
LEMMA LoopExists ==
  ASSUME NEW list, NEW n \in Nat
  PROVE  \E best : best = [i \in 0..n |-> Turn(list, best, i)]
<1> DEFINE stuck == {m \in Nat : ~\E best : best = [i \in 0..m |-> Turn(list, best, i)]}
<1> SUFFICES ASSUME n \in stuck PROVE FALSE
  OBVIOUS
<1> DEFINE m == Min(stuck)
<1>1. m \in stuck /\ \A k \in stuck : m <= k
  <2>1. stuck \subseteq Nat /\ stuck # {}
    OBVIOUS
  <2> HIDE DEF stuck
  <2> QED
    BY <2>1, LeastNumber
<1> HIDE DEF m
<1>2. m \in Nat /\ ~\E best : best = [i \in 0..m |-> Turn(list, best, i)]
  BY <1>1
<1>3. CASE m = 0
  <2> DEFINE best == [i \in 0..0 |-> 0]
  <2>1. best = [i \in 0..0 |-> Turn(list, best, i)]
    BY DEF Turn
  <2> HIDE DEF best
  <2> QED
    BY <1>2, <1>3, <2>1
<1>4. CASE m > 0
  <2>1. m - 1 \in Nat /\ m - 1 \notin stuck
    BY <1>1, <1>2, <1>4
  <2>2. PICK best : best = [i \in 0..(m - 1) |-> Turn(list, best, i)]
    BY <2>1
  <2> DEFINE more == [i \in 0..m |-> IF i = m THEN Turn(list, best, m) ELSE best[i]]
  <2>3. \A i \in 0..m : more[i] = Turn(list, more, i)
    <3> SUFFICES ASSUME NEW i \in 0..m PROVE more[i] = Turn(list, more, i)
      OBVIOUS
    <3>1. i > 0 => i - 1 \in 0..(m - 1) /\ more[i - 1] = best[i - 1]
      BY <1>2, <1>4
    <3>2. Turn(list, more, i) = Turn(list, best, i)
      BY <3>1 DEF Turn
    <3>3. i # m => i \in 0..(m - 1) /\ best[i] = Turn(list, best, i)
      BY <1>2, <2>2
    <3> QED
      BY <3>2, <3>3
  <2>4. more = [i \in 0..m |-> Turn(list, more, i)]
    BY <2>3
  <2> HIDE DEF more
  <2> QED
    BY <1>2, <2>4
<1> QED
  BY <1>2, <1>3, <1>4

(***************************************************************************)
(* The loop returns an entry no other beats and that beats every one       *)
(* before it.                                                              *)
(***************************************************************************)
Foremost(list, b, n) ==
  /\ b \in 1..n
  /\ \A j \in 1..n : ~Beats(list[j], list[b])
  /\ \A j \in 1..n : j < b => Beats(list[b], list[j])

LEMMA OneTurn ==
  ASSUME NEW list \in Seq(Sound), NEW n \in Nat, n > 1, n <= Len(list),
         NEW best, NEW b, Foremost(list, b, n - 1), b = best[n - 1]
  PROVE  Foremost(list, Turn(list, best, n), n)
<1>1. /\ b \in 1..n /\ b < n /\ \A j \in 1..n : list[j] \in Sound
      /\ \A j \in 1..n : j \in 1..(n - 1) \/ j = n
  BY DEF Foremost
<1>2. /\ \A j \in 1..(n - 1) : ~Beats(list[j], list[b])
      /\ \A j \in 1..(n - 1) : j < b => Beats(list[b], list[j])
  BY DEF Foremost
<1>3. CASE Beats(list[n], list[b])
  <2>1. Turn(list, best, n) = n
    BY <1>3 DEF Turn
  <2>2. \A j \in 1..(n - 1) : j \in 1..n /\ Beats(list[n], list[j])
    BY <1>1, <1>2, <1>3, BeatsIsAnOrder
  <2>3. n \in 1..n /\ \A j \in 1..n : ~Beats(list[j], list[n])
    BY <1>1, <2>2, BeatsIsAnOrder
  <2> QED
    BY <1>1, <2>1, <2>2, <2>3 DEF Foremost
<1>4. CASE ~Beats(list[n], list[b])
  <2>1. Turn(list, best, n) = b
    BY <1>4 DEF Turn
  <2>2. \A j \in 1..n : ~Beats(list[j], list[b])
    BY <1>1, <1>2, <1>4
  <2>3. \A j \in 1..n : j < b => Beats(list[b], list[j])
    BY <1>1, <1>2
  <2> QED
    BY <1>1, <2>1, <2>2, <2>3 DEF Foremost
<1> QED
  BY <1>3, <1>4

THEOREM BestIsForemost ==
  ASSUME NEW list \in Seq(Sound), Len(list) > 0
  PROVE  Foremost(list, Best(list), Len(list))
<1> DEFINE size == Len(list)
           best == CHOOSE f : f = [i \in 0..size |-> Turn(list, f, i)]
           wrong == {n \in Nat : n \in 1..size /\ ~Foremost(list, best[n], n)}
<1>1. size \in Nat /\ size > 0
  OBVIOUS
<1>2. best = [i \in 0..size |-> Turn(list, best, i)]
  BY <1>1, LoopExists
<1>3. Best(list) = best[size]
  BY DEF Best, Turn
<1> HIDE DEF best
<1> SUFFICES ASSUME size \in wrong PROVE FALSE
  BY <1>1, <1>3
<1> DEFINE n == Min(wrong)
<1>4. n \in wrong /\ \A k \in wrong : n <= k
  <2>1. wrong \subseteq Nat /\ wrong # {}
    OBVIOUS
  <2> HIDE DEF wrong
  <2> QED
    BY <2>1, LeastNumber
<1> HIDE DEF n
<1>5. /\ n \in 1..size /\ n \in Nat /\ ~Foremost(list, best[n], n)
      /\ best[n] = Turn(list, best, n)
  BY <1>1, <1>2, <1>4
<1>6. CASE n = 1
  <2>1. best[1] = 1 /\ list[1] \in Sound
    BY <1>1, <1>5, <1>6 DEF Turn
  <2> QED
    BY <1>5, <1>6, <2>1, BeatsIsAnOrder DEF Foremost
<1>7. CASE n > 1
  <2>1. n - 1 \in 1..size /\ n - 1 \in Nat /\ n - 1 \notin wrong
    BY <1>1, <1>4, <1>5, <1>7
  <2>2. Foremost(list, best[n - 1], n - 1)
    BY <2>1
  <2> QED
    BY <1>1, <1>5, <1>7, <2>2, OneTurn
<1> QED
  BY <1>5, <1>6, <1>7

-----------------------------------------------------------------------------
(***************************************************************************)
(* What is read of a provider                                              *)
(***************************************************************************)
Added(rows, sum, i) == IF i = 0 THEN 0 ELSE sum[i - 1] + rows[i].latency

LEMMA SumExists ==
  ASSUME NEW rows, NEW n \in Nat
  PROVE  \E sum : sum = [i \in 0..n |-> Added(rows, sum, i)]
<1> DEFINE stuck == {m \in Nat : ~\E sum : sum = [i \in 0..m |-> Added(rows, sum, i)]}
<1> SUFFICES ASSUME n \in stuck PROVE FALSE
  OBVIOUS
<1> DEFINE m == Min(stuck)
<1>1. m \in stuck /\ \A k \in stuck : m <= k
  <2>1. stuck \subseteq Nat /\ stuck # {}
    OBVIOUS
  <2> HIDE DEF stuck
  <2> QED
    BY <2>1, LeastNumber
<1> HIDE DEF m
<1>2. m \in Nat /\ ~\E sum : sum = [i \in 0..m |-> Added(rows, sum, i)]
  BY <1>1
<1>3. CASE m = 0
  <2> DEFINE sum == [i \in 0..0 |-> 0]
  <2>1. sum = [i \in 0..0 |-> Added(rows, sum, i)]
    BY DEF Added
  <2> HIDE DEF sum
  <2> QED
    BY <1>2, <1>3, <2>1
<1>4. CASE m > 0
  <2>1. m - 1 \in Nat /\ m - 1 \notin stuck
    BY <1>1, <1>2, <1>4
  <2>2. PICK sum : sum = [i \in 0..(m - 1) |-> Added(rows, sum, i)]
    BY <2>1
  <2> DEFINE more == [i \in 0..m |-> IF i = m THEN Added(rows, sum, m) ELSE sum[i]]
  <2>3. \A i \in 0..m : more[i] = Added(rows, more, i)
    <3> SUFFICES ASSUME NEW i \in 0..m PROVE more[i] = Added(rows, more, i)
      OBVIOUS
    <3>1. i > 0 => i - 1 \in 0..(m - 1) /\ more[i - 1] = sum[i - 1]
      BY <1>2, <1>4
    <3>2. Added(rows, more, i) = Added(rows, sum, i)
      BY <3>1 DEF Added
    <3>3. i # m => i \in 0..(m - 1) /\ sum[i] = Added(rows, sum, i)
      BY <1>2, <2>2
    <3> QED
      BY <3>2, <3>3
  <2>4. more = [i \in 0..m |-> Added(rows, more, i)]
    BY <2>3
  <2> HIDE DEF more
  <2> QED
    BY <1>2, <2>4
<1> QED
  BY <1>2, <1>3, <1>4

LEMMA SumIsNumber ==
  ASSUME NEW rows \in Seq(Row) PROVE SumOfLatencies(rows) \in Nat
<1> DEFINE size == Len(rows)
           sum == CHOOSE f : f = [i \in 0..size |-> Added(rows, f, i)]
           wrong == {n \in Nat : n \in 0..size /\ sum[n] \notin Nat}
<1>1. size \in Nat /\ \A i \in 1..size : rows[i].latency \in Nat
  <2>1. \A i \in 1..size : rows[i] \in Row
    OBVIOUS
  <2>2. ASSUME NEW row \in Row PROVE row.latency \in Nat
    <3>1. row.latency \in Latencies \/ row.latency = 0
      BY DEF Row
    <3>2. \A l \in Latencies : l \in Nat
      BY RecommendAssumption
    <3> QED
      BY <3>1, <3>2
  <2> QED
    BY <2>1, <2>2
<1>2. sum = [i \in 0..size |-> Added(rows, sum, i)]
  BY <1>1, SumExists
<1>3. SumOfLatencies(rows) = sum[size]
  BY DEF SumOfLatencies, Added
<1> HIDE DEF sum
<1> SUFFICES ASSUME size \in wrong PROVE FALSE
  BY <1>1, <1>3
<1> DEFINE n == Min(wrong)
<1>4. n \in wrong /\ \A k \in wrong : n <= k
  <2>1. wrong \subseteq Nat /\ wrong # {}
    OBVIOUS
  <2> HIDE DEF wrong
  <2> QED
    BY <2>1, LeastNumber
<1> HIDE DEF n
<1>5. n \in 0..size /\ n \in Nat /\ sum[n] \notin Nat /\ sum[n] = Added(rows, sum, n)
  BY <1>1, <1>2, <1>4
<1>6. CASE n = 0
  BY <1>5, <1>6 DEF Added
<1>7. CASE n > 0
  <2>1. n - 1 \in 0..size /\ n - 1 \in Nat /\ n - 1 \notin wrong /\ n \in 1..size
    BY <1>1, <1>4, <1>5, <1>7
  <2> QED
    BY <1>1, <1>5, <1>7, <2>1 DEF Added
<1> QED
  BY <1>5, <1>6, <1>7

LEMMA FewInInterval ==
  ASSUME NEW n \in Nat, NEW S, S \subseteq 1..n
  PROVE  Cardinality(S) \in Nat /\ Cardinality(S) <= n
<1>1. IsFiniteSet(1..n) /\ Cardinality(1..n) = n
  <2>1. IsFiniteSet(1..n) /\ Cardinality(1..n) = IF 1 > n THEN 0 ELSE n - 1 + 1
    BY FS_Interval
  <2> QED
    BY <2>1
<1>2. IsFiniteSet(S) /\ Cardinality(S) <= Cardinality(1..n)
  BY <1>1, FS_Subset
<1> QED
  BY <1>1, <1>2, FS_CardinalityType

LEMMA ScoreIsSound ==
  /\ NoScore \in Sound
  /\ \A rows \in Seq(Row) : ScoreOf(rows) \in Sound
<1>1. NoScore \in Sound
  BY DEF NoScore, Sound, Score
<1>2. ASSUME NEW rows \in Seq(Row) PROVE ScoreOf(rows) \in Sound
  <2> DEFINE good == {i \in DOMAIN rows : rows[i].success}
  <2>1. DOMAIN rows = 1..Len(rows) /\ Len(rows) \in Nat /\ good \subseteq 1..Len(rows)
    OBVIOUS
  <2> HIDE DEF good
  <2>3. Cardinality(good) \in Nat /\ Cardinality(good) <= Len(rows)
    BY <2>1, FewInInterval
  <2> QED
    BY <2>1, <2>3, SumIsNumber DEF ScoreOf, Sound, Score, good
<1> QED
  BY <1>1, <1>2

-----------------------------------------------------------------------------
(***************************************************************************)
(* The invariant: the tables keep to their window, the scores are sound,   *)
(* and an answer is what the last loop returns for all of them.            *)
(***************************************************************************)
Requesting ==
  /\ checks \in [Providers -> Seq(Row)]
  /\ \A p \in Providers : Len(checks[p]) <= Window
  /\ scores \in Seq(Sound) /\ Len(scores) <= N
  /\ answer \in 0..N
  /\ answer # 0 => Len(scores) = N /\ answer = Best(scores)

LEMMA RequestingInit == Init => Requesting
BY RecommendAssumption DEF Init, Requesting

LEMMA InsertKeeps ==
  ASSUME Requesting, NEW p \in Providers, NEW row \in Row, InsertCheck(p, row)
  PROVE  Requesting'
<1> DEFINE all  == <<row>> \o checks[p]
           size == Min({Len(checks[p]) + 1, Window})
           rows == SubSeq(all, 1, size)
<1>1. checks[p] \in Seq(Row) /\ Len(checks[p]) \in Nat /\ Window \in Nat
  BY RecommendAssumption DEF Requesting
<1>2. all \in Seq(Row) /\ Len(all) = Len(checks[p]) + 1
  BY <1>1
<1>3. size \in Nat /\ size <= Len(checks[p]) + 1 /\ size <= Window
  <2> DEFINE S == {Len(checks[p]) + 1, Window}
  <2>1. S \subseteq Nat /\ S # {}
    BY <1>1
  <2>2. Min(S) \in S /\ \A y \in S : Min(S) <= y
    BY <2>1, LeastNumber
  <2> QED
    BY <2>1, <2>2
<1> HIDE DEF all, size
<1>4. rows \in Seq(Row) /\ Len(rows) = size
  BY <1>2, <1>3
<1> HIDE DEF rows
<1>5. checks' = [checks EXCEPT ![p] = rows] /\ UNCHANGED <<scores, answer>>
  BY DEF InsertCheck, rows, all, size, Requesting
<1> QED
  BY <1>3, <1>4, <1>5 DEF Requesting

LEMMA RequestingStep ==
  ASSUME Requesting, [Next]_vars PROVE Requesting'
<1>1. N \in Nat /\ N > 0
  BY RecommendAssumption
<1>2. ASSUME NEW p \in Providers, NEW row \in Row, InsertCheck(p, row) PROVE Requesting'
  BY <1>2, InsertKeeps
<1>3. CASE ReadNext
  <2>1. PICK score \in {ScoreOf(checks[Len(scores) + 1]), NoScore} :
          scores' = Append(scores, score)
    BY <1>3 DEF ReadNext
  <2>2. /\ Len(scores) < N /\ UNCHANGED <<checks, answer>>
        /\ Len(scores) + 1 \in Providers /\ Len(scores) \in Nat
    BY <1>1, <1>3 DEF ReadNext, Requesting, Providers
  <2>3. score \in Sound
    BY <2>1, <2>2, ScoreIsSound DEF Requesting
  <2>4. scores' \in Seq(Sound) /\ Len(scores') = Len(scores) + 1
    BY <2>1, <2>3 DEF Requesting
  <2> QED
    BY <1>1, <2>2, <2>4 DEF Requesting
<1>4. CASE Return
  <2>1. /\ Len(scores) = N /\ answer' = Best(scores) /\ UNCHANGED <<checks, scores>>
        /\ scores \in Seq(Sound)
    BY <1>4 DEF Return, Requesting
  <2>2. Best(scores) \in 1..N
    BY <1>1, <2>1, BestIsForemost DEF Foremost
  <2> QED
    BY <1>1, <2>1, <2>2 DEF Requesting
<1>5. CASE NextRequest
  <2>1. scores' \in Seq(Sound) /\ Len(scores') = 0
    BY <1>5 DEF NextRequest
  <2> QED
    BY <1>1, <1>5, <2>1 DEF NextRequest, Requesting
<1>6. CASE UNCHANGED vars
  BY <1>6 DEF vars, Requesting
<1> QED
  BY <1>2, <1>3, <1>4, <1>5, <1>6 DEF Next

LEMMA AlwaysRequesting == Spec => []Requesting
BY RequestingInit, RequestingStep, PTL DEF Spec

(***************************************************************************)
(* The types: InsertCheck and RecentChecks keep to the window, and an      *)
(* answer is the number of a provider.                                     *)
(***************************************************************************)
THEOREM RecommendTypeCorrect == Spec => []TypeOK
<1>1. Requesting => TypeOK
  <2>1. Seq(Sound) \subseteq Seq(Score)
    BY DEF Sound
  <2> QED
    BY <2>1 DEF Requesting, TypeOK
<1> QED
  BY <1>1, AlwaysRequesting, PTL

-----------------------------------------------------------------------------
(***************************************************************************)
(* What the recommendation is worth                                        *)
(***************************************************************************)
LEMMA AnswerIsForemost ==
  ASSUME Requesting, Answered
  PROVE  /\ answer \in Providers /\ Foremost(scores, answer, N)
         /\ \A p \in Providers : scores[p] \in Sound /\ ~Beats(scores[p], Chosen)
<1>1. /\ N \in Nat /\ N > 0 /\ scores \in Seq(Sound) /\ Len(scores) = N
      /\ answer = Best(scores)
  BY RecommendAssumption DEF Requesting, Answered
<1>2. Foremost(scores, answer, N)
  BY <1>1, BestIsForemost
<1> QED
  BY <1>1, <1>2 DEF Foremost, Providers, Chosen

(***************************************************************************)
(* The first, in config order, of the providers no other beats.            *)
(***************************************************************************)
THEOREM FirstOfTheBestIsTaken == Spec => []FirstOfTheBest
<1>1. ASSUME Requesting, Answered
      PROVE  answer = Min({p \in Providers : \A q \in Providers : ~Beats(scores[q], scores[p])})
  <2> DEFINE top == {p \in Providers : \A q \in Providers : ~Beats(scores[q], scores[p])}
  <2>1. answer \in Providers /\ Foremost(scores, answer, N) /\ N \in Nat
    BY <1>1, AnswerIsForemost, RecommendAssumption
  <2>2. answer \in top
    BY <2>1 DEF Foremost, Providers
  <2>3. \A p \in top : p \in Nat /\ ~(p < answer)
    BY <2>1 DEF Foremost, Providers
  <2>4. top \subseteq Nat /\ top # {} /\ answer \in Nat
    BY <2>1, <2>2 DEF Providers
  <2> HIDE DEF top
  <2>5. Min(top) \in top /\ \A y \in top : Min(top) <= y
    BY <2>4, LeastNumber
  <2>6. Min(top) \in Nat /\ ~(Min(top) < answer) /\ Min(top) <= answer
    BY <2>2, <2>3, <2>5
  <2>7. Min(top) = answer
    BY <2>4, <2>6
  <2> QED
    BY <2>7 DEF top
<1>2. Requesting => FirstOfTheBest
  BY <1>1 DEF FirstOfTheBest
<1> QED
  BY <1>2, AlwaysRequesting, PTL

(***************************************************************************)
(* No provider without a success while there is one with.                  *)
(***************************************************************************)
THEOREM WorkingIsPreferred == Spec => []WorkingPreferred
<1>1. ASSUME Requesting, Answered, Chosen.successes = 0, NEW p \in Providers
      PROVE  scores[p].successes = 0
  <2>1. scores[p] \in Sound /\ Chosen \in Sound /\ ~Beats(scores[p], Chosen)
    BY <1>1, AnswerIsForemost DEF Chosen
  <2>2. Numerator(Chosen) = 0 /\ Denominator(Chosen) = 1
    BY <1>1, <2>1, FractionOfScore DEF Denominator
  <2>3. Numerator(scores[p]) \in Nat /\ Denominator(scores[p]) \in Nat
    BY <2>1, FractionOfScore
  <2>4. ~(Numerator(scores[p]) > 0)
    BY <2>1, <2>2, <2>3 DEF Beats
  <2> QED
    BY <2>1, <2>3, <2>4, FractionOfScore, SoundFields
<1>2. Requesting => WorkingPreferred
  BY <1>1 DEF WorkingPreferred
<1> QED
  BY <1>2, AlwaysRequesting, PTL

(* A product that is not greater although its factors are not smaller. *)
LEMMA SameFactors ==
  ASSUME NEW a \in Nat, NEW b \in Nat, NEW x \in Nat, NEW y \in Nat,
         b > 0, x > 0, a >= b, x >= y, a * x <= b * y
  PROVE  a = b /\ x = y
<1>1. a * x \in Nat /\ b * x \in Nat /\ b * y \in Nat /\ y * b = b * y /\ x * b = b * x
  BY Products
<1>2. b * x <= a * x /\ b * y <= b * x
  BY <1>1, Monotone
<1>3. b < a => b * x < a * x
  BY Strict
<1>4. y < x => b * y < b * x
  BY <1>1, Strict
<1> QED
  BY <1>1, <1>2, <1>3, <1>4

(***************************************************************************)
(* Nobody is passed over for a provider that is worse in every respect.    *)
(***************************************************************************)
LEMMA ScoreTradesOff ==
  ASSUME NEW s \in Sound, NEW c \in Sound, s.successes > 0, c.successes > 0,
         RateAtLeast(s, c), LatencyAtMost(s, c), ~Beats(s, c)
  PROVE  RateAtLeast(c, s) /\ LatencyAtMost(c, s)
<1> DEFINE ss == s.successes  st == s.total  sl == s.latency
           cs == c.successes  ct == c.total  cl == c.latency
           a == ss * ct   x == ss * (cs + cl)
           b == cs * st   y == cs * (ss + sl)
<1>1. /\ ss \in Nat /\ st \in Nat /\ sl \in Nat /\ ss > 0 /\ st > 0
      /\ cs \in Nat /\ ct \in Nat /\ cl \in Nat /\ cs > 0 /\ ct > 0
  BY SoundFields
<1>2. /\ a >= b
      /\ sl * cs <= cl * ss
  BY DEF RateAtLeast, LatencyAtMost
<1>3. /\ (ss * ss) * (ct * (cs + cl)) <= (cs * cs) * (st * (ss + sl))
  <2>1. /\ Numerator(s) = ss * ss /\ Denominator(s) = st * (ss + sl)
        /\ Numerator(c) = cs * cs /\ Denominator(c) = ct * (cs + cl)
        /\ Numerator(s) \in Nat /\ Denominator(s) \in Nat
        /\ Numerator(c) \in Nat /\ Denominator(c) \in Nat
    BY FractionOfScore
  <2>2. ~(Numerator(s) * Denominator(c) > Numerator(c) * Denominator(s))
    BY DEF Beats
  <2>3. Numerator(s) * Denominator(c) \in Nat /\ Numerator(c) * Denominator(s) \in Nat
    BY <2>1, Products
  <2>4. Numerator(s) * Denominator(c) <= Numerator(c) * Denominator(s)
    BY <2>2, <2>3
  <2> QED
    BY <2>1, <2>4
<1> HIDE DEF ss, st, sl, cs, ct, cl
<1>4. a * x <= b * y
  <2>1. /\ (ss * ss) * (ct * (cs + cl)) = a * x
        /\ (cs * cs) * (st * (ss + sl)) = b * y
    BY <1>1
  <2> QED
    BY <1>3, <2>1
<1>5. /\ x = ss * cs + cl * ss
      /\ y = ss * cs + sl * cs
      /\ ss * cs \in Nat /\ cl * ss \in Nat /\ sl * cs \in Nat
  BY <1>1, Products
<1>6. a \in Nat /\ b \in Nat /\ x \in Nat /\ y \in Nat /\ b > 0 /\ x > 0 /\ x >= y
  <2>1. ss * cs > 0 /\ b > 0 /\ a \in Nat /\ b \in Nat
    BY <1>1, Products
  <2> QED
    BY <1>2, <1>5, <2>1
<1> HIDE DEF a, b, x, y
<1>7. a = b /\ x = y
  BY <1>2, <1>4, <1>6, SameFactors
<1>8. cl * ss <= sl * cs
  BY <1>5, <1>7
<1>9. RateAtLeast(c, s)
  BY <1>6, <1>7 DEF RateAtLeast, a, b, ss, st, cs, ct
<1>10. LatencyAtMost(c, s)
  BY <1>8 DEF LatencyAtMost, ss, sl, cs, cl
<1> QED
  BY <1>9, <1>10

THEOREM NobodyIsDominated == Spec => []Undominated
<1>1. ASSUME Requesting, Answered, NEW p \in Providers
      PROVE  LET s == scores[p]
             IN  s.successes > 0 /\ Chosen.successes > 0
                   /\ RateAtLeast(s, Chosen) /\ LatencyAtMost(s, Chosen)
                 => RateAtLeast(Chosen, s) /\ LatencyAtMost(Chosen, s)
  <2>1. scores[p] \in Sound /\ Chosen \in Sound /\ ~Beats(scores[p], Chosen)
    BY <1>1, AnswerIsForemost DEF Chosen
  <2> QED
    BY <2>1, ScoreTradesOff
<1>2. Requesting => Undominated
  BY <1>1 DEF Undominated
<1> QED
  BY <1>2, AlwaysRequesting, PTL
=============================================================================
