----------------------------- MODULE Recommend -----------------------------
(***************************************************************************)
(* The recommended RPC provider (RecommendedRPCProvider in                 *)
(* internal/incidents/engine.go), which the status page, /status and /rpc  *)
(* ask for while the monitor stores checks: one RecentChecks per provider, *)
(* a score each, the best of the scores.                                   *)
(*                                                                         *)
(* Scores are compared exactly, as fractions; the code rounds them to      *)
(* float64, so two scores that are equal here may differ in the last bit.  *)
(***************************************************************************)
EXTENDS Integers, Sequences, FiniteSetsExt

CONSTANTS
  N,          \* how many RPC providers, numbered in the order of the config
  Window,     \* how many rows RecentChecks is asked for (50 at every caller)
  Latencies   \* the latencies of successful checks

ASSUME RecommendAssumption ==
  N \in Nat \ {0} /\ Window \in Nat \ {0} /\ Latencies \subseteq Nat

VARIABLES
  checks,   \* per provider, the newest Window rows
  scores,   \* what the running request has computed so far
  answer    \* the provider it returns, 0 before

vars == <<checks, scores, answer>>

Providers == 1..N
Row       == [success : {TRUE}, latency : Latencies]
               \cup [success : {FALSE}, latency : {0}]
Score     == [successes : Nat, total : Nat, latency : Nat]

SumOfLatencies(rows) ==
  LET sum[i \in 0..Len(rows)] == IF i = 0 THEN 0 ELSE sum[i - 1] + rows[i].latency
  IN  sum[Len(rows)]

(***************************************************************************)
(* No rows, or none that could be read, score as no success at all.        *)
(***************************************************************************)
NoScore == [successes |-> 0, total |-> 0, latency |-> 0]
ScoreOf(rows) ==
  [successes |-> Cardinality({i \in DOMAIN rows : rows[i].success}),
   total |-> Len(rows), latency |-> SumOfLatencies(rows)]

(***************************************************************************)
(* success rate * 1e6 / (1 + average latency), without the constant factor:*)
(* (s / n) / (1 + l / s) = s^2 / (n * (s + l)), and 0 without a success.   *)
(***************************************************************************)
OptimisticNumerator(score) == IF score.total = 0 THEN 1 ELSE score.successes * score.successes
Numerator(score)   == score.successes * score.successes
SumForAverage(score) ==
  IF score.successes = 0 THEN 1
  ELSE score.total * score.successes * (1 + score.latency)
Denominator(score) ==
  IF score.successes = 0 THEN 1 ELSE score.total * (score.successes + score.latency)

Beats(a, b) == Numerator(a) * Denominator(b) > Numerator(b) * Denominator(a)

LastOfTheBest(list) ==
  LET best[i \in 0..Len(list)] ==
        IF i = 0 THEN 0
        ELSE IF i = 1 THEN 1
        ELSE IF Beats(list[best[i - 1]], list[i]) THEN best[i - 1] ELSE i
  IN  best[Len(list)]

(* The last loop: bestScore starts below every score. *)
Best(list) ==
  LET best[i \in 0..Len(list)] ==
        IF i = 0 THEN 0
        ELSE IF i = 1 THEN 1
        ELSE IF Beats(list[i], list[best[i - 1]]) THEN i ELSE best[i - 1]
  IN  best[Len(list)]

-----------------------------------------------------------------------------
Init ==
  /\ checks = [p \in Providers |-> <<>>]
  /\ scores = <<>>
  /\ answer = 0

(* The monitor's InsertCheck, at any moment of a request. *)
InsertUntrimmed(p, row) ==
  /\ checks' = [checks EXCEPT ![p] = <<row>> \o @]
  /\ UNCHANGED <<scores, answer>>
InsertCheck(p, row) ==
  /\ checks' = [checks EXCEPT ![p] =
                  SubSeq(<<row>> \o @, 1, Min({Len(@) + 1, Window}))]
  /\ UNCHANGED <<scores, answer>>

(* One turn of the first loop; the read may fail. *)
ReadNext ==
  /\ Len(scores) < N
  /\ \E score \in {ScoreOf(checks[Len(scores) + 1]), NoScore} :
       scores' = Append(scores, score)
  /\ UNCHANGED <<checks, answer>>

Return ==
  /\ Len(scores) = N /\ answer = 0
  /\ answer' = Best(scores)
  /\ UNCHANGED <<checks, scores>>

NextRequest ==
  /\ answer # 0
  /\ scores' = <<>> /\ answer' = 0
  /\ UNCHANGED checks

Next ==
  \/ \E p \in Providers, row \in Row : InsertCheck(p, row)
  \/ ReadNext
  \/ Return
  \/ NextRequest

Spec == Init /\ [][Next]_vars

-----------------------------------------------------------------------------
(* Comparing two providers by what was read of them. *)
RateAtLeast(a, b) == a.successes * b.total >= b.successes * a.total
LatencyAtMost(a, b) == a.latency * b.successes <= b.latency * a.successes

Answered == answer # 0
Chosen   == scores[answer]

TypeOK ==
  /\ \A p \in Providers : Len(checks[p]) <= Window /\ checks[p] \in Seq(Row)
  /\ Len(scores) <= N /\ scores \in Seq(Score)
  /\ answer \in 0..N

(***************************************************************************)
(* Nobody is passed over for a provider that is worse in every respect:    *)
(* with at least the success rate, at most the average latency, and one of *)
(* the two better.  The combined score trades one for the other but may    *)
(* not lose to both.                                                       *)
(***************************************************************************)
Undominated ==
  Answered => \A p \in Providers :
    LET s == scores[p]
    IN  s.successes > 0 /\ Chosen.successes > 0
          /\ RateAtLeast(s, Chosen) /\ LatencyAtMost(s, Chosen)
        => RateAtLeast(Chosen, s) /\ LatencyAtMost(Chosen, s)

(***************************************************************************)
(* A provider without a success, without rows, or whose rows could not be  *)
(* read is recommended only when there is no provider with a success.      *)
(***************************************************************************)
WorkingPreferred ==
  Answered /\ Chosen.successes = 0 =>
    \A p \in Providers : scores[p].successes = 0

(***************************************************************************)
(* The loop returns the first, in config order, of the providers no other  *)
(* beats: equal providers do not take turns from one request to the next.  *)
(***************************************************************************)
FirstOfTheBest ==
  Answered =>
    answer = Min({p \in Providers : \A q \in Providers : ~Beats(scores[q], scores[p])})

(***************************************************************************)
(* "best success rate, then lowest latency" (README.md).                   *)
(***************************************************************************)
BestSuccessRateFirst ==
  Answered => \A p \in Providers :
    scores[p].total > 0 => RateAtLeast(Chosen, scores[p])
=============================================================================
