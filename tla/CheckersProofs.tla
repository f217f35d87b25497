--------------------------- MODULE CheckersProofs ---------------------------
(***************************************************************************)
(* Theorems about Checkers, for every set of configured URLs and every     *)
(* endpoint.                                                               *)
(***************************************************************************)
EXTENDS Checkers, TLAPS

Results == {Pending, Passed} \cup {Failed(c) : c \in Categories}

(* The three results are told apart by the two flags callers look at. *)
LEMMA ResultFlags ==
  /\ Pending.done = FALSE /\ Pending.success = FALSE
  /\ Passed.done = TRUE /\ Passed.success = TRUE
  /\ \A c : Failed(c).done = TRUE /\ Failed(c).success = FALSE /\ Failed(c).category = c
BY DEF Pending, Passed, Failed

LEMMA RequestsAreThePaths ==
  ASSUME NEW t \in {"rpc", "dapp"}, NEW b
  PROVE  /\ RequestsOf(t) \in {1, 2} /\ Len(Paths(t, b)) = RequestsOf(t)
         /\ DOMAIN Paths(t, b) = 1..RequestsOf(t)
<1>1. CASE t = "rpc"
  <2> DEFINE p == b \o <<"v1">>
             q == b \o <<"v1", "ledger_info">>
  <2>1. Paths(t, b) = <<p, q>> /\ RequestsOf(t) = 2
    BY <1>1 DEF Paths, RequestsOf
  <2> HIDE DEF p, q
  <2>2. Len(<<p, q>>) = 2 /\ DOMAIN <<p, q>> = 1..2
    OBVIOUS
  <2> QED
    BY <2>1, <2>2
<1>2. CASE t = "dapp"
  <2>1. Paths(t, b) = <<b>> /\ RequestsOf(t) = 1
    BY <1>2 DEF Paths, RequestsOf
  <2>2. Len(<<b>>) = 1 /\ DOMAIN <<b>> = 1..1
    OBVIOUS
  <2> QED
    BY <2>1, <2>2
<1> QED
  BY <1>1, <1>2

LEMMA StatusInReply ==
  ASSUME NEW r \in Reply
  PROVE  /\ r.kind \in DoErrors \cup {"cut", "answered"}
         /\ r.status \in Statuses \cup {0}
         /\ r.kind \notin DoErrors => r.status \in Statuses
         /\ r.json \in BOOLEAN
BY DEF Reply, DoErrors

(* The statuses of Statuses that both checkers accept. *)
LEMMA GoodStatus ==
  ASSUME NEW s \in Statuses \cup {0} PROVE Accepted(s) <=> s \in {200, 302}
BY DEF Statuses, Accepted

-----------------------------------------------------------------------------
(***************************************************************************)
(* What one reply decides                                                  *)
(***************************************************************************)

(* The words of an error of Do name one of four categories. *)
LEMMA CategoryOfError ==
  ASSUME NEW kind
  PROVE  CategorizeErr(kind) \in Categories
         /\ CategorizeErr(kind) \notin {"json_decode", "http_status"}
BY DEF CategorizeErr, Categories

(***************************************************************************)
(* rpc.Check: a reply passes if it is JSON with a good status; if not, the *)
(* status is told before the JSON.                                         *)
(***************************************************************************)
LEMMA RpcDecides ==
  ASSUME NEW r \in Reply
  PROVE  LET v == RpcVerdict(r)
         IN  \/ /\ v = Passed /\ r.kind = "answered" /\ r.json
                /\ r.status \in {200, 302}
             \/ \E c \in Categories :
                  /\ v = Failed(c)
                  /\ ~(r.kind = "answered" /\ r.json /\ r.status \in {200, 302})
                  /\ c = "json_decode" => r.status \in {200, 302}
                  /\ r.kind = "answered" /\ r.status >= 400 => c = "http_status"
<1> DEFINE v == RpcVerdict(r)
<1>1. /\ r.kind \in DoErrors \cup {"cut", "answered"} /\ r.json \in BOOLEAN
      /\ Accepted(r.status) <=> r.status \in {200, 302}
      /\ r.status \in Statuses \cup {0}
  BY StatusInReply, GoodStatus
<1>2. "answered" \notin DoErrors /\ "cut" \notin DoErrors
  BY DEF DoErrors
<1>3. "json_decode" \in Categories /\ "http_status" \in Categories
        /\ "unexpected_payload" \in Categories
  BY DEF Categories
<1>4. CASE r.kind \in DoErrors
  BY <1>2, <1>4, CategoryOfError DEF RpcVerdict
<1>5. CASE r.kind = "cut"
  BY <1>2, <1>3, <1>5 DEF RpcVerdict
<1>6. CASE r.kind = "answered" /\ ~Accepted(r.status)
  BY <1>1, <1>2, <1>3, <1>6 DEF RpcVerdict
<1>7. CASE r.kind = "answered" /\ Accepted(r.status) /\ ~r.json
  <2>1. ~(r.status >= 400)
    BY <1>1, <1>7
  <2> QED
    BY <1>1, <1>2, <1>3, <1>7, <2>1 DEF RpcVerdict
<1>8. CASE r.kind = "answered" /\ Accepted(r.status) /\ r.json
  BY <1>1, <1>2, <1>8 DEF RpcVerdict
<1> QED
  BY <1>1, <1>4, <1>5, <1>6, <1>7, <1>8

(* httpcheck.Check and checkDapp: only the status is looked at. *)
LEMMA DappDecides ==
  ASSUME NEW r \in Reply
  PROVE  LET v == DappVerdict(r)
         IN  \/ v = Passed /\ r.kind \notin DoErrors /\ r.status \in {200, 302}
             \/ \E c \in {"", "http_status"} :
                  /\ v = Failed(c)
                  /\ ~(r.kind = "answered" /\ r.status \in {200, 302})
                  /\ r.kind = "answered" /\ r.status >= 400 => c = "http_status"
<1>1. /\ r.kind \in DoErrors \cup {"cut", "answered"}
      /\ Accepted(r.status) <=> r.status \in {200, 302}
  BY StatusInReply, GoodStatus
<1>2. "answered" \notin DoErrors
  BY DEF DoErrors
<1>3. CASE r.kind \in DoErrors
  BY <1>2, <1>3 DEF DappVerdict
<1>4. CASE r.kind \notin DoErrors /\ ~Accepted(r.status)
  BY <1>1, <1>4 DEF DappVerdict
<1>5. CASE r.kind \notin DoErrors /\ Accepted(r.status)
  BY <1>1, <1>5 DEF DappVerdict
<1> QED
  BY <1>3, <1>4, <1>5

(* What both verdicts have in common. *)
LEMMA VerdictDecides ==
  ASSUME NEW t \in {"rpc", "dapp"}, NEW r \in Reply
  PROVE  LET v == Verdict(t, r)
         IN  \/ /\ v = Passed /\ r.status \in {200, 302}
                /\ t = "rpc" => r.kind = "answered" /\ r.json
             \/ \E c \in Categories :
                  /\ v = Failed(c)
                  /\ ~(r.kind = "answered" /\ r.json /\ r.status \in {200, 302})
                  /\ c = "json_decode" => r.status \in {200, 302}
                  /\ r.kind = "answered" /\ r.status >= 400 => c = "http_status"
<1>1. CASE t = "rpc"
  BY <1>1, RpcDecides DEF Verdict
<1>2. CASE t = "dapp"
  <2>1. "" \in Categories /\ "http_status" \in Categories
    BY DEF Categories
  <2> QED
    BY <1>2, <2>1, DappDecides DEF Verdict
<1> QED
  BY <1>1, <1>2

(* An endpoint in good health passes a request for what it serves, and no other. *)
LEMMA ServedIsHealthy ==
  ASSUME NEW t \in {"rpc", "dapp"}, NEW path, HealthyReply(path) \in Reply
  PROVE  Verdict(t, HealthyReply(path)) = Passed <=> path \in Served
<1> DEFINE r == HealthyReply(path)
<1>1. /\ r.kind = "answered" /\ r.json = (path \in Served)
      /\ r.status = IF path \in Served THEN 200 ELSE 404
  BY DEF HealthyReply
<1> HIDE DEF r
<1>2. \A c : Failed(c) # Passed
  BY ResultFlags
<1>3. CASE path \in Served
  <2>1. r.json /\ r.status = 200 /\ r.status \in {200, 302}
    BY <1>1, <1>3
  <2> QED
    BY <1>1, <1>3, <2>1, VerdictDecides DEF r
<1>4. CASE path \notin Served
  <2>1. r.status \notin {200, 302}
    BY <1>1, <1>4
  <2> QED
    BY <1>2, <1>4, <2>1, VerdictDecides DEF r
<1> QED
  BY <1>3, <1>4

-----------------------------------------------------------------------------
(***************************************************************************)
(* A check as a whole: requests go on only after good answers, the last    *)
(* one decides.                                                            *)
(***************************************************************************)
Checked ==
  /\ type \in {"rpc", "dapp"} /\ base \in Bases
  /\ replies \in Seq(Reply)
  /\ result \in Results
  /\ \A i \in DOMAIN replies :
       i < Len(replies) \/ ~result.done => Verdict(type, replies[i]) = Passed
  /\ ~result.done => Len(replies) < RequestsOf(type)
  /\ result.done =>
       /\ Len(replies) \in 1..RequestsOf(type)
       /\ result = Verdict(type, replies[Len(replies)])
       /\ result.success => Len(replies) = RequestsOf(type)

LEMMA CheckedInit == Init => Checked
<1> SUFFICES ASSUME Init PROVE Checked
  OBVIOUS
<1>1. ~result.done /\ result \in Results /\ replies \in Seq(Reply) /\ Len(replies) = 0
  BY ResultFlags DEF Init, Results
<1> QED
  BY <1>1 DEF Init, Checked, RequestsOf

LEMMA CheckedRequest ==
  ASSUME Checked, Request PROVE Checked'
<1>1. PICK reply \in Reply :
        /\ replies' = Append(replies, reply)
        /\ result' = IF Verdict(type, reply).success /\ Len(replies) + 1 # RequestsOf(type)
                       THEN Pending ELSE Verdict(type, reply)
  BY DEF Request
<1>2. /\ ~result.done /\ type' = type /\ base' = base /\ type \in {"rpc", "dapp"} /\ base \in Bases
      /\ replies \in Seq(Reply) /\ Len(replies) \in Nat /\ Len(replies) < RequestsOf(type)
      /\ RequestsOf(type) \in {1, 2}
      /\ \A i \in DOMAIN replies : Verdict(type, replies[i]) = Passed
  BY RequestsAreThePaths DEF Checked, Request
<1> DEFINE v == Verdict(type, reply)
<1>3. v = Passed \/ \E c \in Categories : v = Failed(c)
  BY <1>2, VerdictDecides
<1>4. v \in Results /\ v.done = TRUE /\ (v.success = TRUE <=> v = Passed)
  BY <1>3, ResultFlags DEF Results
<1>5. /\ replies' \in Seq(Reply) /\ Len(replies') = Len(replies) + 1
      /\ replies'[Len(replies')] = reply
      /\ \A i \in 1..Len(replies) : replies'[i] = replies[i]
  BY <1>1, <1>2
<1>6. \A i \in DOMAIN replies' : i < Len(replies') => Verdict(type, replies'[i]) = Passed
  BY <1>2, <1>5
<1>7. result' = IF v = Passed /\ Len(replies') # RequestsOf(type) THEN Pending ELSE v
  BY <1>1, <1>3, <1>5, ResultFlags
<1> HIDE DEF v
<1>8. CASE v = Passed /\ Len(replies') # RequestsOf(type)
  <2>1. result' = Pending /\ result'.done = FALSE /\ result' \in Results
    BY <1>7, <1>8, ResultFlags DEF Results
  <2>2. \A i \in DOMAIN replies' : Verdict(type, replies'[i]) = Passed
    BY <1>2, <1>5, <1>6, <1>8 DEF v
  <2>3. Len(replies') < RequestsOf(type)
    BY <1>2, <1>5, <1>8
  <2> QED
    BY <1>2, <1>5, <2>1, <2>2, <2>3 DEF Checked
<1>9. CASE ~(v = Passed /\ Len(replies') # RequestsOf(type))
  <2>1. result' = v /\ result'.done = TRUE /\ result' \in Results
        /\ (result'.success => Len(replies') = RequestsOf(type))
    BY <1>4, <1>7, <1>9
  <2>2. Len(replies') \in 1..RequestsOf(type)
    BY <1>2, <1>5
  <2>3. result' = Verdict(type, replies'[Len(replies')])
    BY <1>5, <2>1 DEF v
  <2> QED
    BY <1>2, <1>5, <1>6, <2>1, <2>2, <2>3 DEF Checked
<1> QED
  BY <1>8, <1>9

LEMMA CheckedStep ==
  ASSUME Checked, [Next]_vars PROVE Checked'
<1>1. CASE NextCheck
  <2>1. result' = Pending /\ replies' = <<>> /\ type' \in {"rpc", "dapp"} /\ base' \in Bases
    BY <1>1 DEF NextCheck
  <2>2. ~result'.done /\ result' \in Results /\ replies' \in Seq(Reply) /\ Len(replies') = 0
    BY <2>1, ResultFlags DEF Results
  <2> QED
    BY <2>1, <2>2 DEF Checked, RequestsOf
<1>2. CASE UNCHANGED vars
  BY <1>2 DEF vars, Checked
<1> QED
  BY <1>1, <1>2, CheckedRequest DEF Next

LEMMA AlwaysChecked == Spec => []Checked
BY CheckedInit, CheckedStep, PTL DEF Spec

(***************************************************************************)
(* A check never sends more requests than it consists of, and never stores *)
(* a category the code does not declare.                                   *)
(***************************************************************************)
THEOREM CheckTypeCorrect == Spec => []TypeOK
<1>1. Checked => TypeOK
  BY RequestsAreThePaths DEF Checked, TypeOK, Results
<1> QED
  BY <1>1, AlwaysChecked, PTL

(***************************************************************************)
(* rpc.Check and httpcheck.Check: success needs every answer to be good.   *)
(***************************************************************************)
THEOREM SuccessIsWhole == Spec => []SuccessNeedsAll
<1>1. ASSUME Checked, result.success PROVE SuccessNeedsAll
  <2>1. result.done
    BY <1>1, ResultFlags DEF Checked, Results
  <2>2. /\ type \in {"rpc", "dapp"} /\ replies \in Seq(Reply)
        /\ Len(replies) = RequestsOf(type) /\ Len(replies) \in Nat
        /\ result = Verdict(type, replies[Len(replies)])
        /\ \A i \in DOMAIN replies : i < Len(replies) => Verdict(type, replies[i]) = Passed
    BY <1>1, <2>1 DEF Checked
  <2>3. result = Passed
    BY <1>1, ResultFlags DEF Checked, Results
  <2>4. ASSUME NEW i \in DOMAIN replies
        PROVE  replies[i] \in Reply /\ Verdict(type, replies[i]) = Passed
    <3>1. i < Len(replies) \/ i = Len(replies)
      BY <2>2
    <3>2. replies[i] \in Reply
      BY <2>2
    <3>3. CASE i < Len(replies)
      BY <2>2, <3>2, <3>3
    <3>4. CASE i = Len(replies)
      BY <2>2, <2>3, <3>2, <3>4
    <3> QED
      BY <3>1, <3>3, <3>4
  <2>5. ASSUME NEW i \in DOMAIN replies
        PROVE  /\ replies[i].status \in {200, 302}
               /\ type = "rpc" => replies[i].kind = "answered" /\ replies[i].json
    <3>1. \A c : Failed(c) # Passed
      BY DEF Failed, Passed
    <3> QED
      BY <2>2, <2>4, <3>1, VerdictDecides
  <2>6. Len(replies) = Len(Paths(type, base))
    BY <2>2, RequestsAreThePaths
  <2> QED
    BY <2>5, <2>6 DEF SuccessNeedsAll
<1>2. Checked => SuccessNeedsAll
  BY <1>1 DEF SuccessNeedsAll
<1> QED
  BY <1>2, AlwaysChecked, PTL

(***************************************************************************)
(* The category a failed check stores: the status of the last reply before *)
(* its contents.                                                           *)
(***************************************************************************)
THEOREM StatusBeforeContents == Spec => []StatusToldFirst
<1>1. ASSUME Checked, result.done, ~result.success PROVE StatusToldFirst
  <2> DEFINE last == replies[Len(replies)]
  <2>1. type \in {"rpc", "dapp"} /\ last \in Reply /\ result = Verdict(type, last)
    BY <1>1, RequestsAreThePaths DEF Checked
  <2> HIDE DEF last
  <2>2. result # Passed
    BY <1>1, ResultFlags
  <2>3. PICK c \in Categories :
          /\ result = Failed(c)
          /\ c = "json_decode" => last.status \in {200, 302}
          /\ last.kind = "answered" /\ last.status >= 400 => c = "http_status"
    BY <2>1, <2>2, VerdictDecides
  <2>4. result.category = c
    BY <2>3, ResultFlags
  <2> QED
    BY <2>3, <2>4 DEF StatusToldFirst, last
<1>2. Checked => StatusToldFirst
  BY <1>1 DEF StatusToldFirst
<1> QED
  BY <1>2, AlwaysChecked, PTL

(***************************************************************************)
(* Which endpoints pass, for every URL and every endpoint: those that      *)
(* serve both paths rpc.Check makes from the URL (httpcheck.Check: the     *)
(* URL's own).  So a node that serves what checker_test.go serves fails    *)
(* with the URL of configs/example.yaml and passes without its /v1.        *)
(***************************************************************************)
THEOREM ServedIsWhatPasses == Spec => []VerdictTellsServed
<1> DEFINE asked == Paths(type, base)
<1>1. ASSUME Checked, result.done,
             \A i \in DOMAIN replies : replies[i] = HealthyReply(asked[i])
      PROVE  result.success <=> \A i \in DOMAIN asked : asked[i] \in Served
  <2> DEFINE n == Len(replies)
  <2>1. /\ type \in {"rpc", "dapp"} /\ replies \in Seq(Reply) /\ n \in 1..RequestsOf(type)
        /\ DOMAIN asked = 1..RequestsOf(type) /\ RequestsOf(type) \in {1, 2}
        /\ result = Verdict(type, replies[n])
        /\ \A i \in DOMAIN replies : i < n => Verdict(type, replies[i]) = Passed
        /\ result.success => n = RequestsOf(type)
    BY <1>1, RequestsAreThePaths DEF Checked
  <2>2. ASSUME NEW i \in DOMAIN replies
        PROVE  Verdict(type, replies[i]) = Passed <=> asked[i] \in Served
    BY <1>1, <2>1, <2>2, ServedIsHealthy
  <2>3. DOMAIN replies = 1..n /\ n \in DOMAIN replies /\ n \in DOMAIN asked
    BY <2>1
  <2>4. result.success <=> result = Passed
    BY <1>1, ResultFlags DEF Checked, Results
  <2>5. ASSUME result.success PROVE \A i \in DOMAIN asked : asked[i] \in Served
    <3> SUFFICES ASSUME NEW i \in DOMAIN asked PROVE asked[i] \in Served
      OBVIOUS
    <3>1. i \in DOMAIN replies /\ (i < n \/ i = n)
      BY <2>1, <2>3, <2>5
    <3> QED
      BY <2>1, <2>2, <2>4, <2>5, <3>1
  <2>6. ASSUME \A i \in DOMAIN asked : asked[i] \in Served PROVE result.success
    BY <2>1, <2>2, <2>3, <2>4, <2>6
  <2> QED
    BY <2>5, <2>6
<1>2. Checked => VerdictTellsServed
  BY <1>1 DEF VerdictTellsServed
<1> QED
  BY <1>2, AlwaysChecked, PTL
=============================================================================
