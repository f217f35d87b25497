----------------------------- MODULE PageProofs -----------------------------
(***************************************************************************)
(* Theorems about StatusPage and StatusHistory, for every configuration,   *)
(* any number of requests in flight, any limits and any number of          *)
(* incidents, faults and stops.                                            *)
(***************************************************************************)
EXTENDS StatusHistory, FiniteSetTheorems, TLAPS

-----------------------------------------------------------------------------
(***************************************************************************)
(* The newest of the open incidents                                        *)
(***************************************************************************)

(* The n greatest elements of S. *)
Above(S, i)   == {j \in S : j > i}
Greatest(S, n) == {i \in S : Cardinality(Above(S, i)) < n}

LEMMA AboveIsFinite ==
  ASSUME NEW m \in Nat, NEW S, S \subseteq 1..m
  PROVE  /\ IsFiniteSet(S) /\ Cardinality(S) \in Nat
         /\ \A i : IsFiniteSet(Above(S, i)) /\ Cardinality(Above(S, i)) \in Nat
         /\ \A i, j \in S : i < j => Cardinality(Above(S, j)) < Cardinality(Above(S, i))
<1>1. IsFiniteSet(S)
  <2>1. IsFiniteSet(1..m)
    BY FS_Interval
  <2> QED
    BY <2>1, FS_Subset
<1>2. \A i : IsFiniteSet(Above(S, i)) /\ Cardinality(Above(S, i)) \in Nat
  BY <1>1, FS_Subset, FS_CardinalityType DEF Above
<1>3. ASSUME NEW i \in S, NEW j \in S, i < j
      PROVE  Cardinality(Above(S, j)) < Cardinality(Above(S, i))
  <2>1. i \in Nat /\ j \in Nat /\ \A k \in S : k \in Nat
    OBVIOUS
  <2>2. Above(S, j) \subseteq Above(S, i) /\ j \in Above(S, i) /\ j \notin Above(S, j)
    <3>1. j \in Above(S, i) /\ j \notin Above(S, j)
      BY <1>3, <2>1 DEF Above
    <3>2. \A k \in S : k > j => k > i
      BY <1>3, <2>1
    <3> QED
      BY <3>1, <3>2 DEF Above
  <2>3. /\ Cardinality(Above(S, j)) <= Cardinality(Above(S, i))
        /\ Cardinality(Above(S, j)) # Cardinality(Above(S, i))
    BY <1>2, <2>2, FS_Subset
  <2> QED
    BY <1>2, <2>3
<1> QED
  BY <1>1, <1>2, <1>3, FS_CardinalityType

(* The limit of a query is kept. *)
LEMMA GreatestAreFew ==
  ASSUME NEW m \in Nat, NEW S, S \subseteq 1..m, NEW n \in Nat
  PROVE  /\ IsFiniteSet(Greatest(S, n))
         /\ Cardinality(Greatest(S, n)) \in 0..n
<1> DEFINE G == Greatest(S, n)
           f == [i \in G |-> Cardinality(Above(S, i))]
<1>1. /\ \A i \in S : Cardinality(Above(S, i)) \in Nat
      /\ \A i, j \in S : i < j => Cardinality(Above(S, j)) < Cardinality(Above(S, i))
  BY AboveIsFinite
<1>2. G \subseteq S /\ (\A k \in S : k \in Nat) /\ (\A k \in G : k \in Nat)
  BY DEF Greatest
<1>3. \A i \in G : Cardinality(Above(S, i)) \in 0..(n - 1)
  BY <1>1 DEF Greatest
<1> HIDE DEF G
<1>4. f \in [G -> 0..(n - 1)]
  BY <1>3
<1>5. \A i, j \in G : f[i] = f[j] => i = j
  <2> SUFFICES ASSUME NEW i \in G, NEW j \in G, i < j PROVE f[i] # f[j]
    BY <1>2
  <2> QED
    BY <1>1, <1>2
<1> HIDE DEF f
<1>6. f \in Injection(G, 0..(n - 1))
  BY <1>4, <1>5 DEF Injection, IsInjective
<1>7. IsFiniteSet(0..(n - 1)) /\ Cardinality(0..(n - 1)) = n
  BY FS_Interval
<1>8. IsFiniteSet(G) /\ Cardinality(G) <= n
  BY <1>6, <1>7, FS_Injection
<1> QED
  BY <1>8, FS_CardinalityType DEF G

(* A finite set of numbers that is not empty has a greatest one. *)
LEMMA GreatestOne ==
  ASSUME NEW m \in Nat, NEW S, S \subseteq 1..m, S # {}
  PROVE  \E x \in S : \A y \in S : y <= x
<1> DEFINE D == {m - x : x \in S}
<1>0. \A x \in S : x \in 1..m
  OBVIOUS
<1>1. D # {} /\ D \subseteq Nat
  <2>1. \A x \in 1..m : m - x \in Nat
    OBVIOUS
  <2>2. D # {}
    OBVIOUS
  <2>3. ASSUME NEW d \in D PROVE d \in Nat
    BY <1>0, <2>1
  <2> QED
    BY <2>2, <2>3
<1>2. PICK d \in D : \A y \in D : ~(<<y, d>> \in OpToRel(<, Nat))
  BY <1>1, NatLessThanWellFounded, WFMin
<1>3. PICK x \in S : d = m - x
  BY <1>2
<1>4. ASSUME NEW y \in S, y > x PROVE FALSE
  <2>1. m - y \in D /\ m - y \in Nat /\ d \in Nat /\ m - y < d
    BY <1>3, <1>4
  <2> QED
    BY <1>2, <2>1 DEF OpToRel
<1>5. \A y \in S : y <= x
  BY <1>0, <1>4
<1> QED
  BY <1>5

(***************************************************************************)
(* Whoever is cut off by the limit has that many newer ones in the answer. *)
(***************************************************************************)
LEMMA CutOffByNewer ==
  ASSUME NEW m \in Nat, NEW S, S \subseteq 1..m, NEW n \in Nat,
         NEW i \in S, i \notin Greatest(S, n)
  PROVE  Cardinality({j \in Greatest(S, n) : j > i}) >= n
<1> DEFINE G == Greatest(S, n)
<1>1. /\ IsFiniteSet(S) /\ S \subseteq 1..m
      /\ \A x : IsFiniteSet(Above(S, x)) /\ Cardinality(Above(S, x)) \in Nat
      /\ \A x, y \in S : x < y => Cardinality(Above(S, y)) < Cardinality(Above(S, x))
  BY AboveIsFinite
<1>2. Cardinality(Above(S, i)) >= n
  BY <1>1 DEF Greatest
<1>3. G \subseteq S /\ IsFiniteSet(G) /\ Cardinality(G) \in Nat
  <2>1. G \subseteq S
    BY DEF Greatest
  <2> QED
    BY <2>1, GreatestAreFew, FS_CardinalityType
<1>4. \A j \in G : j > i
  <2> SUFFICES ASSUME NEW j \in G, j <= i PROVE FALSE
    <3>1. i \in 1..m /\ \A j \in G : j \in 1..m
      BY <1>1, <1>3
    <3> QED
      BY <3>1
  <2>1. j \in S /\ Cardinality(Above(S, j)) < n
    BY DEF Greatest
  <2>2. j = i \/ j < i
    BY <1>1, <2>1
  <2> QED
    BY <1>1, <1>2, <2>1, <2>2
<1>5. {j \in G : j > i} = G
  BY <1>4
<1>6. ASSUME Cardinality(G) < n PROVE FALSE
  <2> DEFINE R == S \ G
  <2>1. R # {} /\ R \subseteq 1..m
    BY <1>1
  <2>2. PICK x \in R : \A y \in R : y <= x
    BY <2>1, GreatestOne
  <2>3. Above(S, x) \subseteq G
    <3> SUFFICES ASSUME NEW y \in S, y > x PROVE y \in G
      BY DEF Above
    <3>1. x \in 1..m /\ y \in 1..m /\ ~(y <= x)
      BY <1>1
    <3> QED
      BY <2>2, <3>1
  <2>4. Cardinality(Above(S, x)) <= Cardinality(G)
    BY <1>3, <2>3, FS_Subset
  <2>5. Cardinality(Above(S, x)) < n
    BY <1>1, <1>3, <1>6, <2>4
  <2> QED
    BY <2>2, <2>5 DEF Greatest
<1> QED
  BY <1>3, <1>5, <1>6

(* ListIncidents is that query. *)
LEMMA ListIsGreatest ==
  \A limit : ListIncidents(limit) = Greatest(OpenNow, limit)
BY DEF ListIncidents, Greatest, Above

-----------------------------------------------------------------------------
(***************************************************************************)
(* The invariant: TypeOK with what it takes for granted (ask and page are  *)
(* records of these fields, a poll not in flight has read nothing).        *)
(***************************************************************************)
Outcomes == {"ok", "fail"}
CardSeqs == Seq({"healthy", "unhealthy"})
Incident == [entity : Entities, severity : Severities, state : {"open", "closed"}]
Request  == [stage : Stages, kind : Kinds \cup {"none"}, cards : CardSeqs,
             list : SUBSET Nat]

RequestOK(a, n) ==
  /\ a \in Request
  /\ Len(a.cards) <= Len(Names)
  /\ a.list \subseteq 1..n
  /\ a.stage = "answered" /\ a.kind # "incidents" => Len(a.cards) = Len(Names)
  /\ a.stage = "idle" => a = Idle

RequestsOK ==
  /\ ask \in [Polls -> Request]
  /\ \A p \in Polls : RequestOK(ask[p], Len(log))

PageOK ==
  /\ page \in [cards : CardSeqs, list : SUBSET Nat]
  /\ Len(page.cards) \in {0, Len(Names)}
  /\ page.list \subseteq 1..Len(log)

CountsOK ==
  /\ mode \in {"up", "stopping", "down"}
  /\ faults \in 0..MaxFaults /\ stops \in 0..MaxStops
  /\ gauge \in -1..GaugeLimit

PageState ==
  /\ newest \in [Configured -> Outcomes]
  /\ log \in Seq(Incident)
  /\ CountsOK /\ RequestsOK /\ PageOK

LEMMA NamesAreConfigured ==
  /\ Len(Names) \in Nat /\ DOMAIN Names = 1..Len(Names)
  /\ \A k \in 1..Len(Names) : Names[k] \in Configured
BY PageAssumption DEF Configured

LEMMA IdleIsOK == \A n \in Nat : RequestOK(Idle, n)
<1>1. <<>> \in CardSeqs /\ Len(<<>>) = 0
  BY DEF CardSeqs
<1> QED
  BY <1>1, NamesAreConfigured DEF Idle, RequestOK, Request, Stages

LEMMA PageInit == Init => PageState
<1> SUFFICES ASSUME Init PROVE PageState
  OBVIOUS
<1>1. newest \in [Configured -> Outcomes] /\ CountsOK
  BY PageAssumption DEF Init, Outcomes, CountsOK
<1>2. log \in Seq(Incident) /\ Len(log) = 0
  BY DEF Init
<1>3. RequestsOK
  BY <1>2, IdleIsOK DEF Init, RequestsOK, RequestOK
<1>4. PageOK
  <2>1. <<>> \in CardSeqs /\ Len(<<>>) = 0
    BY DEF CardSeqs
  <2> QED
    BY <2>1 DEF Init, PageOK
<1> QED
  BY <1>1, <1>2, <1>3, <1>4 DEF PageState

(***************************************************************************)
(* The monitor's steps: incidents are added and closed, never reopened.    *)
(***************************************************************************)
LEMMA OpenNowIn ==
  ASSUME log \in Seq(Incident)
  PROVE  /\ Len(log) \in Nat /\ DOMAIN log = 1..Len(log) /\ OpenNow \subseteq 1..Len(log)
         /\ \A i \in 1..Len(log) : log[i] \in Incident
BY DEF OpenNow

LEMMA LogGrows ==
  ASSUME PageState, WriteIncidents
  PROVE  /\ log' \in Seq(Incident) /\ Len(log) <= Len(log')
         /\ \A i \in OpenNow' : i \in OpenNow \/ i > Len(log)
<1>1. log \in Seq(Incident)
  BY DEF PageState
<1>2. CASE \E e \in Entities, s \in Severities : Log!Open(e, s)
  <2>1. PICK e \in Entities, s \in Severities : Log!Open(e, s)
    BY <1>2
  <2> DEFINE new == [entity |-> e, severity |-> s, state |-> "open"]
  <2>2. log' = Append(log, new)
    BY <2>1 DEF Log!Open
  <2>3. new \in Incident
    BY DEF Incident
  <2> HIDE DEF new
  <2>4. /\ log' \in Seq(Incident) /\ Len(log') = Len(log) + 1 /\ DOMAIN log' = 1..Len(log')
        /\ \A i \in 1..Len(log) : log'[i] = log[i]
    BY <1>1, <2>2, <2>3
  <2>5. Len(log) \in Nat /\ DOMAIN log = 1..Len(log)
    BY <1>1
  <2>6. \A i \in OpenNow' : i \in OpenNow \/ i = Len(log')
    BY <2>4, <2>5 DEF OpenNow
  <2> QED
    BY <2>4, <2>5, <2>6
<1>3. CASE \E i \in DOMAIN log : Log!Close(i)
  <2>1. PICK x \in DOMAIN log : Log!Close(x)
    BY <1>3
  <2>2. log' = [log EXCEPT ![x].state = "closed"]
    BY <2>1 DEF Log!Close
  <2>3. Len(log) \in Nat /\ DOMAIN log = 1..Len(log) /\ \A i \in 1..Len(log) : log[i] \in Incident
    BY <1>1
  <2>4. [log[x] EXCEPT !.state = "closed"] \in Incident
    BY <2>1, <2>3 DEF Incident
  <2>5. log' = [log EXCEPT ![x] = [log[x] EXCEPT !.state = "closed"]]
    BY <2>2
  <2>6. log' \in Seq(Incident) /\ Len(log') = Len(log) /\ DOMAIN log' = DOMAIN log
    BY <1>1, <2>1, <2>4, <2>5
  <2>7. \A i \in DOMAIN log : log'[i].state = "open" => log[i].state = "open"
    BY <2>1, <2>3, <2>5 DEF Incident
  <2>8. OpenNow' \subseteq OpenNow
    BY <2>6, <2>7 DEF OpenNow
  <2> QED
    BY <2>3, <2>6, <2>8
<1> QED
  BY <1>2, <1>3 DEF WriteIncidents

-----------------------------------------------------------------------------
(***************************************************************************)
(* What a step does to the requests                                        *)
(***************************************************************************)

(* A longer log keeps what was read and shown. *)
LEMMA LongerLog ==
  ASSUME NEW m \in Nat, NEW n \in Nat, m <= n
  PROVE  /\ 1..m \subseteq 1..n
         /\ \A a : RequestOK(a, m) => RequestOK(a, n)
<1>1. 1..m \subseteq 1..n
  OBVIOUS
<1> QED
  BY <1>1 DEF RequestOK

(* One request changes. *)
LEMMA OneRequest ==
  ASSUME RequestsOK, NEW p \in Polls, NEW a, RequestOK(a, Len(log)), UNCHANGED log,
         ask' = [ask EXCEPT ![p] = a]
  PROVE  RequestsOK' /\ ask'[p] = a /\ \A q \in Polls : q # p => ask'[q] = ask[q]
BY DEF RequestsOK, RequestOK

LEMMA RequestIn ==
  ASSUME RequestsOK, NEW p \in Polls
  PROVE  /\ ask[p] \in Request /\ RequestOK(ask[p], Len(log))
         /\ ask[p].stage \in Stages /\ ask[p].kind \in Kinds \cup {"none"}
         /\ ask[p].cards \in CardSeqs /\ Len(ask[p].cards) \in Nat
         /\ ask[p].list \subseteq 1..Len(log)
BY DEF RequestsOK, RequestOK, Request, CardSeqs

(* A request that moves on to another stage with what it has read. *)
LEMMA Moves ==
  ASSUME RequestsOK, log \in Seq(Incident), NEW p \in Polls,
         NEW s \in {"sent", "answered", "failed"}, NEW list, list \subseteq 1..Len(log),
         s = "answered" /\ ask[p].kind # "incidents" => Len(ask[p].cards) = Len(Names)
  PROVE  RequestOK([ask[p] EXCEPT !.stage = s, !.list = list], Len(log))
<1>1. list \in SUBSET Nat
  BY OpenNowIn
<1>2. s \in Stages /\ s # "idle"
  BY DEF Stages
<1> QED
  BY <1>1, <1>2, RequestIn DEF RequestOK, Request

LEMMA PollStep ==
  ASSUME PageState, NEW p \in Polls, Poll(p)
  PROVE  /\ RequestsOK' /\ ask'[p].stage = "sent" /\ ask'[p].cards = <<>>
         /\ \A q \in Polls : q # p => ask'[q] = ask[q]
<1>1. RequestsOK
  BY DEF PageState
<1>2. PICK kind \in KindsOf[p] :
        ask' = [ask EXCEPT ![p].stage = "sent", ![p].kind = kind]
  BY DEF Poll
<1>3. ask[p] = Idle /\ ask[p] \in Request
  BY <1>1, RequestIn DEF Poll, RequestOK
<1>4. kind \in Kinds
  BY PageAssumption
<1> DEFINE a == [ask[p] EXCEPT !.stage = "sent", !.kind = kind]
<1>5. RequestOK(a, Len(log)) /\ a.stage = "sent" /\ a.cards = <<>>
  <2>1. ask[p].cards = <<>> /\ ask[p].list = {} /\ ask[p] \in Request
    BY <1>3 DEF Idle
  <2>2. a \in Request
    BY <1>4, <2>1 DEF Request, Stages
  <2>3. a.stage = "sent" /\ a.cards = <<>> /\ a.list = {}
    BY <2>1 DEF Request
  <2>4. Len(<<>>) = 0 /\ Len(<<>>) <= Len(Names)
    BY NamesAreConfigured
  <2> HIDE DEF a
  <2> QED
    BY <2>2, <2>3, <2>4 DEF RequestOK
<1>6. ask' = [ask EXCEPT ![p] = a]
  BY <1>1, <1>2 DEF RequestsOK
<1>7. UNCHANGED log
  BY DEF Poll
<1> HIDE DEF a
<1> QED
  BY <1>1, <1>5, <1>6, <1>7, OneRequest

LEMMA ReadCheckStep ==
  ASSUME PageState, NEW p \in Polls, ReadCheck(p)
  PROVE  /\ RequestsOK' /\ ask'[p].stage = "sent"
         /\ \A q \in Polls : q # p => ask'[q] = ask[q]
         /\ \E outcome \in {newest[Names[Len(ask[p].cards) + 1]], "fail"} :
              /\ ask'[p].cards = Append(ask[p].cards, Card(outcome))
              /\ outcome # newest[Names[Len(ask[p].cards) + 1]] => ReadFails
<1>1. RequestsOK
  BY DEF PageState
<1>2. /\ ask[p].stage = "sent" /\ ask[p].kind # "incidents"
      /\ Len(ask[p].cards) < Len(Names) /\ UNCHANGED log
  BY DEF ReadCheck
<1>3. PICK outcome \in {newest[Names[Len(ask[p].cards) + 1]], "fail"} :
        /\ ask' = [ask EXCEPT ![p].cards = Append(ask[p].cards, Card(outcome))]
        /\ outcome # newest[Names[Len(ask[p].cards) + 1]] => ReadFails
  BY DEF ReadCheck
<1> DEFINE cards == Append(ask[p].cards, Card(outcome))
           a == [ask[p] EXCEPT !.cards = cards]
<1>4. cards \in CardSeqs /\ Len(cards) = Len(ask[p].cards) + 1
  <2>1. Card(outcome) \in {"healthy", "unhealthy"}
    BY DEF Card
  <2> QED
    BY <1>1, <2>1, RequestIn DEF CardSeqs
<1>5. ask' = [ask EXCEPT ![p] = a]
  BY <1>1, <1>3 DEF RequestsOK
<1> HIDE DEF cards
<1>6. Len(cards) <= Len(Names)
  BY <1>1, <1>2, <1>4, RequestIn, NamesAreConfigured
<1>7. RequestOK(a, Len(log)) /\ a.stage = "sent" /\ a.cards = cards
  BY <1>1, <1>2, <1>4, <1>6, RequestIn DEF RequestOK, Request
<1> HIDE DEF a
<1>8. /\ RequestsOK' /\ ask'[p].stage = "sent" /\ ask'[p].cards = cards
      /\ \A q \in Polls : q # p => ask'[q] = ask[q]
  BY <1>1, <1>2, <1>5, <1>7, OneRequest
<1> QED
  BY <1>3, <1>8 DEF cards

(***************************************************************************)
(* The two handlers that answer.                                           *)
(***************************************************************************)
LEMMA ListIsOpen ==
  \A limit : ListIncidents(limit) \subseteq OpenNow
BY DEF ListIncidents

LEMMA AnswerStep ==
  ASSUME PageState, NEW p \in Polls, NEW list, list \subseteq OpenNow, UNCHANGED log,
         ask[p].stage = "sent",
         ask[p].kind # "incidents" => Len(ask[p].cards) = Len(Names),
         Answer(p, list)
  PROVE  /\ RequestsOK' /\ ask'[p].stage = "answered" /\ ask'[p].list = list
         /\ ask'[p].cards = ask[p].cards
         /\ \A q \in Polls : q # p => ask'[q] = ask[q]
<1>1. RequestsOK /\ log \in Seq(Incident)
  BY DEF PageState
<1> DEFINE a == [ask[p] EXCEPT !.stage = "answered", !.list = list]
<1>2. ask' = [ask EXCEPT ![p] = a]
  BY <1>1 DEF RequestsOK, Answer
<1>3. list \subseteq 1..Len(log)
  BY <1>1, OpenNowIn
<1>4. RequestOK(a, Len(log))
  BY <1>1, <1>3, Moves
<1>5. a.stage = "answered" /\ a.list = list /\ a.cards = ask[p].cards
  BY <1>1, RequestIn DEF Request
<1> HIDE DEF a
<1> QED
  BY <1>1, <1>2, <1>4, <1>5, OneRequest

(* A request that is lost has read nothing. *)
LEMMA LostIsOK ==
  ASSUME RequestsOK, log \in Seq(Incident), NEW p \in Polls
  PROVE  RequestOK(Lost(p), Len(log)) /\ Lost(p).stage = "failed"
<1>1. Idle \in Request /\ Idle.cards = <<>> /\ Idle.list = {} /\ Len(<<>>) = 0
  BY IdleIsOK DEF Idle, RequestOK
<1>2. ask[p].kind \in Kinds \cup {"none"} /\ Len(log) \in Nat
  BY RequestIn
<1>3. /\ Lost(p) \in Request /\ Lost(p).stage = "failed"
      /\ Lost(p).cards = Idle.cards /\ Lost(p).list = Idle.list
  BY <1>1, <1>2 DEF Lost, Request, Stages
<1> QED
  BY <1>1, <1>3, NamesAreConfigured DEF RequestOK

LEMMA FailStep ==
  ASSUME PageState, NEW p \in Polls, UNCHANGED log,
         ask' = [ask EXCEPT ![p] = Lost(p)]
  PROVE  /\ RequestsOK' /\ ask'[p].stage = "failed"
         /\ \A q \in Polls : q # p => ask'[q] = ask[q]
<1>1. RequestsOK /\ log \in Seq(Incident)
  BY DEF PageState
<1>2. RequestOK(Lost(p), Len(log)) /\ Lost(p).stage = "failed"
  BY <1>1, LostIsOK
<1> QED
  BY <1>1, <1>2, OneRequest

(***************************************************************************)
(* What the page shows                                                     *)
(***************************************************************************)
LEMMA GoIdle ==
  ASSUME RequestsOK, log \in Seq(Incident), UNCHANGED log, NEW p \in Polls,
         ask' = [ask EXCEPT ![p] = Idle]
  PROVE  /\ RequestsOK' /\ ask'[p] = Idle
         /\ \A q \in Polls : q # p => ask'[q] = ask[q]
BY OneRequest, IdleIsOK, OpenNowIn

LEMMA RenderStep ==
  ASSUME PageState, NEW p \in Polls, Render(p) PROVE PageOK'
<1>1. RequestsOK /\ PageOK /\ log \in Seq(Incident) /\ UNCHANGED log
  BY DEF PageState, Render
<1>2. /\ ask[p].stage = "answered"
      /\ page' = [cards |-> IF ask[p].kind = "status" THEN ask[p].cards ELSE page.cards,
                  list  |-> IF ask[p].kind # "command" THEN ask[p].list ELSE page.list]
  BY DEF Render, RenderCards, RenderIncidents
<1>3. /\ ask[p].cards \in CardSeqs /\ ask[p].list \in SUBSET Nat
      /\ ask[p].list \subseteq 1..Len(log)
      /\ ask[p].kind = "status" => Len(ask[p].cards) = Len(Names)
  BY <1>1, <1>2, RequestIn DEF RequestOK, Request
<1>4. page.cards \in CardSeqs /\ page.list \in SUBSET Nat
  BY <1>1 DEF PageOK
<1>5. /\ page' \in [cards : CardSeqs, list : SUBSET Nat]
      /\ page'.cards = IF ask[p].kind = "status" THEN ask[p].cards ELSE page.cards
      /\ page'.list = IF ask[p].kind # "command" THEN ask[p].list ELSE page.list
  BY <1>2, <1>3, <1>4
<1> QED
  BY <1>1, <1>3, <1>5 DEF PageOK

LEMMA CatchStep ==
  ASSUME PageState, NEW p \in Polls, Catch(p) PROVE PageOK'
<1>1. PageOK /\ UNCHANGED log
  BY DEF PageState, Catch
<1>2. page' = [page EXCEPT !.cards = <<>>] \/ page' = page
  BY DEF Catch
<1>3. <<>> \in CardSeqs /\ Len(<<>>) = 0
  BY DEF CardSeqs
<1> QED
  BY <1>1, <1>2, <1>3 DEF PageOK

LEMMA GaugeStep ==
  ASSUME PageState, SetGauge PROVE CountsOK'
<1>1. log \in Seq(Incident) /\ CountsOK
  BY DEF PageState
<1>2. GaugeLimit \in Nat /\ MaxFaults \in Nat
  BY PageAssumption
<1>3. Cardinality(ListIncidents(GaugeLimit)) \in 0..GaugeLimit
  BY <1>1, <1>2, OpenNowIn, GreatestAreFew, ListIsGreatest
<1>4. gauge' \in -1..GaugeLimit
  BY <1>2, <1>3 DEF SetGauge
<1>5. faults' \in 0..MaxFaults
  BY <1>1, <1>2 DEF SetGauge, Fault, CountsOK
<1> QED
  BY <1>1, <1>4, <1>5 DEF SetGauge, CountsOK

LEMMA ReadFailsCount ==
  ASSUME CountsOK, ReadFails, UNCHANGED <<mode, stops, gauge>> PROVE CountsOK'
BY PageAssumption DEF CountsOK, ReadFails, Fault

LEMMA EndStep ==
  ASSUME PageState, ProcessEnds PROVE RequestsOK'
<1>1. RequestsOK /\ log \in Seq(Incident) /\ UNCHANGED log
  BY DEF PageState, ProcessEnds
<1>2. ask' = [p \in Polls |-> IF ask[p].stage = "sent" THEN Lost(p) ELSE ask[p]]
  BY DEF ProcessEnds
<1>3. \A p \in Polls : Lost(p) \in Request /\ RequestOK(Lost(p), Len(log))
  BY <1>1, LostIsOK DEF RequestOK
<1>4. \A p \in Polls : RequestOK(ask'[p], Len(log))
  BY <1>1, <1>2, <1>3, RequestIn
<1> QED
  BY <1>1, <1>2, <1>4 DEF RequestsOK, RequestOK

-----------------------------------------------------------------------------
(***************************************************************************)
(* Every step keeps the invariant                                          *)
(***************************************************************************)
LEMMA SameLog ==
  ASSUME PageState, UNCHANGED log
  PROVE  log' \in Seq(Incident) /\ Len(log') = Len(log)
BY DEF PageState

LEMMA ReadOpenStep ==
  ASSUME PageState, NEW p \in Polls, ReadOpen(p) \/ ReadIncidents(p)
  PROVE  CountsOK' /\ RequestsOK'
<1>1. /\ CountsOK /\ UNCHANGED log /\ UNCHANGED <<mode, stops, gauge>>
      /\ ask[p].stage = "sent"
  BY DEF PageState, ReadOpen, ReadIncidents
<1>2. UNCHANGED faults \/ ReadFails
  BY DEF ReadOpen, ReadIncidents
<1>3. CountsOK'
  <2>1. CASE UNCHANGED faults
    BY <1>1, <2>1 DEF CountsOK
  <2> QED
    BY <1>1, <1>2, <2>1, ReadFailsCount
<1>4. ask[p].kind # "incidents" => Len(ask[p].cards) = Len(Names)
  BY DEF ReadOpen, ReadIncidents
<1>5. (\E list : list \subseteq OpenNow /\ Answer(p, list))
        \/ ask' = [ask EXCEPT ![p] = Lost(p)]
  BY ListIsOpen DEF ReadOpen, ReadIncidents
<1>6. RequestsOK'
  BY <1>1, <1>4, <1>5, AnswerStep, FailStep
<1> QED
  BY <1>3, <1>6

LEMMA PageStep ==
  ASSUME PageState, [Next]_vars PROVE PageState'
<1>1. /\ newest \in [Configured -> Outcomes] /\ log \in Seq(Incident)
      /\ CountsOK /\ RequestsOK /\ PageOK
  BY DEF PageState
<1>2. ASSUME UNCHANGED <<log, page>> PROVE PageOK'
  BY <1>1, <1>2 DEF PageOK
<1>3. ASSUME UNCHANGED <<log, ask>> PROVE RequestsOK'
  BY <1>1, <1>3 DEF RequestsOK, RequestOK
<1>4. ASSUME UNCHANGED <<mode, faults, stops, gauge>> PROVE CountsOK'
  BY <1>1, <1>4 DEF CountsOK
<1>5. CASE \E e \in Configured : StoreCheck(e)
  <2>1. newest' \in [Configured -> Outcomes]
    BY <1>1, <1>5 DEF StoreCheck, Outcomes
  <2>2. UNCHANGED <<log, mode, faults, stops, ask, page, gauge>>
    BY <1>5 DEF StoreCheck
  <2> QED
    BY <1>2, <1>3, <1>4, <2>1, <2>2, SameLog DEF PageState
<1>6. CASE WriteIncidents
  <2>1. UNCHANGED <<newest, mode, faults, stops, ask, page, gauge>>
    BY <1>6 DEF WriteIncidents
  <2>2. /\ log' \in Seq(Incident) /\ Len(log) <= Len(log')
        /\ Len(log) \in Nat /\ Len(log') \in Nat
    BY <1>1, <1>6, LogGrows
  <2>3. RequestsOK'
    BY <1>1, <2>1, <2>2, LongerLog DEF RequestsOK
  <2>4. PageOK'
    BY <1>1, <2>1, <2>2, LongerLog DEF PageOK
  <2> QED
    BY <1>1, <1>4, <2>1, <2>2, <2>3, <2>4 DEF PageState
<1>7. ASSUME NEW p \in Polls, Poll(p) \/ Handle(p) PROVE PageState'
  <2>1. UNCHANGED newest /\ UNCHANGED log
    BY <1>7 DEF Poll, Handle, ReadCheck, ReadOpen, ReadIncidents, Break, Render, Catch
  <2>2. CASE Poll(p)
    <3>1. RequestsOK'
      BY <2>2, PollStep
    <3>2. UNCHANGED <<log, mode, faults, stops, page, gauge>>
      BY <2>2 DEF Poll
    <3> QED
      BY <1>1, <1>2, <1>4, <2>1, <3>1, <3>2, SameLog DEF PageState
  <2>3. CASE ReadCheck(p)
    <3>1. RequestsOK'
      BY <2>3, ReadCheckStep
    <3>2. UNCHANGED <<log, mode, stops, page, gauge>> /\ (UNCHANGED faults \/ ReadFails)
      BY <2>3 DEF ReadCheck
    <3>3. CountsOK'
      BY <1>1, <1>4, <3>2, ReadFailsCount
    <3> QED
      BY <1>1, <1>2, <2>1, <3>1, <3>2, <3>3, SameLog DEF PageState
  <2>4. CASE ReadOpen(p) \/ ReadIncidents(p)
    <3>1. UNCHANGED <<log, page>>
      BY <2>4 DEF ReadOpen, ReadIncidents
    <3> QED
      BY <1>1, <1>2, <2>1, <2>4, <3>1, ReadOpenStep, SameLog DEF PageState
  <2>5. CASE Break(p)
    <3>1. /\ UNCHANGED <<log, mode, stops, page, gauge>>
          /\ ask' = [ask EXCEPT ![p] = Lost(p)]
          /\ UNCHANGED faults \/ Fault
      BY <2>5 DEF Break
    <3>2. CountsOK'
      BY <1>1, <1>4, <3>1, PageAssumption DEF CountsOK, Fault
    <3> QED
      BY <1>1, <1>2, <2>1, <3>1, <3>2, FailStep, SameLog DEF PageState
  <2>6. CASE Render(p)
    <3>1. /\ UNCHANGED <<mode, faults, stops, gauge>>
          /\ ask' = [ask EXCEPT ![p] = Idle]
      BY <2>6 DEF Render
    <3> QED
      BY <1>1, <1>4, <2>1, <2>6, <3>1, GoIdle, RenderStep, SameLog DEF PageState
  <2>7. CASE Catch(p)
    <3>1. /\ UNCHANGED <<mode, faults, stops, gauge>>
          /\ ask' = [ask EXCEPT ![p] = Idle]
      BY <2>7 DEF Catch
    <3> QED
      BY <1>1, <1>4, <2>1, <2>7, <3>1, GoIdle, CatchStep, SameLog DEF PageState
  <2> QED
    BY <1>7, <2>2, <2>3, <2>4, <2>5, <2>6, <2>7 DEF Handle
<1>8. CASE SetGauge
  <2>1. UNCHANGED <<newest, log, ask, page>>
    BY <1>8 DEF SetGauge
  <2> QED
    BY <1>1, <1>2, <1>3, <1>8, <2>1, GaugeStep, SameLog DEF PageState
<1>9. CASE Signal \/ Boot
  <2>1. UNCHANGED <<newest, log, ask, page>>
    BY <1>9 DEF Signal, Boot
  <2>2. CountsOK'
    BY <1>1, <1>9, PageAssumption DEF Signal, Boot, CountsOK
  <2> QED
    BY <1>1, <1>2, <1>3, <2>1, <2>2, SameLog DEF PageState
<1>10. CASE ProcessEnds
  <2>1. UNCHANGED <<newest, log, page>>
    BY <1>10 DEF ProcessEnds
  <2>2. CountsOK'
    BY <1>1, <1>10, PageAssumption DEF ProcessEnds, CountsOK
  <2> QED
    BY <1>1, <1>2, <1>10, <2>1, <2>2, EndStep, SameLog DEF PageState
<1>11. CASE UNCHANGED vars
  <2>1. UNCHANGED <<newest, log, mode, faults, stops, ask, page, gauge>>
    BY <1>11 DEF vars
  <2> QED
    BY <1>1, <1>2, <1>3, <1>4, <2>1, SameLog DEF PageState
<1> QED
  BY <1>5, <1>6, <1>7, <1>8, <1>9, <1>10, <1>11 DEF Next

LEMMA AlwaysPageState == Spec => []PageState
BY PageInit, PageStep, PTL DEF Spec

(***************************************************************************)
(* The types: an answer has a card per entity, the page one for each or    *)
(* none, nobody lists an incident there is not, and the gauge never passes *)
(* the limit of its query.                                                 *)
(***************************************************************************)
THEOREM PageTypeCorrect == Spec => []TypeOK
<1>1. ASSUME PageState PROVE TypeOK
  <2>1. /\ newest \in [Configured -> Outcomes] /\ log \in Seq(Incident)
        /\ CountsOK /\ RequestsOK /\ PageOK
    BY <1>1 DEF PageState
  <2>2. DOMAIN log = 1..Len(log)
    BY <2>1
  <2>3. ASSUME NEW p \in Polls
        PROVE  /\ DOMAIN ask[p] = DOMAIN Idle
               /\ ask[p].stage \in Stages
               /\ ask[p].kind \in Kinds \cup {"none"}
               /\ CardsOK(ask[p].cards)
               /\ ask[p].list \subseteq DOMAIN log
               /\ ask[p].stage = "answered" /\ ask[p].kind # "incidents"
                    => Len(ask[p].cards) = Len(Names)
    <3>1. ask[p] \in Request /\ RequestOK(ask[p], Len(log))
      BY <2>1, RequestIn
    <3>2. DOMAIN ask[p] = DOMAIN Idle
      BY <3>1 DEF Request, Idle
    <3> QED
      BY <2>1, <2>2, <3>1, <3>2, RequestIn DEF RequestOK, CardsOK, CardSeqs
  <2>4. CardsOK(page.cards) /\ Len(page.cards) \in {0, Len(Names)} /\ page.list \subseteq DOMAIN log
    <3>1. page.cards \in CardSeqs /\ page.list \subseteq 1..Len(log)
          /\ Len(page.cards) \in {0, Len(Names)}
      BY <2>1 DEF PageOK
    <3>2. Len(page.cards) <= Len(Names)
      BY <3>1, NamesAreConfigured
    <3> QED
      BY <2>2, <3>1, <3>2 DEF CardsOK, CardSeqs
  <2> QED
    BY <2>1, <2>3, <2>4 DEF TypeOK, Outcomes, Incident, CountsOK
<1> QED
  BY <1>1, AlwaysPageState, PTL

-----------------------------------------------------------------------------
(***************************************************************************)
(* The history variable                                                    *)
(***************************************************************************)
Since == [since : SUBSET Nat, known : Nat, calm : BOOLEAN,
          had : [Configured -> SUBSET Outcomes]]

(***************************************************************************)
(* What is remembered of a request is true of what it has read: whatever   *)
(* is open was open when it was sent or is newer, and if nothing failed or *)
(* stopped each card is one of the outcomes its entity had since.          *)
(***************************************************************************)
FollowedBy(a, cards) ==
  /\ a.known <= Len(log)
  /\ \A i \in OpenNow : i \in a.since \/ i > a.known
  /\ \A e \in Configured : newest[e] \in a.had[e]
  /\ a.calm => /\ mode = "up"
               /\ \A k \in DOMAIN cards :
                    \E outcome \in a.had[Names[k]] : cards[k] = Card(outcome)

Followed ==
  /\ asked \in [Polls -> Since]
  /\ \A p \in Polls : ask[p].stage = "sent" => FollowedBy(asked[p], ask[p].cards)

(* A step of one request, as another one sees it. *)
LEMMA OthersStand ==
  ASSUME PageState, NEW p \in Polls, Poll(p) \/ Handle(p)
  PROVE  \A q \in Polls : q # p => ask'[q] = ask[q]
<1>1. RequestsOK /\ log \in Seq(Incident)
  BY DEF PageState
<1>2. \E a : ask' = [ask EXCEPT ![p] = a]
  <2>1. CASE Poll(p)
    <3>1. PICK kind \in KindsOf[p] :
            ask' = [ask EXCEPT ![p].stage = "sent", ![p].kind = kind]
      BY <2>1 DEF Poll
    <3>2. ask' = [ask EXCEPT ![p] = [ask[p] EXCEPT !.stage = "sent", !.kind = kind]]
      BY <1>1, <3>1 DEF RequestsOK
    <3> QED
      BY <3>2
  <2>2. CASE ReadCheck(p)
    <3>1. \E cards : ask' = [ask EXCEPT ![p] = [ask[p] EXCEPT !.cards = cards]]
      BY <1>1, <2>2 DEF ReadCheck, RequestsOK
    <3> QED
      BY <3>1
  <2>3. CASE ReadOpen(p) \/ ReadIncidents(p) \/ Break(p)
    <3>1. (\E list : Answer(p, list)) \/ ask' = [ask EXCEPT ![p] = Lost(p)]
      BY <2>3 DEF ReadOpen, ReadIncidents, Break
    <3>2. \/ \E list : ask' = [ask EXCEPT ![p] = [ask[p] EXCEPT !.stage = "answered",
                                                              !.list = list]]
          \/ ask' = [ask EXCEPT ![p] = Lost(p)]
      BY <1>1, <3>1 DEF Answer, RequestsOK
    <3> QED
      BY <3>2
  <2>4. CASE Render(p) \/ Catch(p)
    BY <2>4 DEF Render, Catch
  <2> QED
    BY <2>1, <2>2, <2>3, <2>4 DEF Handle
<1> QED
  BY <1>1, <1>2 DEF RequestsOK

(***************************************************************************)
(* How a request comes to wait for its answer, and what it reads meanwhile.*)
(***************************************************************************)
ReadOne(p) ==
  /\ Len(ask[p].cards) < Len(Names)
  /\ \E outcome :
       /\ ask'[p].cards = Append(ask[p].cards, Card(outcome))
       /\ outcome = newest[Names[Len(ask[p].cards) + 1]] \/ ReadFails

LEMMA HowItWaits ==
  ASSUME PageState, Next, NEW p \in Polls, ask'[p].stage = "sent"
  PROVE  \/ /\ ask[p].stage = "idle" /\ ask'[p].cards = <<>>
            /\ UNCHANGED <<newest, log, mode>>
         \/ /\ ask[p].stage = "sent"
            /\ ask'[p].cards = ask[p].cards \/ ReadOne(p)
<1>1. RequestsOK /\ log \in Seq(Incident)
  BY DEF PageState
<1>2. CASE ask'[p] = ask[p]
  BY <1>2
<1>3. CASE Poll(p)
  BY <1>3, PollStep DEF Poll
<1>4. CASE ReadCheck(p)
  BY <1>4, ReadCheckStep DEF ReadCheck, ReadOne
<1>5. CASE Handle(p) /\ ~ReadCheck(p)
  <2>1. CASE ReadOpen(p) \/ ReadIncidents(p)
    <3>1. /\ ask[p].stage = "sent" /\ UNCHANGED log
          /\ ask[p].kind # "incidents" => Len(ask[p].cards) = Len(Names)
          /\ \/ \E list : list \subseteq OpenNow /\ Answer(p, list)
             \/ ask' = [ask EXCEPT ![p] = Lost(p)]
      BY <2>1, ListIsOpen DEF ReadOpen, ReadIncidents
    <3>2. ask'[p].stage = "answered" \/ ask'[p].stage = "failed"
      BY <3>1, AnswerStep, FailStep
    <3> QED
      BY <3>2
  <2>2. CASE Break(p)
    BY <2>2, FailStep DEF Break
  <2>3. CASE Render(p) \/ Catch(p)
    <3>1. ask'[p] = Idle
      BY <1>1, <2>3 DEF Render, Catch, RequestsOK
    <3> QED
      BY <3>1 DEF Idle
  <2> QED
    BY <1>5, <2>1, <2>2, <2>3 DEF Handle
<1>6. ASSUME NEW q \in Polls, q # p, Poll(q) \/ Handle(q) PROVE ask'[p] = ask[p]
  BY <1>6, OthersStand
<1>7. CASE ProcessEnds
  <2>1. ask'[p] = IF ask[p].stage = "sent" THEN Lost(p) ELSE ask[p]
    BY <1>7 DEF ProcessEnds
  <2>2. Lost(p).stage = "failed"
    BY <1>1, LostIsOK
  <2> QED
    BY <2>1, <2>2
<1>8. ASSUME \/ \E e \in Configured : StoreCheck(e)
             \/ WriteIncidents \/ SetGauge \/ Signal \/ Boot
      PROVE  ask' = ask
  BY <1>8 DEF StoreCheck, WriteIncidents, SetGauge, Signal, Boot
<1> QED
  BY <1>2, <1>3, <1>4, <1>5, <1>6, <1>7, <1>8 DEF Next

LEMMA FollowedInit == Init /\ AskedInit => Followed
<1>1. Nothing \in Since
  BY DEF Nothing, Since
<1> QED
  BY <1>1 DEF Init, AskedInit, Followed, Idle

(* After the signal no request is calm any more. *)
LEMMA CalmIsUp ==
  ASSUME PageState, Next, mode = "up", UNCHANGED stops PROVE mode' = "up"
<1>1. stops \in Nat
  BY PageAssumption DEF PageState, CountsOK
<1>2. CASE Signal \/ ProcessEnds
  BY <1>1, <1>2 DEF Signal, ProcessEnds
<1>3. CASE Boot
  BY <1>3 DEF Boot
<1>4. ASSUME NEW p \in Polls, Poll(p) \/ Handle(p) PROVE mode' = mode
  BY <1>4 DEF Poll, Handle, ReadCheck, ReadOpen, ReadIncidents, Break, Render, Catch
<1> QED
  BY <1>2, <1>3, <1>4 DEF Next, StoreCheck, WriteIncidents, SetGauge

(* The log, between any two states. *)
LEMMA LogStep ==
  ASSUME PageState, Next
  PROVE  /\ Len(log) \in Nat /\ Len(log') \in Nat /\ Len(log) <= Len(log')
         /\ \A i \in OpenNow' : i \in OpenNow \/ i > Len(log)
         /\ newest' \in [Configured -> Outcomes]
<1>1. PageState'
  BY PageStep
<1>2. CASE WriteIncidents
  BY <1>1, <1>2, LogGrows DEF PageState
<1>3. CASE ~WriteIncidents
  <2>1. UNCHANGED log
    BY <1>3 DEF Next, StoreCheck, Poll, Handle, ReadCheck, ReadOpen, ReadIncidents, Break,
                Render, Catch, SetGauge, Signal, ProcessEnds, Boot
  <2> QED
    BY <1>1, <2>1 DEF PageState, OpenNow
<1> QED
  BY <1>2, <1>3

(* Later, field by field. *)
LEMMA LaterIs ==
  ASSUME NEW a \in Since, newest' \in [Configured -> Outcomes]
  PROVE  /\ Later(a) \in Since
         /\ Later(a).since = a.since /\ Later(a).known = a.known
         /\ Later(a).calm => a.calm /\ UNCHANGED <<faults, stops>>
         /\ \A e \in Configured : a.had[e] \subseteq Later(a).had[e]
                                /\ newest'[e] \in Later(a).had[e]
<1> DEFINE calm == a.calm /\ UNCHANGED <<faults, stops>>
           had  == [e \in Configured |-> a.had[e] \cup {newest'[e]}]
<1>1. Later(a) = [a EXCEPT !.calm = calm, !.had = had]
  BY DEF Later
<1>2. had \in [Configured -> SUBSET Outcomes]
      /\ \A e \in Configured : a.had[e] \subseteq had[e] /\ newest'[e] \in had[e]
  BY DEF Since
<1>3. calm \in BOOLEAN
  BY DEF Since
<1> HIDE DEF calm, had
<1>4. /\ Later(a) \in Since /\ Later(a).since = a.since /\ Later(a).known = a.known
      /\ Later(a).calm = calm /\ Later(a).had = had
  BY <1>1, <1>2, <1>3 DEF Since
<1> QED
  BY <1>2, <1>4 DEF calm

(* A card more, or none. *)
LEMMA CardsFollowed ==
  ASSUME PageState, Next, NEW p \in Polls, NEW a \in Since, ask[p].stage = "sent",
         FollowedBy(a, ask[p].cards), a.calm, UNCHANGED <<faults, stops>>,
         ask'[p].cards = ask[p].cards \/ ReadOne(p), NEW k \in DOMAIN ask'[p].cards
  PROVE  \E outcome \in a.had[Names[k]] : ask'[p].cards[k] = Card(outcome)
<1>1. /\ RequestsOK /\ mode = "up" /\ faults \in Nat
      /\ \A e \in Configured : newest[e] \in a.had[e]
      /\ \A j \in DOMAIN ask[p].cards :
           \E outcome \in a.had[Names[j]] : ask[p].cards[j] = Card(outcome)
  BY PageAssumption DEF PageState, CountsOK, FollowedBy
<1>2. CASE ask'[p].cards = ask[p].cards
  BY <1>1, <1>2
<1>3. CASE ReadOne(p)
  <2> DEFINE n == Len(ask[p].cards)
  <2>1. PICK outcome : /\ n < Len(Names)
                       /\ ask'[p].cards = Append(ask[p].cards, Card(outcome))
                       /\ outcome = newest[Names[n + 1]] \/ ReadFails
    BY <1>3 DEF ReadOne
  <2>2. ~ReadFails
    BY <1>1 DEF ReadFails, Fault
  <2>3. n + 1 \in 1..Len(Names) /\ n \in Nat
    BY <1>1, <2>1, RequestIn, NamesAreConfigured
  <2>4. newest[Names[n + 1]] \in a.had[Names[n + 1]]
    BY <1>1, <2>3, NamesAreConfigured
  <2>5. Card(outcome) \in {"healthy", "unhealthy"} /\ ask[p].cards \in CardSeqs
    BY <1>1, RequestIn DEF Card
  <2>6. \/ k \in DOMAIN ask[p].cards /\ ask'[p].cards[k] = ask[p].cards[k]
        \/ k = n + 1 /\ ask'[p].cards[k] = Card(outcome)
    <3> DEFINE c == Card(outcome)
               s == ask[p].cards
    <3>1. ask'[p].cards = Append(s, c) /\ s \in CardSeqs /\ c \in {"healthy", "unhealthy"}
      BY <2>1, <2>5
    <3> HIDE DEF c, s
    <3>2. k \in DOMAIN Append(s, c)
      BY <3>1
    <3>3. \/ k \in DOMAIN s /\ Append(s, c)[k] = s[k]
          \/ k = Len(s) + 1 /\ Append(s, c)[k] = c
      BY <3>1, <3>2 DEF CardSeqs
    <3> QED
      BY <3>1, <3>3 DEF c, s
  <2>7. CASE k \in DOMAIN ask[p].cards /\ ask'[p].cards[k] = ask[p].cards[k]
    BY <1>1, <2>7
  <2>8. CASE k = n + 1 /\ ask'[p].cards[k] = Card(outcome)
    BY <2>1, <2>2, <2>4, <2>8
  <2> QED
    BY <2>6, <2>7, <2>8
<1> QED
  BY <1>2, <1>3

LEMMA FollowedStep ==
  ASSUME PageState, Followed, [Next /\ AskedStep]_askedVars PROVE Followed'
<1>1. CASE UNCHANGED askedVars
  BY <1>1 DEF askedVars, vars, Followed, FollowedBy, OpenNow
<1>2. CASE Next /\ AskedStep
  <2>1. /\ Len(log) \in Nat /\ Len(log') \in Nat /\ Len(log) <= Len(log')
        /\ \A i \in OpenNow' : i \in OpenNow \/ i > Len(log)
        /\ newest' \in [Configured -> Outcomes]
    BY <1>2, LogStep
  <2>2. /\ asked \in [Polls -> Since] /\ newest \in [Configured -> Outcomes]
        /\ OpenNow \in SUBSET Nat
    BY OpenNowIn DEF Followed, PageState
  <2>3. Nothing \in Since /\ Asking \in Since /\ \A a \in Since : Later(a) \in Since
    BY <2>1, <2>2, LaterIs DEF Nothing, Asking, Since
  <2>4. asked' = [p \in Polls |-> IF ask'[p].stage # "sent" THEN Nothing
                                  ELSE IF ask[p].stage = "idle" THEN Asking
                                  ELSE Later(asked[p])]
    BY <1>2 DEF AskedStep
  <2>5. asked' \in [Polls -> Since]
    BY <2>2, <2>3, <2>4
  <2>6. ASSUME NEW p \in Polls, ask'[p].stage = "sent"
        PROVE  FollowedBy(asked[p], ask[p].cards)'
    <3>1. CASE /\ ask[p].stage = "idle" /\ ask'[p].cards = <<>>
               /\ UNCHANGED <<newest, log, mode>>
      <4>1. asked'[p] = Asking
        BY <2>4, <2>6, <3>1
      <4>2. /\ asked'[p].known = Len(log) /\ asked'[p].since = OpenNow
            /\ asked'[p].calm = (mode = "up")
            /\ \A e \in Configured : asked'[p].had[e] = {newest[e]}
        BY <4>1 DEF Asking
      <4>3. OpenNow' = OpenNow /\ DOMAIN <<>> = {}
        BY <3>1 DEF OpenNow
      <4> QED
        BY <2>1, <3>1, <4>2, <4>3 DEF FollowedBy
    <3>2. CASE /\ ask[p].stage = "sent"
               /\ ask'[p].cards = ask[p].cards \/ ReadOne(p)
      <4> DEFINE a == asked[p]
      <4>1. asked'[p] = Later(a) /\ a \in Since /\ FollowedBy(a, ask[p].cards)
        BY <2>2, <2>4, <2>6, <3>2 DEF Followed
      <4>2. /\ asked'[p].since = a.since /\ asked'[p].known = a.known /\ a.known \in Nat
            /\ asked'[p].calm => a.calm /\ UNCHANGED <<faults, stops>>
            /\ \A e \in Configured : a.had[e] \subseteq asked'[p].had[e]
                                   /\ newest'[e] \in asked'[p].had[e]
        BY <2>1, <4>1, LaterIs DEF Since
      <4>3. asked'[p].known <= Len(log')
        BY <2>1, <4>1, <4>2 DEF FollowedBy
      <4>4. \A i \in OpenNow' : i \in a.since \/ i > a.known
        <5>1. /\ a.known <= Len(log)
              /\ \A i \in OpenNow : i \in a.since \/ i > a.known
          BY <4>1 DEF FollowedBy
        <5>2. \A i \in OpenNow' : i \in Nat
          <6>1. log' \in Seq(Incident)
            BY <1>2, PageStep DEF PageState
          <6> QED
            BY <6>1 DEF OpenNow
        <5> QED
          BY <2>1, <4>2, <5>1, <5>2
      <4>5. ASSUME asked'[p].calm
            PROVE  /\ mode' = "up"
                   /\ \A k \in DOMAIN ask'[p].cards :
                        \E outcome \in asked'[p].had[Names[k]] :
                          ask'[p].cards[k] = Card(outcome)
        <5>1. a.calm /\ UNCHANGED <<faults, stops>> /\ mode = "up"
          BY <4>1, <4>2, <4>5 DEF FollowedBy
        <5>2. mode' = "up"
          BY <1>2, <5>1, CalmIsUp
        <5>3. ASSUME NEW k \in DOMAIN ask'[p].cards
              PROVE  \E outcome \in asked'[p].had[Names[k]] :
                       ask'[p].cards[k] = Card(outcome)
          <6>1. \E outcome \in a.had[Names[k]] : ask'[p].cards[k] = Card(outcome)
            BY <1>2, <3>2, <4>1, <5>1, CardsFollowed
          <6>2. Names[k] \in Configured
            <7>1. ask'[p].cards \in CardSeqs /\ Len(ask'[p].cards) <= Len(Names)
              BY <1>2, PageStep DEF PageState, RequestsOK, RequestOK, Request
            <7>2. k \in 1..Len(Names)
              BY <7>1, NamesAreConfigured DEF CardSeqs
            <7> QED
              BY <7>2, NamesAreConfigured
          <6> QED
            BY <4>2, <6>1, <6>2
        <5> QED
          BY <5>2, <5>3
      <4> QED
        BY <4>2, <4>3, <4>4, <4>5 DEF FollowedBy
    <3> QED
      BY <1>2, <2>6, <3>1, <3>2, HowItWaits
  <2> QED
    BY <2>5, <2>6 DEF Followed
<1> QED
  BY <1>1, <1>2

-----------------------------------------------------------------------------
(***************************************************************************)
(* Where an answer comes from.                                             *)
(***************************************************************************)
LEMMA HowItAnswers ==
  ASSUME PageState, Next, NEW p \in Polls, Answers(p)
  PROVE  /\ ask'[p].cards = ask[p].cards
         /\ \/ ask'[p].list = ListIncidents(Limit(p))
            \/ ask'[p].list = {} /\ ReadFails
<1>1. RequestsOK /\ log \in Seq(Incident)
      /\ ask[p].stage = "sent" /\ ask'[p].stage = "answered"
  BY DEF PageState, Answers
<1>2. CASE ReadOpen(p) \/ ReadIncidents(p)
  <2>1. UNCHANGED log /\ (ask[p].kind # "incidents" => Len(ask[p].cards) = Len(Names))
    BY <1>2 DEF ReadOpen, ReadIncidents
  <2>2. \/ Answer(p, ListIncidents(Limit(p)))
        \/ Answer(p, {}) /\ ReadFails
        \/ ask' = [ask EXCEPT ![p] = Lost(p)]
    BY <1>2 DEF ReadOpen, ReadIncidents, Limit
  <2>3. ask' # [ask EXCEPT ![p] = Lost(p)]
    BY <1>1, <2>1, FailStep
  <2> QED
    BY <1>1, <2>1, <2>2, <2>3, AnswerStep, ListIsOpen
<1>3. CASE Poll(p) \/ ReadCheck(p)
  BY <1>1, <1>3, PollStep, ReadCheckStep
<1>4. CASE Break(p)
  BY <1>1, <1>4, FailStep DEF Break
<1>5. CASE Render(p) \/ Catch(p)
  BY <1>1, <1>5 DEF Render, Catch
<1>6. ASSUME NEW q \in Polls, q # p, Poll(q) \/ Handle(q) PROVE FALSE
  BY <1>1, <1>6, OthersStand
<1>7. CASE ProcessEnds
  <2>1. ask'[p] = Lost(p)
    BY <1>1, <1>7 DEF ProcessEnds
  <2>2. Lost(p).stage = "failed"
    BY <1>1, LostIsOK
  <2> QED
    BY <1>1, <2>1, <2>2
<1>8. ASSUME \/ \E e \in Configured : StoreCheck(e)
             \/ WriteIncidents \/ SetGauge \/ Signal \/ Boot
      PROVE  FALSE
  BY <1>1, <1>8 DEF StoreCheck, WriteIncidents, SetGauge, Signal, Boot
<1> QED
  BY <1>2, <1>3, <1>4, <1>5, <1>6, <1>7, <1>8 DEF Next, Handle

(* What /dapp picks from any list of open incidents. *)
LEMMA DappFindsItsOwn ==
  ASSUME PageState, NEW list, list \subseteq OpenNow, NEW e, e.type = "dapp"
  PROVE  TellsOfDapp(e, list)
<1> DEFINE its   == {i \in list : AnswersTo(log[i].entity, e.name)}
           shown == {i \in its : \A j \in its : j <= i}
<1>1. DappIncident(e.name, list) = shown
  BY DEF DappIncident
<1>2. its \subseteq 1..Len(log) /\ Len(log) \in Nat
  BY OpenNowIn DEF PageState
<1>3. \A i \in shown : AnswersTo(log[i].entity, e.name)
  OBVIOUS
<1>4. ASSUME NEW i \in list, log[i].entity = e PROVE shown # {}
  <2>1. i \in its
    BY <1>4 DEF AnswersTo
  <2> QED
    BY <1>2, <2>1, GreatestOne
<1> HIDE DEF shown
<1> QED
  BY <1>1, <1>3, <1>4 DEF TellsOfDapp

LEMMA TimelyAnswer ==
  ASSUME PageState, Followed, Next, NEW p \in Polls, Answers(p)
  PROVE  /\ Timely(asked[p], ask'[p].list, ask'[p].cards, Limit(p))
         /\ \A e \in Configured : e.type = "dapp" => TellsOfDapp(e, ask'[p].list)
<1> DEFINE a     == asked[p]
           list  == ask'[p].list
           limit == Limit(p)
<1>1. /\ a \in Since /\ FollowedBy(a, ask[p].cards)
      /\ ask'[p].cards = ask[p].cards
      /\ list = ListIncidents(limit) \/ (list = {} /\ ReadFails)
  <2>1. a \in Since /\ FollowedBy(a, ask[p].cards)
    BY DEF Followed, Answers
  <2> QED
    BY <2>1, HowItAnswers
<1>2. list \subseteq OpenNow /\ limit \in Nat
  BY <1>1, ListIsOpen, PageAssumption DEF Limit
<1>3. \A e \in Configured : e.type = "dapp" => TellsOfDapp(e, list)
  BY <1>2, DappFindsItsOwn
<1>4. \A i \in list : i \in a.since \/ i > a.known
  BY <1>1, <1>2 DEF FollowedBy
<1>5. ASSUME a.calm, UNCHANGED faults
      PROVE  /\ \A i \in a.since \cap OpenNow :
                  i \in list \/ Cardinality({j \in list : j > i}) >= limit
             /\ \A k \in DOMAIN ask'[p].cards :
                  \E outcome \in a.had[Names[k]] : ask'[p].cards[k] = Card(outcome)
  <2>1. mode = "up" /\ faults \in Nat
    BY <1>1, <1>5, PageAssumption DEF FollowedBy, PageState, CountsOK
  <2>2. ~ReadFails
    BY <1>5, <2>1 DEF ReadFails, Fault
  <2>3. list = Greatest(OpenNow, limit)
    BY <1>1, <2>2, ListIsGreatest
  <2>4. OpenNow \subseteq 1..Len(log) /\ Len(log) \in Nat
    BY OpenNowIn DEF PageState
  <2>5. \A i \in OpenNow :
          i \in Greatest(OpenNow, limit)
            \/ Cardinality({j \in Greatest(OpenNow, limit) : j > i}) >= limit
    BY <1>2, <2>4, CutOffByNewer
  <2>6. \A i \in a.since \cap OpenNow :
          i \in list \/ Cardinality({j \in list : j > i}) >= limit
    BY <2>3, <2>5
  <2> QED
    BY <1>1, <1>5, <2>6 DEF FollowedBy
<1> HIDE DEF a, list, limit
<1>6. Timely(a, list, ask'[p].cards, limit)
  BY <1>4, <1>5 DEF Timely
<1> QED
  BY <1>3, <1>6 DEF a, list, limit

(***************************************************************************)
(* An answer, put together from many statements while the monitor writes,  *)
(* tells of the time since its request was sent; and of a list of open     *)
(* incidents /dapp shows one of its dApp or of a namesake but for case,    *)
(* and never none while the list has one of the dApp.                      *)
(***************************************************************************)
THEOREM AnswersTellOfTheirTime == HistorySpec => AnswersAreTimely
<1> DEFINE Told == \A p \in Polls : Answers(p) =>
             /\ Timely(asked[p], ask'[p].list, ask'[p].cards, Limit(p))
             /\ \A e \in Configured : e.type = "dapp" => TellsOfDapp(e, ask'[p].list)
<1>1. Init /\ AskedInit => PageState /\ Followed
  BY PageInit, FollowedInit
<1>2. [Next /\ AskedStep]_askedVars => [Next]_vars
  BY DEF askedVars
<1>3. PageState /\ Followed /\ [Next /\ AskedStep]_askedVars => PageState' /\ Followed'
  BY <1>2, PageStep, FollowedStep
<1>4. PageState /\ Followed /\ [Next /\ AskedStep]_askedVars => [Told]_askedVars
  BY TimelyAnswer
<1>5. AnswersAreTimely <=> [][Told]_askedVars
  BY DEF AnswersAreTimely
<1> QED
  BY <1>1, <1>3, <1>4, <1>5, PTL DEF HistorySpec
=============================================================================
