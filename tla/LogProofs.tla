----------------------------- MODULE LogProofs -----------------------------
(***************************************************************************)
(* What is told of an incident, for every set of configurations with       *)
(* unique names: timeline and channel in order and never twice, nothing    *)
(* left untold as long as nothing fails, and the monitor as an             *)
(* implementation of IncidentLog.                                          *)
(***************************************************************************)
EXTENDS RoundProofs, SequenceTheorems

StateOf(v) == IF v = "recovered" THEN "closed" ELSE "open"

Opened == [kind |-> "opened", state |-> "open"]
Closed == [kind |-> "closed", state |-> "closed"]

(***************************************************************************)
(* What the timeline and the channel may say of an incident before its end.*)
(***************************************************************************)
OpenTimelines == {<<>>} \cup {<<v>> : v \in Openings}
OpenAlerts    == {<<>>, <<Opened>>}

Before(v, told, opens) == IF v = "recovered" THEN told \in opens ELSE told = <<>>

(***************************************************************************)
(* A goroutine that has written an incident has yet to tell of it: the     *)
(* incident is as the verdict made it, and the news is not out.            *)
(***************************************************************************)
About(g) ==
  pc[g] \in {"note", "fetch", "post"} =>
    /\ incidents[inc[g]].entity = Entity(g)
    /\ incidents[inc[g]].state = StateOf(verdict[g])
    /\ pc[g] = "note" => Before(verdict[g], updates[inc[g]], OpenTimelines)
    /\ Before(verdict[g], posted[inc[g]], OpenAlerts)
    /\ pc[g] = "post" => shown[g] = StateOf(verdict[g])

Told(i) ==
  /\ incidents[i].state = "open" => updates[i] \in OpenTimelines /\ posted[i] \in OpenAlerts
  /\ \E v \in Openings : InOrder(updates[i], v, "recovered")
  /\ InOrder(posted[i], Opened, Closed)

ToldInOrder == (\A g \in Goroutines : About(g)) /\ (\A i \in DOMAIN incidents : Told(i))

LEMMA ToldInit == Init => ToldInOrder
BY DEF Init, ToldInOrder, About

-----------------------------------------------------------------------------
(***************************************************************************)
(* What a step does to the row of an incident and to what was told of it   *)
(***************************************************************************)

SameRow(i) ==
  i \in DOMAIN incidents' /\ incidents'[i] = incidents[i]
    /\ updates'[i] = updates[i] /\ posted'[i] = posted[i]

LEMMA RowsKept ==
  ASSUME TypeOK, NEW g \in Goroutines, GoroutineStep(g), NEW i \in DOMAIN incidents,
         i # inc[g] \/ pc[g] \notin {"close", "note", "post"}
  PROVE  SameRow(i)
<1>1. /\ incidents \in Seq(Incident) /\ i \in 1..Len(incidents)
      /\ updates \in Seq(Seq(Verdicts)) /\ Len(updates) = Len(incidents)
      /\ posted \in Seq(Seq(Alert)) /\ Len(posted) = Len(incidents)
  BY DEF TypeOK, TablesOK
<1>2. CASE OpenIncident(g)
  BY <1>1, <1>2 DEF OpenIncident, SameRow
<1>3. CASE CloseIncident(g)
  BY <1>1, <1>3 DEF CloseIncident, outside, SameRow
<1>4. CASE AddIncidentUpdate(g)
  BY <1>1, <1>4 DEF AddIncidentUpdate, outside, SameRow
<1>5. CASE PostIncident(g)
  BY <1>1, <1>5 DEF PostIncident, tables, SameRow
<1>6. CASE ~OpenIncident(g) /\ ~CloseIncident(g) /\ ~AddIncidentUpdate(g) /\ ~PostIncident(g)
  BY <1>6 DEF GoroutineStep, SelectRow, Probe, InsertCheck, RecordCheck, RecentChecks,
              HasOpenIncident, GetIncident, tables, outside, SameRow
<1> QED
  BY <1>2, <1>3, <1>4, <1>5, <1>6

LEMMA OpenedRow ==
  ASSUME TypeOK, NEW g \in Goroutines, OpenIncident(g)
  PROVE  \/ /\ UNCHANGED <<incidents, updates, posted>> /\ pc'[g] = "idle"
         \/ /\ DOMAIN incidents' = DOMAIN incidents \cup {Len(incidents) + 1}
            /\ inc'[g] = Len(incidents) + 1 /\ verdict'[g] = verdict[g]
            /\ pc'[g] = "note" /\ verdict[g] \in Openings
            /\ incidents' = Append(incidents, incidents'[inc'[g]])
            /\ updates' = Append(updates, <<>>) /\ posted' = Append(posted, <<>>)
            /\ incidents'[inc'[g]].entity = Entity(g)
            /\ incidents'[inc'[g]].state = "open"
            /\ incidents'[inc'[g]].severity \in Severities
            /\ updates'[inc'[g]] = <<>> /\ posted'[inc'[g]] = <<>>
<1>1. /\ incidents \in Seq(Incident)
      /\ updates \in Seq(Seq(Verdicts)) /\ Len(updates) = Len(incidents)
      /\ posted \in Seq(Seq(Alert)) /\ Len(posted) = Len(incidents)
      /\ pc \in [Goroutines -> Labels] /\ inc \in [Goroutines -> Nat]
      /\ verdict[g] \in Openings
  BY DEF OpenIncident, TypeOK, TablesOK, LocalsOK, WorkOK
<1>2. CASE Finish(g) /\ UNCHANGED <<incidents, updates, posted>>
  BY <1>1, <1>2 DEF Finish, Goto
<1>3. CASE ~(Finish(g) /\ UNCHANGED <<incidents, updates, posted>>)
  <2> DEFINE row == [entity |-> Entity(g), state |-> "open",
                     severity |-> SeverityOf(verdict[g]), summary |-> verdict[g]]
  <2>1. /\ incidents' = Append(incidents, row)
        /\ updates' = Append(updates, <<>>) /\ posted' = Append(posted, <<>>)
        /\ inc'[g] = Len(incidents) + 1 /\ pc'[g] = "note" /\ UNCHANGED verdict
    BY <1>1, <1>3 DEF OpenIncident, Goto
  <2>2. row.entity = Entity(g) /\ row.state = "open" /\ row.severity \in Severities
    BY SeverityType
  <2> HIDE DEF row
  <2> QED
    BY <1>1, <2>1, <2>2
<1> QED
  BY <1>2, <1>3

LEMMA ClosedRow ==
  ASSUME TypeOK, NEW g \in Goroutines, CloseIncident(g), Current(g)
  PROVE  /\ inc[g] \in DOMAIN incidents /\ incidents[inc[g]].entity = Entity(g)
         /\ incidents[inc[g]].state = "open" /\ verdict[g] = "recovered"
         /\ UNCHANGED <<updates, posted>> /\ DOMAIN incidents' = DOMAIN incidents
         /\ \/ UNCHANGED incidents /\ pc'[g] = "idle"
            \/ /\ pc'[g] = "note" /\ inc'[g] = inc[g] /\ verdict'[g] = "recovered"
               /\ incidents'[inc[g]].entity = Entity(g)
               /\ incidents'[inc[g]].state = "closed"
               /\ incidents'[inc[g]].severity = incidents[inc[g]].severity
<1>1. /\ incidents \in Seq(Incident) /\ pc \in [Goroutines -> Labels]
      /\ inc[g] \in DOMAIN incidents /\ verdict[g] = "recovered"
      /\ incidents[inc[g]].entity = Entity(g) /\ incidents[inc[g]].state = "open"
  BY DEF CloseIncident, Current, OpenIncidents, TypeOK, TablesOK, LocalsOK, WorkOK
<1>2. incidents[inc[g]] \in Incident
  BY <1>1, ElementType
<1>3. UNCHANGED <<updates, posted>>
  BY DEF CloseIncident, outside
<1>4. CASE Finish(g) /\ UNCHANGED incidents
  BY <1>1, <1>3, <1>4 DEF Finish, Goto
<1>5. CASE ~(Finish(g) /\ UNCHANGED incidents)
  <2>1. /\ incidents' = [incidents EXCEPT ![inc[g]].state = "closed",
                                          ![inc[g]].summary = verdict[g]]
        /\ pc'[g] = "note" /\ UNCHANGED <<verdict, inc>>
    BY <1>1, <1>5 DEF CloseIncident, Goto
  <2>2. incidents'[inc[g]] = [[incidents[inc[g]] EXCEPT !.state = "closed"]
                                EXCEPT !.summary = verdict[g]]
    BY <1>1, <2>1
  <2>3. /\ incidents'[inc[g]].entity = incidents[inc[g]].entity
        /\ incidents'[inc[g]].state = "closed"
        /\ incidents'[inc[g]].severity = incidents[inc[g]].severity
    BY <1>2, <2>2 DEF Incident
  <2> QED
    BY <1>1, <1>3, <2>1, <2>3
<1> QED
  BY <1>4, <1>5

LEMMA NotedRow ==
  ASSUME TypeOK, NEW g \in Goroutines, AddIncidentUpdate(g)
  PROVE  /\ inc[g] \in DOMAIN incidents /\ verdict[g] \in Verdicts /\ pc[g] = "note"
         /\ UNCHANGED <<incidents, posted>>
         /\ \/ UNCHANGED updates
            \/ /\ updates' = [updates EXCEPT ![inc[g]] = Append(updates[inc[g]], verdict[g])]
               /\ updates'[inc[g]] = Append(updates[inc[g]], verdict[g])
         /\ \/ pc'[g] = "idle"
            \/ pc'[g] = "fetch" /\ inc'[g] = inc[g] /\ verdict'[g] = verdict[g]
<1>1. /\ updates \in Seq(Seq(Verdicts)) /\ Len(updates) = Len(incidents)
      /\ pc \in [Goroutines -> Labels] /\ inc[g] \in DOMAIN incidents
      /\ inc[g] \in DOMAIN updates /\ verdict[g] \in Verdicts
  BY DEF AddIncidentUpdate, TypeOK, TablesOK, LocalsOK, WorkOK
<1>2. pc'[g] = "idle" \/ (pc'[g] = "fetch" /\ UNCHANGED <<inc, verdict>>)
  BY <1>1 DEF AddIncidentUpdate, Finish, Goto
<1> QED
  BY <1>1, <1>2 DEF AddIncidentUpdate, outside

LEMMA PostedRow ==
  ASSUME TypeOK, NEW g \in Goroutines, PostIncident(g)
  PROVE  /\ inc[g] \in DOMAIN incidents /\ verdict[g] \in Verdicts /\ pc[g] = "post"
         /\ UNCHANGED <<incidents, updates>> /\ pc'[g] = "idle"
         /\ \/ UNCHANGED posted
            \/ /\ posted' = [posted EXCEPT ![inc[g]] = Append(posted[inc[g]],
                               [kind |-> AlertKind(verdict[g]), state |-> shown[g]])]
               /\ posted'[inc[g]] = Append(posted[inc[g]],
                               [kind |-> AlertKind(verdict[g]), state |-> shown[g]])
<1>1. /\ posted \in Seq(Seq(Alert)) /\ Len(posted) = Len(incidents)
      /\ pc \in [Goroutines -> Labels] /\ inc[g] \in DOMAIN incidents
      /\ inc[g] \in DOMAIN posted /\ verdict[g] \in Verdicts
  BY DEF PostIncident, TypeOK, TablesOK, LocalsOK, WorkOK
<1>2. pc'[g] = "idle"
  BY <1>1 DEF PostIncident, Finish, Goto
<1> QED
  BY <1>1, <1>2 DEF PostIncident, tables

-----------------------------------------------------------------------------
(***************************************************************************)
(* What is said, as values                                                 *)
(***************************************************************************)

LEMMA Saying ==
  ASSUME NEW S, NEW x \in S, NEW y \in S
  PROVE  Append(<<>>, y) = <<y>> /\ Append(<<x>>, y) = <<x, y>>
<1>1. Append(<<>>, y) = <<>> \o <<y>>
  OBVIOUS
<1>2. Append(<<x>>, y) = <<x, y>>
  <2> DEFINE s == <<x>>
             t == Append(s, y)
  <2>1. s \in Seq(S) /\ Len(s) = 1 /\ s[1] = x
    OBVIOUS
  <2> HIDE DEF s
  <2>2. t \in Seq(S) /\ Len(t) = Len(s) + 1 /\ t[Len(s) + 1] = y
          /\ \A i \in 1..Len(s) : t[i] = s[i]
    BY <2>1, AppendProperties
  <2> HIDE DEF t
  <2>3. \A u \in Seq(S) : Len(u) = 2 /\ u[1] = x /\ u[2] = y => u = <<x, y>>
    OBVIOUS
  <2>4. t = <<x, y>>
    BY <2>1, <2>2, <2>3
  <2> QED
    BY <2>4 DEF t, s
<1> QED
  BY <1>1, <1>2

LEMMA TimelineAfter ==
  ASSUME NEW told, NEW v \in Verdicts, Before(v, told, OpenTimelines)
  PROVE  /\ v # "recovered" => Append(told, v) \in OpenTimelines
         /\ \E w \in Openings : InOrder(Append(told, v), w, "recovered")
<1>1. CASE v = "recovered"
  <2>1. CASE told = <<>>
    BY <1>1, <2>1 DEF InOrder, Openings
  <2>2. ASSUME NEW w \in Openings, told = <<w>>
        PROVE  \E u \in Openings : InOrder(Append(told, v), u, "recovered")
    <3>1. Append(told, v) = <<w, "recovered">>
      BY <1>1, <2>2, Saying DEF Verdicts
    <3> QED
      BY <2>2, <3>1 DEF InOrder
  <2> QED
    BY <1>1, <2>1, <2>2 DEF Before, OpenTimelines
<1>2. CASE v # "recovered"
  BY <1>2 DEF Before, OpenTimelines, InOrder, Verdicts
<1> QED
  BY <1>1, <1>2

LEMMA AlertsAfter ==
  ASSUME NEW told, NEW v \in Verdicts, Before(v, told, OpenAlerts)
  PROVE  LET a == [kind |-> AlertKind(v), state |-> StateOf(v)]
         IN  /\ v # "recovered" => Append(told, a) \in OpenAlerts
             /\ InOrder(Append(told, a), Opened, Closed)
<1>1. CASE v = "recovered"
  <2>1. [kind |-> AlertKind(v), state |-> StateOf(v)] = Closed
    BY <1>1 DEF AlertKind, StateOf, Closed
  <2>2. told = <<>> \/ told = <<Opened>>
    BY <1>1 DEF Before, OpenAlerts
  <2>3. Append(<<>>, Closed) = <<Closed>> /\ Append(<<Opened>>, Closed) = <<Opened, Closed>>
    BY Saying, Opened \in {Opened, Closed}, Closed \in {Opened, Closed}
  <2> QED
    BY <1>1, <2>1, <2>2, <2>3 DEF InOrder
<1>2. CASE v # "recovered"
  <2>1. [kind |-> AlertKind(v), state |-> StateOf(v)] = Opened /\ told = <<>>
    BY <1>2 DEF AlertKind, StateOf, Opened, Before
  <2>2. Append(<<>>, Opened) = <<Opened>>
    OBVIOUS
  <2> QED
    BY <2>1, <2>2 DEF InOrder, OpenAlerts
<1> QED
  BY <1>1, <1>2

-----------------------------------------------------------------------------
(***************************************************************************)
(* The invariant is kept                                                   *)
(***************************************************************************)

(* Nobody else works on the incident a goroutine works on. *)
LEMMA AboutOthers ==
  ASSUME TypeOK, UniqueNames, ReadsAreCurrent, ToldInOrder,
         NEW g \in Goroutines, GoroutineStep(g), NEW h \in Goroutines, h # g
  PROVE  About(h)'
<1> SUFFICES ASSUME pc[h] \in {"note", "fetch", "post"} PROVE About(h)'
  BY Untouched DEF About
<1>1. inc[h] \in DOMAIN incidents /\ About(h)
  BY DEF TypeOK, WorkOK, ToldInOrder
<1>2. Entity(h) # Entity(g)
  BY AtWork, SoleWorker DEF ReadsAreCurrent
<1>3. pc[g] \in {"close", "note", "post"} => incidents[inc[g]].entity = Entity(g)
  BY DEF ToldInOrder, About, ReadsAreCurrent, Current, OpenIncidents
<1>4. SameRow(inc[h])
  BY <1>1, <1>2, <1>3, RowsKept DEF About
<1> QED
  BY <1>1, <1>4, Untouched DEF About, SameRow, Entity

LEMMA AboutSelf ==
  ASSUME TypeOK, ReadsAreCurrent, ToldInOrder, NEW g \in Goroutines, GoroutineStep(g)
  PROVE  About(g)'
<1> USE DEF Entity
<1>1. About(g) /\ Current(g)
  BY DEF ToldInOrder, ReadsAreCurrent
<1>2. CASE OpenIncident(g)
  <2>1. \A v \in Openings : v # "recovered"
    BY DEF Openings
  <2> QED
    BY <1>2, <2>1, OpenedRow DEF About, Before, StateOf
<1>3. CASE CloseIncident(g)
  <2>1. inc[g] \in DOMAIN incidents /\ incidents[inc[g]].state = "open" /\ Told(inc[g])
    BY <1>1, <1>3, ClosedRow DEF ToldInOrder
  <2> QED
    BY <1>1, <1>3, <2>1, ClosedRow DEF About, Before, StateOf, Told
<1>4. CASE AddIncidentUpdate(g)
  BY <1>1, <1>4, NotedRow DEF About
<1>5. CASE PostIncident(g)
  BY <1>5, PostedRow DEF About
<1>6. CASE GetIncident(g)
  BY <1>1, <1>6 DEF GetIncident, Finish, Goto, tables, outside, About, TypeOK, LocalsOK
<1>7. CASE \/ SelectRow(g) \/ Probe(g) \/ InsertCheck(g) \/ RecordCheck(g)
           \/ RecentChecks(g) \/ HasOpenIncident(g)
  <2>1. pc'[g] \notin {"note", "fetch", "post"}
    BY <1>7 DEF SelectRow, Probe, InsertCheck, RecordCheck, RecentChecks, HasOpenIncident,
                Decide, Finish, Goto, TypeOK, LocalsOK
  <2> QED
    BY <2>1 DEF About
<1> QED
  BY <1>2, <1>3, <1>4, <1>5, <1>6, <1>7 DEF GoroutineStep

LEMMA ToldByGoroutine ==
  ASSUME TypeOK, ReadsAreCurrent, ToldInOrder, NEW g \in Goroutines, GoroutineStep(g),
         NEW i \in DOMAIN incidents'
  PROVE  Told(i)'
<1>1. About(g) /\ Current(g) /\ \A j \in DOMAIN incidents : Told(j)
  BY DEF ToldInOrder, ReadsAreCurrent
<1>2. ASSUME SameRow(i), i \in DOMAIN incidents PROVE Told(i)'
  BY <1>1, <1>2 DEF Told, SameRow
<1>3. CASE OpenIncident(g)
  <2>1. CASE i \in DOMAIN incidents
    BY <1>2, <1>3, <2>1, RowsKept DEF OpenIncident
  <2>2. CASE i \notin DOMAIN incidents
    <3>1. i = inc'[g] /\ updates'[i] = <<>> /\ posted'[i] = <<>>
      BY <1>3, <2>2, OpenedRow
    <3>2. \E v \in Openings : InOrder(<<>>, v, "recovered")
      BY DEF Openings, InOrder
    <3> QED
      BY <3>1, <3>2 DEF Told, OpenTimelines, OpenAlerts, InOrder
  <2> QED
    BY <2>1, <2>2
<1>4. CASE CloseIncident(g)
  <2>1. i \in DOMAIN incidents /\ UNCHANGED <<updates, posted>>
    BY <1>1, <1>4, ClosedRow
  <2>2. CASE i # inc[g]
    BY <1>2, <2>1, <2>2, RowsKept
  <2>3. CASE i = inc[g]
    BY <1>1, <1>4, <2>1, <2>3, ClosedRow DEF Told
  <2> QED
    BY <2>2, <2>3
<1>5. CASE AddIncidentUpdate(g)
  <2>1. i \in DOMAIN incidents /\ UNCHANGED <<incidents, posted>>
    BY <1>5, NotedRow
  <2>2. CASE i # inc[g] \/ UNCHANGED updates
    BY <1>2, <2>1, <2>2, RowsKept DEF SameRow
  <2>3. CASE i = inc[g] /\ ~UNCHANGED updates
    <3>1. /\ updates'[i] = Append(updates[i], verdict[g]) /\ verdict[g] \in Verdicts
          /\ incidents[i].state = StateOf(verdict[g])
          /\ Before(verdict[g], updates[i], OpenTimelines)
      BY <1>1, <1>5, <2>3, NotedRow DEF About
    <3>2. /\ incidents[i].state = "open" => updates'[i] \in OpenTimelines
          /\ \E w \in Openings : InOrder(updates'[i], w, "recovered")
      BY <3>1, TimelineAfter DEF StateOf
    <3> QED
      BY <1>1, <2>1, <3>2 DEF Told
  <2> QED
    BY <2>2, <2>3
<1>6. CASE PostIncident(g)
  <2>1. i \in DOMAIN incidents /\ UNCHANGED <<incidents, updates>>
    BY <1>6, PostedRow
  <2>2. CASE i # inc[g] \/ UNCHANGED posted
    BY <1>2, <2>1, <2>2, RowsKept DEF SameRow
  <2>3. CASE i = inc[g] /\ ~UNCHANGED posted
    <3>1. /\ posted'[i] = Append(posted[i],
                             [kind |-> AlertKind(verdict[g]), state |-> StateOf(verdict[g])])
          /\ verdict[g] \in Verdicts
          /\ incidents[i].state = StateOf(verdict[g])
          /\ Before(verdict[g], posted[i], OpenAlerts)
      BY <1>1, <1>6, <2>3, PostedRow DEF About
    <3>2. /\ incidents[i].state = "open" => posted'[i] \in OpenAlerts
          /\ InOrder(posted'[i], Opened, Closed)
      BY <3>1, AlertsAfter DEF StateOf
    <3> QED
      BY <1>1, <2>1, <3>2 DEF Told
  <2> QED
    BY <2>2, <2>3
<1>7. CASE ~OpenIncident(g) /\ ~CloseIncident(g) /\ ~AddIncidentUpdate(g) /\ ~PostIncident(g)
  <2>1. UNCHANGED <<incidents, updates, posted>>
    BY <1>7 DEF GoroutineStep, SelectRow, Probe, InsertCheck, RecordCheck, RecentChecks,
                HasOpenIncident, GetIncident, tables, outside
  <2> QED
    BY <1>2, <2>1 DEF SameRow
<1> QED
  BY <1>3, <1>4, <1>5, <1>6, <1>7

LEMMA ToldStep ==
  ASSUME TypeOK, UniqueNames, ReadsAreCurrent, ToldInOrder, [Next]_vars
  PROVE  ToldInOrder'
<1>1. ASSUME NEW g \in Goroutines, GoroutineStep(g) PROVE ToldInOrder'
  <2>1. \A h \in Goroutines : About(h)'
    BY <1>1, AboutOthers, AboutSelf
  <2> QED
    BY <1>1, <2>1, ToldByGoroutine DEF ToldInOrder
<1> USE DEF ToldInOrder, About, Told
<1>2. CASE StartRound
  BY <1>2 DEF StartRound, RoundOver, tables, outside
<1>3. CASE RunReturns \/ Signal \/ Boot \/ UNCHANGED vars
  BY <1>3 DEF RunReturns, Signal, Boot, vars, tables, outside, goroutines
<1>4. CASE Exit \/ Crash
  BY <1>4 DEF Exit, Crash, ProcessEnds, LoseGoroutines, tables
<1> QED
  BY <1>1, <1>2, <1>3, <1>4 DEF Next

(***************************************************************************)
(* AddIncidentUpdate: the timeline of an incident never says its end       *)
(* before its opening, nor either of them twice.                           *)
(***************************************************************************)
THEOREM TimelineKeepsOrder ==
  ASSUME UniqueNames PROVE Spec => []TimelineInOrder
<1>1. ToldInOrder => TimelineInOrder
  BY DEF ToldInOrder, Told, TimelineInOrder
<1>2. TypeOK /\ ReadsAreCurrent /\ ToldInOrder /\ [Next]_vars => ToldInOrder'
  BY ToldStep
<1> QED
  BY <1>1, <1>2, ToldInit, TypeCorrect, ReadsStayCurrent, PTL DEF Spec

(***************************************************************************)
(* PostIncidentOpen and PostIncidentClosed: the channel hears of each at   *)
(* most once, in order, and sees the incident in the state it is told of.  *)
(***************************************************************************)
THEOREM AlertsKeepOrder ==
  ASSUME UniqueNames PROVE Spec => []AlertsInOrder
<1>1. ToldInOrder => AlertsInOrder
  BY DEF ToldInOrder, Told, AlertsInOrder, Opened, Closed
<1>2. TypeOK /\ ReadsAreCurrent /\ ToldInOrder /\ [Next]_vars => ToldInOrder'
  BY ToldStep
<1> QED
  BY <1>1, <1>2, ToldInit, TypeCorrect, ReadsStayCurrent, PTL DEF Spec

-----------------------------------------------------------------------------
(***************************************************************************)
(* Nothing is left untold.  As long as nothing failed and nobody stopped   *)
(* the process, every incident is in the channel as the table has it, or a *)
(* goroutine is on its way to say so.                                      *)
(***************************************************************************)
Undisturbed == faults = 0 /\ stops = 0

Telling(g, i) == pc[g] \in {"note", "fetch", "post"} /\ inc[g] = i
Heard(i) == posted[i] # <<>> /\ posted[i][Len(posted[i])].state = incidents[i].state

HeardOrTold ==
  Undisturbed =>
    /\ mode = "up"
    /\ DiscordEnabled /\ AlertChannelSet =>
         \A i \in DOMAIN incidents : Heard(i) \/ \E g \in Goroutines : Telling(g, i)

LEMMA DisturbedStays ==
  ASSUME TypeOK, [Next]_vars, Undisturbed' PROVE Undisturbed
<1>1. faults \in Nat /\ stops \in Nat
  BY ConfigAssumption DEF TypeOK, TablesOK
<1>2. faults' \in {faults, faults + 1} /\ stops' \in {stops, stops + 1}
  BY StmtFaults DEF Next, GoroutineStep, StartRound, RunReturns, SelectRow, Probe, WriteRow,
     InsertCheck, RecordCheck, RecentChecks, HasOpenIncident, Decide, OpenIncident, CloseIncident,
     AddIncidentUpdate, GetIncident, PostIncident, StmtFails, Fault,
     Signal, Exit, Crash, Boot, ProcessEnds, vars, process
<1> QED
  BY <1>1, <1>2 DEF Undisturbed

LEMMA HeardInit == Init => HeardOrTold
BY DEF Init, HeardOrTold

(***************************************************************************)
(* A step of a goroutine that fails nowhere: what was still to be told is  *)
(* told, or is still to be told by the same goroutine.                     *)
(***************************************************************************)
LEMMA GoesOnTelling ==
  ASSUME TypeOK, ReadsAreCurrent, ToldInOrder, mode = "up", DiscordEnabled, AlertChannelSet,
         NEW g \in Goroutines, GoroutineStep(g), faults' = faults,
         NEW i \in DOMAIN incidents, Telling(g, i)
  PROVE  i \in DOMAIN incidents' /\ (Heard(i)' \/ Telling(g, i)')
<1>1. /\ pc[g] \in {"note", "fetch", "post"} /\ inc[g] = i /\ About(g)
      /\ faults \in Nat /\ pc \in [Goroutines -> Labels]
      /\ posted \in Seq(Seq(Alert)) /\ Len(posted) = Len(incidents)
  BY ConfigAssumption DEF Telling, ToldInOrder, TypeOK, TablesOK, LocalsOK
<1>2. ~StmtFails
  BY <1>1 DEF StmtFails, CtxDone, Fault
<1>3. CASE AddIncidentUpdate(g)
  BY <1>1, <1>3 DEF AddIncidentUpdate, HasCallback, Goto, Telling
<1>4. CASE GetIncident(g)
  BY <1>1, <1>2, <1>4 DEF GetIncident, Goto, tables, Telling
<1>5. CASE PostIncident(g)
  <2> DEFINE a == [kind |-> AlertKind(verdict[g]), state |-> shown[g]]
  <2>1. posted' = [posted EXCEPT ![i] = Append(@, a)] /\ UNCHANGED incidents
    BY <1>1, <1>5 DEF PostIncident, Fault, tables
  <2>2. /\ posted[i] \in Seq(Alert) /\ shown[g] = incidents[i].state
        /\ shown[g] \in {"open", "closed"}
    BY <1>1, <1>5 DEF About, PostIncident, TypeOK, WorkOK
  <2>3. a \in Alert /\ a.state = incidents[i].state
    BY <2>2, AlertType
  <2> HIDE DEF a
  <2>4. posted'[i] = Append(posted[i], a)
    BY <1>1, <2>1
  <2>5. posted'[i] # <<>> /\ posted'[i][Len(posted'[i])] = a
    BY <2>2, <2>3, <2>4
  <2> QED
    BY <2>1, <2>3, <2>5 DEF Heard
<1>6. CASE ~AddIncidentUpdate(g) /\ ~GetIncident(g) /\ ~PostIncident(g)
  BY <1>1, <1>6 DEF GoroutineStep, SelectRow, Probe, WriteRow, InsertCheck, RecordCheck, RecentChecks,
                    HasOpenIncident, OpenIncident, CloseIncident
<1> QED
  BY <1>3, <1>4, <1>5, <1>6

LEMMA HeardByGoroutine ==
  ASSUME TypeOK, TypeOK', ReadsAreCurrent, ToldInOrder, HeardOrTold, Undisturbed, Undisturbed',
         DiscordEnabled, AlertChannelSet,
         NEW g \in Goroutines, GoroutineStep(g), NEW i \in DOMAIN incidents'
  PROVE  Heard(i)' \/ \E h \in Goroutines : Telling(h, i)'
<1>1. /\ mode = "up" /\ faults' = faults /\ faults = 0
      /\ \A j \in DOMAIN incidents : Heard(j) \/ \E h \in Goroutines : Telling(h, j)
  BY DEF HeardOrTold, Undisturbed
<1>2. CASE i \notin DOMAIN incidents
  <2>1. CASE OpenIncident(g)
    BY <1>2, <2>1, OpenedRow DEF Telling
  <2>2. CASE CloseIncident(g)
    BY <1>2, <2>2, ClosedRow DEF ReadsAreCurrent
  <2>3. OpenIncident(g) \/ CloseIncident(g) \/ UNCHANGED incidents
    BY DEF GoroutineStep, SelectRow, Probe, InsertCheck, RecordCheck, RecentChecks,
           HasOpenIncident, AddIncidentUpdate, GetIncident, PostIncident, tables
  <2> QED
    BY <1>2, <2>1, <2>2, <2>3
<1>3. CASE i \in DOMAIN incidents /\ Telling(g, i)
  BY <1>1, <1>3, GoesOnTelling
<1>4. CASE i \in DOMAIN incidents /\ pc[g] = "close" /\ i = inc[g]
  <2>1. ~StmtFails
    BY <1>1 DEF StmtFails, CtxDone, Fault
  <2>2. CloseIncident(g)
    BY <1>4 DEF GoroutineStep, SelectRow, Probe, WriteRow, InsertCheck, RecordCheck,
                RecentChecks, HasOpenIncident, OpenIncident, AddIncidentUpdate, GetIncident,
                PostIncident
  <2>3. pc'[g] = "note" /\ inc'[g] = i
    BY <1>4, <2>1, <2>2 DEF CloseIncident, Goto, TypeOK, LocalsOK
  <2> QED
    BY <2>3 DEF Telling
<1>5. CASE i \in DOMAIN incidents /\ ~Telling(g, i) /\ ~(pc[g] = "close" /\ i = inc[g])
  <2>1. SameRow(i)
    BY <1>5, RowsKept DEF Telling
  <2>2. Heard(i) => Heard(i)'
    BY <2>1 DEF Heard, SameRow
  <2>3. \A h \in Goroutines : Telling(h, i) => Telling(h, i)'
    BY <1>5, Untouched DEF Telling
  <2> QED
    BY <1>1, <1>5, <2>2, <2>3
<1> QED
  BY <1>2, <1>3, <1>4, <1>5

LEMMA HeardStep ==
  ASSUME TypeOK, TypeOK', ReadsAreCurrent, ToldInOrder, HeardOrTold, [Next]_vars
  PROVE  HeardOrTold'
<1> SUFFICES ASSUME Undisturbed' PROVE HeardOrTold'
  BY DEF HeardOrTold
<1>1. /\ Undisturbed /\ mode = "up"
      /\ DiscordEnabled /\ AlertChannelSet =>
           \A i \in DOMAIN incidents : Heard(i) \/ \E g \in Goroutines : Telling(g, i)
  BY DisturbedStays DEF HeardOrTold
<1>2. ASSUME NEW g \in Goroutines, GoroutineStep(g) PROVE HeardOrTold'
  BY <1>1, <1>2, HeardByGoroutine, SameProcess DEF HeardOrTold
<1>3. CASE StartRound
  <2>1. \A i \in DOMAIN incidents, g \in Goroutines : ~Telling(g, i)
    BY <1>3 DEF StartRound, RoundOver, Telling
  <2> QED
    BY <1>1, <1>3, <2>1 DEF StartRound, tables, outside, process, HeardOrTold, Heard
<1>4. CASE UNCHANGED vars
  BY <1>1, <1>4 DEF vars, tables, outside, process, goroutines, HeardOrTold, Heard, Telling
<1>5. ~RunReturns /\ ~Signal /\ ~Exit /\ ~Crash /\ ~Boot
  BY <1>1 DEF RunReturns, Signal, Exit, Crash, Boot, Undisturbed
<1> QED
  BY <1>2, <1>3, <1>4, <1>5 DEF Next

(***************************************************************************)
(* alertOpen and alertClosed: as long as no statement and no message       *)
(* failed and the process was not stopped, the channel knows between two   *)
(* rounds every incident, and in its present state.                        *)
(***************************************************************************)
THEOREM AlertsAreComplete ==
  ASSUME UniqueNames PROVE Spec => []AlertsComplete
<1>1. HeardOrTold => AlertsComplete
  BY DEF HeardOrTold, Undisturbed, Heard, Telling, AlertsComplete, Quiet
<1>2. TypeOK /\ TypeOK' /\ ReadsAreCurrent /\ ToldInOrder /\ HeardOrTold /\ [Next]_vars
        => HeardOrTold'
  BY HeardStep
<1>3. TypeOK /\ ReadsAreCurrent /\ ToldInOrder /\ [Next]_vars => ToldInOrder'
  BY ToldStep
<1> QED
  BY <1>1, <1>2, <1>3, HeardInit, ToldInit, TypeCorrect, ReadsStayCurrent, PTL DEF Spec

-----------------------------------------------------------------------------
(***************************************************************************)
(* The refinement: the variables of IncidentLog as Monitor has them        *)
(***************************************************************************)

States     == {"open", "closed"}
LogEntries == [entity : Entities, severity : Severities, state : States]

StatesNoted(told) == [k \in DOMAIN told |-> StateOf(told[k])]
StatesHeard(told) == [k \in DOMAIN told |-> told[k].state]

log   == [i \in DOMAIN incidents |-> LogEntry(incidents[i])]
noted == [i \in DOMAIN updates |-> StatesNoted(updates[i])]
heard == [i \in DOMAIN posted |-> StatesHeard(posted[i])]

LEMMA EntryType ==
  ASSUME NEW row \in Incident
  PROVE  /\ LogEntry(row) \in LogEntries /\ LogEntry(row).entity = row.entity
         /\ LogEntry(row).severity = row.severity /\ LogEntry(row).state = row.state
BY DEF LogEntry, LogEntries, Incident, States

LEMMA MapType ==
  ASSUME NEW T, NEW n \in Nat, NEW f \in [1..n -> T]
  PROVE  f \in Seq(T) /\ Len(f) = n
OBVIOUS

LEMMA SaidTypes ==
  /\ \A told \in Seq(Verdicts) : StatesNoted(told) \in Seq(States)
  /\ \A told \in Seq(Alert) : StatesHeard(told) \in Seq(States)
<1>1. ASSUME NEW told \in Seq(Verdicts) PROVE StatesNoted(told) \in Seq(States)
  <2>1. StatesNoted(told) \in [1..Len(told) -> States] /\ Len(told) \in Nat
    BY DEF StatesNoted, StateOf, States
  <2> QED
    BY <2>1, MapType
<1>2. ASSUME NEW told \in Seq(Alert) PROVE StatesHeard(told) \in Seq(States)
  <2>1. ASSUME NEW k \in DOMAIN told PROVE told[k].state \in States
    <3>1. told[k] \in Alert
      BY ElementType
    <3> QED
      BY <3>1 DEF Alert, States
  <2>2. StatesHeard(told) \in [1..Len(told) -> States] /\ Len(told) \in Nat
    BY <2>1 DEF StatesHeard
  <2> QED
    BY <2>2, MapType
<1> QED
  BY <1>1, <1>2

MappedOK ==
  /\ log \in Seq(LogEntries) /\ noted \in Seq(Seq(States)) /\ heard \in Seq(Seq(States))
  /\ DOMAIN log = DOMAIN incidents /\ Len(log) = Len(incidents)
  /\ DOMAIN noted = DOMAIN incidents /\ Len(noted) = Len(incidents)
  /\ DOMAIN heard = DOMAIN incidents /\ Len(heard) = Len(incidents)

LEMMA MappedTypes == TypeOK => MappedOK
<1> SUFFICES ASSUME TypeOK PROVE MappedOK
  OBVIOUS
<1> DEFINE n == Len(incidents)
<1>1. /\ incidents \in Seq(Incident) /\ n \in Nat /\ DOMAIN incidents = 1..n
      /\ updates \in Seq(Seq(Verdicts)) /\ DOMAIN updates = 1..n
      /\ posted \in Seq(Seq(Alert)) /\ DOMAIN posted = 1..n
  BY DEF TypeOK, TablesOK
<1> HIDE DEF n
<1>2. log \in [1..n -> LogEntries]
  <2>1. \A i \in 1..n : LogEntry(incidents[i]) \in LogEntries
    BY <1>1, EntryType
  <2> QED
    BY <1>1, <2>1 DEF log
<1>3. noted \in [1..n -> Seq(States)]
  <2>1. \A i \in 1..n : StatesNoted(updates[i]) \in Seq(States)
    BY <1>1, SaidTypes
  <2> QED
    BY <1>1, <2>1 DEF noted
<1>4. heard \in [1..n -> Seq(States)]
  <2>1. \A i \in 1..n : StatesHeard(posted[i]) \in Seq(States)
    BY <1>1, SaidTypes
  <2> QED
    BY <1>1, <2>1 DEF heard
<1> QED
  BY <1>1, <1>2, <1>3, <1>4, MapType DEF n, MappedOK

(* A sequence that is longer by one and otherwise the same. *)
LEMMA LongerByOne ==
  ASSUME NEW T, NEW f \in Seq(T), NEW h \in Seq(T), Len(h) = Len(f) + 1,
         \A i \in 1..Len(f) : h[i] = f[i]
  PROVE  h = Append(f, h[Len(f) + 1])
<1> DEFINE t == Append(f, h[Len(f) + 1])
<1>1. h[Len(f) + 1] \in T
  OBVIOUS
<1>2. /\ t \in Seq(T) /\ Len(t) = Len(f) + 1 /\ t[Len(f) + 1] = h[Len(f) + 1]
      /\ \A i \in 1..Len(f) : t[i] = f[i]
  BY <1>1, AppendProperties
<1> HIDE DEF t
<1>3. \A i \in 1..Len(h) : h[i] = t[i]
  BY <1>2
<1>4. h = t
  BY <1>2, <1>3
<1> QED
  BY <1>4 DEF t

(***************************************************************************)
(* One lemma per action that writes; each says what IncidentLog's action   *)
(* says, in the names above.                                               *)
(***************************************************************************)
LEMMA OpenMaps ==
  ASSUME TypeOK, TypeOK', ReadsAreCurrent, NEW g \in Goroutines, OpenIncident(g),
         ~UNCHANGED <<incidents, updates, posted>>
  PROVE  \E s \in Severities :
           /\ \A i \in DOMAIN log : log[i].entity = Entity(g) => log[i].state = "closed"
           /\ log' = Append(log, [entity |-> Entity(g), severity |-> s, state |-> "open"])
           /\ noted' = Append(noted, <<>>)
           /\ heard' = Append(heard, <<>>)
<1> DEFINE n == Len(incidents)
           row == incidents'[n + 1]
<1>0. MappedOK /\ MappedOK'
  BY MappedTypes, PTL
<1>1. /\ incidents \in Seq(Incident) /\ updates \in Seq(Seq(Verdicts)) /\ posted \in Seq(Seq(Alert))
      /\ n \in Nat /\ Len(updates) = n /\ Len(posted) = n
  BY DEF TypeOK, TablesOK
<1>2. /\ incidents' = Append(incidents, row)
      /\ updates' = Append(updates, <<>>) /\ posted' = Append(posted, <<>>)
      /\ row.entity = Entity(g) /\ row.state = "open" /\ row.severity \in Severities
      /\ row \in Incident
  <2>1. incidents' = Append(incidents, row)
          /\ row.entity = Entity(g) /\ row.state = "open" /\ row.severity \in Severities
          /\ updates' = Append(updates, <<>>) /\ posted' = Append(posted, <<>>)
    BY OpenedRow
  <2>2. incidents' \in Seq(Incident) /\ n + 1 \in DOMAIN incidents'
    BY <1>1, <2>1 DEF TypeOK, TablesOK
  <2> QED
    BY <2>1, <2>2, ElementType
<1> HIDE DEF row
<1>3. Len(incidents') = n + 1
  BY <1>1, <1>2, AppendProperties
<1>4. ASSUME NEW i \in DOMAIN log, log[i].entity = Entity(g) PROVE log[i].state = "closed"
  <2>1. i \in DOMAIN incidents /\ incidents[i] \in Incident /\ log[i] = LogEntry(incidents[i])
    BY <1>0, <1>1 DEF MappedOK, log
  <2>2. incidents[i].entity = Entity(g) /\ incidents[i].state \in States
    BY <1>4, <2>1, EntryType DEF Incident, States
  <2>3. OpenIncidents(Entity(g)) = {}
    BY DEF OpenIncident, ReadsAreCurrent, Current
  <2> QED
    BY <2>1, <2>2, <2>3, EntryType DEF OpenIncidents, States
<1>5. log' = Append(log, log'[n + 1])
  <2>1. log' \in Seq(LogEntries) /\ Len(log') = n + 1
    BY <1>0, <1>3 DEF MappedOK
  <2>2. \A i \in 1..n : log'[i] = log[i]
    BY <1>1, <1>2 DEF log
  <2> QED
    BY <1>1, <2>1, <2>2, LongerByOne, <1>0 DEF MappedOK
<1>6. log'[n + 1] = [entity |-> Entity(g), severity |-> row.severity, state |-> "open"]
  BY <1>1, <1>2 DEF log, LogEntry
<1>7. noted' = Append(noted, <<>>)
  <2>1. noted' \in Seq(Seq(States)) /\ Len(noted') = n + 1
    BY <1>0, <1>3 DEF MappedOK
  <2>2. \A i \in 1..n : noted'[i] = noted[i]
    BY <1>1, <1>2 DEF noted
  <2>3. noted'[n + 1] = <<>>
    BY <1>1, <1>2 DEF noted, StatesNoted
  <2> QED
    BY <1>1, <2>1, <2>2, <2>3, LongerByOne, <1>0 DEF MappedOK
<1>8. heard' = Append(heard, <<>>)
  <2>1. heard' \in Seq(Seq(States)) /\ Len(heard') = n + 1
    BY <1>0, <1>3 DEF MappedOK
  <2>2. \A i \in 1..n : heard'[i] = heard[i]
    BY <1>1, <1>2 DEF heard
  <2>3. heard'[n + 1] = <<>>
    BY <1>1, <1>2 DEF heard, StatesHeard
  <2> QED
    BY <1>1, <2>1, <2>2, <2>3, LongerByOne, <1>0 DEF MappedOK
<1> QED
  BY <1>2, <1>4, <1>5, <1>6, <1>7, <1>8

LEMMA CloseMaps ==
  ASSUME TypeOK, TypeOK', ReadsAreCurrent, NEW g \in Goroutines, CloseIncident(g),
         ~UNCHANGED incidents
  PROVE  \E i \in DOMAIN log :
           /\ log[i].state = "open"
           /\ log' = [log EXCEPT ![i].state = "closed"]
           /\ UNCHANGED <<noted, heard>>
<1> DEFINE i == inc[g]
<1>1. MappedOK /\ MappedOK'
  BY MappedTypes, PTL
<1>2. /\ i \in DOMAIN incidents /\ incidents[i].state = "open"
      /\ incidents'[i].entity = incidents[i].entity /\ incidents'[i].state = "closed"
      /\ incidents'[i].severity = incidents[i].severity
      /\ UNCHANGED <<updates, posted>> /\ DOMAIN incidents' = DOMAIN incidents
  BY ClosedRow DEF ReadsAreCurrent
<1>3. \A j \in DOMAIN incidents : j # i => incidents'[j] = incidents[j]
  BY DEF CloseIncident, TypeOK, TablesOK
<1> HIDE DEF i
<1>4. \A j \in DOMAIN log : j # i => log'[j] = log[j]
  BY <1>1, <1>2, <1>3 DEF MappedOK, log
<1>5. log'[i] = [log[i] EXCEPT !.state = "closed"] /\ log[i].state = "open"
  BY <1>2 DEF log, LogEntry
<1>6. log' = [log EXCEPT ![i].state = "closed"]
  <2>1. \A j \in DOMAIN log : log'[j] = [log EXCEPT ![i] = log'[i]][j]
    BY <1>4
  <2>2. log' = [log EXCEPT ![i] = log'[i]]
    BY <1>1, <1>2, <2>1 DEF MappedOK, log
  <2> QED
    BY <1>5, <2>2
<1>7. UNCHANGED <<noted, heard>>
  BY <1>2 DEF noted, heard
<1> QED
  BY <1>1, <1>2, <1>5, <1>6, <1>7 DEF MappedOK

(* The news in both places: not said before, and said as the row has it. *)
LEMMA SaysNews ==
  ASSUME NEW told \in Seq(States), NEW more \in Seq(States), NEW v \in Verdicts,
         Len(more) = Len(told) + 1, \A k \in 1..Len(told) : more[k] = told[k],
         more[Len(more)] = StateOf(v)
  PROVE  more = Append(told, StateOf(v))
BY LongerByOne

LEMMA NoteMaps ==
  ASSUME TypeOK, TypeOK', ToldInOrder, NEW g \in Goroutines, AddIncidentUpdate(g),
         ~UNCHANGED updates
  PROVE  \E i \in DOMAIN log :
           /\ \A k \in DOMAIN noted[i] : noted[i][k] # log[i].state
           /\ noted' = [noted EXCEPT ![i] = Append(noted[i], log[i].state)]
           /\ UNCHANGED <<log, heard>>
<1> DEFINE i == inc[g]
           v == verdict[g]
<1>0. MappedOK /\ MappedOK'
  BY MappedTypes, PTL
<1>1. MappedOK /\ MappedOK' /\ updates \in Seq(Seq(Verdicts)) /\ DOMAIN updates = DOMAIN incidents
  BY <1>0 DEF TypeOK, TablesOK
<1>2. /\ i \in DOMAIN incidents /\ v \in Verdicts /\ UNCHANGED <<incidents, posted>>
      /\ updates' = [updates EXCEPT ![i] = Append(updates[i], v)]
      /\ updates'[i] = Append(updates[i], v)
      /\ incidents[i].state = StateOf(v) /\ Before(v, updates[i], OpenTimelines)
  BY NotedRow DEF ToldInOrder, About
<1> HIDE DEF i, v
<1>3. log[i].state = StateOf(v)
  BY <1>2 DEF log, LogEntry
<1>4. \A k \in DOMAIN noted[i] : noted[i][k] # log[i].state
  <2>1. noted[i] = StatesNoted(updates[i])
    BY <1>1, <1>2 DEF noted
  <2>2. CASE v = "recovered"
    <3>1. \A k \in DOMAIN updates[i] : updates[i][k] # "recovered"
      BY <1>2, <2>2 DEF Before, OpenTimelines, Openings
    <3> QED
      BY <1>3, <2>1, <2>2, <3>1 DEF StatesNoted, StateOf
  <2>3. CASE v # "recovered"
    BY <1>2, <2>1, <2>3 DEF Before, StatesNoted
  <2> QED
    BY <2>2, <2>3
<1>5. noted'[i] = Append(noted[i], StateOf(v))
  <2>1. noted[i] = StatesNoted(updates[i]) /\ noted'[i] = StatesNoted(Append(updates[i], v))
    BY <1>1, <1>2 DEF noted
  <2>2. updates[i] \in Seq(Verdicts) /\ Append(updates[i], v) \in Seq(Verdicts)
    BY <1>1, <1>2, ElementType
  <2>3. /\ StatesNoted(updates[i]) \in Seq(States)
        /\ StatesNoted(Append(updates[i], v)) \in Seq(States)
    BY <2>2, SaidTypes
  <2>4. /\ Len(Append(updates[i], v)) = Len(updates[i]) + 1
        /\ \A k \in 1..Len(updates[i]) : Append(updates[i], v)[k] = updates[i][k]
        /\ Append(updates[i], v)[Len(updates[i]) + 1] = v
    BY <1>2, <2>2, AppendProperties
  <2>5. /\ Len(StatesNoted(updates[i])) = Len(updates[i])
        /\ Len(StatesNoted(Append(updates[i], v))) = Len(updates[i]) + 1
    BY <2>2, <2>3, <2>4 DEF StatesNoted
  <2>6. /\ \A k \in 1..Len(updates[i]) :
             StatesNoted(Append(updates[i], v))[k] = StatesNoted(updates[i])[k]
        /\ StatesNoted(Append(updates[i], v))[Len(updates[i]) + 1] = StateOf(v)
    BY <2>2, <2>4 DEF StatesNoted
  <2> QED
    BY <1>2, <2>1, <2>3, <2>5, <2>6, SaysNews
<1>6. noted' = [noted EXCEPT ![i] = noted'[i]]
  <2>1. \A j \in DOMAIN incidents : j # i => noted'[j] = noted[j]
    BY <1>1, <1>2 DEF noted
  <2>2. DOMAIN noted' = DOMAIN noted /\ DOMAIN noted = DOMAIN incidents
    BY <1>1, <1>2 DEF MappedOK
  <2> QED
    BY <2>1, <2>2 DEF noted
<1>7. UNCHANGED <<log, heard>>
  BY <1>2 DEF log, heard
<1> QED
  BY <1>1, <1>2, <1>3, <1>4, <1>5, <1>6, <1>7 DEF MappedOK

LEMMA AnnounceMaps ==
  ASSUME TypeOK, TypeOK', ToldInOrder, NEW g \in Goroutines, PostIncident(g),
         ~UNCHANGED posted
  PROVE  \E i \in DOMAIN log :
           /\ \A k \in DOMAIN heard[i] : heard[i][k] # log[i].state
           /\ heard' = [heard EXCEPT ![i] = Append(heard[i], log[i].state)]
           /\ UNCHANGED <<log, noted>>
<1> DEFINE i == inc[g]
           v == verdict[g]
           alert == [kind |-> AlertKind(v), state |-> shown[g]]
<1>0. MappedOK /\ MappedOK'
  BY MappedTypes, PTL
<1>1. MappedOK /\ MappedOK' /\ posted \in Seq(Seq(Alert)) /\ DOMAIN posted = DOMAIN incidents
  BY <1>0 DEF TypeOK, TablesOK
<1>2. /\ i \in DOMAIN incidents /\ v \in Verdicts /\ UNCHANGED <<incidents, updates>>
      /\ posted' = [posted EXCEPT ![i] = Append(posted[i], alert)]
      /\ posted'[i] = Append(posted[i], alert)
      /\ incidents[i].state = StateOf(v) /\ Before(v, posted[i], OpenAlerts)
      /\ alert.state = StateOf(v)
  BY PostedRow DEF ToldInOrder, About
<1>3. alert \in Alert
  BY <1>2, AlertType DEF StateOf
<1> HIDE DEF i, v, alert
<1>4. log[i].state = StateOf(v)
  BY <1>2 DEF log, LogEntry
<1>5. \A k \in DOMAIN heard[i] : heard[i][k] # log[i].state
  <2>1. heard[i] = StatesHeard(posted[i])
    BY <1>1, <1>2 DEF heard
  <2>2. CASE v = "recovered"
    <3>1. \A k \in DOMAIN posted[i] : posted[i][k].state = "open"
      BY <1>2, <2>2 DEF Before, OpenAlerts, Opened
    <3> QED
      BY <1>4, <2>1, <2>2, <3>1 DEF StatesHeard, StateOf
  <2>3. CASE v # "recovered"
    BY <1>2, <2>1, <2>3 DEF Before, StatesHeard
  <2> QED
    BY <2>2, <2>3
<1>6. heard'[i] = Append(heard[i], StateOf(v))
  <2>1. heard[i] = StatesHeard(posted[i]) /\ heard'[i] = StatesHeard(Append(posted[i], alert))
    BY <1>1, <1>2 DEF heard
  <2>2. posted[i] \in Seq(Alert) /\ Append(posted[i], alert) \in Seq(Alert)
    BY <1>1, <1>2, <1>3, ElementType
  <2>3. /\ StatesHeard(posted[i]) \in Seq(States)
        /\ StatesHeard(Append(posted[i], alert)) \in Seq(States)
    BY <2>2, SaidTypes
  <2>4. /\ Len(Append(posted[i], alert)) = Len(posted[i]) + 1
        /\ \A k \in 1..Len(posted[i]) : Append(posted[i], alert)[k] = posted[i][k]
        /\ Append(posted[i], alert)[Len(posted[i]) + 1] = alert
    BY <1>3, <2>2, AppendProperties
  <2>5. /\ Len(StatesHeard(posted[i])) = Len(posted[i])
        /\ Len(StatesHeard(Append(posted[i], alert))) = Len(posted[i]) + 1
    BY <2>2, <2>3, <2>4 DEF StatesHeard
  <2>6. /\ \A k \in 1..Len(posted[i]) :
             StatesHeard(Append(posted[i], alert))[k] = StatesHeard(posted[i])[k]
        /\ StatesHeard(Append(posted[i], alert))[Len(posted[i]) + 1] = StateOf(v)
    BY <1>2, <2>2, <2>4 DEF StatesHeard
  <2> QED
    BY <1>2, <2>1, <2>3, <2>5, <2>6, SaysNews
<1>7. heard' = [heard EXCEPT ![i] = heard'[i]]
  <2>1. \A j \in DOMAIN incidents : j # i => heard'[j] = heard[j]
    BY <1>1, <1>2 DEF heard
  <2>2. DOMAIN heard' = DOMAIN heard /\ DOMAIN heard = DOMAIN incidents
    BY <1>1, <1>2 DEF MappedOK
  <2> QED
    BY <2>1, <2>2 DEF heard
<1>8. UNCHANGED <<log, noted>>
  BY <1>2 DEF log, noted
<1> QED
  BY <1>1, <1>2, <1>4, <1>5, <1>6, <1>7, <1>8 DEF MappedOK

-----------------------------------------------------------------------------
(***************************************************************************)
(* Every step of the monitor is a step of the log it keeps, or none.       *)
(***************************************************************************)
LEMMA LogStep ==
  ASSUME TypeOK, TypeOK', ReadsAreCurrent, ToldInOrder, [Next]_vars
  PROVE  [Log!Next]_Log!vars
<1> USE DEF log, noted, heard, StatesNoted, StateOf, StatesHeard
<1>1. ASSUME UNCHANGED <<incidents, updates, posted>> PROVE UNCHANGED Log!vars
  BY <1>1 DEF Log!vars
<1>2. ASSUME NEW g \in Goroutines, OpenIncident(g), ~UNCHANGED <<incidents, updates, posted>>
      PROVE  Log!Next
  BY <1>2, OpenMaps, EntityIn DEF Log!Next, Log!Open
<1>3. ASSUME NEW g \in Goroutines, CloseIncident(g), ~UNCHANGED incidents
      PROVE  Log!Next
  BY <1>3, CloseMaps DEF Log!Next, Log!Close
<1>4. ASSUME NEW g \in Goroutines, AddIncidentUpdate(g), ~UNCHANGED updates
      PROVE  Log!Next
  BY <1>4, NoteMaps DEF Log!Next, Log!Note, Log!Unsaid, Log!Say
<1>5. ASSUME NEW g \in Goroutines, PostIncident(g), ~UNCHANGED posted
      PROVE  Log!Next
  BY <1>5, AnnounceMaps DEF Log!Next, Log!Announce, Log!Unsaid, Log!Say
<1>6. ASSUME NEW g \in Goroutines, GoroutineStep(g),
             ~OpenIncident(g), ~CloseIncident(g), ~AddIncidentUpdate(g), ~PostIncident(g)
      PROVE  UNCHANGED <<incidents, updates, posted>>
  BY <1>6 DEF GoroutineStep, SelectRow, Probe, InsertCheck, RecordCheck, RecentChecks,
              HasOpenIncident, GetIncident, tables, outside
<1>7. CASE StartRound \/ RunReturns \/ Signal \/ Exit \/ Crash \/ Boot \/ UNCHANGED vars
  <2>1. UNCHANGED <<incidents, updates, posted>>
    BY <1>7 DEF StartRound, RunReturns, Signal, Exit, Crash, Boot, ProcessEnds,
                vars, tables, outside
  <2> QED
    BY <1>1, <2>1
<1>8. ASSUME NEW g \in Goroutines, GoroutineStep(g) PROVE [Log!Next]_Log!vars
  <2>1. CloseIncident(g) => UNCHANGED <<updates, posted>>
    BY DEF CloseIncident, outside
  <2>2. AddIncidentUpdate(g) => UNCHANGED <<incidents, posted>>
    BY DEF AddIncidentUpdate, outside
  <2>3. PostIncident(g) => UNCHANGED <<incidents, updates>>
    BY DEF PostIncident, tables
  <2> QED
    BY <1>1, <1>2, <1>3, <1>4, <1>5, <1>6, <1>8, <2>1, <2>2, <2>3
<1> QED
  BY <1>7, <1>8 DEF Next

(***************************************************************************)
(* The incident model of README.md: whoever reads the incidents, their     *)
(* timelines and the channel sees a log of incidents as IncidentLog says,  *)
(* whatever the goroutines do and wherever the process stops.              *)
(***************************************************************************)
THEOREM ImplementsLog ==
  ASSUME UniqueNames PROVE Spec => KeepsLog
<1>1. Init => Log!Init
  BY DEF Init, Log!Init
<1>2. TypeOK /\ TypeOK' /\ ReadsAreCurrent /\ ToldInOrder /\ [Next]_vars => [Log!Next]_Log!vars
  BY LogStep
<1>3. TypeOK /\ ReadsAreCurrent /\ ToldInOrder /\ [Next]_vars => ToldInOrder'
  BY ToldStep
<1> QED
  BY <1>1, <1>2, <1>3, ToldInit, TypeCorrect, ReadsStayCurrent, PTL DEF Spec, KeepsLog, Log!Spec
=============================================================================
