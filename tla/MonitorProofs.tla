--------------------------- MODULE MonitorProofs ---------------------------
(***************************************************************************)
(* Theorems about Monitor for every configuration: any entries, any        *)
(* thresholds, any number of incidents, faults and restarts.               *)
(***************************************************************************)
EXTENDS Monitor, TLAPS

-----------------------------------------------------------------------------
(***************************************************************************)
(* Types of what the actions are built from                                *)
(***************************************************************************)

LEMMA NewestType ==
  ASSUME NEW S, NEW rows \in Seq(S), NEW n \in Nat
  PROVE  Newest(rows, n) \in Seq(S)
BY DEF Newest

LEMMA PushType ==
  ASSUME NEW S, NEW rows \in Seq(S), NEW r \in S, NEW n \in Nat
  PROVE  Newest(<<r>> \o rows, n) \in Seq(S)
<1>1. <<r>> \o rows \in Seq(S)
  OBVIOUS
<1> QED
  BY <1>1, NewestType

LEMMA ElementType ==
  ASSUME NEW S, NEW s \in Seq(S), NEW i \in DOMAIN s
  PROVE  s[i] \in S
OBVIOUS

LEMMA SeverityType ==
  ASSUME NEW v PROVE SeverityOf(v) \in Severities
BY DEF SeverityOf, Severities

LEMMA AlertType ==
  ASSUME NEW v, NEW s \in {"open", "closed"}
  PROVE  [kind |-> AlertKind(v), state |-> s] \in Alert
BY DEF AlertKind, Alert

LEMMA EntityIn ==
  ASSUME NEW g \in Goroutines PROVE Entity(g) \in Entities
BY ConfigAssumption DEF Entity, Goroutines

LEMMA ProbeOutcomesType ==
  ASSUME NEW t, NEW o \in ProbeOutcomes(t) PROVE o \in Outcomes
BY DEF ProbeOutcomes, Outcomes, Causes

LEMMA StmtFaults ==
  ASSUME TablesOK, StmtFails PROVE faults' \in 0..MaxFaults
BY ConfigAssumption DEF TablesOK, StmtFails, Fault

LEMMA FinishLocals ==
  ASSUME LocalsOK, NEW g \in Goroutines, Finish(g) PROVE LocalsOK'
BY DEF LocalsOK, Finish, Goto, Labels

(***************************************************************************)
(* What a goroutine knows stays right while it does nothing, whatever is   *)
(* appended to the incidents table.                                        *)
(***************************************************************************)
LEMMA Bystander ==
  ASSUME NEW h \in Goroutines, WorkOK(h),
         DOMAIN incidents \subseteq DOMAIN incidents',
         pc'[h] = pc[h], outcome'[h] = outcome[h], verdict'[h] = verdict[h],
         inc'[h] = inc[h], shown'[h] = shown[h]
  PROVE  WorkOK(h)'
BY DEF WorkOK

-----------------------------------------------------------------------------
(***************************************************************************)
(* Type correctness, one lemma per action                                  *)
(***************************************************************************)

LEMMA TypeInit == Init => TypeOK
BY ConfigAssumption DEF Init, TypeOK, TablesOK, LocalsOK, WorkOK, Labels

LEMMA TypeSelectRow ==
  ASSUME TypeOK, NEW g \in Goroutines, SelectRow(g) PROVE TypeOK'
<1>1. TablesOK'
  BY StmtFaults DEF SelectRow, tables, outside, TypeOK, TablesOK
<1>2. LocalsOK'
  BY DEF SelectRow, Goto, Labels, TypeOK, LocalsOK
<1>3. WorkOK(g)'
  BY DEF SelectRow, Goto, TypeOK, LocalsOK, WorkOK
<1>4. ASSUME NEW h \in Goroutines, h # g PROVE WorkOK(h)'
  BY <1>4, Bystander DEF SelectRow, Goto, tables, TypeOK, LocalsOK
<1> QED
  BY <1>1, <1>2, <1>3, <1>4 DEF TypeOK

LEMMA TypeProbe ==
  ASSUME TypeOK, NEW g \in Goroutines, Probe(g) PROVE TypeOK'
<1>1. TablesOK'
  <2>1. g[1] \in Tasks
    BY DEF Goroutines
  <2>2. registered' \in [Entities -> SUBSET Tasks]
    BY <2>1 DEF Probe, WriteRow, OwnUrl, TypeOK, TablesOK
  <2>3. faults' \in 0..MaxFaults
    BY StmtFaults DEF Probe, WriteRow, TypeOK, TablesOK
  <2> QED
    BY <2>2, <2>3 DEF Probe, outside, TypeOK, TablesOK
<1>2. LocalsOK'
  BY ProbeOutcomesType DEF Probe, Goto, Labels, TypeOK, LocalsOK
<1>3. WorkOK(g)'
  BY ProbeOutcomesType DEF Probe, Goto, TypeOK, LocalsOK, WorkOK
<1>4. ASSUME NEW h \in Goroutines, h # g PROVE WorkOK(h)'
  BY <1>4, Bystander DEF Probe, Goto, tables, TypeOK, LocalsOK
<1> QED
  BY <1>1, <1>2, <1>3, <1>4 DEF TypeOK

LEMMA TypeInsertCheck ==
  ASSUME TypeOK, NEW g \in Goroutines, InsertCheck(g) PROVE TypeOK'
<1>1. TablesOK'
  <2>1. checks' \in [Entities -> Seq(Causes)]
    <3>1. CASE UNCHANGED checks
      BY <3>1 DEF TypeOK, TablesOK
    <3>2. CASE checks' = [checks EXCEPT ![Entity(g)] =
                            Newest(<<outcome[g].cause>> \o @, HistoryKept)]
      <4>1. outcome[g].cause \in Causes
        BY DEF InsertCheck, TypeOK, WorkOK, Outcomes
      <4>2. checks[Entity(g)] \in Seq(Causes)
        BY EntityIn DEF TypeOK, TablesOK
      <4>3. Newest(<<outcome[g].cause>> \o checks[Entity(g)], HistoryKept) \in Seq(Causes)
        BY <4>1, <4>2, PushType, ConfigAssumption
      <4> QED
        BY <3>2, <4>3 DEF TypeOK, TablesOK
    <3> QED
      BY <3>1, <3>2 DEF InsertCheck
  <2>2. faults' \in 0..MaxFaults
    BY StmtFaults DEF InsertCheck, TypeOK, TablesOK
  <2> QED
    BY <2>1, <2>2 DEF InsertCheck, outside, TypeOK, TablesOK
<1>2. LocalsOK'
  BY FinishLocals DEF InsertCheck, Goto, Labels, TypeOK, LocalsOK
<1>3. WorkOK(g)'
  BY DEF InsertCheck, Goto, Finish, TypeOK, LocalsOK, WorkOK
<1>4. ASSUME NEW h \in Goroutines, h # g PROVE WorkOK(h)'
  BY <1>4, Bystander DEF InsertCheck, Goto, Finish, tables, TypeOK, LocalsOK
<1> QED
  BY <1>1, <1>2, <1>3, <1>4 DEF TypeOK

LEMMA TypeRecordCheck ==
  ASSUME TypeOK, NEW g \in Goroutines, RecordCheck(g) PROVE TypeOK'
<1>1. TablesOK'
  BY DEF RecordCheck, tables, process, TypeOK, TablesOK
<1>2. LocalsOK'
  BY DEF RecordCheck, Goto, Labels, TypeOK, LocalsOK
<1>3. WorkOK(g)'
  BY DEF RecordCheck, Goto, TypeOK, LocalsOK, WorkOK
<1>4. ASSUME NEW h \in Goroutines, h # g PROVE WorkOK(h)'
  BY <1>4, Bystander DEF RecordCheck, Goto, tables, TypeOK, LocalsOK
<1> QED
  BY <1>1, <1>2, <1>3, <1>4 DEF TypeOK

LEMMA TypeRecentChecks ==
  ASSUME TypeOK, NEW g \in Goroutines, RecentChecks(g) PROVE TypeOK'
<1>1. TablesOK'
  BY StmtFaults DEF RecentChecks, tables, outside, TypeOK, TablesOK
<1>2. LocalsOK'
  <2>1. Newest(checks[Entity(g)], ReadLimit) \in Seq(Causes)
    BY NewestType, EntityIn, ThresholdAssumption DEF ReadLimit, TypeOK, TablesOK
  <2> QED
    BY <2>1, FinishLocals DEF RecentChecks, Goto, Labels, TypeOK, LocalsOK
<1>3. WorkOK(g)'
  BY DEF RecentChecks, Goto, Finish, TypeOK, LocalsOK, WorkOK
<1>4. ASSUME NEW h \in Goroutines, h # g PROVE WorkOK(h)'
  BY <1>4, Bystander DEF RecentChecks, Goto, Finish, tables, TypeOK, LocalsOK
<1> QED
  BY <1>1, <1>2, <1>3, <1>4 DEF TypeOK

LEMMA TypeHasOpenIncident ==
  ASSUME TypeOK, NEW g \in Goroutines, HasOpenIncident(g) PROVE TypeOK'
<1>1. TablesOK'
  BY StmtFaults DEF HasOpenIncident, Decide, tables, outside, TypeOK, TablesOK
<1>2. LocalsOK' /\ WorkOK(g)'
  <2>1. CASE Finish(g)
    BY <2>1, FinishLocals DEF HasOpenIncident, Finish, Goto, TypeOK, LocalsOK, WorkOK
  <2>2. ASSUME NEW i \in OpenIncidents(Entity(g)), Decide(g, "recovered", i, "close")
        PROVE  LocalsOK' /\ WorkOK(g)'
    <3>1. i \in DOMAIN incidents /\ i \in Nat
      BY DEF OpenIncidents, TypeOK, TablesOK
    <3> QED
      BY <2>2, <3>1
      DEF HasOpenIncident, Decide, Goto, Labels, Verdicts, tables, TypeOK, LocalsOK, WorkOK
  <2>3. ASSUME NEW v \in Openings, Decide(g, v, 0, "open")
        PROVE  LocalsOK' /\ WorkOK(g)'
    BY <2>3 DEF Decide, Goto, Labels, Verdicts, TypeOK, LocalsOK, WorkOK
  <2> QED
    BY <2>1, <2>2, <2>3 DEF HasOpenIncident, OpeningVerdicts
<1>3. WorkOK(g)'
  BY <1>2
<1>4. ASSUME NEW h \in Goroutines, h # g PROVE WorkOK(h)'
  BY <1>4, Bystander DEF HasOpenIncident, Goto, Finish, Decide, tables, TypeOK, LocalsOK
<1> QED
  BY <1>1, <1>2, <1>3, <1>4 DEF TypeOK

LEMMA TypeOpenIncident ==
  ASSUME TypeOK, NEW g \in Goroutines, OpenIncident(g) PROVE TypeOK'
<1>1. TablesOK'
  <2>1. CASE UNCHANGED <<incidents, updates, posted>> /\ StmtFails
    BY <2>1, StmtFaults DEF OpenIncident, TypeOK, TablesOK
  <2>2. CASE ~UNCHANGED <<incidents, updates, posted>> \/ ~StmtFails
    <3> DEFINE row == [entity |-> Entity(g), state |-> "open",
                       severity |-> SeverityOf(verdict[g]), summary |-> verdict[g]]
    <3>1. row \in Incident
      BY EntityIn, SeverityType DEF OpenIncident, TypeOK, WorkOK, Incident, Verdicts
    <3>2. /\ incidents' = Append(incidents, row)
          /\ updates' = Append(updates, <<>>) /\ posted' = Append(posted, <<>>)
          /\ UNCHANGED faults
      BY <2>2 DEF OpenIncident
    <3> HIDE DEF row
    <3> QED
      BY <3>1, <3>2 DEF OpenIncident, TypeOK, TablesOK
  <2> QED
    BY <2>1, <2>2
<1>2. LocalsOK'
  <2>1. Len(incidents) + 1 \in Nat
    BY DEF TypeOK, TablesOK
  <2> QED
    BY <2>1, FinishLocals DEF OpenIncident, Goto, Labels, TypeOK, LocalsOK
<1>3. WorkOK(g)'
  BY DEF OpenIncident, Goto, Finish, TypeOK, TablesOK, LocalsOK, WorkOK, Verdicts
<1>4. ASSUME NEW h \in Goroutines, h # g PROVE WorkOK(h)'
  BY <1>4, Bystander DEF OpenIncident, Goto, Finish, tables, TypeOK, LocalsOK, TablesOK
<1> QED
  BY <1>1, <1>2, <1>3, <1>4 DEF TypeOK

LEMMA TypeCloseIncident ==
  ASSUME TypeOK, NEW g \in Goroutines, CloseIncident(g) PROVE TypeOK'
<1>1. TablesOK'
  <2>1. incidents' \in Seq(Incident) /\ Len(incidents') = Len(incidents)
    <3>1. CASE UNCHANGED incidents
      BY <3>1 DEF TypeOK, TablesOK
    <3>2. CASE incidents' = [incidents EXCEPT ![inc[g]].state = "closed",
                                              ![inc[g]].summary = verdict[g]]
      <4>1. inc[g] \in DOMAIN incidents /\ verdict[g] \in Verdicts
        BY DEF CloseIncident, TypeOK, WorkOK, Verdicts
      <4>2. incidents[inc[g]] \in Incident
        BY <4>1, ElementType DEF TypeOK, TablesOK
      <4>3. [[incidents[inc[g]] EXCEPT !.state = "closed"] EXCEPT !.summary = verdict[g]]
              \in Incident
        BY <4>1, <4>2 DEF Incident
      <4> QED
        BY <3>2, <4>1, <4>2, <4>3 DEF TypeOK, TablesOK
    <3> QED
      BY <3>1, <3>2 DEF CloseIncident
  <2>2. faults' \in 0..MaxFaults
    BY StmtFaults DEF CloseIncident, TypeOK, TablesOK
  <2> QED
    BY <2>1, <2>2 DEF CloseIncident, outside, TypeOK, TablesOK
<1>2. LocalsOK'
  BY FinishLocals DEF CloseIncident, Goto, Labels, TypeOK, LocalsOK
<1>3. WorkOK(g)'
  BY DEF CloseIncident, Goto, Finish, TypeOK, TablesOK, LocalsOK, WorkOK, Verdicts
<1>4. ASSUME NEW h \in Goroutines, h # g PROVE WorkOK(h)'
  BY <1>4, Bystander DEF CloseIncident, Goto, Finish, tables, TypeOK, LocalsOK, TablesOK
<1> QED
  BY <1>1, <1>2, <1>3, <1>4 DEF TypeOK

LEMMA TypeAddIncidentUpdate ==
  ASSUME TypeOK, NEW g \in Goroutines, AddIncidentUpdate(g) PROVE TypeOK'
<1>1. TablesOK'
  <2>1. updates' \in Seq(Seq(Verdicts)) /\ Len(updates') = Len(updates)
    <3>1. CASE UNCHANGED updates
      BY <3>1 DEF TypeOK, TablesOK
    <3>2. CASE updates' = [updates EXCEPT ![inc[g]] = Append(@, verdict[g])]
      <4>1. inc[g] \in DOMAIN updates /\ verdict[g] \in Verdicts
        BY DEF AddIncidentUpdate, TypeOK, TablesOK, WorkOK
      <4>2. Append(updates[inc[g]], verdict[g]) \in Seq(Verdicts)
        BY <4>1 DEF TypeOK, TablesOK
      <4> QED
        BY <3>2, <4>1, <4>2 DEF TypeOK, TablesOK
    <3> QED
      BY <3>1, <3>2 DEF AddIncidentUpdate
  <2>2. faults' \in 0..MaxFaults
    BY StmtFaults DEF AddIncidentUpdate, TypeOK, TablesOK
  <2> QED
    BY <2>1, <2>2 DEF AddIncidentUpdate, outside, TypeOK, TablesOK
<1>2. LocalsOK'
  BY FinishLocals DEF AddIncidentUpdate, Goto, Labels, TypeOK, LocalsOK
<1>3. WorkOK(g)'
  BY DEF AddIncidentUpdate, Goto, Finish, TypeOK, LocalsOK, WorkOK
<1>4. ASSUME NEW h \in Goroutines, h # g PROVE WorkOK(h)'
  BY <1>4, Bystander DEF AddIncidentUpdate, Goto, Finish, tables, TypeOK, LocalsOK
<1> QED
  BY <1>1, <1>2, <1>3, <1>4 DEF TypeOK

LEMMA TypeGetIncident ==
  ASSUME TypeOK, NEW g \in Goroutines, GetIncident(g) PROVE TypeOK'
<1>0. pc[g] = "fetch" => incidents[inc[g]].state \in {"open", "closed"}
  <2>1. pc[g] = "fetch" => incidents[inc[g]] \in Incident
    BY ElementType DEF TypeOK, TablesOK, WorkOK
  <2> QED
    BY <2>1 DEF Incident
<1>1. TablesOK'
  BY StmtFaults DEF GetIncident, tables, outside, TypeOK, TablesOK
<1>2. LocalsOK'
  BY <1>0, FinishLocals DEF GetIncident, Goto, Labels, TypeOK, LocalsOK
<1>3. WorkOK(g)'
  BY <1>0 DEF GetIncident, Goto, Finish, tables, TypeOK, LocalsOK, WorkOK
<1>4. ASSUME NEW h \in Goroutines, h # g PROVE WorkOK(h)'
  BY <1>4, Bystander DEF GetIncident, Goto, Finish, tables, TypeOK, LocalsOK
<1> QED
  BY <1>1, <1>2, <1>3, <1>4 DEF TypeOK

LEMMA TypePostIncident ==
  ASSUME TypeOK, NEW g \in Goroutines, PostIncident(g) PROVE TypeOK'
<1>1. TablesOK'
  <2>1. posted' \in Seq(Seq(Alert)) /\ Len(posted') = Len(posted)
    <3>1. CASE UNCHANGED posted
      BY <3>1 DEF TypeOK, TablesOK
    <3>2. CASE posted' = [posted EXCEPT ![inc[g]] =
                 Append(@, [kind |-> AlertKind(verdict[g]), state |-> shown[g]])]
      <4>1. inc[g] \in DOMAIN posted /\ shown[g] \in {"open", "closed"}
        BY DEF PostIncident, TypeOK, TablesOK, WorkOK
      <4>2. Append(posted[inc[g]], [kind |-> AlertKind(verdict[g]), state |-> shown[g]])
              \in Seq(Alert)
        <5>1. posted[inc[g]] \in Seq(Alert)
          BY <4>1, ElementType DEF TypeOK, TablesOK
        <5>2. [kind |-> AlertKind(verdict[g]), state |-> shown[g]] \in Alert
          BY <4>1, AlertType
        <5> QED
          BY <5>1, <5>2
      <4> QED
        BY <3>2, <4>1, <4>2 DEF TypeOK, TablesOK
    <3> QED
      BY <3>1, <3>2 DEF PostIncident
  <2>2. faults' \in 0..MaxFaults
    BY ConfigAssumption DEF PostIncident, Fault, TypeOK, TablesOK
  <2> QED
    BY <2>1, <2>2 DEF PostIncident, tables, TypeOK, TablesOK
<1>2. LocalsOK'
  BY FinishLocals DEF PostIncident, TypeOK
<1>3. WorkOK(g)'
  BY DEF PostIncident, Goto, Finish, TypeOK, LocalsOK, WorkOK
<1>4. ASSUME NEW h \in Goroutines, h # g PROVE WorkOK(h)'
  BY <1>4, Bystander DEF PostIncident, Goto, Finish, tables, TypeOK, LocalsOK
<1> QED
  BY <1>1, <1>2, <1>3, <1>4 DEF TypeOK

LEMMA TypeProcess ==
  ASSUME TypeOK,
         StartRound \/ RunReturns \/ Signal \/ Exit \/ Crash \/ Boot \/ UNCHANGED vars
  PROVE  TypeOK'
<1>1. CASE StartRound
  <2>1. LocalsOK'
    BY <1>1 DEF StartRound, TypeOK, LocalsOK, Labels
  <2>2. ASSUME NEW h \in Goroutines PROVE WorkOK(h)'
    BY <1>1 DEF StartRound, RoundOver, TypeOK, LocalsOK, WorkOK, tables
  <2> QED
    BY <1>1, <2>1, <2>2 DEF StartRound, TypeOK, TablesOK, tables, outside, process
<1>2. CASE RunReturns \/ Signal \/ Boot \/ UNCHANGED vars
  BY <1>2, ConfigAssumption
  DEF RunReturns, Signal, Boot, vars, tables, outside, process, goroutines,
      TypeOK, TablesOK, LocalsOK, WorkOK
<1>3. CASE Exit \/ Crash
  <2>1. ProcessEnds /\ stops' \in 0..MaxStops
    BY <1>3, ConfigAssumption DEF Exit, Crash, TypeOK, TablesOK
  <2>2. LocalsOK' /\ \A h \in Goroutines : WorkOK(h)'
    BY <2>1 DEF ProcessEnds, LoseGoroutines, LocalsOK, WorkOK, Labels
  <2> QED
    BY <2>1, <2>2 DEF ProcessEnds, tables, TypeOK, TablesOK
<1> QED
  BY <1>1, <1>2, <1>3

(***************************************************************************)
(* Every reachable state of every configuration is well typed.             *)
(***************************************************************************)
THEOREM TypeCorrect == Spec => []TypeOK
<1>1. TypeOK /\ [Next]_vars => TypeOK'
  BY TypeProcess, TypeSelectRow, TypeProbe, TypeInsertCheck, TypeRecordCheck, TypeRecentChecks, TypeHasOpenIncident,
     TypeOpenIncident, TypeCloseIncident, TypeAddIncidentUpdate, TypeGetIncident, TypePostIncident
  DEF Next, GoroutineStep
<1> QED
  BY TypeInit, <1>1, PTL DEF Spec

-----------------------------------------------------------------------------
(***************************************************************************)
(* A shutdown leaves no failed check behind, for every configuration, also *)
(* one with repeated names: the context that cut the probe short is the    *)
(* one InsertCheck runs under.                                             *)
(***************************************************************************)
CancelledWhenDone ==
  /\ \A g \in Goroutines : outcome[g].cause = "cancelled" => CtxDone
  /\ mode = "down" =>
       \A g \in Goroutines : pc[g] = "idle" /\ outcome[g] = NoOutcome

LEMMA CancelledInit == Init => CancelledWhenDone
BY DEF Init, CancelledWhenDone, NoOutcome

LEMMA CancelledStep ==
  ASSUME TypeOK, CancelledWhenDone, [Next]_vars PROVE CancelledWhenDone'
<1> USE DEF CancelledWhenDone, CtxDone, NoOutcome
<1>1. ASSUME NEW g \in Goroutines, Probe(g) PROVE CancelledWhenDone'
  <2>1. PICK o \in ProbeOutcomes(Type(g)) : outcome' = [outcome EXCEPT ![g] = o]
    BY <1>1 DEF Probe
  <2>2. o.cause = "cancelled" => CtxDone
    BY DEF ProbeOutcomes
  <2>3. mode' = mode /\ mode # "down"
    BY <1>1 DEF Probe, WriteRow, process
  <2> QED
    BY <2>1, <2>2, <2>3 DEF TypeOK, LocalsOK
<1>2. ASSUME NEW g \in Goroutines,
             \/ SelectRow(g) \/ InsertCheck(g) \/ RecordCheck(g) \/ RecentChecks(g) \/ HasOpenIncident(g)
             \/ OpenIncident(g) \/ CloseIncident(g) \/ AddIncidentUpdate(g)
             \/ GetIncident(g) \/ PostIncident(g)
      PROVE  CancelledWhenDone'
  <2>1. mode' = mode /\ mode # "down"
    BY <1>2 DEF SelectRow, InsertCheck, RecordCheck, RecentChecks, HasOpenIncident, OpenIncident,
       CloseIncident, AddIncidentUpdate, GetIncident, PostIncident, process
  <2>2. \A h \in Goroutines : outcome'[h] = outcome[h] \/ outcome'[h] = NoOutcome
    BY <1>2 DEF SelectRow, InsertCheck, RecordCheck, RecentChecks, HasOpenIncident, OpenIncident,
       CloseIncident, AddIncidentUpdate, GetIncident, PostIncident, Decide, Finish,
       TypeOK, LocalsOK
  <2> QED
    BY <2>1, <2>2
<1>3. CASE StartRound \/ UNCHANGED vars
  BY <1>3 DEF StartRound, vars, process, goroutines
<1>4. CASE RunReturns \/ Signal
  BY <1>4 DEF RunReturns, Signal, goroutines
<1>5. CASE Exit \/ Crash
  BY <1>5 DEF Exit, Crash, ProcessEnds, LoseGoroutines
<1>6. CASE Boot
  BY <1>6 DEF Boot, goroutines
<1> QED
  BY <1>1, <1>2, <1>3, <1>4, <1>5, <1>6 DEF Next, GoroutineStep

(***************************************************************************)
(* The newest rows a push leaves are the pushed row and rows from before.  *)
(***************************************************************************)
LEMMA PushedRows ==
  ASSUME NEW S, NEW rows \in Seq(S), NEW r \in S, NEW n \in Nat,
         NEW k \in DOMAIN Newest(<<r>> \o rows, n)
  PROVE  \/ Newest(<<r>> \o rows, n)[k] = r
         \/ \E j \in DOMAIN rows : Newest(<<r>> \o rows, n)[k] = rows[j]
<1>1. k \in 1..Len(<<r>> \o rows) /\ Newest(<<r>> \o rows, n)[k] = (<<r>> \o rows)[k]
  BY DEF Newest
<1>2. k # 1 => k - 1 \in DOMAIN rows /\ (<<r>> \o rows)[k] = rows[k - 1]
  BY <1>1
<1> QED
  BY <1>1, <1>2

(***************************************************************************)
(* No row of checks ever records a probe that the shutdown cut short.      *)
(***************************************************************************)
THEOREM ShutdownLeavesNoFailure == Spec => []NoPhantomFailure
<1>1. Init => NoPhantomFailure
  BY DEF Init, NoPhantomFailure
<1>2. ASSUME TypeOK, CancelledWhenDone, NoPhantomFailure, [Next]_vars
      PROVE  NoPhantomFailure'
  <2>1. CASE UNCHANGED checks
    BY <1>2, <2>1 DEF NoPhantomFailure
  <2>2. ASSUME NEW g \in Goroutines, InsertCheck(g), ~UNCHANGED checks
        PROVE  NoPhantomFailure'
    <3>1. outcome[g].cause \in Causes /\ outcome[g].cause # "cancelled"
      BY <1>2, <2>2 DEF InsertCheck, StmtOk, CancelledWhenDone, TypeOK, WorkOK, Outcomes
    <3>2. /\ Entity(g) \in Entities /\ checks[Entity(g)] \in Seq(Causes)
          /\ checks' = [checks EXCEPT ![Entity(g)] =
                          Newest(<<outcome[g].cause>> \o checks[Entity(g)], HistoryKept)]
      BY <1>2, <2>2, EntityIn DEF InsertCheck, TypeOK, TablesOK
    <3>3. \A k \in DOMAIN Newest(<<outcome[g].cause>> \o checks[Entity(g)], HistoryKept) :
            Newest(<<outcome[g].cause>> \o checks[Entity(g)], HistoryKept)[k] # "cancelled"
      BY <1>2, <3>1, <3>2, PushedRows, ConfigAssumption DEF NoPhantomFailure
    <3> QED
      BY <1>2, <3>2, <3>3 DEF NoPhantomFailure, TypeOK, TablesOK
  <2>3. UNCHANGED checks \/ \E g \in Goroutines : InsertCheck(g)
    BY <1>2 DEF Next, GoroutineStep, StartRound, RunReturns, SelectRow, Probe, RecordCheck,
       RecentChecks, HasOpenIncident, OpenIncident, CloseIncident, AddIncidentUpdate,
       GetIncident, PostIncident, Signal, Exit, Crash, Boot, ProcessEnds, vars, tables
  <2> QED
    BY <2>1, <2>2, <2>3
<1> QED
  BY <1>1, <1>2, TypeCorrect, CancelledInit, CancelledStep, PTL DEF Spec
=============================================================================
