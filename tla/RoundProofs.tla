---------------------------- MODULE RoundProofs ----------------------------
(***************************************************************************)
(* Deduplication, for every configuration whose names are unique: one open *)
(* incident per entity, opened and closed for reasons that still hold when *)
(* the row is written.  The inductive invariant is ReadsAreCurrent: the    *)
(* rows and the answer a goroutine read are still those of the database,   *)
(* because wg.Wait leaves no second goroutine for the same entity.         *)
(***************************************************************************)
EXTENDS MonitorProofs, WellFoundedInduction

-----------------------------------------------------------------------------
(***************************************************************************)
(* What countConsecutiveSuccess computes, for every list of rows.          *)
(***************************************************************************)
LEMMA NatMin ==
  ASSUME NEW S, S \subseteq Nat, S # {}
  PROVE  Min(S) \in S /\ \A y \in S : Min(S) <= y
<1>1. PICK x \in S : \A y \in S : ~(<<y, x>> \in OpToRel(<, Nat))
  BY NatLessThanWellFounded, WFMin
<1>2. \A y \in S : x <= y
  <2> SUFFICES ASSUME NEW y \in S, y < x PROVE FALSE
    OBVIOUS
  <2>1. <<y, x>> \in OpToRel(<, Nat)
    BY DEF OpToRel
  <2> QED
    BY <1>1, <2>1
<1> QED
  BY <1>2 DEF Min

(***************************************************************************)
(* countConsecutiveSuccess returns the length of the longest prefix of rows*)
(* that all are successes (or all are failures): every row before it       *)
(* agrees, and the row after it, if there is one, does not.                *)
(***************************************************************************)
THEOREM CountIsLongestRun ==
  ASSUME NEW rows \in Seq(Causes), NEW ok \in BOOLEAN
  PROVE  LET n == CountConsecutive(rows, ok)
         IN  /\ n \in 0..Len(rows)
             /\ \A k \in 1..n : (rows[k] = "ok") = ok
             /\ n < Len(rows) => (rows[n + 1] = "ok") # ok
<1> DEFINE breaks == {i \in DOMAIN rows : (rows[i] = "ok") # ok}
<1>1. CASE breaks = {}
  <2>1. CountConsecutive(rows, ok) = Len(rows)
    BY <1>1 DEF CountConsecutive
  <2> QED
    BY <1>1, <2>1
<1>2. CASE breaks # {}
  <2>1. CountConsecutive(rows, ok) = Min(breaks) - 1
    BY <1>2 DEF CountConsecutive
  <2>2. breaks \subseteq 1..Len(rows)
    OBVIOUS
  <2>3. Min(breaks) \in breaks /\ \A y \in breaks : Min(breaks) <= y
    <3>1. breaks \subseteq Nat
      BY <2>2
    <3> HIDE DEF breaks
    <3> QED
      BY <1>2, <3>1, NatMin
  <2>4. Min(breaks) \in 1..Len(rows)
    BY <2>2, <2>3
  <2>5. \A k \in 1..(Min(breaks) - 1) : k \in DOMAIN rows /\ k \notin breaks
    <3> HIDE DEF breaks
    <3> QED
      BY <2>3, <2>4
  <2>6. CountConsecutive(rows, ok) \in 0..Len(rows)
    BY <2>1, <2>4
  <2>7. \A k \in 1..CountConsecutive(rows, ok) : (rows[k] = "ok") = ok
    BY <2>1, <2>5
  <2>8. (rows[CountConsecutive(rows, ok) + 1] = "ok") # ok
    <3>1. CountConsecutive(rows, ok) + 1 = Min(breaks)
      <4> HIDE DEF breaks
      <4> QED
        BY <2>1, <2>4
    <3> QED
      BY <2>3, <3>1
  <2> QED
    BY <2>6, <2>7, <2>8
<1> QED
  BY <1>1, <1>2

(***************************************************************************)
(* So reaching a threshold means that the newest rows are all of that kind.*)
(***************************************************************************)
COROLLARY RunReached ==
  ASSUME NEW rows \in Seq(Causes), NEW ok \in BOOLEAN, NEW n \in Nat,
         CountConsecutive(rows, ok) >= n
  PROVE  Len(rows) >= n /\ \A k \in 1..n : (rows[k] = "ok") = ok
<1> DEFINE c == CountConsecutive(rows, ok)
<1>1. c \in 0..Len(rows) /\ \A k \in 1..c : (rows[k] = "ok") = ok
  BY CountIsLongestRun
<1> HIDE DEF c
<1>2. c >= n
  BY DEF c
<1> QED
  BY <1>1, <1>2

-----------------------------------------------------------------------------
(***************************************************************************)
(* Who runs together                                                       *)
(***************************************************************************)

LEMMA Untouched ==
  ASSUME TypeOK, NEW g \in Goroutines, GoroutineStep(g),
         NEW h \in Goroutines, h # g
  PROVE  /\ pc'[h] = pc[h] /\ outcome'[h] = outcome[h] /\ recent'[h] = recent[h]
         /\ verdict'[h] = verdict[h] /\ inc'[h] = inc[h] /\ shown'[h] = shown[h]
<1> USE DEF TypeOK, LocalsOK, Goto
<1>1. CASE Probe(g)             BY <1>1 DEF Probe
<1>2. CASE InsertCheck(g)       BY <1>2 DEF InsertCheck, Finish
<1>3. CASE RecordCheck(g)       BY <1>3 DEF RecordCheck
<1>4. CASE RecentChecks(g)      BY <1>4 DEF RecentChecks, Finish
<1>5. CASE HasOpenIncident(g)   BY <1>5 DEF HasOpenIncident, Decide, Finish
<1>6. CASE OpenIncident(g)      BY <1>6 DEF OpenIncident, Finish
<1>7. CASE CloseIncident(g)     BY <1>7 DEF CloseIncident, Finish
<1>8. CASE AddIncidentUpdate(g) BY <1>8 DEF AddIncidentUpdate, Finish
<1>9. CASE GetIncident(g)       BY <1>9 DEF GetIncident, Finish
<1>10. CASE PostIncident(g)     BY <1>10 DEF PostIncident, Finish
<1>11. CASE SelectRow(g)        BY <1>11 DEF SelectRow
<1> QED
  BY <1>1, <1>2, <1>3, <1>4, <1>5, <1>6, <1>7, <1>8, <1>9, <1>10, <1>11 DEF GoroutineStep

LEMMA AtWork ==
  ASSUME NEW g \in Goroutines, GoroutineStep(g) PROVE pc[g] # "idle"
BY DEF GoroutineStep, SelectRow, Probe, WriteRow, InsertCheck, RecordCheck, RecentChecks,
       HasOpenIncident, OpenIncident, CloseIncident, AddIncidentUpdate, GetIncident,
       PostIncident

LEMMA SameProcess ==
  ASSUME NEW g \in Goroutines, GoroutineStep(g) PROVE UNCHANGED <<mode, configured>>
BY DEF GoroutineStep, SelectRow, Probe, InsertCheck, RecordCheck, RecentChecks,
       HasOpenIncident, OpenIncident, CloseIncident, AddIncidentUpdate, GetIncident,
       PostIncident, process

LEMMA SoleWorker ==
  ASSUME TypeOK, UniqueNames, OneRound, NEW g \in Goroutines, NEW h \in Goroutines,
         pc[g] # "idle", pc[h] # "idle", Entity(g) = Entity(h)
  PROVE  g = h
<1>1. g[1] \in configured /\ h[1] \in configured /\ g[2] = h[2]
  BY DEF OneRound
<1>2. g[1] = h[1]
  BY <1>1 DEF UniqueNames, Entity, TypeOK, TablesOK
<1> QED
  BY <1>1, <1>2 DEF Goroutines

LEMMA OneRoundStep ==
  ASSUME TypeOK, OneRound, [Next]_vars PROVE OneRound'
<1>1. ASSUME NEW g \in Goroutines, GoroutineStep(g) PROVE OneRound'
  BY <1>1, AtWork, Untouched, SameProcess DEF OneRound
<1>2. CASE StartRound
  BY <1>2 DEF StartRound, RoundOver, process, OneRound
<1>3. CASE RunReturns \/ Signal \/ Boot \/ UNCHANGED vars
  BY <1>3 DEF RunReturns, Signal, Boot, vars, process, goroutines, OneRound
<1>4. CASE Exit \/ Crash
  BY <1>4 DEF Exit, Crash, ProcessEnds, LoseGoroutines, OneRound
<1> QED
  BY <1>1, <1>2, <1>3, <1>4 DEF Next

-----------------------------------------------------------------------------
(***************************************************************************)
(* What a goroutine's step leaves alone: the rows and the incidents of     *)
(* every other entity.                                                     *)
(***************************************************************************)
LEMMA ElsewhereOpen ==
  ASSUME TypeOK, NEW g \in Goroutines, Current(g), GoroutineStep(g),
         NEW e \in Entities, e # Entity(g)
  PROVE  OpenIncidents(e)' = OpenIncidents(e)
<1>1. CASE OpenIncident(g)
  <2>1. CASE UNCHANGED incidents
    BY <2>1 DEF OpenIncidents
  <2>2. CASE ~UNCHANGED incidents
    <3> DEFINE row == [entity |-> Entity(g), state |-> "open",
                       severity |-> SeverityOf(verdict[g]), summary |-> verdict[g]]
    <3>1. incidents' = Append(incidents, row) /\ incidents \in Seq(Incident)
      BY <1>1, <2>2 DEF OpenIncident, TypeOK, TablesOK
    <3>2. row.entity = Entity(g)
      OBVIOUS
    <3> HIDE DEF row
    <3>3. /\ DOMAIN incidents' = DOMAIN incidents \cup {Len(incidents) + 1}
          /\ \A i \in DOMAIN incidents : incidents'[i] = incidents[i]
          /\ incidents'[Len(incidents) + 1].entity # e
      BY <3>1, <3>2
    <3> QED
      BY <3>3 DEF OpenIncidents
  <2> QED
    BY <2>1, <2>2
<1>2. CASE CloseIncident(g)
  <2>1. inc[g] \in DOMAIN incidents /\ incidents[inc[g]].entity = Entity(g)
    BY <1>2 DEF CloseIncident, Current, OpenIncidents
  <2>2. DOMAIN incidents' = DOMAIN incidents
    BY <1>2 DEF CloseIncident, TypeOK, TablesOK
  <2>3. \A i \in DOMAIN incidents : i # inc[g] => incidents'[i] = incidents[i]
    BY <1>2 DEF CloseIncident, TypeOK, TablesOK
  <2>4. incidents'[inc[g]].entity = Entity(g)
    <3>1. incidents[inc[g]] \in Incident
      BY <2>1, ElementType DEF TypeOK, TablesOK
    <3> QED
      BY <1>2, <2>1, <3>1 DEF CloseIncident, TypeOK, TablesOK, Incident
  <2> QED
    BY <2>1, <2>2, <2>3, <2>4 DEF OpenIncidents
<1>3. CASE ~OpenIncident(g) /\ ~CloseIncident(g)
  BY <1>3 DEF GoroutineStep, SelectRow, Probe, InsertCheck, RecordCheck, RecentChecks,
     HasOpenIncident, AddIncidentUpdate, GetIncident, PostIncident, tables, OpenIncidents
<1> QED
  BY <1>1, <1>2, <1>3

LEMMA ElsewhereChecks ==
  ASSUME TypeOK, NEW g \in Goroutines, GoroutineStep(g),
         NEW e \in Entities, e # Entity(g)
  PROVE  checks'[e] = checks[e]
<1>1. CASE InsertCheck(g)
  BY <1>1 DEF InsertCheck, TypeOK, TablesOK
<1>2. CASE ~InsertCheck(g)
  BY <1>2 DEF GoroutineStep, SelectRow, Probe, RecordCheck, RecentChecks, HasOpenIncident,
     OpenIncident, CloseIncident, AddIncidentUpdate, GetIncident, PostIncident, tables
<1> QED
  BY <1>1, <1>2

LEMMA WhoWritesIncidents ==
  ASSUME [Next]_vars
  PROVE  \/ UNCHANGED incidents
         \/ \E g \in Goroutines : OpenIncident(g) \/ CloseIncident(g)
BY DEF Next, GoroutineStep, StartRound, RunReturns, SelectRow, Probe, InsertCheck,
       RecordCheck, RecentChecks, HasOpenIncident, AddIncidentUpdate, GetIncident, PostIncident,
       Signal, Exit, Crash, Boot, ProcessEnds, vars, tables

-----------------------------------------------------------------------------
(***************************************************************************)
(* What a goroutine read is still true                                     *)
(***************************************************************************)

LEMMA CurrentInit == Init => ReadsAreCurrent
BY DEF Init, ReadsAreCurrent, OneRound, Current

LEMMA CurrentOfOthers ==
  ASSUME TypeOK, UniqueNames, ReadsAreCurrent, NEW g \in Goroutines, GoroutineStep(g),
         NEW h \in Goroutines, h # g
  PROVE  Current(h)'
<1>1. CASE pc[h] = "idle"
  BY <1>1, Untouched DEF Current
<1>2. CASE pc[h] # "idle"
  <2>1. Entity(h) \in Entities /\ Entity(h) # Entity(g)
    BY <1>2, AtWork, SoleWorker, EntityIn DEF ReadsAreCurrent
  <2>2. checks'[Entity(h)] = checks[Entity(h)]
    BY <2>1, ElsewhereChecks
  <2>3. OpenIncidents(Entity(h))' = OpenIncidents(Entity(h))
    BY <2>1, ElsewhereOpen DEF ReadsAreCurrent
  <2>4. Current(h)
    BY DEF ReadsAreCurrent
  <2> QED
    BY <2>2, <2>3, <2>4, Untouched DEF Current, NewestAre
<1> QED
  BY <1>1, <1>2

LEMMA NewestHead ==
  ASSUME NEW S, NEW rows \in Seq(S), NEW r \in S, NEW n \in Nat \ {0}
  PROVE  Newest(<<r>> \o rows, n) # <<>> /\ Newest(<<r>> \o rows, n)[1] = r
BY DEF Newest

LEMMA NewestIsPrefix ==
  ASSUME NEW S, NEW rows \in Seq(S), NEW n \in Nat
  PROVE  /\ Len(Newest(rows, n)) <= Len(rows)
         /\ \A k \in 1..Len(Newest(rows, n)) : Newest(rows, n)[k] = rows[k]
BY DEF Newest

(***************************************************************************)
(* A threshold reached in the rows read is reached in the table.           *)
(***************************************************************************)
LEMMA RunInTable ==
  ASSUME TypeOK, NEW g \in Goroutines, Current(g), pc[g] = "decide",
         NEW ok \in BOOLEAN, NEW n \in Nat, CountConsecutive(recent[g], ok) >= n
  PROVE  NewestAre(Entity(g), n, ok)
<1> DEFINE rows == checks[Entity(g)]
<1>1. rows \in Seq(Causes) /\ recent[g] \in Seq(Causes)
  BY EntityIn DEF TypeOK, TablesOK, LocalsOK
<1>2. recent[g] = Newest(rows, ReadLimit)
  BY DEF Current
<1>3. Len(recent[g]) >= n /\ \A k \in 1..n : (recent[g][k] = "ok") = ok
  BY <1>1, RunReached
<1>4. /\ Len(recent[g]) <= Len(rows)
      /\ \A k \in 1..Len(recent[g]) : recent[g][k] = rows[k]
  BY <1>1, <1>2, NewestIsPrefix, ThresholdAssumption DEF ReadLimit
<1> HIDE DEF rows
<1>5. Len(rows) >= n /\ \A k \in 1..n : (rows[k] = "ok") = ok
  BY <1>1, <1>3, <1>4
<1> QED
  BY <1>5 DEF NewestAre, rows

LEMMA CurrentAfterInsert ==
  ASSUME TypeOK, NEW g \in Goroutines, InsertCheck(g) PROVE Current(g)'
<1>1. CASE Finish(g)
  BY <1>1 DEF Finish, Goto, Current, TypeOK, LocalsOK
<1>2. CASE ~Finish(g)
  <2>1. checks[Entity(g)] \in Seq(Causes) /\ outcome[g].cause \in Causes
    BY EntityIn DEF InsertCheck, TypeOK, TablesOK, WorkOK, Outcomes
  <2>2. HistoryKept \in Nat \ {0}
    BY ConfigAssumption, ThresholdAssumption
  <2>3. checks'[Entity(g)] = Newest(<<outcome[g].cause>> \o checks[Entity(g)], HistoryKept)
    BY <1>2, EntityIn DEF InsertCheck, TypeOK, TablesOK
  <2>4. checks'[Entity(g)] # <<>> /\ checks'[Entity(g)][1] = outcome[g].cause
    BY <2>1, <2>2, <2>3, NewestHead
  <2>5. pc'[g] = "record" /\ outcome'[g] = outcome[g]
    BY <1>2 DEF InsertCheck, Goto, TypeOK, LocalsOK
  <2> QED
    BY <2>4, <2>5 DEF Current
<1> QED
  BY <1>1, <1>2

LEMMA CurrentAfterDecision ==
  ASSUME TypeOK, NEW g \in Goroutines, Current(g), HasOpenIncident(g)
  PROVE  Current(g)'
<1> DEFINE e == Entity(g)
<1>1. pc[g] = "decide" /\ UNCHANGED <<checks, incidents>>
  BY DEF HasOpenIncident, tables
<1>2. CASE Finish(g)
  BY <1>2 DEF Finish, Goto, Current, TypeOK, LocalsOK
<1>3. ASSUME NEW i \in OpenIncidents(e), Recovered(outcome[g], recent[g]),
             Decide(g, "recovered", i, "close")
      PROVE  Current(g)'
  <2>1. NewestAre(e, RecoveriesForClose, TRUE)
    BY <1>1, <1>3, RunInTable, ThresholdAssumption DEF Recovered
  <2>2. pc'[g] = "close" /\ inc'[g] = i
    BY <1>3 DEF Decide, Goto, TypeOK, LocalsOK
  <2> QED
    BY <1>1, <1>3, <2>1, <2>2 DEF Current, NewestAre, OpenIncidents
<1>4. ASSUME NEW v \in OpeningVerdicts(Type(g), outcome[g], recent[g]),
             OpenIncidents(e) = {}, Decide(g, v, 0, "open")
      PROVE  Current(g)'
  <2>1. pc'[g] = "open" /\ verdict'[g] = v
    BY <1>4 DEF Decide, Goto, TypeOK, LocalsOK
  <2>2. CASE v = "down"
    <3>1. NewestAre(e, ConsecutiveFailuresForIncident, FALSE)
      BY <1>1, <1>4, <2>2, RunInTable, ThresholdAssumption DEF OpeningVerdicts, Down
    <3> QED
      BY <1>1, <1>4, <2>1, <2>2, <3>1 DEF Current, NewestAre, OpenIncidents
  <2>3. CASE v # "down"
    <3>1. Success(outcome[g])
      BY <1>4, <2>3 DEF OpeningVerdicts, LatencyCritical, LatencyElevated
    <3>2. checks[e] \in Seq(Causes) /\ checks[e] # <<>> /\ checks[e][1] = "ok"
      BY <1>1, <3>1, EntityIn DEF Current, Success, TypeOK, TablesOK
    <3>3. NewestAre(e, 1, TRUE)
      BY <3>2 DEF NewestAre
    <3> QED
      BY <1>1, <1>4, <2>1, <2>3, <3>3 DEF Current, NewestAre, OpenIncidents
  <2> QED
    BY <2>2, <2>3
<1> QED
  BY <1>2, <1>3, <1>4 DEF HasOpenIncident

LEMMA CurrentOfSelf ==
  ASSUME TypeOK, NEW g \in Goroutines, Current(g), GoroutineStep(g)
  PROVE  Current(g)'
<1>1. CASE SelectRow(g) \/ Probe(g) \/ RecordCheck(g)
  BY <1>1 DEF SelectRow, Probe, RecordCheck, tables, Goto, Current, TypeOK, LocalsOK
<1>2. CASE InsertCheck(g)
  BY <1>2, CurrentAfterInsert
<1>3. CASE RecentChecks(g)
  BY <1>3 DEF RecentChecks, tables, Finish, Goto, Current, TypeOK, LocalsOK
<1>4. CASE HasOpenIncident(g)
  BY <1>4, CurrentAfterDecision
<1>5. CASE \/ OpenIncident(g) \/ CloseIncident(g) \/ AddIncidentUpdate(g)
           \/ GetIncident(g) \/ PostIncident(g)
  <2>1. pc'[g] \in {"idle", "note", "fetch", "post"}
    BY <1>5 DEF OpenIncident, CloseIncident, AddIncidentUpdate, GetIncident, PostIncident,
                Finish, Goto, TypeOK, LocalsOK
  <2> QED
    BY <2>1 DEF Current
<1> QED
  BY <1>1, <1>2, <1>3, <1>4, <1>5 DEF GoroutineStep

LEMMA CurrentStep ==
  ASSUME TypeOK, UniqueNames, ReadsAreCurrent, [Next]_vars
  PROVE  ReadsAreCurrent'
<1>1. OneRound'
  BY OneRoundStep DEF ReadsAreCurrent
<1>2. ASSUME NEW g \in Goroutines, GoroutineStep(g), NEW h \in Goroutines
      PROVE  Current(h)'
  BY <1>2, CurrentOfOthers, CurrentOfSelf DEF ReadsAreCurrent
<1>3. ASSUME StartRound, NEW h \in Goroutines PROVE Current(h)'
  <2>1. pc'[h] \in {"idle", "ensure"}
    BY <1>3 DEF StartRound, RoundOver
  <2> QED
    BY <2>1 DEF Current
<1>4. ASSUME RunReturns \/ Signal \/ Boot \/ UNCHANGED vars, NEW h \in Goroutines
      PROVE  Current(h)'
  BY <1>4 DEF RunReturns, Signal, Boot, vars, tables, goroutines, ReadsAreCurrent,
              Current, NewestAre, OpenIncidents
<1>5. ASSUME Exit \/ Crash, NEW h \in Goroutines PROVE Current(h)'
  BY <1>5 DEF Exit, Crash, ProcessEnds, LoseGoroutines, Current
<1> QED
  BY <1>1, <1>2, <1>3, <1>4, <1>5 DEF Next, ReadsAreCurrent

(***************************************************************************)
(* With unique names, whatever a goroutine read of its entity still holds  *)
(* when it acts on it.                                                     *)
(***************************************************************************)
THEOREM ReadsStayCurrent ==
  ASSUME UniqueNames PROVE Spec => []ReadsAreCurrent
<1>1. TypeOK /\ ReadsAreCurrent /\ [Next]_vars => ReadsAreCurrent'
  BY CurrentStep
<1> QED
  BY CurrentInit, TypeCorrect, <1>1, PTL DEF Spec
-----------------------------------------------------------------------------
(***************************************************************************)
(* What follows                                                            *)
(***************************************************************************)

(***************************************************************************)
(* README.md's deduplication: at most one open incident per entity, if the *)
(* configuration gives no two entries the same name.                       *)
(***************************************************************************)
THEOREM Deduplication ==
  ASSUME UniqueNames PROVE Spec => []OneOpenPerEntity
<1>1. Init => OneOpenPerEntity
  BY DEF Init, OneOpenPerEntity
<1>2. ASSUME TypeOK, ReadsAreCurrent, OneOpenPerEntity, [Next]_vars
      PROVE  OneOpenPerEntity'
  <2>1. CASE UNCHANGED incidents
    BY <1>2, <2>1 DEF OneOpenPerEntity
  <2>2. ASSUME NEW g \in Goroutines, OpenIncident(g), ~UNCHANGED incidents
        PROVE  OneOpenPerEntity'
    <3>1. \A i \in DOMAIN incidents :
            incidents[i].entity = Entity(g) => incidents[i].state # "open"
      BY <1>2, <2>2 DEF OpenIncident, ReadsAreCurrent, Current, OpenIncidents
    <3>2. /\ DOMAIN incidents' = DOMAIN incidents \cup {Len(incidents) + 1}
          /\ \A i \in DOMAIN incidents : incidents'[i] = incidents[i]
          /\ incidents'[Len(incidents) + 1].entity = Entity(g)
      <4> DEFINE row == [entity |-> Entity(g), state |-> "open",
                         severity |-> SeverityOf(verdict[g]), summary |-> verdict[g]]
      <4>1. incidents' = Append(incidents, row) /\ incidents \in Seq(Incident)
        BY <1>2, <2>2 DEF OpenIncident, TypeOK, TablesOK
      <4>2. row.entity = Entity(g)
        OBVIOUS
      <4> HIDE DEF row
      <4> QED
        BY <4>1, <4>2
    <3> QED
      <4> SUFFICES ASSUME NEW i \in DOMAIN incidents', NEW j \in DOMAIN incidents',
                          incidents'[i].state = "open", incidents'[j].state = "open",
                          incidents'[i].entity = incidents'[j].entity
                   PROVE  i = j
        BY DEF OneOpenPerEntity
      <4>1. CASE i \in DOMAIN incidents /\ j \in DOMAIN incidents
        BY <1>2, <3>2, <4>1 DEF OneOpenPerEntity
      <4>2. CASE ~(i \in DOMAIN incidents /\ j \in DOMAIN incidents)
        BY <3>1, <3>2, <4>2
      <4> QED
        BY <4>1, <4>2
  <2>3. ASSUME NEW g \in Goroutines, CloseIncident(g), ~UNCHANGED incidents
        PROVE  OneOpenPerEntity'
    <3>1. inc[g] \in DOMAIN incidents /\ incidents[inc[g]] \in Incident
      BY <1>2, <2>3, ElementType DEF CloseIncident, TypeOK, TablesOK, WorkOK
    <3>2. /\ DOMAIN incidents' = DOMAIN incidents
          /\ \A i \in DOMAIN incidents : i # inc[g] => incidents'[i] = incidents[i]
      BY <1>2, <2>3 DEF CloseIncident, TypeOK, TablesOK
    <3>3. incidents'[inc[g]].state = "closed"
      BY <1>2, <2>3, <3>1 DEF CloseIncident, TypeOK, TablesOK, Incident
    <3> QED
      BY <1>2, <3>1, <3>2, <3>3 DEF OneOpenPerEntity
  <2> QED
    BY <1>2, <2>1, <2>2, <2>3, WhoWritesIncidents
<1> QED
  BY <1>1, <1>2, TypeCorrect, ReadsStayCurrent, PTL DEF Spec

(* An incident appears when the newest rows of its entity call for it. *)
LEMMA NewIncident ==
  ASSUME TypeOK, ReadsAreCurrent, [Next]_vars,
         NEW i \in DOMAIN incidents' \ DOMAIN incidents
  PROVE  /\ IF incidents'[i].summary = "down"
              THEN NewestAre(incidents'[i].entity, ConsecutiveFailuresForIncident, FALSE)
              ELSE NewestAre(incidents'[i].entity, 1, TRUE)
         /\ UNCHANGED checks
<1>1. PICK g \in Goroutines : OpenIncident(g)
  <2>1. ASSUME NEW g \in Goroutines, CloseIncident(g) PROVE FALSE
    BY <2>1 DEF CloseIncident, TypeOK, TablesOK
  <2> QED
    BY <2>1, WhoWritesIncidents
<1>2. /\ i = Len(incidents) + 1
      /\ incidents'[i].entity = Entity(g) /\ incidents'[i].summary = verdict[g]
  BY <1>1 DEF OpenIncident, TypeOK, TablesOK
<1>3. IF verdict[g] = "down"
        THEN NewestAre(Entity(g), ConsecutiveFailuresForIncident, FALSE)
        ELSE NewestAre(Entity(g), 1, TRUE)
  BY <1>1 DEF OpenIncident, ReadsAreCurrent, Current
<1>4. UNCHANGED checks
  BY <1>1 DEF OpenIncident
<1> QED
  BY <1>2, <1>3, <1>4

(* An incident changes from open to closed, when the newest rows call for it. *)
LEMMA ChangedIncident ==
  ASSUME TypeOK, ReadsAreCurrent, [Next]_vars,
         NEW i \in DOMAIN incidents, incidents'[i] # incidents[i]
  PROVE  /\ incidents[i].state = "open" /\ incidents'[i].state = "closed"
         /\ NewestAre(incidents[i].entity, RecoveriesForClose, TRUE)
<1>1. PICK g \in Goroutines : CloseIncident(g)
  <2>1. ASSUME NEW g \in Goroutines, OpenIncident(g) PROVE FALSE
    BY <2>1 DEF OpenIncident, TypeOK, TablesOK
  <2> QED
    BY <2>1, WhoWritesIncidents
<1>2. i = inc[g] /\ incidents[i] \in Incident
  BY <1>1, ElementType DEF CloseIncident, TypeOK, TablesOK
<1>3. incidents'[i].state = "closed"
  BY <1>1, <1>2 DEF CloseIncident, TypeOK, TablesOK, Incident
<1>4. i \in OpenIncidents(Entity(g)) /\ NewestAre(Entity(g), RecoveriesForClose, TRUE)
  BY <1>1, <1>2 DEF CloseIncident, ReadsAreCurrent, Current
<1> QED
  BY <1>3, <1>4 DEF OpenIncidents

(***************************************************************************)
(* Every incident row is inserted while the newest rows of its entity are  *)
(* the failures, or the success, that called for it.                       *)
(***************************************************************************)
THEOREM OpeningsAreJustified ==
  ASSUME UniqueNames PROVE Spec => OpenJustified
<1>1. TypeOK /\ ReadsAreCurrent /\ [Next]_vars =>
        [\A i \in DOMAIN incidents' \ DOMAIN incidents :
           LET row == incidents'[i]
           IN  IF row.summary = "down"
                 THEN NewestAre(row.entity, ConsecutiveFailuresForIncident, FALSE)
                 ELSE NewestAre(row.entity, 1, TRUE)]_vars
  BY NewIncident
<1> QED
  BY <1>1, TypeCorrect, ReadsStayCurrent, PTL DEF Spec, OpenJustified

(***************************************************************************)
(* Every incident that changes was open and is closed, while the newest    *)
(* rows of its entity are as many successes as recoveries_for_close asks.  *)
(***************************************************************************)
THEOREM ClosingsAreJustified ==
  ASSUME UniqueNames PROVE Spec => CloseJustified
<1>1. TypeOK /\ ReadsAreCurrent /\ [Next]_vars =>
        [\A i \in DOMAIN incidents :
           incidents'[i] # incidents[i] =>
             /\ incidents[i].state = "open" /\ incidents'[i].state = "closed"
             /\ NewestAre(incidents[i].entity, RecoveriesForClose, TRUE)]_vars
  BY ChangedIncident
<1> QED
  BY <1>1, TypeCorrect, ReadsStayCurrent, PTL DEF Spec, CloseJustified
=============================================================================
