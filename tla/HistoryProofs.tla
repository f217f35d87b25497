--------------------------- MODULE HistoryProofs ---------------------------
(***************************************************************************)
(* What holds from round to round, for every set of configurations with    *)
(* unique names: the registry holds what is configured, the gauge says what*)
(* the newest stored check said, and an incident opened by failures is not *)
(* closed by successes from before its opening.                            *)
(***************************************************************************)
EXTENDS RoundProofs, MonitorHistory

(***************************************************************************)
(* A goroutine is past its EnsureProvider once it stores a check; without  *)
(* a fault its entry's URL is then in the table, and stays there, since no *)
(* other goroutine writes that row.                                        *)
(***************************************************************************)
Ensured(g) ==
  /\ pc[g] = "create" => registered[Entity(g)] = {}
  /\ pc[g] # "probe"
  /\ pc[g] \notin {"idle", "ensure", "create", "refresh"} => registered[Entity(g)] = {g[1]}

Registered ==
  /\ mode = "up" /\ faults = 0 =>
       /\ \A g \in Goroutines : Ensured(g)
       /\ \A t \in configured :
            metric[EntityOf[t]] # "unset" => registered[EntityOf[t]] = {t}
  /\ mode = "down" =>
       /\ \A g \in Goroutines : pc[g] = "idle"
       /\ \A e \in Entities : metric[e] = "unset"

LEMMA RegisteredInit == Init => Registered
<1> SUFFICES ASSUME Init PROVE Registered
  OBVIOUS
<1>1. \A g \in Goroutines : Ensured(g)
  BY DEF Init, Ensured
<1>2. ASSUME NEW t \in configured PROVE metric[EntityOf[t]] = "unset"
  <2>1. t \in Tasks
    BY ConfigAssumption DEF Init
  <2> QED
    BY <2>1, ConfigAssumption DEF Init
<1> QED
  BY <1>1, <1>2 DEF Init, Registered

LEMMA WhoRegisters ==
  ASSUME TypeOK, NEW g \in Goroutines, GoroutineStep(g)
  PROVE  /\ \A e \in Entities : e # Entity(g) => registered'[e] = registered[e]
         /\ ~Probe(g) => registered' = registered
         /\ \A e \in Entities : e # Entity(g) \/ ~RecordCheck(g) => metric'[e] = metric[e]
         /\ faults' = 0 => faults = 0
         /\ mode = "up" /\ faults' = 0 => ~StmtFails
BY DEF GoroutineStep, SelectRow, Probe, WriteRow, InsertCheck, RecordCheck, RecentChecks,
       HasOpenIncident, OpenIncident, CloseIncident, AddIncidentUpdate, GetIncident,
       PostIncident, tables, outside, process, TypeOK, TablesOK, StmtFails, Fault, CtxDone, Decide

(***************************************************************************)
(* A goroutine's own way through EnsureProvider, while nothing fails.      *)
(***************************************************************************)
LEMMA EnsuredSelf ==
  ASSUME TypeOK, NEW g \in Goroutines, Ensured(g), GoroutineStep(g),
         mode = "up", faults = 0, faults' = 0
  PROVE  /\ Ensured(g)'
         /\ registered'[Entity(g)] = registered[Entity(g)] \/ registered'[Entity(g)] = {g[1]}
<1>1. ~StmtFails
  BY WhoRegisters
<1>2. registered \in [Entities -> SUBSET Tasks] /\ pc \in [Goroutines -> Labels]
  BY DEF TypeOK, TablesOK, LocalsOK
<1>3. CASE SelectRow(g)
  BY <1>1, <1>2, <1>3 DEF SelectRow, Goto, MissingRow, tables, Ensured
<1>4. CASE Probe(g)
  <2>1. registered'[Entity(g)] = {g[1]}
    <3>1. CASE pc[g] = "create"
      BY <1>1, <1>2, <1>4, <3>1, EntityIn DEF Probe, WriteRow, OwnUrl, Ensured
    <3>2. CASE pc[g] = "refresh"
      BY <1>1, <1>2, <1>4, <3>2, EntityIn DEF Probe, WriteRow, OwnUrl, Ensured
    <3> QED
      BY <1>4, <3>1, <3>2 DEF Probe, WriteRow, Ensured
  <2>2. pc'[g] = "insert"
    BY <1>2, <1>4 DEF Probe, Goto
  <2> QED
    BY <2>1, <2>2 DEF Ensured
<1>5. CASE ~SelectRow(g) /\ ~Probe(g)
  <2>1. pc[g] \notin {"idle", "ensure", "create", "refresh"}
    BY <1>5 DEF GoroutineStep, InsertCheck, RecordCheck, RecentChecks, HasOpenIncident,
                OpenIncident, CloseIncident, AddIncidentUpdate, GetIncident, PostIncident
  <2>2. UNCHANGED registered
    BY <1>5, WhoRegisters
  <2>3. pc'[g] \notin {"create", "probe"}
    BY <1>2, <1>5 DEF GoroutineStep, InsertCheck, RecordCheck, RecentChecks, HasOpenIncident,
                OpenIncident, CloseIncident, AddIncidentUpdate, GetIncident, PostIncident,
                Decide, Goto, Finish
  <2> QED
    BY <2>1, <2>2, <2>3 DEF Ensured
<1> QED
  BY <1>3, <1>4, <1>5

LEMMA RegisteredByGoroutine ==
  ASSUME TypeOK, UniqueNames, OneRound, Registered,
         NEW g \in Goroutines, GoroutineStep(g)
  PROVE  Registered'
<1>1. mode # "down" /\ g[1] \in configured /\ pc[g] # "idle"
  BY AtWork DEF OneRound
<1>2. UNCHANGED <<mode, configured>>
  BY SameProcess DEF GoroutineStep
<1> SUFFICES ASSUME mode = "up", faults' = 0
             PROVE  /\ \A h \in Goroutines : Ensured(h)'
                    /\ \A t \in configured :
                         metric'[EntityOf[t]] # "unset" => registered'[EntityOf[t]] = {t}
  BY <1>1, <1>2 DEF Registered
<1>3. faults = 0
  BY WhoRegisters
<1>4. Ensured(g)'
  BY <1>3, EnsuredSelf DEF Registered
<1>5. ASSUME NEW h \in Goroutines, h # g PROVE Ensured(h)'
  <2>1. pc'[h] = pc[h]
    BY <1>5, Untouched
  <2>2. CASE pc[h] = "idle"
    BY <2>1, <2>2 DEF Ensured
  <2>3. CASE pc[h] # "idle"
    <3>1. Entity(h) # Entity(g)
      BY <1>1, <1>5, <2>3, SoleWorker
    <3>2. registered'[Entity(h)] = registered[Entity(h)]
      BY <3>1, EntityIn, WhoRegisters
    <3> QED
      BY <1>3, <2>1, <3>2 DEF Ensured, Registered
  <2> QED
    BY <2>2, <2>3
<1>6. ASSUME NEW t \in configured, metric'[EntityOf[t]] # "unset"
      PROVE  registered'[EntityOf[t]] = {t}
  <2>1. EntityOf[t] \in Entities
    BY ConfigAssumption DEF TypeOK, TablesOK
  <2>2. CASE EntityOf[t] # Entity(g)
    BY <1>3, <1>6, <2>1, <2>2, WhoRegisters DEF Registered
  <2>3. CASE EntityOf[t] = Entity(g)
    <3>1. t = g[1]
      BY <1>1, <2>3 DEF UniqueNames, Entity, TypeOK, TablesOK
    <3>2. CASE RecordCheck(g)
      <4>1. pc[g] = "record" /\ ~Probe(g)
        BY <3>2 DEF RecordCheck, Probe, WriteRow
      <4> QED
        BY <1>3, <2>3, <3>1, <4>1, WhoRegisters DEF Ensured, Registered
    <3>3. CASE ~RecordCheck(g)
      <4>1. metric[EntityOf[t]] # "unset"
        BY <1>6, <2>1, <3>3, WhoRegisters
      <4> QED
        BY <1>3, <2>3, <3>1, <4>1, EnsuredSelf DEF Registered
    <3> QED
      BY <3>2, <3>3
  <2> QED
    BY <2>2, <2>3
<1> QED
  BY <1>4, <1>5, <1>6

LEMMA RegisteredStep ==
  ASSUME TypeOK, UniqueNames, OneRound, Registered, [Next]_vars
  PROVE  Registered'
<1>1. ASSUME NEW g \in Goroutines, GoroutineStep(g) PROVE Registered'
  BY <1>1, RegisteredByGoroutine
<1>2. CASE StartRound
  BY <1>2 DEF StartRound, RoundOver, tables, outside, process, Registered, Ensured
<1>3. CASE RunReturns \/ Signal
  BY <1>3 DEF RunReturns, Signal, Registered
<1>4. CASE Exit \/ Crash
  BY <1>4 DEF Exit, Crash, ProcessEnds, LoseGoroutines, Registered
<1>5. CASE Boot
  <2>1. \A t \in configured' : EntityOf[t] \in Entities
    BY <1>5, ConfigAssumption DEF Boot
  <2> QED
    BY <1>5, <2>1 DEF Boot, tables, outside, goroutines, Registered, Ensured
<1>6. CASE UNCHANGED vars
  BY <1>6 DEF vars, tables, outside, process, goroutines, Registered, Ensured
<1> QED
  BY <1>1, <1>2, <1>3, <1>4, <1>5, <1>6 DEF Next

(***************************************************************************)
(* EnsureProvider and EnsureDapp: while no statement failed, an entry that *)
(* was checked since the start has its own URL in its table.               *)
(***************************************************************************)
THEOREM RegistryHoldsConfiguration ==
  ASSUME UniqueNames PROVE Spec => []RegistryFollows
<1>1. TypeOK /\ ReadsAreCurrent /\ Registered /\ [Next]_vars => Registered'
  BY RegisteredStep DEF ReadsAreCurrent
<1>2. Registered => RegistryFollows
  BY DEF Registered, RegistryFollows
<1> QED
  BY <1>1, <1>2, RegisteredInit, TypeCorrect, ReadsStayCurrent, PTL DEF Spec

-----------------------------------------------------------------------------
(***************************************************************************)
(* The gauge is behind the table only while the goroutine that stored the  *)
(* newest check has yet to record it.                                      *)
(***************************************************************************)
Agrees(e)    == (metric[e] = "ok") = (checks[e][1] = "ok")
Recording(e) == \E g \in Goroutines : Entity(g) = e /\ pc[g] = "record"

GaugeFollows ==
  \A e \in Entities : metric[e] # "unset" => checks[e] # <<>> /\ (Agrees(e) \/ Recording(e))

LEMMA GaugeByGoroutine ==
  ASSUME TypeOK, UniqueNames, ReadsAreCurrent, GaugeFollows,
         NEW g \in Goroutines, GoroutineStep(g), NEW e \in Entities, metric'[e] # "unset"
  PROVE  checks'[e] # <<>> /\ (Agrees(e)' \/ Recording(e)')
<1>1. CASE e # Entity(g)
  <2>1. metric'[e] = metric[e] /\ checks'[e] = checks[e]
    BY <1>1, WhoRegisters, ElsewhereChecks
  <2>2. Recording(e) => Recording(e)'
    BY <1>1, Untouched DEF Recording, Entity
  <2> QED
    BY <2>1, <2>2 DEF GaugeFollows, Agrees
<1>2. CASE e = Entity(g) /\ InsertCheck(g)
  <2>1. CASE Finish(g)
    <3>1. UNCHANGED checks /\ metric'[e] = metric[e]
      BY <1>2, <2>1 DEF InsertCheck, Finish, Goto, outside, TypeOK, LocalsOK, Labels
    <3>2. ~Recording(e)
      BY <1>2, AtWork, SoleWorker DEF Recording, InsertCheck, ReadsAreCurrent
    <3> QED
      BY <3>1, <3>2 DEF GaugeFollows, Agrees
  <2>2. CASE ~Finish(g)
    <3>1. pc'[g] = "record"
      BY <1>2, <2>2 DEF InsertCheck, Goto, TypeOK, LocalsOK
    <3>2. Current(g)'
      BY <1>2, CurrentAfterInsert
    <3> QED
      BY <1>2, <3>1, <3>2 DEF Current, Recording, Entity
  <2> QED
    BY <2>1, <2>2
<1>3. CASE e = Entity(g) /\ RecordCheck(g)
  <2>1. checks[e] # <<>> /\ checks[e][1] = outcome[g].cause
    BY <1>3 DEF RecordCheck, ReadsAreCurrent, Current
  <2>2. checks' = checks /\ metric'[e] = IF Success(outcome[g]) THEN "ok" ELSE "fail"
    BY <1>3 DEF RecordCheck, tables, TypeOK, TablesOK
  <2> QED
    BY <2>1, <2>2 DEF Agrees, Success
<1>4. CASE e = Entity(g) /\ ~InsertCheck(g) /\ ~RecordCheck(g)
  <2>1. checks' = checks /\ metric'[e] = metric[e]
    BY <1>4, WhoRegisters DEF GoroutineStep, SelectRow, Probe, RecentChecks, HasOpenIncident,
       OpenIncident, CloseIncident, AddIncidentUpdate, GetIncident, PostIncident, tables
  <2>2. ~Recording(e)
    <3>1. pc[g] # "record"
      BY <1>4 DEF GoroutineStep, SelectRow, Probe, WriteRow, RecentChecks, HasOpenIncident,
         OpenIncident, CloseIncident, AddIncidentUpdate, GetIncident, PostIncident
    <3> QED
      BY <1>4, <3>1, AtWork, SoleWorker DEF Recording, ReadsAreCurrent
  <2> QED
    BY <2>1, <2>2 DEF GaugeFollows, Agrees
<1> QED
  BY <1>1, <1>2, <1>3, <1>4

LEMMA GaugeStep ==
  ASSUME TypeOK, UniqueNames, ReadsAreCurrent, GaugeFollows, [Next]_vars
  PROVE  GaugeFollows'
<1>1. ASSUME NEW g \in Goroutines, GoroutineStep(g) PROVE GaugeFollows'
  BY <1>1, GaugeByGoroutine DEF GaugeFollows
<1>2. CASE StartRound
  BY <1>2 DEF StartRound, RoundOver, tables, outside, GaugeFollows, Agrees, Recording
<1>3. CASE RunReturns \/ Signal \/ Boot \/ UNCHANGED vars
  BY <1>3 DEF RunReturns, Signal, Boot, vars, tables, outside, goroutines,
              GaugeFollows, Agrees, Recording
<1>4. CASE Exit \/ Crash
  BY <1>4 DEF Exit, Crash, ProcessEnds, GaugeFollows
<1> QED
  BY <1>1, <1>2, <1>3, <1>4 DEF Next

(***************************************************************************)
(* RecordCheck, called after InsertCheck: between two rounds the gauge of  *)
(* an entity agrees with its newest stored check.                          *)
(***************************************************************************)
THEOREM GaugeAgrees ==
  ASSUME UniqueNames PROVE Spec => []GaugeIsLastCheck
<1>1. Init => GaugeFollows
  BY DEF Init, GaugeFollows
<1>2. TypeOK /\ ReadsAreCurrent /\ GaugeFollows /\ [Next]_vars => GaugeFollows'
  BY GaugeStep
<1>3. GaugeFollows => GaugeIsLastCheck
  BY DEF GaugeFollows, GaugeIsLastCheck, Quiet, Recording, Agrees
<1> QED
  BY <1>1, <1>2, <1>3, TypeCorrect, ReadsStayCurrent, PTL DEF Spec

-----------------------------------------------------------------------------
(***************************************************************************)
(* Why nothing is missed: the engine owes an answer to the newest rows of  *)
(* an entity only while the goroutine that stored the newest of them is on *)
(* its way from InsertCheck to the statement that opens or closes.         *)
(***************************************************************************)
Answering(e) ==
  \E g \in Goroutines :
    Entity(g) = e /\ pc[g] \in {"record", "recent", "decide", "open", "close"}

NothingForgotten ==
  mode = "up" /\ faults = 0 =>
    \A e \in Entities : metric[e] # "unset" => Answered(e) \/ Answering(e)

LEMMA NotBoth ==
  ASSUME NEW e, NEW m \in Nat \ {0}, NEW n \in Nat \ {0},
         NewestAre(e, m, FALSE), NewestAre(e, n, TRUE)
  PROVE  FALSE
BY DEF NewestAre

(* A threshold reached in the table is reached in the rows read. *)
LEMMA RunIsRead ==
  ASSUME TypeOK, NEW g \in Goroutines, Current(g), pc[g] = "decide",
         NEW ok \in BOOLEAN, NEW n \in Nat, n <= ReadLimit, NewestAre(Entity(g), n, ok)
  PROVE  CountConsecutive(recent[g], ok) >= n
<1> DEFINE rows == checks[Entity(g)]
<1>1. rows \in Seq(Causes) /\ recent[g] \in Seq(Causes) /\ ReadLimit \in Nat
  BY EntityIn, ThresholdAssumption DEF TypeOK, TablesOK, LocalsOK, ReadLimit
<1>2. recent[g] = Newest(rows, ReadLimit)
  BY DEF Current
<1>3. Len(rows) >= n /\ \A k \in 1..n : (rows[k] = "ok") = ok
  BY DEF NewestAre
<1> HIDE DEF rows
<1>4. Len(recent[g]) >= n /\ \A k \in 1..n : recent[g][k] = rows[k]
  BY <1>1, <1>2, <1>3 DEF Newest
<1> DEFINE c == CountConsecutive(recent[g], ok)
<1>5. c \in 0..Len(recent[g]) /\ (c < Len(recent[g]) => (recent[g][c + 1] = "ok") # ok)
  BY <1>1, CountIsLongestRun
<1> HIDE DEF c
<1>6. ASSUME c < n PROVE FALSE
  <2>1. c + 1 \in 1..n /\ c < Len(recent[g])
    BY <1>1, <1>4, <1>5, <1>6
  <2> QED
    BY <1>3, <1>4, <1>5, <2>1
<1>7. c >= n
  BY <1>1, <1>5, <1>6
<1> QED
  BY <1>7 DEF c

(***************************************************************************)
(* The engine leaves an entity alone only if the table asks for nothing.   *)
(***************************************************************************)
LEMMA LeavingIsAnAnswer ==
  ASSUME TypeOK, NEW g \in Goroutines, Current(g), pc[g] = "decide",
         IF OpenIncidents(Entity(g)) = {}
           THEN OpeningVerdicts(Type(g), outcome[g], recent[g]) = {}
           ELSE ~Recovered(outcome[g], recent[g])
  PROVE  Answered(Entity(g))
<1> DEFINE e == Entity(g)
<1>1. /\ checks[e] \in Seq(Causes) /\ checks[e] # <<>> /\ checks[e][1] = outcome[g].cause
      /\ ConsecutiveFailuresForIncident \in Nat \ {0} /\ RecoveriesForClose \in Nat \ {0}
      /\ ConsecutiveFailuresForIncident <= ReadLimit /\ RecoveriesForClose <= ReadLimit
  BY EntityIn, ThresholdAssumption DEF TypeOK, TablesOK, Current, ReadLimit
<1>2. ASSUME NewestAre(e, ConsecutiveFailuresForIncident, FALSE) PROVE OpenIncidents(e) # {}
  <2>1. ~Success(outcome[g])
    BY <1>1, <1>2 DEF NewestAre, Success
  <2>2. Down(outcome[g], recent[g])
    BY <1>1, <1>2, <2>1, RunIsRead DEF Down
  <2>3. "down" \in OpeningVerdicts(Type(g), outcome[g], recent[g])
    BY <2>2 DEF OpeningVerdicts, Openings
  <2> QED
    BY <2>3
<1>3. ASSUME NewestAre(e, RecoveriesForClose, TRUE) PROVE OpenIncidents(e) = {}
  <2>1. Success(outcome[g])
    BY <1>1, <1>3 DEF NewestAre, Success
  <2>2. Recovered(outcome[g], recent[g])
    BY <1>1, <1>3, <2>1, RunIsRead DEF Recovered
  <2> QED
    BY <2>2
<1> QED
  BY <1>2, <1>3 DEF Answered

(***************************************************************************)
(* An incident of failures answers them; one of latency is opened when the *)
(* newest check is a success, so no failures ask for an answer.            *)
(***************************************************************************)
LEMMA OpeningIsAnAnswer ==
  ASSUME TypeOK, NEW g \in Goroutines, Current(g), OpenIncident(g), ~Finish(g)
  PROVE  Answered(Entity(g))'
<1> DEFINE e   == Entity(g)
           row == [entity |-> e, state |-> "open",
                   severity |-> SeverityOf(verdict[g]), summary |-> verdict[g]]
<1>1. /\ incidents' = Append(incidents, row) /\ incidents \in Seq(Incident)
      /\ checks' = checks
      /\ OpenIncidents(e) = {}
  BY DEF OpenIncident, Current, TypeOK, TablesOK
<1>2. row.entity = e /\ row.state = "open" /\ row.summary = verdict[g]
  OBVIOUS
<1>3. /\ ConsecutiveFailuresForIncident \in Nat \ {0}
      /\ RecoveriesForClose \in Nat \ {0} /\ 1 \in Nat \ {0}
  BY ThresholdAssumption
<1>4. NewestAre(e, ConsecutiveFailuresForIncident, FALSE)' = NewestAre(e, ConsecutiveFailuresForIncident, FALSE)
      /\ NewestAre(e, RecoveriesForClose, TRUE)' = NewestAre(e, RecoveriesForClose, TRUE)
  BY <1>1 DEF NewestAre
<1> HIDE DEF row
<1>5. /\ DOMAIN incidents' = DOMAIN incidents \cup {Len(incidents) + 1}
      /\ \A i \in DOMAIN incidents : incidents'[i] = incidents[i]
      /\ incidents'[Len(incidents) + 1] = row
  BY <1>1
<1>6. OpenIncidents(e)' = {Len(incidents) + 1}
  BY <1>1, <1>2, <1>5 DEF OpenIncidents
<1>7. CASE verdict[g] = "down"
  <2>1. ~NewestAre(e, RecoveriesForClose, TRUE)
    BY <1>3, <1>7, NotBoth DEF OpenIncident, Current
  <2> QED
    BY <1>4, <1>6, <2>1 DEF Answered
<1>8. CASE verdict[g] # "down"
  <2>1. ~NewestAre(e, ConsecutiveFailuresForIncident, FALSE)
    BY <1>3, <1>8, NotBoth DEF OpenIncident, Current
  <2> QED
    BY <1>2, <1>4, <1>5, <1>6, <1>8, <2>1 DEF Answered
<1> QED
  BY <1>7, <1>8

(* The only open incident of the entity is closed when its newest rows ask. *)
LEMMA ClosingIsAnAnswer ==
  ASSUME TypeOK, OneOpenPerEntity, NEW g \in Goroutines, Current(g),
         CloseIncident(g), ~Finish(g)
  PROVE  Answered(Entity(g))'
<1> DEFINE e == Entity(g)
<1>1. /\ inc[g] \in OpenIncidents(e) /\ NewestAre(e, RecoveriesForClose, TRUE)
      /\ checks' = checks
  BY DEF CloseIncident, Current
<1>2. ~NewestAre(e, ConsecutiveFailuresForIncident, FALSE)'
  <2>1. ~NewestAre(e, ConsecutiveFailuresForIncident, FALSE)
    BY <1>1, NotBoth, ThresholdAssumption
  <2> QED
    BY <1>1, <2>1 DEF NewestAre
<1>3. OpenIncidents(e)' = {}
  <2>1. inc[g] \in DOMAIN incidents /\ incidents[inc[g]] \in Incident
    BY <1>1, ElementType DEF OpenIncidents, TypeOK, TablesOK
  <2>2. /\ DOMAIN incidents' = DOMAIN incidents
        /\ \A i \in DOMAIN incidents : i # inc[g] => incidents'[i] = incidents[i]
    BY DEF CloseIncident, TypeOK, TablesOK
  <2>3. incidents'[inc[g]].state = "closed"
    BY <2>1 DEF CloseIncident, TypeOK, TablesOK, Incident
  <2>4. \A i \in OpenIncidents(e) : i = inc[g]
    BY <1>1 DEF OneOpenPerEntity, OpenIncidents
  <2> QED
    BY <2>2, <2>3, <2>4 DEF OpenIncidents
<1> QED
  BY <1>2, <1>3 DEF Answered

LEMMA ForgottenByGoroutine ==
  ASSUME TypeOK, UniqueNames, ReadsAreCurrent, OneOpenPerEntity, NothingForgotten,
         NEW g \in Goroutines, GoroutineStep(g), mode = "up", faults' = 0,
         NEW e \in Entities, metric'[e] # "unset"
  PROVE  Answered(e)' \/ Answering(e)'
<1>1. faults = 0 /\ ~StmtFails
  BY WhoRegisters
<1>2. CASE e # Entity(g)
  <2>1. metric'[e] = metric[e] /\ checks'[e] = checks[e]
    BY <1>2, WhoRegisters, ElsewhereChecks
  <2>2. \A i \in OpenIncidents(e)' : i \in DOMAIN incidents /\ incidents'[i] = incidents[i]
    <3>1. ASSUME NEW i \in OpenIncidents(e)' PROVE i \in DOMAIN incidents /\ incidents'[i] = incidents[i]
      <4>1. i \in OpenIncidents(e)
        BY <1>2, <3>1, ElsewhereOpen DEF ReadsAreCurrent
      <4>2. incidents'[i].state = "open"
        BY <3>1 DEF OpenIncidents
      <4> QED
        BY <4>1, <4>2, ChangedIncident DEF OpenIncidents, Next
    <3> QED
      BY <3>1
  <2>3. Answered(e) => Answered(e)'
    <3>1. OpenIncidents(e)' = OpenIncidents(e)
      BY <1>2, ElsewhereOpen DEF ReadsAreCurrent
    <3> QED
      BY <2>1, <2>2, <3>1 DEF Answered, NewestAre
  <2>4. Answering(e) => Answering(e)'
    BY <1>2, Untouched DEF Answering, Entity
  <2> QED
    BY <1>1, <2>1, <2>3, <2>4 DEF NothingForgotten
<1>3. CASE e = Entity(g) /\ pc'[g] \in {"record", "recent", "decide", "open", "close"}
  BY <1>3 DEF Answering, Entity
<1>4. CASE e = Entity(g) /\ pc'[g] \notin {"record", "recent", "decide", "open", "close"}
  <2>1. Current(g) /\ pc[g] # "idle" /\ pc \in [Goroutines -> Labels]
    BY AtWork DEF ReadsAreCurrent, TypeOK, LocalsOK
  <2>2. ~InsertCheck(g) /\ ~RecordCheck(g) /\ ~RecentChecks(g)
    BY <1>1, <1>4, <2>1 DEF InsertCheck, RecordCheck, RecentChecks, Goto
  <2>3. CASE HasOpenIncident(g)
    <3>1. IF OpenIncidents(e) = {}
            THEN OpeningVerdicts(Type(g), outcome[g], recent[g]) = {}
            ELSE ~Recovered(outcome[g], recent[g])
      BY <1>1, <1>4, <2>1, <2>3 DEF HasOpenIncident, Decide, Goto
    <3>2. Answered(e)
      BY <1>4, <2>1, <2>3, <3>1, LeavingIsAnAnswer DEF HasOpenIncident
    <3>3. UNCHANGED <<checks, incidents>>
      BY <2>3 DEF HasOpenIncident, tables
    <3> QED
      BY <3>2, <3>3 DEF Answered, NewestAre, OpenIncidents
  <2>4. CASE OpenIncident(g)
    <3>1. ~Finish(g)
      BY <1>1, <2>1, <2>4 DEF OpenIncident, Finish, Goto
    <3> QED
      BY <1>4, <2>1, <2>4, <3>1, OpeningIsAnAnswer
  <2>5. CASE CloseIncident(g)
    <3>1. ~Finish(g)
      BY <1>1, <2>1, <2>5 DEF CloseIncident, Finish, Goto
    <3> QED
      BY <1>4, <2>1, <2>5, <3>1, ClosingIsAnAnswer
  <2>6. CASE \/ SelectRow(g) \/ Probe(g) \/ AddIncidentUpdate(g)
             \/ GetIncident(g) \/ PostIncident(g)
    <3>1. pc[g] \notin {"record", "recent", "decide", "open", "close"}
      BY <2>6 DEF SelectRow, Probe, WriteRow, AddIncidentUpdate, GetIncident, PostIncident
    <3>2. ~Answering(e)
      BY <1>4, <2>1, <3>1, SoleWorker DEF Answering, ReadsAreCurrent
    <3>3. UNCHANGED <<checks, incidents, metric>>
      BY <2>6 DEF SelectRow, Probe, AddIncidentUpdate, GetIncident, PostIncident,
                  tables, outside
    <3>4. Answered(e)
      BY <1>1, <3>2, <3>3 DEF NothingForgotten
    <3> QED
      BY <3>3, <3>4 DEF Answered, NewestAre, OpenIncidents
  <2> QED
    BY <2>2, <2>3, <2>4, <2>5, <2>6 DEF GoroutineStep
<1> QED
  BY <1>2, <1>3, <1>4

LEMMA ForgottenStep ==
  ASSUME TypeOK, UniqueNames, ReadsAreCurrent, OneOpenPerEntity, Registered,
         NothingForgotten, [Next]_vars
  PROVE  NothingForgotten'
<1>1. ASSUME NEW g \in Goroutines, GoroutineStep(g) PROVE NothingForgotten'
  <2>1. mode' = mode
    BY <1>1, SameProcess
  <2> QED
    BY <1>1, <2>1, ForgottenByGoroutine DEF NothingForgotten
<1>2. CASE StartRound
  BY <1>2 DEF StartRound, RoundOver, tables, outside, process, NothingForgotten,
              Answered, Answering, NewestAre, OpenIncidents
<1>3. CASE RunReturns \/ Signal
  BY <1>3 DEF RunReturns, Signal, NothingForgotten
<1>4. CASE Exit \/ Crash
  BY <1>4 DEF Exit, Crash, ProcessEnds, NothingForgotten
<1>5. CASE Boot
  BY <1>5 DEF Boot, outside, Registered, NothingForgotten
<1>6. CASE UNCHANGED vars
  BY <1>6 DEF vars, tables, outside, process, goroutines, NothingForgotten,
              Answered, Answering, NewestAre, OpenIncidents
<1> QED
  BY <1>1, <1>2, <1>3, <1>4, <1>5, <1>6 DEF Next

(***************************************************************************)
(* The engine draws its consequence from the rows it reads, not from the   *)
(* check at hand alone: between two rounds of a process without failures   *)
(* no entity is down without an incident or recovered with one of failures.*)
(***************************************************************************)
THEOREM NothingIsMissed ==
  ASSUME UniqueNames PROVE Spec => []NothingMissed
<1>1. Init => NothingForgotten
  BY DEF Init, NothingForgotten
<1>2. /\ TypeOK /\ ReadsAreCurrent /\ OneOpenPerEntity /\ Registered
      /\ NothingForgotten /\ [Next]_vars
      => NothingForgotten'
  BY ForgottenStep
<1>3. TypeOK /\ ReadsAreCurrent /\ Registered /\ [Next]_vars => Registered'
  BY RegisteredStep DEF ReadsAreCurrent
<1>4. NothingForgotten => NothingMissed
  BY DEF NothingForgotten, NothingMissed, Quiet, Answering
<1> QED
  BY <1>1, <1>2, <1>3, <1>4, RegisteredInit, TypeCorrect, ReadsStayCurrent, Deduplication, PTL
     DEF Spec

-----------------------------------------------------------------------------
(***************************************************************************)
(* Why a recovery from failures is earned: an incident opened by failures  *)
(* has one among the rows of its entity that were stored since, or just    *)
(* before those, until as many checks as recoveries_for_close came after   *)
(* it.                                                                     *)
(***************************************************************************)
FailureInSight(i) ==
  LET rows == checks[incidents[i].entity]
  IN  /\ incidents[i].state = "open" /\ incidents[i].summary = "down"
      /\ since[i] < RecoveriesForClose
      => \E k \in 1..(since[i] + 1) : k \in DOMAIN rows /\ rows[k] # "ok"

FailuresInSight ==
  /\ DOMAIN since = DOMAIN incidents
  /\ \A i \in DOMAIN incidents : since[i] \in Nat /\ FailureInSight(i)

LEMMA InSightInit == Init /\ SinceInit => FailuresInSight
BY DEF Init, SinceInit, FailuresInSight

(* A history variable takes nothing away: what holds of Spec holds here. *)
LEMMA HistoryIsSpec == HistorySpec => Spec
<1>1. [Next /\ SinceStep]_historyVars => [Next]_vars
  BY DEF historyVars
<1> QED
  BY <1>1, PTL DEF HistorySpec, Spec

(***************************************************************************)
(* The rows of an entity change only by a check that is counted.           *)
(***************************************************************************)
LEMMA RowsOnlyPushed ==
  ASSUME TypeOK, [Next]_vars, NEW e \in Entities
  PROVE  \/ checks'[e] = checks[e] /\ ~Stored(e)
         \/ /\ Stored(e)
            /\ \E r \in Causes : checks'[e] = Newest(<<r>> \o checks[e], HistoryKept)
<1>1. ASSUME NEW g \in Goroutines, InsertCheck(g), ~Finish(g), Entity(g) = e
      PROVE  /\ Stored(e)
             /\ \E r \in Causes : checks'[e] = Newest(<<r>> \o checks[e], HistoryKept)
  <2>1. pc[g] = "insert" /\ pc'[g] = "record"
    BY <1>1 DEF InsertCheck, Goto, TypeOK, LocalsOK
  <2>2. outcome[g].cause \in Causes
    BY <1>1 DEF InsertCheck, TypeOK, WorkOK, Outcomes
  <2>3. checks'[e] = Newest(<<outcome[g].cause>> \o checks[e], HistoryKept)
    BY <1>1 DEF InsertCheck, TypeOK, TablesOK
  <2> QED
    BY <1>1, <2>1, <2>2, <2>3 DEF Stored
<1>2. ASSUME NEW g \in Goroutines, InsertCheck(g), ~(~Finish(g) /\ Entity(g) = e)
      PROVE  checks'[e] = checks[e] /\ ~Stored(e)
  <2>1. checks'[e] = checks[e]
    <3>1. CASE Entity(g) # e
      BY <1>2, <3>1, ElsewhereChecks DEF GoroutineStep
    <3>2. CASE Finish(g)
      <4>1. pc'[g] = "idle"
        BY <3>2 DEF Finish, Goto, TypeOK, LocalsOK
      <4>2. pc'[g] # "record"
        BY <4>1
      <4> QED
        BY <1>2, <4>2 DEF InsertCheck, Goto, TypeOK, LocalsOK
    <3> QED
      BY <1>2, <3>1, <3>2
  <2>2. ASSUME NEW h \in Goroutines, Entity(h) = e, pc[h] = "insert", pc'[h] = "record"
        PROVE  FALSE
    <3>1. h = g
      BY <1>2, <2>2, Untouched DEF GoroutineStep
    <3> QED
      BY <1>2, <2>2, <3>1 DEF Finish, Goto, TypeOK, LocalsOK
  <2> QED
    BY <2>1, <2>2 DEF Stored
<1>3. ASSUME \A g \in Goroutines : ~InsertCheck(g) PROVE checks' = checks /\ ~Stored(e)
  <2>1. ASSUME NEW g \in Goroutines, GoroutineStep(g) PROVE checks' = checks /\ ~Stored(e)
    <3>1. checks' = checks
      BY <1>3, <2>1 DEF GoroutineStep, SelectRow, Probe, RecordCheck, RecentChecks,
         HasOpenIncident, OpenIncident, CloseIncident, AddIncidentUpdate, GetIncident,
         PostIncident, tables
    <3>2. pc[g] # "insert"
      BY <1>3, <2>1 DEF GoroutineStep, SelectRow, Probe, WriteRow, RecordCheck, RecentChecks,
         HasOpenIncident, OpenIncident, CloseIncident, AddIncidentUpdate, GetIncident,
         PostIncident
    <3> QED
      BY <2>1, <3>1, <3>2, Untouched DEF Stored
  <2>2. CASE StartRound \/ RunReturns \/ Signal \/ Boot \/ UNCHANGED vars
    BY <2>2 DEF StartRound, RoundOver, RunReturns, Signal, Boot, vars, tables, goroutines, Stored
  <2>3. CASE Exit \/ Crash
    BY <2>3 DEF Exit, Crash, ProcessEnds, LoseGoroutines, tables, Stored
  <2> QED
    BY <2>1, <2>2, <2>3 DEF Next
<1> QED
  BY <1>1, <1>2, <1>3

LEMMA PushedDown ==
  ASSUME NEW rows \in Seq(Causes), NEW r \in Causes, NEW n \in Nat,
         NEW k \in DOMAIN rows, k < n
  PROVE  LET pushed == Newest(<<r>> \o rows, n)
         IN  k + 1 \in DOMAIN pushed /\ pushed[k + 1] = rows[k]
<1> DEFINE all == <<r>> \o rows
<1>1. all \in Seq(Causes) /\ Len(all) = Len(rows) + 1 /\ all[k + 1] = rows[k]
  OBVIOUS
<1>2. k \in 1..Len(rows)
  OBVIOUS
<1> HIDE DEF all
<1>3. k + 1 \in DOMAIN Newest(all, n) /\ Newest(all, n)[k + 1] = all[k + 1]
  BY <1>1, <1>2 DEF Newest
<1> QED
  BY <1>1, <1>3 DEF all

(***************************************************************************)
(* An incident that stays open keeps its failure in sight.                 *)
(***************************************************************************)
LEMMA StaysInSight ==
  ASSUME TypeOK, [Next]_vars, SinceStep, FailuresInSight, NEW i \in DOMAIN incidents,
         i \in DOMAIN incidents', incidents'[i] = incidents[i]
  PROVE  since'[i] \in Nat /\ FailureInSight(i)'
<1> DEFINE e == incidents[i].entity
<1>1. /\ e \in Entities /\ checks[e] \in Seq(Causes)
      /\ RecoveriesForClose \in Nat /\ HistoryKept \in Nat /\ RecoveriesForClose <= HistoryKept
      /\ since[i] \in Nat /\ FailureInSight(i)
  <2>1. incidents[i] \in Incident
    BY ElementType DEF TypeOK, TablesOK
  <2> QED
    BY <2>1, ThresholdAssumption, ConfigAssumption DEF TypeOK, TablesOK, Incident, FailuresInSight
<1>2. since'[i] = IF Stored(e) /\ since[i] < RecoveriesForClose THEN since[i] + 1 ELSE since[i]
  BY DEF SinceStep
<1> SUFFICES ASSUME incidents[i].state = "open", incidents[i].summary = "down",
                    since'[i] < RecoveriesForClose
             PROVE  \E k \in 1..(since'[i] + 1) : k \in DOMAIN checks'[e] /\ checks'[e][k] # "ok"
  BY <1>1, <1>2 DEF FailureInSight
<1>3. PICK k \in 1..(since[i] + 1) : k \in DOMAIN checks[e] /\ checks[e][k] # "ok"
  BY <1>1, <1>2 DEF FailureInSight
<1>4. CASE checks'[e] = checks[e] /\ ~Stored(e)
  BY <1>2, <1>3, <1>4
<1>5. ASSUME Stored(e), NEW r \in Causes,
             checks'[e] = Newest(<<r>> \o checks[e], HistoryKept)
      PROVE  \E m \in 1..(since'[i] + 1) : m \in DOMAIN checks'[e] /\ checks'[e][m] # "ok"
  <2>1. since'[i] = since[i] + 1 /\ k < HistoryKept /\ k + 1 \in 1..(since'[i] + 1)
    BY <1>1, <1>2, <1>3, <1>5
  <2>2. k + 1 \in DOMAIN checks'[e] /\ checks'[e][k + 1] = checks[e][k]
    BY <1>1, <1>3, <1>5, <2>1, PushedDown
  <2> QED
    BY <1>3, <2>1, <2>2
<1> QED
  BY <1>1, <1>4, <1>5, RowsOnlyPushed

LEMMA InSightStep ==
  ASSUME TypeOK, TypeOK', ReadsAreCurrent, FailuresInSight, [Next]_vars, SinceStep
  PROVE  FailuresInSight'
<1> SUFFICES ASSUME NEW i \in DOMAIN incidents' PROVE since'[i] \in Nat /\ FailureInSight(i)'
  BY DEF SinceStep, FailuresInSight
<1>1. CASE i \in DOMAIN incidents /\ incidents'[i] = incidents[i]
  BY <1>1, StaysInSight
<1>2. CASE i \in DOMAIN incidents /\ incidents'[i] # incidents[i]
  <2>1. incidents'[i].state = "closed"
    BY <1>2, ChangedIncident
  <2>2. since[i] \in Nat /\ since'[i] \in Nat
    BY <1>2, ThresholdAssumption DEF SinceStep, FailuresInSight
  <2> QED
    BY <2>1, <2>2 DEF FailureInSight
<1>3. CASE i \notin DOMAIN incidents
  <2>1. since'[i] = 0
    BY <1>3 DEF SinceStep
  <2>2. CASE incidents'[i].summary = "down"
    <3>1. /\ NewestAre(incidents'[i].entity, ConsecutiveFailuresForIncident, FALSE)
          /\ UNCHANGED checks
      BY <1>3, <2>2, NewIncident
    <3>2. 1 \in DOMAIN checks'[incidents'[i].entity] /\ checks'[incidents'[i].entity][1] # "ok"
      <4> DEFINE rows == checks[incidents'[i].entity]
      <4>1. rows \in Seq(Causes)
        <5>1. incidents'[i] \in Incident
          BY ElementType DEF TypeOK, TablesOK
        <5> QED
          BY <5>1 DEF Incident, TypeOK, TablesOK
      <4>2. Len(rows) >= 1 /\ rows[1] # "ok"
        BY <3>1, <4>1, ThresholdAssumption DEF NewestAre
      <4> QED
        BY <3>1, <4>1, <4>2
    <3> QED
      BY <2>1, <3>2 DEF FailureInSight
  <2> QED
    BY <2>1, <2>2 DEF FailureInSight
<1> QED
  BY <1>1, <1>2, <1>3

(***************************************************************************)
(* "It is closed after the configured number of consecutive successful     *)
(* checks" (README.md): an incident opened by failures is closed after that*)
(* many checks stored since its opening.                                   *)
(***************************************************************************)
THEOREM DownRecoveriesAreEarned ==
  ASSUME UniqueNames PROVE HistorySpec => DownRecoveryEarned
<1>1. ASSUME TypeOK, ReadsAreCurrent, FailuresInSight, [Next]_vars,
             NEW i \in DOMAIN incidents, Closes(i), incidents[i].summary = "down"
      PROVE  since[i] >= RecoveriesForClose
  <2>1. /\ incidents[i].state = "open" /\ since[i] \in Nat /\ FailureInSight(i)
        /\ RecoveriesForClose \in Nat
    BY <1>1, ThresholdAssumption DEF Closes, FailuresInSight
  <2>2. NewestAre(incidents[i].entity, RecoveriesForClose, TRUE)
    BY <1>1, ChangedIncident DEF Closes
  <2>3. \A k \in 1..RecoveriesForClose : checks[incidents[i].entity][k] = "ok"
    BY <2>2 DEF NewestAre
  <2> QED
    BY <1>1, <2>1, <2>3 DEF FailureInSight
<1>2. TypeOK /\ ReadsAreCurrent /\ FailuresInSight /\ [Next /\ SinceStep]_historyVars
        => [\A i \in DOMAIN incidents :
              Closes(i) /\ incidents[i].summary = "down"
                => since[i] >= RecoveriesForClose]_historyVars
  BY <1>1
<1>3. TypeOK /\ TypeOK' /\ ReadsAreCurrent /\ FailuresInSight
        /\ [Next /\ SinceStep]_historyVars => FailuresInSight'
  <2>1. CASE UNCHANGED historyVars
    BY <2>1 DEF historyVars, vars, tables, FailuresInSight, FailureInSight
  <2>2. CASE Next /\ SinceStep
    BY <2>2, InSightStep
  <2> QED
    BY <2>1, <2>2
<1> QED
  BY <1>2, <1>3, InSightInit, HistoryIsSpec, TypeCorrect, ReadsStayCurrent, PTL
     DEF HistorySpec, DownRecoveryEarned
=============================================================================
