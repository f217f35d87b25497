------------------------------ MODULE Monitor ------------------------------
(***************************************************************************)
(* The monitoring agent: the runner that launches a round of checks, one   *)
(* goroutine per configured entry (internal/monitor/monitor.go), the       *)
(* incident engine each goroutine ends in (internal/incidents/engine.go),  *)
(* the SQLite store they share (internal/store), the gauge and the Discord *)
(* alerts they produce, and the life of the process around them            *)
(* (cmd/aptos-guardian/main.go): signals, exits, crashes and restarts.     *)
(*                                                                         *)
(* store.New allows a single database connection, so a statement is atomic *)
(* and two goroutines interleave between statements: each action below is  *)
(* one statement with the in-memory work that follows it.                  *)
(***************************************************************************)
EXTENDS Engine

CONSTANTS
  Tasks,            \* entries of rpc_providers and dapps, each with its URL
  Configurations,   \* the sets of entries a configuration file may hold
  Entities,         \* the pairs (entity_type, name) those entries name
  EntityOf,         \* [Tasks -> Entities]
  EntityType,       \* [Entities -> {"rpc", "dapp"}]
  Slots,            \* names for rounds that might overlap
  Latencies,        \* the latencies a successful RPC probe may have
  DiscordEnabled,   \* main sets the engine's two callbacks
  AlertChannelSet,  \* discord.alert_channel_id is not empty
  HistoryKept,      \* bound: the newest rows of checks the model remembers
  MaxIncidents,     \* bound: no trouble for a healthy entity past this many
  MaxFaults,        \* bound: statements and messages that may fail
  MaxStops          \* bound: signals and crashes

(***************************************************************************)
(* No threshold looks further back than HistoryKept.  Nothing says that    *)
(* two entries have different names: config.Validate does not compare them *)
(***************************************************************************)
ASSUME ConfigAssumption ==
  /\ Configurations # {} /\ Configurations \subseteq SUBSET Tasks
  /\ EntityOf \in [Tasks -> Entities]
  /\ EntityType \in [Entities -> {"rpc", "dapp"}]
  /\ Slots # {}
  /\ Latencies \subseteq Nat
  /\ DiscordEnabled \in BOOLEAN
  /\ AlertChannelSet \in BOOLEAN
  /\ HistoryKept \in Nat
  /\ HistoryKept >= ConsecutiveFailuresForIncident
  /\ HistoryKept >= RecoveriesForClose
  /\ MaxIncidents \in Nat
  /\ MaxFaults \in Nat
  /\ MaxStops \in Nat

UniqueNames ==
  \A c \in Configurations : \A s, t \in c : EntityOf[s] = EntityOf[t] => s = t

VARIABLES
  configured,  \* the entries the process was started with
  registered,  \* per entity, the entry whose URL its row of providers or dapps holds
  checks,      \* [Entities -> rows], newest first
  incidents,   \* the rows of incidents in id order
  updates,     \* per incident, its rows of incident_updates
  posted,      \* per incident, the alerts that reached the channel
  metric,      \* the gauge aptos_guardian_check_success of each entity
  mode,        \* "up", "stopping", "stopped" (the runner returned), "down"
  faults,      \* failures so far
  stops,       \* signals and crashes so far
  pc,          \* what each goroutine does next
  outcome,     \* what its checker returned
  recent,      \* the rows its engine call read
  verdict,     \* what its engine call decided
  inc,         \* the incident it opened or closes
  shown        \* the state of that incident as the alert will show it

tables     == <<registered, checks, incidents, updates>>
outside    == <<posted, metric>>
process    == <<mode, configured, faults, stops>>
goroutines == <<pc, outcome, recent, verdict, inc, shown>>
vars       == <<tables, outside, process, goroutines>>

Goroutines == Tasks \X Slots
Entity(g)  == EntityOf[g[1]]
Type(g)    == EntityType[Entity(g)]

Labels == {"idle", "ensure", "create", "refresh", "probe", "insert", "record", "recent", "decide",
           "open", "close", "note", "fetch", "post"}

Incident == [entity : Entities, state : {"open", "closed"},
             severity : Severities, summary : Verdicts]
Alert    == [kind : {"opened", "closed"}, state : {"open", "closed"}]

NoOutcome == [cause |-> "none", latency |-> 0]
Outcomes  == [cause : Causes, latency : Latencies \cup {0}]

Newest(rows, n) == IF Len(rows) <= n THEN rows ELSE SubSeq(rows, 1, n)

(***************************************************************************)
(* HasOpenIncident has no ORDER BY: of several open rows any may be read.  *)
(***************************************************************************)
OpenIncidents(e) ==
  {i \in DOMAIN incidents :
     incidents[i].entity = e /\ incidents[i].state = "open"}

(***************************************************************************)
(* wg.Wait: the runner goes on when every goroutine of the round is done.  *)
(***************************************************************************)
FreeSlots == {s \in Slots : \A t \in Tasks : pc[<<t, s>>] = "idle"}
RoundNotAwaited == FreeSlots # {}
RoundOver == \A g \in Goroutines : pc[g] = "idle"

(***************************************************************************)
(* A statement runs under the process's context: once that is cancelled    *)
(* database/sql refuses it.  Before, it may fail for reasons of its own.   *)
(***************************************************************************)
CtxDone   == mode # "up"
Fault     == faults < MaxFaults /\ faults' = faults + 1
DetachedStmtOk == mode # "down"
StmtOk    == ~CtxDone
StmtFails == IF CtxDone THEN UNCHANGED faults ELSE Fault

Goto(g, label) == pc' = [pc EXCEPT ![g] = label]

Finish(g) ==
  /\ Goto(g, "idle")
  /\ outcome' = [outcome EXCEPT ![g] = NoOutcome]
  /\ recent'  = [recent  EXCEPT ![g] = <<>>]
  /\ verdict' = [verdict EXCEPT ![g] = "none"]
  /\ inc'     = [inc     EXCEPT ![g] = 0]
  /\ shown'   = [shown   EXCEPT ![g] = "none"]

LoseGoroutines ==
  /\ pc'      = [g \in Goroutines |-> "idle"]
  /\ outcome' = [g \in Goroutines |-> NoOutcome]
  /\ recent'  = [g \in Goroutines |-> <<>>]
  /\ verdict' = [g \in Goroutines |-> "none"]
  /\ inc'     = [g \in Goroutines |-> 0]
  /\ shown'   = [g \in Goroutines |-> "none"]

Init ==
  /\ configured \in Configurations
  /\ registered = [e \in Entities |-> {}]
  /\ checks     = [e \in Entities |-> <<>>]
  /\ incidents  = <<>>
  /\ updates    = <<>>
  /\ posted     = <<>>
  /\ metric     = [e \in Entities |-> "unset"]
  /\ mode       = "up"
  /\ faults     = 0
  /\ stops      = 0
  /\ pc         = [g \in Goroutines |-> "idle"]
  /\ outcome    = [g \in Goroutines |-> NoOutcome]
  /\ recent     = [g \in Goroutines |-> <<>>]
  /\ verdict    = [g \in Goroutines |-> "none"]
  /\ inc        = [g \in Goroutines |-> 0]
  /\ shown      = [g \in Goroutines |-> "none"]

-----------------------------------------------------------------------------
(***************************************************************************)
(* The runner                                                              *)
(***************************************************************************)

(***************************************************************************)
(* runOnce: at start and at every tick, one goroutine per configured entry.*)
(* A cancelled context does not prevent a round: Run's select takes either *)
(* ready case.                                                             *)
(***************************************************************************)
StartRound ==
  /\ mode \in {"up", "stopping"}
  /\ RoundOver
  /\ LET slot == CHOOSE s \in FreeSlots : TRUE
     IN  pc' = [g \in Goroutines |->
                  IF g[1] \in configured /\ g[2] = slot THEN "ensure" ELSE pc[g]]
  /\ UNCHANGED <<tables, outside, process, outcome, recent, verdict, inc, shown>>

(* Run returns on ctx.Done. *)
RunReturns ==
  /\ mode = "stopping"
  /\ RoundOver
  /\ mode' = "stopped"
  /\ UNCHANGED <<tables, outside, configured, faults, stops, goroutines>>

-----------------------------------------------------------------------------
(***************************************************************************)
(* checkRPC and checkDapp                                                  *)
(***************************************************************************)

(***************************************************************************)
(* EnsureProvider and EnsureDapp: a SELECT, then the INSERT of a row or an *)
(* UPDATE of its URL.  Their error is ignored, also that of an INSERT that *)
(* finds the name taken since the SELECT.                                  *)
(***************************************************************************)
MissingRow(g) == registered[Entity(g)] = {}

SelectRow(g) ==
  /\ pc[g] = "ensure"
  /\ \/ /\ StmtOk /\ UNCHANGED faults
        /\ Goto(g, IF MissingRow(g) THEN "create" ELSE "refresh")
     \/ StmtFails /\ Goto(g, "probe")
  /\ UNCHANGED <<tables, outside, mode, configured, stops,
                 outcome, recent, verdict, inc, shown>>

KeepUrl(g)  == registered[Entity(g)]
OwnUrl(g)   == {g[1]}
WriteRow(g) ==
  \/ /\ pc[g] = "create" /\ StmtOk /\ UNCHANGED faults
     /\ registered' = [registered EXCEPT ![Entity(g)] = IF @ = {} THEN {g[1]} ELSE @]
  \/ /\ pc[g] = "refresh" /\ StmtOk /\ UNCHANGED faults
     /\ registered' = [registered EXCEPT ![Entity(g)] = OwnUrl(g)]
  \/ pc[g] \in {"create", "refresh"} /\ StmtFails /\ UNCHANGED registered
  \/ pc[g] = "probe" /\ UNCHANGED <<registered, faults>>

(***************************************************************************)
(* Bound: once MaxIncidents exist, entities without an open incident stay  *)
(* healthy.  The code is not limited, its surroundings are.                *)
(***************************************************************************)
Trouble(o)    == o.cause = "fail" \/ o.latency >= LatencyWarnMS
                                  \/ o.latency >= LatencyCritMS
Allowed(e, o) == Trouble(o) =>
                   Len(incidents) < MaxIncidents \/ OpenIncidents(e) # {}

(***************************************************************************)
(* What the checkers return: a success with its latency (ProcessDappResult *)
(* is not handed one), a failure of the endpoint, or a failure because the *)
(* request's context was cancelled.                                        *)
(***************************************************************************)
ProbeOutcomes(type) ==
  [cause : {"ok"}, latency : IF type = "rpc" THEN Latencies ELSE {0}]
    \cup [cause : {"fail"}, latency : {0}]
    \cup [cause : IF CtxDone THEN {"cancelled"} ELSE {}, latency : {0}]

(* The second statement of EnsureProvider or EnsureDapp, then the probe. *)
Probe(g) ==
  /\ WriteRow(g)
  /\ \E o \in ProbeOutcomes(Type(g)) :
       /\ Allowed(Entity(g), o)
       /\ outcome' = [outcome EXCEPT ![g] = o]
  /\ Goto(g, "insert")
  /\ UNCHANGED <<checks, incidents, updates, outside, mode, configured, stops,
                 recent, verdict, inc, shown>>

(* A check that cannot be stored is dropped: no gauge, no engine. *)
InsertCheck(g) ==
  /\ pc[g] = "insert"
  /\ \/ /\ StmtOk
        /\ checks' = [checks EXCEPT ![Entity(g)] =
                        Newest(<<outcome[g].cause>> \o @, HistoryKept)]
        /\ Goto(g, "record")
        /\ UNCHANGED <<faults, outcome, recent, verdict, inc, shown>>
     \/ StmtFails /\ Finish(g) /\ UNCHANGED checks
  /\ UNCHANGED <<registered, incidents, updates, outside, mode, configured, stops>>

RecordCheck(g) ==
  /\ pc[g] = "record"
  /\ metric' = [metric EXCEPT ![Entity(g)] =
                  IF Success(outcome[g]) THEN "ok" ELSE "fail"]
  /\ Goto(g, "recent")
  /\ UNCHANGED <<tables, posted, process, outcome, recent, verdict, inc, shown>>

-----------------------------------------------------------------------------
(***************************************************************************)
(* ProcessRPCResult and ProcessDappResult                                  *)
(***************************************************************************)
RecentChecks(g) ==
  /\ pc[g] = "recent"
  /\ \/ /\ StmtOk
        /\ recent' = [recent EXCEPT ![g] = Newest(checks[Entity(g)], ReadLimit)]
        /\ Goto(g, "decide")
        /\ UNCHANGED <<faults, outcome, verdict, inc, shown>>
     \/ StmtFails /\ Finish(g)
  /\ UNCHANGED <<tables, outside, mode, configured, stops>>

(***************************************************************************)
(* HasOpenIncident and the branch taken on its answer: close, leave alone, *)
(* open, or nothing to report.                                             *)
(***************************************************************************)
Decide(g, v, i, next) ==
  /\ StmtOk
  /\ verdict' = [verdict EXCEPT ![g] = v]
  /\ inc'     = [inc     EXCEPT ![g] = i]
  /\ outcome' = [outcome EXCEPT ![g] = NoOutcome]
  /\ recent'  = [recent  EXCEPT ![g] = <<>>]
  /\ Goto(g, next)
  /\ UNCHANGED <<faults, shown>>

HasOpenIncident(g) ==
  LET open     == OpenIncidents(Entity(g))
      closing  == Recovered(outcome[g], recent[g])
      openings == OpeningVerdicts(Type(g), outcome[g], recent[g])
  IN  /\ pc[g] = "decide"
      /\ \/ \E i \in open : closing /\ Decide(g, "recovered", i, "close")
         \/ \E v \in openings : open = {} /\ Decide(g, v, 0, "open")
         \/ /\ IF open = {} THEN openings = {} ELSE ~closing
            /\ StmtOk /\ Finish(g) /\ UNCHANGED faults
         \/ StmtFails /\ Finish(g)
      /\ UNCHANGED <<tables, outside, mode, configured, stops>>

OpenIncident(g) ==
  /\ pc[g] = "open"
  /\ \/ /\ StmtOk
        /\ incidents' = Append(incidents,
             [entity |-> Entity(g), state |-> "open",
              severity |-> SeverityOf(verdict[g]), summary |-> verdict[g]])
        /\ updates' = Append(updates, <<>>)
        /\ posted'  = Append(posted, <<>>)
        /\ inc' = [inc EXCEPT ![g] = Len(incidents) + 1]
        /\ Goto(g, "note")
        /\ UNCHANGED <<faults, outcome, recent, verdict, shown>>
     \/ StmtFails /\ Finish(g) /\ UNCHANGED <<incidents, updates, posted>>
  /\ UNCHANGED <<registered, checks, metric, mode, configured, stops>>

(* The UPDATE does not look at the state it overwrites. *)
CloseIncident(g) ==
  /\ pc[g] = "close"
  /\ \/ /\ StmtOk
        /\ incidents' = [incidents EXCEPT ![inc[g]].state = "closed",
                                          ![inc[g]].summary = verdict[g]]
        /\ Goto(g, "note")
        /\ UNCHANGED <<faults, outcome, recent, verdict, inc, shown>>
     \/ StmtFails /\ Finish(g) /\ UNCHANGED incidents
  /\ UNCHANGED <<registered, checks, updates, outside, mode, configured, stops>>

(***************************************************************************)
(* AddIncidentUpdate, whose error is ignored; alertOpen and alertClosed    *)
(* return at once when main set no callback.                               *)
(***************************************************************************)
OpenCallbackOnly(v) == DiscordEnabled /\ v # "recovered"
HasCallback(v) == DiscordEnabled

AddIncidentUpdate(g) ==
  /\ pc[g] = "note"
  /\ \/ /\ StmtOk /\ UNCHANGED faults
        /\ updates' = [updates EXCEPT ![inc[g]] = Append(@, verdict[g])]
     \/ StmtFails /\ UNCHANGED updates
  /\ IF HasCallback(verdict[g])
       THEN Goto(g, "fetch") /\ UNCHANGED <<outcome, recent, verdict, inc, shown>>
       ELSE Finish(g)
  /\ UNCHANGED <<registered, checks, incidents, outside, mode, configured, stops>>

(* alertOpen, alertClosed: an incident that cannot be read is not announced. *)
GetIncident(g) ==
  /\ pc[g] = "fetch"
  /\ \/ /\ StmtOk
        /\ shown' = [shown EXCEPT ![g] = incidents[inc[g]].state]
        /\ Goto(g, "post")
        /\ UNCHANGED <<faults, outcome, recent, verdict, inc>>
     \/ StmtFails /\ Finish(g)
  /\ UNCHANGED <<tables, outside, mode, configured, stops>>

AlwaysOpened(v) == "opened"
AlertKind(v) == IF v = "recovered" THEN "closed" ELSE "opened"

(***************************************************************************)
(* PostIncidentOpen and PostIncidentClosed: nothing without a channel; a   *)
(* message that cannot be sent is not sent again.  Discord is not called   *)
(* under the context, so this step works while the process stops.          *)
(***************************************************************************)
PostIncident(g) ==
  /\ pc[g] = "post"
  /\ \/ /\ AlertChannelSet /\ UNCHANGED faults
        /\ posted' = [posted EXCEPT ![inc[g]] =
             Append(@, [kind |-> AlertKind(verdict[g]), state |-> shown[g]])]
     \/ ~AlertChannelSet /\ UNCHANGED <<faults, posted>>
     \/ AlertChannelSet /\ Fault /\ UNCHANGED posted
  /\ Finish(g)
  /\ UNCHANGED <<tables, metric, mode, configured, stops>>

-----------------------------------------------------------------------------
(***************************************************************************)
(* The process                                                             *)
(***************************************************************************)

(* SIGINT or SIGTERM cancels the context. *)
Signal ==
  /\ mode = "up"
  /\ stops < MaxStops
  /\ mode' = "stopping" /\ stops' = stops + 1
  /\ UNCHANGED <<tables, outside, configured, faults, goroutines>>

(***************************************************************************)
(* Memory is lost, the database stays.  run returns after the signal       *)
(* without waiting for the runner; a crash, or a server error with its     *)
(* os.Exit(1), may come at any time.                                       *)
(***************************************************************************)
ProcessEnds ==
  /\ mode' = "down"
  /\ metric' = [e \in Entities |-> "unset"]
  /\ LoseGoroutines
  /\ UNCHANGED <<tables, posted, configured, faults>>

Exit  == mode \in {"stopping", "stopped"} /\ ProcessEnds /\ UNCHANGED stops
Crash == mode = "up" /\ stops < MaxStops /\ stops' = stops + 1 /\ ProcessEnds

(***************************************************************************)
(* restart: unless-stopped; the migrations create only what is missing,    *)
(* and the configuration file is read anew.                                *)
(***************************************************************************)
Boot ==
  /\ mode = "down"
  /\ mode' = "up"
  /\ configured' \in Configurations
  /\ UNCHANGED <<tables, outside, faults, stops, goroutines>>

GoroutineStep(g) ==
  \/ SelectRow(g)
  \/ Probe(g)
  \/ InsertCheck(g)
  \/ RecordCheck(g)
  \/ RecentChecks(g)
  \/ HasOpenIncident(g)
  \/ OpenIncident(g)
  \/ CloseIncident(g)
  \/ AddIncidentUpdate(g)
  \/ GetIncident(g)
  \/ PostIncident(g)

Next ==
  \/ StartRound
  \/ RunReturns
  \/ \E g \in Goroutines : GoroutineStep(g)
  \/ Signal
  \/ Exit
  \/ Crash
  \/ Boot

Spec == Init /\ [][Next]_vars

(***************************************************************************)
(* Every goroutine gets on: statements return, both checkers have a        *)
(* timeout, so has the Discord client.  The ticker fires.  A process that  *)
(* was told to stop exits and is started again.                            *)
(***************************************************************************)
Fairness ==
  /\ \A g \in Goroutines : WF_vars(GoroutineStep(g))
  /\ WF_vars(StartRound)
  /\ WF_vars(Exit)
  /\ WF_vars(Boot)

FairSpec == Spec /\ Fairness
-----------------------------------------------------------------------------
(***************************************************************************)
(* Properties                                                              *)
(***************************************************************************)

(* Between two rounds. *)
Quiet == \A g \in Goroutines : pc[g] = "idle"

(***************************************************************************)
(* Every variable has its type, the per-incident tables are as long as the *)
(* incidents table, and a goroutine that works on an incident works on a   *)
(* row that exists.                                                        *)
(***************************************************************************)
TablesOK ==
  /\ configured \in Configurations
  /\ registered \in [Entities -> SUBSET Tasks]
  /\ checks \in [Entities -> Seq(Causes)]
  /\ incidents \in Seq(Incident)
  /\ updates \in Seq(Seq(Verdicts)) /\ Len(updates) = Len(incidents)
  /\ posted \in Seq(Seq(Alert)) /\ Len(posted) = Len(incidents)
  /\ metric \in [Entities -> {"unset", "ok", "fail"}]
  /\ mode \in {"up", "stopping", "stopped", "down"}
  /\ faults \in 0..MaxFaults
  /\ stops \in 0..MaxStops

LocalsOK ==
  /\ pc \in [Goroutines -> Labels]
  /\ outcome \in [Goroutines -> Outcomes \cup {NoOutcome}]
  /\ recent \in [Goroutines -> Seq(Causes)]
  /\ verdict \in [Goroutines -> Verdicts \cup {"none"}]
  /\ inc \in [Goroutines -> Nat]
  /\ shown \in [Goroutines -> {"none", "open", "closed"}]

WorkOK(g) ==
  /\ pc[g] \in {"insert", "record", "recent", "decide"} => outcome[g] \in Outcomes
  /\ pc[g] = "open" => verdict[g] \in Openings
  /\ pc[g] = "close" => verdict[g] = "recovered"
  /\ pc[g] \in {"note", "fetch", "post"} => verdict[g] \in Verdicts
  /\ pc[g] \in {"close", "note", "fetch", "post"} => inc[g] \in DOMAIN incidents
  /\ pc[g] = "post" => shown[g] \in {"open", "closed"}

TypeOK == TablesOK /\ LocalsOK /\ \A g \in Goroutines : WorkOK(g)

(***************************************************************************)
(* "Only one open incident per entity at a time (deduplication)"           *)
(* (README.md).  HasOpenIncident and OpenIncident are two statements, so   *)
(* this rests on who may run between them.                                 *)
(***************************************************************************)
OneOpenPerEntity ==
  \A i, j \in DOMAIN incidents :
    /\ incidents[i].state = "open" /\ incidents[j].state = "open"
    /\ incidents[i].entity = incidents[j].entity
    => i = j

NewestAre(e, n, ok) ==
  /\ Len(checks[e]) >= n
  /\ \A k \in 1..n : (checks[e][k] = "ok") = ok

(***************************************************************************)
(* The decision is taken from rows read three statements before the row it *)
(* writes.  When an incident is inserted the table still says why: a "down"*)
(* one has its run of failures as the newest rows, a latency one a success.*)
(***************************************************************************)
OpenJustified ==
  [][\A i \in DOMAIN incidents' \ DOMAIN incidents :
       LET row == incidents'[i]
       IN  IF row.summary = "down"
             THEN NewestAre(row.entity, ConsecutiveFailuresForIncident, FALSE)
             ELSE NewestAre(row.entity, 1, TRUE)]_vars

(***************************************************************************)
(* An incident leaves the state "open" only while the newest               *)
(* recoveries_for_close rows of its entity are successes, and a closed     *)
(* incident is never written again.                                        *)
(***************************************************************************)
CloseJustified ==
  [][\A i \in DOMAIN incidents :
       incidents'[i] # incidents[i] =>
         /\ incidents[i].state = "open" /\ incidents'[i].state = "closed"
         /\ NewestAre(incidents[i].entity, RecoveriesForClose, TRUE)]_vars

(***************************************************************************)
(* Why the above hold.  All goroutines at work belong to one round of the  *)
(* configured entries, so with unique names no two of them work for the    *)
(* same entity, and what each has read is still what the database holds    *)
(* when it writes.                                                         *)
(***************************************************************************)
OneRound ==
  /\ \A g, h \in Goroutines : pc[g] # "idle" /\ pc[h] # "idle" => g[2] = h[2]
  /\ \A g \in Goroutines : pc[g] # "idle" => g[1] \in configured /\ mode # "down"

Current(g) ==
  LET e == Entity(g)
  IN  /\ pc[g] \in {"record", "recent", "decide"}
           => checks[e] # <<>> /\ checks[e][1] = outcome[g].cause
      /\ pc[g] = "decide" => recent[g] = Newest(checks[e], ReadLimit)
      /\ pc[g] = "close" => /\ inc[g] \in OpenIncidents(e)
                            /\ NewestAre(e, RecoveriesForClose, TRUE)
      /\ pc[g] = "open" =>
           /\ OpenIncidents(e) = {}
           /\ IF verdict[g] = "down"
                THEN NewestAre(e, ConsecutiveFailuresForIncident, FALSE)
                ELSE NewestAre(e, 1, TRUE)

ReadsAreCurrent == OneRound /\ \A g \in Goroutines : Current(g)

(***************************************************************************)
(* An incident's timeline holds its opening then its recovery, each at most*)
(* once: a failed insert loses an entry but never swaps or repeats one.    *)
(***************************************************************************)
InOrder(seq, first, last) == seq \in {<<>>, <<first>>, <<last>>, <<first, last>>}

TimelineInOrder ==
  \A i \in DOMAIN incidents :
    \E v \in Openings : InOrder(updates[i], v, "recovered")

(***************************************************************************)
(* The channel hears of an incident's opening before its end, of each at   *)
(* most once, and each message shows the incident as it was: alertOpen     *)
(* reads the row again, after other statements ran.                        *)
(***************************************************************************)
AlertsInOrder ==
  \A i \in DOMAIN incidents :
    InOrder(posted[i], [kind |-> "opened", state |-> "open"],
                       [kind |-> "closed", state |-> "closed"])

(***************************************************************************)
(* When nothing failed and nobody stopped the process, the channel knows   *)
(* between two rounds exactly what the incidents table says.               *)
(***************************************************************************)
AlertsComplete ==
  /\ DiscordEnabled /\ AlertChannelSet
  /\ Quiet /\ faults = 0 /\ stops = 0
  => \A i \in DOMAIN incidents :
       /\ posted[i] # <<>>
       /\ posted[i][Len(posted[i])].state = incidents[i].state

(***************************************************************************)
(* A probe cut short by the shutdown looks like a failed endpoint to the   *)
(* checker.  It never becomes a row of checks, so a restart does not start *)
(* with a failure that no endpoint had.                                    *)
(***************************************************************************)
NoPhantomFailure ==
  \A e \in Entities : \A k \in DOMAIN checks[e] : checks[e][k] # "cancelled"

(***************************************************************************)
(* "1 if last check succeeded, 0 otherwise" (metrics.go): between two      *)
(* rounds of a running process the gauge agrees with the newest stored row *)
(* of the entity, unless no check was stored since the start.              *)
(***************************************************************************)
GaugeIsLastCheck ==
  Quiet /\ mode = "up" =>
    \A e \in Entities :
      metric[e] # "unset" =>
        checks[e] # <<>> /\ (metric[e] = "ok") = (checks[e][1] = "ok")

(***************************************************************************)
(* Between two rounds the engine has drawn its consequence from the newest *)
(* rows, not only from the check that reached a threshold: while nothing   *)
(* failed, an entity checked since the start is not down without an open   *)
(* incident, and has not recovered from failures with theirs still open,   *)
(* whatever an earlier process left behind unfinished.                     *)
(***************************************************************************)
Answered(e) ==
  /\ NewestAre(e, ConsecutiveFailuresForIncident, FALSE) => OpenIncidents(e) # {}
  /\ NewestAre(e, RecoveriesForClose, TRUE) =>
       \A i \in OpenIncidents(e) : incidents[i].summary # "down"

NothingMissed ==
  Quiet /\ mode = "up" /\ faults = 0 =>
    \A e \in Entities : metric[e] # "unset" => Answered(e)

(***************************************************************************)
(* "Severity is CRIT for hard-down" (README.md): when a round is over,     *)
(* nothing failed and the process lives to see it, an open incident of an  *)
(* entity whose newest checks say it is down is critical.                  *)
(***************************************************************************)
HardDownIsCritical ==
  Quiet /\ mode = "up" /\ faults = 0 => \A e \in Entities :
    metric[e] # "unset" /\ NewestAre(e, ConsecutiveFailuresForIncident, FALSE) =>
      \A i \in OpenIncidents(e) : incidents[i].severity = "CRIT"

(***************************************************************************)
(* The tables of providers and dapps follow the configuration: once an     *)
(* entry was checked, and no statement failed, its row holds its URL, also *)
(* when the row was there before with another.                             *)
(***************************************************************************)
RegistryFollows ==
  Quiet /\ mode = "up" /\ faults = 0 =>
    \A t \in configured :
      metric[EntityOf[t]] # "unset" => registered[EntityOf[t]] = {t}

(***************************************************************************)
(* An outage is detected and stays reported: if from some point an entity  *)
(* is configured and every probe of it fails, from some point it has an    *)
(* open incident, whatever statements failed and whenever the process was  *)
(* restarted, with whatever configuration.                                 *)
(***************************************************************************)
Watched(e) == \E t \in configured : EntityOf[t] = e
ProbesOnly(e, good(_)) ==
  \A g \in Goroutines :
    Entity(g) = e => outcome[g] = NoOutcome \/ good(outcome[g])
FailedProbe(o)  == o.cause = "fail"
HealthyProbe(o) == Success(o) /\ ~Trouble(o)

OutageDetected ==
  \A e \in Entities :
    <>[](Watched(e) /\ ProbesOnly(e, FailedProbe)) => <>[](OpenIncidents(e) # {})

(***************************************************************************)
(* A recovery is noticed: if from some point an entity is configured and   *)
(* every probe of it succeeds in good time, from some point it has no open *)
(* incident, also one left open when the entry was taken out before.       *)
(***************************************************************************)
RecoveryDetected ==
  \A e \in Entities :
    <>[](Watched(e) /\ ProbesOnly(e, HealthyProbe)) => <>[](OpenIncidents(e) = {})

(***************************************************************************)
(* The monitor keeps the promises of IncidentLog: read as a log of         *)
(* incidents with the states noted in the timeline and announced for each, *)
(* every step of every goroutine opens, closes, notes or announces         *)
(* truthfully, or changes nothing.                                         *)
(***************************************************************************)
LogEntry(row) ==
  [entity |-> row.entity, severity |-> row.severity, state |-> row.state]

Log == INSTANCE IncidentLog WITH
  log   <- [i \in DOMAIN incidents |-> LogEntry(incidents[i])],
  noted <- [i \in DOMAIN updates |->
              [k \in DOMAIN updates[i] |->
                 IF updates[i][k] = "recovered" THEN "closed" ELSE "open"]],
  heard <- [i \in DOMAIN posted |->
              [k \in DOMAIN posted[i] |-> posted[i][k].state]]

KeepsLog == Log!Spec
=============================================================================
