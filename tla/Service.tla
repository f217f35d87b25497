------------------------------ MODULE Service ------------------------------
(***************************************************************************)
(* The life of the process (cmd/aptos-guardian/main.go) and the requests   *)
(* it answers from the store while it lasts: GetIncident and Report        *)
(* (internal/api/handlers.go, internal/store).  run opens the store, the   *)
(* Discord session and the server, and its deferred calls close them       *)
(* again; handlers, the runner and a signal work beside it, and nobody     *)
(* waits for a handler.                                                    *)
(*                                                                         *)
(* The monitor is what Monitor was shown to implement: the open, close and *)
(* note steps of IncidentLog, refused once the context is cancelled.       *)
(***************************************************************************)
EXTENDS ConfigLoad, Sequences, FiniteSets

CONSTANTS
  Entities, Severities,
  Clients,        \* each with one request in flight
  Readers,        \* those of them that ask for an incident
  Bodies,         \* per client, what it may post to /v1/report, as lengths
  MaxIssueType,   \* store.MaxReportIssueType (64)
  MaxUserAgent,   \* store.MaxReportUserAgent (512)
  MaxIncidents,   \* bound: incidents opened
  MaxReports,     \* bound: reports stored
  MaxFaults,      \* bound: calls that fail for reasons of their own
  MaxStops        \* bound: signals and crashes

ASSUME ServiceAssumption ==
  /\ Readers \subseteq Clients
  /\ \A c \in Clients :
       Bodies[c] \subseteq [issue_type : Nat, user_agent : Nat, header : Nat]
  /\ MaxIssueType \in Nat \ {0} /\ MaxUserAgent \in Nat \ {0}
  /\ MaxIncidents \in Nat /\ MaxReports \in Nat
  /\ MaxFaults \in Nat /\ MaxStops \in Nat

VARIABLES
  phase,      \* what run does next
  config,     \* {} until it is loaded
  signalled,  \* the context is cancelled
  closing,    \* srv.Shutdown was called
  storeOpen, botOpen,
  started,    \* the runner, the gauge's loop and the goroutine that waits to shut
              \* the server down
  failed,     \* run returns an error
  code,       \* the status of the last exit, -1 in a process that runs
  faults, stops,
  log, noted, \* the incidents and their timelines
  reports,    \* the rows of reports, with the client each came from
  counter,    \* aptos_guardian_reports_total
  before,     \* history: rows of reports when this process started
  acknowledged, \* history: reports this process answered with 201
  request     \* per client

flags    == <<config, signalled, closing, failed>>
process  == <<phase, flags, storeOpen, botOpen, started, code, stops>>
counts   == <<counter, before, acknowledged>>
database == <<log, noted, reports>>
vars     == <<process, faults, database, counts, request>>

Untold == [i \in DOMAIN log |-> <<>>]
Log == INSTANCE IncidentLog WITH heard <- Untold

Idle == [stage |-> "idle", kind |-> "none", body |-> [header |-> 0], id |-> 0,
         header |-> "none", timeline |-> {}, status |-> 0]

Fault     == faults < MaxFaults /\ faults' = faults + 1
CallOk    == storeOpen /\ UNCHANGED faults
CallFails == IF storeOpen THEN Fault ELSE UNCHANGED faults

Init ==
  /\ phase = "down" /\ config = {} /\ signalled = FALSE /\ closing = FALSE
  /\ storeOpen = FALSE /\ botOpen = FALSE /\ started = FALSE /\ failed = FALSE
  /\ code = -1 /\ faults = 0 /\ stops = 0
  /\ log = <<>> /\ noted = <<>> /\ reports = <<>>
  /\ counter = 0 /\ before = 0 /\ acknowledged = 0
  /\ request = [c \in Clients |-> Idle]

-----------------------------------------------------------------------------
(***************************************************************************)
(* run, from one statement that may fail to the next                       *)
(***************************************************************************)
Others == <<database, counts, request>>

Start ==
  /\ phase = "down"
  /\ phase' = "load" /\ code' = -1
  /\ signalled' = FALSE /\ closing' = FALSE /\ failed' = FALSE
  /\ UNCHANGED <<config, storeOpen, botOpen, started, stops, faults, Others>>

(* Deferred calls run last in, first out. *)
Return(error) ==
  /\ failed' = error
  /\ phase' = IF botOpen THEN "close bot" ELSE IF storeOpen THEN "close store" ELSE "return"

LoadConfig ==
  /\ phase = "load"
  /\ \/ \E file \in Files, env \in Environments :
          /\ config' = Load(file, env)
          /\ IF config' = {} THEN Return(TRUE)
                             ELSE phase' = "open store" /\ UNCHANGED failed
     \/ Return(TRUE) /\ UNCHANGED config     \* no such file, not YAML
  /\ UNCHANGED <<signalled, closing, storeOpen, botOpen, started, code, stops, faults, Others>>

(* store.New migrates under the process's context. *)
OpenStore ==
  /\ phase = "open store"
  /\ \/ ~signalled /\ storeOpen' = TRUE /\ phase' = "start" /\ UNCHANGED <<failed, faults>>
     \/ /\ Return(TRUE) /\ UNCHANGED storeOpen
        /\ IF signalled THEN UNCHANGED faults ELSE Fault
  /\ UNCHANGED <<config, signalled, closing, botOpen, started, code, stops, Others>>

(***************************************************************************)
(* discordgo.New, whose error run returns before anything runs beside it;  *)
(* then the runner, the gauge's loop and the goroutine that waits to shut  *)
(* the server down are started.                                            *)
(***************************************************************************)
DiscordOn == \E c \in config : c.enabled

StartBeside ==
  /\ phase = "start"
  /\ \/ /\ started' = TRUE
        /\ phase' = IF DiscordOn THEN "open bot" ELSE "listen"
        /\ UNCHANGED <<failed, faults>>
     \/ DiscordOn /\ Fault /\ Return(TRUE) /\ UNCHANGED started
  /\ UNCHANGED <<config, signalled, closing, storeOpen, botOpen, code, stops, Others>>

(* A session that does not open is logged; alerts are still sent. *)
OpenBot ==
  /\ phase = "open bot"
  /\ phase' = "listen"
  /\ \/ botOpen' = TRUE /\ UNCHANGED faults
     \/ Fault /\ UNCHANGED botOpen
  /\ UNCHANGED <<flags, storeOpen, started, code, stops, Others>>

(***************************************************************************)
(* ListenAndServe: refuses at once after a Shutdown, may find its port     *)
(* taken, and returns as soon as a Shutdown begins.                        *)
(***************************************************************************)
ListenAndServe ==
  /\ \/ phase = "listen" /\ ~closing /\ phase' = "serve" /\ UNCHANGED <<failed, faults>>
     \/ phase \in {"listen", "serve"} /\ closing /\ Return(FALSE) /\ UNCHANGED faults
     \/ phase \in {"listen", "serve"} /\ ~closing /\ Return(TRUE) /\ Fault
  /\ UNCHANGED <<config, signalled, closing, storeOpen, botOpen, started, code, stops, Others>>

StoreThenBot ==
  \/ phase = "close bot" /\ phase' = "close store" /\ storeOpen' = FALSE /\ UNCHANGED botOpen
  \/ phase = "close store" /\ phase' = "return" /\ storeOpen' = FALSE /\ botOpen' = FALSE
CloseNext ==
  \/ phase = "close bot" /\ phase' = "close store" /\ botOpen' = FALSE /\ UNCHANGED storeOpen
  \/ phase = "close store" /\ phase' = "return" /\ storeOpen' = FALSE /\ UNCHANGED botOpen

Close ==
  /\ CloseNext
  /\ UNCHANGED <<flags, started, code, stops, faults, Others>>

(***************************************************************************)
(* main's last test.  Requests still in flight end with the process; an    *)
(* answer that was sent is the client's.                                   *)
(***************************************************************************)
Ends(status) ==
  /\ phase' = "down" /\ code' = status
  /\ config' = {} /\ storeOpen' = FALSE /\ botOpen' = FALSE /\ started' = FALSE
  /\ counter' = 0 /\ before' = Len(reports) /\ acknowledged' = 0
  /\ request' = [c \in Clients |-> IF request[c].stage = "answered" THEN request[c] ELSE Idle]
  /\ UNCHANGED <<signalled, closing, failed, faults, database>>

ErrorOnly == IF failed THEN 1 ELSE 0
ExitCode  == IF failed /\ ~signalled THEN 1 ELSE 0

Exit  == phase = "return" /\ Ends(ExitCode) /\ UNCHANGED stops
Crash == phase # "down" /\ stops < MaxStops /\ stops' = stops + 1 /\ Ends(2)

-----------------------------------------------------------------------------
(* Beside it: the signal, once; the goroutine that waits for it. *)
Signal ==
  /\ phase # "down" /\ ~signalled /\ stops < MaxStops
  /\ signalled' = TRUE /\ stops' = stops + 1
  /\ UNCHANGED <<phase, config, closing, failed, storeOpen, botOpen, started, code, faults,
                 Others>>

WithBotOnly == botOpen
Watcher     == started

Shutdown ==
  /\ Watcher /\ signalled /\ ~closing
  /\ closing' = TRUE
  /\ UNCHANGED <<phase, config, signalled, failed, storeOpen, botOpen, started, code, stops,
                 faults, Others>>

(* The monitor, whose statements are refused after the signal. *)
WriteIncidents ==
  /\ storeOpen /\ started /\ ~signalled
  /\ \/ \E e \in Entities, s \in Severities : Len(log) < MaxIncidents /\ Log!Open(e, s)
     \/ \E i \in DOMAIN log : Log!Close(i) \/ Log!Note(i)
  /\ UNCHANGED <<process, faults, reports, counts, request>>

-----------------------------------------------------------------------------
(***************************************************************************)
(* The handlers.  Their context is the request's, so the signal does not   *)
(* stop them; the closed store does.                                       *)
(***************************************************************************)
Handling(c, kind, stage) ==
  phase # "down" /\ request[c].kind = kind /\ request[c].stage = stage

Update(c, r) == request' = [request EXCEPT ![c] = r]
Reply(c, status) == Update(c, [Idle EXCEPT !.stage = "answered", !.status = status])

AskIncident(c) ==
  /\ phase = "serve" /\ request[c].stage = "idle" /\ c \in Readers
  /\ \E i \in 1..MaxIncidents :
       Update(c, [Idle EXCEPT !.stage = "sent", !.kind = "incident", !.id = i])
  /\ UNCHANGED <<process, faults, database, counts>>

PostReport(c) ==
  /\ phase = "serve" /\ request[c].stage = "idle" /\ Len(reports) < MaxReports
  /\ \E body \in Bodies[c] :
       Update(c, [Idle EXCEPT !.stage = "sent", !.kind = "report", !.body = body])
  /\ UNCHANGED <<process, faults, database, counts>>

(* The client reads its answer. *)
Receive(c) ==
  /\ request[c].stage = "answered"
  /\ Update(c, Idle)
  /\ UNCHANGED <<process, faults, database, counts>>

(***************************************************************************)
(* GetIncident: the row, any error of which is answered with 404, then the *)
(* timeline, whose error is ignored.                                       *)
(***************************************************************************)
ReadHeader(c) ==
  LET i == request[c].id
  IN  /\ Handling(c, "incident", "sent")
      /\ \/ /\ CallOk /\ i \in DOMAIN log
            /\ Update(c, [request[c] EXCEPT !.stage = "header", !.header = log[i].state])
         \/ CallOk /\ i \notin DOMAIN log /\ Reply(c, 404)
         \/ CallFails /\ Reply(c, 404)
      /\ UNCHANGED <<process, database, counts>>

LatestUpdate(i)    == IF noted[i] = <<>> THEN <<>> ELSE <<noted[i][Len(noted[i])]>>
IncidentUpdates(i) == noted[i]

ReadTimeline(c) ==
  /\ Handling(c, "incident", "header")
  /\ \E timeline \in {{}, {IncidentUpdates(request[c].id)}} :
       /\ IF timeline = {} THEN CallFails ELSE CallOk
       /\ Update(c, [request[c] EXCEPT !.stage = "answered", !.status = 200,
                                       !.timeline = timeline])
  /\ UNCHANGED <<process, database, counts>>

(***************************************************************************)
(* Report: a body without issue_type, or that is no JSON, is refused.  The *)
(* handler shortens every field, then lets the request's own User-Agent    *)
(* replace the one in the body; the store shortens once more.  Of the      *)
(* texts only these two are kept, as lengths.  The INSERT may have been    *)
(* committed although the call reports an error.                           *)
(***************************************************************************)
Trunc(length, limit) == IF length <= limit THEN length ELSE limit

UserAgent(body) ==
  IF body.header # 0 THEN body.header ELSE Trunc(body.user_agent, MaxUserAgent)

AsGiven(c, issue, agent) == [client |-> c, issue_type |-> issue, user_agent |-> agent]
Row(c, issue, agent) ==
  [client |-> c, issue_type |-> Trunc(issue, MaxIssueType),
                 user_agent |-> Trunc(agent, MaxUserAgent)]

InsertReport(c) ==
  LET body  == request[c].body
      issue == Trunc(body.issue_type, MaxIssueType)
      store == reports' = Append(reports, Row(c, issue, UserAgent(body)))
  IN  /\ Handling(c, "report", "sent")
      /\ \/ issue = 0 /\ Reply(c, 400) /\ UNCHANGED <<reports, faults>>
         \/ /\ issue # 0 /\ CallOk /\ store
            /\ Update(c, [request[c] EXCEPT !.stage = "stored", !.id = Len(reports) + 1])
         \/ issue # 0 /\ CallFails /\ Reply(c, 500) /\ UNCHANGED reports
         \/ issue # 0 /\ storeOpen /\ CallFails /\ Reply(c, 500) /\ store
      /\ UNCHANGED <<process, log, noted, counts>>

(* metrics.IncReportsTotal, and then the answer. *)
ClientsSeen     == Cardinality({reports[k].client : k \in (before + 1)..Len(reports)})
IncReportsTotal == counter + 1

CountReport(c) ==
  /\ Handling(c, "report", "stored")
  /\ counter' = IncReportsTotal
  /\ Update(c, [request[c] EXCEPT !.stage = "counted"])
  /\ UNCHANGED <<process, faults, database, before, acknowledged>>

GuessedId(c)    == Len(reports) + 1
NewestRow(c)    == Len(reports)
LastInsertId(c) == request[c].id

Acknowledge(c) ==
  /\ Handling(c, "report", "counted")
  /\ acknowledged' = acknowledged + 1
  /\ Update(c, [request[c] EXCEPT !.stage = "answered", !.status = 201,
                                  !.id = LastInsertId(c)])
  /\ UNCHANGED <<process, faults, database, counter, before>>

Handle(c) ==
  ReadHeader(c) \/ ReadTimeline(c) \/ InsertReport(c) \/ CountReport(c) \/ Acknowledge(c)

Run ==
  \/ Start \/ LoadConfig \/ OpenStore \/ StartBeside \/ OpenBot \/ ListenAndServe
  \/ Close \/ Exit

Next ==
  \/ Run
  \/ Crash
  \/ Signal
  \/ Shutdown
  \/ WriteIncidents
  \/ \E c \in Clients : AskIncident(c) \/ PostReport(c) \/ Receive(c) \/ Handle(c)

(***************************************************************************)
(* run gets on: the calls that open and close things return.  The waiting  *)
(* goroutine wakes up.  Nothing is assumed of the handlers.                *)
(***************************************************************************)
Fairness == WF_vars(Run) /\ WF_vars(Shutdown)

Spec == Init /\ [][Next]_vars /\ Fairness
-----------------------------------------------------------------------------
(***************************************************************************)
(* Properties                                                              *)
(***************************************************************************)
Phases == {"down", "load", "open store", "start", "open bot", "listen", "serve",
           "close bot", "close store", "return"}

RequestOK(r) ==
  /\ DOMAIN r = DOMAIN Idle
  /\ r.stage \in {"idle", "sent", "header", "stored", "counted", "answered"}
  /\ r.kind \in {"none", "incident", "report"}
  /\ r.status \in {0, 200, 201, 400, 404, 500}
  /\ r.stage \in {"stored", "counted"} => r.id \in DOMAIN reports
  /\ r.status = 200 => r.id \in DOMAIN log
  /\ r.status = 201 => r.id \in DOMAIN reports

(* The types; a row that a request works on or was told of exists. *)
TypeOK ==
  /\ phase \in Phases
  /\ {signalled, closing, storeOpen, botOpen, started, failed} \subseteq BOOLEAN
  /\ code \in {-1, 0, 1, 2}
  /\ faults \in 0..MaxFaults /\ stops \in 0..MaxStops
  /\ log \in Seq([entity : Entities, severity : Severities, state : {"open", "closed"}])
  /\ Len(noted) = Len(log)
  /\ \A k \in DOMAIN reports : reports[k].client \in Clients
  /\ before \in 0..Len(reports)
  /\ \A c \in Clients : RequestOK(request[c])

(***************************************************************************)
(* Whatever file and environment say together, a process that got past     *)
(* Load has what the rest of the code takes for granted: intervals a       *)
(* ticker accepts, thresholds that count, entries with names and, with     *)
(* Discord enabled, all its credentials.                                   *)
(***************************************************************************)
Sound(c) ==
  /\ \A key \in Numbers : c.numbers[key] > 0
  /\ Defaulted \subseteq c.given
  /\ \A entry \in c.entries : entry.named /\ entry.located /\ entry.timeout > 0
  /\ c.enabled => Credentials \subseteq c.given

ConfigHolds ==
  phase \in Phases \ {"down", "load", "return"} => \E c \in config : Sound(c)

(***************************************************************************)
(* A command can only reach the bot while there is a store to answer from, *)
(* however far run got before it returned.                                 *)
(***************************************************************************)
BotWithinStore == botOpen => storeOpen

(***************************************************************************)
(* The exit status tells an orchestrator whether the process was told to   *)
(* stop: 0 if so, whatever the interrupted calls returned, 1 if it gave up *)
(* by itself.                                                              *)
(***************************************************************************)
ExitTellsWhy == phase = "down" /\ code \in {0, 1} => (signalled <=> code = 0)

(***************************************************************************)
(* The details of an incident come from two statements.  Once its row says *)
(* closed its timeline, if it could be read, says when it opened, unless   *)
(* that entry was never stored.                                            *)
(***************************************************************************)
Opened(timeline) == \E k \in DOMAIN timeline : timeline[k] = "open"

DetailTellsOpening ==
  \A c \in Clients :
    request[c].stage = "answered" /\ request[c].header = "closed" =>
      \A timeline \in request[c].timeline :
        Opened(timeline) <=> Opened(noted[request[c].id])

(***************************************************************************)
(* What is stored is within the limits of reports.go, also the User-Agent  *)
(* that comes around the handler's shortening.                             *)
(***************************************************************************)
StoredWithinLimits ==
  \A k \in DOMAIN reports :
    /\ reports[k].issue_type \in 1..MaxIssueType
    /\ reports[k].user_agent \in 0..MaxUserAgent

(***************************************************************************)
(* A report that was acknowledged is stored under the id the client was    *)
(* told, also when others were stored meanwhile and when the process died  *)
(* before or after the answer.                                             *)
(***************************************************************************)
Acknowledged(c) == request[c].stage = "answered" /\ request[c].status = 201

AcknowledgedStays ==
  \A c \in Clients : Acknowledged(c) =>
    /\ request[c].id \in DOMAIN reports
    /\ reports[request[c].id] =
         Row(c, request[c].body.issue_type, UserAgent(request[c].body))

(***************************************************************************)
(* "Total number of user reports submitted" (metrics.go): the reports this *)
(* process stored, less those whose handler has yet to count them or was   *)
(* told of an error.  It is never more than were stored since the start,   *)
(* and never less than were acknowledged since, whether or not the clients *)
(* still have their answers and however often the same one submits.        *)
(***************************************************************************)
CounterTellsStored ==
  /\ counter <= Len(reports) - before
  /\ acknowledged <= counter

(***************************************************************************)
(* A signal ends the process, wherever it was.                             *)
(***************************************************************************)
StopsAfterSignal == phase # "down" /\ signalled ~> phase = "down"
=============================================================================
