---------------------------- MODULE ServiceProofs ----------------------------
(***************************************************************************)
(* Theorems about Service, for every file and environment, any number of   *)
(* clients, reports and incidents, any fault and any order of events.      *)
(***************************************************************************)
EXTENDS Service, FiniteSetTheorems, TLAPS

-----------------------------------------------------------------------------
(***************************************************************************)
(* run and its configuration                                               *)
(***************************************************************************)

(***************************************************************************)
(* What is loaded is sound, whatever file and environment say: Validate    *)
(* comes after the environment.                                            *)
(***************************************************************************)
LEMMA OverrideType ==
  ASSUME NEW file \in Files, NEW env \in Environments
  PROVE  Override(file, env) \in Config
<1>1. file \in Config /\ Environment(env)
  BY InputAssumption
<1>2. [key \in Numbers |-> IF key \in DOMAIN env.numbers THEN env.numbers[key]
                           ELSE file.numbers[key]] \in [Numbers -> Int]
  <2>1. PICK keys \in SUBSET FromEnv : env.numbers \in [keys -> Int]
    BY <1>1 DEF Environment
  <2> QED
    BY <1>1, <2>1 DEF Config
<1>3. file.given \cup env.given \in SUBSET Texts
  BY <1>1 DEF Config, Environment
<1>4. (CASE env.enabled = {TRUE} -> TRUE
         [] env.enabled = {FALSE} -> FALSE
         [] OTHER -> file.enabled) \in BOOLEAN
  BY <1>1 DEF Config
<1> QED
  BY <1>1, <1>2, <1>3, <1>4 DEF Override, Config

LEMMA FilledNumbers ==
  ASSUME NEW n \in [Numbers -> Int], NEW key \in Numbers
  PROVE  (IF n[key] <= 0 THEN DefaultNumber[key] ELSE n[key]) > 0
BY DEF DefaultNumber, Numbers

THEOREM LoadIsSound ==
  ASSUME NEW file \in Files, NEW env \in Environments, NEW c \in Load(file, env)
  PROVE  Sound(c)
<1> DEFINE b == Override(file, env)
<1>1. b \in Config /\ ~Refused(b) /\ c = Filled(b)
  BY OverrideType DEF Load, Validate
<1> HIDE DEF b
<1>2. \A key \in Numbers : c.numbers[key] > 0
  <2>1. c.numbers = [key \in Numbers |-> IF b.numbers[key] <= 0 THEN DefaultNumber[key]
                                         ELSE b.numbers[key]]
    BY <1>1 DEF Filled, Config
  <2>2. b.numbers \in [Numbers -> Int]
    BY <1>1 DEF Config
  <2> QED
    BY <2>1, <2>2, FilledNumbers
<1>3. c.given = b.given \cup Defaulted /\ c.enabled = b.enabled
  BY <1>1 DEF Filled, Config
<1>4. \A entry \in c.entries : entry.named /\ entry.located /\ entry.timeout > 0
  <2>1. c.entries = {[entry EXCEPT !.timeout = IF entry.timeout <= 0 THEN DefaultTimeout
                                               ELSE entry.timeout] : entry \in b.entries}
    BY <1>1 DEF Filled, Config
  <2>2. ASSUME NEW entry \in b.entries PROVE entry \in Entries /\ entry.named /\ entry.located
    BY <1>1, <2>2 DEF Config, Refused
  <2> QED
    BY <2>1, <2>2 DEF Entries, DefaultTimeout
<1> QED
  BY <1>1, <1>2, <1>3, <1>4 DEF Sound, Refused

(* The monitor, the handlers and their clients leave the process alone. *)
LEMMA Beside ==
  ASSUME \/ WriteIncidents
         \/ \E c \in Clients : AskIncident(c) \/ PostReport(c) \/ Receive(c) \/ Handle(c)
  PROVE  UNCHANGED process
BY DEF WriteIncidents, AskIncident, PostReport, Receive, Handle, ReadHeader, ReadTimeline,
   InsertReport, CountReport, Acknowledge

(***************************************************************************)
(* What is open at each stage of run.  The deferred calls give back in the *)
(* opposite order what was opened.                                         *)
(***************************************************************************)
Stages ==
  /\ phase \in Phases
  /\ storeOpen \in BOOLEAN /\ botOpen \in BOOLEAN /\ started \in BOOLEAN
  /\ phase \in {"down", "load", "open store", "return"} => storeOpen = FALSE
  /\ phase \in {"start", "open bot", "listen", "serve", "close bot", "close store"}
       => storeOpen = TRUE
  /\ phase \notin {"listen", "serve", "close bot"} => botOpen = FALSE
  /\ phase = "close bot" => botOpen = TRUE

LEMMA StagesInit == Init => Stages
BY DEF Init, Stages, Phases

LEMMA StagesStep ==
  ASSUME Stages, [Next]_vars PROVE Stages'
<1> USE DEF Stages, Phases
<1>1. CASE Start
  BY <1>1 DEF Start
<1>2. CASE LoadConfig
  BY <1>2 DEF LoadConfig, Return
<1>3. CASE OpenStore
  BY <1>3 DEF OpenStore, Return
<1>10. CASE StartBeside
  BY <1>10 DEF StartBeside, Return
<1>4. CASE OpenBot
  BY <1>4 DEF OpenBot
<1>5. CASE ListenAndServe
  BY <1>5 DEF ListenAndServe, Return
<1>6. CASE Close
  BY <1>6 DEF Close, CloseNext
<1>7. CASE Exit \/ Crash
  BY <1>7 DEF Exit, Crash, Ends
<1>8. CASE Signal \/ Shutdown
  BY <1>8 DEF Signal, Shutdown
<1>9. CASE UNCHANGED process
  BY <1>9 DEF process
<1> QED
  BY <1>1, <1>2, <1>3, <1>4, <1>5, <1>6, <1>7, <1>8, <1>9, <1>10, Beside DEF Next, Run, vars

(***************************************************************************)
(* The bot is never open without the store: not while run opens one thing  *)
(* after the other, not after an error at any of them, of discordgo.New    *)
(* between the two as well, and not while its deferred calls close them.   *)
(***************************************************************************)
THEOREM CommandsHaveAStore == Spec => []BotWithinStore
<1>1. Stages => BotWithinStore
  BY DEF Stages, Phases, BotWithinStore
<1> QED
  BY <1>1, StagesInit, StagesStep, PTL DEF Spec

(***************************************************************************)
(* Whatever phase run is in after Load, its configuration is sound.  A     *)
(* process that was refused one has nothing to close and just returns.     *)
(***************************************************************************)
THEOREM RunsOnSoundConfig == Spec => []ConfigHolds
<1> USE DEF ConfigHolds, Phases
<1>1. Init => Stages /\ ConfigHolds
  BY DEF Init, Stages
<1>2. ASSUME Stages, ConfigHolds, [Next]_vars PROVE ConfigHolds'
  <2>1. CASE LoadConfig
    <3>1. \/ phase' = "return"
          \/ /\ config' # {}
             /\ \E file \in Files, env \in Environments : config' = Load(file, env)
      BY <1>2, <2>1 DEF LoadConfig, Return, Stages
    <3> QED
      BY <3>1, LoadIsSound
  <2>2. CASE OpenStore \/ StartBeside \/ OpenBot \/ ListenAndServe \/ Close
    BY <1>2, <2>2 DEF OpenStore, StartBeside, OpenBot, ListenAndServe, Close, CloseNext, Return, flags
  <2>3. CASE Start \/ Exit \/ Crash
    BY <2>3 DEF Start, Exit, Crash, Ends
  <2>4. CASE Signal \/ Shutdown
    BY <1>2, <2>4 DEF Signal, Shutdown
  <2>5. CASE UNCHANGED process
    BY <1>2, <2>5 DEF process, flags
  <2> QED
    BY <1>2, <2>1, <2>2, <2>3, <2>4, <2>5, Beside DEF Next, Run, vars
<1> QED
  BY <1>1, <1>2, StagesStep, StagesInit, PTL DEF Spec

(***************************************************************************)
(* A run that returns without an error was told to stop: only the server's *)
(* shutdown makes ListenAndServe return none.                              *)
(***************************************************************************)
Reasons ==
  /\ closing => signalled
  /\ phase \in {"close bot", "close store", "return"} /\ ~failed => signalled

THEOREM ExitStatusTellsWhy == Spec => []ExitTellsWhy
<1> USE DEF Reasons, ExitTellsWhy
<1>1. Init => Reasons /\ ExitTellsWhy
  BY DEF Init
<1>2. ASSUME Reasons, ExitTellsWhy, [Next]_vars PROVE Reasons' /\ ExitTellsWhy'
  <2>1. CASE Start
    BY <2>1 DEF Start
  <2>2. ASSUME Return(TRUE), UNCHANGED <<signalled, closing>>
        PROVE  Reasons' /\ ExitTellsWhy'
    <3>1. failed' /\ phase' # "down" /\ (closing' => signalled')
      BY <1>2, <2>2, Zenon DEF Return
    <3> QED
      BY <3>1
  <2>3. CASE LoadConfig \/ OpenStore \/ StartBeside \/ OpenBot \/ Close
    <3>1. CASE Return(TRUE)
      BY <2>2, <2>3, <3>1 DEF LoadConfig, OpenStore, StartBeside, OpenBot, Close, flags
    <3>2. CASE /\ phase' \in {"open store", "start", "open bot", "listen"}
               /\ UNCHANGED <<signalled, closing>>
      BY <1>2, <3>2
    <3>3. CASE Close
      BY <1>2, <3>3 DEF Close, CloseNext, flags
    <3> QED
      BY <2>3, <3>1, <3>2, <3>3 DEF LoadConfig, OpenStore, StartBeside, OpenBot, flags
  <2>4. CASE ListenAndServe
    <3>1. CASE Return(TRUE)
      BY <2>2, <2>4, <3>1 DEF ListenAndServe
    <3>2. CASE closing /\ Return(FALSE)
      BY <1>2, <2>4, <3>2 DEF ListenAndServe, Return
    <3>3. CASE phase = "listen" /\ phase' = "serve"
      BY <1>2, <2>4, <3>3 DEF ListenAndServe
    <3> QED
      BY <2>4, <3>1, <3>2, <3>3 DEF ListenAndServe
  <2>5. CASE Exit \/ Crash
    <3>1. phase' = "down" /\ (closing' <=> closing) /\ (signalled' <=> signalled)
      BY <2>5 DEF Exit, Crash, Ends
    <3>2. code' = 2 \/ (signalled /\ code' = 0) \/ (~signalled /\ code' = 1)
      BY <1>2, <2>5 DEF Exit, Crash, Ends, ExitCode
    <3>3. code' \in {0, 1} => (signalled' <=> code' = 0)
      BY <3>1, <3>2
    <3>4. (closing' => signalled') /\ phase' \notin {"close bot", "close store", "return"}
      BY <1>2, <3>1
    <3> QED
      BY <3>3, <3>4
  <2>6. CASE Signal \/ Shutdown
    BY <1>2, <2>6 DEF Signal, Shutdown
  <2>7. CASE UNCHANGED process
    BY <1>2, <2>7 DEF process, flags
  <2> QED
    BY <1>2, <2>1, <2>3, <2>4, <2>5, <2>6, <2>7, Beside DEF Next, Run, vars
<1> QED
  BY <1>1, <1>2, PTL DEF Spec

-----------------------------------------------------------------------------
(***************************************************************************)
(* What clients were told stays true: the tables only grow, and a closed   *)
(* incident is not written again except for its own closing.               *)
(***************************************************************************)
States   == {"open", "closed"}
Incident == [entity : Entities, severity : Severities, state : States]
Report   == [client : Clients, issue_type : 1..MaxIssueType, user_agent : 0..MaxUserAgent]

TablesOK ==
  /\ log \in Seq(Incident)
  /\ noted \in Seq(Seq(States)) /\ Len(noted) = Len(log)
  /\ reports \in Seq(Report)

Body    == [header : {0}] \cup UNION {Bodies[c] : c \in Clients}
Request ==
  [stage : {"idle", "sent", "header", "stored", "counted", "answered"},
   kind : {"none", "incident", "report"}, body : Body, id : Nat,
   header : {"none"} \cup States, timeline : SUBSET Seq(States), status : Nat]

(* What a client's request remembers of the tables. *)
Stored(c) == request[c].stage \in {"stored", "counted"} \/ Acknowledged(c)

ClientOK(c) ==
  /\ request[c].kind = "report" =>
       request[c].body \in Bodies[c] /\ request[c].header = "none"
  /\ request[c].stage = "header" => request[c].id \in DOMAIN log
  /\ request[c].stage \in {"sent", "header"} => request[c].timeline = {}
  /\ request[c].header = "closed" =>
       /\ request[c].id \in DOMAIN log /\ log[request[c].id].state = "closed"
       /\ \A timeline \in request[c].timeline :
            Opened(timeline) <=> Opened(noted[request[c].id])
  /\ Stored(c) =>
       /\ request[c].id \in DOMAIN reports
       /\ reports[request[c].id] =
            Row(c, request[c].body.issue_type, UserAgent(request[c].body))

ToldTrue ==
  /\ TablesOK
  /\ request \in [Clients -> Request]
  /\ \A c \in Clients : ClientOK(c)

(***************************************************************************)
(* How the tables grow.                                                    *)
(***************************************************************************)
Grows ==
  /\ \A k \in DOMAIN reports : k \in DOMAIN reports' /\ reports'[k] = reports[k]
  /\ \A i \in DOMAIN log :
       /\ i \in DOMAIN log'
       /\ log[i].state = "closed" =>
            log'[i].state = "closed" /\ (Opened(noted'[i]) <=> Opened(noted[i]))

LEMMA TruncBound ==
  ASSUME NEW n \in Nat, NEW limit \in Nat
  PROVE  /\ Trunc(n, limit) \in 0..limit
         /\ Trunc(Trunc(n, limit), limit) = Trunc(n, limit)
         /\ n # 0 /\ limit # 0 => Trunc(n, limit) # 0
BY DEF Trunc

LEMMA SayKeeps ==
  ASSUME NEW s \in Seq(States)
  PROVE  /\ Append(s, "closed") \in Seq(States)
         /\ Opened(Append(s, "closed")) <=> Opened(s)
<1>1. /\ Append(s, "closed") \in Seq(States)
      /\ Len(Append(s, "closed")) = Len(s) + 1
      /\ \A k \in 1..Len(s) : Append(s, "closed")[k] = s[k]
      /\ Append(s, "closed")[Len(s) + 1] = "closed"
  BY DEF States
<1>2. Opened(s) => Opened(Append(s, "closed"))
  BY <1>1 DEF Opened
<1>3. Opened(Append(s, "closed")) => Opened(s)
  BY <1>1 DEF Opened
<1> QED
  BY <1>1, <1>2, <1>3

LEMMA IncidentsGrow ==
  ASSUME TablesOK, WriteIncidents PROVE TablesOK' /\ Grows
<1> USE DEF TablesOK, Grows
<1>0. reports' = reports /\ DOMAIN log = 1..Len(log) /\ DOMAIN noted = 1..Len(log)
  BY DEF WriteIncidents
<1>1. ASSUME NEW e \in Entities, NEW s \in Severities, Log!Open(e, s)
      PROVE  TablesOK' /\ Grows
  <2>1. log' = Append(log, [entity |-> e, severity |-> s, state |-> "open"])
        /\ noted' = Append(noted, <<>>)
    BY <1>1 DEF Log!Open
  <2> QED
    BY <1>0, <2>1 DEF States, Incident
<1>2. ASSUME NEW i \in DOMAIN log, Log!Close(i) PROVE TablesOK' /\ Grows
  <2>1. log' = [log EXCEPT ![i].state = "closed"] /\ noted' = noted
    BY <1>2 DEF Log!Close
  <2>2. [log[i] EXCEPT !.state = "closed"] \in Incident
    <3>1. log[i] \in Incident
      OBVIOUS
    <3> QED
      BY <3>1 DEF States, Incident
  <2>3. log' \in Seq(Incident) /\ Len(log') = Len(log)
    BY <2>1, <2>2
  <2>4. \A j \in DOMAIN log : log[j].state = "closed" => log'[j].state = "closed"
    <3>1. \A j \in DOMAIN log : log[j] \in Incident
      OBVIOUS
    <3> QED
      BY <2>1, <3>1 DEF Incident
  <2> QED
    BY <1>0, <2>1, <2>3, <2>4
<1>3. ASSUME NEW i \in DOMAIN log, Log!Note(i) PROVE TablesOK' /\ Grows
  <2>1. log' = log /\ noted' = [noted EXCEPT ![i] = Append(@, log[i].state)]
    BY <1>3 DEF Log!Note, Log!Say
  <2>2. i \in DOMAIN noted /\ noted[i] \in Seq(States) /\ log[i].state \in States
    <3>1. log[i] \in Incident
      OBVIOUS
    <3> QED
      BY <1>0, <3>1 DEF Incident
  <2>3. Append(noted[i], log[i].state) \in Seq(States)
    BY <2>2
  <2>4. TablesOK'
    BY <1>0, <2>1, <2>3
  <2>5. ASSUME NEW j \in DOMAIN log, log[j].state = "closed"
        PROVE  Opened(noted'[j]) <=> Opened(noted[j])
    <3>1. CASE j = i
      BY <2>1, <2>2, <2>5, <3>1, SayKeeps
    <3>2. CASE j # i
      BY <2>1, <2>2, <3>2
    <3> QED
      BY <3>1, <3>2
  <2> QED
    BY <1>0, <2>1, <2>4, <2>5
<1> QED
  BY <1>1, <1>2, <1>3 DEF WriteIncidents

LEMMA ReportGrows ==
  ASSUME ToldTrue, NEW c \in Clients, request[c].kind = "report",
         reports' = Append(reports, Row(c, Trunc(request[c].body.issue_type, MaxIssueType),
                                        UserAgent(request[c].body))),
         Trunc(request[c].body.issue_type, MaxIssueType) # 0,
         UNCHANGED <<log, noted>>
  PROVE  /\ TablesOK' /\ Grows
         /\ Len(reports) + 1 \in DOMAIN reports'
         /\ reports'[Len(reports) + 1] =
              Row(c, request[c].body.issue_type, UserAgent(request[c].body))
<1> DEFINE body == request[c].body
<1>1. body \in Bodies[c]
  BY DEF ToldTrue, ClientOK
<1>2. body.issue_type \in Nat /\ body.user_agent \in Nat /\ body.header \in Nat
  BY <1>1, ServiceAssumption
<1>0. MaxIssueType \in Nat /\ MaxUserAgent \in Nat
  BY ServiceAssumption
<1>3. UserAgent(body) \in Nat
  <2>1. Trunc(body.user_agent, MaxUserAgent) \in 0..MaxUserAgent
    BY <1>0, <1>2, TruncBound
  <2> QED
    BY <1>2, <2>1 DEF UserAgent
<1> DEFINE issue == Trunc(body.issue_type, MaxIssueType)
           agent == UserAgent(body)
<1>4. Row(c, issue, agent) = Row(c, body.issue_type, agent)
  BY <1>2, TruncBound, ServiceAssumption DEF Row
<1>5. Row(c, issue, agent) \in Report
  <2>1. issue \in 1..MaxIssueType
    BY <1>0, <1>2, TruncBound
  <2>2. Trunc(issue, MaxIssueType) = issue
    BY <1>0, <1>2, TruncBound
  <2>3. Trunc(agent, MaxUserAgent) \in 0..MaxUserAgent
    BY <1>0, <1>3, TruncBound
  <2> QED
    BY <2>1, <2>2, <2>3 DEF Row, Report
<1> HIDE DEF body, issue, agent
<1>6. reports \in Seq(Report) /\ reports' = Append(reports, Row(c, issue, agent))
  BY DEF ToldTrue, TablesOK, issue, agent, body
<1>7. TablesOK' /\ Grows
  BY <1>5, <1>6 DEF ToldTrue, TablesOK, Grows
<1>8. Len(reports) + 1 \in DOMAIN reports' /\ reports'[Len(reports) + 1] = Row(c, issue, agent)
  BY <1>5, <1>6
<1> QED
  BY <1>4, <1>7, <1>8 DEF issue, agent, body

(***************************************************************************)
(* What a client remembers outlives every step of somebody else.           *)
(***************************************************************************)
LEMMA Remembers ==
  ASSUME NEW c \in Clients, ClientOK(c), Grows, request'[c] = request[c]
  PROVE  ClientOK(c)'
BY DEF ClientOK, Grows, Stored, Acknowledged

(* A step of one client's request that writes no table. *)
LEMMA OneRequest ==
  ASSUME ToldTrue, NEW c \in Clients, NEW r \in Request, Update(c, r),
         TablesOK', Grows, ClientOK(c)'
  PROVE  ToldTrue'
<1>1. request' \in [Clients -> Request]
  BY DEF ToldTrue, Update
<1>2. ASSUME NEW d \in Clients PROVE ClientOK(d)'
  <2>1. d # c => request'[d] = request[d]
    BY DEF ToldTrue, Update
  <2> QED
    BY <2>1, Remembers DEF ToldTrue
<1> QED
  BY <1>1, <1>2 DEF ToldTrue

LEMMA TablesKept ==
  ASSUME ToldTrue, UNCHANGED <<log, noted, reports>> PROVE TablesOK' /\ Grows
BY DEF ToldTrue, TablesOK, Grows

LEMMA IdleOK ==
  ASSUME NEW c \in Clients, request'[c].header = "none", request'[c].kind = "none",
         \/ request'[c].stage = "idle"
         \/ request'[c].stage = "answered" /\ request'[c].status # 201
  PROVE  ClientOK(c)'
BY DEF ClientOK, Stored, Acknowledged

LEMMA ReplyStep ==
  ASSUME ToldTrue, NEW c \in Clients, NEW n \in {400, 404, 500}, Reply(c, n),
         TablesOK', Grows
  PROVE  ToldTrue'
<1> DEFINE r == [Idle EXCEPT !.stage = "answered", !.status = n]
<1>0. n \in Nat /\ n # 201
  OBVIOUS
<1>1. r \in Request
  BY <1>0 DEF Idle, Request, Body
<1>2. Update(c, r)
  BY DEF Reply
<1>3. request'[c] = r
  BY <1>2 DEF Update, ToldTrue
<1>4. r.header = "none" /\ r.kind = "none" /\ r.stage = "answered" /\ r.status = n
  BY DEF Idle
<1> HIDE DEF r
<1>5. ClientOK(c)'
  BY <1>0, <1>3, <1>4, IdleOK
<1> QED
  BY <1>1, <1>2, <1>5, OneRequest

LEMMA ReadHeaderStep ==
  ASSUME ToldTrue, NEW c \in Clients, ReadHeader(c) PROVE ToldTrue'
<1>0. TablesOK' /\ Grows
  BY TablesKept DEF ReadHeader, database
<1>1. CASE Reply(c, 404)
  BY <1>0, <1>1, ReplyStep
<1>2. CASE ~Reply(c, 404)
  <2> DEFINE i == request[c].id
             r == [request[c] EXCEPT !.stage = "header", !.header = log[i].state]
  <2>1. i \in DOMAIN log /\ Update(c, r) /\ Handling(c, "incident", "sent")
        /\ UNCHANGED <<log, noted, reports>>
    BY <1>2 DEF ReadHeader, database
  <2>2. request[c] \in Request /\ log[i] \in Incident
    BY <2>1 DEF ToldTrue, TablesOK
  <2>3. r \in Request
    BY <2>2 DEF Request, Incident
  <2>4. request'[c] = r
    BY <2>1 DEF Update, ToldTrue
  <2>5. r.kind = "incident" /\ r.stage = "header" /\ r.id = i /\ r.timeline = {}
        /\ (r.header = "closed" => log[i].state = "closed")
    BY <2>1, <2>2 DEF Handling, ToldTrue, ClientOK, Request
  <2> HIDE DEF i, r
  <2>6. ClientOK(c)'
    BY <2>1, <2>4, <2>5 DEF ClientOK, Stored, Acknowledged
  <2> QED
    BY <1>0, <2>1, <2>3, <2>6, OneRequest
<1> QED
  BY <1>1, <1>2

LEMMA ReadTimelineStep ==
  ASSUME ToldTrue, NEW c \in Clients, ReadTimeline(c) PROVE ToldTrue'
<1> DEFINE i == request[c].id
<1>0. TablesOK' /\ Grows /\ UNCHANGED <<log, noted, reports>>
  BY TablesKept DEF ReadTimeline, database
<1>1. PICK timeline \in {{}, {IncidentUpdates(i)}} :
        Update(c, [request[c] EXCEPT !.stage = "answered", !.status = 200,
                                     !.timeline = timeline])
  BY DEF ReadTimeline
<1> DEFINE r == [request[c] EXCEPT !.stage = "answered", !.status = 200, !.timeline = timeline]
<1>2. request[c] \in Request /\ ClientOK(c) /\ Handling(c, "incident", "header")
  BY DEF ToldTrue, ReadTimeline
<1>3. i \in DOMAIN log /\ noted[i] \in Seq(States)
  BY <1>2 DEF ClientOK, Handling, ToldTrue, TablesOK
<1>4. timeline \in SUBSET Seq(States) /\ \A t \in timeline : t = noted[i]
  BY <1>1, <1>3 DEF IncidentUpdates
<1>5. r \in Request
  BY <1>2, <1>4 DEF Request
<1>6. r.kind = "incident" /\ r.stage = "answered" /\ r.status = 200 /\ r.id = i
      /\ r.timeline = timeline /\ r.header = request[c].header
  BY <1>2 DEF Handling, Request
<1>7. Update(c, r)
  BY <1>1
<1>8. request'[c] = r
  BY <1>7 DEF Update, ToldTrue
<1> HIDE DEF r, i
<1>9. ClientOK(c)'
  BY <1>0, <1>2, <1>3, <1>4, <1>6, <1>8 DEF ClientOK, Stored, Acknowledged, i
<1> QED
  BY <1>0, <1>5, <1>7, <1>9, OneRequest

LEMMA InsertReportStep ==
  ASSUME ToldTrue, NEW c \in Clients, InsertReport(c) PROVE ToldTrue'
<1> DEFINE body == request[c].body
           issue == Trunc(body.issue_type, MaxIssueType)
           grown == reports' = Append(reports, Row(c, issue, UserAgent(body)))
<1>1. request[c] \in Request /\ ClientOK(c) /\ Handling(c, "report", "sent")
      /\ UNCHANGED <<log, noted>>
  BY DEF ToldTrue, InsertReport
<1>2. ASSUME issue # 0, grown
      PROVE  /\ TablesOK' /\ Grows
             /\ Len(reports) + 1 \in DOMAIN reports'
             /\ reports'[Len(reports) + 1] = Row(c, body.issue_type, UserAgent(body))
  BY <1>1, <1>2, ReportGrows DEF Handling
<1>3. CASE Reply(c, 400) /\ UNCHANGED reports
  BY <1>1, <1>3, TablesKept, ReplyStep
<1>4. CASE Reply(c, 500) /\ UNCHANGED reports
  BY <1>1, <1>4, TablesKept, ReplyStep
<1>5. CASE Reply(c, 500) /\ issue # 0 /\ grown
  BY <1>2, <1>5, ReplyStep
<1>6. CASE /\ Update(c, [request[c] EXCEPT !.stage = "stored", !.id = Len(reports) + 1])
           /\ issue # 0 /\ grown
  <2> DEFINE r == [request[c] EXCEPT !.stage = "stored", !.id = Len(reports) + 1]
  <2>1. r \in Request
    <3>1. Len(reports) + 1 \in Nat
      BY DEF ToldTrue, TablesOK
    <3> QED
      BY <1>1, <3>1 DEF Request
  <2>2. Update(c, r)
    BY <1>6
  <2>3. request'[c] = r
    BY <2>2 DEF Update, ToldTrue
  <2>4. r.kind = "report" /\ r.stage = "stored" /\ r.id = Len(reports) + 1 /\ r.body = body
        /\ r.header = "none" /\ body \in Bodies[c]
    BY <1>1 DEF Handling, Request, ClientOK
  <2> HIDE DEF r
  <2>5. ClientOK(c)'
    BY <1>2, <1>6, <2>3, <2>4 DEF ClientOK
  <2> QED
    BY <1>2, <1>6, <2>1, <2>2, <2>5, OneRequest
<1> QED
  BY <1>3, <1>4, <1>5, <1>6 DEF InsertReport

LEMMA CountReportStep ==
  ASSUME ToldTrue, NEW c \in Clients, CountReport(c) PROVE ToldTrue'
<1> DEFINE r == [request[c] EXCEPT !.stage = "counted"]
<1>1. TablesOK' /\ Grows /\ UNCHANGED <<log, noted, reports>>
  BY TablesKept DEF CountReport, database
<1>2. request[c] \in Request /\ ClientOK(c) /\ Handling(c, "report", "stored")
  BY DEF ToldTrue, CountReport
<1>3. Update(c, r)
  BY DEF CountReport
<1>4. request'[c] = r
  BY <1>3 DEF Update, ToldTrue
<1>5. r \in Request /\ r.kind = "report" /\ r.stage = "counted" /\ r.id = request[c].id
      /\ r.body = request[c].body /\ r.header = "none"
  BY <1>2 DEF Handling, Request, ClientOK
<1> HIDE DEF r
<1>6. ClientOK(c)'
  BY <1>1, <1>2, <1>4, <1>5 DEF ClientOK, Stored, Handling
<1> QED
  BY <1>1, <1>3, <1>5, <1>6, OneRequest

LEMMA AcknowledgeStep ==
  ASSUME ToldTrue, NEW c \in Clients, Acknowledge(c) PROVE ToldTrue'
<1> DEFINE r == [request[c] EXCEPT !.stage = "answered", !.status = 201, !.id = request[c].id]
<1>1. TablesOK' /\ Grows /\ UNCHANGED <<log, noted, reports>>
  BY TablesKept DEF Acknowledge, database
<1>2. request[c] \in Request /\ ClientOK(c) /\ Handling(c, "report", "counted")
  BY DEF ToldTrue, Acknowledge
<1>3. Update(c, r)
  BY DEF Acknowledge, LastInsertId
<1>4. request'[c] = r
  BY <1>3 DEF Update, ToldTrue
<1>5. r \in Request /\ r.kind = "report" /\ r.stage = "answered" /\ r.id = request[c].id
      /\ r.body = request[c].body /\ r.header = "none"
  BY <1>2 DEF Handling, Request, ClientOK
<1> HIDE DEF r
<1>6. ClientOK(c)'
  BY <1>1, <1>2, <1>4, <1>5 DEF ClientOK, Stored, Handling
<1> QED
  BY <1>1, <1>3, <1>5, <1>6, OneRequest

LEMMA ClientStep ==
  ASSUME ToldTrue, NEW c \in Clients, AskIncident(c) \/ PostReport(c) \/ Receive(c)
  PROVE  ToldTrue'
<1>1. TablesOK' /\ Grows /\ UNCHANGED <<log, noted, reports>>
  BY TablesKept DEF AskIncident, PostReport, Receive, database
<1>2. CASE AskIncident(c)
  <2>1. PICK i \in 1..MaxIncidents :
          Update(c, [Idle EXCEPT !.stage = "sent", !.kind = "incident", !.id = i])
    BY <1>2 DEF AskIncident
  <2> DEFINE r == [Idle EXCEPT !.stage = "sent", !.kind = "incident", !.id = i]
  <2>2. r \in Request /\ r.header = "none" /\ r.stage = "sent" /\ r.kind = "incident"
        /\ r.timeline = {}
    <3>1. i \in Nat
      BY ServiceAssumption
    <3> QED
      BY <3>1 DEF Idle, Request, Body
  <2>3. request'[c] = r
    BY <2>1 DEF Update, ToldTrue
  <2>4. Update(c, r)
    BY <2>1
  <2> HIDE DEF r
  <2>5. ClientOK(c)'
    BY <2>2, <2>3 DEF ClientOK, Stored, Acknowledged
  <2> QED
    BY <1>1, <2>2, <2>4, <2>5, OneRequest
<1>3. CASE PostReport(c)
  <2>1. PICK body \in Bodies[c] :
          Update(c, [Idle EXCEPT !.stage = "sent", !.kind = "report", !.body = body])
    BY <1>3 DEF PostReport
  <2> DEFINE r == [Idle EXCEPT !.stage = "sent", !.kind = "report", !.body = body]
  <2>2. r \in Request /\ r.header = "none" /\ r.stage = "sent" /\ r.kind = "report"
        /\ r.timeline = {} /\ r.body = body
    BY DEF Idle, Request, Body
  <2>3. request'[c] = r
    BY <2>1 DEF Update, ToldTrue
  <2>4. Update(c, r)
    BY <2>1
  <2> HIDE DEF r
  <2>5. ClientOK(c)'
    BY <2>2, <2>3 DEF ClientOK, Stored, Acknowledged
  <2> QED
    BY <1>1, <2>2, <2>4, <2>5, OneRequest
<1>4. CASE Receive(c)
  <2>1. Update(c, Idle) /\ request'[c] = Idle
    BY <1>4 DEF Receive, Update, ToldTrue
  <2>2. Idle \in Request
    BY DEF Idle, Request, Body
  <2>3. ClientOK(c)'
    BY <2>1, IdleOK DEF Idle
  <2> QED
    BY <1>1, <2>1, <2>2, <2>3, OneRequest
<1> QED
  BY <1>2, <1>3, <1>4

(* Requests in flight are lost with the process, answers are not. *)
LEMMA EndStep ==
  ASSUME ToldTrue, NEW status, Ends(status) PROVE ToldTrue'
<1>1. TablesOK' /\ Grows
  BY TablesKept DEF Ends, database
<1>2. Idle \in Request
  BY DEF Idle, Request, Body
<1>3. request' \in [Clients -> Request]
  BY <1>2 DEF Ends, ToldTrue
<1>4. ASSUME NEW c \in Clients PROVE ClientOK(c)'
  <2>1. request'[c] = request[c] \/ request'[c] = Idle
    BY DEF Ends
  <2>2. request'[c] = Idle => ClientOK(c)'
    BY IdleOK DEF Idle
  <2> QED
    BY <1>1, <2>1, <2>2, Remembers DEF ToldTrue
<1> QED
  BY <1>1, <1>3, <1>4 DEF ToldTrue

LEMMA ToldTrueInit == Init => ToldTrue
<1> SUFFICES ASSUME Init PROVE ToldTrue
  OBVIOUS
<1>1. TablesOK
  BY DEF Init, TablesOK
<1>2. request \in [Clients -> Request]
  BY DEF Init, Idle, Request, Body
<1>3. ASSUME NEW c \in Clients PROVE ClientOK(c)
  BY DEF Init, Idle, ClientOK, Stored, Acknowledged
<1> QED
  BY <1>1, <1>2, <1>3 DEF ToldTrue

LEMMA ToldTrueStep ==
  ASSUME ToldTrue, [Next]_vars PROVE ToldTrue'
<1>1. CASE UNCHANGED <<database, request>>
  <2>1. TablesOK' /\ Grows
    BY <1>1, TablesKept DEF database
  <2>2. \A c \in Clients : request'[c] = request[c]
    BY <1>1
  <2> QED
    BY <1>1, <2>1, <2>2, Remembers DEF ToldTrue
<1>2. CASE WriteIncidents
  <2>1. TablesOK' /\ Grows /\ request' = request
    BY <1>2, IncidentsGrow DEF ToldTrue, WriteIncidents
  <2> QED
    BY <2>1, Remembers DEF ToldTrue
<1>3. CASE \/ Start \/ LoadConfig \/ OpenStore \/ StartBeside \/ OpenBot \/ ListenAndServe
           \/ Close \/ Signal \/ Shutdown
  <2>1. UNCHANGED <<database, request>>
    BY <1>3 DEF Start, LoadConfig, OpenStore, StartBeside, OpenBot, ListenAndServe, Close,
       Signal, Shutdown, Others
  <2> QED
    BY <1>1, <2>1
<1>4. CASE Exit \/ Crash
  BY <1>4, EndStep DEF Exit, Crash
<1>5. ASSUME NEW c \in Clients, AskIncident(c) \/ PostReport(c) \/ Receive(c) \/ Handle(c)
      PROVE  ToldTrue'
  BY <1>5, ClientStep, ReadHeaderStep, ReadTimelineStep, InsertReportStep, CountReportStep,
     AcknowledgeStep DEF Handle
<1>6. CASE UNCHANGED vars
  BY <1>1, <1>6 DEF vars
<1> QED
  BY <1>2, <1>3, <1>4, <1>5, <1>6 DEF Next, Run

(***************************************************************************)
(* An acknowledged report is stored, under its id and as it was sent.      *)
(***************************************************************************)
THEOREM AcknowledgedForGood == Spec => []AcknowledgedStays
<1>1. ToldTrue => AcknowledgedStays
  BY DEF ToldTrue, ClientOK, Stored, AcknowledgedStays
<1> QED
  BY <1>1, ToldTrueInit, ToldTrueStep, PTL DEF Spec

(***************************************************************************)
(* No text in reports is longer than its limit or, for issue_type, empty.  *)
(***************************************************************************)
THEOREM RowsWithinLimits == Spec => []StoredWithinLimits
<1>1. ToldTrue => StoredWithinLimits
  <2>1. TablesOK => \A k \in DOMAIN reports : reports[k] \in Report
    BY DEF TablesOK
  <2> QED
    BY <2>1 DEF ToldTrue, StoredWithinLimits, Report
<1> QED
  BY <1>1, ToldTrueInit, ToldTrueStep, PTL DEF Spec

(***************************************************************************)
(* Details that say closed tell the opening, if the timeline ever does.    *)
(***************************************************************************)
THEOREM DetailsTellOpening == Spec => []DetailTellsOpening
<1>1. ToldTrue => DetailTellsOpening
  BY DEF ToldTrue, ClientOK, DetailTellsOpening
<1> QED
  BY <1>1, ToldTrueInit, ToldTrueStep, PTL DEF Spec

-----------------------------------------------------------------------------
(***************************************************************************)
(* The counter                                                             *)
(***************************************************************************)

(***************************************************************************)
(* The clients whose report is stored and not yet counted, and those whose *)
(* report is counted and not yet answered.  Both are finite, however many  *)
(* clients there are: one of them acts at a time.                          *)
(***************************************************************************)
Pending  == {c \in Clients : request[c].stage = "stored"}
Credited == {c \in Clients : request[c].stage = "counted"}

Counted ==
  /\ counter \in Nat /\ before \in 0..Len(reports) /\ acknowledged \in Nat
  /\ IsFiniteSet(Pending) /\ counter + Cardinality(Pending) <= Len(reports) - before
  /\ IsFiniteSet(Credited) /\ acknowledged + Cardinality(Credited) <= counter

LEMMA CountedInit == Init => Counted
<1> SUFFICES ASSUME Init PROVE Counted
  OBVIOUS
<1>1. Pending = {} /\ Credited = {}
  BY DEF Init, Pending, Credited, Idle
<1> QED
  BY <1>1, FS_EmptySet DEF Init, Counted

(* What an answer, or the next stage of a request, does to the two sets. *)
LEMMA OneMoves ==
  ASSUME ToldTrue, NEW c \in Clients, NEW r, Update(c, r)
  PROVE  /\ Pending' = IF r.stage = "stored" THEN Pending \cup {c} ELSE Pending \ {c}
         /\ Credited' = IF r.stage = "counted" THEN Credited \cup {c} ELSE Credited \ {c}
<1>1. request' = [request EXCEPT ![c] = r] /\ request \in [Clients -> Request]
  BY DEF Update, ToldTrue
<1>2. request'[c] = r /\ \A d \in Clients : d # c => request'[d] = request[d]
  BY <1>1
<1> QED
  BY <1>2 DEF Pending, Credited

LEMMA OneMoreOneLess ==
  ASSUME NEW S, NEW x, IsFiniteSet(S)
  PROVE  /\ Cardinality(S) \in Nat
         /\ IsFiniteSet(S \cup {x}) /\ Cardinality(S \cup {x}) <= Cardinality(S) + 1
         /\ IsFiniteSet(S \ {x}) /\ Cardinality(S \ {x}) <= Cardinality(S)
         /\ x \in S => Cardinality(S \ {x}) = Cardinality(S) - 1
<1>1. Cardinality(S) \in Nat
  BY FS_CardinalityType
<1>2. /\ IsFiniteSet(S \cup {x})
      /\ Cardinality(S \cup {x}) = IF x \in S THEN Cardinality(S) ELSE Cardinality(S) + 1
  BY FS_AddElement
<1>3. /\ IsFiniteSet(S \ {x})
      /\ Cardinality(S \ {x}) = IF x \in S THEN Cardinality(S) - 1 ELSE Cardinality(S)
  BY FS_RemoveElement
<1> QED
  BY <1>1, <1>2, <1>3

LEMMA CountedByClient ==
  ASSUME ToldTrue, Counted, NEW c \in Clients, NEW r, Update(c, r), UNCHANGED before,
         Len(reports') \in {Len(reports), Len(reports) + 1},
         \/ r.stage \notin {"stored", "counted"} /\ UNCHANGED <<counter, acknowledged>>
         \/ /\ r.stage = "stored" /\ Len(reports') = Len(reports) + 1
            /\ UNCHANGED <<counter, acknowledged>>
         \/ /\ request[c].stage = "stored" /\ r.stage = "counted"
            /\ counter' = counter + 1 /\ UNCHANGED acknowledged
         \/ /\ request[c].stage = "counted" /\ r.stage = "answered"
            /\ acknowledged' = acknowledged + 1 /\ UNCHANGED counter
  PROVE  Counted'
<1>1. /\ Pending' = IF r.stage = "stored" THEN Pending \cup {c} ELSE Pending \ {c}
      /\ Credited' = IF r.stage = "counted" THEN Credited \cup {c} ELSE Credited \ {c}
  BY OneMoves
<1>2. /\ IsFiniteSet(Pending) /\ IsFiniteSet(Credited)
      /\ Cardinality(Pending) \in Nat /\ Cardinality(Credited) \in Nat
  BY FS_CardinalityType DEF Counted
<1>3. /\ IsFiniteSet(Pending \cup {c}) /\ IsFiniteSet(Pending \ {c})
      /\ Cardinality(Pending \cup {c}) <= Cardinality(Pending) + 1
      /\ Cardinality(Pending \ {c}) <= Cardinality(Pending)
      /\ c \in Pending => Cardinality(Pending \ {c}) = Cardinality(Pending) - 1
  BY <1>2, OneMoreOneLess
<1>4. /\ IsFiniteSet(Credited \cup {c}) /\ IsFiniteSet(Credited \ {c})
      /\ Cardinality(Credited \cup {c}) <= Cardinality(Credited) + 1
      /\ Cardinality(Credited \ {c}) <= Cardinality(Credited)
      /\ c \in Credited => Cardinality(Credited \ {c}) = Cardinality(Credited) - 1
  BY <1>2, OneMoreOneLess
<1>5. /\ Len(reports) \in Nat /\ counter \in Nat /\ acknowledged \in Nat
      /\ before \in 0..Len(reports)
  BY DEF ToldTrue, TablesOK, Counted
<1>6. /\ counter + Cardinality(Pending) <= Len(reports) - before
      /\ acknowledged + Cardinality(Credited) <= counter
  BY DEF Counted
<1>7. IsFiniteSet(Pending') /\ IsFiniteSet(Credited')
  BY <1>1, <1>3, <1>4
<1>8. Cardinality(Pending') \in Nat /\ Cardinality(Credited') \in Nat
  BY <1>7, FS_CardinalityType
<1> DEFINE p == Cardinality(Pending)
           q == Cardinality(Pending')
           a == Cardinality(Credited)
           b == Cardinality(Credited')
<1> HIDE DEF p, q, a, b
<1>9. CASE r.stage \notin {"stored", "counted"} /\ UNCHANGED <<counter, acknowledged>>
  <2>1. q <= p /\ b <= a
    BY <1>1, <1>3, <1>4, <1>9 DEF p, q, a, b
  <2> QED
    BY <1>2, <1>5, <1>6, <1>7, <1>8, <1>9, <2>1 DEF Counted, p, q, a, b
<1>10. CASE /\ r.stage = "stored" /\ Len(reports') = Len(reports) + 1
            /\ UNCHANGED <<counter, acknowledged>>
  <2>1. q <= p + 1 /\ b <= a
    BY <1>1, <1>3, <1>4, <1>10 DEF p, q, a, b
  <2> QED
    BY <1>2, <1>5, <1>6, <1>7, <1>8, <1>10, <2>1 DEF Counted, p, q, a, b
<1>11. CASE /\ request[c].stage = "stored" /\ r.stage = "counted"
            /\ counter' = counter + 1 /\ UNCHANGED acknowledged
  <2>1. c \in Pending
    BY <1>11 DEF Pending
  <2>2. q = p - 1 /\ b <= a + 1
    BY <1>1, <1>3, <1>4, <1>11, <2>1 DEF p, q, a, b
  <2> QED
    BY <1>2, <1>5, <1>6, <1>7, <1>8, <1>11, <2>2 DEF Counted, p, q, a, b
<1>12. CASE /\ request[c].stage = "counted" /\ r.stage = "answered"
            /\ acknowledged' = acknowledged + 1 /\ UNCHANGED counter
  <2>1. c \in Credited
    BY <1>12 DEF Credited
  <2>2. q <= p /\ b = a - 1
    BY <1>1, <1>3, <1>4, <1>12, <2>1 DEF p, q, a, b
  <2> QED
    BY <1>2, <1>5, <1>6, <1>7, <1>8, <1>12, <2>2 DEF Counted, p, q, a, b
<1> QED
  BY <1>9, <1>10, <1>11, <1>12

LEMMA CountedStep ==
  ASSUME ToldTrue, Counted, [Next]_vars PROVE Counted'
<1>1. CASE UNCHANGED <<request, counts>> /\ Len(reports') = Len(reports)
  <2>1. Pending' = Pending /\ Credited' = Credited
    BY <1>1 DEF Pending, Credited
  <2> QED
    BY <1>1, <2>1 DEF Counted, counts
<1>2. CASE Exit \/ Crash
  <2>1. /\ counter' = 0 /\ before' = Len(reports) /\ acknowledged' = 0 /\ reports' = reports
        /\ request' = [c \in Clients |-> IF request[c].stage = "answered" THEN request[c]
                                         ELSE Idle]
    BY <1>2 DEF Exit, Crash, Ends, database
  <2>2. Pending' = {} /\ Credited' = {}
    BY <2>1 DEF Pending, Credited, Idle
  <2> QED
    BY <2>1, <2>2, FS_EmptySet DEF Counted, ToldTrue, TablesOK
<1>3. CASE \/ Start \/ LoadConfig \/ OpenStore \/ StartBeside \/ OpenBot \/ ListenAndServe
           \/ Close \/ Signal \/ Shutdown \/ WriteIncidents \/ UNCHANGED vars
  BY <1>1, <1>3 DEF Start, LoadConfig, OpenStore, StartBeside, OpenBot, ListenAndServe, Close,
     Signal, Shutdown, WriteIncidents, Others, database, vars
<1>4. ASSUME NEW c \in Clients, NEW n \in {400, 404, 500}, Reply(c, n),
             UNCHANGED counts, Len(reports') \in {Len(reports), Len(reports) + 1}
      PROVE  Counted'
  <2> DEFINE r == [Idle EXCEPT !.stage = "answered", !.status = n]
  <2>1. r.stage = "answered" /\ Update(c, r)
    BY <1>4 DEF Reply, Idle
  <2> HIDE DEF r
  <2> QED
    BY <1>4, <2>1, CountedByClient DEF counts
<1>5. ASSUME NEW c \in Clients, NEW r, Update(c, r), r.stage \notin {"stored", "counted"},
             UNCHANGED <<counts, reports>>
      PROVE  Counted'
  BY <1>5, CountedByClient DEF counts
<1>6. ASSUME NEW c \in Clients, AskIncident(c) PROVE Counted'
  <2>1. PICK i \in 1..MaxIncidents :
          Update(c, [Idle EXCEPT !.stage = "sent", !.kind = "incident", !.id = i])
    BY <1>6 DEF AskIncident
  <2> DEFINE r == [Idle EXCEPT !.stage = "sent", !.kind = "incident", !.id = i]
  <2>2. r.stage = "sent" /\ Update(c, r)
    BY <2>1 DEF Idle
  <2> HIDE DEF r
  <2> QED
    BY <1>5, <1>6, <2>2 DEF AskIncident, database
<1>7. ASSUME NEW c \in Clients, PostReport(c) PROVE Counted'
  <2>1. PICK body \in Bodies[c] :
          Update(c, [Idle EXCEPT !.stage = "sent", !.kind = "report", !.body = body])
    BY <1>7 DEF PostReport
  <2> DEFINE r == [Idle EXCEPT !.stage = "sent", !.kind = "report", !.body = body]
  <2>2. r.stage = "sent" /\ Update(c, r)
    BY <2>1 DEF Idle
  <2> HIDE DEF r
  <2> QED
    BY <1>5, <1>7, <2>2 DEF PostReport, database
<1>8. ASSUME NEW c \in Clients, Receive(c) PROVE Counted'
  <2>1. Idle.stage = "idle" /\ Update(c, Idle)
    BY <1>8 DEF Receive, Idle
  <2> QED
    BY <1>5, <1>8, <2>1 DEF Receive, database
<1>9. ASSUME NEW c \in Clients, ReadHeader(c) PROVE Counted'
  <2>1. UNCHANGED <<counts, reports>>
    BY <1>9 DEF ReadHeader, database
  <2>2. CASE Reply(c, 404)
    BY <1>4, <2>1, <2>2
  <2>3. CASE ~Reply(c, 404)
    <3> DEFINE r == [request[c] EXCEPT !.stage = "header", !.header = log[request[c].id].state]
    <3>1. r.stage = "header" /\ Update(c, r)
      BY <1>9, <2>3 DEF ReadHeader, ToldTrue, Request
    <3> HIDE DEF r
    <3> QED
      BY <1>5, <2>1, <3>1
  <2> QED
    BY <2>2, <2>3
<1>10. ASSUME NEW c \in Clients, ReadTimeline(c) PROVE Counted'
  <2>1. PICK timeline \in {{}, {IncidentUpdates(request[c].id)}} :
          Update(c, [request[c] EXCEPT !.stage = "answered", !.status = 200,
                                       !.timeline = timeline])
    BY <1>10 DEF ReadTimeline
  <2> DEFINE r == [request[c] EXCEPT !.stage = "answered", !.status = 200,
                                     !.timeline = timeline]
  <2>2. r.stage = "answered" /\ Update(c, r)
    BY <2>1 DEF ToldTrue, Request
  <2> HIDE DEF r
  <2> QED
    BY <1>5, <1>10, <2>2 DEF ReadTimeline, database
<1>11. ASSUME NEW c \in Clients, InsertReport(c) PROVE Counted'
  <2>1. /\ UNCHANGED counts
        /\ Len(reports') \in {Len(reports), Len(reports) + 1}
    BY <1>11 DEF InsertReport, ToldTrue, TablesOK
  <2>2. CASE Reply(c, 400) \/ Reply(c, 500)
    BY <1>4, <2>1, <2>2
  <2>3. CASE ~(Reply(c, 400) \/ Reply(c, 500))
    <3> DEFINE r == [request[c] EXCEPT !.stage = "stored", !.id = Len(reports) + 1]
    <3>1. r.stage = "stored" /\ Update(c, r) /\ Len(reports') = Len(reports) + 1
      BY <1>11, <2>3 DEF InsertReport, ToldTrue, TablesOK, Request
    <3> HIDE DEF r
    <3> QED
      BY <2>1, <3>1, CountedByClient DEF counts
  <2> QED
    BY <2>2, <2>3
<1>12. ASSUME NEW c \in Clients, CountReport(c) PROVE Counted'
  <2> DEFINE r == [request[c] EXCEPT !.stage = "counted"]
  <2>1. /\ r.stage = "counted" /\ request[c].stage = "stored" /\ Update(c, r)
        /\ counter' = counter + 1 /\ UNCHANGED <<before, acknowledged, reports>>
    BY <1>12 DEF CountReport, Handling, IncReportsTotal, ToldTrue, Request, database
  <2> HIDE DEF r
  <2> QED
    BY <2>1, CountedByClient
<1>13. ASSUME NEW c \in Clients, Acknowledge(c) PROVE Counted'
  <2> DEFINE r == [request[c] EXCEPT !.stage = "answered", !.status = 201,
                                     !.id = LastInsertId(c)]
  <2>1. /\ r.stage = "answered" /\ request[c].stage = "counted" /\ Update(c, r)
        /\ acknowledged' = acknowledged + 1 /\ UNCHANGED <<before, counter, reports>>
    BY <1>13 DEF Acknowledge, Handling, ToldTrue, Request, database
  <2> HIDE DEF r
  <2> QED
    BY <2>1, CountedByClient
<1> QED
  BY <1>2, <1>3, <1>6, <1>7, <1>8, <1>9, <1>10, <1>11, <1>12, <1>13 DEF Next, Run, Handle

(***************************************************************************)
(* aptos_guardian_reports_total: never more than this process stored, never*)
(* less than it acknowledged, whoever still waits for what.                *)
(***************************************************************************)
THEOREM CounterIsRight == Spec => []CounterTellsStored
<1>1. ToldTrue /\ Counted => CounterTellsStored
  <2> SUFFICES ASSUME ToldTrue, Counted PROVE CounterTellsStored
    OBVIOUS
  <2>1. Cardinality(Pending) \in Nat /\ Cardinality(Credited) \in Nat
    BY FS_CardinalityType DEF Counted
  <2> QED
    BY <2>1 DEF Counted, ToldTrue, TablesOK, CounterTellsStored
<1>2. ToldTrue /\ Counted /\ [Next]_vars => Counted'
  BY CountedStep
<1> QED
  BY <1>1, <1>2, CountedInit, ToldTrueInit, ToldTrueStep, PTL DEF Spec

-----------------------------------------------------------------------------
(***************************************************************************)
(* Types                                                                   *)
(***************************************************************************)

(***************************************************************************)
(* An answer carries a status, and the status of an incident's details     *)
(* means that the incident exists.                                         *)
(***************************************************************************)
StatusOK(c) ==
  /\ request[c].status \in {0, 200, 201, 400, 404, 500}
  /\ request[c].status # 0 => request[c].stage = "answered"
  /\ request[c].status = 200 => request[c].id \in DOMAIN log

StatusesOK == \A c \in Clients : StatusOK(c)

LEMMA StatusInit == Init => StatusesOK
<1> SUFFICES ASSUME Init, NEW c \in Clients PROVE StatusOK(c)
  BY DEF StatusesOK
<1>1. request[c] = Idle /\ Idle.status = 0
  BY DEF Init, Idle
<1> QED
  BY <1>1 DEF StatusOK

LEMMA StatusByClient ==
  ASSUME ToldTrue, StatusesOK, Grows, NEW c \in Clients, NEW r, Update(c, r),
         r.status \in {0, 200, 201, 400, 404, 500},
         r.status # 0 => r.stage = "answered",
         r.status = 200 => r.id \in DOMAIN log'
  PROVE  StatusesOK'
<1>1. request'[c] = r /\ \A d \in Clients : d # c => request'[d] = request[d]
  BY DEF Update, ToldTrue
<1> QED
  BY <1>1 DEF StatusesOK, StatusOK, Grows

LEMMA StatusStep ==
  ASSUME ToldTrue, StatusesOK, [Next]_vars PROVE StatusesOK'
<1>1. CASE UNCHANGED request /\ Grows
  BY <1>1 DEF StatusesOK, StatusOK, Grows
<1>2. CASE Exit \/ Crash
  <2>1. \A c \in Clients : request'[c] = request[c] \/ request'[c] = Idle
    BY <1>2 DEF Exit, Crash, Ends
  <2>2. UNCHANGED log
    BY <1>2 DEF Exit, Crash, Ends, database
  <2>3. Idle.status = 0
    BY DEF Idle
  <2> QED
    BY <2>1, <2>2, <2>3 DEF StatusesOK, StatusOK
<1>3. CASE \/ Start \/ LoadConfig \/ OpenStore \/ StartBeside \/ OpenBot \/ ListenAndServe
           \/ Close \/ Signal \/ Shutdown \/ UNCHANGED vars
  <2>1. UNCHANGED request /\ UNCHANGED <<log, noted, reports>>
    BY <1>3 DEF Start, LoadConfig, OpenStore, StartBeside, OpenBot, ListenAndServe, Close,
       Signal, Shutdown, Others, database, vars
  <2> QED
    BY <1>1, <2>1, TablesKept
<1>4. CASE WriteIncidents
  BY <1>1, <1>4, IncidentsGrow DEF WriteIncidents, ToldTrue
<1>5. ASSUME NEW c \in Clients, NEW n \in {400, 404, 500}, Reply(c, n), UNCHANGED log
      PROVE  StatusesOK'
  <2> DEFINE r == [Idle EXCEPT !.stage = "answered", !.status = n]
  <2>1. r.stage = "answered" /\ r.status = n /\ Update(c, r)
    BY <1>5 DEF Reply, Idle
  <2> HIDE DEF r
  <2>2. request'[c] = r /\ \A d \in Clients : d # c => request'[d] = request[d]
    BY <2>1 DEF Update, ToldTrue
  <2> QED
    BY <1>5, <2>1, <2>2 DEF StatusesOK, StatusOK
<1>6. ASSUME NEW c \in Clients, AskIncident(c) \/ PostReport(c) \/ Receive(c)
      PROVE  StatusesOK'
  <2>1. \E r : Update(c, r) /\ r.status = 0
    <3>1. \A i, body :
            /\ [Idle EXCEPT !.stage = "sent", !.kind = "incident", !.id = i].status = 0
            /\ [Idle EXCEPT !.stage = "sent", !.kind = "report", !.body = body].status = 0
            /\ Idle.status = 0
      BY DEF Idle
    <3>2. CASE AskIncident(c)
      BY <3>1, <3>2 DEF AskIncident
    <3>3. CASE PostReport(c)
      BY <3>1, <3>3 DEF PostReport
    <3>4. CASE Receive(c)
      BY <3>1, <3>4 DEF Receive
    <3> QED
      BY <1>6, <3>2, <3>3, <3>4
  <2>2. Grows
    BY <1>6, TablesKept DEF AskIncident, PostReport, Receive, database
  <2> QED
    BY <2>1, <2>2, StatusByClient
<1>7. ASSUME NEW c \in Clients, ReadHeader(c) PROVE StatusesOK'
  <2>1. Grows /\ UNCHANGED log
    BY <1>7, TablesKept DEF ReadHeader, database
  <2>2. CASE Reply(c, 404)
    BY <1>5, <2>1, <2>2
  <2>3. CASE ~Reply(c, 404)
    <3> DEFINE r == [request[c] EXCEPT !.stage = "header", !.header = log[request[c].id].state]
    <3>1. r.status = request[c].status /\ request[c].stage = "sent" /\ Update(c, r)
      BY <1>7, <2>3 DEF ReadHeader, Handling, ToldTrue, Request
    <3> HIDE DEF r
    <3>2. r.status = 0
      BY <3>1 DEF StatusesOK, StatusOK
    <3> QED
      BY <2>1, <3>1, <3>2, StatusByClient
  <2> QED
    BY <2>2, <2>3
<1>8. ASSUME NEW c \in Clients, ReadTimeline(c) PROVE StatusesOK'
  <2>1. Grows /\ UNCHANGED log /\ request[c].id \in DOMAIN log
    BY <1>8, TablesKept DEF ReadTimeline, Handling, ToldTrue, ClientOK, database
  <2>2. PICK timeline \in {{}, {IncidentUpdates(request[c].id)}} :
          Update(c, [request[c] EXCEPT !.stage = "answered", !.status = 200,
                                       !.timeline = timeline])
    BY <1>8 DEF ReadTimeline
  <2> DEFINE r == [request[c] EXCEPT !.stage = "answered", !.status = 200,
                                     !.timeline = timeline]
  <2>3. r.stage = "answered" /\ r.status = 200 /\ r.id = request[c].id /\ Update(c, r)
    BY <2>2 DEF ToldTrue, Request
  <2> HIDE DEF r
  <2> QED
    BY <2>1, <2>3, StatusByClient
<1>9. ASSUME NEW c \in Clients, InsertReport(c) PROVE StatusesOK'
  <2>1. UNCHANGED log
    BY <1>9 DEF InsertReport
  <2>2. CASE Reply(c, 400) \/ Reply(c, 500)
    BY <1>5, <2>1, <2>2
  <2>3. CASE ~(Reply(c, 400) \/ Reply(c, 500))
    <3> DEFINE r == [request[c] EXCEPT !.stage = "stored", !.id = Len(reports) + 1]
    <3>1. r.status = request[c].status /\ request[c].stage = "sent" /\ Update(c, r)
      BY <1>9, <2>3 DEF InsertReport, Handling, ToldTrue, Request
    <3> HIDE DEF r
    <3>2. r.status = 0
      BY <3>1 DEF StatusesOK, StatusOK
    <3>3. request'[c] = r /\ \A d \in Clients : d # c => request'[d] = request[d]
      BY <3>1 DEF Update, ToldTrue
    <3> QED
      BY <2>1, <3>2, <3>3 DEF StatusesOK, StatusOK
  <2> QED
    BY <2>2, <2>3
<1>10. ASSUME NEW c \in Clients, Acknowledge(c) PROVE StatusesOK'
  <2>1. Grows
    BY <1>10, TablesKept DEF Acknowledge, database
  <2> DEFINE r == [request[c] EXCEPT !.stage = "answered", !.status = 201,
                                     !.id = LastInsertId(c)]
  <2>2. r.stage = "answered" /\ r.status = 201 /\ Update(c, r)
    BY <1>10 DEF Acknowledge, ToldTrue, Request
  <2> HIDE DEF r
  <2> QED
    BY <2>1, <2>2, StatusByClient
<1>11. ASSUME NEW c \in Clients, CountReport(c) PROVE StatusesOK'
  <2>1. Grows
    BY <1>11, TablesKept DEF CountReport, database
  <2> DEFINE r == [request[c] EXCEPT !.stage = "counted"]
  <2>2. r.status = request[c].status /\ request[c].stage = "stored" /\ Update(c, r)
    BY <1>11 DEF CountReport, Handling, ToldTrue, Request
  <2> HIDE DEF r
  <2>3. r.status = 0
    BY <2>2 DEF StatusesOK, StatusOK
  <2> QED
    BY <2>1, <2>2, <2>3, StatusByClient
<1> QED
  BY <1>2, <1>3, <1>4, <1>6, <1>7, <1>8, <1>9, <1>10, <1>11 DEF Next, Run, Handle

(* What run, the faults and the signals count and set. *)
Bounds ==
  /\ signalled \in BOOLEAN /\ closing \in BOOLEAN /\ failed \in BOOLEAN
  /\ code \in {-1, 0, 1, 2}
  /\ faults \in 0..MaxFaults /\ stops \in 0..MaxStops

LEMMA BoundsInit == Init => Bounds
<1> SUFFICES ASSUME Init PROVE Bounds
  OBVIOUS
<1>1. signalled \in BOOLEAN /\ closing \in BOOLEAN /\ failed \in BOOLEAN
  BY Zenon DEF Init
<1>2. code \in {-1, 0, 1, 2} /\ faults \in 0..MaxFaults /\ stops \in 0..MaxStops
  BY ServiceAssumption DEF Init
<1> QED
  BY <1>1, <1>2 DEF Bounds

LEMMA WhoSets ==
  ASSUME [Next]_vars
  PROVE  /\ UNCHANGED faults \/ Fault
         /\ UNCHANGED stops \/ (stops < MaxStops /\ stops' = stops + 1)
         /\ code' \in {code, -1, 0, 1, 2}
<1>1. CASE Run
  BY <1>1 DEF Run, Start, LoadConfig, OpenStore, StartBeside, OpenBot, ListenAndServe, Close,
              Exit, Ends, ExitCode
<1>2. CASE Crash \/ Signal \/ Shutdown \/ WriteIncidents \/ UNCHANGED vars
  BY <1>2 DEF Crash, Ends, Signal, Shutdown, WriteIncidents, vars, process
<1>3. ASSUME NEW c \in Clients, AskIncident(c) \/ PostReport(c) \/ Receive(c) \/ Handle(c)
      PROVE  /\ UNCHANGED faults \/ Fault
             /\ UNCHANGED <<stops, code>>
  BY <1>3 DEF AskIncident, PostReport, Receive, Handle, ReadHeader, ReadTimeline, InsertReport,
              CountReport, Acknowledge, CallOk, CallFails, process
<1> QED
  BY <1>1, <1>2, <1>3 DEF Next

LEMMA BoundsStep ==
  ASSUME Bounds, [Next]_vars PROVE Bounds'
<1>1. faults' \in 0..MaxFaults /\ stops' \in 0..MaxStops /\ code' \in {-1, 0, 1, 2}
  BY WhoSets, ServiceAssumption DEF Bounds, Fault
<1>2. signalled' \in BOOLEAN /\ closing' \in BOOLEAN /\ failed' \in BOOLEAN
  <2>1. CASE Start \/ LoadConfig \/ OpenStore \/ OpenBot \/ ListenAndServe \/ Close
    BY <2>1, Zenon DEF Start, LoadConfig, OpenStore, OpenBot, ListenAndServe, Close, Return, flags,
                Bounds
  <2>5. CASE StartBeside
    BY <2>5, Zenon DEF StartBeside, Return, Bounds
  <2>2. CASE Exit \/ Crash
    BY <2>2, Zenon DEF Exit, Crash, Ends, Bounds
  <2>3. CASE Signal \/ Shutdown
    BY <2>3, Zenon DEF Signal, Shutdown, Bounds
  <2>4. CASE UNCHANGED process
    BY <2>4, Zenon DEF process, flags, Bounds
  <2> QED
    BY <2>1, <2>2, <2>3, <2>4, <2>5, Beside DEF Next, Run, vars
<1> QED
  BY <1>1, <1>2 DEF Bounds

(***************************************************************************)
(* Every reachable state is well typed, and what a request works on or was *)
(* told of is in the tables.                                               *)
(***************************************************************************)
THEOREM ServiceTypeCorrect == Spec => []TypeOK
<1>1. ASSUME Stages, Bounds, ToldTrue, Counted, StatusesOK PROVE TypeOK
  <2>1. {signalled, closing, storeOpen, botOpen, started, failed} \subseteq BOOLEAN
    BY <1>1 DEF Stages, Bounds
  <2>2. /\ log \in Seq([entity : Entities, severity : Severities, state : {"open", "closed"}])
        /\ Len(noted) = Len(log)
        /\ \A k \in DOMAIN reports : reports[k].client \in Clients
    <3>1. ASSUME NEW k \in DOMAIN reports PROVE reports[k] \in Report
      BY <1>1 DEF ToldTrue, TablesOK
    <3> QED
      BY <1>1, <3>1 DEF ToldTrue, TablesOK, Incident, States, Report
  <2>3. ASSUME NEW c \in Clients PROVE RequestOK(request[c])
    <3>1. request[c] \in Request /\ ClientOK(c) /\ StatusOK(c)
      BY <1>1 DEF ToldTrue, StatusesOK
    <3>2. DOMAIN request[c] = DOMAIN Idle
      BY <3>1 DEF Request, Idle
    <3>3. /\ request[c].stage \in {"idle", "sent", "header", "stored", "counted", "answered"}
          /\ request[c].kind \in {"none", "incident", "report"}
      BY <3>1 DEF Request
    <3> QED
      BY <3>1, <3>2, <3>3 DEF RequestOK, ClientOK, StatusOK, Stored, Acknowledged
  <2> QED
    BY <1>1, <2>1, <2>2, <2>3 DEF TypeOK, Stages, Bounds, Counted
<1>2. ToldTrue /\ Counted /\ [Next]_vars => Counted'
  BY CountedStep
<1>3. ToldTrue /\ StatusesOK /\ [Next]_vars => StatusesOK'
  BY StatusStep
<1> QED
  BY <1>1, <1>2, <1>3, StagesInit, StagesStep, BoundsInit, BoundsStep, ToldTrueInit, ToldTrueStep,
     CountedInit, StatusInit, PTL DEF Spec
=============================================================================
