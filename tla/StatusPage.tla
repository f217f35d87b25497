----------------------------- MODULE StatusPage -----------------------------
(***************************************************************************)
(* Those who read what the monitor writes: the handlers of /v1/status and  *)
(* /v1/incidents (internal/api/handlers.go), the page that polls them      *)
(* (web/app.js), the Discord bot's commands (internal/discordbot/bot.go,   *)
(* commands.go), and the gauge of open incidents with its loop             *)
(* (cmd/aptos-guardian/main.go).  A request is a sequence of statements,   *)
(* its answer arrives later, and the answers to two requests may overtake  *)
(* each other.                                                             *)
(*                                                                         *)
(* The writer is not Monitor itself but what Monitor was shown to          *)
(* implement: the open and close steps of IncidentLog, beside a table of   *)
(* checks that changes at any time.                                        *)
(***************************************************************************)
EXTENDS Integers, Sequences, FiniteSets

CONSTANTS
  Entities,      \* [type, name], those of an earlier configuration among them
  Names,         \* those configured now, in the order of the configuration
  Folded,        \* per name, its form without case: names that share one are equal
                 \* to strings.ToLower and strings.EqualFold
  Severities,
  Polls,         \* requests that may be in flight
  KindsOf,       \* per poll, what sends it: a timer of the page or a command
  StatusLimit,   \* incidents in an answer of /v1/status or a command (20)
  ListLimit,     \* incidents in an answer of /v1/incidents (50)
  GaugeLimit,    \* incidents the gauge loop asks for (100)
  MaxIncidents,  \* bound: incidents opened
  MaxFaults,     \* bound: statements and messages that fail
  MaxStops       \* bound: signals and crashes

Configured == {Names[k] : k \in DOMAIN Names}
Kinds      == {"status", "incidents", "command"}

ASSUME PageAssumption ==
  /\ Names \in Seq(Entities)
  /\ {e.name : e \in Entities} \subseteq DOMAIN Folded
  /\ KindsOf \in [Polls -> SUBSET Kinds]
  /\ StatusLimit \in Nat \ {0} /\ ListLimit \in Nat \ {0} /\ GaugeLimit \in Nat \ {0}
  /\ MaxIncidents \in Nat /\ MaxFaults \in Nat /\ MaxStops \in Nat

VARIABLES
  newest,  \* per configured entity, the outcome of its newest row of checks, "fail" also if there
           \* is no row: every reader takes that for the same
  log,     \* the incidents, in the order of started_at
  mode,    \* "up", "stopping", "down"
  faults,
  stops,
  ask,     \* per poll, the request and what its handler has read
  page,    \* what the browser shows
  gauge    \* aptos_guardian_incidents_open, -1 in a process that has not set it

vars == <<newest, log, mode, faults, stops, ask, page, gauge>>

Untold == [i \in DOMAIN log |-> <<>>]
Log == INSTANCE IncidentLog WITH noted <- Untold, heard <- Untold

OpenNow == {i \in DOMAIN log : log[i].state = "open"}

(***************************************************************************)
(* ListIncidents(open, limit): ORDER BY started_at DESC.  Which of several *)
(* incidents of one second the limit cuts off is not decided by the query; *)
(* the model takes the earlier row.                                        *)
(***************************************************************************)
Unlimited(limit) == OpenNow
ListOldest(limit) ==
  {i \in OpenNow : Cardinality({j \in OpenNow : j < i}) < limit}
OneTooFew(limit) ==
  {i \in OpenNow : Cardinality({j \in OpenNow : j > i}) < limit - 1}
ListIncidents(limit) ==
  {i \in OpenNow : Cardinality({j \in OpenNow : j > i}) < limit}

(***************************************************************************)
(* A poll that is not in flight, or what its handler has read so far; and  *)
(* one whose answer will not come.                                         *)
(***************************************************************************)
Idle == [stage |-> "idle", kind |-> "none", cards |-> <<>>, list |-> {}]
Stages == {"idle", "sent", "answered", "failed"}
Lost(p) == [Idle EXCEPT !.stage = "failed", !.kind = ask[p].kind]

Fault     == faults < MaxFaults /\ faults' = faults + 1
Serving   == mode \in {"up", "stopping"}

Init ==
  /\ newest = [e \in Configured |-> "fail"]
  /\ log    = <<>>
  /\ mode   = "up"
  /\ faults = 0
  /\ stops  = 0
  /\ ask    = [p \in Polls |-> Idle]
  /\ page   = [cards |-> <<>>, list |-> {}]
  /\ gauge  = -1

-----------------------------------------------------------------------------
(***************************************************************************)
(* The monitor, whose statements are refused after the signal.             *)
(***************************************************************************)
StoreCheck(e) ==
  /\ mode = "up"
  /\ \E outcome \in {"ok", "fail"} : newest' = [newest EXCEPT ![e] = outcome]
  /\ UNCHANGED <<log, mode, faults, stops, ask, page, gauge>>

WriteIncidents ==
  /\ mode = "up"
  /\ \/ \E e \in Entities, s \in Severities : Len(log) < MaxIncidents /\ Log!Open(e, s)
     \/ \E i \in DOMAIN log : Log!Close(i)
  /\ UNCHANGED <<newest, mode, faults, stops, ask, page, gauge>>

-----------------------------------------------------------------------------
(***************************************************************************)
(* The handlers                                                            *)
(***************************************************************************)

(***************************************************************************)
(* setInterval fires whether or not earlier answers have arrived.  Someone *)
(* gives the bot a command in a channel; one given in a direct message is  *)
(* refused before anything is read.                                        *)
(***************************************************************************)
Poll(p) ==
  /\ ask[p].stage = "idle"
  /\ \E kind \in KindsOf[p] :
       ask' = [ask EXCEPT ![p].stage = "sent", ![p].kind = kind]
  /\ UNCHANGED <<newest, log, mode, faults, stops, page, gauge>>

(***************************************************************************)
(* Status, and BuildCommandContext for the bot, read the newest check of   *)
(* one entity after the other.  A read that fails is taken for an entity   *)
(* without checks.  They work under the request's context or none, which   *)
(* the signal does not cancel, but run returns as soon as the server is    *)
(* told to shut down, and closes the store: from the signal on a read of   *)
(* theirs may or may not succeed.                                          *)
(***************************************************************************)
ReadFails == IF mode = "stopping" THEN UNCHANGED faults ELSE Fault

Card(outcome) == IF outcome = "ok" THEN "healthy" ELSE "unhealthy"

ReadCheck(p) ==
  LET cards == ask[p].cards
  IN  /\ Serving
      /\ ask[p].stage = "sent" /\ ask[p].kind # "incidents" /\ Len(cards) < Len(Names)
      /\ \/ /\ ask' = [ask EXCEPT ![p].cards =
                         Append(cards, Card(newest[Names[Len(cards) + 1]]))]
            /\ UNCHANGED faults
         \/ /\ ReadFails
            /\ ask' = [ask EXCEPT ![p].cards = Append(cards, Card("fail"))]
      /\ UNCHANGED <<newest, log, mode, stops, page, gauge>>

(***************************************************************************)
(* The open incidents.  When the read fails Status and the commands answer *)
(* without any, ListIncidents with status 500.                             *)
(***************************************************************************)
Answer(p, list) ==
  ask' = [ask EXCEPT ![p].stage = "answered", ![p].list = list]

ReadOpen(p) ==
  /\ Serving
  /\ ask[p].stage = "sent" /\ ask[p].kind # "incidents" /\ Len(ask[p].cards) = Len(Names)
  /\ \/ Answer(p, ListIncidents(StatusLimit)) /\ UNCHANGED faults
     \/ Answer(p, {}) /\ ReadFails
  /\ UNCHANGED <<newest, log, mode, stops, page, gauge>>

ReadIncidents(p) ==
  /\ Serving
  /\ ask[p].stage = "sent" /\ ask[p].kind = "incidents"
  /\ \/ Answer(p, ListIncidents(ListLimit)) /\ UNCHANGED faults
     \/ ask' = [ask EXCEPT ![p] = Lost(p)] /\ ReadFails
  /\ UNCHANGED <<newest, log, mode, stops, page, gauge>>

(***************************************************************************)
(* No connection, or one that breaks, or a channel the bot cannot resolve. *)
(* A server that is shutting down takes no new connection.                 *)
(***************************************************************************)
Break(p) ==
  /\ ask[p].stage \in {"sent", "answered"}
  /\ IF mode = "up" THEN Fault ELSE UNCHANGED faults
  /\ ask' = [ask EXCEPT ![p] = Lost(p)]
  /\ UNCHANGED <<newest, log, mode, stops, page, gauge>>

-----------------------------------------------------------------------------
(***************************************************************************)
(* The page: fetchStatus and fetchIncidents.  Both write the same list.    *)
(* The answer to a command goes to the channel instead.                    *)
(***************************************************************************)
KeepWhenEmpty(list) == IF list = {} THEN page.list ELSE list
RenderIncidents(list) == list

KeepCards(cards) == page.cards
RenderCards(cards) == cards

Render(p) ==
  LET kind == ask[p].kind
  IN  /\ ask[p].stage = "answered"
      /\ page' = [cards |-> IF kind = "status" THEN RenderCards(ask[p].cards)
                                               ELSE page.cards,
                  list  |-> IF kind # "command" THEN RenderIncidents(ask[p].list)
                                                ELSE page.list]
      /\ ask' = [ask EXCEPT ![p] = Idle]
      /\ UNCHANGED <<newest, log, mode, faults, stops, gauge>>

(* catch: the cards give way to a message, the incidents stay. *)
Catch(p) ==
  /\ ask[p].stage = "failed"
  /\ page' = IF ask[p].kind = "status" THEN [page EXCEPT !.cards = <<>>] ELSE page
  /\ ask' = [ask EXCEPT ![p] = Idle]
  /\ UNCHANGED <<newest, log, mode, faults, stops, gauge>>

(***************************************************************************)
(* /status shows all of its answer, /rpc the cards.  /dapp looks without   *)
(* regard to case for the dApp it was given and for its incident: it shows *)
(* the card of the first dApp that answers to the name and the newest open *)
(* incident of any that does.                                              *)
(***************************************************************************)
AnswersTo(e, name) == e.type = "dapp" /\ Folded[e.name] = Folded[name]

DappIncident(name, list) ==
  LET its == {i \in list : AnswersTo(log[i].entity, name)}
  IN  {i \in its : \A j \in its : j <= i}

-----------------------------------------------------------------------------
(***************************************************************************)
(* The gauge: set at start and every 30 s from a list whose error is       *)
(* ignored.  After the signal the list is always in error; the loop may    *)
(* still take its tick once more.                                          *)
(***************************************************************************)
NeverAgain == gauge = -1
TickerFires == TRUE

SetGauge ==
  /\ Serving /\ TickerFires
  /\ \/ /\ mode = "up" /\ UNCHANGED faults
        /\ gauge' = Cardinality(ListIncidents(GaugeLimit))
     \/ mode = "up" /\ Fault /\ gauge' = 0
     \/ mode = "stopping" /\ UNCHANGED faults /\ gauge' = 0
  /\ UNCHANGED <<newest, log, mode, stops, ask, page>>

-----------------------------------------------------------------------------
(* The process, as in Monitor; requests it was serving break off. *)
Signal ==
  /\ mode = "up" /\ stops < MaxStops
  /\ mode' = "stopping" /\ stops' = stops + 1
  /\ UNCHANGED <<newest, log, faults, ask, page, gauge>>

ProcessEnds ==
  /\ \/ mode = "stopping" /\ UNCHANGED stops
     \/ mode = "up" /\ stops < MaxStops /\ stops' = stops + 1
  /\ mode' = "down" /\ gauge' = -1
  /\ ask' = [p \in Polls |-> IF ask[p].stage = "sent" THEN Lost(p) ELSE ask[p]]
  /\ UNCHANGED <<newest, log, faults, page>>

Boot ==
  /\ mode = "down"
  /\ mode' = "up"
  /\ UNCHANGED <<newest, log, faults, stops, ask, page, gauge>>

Handle(p) ==
  \/ ReadCheck(p) \/ ReadOpen(p) \/ ReadIncidents(p) \/ Break(p)
  \/ Render(p) \/ Catch(p)

Next ==
  \/ \E e \in Configured : StoreCheck(e)
  \/ WriteIncidents
  \/ \E p \in Polls : Poll(p) \/ Handle(p)
  \/ SetGauge
  \/ Signal
  \/ ProcessEnds
  \/ Boot

Spec == Init /\ [][Next]_vars

(***************************************************************************)
(* The timers fire, a request is answered or fails, the ticker of the      *)
(* gauge fires, and a process that was told to stop is started again.      *)
(* Nothing is assumed of the monitor.                                      *)
(***************************************************************************)
Fairness ==
  /\ \A p \in Polls : WF_vars(Poll(p)) /\ WF_vars(Handle(p))
  /\ WF_vars(SetGauge)
  /\ WF_vars(mode = "stopping" /\ ProcessEnds)
  /\ WF_vars(Boot)

FairSpec == Spec /\ Fairness
-----------------------------------------------------------------------------
(***************************************************************************)
(* Properties                                                              *)
(***************************************************************************)
CardsOK(cards) == Len(cards) <= Len(Names) /\ cards \in Seq({"healthy", "unhealthy"})

(***************************************************************************)
(* The types; an answer of Status has a card for every entity, the page    *)
(* one for each or none.                                                   *)
(***************************************************************************)
TypeOK ==
  /\ newest \in [Configured -> {"ok", "fail"}]
  /\ log \in Seq([entity : Entities, severity : Severities, state : {"open", "closed"}])
  /\ mode \in {"up", "stopping", "down"}
  /\ faults \in 0..MaxFaults /\ stops \in 0..MaxStops
  /\ \A p \in Polls :
       /\ DOMAIN ask[p] = DOMAIN Idle
       /\ ask[p].stage \in Stages
       /\ ask[p].kind \in Kinds \cup {"none"}
       /\ CardsOK(ask[p].cards)
       /\ ask[p].list \subseteq DOMAIN log
       /\ ask[p].stage = "answered" /\ ask[p].kind # "incidents"
            => Len(ask[p].cards) = Len(Names)
  /\ CardsOK(page.cards) /\ Len(page.cards) \in {0, Len(Names)}
  /\ page.list \subseteq DOMAIN log
  /\ gauge \in -1..GaugeLimit

Listed(e) == \E i \in page.list : log[i].entity = e
IsOpen(e) == \E i \in OpenNow : log[i].entity = e
CardOf(k) == IF page.cards = <<>> THEN "none" ELSE page.cards[k]

(* One of the newest `limit` open incidents is the entity's. *)
AmongNewest(e, limit) ==
  \E i \in OpenNow : log[i].entity = e /\ Cardinality({j \in OpenNow : j > i}) < limit

(***************************************************************************)
(* The page catches up: an incident that stays open and within the limits  *)
(* is listed in the end and stays listed, one that is over disappears and  *)
(* stays away, whatever old answers arrive late, whatever failed before    *)
(* and wherever the process was restarted.  Both answers write the list    *)
(* and the shorter one decides: while more are open than it holds, the     *)
(* page shows the older ones and drops them again, for ever.               *)
(***************************************************************************)
PageListsOpen ==
  \A e \in Entities :
    <>[](AmongNewest(e, StatusLimit) /\ AmongNewest(e, ListLimit)) => <>[]Listed(e)
PageDropsClosed == \A e \in Entities : <>[]~IsOpen(e) => <>[]~Listed(e)

(***************************************************************************)
(* The same for the cards: in the end they show the newest check.          *)
(***************************************************************************)
CardsCatchUp ==
  \A k \in DOMAIN Names :
    /\ <>[](newest[Names[k]] = "ok")   => <>[](CardOf(k) = "healthy")
    /\ <>[](newest[Names[k]] = "fail") => <>[](CardOf(k) = "unhealthy")

(***************************************************************************)
(* "Number of open incidents" (metrics.go): in the end the gauge says so,  *)
(* up to the limit of its query.                                           *)
(***************************************************************************)
UpToLimit == IF Cardinality(OpenNow) < GaugeLimit THEN Cardinality(OpenNow) ELSE GaugeLimit

GaugeCatchesUp ==
  \A n \in 0..GaugeLimit : <>[](UpToLimit = n) => <>[](gauge = n)
=============================================================================
