--------------------------- MODULE StatusHistory ---------------------------
(***************************************************************************)
(* StatusPage with a history variable: per request in flight, what was     *)
(* open and how many incidents there had been when it was sent, which      *)
(* outcomes each entity has had since, and whether nothing failed or       *)
(* stopped meanwhile.                                                      *)
(***************************************************************************)
EXTENDS StatusPage

VARIABLE asked

askedVars == <<vars, asked>>

Nothing  == [since |-> {}, known |-> 0, calm |-> TRUE,
             had |-> [e \in Configured |-> {}]]
Asking   == [since |-> OpenNow, known |-> Len(log), calm |-> mode = "up",
             had |-> [e \in Configured |-> {newest[e]}]]
Later(a) == [a EXCEPT !.calm = @ /\ UNCHANGED <<faults, stops>>,
                      !.had  = [e \in Configured |-> @[e] \cup {newest'[e]}]]

AskedInit == asked = [p \in Polls |-> Nothing]

AskedStep ==
  asked' = [p \in Polls |->
              IF ask'[p].stage # "sent" THEN Nothing
              ELSE IF ask[p].stage = "idle" THEN Asking
              ELSE Later(asked[p])]

HistorySpec == Init /\ AskedInit /\ [][Next /\ AskedStep]_askedVars

(***************************************************************************)
(* An answer tells of the time since the request was sent, although it is  *)
(* put together from one statement per entity and one more.  It never      *)
(* lists an incident closed before then; if nothing failed and nobody      *)
(* stopped the process it lists every incident that was open all the time  *)
(* (or its limit of newer ones), and each card tells an outcome its entity *)
(* had in that time.                                                       *)
(***************************************************************************)
Limit(p)   == IF ask[p].kind = "incidents" THEN ListLimit ELSE StatusLimit
Answers(p) == ask[p].stage = "sent" /\ ask'[p].stage = "answered"

Timely(a, list, cards, limit) ==
  /\ \A i \in list : i \in a.since \/ i > a.known
  /\ a.calm /\ UNCHANGED faults =>
       /\ \A i \in a.since \cap OpenNow :
            i \in list \/ Cardinality({j \in list : j > i}) >= limit
       /\ \A k \in DOMAIN cards :
            \E outcome \in a.had[Names[k]] : cards[k] = Card(outcome)

(***************************************************************************)
(* What /dapp shows beside the card of a dApp is an incident of that dApp, *)
(* or of one whose name differs from its name in case only; never one of   *)
(* an RPC provider of the same name, and never none while the answer lists *)
(* one of its own.                                                         *)
(***************************************************************************)
TellsOfDapp(e, list) ==
  LET shown == DappIncident(e.name, list)
  IN  /\ \A i \in shown : AnswersTo(log[i].entity, e.name)
      /\ (\E i \in list : log[i].entity = e) => shown # {}

AnswersAreTimely ==
  [][\A p \in Polls : Answers(p) =>
       /\ Timely(asked[p], ask'[p].list, ask'[p].cards, Limit(p))
       /\ \A e \in Configured : e.type = "dapp" => TellsOfDapp(e, ask'[p].list)]_askedVars
=============================================================================
