---------------------------- MODULE IncidentLog ----------------------------
(***************************************************************************)
(* What the incident model of README.md promises to whoever reads the      *)
(* status page, an incident's timeline or the alert channel: a log of      *)
(* incidents per entity, at most one of them open; an incident opens once  *)
(* and closes once; the timeline and the channel may miss news of it, but  *)
(* what they are told is true when it is said and is said once.            *)
(***************************************************************************)
EXTENDS Naturals, Sequences

CONSTANTS Entities, Severities

VARIABLES
  log,   \* the incidents in the order they opened
  noted, \* per incident, the states its timeline was told of
  heard  \* per incident, the states the channel was told of

vars == <<log, noted, heard>>

Init == log = <<>> /\ noted = <<>> /\ heard = <<>>

Open(e, s) ==
  /\ \A i \in DOMAIN log : log[i].entity = e => log[i].state = "closed"
  /\ log'   = Append(log, [entity |-> e, severity |-> s, state |-> "open"])
  /\ noted' = Append(noted, <<>>)
  /\ heard' = Append(heard, <<>>)

Close(i) ==
  /\ log[i].state = "open"
  /\ log' = [log EXCEPT ![i].state = "closed"]
  /\ UNCHANGED <<noted, heard>>

Unsaid(i, told) == \A k \in DOMAIN told[i] : told[i][k] # log[i].state
Say(i, told)    == [told EXCEPT ![i] = Append(@, log[i].state)]

Note(i)     == Unsaid(i, noted) /\ noted' = Say(i, noted) /\ UNCHANGED <<log, heard>>
Announce(i) == Unsaid(i, heard) /\ heard' = Say(i, heard) /\ UNCHANGED <<log, noted>>

Next ==
  \/ \E e \in Entities, s \in Severities : Open(e, s)
  \/ \E i \in DOMAIN log : Close(i) \/ Note(i) \/ Announce(i)

Spec == Init /\ [][Next]_vars
=============================================================================
