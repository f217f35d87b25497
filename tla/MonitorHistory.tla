--------------------------- MODULE MonitorHistory ---------------------------
(***************************************************************************)
(* Monitor with a history variable: how many checks of its entity each     *)
(* incident has seen stored since it was opened.  The code keeps no such   *)
(* number; the engine counts successes in the checks table, which also     *)
(* holds those from before the opening.                                    *)
(***************************************************************************)
EXTENDS Monitor

VARIABLE since  \* per incident, at most RecoveriesForClose

historyVars == <<vars, since>>

Stored(e) ==
  \E g \in Goroutines : Entity(g) = e /\ pc[g] = "insert" /\ pc'[g] = "record"

SinceInit == since = <<>>

SinceStep ==
  since' = [i \in DOMAIN incidents' |->
              IF i \notin DOMAIN incidents THEN 0
              ELSE IF Stored(incidents[i].entity) /\ since[i] < RecoveriesForClose
              THEN since[i] + 1
              ELSE since[i]]

HistorySpec     == Init /\ SinceInit /\ [][Next /\ SinceStep]_historyVars
FairHistorySpec == HistorySpec /\ Fairness

Closes(i) == incidents[i].state = "open" /\ incidents'[i].state = "closed"

(***************************************************************************)
(* "It is closed after the configured number of consecutive successful     *)
(* checks" (README.md): that many checks, all after the opening.           *)
(***************************************************************************)
RecoveryEarned ==
  [][\A i \in DOMAIN incidents :
       Closes(i) => since[i] >= RecoveriesForClose]_historyVars

(***************************************************************************)
(* The same for the incidents opened by failures: the rows from before the *)
(* opening cannot be counted, because the newest of them is a failure.     *)
(***************************************************************************)
DownRecoveryEarned ==
  [][\A i \in DOMAIN incidents :
       Closes(i) /\ incidents[i].summary = "down"
         => since[i] >= RecoveriesForClose]_historyVars
=============================================================================
