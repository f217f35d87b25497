------------------------------- MODULE Engine -------------------------------
(***************************************************************************)
(* The decisions of the incident engine (internal/incidents/engine.go) as  *)
(* operators over the rows of the checks table and the outcome of the      *)
(* check being processed.  Monitor.tla runs them one statement at a time.  *)
(*                                                                         *)
(* A row of the checks table is its cause: "ok" for success = 1, "fail"    *)
(* for a failed probe, "cancelled" for a failure whose only cause is that  *)
(* the process was being stopped (the database stores both as success = 0).*)
(* Rows are newest first, as RecentChecks returns them.                    *)
(***************************************************************************)
EXTENDS Integers, Sequences, FiniteSetsExt

CONSTANTS
  ConsecutiveFailuresForIncident, \* thresholds.consecutive_failures_for_incident
  RecoveriesForClose,             \* thresholds.recoveries_for_close
  LatencyWarnMS,                  \* thresholds.latency_warn_ms
  LatencyCritMS                   \* thresholds.latency_crit_ms

(***************************************************************************)
(* config.Validate replaces every threshold that is not positive.  It does *)
(* not compare the two latencies, so no order between them is assumed.     *)
(***************************************************************************)
ASSUME ThresholdAssumption ==
  /\ ConsecutiveFailuresForIncident \in Nat \ {0}
  /\ RecoveriesForClose \in Nat \ {0}
  /\ LatencyWarnMS \in Nat \ {0}
  /\ LatencyCritMS \in Nat \ {0}

Causes     == {"ok", "fail", "cancelled"}
Openings   == {"down", "latency_crit", "latency_warn"}
Verdicts   == Openings \cup {"recovered"}
Severities == {"WARN", "CRIT"}

(***************************************************************************)
(* What a checker returns: the cause, and the latency handed to the engine *)
(* with a success.                                                         *)
(***************************************************************************)
Success(outcome) == outcome.cause = "ok"

(***************************************************************************)
(* How many rows the engine asks RecentChecks for.                         *)
(***************************************************************************)
ShortReadLimit == ConsecutiveFailuresForIncident
ReadLimit == ConsecutiveFailuresForIncident + RecoveriesForClose + 2

(***************************************************************************)
(* countConsecutiveSuccess: the rows before the first that differs.        *)
(***************************************************************************)
CountAll(rows, ok) == Cardinality({i \in DOMAIN rows : (rows[i] = "ok") = ok})
CountConsecutive(rows, ok) ==
  LET breaks == {i \in DOMAIN rows : (rows[i] = "ok") # ok}
  IN  IF breaks = {} THEN Len(rows) ELSE Min(breaks) - 1

(***************************************************************************)
(* The tests of ProcessRPCResult and ProcessDappResult.  A dApp's latency  *)
(* is never examined.                                                      *)
(***************************************************************************)
RecoveredAfterOne(outcome, rows) == Success(outcome)
Recovered(outcome, rows) ==
  /\ Success(outcome)
  /\ CountConsecutive(rows, TRUE) >= RecoveriesForClose

DownOneEarly(outcome, rows) ==
  /\ ~Success(outcome)
  /\ CountConsecutive(rows, FALSE) >= ConsecutiveFailuresForIncident - 1
DownExactly(outcome, rows) ==
  /\ ~Success(outcome)
  /\ CountConsecutive(rows, FALSE) = ConsecutiveFailuresForIncident
Down(outcome, rows) ==
  /\ ~Success(outcome)
  /\ CountConsecutive(rows, FALSE) >= ConsecutiveFailuresForIncident

LatencyCritical(type, outcome) ==
  type = "rpc" /\ Success(outcome) /\ outcome.latency >= LatencyCritMS

LatencyElevated(type, outcome) ==
  type = "rpc" /\ Success(outcome) /\ outcome.latency >= LatencyWarnMS

(***************************************************************************)
(* The verdicts on which an entity without an open incident gets one: at   *)
(* most one, in the order of the code's tests.                             *)
(***************************************************************************)
OpeningVerdicts(type, outcome, rows) ==
  {v \in Openings :
     \/ v = "down" /\ Down(outcome, rows)
     \/ v = "latency_crit" /\ LatencyCritical(type, outcome)
     \/ /\ v = "latency_warn"
        /\ LatencyElevated(type, outcome) /\ ~LatencyCritical(type, outcome)}

SummaryAsSeverity(verdict) == verdict
SeverityOf(verdict) == IF verdict = "latency_warn" THEN "WARN" ELSE "CRIT"
=============================================================================
