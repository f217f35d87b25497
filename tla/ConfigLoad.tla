----------------------------- MODULE ConfigLoad -----------------------------
(***************************************************************************)
(* config.Load (internal/config/config.go): what the YAML file says, then  *)
(* the environment over it, then Validate, which fills in defaults and may *)
(* refuse.  A number is kept as it was read, 0 when absent; of a text only *)
(* whether it is given.                                                    *)
(***************************************************************************)
EXTENDS Integers

CONSTANTS
  Files,         \* what the configuration file may say
  Environments   \* what the process may find in its environment

Numbers  == {"interval", "port", "latency_warn_ms", "latency_crit_ms",
             "consecutive_failures_for_incident", "recoveries_for_close"}
FromEnv  == {"interval", "port"}

Credentials == {"bot_token", "application_id", "guild_id"}
Defaulted   == {"host", "metrics_path", "pprof_bind", "dm_refuse_msg", "store_path"}
Texts       == Credentials \cup Defaulted \cup {"alert_channel_id"}

Entries == [named : BOOLEAN, located : BOOLEAN, timeout : Int]
Config  == [numbers : [Numbers -> Int], given : SUBSET Texts,
            enabled : BOOLEAN, entries : SUBSET Entries]

(***************************************************************************)
(* Of the environment: the numbers set to something that parses, the texts *)
(* set to something, and what APTOS_GUARDIAN_DISCORD_ENABLED says, if set: *)
(* "1", "true" and "yes" switch Discord on, anything else off.             *)
(***************************************************************************)
Environment(env) ==
  /\ \E keys \in SUBSET FromEnv : env.numbers \in [keys -> Int]
  /\ env.given \subseteq Texts
  /\ env.enabled \in {{}, {TRUE}, {FALSE}}

ASSUME InputAssumption ==
  /\ Files \subseteq Config
  /\ \A env \in Environments : Environment(env)

Override(c, env) ==
  [c EXCEPT
     !.numbers = [key \in Numbers |-> IF key \in DOMAIN env.numbers
                                        THEN env.numbers[key] ELSE @[key]],
     !.given   = @ \cup env.given,
     !.enabled = CASE env.enabled = {TRUE} -> TRUE
                   [] env.enabled = {FALSE} -> FALSE
                   [] OTHER -> @]

DefaultNumber ==
  [interval |-> 20000, port |-> 8080, latency_warn_ms |-> 600, latency_crit_ms |-> 1500,
   consecutive_failures_for_incident |-> 3, recoveries_for_close |-> 2]
DefaultTimeout == 4000

Filled(c) ==
  [c EXCEPT
     !.numbers = [key \in Numbers |-> IF @[key] <= 0 THEN DefaultNumber[key] ELSE @[key]],
     !.given   = @ \cup Defaulted,
     !.entries = {[entry EXCEPT !.timeout = IF @ <= 0 THEN DefaultTimeout ELSE @] :
                    entry \in @}]

Refused(c) ==
  \/ \E entry \in c.entries : ~entry.named \/ ~entry.located
  \/ c.enabled /\ ~(Credentials \subseteq c.given)

Validate(c) == IF Refused(c) THEN {} ELSE {Filled(c)}

(* The configuration the process runs with, or none. *)
ValidatedFirst(file, env) == {Override(c, env) : c \in Validate(file)}
Load(file, env) == Validate(Override(file, env))
=============================================================================
