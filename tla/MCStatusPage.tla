---------------------------- MODULE MCStatusPage ----------------------------
(***************************************************************************)
(* Small instances of StatusPage.  The limits of the code are 20, 50 and   *)
(* 100; with two and three entities limits of 1 and 2 cut something off.   *)
(* An entity that is not among the names is one of an earlier              *)
(* configuration.  Two requests in flight may be two of the status, which  *)
(* overtake each other, or one of each timer, which write the same list.   *)
(***************************************************************************)
EXTENDS StatusPage

CONSTANTS status, either

fullnode == [type |-> "rpc",  name |-> "aptos"]
explorer == [type |-> "dapp", name |-> "aptos"]
renamed  == [type |-> "dapp", name |-> "Aptos"]

TwoEntities   == {fullnode, explorer}
OneName       == <<fullnode>>
ThreeEntities == {fullnode, explorer, renamed}
TwoNames      == <<fullnode, explorer>>
WithoutCase   == [name \in {"aptos", "Aptos"} |-> "aptos"]

Pollers   == {status, either}
OnePoller == {either}
Timers    == [p \in Pollers |-> IF p = status THEN {"status"} ELSE {"status", "incidents"}]
Either    == [p \in OnePoller |-> {"incidents", "command"}]
=============================================================================
