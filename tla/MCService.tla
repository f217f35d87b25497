----------------------------- MODULE MCService -----------------------------
(***************************************************************************)
(* Small instances of Service.  The files: one without numbers, one that   *)
(* enables Discord without a token and one with a nameless entry.  The     *)
(* environments: empty, one that gives the token, one with numbers that    *)
(* must not survive, one that enables Discord.  The configurations they    *)
(* load to differ only in that.  The limits 2 and 2 stand for 64 and 512.  *)
(***************************************************************************)
EXTENDS Service

CONSTANTS alice, bob

Entry(named, timeout) == [named |-> named, located |-> TRUE, timeout |-> timeout]
File(n, given, enabled, entry) ==
  [numbers |-> [key \in Numbers |-> n], given |-> given,
   enabled |-> enabled, entries |-> {entry}]

SomeFiles ==
  {File(0, Texts, FALSE, Entry(TRUE, 0)),
   File(0, Texts \ {"bot_token"}, TRUE, Entry(TRUE, 0)),
   File(5, Texts, FALSE, Entry(FALSE, 9))}

Env(numbers, given, enabled) ==
  [numbers |-> numbers, given |-> given, enabled |-> enabled]

SomeEnvironments ==
  {Env(<<>>, {}, {}),
   Env(<<>>, {"bot_token"}, {}),
   Env([interval |-> -1, port |-> 0], {}, {}),
   Env(<<>>, {}, {TRUE})}

OneEntity  == {"rpc/fullnode"}
TwoClients == {alice, bob}
OneReader  == {bob}

(***************************************************************************)
(* Alice's are refused or go around the handler's shortening with their    *)
(* User-Agent header, Bob's have no such header.                           *)
(***************************************************************************)
SomeBodies ==
  [c \in TwoClients |->
     IF c = alice
       THEN {[issue_type |-> 0, user_agent |-> 0, header |-> 3],
             [issue_type |-> 1, user_agent |-> 0, header |-> 3]}
       ELSE {[issue_type |-> 3, user_agent |-> 3, header |-> 0]}]
=============================================================================
