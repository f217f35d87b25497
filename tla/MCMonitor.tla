----------------------------- MODULE MCMonitor -----------------------------
(***************************************************************************)
(* Small instances of Monitor: one RPC provider and one dApp.  The         *)
(* thresholds 2 and 3 separate the latencies 1 (good), 2 (elevated) and 3  *)
(* (critical).  A restart may find the provider at another URL and the     *)
(* dApp gone, or no entries at all.                                        *)
(***************************************************************************)
EXTENDS Monitor

CONSTANTS fullnode, moved, explorer

TwoTasks    == {fullnode, moved, explorer}
TwoEntities == {"rpc/fullnode", "dapp/explorer"}
OwnName     == [t \in TwoTasks |-> IF t = explorer THEN "dapp/explorer"
                                                   ELSE "rpc/fullnode"]
TwoTypes    == [e \in TwoEntities |-> IF e = "rpc/fullnode" THEN "rpc" ELSE "dapp"]
BothOrMoved == {{fullnode, explorer}, {moved}}

OneEntity   == {"rpc/fullnode"}
OneType     == [e \in OneEntity |-> "rpc"]

SameTasks   == {fullnode, moved}
SameName    == [t \in SameTasks |-> "rpc/fullnode"]
AllAtOnce   == {SameTasks}

OneTask     == {fullnode}
OneName     == [t \in OneTask |-> "rpc/fullnode"]
OneOrNone   == {OneTask, {}}

AllLatencies == 1..3
=============================================================================
