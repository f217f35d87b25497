----------------------------- MODULE MCCheckers -----------------------------
(***************************************************************************)
(* An endpoint as in checker_test.go, reached at the host or below a       *)
(* prefix, one that lacks the ledger, and the path configs/example.yaml    *)
(* gives, below which nothing answers.                                     *)
(***************************************************************************)
EXTENDS Checkers

Answered    == {<<>>, <<"v1">>, <<"v1", "ledger_info">>,
                <<"aptos">>, <<"aptos", "v1">>, <<"aptos", "v1", "ledger_info">>,
                <<"half", "v1">>}
ExampleYaml  == {<<"v1">>}
Configured   == {<<>>, <<"aptos">>, <<"half">>} \cup ExampleYaml
=============================================================================
