------------------------------ MODULE Checkers ------------------------------
(***************************************************************************)
(* One check of an endpoint.  An RPC provider                              *)
(* (internal/monitor/rpc/checker.go) is sent two GET requests, the second  *)
(* only after a good answer to the first; a dApp                           *)
(* (internal/monitor/httpcheck/checker.go) one.  The first thing that goes *)
(* wrong becomes the error category.  A path is a sequence of segments.    *)
(***************************************************************************)
EXTENDS Integers, Sequences

CONSTANTS
  Bases,   \* the paths in the configured URLs
  Served   \* the paths the endpoint answers with JSON

VARIABLES
  type,    \* "rpc" or "dapp"
  base,    \* the path of the URL being checked
  replies, \* what happened to the requests sent so far
  result   \* success and error category, and whether the check is over

vars == <<type, base, replies, result>>

(***************************************************************************)
(* What can happen to a request.  Everything but "answered" and "cut" is an*)
(* error of client.Do; "cut" is an answer whose body cannot be read.       *)
(***************************************************************************)
DoErrors == {"dns", "tls", "timeout", "refused", "cancelled"}
Statuses == {200, 302, 400, 404, 503}
Reply    == [kind : DoErrors, status : {0}, json : {FALSE}]
              \cup [kind : {"cut"}, status : Statuses, json : {FALSE}]
              \cup [kind : {"answered"}, status : Statuses, json : BOOLEAN]

Categories == {"", "dns", "tls", "timeout", "http_status", "json_decode",
               "unexpected_payload"}

Pending == [done |-> FALSE, success |-> FALSE, category |-> ""]
Passed  == [done |-> TRUE,  success |-> TRUE,  category |-> ""]
Failed(category) == [done |-> TRUE, success |-> FALSE, category |-> category]

(* strings.TrimSuffix, then "/v1" and "/v1/ledger_info" appended. *)
Paths(t, b) ==
  IF t = "rpc" THEN <<b \o <<"v1">>, b \o <<"v1", "ledger_info">>>> ELSE <<b>>

AcceptedAbove200(status) == status > 200 /\ status < 400
Accepted(status) == status >= 200 /\ status < 400

OwnWords(kind) == kind
(* The words of Do's error; what they do not tell is an unexpected payload. *)
CategorizeErr(kind) ==
  IF kind \in {"dns", "tls", "timeout"} THEN kind ELSE "unexpected_payload"

(***************************************************************************)
(* rpc.Check on one reply: the error of Do, of the body, the status, the   *)
(* JSON, in that order.                                                    *)
(***************************************************************************)
BodyBeforeStatus(reply) ==
  CASE reply.kind \in DoErrors   -> Failed(CategorizeErr(reply.kind))
    [] reply.kind = "cut"        -> Failed("unexpected_payload")
    [] reply.kind = "answered" /\ ~reply.json -> Failed("json_decode")
    [] reply.kind = "answered" /\ reply.json /\ ~Accepted(reply.status)
                                 -> Failed("http_status")
    [] OTHER                     -> Passed
RpcVerdict(reply) ==
  CASE reply.kind \in DoErrors   -> Failed(CategorizeErr(reply.kind))
    [] reply.kind = "cut"        -> Failed("unexpected_payload")
    [] reply.kind = "answered" /\ ~Accepted(reply.status) -> Failed("http_status")
    [] reply.kind = "answered" /\ Accepted(reply.status) /\ ~reply.json
                                 -> Failed("json_decode")
    [] OTHER                     -> Passed

(***************************************************************************)
(* httpcheck.Check ignores the body; checkDapp names only a bad status.    *)
(***************************************************************************)
DappVerdict(reply) ==
  CASE reply.kind \in DoErrors     -> Failed("")
    [] reply.kind \notin DoErrors /\ ~Accepted(reply.status) -> Failed("http_status")
    [] OTHER                       -> Passed

Verdict(t, reply) == IF t = "rpc" THEN RpcVerdict(reply) ELSE DappVerdict(reply)

(* A request that arrives at an endpoint in good health. *)
HealthyReply(path) ==
  [kind |-> "answered", json |-> path \in Served,
   status |-> IF path \in Served THEN 200 ELSE 404]

Init ==
  /\ type \in {"rpc", "dapp"}
  /\ base \in Bases
  /\ replies = <<>>
  /\ result = Pending

FirstIsEnough(t) == 1
RequestsOf(t) == IF t = "rpc" THEN 2 ELSE 1

Request ==
  /\ ~result.done
  /\ \E reply \in Reply :
       LET verdict == Verdict(type, reply)
           last    == Len(replies) + 1 = RequestsOf(type)
       IN  /\ replies' = Append(replies, reply)
           /\ result' = IF verdict.success /\ ~last THEN Pending ELSE verdict
  /\ UNCHANGED <<type, base>>

(* The next round checks some entry again. *)
NextCheck ==
  /\ result.done
  /\ type' \in {"rpc", "dapp"}
  /\ base' \in Bases
  /\ replies' = <<>> /\ result' = Pending

Next == Request \/ NextCheck

Spec == Init /\ [][Next]_vars

-----------------------------------------------------------------------------
(***************************************************************************)
(* The types; a check sends at most the requests it consists of, and every *)
(* category is one the code declares.                                      *)
(***************************************************************************)
TypeOK ==
  /\ type \in {"rpc", "dapp"}
  /\ base \in Bases
  /\ replies \in Seq(Reply) /\ Len(replies) <= Len(Paths(type, base))
  /\ result \in {Pending, Passed} \cup {Failed(c) : c \in Categories}

(***************************************************************************)
(* An endpoint that answers everything it serves passes the check: the     *)
(* verdict depends on the endpoint, not on how its URL is written.         *)
(***************************************************************************)
ServingPasses ==
  (/\ result.done
   /\ \A i \in DOMAIN replies : replies[i] = HealthyReply(Paths(type, base)[i]))
  => result.success

(***************************************************************************)
(* When an endpoint in good health is reached, the verdict tells whether   *)
(* it serves what the check asks of it: it passes exactly if it serves     *)
(* every path made from the configured URL, the second one too, and no     *)
(* URL, one that repeats the /v1 or misses a prefix, makes the check pass  *)
(* what is not there or fail what is.                                      *)
(***************************************************************************)
VerdictTellsServed ==
  LET asked == Paths(type, base)
  IN  (/\ result.done
       /\ \A i \in DOMAIN replies : replies[i] = HealthyReply(asked[i]))
      => (result.success <=> \A i \in DOMAIN asked : asked[i] \in Served)

(***************************************************************************)
(* Success means that every request was answered with a good status, and   *)
(* for RPC that both answers were JSON: a node whose ledger endpoint is    *)
(* broken is not reported as healthy.                                      *)
(***************************************************************************)
SuccessNeedsAll ==
  result.success =>
    /\ Len(replies) = Len(Paths(type, base))
    /\ \A i \in DOMAIN replies :
         /\ replies[i].status \in {200, 302}
         /\ type = "rpc" => replies[i].kind = "answered" /\ replies[i].json

(***************************************************************************)
(* The stored category tells the status first: an error page that is not   *)
(* JSON is an HTTP status problem, and a decoding problem comes only from  *)
(* a reply with a good status.                                             *)
(***************************************************************************)
StatusToldFirst ==
  result.done /\ ~result.success =>
    LET last == replies[Len(replies)]
    IN  /\ result.category = "json_decode" => last.status \in {200, 302}
        /\ last.kind = "answered" /\ last.status >= 400
             => result.category = "http_status"
=============================================================================
