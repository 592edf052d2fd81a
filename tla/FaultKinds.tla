----------------------------- MODULE FaultKinds -----------------------------
(***************************************************************************)
(* What one injected fault does to one tool call.                          *)
(*                                                                         *)
(* The taxonomy is models.FaultKind; the functions are the branches of     *)
(* targets.fault_proxy.FaultProxy.invoke, with _reject, _corrupt and       *)
(* _lose, and proxy.response_to_wire, which turns the resulting Response   *)
(* into what the agent reads.  Texts, latencies and retry hints are left   *)
(* out: no property of the modules that use this one tells them apart.     *)
(***************************************************************************)

NoFault == "none"

(* Faults answered without reaching the target (FaultProxy._reject). *)
RejectingFault ==
    {"timeout", "rate_limit", "server_error", "connection_refused"}

(* Faults that run the call and throw its answer away (FaultProxy._lose). *)
LostReplyFault == {"response_lost", "response_lost_then_closed"}

FaultKind == RejectingFault \cup {"malformed"} \cup LostReplyFault

(***************************************************************************)
(* What the wrapped target's own invoke() came to.  "error" is a failure   *)
(* the server delivered; "silent" is a timeout, nothing arrived;           *)
(* "connection" is an exception base.classify_exception maps to            *)
(* ErrorKind.CONNECTION, which covers a connect that was refused and a     *)
(* connection that died after the request went out.                        *)
(***************************************************************************)
InnerReply == {"ok", "error", "silent", "connection"}

Response ==
    [ok: BOOLEAN, delivered: BOOLEAN,
     kind: {"none", "answered", "timeout", "connection"}, closes: BOOLEAN]

(* Does the wrapped target see a call that drew this fault? *)
Forwards(fault) == fault \notin RejectingFault

(* The Response the wrapped target returned, as FaultProxy receives it. *)
InnerResponse(inner) ==
    [ok        |-> inner = "ok",
     delivered |-> inner \in {"ok", "error"},
     kind      |-> CASE inner = "ok"         -> "none"
                     [] inner = "error"      -> "answered"
                     [] inner = "silent"     -> "timeout"
                     [] inner = "connection" -> "connection",
     closes    |-> FALSE]

Reject(fault) ==
    [ok        |-> FALSE,
     delivered |-> fault \in {"rate_limit", "server_error"},
     kind      |-> CASE fault = "timeout"            -> "timeout"
                     [] fault = "connection_refused" -> "connection"
                     [] OTHER                        -> "answered",
     closes    |-> FALSE]

Corrupt(response) ==
    IF response.ok
    THEN [response EXCEPT !.ok = FALSE, !.kind = "answered"]
    ELSE response

(* mutant: the dropped reply counts as delivered *)
Lose_Delivered(response, fault) ==
    IF response.ok
    THEN [ok |-> FALSE, delivered |-> TRUE, kind |-> "timeout",
          closes |-> fault = "response_lost_then_closed"]
    ELSE response

Lose(response, fault) ==
    IF response.ok
    THEN [ok |-> FALSE, delivered |-> FALSE, kind |-> "timeout",
          closes |-> fault = "response_lost_then_closed"]
    ELSE response

(* The Response FaultProxy.invoke returns to its caller. *)
ResponseTo(fault, inner) ==
    CASE fault = NoFault           -> InnerResponse(inner)
      [] fault = "malformed"       -> Corrupt(InnerResponse(inner))
      [] fault \in LostReplyFault  -> Lose(InnerResponse(inner), fault)
      [] fault \in RejectingFault  -> Reject(fault)

(* Invocation.realized_fault: the fault that took effect. *)
RealizedFault(fault, inner) ==
    IF Forwards(fault) /\ inner # "ok" THEN NoFault ELSE fault

(* mutant: a failed call is taken not to have run *)
Executed_FailureIsNo(fault, inner) ==
    IF Forwards(fault) /\ inner = "ok" THEN "yes" ELSE "no"

(* mutant: a forwarded call is taken to have run *)
Executed_NotRejected(fault, inner) == IF Forwards(fault) THEN "yes" ELSE "no"

(* Invocation.executed: did the target acknowledge the call? *)
Executed(fault, inner) ==
    IF ~Forwards(fault) THEN "no"
    ELSE IF inner = "ok" THEN "yes" ELSE "unknown"

(* A refused connection, injected or real (proxy._is_refused). *)
IsRefused(response) == ~response.ok /\ response.kind = "connection"

(***************************************************************************)
(* What the agent reads (proxy.response_to_wire): nothing, a result, an    *)
(* error, or the refusal body that carries "executed": false.              *)
(***************************************************************************)
OnWire(response) ==
    IF IsRefused(response) THEN "refused"
    ELSE IF ~response.delivered THEN "silence"
    ELSE IF response.ok THEN "result" ELSE "error"

WireReply == {"refused", "result", "error"}
=============================================================================
