-------------------------- MODULE GatewayRefinement --------------------------
(***************************************************************************)
(* The coordinator implements ExactReuse.  The value of a binding is the   *)
(* content of the source row behind its result row; a call is answered     *)
(* when its exact_hit or inflight_join event is recorded.                  *)
(***************************************************************************)
EXTENDS GatewayCoordinator

PhaseMap == [b \in Binding |-> gresult[<<b, RequestOf[b]>>].status]
ValueMap ==
    [b \in Binding |-> IF gresult[<<b, RequestOf[b]>>].status = "none" THEN None
                       ELSE source[RequestOf[b]].content]
AnswerMap ==
    [c \in Call |-> IF c \in served THEN source[request[c].result[2]].content ELSE None]

Reuse == INSTANCE ExactReuse WITH phase <- PhaseMap, value <- ValueMap, answer <- AnswerMap

\* Every behaviour of the coordinator, read through the mapping, is one of the
\* write-once cell: a binding publishes one value, each answered call gets
\* that value, and nothing is answered after quarantine.
ImplementsExactReuse == Reuse!ASpec
=============================================================================
