--------------------------- MODULE MCToolGateway ---------------------------
(* Retry classes and policies for the TLC instances of ToolGateway. *)
EXTENDS ToolGateway

WriteTools == [t \in Tool |-> "write"]
CriticalTools == [t \in Tool |-> "critical"]
Ungated == [t \in Tool |-> {"allow", "reject"}]
Gated == [t \in Tool |-> {"require_approval"}]
AnyDecision == [t \in Tool |-> {"allow", "reject", "require_approval"}]
=============================================================================
