------------------------------- MODULE MCPlan -------------------------------
(* The instances of MCSettlement, for what the browser plans about them. *)
EXTENDS MCSettlement, Terms
=============================================================================
