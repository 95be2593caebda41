--------------------------- MODULE MCPolicyEngine ---------------------------
(* The instance of PolicyEngine whose finding is checked on its own.         *)
EXTENDS PolicyEngine, MCPolicies
=============================================================================
