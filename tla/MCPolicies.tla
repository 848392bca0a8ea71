----------------------------- MODULE MCPolicies -----------------------------
(* Small instances of Policies for TLC. *)
EXTENDS Policies, TLC

CONSTANTS p1, p2, app1, file1, cert1, g1, k1, k2, a1, a2
=============================================================================
