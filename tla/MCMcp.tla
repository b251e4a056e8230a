------------------------------- MODULE MCMcp -------------------------------
(* One attempt whose playbook declares a variable, one whose does not.      *)
EXTENDS McpPlane

CONSTANTS r1, r2, token

MCRunKeys == [r \in Runs |-> IF r = r1 THEN {token} ELSE {}]
=============================================================================
