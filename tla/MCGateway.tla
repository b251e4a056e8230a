----------------------------- MODULE MCGateway -----------------------------
(* Three connections and a case, with a pattern that matches every topic.   *)
EXTENDS Gateway, TLC

Symmetry == Permutations(Call)
=============================================================================
