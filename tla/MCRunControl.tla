----------------------------- MODULE MCRunControl -----------------------------
(* Instances of RunControl for TLC. *)
EXTENDS RunControl, TLC

Symmetry == Permutations(Callers) \cup Permutations(Tickets) \cup Permutations(Selections)
===============================================================================
