------------------------------- MODULE MCBudget -------------------------------
(* Budget on small instances. *)
EXTENDS Budget, TLC

StarterSymmetry == Permutations(Starters)
=============================================================================
