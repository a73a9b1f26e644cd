----------------------------- MODULE MCIdleStop -----------------------------
(* IdleStop on small instances for TLC. *)
EXTENDS IdleStop, TLC

\* Requests are interchangeable; used by the safety runs only.
RequestSymmetry == Permutations(Requests)
=============================================================================
