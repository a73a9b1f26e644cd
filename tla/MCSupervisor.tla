---------------------------- MODULE MCSupervisor ----------------------------
(* Supervisor on small instances for TLC. *)
EXTENDS Supervisor, TLC

\* Clients are interchangeable; used by the safety runs only.
ClientSymmetry == Permutations(Clients)
=============================================================================
