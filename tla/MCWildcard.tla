----------------------------- MODULE MCWildcard -----------------------------
(* Wildcard on small instances. *)
EXTENDS Wildcard

W(name, sup, cmd, always) ==
  [name |-> name, mode |-> "wildcard", base |-> <<name>>, dir |-> "d", cmd |-> cmd, max |-> 0,
   sup |-> sup, sups |-> << >>, apps |-> IF cmd THEN << >> ELSE <<11, 12>>, herd |-> "unset",
   always |-> always, rest |-> "ok"]
\* Ports by port_command: x gets one of two, or the entry's own
Commanded == [projects |-> [n \in {} |-> 0], entries |-> <<W("w", 1, TRUE, FALSE)>>, max |-> 0]
PortsOfX == "x" :> {1, 11, 12}

\* The same, beside an entry with an always_on template
Both == [Commanded EXCEPT !.entries = Append(@, W("v", 2, TRUE, TRUE))]

\* Ports from a range
Ranged == [projects |-> [n \in {} |-> 0], entries |-> <<W("w", 1, FALSE, FALSE)>>, max |-> 0]
NoPorts == [l \in Labels |-> {}]

NoFiles == {}
RequestSymmetry == Permutations(Requests)
=============================================================================
