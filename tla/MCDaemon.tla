------------------------------ MODULE MCDaemon ------------------------------
(* Daemon on a small instance. *)
EXTENDS Daemon

P(sup, app, host, always) ==
  [sup |-> sup, app |-> app, host |-> host, dir |-> "d", always |-> always, rest |-> "ok"]
H(l) == <<l, "test">>
W(sup, max) ==
  [name |-> "w", mode |-> "wildcard", base |-> <<"w">>, dir |-> "d", cmd |-> TRUE, max |-> max,
   sup |-> sup, sups |-> << >>, apps |-> << >>, herd |-> "unset",
   always |-> FALSE, rest |-> "ok"]

\* Two projects on a shared listener, one always_on, and an entry.
First  == [projects |-> "a" :> P(1, 11, H("a"), FALSE) @@ "b" :> P(1, 12, H("b"), TRUE),
           entries |-> <<W(3, 0)>>, max |-> 0]
\* a keeps its route and changes its port; b moves to a listener of its own;
\* the entry's cap changes.
Second == [projects |-> "a" :> P(1, 13, H("a"), FALSE) @@ "b" :> P(2, 12, NoHost, TRUE),
           entries |-> <<W(3, 1)>>, max |-> 0]
\* a is gone, c appears on the port of the entry, which moves.
Third  == [projects |-> "b" :> P(1, 12, H("b"), TRUE) @@ "c" :> P(3, 11, NoHost, FALSE),
           entries |-> <<W(4, 0)>>, max |-> 0]
\* Rejected: two projects share an application_port.
Invalid == [Second EXCEPT !.projects["b"].app = 13]

MCFiles == {Second, Third, Invalid}
MCBoot == First

\* A project that loses its port to another program can go back.
ASSUME InstanceAssumption == CanGoBack
=============================================================================
