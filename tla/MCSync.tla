------------------------------- MODULE MCSync -------------------------------
(* Sync on small instances. *)
EXTENDS Sync, TLC

P(sup, app) ==
  [sup |-> sup, app |-> app, host |-> NoHost, dir |-> "d", always |-> FALSE, rest |-> "ok"]
Worktrees(cmd, sups, apps, always, rest) ==
  [name |-> "p", mode |-> "proxy", base |-> NoHost, dir |-> "d", cmd |-> cmd, max |-> 0,
   sup |-> 0, sups |-> sups, apps |-> apps, herd |-> "unset", always |-> always, rest |-> rest]
Wild(name, base, sup) ==
  [name |-> name, mode |-> "wildcard", base |-> <<base>>, dir |-> "d", cmd |-> TRUE, max |-> 0,
   sup |-> sup, sups |-> << >>, apps |-> << >>, herd |-> "unset", always |-> FALSE, rest |-> "ok"]
Conf(max, entries) == [projects |-> "h" :> P(1, 3), max |-> max, entries |-> entries]

\* Ports from overlapping ranges around those of a hand-written project and of
\* the wildcard listener.
Ranges == Conf(1, <<Worktrees(FALSE, <<1, 4>>, <<2, 6>>, FALSE, "ok"), Wild("w", "w", 4)>>)
\* The wildcard entry has another base_domain, port_command is asked, and
\* every worktree is to hold the one slot there is.
Moved == Conf(1, <<Worktrees(TRUE, <<1, 4>>, << >>, TRUE, "ok"), Wild("w", "v", 4)>>)
\* The wildcard entry is gone; the copies of the template will not load.
Gone == Conf(0, <<Worktrees(FALSE, <<1, 4>>, <<2, 6>>, TRUE, "url")>>)
\* The wildcard entry has another name.
Renamed == [Ranges EXCEPT !.entries = <<@[1], Wild("u", "w", 4)>>]

MCConfs == {Ranges, Moved, Gone}
MCBoot == Ranges
RenameConfs == {Ranges, Renamed}
MCHand == "p" :> [managed |-> TRUE, projects |-> << >>]
          @@ "q" :> [managed |-> FALSE, projects |-> "y" :> P(8, 9)]
MCTrees == <<"x", "y", "z">>
MCParked == {<<"z">>}
Sets(herd, dry, listed, blind) == [herd |-> herd, dry |-> dry, listed |-> listed, blind |-> blind]
MCSettings == {Sets(TRUE, FALSE, TRUE, {}), Sets(TRUE, FALSE, FALSE, {<<"x">>, <<"w">>}),
               Sets(FALSE, FALSE, FALSE, {}), Sets(TRUE, TRUE, TRUE, {})}
=============================================================================
