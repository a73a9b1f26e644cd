------------------------------ MODULE Wildcard ------------------------------
(***************************************************************************)
(* The daemon with wildcard entries (internal/daemon/wildcard.go): a       *)
(* request for a host no route claims is resolved, at most once per label  *)
(* at a time, into a dynamic project; a dynamic project whose worktree is  *)
(* gone is dropped; project:restart may move it to another port.           *)
(*                                                                         *)
(* Composes Daemon: a dynamic project is a registration with an entry.     *)
(* Resolutions and drops do not take reloadMu, so each critical section    *)
(* under rs.mu or d.mu is a step.  Time enters as three events: a waiting  *)
(* request gives up, its client leaves, the backoff of a label elapses.    *)
(***************************************************************************)
EXTENDS Daemon

CONSTANTS
  Labels,     \* labels requests ask for; names, too
  PortsOf,    \* what port_command may print in a label's worktree
  Fates,      \* what may happen to a label: "vanish", its worktree is removed
              \* and created again, "operate", its project is started, stopped
              \* or restarted by an operator, and the entries it is asked of
  MaxHeld,    \* hold_max_requests of the entry's template
  MaxRegs     \* bound: registrations in one behaviour

ASSUME WildcardAssumption ==
  /\ Labels \subseteq Names /\ Fates \subseteq SUBSET ({"vanish", "operate"} \cup EntryNames)
  /\ PortsOf \in [Labels -> SUBSET (1..MaxPort)] /\ {MaxHeld, MaxRegs} \subseteq Nat

VARIABLES
  fate,     \* each label's, from Fates
  tree,     \* labels whose worktree passes discovery.Check
  res,      \* requests in the resolver
  failing,  \* resolver.failures: <<entry, label>> within its backoff
  guards,   \* switches whose vanishGuard has fired
  drops,    \* dropDynamic calls in progress
  rst       \* the project:restart of a dynamic project in progress

place == <<fate, tree>>
wild == <<place, res, failing, guards, drops, rst>>
wvars == <<vars, wild>>

Outside == [step |-> "away", ent |-> 0, label |-> "", reg |-> 0, port |-> 0, out |-> ""]
NoRestart == [step |-> "none", reg |-> 0, port |-> 0]
HostIn(e, l) == HostOf(ent[e].cfg, l)
At(q, step) == res[q].step = step
Goto(q, step) == res' = [res EXCEPT ![q].step = step]

Operated(r) == reg[r].name \in Labels /\ "operate" \in fate[reg[r].name]

WildcardInit ==
  /\ Init
  /\ fate \in [Labels -> Fates]
  /\ tree = Labels
  /\ res = [q \in Requests |-> Outside]
  /\ failing = {} /\ guards = {} /\ drops = {} /\ rst = NoRestart

-----------------------------------------------------------------------------
(* resolve *)

\* resolver.calls: who resolves a label, from the map's entry to its deletion
Resolving == {"check", "port", "register", "route", "finish"}
Flights(e, l) == {q \in Requests : res[q].step \in Resolving /\ res[q].ent = e /\ res[q].label = l}
Held(e) == {q \in Requests : res[q].ent = e /\ res[q].step \in Resolving \cup {"await", "woken"}}

\* The bound: room for one more registration than those under way. Without it
\* port_command fails, as it may at any time.
Room ==
  Len(reg) + Cardinality({q \in Requests : At(q, "register")})
    + Cardinality({rst.step} \cap {"lock", "swap"}) < MaxRegs

\* serve: a host of the entry's domain that no route claims
Unrouted(q) ==
  /\ Serving
  /\ \E b \in DOMAIN bnd, l \in Labels :
       /\ bnd[b].open /\ bnd[b].entry # 0 /\ ent[bnd[b].entry].cfg.name \in fate[l]
       /\ HostIn(bnd[b].entry, l) \notin DOMAIN bnd[b].routes
       /\ req[q].step = "away"
       /\ IF run = "draining" THEN UNCHANGED <<req, res>>
          ELSE /\ req' = [req EXCEPT ![q].step = "resolving"]
               /\ res' = [res EXCEPT ![q] = [Outside EXCEPT !.step = "enter",
                                                            !.ent = bnd[b].entry, !.label = l]]
  /\ UNCHANGED <<heap, job, run, reloads, place, failing, guards, drops, rst>>

Answered(q) ==
  /\ req' = [req EXCEPT ![q] = Idle]
  /\ res' = [res EXCEPT ![q] = Outside]

\* Mutant: the flights in progress are not looked at.
EntersAlone(q) ==
  LET e == res[q].ent
  IN /\ At(q, "enter")
     /\ IF Cardinality(Held(e)) >= MaxHeld \/ <<e, res[q].label>> \in failing THEN Answered(q)
        ELSE Goto(q, "check") /\ UNCHANGED req
     /\ UNCHANGED <<heap, job, run, reloads, place, failing, guards, drops, rst>>

\* resolve up to the unlock of rs.mu: refused at the limit, joins the flight,
\* is told of a recent failure, or starts the flight of its own.
Enters(q) ==
  LET e == res[q].ent
      l == res[q].label
  IN /\ At(q, "enter")
     /\ IF Cardinality(Held(e)) >= MaxHeld THEN Answered(q)
        ELSE IF Flights(e, l) # {} THEN Goto(q, "await") /\ UNCHANGED req
        ELSE IF <<e, l>> \in failing THEN Answered(q)
        ELSE Goto(q, "check") /\ UNCHANGED req
     /\ UNCHANGED <<heap, job, run, reloads, place, failing, guards, drops, rst>>

\* materialise: discovery.Check, then the name must be free.
Checks(q) ==
  LET l == res[q].label
  IN /\ At(q, "check")
     /\ res' = [res EXCEPT ![q].step = IF l \in tree /\ table[l] = 0 THEN "port" ELSE "finish",
                           ![q].out = IF l \in tree THEN "503" ELSE "404"]
     /\ UNCHANGED <<vars, place, failing, guards, drops, rst>>

\* portOwner
PortOwned(p, except) ==
  \/ \E n \in Names \ {except} : table[n] # 0 /\ p \in {reg[table[n]].cfg.sup, reg[table[n]].cfg.app}
  \/ \E n \in EntryNames : entries[n] # 0 /\ ent[entries[n]].cfg.sup = p

\* discoverPort and the check that follows it. port_command may fail or print
\* a port that is used; without one it is the lowest free port of the range.
FindsPort(q) ==
  LET e == ent[res[q].ent].cfg
      l == res[q].label
      ports == {p \in IF e.cmd THEN PortsOf[l] ELSE e.apps[1]..e.apps[2] : ~PortOwned(p, l)}
  IN /\ At(q, "port")
     /\ \/ \E p \in ports :
             /\ Room
             /\ ~e.cmd => \A o \in ports : p <= o
             /\ res' = [res EXCEPT ![q].step = "register", ![q].port = p]
        \/ (~e.cmd => ports = {}) /\ Goto(q, "finish")
     /\ UNCHANGED <<vars, place, failing, guards, drops, rst>>

\* The section under d.mu: the project is in the table, not yet routed.
Registers(q) ==
  LET e == res[q].ent
      l == res[q].label
      st == [NewState(l, DynamicProject(ent[e].cfg, l, res[q].port), e)
               EXCEPT !.sw = Len(sw) + 1, !.bind = ent[e].bind]
      r == Len(reg) + 1
  IN /\ At(q, "register")
     /\ IF table[l] # 0
        THEN Goto(q, "finish") /\ UNCHANGED heap
        ELSE /\ reg' = Append(reg, st) /\ sw' = Append(sw, r)
             /\ table' = [table EXCEPT ![l] = r]
             /\ bnd' = [bnd EXCEPT ![ent[e].bind].members = @ + 1]
             /\ res' = [res EXCEPT ![q].step = "route", ![q].reg = r, ![q].out = "ok"]
             /\ UNCHANGED <<entries, bindings, ent>>
     /\ UNCHANGED <<job, run, req, reloads, place, failing, guards, drops, rst>>

\* setHost, activate
Routes(q) ==
  LET r == res[q].reg
      b == ent[res[q].ent].bind
  IN /\ At(q, "route")
     /\ bnd' = [bnd EXCEPT ![b].routes = SetHost(@, reg[r].cfg.host, reg[r].sw)]
     /\ reg' = [reg EXCEPT ![r] = Activated(@)]
     /\ Goto(q, "finish")
     /\ UNCHANGED <<table, entries, bindings, sw, ent, job, run, req, reloads>>
     /\ UNCHANGED <<place, failing, guards, drops, rst>>

\* vanishGuard.ServeHTTP, in front of switch s of label l: a request goes on,
\* or is a 404 and has the project dropped, once.
Guarded(q, s, l, e) ==
  IF l \in tree
  THEN /\ req' = [req EXCEPT ![q] = [step |-> "switch", sw |-> s, reg |-> 0]]
       /\ UNCHANGED <<guards, drops>>
  ELSE /\ req' = [req EXCEPT ![q] = Idle]
       /\ guards' = guards \cup {s}
       /\ drops' = IF s \in guards THEN drops
                   ELSE drops \cup {[step |-> "find", label |-> l, ent |-> e, reg |-> 0]}

\* resolve to its end: the call is deleted, a 503 remembered, done closed.
Finishes(q) ==
  LET e == res[q].ent
      l == res[q].label
      waiting == {w \in Requests : At(w, "await") /\ res[w].ent = e /\ res[w].label = l}
  IN /\ At(q, "finish")
     /\ failing' = IF res[q].out = "503" THEN failing \cup {<<e, l>>} ELSE failing \ {<<e, l>>}
     /\ res' = [w \in Requests |->
                  IF w = q THEN Outside
                  ELSE IF w \in waiting THEN [res[w] EXCEPT !.step = "woken", !.reg = res[q].reg]
                  ELSE res[w]]
     /\ IF res[q].reg = 0
        THEN req' = [req EXCEPT ![q] = Idle] /\ UNCHANGED <<guards, drops>>
        ELSE Guarded(q, reg[res[q].reg].sw, l, e)
     /\ UNCHANGED <<heap, job, run, reloads, place, rst>>
\* await: done is closed, or the wait is given up (maxWait, the client left).
Wakes(q) ==
  /\ At(q, "woken")
  /\ res' = [res EXCEPT ![q] = Outside]
  /\ IF res[q].reg = 0
     THEN req' = [req EXCEPT ![q] = Idle] /\ UNCHANGED <<guards, drops>>
     ELSE Guarded(q, reg[res[q].reg].sw, res[q].label, res[q].ent)
  /\ UNCHANGED <<heap, job, run, reloads, place, failing, rst>>

GivesUp(q) ==
  /\ At(q, "await") \/ At(q, "woken")
  /\ Answered(q)
  /\ UNCHANGED <<heap, job, run, reloads, place, failing, guards, drops, rst>>

BackoffElapses ==
  /\ \E f \in failing : failing' = failing \ {f}
  /\ UNCHANGED <<vars, place, res, guards, drops, rst>>

\* A request for a routed host: behind the guard when the project is dynamic
ArrivesGuarded(q) ==
  \E b \in DOMAIN bnd : \E h \in DOMAIN bnd[b].routes :
    IF bnd[b].entry = 0 THEN ArrivesAt(q, b, h) /\ UNCHANGED wild
    ELSE /\ Serving /\ bnd[b].open /\ req[q].step = "away"
         /\ Guarded(q, RouteOf(b, h), h[1], bnd[b].entry)
         /\ UNCHANGED <<heap, job, run, reloads, place, res, failing, rst>>

-----------------------------------------------------------------------------
(* Dropping a dynamic project *)

\* dropDynamicByName
DropFinds(d) ==
  LET r == table[d.label]
  IN /\ d.step = "find"
     /\ drops' = (drops \ {d}) \cup IF r # 0 /\ reg[r].entry = d.ent
                                    THEN {[d EXCEPT !.step = "retire", !.reg = r]} ELSE {}
     /\ UNCHANGED <<vars, place, res, failing, guards, rst>>

\* dropDynamic: retire, unless somebody else does, then forget the project.
DropRetires(d) ==
  /\ d.step = "retire"
  /\ TakeOff(d.reg, FALSE) \/ RetireAndStop(d.reg) \/ StopReturns(d.reg)
  /\ UNCHANGED <<job, run, req, reloads, wild>>

\* Mutant: the project leaves the table while its process is being stopped.
DropForgetsEarly(d) ==
  /\ d.step = "retire" /\ reg[d.reg].retire = "stopping"
  /\ table' = [table EXCEPT ![d.label] = IF @ = d.reg THEN 0 ELSE @]
  /\ drops' = drops \ {d}
  /\ UNCHANGED <<entries, bindings, reg, sw, bnd, ent, job, run, req, reloads>>
  /\ UNCHANGED <<place, res, failing, guards, rst>>

DropForgets(d) ==
  /\ d.step = "retire" /\ reg[d.reg].retire = "done"
  /\ table' = [table EXCEPT ![d.label] = IF @ = d.reg THEN 0 ELSE @]
  /\ drops' = drops \ {d}
  /\ UNCHANGED <<entries, bindings, reg, sw, bnd, ent, job, run, req, reloads>>
  /\ UNCHANGED <<place, res, failing, guards, rst>>

DropOf(r) == [step |-> "retire", label |-> reg[r].name, ent |-> reg[r].entry, reg |-> r]

\* The end of a process. A stop by the monitor (vanishAware) or by an operator
\* (StopProject) is followed by dropIfVanished; an eviction is not.
StopEnds(r) ==
  /\ ProcExits(r)
  /\ \/ UNCHANGED drops
     \/ /\ reg[r].proc = "stopping" /\ Dynamic(r) /\ reg[r].name \notin tree
        /\ reg[r].drive = "monitor" \/ Operated(r)
        /\ drops' = drops \cup {DropOf(r)}
  /\ UNCHANGED <<place, res, failing, guards, rst>>

WorktreeComesAndGoes ==
  /\ \E l \in Labels : "vanish" \in fate[l] /\ tree' = IF l \in tree THEN tree \ {l} ELSE tree \cup {l}
  /\ UNCHANGED <<vars, fate, res, failing, guards, drops, rst>>

-----------------------------------------------------------------------------
(* restartDynamic *)

RestartBegins(r) ==
  /\ run = "running" /\ rst = NoRestart
  /\ r \in Registered /\ Dynamic(r) /\ Operated(r)
  /\ rst' = [step |-> "check", reg |-> r, port |-> 0]
  /\ UNCHANGED <<vars, place, res, failing, guards, drops>>

\* The worktree is checked and port_command run; the same port is a plain
\* restart, another one must be free.
RestartChecks ==
  LET r == rst.reg
      l == reg[r].name
      ports == IF ent[reg[r].entry].cfg.cmd THEN PortsOf[l] ELSE {reg[r].cfg.app}
  IN /\ rst.step = "check"
     /\ IF l \notin tree THEN drops' = drops \cup {DropOf(r)} /\ rst' = NoRestart
        ELSE /\ \/ \E p \in ports :
                     rst' = IF p = reg[r].cfg.app THEN [rst EXCEPT !.step = "stop"]
                            ELSE IF PortOwned(p, l) \/ ~Room THEN NoRestart
                            ELSE [rst EXCEPT !.step = "lock", !.port = p]
                \/ ent[reg[r].entry].cfg.cmd /\ rst' = NoRestart
             /\ UNCHANGED drops
     /\ UNCHANGED <<vars, place, res, failing, guards>>

\* restart: Stop, then startManual
RestartStops ==
  /\ rst.step = "stop"
  /\ reg' = [reg EXCEPT ![rst.reg].proc = IF @ = "up" THEN "stopping" ELSE @]
  /\ rst' = [rst EXCEPT !.step = "start"]
  /\ UNCHANGED <<table, entries, bindings, sw, bnd, ent, job, run, req, reloads>>
  /\ UNCHANGED <<place, res, failing, guards, drops>>

\* The swap takes reloadMu, looks again and suspends the switch.
RestartLocks ==
  LET r == rst.reg
  IN /\ rst.step = "lock" /\ job = Nobody
     /\ IF table[reg[r].name] # r THEN rst' = NoRestart /\ UNCHANGED <<sw, job>>
        ELSE /\ rst' = [rst EXCEPT !.step = "swap"]
             /\ sw' = [sw EXCEPT ![reg[r].sw] = 0]
             /\ job' = [by |-> "restart", step |-> "retire", items |-> {[reg |-> r, keep |-> TRUE]}]
     /\ UNCHANGED <<table, entries, bindings, reg, bnd, ent, run, req, reloads>>
     /\ UNCHANGED <<place, res, failing, guards, drops>>

\* commission with the retired project as inherited
RestartCommissions ==
  LET r == rst.reg
      e == reg[r].entry
  IN /\ rst.step = "swap" /\ AllRetired
     /\ Inherit(NewState(reg[r].name, DynamicProject(ent[e].cfg, reg[r].name, rst.port), e), r)
     /\ rst' = [rst EXCEPT !.step = "start", !.reg = Len(reg) + 1]
     /\ UNCHANGED <<job, run, req, reloads, place, res, failing, guards, drops>>

\* startManual, still under reloadMu after a swap
RestartStarts ==
  LET r == rst.reg
  IN /\ rst.step = "start" /\ reg[r].proc # "stopping"
     /\ reg' = [reg EXCEPT ![r].proc = IF Retired(r) THEN @ ELSE "up"]
     /\ rst' = NoRestart
     /\ job' = IF job.by = "restart" THEN Nobody ELSE job
     /\ UNCHANGED <<table, entries, bindings, sw, bnd, ent, run, req, reloads>>
     /\ UNCHANGED <<place, res, failing, guards, drops>>

-----------------------------------------------------------------------------
Resolves(q) == Enters(q) \/ Checks(q) \/ FindsPort(q) \/ Registers(q) \/ Routes(q)
                 \/ Finishes(q) \/ Wakes(q)
RestartWorks == RestartChecks \/ RestartStops \/ RestartLocks \/ RestartCommissions \/ RestartStarts
DropWorks(d) == DropFinds(d) \/ DropRetires(d) \/ DropForgets(d)

WildcardNext ==
  \/ (DaemonWorks \/ ReloadBegins \/ Drain) /\ UNCHANGED wild
  \/ \E q \in Requests :
       \/ (RequestWorks(q) \/ ClientLeaves(q)) /\ UNCHANGED wild
       \/ \E r \in Registered : OperatorFinds(q, r) /\ Operated(r) /\ UNCHANGED wild
       \/ ArrivesGuarded(q) \/ Unrouted(q) \/ Resolves(q) \/ GivesUp(q)
  \/ \E r \in DOMAIN reg :
       \/ (StarterRuns(r) \/ ProcStops(r)) /\ UNCHANGED wild
       \/ StopEnds(r) \/ RestartBegins(r)
  \/ \E d \in drops : DropWorks(d)
  \/ RestartWorks \/ BackoffElapses \/ WorktreeComesAndGoes

WildcardSpec == WildcardInit /\ [][WildcardNext]_wvars
-----------------------------------------------------------------------------
(* Properties *)

\* Resolution runs at most once per label at a time, and a request that waits
\* for one waits for a resolution that is in progress: no lost wake-up.
SingleFlight ==
  /\ \A e \in DOMAIN ent, l \in Labels : Cardinality(Flights(e, l)) <= 1
  /\ \A q \in Requests : At(q, "await") => Flights(res[q].ent, res[q].label) # {}

\* While the daemon runs, a routed request reaches a handler that is not
\* retired, also when drops and restarts of the project overlap.
DynamicRoutesAreLive == run = "running" => RoutesAreLive

BeingRouted(r) == \E q \in Requests : At(q, "route") /\ reg[res[q].reg].sw = reg[r].sw
BeingDropped(r) == \E d \in drops : d.step = "retire" /\ d.reg = r

\* Outside a swap, a project in the table is served, about to be, or on its
\* way out, never stuck (which would answer 503 to its label for good); and
\* the listener counts its members.
DynamicIsServed ==
  Quiet =>
    /\ \A r \in Registered :
         IF reg[r].retire = "no" THEN Served(r) \/ BeingRouted(r) ELSE BeingDropped(r)
    /\ \A b \in DOMAIN bnd : bnd[b].members = Cardinality({r \in Registered : reg[r].bind = b})

\* Two projects in the table never have the same application port.
PortsAreOwn ==
  \A r, s \in Registered : r # s => reg[r].cfg.app # reg[s].cfg.app

\* stopAll returns with every listener closed and every process gone, whatever
\* was being resolved, dropped or restarted, except those of always_on projects
\* that were resolved after it looked: a request resolves them, but it is their
\* own starter that starts them.
OnlyLateStartersOutlive ==
  [][run = "draining" /\ run' = "exited" =>
       /\ \A r \in DOMAIN reg' : reg'[r].proc # "down" =>
            Dynamic(r) /\ reg[r].cfg.always /\ \A i \in job.items : i.reg # r
       /\ \A b \in DOMAIN bnd' : ~bnd'[b].open]_wvars

\* "everything the deferred stopAll stops must stay stopped", and it stops
\* "every supervised process group, dynamic projects included".
StopAllStopsAll ==
  [][run = "draining" /\ run' = "exited" =>
       /\ \A r \in DOMAIN reg' : reg'[r].proc = "down"
       /\ \A b \in DOMAIN bnd' : ~bnd'[b].open]_wvars

=============================================================================
