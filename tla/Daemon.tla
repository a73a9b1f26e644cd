------------------------------- MODULE Daemon -------------------------------
(***************************************************************************)
(* The daemon around the projects: the table of registrations, the         *)
(* listeners and their copy-on-write routers, the handler switches, the    *)
(* start of the daemon, the reload of its configuration and its shutdown   *)
(* (internal/daemon: daemon.go, router.go, state.go, reload.go).           *)
(*                                                                         *)
(* Objects the code points to are numbered: reg[r] is a *projectState with *)
(* its supervisor, sw[s] a handlerSwitch, bnd[b] a *binding with its       *)
(* router, ent[e] an *entryState; 0 is nil.  A switch holds the            *)
(* registration its handler serves, 0 while it is suspended.  Only the     *)
(* holder of reloadMu (and Run, before it serves) binds and closes         *)
(* listeners, so attach, detach and commission are single steps; the       *)
(* teardown of one project is three, because requests, operators and other *)
(* projects go on between them.  job is what the holder is doing.          *)
(*                                                                         *)
(* A supervisor is up (starting or running), stopping or down; that it     *)
(* waits out a stop and refuses to start once retired is Lifecycle.        *)
(***************************************************************************)
EXTENDS Config, SequencesExt

CONSTANTS
  Files,       \* what the configuration file may say when it is read
  Boot,        \* what it said when the daemon was started
  Names,       \* names of projects, static and dynamic
  EntryNames,  \* names of wildcard entries
  Ports,       \* ports of listeners
  Busy,        \* those another program may hold
  Dirs,        \* directories that exist
  Requests,    \* requests and operator commands in progress
  MaxReloads   \* bound: reloads in one behaviour

ASSUME DaemonAssumption == Busy \subseteq Ports /\ MaxReloads \in Nat

VARIABLES
  table,     \* Daemon.states
  entries,   \* Daemon.entries
  bindings,  \* Daemon.bindings, by port
  reg, sw, bnd, ent,
  job,       \* the holder of reloadMu, or Run while it binds
  run,       \* "booting", "running", "draining", "exited"; "crashed" by a nil pointer
  req,       \* requests: step, switch reached, registration reached
  reloads    \* reloads so far

heap == <<table, entries, bindings, reg, sw, bnd, ent>>
vars == <<heap, job, run, req, reloads>>

Put(s, i, x) == IF i > Len(s) THEN Append(s, x) ELSE [s EXCEPT ![i] = x]

\* router.setHost and router.removeHost, each on a copy of the routes
SetHost(f, h, s) == [x \in DOMAIN f \cup {h} |-> IF x = h THEN s ELSE f[x]]
RemoveHost(f, h) == [x \in DOMAIN f \ {h} |-> f[x]]

Accepted(f) == IsValid(f.projects, f.entries, f.max, Dirs, FALSE)
\* Config.Discovery, the wildcard entries only, by name
Wildcards(f) ==
  {f.entries[i] : i \in {j \in DOMAIN f.entries : IsWildcard(f.entries[j])}}
EntryNamed(f, e) == CHOOSE w \in Wildcards(f) : w.name = e
WildcardNames(f) == {w.name : w \in Wildcards(f)}

\* Names, EntryNames and Ports are those the files speak of.
ASSUME FilesAssumption ==
  /\ IsFiniteSet(Names) /\ IsFiniteSet(EntryNames)
  /\ \A f \in Files \cup {Boot} :
       /\ DOMAIN f.projects \subseteq Names
       /\ \A n \in DOMAIN f.projects : f.projects[n].sup \in Ports
       /\ \A w \in Wildcards(f) :
            w.name \in EntryNames /\ "sup" \in DOMAIN w /\ w.sup \in Ports

\* Run is given a configuration that was loaded.
ASSUME BootAssumption == Accepted(Boot)

Registered == {table[n] : n \in Names} \ {0}
Nobody == [by |-> "none"]
Idle == [step |-> "away", sw |-> 0, reg |-> 0]

-----------------------------------------------------------------------------
(* Building blocks *)

\* newProjectState
NewState(n, p, e) ==
  [name |-> n, cfg |-> p, sw |-> 0, bind |-> 0, entry |-> e, drive |-> "none",
   retire |-> "no", proc |-> "down"]

\* listen: one socket per address.
CanBind(p) == \A b \in DOMAIN bnd : bnd[b].port = p => ~bnd[b].open
BindMayFail(p) == p \in Busy \/ ~CanBind(p)
NewBinding(p, e) ==
  [port |-> p, open |-> TRUE, members |-> 0, entry |-> e, routes |-> [h \in {} |-> 0]]

\* activate: the always_on starter or the idle monitor
Activated(st) == [st EXCEPT !.drive = IF st.cfg.always THEN "starter" ELSE "monitor"]

\* attach: st becomes registration r, behind a new switch, on the listener at
\* its address, which is bound if there is none.
Attach(r, st) ==
  LET p == st.cfg.sup
      s == Len(sw) + 1
      b == IF bindings[p] # 0 THEN bindings[p] ELSE Len(bnd) + 1
      old == IF bindings[p] # 0 THEN bnd[b] ELSE NewBinding(p, 0)
  IN /\ bindings[p] = 0 => CanBind(p)
     /\ bnd' = Put(bnd, b, [old EXCEPT !.members = @ + 1, !.routes = SetHost(@, st.cfg.host, s)])
     /\ bindings' = [bindings EXCEPT ![p] = b]
     /\ sw' = Append(sw, r)
     /\ reg' = Put(reg, r, [st EXCEPT !.sw = s, !.bind = b])
     /\ table' = [table EXCEPT ![st.name] = r]
     /\ UNCHANGED <<entries, ent>>

AttachMayFail(p) == bindings[p.sup] = 0 /\ BindMayFail(p.sup)

\* Mutant: the handler is never installed.
InheritSuspended(st, old) ==
  LET r == Len(reg) + 1
  IN /\ reg' = Append(reg, Activated([st EXCEPT !.sw = reg[old].sw, !.bind = reg[old].bind]))
     /\ table' = [table EXCEPT ![st.name] = r]
     /\ UNCHANGED <<entries, bindings, sw, bnd, ent>>

\* Mutant: the listener is not carried over.
InheritUnbound(st, old) ==
  LET r == Len(reg) + 1
  IN /\ reg' = Append(reg, Activated([st EXCEPT !.sw = reg[old].sw]))
     /\ table' = [table EXCEPT ![st.name] = r]
     /\ sw' = [sw EXCEPT ![reg[old].sw] = r]
     /\ UNCHANGED <<entries, bindings, bnd, ent>>

\* commission with inherited: the new registration takes over switch, listener
\* and route of the one it replaces and is installed in the switch.
Inherit(st, old) ==
  LET r == Len(reg) + 1
  IN /\ reg' = Append(reg, Activated([st EXCEPT !.sw = reg[old].sw, !.bind = reg[old].bind]))
     /\ table' = [table EXCEPT ![st.name] = r]
     /\ sw' = [sw EXCEPT ![reg[old].sw] = r]
     /\ UNCHANGED <<entries, bindings, bnd, ent>>

\* bindEntry
BindEntry(e, rec) ==
  LET b == Len(bnd) + 1
  IN /\ CanBind(rec.cfg.sup)
     /\ bnd' = Append(bnd, NewBinding(rec.cfg.sup, e))
     /\ ent' = Put(ent, e, [rec EXCEPT !.bind = b])
     /\ bindings' = [bindings EXCEPT ![rec.cfg.sup] = b]
     /\ entries' = [entries EXCEPT ![rec.cfg.name] = e]
     /\ UNCHANGED <<table, reg, sw>>

\* unbindEntry, for each entry of a set
UnbindEntries(E) ==
  /\ bnd' = [b \in DOMAIN bnd |->
               IF \E e \in E : ent[e].bind = b THEN [bnd[b] EXCEPT !.open = FALSE] ELSE bnd[b]]
  /\ bindings' = [p \in Ports |->
                    IF \E e \in E : ent[e].bind = bindings[p] THEN 0 ELSE bindings[p]]
  /\ entries' = [n \in EntryNames |-> IF entries[n] \in E THEN 0 ELSE entries[n]]
  /\ UNCHANGED <<table, reg, sw, ent>>

-----------------------------------------------------------------------------
(* Taking a project out of service: retire, three steps, at most once. *)

Retired(r) == reg[r].retire \in {"stopping", "done"}

\* Mutant: the listener goes with any of its projects.
ReleaseShared(b, left) ==
  /\ bnd' = [bnd EXCEPT ![b] = [left EXCEPT !.open = FALSE]]
  /\ bindings' = [p \in Ports |-> IF bindings[p] = b THEN 0 ELSE bindings[p]]
  /\ UNCHANGED sw

\* The end of detach: listener b without the route of r, closed when nothing
\* else is on it.
Release(b, left) ==
  LET closing == left.members <= 0 /\ left.entry = 0
  IN /\ bnd' = [bnd EXCEPT ![b] = [left EXCEPT !.open = @ /\ ~closing]]
     /\ bindings' = [p \in Ports |-> IF closing /\ bindings[p] = b THEN 0 ELSE bindings[p]]
     /\ UNCHANGED sw

\* Mutant: the membership is released twice.
DetachTwice(r, keep) ==
  LET b == reg[r].bind
  IN IF b = 0 THEN UNCHANGED <<sw, bnd, bindings>>
     ELSE Release(b, [bnd[b] EXCEPT !.members = @ - 2, !.routes = RemoveHost(@, reg[r].cfg.host)])

\* Mutant: keep is ignored.
DetachKept(r, keep) ==
  LET b == reg[r].bind
  IN IF b = 0 THEN UNCHANGED <<sw, bnd, bindings>>
     ELSE Release(b, [bnd[b] EXCEPT !.members = @ - 1, !.routes = RemoveHost(@, reg[r].cfg.host)])

\* Mutant: the route stays when the listener does.
DetachRouted(r, keep) ==
  LET b == reg[r].bind
  IN IF b = 0 THEN UNCHANGED <<sw, bnd, bindings>>
     ELSE Release(b, [bnd[b] EXCEPT !.members = @ - 1])

\* detach: the route goes; with keep the switch is suspended instead, and the
\* route stays for the replacement.
Detach(r, keep) ==
  LET b == reg[r].bind
  IN IF keep THEN sw' = [sw EXCEPT ![reg[r].sw] = 0] /\ UNCHANGED <<bnd, bindings>>
     ELSE IF b = 0 THEN UNCHANGED <<sw, bnd, bindings>>
     ELSE Release(b, [bnd[b] EXCEPT !.members = @ - 1, !.routes = RemoveHost(@, reg[r].cfg.host)])

\* deactivate, then detach. An always_on starter that is past its check may
\* still start the project.
TakeOff(r, keep) ==
  /\ reg[r].retire = "no"
  /\ Detach(r, keep)
  /\ reg' = [reg EXCEPT ![r] =
               [reg[r] EXCEPT !.retire = "off", !.bind = IF keep THEN @ ELSE 0,
                              !.drive = IF @ = "starter" THEN "cancelled" ELSE "ended"]]
  /\ UNCHANGED <<table, entries, ent>>

\* Mutant: the project is retired and not stopped.
RetireOnly(r) ==
  /\ reg[r].retire = "off"
  /\ reg' = [reg EXCEPT ![r].retire = "stopping"]
  /\ UNCHANGED <<table, entries, bindings, sw, bnd, ent>>

\* Supervisor.Retire and the beginning of Supervisor.Stop
RetireAndStop(r) ==
  /\ reg[r].retire = "off"
  /\ reg' = [reg EXCEPT ![r] =
               [reg[r] EXCEPT !.retire = "stopping", !.proc = IF @ = "up" THEN "stopping" ELSE @]]
  /\ UNCHANGED <<table, entries, bindings, sw, bnd, ent>>

\* Stop returns once the group is gone.
StopReturns(r) ==
  /\ reg[r].retire = "stopping" /\ reg[r].proc = "down"
  /\ reg' = [reg EXCEPT ![r].retire = "done"]
  /\ UNCHANGED <<table, entries, bindings, sw, bnd, ent>>

\* retireAll: one goroutine for each item.
JobRetires ==
  /\ job.by \in {"reload", "stop", "restart"} /\ job.step = "retire" /\ run # "crashed"
  /\ \E i \in job.items :
       TakeOff(i.reg, i.keep) \/ RetireAndStop(i.reg) \/ StopReturns(i.reg)
  /\ UNCHANGED <<job, run, req, reloads>>

\* Mutant: the teardown is not awaited.
RetiredSoon == TRUE

AllRetired == \A i \in job.items : reg[i.reg].retire = "done"

-----------------------------------------------------------------------------
(* Run binds every listener before it serves any. *)

Init ==
  LET names == SetToSeq(DOMAIN Boot.projects)
      wilds == SetToSeq(WildcardNames(Boot))
      At(s, n) == IF \E i \in DOMAIN s : s[i] = n THEN CHOOSE i \in DOMAIN s : s[i] = n ELSE 0
  IN /\ reg = [i \in DOMAIN names |-> NewState(names[i], Boot.projects[names[i]], 0)]
     /\ ent = [i \in DOMAIN wilds |-> [cfg |-> EntryNamed(Boot, wilds[i]), bind |-> 0]]
     /\ table = [n \in Names |-> At(names, n)]
     /\ entries = [n \in EntryNames |-> At(wilds, n)]
     /\ bindings = [p \in Ports |-> 0]
     /\ sw = << >> /\ bnd = << >>
     /\ job = [by |-> "boot", todo |-> {<<1, n>> : n \in DOMAIN Boot.projects}
                                       \cup {<<2, n>> : n \in WildcardNames(Boot)}]
     /\ run = "booting"
     /\ req = [q \in Requests |-> Idle]
     /\ reloads = 0

\* Work left, phase by phase: <<phase, name>>
Due == {t \in job.todo : \A u \in job.todo : t[1] <= u[1]}
Done(t) == job' = [job EXCEPT !.todo = @ \ {t}]

BootBinds ==
  /\ job.by = "boot"
  /\ \E t \in Due :
       /\ Done(t)
       /\ IF t[1] = 1 THEN Attach(table[t[2]], reg[table[t[2]]])
          ELSE BindEntry(entries[t[2]], ent[entries[t[2]]])
  /\ UNCHANGED <<run, req, reloads>>

PortOf(t) == IF t[1] = 1 THEN reg[table[t[2]]].cfg.sup ELSE ent[entries[t[2]]].cfg.sup

\* abort: a taken port is an error. Run returns, through stopAll.
BootFails ==
  /\ job.by = "boot"
  /\ \E t \in Due : bindings[PortOf(t)] = 0 /\ BindMayFail(PortOf(t))
  /\ bnd' = [b \in DOMAIN bnd |-> [bnd[b] EXCEPT !.open = FALSE]]
  /\ job' = Nobody /\ run' = "draining"
  /\ UNCHANGED <<table, entries, bindings, reg, sw, ent, req, reloads>>

BootEnds ==
  /\ job.by = "boot" /\ job.todo = {}
  /\ reg' = [r \in DOMAIN reg |-> Activated(reg[r])]
  /\ job' = Nobody /\ run' = "running"
  /\ UNCHANGED <<table, entries, bindings, sw, bnd, ent, req, reloads>>

-----------------------------------------------------------------------------
(* Reload *)

SameRoute(p, q) == p.sup = q.sup /\ p.host = q.host

\* The diff of job's configuration against the table it cloned
Dynamic(r) == reg[r].entry # 0
Old(n) == job.old[n]
Added == {n \in DOMAIN job.cfg.projects : Old(n) = 0}
Changed == {n \in DOMAIN job.cfg.projects : Old(n) # 0 /\
              (Dynamic(Old(n)) \/ ~EquivalentProject(reg[Old(n)].cfg, job.cfg.projects[n]))}
Removed == {n \in Names \ DOMAIN job.cfg.projects : Old(n) # 0 /\ ~Dynamic(Old(n))}
Keeps(n) == ~Dynamic(Old(n)) /\ SameRoute(reg[Old(n)].cfg, job.cfg.projects[n])
EntryStays(n) == n \in WildcardNames(job.cfg) /\
                   EquivalentEntry(ent[job.oldEnt[n]].cfg, EntryNamed(job.cfg, n))
EntriesGone == {n \in EntryNames : job.oldEnt[n] # 0 /\ ~EntryStays(n)}
EntriesDue == {n \in WildcardNames(job.cfg) : job.oldEnt[n] = 0 \/ ~EntryStays(n)}

\* Reload takes reloadMu, clones the table and reads the configuration. One
\* that is not valid is rejected: nothing changes.
ReloadBegins ==
  /\ job = Nobody /\ run = "running" /\ reloads < MaxReloads
  /\ \E f \in Files :
       IF Accepted(f)
       THEN /\ job' = [by |-> "reload", step |-> "detach", cfg |-> f, old |-> table,
                       oldEnt |-> entries, items |-> {}, todo |-> {}]
            /\ reloads' = reloads + 1
       ELSE UNCHANGED <<job, reloads>>
  /\ UNCHANGED <<heap, run, req>>

\* The section under d.mu: removed projects, and the dynamic projects of an
\* entry that goes, leave the table; a switch whose route is kept is suspended.
ReloadDetaches ==
  /\ job.by = "reload" /\ job.step = "detach" /\ run # "crashed"
  /\ LET gone == {job.oldEnt[n] : n \in EntriesGone}
         dynamic == {n \in Names \ Changed : table[n] # 0 /\ reg[table[n]].entry \in gone}
         leaving == Removed \cup dynamic
     IN /\ table' = [n \in Names |-> IF n \in leaving THEN 0 ELSE table[n]]
        /\ sw' = [s \in DOMAIN sw |->
                    IF \E n \in Changed : Keeps(n) /\ reg[table[n]].sw = s THEN 0 ELSE sw[s]]
        /\ job' = [job EXCEPT !.step = "retire",
                     !.items = {[reg |-> table[n], keep |-> FALSE] : n \in leaving}
                          \cup {[reg |-> table[n], keep |-> Keeps(n)] : n \in Changed}]
        /\ run' = IF \E n \in Changed : table[n] = 0 THEN "crashed" ELSE run
  /\ UNCHANGED <<entries, bindings, reg, bnd, ent, req, reloads>>

\* Every retired group is gone; the entries' listeners are closed.
ReloadUnbinds ==
  /\ job.by = "reload" /\ job.step = "retire" /\ run # "crashed" /\ AllRetired
  /\ UnbindEntries({job.oldEnt[n] : n \in EntriesGone})
  /\ job' = [job EXCEPT !.step = "rebuild",
                        !.todo = {<<1, n>> : n \in Added} \cup {<<2, n>> : n \in Changed}
                                 \cup {<<3, n>> : n \in EntriesDue}]
  /\ UNCHANGED <<run, req, reloads>>

Rebuild(phase, n) ==
  /\ job.by = "reload" /\ job.step = "rebuild"
  /\ <<phase, n>> \in Due
  /\ Done(<<phase, n>>)
  /\ UNCHANGED <<run, req, reloads>>

\* commission without inherited
Commission(n, p) == Attach(Len(reg) + 1, Activated(NewState(n, p, 0)))

ReloadAdds(n) ==
  /\ Rebuild(1, n)
  /\ \/ Commission(n, job.cfg.projects[n])
     \/ AttachMayFail(job.cfg.projects[n]) /\ UNCHANGED heap

ReloadReplaces(n) ==
  /\ Rebuild(2, n)
  /\ IF Keeps(n) THEN Inherit(NewState(n, job.cfg.projects[n], 0), Old(n))
     ELSE Commission(n, job.cfg.projects[n])

\* The new address cannot be bound: the previous registration comes back.
ReloadRestores(n) ==
  /\ Rebuild(2, n)
  /\ ~Keeps(n) /\ AttachMayFail(job.cfg.projects[n])
  /\ Commission(n, reg[Old(n)].cfg)

\* Nor can the old one: the project is unregistered.
ReloadLoses(n) ==
  /\ Rebuild(2, n)
  /\ ~Keeps(n) /\ AttachMayFail(job.cfg.projects[n]) /\ AttachMayFail(reg[Old(n)].cfg)
  /\ table' = [table EXCEPT ![n] = 0]
  /\ UNCHANGED <<entries, bindings, reg, sw, bnd, ent>>

ReloadBindsEntry(n) ==
  /\ Rebuild(3, n)
  /\ \/ BindEntry(Len(ent) + 1, [cfg |-> EntryNamed(job.cfg, n), bind |-> 0])
     \/ BindMayFail(EntryNamed(job.cfg, n).sup) /\ UNCHANGED heap

ReloadEnds ==
  /\ job.by = "reload" /\ job.step = "rebuild" /\ job.todo = {}
  /\ job' = Nobody
  /\ UNCHANGED <<heap, run, req, reloads>>
-----------------------------------------------------------------------------
(* Shutdown: a signal or a failed listener; then stopAll, once reloadMu is free. *)

Drain ==
  /\ run = "running"
  /\ run' = "draining"
  /\ UNCHANGED <<heap, job, req, reloads>>

StopAllBegins ==
  /\ run = "draining" /\ job = Nobody
  /\ job' = [by |-> "stop", step |-> "retire",
             items |-> {[reg |-> r, keep |-> FALSE] : r \in Registered}]
  /\ UNCHANGED <<heap, run, req, reloads>>

StopAllEnds ==
  /\ job.by = "stop" /\ AllRetired
  /\ UnbindEntries({e \in DOMAIN ent : ent[e].bind # 0 /\ \E n \in EntryNames : entries[n] = e})
  /\ job' = Nobody /\ run' = "exited"
  /\ UNCHANGED <<req, reloads>>

-----------------------------------------------------------------------------
(* Requests and operator commands *)

Serving == run \in {"running", "draining"}

\* router.ServeHTTP: the catch-all first, then the host; 0 is no route.
RouteOf(b, h) ==
  LET key == IF NoHost \in DOMAIN bnd[b].routes THEN NoHost ELSE h
  IN IF key \in DOMAIN bnd[b].routes THEN bnd[b].routes[key] ELSE 0

Step(q, from, to) == req[q].step = from /\ req' = [req EXCEPT ![q] = to]

\* A request reaches the switch of a project; without a route it is a 404.
ArrivesAt(q, b, h) ==
  /\ Serving /\ bnd[b].open
  /\ Step(q, "away", [step |-> "switch", sw |-> RouteOf(b, h), reg |-> 0])
  /\ UNCHANGED <<heap, job, run, reloads>>

Arrives(q) == \E b \in DOMAIN bnd : \E h \in DOMAIN bnd[b].routes : ArrivesAt(q, b, h)

\* handlerSwitch.ServeHTTP: it waits while the switch is suspended.
PassesSwitch(q) ==
  /\ req[q].step = "switch" /\ sw[req[q].sw] # 0
  /\ Step(q, "switch", [step |-> "handler", sw |-> 0, reg |-> sw[req[q].sw]])
  /\ UNCHANGED <<heap, job, run, reloads>>

ClientLeaves(q) ==
  /\ Step(q, "switch", Idle)
  /\ UNCHANGED <<heap, job, run, reloads>>

\* EnsureStartedOnDemand: refused once the daemon drains.
AsksForStart(q) ==
  /\ Step(q, "handler", IF run = "running" THEN [req[q] EXCEPT !.step = "start"] ELSE Idle)
  /\ UNCHANGED <<heap, job, run, reloads>>

\* findProject, for project:start and project:restart
OperatorFinds(q, r) ==
  /\ run = "running" /\ r \in Registered
  /\ Step(q, "away", [step |-> "start", sw |-> 0, reg |-> r])
  /\ UNCHANGED <<heap, job, run, reloads>>

\* Mutant: a retired supervisor starts its project.
StartsRetired(q) ==
  LET r == req[q].reg
  IN /\ req[q].step = "start" /\ reg[r].proc # "stopping"
     /\ req' = [req EXCEPT ![q] = Idle]
     /\ reg' = [reg EXCEPT ![r].proc = "up"]
     /\ UNCHANGED <<table, entries, bindings, sw, bnd, ent, job, run, reloads>>

\* The supervisor starts the project unless it is retired.
Starts(q) ==
  LET r == req[q].reg
  IN /\ req[q].step = "start" /\ reg[r].proc # "stopping"
     /\ req' = [req EXCEPT ![q] = Idle]
     /\ reg' = [reg EXCEPT ![r].proc = IF Retired(r) THEN @ ELSE "up"]
     /\ UNCHANGED <<table, entries, bindings, sw, bnd, ent, job, run, reloads>>

\* The goroutine activate starts for an always_on project
StarterRuns(r) ==
  /\ reg[r].drive \in {"starter", "cancelled"} /\ reg[r].proc # "stopping"
  /\ \/ reg' = [reg EXCEPT ![r] =
                    [reg[r] EXCEPT !.drive = "ended", !.proc = IF Retired(r) THEN @ ELSE "up"]]
     \/ reg[r].drive = "cancelled" /\ reg' = [reg EXCEPT ![r].drive = "ended"]
  /\ UNCHANGED <<table, entries, bindings, sw, bnd, ent, job, run, req, reloads>>

\* The idle monitor, an eviction or an operator stops the project.
ProcStops(r) ==
  /\ reg[r].proc = "up" /\ (reg[r].drive = "monitor" \/ r \in Registered)
  /\ reg' = [reg EXCEPT ![r].proc = "stopping"]
  /\ UNCHANGED <<table, entries, bindings, sw, bnd, ent, job, run, req, reloads>>

\* The group is gone, asked or not.
ProcExits(r) ==
  /\ reg[r].proc # "down"
  /\ reg' = [reg EXCEPT ![r].proc = "down"]
  /\ UNCHANGED <<table, entries, bindings, sw, bnd, ent, job, run, req, reloads>>

-----------------------------------------------------------------------------
DaemonWorks ==
  \/ BootBinds \/ BootFails \/ BootEnds
  \/ ReloadDetaches \/ ReloadUnbinds \/ ReloadEnds \/ JobRetires
  \/ \E n \in Names : ReloadAdds(n) \/ ReloadReplaces(n) \/ ReloadRestores(n) \/ ReloadLoses(n)
  \/ \E n \in EntryNames : ReloadBindsEntry(n)
  \/ StopAllBegins \/ StopAllEnds

RequestWorks(q) == PassesSwitch(q) \/ AsksForStart(q) \/ Starts(q)
RequestComes(q) ==
  Arrives(q) \/ ClientLeaves(q) \/ \E r \in Registered : OperatorFinds(q, r)
ProcWorks(r) == StarterRuns(r) \/ ProcStops(r) \/ ProcExits(r)

Next ==
  \/ DaemonWorks \/ ReloadBegins \/ Drain
  \/ \E q \in Requests : RequestWorks(q) \/ RequestComes(q)
  \/ \E r \in DOMAIN reg : ProcWorks(r)

Spec == Init /\ [][Next]_vars

\* The daemon's goroutines run, and the group of a retired project ends
\* (StopFinishes of Supervisor).
FairSpec ==
  /\ Spec
  /\ WF_vars(DaemonWorks)
  /\ \A q \in Requests : WF_vars(RequestWorks(q))
  /\ WF_vars(\E r \in DOMAIN reg : Retired(r) /\ reg[r].proc = "stopping" /\ ProcExits(r))
-----------------------------------------------------------------------------
(* Properties *)

\* The shapes of the daemon's objects, and that every pointer leads somewhere.
TypeOK ==
  /\ table \in [Names -> 0..Len(reg)] /\ entries \in [EntryNames -> 0..Len(ent)]
  /\ bindings \in [Ports -> 0..Len(bnd)]
  /\ \A s \in DOMAIN sw : sw[s] \in 0..Len(reg)
  /\ \A r \in DOMAIN reg :
       /\ reg[r].name \in Names /\ reg[r].sw \in 0..Len(sw) /\ reg[r].bind \in 0..Len(bnd)
       /\ reg[r].drive \in {"none", "starter", "monitor", "cancelled", "ended"}
       /\ reg[r].retire \in {"no", "off", "stopping", "done"}
       /\ reg[r].proc \in {"down", "up", "stopping"}
  /\ \A b \in DOMAIN bnd :
       /\ bnd[b].port \in Ports /\ bnd[b].members \in Nat /\ bnd[b].open \in BOOLEAN
       /\ \A h \in DOMAIN bnd[b].routes : bnd[b].routes[h] \in DOMAIN sw
  /\ run \in {"booting", "running", "draining", "exited", "crashed"}

Quiet == job = Nobody /\ run = "running"

\* Two projects that cannot be served side by side
Meet(p, q) == SameRoute(p, q) \/ p.app = q.app

\* A project that moves to a port which may be taken can go back: nobody else
\* in the new file has its old address or its application port.
CanGoBack ==
  \A f, g \in {h \in Files \cup {Boot} : Accepted(h)} :
    \A n \in DOMAIN f.projects \cap DOMAIN g.projects :
      ~SameRoute(f.projects[n], g.projects[n]) /\ g.projects[n].sup \in Busy =>
        \A m \in DOMAIN g.projects \ {n} : ~Meet(f.projects[n], g.projects[m])

\* A request that is routed reaches the handler of a registration for exactly
\* that listener and host, which is not retired (retire detaches before it
\* retires); a switch is suspended only while the holder of reloadMu is
\* replacing the project behind it.
RoutesAreLive ==
  \A b \in DOMAIN bnd : bnd[b].open =>
    \A h \in DOMAIN bnd[b].routes :
      LET r == sw[bnd[b].routes[h]]
      IN IF r = 0 THEN job.by \in {"reload", "restart"}
         ELSE /\ ~Retired(r) /\ reg[r].bind = b
              /\ reg[r].cfg.sup = bnd[b].port /\ reg[r].cfg.host = h

Served(r) ==
  LET b == reg[r].bind
  IN /\ b # 0 /\ bnd[b].open /\ bindings[reg[r].cfg.sup] = b
     /\ reg[r].cfg.host \in DOMAIN bnd[b].routes
     /\ bnd[b].routes[reg[r].cfg.host] = reg[r].sw /\ sw[reg[r].sw] = r
     /\ reg[r].retire = "no" /\ reg[r].drive # "none"

\* Between reloads every project in the table is served on its address by its
\* own handler, with its monitor or starter, whatever failed in the reloads
\* before; and a listener is open for exactly the projects and the entry on it.
TableIsServed ==
  Quiet =>
    /\ \A n \in Names : table[n] # 0 => Served(table[n])
    /\ \A b \in DOMAIN bnd : bnd[b].open =>
         /\ bindings[bnd[b].port] = b
         /\ bnd[b].members = Cardinality({r \in Registered : reg[r].bind = b})
         /\ bnd[b].members > 0 \/ (bnd[b].entry # 0 /\ ent[bnd[b].entry].bind = b)

\* While a reload replaces a project on the same address and host, the route
\* stays on an open listener: a request waits for the swap and is not refused.
KeptRouteStays ==
  job.by = "reload" =>
    \A n \in DOMAIN job.cfg.projects : Old(n) # 0 /\ Keeps(n) =>
      LET b == reg[Old(n)].bind
      IN /\ bnd[b].open /\ reg[Old(n)].cfg.host \in DOMAIN bnd[b].routes
         /\ bnd[b].routes[reg[Old(n)].cfg.host] = reg[Old(n)].sw

\* Two registrations never have processes on one application port: a
\* replacement waits until its predecessor's group is gone.
OneServerPerPort ==
  \A r, s \in DOMAIN reg :
    r # s /\ reg[r].proc # "down" /\ reg[s].proc # "down" => reg[r].cfg.app # reg[s].cfg.app

\* When Run has returned, no process group and no listener is left, whatever
\* reload, request, starter or failed start of the daemon was in progress.
NothingSurvives ==
  run = "exited" =>
    /\ \A r \in DOMAIN reg : reg[r].proc = "down"
    /\ \A b \in DOMAIN bnd : ~bnd[b].open

\* A reload never touches a project or an entry whose configuration it does
\* not change: registration, route and listener stay, its process is not
\* stopped and its monitor not ended by the reload's own steps.
UnchangedUntouched ==
  [][job.by = "reload" /\ job'.by \in {"reload", "none"} =>
       /\ \A n \in DOMAIN job.cfg.projects :
            Old(n) # 0 /\ n \notin Changed =>
              /\ table'[n] = table[n] /\ reg'[Old(n)].retire = "no"
              /\ sw'[reg[Old(n)].sw] = Old(n) /\ bnd'[reg[Old(n)].bind].open
       /\ \A n \in WildcardNames(job.cfg) :
            job.oldEnt[n] # 0 /\ [ent[job.oldEnt[n]].cfg EXCEPT !.max = 0]
                                   = [EntryNamed(job.cfg, n) EXCEPT !.max = 0] =>
              entries'[n] = job.oldEnt[n] /\ bnd'[ent[job.oldEnt[n]].bind].open]_vars

\* A request parked at a suspended switch gets on: the reload that suspended
\* it ends, and installs a handler whatever failed (or the client left).
ParkedIsReleased ==
  \A q \in Requests : req[q].step = "switch" ~> req[q].step # "switch"

\* A shutdown ends, also one that finds a reload in progress.
ShutdownEnds == run = "draining" ~> run = "exited"
=============================================================================
