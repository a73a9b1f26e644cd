# herd-wake: specification, model checking and proofs

herd-wake is a daemon that sits between a local web server and development
servers: it starts a project's server when the first request arrives, holds the
requests until the server is ready, stops it when nobody uses it, and keeps the
number of servers that run at once under a cap. Projects come from a
configuration that can be reloaded, from worktrees that `herd-wake sync`
registers, and from wildcard entries that are resolved while a request waits.
This directory holds TLA+ modules that model these parts, TLC configurations
that check them on small instances, and TLAPS proofs of the properties that
matter most.

`tlc -config X.cfg M` checks module `M`; `tlapm X.tla`, for the modules whose
names end in `Proofs`, checks the proofs. `PROJECT.json` lists the runs, the
source lines behind every definition, the findings, the hazards and the theorems.

## The system and its parts

| Part (source) | State it keeps | Operations | Status |
| --- | --- | --- | --- |
| Supervisor of a project (`internal/process/supervisor.go`) | life-cycle state, current command and group, waiters, abort reason, failure count and retry time, `stopDone`, `retired` | `EnsureStarted`, `EnsureStartedOnDemand`, `Stop`, `StopAsync`, `Restart`, `Retire`; goroutines `probeReadiness`, `handleExit`, `finishStop` | `Supervisor`, `Lifecycle` |
| Activity tracker (`internal/idle/tracker.go`) | in-flight and persistent counters, last activity, lease, stop gate | `RequestBegan`/`Ended`, `PersistentOpened`/`Closed`, `Lease`, `BeginStop`, `StopGate` | `IdleStop` |
| Idle monitor (`internal/idle/monitor.go`) | its timer | `tick` | `IdleStop` |
| On-demand proxy (`internal/proxy/ondemand.go`) | number of held requests | `ServeHTTP`, `serveUpgrade`, `dispatch`, `holdAndForward` | `IdleStop` |
| Running-server budget (`internal/daemon/budget.go`) | caps, `budgetMu` | `startOnDemand`, `startManual`, `reserve`, `tryReserveLocked`, `evict`, `applyBudget` | `Budget` |
| Reload, project table, router, handler switch, shutdown (`internal/daemon/{reload,state,router,daemon}.go`) | table of projects and entries, listeners with their members and routes, switches, `reloadMu` | `Run`, `Reload`, `attach`, `detach`, `commission`, `retireAll`, `stopAll` | `Daemon`; the caps in `Budget` |
| Wildcard resolver (`internal/daemon/wildcard.go`) | calls in flight, backoff of failed labels, dynamic projects | `resolve`, `materialise`, `vanishGuard`, `dropDynamic`, `restartDynamic` | `Wildcard` |
| Discovery and sync (`internal/discovery`, `cmd/herd-wake/sync.go`, `internal/herd`) | managed `projects.d` files, `sync-state.yaml`; Herd's sites | `Sync`, `syncWildcard`, `retireWildcards`, `Remove`; `proxy`, `unproxy` | `Sync` |
| Configuration (`internal/config`) | none | merging, `validate` | `Config`: the rules on names, ports, hosts, ranges and entries |
| Output ring (`internal/process/ring.go`) | last lines of output | append, `Last` | planned |
| Env files, control API, CLI | | | not modelled: parsing, I/O and printing |

The parts interact through calls and shared atomics. A request takes the
tracker's counters, reads the stop gate and the supervisor's lock-free state,
and either is forwarded or asks the budget for a start, which calls the
supervisor while it holds `budgetMu`. The monitor and the budget's evictor arm
the same stop gate before they call `Stop`. Supervisors run goroutines of their
own, so states change under everyone's feet. Operator commands and reloads call
the supervisor directly and do not pass the gate. A reload and a restart that
moves a dynamic project hold `reloadMu` while they replace registrations under
live traffic; resolutions and drops of dynamic projects take only `d.mu`. `sync`
is a process of its own: it shares with the daemon nothing but the files, which
the daemon reads on the next reload.

What is hard, and what makes it correct:

* supervisor: exits, readiness, deadlines and stops race; every waiter gets one
  answer, every stop ends and has one owner, no process group is left behind,
  and a retired project stays down;
* proxy, tracker, monitor: the handshake has no lock; a counted request must not
  enter a process whose stop was decided, and nobody may wait for ever;
* budget: the count of slots reads states that change; an admitted start must
  respect the caps, and a start must be answered;
* daemon: a reload works in steps while requests, operators and starters go on,
  and any bind of it can fail; a route always leads to a live handler, a parked
  request is released, and nothing survives the shutdown;
* wildcard: resolutions, drops and restarts of one project overlap; one
  resolution per label, one server per port, no project stuck half registered;
* sync: three stores are written one after the other, any Herd command can fail
  and the command can be killed anywhere; what was written must load, the user's
  own sites must not be touched, and a later sync must repair what an earlier one
  left behind.

## Modules

`Lifecycle` is the abstract specification of a supervisor: five states, one
process group at large at a time, callers that hope and callers that are owed a
failure.

`Supervisor` is the code. Each critical section under `s.mu` is one action;
what the code does after unlocking (a signal, the delivery of outcomes,
`close(stopDone)`) is another. Spawns are numbered, and a number stands for the
`*exec.Cmd`, its group and its channels; `child`, `kids` and `killed` say what
became of the group, `probe` and `stop` where its goroutines stand. A probe may
succeed whatever the command does, because anything may listen on the port. The
time before `nextRetryAt` is the bit `backoff`. It implements `Lifecycle`:
`instance` is "a group has members that were not sent SIGKILL", `hoping` is
`s.waiters`, `owed` the callers a `handleExit` still has to tell.

`IdleStop` composes requests in the proxy, the tracker, the monitor and an
evictor with `Lifecycle` as the project's supervisor. Every atomic access of the
handshake is a step: increment, read the gate, read the state; arm the gate,
read `inflight`, read `persistent` and the lease, look again, stop, withdraw the
gate, close it. A counter is the set of requests it counts. Time is one bit, "the idle
deadline has passed". An upgrade is a `tunnel` (kept alive) or `momentary`.
The set `held` is kept through the whole forward, as the deferred decrement does.

`Budget` models reservations of several projects. `try` holds the locals of the
`tryReserveLocked` in progress. The count reads one project per step; the caps,
the table, the judgement of each candidate and the start are steps of their own.
Reads whose order cannot be told apart are one step: taking the lock, the first
state check and the loads of caps and table; arming a victim's gate and
`StopAsync`. Candidates are tried in any order, which includes the
least-recently-active one. A request's retry right after its first refusal is a
`Poll` like the others.

`Config` holds the loader's rules as pure operators (`Loads`, `IsValid`); `Daemon`
and `Sync` are built on them, so the same rules decide what a reload accepts and
what a sync must not break. Of a template they tell apart `always_on` and a
`readiness_url` that only the rules for projects reject, since the projects made from
an entry copy both; all other fields are valid or not as one.

`Daemon` numbers the objects the code points to: registrations, handler
switches, listeners with their routers, entries. `job` is what the holder of
`reloadMu` does. Binding and closing happens only there, so attach, detach and
commission are single steps; the teardown of a project is three steps (detach,
retire, wait for its process), and between them requests reach its switch, ask
for a start, and operators act on registrations they looked up before. A bind can
fail on the ports in `Busy`; a reload then restores the old registration or loses
it, as the code does. Supervisors are reduced to up, stopping and down, with the
promises of `Lifecycle`.

`Wildcard` extends `Daemon`: `WildcardNext` interleaves the daemon's steps with
the resolver's, the drops' and the restart's. Each critical section under `rs.mu`
or `d.mu` is a step. A worktree can vanish and come back; `port_command` may print
any port of `PortsOf`; a wait for a resolution can time out, and its client leave. A
dynamic project gets a monitor, or is started at once when its template is always_on.

`Sync` models the commands. What a command reads of Herd and what it does with the
answer are two steps: it looks at a site (`HerdLooks`, `ClaimLooks`, `RetireLooks`), and
if a herd command is to run (`chosen`) it runs later (`HerdRuns`, `ClaimRuns`,
`RetireRuns`) and succeeds, fails, or fails after it took effect; it builds the projects
of an entry (`SyncBuilds`, the result in `draft`) and renames the file into place later
(`SyncWrites`). Between the two others may use Herd. Building is one step for all
worktrees of an entry: it reads each worktree's own site and runs its own `port_command`,
so a change in the middle comes to the same as one before the first worktree or after
the last. A site file can be unreadable (`opts.blind`). `Crash` ends a command between any
two steps. `ok`, `settled` and `touched` are history: no failure or skip so far, a full
sync ended so, and the sites others changed since the look or the draft. Commands run one
at a time and `config.yaml` changes only between them.

`MCSupervisor`, `MCIdleStop` and `MCBudget` add symmetry sets for TLC; `MCDaemon`,
`MCWildcard` and `MCSync` the configurations of their instances.
`SupervisorProofs`, `IdleStopProofs`, `BudgetProofs`, `DaemonProofs`,
`ServiceProofs`, `TableProofs`, `WildcardProofs` and `SyncProofs` hold the theorems.

## What the runs check

| Run | Instance | Shows |
| --- | --- | --- |
| `supervisor` | 2 callers, 2 spawns, failures up to 2 | no orphaned group, one sender per waiter, one owner per stop, no left-over backoff or abort reason, retired stays down, refinement of `Lifecycle` |
| `supervisor_live` | 2 callers, 1 spawn | every start is answered, every stop ends |
| `idle_stop` | 2 requests, 1 held, tunnels, 2 processes | the handshake, the full idle window after a request, ownership of the gate |
| `idle_stop_live` | 1 request, momentary upgrades | brackets balance, gated requests get on, an unused project is stopped |
| `budget` | 2 projects of one entry, 2 starters, caps that a reload changes, one project that a reload removes | an admitted start stays within the caps |
| `budget_live` | 2 projects (one always_on), 2 starters, cap 1 | a capacity wait ends |
| `budget_lowered` | 4 projects, cap lowered from 3 to 1 | violated: three evictions, then neither a channel nor an error |
| `daemon` | 3 project names, an entry, 4 ports of which 2 may be taken, 1 request, 2 reloads among 3 files | routes are live, the table is served, a kept route stays, one server per port, nothing survives, an unchanged project is not touched, parked requests get on, the shutdown ends |
| `wildcard` | 2 requests, 1 label, 2 entries of which one has an always_on template, 2 registrations, 3 ports | one resolution per label and no lost wake-up, dynamic projects are served, one server per port, only always_on projects registered late outlive `stopAll` |
| `wildcard_ports` | 2 requests, 2 labels, a range of 2 ports | violated: two projects get one application port |
| `sync` | 3 worktrees, 3 configurations, 3 commands, 1 change outside | names, ports and hosts fit after every write and the configuration loads unless the template is risky, the user's sites are respected, a good sync brings Herd into step, and is idempotent |
| `sync_rename` | the same with a renamed entry, 2 commands | violated: sync removes the proxy it just found in place |

Bounds. Two spawns are what a late exit, probe or stop goroutine of an earlier
process needs to meet a later one. Two callers give a start that races a stop,
and a stop that joins a stop; failures saturate at 2 because only zero, one and
more are told apart. Two requests against both stoppers give every order of the
handshake, including a request that finds the gate of one stopper while the
other wants it; with `MaxHeld` 1 the second request meets the hold limit. Two
starters with cap 1 compete for one slot; `EvictionAttempts` is 2 in the passing
budget runs, so that the loop's last attempt is reached with two projects, and 3,
the code's value, in `budget_lowered`. `Visited` and `Removable` only bound which
projects have traffic and which a reload removes.

The files of `daemon` are chosen for the diff: a project keeps its route and
changes its port, one moves to a listener of its own and back, one takes the port
an entry leaves, one is removed, and one file is rejected; two reloads give every
order of two of them, so a reload meets what a failed one left. The ports in
`Busy` are the shared listener's and the one a project moves to. In `wildcard` two
requests are one that resolves and one that joins it or comes after it, and two
registrations are what a stale drop or restart of the first needs to meet the second.
The limit `MaxHeld` refuses nobody with two requests; `SingleFlightAlways` is proved for
any number. `Fates` chooses which entry has the worktree, the always_on one or the
other, and whether the worktree vanishes or its project is operated on, not both (see
the known gaps). The worktrees of `sync` are a plain one, one whose
name a hand-written file has, and one Herd has parked; the port ranges overlap each
other, a hand-written project and the wildcard listener, and run out. One configuration
has an always_on template and a single slot (`Moved`), one a template with a bad
`readiness_url` (`Gone`). One change outside is enough to fall between a look and its
command, or between a draft and its rename. Three
commands are a failed or killed one, one that repairs it, and one that shows the
repair is stable, or a removal among them.

Fairness. Goroutines that can run do run (weak fairness of each goroutine's
steps), timers that are armed fire, and the kernel ends a direct child that was
sent SIGKILL. Nothing is assumed about commands: they need not exit, become
ready or obey a graceful signal, and a group member may survive SIGKILL for ever
(which is why `DrainExpires` exists). In `IdleStop` a stop that has begun
finishes, which is `StopFinishes` of `Supervisor`; clients need not leave and
forwards need not end. In `Budget` the lock is granted under strong fairness (a
`sync.Mutex` has a starvation mode) and so is the deadline (`select` chooses
among ready cases at random). In `Daemon` the goroutine that holds `reloadMu`
and the requests' own goroutines run, and the process of a retired registration
ends (again `StopFinishes`); nothing is assumed of processes that are not retired,
of clients, or of the arrival of requests. `Wildcard` and `Sync` are checked for
safety: `CHECK_DEADLOCK FALSE` is set where the daemon exits or the bounded number
of commands is spent.

## What is proved

`SupervisorProofs`, for every set of callers and any bound on spawns and
failures (`SupervisorAssumption` is the only assumption):

* `SupervisorInvariant`: `Spec => []SupervisorInv`;
* `TypeCorrect`, `NeverOrphans`, `WaitersAreOwned`, `StopsAreOwned`,
  `BackoffIsFailures`, `AbortReasonsAreOwn`: its parts, which are the invariants of
  the run `supervisor`;
* `RetiredStaysDownAlways`: the action property, from the same invariant;
* `Implementation`: `Spec => Lifecycle!Spec`.

None of the invariants is inductive alone. `NoOrphan` needs to know that a
command that starts or runs is tracked and not reaped (`Tracked`), that a stop
in progress is the one `stopDone` names (`OneStopOwner`), and that a number that
is about to be spawned has no history (`Fresh`). `EveryWaiterHasOneSender` needs
that waiters exist only while starting. `SupervisorInv` is their conjunction;
the proof has one step per action and, under it, one per conjunct the action
disturbs. The refinement uses `NoOrphan` twice: a new group starts only when no
earlier one is at large, and "stopped" is declared only when nothing is.

`BudgetProofs`, for every set of starters, any finite set of projects, any caps
and any number of eviction attempts (`BudgetAssumption`):

* `BudgetInvariant`: `Spec => []BudgetInv`, and `TypeCorrect`;
* `Admission`: `Spec => AdmissionWithinCap`, the property of the run `budget`.

The property speaks of one step; the invariant says why that step is safe.
`Exclusive`: whoever is in an attempt holds `budgetMu`. `Counting`: every booked
project is counted already or still to be looked at, which survives all that
happens meanwhile because only a counted start books a slot and only the holder
of the lock makes one. `Room`: the verdict of a finished count stays true until
the start. `Looking`: a retry counts the whole table again. All steps but `Start`
leave the booked set the same or smaller; `Start` adds one project to a set that
`Room` says is below the caps. A start that skips the count is in `outside`, not
in the booked set: that is the gap `RunningWithinCap` states (below).

`IdleStopProofs`, for every set of requests, any hold limit and any number of
processes and activity outside (`IdleStopAssumption`):

* `IdleStopInvariant`: `Spec => []IdleStopInv`;
* `TypeCorrect`, `Handshake` (`NoForwardIntoStop`), `FullWindow`
  (`FullWindowAfterRequest`), `GateHasOwner` (`GateIsOwned`) and `Balanced`
  (`BracketsBalance`): all the invariants of the two runs.

The handshake has no lock, so the argument is about what each side has read. A
stopper that found a counter at zero owns the gate, and whoever was counted since
has not passed that gate; the delicate case is a request that waits at the gate
of the stopper before (`Shut`): the close it waits for is that earlier gate's and does not
let it past the present one. For the idle window, a forward that ended although the
deadline had passed is still counted until it has stamped its end (`Unstamped`), so
the monitor cannot overlook it.

`DaemonProofs`, for all files, names, ports, busy ports, requests and any number of
reloads (`DaemonAssumption`; `FilesAssumption`: the names and ports are finite in
number and are those the files speak of):

* `DaemonInvariant`: `Spec => []DaemonInv`, and `TypeCorrect`;
* `RoutesAlwaysLive`: `RoutesAreLive`, and `NothingIsLeft`: `NothingSurvives`.

`DaemonInv` has the shapes of the objects and of `job`, and: every switch and every
route belongs to one registration (`RoutesAreOwned`); a route on an open listener
leads to a registration in service or to one the running reload still owes a
replacement (`RoutesLead`, `Awaits`); the reload's diff stays true while it works
(`ReloadWork`); a registration that is not torn down is in the table or in hand of
the job (`Teardown`, `InHand`), which is why `stopAll`, going by the table, misses
none; and a listener's count is the number of its members (`Listeners`), which is
why it is closed with the last one and not before. Restored and lost registrations,
failed binds and the failed start of the daemon are all covered.

`ServiceProofs`, from the same assumptions (`FilesAssumption` says of the entries
also that they have a port):

* `ServiceInvariant`: `Spec => []ServiceInv`;
* `UnchangedStays`: `Spec => UnchangedUntouched`, the action property of the run
  `daemon`.

What a reload leaves alone could still lose its listener or its handler through what
the reload does next to it: a listener is closed with its last member or with its
entry, and a switch is suspended for whoever is behind it. `ServiceInv` excludes
each. One open socket per port, the registered one (`Sockets`); no project on the
listener of an entry (`Apart`), so closing an entry's listener takes no project with
it; every project in use on an open listener, and no two behind one switch
(`InService`); every entry on its own listener (`EntriesServe`). `Apart` is the hard
one, since `attach` joins whatever listener is registered at the address. For the
new file it follows from `WildcardPortsAreOwn`, because the entries that are left
when projects are built are entries of that file. For a registration that is
restored the file says nothing: `ReloadSoFar` carries from the beginning of the
reload that no entry has the port a changed project came from, and that entries are
bound after the last project. `Continues` says that one step leaves the diff, and
what is not in hand, where it was.

`TableProofs`, from the same assumptions, `BootAssumption` (the daemon is started on
a configuration that was loaded and validated) and the hypothesis `CanGoBack`:

* `TableInvariant`: `Spec => []TableInv`;
* `TableAlwaysServed` (`TableIsServed`), `KeptRouteAlwaysStays` (`KeptRouteStays`) and
  `PortHasOneServer` (`OneServerPerPort`): the remaining invariants of the run `daemon`.

A router has one place for each host, and `setHost` overwrites what is there. The
loader sees to it that no two projects of a file want one address or one
`application_port`, but a table is not a file: when a project's new address cannot
be bound, `Reload` puts it back on the old one. `CanGoBack` says that nobody else in
the new file has that address or that application port. Without it the three
properties are false (below). It is a hypothesis of the theorems and not an
assumption of `Daemon`; it holds whenever no other program takes a port
(`FreePortsSuffice`), and for the instance, where binds do fail and registrations
are restored, TLC evaluates it (`InstanceAssumption` of `MCDaemon`). `ClaimsInv`
says that every registration is what some accepted file says of its project, that
outside a reload no two projects of the table meet, and that inside one each name
has what the new file says or, if its new port may be taken, what it had (`Given`);
two such projects never meet (`GivenDiffer`). So `attach` never takes a route that
is in use, and `detach` never removes another's (`RoutedInv`). `Succession` follows
a kept route through the swap. `PortHasOneServer` then has to know who may have a
process: only what is in the table, or what the reload took from the table it found
(`RunsFromTable`), because builds begin after `retireAll` has seen every group gone.

`WildcardProofs`, for any labels, requests and registrations: `ResolverInvariant`
and `SingleFlightAlways` (`SingleFlight`). A request inside the resolver is nowhere
else in the daemon (`Placed`); a label has at most one resolution in flight, and
whoever waits has one in flight to wait for (`OneFlight`).

`DynamicAlwaysServed` (`DynamicIsServed`) has two hypotheses, which are those of the
run `wildcard` and exclude two known gaps (below): the configuration is not reloaded
(`Files = {}`), and no label is both one whose worktree comes and goes and one that
operators command (`FatesApart`). The daemon's start is covered: while `Run` binds,
nothing is resolved and a step is a step of `Daemon`, so the invariants of the modules
above hold (`Booting`), and when all listeners are bound they imply `DynamicInv`
(`BootedServes`), which every later step preserves until `stopAll` returns. In it,
`InTable` says of each project in the table that it stands on the open listener of its
entry, with its route or with the resolution that will add it, or that it is off the
listener and a drop has it in hand (`Stands`, `Leaves`). The resolver adds a route
after it has left `d.mu`, when its project may have been dropped or replaced already,
so `Resolved` says that whatever is registered for the label by then is behind the
same switch, and `Made` that registrations behind one switch have one name, host and
listener: a route that comes late leads to the right project. `Restarting` says what
the holder of `reloadMu` has suspended, and `DropsAreDue` that drops and restarts
never have the same project.

`StopAllAlwaysStops` (`OnlyLateStartersOutlive`) has the same two hypotheses. `DynamicInv`
goes on holding while the daemon drains, and `HaltInv` says what `stopAll` relies on.
What is in the table when `stopAll` clones it is in its hands. What is not is done
with, or was resolved since: then it is always_on (`Late`), or it has no process and
nobody is about to start it, neither its driver, nor a restart, nor a request that has
passed its handler (`Covered`), because `EnsureStartedOnDemand` refuses a daemon that
drains and `activate` leaves a project that is not always_on to its monitor. So when
every item is retired, no other project has a process (`Ended`). And whatever is left in
the table is either off its listener or on one of an entry, which `stopAll` unbinds; a
listener without an entry would need members (`Needed`, with the counts of `Counted`), and has none
(`StopAllHalts`). A start that gives up drains too, with every listener closed and no
request in the daemon (`Failed`); it stays a daemon without dynamic projects, and what
`DaemonInv` says of one that has exited covers it.

`SyncProofs`, for any configurations and worktrees, and every failure, kill and
change outside:

* `SyncInvariant`, `TypesInvariant` and `TypeCorrect`;
* `SitesAlwaysRespected` (`SitesAreRespected`) and `RetiredAlwaysUnproxied`
  (`RetiredIsUnproxied`);
* `ConfigAlwaysLoads` (`ConfigStillLoads`), given `HomesApart`: names, ports and hosts
  fit after every write, and the configuration loads, unless the template written from
  is one whose copies the loader may reject (`Risky`; known gaps);
* `WorktreesAlwaysProxied` (`WorktreesAreProxied`), given `BasesApart` as well;
* `SyncIsIdempotent` (`Idempotent`), given `BasesAreOwn` as well.

The assumptions are those of `Sync`: worktree names are not empty (the loader rejects
an empty project name), a managed file holds worktrees with ports of its entry's
ranges, as an earlier sync wrote them, and the port of the user's own proxies is none
that sync gives out. The three hypotheses are about the user's directories and
edits, and are not assumed in `Sync`:

* `HomesApart`: a worktree name is found by one entry. Otherwise two entries that
  find a new worktree of one name in one sync both register it (known gaps).
* `BasesApart`: no worktree has the site of a wildcard entry's base. Otherwise the
  two fight for one proxy.
* `BasesAreOwn`: no wildcard entry is renamed in place. The run `sync_rename` shows
  what happens otherwise.

All three hold in the instance of the run `sync`.

What a sync writes is the result of a loop over the worktrees, in which every
registration sees the ports that those before it took. `LoopIsDefined` shows that the
recursion of `Reconciled` defines a function, and properties of its result are shown
for every prefix of the worktrees, by the least prefix that lacks them: the result is
well formed (`Making`), ports in use only grow and cover what was written
(`Claiming`), nothing found is left out when nothing was skipped (`Complete`), and
over its own result the loop changes nothing (`Same`). `DraftInv` and `CompleteInv` carry
this from the step that builds to the one that writes. `SightInv` does it for what was
seen of Herd: a site that was looked at is as it was, unless others touched it, and so
are the sites of the worktrees that are new in a draft. `ConfigStillLoads` speaks of the
merged sources and the loop of one file among them, so `Flat` states what the loader
asks of every pair of projects, and `LoadInv` that the ports in use cover all sources
while a sync runs. For `WorktreesAreProxied`, an entry that is dealt with has its
proxies, or an action for each is on the list (`EntriesDone`), and no later action
takes them away again (`TasksFit`). `SettledInv` says that a settled state is a fixed
point of every step of the next sync. While `retireWildcards` is at work, each
recorded registration that must go is on its list or done with (`RetireLoop`).

Left to TLC:

* liveness, under fairness: the prover does not do it;
* `DynamicIsServed` with reloads, or with operators and vanishing worktrees on one
  label: there it is false, for the reasons under known gaps.

## Findings

* `budget_lowered` (bug): after three evictions `tryReserveLocked` returns a nil
  channel and no error; the caller waits for nothing.
* `wildcard_ports` (bug): `materialise` looks for a free port in one critical
  section and registers the project in another, so two labels resolved at the same
  time are given one port.
* `sync_rename` (bug): `retireWildcards` goes by the entry's name. When an entry is
  renamed and keeps its base domain and port, the sync that follows unproxies the
  site it has just found in place.

## Known gaps

Stated as definitions that TLC refutes on the instances above, and not among the
runs:

* `RunningWithinCap` (`Budget`): the cap can be exceeded, because a start that was
  judged to need no slot is carried out on a project that went down meanwhile
  (`budget.go:145`; the README's line 340 calls the cap a bound).
* `RetiredGroupGone` (`Supervisor`): reload takes a retired project's group to be
  gone; after an unasked exit it has only been sent SIGKILL (`supervisor.go:589`).
* `FreshProcessSpared` (`IdleStop`): the monitor stops the process that exists when
  it calls `Stop`, which may be younger than the window it saw expire
  (`monitor.go:127`).
* `DynamicRoutesAreLive` (`Wildcard`): a drop that was decided for an earlier
  registration finds its successor by name, between the successor's registration
  and its route, and the route that is then added leads to a retired handler.
* `StopAllStopsAll` (`Wildcard`): a wildcard entry's projects copy the template's
  `always_on` (the README's line 406), and `activate` starts such a project without asking
  whether the daemon drains (`daemon.go:490`). One that a resolution registers after
  `stopAll` cloned the table is started and nobody stops it, although "everything the
  deferred stopAll stops must stay stopped" (`daemon.go:260`) and stopAll stops "every
  supervised process group, dynamic projects included" (`state.go:315`).
  `OnlyLateStartersOutlive` says that nothing else is left.
* `SyncedConfigLoads` (`Sync`): `build` copies the template (`discovery.go:445`), so one
  more worktree can make one more always_on project than `max_running` admits
  (`config.go:554`), or a project with a `readiness_url` the loader rejects in projects
  (`config.go:661`) but not in templates (`config/discovery.go:468`). The sync writes it
  and the next load fails; a test says of env_file and diagnostic_logs that the file a
  sync writes "still loads as part of the whole configuration" (`discovery_test.go:280`).

Seen while modelling, excluded by the instances, and why:

* `Reload` dereferences the table's entry of a changed project that is no longer
  there (`reload.go:156`): in `Daemon` this is `run = "crashed"`, reached when a
  dynamic project of the same name vanishes in between.
* While a reload replaces an entry, its old resolver still registers projects; and
  a static project that a reload adds overwrites a dynamic one of the same name.
  `wildcard` has no reloads for this reason.
* Restoring a registration after a failed bind may meet a project the same reload
  added on the old address (`router.go:22`). `CanGoBack` excludes it, in the
  theorems of `TableProofs` and in the instance of the run `daemon`.
* A restart that waits for `reloadMu` while `stopAll` runs commissions a project
  after it (`wildcard.go:612`). `OnlyLateStartersOutlive` is therefore about the step in
  which `stopAll` returns, not about all later states.
* A drop of a vanished worktree that races the restart's port swap leaves a
  registration without a listener: fates are exclusive in `wildcard`.
* Two proxy entries with a new worktree of the same name in one sync both write it,
  and the configuration no longer loads (the README's line 794 says the second is
  skipped). Two syncs at once, which nothing prevents, can allocate one port.
* A sync acts on what it saw: a site that the user makes, or points elsewhere, after the
  look (`discovery.go:599`, `discovery.go:639`, `discovery/wildcard.go:141`, `249`) and
  before the herd command is re-pointed or removed all the same, and a worktree whose
  name was free when it was built (`discovery.go:468`) is registered by the rename
  (`discovery.go:391`) even if a PHP site has the name by then. These changes are in the
  model, and `SitesAreRespected` leaves out exactly the sites they touch.
* `sync --no-herd` registers without asking Herd, so a later sync with Herd proxies
  over a parked site of that name. `SitesAreRespected` speaks of registrations made
  with Herd.
* A pid reused between the readiness deadline's read of the group and its signal
  (`supervisor.go:667`), and a lease granted after `BeginStop` looked (`tracker.go:139`),
  which does not call the stop off: process ids are not reused in the model, and the code
  promises nothing about such a lease.
* When `base_domain` changes and the unproxy of the old one fails, its record has
  been overwritten already and no later sync retries (`wildcard.go:206`). A kill
  between the write of a managed file and the unproxy of a worktree it drops leaves
  that proxy for good, and so does a changed `url_template`. `RetiredIsUnproxied`
  therefore speaks of what is still recorded.
* When a range is exhausted, a second identical sync may still add a project, since
  the first counted the ports of those it removed. `Idempotent` speaks of syncs that
  skipped nothing.
* Two daemons that start at once race for the control socket (`daemon.go:538`).

## Not modelled, and the plan

Left out for good: formatting of pages, logs and status, header handling, the
reverse proxy and its copying, decoding of YAML and of environment files, the
control API's HTTP layer, the command line's parsing and printing, Herd's output
formats, log rotation, the checks on the control socket's directory. They are
sequential, or pure I/O.

Next, in this order:

1. `Ring`: the ring buffer as a refinement of a bounded sequence, with a proof.
2. Two sync commands at once, on the same files.
