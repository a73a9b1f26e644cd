------------------------------- MODULE Config -------------------------------
(***************************************************************************)
(* The configuration as the loader accepts it: what LoadWithOptions merges *)
(* from the main file and the projects.d files, and the rules of validate. *)
(* Pure operators; the daemon and the sync command are built on them.      *)
(*                                                                         *)
(* A project is a record                                                   *)
(*   sup, app   supervisor_port and application_port, 0 when unset         *)
(*   host       a pair <<label, domain>>, NoHost when unset                *)
(*   dir        working_directory                                          *)
(*   always     always_on                                                  *)
(*   rest       every other field: "url" when the readiness_url of the     *)
(*              project would be rejected, "bad" when another one is       *)
(* and a discovery entry a record                                          *)
(*   name, mode, base, dir, cmd (port_command is set), max (max_running),  *)
(*   sup (a wildcard entry's listener), sups and apps (the port ranges,    *)
(*   <<low, high>> or << >>), herd ("on", "off" or "unset"), and of its    *)
(*   template always and rest, which every generated project copies.       *)
(* listen_host is the same everywhere, so a listener is its port.          *)
(***************************************************************************)
EXTENDS Naturals, Sequences, FiniteSets

CONSTANT MaxPort  \* 65535 in the code

ASSUME PortAssumption == MaxPort \in Nat \ {0}

NoHost == << >>

\* isValidPort
ValidPort(p) == p \in 1..MaxPort

PortsAreValid(p) == ValidPort(p.sup) /\ ValidPort(p.app) /\ p.sup # p.app

\* Project.validate. Only the tools that repair a configuration accept a
\* project whose directory is gone (skipDirs).
ProjectIsValid(p, dirs, skipDirs) ==
    /\ PortsAreValid(p)
    /\ skipDirs \/ p.dir \in dirs
    /\ p.rest \notin {"bad", "url"}

\* The claims of ports and hosts in Config.validate: an application_port is
\* exclusive, a supervisor_port may be shared by projects that all set host,
\* and a host is used once.
ClaimsAreUnique(ps) ==
    \A m, n \in DOMAIN ps : m # n =>
        /\ ps[m].app \notin {ps[n].app, ps[n].sup}
        /\ ps[m].sup = ps[n].sup => NoHost \notin {ps[m].host, ps[n].host}
        /\ ps[m].host = ps[n].host => ps[m].host = NoHost

\* validateBudget: always_on projects hold their slots for good.
BudgetIsValid(ps, max) ==
    max > 0 => Cardinality({n \in DOMAIN ps : ps[n].always}) <= max

\* validateRange
RangeIsValid(r, required) ==
    IF r = << >> THEN ~required
    ELSE Len(r) = 2 /\ ValidPort(r[1]) /\ ValidPort(r[2]) /\ r[1] <= r[2]

IsWildcard(e) == e.mode = "wildcard"

\* Discovery.validate: of the template's fields it rejects those of a project,
\* except readiness_url.
EntryIsValid(e) ==
    /\ e.mode \in {"proxy", "wildcard"}
    /\ IF IsWildcard(e)
       THEN e.base # NoHost /\ e.sups = << >> /\ ValidPort(e.sup)
       ELSE e.base = NoHost /\ e.max = 0 /\ RangeIsValid(e.sups, TRUE) /\ e.sup = 0
    /\ RangeIsValid(e.apps, ~e.cmd)
    /\ e.rest # "bad"

\* validateDiscovery
EntriesAreValid(es) ==
    /\ \A i, j \in DOMAIN es : i # j => es[i].name # es[j].name
    /\ \A i \in DOMAIN es : EntryIsValid(es[i])

\* The last loop of Config.validate: a wildcard listener is nobody else's.
WildcardPortsAreOwn(ps, es) ==
    \A i \in DOMAIN es : IsWildcard(es[i]) =>
        /\ \A n \in DOMAIN ps : es[i].sup \notin {ps[n].sup, ps[n].app}
        /\ \A j \in DOMAIN es : j # i /\ IsWildcard(es[j]) => es[j].sup # es[i].sup

\* Config.validate
IsValid(ps, es, max, dirs, skipDirs) ==
    /\ \A n \in DOMAIN ps : ProjectIsValid(ps[n], dirs, skipDirs)
    /\ ClaimsAreUnique(ps)
    /\ BudgetIsValid(ps, max)
    /\ EntriesAreValid(es)
    /\ WildcardPortsAreOwn(ps, es)

\* LoadWithOptions: `sources` maps the main file and every projects.d file to
\* its projects. A name may be defined once.
DefinedOnce(sources) ==
    \A s, t \in DOMAIN sources : s # t => DOMAIN sources[s] \cap DOMAIN sources[t] = {}

Merge(sources) ==
    [n \in UNION {DOMAIN sources[s] : s \in DOMAIN sources} |->
        sources[CHOOSE s \in DOMAIN sources : n \in DOMAIN sources[s]][n]]

Loads(sources, es, max, dirs, skipDirs) ==
    DefinedOnce(sources) /\ IsValid(Merge(sources), es, max, dirs, skipDirs)

\* Project.Equivalent: the records leave Source out already.
EquivalentProject(p, q) == p = q

\* Mutant: a changed cap is a change.
EquivalentWithCap(d, o) == d = o

\* Discovery.Equivalent: max_running is applied in place and never a change.
EquivalentEntry(d, o) == [d EXCEPT !.max = 0] = [o EXCEPT !.max = 0]

\* Discovery.Host and Discovery.Label
HostOf(e, label) == <<label, e.base>>
HasLabel(e, host) == host # NoHost /\ host[2] = e.base

\* Discovery.Project: the project a wildcard entry serves for a worktree, its
\* template with the ports, the host and the directory filled in.
DynamicProject(e, label, port) ==
    [sup |-> e.sup, app |-> port, host |-> HostOf(e, label), dir |-> label,
     always |-> e.always, rest |-> e.rest]
=============================================================================
