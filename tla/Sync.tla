-------------------------------- MODULE Sync --------------------------------
(***************************************************************************)
(* `herd-wake sync` and `herd-wake project:remove`: the commands that keep *)
(* the managed projects.d files, Herd's proxy sites and sync-state.yaml in *)
(* step with the discovery entries and the worktrees on disk. A command    *)
(* changes three separate stores one write at a time, any of its Herd      *)
(* commands can fail, and it can be killed between any two of them.        *)
(*                                                                         *)
(* What a command reads and what it then does are steps of their own: it   *)
(* builds the projects of an entry and renames the file into place, it     *)
(* looks at a site and runs the herd command, and others may use Herd in   *)
(* between.  Building is one step for all worktrees of the entry, since    *)
(* each is read about once and apart from the others, its own site and its *)
(* own port_command: a change made meanwhile might as well have been made  *)
(* before the first worktree, or after the last.                           *)
(*                                                                         *)
(* Every public URL is a Herd site here, named by the sequence of its      *)
(* labels: a URL that is not one is treated like `herd: false`. The notes  *)
(* for users without Herd (ProxyNotes) and the reload that follows a       *)
(* command (module Daemon) are left out.                                   *)
(***************************************************************************)
EXTENDS Config, SequencesExt

CONSTANTS
  Confs,      \* the config.yaml contents the user switches between
  Boot,       \* the one in place first
  Hand,       \* the projects.d files found first, [managed, projects] by name
  Trees,      \* the names of worktrees, sorted (a sequence)
  Parked,     \* the sites of directories in parked paths, and linked sites
  Settings,   \* the circumstances of a sync: Herd is used, dry run, Herd can
              \* list, the sites whose file cannot be read
  Printed,    \* what port_command may print, 0 standing for its failure
  Foreign,    \* the port of a proxy the user made
  MaxRuns,    \* bound on the number of commands
  MaxEdits    \* bound on the changes made outside

Main == "main"  \* the Source of a project of config.yaml
Free == ""
Names == Range(Trees)

\* The discovery entries of any configuration, and whether one of them makes
\* sync allocate the supervisor_port p to a worktree in file f.
AllEntries == UNION {Range(c.entries) : c \in Confs}
Allocated(f, p) ==
  \E e \in AllEntries : e.name = f /\ e.sups # << >> /\ p \in e.sups[1]..e.sups[2]

\* Worktrees have the names of projects: not empty, and without a colon.
ASSUME TreesAssumption ==
  Trees \in Seq(Names) /\ Names \cap {Free, "discovery:"} = {}

\* A proxy entry that has no file yet has an empty managed one. No project has
\* an empty name, and a file has finitely many.
ASSUME ConfsAssumption ==
  /\ Boot \in Confs
  /\ \A c \in Confs :
       /\ c.entries \in Seq(Range(c.entries)) /\ c.max \in Nat
       /\ Free \notin DOMAIN c.projects /\ IsFiniteSet(DOMAIN c.projects)
  /\ \A e \in AllEntries : ~IsWildcard(e) => e.name \in DOMAIN Hand

\* The projects in the files found first have ports, and a managed one holds
\* what an earlier sync wrote to it.
ASSUME HandAssumption ==
  /\ Main \notin DOMAIN Hand /\ IsFiniteSet(DOMAIN Hand)
  /\ Hand \in [DOMAIN Hand -> Range(Hand)]
  /\ \A f \in DOMAIN Hand :
       LET ps == Hand[f].projects
       IN /\ Hand[f] \in [managed : BOOLEAN, projects : {ps}]
          /\ IsFiniteSet(DOMAIN ps) /\ ps \in [DOMAIN ps -> Range(ps)]
          /\ \A n \in DOMAIN ps :
               /\ n # Free /\ PortsAreValid(ps[n])
               /\ Hand[f].managed =>
                    n \in Names /\ ps[n].host = NoHost /\ Allocated(f, ps[n].sup)

\* parsePort; what the user's own proxy leads to is not of this program.
ASSUME PortsAssumption ==
  /\ Printed \subseteq 0..MaxPort
  /\ Foreign \in 1..MaxPort
  /\ \A e \in AllEntries : Foreign # e.sup /\ ~Allocated(e.name, Foreign)
  /\ \A f \in DOMAIN Hand : \A n \in DOMAIN Hand[f].projects : Hand[f].projects[n].sup # Foreign

VARIABLES
  conf,      \* config.yaml
  trees,     \* the worktrees that scan accepts, for every file
  prints,    \* what port_command prints in each worktree
  files,     \* projects.d
  sites,     \* Herd's site files: 0 for one that is no proxy, else its port
  records,   \* sync-state.yaml: wildcard entries to [base, sup]
  pc, opts,  \* the command at work and its circumstances
  cfg,       \* the configuration it loaded: entries, and the source of each name
  used,      \* ports to the project that claims them, "" when free
  todo,      \* entries still to reconcile
  draft,     \* << >>, or the projects built for the first of them
  tasks,     \* Herd actions of the current entry still to take
  chosen,    \* the site was looked at: a herd command is to run
  touched,   \* history: sites others changed since that look, or since the
             \* draft was made
  mem,       \* syncer.state.Wildcards
  ok,        \* history: nothing failed, was skipped or changed outside so far
  settled,   \* history: a sync with Herd ended ok and nothing happened since
  runs, edits

disk == <<files, records>>
outside == <<conf, trees, prints, edits>>
command == <<pc, opts, cfg, used, todo, draft, tasks, chosen, mem>>
vars == <<disk, sites, outside, command, touched, ok, settled, runs>>

Site(name) == <<name>>
None == [herd |-> FALSE, dry |-> FALSE, listed |-> FALSE, blind |-> {}]

\* ProxyTarget: the site file exists; it proxies to the port p.
Exists(site) == site \in DOMAIN sites
ProxiesTo(site, p) == Exists(site) /\ sites[site] = p
NotProxy(site) == ProxiesTo(site, 0)

With(f, x, v) == [y \in DOMAIN f \cup {x} |-> IF y = x THEN v ELSE f[y]]
Without(f, x) == [y \in DOMAIN f \ {x} |-> f[y]]

Sources == With([f \in DOMAIN files |-> files[f].projects], Main, conf.projects)

\* What the next command, or the next reload, finds on disk loads.
ConfigLoads == Loads(Sources, conf.entries, conf.max, {}, TRUE)

SourceOf(n) == CHOOSE f \in DOMAIN Sources : n \in DOMAIN Sources[f]

Init ==
  /\ conf = Boot
  /\ trees \in {[f \in DOMAIN Hand |-> N] : N \in SUBSET Names}
  /\ prints \in [Names -> Printed]
  /\ files = Hand
  /\ sites = << >> /\ records = << >>
  /\ pc = "idle" /\ opts = None
  /\ cfg = << >> /\ used = << >> /\ todo = << >> /\ draft = << >> /\ tasks = << >>
  /\ chosen = FALSE /\ touched = {} /\ mem = << >>
  /\ ok = TRUE /\ settled = FALSE
  /\ runs = 0 /\ edits = 0

-----------------------------------------------------------------------------
(* One candidate at a time: build and what it calls.                       *)

\* Mutant: a port of a project's server is not in the way.
UsedByListeners(ps, es) ==
  [p \in 1..MaxPort |->
     IF \E i \in DOMAIN es : IsWildcard(es[i]) /\ es[i].sup = p THEN "discovery:"
     ELSE IF \E n \in DOMAIN ps : p = ps[n].sup
     THEN CHOOSE n \in DOMAIN ps : p = ps[n].sup
     ELSE Free]

\* The ports claimed by the loaded configuration.
Used(ps, es) ==
  [p \in 1..MaxPort |->
     IF \E i \in DOMAIN es : IsWildcard(es[i]) /\ es[i].sup = p THEN "discovery:"
     ELSE IF \E n \in DOMAIN ps : p \in {ps[n].sup, ps[n].app}
     THEN CHOOSE n \in DOMAIN ps : p \in {ps[n].sup, ps[n].app}
     ELSE Free]

\* Mutant: an exhausted range is not noticed.
AllocateBlindly(u, range) ==
  LET free == {p \in range[1]..range[2] : u[p] = Free}
  IN IF free = {} THEN range[2] + 1 ELSE CHOOSE p \in free : \A q \in free : p <= q

\* allocate: the lowest free port of a range, 0 when there is none.
Allocate(u, range) ==
  LET free == {p \in range[1]..range[2] : u[p] = Free}
  IN IF free = {} THEN 0 ELSE CHOOSE p \in free : \A q \in free : p <= q

\* CLI.Conflict: parked or linked, or the listings could not be had.
Conflict(site) == ~opts.listed \/ site \in Parked

\* herdConflict: also when the site's file cannot be read
HerdConflict(site) == Conflict(site) \/ site \in opts.blind \/ NotProxy(site)

\* Mutant: a registered worktree is allocated a port like a new one.
BuildAnew(e, existing, acc, c) ==
  LET sup == Allocate(acc.used, e.sups)
      held == [acc.used EXCEPT ![sup] = c]
      app == IF e.cmd THEN prints[c] ELSE Allocate(held, e.apps)
      skip == [acc EXCEPT !.ok = FALSE]
  IN CASE c \in DOMAIN cfg.source /\ cfg.source[c] # e.name -> skip
       [] opts.herd /\ HerdConflict(Site(c)) -> skip
       [] 0 \in {sup, app} \/ held[app] # Free -> skip
       [] OTHER -> [acc EXCEPT !.used = [held EXCEPT ![app] = c],
                               !.final = With(@, c, [sup |-> sup, app |-> app, host |-> NoHost,
                                 dir |-> c, always |-> e.always, rest |-> e.rest])]

\* build and the body of syncEntry's loop, for candidate c of entry e.
\* acc.final is the file being made, acc.ok stays while nothing is skipped.
Build(e, existing, acc, c) ==
  LET known == c \in DOMAIN existing
      skip == [acc EXCEPT !.ok = FALSE]
      keep == IF known THEN [skip EXCEPT !.final = With(@, c, existing[c])] ELSE skip
      sup == IF known THEN existing[c].sup ELSE Allocate(acc.used, e.sups)
      held == IF known THEN acc.used ELSE [acc.used EXCEPT ![sup] = c]
      app == IF e.cmd THEN prints[c]
             ELSE IF known THEN existing[c].app ELSE Allocate(held, e.apps)
      project == [sup |-> sup, app |-> app, host |-> NoHost, dir |-> c,
                  always |-> e.always, rest |-> e.rest]
  IN IF \/ c \in DOMAIN cfg.source /\ cfg.source[c] # e.name
        \/ ~known /\ opts.herd /\ HerdConflict(Site(c))
        \/ sup = 0
     THEN skip
     ELSE IF e.cmd /\ (app = 0 \/ held[app] \notin {Free, c} \/ app = sup) THEN keep
     ELSE IF app = 0 THEN skip
     ELSE [acc EXCEPT !.used = [held EXCEPT ![app] = c], !.final = With(@, c, project)]

-----------------------------------------------------------------------------
(* Herd actions.                                                           *)

Task(kind, name, site, port) == [kind |-> kind, name |-> name, site |-> site, port |-> port]

\* Mutant: only a project that is new to the file needs a proxy.
HerdActionsForNew(e, final, existing) ==
  IF e.herd = "off" \/ ~opts.herd THEN << >>
  ELSE LET new == SetToSeq(DOMAIN final \ DOMAIN existing)
           gone == SetToSeq(DOMAIN existing \ DOMAIN final)
       IN [i \in DOMAIN new |-> Task("proxy", new[i], Site(new[i]), final[new[i]].sup)]
          \o [i \in DOMAIN gone |-> Task("unproxy", gone[i], Site(gone[i]), existing[gone[i]].sup)]

\* herdActions: every project of the file gets its proxy, then those that left
\* it lose theirs. Without Herd the commands are only printed. Each name has a
\* site of its own, so the order within either half makes no difference.
HerdActions(e, final, existing) ==
  IF e.herd = "off" \/ ~opts.herd THEN << >>
  ELSE LET kept == SetToSeq(DOMAIN final)
           gone == SetToSeq(DOMAIN existing \ DOMAIN final)
       IN [i \in DOMAIN kept |-> Task("proxy", kept[i], Site(kept[i]), final[kept[i]].sup)]
          \o [i \in DOMAIN gone |-> Task("unproxy", gone[i], Site(gone[i]), existing[gone[i]].sup)]

\* runHerd: a dry run runs nothing; a command that fails or times out may have
\* taken effect.
HerdDone(result) == sites' = (IF opts.dry THEN sites ELSE result) /\ UNCHANGED ok

HerdFails(result) == ~opts.dry /\ sites' \in {sites, result} /\ ok' = FALSE

RunHerd(result) == HerdDone(result) \/ HerdFails(result)

\* What comes of looking at a site that is to be a proxy to the port: it is one,
\* it must be left alone, or a command makes or re-points it.
ProxyVerdict(site, port) ==
  CASE site \in opts.blind -> "manual"
    [] ProxiesTo(site, port) -> "skipped"
    [] NotProxy(site) -> "manual"
    [] OTHER -> "run"

\* Mutant: the site is not looked at.
UnproxyUnseen(site, port) == "run"

\* unproxyAction: a proxy that leads elsewhere is left alone.
UnproxyVerdict(site, port) ==
  CASE site \in opts.blind -> "manual"
    [] ProxiesTo(site, port) -> "run"
    [] OTHER -> "skipped"

Verdict(t) == IF t.kind = "proxy" THEN ProxyVerdict(t.site, t.port) ELSE UnproxyVerdict(t.site, t.port)
Outcome(t) == IF t.kind = "proxy" THEN With(sites, t.site, t.port) ELSE Without(sites, t.site)

Looked(verdict) == chosen' = (verdict = "run") /\ ok' = (ok /\ verdict # "manual")
Ran == chosen' = FALSE /\ touched' = {}

\* ProxyTarget for the next action, which is over unless a command is to run
HerdLooks ==
  /\ pc \in {"sync", "remove"} /\ tasks # << >> /\ ~chosen
  /\ LET v == Verdict(Head(tasks))
     IN Looked(v) /\ tasks' = IF v = "run" THEN tasks ELSE Tail(tasks)
  /\ UNCHANGED <<disk, sites, outside, pc, opts, cfg, used, todo, draft, mem, touched, settled, runs>>

HerdRuns ==
  /\ pc \in {"sync", "remove"} /\ tasks # << >> /\ chosen
  /\ RunHerd(Outcome(Head(tasks)))
  /\ tasks' = Tail(tasks) /\ Ran
  /\ UNCHANGED <<disk, outside, pc, opts, cfg, used, todo, draft, mem, settled, runs>>

-----------------------------------------------------------------------------
(* sync                                                                    *)

\* runSync up to the loop over the entries. Without a valid configuration, or
\* without an entry, the command ends at once.
SyncBegins ==
  /\ pc = "idle" /\ runs < MaxRuns
  /\ ConfigLoads /\ conf.entries # << >>
  /\ opts' \in Settings
  /\ pc' = "sync"
  /\ LET ps == Merge(Sources)
     IN /\ cfg' = [entries |-> conf.entries, source |-> [n \in DOMAIN ps |-> SourceOf(n)]]
        /\ used' = Used(ps, conf.entries)
  /\ todo' = conf.entries /\ mem' = records
  /\ ok' = TRUE /\ runs' = runs + 1
  /\ UNCHANGED <<disk, sites, outside, draft, tasks, chosen, touched, settled>>

AtEntry(e) == pc = "sync" /\ tasks = << >> /\ todo # << >> /\ e = Head(todo)

Written(f, final) == [files EXCEPT ![f] = [managed |-> TRUE, projects |-> final]]

\* The loop of syncEntry over the candidates that scan returned, sorted.
Reconciled(e, existing) ==
  LET after[i \in 0..Len(Trees)] ==
        IF i = 0 THEN [used |-> used, final |-> << >>, ok |-> ok]
        ELSE IF Trees[i] \notin trees[e.name] THEN after[i - 1]
        ELSE Build(e, existing, after[i - 1], Trees[i])
  IN after[Len(Trees)]

\* syncEntry up to the write: every candidate is built. A file that is not
\* managed, and a file or directory that cannot be read, end the entry.
SyncBuilds(e) ==
  /\ AtEntry(e) /\ ~IsWildcard(e) /\ draft = << >>
  /\ \/ /\ files[e.name].managed
        /\ LET done == Reconciled(e, files[e.name].projects)
           IN draft' = <<done.final>> /\ used' = done.used /\ ok' = done.ok
        /\ UNCHANGED todo
     \/ ok' = FALSE /\ todo' = Tail(todo) /\ UNCHANGED <<draft, used>>
  /\ UNCHANGED <<disk, sites, outside, pc, opts, cfg, tasks, chosen, mem, touched, settled, runs>>

\* The rest of it: the file is renamed into place, which may fail, and the Herd
\* actions follow.
SyncWrites(e) ==
  /\ AtEntry(e) /\ draft # << >>
  /\ LET final == draft[1]
     IN \/ /\ files' = IF opts.dry THEN files ELSE Written(e.name, final)
           /\ tasks' = HerdActions(e, final, files[e.name].projects)
           /\ UNCHANGED ok
        \/ /\ ~opts.dry /\ files # Written(e.name, final)
           /\ ok' = FALSE /\ UNCHANGED <<files, tasks>>
  /\ draft' = << >> /\ todo' = Tail(todo) /\ Ran
  /\ UNCHANGED <<records, sites, outside, pc, opts, cfg, used, mem, settled, runs>>

Recorded(e) == With(mem, e.name, [base |-> e.base, sup |-> e.sup])

\* The Herd part of syncWildcard: a base name that is not ours is refused.
ClaimVerdict(e) ==
  CASE e.herd = "off" \/ ~opts.herd -> "off"
    [] opts.herd /\ e.herd # "off" /\ ~Exists(e.base) /\ Conflict(e.base) -> "manual"
    [] OTHER -> ProxyVerdict(e.base, e.sup)

\* syncWildcard looks at its site; a proxy that is in place is recorded.
ClaimLooks(e) ==
  /\ AtEntry(e) /\ IsWildcard(e) /\ ~chosen
  /\ LET v == ClaimVerdict(e)
     IN /\ Looked(v)
        /\ todo' = IF v = "run" THEN todo ELSE Tail(todo)
        /\ mem' = IF v = "skipped" THEN Recorded(e) ELSE mem
  /\ UNCHANGED <<disk, sites, outside, pc, opts, cfg, used, draft, tasks, touched, settled, runs>>

\* It makes or re-points the proxy, and records one that was made.
ClaimRuns(e) ==
  /\ AtEntry(e) /\ IsWildcard(e) /\ chosen
  /\ LET made == With(sites, e.base, e.sup)
     IN \/ HerdDone(made) /\ mem' = Recorded(e)
        \/ HerdFails(made) /\ UNCHANGED mem
  /\ todo' = Tail(todo) /\ Ran
  /\ UNCHANGED <<disk, outside, pc, opts, cfg, used, draft, tasks, settled, runs>>

\* Mutant: the registrations are looked up after the entries recorded theirs.
RetirableLate ==
  {n \in DOMAIN mem : ~ \E i \in DOMAIN cfg.entries :
      IsWildcard(cfg.entries[i]) /\ cfg.entries[i].name = n /\ cfg.entries[i].base = mem[n].base}

\* retireWildcards: the registrations recorded before this sync (which writes
\* its own only at the end) whose entry is gone or has another base_domain.
Retirable ==
  {n \in DOMAIN records : ~ \E i \in DOMAIN cfg.entries :
      /\ IsWildcard(cfg.entries[i]) /\ cfg.entries[i].name = n
      /\ cfg.entries[i].base = records[n].base}

RetireBegins ==
  /\ pc = "sync" /\ tasks = << >> /\ todo = << >>
  /\ pc' = "retire"
  /\ tasks' = LET ns == SetToSeq(Retirable)
              IN [i \in DOMAIN ns |->
                    Task("unproxy", ns[i], records[ns[i]].base, records[ns[i]].sup)]
  /\ UNCHANGED <<disk, sites, outside, opts, cfg, used, todo, draft, chosen, mem>>
  /\ UNCHANGED <<touched, ok, settled, runs>>

\* One registration retired. It stays recorded unless its proxy is gone, and
\* what syncWildcard recorded under the same name stays.
Forgotten(n) == IF n \in DOMAIN mem /\ mem[n] = records[n] THEN Without(mem, n) ELSE mem

RetireLooks ==
  /\ pc = "retire" /\ tasks # << >> /\ ~chosen
  /\ LET t == Head(tasks)
         v == IF opts.herd THEN UnproxyVerdict(t.site, t.port) ELSE "manual"
     IN /\ Looked(v)
        /\ tasks' = IF v = "run" THEN tasks ELSE Tail(tasks)
        /\ mem' = IF v = "skipped" THEN Forgotten(t.name) ELSE mem
  /\ UNCHANGED <<disk, sites, outside, pc, opts, cfg, used, todo, draft, touched, settled, runs>>

RetireRuns ==
  /\ pc = "retire" /\ tasks # << >> /\ chosen
  /\ LET t == Head(tasks)
     IN \/ /\ HerdDone(Without(sites, t.site))
           /\ mem' = IF opts.dry THEN mem ELSE Forgotten(t.name)
        \/ HerdFails(Without(sites, t.site)) /\ UNCHANGED mem
  /\ tasks' = Tail(tasks) /\ Ran
  /\ UNCHANGED <<disk, outside, pc, opts, cfg, used, todo, draft, settled, runs>>

CommandOver ==
  /\ pc' = "idle" /\ opts' = None /\ cfg' = << >> /\ used' = << >>
  /\ todo' = << >> /\ draft' = << >> /\ tasks' = << >> /\ mem' = << >> /\ Ran

\* saveState; a dry run leaves the file alone, and writing it can fail.
SyncEnds ==
  /\ pc = "retire" /\ tasks = << >>
  /\ \/ records' = IF opts.dry THEN records ELSE mem
     \/ ~opts.dry /\ UNCHANGED records
  /\ settled' = (settled \/ (ok /\ opts.herd /\ ~opts.dry /\ records' = mem))
  /\ CommandOver
  /\ UNCHANGED <<files, sites, outside, ok, runs>>

-----------------------------------------------------------------------------
(* project:remove                                                          *)

\* Remove: only from a projects.d file, which keeps its header.
RemoveBegins ==
  /\ pc = "idle" /\ runs < MaxRuns /\ ConfigLoads
  /\ \E f \in DOMAIN files, unproxy \in BOOLEAN : \E n \in DOMAIN files[f].projects :
       /\ files' = [files EXCEPT ![f].projects = Without(@, n)]
       /\ tasks' = IF unproxy
                   THEN <<Task("unproxy", n, Site(n), files[f].projects[n].sup)>> ELSE << >>
  /\ pc' = "remove"
  /\ ok' = TRUE /\ settled' = FALSE /\ runs' = runs + 1
  /\ UNCHANGED <<records, sites, outside, opts, cfg, used, todo, draft, chosen, mem, touched>>

RemoveEnds ==
  /\ pc = "remove" /\ tasks = << >>
  /\ CommandOver
  /\ UNCHANGED <<disk, sites, outside, ok, settled, runs>>

\* A command is killed, or the machine goes down.
Crash ==
  /\ pc # "idle"
  /\ CommandOver
  /\ UNCHANGED <<disk, sites, outside, ok, settled, runs>>

-----------------------------------------------------------------------------
(* The world outside: worktrees come and go, port_command prints something *)
(* else, the user edits config.yaml between commands and uses Herd.        *)

Edits == edits < MaxEdits /\ edits' = edits + 1 /\ ok' = FALSE /\ settled' = FALSE

TreesChange ==
  /\ Edits
  /\ \/ /\ \E f \in DOMAIN trees, N \in SUBSET Names : trees' = [trees EXCEPT ![f] = N]
        /\ UNCHANGED prints
     \/ /\ \E n \in Names, p \in Printed : prints' = [prints EXCEPT ![n] = p]
        /\ UNCHANGED trees
  /\ UNCHANGED <<disk, sites, conf, command, touched, runs>>

ConfigEdited ==
  /\ Edits /\ pc = "idle"
  /\ conf' \in Confs
  /\ UNCHANGED <<disk, sites, trees, prints, command, touched, runs>>

HerdUsed ==
  /\ Edits
  /\ \E site \in {Site(n) : n \in Names} \cup {e.base : e \in AllEntries} :
       /\ sites' \in {Without(sites, site), With(sites, site, 0), With(sites, site, Foreign)}
       /\ touched' = IF chosen \/ draft # << >> THEN touched \cup {site} ELSE touched
  /\ UNCHANGED <<disk, conf, trees, prints, command, runs>>

Next ==
  \/ SyncBegins
  \/ \E e \in Range(todo) : SyncBuilds(e) \/ SyncWrites(e) \/ ClaimLooks(e) \/ ClaimRuns(e)
  \/ HerdLooks \/ HerdRuns \/ RetireBegins \/ RetireLooks \/ RetireRuns \/ SyncEnds
  \/ RemoveBegins \/ RemoveEnds
  \/ Crash
  \/ TreesChange \/ ConfigEdited \/ HerdUsed

Spec == Init /\ [][Next]_vars

-----------------------------------------------------------------------------
(* Properties                                                              *)

\* Every registered project has ports, a supervisor_port that sync allocated is
\* from a range of its entry, and the rest has its type.
TypeOK ==
  /\ conf \in Confs
  /\ \A f \in DOMAIN files : \A n \in DOMAIN files[f].projects :
       /\ PortsAreValid(files[f].projects[n])
       /\ files[f].managed => Allocated(f, files[f].projects[n].sup)
  /\ \A h \in DOMAIN sites : sites[h] \in 0..MaxPort
  /\ \A n \in DOMAIN records : ValidPort(records[n].sup)
  /\ pc \in {"idle", "sync", "retire", "remove"}
  /\ \A i \in DOMAIN draft : \A n \in DOMAIN draft[i] : PortsAreValid(draft[i][n])
  /\ \A i \in DOMAIN tasks : tasks[i].kind \in {"proxy", "unproxy"} /\ ValidPort(tasks[i].port)
  /\ {chosen, ok, settled} \subseteq BOOLEAN

\* What loading asks of names, ports and hosts across all files
ClaimsFit ==
  LET ps == Merge(Sources)
  IN /\ DefinedOnce(Sources)
     /\ \A n \in DOMAIN ps : PortsAreValid(ps[n])
     /\ ClaimsAreUnique(ps)
     /\ EntriesAreValid(conf.entries)
     /\ WildcardPortsAreOwn(ps, conf.entries)

\* A template whose copies the loader may reject although it takes the entry
Risky(e) == ~IsWildcard(e) /\ (e.rest = "url" \/ (e.always /\ conf.max > 0))

\* What sync and project:remove write the next command and the daemon can load:
\* whatever ports port_command prints and however little of the ranges is left,
\* a write never makes an application_port, a supervisor_port or a name clash
\* with any other in config.yaml, another projects.d file or a wildcard
\* listener; and the configuration loads unless the entry's template is risky.
ConfigStillLoads ==
  [][files' # files /\ ConfigLoads =>
       /\ ClaimsFit'
       /\ ConfigLoads' \/ \E e \in Range(conf.entries) :
            Risky(e) /\ files'[e.name] # files[e.name]]_vars

\* The same for every template: "the managed file it writes still loads as part
\* of the whole configuration" (discovery_test.go, of env_file and
\* diagnostic_logs; here of whatever a template may say).
SyncedConfigLoads ==
  [][files' # files /\ ConfigLoads => ConfigLoads']_vars

\* The collision safeguard and its counterpart on removal: a command never
\* changes a site that is not a proxy, never registers a name while Herd knows
\* it as a PHP site, and never takes away a proxy the user pointed elsewhere,
\* unless the site became one after the command had looked at it.
SitesAreRespected ==
  [][edits' = edits =>
       /\ \A h \in DOMAIN sites \ touched : sites[h] = 0 => h \in DOMAIN sites' /\ sites'[h] = 0
       /\ \A h \in DOMAIN sites \ (DOMAIN sites' \cup touched) : sites[h] # Foreign
       /\ opts.herd => \A f \in DOMAIN files :
            \A n \in DOMAIN files'[f].projects \ DOMAIN files[f].projects :
              Site(n) \notin Parked /\ (NotProxy(Site(n)) => Site(n) \in touched)]_vars

\* A sync with Herd got to its end and nothing failed, was skipped or was
\* changed by others on the way.
AtGoodEnd == pc = "retire" /\ tasks = << >> /\ ok /\ opts.herd /\ ~opts.dry

\* Then every registered worktree is proxied to its port, also when the sync
\* that registered it was killed, failed or ran without Herd: the Herd actions
\* cover the whole file and not just what changed in it.
WorktreesAreProxied ==
  AtGoodEnd => \A i \in DOMAIN cfg.entries :
    LET e == cfg.entries[i]
    IN ~IsWildcard(e) /\ e.herd # "off" =>
         \A n \in DOMAIN files[e.name].projects :
           ProxiesTo(Site(n), files[e.name].projects[n].sup)

\* Then every registration of an entry that was removed, or moved to another
\* base_domain, is unproxied and no longer recorded.
RetiredIsUnproxied ==
  AtGoodEnd => \A n \in DOMAIN records :
    (\A i \in DOMAIN cfg.entries :
        cfg.entries[i].name = n /\ IsWildcard(cfg.entries[i]) =>
          cfg.entries[i].base # records[n].base) =>
      /\ ~ProxiesTo(records[n].base, records[n].sup)
      /\ n \in DOMAIN mem => mem[n] # records[n]

\* Then every wildcard entry has its proxy ("sync does exactly one thing for
\* Herd: ensure [it] exists").
EntriesAreProxied ==
  AtGoodEnd => \A i \in DOMAIN cfg.entries :
    IsWildcard(cfg.entries[i]) /\ cfg.entries[i].herd # "off" =>
      ProxiesTo(cfg.entries[i].base, cfg.entries[i].sup)

\* Syncing is idempotent: after a sync that reached its end like that, another
\* one (dry or not, with Herd or without, killed or not) changes nothing.
Idempotent ==
  [][settled /\ settled' => UNCHANGED <<files, sites, records>>]_vars
=============================================================================
