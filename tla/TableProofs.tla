----------------------------- MODULE TableProofs ----------------------------
(***************************************************************************)
(* Between reloads every project in the table is served (TableIsServed), a *)
(* route that a reload keeps stays (KeptRouteStays), and two registrations *)
(* never have processes on one port (OneServerPerPort).                    *)
(*                                                                         *)
(* The router has one place for each host, and the loader sees to it that  *)
(* no two projects of a file want the same.  But a reload that cannot bind *)
(* a project's new address puts the project back on the old one, which the *)
(* new file may have given to another.  CanGoBack excludes exactly that;   *)
(* it holds when no port is taken by another program, and when no project  *)
(* moves to the address of another.                                        *)
(***************************************************************************)
EXTENDS ServiceProofs

-----------------------------------------------------------------------------
(* The invariants *)

\* No two projects of a table meet.
Differ(t) ==
  \A m, n \in Names : m # n /\ t[m] # 0 /\ t[n] # 0 => ~Meet(reg[t[m]].cfg, reg[t[n]].cfg)

\* Every registration is what some accepted file says of its project.
FromFile(r) ==
  \E f \in Files \cup {Boot} :
    Accepted(f) /\ reg[r].name \in DOMAIN f.projects /\ reg[r].cfg = f.projects[reg[r].name]

\* What a reload may make of project n: what the new file says, or, when the
\* new port may be taken, what it was.
Given(n, c) ==
  \/ c = job.cfg.projects[n]
  \/ /\ Old(n) # 0 /\ c = reg[Old(n)].cfg
     /\ ~SameRoute(c, job.cfg.projects[n]) /\ job.cfg.projects[n].sup \in Busy

\* What is in the table while a reload is at work.
TableSoFar ==
  job.by = "reload" =>
    /\ Accepted(job.cfg) /\ Differ(job.old)
    /\ job.step = "retire" => /\ \A n \in Names : table[n] \in {0, Old(n)}
                              /\ \A i \in job.items : \E n \in Names : i.reg = Old(n)
    /\ job.step # "detach" => \A n \in Names : table[n] # 0 => n \in DOMAIN job.cfg.projects
    /\ job.step = "rebuild" => \A n \in Names : table[n] # 0 =>
         <<2, n>> \in job.todo \/ Given(n, reg[table[n]].cfg)

ClaimsInv ==
  /\ \A r \in DOMAIN reg : FromFile(r)
  /\ job.by # "reload" => Differ(table)
  /\ job.by = "stop" => \A i \in job.items : i.reg \in Registered
  /\ TableSoFar

\* The listener of r leads its host to the switch of r.
Routed(r) ==
  LET b == reg[r].bind
  IN reg[r].cfg.host \in DOMAIN bnd[b].routes /\ bnd[b].routes[reg[r].cfg.host] = reg[r].sw

AllRouted == \A r \in DOMAIN reg : InUse(r) => Routed(r)

\* The replacement of n has taken its place.
Succeeded(n) ==
  /\ table[n] # 0 /\ reg[table[n]].retire = "no"
  /\ reg[table[n]].sw = reg[Old(n)].sw /\ reg[table[n]].bind = reg[Old(n)].bind
  /\ reg[table[n]].cfg.host = reg[Old(n)].cfg.host
Succession ==
  job.by = "reload" /\ job.step = "rebuild" =>
    \A n \in Changed : Keeps(n) /\ <<2, n>> \notin job.todo => Succeeded(n)

RoutedInv == Live => AllRouted /\ Succession

\* Once Run serves, every registration has its starter or its monitor.
DrivenInv == Live /\ job.by # "boot" => \A r \in DOMAIN reg : reg[r].drive # "none"

-----------------------------------------------------------------------------
(* Projects that do not meet *)

\* Claims of ports and hosts in a file that is accepted are unique.
LEMMA FilesDiffer ==
  ASSUME NEW f, Accepted(f), NEW m \in DOMAIN f.projects, NEW n \in DOMAIN f.projects, m # n
  PROVE  ~Meet(f.projects[m], f.projects[n])
  BY DEF Accepted, IsValid, ClaimsAreUnique, Meet, SameRoute

LEMMA RestoredDiffers ==
  ASSUME CanGoBack, NEW f \in Files \cup {Boot}, NEW g \in Files \cup {Boot}, Accepted(f), Accepted(g),
         NEW n \in DOMAIN f.projects, n \in DOMAIN g.projects, NEW m \in DOMAIN g.projects, m # n,
         ~SameRoute(f.projects[n], g.projects[n]), g.projects[n].sup \in Busy
  PROVE  ~Meet(f.projects[n], g.projects[m]) /\ ~Meet(g.projects[m], f.projects[n])
<1>1. ~Meet(f.projects[n], g.projects[m])
  BY DEF CanGoBack
<1> QED
  BY <1>1 DEF Meet, SameRoute

\* Whatever a reload makes of two projects, they do not meet.
LEMMA GivenDiffer ==
  ASSUME CanGoBack, DaemonInv, ClaimsInv, job.by = "reload",
         NEW m \in DOMAIN job.cfg.projects, NEW n \in DOMAIN job.cfg.projects, m # n,
         NEW c, NEW d, Given(m, c), Given(n, d)
  PROVE  ~Meet(c, d)
<1>1. AtReload /\ Accepted(job.cfg) /\ Differ(job.old) /\ job.cfg \in Files \cup {Boot}
  BY JobIsKnown DEF ClaimsInv, TableSoFar, AtReload
<1>2. \A x \in DOMAIN job.cfg.projects : x \in Names /\
        (Old(x) # 0 => Old(x) \in DOMAIN reg /\ reg[Old(x)].name = x)
  BY <1>1, DiffIsTyped DEF DaemonInv, Jobs
<1>3. \A x \in DOMAIN job.cfg.projects : Old(x) # 0 =>
        \E f \in Files \cup {Boot} : Accepted(f) /\ x \in DOMAIN f.projects /\ reg[Old(x)].cfg = f.projects[x]
  BY <1>2 DEF ClaimsInv, FromFile
<1>4. CASE c = job.cfg.projects[m] /\ d = job.cfg.projects[n]
  BY <1>1, <1>4, FilesDiffer
<1>5. CASE c = job.cfg.projects[m] /\ d # job.cfg.projects[n]
  <2>1. /\ Old(n) # 0 /\ d = reg[Old(n)].cfg
        /\ ~SameRoute(d, job.cfg.projects[n]) /\ job.cfg.projects[n].sup \in Busy
    BY <1>5 DEF Given
  <2>2. PICK f \in Files \cup {Boot} : Accepted(f) /\ n \in DOMAIN f.projects /\ d = f.projects[n]
    BY <1>3, <2>1
  <2> QED
    BY <1>1, <1>5, <2>1, <2>2, RestoredDiffers
<1>6. CASE c # job.cfg.projects[m] /\ d = job.cfg.projects[n]
  <2>1. /\ Old(m) # 0 /\ c = reg[Old(m)].cfg
        /\ ~SameRoute(c, job.cfg.projects[m]) /\ job.cfg.projects[m].sup \in Busy
    BY <1>6 DEF Given
  <2>2. PICK f \in Files \cup {Boot} : Accepted(f) /\ m \in DOMAIN f.projects /\ c = f.projects[m]
    BY <1>3, <2>1
  <2> QED
    BY <1>1, <1>6, <2>1, <2>2, RestoredDiffers
<1>7. CASE c # job.cfg.projects[m] /\ d # job.cfg.projects[n]
  <2>1. Old(m) # 0 /\ c = reg[Old(m)].cfg /\ Old(n) # 0 /\ d = reg[Old(n)].cfg
    BY <1>7 DEF Given
  <2> QED
    BY <1>1, <1>2, <2>1 DEF Differ, Old
<1> QED
  BY <1>4, <1>5, <1>6, <1>7

-----------------------------------------------------------------------------
(* What is claimed: steps outside a reload, and steps of one *)

\* Registrations and the table stay, and no reload is at work.
LEMMA ClaimsStay ==
  ASSUME DaemonInv, ClaimsInv, CfgsStay, DOMAIN reg' = DOMAIN reg, table' = table,
         job.by # "reload", job'.by # "reload",
         job'.by = "stop" => \A i \in job'.items : i.reg \in Registered
  PROVE  ClaimsInv'
<1>1. (\A r \in DOMAIN reg : FromFile(r))'
  BY DEF ClaimsInv, FromFile, CfgsStay
<1>2. \A n \in Names : table[n] # 0 => table[n] \in DOMAIN reg /\ reg'[table[n]].cfg = reg[table[n]].cfg
  BY DEF DaemonInv, Pointers, CfgsStay
<1>3. Differ(table)'
  BY <1>2 DEF ClaimsInv, Differ
<1>4. Registered' = Registered
  BY DEF Registered
<1> QED
  BY <1>1, <1>3, <1>4 DEF ClaimsInv, TableSoFar

\* What a reload found stays as it was.
LEMMA OldStays ==
  ASSUME DaemonInv, ClaimsInv, CfgsStay, job.by = "reload",
         job'.cfg = job.cfg, job'.old = job.old,
         \A r \in DOMAIN reg' \ DOMAIN reg : FromFile(r)'
  PROVE  /\ (\A r \in DOMAIN reg : FromFile(r))'
         /\ Accepted(job.cfg)' /\ Differ(job.old)'
         /\ \A n \in Names : Old(n)' = Old(n)
         /\ \A n \in Names : table[n] # 0 =>
              table[n] \in DOMAIN reg /\ reg'[table[n]].cfg = reg[table[n]].cfg
         /\ \A n \in DOMAIN job.cfg.projects : n \in Names /\ \A c : Given(n, c) => Given(n, c)'
<1>1. AtReload /\ Accepted(job.cfg) /\ Differ(job.old)
  BY JobIsKnown DEF ClaimsInv, TableSoFar
<1>2. \A n \in Names : job.old[n] # 0 =>
        job.old[n] \in DOMAIN reg /\ reg'[job.old[n]].cfg = reg[job.old[n]].cfg
  BY <1>1 DEF DaemonInv, Jobs, Old, CfgsStay
<1>3. (\A r \in DOMAIN reg : FromFile(r))'
  BY DEF ClaimsInv, FromFile, CfgsStay
<1>4. Differ(job.old)'
  BY <1>1, <1>2 DEF Differ
<1>5. \A n \in Names : Old(n)' = Old(n)
  BY DEF Old
<1>6. \A n \in DOMAIN job.cfg.projects : n \in Names
  BY <1>1, DiffIsTyped DEF DaemonInv
<1>7. \A n \in DOMAIN job.cfg.projects : \A c : Given(n, c) => Given(n, c)'
  BY <1>2, <1>6 DEF Given, Old
<1>8. \A n \in Names : table[n] # 0 => table[n] \in DOMAIN reg /\ reg'[table[n]].cfg = reg[table[n]].cfg
  BY DEF DaemonInv, Pointers, CfgsStay
<1> QED
  BY <1>1, <1>3, <1>4, <1>5, <1>6, <1>7, <1>8

\* Steps beside a reload, and the teardown it waits for.
LEMMA ClaimsGoOn ==
  ASSUME DaemonInv, ClaimsInv, CfgsStay, DOMAIN reg' = DOMAIN reg, table' = table, job' = job
  PROVE  ClaimsInv'
<1>1. CASE job.by # "reload"
  BY <1>1, ClaimsStay DEF ClaimsInv
<1>2. CASE job.by = "reload"
  <2>1. /\ (\A r \in DOMAIN reg : FromFile(r))'
        /\ Accepted(job.cfg)' /\ Differ(job.old)'
        /\ \A n \in Names : Old(n)' = Old(n)
        /\ \A n \in Names : table[n] # 0 =>
             table[n] \in DOMAIN reg /\ reg'[table[n]].cfg = reg[table[n]].cfg
        /\ \A n \in DOMAIN job.cfg.projects : n \in Names /\ \A c : Given(n, c) => Given(n, c)'
    BY <1>2, OldStays
  <2>2. TableSoFar
    BY DEF ClaimsInv
  <2>3. ASSUME job.step = "rebuild", NEW n \in Names, table[n] # 0
        PROVE  <<2, n>> \in job.todo \/ Given(n, reg[table[n]].cfg)'
    <3>1. PICK c : c = reg[table[n]].cfg /\ c = reg'[table'[n]].cfg
      BY <2>1, <2>3
    <3>2. <<2, n>> \in job.todo \/ Given(n, c)'
      BY <1>2, <2>1, <2>2, <2>3, <3>1 DEF TableSoFar
    <3> QED
      BY <3>1, <3>2 DEF Given
  <2>4. TableSoFar'
    BY <1>2, <2>1, <2>2, <2>3 DEF TableSoFar
  <2> QED
    BY <1>2, <2>1, <2>4 DEF ClaimsInv
<1> QED
  BY <1>1, <1>2

LEMMA BesideClaims ==
  ASSUME DaemonInv, ClaimsInv,
         \/ \E q \in Requests : RequestWorks(q) \/ RequestComes(q)
         \/ \E r \in DOMAIN reg : ProcWorks(r)
         \/ UNCHANGED vars \/ Drain
  PROVE  ClaimsInv'
<1>1. Steady /\ job' = job
  <2>1. CASE \E q \in Requests : RequestWorks(q) \/ RequestComes(q)
    BY <2>1, RequestsAreSteady
  <2>2. CASE \E r \in DOMAIN reg : ProcWorks(r)
    BY <2>2, ProcessesAreSteady
  <2>3. CASE UNCHANGED vars \/ Drain
    BY <2>3 DEF vars, heap, Drain, Steady
  <2> QED
    BY <2>1, <2>2, <2>3
<1>2. CfgsStay /\ DOMAIN reg' = DOMAIN reg /\ table' = table
  BY <1>1 DEF Steady, CfgsStay
<1> QED
  BY <1>1, <1>2, ClaimsGoOn

LEMMA JobRetiresClaims ==
  ASSUME DaemonInv, ClaimsInv, JobRetires
  PROVE  ClaimsInv'
<1>1. job' = job /\ HeapInv /\ Shapes /\ run' \in Runs
  BY DEF JobRetires, DaemonInv, Shapes, HeapInv
<1>2. InTeardown
  BY DEF JobRetires, DaemonInv, Jobs, AtBoot, AtReload, AtStop, InTeardown, Nobody
<1>3. PICK i \in job.items : TakeOff(i.reg, i.keep) \/ RetireAndStop(i.reg) \/ StopReturns(i.reg)
  BY DEF JobRetires
<1>4. i.reg \in DOMAIN reg /\ i.keep \in BOOLEAN
  BY <1>2 DEF DaemonInv, Jobs
<1>5. TakenOff(i.reg, i.keep) \/ MovesOn(i.reg)
  BY SMTT(30), <1>1, <1>3, <1>4, TakeOffEffect, MoveEffect
<1>6. CfgsStay /\ DOMAIN reg' = DOMAIN reg /\ table' = table
  BY <1>4, <1>5 DEF TakenOff, MovesOn, HeapButReg, CfgsStay
<1> QED
  BY <1>1, <1>6, ClaimsGoOn

LEMMA BootBindsClaims ==
  ASSUME DaemonInv, ClaimsInv, BootBinds
  PROVE  ClaimsInv'
<1>1. job.by = "boot" /\ job'.by = "boot" /\ table' = table
  BY BootBindsEffect
<1>2. CfgsStay /\ DOMAIN reg' = DOMAIN reg
  <2>1. \/ \E r \in DOMAIN reg : \E st, s, b : st = reg[r] /\ Attached(r, st, s, b)
        \/ \E e, rec, b : EntryBound(e, rec, b)
    BY BootBindsEffect
  <2>2. CASE \E r \in DOMAIN reg : \E st, s, b : st = reg[r] /\ Attached(r, st, s, b)
    <3>1. PICK r \in DOMAIN reg : \E st, s, b : st = reg[r] /\ Attached(r, st, s, b)
      BY <2>2
    <3>2. /\ DOMAIN reg' = DOMAIN reg \cup {r} /\ \A x \in DOMAIN reg \ {r} : reg'[x] = reg[x]
          /\ reg'[r].name = reg[r].name /\ reg'[r].cfg = reg[r].cfg
      BY <3>1 DEF Attached
    <3> QED
      BY <3>2 DEF CfgsStay
  <2>3. CASE \E e, rec, b : EntryBound(e, rec, b)
    BY <2>3 DEF EntryBound, CfgsStay
  <2> QED
    BY <2>1, <2>2, <2>3
<1> QED
  BY <1>1, <1>2, ClaimsStay

LEMMA TurnsClaim ==
  ASSUME DaemonInv, ClaimsInv, BootEnds \/ BootFails \/ StopAllBegins \/ StopAllEnds
  PROVE  ClaimsInv'
<1>0. ObjectsAreTyped
  BY ShapesOf DEF DaemonInv
<1>1. table' = table /\ job.by # "reload" /\ job'.by # "reload"
  BY DEF BootEnds, BootFails, StopAllBegins, StopAllEnds, UnbindEntries, heap, Nobody
<1>2. CfgsStay /\ DOMAIN reg' = DOMAIN reg
  <2>1. CASE BootEnds
    <3>1. DOMAIN reg' = DOMAIN reg /\ \A r \in DOMAIN reg : reg'[r] = Activated(reg[r])
      BY <2>1 DEF BootEnds
    <3> QED
      BY <1>0, <3>1, ActivateEffect DEF CfgsStay, ObjectsAreTyped
  <2>2. CASE BootFails \/ StopAllBegins \/ StopAllEnds
    BY <2>2 DEF BootFails, StopAllBegins, StopAllEnds, UnbindEntries, heap, CfgsStay
  <2> QED
    BY <2>1, <2>2
<1>3. job'.by = "stop" => \A i \in job'.items : i.reg \in Registered
  BY DEF BootEnds, BootFails, StopAllBegins, StopAllEnds, Nobody
<1> QED
  BY <1>1, <1>2, <1>3, ClaimsStay

LEMMA ReloadBeginsClaims ==
  ASSUME DaemonInv, ClaimsInv, ReloadBegins
  PROVE  ClaimsInv'
<1>1. job.by = "none" /\ UNCHANGED heap
  BY DEF ReloadBegins, Nobody
<1>2. table' = table /\ reg' = reg /\ CfgsStay
  BY <1>1 DEF heap, CfgsStay
<1>3. CASE job' = job
  BY <1>2, <1>3, ClaimsGoOn
<1>4. CASE job' # job
  <2>1. PICK f \in Files :
          /\ Accepted(f)
          /\ job' = [by |-> "reload", step |-> "detach", cfg |-> f, old |-> table,
                     oldEnt |-> entries, items |-> {}, todo |-> {}]
    BY <1>4 DEF ReloadBegins
  <2>2. job'.by = "reload" /\ job'.step = "detach" /\ job'.cfg = f /\ job'.old = table
    BY <2>1
  <2>3. Differ(job.old)'
    BY <1>1, <1>2, <2>2 DEF ClaimsInv, Differ
  <2> QED
    BY <1>2, <2>1, <2>2, <2>3 DEF ClaimsInv, TableSoFar, FromFile
<1> QED
  BY <1>3, <1>4

\* What is left in the table is what the reload has made of it.
LEMMA ReloadEndsClaims ==
  ASSUME CanGoBack, DaemonInv, ClaimsInv, ReloadEnds
  PROVE  ClaimsInv'
<1>1. /\ job.by = "reload" /\ job.step = "rebuild" /\ job.todo = {} /\ job'.by = "none"
      /\ table' = table /\ reg' = reg
  BY DEF ReloadEnds, heap, Nobody
<1>2. \A n \in Names : table[n] # 0 =>
        n \in DOMAIN job.cfg.projects /\ Given(n, reg[table[n]].cfg)
  BY <1>1 DEF ClaimsInv, TableSoFar
<1>3. Differ(table)
  <2> SUFFICES ASSUME NEW m \in Names, NEW n \in Names, m # n, table[m] # 0, table[n] # 0
               PROVE  ~Meet(reg[table[m]].cfg, reg[table[n]].cfg)
    BY DEF Differ
  <2> QED
    BY <1>1, <1>2, GivenDiffer
<1>4. Differ(table)'
  BY <1>1, <1>3 DEF Differ
<1> QED
  BY <1>1, <1>4 DEF ClaimsInv, TableSoFar, FromFile

LEMMA ReloadDetachesClaims ==
  ASSUME DaemonInv, ClaimsInv, ReloadDetaches
  PROVE  ClaimsInv'
<1>1. /\ job.by = "reload" /\ job.step = "detach" /\ AtReload
      /\ \A n \in Names : Old(n) = table[n]
      /\ table' = [n \in Names |-> IF n \in Removed THEN 0 ELSE table[n]]
      /\ job' = [job EXCEPT !.step = "retire", !.items = Items]
      /\ reg' = reg
  BY DetachEffect
<1>2. /\ job'.by = "reload" /\ job'.step = "retire" /\ job'.cfg = job.cfg /\ job'.old = job.old
      /\ job'.items = Items
  BY <1>1 DEF AtReload
<1>3. CfgsStay
  BY <1>1 DEF CfgsStay
<1>4. /\ (\A r \in DOMAIN reg : FromFile(r))'
      /\ Accepted(job.cfg)' /\ Differ(job.old)'
      /\ \A n \in Names : Old(n)' = Old(n)
  BY <1>1, <1>2, <1>3, OldStays
<1>5. \A n \in Names : table'[n] \in {0, Old(n)'}
  BY <1>1, <1>4
<1>6. \A i \in Items : \E n \in Names : i.reg = Old(n)'
  <2>1. Removed \subseteq Names /\ Changed \subseteq Names
    BY <1>1, DiffIsTyped DEF DaemonInv, Removed
  <2> QED
    BY <1>1, <1>4, <2>1 DEF Items
<1>7. \A n \in Names : table'[n] # 0 => n \in DOMAIN job.cfg.projects
  <2> SUFFICES ASSUME NEW n \in Names, n \notin Removed, table[n] # 0
               PROVE  n \in DOMAIN job.cfg.projects
    BY <1>1
  <2>1. ~Dynamic(Old(n))
    BY <1>1, ShapesOf DEF DaemonInv, Pointers, ObjectsAreTyped, Dynamic
  <2> QED
    BY <1>1, <2>1 DEF Removed
<1> QED
  BY <1>2, <1>4, <1>5, <1>6, <1>7 DEF ClaimsInv, TableSoFar

LEMMA ReloadUnbindsClaims ==
  ASSUME DaemonInv, ClaimsInv, ReloadUnbinds
  PROVE  ClaimsInv'
<1>1. /\ job.by = "reload" /\ job.step = "retire" /\ table' = table /\ reg' = reg
  BY DEF ReloadUnbinds, UnbindEntries
<1>2. AtReload /\ TableSoFar
  BY <1>1, JobIsKnown DEF ClaimsInv
<1> DEFINE todo == {<<1, n>> : n \in Added} \cup {<<2, n>> : n \in Changed}
                     \cup {<<3, n>> : n \in EntriesDue}
<1>3. job' = [job EXCEPT !.step = "rebuild", !.todo = todo] /\ \A n \in Changed : <<2, n>> \in todo
  BY DEF ReloadUnbinds
<1> HIDE DEF todo
<1>4. /\ job'.by = "reload" /\ job'.step = "rebuild" /\ job'.cfg = job.cfg /\ job'.old = job.old
      /\ \A n \in Changed : <<2, n>> \in job'.todo
  BY <1>2, <1>3 DEF AtReload
<1>5. CfgsStay
  BY <1>1 DEF CfgsStay
<1>6. /\ (\A r \in DOMAIN reg : FromFile(r))'
      /\ Accepted(job.cfg)' /\ Differ(job.old)'
  BY <1>1, <1>4, <1>5, OldStays
<1>7. \A n \in Names : table'[n] # 0 => n \in DOMAIN job.cfg.projects
  BY <1>1, <1>2 DEF TableSoFar
<1>8. ASSUME NEW n \in Names, table'[n] # 0
      PROVE  <<2, n>> \in job'.todo \/ Given(n, reg[table[n]].cfg)'
  <2>1. n \in DOMAIN job.cfg.projects /\ Old(n) = table[n] /\ Old(n) # 0
    BY <1>1, <1>2, <1>7, <1>8 DEF TableSoFar
  <2>2. CASE n \in Changed
    BY <1>4, <2>2
  <2>3. CASE n \notin Changed
    BY <1>1, <1>4, <2>1, <2>3 DEF Changed, EquivalentProject, Given
  <2> QED
    BY <2>2, <2>3
<1> QED
  BY <1>4, <1>6, <1>7, <1>8 DEF ClaimsInv, TableSoFar

\* One entry of the work list is done.
LEMMA BuiltClaims ==
  ASSUME DaemonInv, ClaimsInv, NEW phase \in {1, 2, 3}, NEW n, Built(phase, n),
         \A r \in DOMAIN reg' \ DOMAIN reg : FromFile(r)',
         phase # 3 => n \in DOMAIN job.cfg.projects,
         phase = 2 \/ table'[n] # table[n] =>
           table'[n] = 0 \/ \E c : c = reg'[table'[n]].cfg /\ Given(n, c)
  PROVE  ClaimsInv'
<1>1. /\ job.by = "reload" /\ job.step = "rebuild" /\ AtReload
      /\ job' = [job EXCEPT !.todo = job.todo \ {<<phase, n>>}]
      /\ \A r \in DOMAIN reg : r \in DOMAIN reg' /\ reg'[r] = reg[r]
      /\ \A m \in Names : table'[m] = table[m] \/ (m = n /\ phase \in {1, 2})
  BY JobIsKnown DEF Built
<1>2. /\ job'.by = "reload" /\ job'.step = "rebuild" /\ job'.cfg = job.cfg /\ job'.old = job.old
      /\ job'.todo = job.todo \ {<<phase, n>>}
  BY <1>1 DEF AtReload
<1>3. CfgsStay
  BY <1>1 DEF CfgsStay
<1>4. /\ (\A r \in DOMAIN reg : FromFile(r))'
      /\ Accepted(job.cfg)' /\ Differ(job.old)'
      /\ \A m \in Names : table[m] # 0 =>
           table[m] \in DOMAIN reg /\ reg'[table[m]].cfg = reg[table[m]].cfg
      /\ \A m \in DOMAIN job.cfg.projects : m \in Names /\ \A c : Given(m, c) => Given(m, c)'
  BY <1>1, <1>2, <1>3, OldStays
<1>5. ASSUME NEW m \in Names, table'[m] # 0
      PROVE  /\ m \in DOMAIN job.cfg.projects
             /\ <<2, m>> \in job'.todo \/ Given(m, reg[table[m]].cfg)'
  <2>1. CASE m = n /\ (phase = 2 \/ table'[n] # table[n])
    <3>1. m \in DOMAIN job.cfg.projects
      BY <1>1, <2>1
    <3>2. PICK c : c = reg'[table'[n]].cfg /\ Given(n, c)
      BY <1>5, <2>1
    <3>3. Given(m, c)' /\ c = reg'[table'[m]].cfg
      BY <1>4, <2>1, <3>1, <3>2
    <3>4. Given(m, reg[table[m]].cfg)'
      BY <3>3 DEF Given
    <3> QED
      BY <3>1, <3>4
  <2>2. CASE ~(m = n /\ (phase = 2 \/ table'[n] # table[n]))
    <3>1. table'[m] = table[m] /\ (phase = 2 => m # n)
      BY <1>1, <2>2
    <3>2. /\ m \in DOMAIN job.cfg.projects
          /\ <<2, m>> \in job.todo \/ Given(m, reg[table[m]].cfg)
      BY <1>1, <1>5, <3>1 DEF ClaimsInv, TableSoFar
    <3>3. CASE <<2, m>> \in job.todo
      BY <1>2, <3>1, <3>2, <3>3
    <3>4. CASE Given(m, reg[table[m]].cfg)
      <4>1. PICK c : c = reg[table[m]].cfg /\ c = reg'[table'[m]].cfg
        BY <1>4, <1>5, <3>1
      <4>2. Given(m, c)'
        BY <1>4, <3>2, <3>4, <4>1
      <4>3. Given(m, reg[table[m]].cfg)'
        BY <4>1, <4>2 DEF Given
      <4> QED
        BY <3>2, <4>3
    <3> QED
      BY <3>2, <3>3, <3>4
  <2> QED
    BY <2>1, <2>2
<1>6. TableSoFar'
  BY <1>2, <1>4, <1>5 DEF TableSoFar
<1> QED
  BY <1>2, <1>4, <1>6 DEF ClaimsInv

\* commission, of what the new file says or of what was there
LEMMA CommissionClaims ==
  ASSUME DaemonInv, ClaimsInv, NEW phase \in {1, 2}, NEW n \in Names, NEW p \in Projects,
         Rebuild(phase, n), Commission(n, p), phase = 2 => ~Keeps(n),
         n \in DOMAIN job.cfg.projects, Given(n, p),
         \E f \in Files \cup {Boot} : Accepted(f) /\ n \in DOMAIN f.projects /\ p = f.projects[n]
  PROVE  ClaimsInv'
<1>1. PICK st \in Registration, r \in Nat \ {0} : \E s, b :
        /\ st.name = n /\ st.cfg = p /\ st.retire = "no" /\ r \notin DOMAIN reg
        /\ Attached(r, st, s, b) /\ Built(phase, n)
  BY CommissionEffect
<1>2. /\ DOMAIN reg' = DOMAIN reg \cup {r} /\ reg'[r].name = n /\ reg'[r].cfg = p
      /\ table' = [table EXCEPT ![n] = r] /\ Built(phase, n) /\ table \in [Names -> Nat]
  BY <1>1 DEF Attached, DaemonInv, Shapes
<1>3. FromFile(r)'
  BY <1>2 DEF FromFile
<1>4. reg'[table'[n]].cfg = p
  BY <1>2
<1>5. phase \in {1, 2, 3}
  OBVIOUS
<1> QED
  BY <1>2, <1>3, <1>4, <1>5, BuiltClaims

\* An attach that fails finds another program on the port.
LEMMA FailsWhenBusy ==
  ASSUME DaemonInv, Serves, NEW p \in Projects, AttachMayFail(p)
  PROVE  p.sup \in Busy
<1>1. p.sup \in Ports
  BY ProjectsAreTyped
<1>2. \A b \in DOMAIN bnd : b # 0
  BY ShapesOf DEF DaemonInv, ObjectsAreTyped
<1> QED
  BY <1>1, <1>2 DEF AttachMayFail, BindMayFail, CanBind, Serves, Sockets

LEMMA RebuildingClaims ==
  ASSUME DaemonInv, ServiceInv, ClaimsInv, NEW n \in Names,
         ReloadAdds(n) \/ ReloadReplaces(n) \/ ReloadRestores(n) \/ ReloadLoses(n)
  PROVE  ClaimsInv'
<1>1. job.by = "reload" /\ job.step = "rebuild"
  BY DEF ReloadAdds, ReloadReplaces, ReloadRestores, ReloadLoses, Rebuild
<1>2. AtReload /\ Serves /\ Accepted(job.cfg) /\ job.cfg \in Files \cup {Boot}
  BY <1>1, JobIsKnown DEF ServiceInv, Live, ClaimsInv, TableSoFar, AtReload
<1>3. /\ \A m \in DOMAIN job.cfg.projects : job.cfg.projects[m] \in Projects
      /\ \A m \in Changed : Old(m) # 0 /\ Old(m) \in DOMAIN reg /\ reg[Old(m)].name = m
      /\ Added \subseteq DOMAIN job.cfg.projects /\ Changed \subseteq DOMAIN job.cfg.projects
  BY <1>2, DiffIsTyped DEF DaemonInv, Added, Changed
<1>4. /\ Rebuild(1, n) => n \in DOMAIN job.cfg.projects
      /\ Rebuild(2, n) => n \in Changed /\ n \in DOMAIN job.cfg.projects
  <2>1. (Rebuild(1, n) => <<1, n>> \in job.todo) /\ (Rebuild(2, n) => <<2, n>> \in job.todo)
    BY DEF Rebuild, Due
  <2> QED
    BY <1>1, <1>3, <2>1 DEF DaemonInv, ReloadWork
<1>5. Given(n, job.cfg.projects[n])
  BY DEF Given
<1>6. ASSUME NEW phase \in {1, 2}, Rebuild(phase, n), reg' = reg, entries' = entries,
             table' = IF phase = 2 THEN [table EXCEPT ![n] = 0] ELSE table
      PROVE  ClaimsInv'
  <2>1. /\ job.by = "reload" /\ job.step = "rebuild" /\ <<phase, n>> \in job.todo
        /\ job' = [job EXCEPT !.todo = job.todo \ {<<phase, n>>}] /\ run' = run
    BY <1>6 DEF Rebuild, Due, Done
  <2>2. /\ phase = 2 => table'[n] = 0
        /\ \A m \in Names : table'[m] = table[m] \/ (m = n /\ phase = 2)
        /\ phase # 2 => table' = table
    BY <1>6 DEF DaemonInv, Shapes
  <2>3. Built(phase, n)
    BY <1>6, <2>1, <2>2 DEF Built
  <2>4. phase \in {1, 2, 3} /\ n \in DOMAIN job.cfg.projects
    BY <1>4, <1>6
  <2> QED
    BY <1>6, <2>2, <2>3, <2>4, BuiltClaims
<1>7. CASE ReloadAdds(n)
  <2>1. Rebuild(1, n) /\ n \in DOMAIN job.cfg.projects
    BY <1>4, <1>7 DEF ReloadAdds
  <2>2. CASE Commission(n, job.cfg.projects[n])
    BY <1>2, <1>3, <1>5, <2>1, <2>2, CommissionClaims
  <2>3. CASE UNCHANGED heap
    BY <1>6, <2>1, <2>3 DEF heap
  <2> QED
    BY <1>7, <2>2, <2>3 DEF ReloadAdds
<1>8. CASE ReloadReplaces(n)
  <2>1. Rebuild(2, n) /\ n \in DOMAIN job.cfg.projects
    BY <1>4, <1>8 DEF ReloadReplaces
  <2>2. CASE Keeps(n)
    <3>1. Inherit(NewState(n, job.cfg.projects[n], 0), Old(n))
      BY <1>8, <2>2 DEF ReloadReplaces
    <3>2. PICK st, old, r :
            st.name = n /\ st.cfg = job.cfg.projects[n] /\ Inherited(r, st, old) /\ Built(2, n)
      BY <2>1, <2>2, <3>1, InheritingEffect
    <3>3. /\ DOMAIN reg' = DOMAIN reg \cup {r} /\ reg'[r].name = n /\ reg'[r].cfg = job.cfg.projects[n]
          /\ table' = [table EXCEPT ![n] = r] /\ table \in [Names -> Nat]
      BY <3>2 DEF Inherited, DaemonInv, Shapes
    <3>4. FromFile(r)'
      BY <1>2, <2>1, <3>3 DEF FromFile
    <3>5. reg'[table'[n]].cfg = job.cfg.projects[n]
      BY <3>3
    <3> QED
      BY <1>5, <2>1, <3>2, <3>3, <3>4, <3>5, BuiltClaims
  <2>3. CASE ~Keeps(n)
    <3>1. Commission(n, job.cfg.projects[n])
      BY <1>8, <2>3 DEF ReloadReplaces
    <3> QED
      BY <1>2, <1>3, <1>5, <2>1, <2>3, <3>1, CommissionClaims
  <2> QED
    BY <2>2, <2>3
<1>9. CASE ReloadRestores(n)
  <2>1. /\ Rebuild(2, n) /\ ~Keeps(n) /\ Commission(n, reg[Old(n)].cfg)
        /\ AttachMayFail(job.cfg.projects[n])
    BY <1>9 DEF ReloadRestores
  <2>2. /\ n \in Changed /\ n \in DOMAIN job.cfg.projects /\ job.cfg.projects[n] \in Projects
        /\ Old(n) # 0 /\ Old(n) \in DOMAIN reg /\ reg[Old(n)].name = n
    BY <1>3, <1>4, <2>1
  <2>3. reg[Old(n)].cfg \in Projects /\ ~Dynamic(Old(n))
    BY <2>2, ShapesOf DEF DaemonInv, ObjectsAreTyped, Dynamic
  <2>4. job.cfg.projects[n].sup \in Busy
    BY <1>2, <2>1, <2>2, FailsWhenBusy
  <2>5. Given(n, reg[Old(n)].cfg)
    BY <2>1, <2>2, <2>3, <2>4 DEF Given, Keeps
  <2>6. \E f \in Files \cup {Boot} :
          Accepted(f) /\ n \in DOMAIN f.projects /\ reg[Old(n)].cfg = f.projects[n]
    BY <2>2 DEF ClaimsInv, FromFile
  <2> QED
    BY <2>1, <2>2, <2>3, <2>5, <2>6, CommissionClaims
<1>10. CASE ReloadLoses(n)
  BY <1>6, <1>10 DEF ReloadLoses
<1> QED
  BY <1>7, <1>8, <1>9, <1>10

LEMMA ReloadBindsEntryClaims ==
  ASSUME DaemonInv, ClaimsInv, NEW n \in EntryNames, ReloadBindsEntry(n)
  PROVE  ClaimsInv'
<1>1. /\ job.by = "reload" /\ job.step = "rebuild" /\ <<3, n>> \in job.todo
      /\ job' = [job EXCEPT !.todo = job.todo \ {<<3, n>>}] /\ run' = run
      /\ table' = table /\ reg' = reg
  BY DEF ReloadBindsEntry, Rebuild, Due, Done, BindEntry, heap
<1>2. Built(3, n)
  <2>1. \A m \in EntryNames : entries'[m] = entries[m] \/ m = n
    <3>1. CASE UNCHANGED heap
      BY <3>1 DEF heap
    <3>2. ASSUME NEW e, NEW rec, rec = [cfg |-> EntryNamed(job.cfg, n), bind |-> 0], BindEntry(e, rec)
          PROVE  \A m \in EntryNames : entries'[m] = entries[m] \/ m = n
      <4>1. n \in WildcardNames(job.cfg)
        BY <1>1 DEF DaemonInv, ReloadWork
      <4>2. rec.cfg.name = n
        BY <3>2, <4>1 DEF EntryNamed, WildcardNames
      <4> QED
        BY <3>2, <4>2 DEF BindEntry, DaemonInv, Shapes
    <3> QED
      BY <3>1, <3>2 DEF ReloadBindsEntry
  <2> QED
    BY <1>1, <2>1 DEF Built
<1> QED
  BY <1>1, <1>2, BuiltClaims

LEMMA InitClaims == Init => ClaimsInv
<1> SUFFICES ASSUME Init PROVE ClaimsInv
  OBVIOUS
<1>1. PICK names : names = SetToSeq(DOMAIN Boot.projects)
  OBVIOUS
<1>2. /\ reg = [i \in DOMAIN names |-> NewState(names[i], Boot.projects[names[i]], 0)]
      /\ table = [n \in Names |-> IF \E i \in DOMAIN names : names[i] = n
                                  THEN CHOOSE i \in DOMAIN names : names[i] = n ELSE 0]
      /\ job.by = "boot"
  BY <1>1 DEF Init
<1>3. DOMAIN Boot.projects \subseteq Names /\ IsFiniteSet(DOMAIN Boot.projects)
  <2>1. Boot \in Files \cup {Boot}
    OBVIOUS
  <2>2. DOMAIN Boot.projects \subseteq Names
    BY <2>1, FilesAssumption
  <2> QED
    BY <2>2, FilesAssumption, FS_Subset
<1>4. /\ DOMAIN names \subseteq Nat \ {0}
      /\ \A i \in DOMAIN names : names[i] \in DOMAIN Boot.projects
  BY <1>1, <1>3, SeqLists
<1>5. Place(names, table, Names)
  BY <1>2, <1>4, PlaceOf
<1>6. /\ DOMAIN reg = DOMAIN names
      /\ \A i \in DOMAIN names : reg[i].name = names[i] /\ reg[i].cfg = Boot.projects[names[i]]
  BY <1>2 DEF NewState
<1>7. \A r \in DOMAIN reg : FromFile(r)
  BY <1>4, <1>6, BootAssumption DEF FromFile
<1>8. Differ(table)
  <2> SUFFICES ASSUME NEW m \in Names, NEW n \in Names, m # n, table[m] # 0, table[n] # 0
               PROVE  ~Meet(reg[table[m]].cfg, reg[table[n]].cfg)
    BY DEF Differ
  <2>1. /\ table[m] \in DOMAIN names /\ names[table[m]] = m
        /\ table[n] \in DOMAIN names /\ names[table[n]] = n
    BY <1>5 DEF Place
  <2>2. /\ m \in DOMAIN Boot.projects /\ reg[table[m]].cfg = Boot.projects[m]
        /\ n \in DOMAIN Boot.projects /\ reg[table[n]].cfg = Boot.projects[n]
    BY <1>4, <1>6, <2>1
  <2> QED
    BY <2>2, BootAssumption, FilesDiffer
<1> QED
  BY <1>2, <1>7, <1>8 DEF ClaimsInv, TableSoFar

LEMMA StepClaims ==
  ASSUME CanGoBack, DaemonInv, ServiceInv, ClaimsInv, [Next]_vars
  PROVE  ClaimsInv'
<1>1. CASE DaemonWorks
  <2>1. CASE BootBinds
    BY <2>1, BootBindsClaims
  <2>2. CASE BootEnds \/ BootFails \/ StopAllBegins \/ StopAllEnds
    BY <2>2, TurnsClaim
  <2>3. CASE ReloadDetaches
    BY <2>3, ReloadDetachesClaims
  <2>4. CASE ReloadUnbinds
    BY <2>4, ReloadUnbindsClaims
  <2>5. CASE ReloadEnds
    BY <2>5, ReloadEndsClaims
  <2>6. CASE JobRetires
    BY <2>6, JobRetiresClaims
  <2>7. CASE \E n \in Names :
               ReloadAdds(n) \/ ReloadReplaces(n) \/ ReloadRestores(n) \/ ReloadLoses(n)
    BY <2>7, RebuildingClaims
  <2>8. CASE \E n \in EntryNames : ReloadBindsEntry(n)
    BY <2>8, ReloadBindsEntryClaims
  <2> QED
    BY <1>1, <2>1, <2>2, <2>3, <2>4, <2>5, <2>6, <2>7, <2>8 DEF DaemonWorks
<1>2. CASE ReloadBegins
  BY <1>2, ReloadBeginsClaims
<1>3. CASE \/ \E q \in Requests : RequestWorks(q) \/ RequestComes(q)
           \/ \E r \in DOMAIN reg : ProcWorks(r)
           \/ UNCHANGED vars \/ Drain
  BY <1>3, BesideClaims
<1> QED
  BY <1>1, <1>2, <1>3 DEF Next

-----------------------------------------------------------------------------
(* Starters and monitors *)

LEMMA DriversStay ==
  ASSUME DrivenInv, Live' /\ job'.by # "boot" => Live /\ job.by # "boot", DOMAIN reg' = DOMAIN reg,
         \A r \in DOMAIN reg : reg[r].drive # "none" => reg'[r].drive # "none"
  PROVE  DrivenInv'
  BY DEF DrivenInv

LEMMA StepDrives ==
  ASSUME DaemonInv, DrivenInv, [Next]_vars
  PROVE  DrivenInv'
<1>0. HeapInv /\ ObjectsAreTyped /\ Shapes
  BY ShapesOf DEF DaemonInv, HeapInv
<1>1. CASE BootEnds
  <2>1. DOMAIN reg' = DOMAIN reg /\ \A r \in DOMAIN reg : reg'[r] = Activated(reg[r])
    BY <1>1 DEF BootEnds
  <2> QED
    BY <1>0, <2>1, ActivateEffect DEF DrivenInv, ObjectsAreTyped
<1>2. CASE BootBinds \/ BootFails
  <2>1. job'.by = "boot" \/ (job'.by = "none" /\ run' # "running")
    BY <1>2, BootBindsEffect DEF BootFails, Nobody
  <2> QED
    BY <2>1 DEF DrivenInv, Live, Quiet
<1>3. CASE \/ \E q \in Requests : RequestWorks(q) \/ RequestComes(q)
           \/ \E r \in DOMAIN reg : ProcWorks(r)
           \/ UNCHANGED vars
  <2>1. Steady /\ job' = job /\ run' = run
    <3>1. CASE \E q \in Requests : RequestWorks(q) \/ RequestComes(q)
      BY <3>1, RequestsAreSteady
    <3>2. CASE \E r \in DOMAIN reg : ProcWorks(r)
      BY <3>2, ProcessesAreSteady
    <3>3. CASE UNCHANGED vars
      BY <3>3 DEF vars, heap, Steady
    <3> QED
      BY <1>3, <3>1, <3>2, <3>3
  <2>2. Live' => Live
    BY <2>1 DEF Live, Quiet
  <2> QED
    BY <2>1, <2>2, DriversStay DEF Steady
<1>4. CASE StopAllBegins \/ StopAllEnds
  <2>1. job'.by \in {"none", "stop"} /\ run' # "running"
    BY <1>4 DEF StopAllBegins, StopAllEnds, Nobody
  <2> QED
    BY <2>1 DEF DrivenInv, Live, Quiet
<1>5. CASE ReloadBegins \/ ReloadDetaches \/ ReloadUnbinds \/ ReloadEnds \/ Drain
  <2>1. reg' = reg
    BY <1>5 DEF ReloadBegins, ReloadDetaches, ReloadUnbinds, UnbindEntries, ReloadEnds, Drain, heap
  <2>2. Live' /\ job'.by # "boot" => Live /\ job.by # "boot"
    BY <1>5 DEF ReloadBegins, ReloadDetaches, ReloadUnbinds, ReloadEnds, Drain, Live, Quiet, Nobody
  <2> QED
    BY <2>1, <2>2 DEF DrivenInv
<1>6. CASE JobRetires
  <2>1. job' = job /\ run' = run /\ run' \in Runs
    BY <1>0, <1>6 DEF JobRetires, Shapes
  <2>2. InTeardown
    BY <1>6 DEF JobRetires, DaemonInv, Jobs, AtBoot, AtReload, AtStop, InTeardown, Nobody
  <2>3. PICK i \in job.items : TakeOff(i.reg, i.keep) \/ RetireAndStop(i.reg) \/ StopReturns(i.reg)
    BY <1>6 DEF JobRetires
  <2>4. i.reg \in DOMAIN reg /\ i.keep \in BOOLEAN
    BY <2>2 DEF DaemonInv, Jobs
  <2>5. TakenOff(i.reg, i.keep) \/ MovesOn(i.reg)
    BY SMTT(30), <1>0, <2>1, <2>3, <2>4, TakeOffEffect, MoveEffect
  <2>6. /\ DOMAIN reg' = DOMAIN reg
        /\ \A r \in DOMAIN reg : reg[r].drive # "none" => reg'[r].drive # "none"
    BY <2>4, <2>5 DEF TakenOff, MovesOn
  <2>7. Live' => Live
    BY <2>1 DEF Live, Quiet
  <2> QED
    BY <2>1, <2>6, <2>7, DriversStay
<1>7. ASSUME NEW n \in Names,
             ReloadAdds(n) \/ ReloadReplaces(n) \/ ReloadRestores(n) \/ ReloadLoses(n)
      PROVE  DrivenInv'
  <2>1. job.by = "reload" /\ job.step = "rebuild"
    BY <1>7 DEF ReloadAdds, ReloadReplaces, ReloadRestores, ReloadLoses, Rebuild
  <2>2. \A r \in DOMAIN reg : reg[r].drive # "none"
    BY <2>1 DEF DrivenInv, Live
  <2>3. /\ Rebuild(1, n) => n \in DOMAIN job.cfg.projects
        /\ Rebuild(2, n) => n \in DOMAIN job.cfg.projects /\ Old(n) \in DOMAIN reg
    <3>1. (Rebuild(1, n) => <<1, n>> \in job.todo) /\ (Rebuild(2, n) => <<2, n>> \in job.todo)
      BY DEF Rebuild, Due
    <3>2. AtReload
      BY <2>1, JobIsKnown
    <3> QED
      BY <2>1, <3>1, <3>2, DiffIsTyped DEF DaemonInv, ReloadWork, Added, Changed
  <2>4. /\ n \in DOMAIN job.cfg.projects => job.cfg.projects[n] \in Projects
        /\ Old(n) \in DOMAIN reg => reg[Old(n)].cfg \in Projects
    BY <1>0, <2>1, JobIsKnown, DiffIsTyped DEF DaemonInv, ObjectsAreTyped
  <2>5. ASSUME NEW phase \in {1, 2}, NEW p \in Projects,
               Rebuild(phase, n), Commission(n, p), phase = 2 => ~Keeps(n)
        PROVE  DrivenInv'
    <3>1. PICK st, r, s, b : Attached(r, st, s, b) /\ st.drive # "none"
      BY <2>5, CommissionEffect
    <3> QED
      BY <2>2, <3>1 DEF Attached, DrivenInv
  <2>6. CASE reg' = reg
    BY <2>2, <2>6 DEF DrivenInv
  <2>7. CASE ReloadReplaces(n) /\ Keeps(n)
    <3>1. PICK st, old, r : Inherited(r, st, old)
      BY <2>7, InheritingEffect DEF ReloadReplaces
    <3> QED
      BY <2>2, <3>1 DEF Inherited, DrivenInv
  <2> QED
    BY <1>7, <2>3, <2>4, <2>5, <2>6, <2>7
       DEF ReloadAdds, ReloadReplaces, ReloadRestores, ReloadLoses, heap
<1>8. ASSUME NEW n \in EntryNames, ReloadBindsEntry(n) PROVE DrivenInv'
  <2>1. job.by = "reload" /\ reg' = reg
    BY <1>8 DEF ReloadBindsEntry, Rebuild, BindEntry, heap
  <2> QED
    BY <2>1 DEF DrivenInv, Live
<1> QED
  BY <1>1, <1>2, <1>3, <1>4, <1>5, <1>6, <1>7, <1>8 DEF Next, DaemonWorks

-----------------------------------------------------------------------------
(* Routes: steps that set and remove none *)

LEMMA RoutesStay ==
  ASSUME DaemonInv, Serves, AllRouted, \A b \in DOMAIN bnd : bnd'[b].routes = bnd[b].routes,
         \A r \in DOMAIN reg' : InUse(r)' =>
           /\ r \in DOMAIN reg /\ InUse(r)
           /\ reg'[r].cfg = reg[r].cfg /\ reg'[r].sw = reg[r].sw /\ reg'[r].bind = reg[r].bind
  PROVE  AllRouted'
<1> SUFFICES ASSUME NEW r \in DOMAIN reg', InUse(r)' PROVE Routed(r)'
  BY DEF AllRouted
<1>1. /\ r \in DOMAIN reg /\ InUse(r)
      /\ reg'[r].cfg = reg[r].cfg /\ reg'[r].sw = reg[r].sw /\ reg'[r].bind = reg[r].bind
  OBVIOUS
<1>2. reg[r].bind \in DOMAIN bnd /\ Routed(r)
  BY <1>1 DEF AllRouted, Serves, InService, DaemonInv, Pointers
<1> QED
  BY <1>1, <1>2 DEF Routed

\* Requests, processes, a signal, and a teardown past its detach
LEMMA StillRouted ==
  ASSUME DaemonInv, ServiceInv, RoutedInv, Shapes', Still, table' = table, job' = job,
         Live' => Live, \A r \in DOMAIN reg : reg[r].retire = "no" => reg'[r].retire = "no"
  PROVE  RoutedInv'
<1> SUFFICES ASSUME Live PROVE AllRouted' /\ Succession'
  BY DEF RoutedInv
<1>0. HeapInv' /\ CfgsStay
  <2>1. HeapInv /\ Shrinks
    BY DEF DaemonInv, HeapInv, Shrinks, Still
  <2> QED
    BY <2>1, ShrinkingKeepsHeap DEF CfgsStay, Still
<1>1. \A r \in DOMAIN reg : InUse(r)' => InUse(r)
  <2>1. \A r : Kept(r)' <=> Kept(r)
    BY <1>0, JobStays
  <2> QED
    BY <2>1 DEF InUse, Pending, Still
<1>2. Serves /\ AllRouted /\ Succession
  BY DEF ServiceInv, RoutedInv
<1>3. AllRouted'
  BY <1>1, <1>2, RoutesStay DEF Still
<1>4. Succession'
  <2> SUFFICES ASSUME job.by = "reload", job.step = "rebuild", NEW n \in Changed', Keeps(n)',
                      <<2, n>> \notin job.todo
               PROVE  Succeeded(n)'
    BY DEF Succession
  <2>1. AtReload
    BY JobIsKnown
  <2>2. n \in Changed /\ Keeps(n) /\ n \in Names /\ Old(n)' = Old(n) /\ Old(n) \in DOMAIN reg
    BY <1>0, <2>1, JobStays, DiffIsTyped DEF DaemonInv
  <2>3. Succeeded(n)
    BY <1>2, <2>2 DEF Succession
  <2>4. table[n] \in DOMAIN reg
    BY <2>2, <2>3 DEF Succeeded, DaemonInv, Pointers
  <2> QED
    BY <2>2, <2>3, <2>4 DEF Succeeded, Still
<1> QED
  BY <1>3, <1>4

LEMMA BesideRouted ==
  ASSUME DaemonInv, ServiceInv, RoutedInv,
         \/ \E q \in Requests : RequestWorks(q) \/ RequestComes(q)
         \/ \E r \in DOMAIN reg : ProcWorks(r)
         \/ UNCHANGED vars \/ Drain
  PROVE  RoutedInv'
<1>1. Shapes' /\ Steady /\ job' = job /\ (Live' => Live)
  <2>1. CASE \E q \in Requests : RequestWorks(q) \/ RequestComes(q)
    BY <2>1, RequestsAreSteady DEF Live, Quiet
  <2>2. CASE \E r \in DOMAIN reg : ProcWorks(r)
    BY <2>2, ProcessesAreSteady DEF Live, Quiet
  <2>3. CASE UNCHANGED vars \/ Drain
    BY <2>3 DEF vars, heap, Drain, Steady, DaemonInv, Shapes, Runs, Live, Quiet
  <2> QED
    BY <2>1, <2>2, <2>3
<1>2. Still /\ table' = table
  BY <1>1 DEF Still, Steady
<1> QED
  BY <1>1, <1>2, StillRouted DEF Steady

LEMMA TurnsRoute ==
  ASSUME DaemonInv, ServiceInv, RoutedInv, BootEnds \/ BootFails \/ StopAllBegins \/ StopAllEnds
  PROVE  RoutedInv'
<1>1. CASE BootFails \/ StopAllBegins \/ StopAllEnds
  <2>1. job'.by \in {"none", "stop"} /\ run' # "running"
    BY <1>1 DEF BootFails, StopAllBegins, StopAllEnds, Nobody
  <2> QED
    BY <2>1 DEF RoutedInv, Live, Quiet
<1>2. CASE BootEnds
  <2>1. /\ job.by = "boot" /\ job.todo = {} /\ job'.by = "none" /\ bnd' = bnd
        /\ DOMAIN reg' = DOMAIN reg /\ \A r \in DOMAIN reg : reg'[r] = Activated(reg[r])
    BY <1>2 DEF BootEnds, Nobody
  <2>2. \A r \in DOMAIN reg :
          /\ reg'[r].cfg = reg[r].cfg /\ reg'[r].sw = reg[r].sw /\ reg'[r].bind = reg[r].bind
          /\ reg'[r].retire = reg[r].retire
    <3>1. ObjectsAreTyped
      BY ShapesOf DEF DaemonInv
    <3> QED
      BY <2>1, <3>1, ActivateEffect DEF ObjectsAreTyped
  <2>3. Serves /\ AllRouted
    BY <2>1 DEF ServiceInv, RoutedInv, Live
  <2>4. \A r \in DOMAIN reg : InUse(r)' => InUse(r)
    BY <2>1, <2>2 DEF InUse, Pending, Kept, Awaits
  <2>5. AllRouted'
    BY <2>1, <2>2, <2>3, <2>4, RoutesStay
  <2> QED
    BY <2>1, <2>5 DEF RoutedInv, Succession
<1> QED
  BY <1>1, <1>2

LEMMA ReloadTurnsRoute ==
  ASSUME DaemonInv, ServiceInv, RoutedInv, ReloadBegins \/ ReloadEnds
  PROVE  RoutedInv'
<1>1. CASE job' = job
  <2>1. UNCHANGED vars
    BY <1>1 DEF ReloadBegins, ReloadEnds, vars, heap, Nobody
  <2> QED
    BY <2>1, BesideRouted
<1>2. CASE job' # job
  <2>1. /\ reg' = reg /\ bnd' = bnd /\ job.by \in {"none", "reload"}
        /\ job'.by = "none" \/ (job'.by = "reload" /\ job'.step = "detach")
    BY <1>2 DEF ReloadBegins, ReloadEnds, heap, Nobody
  <2>2. Live
    BY <2>1 DEF ReloadBegins, ReloadEnds, Live, Quiet
  <2>3. Serves /\ AllRouted
    BY <2>2 DEF ServiceInv, RoutedInv
  <2>4. \A r \in DOMAIN reg : InUse(r)' => InUse(r)
    BY <2>1 DEF InUse, Pending, Kept, Awaits
  <2>5. AllRouted'
    BY <2>1, <2>3, <2>4, RoutesStay
  <2> QED
    BY <2>1, <2>5 DEF RoutedInv, Succession
<1> QED
  BY <1>1, <1>2

LEMMA ReloadDetachesRouted ==
  ASSUME DaemonInv, ServiceInv, RoutedInv, ReloadDetaches, Shapes'
  PROVE  RoutedInv'
<1>1. /\ job.by = "reload" /\ job.step = "detach" /\ AtReload /\ job.items = {} /\ run # "exited"
      /\ \A n \in Names : Old(n) = table[n]
      /\ job' = [job EXCEPT !.step = "retire", !.items = Items]
      /\ reg' = reg /\ bnd' = bnd
  BY DetachEffect
<1>2. Serves /\ AllRouted
  BY <1>1 DEF ServiceInv, RoutedInv, Live
<1>3. /\ job'.by = "reload" /\ job'.step = "retire" /\ job'.cfg = job.cfg /\ job'.old = job.old
  BY <1>1 DEF AtReload
<1>4. /\ Changed' = Changed /\ Changed \subseteq Names
      /\ \A n \in Names : Old(n)' = Old(n)
      /\ \A n \in Changed : Old(n) # 0 /\ Old(n) \in DOMAIN reg
  <2>1. CfgsStay
    BY <1>1 DEF CfgsStay
  <2> QED
    BY <1>1, <1>3, <2>1, DiffIsStable, DiffIsTyped DEF DaemonInv
<1>5. \A n \in Changed : reg[table[n]].retire = "no"
  <2>1. \A r : ~InHand(r)
    BY <1>1 DEF InHand
  <2> QED
    BY <1>1, <1>4, <2>1 DEF DaemonInv, Teardown
<1>6. \A r \in DOMAIN reg : InUse(r)' => InUse(r)
  BY <1>1, <1>3, <1>4, <1>5 DEF InUse, Pending, Kept, Awaits
<1>7. AllRouted'
  BY <1>1, <1>2, <1>6, RoutesStay
<1> QED
  BY <1>3, <1>7 DEF RoutedInv, Succession

LEMMA ReloadUnbindsRouted ==
  ASSUME DaemonInv, ServiceInv, RoutedInv, ReloadUnbinds, Shapes'
  PROVE  RoutedInv'
<1>1. job.by = "reload" /\ job.step = "retire" /\ table' = table /\ reg' = reg /\ run' \in Runs
  BY DEF ReloadUnbinds, UnbindEntries, DaemonInv, Shapes
<1>2. AtReload /\ Serves /\ AllRouted
  BY <1>1, JobIsKnown DEF ServiceInv, RoutedInv, Live
<1> DEFINE todo == {<<1, n>> : n \in Added} \cup {<<2, n>> : n \in Changed}
                     \cup {<<3, n>> : n \in EntriesDue}
<1>3. job' = [job EXCEPT !.step = "rebuild", !.todo = todo] /\ \A n \in Changed : <<2, n>> \in todo
  BY DEF ReloadUnbinds
<1> HIDE DEF todo
<1>4. /\ job'.by = "reload" /\ job'.step = "rebuild" /\ job'.cfg = job.cfg /\ job'.old = job.old
      /\ \A n \in Changed : <<2, n>> \in job'.todo
  BY <1>2, <1>3 DEF AtReload
<1>5. /\ Changed' = Changed /\ \A n \in Names : Old(n)' = Old(n)
      /\ \A n \in Changed : Keeps(n)' <=> Keeps(n)
  <2>1. CfgsStay
    BY <1>1 DEF CfgsStay
  <2> QED
    BY <1>2, <1>4, <2>1, DiffIsStable DEF DaemonInv
<1>6. Closes
  <2>1. PICK E : UnbindEntries(E)
    BY DEF ReloadUnbinds
  <2> QED
    BY <1>1, <2>1, UnbindEffect DEF Unbound, DaemonInv
<1>7. \A r \in DOMAIN reg : InUse(r)' => InUse(r)
  BY <1>1, <1>4, <1>5 DEF InUse, Pending, Kept, Awaits
<1>8. AllRouted'
  BY <1>1, <1>2, <1>6, <1>7, RoutesStay DEF Closes
<1> QED
  BY <1>4, <1>5, <1>8 DEF RoutedInv, Succession

-----------------------------------------------------------------------------
(* Routes: what is taken off takes only its own *)

LEMMA JobRetiresRouted ==
  ASSUME DaemonInv, ServiceInv, ClaimsInv, RoutedInv, DaemonInv', JobRetires
  PROVE  RoutedInv'
<1>1. job' = job /\ run' = run /\ HeapInv /\ run' \in Runs
  BY DEF JobRetires, DaemonInv, Shapes, HeapInv
<1>2. InTeardown /\ Retiring
  BY DEF JobRetires, DaemonInv, Jobs, AtBoot, AtReload, AtStop, InTeardown, Nobody, Retiring
<1>3. PICK i \in job.items : TakeOff(i.reg, i.keep) \/ RetireAndStop(i.reg) \/ StopReturns(i.reg)
  BY DEF JobRetires
<1>4. i.reg \in DOMAIN reg /\ i.keep \in BOOLEAN
  BY <1>2 DEF DaemonInv, Jobs
<1>5. PICK r \in DOMAIN reg, keep \in BOOLEAN : i.reg = r /\ i.keep = keep
  BY <1>4
<1>6. CASE job.by # "reload"
  BY <1>1, <1>2, <1>6 DEF RoutedInv, Live, Quiet, Retiring, Nobody
<1>7. CASE RetireAndStop(r) \/ StopReturns(r)
  <2>1. MovesOn(r)
    BY <1>1, <1>7, MoveEffect DEF HeapInv
  <2>2. Still /\ table' = table /\ \A x \in DOMAIN reg : reg[x].retire = "no" => reg'[x].retire = "no"
    BY <2>1 DEF Still, MovesOn, HeapButReg
  <2>3. Live' => Live
    BY <1>1 DEF Live, Quiet
  <2> QED
    BY <1>1, <2>2, <2>3, StillRouted DEF DaemonInv
<1>8. CASE job.by = "reload" /\ TakeOff(r, keep)
  <2>1. TakenOff(r, keep) /\ Serves /\ AllRouted /\ job.step = "retire" /\ AtReload /\ TableSoFar
    BY <1>1, <1>2, <1>8, TakeOffEffect, JobIsKnown
       DEF ServiceInv, RoutedInv, ClaimsInv, Live, Retiring
  <2>2. /\ table' = table /\ DOMAIN reg' = DOMAIN reg /\ \A x \in DOMAIN reg \ {r} : reg'[x] = reg[x]
        /\ reg'[r].name = reg[r].name /\ reg'[r].cfg = reg[r].cfg /\ reg'[r].sw = reg[r].sw
        /\ reg[r].retire = "no" /\ reg'[r].retire = "off"
        /\ reg'[r].bind = IF keep THEN reg[r].bind ELSE 0
        /\ keep => bnd' = bnd
    BY <2>1 DEF TakenOff
  <2>3. CfgsStay
    BY <2>2 DEF CfgsStay
  <2>4. HeapInv'
    BY DEF DaemonInv, HeapInv
  <2>5. \A x : Kept(x)' <=> Kept(x)
    BY <1>1, <2>2, <2>3, <2>4, JobStays
  <2>6. keep <=> Kept(r)
    <3>1. keep <=> \E n \in Changed : Keeps(n) /\ r = Old(n)
      BY <1>5, <1>8 DEF DaemonInv, ReloadWork
    <3>2. Changed \subseteq Names
      BY <2>1, DiffIsTyped DEF DaemonInv
    <3> QED
      BY <1>8, <2>1, <3>1, <3>2 DEF Kept, Awaits
  <2>7. \A x \in DOMAIN reg : InUse(x)' => InUse(x) /\ (x = r => keep)
    BY <1>1, <2>2, <2>5, <2>6 DEF InUse, Pending
  <2>8. CASE keep
    <3>1. AllRouted'
      BY <2>1, <2>2, <2>7, <2>8, RoutesStay
    <3> QED
      BY <1>1, <2>1, <3>1 DEF RoutedInv, Succession
  <2>9. CASE ~keep
    <3> SUFFICES ASSUME NEW x \in DOMAIN reg, InUse(x)' PROVE Routed(x)'
      BY <1>1, <2>1, <2>2 DEF RoutedInv, AllRouted, Succession
    <3>1. x # r /\ InUse(x) /\ Routed(x) /\ reg'[x] = reg[x]
      BY <2>1, <2>2, <2>7, <2>9 DEF AllRouted
    <3>2. InUse(r)
      BY <1>8, <2>2 DEF InUse, Pending
    <3>3. /\ reg[x].bind # 0 /\ reg[x].bind \in DOMAIN bnd /\ bnd[reg[x].bind].port = reg[x].cfg.sup
          /\ reg[r].bind # 0 /\ reg[r].bind \in DOMAIN bnd /\ bnd[reg[r].bind].port = reg[r].cfg.sup
      BY <2>1, <3>1, <3>2 DEF Serves, InService, DaemonInv, Pointers
    <3>4. /\ \A n \in Names : table[n] \in {0, Old(n)}
          /\ \A k \in job.items : \E n \in Names : k.reg = Old(n)
          /\ Differ(job.old)
      BY <1>8, <2>1 DEF TableSoFar
    <3>5. PICK n \in Names : r = Old(n)
      BY <1>5, <3>4
    <3>6. PICK m \in Names : x = Old(m)
      <4>1. CASE reg[x].retire = "no"
        <5>1. x \in Registered \/ InHand(x)
          BY <4>1 DEF DaemonInv, Teardown
        <5> QED
          BY <3>4, <5>1 DEF Registered, InHand
      <4>2. CASE reg[x].retire # "no"
        BY <3>1, <4>2 DEF InUse, Kept
      <4> QED
        BY <4>1, <4>2
    <3>7. x # 0 /\ r # 0
      BY ShapesOf DEF DaemonInv, ObjectsAreTyped
    <3>8. ~Meet(reg[x].cfg, reg[r].cfg)
      BY <3>1, <3>4, <3>5, <3>6, <3>7 DEF Differ, Old
    <3>9. reg[x].bind = reg[r].bind => reg[x].cfg.host # reg[r].cfg.host
      BY <3>3, <3>8 DEF Meet, SameRoute
    <3>10. /\ \A b \in DOMAIN bnd \ {reg[r].bind} : bnd'[b] = bnd[b]
           /\ DOMAIN bnd'[reg[r].bind].routes = DOMAIN bnd[reg[r].bind].routes \ {reg[r].cfg.host}
           /\ \A h \in DOMAIN bnd'[reg[r].bind].routes :
                bnd'[reg[r].bind].routes[h] = bnd[reg[r].bind].routes[h]
      BY <2>1, <2>9, <3>3 DEF TakenOff
    <3> QED
      BY <3>1, <3>3, <3>9, <3>10 DEF Routed
  <2> QED
    BY <2>8, <2>9
<1> QED
  BY <1>3, <1>5, <1>6, <1>7, <1>8

-----------------------------------------------------------------------------
(* Routes: what is attached gets one that is free *)

LEMMA AttachRoutes ==
  ASSUME DaemonInv, Serves, AllRouted, NEW r, NEW st, NEW s, NEW b, Attached(r, st, s, b),
         \A x \in DOMAIN reg \ {r} : InUse(x)' => InUse(x),
         \A x \in DOMAIN reg \ {r} : InUse(x) => ~SameRoute(reg[x].cfg, st.cfg)
  PROVE  AllRouted'
<1>1. /\ DOMAIN reg' = DOMAIN reg \cup {r} /\ reg'[r].cfg = st.cfg /\ reg'[r].sw = s /\ reg'[r].bind = b
      /\ \A x \in DOMAIN reg \ {r} : reg'[x] = reg[x]
      /\ \A x \in DOMAIN bnd \ {b} : bnd'[x] = bnd[x]
      /\ st.cfg.host \in DOMAIN bnd'[b].routes /\ bnd'[b].routes[st.cfg.host] = s
      /\ \A h \in DOMAIN bnd'[b].routes \ {st.cfg.host} : bnd'[b].routes[h] = bnd[b].routes[h]
      /\ b \in DOMAIN bnd => /\ DOMAIN bnd[b].routes \subseteq DOMAIN bnd'[b].routes
                             /\ bnd[b].port = st.cfg.sup
  BY DEF Attached
<1>2. Routed(r)'
  BY <1>1 DEF Routed
<1>3. ASSUME NEW x \in DOMAIN reg \ {r}, InUse(x)' PROVE Routed(x)'
  <2>1. InUse(x) /\ Routed(x) /\ reg'[x] = reg[x] /\ ~SameRoute(reg[x].cfg, st.cfg)
    BY <1>1, <1>3 DEF AllRouted
  <2>2. reg[x].bind \in DOMAIN bnd /\ bnd[reg[x].bind].port = reg[x].cfg.sup
    BY <2>1 DEF Serves, InService, DaemonInv, Pointers
  <2>3. CASE reg[x].bind # b
    BY <1>1, <2>1, <2>2, <2>3 DEF Routed
  <2>4. CASE reg[x].bind = b
    <3>1. reg[x].cfg.host # st.cfg.host
      BY <1>1, <2>1, <2>2, <2>4 DEF SameRoute
    <3> QED
      BY <1>1, <2>1, <2>2, <2>4, <3>1 DEF Routed
  <2> QED
    BY <2>3, <2>4
<1> QED
  BY <1>1, <1>2, <1>3 DEF AllRouted

LEMMA BootBindsRouted ==
  ASSUME DaemonInv, ServiceInv, ClaimsInv, RoutedInv, BootBinds
  PROVE  RoutedInv'
<1>1. /\ job.by = "boot" /\ job'.by = "boot" /\ run' = run /\ table' = table
      /\ \/ \E n \in Names, st \in Registration : \E r, s, b :
              /\ <<1, n>> \in job.todo /\ job'.todo = job.todo \ {<<1, n>>}
              /\ r \in DOMAIN reg /\ r = table[n] /\ st = reg[r] /\ st.name = n
              /\ Attach(r, st) /\ Attached(r, st, s, b)
         \/ \E n \in EntryNames, rec \in Entry : \E e, b :
              /\ <<2, n>> \in job.todo /\ job'.todo = job.todo \ {<<2, n>>}
              /\ \A m : <<1, m>> \notin job.todo
              /\ e \in DOMAIN ent /\ e = entries[n] /\ rec = ent[e] /\ rec.cfg.name = n
              /\ BindEntry(e, rec) /\ EntryBound(e, rec, b)
  BY BootBindsEffect
<1>2. Serves /\ AllRouted /\ Differ(table) /\ \A x \in DOMAIN reg : table[reg[x].name] = x
  BY <1>1 DEF ServiceInv, RoutedInv, ClaimsInv, BootSoFar, Live
<1>3. \A r : ~Kept(r) /\ ~Kept(r)'
  BY <1>1 DEF Kept, Awaits
<1>4. ObjectsAreTyped
  BY ShapesOf DEF DaemonInv
<1>5. ASSUME NEW n \in Names, NEW st, NEW r, NEW s, NEW b, job'.todo = job.todo \ {<<1, n>>},
             r \in DOMAIN reg, r = table[n], st = reg[r], st.name = n, Attached(r, st, s, b)
      PROVE  AllRouted'
  <2>1. \A x \in DOMAIN reg \ {r} :
          reg'[x] = reg[x] /\ x # 0 /\ reg[x].name \in Names /\ table[reg[x].name] = x /\ reg[x].name # n
    BY <1>2, <1>4, <1>5 DEF Attached, ObjectsAreTyped
  <2>2. \A x \in DOMAIN reg \ {r} : InUse(x)' => InUse(x)
    BY <1>1, <1>3, <1>5, <2>1 DEF InUse, Pending
  <2>3. r # 0
    BY <1>4, <1>5 DEF ObjectsAreTyped
  <2>4. \A x \in DOMAIN reg \ {r} : ~SameRoute(reg[x].cfg, st.cfg)
    BY <1>2, <1>5, <2>1, <2>3 DEF Differ, Meet
  <2> QED
    BY <1>2, <1>5, <2>2, <2>4, AttachRoutes
<1>6. ASSUME NEW n \in EntryNames, NEW rec, NEW e, NEW b, job'.todo = job.todo \ {<<2, n>>},
             EntryBound(e, rec, b)
      PROVE  AllRouted'
  <2>1. reg' = reg /\ \A x \in DOMAIN bnd : bnd'[x] = bnd[x]
    BY <1>6 DEF EntryBound
  <2>2. \A x \in DOMAIN reg : InUse(x)' => InUse(x)
    BY <1>1, <1>3, <1>6, <2>1 DEF InUse, Pending
  <2> QED
    BY <1>2, <2>1, <2>2, RoutesStay
<1>7. AllRouted'
  BY <1>1, <1>5, <1>6
<1> QED
  BY <1>1, <1>7 DEF RoutedInv, Succession

\* What is in use while a reload builds is a project whose place is kept, or
\* one the reload has made or left alone.
LEMMA UsedIsGiven ==
  ASSUME DaemonInv, ClaimsInv, job.by = "reload", job.step = "rebuild",
         NEW x \in DOMAIN reg, InUse(x)
  PROVE  \E m \in DOMAIN job.cfg.projects : \E c :
           /\ Given(m, c) /\ SameRoute(reg[x].cfg, c)
           /\ \/ m \in Changed /\ Keeps(m) /\ <<2, m>> \in job.todo
              \/ m \in Names /\ table[m] = x /\ <<2, m>> \notin job.todo
<1>1. AtReload /\ AllRetired /\ run # "exited"
  BY JobIsKnown DEF DaemonInv, ReloadWork, Teardown, Nobody
<1>2. CASE reg[x].retire = "no"
  <2>1. ~InHand(x)
    BY <1>1, <1>2 DEF InHand, AllRetired
  <2>2. PICK m \in Names : x = table[m]
    BY <1>2, <2>1 DEF DaemonInv, Teardown, Registered
  <2>3. x # 0
    BY ShapesOf DEF DaemonInv, ObjectsAreTyped
  <2>4. <<2, m>> \notin job.todo
    <3> SUFFICES ASSUME <<2, m>> \in job.todo PROVE FALSE
      OBVIOUS
    <3>1. m \in Changed /\ table[m] = Old(m) /\ InHand(Old(m))
      BY DEF DaemonInv, ReloadWork
    <3> QED
      BY <2>1, <2>2, <3>1
  <2>5. m \in DOMAIN job.cfg.projects /\ Given(m, reg[x].cfg)
    BY <2>2, <2>3, <2>4 DEF ClaimsInv, TableSoFar
  <2>6. SameRoute(reg[x].cfg, reg[x].cfg)
    BY DEF SameRoute
  <2> QED
    BY <2>2, <2>4, <2>5, <2>6
<1>3. CASE reg[x].retire # "no"
  <2>1. PICK m \in Names : Awaits(m) /\ Old(m) = x
    BY <1>3 DEF InUse, Kept
  <2>2. m \in Changed /\ Keeps(m) /\ <<2, m>> \in job.todo /\ m \in DOMAIN job.cfg.projects
    BY <2>1 DEF Awaits, Changed
  <2>3. SameRoute(reg[x].cfg, job.cfg.projects[m])
    BY <2>1, <2>2 DEF Keeps
  <2>4. Given(m, job.cfg.projects[m])
    BY DEF Given
  <2> QED
    BY <2>2, <2>3, <2>4
<1> QED
  BY <1>2, <1>3

LEMMA SuccessionGoesOn ==
  ASSUME DaemonInv, Shapes', Succession, NEW phase \in {1, 2, 3}, NEW n, phase # 3 => n \in Names,
         Built(phase, n), phase = 2 /\ Keeps(n) => Succeeded(n)'
  PROVE  Succession'
<1>1. /\ job.by = "reload" /\ job.step = "rebuild" /\ AtReload /\ <<phase, n>> \in job.todo
      /\ job' = [job EXCEPT !.todo = job.todo \ {<<phase, n>>}]
      /\ \A r \in DOMAIN reg : r \in DOMAIN reg' /\ reg'[r] = reg[r]
      /\ \A m \in Names : table'[m] = table[m] \/ (m = n /\ phase \in {1, 2})
  BY JobIsKnown DEF Built
<1>2. /\ job'.cfg = job.cfg /\ job'.old = job.old /\ job'.todo = job.todo \ {<<phase, n>>}
  BY <1>1 DEF AtReload
<1>3. CfgsStay
  BY <1>1 DEF CfgsStay
<1>4. /\ Changed' = Changed /\ Changed \subseteq Names
      /\ \A m \in Changed : Keeps(m)' <=> Keeps(m)
      /\ \A m \in Names : Old(m)' = Old(m)
      /\ \A m \in Changed : Old(m) \in DOMAIN reg
      /\ \A m \in Added : m \notin Changed
  BY <1>1, <1>2, <1>3, DiffIsStable, DiffIsTyped DEF DaemonInv
<1> SUFFICES ASSUME NEW m \in Changed, Keeps(m), <<2, m>> \notin job'.todo PROVE Succeeded(m)'
  BY <1>4 DEF Succession
<1>5. CASE phase = 2 /\ m = n
  BY <1>5
<1>6. CASE ~(phase = 2 /\ m = n)
  <2>1. phase = 1 => m # n
    BY <1>1, <1>4 DEF DaemonInv, ReloadWork
  <2>2. <<2, m>> \notin job.todo
    BY <1>2, <1>6
  <2>3. Succeeded(m) /\ table'[m] = table[m]
    BY <1>1, <1>4, <1>6, <2>1, <2>2 DEF Succession
  <2>4. table[m] \in DOMAIN reg
    BY <1>4, <2>3 DEF Succeeded, DaemonInv, Pointers
  <2> QED
    BY <1>1, <1>4, <2>3, <2>4 DEF Succeeded
<1> QED
  BY <1>5, <1>6

LEMMA CommissionRouted ==
  ASSUME CanGoBack, DaemonInv, ServiceInv, ClaimsInv, RoutedInv, DaemonInv',
         NEW phase \in {1, 2}, NEW n \in Names, NEW p \in Projects,
         Rebuild(phase, n), Commission(n, p), phase = 2 => ~Keeps(n),
         n \in DOMAIN job.cfg.projects, Given(n, p)
  PROVE  RoutedInv'
<1>1. PICK st \in Registration, r \in Nat \ {0} : \E s, b :
        /\ st.name = n /\ st.cfg = p /\ st.retire = "no" /\ r \notin DOMAIN reg
        /\ Attached(r, st, s, b) /\ HeapInv' /\ Built(phase, n)
  BY CommissionEffect
<1>2. PICK s, b :
        /\ st.cfg = p /\ r \notin DOMAIN reg /\ Attached(r, st, s, b) /\ HeapInv' /\ Built(phase, n)
  BY <1>1
<1>3. job.by = "reload" /\ job.step = "rebuild" /\ <<phase, n>> \in job.todo /\ AtReload
  BY <1>2, JobIsKnown DEF Built
<1>4. Serves /\ AllRouted /\ Succession
  BY <1>3 DEF ServiceInv, RoutedInv, Live
<1>5. phase \in {1, 2, 3}
  OBVIOUS
<1>6. Succession'
  BY <1>2, <1>4, <1>5, SuccessionGoesOn DEF DaemonInv
<1>7. \A x \in DOMAIN reg : InUse(x)' => InUse(x)
  <2>1. /\ \A m \in Names : Old(m)' = Old(m)
        /\ \A m \in Names : Awaits(m)' <=> Awaits(m) /\ (phase = 2 => m # n)
    BY <1>2, <1>5, BuildingKeepsWork
  <2>2. \A x : Kept(x)' => Kept(x)
    BY <2>1 DEF Kept
  <2>3. \A x \in DOMAIN reg : reg'[x] = reg[x]
    BY <1>2 DEF Built
  <2> QED
    BY <1>3, <2>2, <2>3 DEF InUse, Pending
<1>8. ASSUME NEW x \in DOMAIN reg, InUse(x) PROVE ~SameRoute(reg[x].cfg, p)
  <2>1. PICK m \in DOMAIN job.cfg.projects : \E c :
           /\ Given(m, c) /\ SameRoute(reg[x].cfg, c)
           /\ \/ m \in Changed /\ Keeps(m) /\ <<2, m>> \in job.todo
              \/ m \in Names /\ table[m] = x /\ <<2, m>> \notin job.todo
    BY <1>3, <1>8, UsedIsGiven
  <2>2. PICK c : Given(m, c) /\ SameRoute(reg[x].cfg, c)
    BY <2>1
  <2>3. m # n
    <3>1. phase = 1 => n \in Added /\ n \notin Changed /\ table[n] = 0
      BY <1>3, DiffIsTyped DEF DaemonInv, ReloadWork
    <3>2. x # 0
      BY ShapesOf DEF DaemonInv, ObjectsAreTyped
    <3> QED
      BY <1>3, <2>1, <3>1, <3>2
  <2>4. ~Meet(c, p)
    BY <1>3, <2>2, <2>3, GivenDiffer
  <2> QED
    BY <2>2, <2>4 DEF Meet, SameRoute
<1>9. AllRouted'
  BY <1>2, <1>4, <1>7, <1>8, AttachRoutes
<1> QED
  BY <1>6, <1>9 DEF RoutedInv

\* The replacement is found where its predecessor was.
LEMMA InheritingRouted ==
  ASSUME DaemonInv, ServiceInv, RoutedInv, DaemonInv', NEW n \in Names, Rebuild(2, n), Keeps(n),
         Inherit(NewState(n, job.cfg.projects[n], 0), Old(n))
  PROVE  RoutedInv'
<1>1. PICK st \in Registration, old \in DOMAIN reg : \E r :
        /\ old = Old(n) /\ n \in Changed /\ Inherited(r, st, old) /\ Built(2, n)
        /\ st.name = n /\ st.retire = "no" /\ st.cfg = job.cfg.projects[n]
        /\ Kept(old) /\ ~Kept(old)' /\ \A x : x # old => (Kept(x)' <=> Kept(x))
        /\ reg[old].retire = "done"
  BY InheritingEffect
<1>2. PICK r :
        /\ old = Old(n) /\ n \in Changed /\ Inherited(r, st, old) /\ Built(2, n)
        /\ st.name = n /\ st.retire = "no" /\ st.cfg = job.cfg.projects[n]
        /\ Kept(old) /\ ~Kept(old)' /\ \A x : x # old => (Kept(x)' <=> Kept(x))
        /\ reg[old].retire = "done"
  BY <1>1
<1>3. /\ r # 0 /\ r \notin DOMAIN reg /\ DOMAIN reg' = DOMAIN reg \cup {r}
      /\ reg'[r].sw = reg[old].sw /\ reg'[r].bind = reg[old].bind /\ reg'[r].retire = "no"
      /\ reg'[r].cfg = job.cfg.projects[n] /\ table' = [table EXCEPT ![n] = r]
      /\ \A x \in DOMAIN reg : reg'[x] = reg[x]
      /\ bnd' = bnd
  BY <1>2 DEF Inherited
<1>4. job.by = "reload" /\ job.step = "rebuild" /\ AtReload
  BY <1>2, JobIsKnown DEF Built
<1>5. Serves /\ AllRouted /\ Succession
  BY <1>4 DEF ServiceInv, RoutedInv, Live
<1>6. job.cfg.projects[n].host = reg[old].cfg.host
  BY <1>2 DEF Keeps, SameRoute
<1>7. InUse(old) /\ Routed(old)
  BY <1>2, <1>4, <1>5 DEF InUse, Pending, AllRouted
<1>8. Routed(r)'
  BY <1>3, <1>6, <1>7 DEF Routed
<1>9. ASSUME NEW x \in DOMAIN reg, InUse(x)' PROVE Routed(x)'
  <2>1. x # old
    BY <1>2, <1>3, <1>9 DEF InUse
  <2>2. InUse(x)
    BY <1>2, <1>3, <1>4, <1>9, <2>1 DEF InUse, Pending
  <2> QED
    BY <1>3, <1>5, <2>2 DEF AllRouted, Routed
<1>10. AllRouted'
  BY <1>3, <1>8, <1>9 DEF AllRouted
<1>11. Succeeded(n)'
  <2>1. table'[n] = r
    BY <1>3 DEF DaemonInv, Shapes
  <2>2. Old(n)' = old
    BY <1>2, <1>4 DEF Old, Built, AtReload
  <2> QED
    BY <1>3, <1>6, <2>1, <2>2 DEF Succeeded
<1>12. Succession'
  BY <1>2, <1>5, <1>11, SuccessionGoesOn DEF DaemonInv
<1> QED
  BY <1>10, <1>12 DEF RoutedInv

\* A project could not be added or was lost, or an entry is bound or not.
LEMMA NothingBuiltRouted ==
  ASSUME DaemonInv, ServiceInv, RoutedInv, DaemonInv', NEW phase \in {1, 2, 3}, NEW n,
         phase # 3 => n \in Names, Built(phase, n), phase = 2 => ~Keeps(n),
         reg' = reg, \A b \in DOMAIN bnd : bnd'[b] = bnd[b]
  PROVE  RoutedInv'
<1>1. job.by = "reload"
  BY DEF Built
<1>2. Serves /\ AllRouted /\ Succession
  BY <1>1 DEF ServiceInv, RoutedInv, Live
<1>3. Succession'
  BY <1>2, SuccessionGoesOn DEF DaemonInv
<1>4. \A x \in DOMAIN reg : InUse(x)' => InUse(x)
  <2>1. /\ \A m \in Names : Old(m)' = Old(m)
        /\ \A m \in Names : Awaits(m)' <=> Awaits(m) /\ (phase = 2 => m # n)
    BY BuildingKeepsWork DEF DaemonInv, HeapInv
  <2>2. \A x : Kept(x)' => Kept(x)
    BY <2>1 DEF Kept
  <2> QED
    BY <1>1, <2>2 DEF InUse, Pending
<1>5. AllRouted'
  BY <1>2, <1>4, RoutesStay
<1> QED
  BY <1>3, <1>5 DEF RoutedInv

LEMMA RebuildingRouted ==
  ASSUME CanGoBack, DaemonInv, ServiceInv, ClaimsInv, RoutedInv, DaemonInv', NEW n \in Names,
         ReloadAdds(n) \/ ReloadReplaces(n) \/ ReloadRestores(n) \/ ReloadLoses(n)
  PROVE  RoutedInv'
<1>1. job.by = "reload" /\ job.step = "rebuild"
  BY DEF ReloadAdds, ReloadReplaces, ReloadRestores, ReloadLoses, Rebuild
<1>2. AtReload /\ Serves
  BY <1>1, JobIsKnown DEF ServiceInv, Live
<1>3. /\ \A m \in DOMAIN job.cfg.projects : job.cfg.projects[m] \in Projects
      /\ \A m \in Changed : Old(m) # 0 /\ Old(m) \in DOMAIN reg
      /\ Added \subseteq DOMAIN job.cfg.projects /\ Changed \subseteq DOMAIN job.cfg.projects
  BY <1>2, DiffIsTyped DEF DaemonInv, Added, Changed
<1>4. /\ Rebuild(1, n) => n \in DOMAIN job.cfg.projects
      /\ Rebuild(2, n) => n \in Changed /\ n \in DOMAIN job.cfg.projects
  <2>1. (Rebuild(1, n) => <<1, n>> \in job.todo) /\ (Rebuild(2, n) => <<2, n>> \in job.todo)
    BY DEF Rebuild, Due
  <2> QED
    BY <1>1, <1>3, <2>1 DEF DaemonInv, ReloadWork
<1>5. Given(n, job.cfg.projects[n])
  BY DEF Given
<1>6. ASSUME NEW phase \in {1, 2}, Rebuild(phase, n), reg' = reg, entries' = entries, bnd' = bnd,
             table' = IF phase = 2 THEN [table EXCEPT ![n] = 0] ELSE table, phase = 2 => ~Keeps(n)
      PROVE  RoutedInv'
  <2>1. /\ job.by = "reload" /\ job.step = "rebuild" /\ <<phase, n>> \in job.todo
        /\ job' = [job EXCEPT !.todo = job.todo \ {<<phase, n>>}] /\ run' = run
    BY <1>6 DEF Rebuild, Due, Done
  <2>2. /\ \A m \in Names : table'[m] = table[m] \/ (m = n /\ phase = 2)
        /\ phase = 2 => table'[n] = 0
        /\ phase # 2 => table' = table
    BY <1>6 DEF DaemonInv, Shapes
  <2>3. Built(phase, n)
    BY <1>6, <2>1, <2>2 DEF Built
  <2>4. phase \in {1, 2, 3} /\ \A b \in DOMAIN bnd : bnd'[b] = bnd[b]
    BY <1>6
  <2> QED
    BY <1>6, <2>3, <2>4, NothingBuiltRouted
<1>7. CASE ReloadAdds(n)
  <2>1. Rebuild(1, n) /\ n \in DOMAIN job.cfg.projects
    BY <1>4, <1>7 DEF ReloadAdds
  <2>2. CASE Commission(n, job.cfg.projects[n])
    BY <1>3, <1>5, <2>1, <2>2, CommissionRouted
  <2>3. CASE UNCHANGED heap
    BY <1>6, <2>1, <2>3 DEF heap
  <2> QED
    BY <1>7, <2>2, <2>3 DEF ReloadAdds
<1>8. CASE ReloadReplaces(n)
  <2>1. Rebuild(2, n) /\ n \in DOMAIN job.cfg.projects
    BY <1>4, <1>8 DEF ReloadReplaces
  <2>2. CASE Keeps(n)
    BY <1>8, <2>1, <2>2, InheritingRouted DEF ReloadReplaces
  <2>3. CASE ~Keeps(n)
    <3>1. Commission(n, job.cfg.projects[n])
      BY <1>8, <2>3 DEF ReloadReplaces
    <3> QED
      BY <1>3, <1>5, <2>1, <2>3, <3>1, CommissionRouted
  <2> QED
    BY <2>2, <2>3
<1>9. CASE ReloadRestores(n)
  <2>1. /\ Rebuild(2, n) /\ ~Keeps(n) /\ Commission(n, reg[Old(n)].cfg)
        /\ AttachMayFail(job.cfg.projects[n])
    BY <1>9 DEF ReloadRestores
  <2>2. /\ n \in DOMAIN job.cfg.projects /\ job.cfg.projects[n] \in Projects
        /\ Old(n) # 0 /\ Old(n) \in DOMAIN reg
    BY <1>3, <1>4, <2>1
  <2>3. reg[Old(n)].cfg \in Projects /\ ~Dynamic(Old(n))
    BY <2>2, ShapesOf DEF DaemonInv, ObjectsAreTyped, Dynamic
  <2>4. job.cfg.projects[n].sup \in Busy
    BY <1>2, <2>1, <2>2, FailsWhenBusy
  <2>5. Given(n, reg[Old(n)].cfg)
    BY <2>1, <2>2, <2>3, <2>4 DEF Given, Keeps
  <2> QED
    BY <2>1, <2>2, <2>3, <2>5, CommissionRouted
<1>10. CASE ReloadLoses(n)
  BY <1>6, <1>10 DEF ReloadLoses
<1> QED
  BY <1>7, <1>8, <1>9, <1>10

LEMMA ReloadBindsEntryRouted ==
  ASSUME DaemonInv, ServiceInv, RoutedInv, DaemonInv', NEW n \in EntryNames, ReloadBindsEntry(n)
  PROVE  RoutedInv'
<1>1. /\ job.by = "reload" /\ job.step = "rebuild" /\ <<3, n>> \in job.todo
      /\ job' = [job EXCEPT !.todo = job.todo \ {<<3, n>>}] /\ run' = run
      /\ table' = table /\ reg' = reg
  BY DEF ReloadBindsEntry, Rebuild, Due, Done, BindEntry, heap
<1>2. /\ \A m \in EntryNames : entries'[m] = entries[m] \/ m = n
      /\ \A b \in DOMAIN bnd : bnd'[b] = bnd[b]
  <2>1. CASE UNCHANGED heap
    BY <2>1 DEF heap
  <2>2. ASSUME NEW e, NEW rec, rec = [cfg |-> EntryNamed(job.cfg, n), bind |-> 0], BindEntry(e, rec)
        PROVE  /\ \A m \in EntryNames : entries'[m] = entries[m] \/ m = n
               /\ \A b \in DOMAIN bnd : bnd'[b] = bnd[b]
    <3>1. n \in WildcardNames(job.cfg)
      BY <1>1 DEF DaemonInv, ReloadWork
    <3>2. rec.cfg.name = n
      BY <2>2, <3>1 DEF EntryNamed, WildcardNames
    <3>3. \A b \in DOMAIN bnd : bnd'[b] = bnd[b]
      <4>1. bnd \in Seq(Listener)
        BY DEF DaemonInv, Shapes
      <4>2. bnd' = Append(bnd, NewBinding(rec.cfg.sup, e))
        BY <2>2 DEF BindEntry
      <4> HIDE DEF NewBinding
      <4> QED
        BY <4>1, <4>2
    <3> QED
      BY <2>2, <3>2, <3>3 DEF BindEntry, DaemonInv, Shapes
  <2> QED
    BY <2>1, <2>2 DEF ReloadBindsEntry
<1>3. Built(3, n)
  BY <1>1, <1>2 DEF Built
<1> QED
  BY <1>1, <1>2, <1>3, NothingBuiltRouted

LEMMA InitRouted == Init => RoutedInv /\ DrivenInv
<1> SUFFICES ASSUME Init PROVE RoutedInv /\ DrivenInv
  OBVIOUS
<1>1. PICK names : names = SetToSeq(DOMAIN Boot.projects)
  OBVIOUS
<1>2. /\ reg = [i \in DOMAIN names |-> NewState(names[i], Boot.projects[names[i]], 0)]
      /\ job = [by |-> "boot", todo |-> {<<1, n>> : n \in DOMAIN Boot.projects}
                                        \cup {<<2, n>> : n \in WildcardNames(Boot)}]
  BY <1>1 DEF Init
<1>3. IsFiniteSet(DOMAIN Boot.projects)
  <2>1. Boot \in Files \cup {Boot}
    OBVIOUS
  <2> QED
    BY <2>1, FilesAssumption, FS_Subset
<1>4. \A i \in DOMAIN names : names[i] \in DOMAIN Boot.projects
  BY <1>1, <1>3, SeqLists
<1>5. DOMAIN reg = DOMAIN names /\ \A i \in DOMAIN names : reg[i].name = names[i]
  BY <1>2 DEF NewState
<1>6. job.by = "boot" /\ \A n \in DOMAIN Boot.projects : <<1, n>> \in job.todo
  BY <1>2
<1>7. \A r \in DOMAIN reg : ~InUse(r)
  BY <1>4, <1>5, <1>6 DEF InUse, Pending
<1> QED
  BY <1>6, <1>7 DEF RoutedInv, AllRouted, Succession, DrivenInv

-----------------------------------------------------------------------------
(* Theorems *)

LEMMA StepRouted ==
  ASSUME CanGoBack, DaemonInv, ServiceInv, ClaimsInv, RoutedInv, DaemonInv', [Next]_vars
  PROVE  RoutedInv'
<1>0. Shapes'
  BY DEF DaemonInv
<1>1. CASE DaemonWorks
  <2>1. CASE BootBinds
    BY <2>1, BootBindsRouted
  <2>2. CASE BootEnds \/ BootFails \/ StopAllBegins \/ StopAllEnds
    BY <2>2, TurnsRoute
  <2>3. CASE ReloadDetaches
    BY <1>0, <2>3, ReloadDetachesRouted
  <2>4. CASE ReloadUnbinds
    BY <1>0, <2>4, ReloadUnbindsRouted
  <2>5. CASE ReloadEnds
    BY <2>5, ReloadTurnsRoute
  <2>6. CASE JobRetires
    BY <2>6, JobRetiresRouted
  <2>7. CASE \E n \in Names :
               ReloadAdds(n) \/ ReloadReplaces(n) \/ ReloadRestores(n) \/ ReloadLoses(n)
    BY <2>7, RebuildingRouted
  <2>8. CASE \E n \in EntryNames : ReloadBindsEntry(n)
    BY <2>8, ReloadBindsEntryRouted
  <2> QED
    BY <1>1, <2>1, <2>2, <2>3, <2>4, <2>5, <2>6, <2>7, <2>8 DEF DaemonWorks
<1>2. CASE ReloadBegins
  BY <1>2, ReloadTurnsRoute
<1>3. CASE \/ \E q \in Requests : RequestWorks(q) \/ RequestComes(q)
           \/ \E r \in DOMAIN reg : ProcWorks(r)
           \/ UNCHANGED vars \/ Drain
  BY <1>3, BesideRouted
<1> QED
  BY <1>1, <1>2, <1>3 DEF Next

\* Where no other program takes a port, every configuration satisfies CanGoBack.
LEMMA FreePortsSuffice == Busy = {} => CanGoBack
  BY DEF CanGoBack

TableInv == ClaimsInv /\ RoutedInv /\ DrivenInv

\* While the daemon binds, serves or reloads, every project that is not being
\* retired, or whose route a reload keeps, has its host on its listener lead to
\* its switch, and after the boot its starter or its monitor; no two projects
\* of the table have one address or one application port (attach, detach,
\* commission, Reload, Run).
THEOREM TableInvariant ==
  ASSUME CanGoBack
  PROVE  Spec => []TableInv
<1>1. Init => TableInv
  BY InitClaims, InitRouted DEF TableInv
<1>2. DaemonInv /\ ServiceInv /\ TableInv /\ DaemonInv' /\ [Next]_vars => TableInv'
  BY StepClaims, StepRouted, StepDrives DEF TableInv
<1> QED
  BY <1>1, <1>2, DaemonInvariant, ServiceInvariant, PTL DEF Spec

\* A registration that may have a process is in the table, or a reload has
\* taken it from the table as it was.
LEMMA RunsFromTable ==
  ASSUME DaemonInv, ClaimsInv, NEW r \in DOMAIN reg, reg[r].proc # "down"
  PROVE  /\ job.by = "reload" /\ job.step = "retire" => \E n \in Names : r = Old(n)
         /\ ~(job.by = "reload" /\ job.step = "retire") => \E n \in Names : r = table[n]
<1>1. reg[r].retire # "done" /\ (r \in Registered \/ InHand(r)) /\ r # 0
  BY ShapesOf DEF DaemonInv, Teardown, ObjectsAreTyped
<1>2. CASE job.by = "reload" /\ job.step = "retire"
  <2>1. CASE r \in Registered
    BY <1>1, <1>2, <2>1 DEF Registered, ClaimsInv, TableSoFar
  <2>2. CASE InHand(r)
    BY <1>2, <2>2 DEF InHand, ClaimsInv, TableSoFar
  <2> QED
    BY <1>1, <1>2, <2>1, <2>2
<1>3. CASE ~(job.by = "reload" /\ job.step = "retire")
  <2>1. InHand(r) => r \in Registered
    <3> SUFFICES ASSUME InHand(r) PROVE r \in Registered
      OBVIOUS
    <3>1. PICK i \in job.items : i.reg = r
      BY DEF InHand
    <3>2. CASE job.by = "stop"
      BY <3>1, <3>2 DEF ClaimsInv
    <3>3. CASE job.by = "reload"
      <4>1. job.step \in {"detach", "rebuild"}
        BY <1>3, <3>3, JobIsKnown DEF AtReload
      <4> QED
        BY <1>1, <3>1, <3>3, <4>1 DEF DaemonInv, ReloadWork, AllRetired
    <3> QED
      BY <3>2, <3>3 DEF InHand
  <2> QED
    BY <1>1, <1>3, <2>1 DEF Registered
<1> QED
  BY <1>2, <1>3

\* Two registrations never have processes on one application port, whatever
\* reloads, restores, starters, requests and operators do: Reload starts no
\* replacement before retireAll has seen the group of its predecessor gone.
THEOREM PortHasOneServer ==
  ASSUME CanGoBack
  PROVE  Spec => []OneServerPerPort
<1>1. DaemonInv /\ TableInv => OneServerPerPort
  <2> SUFFICES ASSUME DaemonInv, ClaimsInv, NEW r \in DOMAIN reg, NEW s \in DOMAIN reg, r # s,
                      reg[r].proc # "down", reg[s].proc # "down"
               PROVE  reg[r].cfg.app # reg[s].cfg.app
    BY DEF OneServerPerPort, TableInv
  <2>1. r # 0 /\ s # 0
    BY ShapesOf DEF DaemonInv, ObjectsAreTyped
  <2>2. CASE job.by = "reload" /\ job.step = "retire"
    <3>1. PICK m \in Names, n \in Names : r = Old(m) /\ s = Old(n)
      BY <2>2, RunsFromTable
    <3>2. Differ(job.old)
      BY <2>2 DEF ClaimsInv, TableSoFar
    <3> QED
      BY <2>1, <3>1, <3>2 DEF Differ, Meet, Old
  <2>3. CASE ~(job.by = "reload" /\ job.step = "retire")
    <3>1. PICK m \in Names, n \in Names : r = table[m] /\ s = table[n]
      BY <2>3, RunsFromTable
    <3>2. CASE job.by # "reload"
      BY <2>1, <3>1, <3>2 DEF ClaimsInv, Differ, Meet
    <3>3. CASE job.by = "reload" /\ job.step = "detach"
      BY <2>1, <3>1, <3>3 DEF ClaimsInv, TableSoFar, DaemonInv, ReloadWork, Differ, Meet
    <3>4. CASE job.by = "reload" /\ job.step = "rebuild"
      <4>1. <<2, m>> \notin job.todo /\ <<2, n>> \notin job.todo
        <5>1. \A x \in Names : <<2, x>> \in job.todo =>
                \E i \in job.items : i.reg = table[x] /\ reg[i.reg].retire = "done"
          BY <3>4 DEF DaemonInv, ReloadWork, InHand, AllRetired
        <5>2. reg[r].retire # "done" /\ reg[s].retire # "done"
          BY DEF DaemonInv, Teardown
        <5> QED
          BY <3>1, <5>1, <5>2
      <4>2. /\ m \in DOMAIN job.cfg.projects /\ Given(m, reg[r].cfg)
            /\ n \in DOMAIN job.cfg.projects /\ Given(n, reg[s].cfg)
        BY <2>1, <3>1, <3>4, <4>1 DEF ClaimsInv, TableSoFar
      <4>3. ~Meet(reg[r].cfg, reg[s].cfg)
        BY <3>1, <3>4, <4>2, GivenDiffer
      <4> QED
        BY <4>3 DEF Meet
    <3> QED
      BY <2>3, <3>2, <3>3, <3>4, JobIsKnown DEF AtReload
  <2> QED
    BY <2>2, <2>3
<1> QED
  BY <1>1, DaemonInvariant, TableInvariant, PTL

\* Between reloads every project of the table is served: its host on its open
\* listener leads to its own switch and handler, it is not retired, and it has
\* its starter or its monitor; an open listener is the one registered for its
\* port, counts the projects on it, and is open for them or for its entry
\* (attach, detach, commission, activate, Reload, Run).
THEOREM TableAlwaysServed ==
  ASSUME CanGoBack
  PROVE  Spec => []TableIsServed
<1>1. DaemonInv /\ ServiceInv /\ TableInv => TableIsServed
  <2> SUFFICES ASSUME DaemonInv, ServiceInv, TableInv, Quiet
               PROVE  /\ \A n \in Names : table[n] # 0 => Served(table[n])
                      /\ \A b \in DOMAIN bnd : bnd[b].open =>
                           /\ bindings[bnd[b].port] = b
                           /\ bnd[b].members = Cardinality({r \in Registered : reg[r].bind = b})
                           /\ bnd[b].members > 0 \/ (bnd[b].entry # 0 /\ ent[bnd[b].entry].bind = b)
    BY DEF TableIsServed
  <2>1. job.by = "none" /\ run # "exited" /\ Live
    BY DEF Quiet, Nobody, Live
  <2>2. Serves /\ AllRouted /\ \A r \in DOMAIN reg : reg[r].drive # "none"
    BY <2>1 DEF ServiceInv, TableInv, RoutedInv, DrivenInv
  <2>3. \A r : ~Kept(r) /\ ~InHand(r)
    BY <2>1 DEF Kept, Awaits, InHand
  <2>4. \A n \in Names : table[n] # 0 =>
          table[n] \in DOMAIN reg /\ InUse(table[n]) /\ reg[table[n]].retire = "no"
    BY <2>3, QuietIsInUse DEF InUse
  <2>5. ASSUME NEW n \in Names, table[n] # 0 PROVE Served(table[n])
    <3>1. PICK r \in DOMAIN reg : r = table[n] /\ InUse(r) /\ reg[r].retire = "no"
      BY <2>4, <2>5
    <3>2. /\ reg[r].bind # 0 /\ bnd[reg[r].bind].open /\ sw[reg[r].sw] = r
          /\ Routed(r) /\ reg[r].drive # "none"
      BY <2>2, <2>3, <3>1 DEF Serves, InService, AllRouted
    <3>3. reg[r].bind \in DOMAIN bnd /\ bnd[reg[r].bind].port = reg[r].cfg.sup
      BY <3>2 DEF DaemonInv, Pointers
    <3>4. bindings[reg[r].cfg.sup] = reg[r].bind
      BY <2>2, <3>2, <3>3 DEF Serves, Sockets
    <3> QED
      BY <3>1, <3>2, <3>4 DEF Served, Routed
  <2>6. ASSUME NEW b \in DOMAIN bnd, bnd[b].open
        PROVE  /\ bindings[bnd[b].port] = b
               /\ bnd[b].members = Cardinality({r \in Registered : reg[r].bind = b})
               /\ bnd[b].members > 0 \/ (bnd[b].entry # 0 /\ ent[bnd[b].entry].bind = b)
    <3>1. bindings[bnd[b].port] = b
      BY <2>2, <2>6 DEF Serves, Sockets
    <3>2. \A r : r \in Registered <=> r \in DOMAIN reg /\ reg[r].retire = "no"
      <4>1. \A r \in Registered : r \in DOMAIN reg /\ reg[r].retire = "no"
        BY <2>4 DEF Registered
      <4>2. \A r \in DOMAIN reg : reg[r].retire = "no" => r \in Registered
        BY <2>3 DEF DaemonInv, Teardown
      <4> QED
        BY <4>1, <4>2
    <3>3. Members(b) = {r \in Registered : reg[r].bind = b}
      BY <2>3, <3>2 DEF Members
    <3> QED
      BY <2>6, <3>1, <3>3 DEF DaemonInv, Listeners
  <2> QED
    BY <2>5, <2>6
<1> QED
  BY <1>1, DaemonInvariant, ServiceInvariant, TableInvariant, PTL

\* While a reload replaces a project on the same address and host, at every
\* step from the suspension of the switch to the swap of the handler, the route
\* stays on an open listener (detach with keep, commission with inherited).
THEOREM KeptRouteAlwaysStays ==
  ASSUME CanGoBack
  PROVE  Spec => []KeptRouteStays
<1>1. DaemonInv /\ ServiceInv /\ TableInv => KeptRouteStays
  <2> SUFFICES ASSUME DaemonInv, ServiceInv, TableInv, job.by = "reload",
                      NEW n \in DOMAIN job.cfg.projects, Old(n) # 0, Keeps(n)
               PROVE  LET b == reg[Old(n)].bind
                      IN /\ bnd[b].open /\ reg[Old(n)].cfg.host \in DOMAIN bnd[b].routes
                         /\ bnd[b].routes[reg[Old(n)].cfg.host] = reg[Old(n)].sw
    BY DEF KeptRouteStays
  <2>1. AtReload /\ Serves /\ AllRouted /\ Succession /\ run # "exited" /\ UnchangedServes
    BY JobIsKnown, ServiceOfUnchanged DEF ServiceInv, TableInv, RoutedInv, Live, DaemonInv, Teardown, Nobody
  <2>2. n \in Names /\ Old(n) \in DOMAIN reg
    BY <2>1, DiffIsTyped DEF DaemonInv, Jobs
  <2>3. \E r \in DOMAIN reg :
          /\ InUse(r) /\ reg[r].sw = reg[Old(n)].sw /\ reg[r].bind = reg[Old(n)].bind
          /\ reg[r].cfg.host = reg[Old(n)].cfg.host
    <3>1. CASE n \notin Changed
      BY <2>1, <2>2, <3>1 DEF UnchangedServes, Untouched, InUse, Pending
    <3>2. CASE n \in Changed /\ job.step = "detach"
      <4>1. table[n] = Old(n) /\ ~InHand(Old(n))
        BY <3>2 DEF DaemonInv, ReloadWork, InHand, Old
      <4>2. reg[Old(n)].retire = "no"
        BY <2>1, <2>2, <4>1 DEF DaemonInv, Teardown
      <4> QED
        BY <2>2, <4>2 DEF InUse, Pending
    <3>3. CASE n \in Changed /\ Awaits(n)
      BY <2>2, <3>3 DEF InUse, Pending, Kept
    <3>4. CASE n \in Changed /\ job.step = "rebuild" /\ <<2, n>> \notin job.todo
      <4>1. Succeeded(n)
        BY <2>1, <3>4 DEF Succession
      <4>2. table[n] \in DOMAIN reg
        BY <2>2, <4>1 DEF Succeeded, DaemonInv, Pointers
      <4> QED
        BY <4>1, <4>2 DEF Succeeded, InUse, Pending
    <3> QED
      BY <2>1, <3>1, <3>2, <3>3, <3>4 DEF Awaits, AtReload
  <2>4. PICK r \in DOMAIN reg :
          /\ InUse(r) /\ reg[r].sw = reg[Old(n)].sw /\ reg[r].bind = reg[Old(n)].bind
          /\ reg[r].cfg.host = reg[Old(n)].cfg.host
    BY <2>3
  <2>5. bnd[reg[r].bind].open /\ Routed(r)
    BY <2>1, <2>4 DEF Serves, InService, AllRouted
  <2> QED
    BY <2>4, <2>5 DEF Routed
<1> QED
  BY <1>1, DaemonInvariant, ServiceInvariant, TableInvariant, PTL
=============================================================================
