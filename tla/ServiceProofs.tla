---------------------------- MODULE ServiceProofs ---------------------------
(***************************************************************************)
(* A reload never touches what it does not change: UnchangedUntouched of   *)
(* Daemon, for any files, names, ports and number of reloads, whatever     *)
(* binds fail and whatever is restored or lost on the way.                 *)
(*                                                                         *)
(* DaemonInv says what a route leads to; ServiceInv says that what is not  *)
(* being replaced has a listener that is open and a switch of its own.     *)
(* The steps that could take it away are the close of a listener with its  *)
(* last project (Release), the close of an entry's listener, which must    *)
(* have no project on it (Apart), and the suspension of a switch, which    *)
(* must have no other project behind it (InService).  That a project is    *)
(* never put on an entry's listener rests on the rules of the loader for   *)
(* the new file, and for a restored registration on one open socket per    *)
(* port (Sockets) at the time the reload began.                            *)
(***************************************************************************)
EXTENDS DaemonProofs

-----------------------------------------------------------------------------
(* The invariant *)

\* The daemon binds, serves or reloads: neither a failed boot nor a shutdown
\* has begun to take it down.
Live == job.by \in {"boot", "reload"} \/ Quiet

\* One socket per port: a listener that is open is the one registered for its
\* port, and one that is registered is open.
Sockets ==
  /\ \A b \in DOMAIN bnd : bnd[b].open => bindings[bnd[b].port] = b
  /\ \A p \in Ports : bindings[p] # 0 => bnd[bindings[p]].open

\* No project is on the listener of an entry.
Apart == \A r \in DOMAIN reg : reg[r].bind # 0 => bnd[reg[r].bind].entry = 0

\* What Run has not bound yet
Pending(r) == job.by = "boot" /\ <<1, reg[r].name>> \in job.todo
PendingEntry(n) == job.by = "boot" /\ <<2, n>> \in job.todo

\* A registration that nobody retires, or whose route a reload keeps, is on an
\* open listener and has a switch of its own; it is behind that switch unless
\* the reload has suspended it.
InUse(r) == ~Pending(r) /\ (reg[r].retire = "no" \/ Kept(r))
InService ==
  /\ \A r \in DOMAIN reg : InUse(r) =>
       /\ reg[r].bind # 0 /\ bnd[reg[r].bind].open
       /\ reg[r].sw # 0 /\ (Kept(r) \/ sw[reg[r].sw] = r)
  /\ \A r, x \in DOMAIN reg : InUse(r) /\ InUse(x) /\ reg[r].sw = reg[x].sw => r = x

\* An entry in the table has an open listener of its own, on its port.
Bound(e) ==
  LET b == ent[e].bind
  IN b \in DOMAIN bnd /\ bnd[b].open /\ bnd[b].entry = e /\ bnd[b].port = ent[e].cfg.sup
EntriesServe == \A n \in EntryNames : entries[n] # 0 /\ ~PendingEntry(n) => Bound(entries[n])

Serves == Sockets /\ Apart /\ InService /\ EntriesServe

\* Run binds projects before entries.
BootSoFar ==
  job.by = "boot" =>
    /\ \A r \in DOMAIN reg : table[reg[r].name] = r
    /\ (\E n \in Names : <<1, n>> \in job.todo) => \A b \in DOMAIN bnd : bnd[b].entry = 0

\* What a reload leaves in the table. No project goes on an entry's port: the
\* entries left when it builds are entries of the new file, and none has the
\* port a changed project may have to go back to.
ReloadSoFar ==
  job.by = "reload" =>
    /\ Accepted(job.cfg)
    /\ \A n \in DOMAIN job.cfg.projects : Old(n) # 0 /\ n \notin Changed => table[n] = Old(n)
    /\ \A n \in EntryNames : job.oldEnt[n] # 0 => job.oldEnt[n] \in DOMAIN ent
    /\ \A n \in EntryNames : job.oldEnt[n] # 0 /\ EntryStays(n) => entries[n] = job.oldEnt[n]
    /\ job.step = "rebuild" => \A n \in EntryNames : entries[n] # 0 =>
         n \in WildcardNames(job.cfg) /\ ent[entries[n]].cfg.sup = EntryNamed(job.cfg, n).sup
    /\ \A n \in Changed : job.step # "rebuild" \/ <<2, n>> \in job.todo =>
         \A m \in EntryNames : entries[m] # 0 => ent[entries[m]].cfg.sup # reg[Old(n)].cfg.sup

ServiceInv == Live => Serves /\ BootSoFar /\ ReloadSoFar

\* A step of a reload, or beside it, that does not end it: the diff stays, and
\* what the reload has not in hand stays where it is.
Continues ==
  job.by = "reload" /\ job'.by = "reload" =>
    /\ job'.cfg = job.cfg /\ job'.old = job.old /\ job'.oldEnt = job.oldEnt
    /\ \A r \in DOMAIN reg :
         /\ r \in DOMAIN reg' /\ reg'[r].name = reg[r].name /\ reg'[r].cfg = reg[r].cfg
         /\ reg'[r].sw = reg[r].sw /\ (InHand(r) \/ reg'[r].bind = reg[r].bind)
    /\ \A e \in DOMAIN ent : e \in DOMAIN ent' /\ ent'[e] = ent[e]

-----------------------------------------------------------------------------
(* The jobs *)

LEMMA JobIsKnown ==
  ASSUME DaemonInv
  PROVE  /\ job.by = "reload" => AtReload
         /\ job.by = "boot" => AtBoot
         /\ job.by = "stop" => AtStop
         /\ job.by \in {"none", "boot", "reload", "stop"}
         /\ job.by = "none" => job = Nobody
  BY DEF DaemonInv, Jobs, AtBoot, AtReload, AtStop, Nobody

\* What the reload has not in its diff, and the entries, stay: so does all it
\* has left in the table.
LEMMA ReloadGoesOn ==
  ASSUME DaemonInv, ReloadSoFar, Shapes', Continues, job.by = "reload", job'.by = "reload",
         \A n \in Names : table'[n] = table[n] \/ n \in Added \cup Changed \cup Removed,
         entries' = entries,
         job'.step = "rebuild" <=> job.step = "rebuild", job'.todo \subseteq job.todo
  PROVE  ReloadSoFar'
<1>1. AtReload
  BY JobIsKnown
<1>2. CfgsStay
  BY DEF Continues, CfgsStay
<1>3. /\ Added' = Added /\ Changed' = Changed
      /\ \A n \in Names : Old(n)' = Old(n)
  BY <1>1, <1>2, DiffIsStable DEF DaemonInv, Continues
<1>4. /\ job'.cfg = job.cfg /\ job'.oldEnt = job.oldEnt
      /\ \A e \in DOMAIN ent : e \in DOMAIN ent' /\ ent'[e] = ent[e]
  BY DEF Continues
<1>5. \A n \in EntryNames : job.oldEnt[n] # 0 =>
        /\ job.oldEnt[n] \in DOMAIN ent
        /\ EntryStays(n)' <=> EntryStays(n)
  BY <1>4 DEF ReloadSoFar, EntryStays
<1>6. \A n \in DOMAIN job.cfg.projects : Old(n) # 0 /\ n \notin Changed =>
        n \in Names /\ table'[n] = Old(n)
  BY <1>1, DiffIsTyped DEF DaemonInv, ReloadSoFar, Added, Removed
<1>7. \A m \in EntryNames : entries[m] # 0 => entries[m] \in DOMAIN ent
  BY DEF DaemonInv, Pointers
<1>8. \A n \in Changed : n \in Names /\ Old(n) \in DOMAIN reg /\ reg'[Old(n)].cfg = reg[Old(n)].cfg
  BY <1>1, <1>2, DiffIsTyped DEF DaemonInv, CfgsStay
<1>9. Accepted(job'.cfg)
  BY <1>4 DEF ReloadSoFar
<1>10. (\A n \in DOMAIN job.cfg.projects : Old(n) # 0 /\ n \notin Changed => table[n] = Old(n))'
  BY <1>3, <1>4, <1>6, <1>1, DiffIsTyped DEF DaemonInv
<1>11. (\A n \in EntryNames : job.oldEnt[n] # 0 => job.oldEnt[n] \in DOMAIN ent)'
  BY <1>4, <1>5
<1>12. (\A n \in EntryNames : job.oldEnt[n] # 0 /\ EntryStays(n) => entries[n] = job.oldEnt[n])'
  BY <1>4, <1>5 DEF ReloadSoFar
<1>13. (job.step = "rebuild" => \A n \in EntryNames : entries[n] # 0 =>
         n \in WildcardNames(job.cfg) /\ ent[entries[n]].cfg.sup = EntryNamed(job.cfg, n).sup)'
  BY <1>4, <1>7 DEF ReloadSoFar
<1>14. (\A n \in Changed : job.step # "rebuild" \/ <<2, n>> \in job.todo =>
         \A m \in EntryNames : entries[m] # 0 => ent[entries[m]].cfg.sup # reg[Old(n)].cfg.sup)'
  <2> SUFFICES ASSUME NEW n \in Changed, job'.step # "rebuild" \/ <<2, n>> \in job'.todo,
                      NEW m \in EntryNames, entries[m] # 0
               PROVE  ent'[entries[m]].cfg.sup # reg'[Old(n)].cfg.sup
    BY <1>3, <1>8
  <2>1. job.step # "rebuild" \/ <<2, n>> \in job.todo
    OBVIOUS
  <2>2. ent[entries[m]].cfg.sup # reg[Old(n)].cfg.sup
    BY <2>1 DEF ReloadSoFar
  <2> QED
    BY <1>4, <1>7, <1>8, <2>2
<1> QED
  BY <1>9, <1>10, <1>11, <1>12, <1>13, <1>14 DEF ReloadSoFar

-----------------------------------------------------------------------------
(* Steps that move nothing *)

\* No object is added, pointers stay, and nothing new comes into use.
Still ==
  /\ DOMAIN reg' = DOMAIN reg
  /\ \A r \in DOMAIN reg :
       /\ reg'[r].name = reg[r].name /\ reg'[r].cfg = reg[r].cfg /\ reg'[r].sw = reg[r].sw
       /\ reg'[r].bind = reg[r].bind /\ (reg'[r].retire = "no" => reg[r].retire = "no")
  /\ entries' = entries /\ bindings' = bindings /\ sw' = sw /\ bnd' = bnd /\ ent' = ent

LEMMA StillServes ==
  ASSUME Serves, Still,
         \A r \in DOMAIN reg : (Kept(r)' <=> Kept(r)) /\ (Pending(r) => Pending(r)'),
         \A n \in EntryNames : PendingEntry(n) => PendingEntry(n)'
  PROVE  Serves'
<1>1. \A r \in DOMAIN reg : InUse(r)' => InUse(r)
  BY DEF InUse, Still
<1>2. Sockets' /\ Apart'
  BY DEF Serves, Sockets, Apart, Still
<1>3. InService'
  BY <1>1 DEF Serves, InService, Still
<1>4. EntriesServe'
  BY DEF Serves, EntriesServe, Bound, Still
<1> QED
  BY <1>2, <1>3, <1>4 DEF Serves

\* The same while the job is the same, as for requests, processes and the
\* later steps of a teardown.
LEMMA StillSteps ==
  ASSUME DaemonInv, ServiceInv, Shapes', Still, table' = table, job' = job, run' = run
  PROVE  ServiceInv' /\ Continues
<1>0. HeapInv /\ HeapInv' /\ CfgsStay
  <2>1. HeapInv /\ Shrinks
    BY DEF DaemonInv, HeapInv, Shrinks, Still
  <2> QED
    BY <2>1, ShrinkingKeepsHeap DEF CfgsStay, Still
<1>1. Continues
  BY DEF Continues, Still
<1>2. Live' <=> Live
  BY DEF Live, Quiet
<1>3. /\ \A r \in DOMAIN reg : (Kept(r)' <=> Kept(r)) /\ (Pending(r)' <=> Pending(r))
      /\ \A n \in EntryNames : PendingEntry(n)' <=> PendingEntry(n)
  <2>1. \A r : Kept(r)' <=> Kept(r)
    BY <1>0, JobStays
  <2> QED
    BY <2>1 DEF Pending, PendingEntry, Still
<1>4. Live => Serves' /\ BootSoFar'
  BY <1>3, StillServes DEF ServiceInv, BootSoFar, Still
<1>5. Live => ReloadSoFar'
  <2>1. CASE job.by = "reload"
    <3>1. ReloadSoFar
      BY <2>1 DEF ServiceInv, Live
    <3> QED
      BY <1>1, <2>1, <3>1, ReloadGoesOn DEF Still
  <2>2. CASE job.by # "reload"
    BY <2>2 DEF ReloadSoFar
  <2> QED
    BY <2>1, <2>2
<1> QED
  BY <1>1, <1>2, <1>4, <1>5 DEF ServiceInv

LEMMA RequestsServe ==
  ASSUME DaemonInv, ServiceInv, NEW q \in Requests, RequestWorks(q) \/ RequestComes(q)
  PROVE  ServiceInv' /\ Continues
<1>1. Shapes' /\ Steady /\ job' = job /\ run' = run
  BY RequestsAreSteady
<1>2. Still /\ table' = table
  BY <1>1 DEF Still, Steady
<1> QED
  BY <1>1, <1>2, StillSteps

LEMMA ProcessesServe ==
  ASSUME DaemonInv, ServiceInv, NEW r \in DOMAIN reg, ProcWorks(r)
  PROVE  ServiceInv' /\ Continues
<1>1. Shapes' /\ Steady /\ job' = job /\ run' = run
  BY ProcessesAreSteady
<1>2. Still /\ table' = table
  BY <1>1 DEF Still, Steady
<1> QED
  BY <1>1, <1>2, StillSteps

\* The daemon is being taken down: nothing is claimed.
LEMMA DownServes ==
  ASSUME ~Live', job'.by # "reload"
  PROVE  ServiceInv' /\ Continues
  BY DEF ServiceInv, Continues

LEMMA DownSteps ==
  ASSUME DaemonInv, BootFails \/ StopAllBegins \/ StopAllEnds
  PROVE  ServiceInv' /\ Continues
<1>1. job'.by \in {"none", "stop"} /\ run' # "running"
  BY DEF BootFails, StopAllBegins, StopAllEnds, Nobody
<1>2. ~Live'
  BY <1>1 DEF Live, Quiet
<1> QED
  BY <1>1, <1>2, DownServes

\* While nobody holds reloadMu and the daemon runs, nothing is being retired.
LEMMA QuietIsInUse ==
  ASSUME DaemonInv, Quiet
  PROVE  \A n \in Names : table[n] # 0 => table[n] \in DOMAIN reg /\ InUse(table[n])
<1>1. job.by = "none" /\ run # "exited"
  BY DEF Quiet, Nobody
<1>2. \A r : ~InHand(r)
  BY <1>1 DEF InHand
<1> QED
  BY <1>1, <1>2 DEF DaemonInv, Teardown, Pointers, InUse, Pending

\* A project in use and an entry are not on one port.
LEMMA PortsDiffer ==
  ASSUME DaemonInv, Serves, NEW r \in DOMAIN reg, InUse(r),
         NEW n \in EntryNames, entries[n] # 0, ~PendingEntry(n)
  PROVE  ent[entries[n]].cfg.sup # reg[r].cfg.sup
<1>1. /\ reg[r].bind # 0 /\ reg[r].bind \in DOMAIN bnd /\ bnd[reg[r].bind].port = reg[r].cfg.sup
      /\ bnd[reg[r].bind].open /\ bnd[reg[r].bind].entry = 0
  BY DEF Serves, InService, Apart, DaemonInv, Pointers
<1>2. Bound(entries[n])
  BY DEF Serves, EntriesServe
<1> SUFFICES ASSUME ent[entries[n]].cfg.sup = reg[r].cfg.sup PROVE FALSE
  OBVIOUS
<1>3. ent[entries[n]].bind = reg[r].bind
  BY <1>1, <1>2 DEF Bound, Serves, Sockets
<1> QED
  BY <1>1, <1>2, <1>3 DEF Bound

LEMMA ReloadBeginsServes ==
  ASSUME DaemonInv, ServiceInv, ReloadBegins
  PROVE  ServiceInv' /\ Continues
<1>1. /\ Quiet /\ job.by = "none" /\ run' = run
      /\ table' = table /\ entries' = entries /\ bindings' = bindings /\ reg' = reg /\ sw' = sw
      /\ bnd' = bnd /\ ent' = ent
  BY DEF ReloadBegins, heap, Quiet, Nobody
<1>2. Still /\ Shapes'
  BY <1>1 DEF Still, DaemonInv, Shapes
<1>3. CASE job' = job
  BY <1>1, <1>2, <1>3, StillSteps
<1>4. CASE job' # job
  <2>1. PICK f \in Files :
          /\ Accepted(f)
          /\ job' = [by |-> "reload", step |-> "detach", cfg |-> f, old |-> table,
                     oldEnt |-> entries, items |-> {}, todo |-> {}]
    BY <1>4 DEF ReloadBegins
  <2>2. /\ job'.by = "reload" /\ job'.step = "detach" /\ job'.cfg = f /\ job'.old = table
        /\ job'.oldEnt = entries
    BY <2>1
  <2>3. Serves
    BY <1>1 DEF ServiceInv, Live
  <2>4. \A r : ~Kept(r) /\ ~Kept(r)' /\ ~Pending(r)
    BY <1>1, <2>2 DEF Kept, Awaits, Pending
  <2>5. \A n : ~PendingEntry(n)
    BY <1>1 DEF PendingEntry
  <2>6. Serves'
    BY <1>2, <2>3, <2>4, <2>5, StillServes
  <2>7. BootSoFar' /\ Continues
    BY <1>1, <2>2 DEF BootSoFar, Continues
  <2>8. \A n \in DOMAIN f.projects : n \in Names
    BY FilesAssumption
  <2>9. \A n \in Names : Old(n)' = table[n]
    BY <2>2 DEF Old
  <2>10. ASSUME NEW n \in Changed', NEW m \in EntryNames, entries[m] # 0
         PROVE  ent[entries[m]].cfg.sup # reg[Old(n)'].cfg.sup
    <3>1. n \in Names /\ Old(n)' # 0
      BY <2>2, <2>8 DEF Changed
    <3>2. table[n] \in DOMAIN reg /\ InUse(table[n])
      BY <1>1, <2>9, <3>1, QuietIsInUse
    <3> QED
      BY <2>3, <2>5, <2>9, <2>10, <3>1, <3>2, PortsDiffer
  <2>11. \A m \in EntryNames : entries[m] # 0 => entries[m] \in DOMAIN ent
    BY DEF DaemonInv, Pointers
  <2>12. ReloadSoFar'
    BY <1>1, <2>1, <2>2, <2>8, <2>9, <2>10, <2>11 DEF ReloadSoFar
  <2> QED
    BY <2>6, <2>7, <2>12 DEF ServiceInv
<1> QED
  BY <1>3, <1>4

LEMMA ReloadEndsServes ==
  ASSUME DaemonInv, ServiceInv, ReloadEnds
  PROVE  ServiceInv' /\ Continues
<1>1. /\ job.by = "reload" /\ job.step = "rebuild" /\ job.todo = {} /\ job'.by = "none"
      /\ entries' = entries /\ bindings' = bindings /\ reg' = reg /\ sw' = sw
      /\ bnd' = bnd /\ ent' = ent
  BY DEF ReloadEnds, heap, Nobody
<1>2. Still /\ Serves
  BY <1>1 DEF Still, ServiceInv, Live
<1>3. \A r : ~Kept(r) /\ ~Kept(r)' /\ ~Pending(r)
  BY <1>1 DEF Kept, Awaits, Pending
<1>4. \A n : ~PendingEntry(n)
  BY <1>1 DEF PendingEntry
<1>5. Serves'
  BY <1>2, <1>3, <1>4, StillServes
<1> QED
  BY <1>1, <1>5 DEF ServiceInv, Continues, BootSoFar, ReloadSoFar

LEMMA DrainServes ==
  ASSUME DaemonInv, ServiceInv, Drain
  PROVE  ServiceInv' /\ Continues
<1>1. /\ run = "running" /\ run' = "draining" /\ job' = job
      /\ table' = table /\ entries' = entries /\ bindings' = bindings /\ reg' = reg /\ sw' = sw
      /\ bnd' = bnd /\ ent' = ent
  BY DEF Drain, heap
<1>2. CASE job.by = "reload"
  <2>1. Still /\ Shapes' /\ CfgsStay
    BY <1>1 DEF Still, CfgsStay, DaemonInv, Shapes, Runs
  <2>2. Continues
    BY <1>1 DEF Continues
  <2>3. Serves /\ ReloadSoFar
    BY <1>2 DEF ServiceInv, Live
  <2>4. Serves'
    <3>1. \A r : (Kept(r)' <=> Kept(r)) /\ ~Pending(r)
      BY <1>1, <1>2 DEF Kept, Awaits, Pending, Changed, Keeps, Old, Dynamic
    <3>2. \A n : ~PendingEntry(n)
      BY <1>2 DEF PendingEntry
    <3> QED
      BY <2>1, <2>3, <3>1, <3>2, StillServes
  <2>5. ReloadSoFar'
    BY <1>1, <1>2, <2>1, <2>2, <2>3, ReloadGoesOn
  <2> QED
    BY <1>1, <1>2, <2>2, <2>4, <2>5 DEF ServiceInv, BootSoFar
<1>3. CASE job.by = "boot"
  <2>1. Serves /\ BootSoFar
    BY <1>3 DEF ServiceInv, Live
  <2>2. Still
    BY <1>1 DEF Still
  <2>3. \A r : ~Kept(r) /\ ~Kept(r)' /\ (Pending(r)' <=> Pending(r))
    BY <1>1, <1>3 DEF Kept, Awaits, Pending
  <2>4. \A n : PendingEntry(n)' <=> PendingEntry(n)
    BY <1>1 DEF PendingEntry
  <2>5. Serves'
    BY <2>1, <2>2, <2>3, <2>4, StillServes
  <2> QED
    BY <1>1, <1>3, <2>1, <2>5 DEF ServiceInv, Continues, BootSoFar, ReloadSoFar
<1>4. CASE job.by \notin {"boot", "reload"}
  <2>1. ~Live' /\ job'.by # "reload"
    BY <1>1, <1>4 DEF Live, Quiet
  <2> QED
    BY <2>1, DownServes
<1> QED
  BY <1>2, <1>3, <1>4

LEMMA BootEndsServes ==
  ASSUME DaemonInv, ServiceInv, BootEnds
  PROVE  ServiceInv' /\ Continues
<1>1. /\ job.by = "boot" /\ job.todo = {} /\ job'.by = "none"
      /\ reg' = [r \in DOMAIN reg |-> Activated(reg[r])]
      /\ entries' = entries /\ bindings' = bindings /\ sw' = sw /\ bnd' = bnd /\ ent' = ent
  BY DEF BootEnds, Nobody
<1>2. ObjectsAreTyped
  BY ShapesOf DEF DaemonInv
<1>3. DOMAIN reg' = DOMAIN reg /\ \A r \in DOMAIN reg : reg'[r] = Activated(reg[r])
  BY <1>1
<1>4. Still
  BY <1>1, <1>2, <1>3, ActivateEffect DEF Still, ObjectsAreTyped
<1>5. \A r : ~Kept(r) /\ ~Kept(r)' /\ ~Pending(r)
  BY <1>1 DEF Kept, Awaits, Pending
<1>6. \A n : ~PendingEntry(n)
  BY <1>1 DEF PendingEntry
<1>7. Serves
  BY <1>1 DEF ServiceInv, Live
<1>8. Serves'
  BY <1>4, <1>5, <1>6, <1>7, StillServes
<1> QED
  BY <1>1, <1>8 DEF ServiceInv, Continues, BootSoFar, ReloadSoFar

-----------------------------------------------------------------------------
(* A teardown *)

\* A listener with another member is not released by the first.
LEMMA AnotherMember ==
  ASSUME DaemonInv, NEW b \in DOMAIN bnd, NEW r \in Members(b), NEW x \in Members(b), r # x
  PROVE  bnd[b].members - 1 > 0
<1>1. IsFiniteSet(Members(b)) /\ Cardinality(Members(b)) \in Nat
  BY MembersAreFinite DEF DaemonInv
<1>2. Cardinality(Members(b) \ {r}) = Cardinality(Members(b)) - 1
  BY OneMemberLess DEF DaemonInv
<1>3. IsFiniteSet(Members(b) \ {r}) /\ Members(b) \ {r} # {}
  BY <1>1, FS_RemoveElement
<1>4. Cardinality(Members(b) \ {r}) \in Nat /\ Cardinality(Members(b) \ {r}) # 0
  BY <1>3, FS_CardinalityType, FS_EmptySet
<1>5. bnd[b].members = Cardinality(Members(b))
  BY DEF DaemonInv, Listeners
<1> QED
  BY <1>1, <1>2, <1>4, <1>5

LEMMA TakingOffServes ==
  ASSUME DaemonInv, Serves, NEW r \in DOMAIN reg, NEW keep \in BOOLEAN, TakenOff(r, keep),
         job.by = "reload", keep <=> Kept(r),
         \A x \in DOMAIN reg : (Kept(x)' <=> Kept(x)) /\ ~Pending(x) /\ ~Pending(x)',
         \A n : ~PendingEntry(n)
  PROVE  Serves'
<1>0. ObjectsAreTyped /\ Pointers
  BY ShapesOf DEF DaemonInv
<1>1. /\ reg[r].retire = "no" /\ reg'[r].retire = "off" /\ reg'[r].sw = reg[r].sw
      /\ DOMAIN reg' = DOMAIN reg /\ \A x \in DOMAIN reg \ {r} : reg'[x] = reg[x]
      /\ reg'[r].bind = IF keep THEN reg[r].bind ELSE 0
      /\ entries' = entries /\ ent' = ent
      /\ DOMAIN sw' = DOMAIN sw
      /\ \A s \in DOMAIN sw : sw'[s] = IF keep /\ s = reg[r].sw THEN 0 ELSE sw[s]
      /\ keep => bnd' = bnd /\ bindings' = bindings
  BY DEF TakenOff
<1>2. PICK b : b = reg[r].bind
  OBVIOUS
<1>3. /\ InUse(r) /\ b # 0 /\ b \in DOMAIN bnd /\ bnd[b].open /\ bnd[b].entry = 0
      /\ bnd[b].members \in Int
  BY <1>0, <1>1, <1>2 DEF InUse, Serves, InService, Apart, Pointers, ObjectsAreTyped
<1>4. ~keep =>
        /\ DOMAIN bnd' = DOMAIN bnd /\ \A x \in DOMAIN bnd \ {b} : bnd'[x] = bnd[x]
        /\ bnd'[b].port = bnd[b].port /\ bnd'[b].entry = 0
        /\ bnd'[b].open <=> bnd[b].members - 1 > 0
        /\ \A p \in Ports : bindings'[p] =
             IF bnd[b].members - 1 <= 0 /\ bindings[p] = b THEN 0 ELSE bindings[p]
  <2> SUFFICES ASSUME ~keep
               PROVE  /\ DOMAIN bnd' = DOMAIN bnd /\ \A x \in DOMAIN bnd \ {b} : bnd'[x] = bnd[x]
                      /\ bnd'[b].port = bnd[b].port /\ bnd'[b].entry = 0
                      /\ bnd'[b].open <=> bnd[b].members - 1 > 0
                      /\ \A p \in Ports : bindings'[p] =
                           IF bnd[b].members - 1 <= 0 /\ bindings[p] = b THEN 0 ELSE bindings[p]
    OBVIOUS
  <2>1. /\ DOMAIN bnd' = DOMAIN bnd /\ \A x \in DOMAIN bnd \ {b} : bnd'[x] = bnd[x]
        /\ bnd'[b].port = bnd[b].port /\ bnd'[b].entry = bnd[b].entry
        /\ bnd'[b].members = bnd[b].members - 1
        /\ bnd'[b].open <=> bnd[b].open /\ ~(bnd'[b].members <= 0 /\ bnd'[b].entry = 0)
        /\ \A p \in Ports : bindings'[p] =
             IF bnd'[b].members <= 0 /\ bnd'[b].entry = 0 /\ bindings[p] = b THEN 0 ELSE bindings[p]
    BY <1>2, <1>3 DEF TakenOff
  <2> QED
    BY <1>3, <2>1
<1>5. \A x \in DOMAIN reg \ {r} : InUse(x)' <=> InUse(x)
  BY <1>1 DEF InUse
<1>6. InUse(r)' <=> keep
  BY <1>1 DEF InUse
<1>7. Sockets'
  <2>1. CASE keep
    BY <1>1, <2>1 DEF Serves, Sockets
  <2>2. CASE ~keep
    <3>1. ASSUME NEW x \in DOMAIN bnd', bnd'[x].open
          PROVE  bindings'[bnd'[x].port] = x
      <4>1. /\ x \in DOMAIN bnd /\ bnd[x].open /\ bnd'[x].port = bnd[x].port /\ bnd[x].port \in Ports
            /\ x = b => bnd[b].members - 1 > 0
        BY <1>0, <1>3, <1>4, <2>2, <3>1 DEF ObjectsAreTyped, Listener
      <4>2. bindings[bnd[x].port] = x
        BY <4>1 DEF Serves, Sockets
      <4> QED
        BY <1>3, <1>4, <2>2, <4>1, <4>2
    <3>2. ASSUME NEW p \in Ports, bindings'[p] # 0
          PROVE  bnd'[bindings'[p]].open
      <4>1. bindings'[p] = bindings[p] /\ (bindings[p] = b => bnd[b].members - 1 > 0)
        BY <1>3, <1>4, <2>2, <3>2
      <4>2. bindings[p] \in DOMAIN bnd /\ bnd[bindings[p]].open
        BY <1>0, <3>2, <4>1 DEF Serves, Sockets, Pointers
      <4> QED
        BY <1>4, <2>2, <4>1, <4>2
    <3> QED
      BY <3>1, <3>2 DEF Sockets
  <2> QED
    BY <2>1, <2>2
<1>8. Apart'
  <2> SUFFICES ASSUME NEW x \in DOMAIN reg, reg'[x].bind # 0
               PROVE  bnd'[reg'[x].bind].entry = 0
    BY <1>1 DEF Apart
  <2>1. reg'[x].bind = reg[x].bind
    BY <1>1
  <2>2. reg[x].bind \in DOMAIN bnd /\ bnd[reg[x].bind].entry = 0
    BY <1>0, <2>1 DEF Serves, Apart, Pointers
  <2> QED
    BY <1>1, <1>4, <2>1, <2>2
<1>9. InService'
  <2>1. ASSUME NEW x \in DOMAIN reg, InUse(x)'
        PROVE  /\ InUse(x) /\ reg'[x].sw = reg[x].sw
               /\ reg'[x].bind # 0 /\ bnd'[reg'[x].bind].open
               /\ reg'[x].sw # 0 /\ (Kept(x)' \/ sw'[reg'[x].sw] = x)
    <3>1. InUse(x)
      BY <1>3, <1>5, <2>1
    <3>2. /\ reg[x].bind # 0 /\ reg[x].bind \in DOMAIN bnd /\ bnd[reg[x].bind].open
          /\ reg[x].sw # 0 /\ reg[x].sw \in DOMAIN sw /\ (Kept(x) \/ sw[reg[x].sw] = x)
      BY <1>0, <3>1 DEF Serves, InService, Pointers
    <3>3. CASE x = r
      BY <1>1, <1>6, <2>1, <3>1, <3>2, <3>3
    <3>4. CASE x # r
      <4>1. reg[x].sw # reg[r].sw
        BY <1>3, <3>1, <3>4 DEF Serves, InService
      <4>2. Kept(x)' \/ sw'[reg[x].sw] = x
        BY <1>1, <3>2, <4>1
      <4>3. reg[x].bind = b => bnd[b].members - 1 > 0
        <5> SUFFICES ASSUME reg[x].bind = b PROVE bnd[b].members - 1 > 0
          OBVIOUS
        <5>1. r \in Members(b) /\ x \in Members(b)
          BY <1>2, <1>3, <3>1 DEF Members, InUse
        <5> QED
          BY <1>3, <3>4, <5>1, AnotherMember
      <4>4. bnd'[reg[x].bind].open
        BY <1>1, <1>4, <3>2, <4>3
      <4> QED
        BY <1>1, <3>1, <3>2, <3>4, <4>2, <4>4
    <3> QED
      BY <3>3, <3>4
  <2>2. \A x, y \in DOMAIN reg : InUse(x)' /\ InUse(y)' /\ reg'[x].sw = reg'[y].sw => x = y
    BY <2>1 DEF Serves, InService
  <2> QED
    BY <1>1, <2>1, <2>2 DEF InService
<1>10. EntriesServe'
  <2> SUFFICES ASSUME NEW n \in EntryNames, entries[n] # 0 PROVE Bound(entries[n])'
    BY <1>1 DEF EntriesServe
  <2>1. Bound(entries[n])
    BY DEF Serves, EntriesServe
  <2>2. ent[entries[n]].bind # b
    BY <1>3, <2>1 DEF Bound
  <2> QED
    BY <1>1, <1>4, <2>1, <2>2 DEF Bound
<1> QED
  BY <1>7, <1>8, <1>9, <1>10 DEF Serves

LEMMA JobRetiresServes ==
  ASSUME DaemonInv, ServiceInv, DaemonInv', JobRetires
  PROVE  ServiceInv' /\ Continues
<1>1. job' = job /\ run' = run /\ HeapInv /\ HeapInv' /\ run' \in Runs
  BY DEF JobRetires, DaemonInv, Shapes, HeapInv
<1>2. InTeardown /\ Retiring
  BY DEF JobRetires, DaemonInv, Jobs, AtBoot, AtReload, AtStop, InTeardown, Nobody, Retiring
<1>3. PICK i \in job.items : TakeOff(i.reg, i.keep) \/ RetireAndStop(i.reg) \/ StopReturns(i.reg)
  BY DEF JobRetires
<1>4. i.reg \in DOMAIN reg /\ i.keep \in BOOLEAN
  BY <1>2 DEF DaemonInv, Jobs
<1>5. PICK r \in DOMAIN reg, keep \in BOOLEAN : i.reg = r /\ i.keep = keep
  BY <1>4
<1>6. CASE job.by # "reload"
  <2>1. ~Live' /\ job'.by # "reload"
    BY <1>1, <1>2, <1>6 DEF Live, Quiet, Retiring, Nobody
  <2> QED
    BY <2>1, DownServes
<1>7. CASE RetireAndStop(r) \/ StopReturns(r)
  <2>1. Shapes' /\ MovesOn(r)
    BY <1>1, <1>7, MoveEffect DEF HeapInv
  <2>2. Still /\ table' = table
    BY <2>1 DEF Still, MovesOn, HeapButReg
  <2> QED
    BY <1>1, <2>1, <2>2, StillSteps
<1>8. CASE job.by = "reload" /\ TakeOff(r, keep)
  <2>1. TakenOff(r, keep) /\ Serves /\ ReloadSoFar
    BY <1>1, <1>8, TakeOffEffect DEF ServiceInv, Live
  <2>2. /\ table' = table /\ entries' = entries /\ ent' = ent /\ DOMAIN reg' = DOMAIN reg
        /\ \A x \in DOMAIN reg \ {r} : reg'[x] = reg[x]
        /\ reg'[r].name = reg[r].name /\ reg'[r].cfg = reg[r].cfg /\ reg'[r].sw = reg[r].sw
    BY <2>1 DEF TakenOff
  <2>3. CfgsStay
    BY <2>2 DEF CfgsStay
  <2>4. \A x : Kept(x)' <=> Kept(x)
    BY <1>1, <2>2, <2>3, JobStays
  <2>5. keep <=> Kept(r)
    <3>1. keep <=> \E n \in Changed : Keeps(n) /\ r = Old(n)
      BY <1>5, <1>8 DEF DaemonInv, ReloadWork
    <3>2. Changed \subseteq Names
      BY <1>8, JobIsKnown, DiffIsTyped DEF DaemonInv
    <3> QED
      BY <1>2, <1>8, <3>1, <3>2 DEF Kept, Awaits, Retiring
  <2>6. /\ \A x \in DOMAIN reg : ~Pending(x) /\ ~Pending(x)'
        /\ \A n : ~PendingEntry(n)
    BY <1>1, <1>8 DEF Pending, PendingEntry
  <2>7. Serves'
    BY <1>8, <2>1, <2>4, <2>5, <2>6, TakingOffServes
  <2>8. Continues
    <3>1. InHand(r)
      BY <1>5, <1>8 DEF InHand
    <3> QED
      BY <1>1, <2>2, <3>1 DEF Continues
  <2>9. ReloadSoFar'
    BY <1>1, <1>8, <2>1, <2>2, <2>8, ReloadGoesOn DEF HeapInv
  <2> QED
    BY <1>1, <1>8, <2>7, <2>8, <2>9 DEF ServiceInv, BootSoFar
<1> QED
  BY <1>3, <1>5, <1>6, <1>7, <1>8

-----------------------------------------------------------------------------
(* A reload takes out of service what it changes *)

LEMMA ReloadDetachesServes ==
  ASSUME DaemonInv, ServiceInv, DaemonInv', ReloadDetaches
  PROVE  ServiceInv' /\ Continues
<1>0. ObjectsAreTyped /\ Pointers /\ Shapes'
  BY ShapesOf DEF DaemonInv
<1>1. /\ job.by = "reload" /\ job.step = "detach" /\ AtReload /\ job.items = {} /\ run # "exited"
      /\ \A n \in Names : Old(n) = table[n]
      /\ table' = [n \in Names |-> IF n \in Removed THEN 0 ELSE table[n]]
      /\ sw' = [s \in DOMAIN sw |->
                  IF \E n \in Changed : Keeps(n) /\ reg[table[n]].sw = s THEN 0 ELSE sw[s]]
      /\ job' = [job EXCEPT !.step = "retire", !.items = Items]
      /\ entries' = entries /\ bindings' = bindings /\ reg' = reg /\ bnd' = bnd /\ ent' = ent
  BY DetachEffect
<1>2. Serves /\ ReloadSoFar
  BY <1>1 DEF ServiceInv, Live
<1>3. /\ job'.by = "reload" /\ job'.step = "retire" /\ job'.cfg = job.cfg /\ job'.old = job.old
      /\ job'.oldEnt = job.oldEnt /\ job'.todo = job.todo
  BY <1>1 DEF AtReload
<1>4. Continues /\ CfgsStay
  BY <1>1, <1>3 DEF Continues, CfgsStay
<1>5. ReloadSoFar'
  <2>1. \A n \in Names : table'[n] = table[n] \/ n \in Removed
    BY <1>1
  <2> QED
    BY <1>0, <1>1, <1>2, <1>3, <1>4, <2>1, ReloadGoesOn
<1>6. /\ Changed' = Changed /\ Changed \subseteq Names
      /\ \A n \in Names : Old(n)' = Old(n)
      /\ \A n \in Changed : Keeps(n)' <=> Keeps(n)
      /\ \A n \in Changed : Old(n) # 0 /\ Old(n) \in DOMAIN reg
  BY <1>0, <1>1, <1>3, <1>4, DiffIsStable, DiffIsTyped DEF DaemonInv
<1>7. \A r : ~Kept(r) /\ ~Pending(r) /\ ~Pending(r)'
  BY <1>1, <1>3 DEF Kept, Awaits, Pending
<1>8. \A r : Kept(r)' <=> \E n \in Changed : Keeps(n) /\ table[n] = r
  BY <1>1, <1>3, <1>6 DEF Kept, Awaits
<1>9. \A n \in Changed : table[n] \in DOMAIN reg /\ reg[table[n]].retire = "no" /\ InUse(table[n])
  <2>1. \A r : ~InHand(r)
    BY <1>1 DEF InHand
  <2> QED
    BY <1>1, <1>6, <1>7, <2>1 DEF DaemonInv, Teardown, InUse
<1>10. \A r \in DOMAIN reg : InUse(r)' => InUse(r)
  BY <1>1, <1>7, <1>8, <1>9 DEF InUse
<1>11. \A r \in DOMAIN reg : InUse(r)' => Kept(r)' \/ sw'[reg[r].sw] = r
  <2> SUFFICES ASSUME NEW r \in DOMAIN reg, InUse(r)', ~Kept(r)' PROVE sw'[reg[r].sw] = r
    OBVIOUS
  <2>1. /\ InUse(r) /\ reg[r].sw # 0 /\ reg[r].sw \in DOMAIN sw /\ sw[reg[r].sw] = r
    BY <1>0, <1>2, <1>7, <1>10 DEF Serves, InService, Pointers
  <2>2. \A n \in Changed : Keeps(n) => reg[table[n]].sw # reg[r].sw
    BY <1>2, <1>8, <1>9, <2>1 DEF Serves, InService
  <2> QED
    BY <1>1, <2>1, <2>2
<1>12. InService'
  BY <1>1, <1>2, <1>10, <1>11 DEF Serves, InService
<1>13. Sockets' /\ Apart'
  BY <1>1, <1>2 DEF Serves, Sockets, Apart
<1>14. EntriesServe'
  BY <1>1, <1>2 DEF Serves, EntriesServe, Bound, PendingEntry
<1> QED
  BY <1>3, <1>4, <1>5, <1>12, <1>13, <1>14 DEF ServiceInv, Serves, BootSoFar

\* An entry that stays has its port in the new file.
LEMMA StayingPort ==
  ASSUME NEW d \in UNION {Wildcards(f) : f \in Files \cup {Boot}},
         NEW o \in UNION {Wildcards(f) : f \in Files \cup {Boot}}, EquivalentEntry(d, o)
  PROVE  d.sup = o.sup
<1>1. "sup" \in DOMAIN d /\ "sup" \in DOMAIN o
  BY FilesAssumption
<1>2. [d EXCEPT !.max = 0] = [o EXCEPT !.max = 0]
  BY DEF EquivalentEntry
<1>3. [d EXCEPT !.max = 0].sup = d.sup /\ [o EXCEPT !.max = 0].sup = o.sup
  BY <1>1
<1> QED
  BY <1>2, <1>3

LEMMA ReloadUnbindsServes ==
  ASSUME DaemonInv, ServiceInv, DaemonInv', ReloadUnbinds
  PROVE  ServiceInv' /\ Continues
<1>0. ObjectsAreTyped /\ Pointers /\ Shapes' /\ Shapes
  BY ShapesOf DEF DaemonInv
<1>1. job.by = "reload" /\ job.step = "retire" /\ run' = run
  BY DEF ReloadUnbinds
<1>2. AtReload /\ entries = job.oldEnt
  BY <1>1, JobIsKnown DEF DaemonInv, ReloadWork
<1>3. PICK E : E = {job.oldEnt[n] : n \in EntriesGone}
  OBVIOUS
<1>4. Unbound(E)
  <2>1. UnbindEntries(E) /\ run' \in Runs
    BY <1>1, <1>3 DEF ReloadUnbinds, DaemonInv, Shapes
  <2> QED
    BY <1>0, <2>1, UnbindEffect
<1>5. Serves /\ ReloadSoFar
  BY <1>1 DEF ServiceInv, Live
<1> DEFINE todo == {<<1, n>> : n \in Added} \cup {<<2, n>> : n \in Changed}
                     \cup {<<3, n>> : n \in EntriesDue}
<1>6. job' = [job EXCEPT !.step = "rebuild", !.todo = todo]
  BY DEF ReloadUnbinds
<1>7. \A n : <<2, n>> \in todo <=> n \in Changed
  OBVIOUS
<1> HIDE DEF todo
<1>8. /\ job'.by = "reload" /\ job'.step = "rebuild" /\ job'.todo = todo
      /\ job'.cfg = job.cfg /\ job'.old = job.old /\ job'.oldEnt = job.oldEnt
  BY <1>2, <1>6 DEF AtReload
<1>9. /\ table' = table /\ reg' = reg /\ sw' = sw /\ ent' = ent /\ DOMAIN bnd' = DOMAIN bnd
      /\ \A b \in DOMAIN bnd : bnd'[b].port = bnd[b].port /\ bnd'[b].entry = bnd[b].entry
      /\ \A b \in DOMAIN bnd : bnd'[b].open <=> bnd[b].open /\ ~\E e \in E : ent[e].bind = b
      /\ \A n \in EntryNames : entries'[n] = IF entries[n] \in E THEN 0 ELSE entries[n]
      /\ \A p \in Ports :
           bindings'[p] = IF \E e \in E : ent[e].bind = bindings[p] THEN 0 ELSE bindings[p]
  BY <1>4 DEF Unbound, Closes
<1>10. Continues /\ CfgsStay
  BY <1>8, <1>9 DEF Continues, CfgsStay
<1>11. /\ Changed' = Changed /\ \A n \in Names : Old(n)' = Old(n)
       /\ \A n \in Changed : Keeps(n)' <=> Keeps(n)
       /\ \A n \in Changed : n \in Names
       /\ \A n \in DOMAIN job.cfg.projects : n \in Names
  BY <1>0, <1>2, <1>8, <1>10, DiffIsStable, DiffIsTyped DEF DaemonInv
<1>12. \A r : (Kept(r)' <=> Kept(r)) /\ ~Pending(r) /\ ~Pending(r)'
  <2>1. \A n \in Names : Awaits(n)' <=> Awaits(n)
    BY <1>1, <1>7, <1>8, <1>11 DEF Awaits
  <2> QED
    BY <1>1, <1>8, <1>11, <2>1 DEF Kept, Pending
<1>13. \A r \in DOMAIN reg : InUse(r)' <=> InUse(r)
  BY <1>9, <1>12 DEF InUse
<1>14. \A n \in EntryNames : entries[n] # 0 => Bound(entries[n]) /\ ent[entries[n]].cfg.name = n
  BY <1>0, <1>1, <1>5 DEF Serves, EntriesServe, PendingEntry, Pointers
<1>15. \A e \in E : e # 0 /\ Bound(e) /\ \E n \in EntriesGone : n \in EntryNames /\ entries[n] = e
  BY <1>2, <1>3, <1>14 DEF EntriesGone
<1>16. Sockets'
  <2>1. \A b \in DOMAIN bnd : bnd'[b].open => bnd[b].port \in Ports /\ bindings'[bnd[b].port] = b
    BY <1>0, <1>5, <1>9 DEF Serves, Sockets, ObjectsAreTyped, Listener
  <2>2. \A p \in Ports : bindings'[p] # 0 => bnd'[bindings'[p]].open
    BY <1>0, <1>5, <1>9 DEF Serves, Sockets, Pointers
  <2> QED
    BY <1>9, <2>1, <2>2 DEF Sockets
<1>17. Apart'
  BY <1>0, <1>5, <1>9 DEF Serves, Apart, Pointers
<1>18. InService'
  <2>1. \A r \in DOMAIN reg : InUse(r) => bnd'[reg[r].bind].open
    <3> SUFFICES ASSUME NEW r \in DOMAIN reg, InUse(r) PROVE bnd'[reg[r].bind].open
      OBVIOUS
    <3>1. /\ reg[r].bind \in DOMAIN bnd /\ bnd[reg[r].bind].open /\ bnd[reg[r].bind].entry = 0
      BY <1>0, <1>5 DEF Serves, InService, Apart, Pointers
    <3>2. \A e \in E : ent[e].bind # reg[r].bind
      BY <1>15, <3>1 DEF Bound
    <3> QED
      BY <1>9, <3>1, <3>2
  <2> QED
    BY <1>5, <1>9, <1>12, <1>13, <2>1 DEF Serves, InService
<1>19. EntriesServe'
  <2> SUFFICES ASSUME NEW n \in EntryNames, entries'[n] # 0 PROVE Bound(entries[n])'
    BY DEF EntriesServe
  <2>1. entries'[n] = entries[n] /\ entries[n] \notin E /\ Bound(entries[n])
    BY <1>9, <1>14
  <2>2. \A e \in E : ent[e].bind # ent[entries[n]].bind
    BY <1>15, <2>1 DEF Bound
  <2> QED
    BY <1>9, <2>1, <2>2 DEF Bound
<1>20. \A n \in EntryNames : EntryStays(n)' <=> EntryStays(n)
  BY <1>8, <1>9 DEF EntryStays
<1>21. \A n \in EntryNames : entries'[n] # 0 => EntryStays(n) /\ entries'[n] = entries[n]
  BY <1>2, <1>3, <1>9 DEF EntriesGone
<1>22. \A n \in EntryNames : entries[n] # 0 /\ EntryStays(n) => entries'[n] = entries[n]
  <2> SUFFICES ASSUME NEW n \in EntryNames, entries[n] # 0, EntryStays(n) PROVE entries[n] \notin E
    BY <1>9
  <2> SUFFICES ASSUME entries[n] \in E PROVE FALSE
    OBVIOUS
  <2>1. PICK m \in EntriesGone : m \in EntryNames /\ entries[m] = entries[n]
    BY <1>15
  <2>2. m = n
    BY <1>14, <2>1
  <2> QED
    BY <2>1, <2>2 DEF EntriesGone
<1>23. \A n \in EntryNames : entries'[n] # 0 =>
         n \in WildcardNames(job.cfg) /\ ent[entries[n]].cfg.sup = EntryNamed(job.cfg, n).sup
  <2> SUFFICES ASSUME NEW n \in EntryNames, entries'[n] # 0
               PROVE  n \in WildcardNames(job.cfg) /\ ent[entries[n]].cfg.sup = EntryNamed(job.cfg, n).sup
    OBVIOUS
  <2>1. n \in WildcardNames(job.cfg) /\ EquivalentEntry(ent[entries[n]].cfg, EntryNamed(job.cfg, n))
    BY <1>2, <1>21 DEF EntryStays
  <2>2. EntryNamed(job.cfg, n) \in Wildcards(job.cfg) /\ job.cfg \in Files
    BY <1>2, <2>1 DEF EntryNamed, WildcardNames, AtReload
  <2>3. entries[n] \in DOMAIN ent /\ ent[entries[n]] \in Entry
    BY <1>0, <1>21 DEF Pointers, ObjectsAreTyped
  <2>4. /\ ent[entries[n]].cfg \in UNION {Wildcards(f) : f \in Files \cup {Boot}}
        /\ EntryNamed(job.cfg, n) \in UNION {Wildcards(f) : f \in Files \cup {Boot}}
    BY <2>2, <2>3 DEF Entry
  <2> QED
    BY <2>1, <2>4, StayingPort
<1>24. ReloadSoFar'
  <2>1. Accepted(job'.cfg)
    BY <1>1, <1>5, <1>8 DEF ReloadSoFar
  <2>2. (\A n \in DOMAIN job.cfg.projects : Old(n) # 0 /\ n \notin Changed => table[n] = Old(n))'
    BY <1>1, <1>5, <1>8, <1>9, <1>11 DEF ReloadSoFar
  <2>3. (\A n \in EntryNames : job.oldEnt[n] # 0 => job.oldEnt[n] \in DOMAIN ent)'
    BY <1>1, <1>5, <1>8, <1>9 DEF ReloadSoFar
  <2>4. (\A n \in EntryNames : job.oldEnt[n] # 0 /\ EntryStays(n) => entries[n] = job.oldEnt[n])'
    BY <1>2, <1>8, <1>20, <1>22
  <2>5. (\A n \in EntryNames : entries[n] # 0 =>
           n \in WildcardNames(job.cfg) /\ ent[entries[n]].cfg.sup = EntryNamed(job.cfg, n).sup)'
    BY <1>8, <1>9, <1>21, <1>23
  <2>6. (\A n \in Changed : \A m \in EntryNames :
           entries[m] # 0 => ent[entries[m]].cfg.sup # reg[Old(n)].cfg.sup)'
    BY <1>1, <1>5, <1>9, <1>11, <1>21 DEF ReloadSoFar
  <2> QED
    BY <2>1, <2>2, <2>3, <2>4, <2>5, <2>6 DEF ReloadSoFar
<1> QED
  BY <1>8, <1>10, <1>16, <1>17, <1>18, <1>19, <1>24 DEF ServiceInv, Serves, BootSoFar

-----------------------------------------------------------------------------
(* Binding *)

\* attach uses the listener registered for the port, or binds a free one.
LEMMA AttachPlace ==
  ASSUME Shapes, NEW st \in Registration, NEW r, NEW s, NEW b,
         Attach(r, st), Attached(r, st, s, b)
  PROVE  /\ st.cfg.sup \in Ports
         /\ \A p \in Ports : bindings'[p] = IF p = st.cfg.sup THEN b ELSE bindings[p]
         /\ IF bindings[st.cfg.sup] # 0 THEN b = bindings[st.cfg.sup]
            ELSE b \notin DOMAIN bnd /\ CanBind(st.cfg.sup)
<1>1. st.cfg \in Projects /\ bindings \in [Ports -> Nat] /\ bnd \in Seq(Listener)
  BY DEF Shapes, Registration
<1>2. st.cfg.sup \in Ports
  BY <1>1, ProjectsAreTyped
<1>3. PICK p : p = st.cfg.sup
  BY ZenonT(60)
<1>4. /\ bindings[p] = 0 => CanBind(p)
      /\ bindings' = [bindings EXCEPT ![p] = IF bindings[p] # 0 THEN bindings[p] ELSE Len(bnd) + 1]
      /\ bindings' = [bindings EXCEPT ![p] = b]
  BY <1>3 DEF Attach, Attached
<1>5. b = IF bindings[p] # 0 THEN bindings[p] ELSE Len(bnd) + 1
  BY <1>1, <1>2, <1>3, <1>4
<1> QED
  BY <1>1, <1>2, <1>3, <1>4, <1>5

LEMMA AttachServes ==
  ASSUME DaemonInv, Serves, NEW r, NEW st \in Registration, NEW s, NEW b,
         Attach(r, st), Attached(r, st, s, b),
         bindings[st.cfg.sup] # 0 => bnd[bindings[st.cfg.sup]].entry = 0,
         ~Kept(r)',
         \A x \in DOMAIN reg \ {r} : (Kept(x)' <=> Kept(x)) /\ (Pending(x)' <=> Pending(x)),
         \A n \in EntryNames : PendingEntry(n)' <=> PendingEntry(n)
  PROVE  Serves'
<1>0. ObjectsAreTyped /\ Pointers /\ Shapes
  BY ShapesOf DEF DaemonInv
<1>1. PICK p : p = st.cfg.sup
  OBVIOUS
<1>2. /\ p \in Ports /\ \A q \in Ports : bindings'[q] = IF q = p THEN b ELSE bindings[q]
      /\ IF bindings[p] # 0 THEN b = bindings[p] ELSE b \notin DOMAIN bnd /\ CanBind(p)
  BY <1>0, <1>1, AttachPlace
<1>3. /\ s # 0 /\ s \notin DOMAIN sw /\ b # 0
      /\ DOMAIN reg' = DOMAIN reg \cup {r} /\ reg'[r].sw = s /\ reg'[r].bind = b
      /\ \A x \in DOMAIN reg \ {r} : reg'[x] = reg[x]
      /\ sw'[s] = r /\ \A x \in DOMAIN sw : sw'[x] = sw[x]
      /\ DOMAIN bnd' = DOMAIN bnd \cup {b} /\ \A x \in DOMAIN bnd \ {b} : bnd'[x] = bnd[x]
      /\ bnd'[b].port = p /\ entries' = entries /\ ent' = ent
      /\ IF b \in DOMAIN bnd
         THEN bnd[b].port = p /\ bnd'[b].open = bnd[b].open /\ bnd'[b].entry = bnd[b].entry
         ELSE bnd'[b].open = TRUE /\ bnd'[b].entry = 0
  BY <1>1 DEF Attached
<1>4. bnd'[b].open /\ bnd'[b].entry = 0 /\ (b \in DOMAIN bnd => bnd[b].open)
  BY <1>0, <1>1, <1>2, <1>3 DEF Serves, Sockets, Pointers
<1>5. \A x \in DOMAIN bnd : bnd'[x].port = bnd[x].port /\ bnd'[x].entry = bnd[x].entry
                              /\ bnd'[x].open = bnd[x].open
  BY <1>3
<1>6. Sockets'
  <2>1. ASSUME NEW x \in DOMAIN bnd, x # b, bnd[x].open PROVE bindings'[bnd[x].port] = x
    <3>1. bnd[x].port \in Ports /\ bindings[bnd[x].port] = x /\ x # 0
      BY <1>0, <2>1 DEF Serves, Sockets, ObjectsAreTyped, Listener
    <3>2. bnd[x].port # p
      BY <1>2, <2>1, <3>1
    <3> QED
      BY <1>2, <3>1, <3>2
  <2>2. ASSUME NEW q \in Ports, bindings'[q] # 0 PROVE bnd'[bindings'[q]].open
    <3>1. CASE q = p
      BY <1>2, <1>4, <3>1
    <3>2. CASE q # p
      <4>1. bindings'[q] = bindings[q] /\ bindings[q] \in DOMAIN bnd /\ bnd[bindings[q]].open
        BY <1>0, <1>2, <2>2, <3>2 DEF Serves, Sockets, Pointers
      <4> QED
        BY <1>5, <4>1
    <3> QED
      BY <3>1, <3>2
  <2> QED
    BY <1>2, <1>3, <1>5, <2>1, <2>2 DEF Sockets
<1>7. Apart'
  <2> SUFFICES ASSUME NEW x \in DOMAIN reg', reg'[x].bind # 0 PROVE bnd'[reg'[x].bind].entry = 0
    BY DEF Apart
  <2>1. CASE x = r
    BY <1>3, <1>4, <2>1
  <2>2. CASE x # r
    <3>1. x \in DOMAIN reg /\ reg'[x] = reg[x] /\ reg[x].bind \in DOMAIN bnd
      BY <1>0, <1>3, <2>2 DEF Pointers
    <3> QED
      BY <1>5, <3>1 DEF Serves, Apart
  <2> QED
    BY <2>1, <2>2
<1>8. InService'
  <2>1. \A x \in DOMAIN reg \ {r} : InUse(x)' <=> InUse(x)
    BY <1>3 DEF InUse
  <2>2. ASSUME NEW x \in DOMAIN reg \ {r}, InUse(x)
        PROVE  /\ reg'[x] = reg[x] /\ reg[x].bind # 0 /\ bnd'[reg[x].bind].open
               /\ reg[x].sw # 0 /\ reg[x].sw # s /\ (Kept(x)' \/ sw'[reg[x].sw] = x)
    <3>1. /\ reg[x].bind # 0 /\ reg[x].bind \in DOMAIN bnd /\ bnd[reg[x].bind].open
          /\ reg[x].sw # 0 /\ reg[x].sw \in DOMAIN sw /\ (Kept(x) \/ sw[reg[x].sw] = x)
      BY <1>0, <2>2 DEF Serves, InService, Pointers
    <3> QED
      BY <1>3, <1>5, <3>1
  <2>3. \A x, y \in DOMAIN reg' : InUse(x)' /\ InUse(y)' /\ reg'[x].sw = reg'[y].sw => x = y
    BY <1>3, <2>1, <2>2 DEF Serves, InService
  <2>4. \A x \in DOMAIN reg' : InUse(x)' =>
          /\ reg'[x].bind # 0 /\ bnd'[reg'[x].bind].open
          /\ reg'[x].sw # 0 /\ (Kept(x)' \/ sw'[reg'[x].sw] = x)
    BY <1>3, <1>4, <2>1, <2>2
  <2> QED
    BY <2>3, <2>4 DEF InService
<1>9. EntriesServe'
  BY <1>3, <1>5 DEF Serves, EntriesServe, Bound
<1> QED
  BY <1>6, <1>7, <1>8, <1>9 DEF Serves

LEMMA BindEntryServes ==
  ASSUME DaemonInv, Serves, NEW e, NEW rec \in Entry, NEW b,
         BindEntry(e, rec), EntryBound(e, rec, b),
         e \in DOMAIN ent => entries[rec.cfg.name] = e,
         \A x \in DOMAIN reg : (Kept(x)' <=> Kept(x)) /\ (Pending(x)' <=> Pending(x)),
         \A n \in EntryNames \ {rec.cfg.name} : PendingEntry(n)' <=> PendingEntry(n)
  PROVE  Serves'
<1>0. ObjectsAreTyped /\ Pointers /\ Shapes
  BY ShapesOf DEF DaemonInv
<1>1. PICK p : p = rec.cfg.sup
  OBVIOUS
<1>2. PICK m : m = rec.cfg.name
  OBVIOUS
<1>3. p \in Ports /\ m \in EntryNames
  BY <1>1, <1>2, EntriesAreTyped DEF Entry
<1>4. CanBind(p)
  BY <1>1 DEF BindEntry
<1>5. /\ b # 0 /\ b \notin DOMAIN bnd /\ DOMAIN bnd' = DOMAIN bnd \cup {b}
      /\ bnd'[b].port = p /\ bnd'[b].entry = e /\ bnd'[b].open
      /\ \A x \in DOMAIN bnd : bnd'[x] = bnd[x]
      /\ ent'[e].cfg.sup = p /\ ent'[e].bind = b
      /\ \A x \in DOMAIN ent \ {e} : ent'[x] = ent[x]
      /\ reg' = reg /\ sw' = sw
  BY <1>1 DEF EntryBound
<1>6. \A q \in Ports : bindings'[q] = IF q = p THEN b ELSE bindings[q]
  BY <1>0, <1>1, <1>3 DEF EntryBound, Shapes
<1>7. \A n \in EntryNames : entries'[n] = IF n = m THEN e ELSE entries[n]
  BY <1>0, <1>2, <1>3 DEF EntryBound, Shapes
<1>8. Sockets'
  <2>1. ASSUME NEW x \in DOMAIN bnd, bnd[x].open PROVE bindings'[bnd[x].port] = x
    BY <1>0, <1>4, <1>6, <2>1 DEF Serves, Sockets, ObjectsAreTyped, Listener, CanBind
  <2>2. ASSUME NEW q \in Ports, bindings'[q] # 0 PROVE bnd'[bindings'[q]].open
    BY <1>0, <1>5, <1>6, <2>2 DEF Serves, Sockets, Pointers
  <2> QED
    BY <1>3, <1>5, <1>6, <2>1, <2>2 DEF Sockets
<1>9. Apart'
  BY <1>0, <1>5 DEF Serves, Apart, Pointers
<1>10. InService'
  <2>1. \A x \in DOMAIN reg : InUse(x)' <=> InUse(x)
    BY <1>5 DEF InUse
  <2>2. \A x \in DOMAIN reg : InUse(x) => bnd'[reg[x].bind].open
    BY <1>0, <1>5 DEF Serves, InService, Pointers
  <2> QED
    BY <1>5, <2>1, <2>2 DEF Serves, InService
<1>11. EntriesServe'
  <2> SUFFICES ASSUME NEW n \in EntryNames, entries'[n] # 0, ~PendingEntry(n)'
               PROVE  Bound(entries[n])'
    BY DEF EntriesServe
  <2>1. CASE n = m
    BY <1>5, <1>7, <2>1 DEF Bound
  <2>2. CASE n # m
    <3>1. entries'[n] = entries[n] /\ Bound(entries[n]) /\ entries[n] \in DOMAIN ent
      BY <1>0, <1>2, <1>7, <2>2 DEF Serves, EntriesServe, Pointers
    <3>2. entries[n] # e
      BY <1>0, <1>2, <1>3, <1>7, <2>2, <3>1 DEF Pointers
    <3> QED
      BY <1>5, <3>1, <3>2 DEF Bound
  <2> QED
    BY <2>1, <2>2
<1> QED
  BY <1>8, <1>9, <1>10, <1>11 DEF Serves

-----------------------------------------------------------------------------
(* What a reload builds *)

\* Every project of the new file, and every entry that is left, has its port
\* for itself.
LEMMA BuildsApart ==
  ASSUME DaemonInv, ReloadSoFar, job.by = "reload", job.step = "rebuild",
         NEW n \in DOMAIN job.cfg.projects, NEW m \in EntryNames, entries[m] # 0
  PROVE  ent[entries[m]].cfg.sup # job.cfg.projects[n].sup
<1>1. /\ m \in WildcardNames(job.cfg) /\ ent[entries[m]].cfg.sup = EntryNamed(job.cfg, m).sup
      /\ WildcardPortsAreOwn(job.cfg.projects, job.cfg.entries)
  BY DEF ReloadSoFar, Accepted, IsValid
<1>2. EntryNamed(job.cfg, m) \in Wildcards(job.cfg)
  BY <1>1 DEF EntryNamed, WildcardNames
<1>3. PICK i \in DOMAIN job.cfg.entries :
        EntryNamed(job.cfg, m) = job.cfg.entries[i] /\ IsWildcard(job.cfg.entries[i])
  BY <1>2 DEF Wildcards
<1> QED
  BY <1>1, <1>3 DEF WildcardPortsAreOwn

\* An entry of the work list is done, for a project.
LEMMA BuiltGoesOn ==
  ASSUME DaemonInv, DaemonInv', ReloadSoFar, NEW phase \in {1, 2}, NEW n \in Names, Built(phase, n),
         entries' = entries, ent' = ent
  PROVE  Continues /\ ReloadSoFar' /\ job.by = "reload" /\ job'.by = "reload"
<1>1. AtReload
  BY JobIsKnown DEF Built
<1>2. /\ job.by = "reload" /\ job.step = "rebuild"
      /\ job'.by = "reload" /\ job'.step = "rebuild" /\ job'.todo = job.todo \ {<<phase, n>>}
      /\ job'.cfg = job.cfg /\ job'.old = job.old /\ job'.oldEnt = job.oldEnt
  BY <1>1 DEF Built, AtReload
<1>3. Continues
  BY <1>2 DEF Continues, Built
<1>4. n \in Added \cup Changed
  BY <1>2 DEF Built, DaemonInv, ReloadWork
<1>5. \A m \in Names : table'[m] = table[m] \/ m \in Added \cup Changed
  BY <1>4 DEF Built
<1>6. Shapes'
  BY DEF DaemonInv
<1> QED
  BY <1>2, <1>3, <1>5, <1>6, ReloadGoesOn

LEMMA CommissionServes ==
  ASSUME DaemonInv, ServiceInv, DaemonInv', NEW phase \in {1, 2}, NEW n \in Names, NEW p \in Projects,
         Rebuild(phase, n), Commission(n, p), phase = 2 => ~Keeps(n),
         \A m \in EntryNames : entries[m] # 0 => ent[entries[m]].cfg.sup # p.sup
  PROVE  ServiceInv' /\ Continues
<1>1. PICK st \in Registration, r \in Nat \ {0} : \E s, b :
        /\ st.name = n /\ st.cfg = p /\ st.retire = "no" /\ r \notin DOMAIN reg
        /\ Attach(r, st) /\ Attached(r, st, s, b) /\ HeapInv' /\ Built(phase, n)
  BY CommissionEffect
<1>2. PICK s, b :
        /\ st.name = n /\ st.cfg = p /\ st.retire = "no" /\ r \notin DOMAIN reg
        /\ Attach(r, st) /\ Attached(r, st, s, b) /\ HeapInv' /\ Built(phase, n)
  BY <1>1
<1>3. job.by = "reload" /\ job.step = "rebuild"
  BY <1>2 DEF Built
<1>4. Serves /\ ReloadSoFar
  BY <1>3 DEF ServiceInv, Live
<1>5. Continues /\ ReloadSoFar' /\ job'.by = "reload"
  BY <1>2, <1>4, BuiltGoesOn DEF Attached
<1>6. /\ \A m \in Names : Old(m)' = Old(m)
      /\ \A m \in Names : Awaits(m) => Old(m) \in DOMAIN reg
      /\ \A m \in Names : Awaits(m)' <=> Awaits(m) /\ (phase = 2 => m # n)
  <2>1. phase \in {1, 2, 3}
    OBVIOUS
  <2> QED
    BY <1>2, <2>1, BuildingKeepsWork
<1>7. phase = 2 => ~Awaits(n)
  BY DEF Awaits
<1>8. \A x : Kept(x)' <=> Kept(x)
  BY <1>6, <1>7 DEF Kept
<1>9. ~Kept(r)'
  BY <1>2, <1>6, <1>8 DEF Kept
<1>10. /\ \A x : ~Pending(x) /\ ~Pending(x)'
       /\ \A m : ~PendingEntry(m) /\ ~PendingEntry(m)'
  BY <1>3, <1>5 DEF Pending, PendingEntry
<1>11. bindings[p.sup] # 0 => bnd[bindings[p.sup]].entry = 0
  <2> SUFFICES ASSUME bindings[p.sup] # 0, bnd[bindings[p.sup]].entry # 0 PROVE FALSE
    OBVIOUS
  <2>1. PICK c : c = bindings[p.sup]
    OBVIOUS
  <2>2. c \in DOMAIN bnd /\ bnd[c].port = p.sup /\ bnd[c].open
    BY <1>4, <2>1, ProjectsAreTyped DEF DaemonInv, Pointers, Serves, Sockets
  <2>3. PICK m \in EntryNames : entries[m] = bnd[c].entry /\ ent[bnd[c].entry].bind = c
    BY <2>1, <2>2 DEF DaemonInv, Listeners
  <2>4. Bound(entries[m])
    BY <1>4, <1>10, <2>1, <2>3 DEF Serves, EntriesServe
  <2> QED
    BY <2>1, <2>2, <2>3, <2>4 DEF Bound
<1>12. Serves'
  BY <1>2, <1>4, <1>8, <1>9, <1>10, <1>11, AttachServes
<1> QED
  BY <1>5, <1>12 DEF ServiceInv, BootSoFar

LEMMA InheritingServes ==
  ASSUME DaemonInv, ServiceInv, DaemonInv', NEW n \in Names, Rebuild(2, n), Keeps(n),
         Inherit(NewState(n, job.cfg.projects[n], 0), Old(n))
  PROVE  ServiceInv' /\ Continues
<1>0. ObjectsAreTyped /\ Pointers
  BY ShapesOf DEF DaemonInv
<1>1. PICK st \in Registration, old \in DOMAIN reg : \E r :
        /\ old = Old(n) /\ Inherited(r, st, old) /\ Built(2, n)
        /\ Kept(old) /\ ~Kept(old)' /\ \A x : x # old => (Kept(x)' <=> Kept(x))
        /\ reg[old].retire = "done"
  BY InheritingEffect
<1>2. PICK r :
        /\ old = Old(n) /\ Inherited(r, st, old) /\ Built(2, n)
        /\ Kept(old) /\ ~Kept(old)' /\ \A x : x # old => (Kept(x)' <=> Kept(x))
        /\ reg[old].retire = "done"
  BY <1>1
<1>3. /\ r # 0 /\ r \notin DOMAIN reg /\ DOMAIN reg' = DOMAIN reg \cup {r}
      /\ reg'[r].sw = reg[old].sw /\ reg'[r].bind = reg[old].bind
      /\ \A x \in DOMAIN reg : reg'[x] = reg[x]
      /\ DOMAIN sw' = DOMAIN sw
      /\ \A s \in DOMAIN sw : sw'[s] = IF s = reg[old].sw THEN r ELSE sw[s]
      /\ bnd' = bnd /\ bindings' = bindings /\ entries' = entries /\ ent' = ent
  BY <1>2 DEF Inherited
<1>4. job.by = "reload"
  BY <1>2 DEF Built
<1>5. Serves /\ ReloadSoFar
  BY <1>4 DEF ServiceInv, Live
<1>6. Continues /\ ReloadSoFar' /\ job'.by = "reload"
  BY <1>2, <1>3, <1>5, BuiltGoesOn
<1>7. /\ \A x : ~Pending(x) /\ ~Pending(x)'
      /\ \A m : ~PendingEntry(m)
  BY <1>4, <1>6 DEF Pending, PendingEntry
<1>8. /\ InUse(old) /\ reg[old].bind # 0 /\ bnd[reg[old].bind].open /\ bnd[reg[old].bind].entry = 0
      /\ reg[old].sw # 0 /\ reg[old].sw \in DOMAIN sw
  BY <1>0, <1>2, <1>5, <1>7 DEF InUse, Serves, InService, Apart, Pointers
<1>9. ASSUME NEW x \in DOMAIN reg, InUse(x)'
      PROVE  /\ InUse(x) /\ reg[x].sw # reg[old].sw /\ reg[x].bind # 0 /\ bnd[reg[x].bind].open
             /\ reg[x].sw # 0 /\ (Kept(x)' \/ sw'[reg[x].sw] = x)
  <2>1. x # old
    BY <1>2, <1>3, <1>9 DEF InUse
  <2>2. InUse(x)
    BY <1>2, <1>3, <1>7, <1>9, <2>1 DEF InUse
  <2>3. reg[x].sw # reg[old].sw
    BY <1>5, <1>8, <2>1, <2>2 DEF Serves, InService
  <2>4. /\ reg[x].bind # 0 /\ bnd[reg[x].bind].open /\ reg[x].sw # 0 /\ reg[x].sw \in DOMAIN sw
        /\ Kept(x) \/ sw[reg[x].sw] = x
    BY <1>0, <1>5, <2>2 DEF Serves, InService, Pointers
  <2> QED
    BY <1>2, <1>3, <2>1, <2>2, <2>3, <2>4
<1>10. InService'
  <2>1. \A x \in DOMAIN reg' : InUse(x)' =>
          /\ reg'[x].bind # 0 /\ bnd'[reg'[x].bind].open
          /\ reg'[x].sw # 0 /\ (Kept(x)' \/ sw'[reg'[x].sw] = x)
    BY <1>3, <1>8, <1>9
  <2>2. \A x, y \in DOMAIN reg' : InUse(x)' /\ InUse(y)' /\ reg'[x].sw = reg'[y].sw => x = y
    BY <1>3, <1>5, <1>9 DEF Serves, InService
  <2> QED
    BY <2>1, <2>2 DEF InService
<1>11. Sockets' /\ Apart'
  BY <1>3, <1>5, <1>8 DEF Serves, Sockets, Apart
<1>12. EntriesServe'
  BY <1>3, <1>5, <1>7 DEF Serves, EntriesServe, Bound
<1> QED
  BY <1>6, <1>10, <1>11, <1>12 DEF ServiceInv, Serves, BootSoFar

\* A project could not be added, or was lost.
LEMMA NothingBuiltServes ==
  ASSUME DaemonInv, ServiceInv, DaemonInv', NEW phase \in {1, 2}, NEW n \in Names, Rebuild(phase, n),
         phase = 2 => ~Keeps(n), table' = IF phase = 2 THEN [table EXCEPT ![n] = 0] ELSE table,
         UNCHANGED <<entries, bindings, reg, sw, bnd, ent>>
  PROVE  ServiceInv' /\ Continues
<1>1. /\ job.by = "reload" /\ job.step = "rebuild" /\ <<phase, n>> \in job.todo
      /\ job' = [job EXCEPT !.todo = job.todo \ {<<phase, n>>}] /\ run' = run
  BY DEF Rebuild, Due, Done
<1>2. /\ phase = 2 => table'[n] = 0
      /\ \A m \in Names : table'[m] = table[m] \/ (m = n /\ phase = 2)
      /\ phase # 2 => table' = table
  BY DEF DaemonInv, Shapes
<1>3. Built(phase, n)
  BY <1>1, <1>2 DEF Built
<1>4. Still /\ HeapInv'
  BY DEF Still, DaemonInv, HeapInv
<1>5. Serves /\ ReloadSoFar
  BY <1>1 DEF ServiceInv, Live
<1>6. Continues /\ ReloadSoFar' /\ job'.by = "reload"
  BY <1>3, <1>4, <1>5, BuiltGoesOn DEF Still
<1>7. /\ \A m \in Names : Old(m)' = Old(m)
      /\ \A m \in Names : Awaits(m)' <=> Awaits(m) /\ (phase = 2 => m # n)
  <2>1. phase \in {1, 2, 3}
    OBVIOUS
  <2> QED
    BY <1>3, <1>4, <2>1, BuildingKeepsWork
<1>8. phase = 2 => ~Awaits(n)
  BY DEF Awaits
<1>9. \A x : Kept(x)' <=> Kept(x)
  BY <1>7, <1>8 DEF Kept
<1>10. (\A x : ~Pending(x)) /\ \A m : ~PendingEntry(m)
  BY <1>1 DEF Pending, PendingEntry
<1>11. Serves'
  BY <1>4, <1>5, <1>9, <1>10, StillServes
<1> QED
  BY <1>6, <1>11 DEF ServiceInv, BootSoFar

LEMMA RebuildingServes ==
  ASSUME DaemonInv, ServiceInv, DaemonInv', NEW n \in Names,
         ReloadAdds(n) \/ ReloadReplaces(n) \/ ReloadRestores(n) \/ ReloadLoses(n)
  PROVE  ServiceInv' /\ Continues
<1>1. job.by = "reload" /\ job.step = "rebuild"
  BY DEF ReloadAdds, ReloadReplaces, ReloadRestores, ReloadLoses, Rebuild
<1>2. AtReload /\ ReloadSoFar
  BY <1>1, JobIsKnown DEF ServiceInv, Live
<1>3. /\ \A m \in DOMAIN job.cfg.projects : job.cfg.projects[m] \in Projects
      /\ \A m \in Changed : Old(m) \in DOMAIN reg
  BY <1>2, DiffIsTyped DEF DaemonInv
<1>4. /\ Rebuild(1, n) => n \in DOMAIN job.cfg.projects
      /\ Rebuild(2, n) => n \in Changed /\ n \in DOMAIN job.cfg.projects /\ <<2, n>> \in job.todo
  <2>1. Added \subseteq DOMAIN job.cfg.projects /\ Changed \subseteq DOMAIN job.cfg.projects
    BY DEF Added, Changed
  <2>2. (Rebuild(1, n) => <<1, n>> \in job.todo) /\ (Rebuild(2, n) => <<2, n>> \in job.todo)
    BY DEF Rebuild, Due
  <2> QED
    BY <1>1, <2>1, <2>2 DEF DaemonInv, ReloadWork
<1>5. n \in DOMAIN job.cfg.projects =>
        \A m \in EntryNames : entries[m] # 0 => ent[entries[m]].cfg.sup # job.cfg.projects[n].sup
  BY <1>1, <1>2, BuildsApart
<1>6. CASE ReloadAdds(n)
  <2>1. Rebuild(1, n) /\ n \in DOMAIN job.cfg.projects
    BY <1>4, <1>6 DEF ReloadAdds
  <2>2. CASE Commission(n, job.cfg.projects[n])
    BY <1>3, <1>5, <2>1, <2>2, CommissionServes
  <2>3. CASE UNCHANGED heap
    BY <2>1, <2>3, NothingBuiltServes DEF heap
  <2> QED
    BY <1>6, <2>2, <2>3 DEF ReloadAdds
<1>7. CASE ReloadReplaces(n)
  <2>1. Rebuild(2, n) /\ n \in DOMAIN job.cfg.projects
    BY <1>4, <1>7 DEF ReloadReplaces
  <2>2. CASE Keeps(n)
    BY <1>7, <2>1, <2>2, InheritingServes DEF ReloadReplaces
  <2>3. CASE ~Keeps(n)
    <3>1. Commission(n, job.cfg.projects[n])
      BY <1>7, <2>3 DEF ReloadReplaces
    <3> QED
      BY <1>3, <1>5, <2>1, <2>3, <3>1, CommissionServes
  <2> QED
    BY <2>2, <2>3
<1>8. CASE ReloadRestores(n)
  <2>1. Rebuild(2, n) /\ ~Keeps(n) /\ Commission(n, reg[Old(n)].cfg)
    BY <1>8 DEF ReloadRestores
  <2>2. reg[Old(n)].cfg \in Projects
    BY <1>3, <1>4, <2>1, ShapesOf DEF DaemonInv, ObjectsAreTyped
  <2>3. \A m \in EntryNames : entries[m] # 0 => ent[entries[m]].cfg.sup # reg[Old(n)].cfg.sup
    BY <1>1, <1>2, <1>4, <2>1 DEF ReloadSoFar
  <2> QED
    BY <2>1, <2>2, <2>3, CommissionServes
<1>9. CASE ReloadLoses(n)
  <2>1. Rebuild(2, n) /\ ~Keeps(n) /\ table' = [table EXCEPT ![n] = 0]
        /\ UNCHANGED <<entries, bindings, reg, sw, bnd, ent>>
    BY <1>9 DEF ReloadLoses
  <2> QED
    BY <2>1, NothingBuiltServes
<1> QED
  BY <1>6, <1>7, <1>8, <1>9

\* Entries come after the projects: none is left to go back to its old port.
LEMMA ReloadBindsEntryServes ==
  ASSUME DaemonInv, ServiceInv, DaemonInv', NEW n \in EntryNames, ReloadBindsEntry(n)
  PROVE  ServiceInv' /\ Continues
<1>0. HeapInv /\ HeapInv' /\ Shapes /\ Shapes' /\ Pointers /\ ObjectsAreTyped
  BY ShapesOf DEF DaemonInv, HeapInv
<1>1. /\ job.by = "reload" /\ job.step = "rebuild" /\ <<3, n>> \in job.todo
      /\ job' = [job EXCEPT !.todo = job.todo \ {<<3, n>>}] /\ run' = run /\ run' \in Runs
  BY DEF ReloadBindsEntry, Rebuild, Due, Done, DaemonInv, Shapes
<1>2. \A m : <<2, m>> \notin job.todo
  <2>1. \A u \in job.todo : 3 <= u[1]
    BY DEF ReloadBindsEntry, Rebuild, Due
  <2> QED
    BY <2>1
<1>3. AtReload /\ n \in WildcardNames(job.cfg) /\ entries[n] = 0
  BY <1>1, JobIsKnown DEF DaemonInv, ReloadWork
<1>4. /\ job'.by = "reload" /\ job'.step = "rebuild" /\ job'.todo \subseteq job.todo
      /\ job'.cfg = job.cfg /\ job'.old = job.old /\ job'.oldEnt = job.oldEnt
  BY <1>1, <1>3 DEF AtReload
<1>5. Serves /\ ReloadSoFar
  BY <1>1 DEF ServiceInv, Live
<1>6. \A x : ~Kept(x) /\ ~Kept(x)' /\ ~Pending(x) /\ ~Pending(x)'
  BY <1>1, <1>2, <1>4 DEF Kept, Awaits, Pending
<1>7. \A m : ~PendingEntry(m) /\ ~PendingEntry(m)'
  BY <1>1, <1>4 DEF PendingEntry
<1>8. CASE UNCHANGED heap
  <2>1. Still /\ Continues /\ table' = table
    BY <1>4, <1>8 DEF Still, Continues, heap
  <2>2. Serves'
    BY <1>5, <1>6, <1>7, <2>1, StillServes
  <2>3. ReloadSoFar'
    BY <1>0, <1>1, <1>4, <1>5, <2>1, ReloadGoesOn DEF Still
  <2> QED
    BY <1>4, <2>1, <2>2, <2>3 DEF ServiceInv, BootSoFar
<1>9. ASSUME NEW e, NEW rec, e = Len(ent) + 1, rec = [cfg |-> EntryNamed(job.cfg, n), bind |-> 0],
             BindEntry(e, rec)
      PROVE  ServiceInv' /\ Continues
  <2>1. EntryNamed(job.cfg, n) \in Wildcards(job.cfg) /\ EntryNamed(job.cfg, n).name = n
    BY <1>3 DEF EntryNamed, WildcardNames
  <2>2. rec \in Entry /\ rec.cfg.name = n /\ rec.cfg = EntryNamed(job.cfg, n)
    BY <1>3, <1>9, <2>1 DEF Entry, AtReload
  <2>3. e \in 1..(Len(ent) + 1) /\ e \in Nat \ {0} /\ e \notin DOMAIN ent
    BY <1>0, <1>9 DEF Shapes
  <2>4. PICK b : EntryBound(e, rec, b)
    BY <1>0, <1>1, <1>9, <2>2, <2>3, BindEntryEffect
  <2>5. Serves'
    BY <1>5, <1>6, <1>7, <1>9, <2>2, <2>3, <2>4, BindEntryServes
  <2>6. /\ reg' = reg /\ table' = table /\ ent'[e].cfg = EntryNamed(job.cfg, n)
        /\ DOMAIN ent' = DOMAIN ent \cup {e} /\ \A x \in DOMAIN ent : ent'[x] = ent[x]
        /\ \A m \in EntryNames : entries'[m] = IF m = n THEN e ELSE entries[m]
    BY <1>0, <2>2, <2>3, <2>4 DEF EntryBound, Shapes
  <2>7. Continues /\ CfgsStay
    BY <1>4, <2>6 DEF Continues, CfgsStay
  <2>8. Changed' = Changed /\ \A m \in Names : Old(m)' = Old(m)
    BY <1>0, <1>3, <1>4, <2>7, DiffIsStable DEF DaemonInv
  <2>9. \A m \in EntryNames : job.oldEnt[m] # 0 => job.oldEnt[m] \in DOMAIN ent
    BY <1>1, <1>5 DEF ReloadSoFar
  <2>10. \A m \in EntryNames : job.oldEnt[m] # 0 /\ EntryStays(m)' => entries'[m] = job.oldEnt[m]
    <3> SUFFICES ASSUME NEW m \in EntryNames, job.oldEnt[m] # 0, EntryStays(m)'
                 PROVE  entries'[m] = job.oldEnt[m]
      OBVIOUS
    <3>1. EntryStays(m)
      BY <1>4, <2>6, <2>9 DEF EntryStays
    <3>2. entries[m] = job.oldEnt[m]
      BY <1>1, <1>5, <3>1 DEF ReloadSoFar
    <3> QED
      BY <1>3, <2>6, <3>2
  <2>11. \A m \in DOMAIN job.cfg.projects : Old(m)' # 0 /\ m \notin Changed' => table'[m] = Old(m)'
    <3>1. DOMAIN job.cfg.projects \subseteq Names
      BY <1>0, <1>3, DiffIsTyped DEF DaemonInv
    <3> QED
      BY <1>1, <1>5, <2>6, <2>8, <3>1 DEF ReloadSoFar
  <2>12. \A m \in EntryNames : entries'[m] # 0 =>
           m \in WildcardNames(job.cfg) /\ ent'[entries'[m]].cfg.sup = EntryNamed(job.cfg, m).sup
    <3> SUFFICES ASSUME NEW m \in EntryNames, entries'[m] # 0
                 PROVE  m \in WildcardNames(job.cfg)
                        /\ ent'[entries'[m]].cfg.sup = EntryNamed(job.cfg, m).sup
      OBVIOUS
    <3>1. CASE m = n
      BY <1>3, <2>6, <3>1
    <3>2. CASE m # n
      <4>1. entries'[m] = entries[m] /\ entries[m] \in DOMAIN ent
        BY <1>0, <2>6, <3>2 DEF Pointers
      <4> QED
        BY <1>1, <1>5, <2>6, <4>1 DEF ReloadSoFar
    <3> QED
      BY <3>1, <3>2
  <2>13. Accepted(job.cfg)
    BY <1>1, <1>5 DEF ReloadSoFar
  <2>14. ReloadSoFar'
    BY <1>2, <1>4, <2>6, <2>9, <2>10, <2>11, <2>12, <2>13 DEF ReloadSoFar
  <2> QED
    BY <1>4, <2>5, <2>7, <2>14 DEF ServiceInv, BootSoFar
<1> QED
  BY <1>8, <1>9 DEF ReloadBindsEntry

-----------------------------------------------------------------------------
(* The start of the daemon *)

\* Run binds a project to the listener at its address, or an entry when no
\* project is left.
LEMMA BootBindsEffect ==
  ASSUME DaemonInv, BootBinds
  PROVE  /\ job.by = "boot" /\ job'.by = "boot" /\ run' = run /\ table' = table
         /\ \/ \E n \in Names, st \in Registration : \E r, s, b :
                 /\ <<1, n>> \in job.todo /\ job'.todo = job.todo \ {<<1, n>>}
                 /\ r \in DOMAIN reg /\ r = table[n] /\ st = reg[r] /\ st.name = n
                 /\ Attach(r, st) /\ Attached(r, st, s, b)
            \/ \E n \in EntryNames, rec \in Entry : \E e, b :
                 /\ <<2, n>> \in job.todo /\ job'.todo = job.todo \ {<<2, n>>}
                 /\ \A m : <<1, m>> \notin job.todo
                 /\ e \in DOMAIN ent /\ e = entries[n] /\ rec = ent[e] /\ rec.cfg.name = n
                 /\ BindEntry(e, rec) /\ EntryBound(e, rec, b)
<1>0. HeapInv /\ ObjectsAreTyped /\ Pointers /\ Shapes
  BY ShapesOf DEF DaemonInv, HeapInv
<1>1. job.by = "boot" /\ run' = run /\ run' \in Runs
  BY DEF BootBinds, DaemonInv, Shapes
<1>2. PICK t \in job.todo :
        /\ \A u \in job.todo : t[1] <= u[1]
        /\ job' = [job EXCEPT !.todo = job.todo \ {t}]
        /\ IF t[1] = 1 THEN Attach(table[t[2]], reg[table[t[2]]])
           ELSE BindEntry(entries[t[2]], ent[entries[t[2]]])
  BY DEF BootBinds, Due, Done
<1>3. job'.by = "boot" /\ job'.todo = job.todo \ {t}
  BY <1>1, <1>2, JobIsKnown DEF AtBoot
<1>4. /\ t \in {1} \X Names \/ t \in {2} \X EntryNames
      /\ \A n \in Names : <<1, n>> \in job.todo => table[n] # 0
      /\ \A n \in EntryNames : <<2, n>> \in job.todo => entries[n] # 0
  BY <1>1 DEF DaemonInv, BootWork
<1>5. CASE t[1] = 1
  <2>1. PICK n \in Names : t = <<1, n>>
    BY <1>4, <1>5
  <2>2. PICK r : r = table[n]
    OBVIOUS
  <2>3. r \in DOMAIN reg /\ reg[r].name = n /\ reg[r] \in Registration /\ r \in 1..(Len(reg) + 1)
    BY <1>0, <1>4, <2>1, <2>2 DEF Pointers, ObjectsAreTyped, Shapes
  <2>4. PICK st \in Registration : st = reg[r]
    BY <2>3
  <2>5. Attach(r, st)
    BY <1>2, <1>5, <2>1, <2>2, <2>4
  <2>6. PICK s, b : Attached(r, st, s, b)
    BY <1>0, <1>1, <2>3, <2>5, AttachEffect
  <2>7. table' = [table EXCEPT ![n] = r] /\ table \in [Names -> Nat]
    BY <1>0, <2>3, <2>4, <2>6 DEF Attached, Shapes
  <2>8. table' = table
    BY <2>2, <2>7
  <2> QED
    BY <1>1, <1>3, <2>1, <2>2, <2>3, <2>4, <2>5, <2>6, <2>8
<1>6. CASE t[1] # 1
  <2>1. PICK n \in EntryNames : t = <<2, n>>
    BY <1>4, <1>6
  <2>2. PICK e : e = entries[n]
    OBVIOUS
  <2>3. e \in DOMAIN ent /\ ent[e].cfg.name = n /\ ent[e] \in Entry /\ e \in 1..(Len(ent) + 1)
    BY <1>0, <1>4, <2>1, <2>2 DEF Pointers, ObjectsAreTyped, Shapes
  <2>4. PICK rec \in Entry : rec = ent[e]
    BY <2>3
  <2>5. BindEntry(e, rec)
    BY <1>2, <1>6, <2>1, <2>2, <2>4
  <2>6. PICK b : EntryBound(e, rec, b)
    BY <1>0, <1>1, <2>3, <2>5, BindEntryEffect
  <2>7. table' = table
    BY <2>6 DEF EntryBound
  <2>8. \A m : <<1, m>> \notin job.todo
    BY <1>2, <2>1
  <2> QED
    BY <1>1, <1>3, <2>1, <2>2, <2>3, <2>4, <2>5, <2>6, <2>7, <2>8
<1> QED
  BY <1>5, <1>6

LEMMA BootBindsServes ==
  ASSUME DaemonInv, ServiceInv, BootBinds
  PROVE  ServiceInv' /\ Continues
<1>0. Pointers
  BY DEF DaemonInv
<1>1. /\ job.by = "boot" /\ job'.by = "boot" /\ run' = run /\ table' = table
      /\ \/ \E n \in Names, st \in Registration : \E r, s, b :
              /\ <<1, n>> \in job.todo /\ job'.todo = job.todo \ {<<1, n>>}
              /\ r \in DOMAIN reg /\ r = table[n] /\ st = reg[r] /\ st.name = n
              /\ Attach(r, st) /\ Attached(r, st, s, b)
         \/ \E n \in EntryNames, rec \in Entry : \E e, b :
              /\ <<2, n>> \in job.todo /\ job'.todo = job.todo \ {<<2, n>>}
              /\ \A m : <<1, m>> \notin job.todo
              /\ e \in DOMAIN ent /\ e = entries[n] /\ rec = ent[e] /\ rec.cfg.name = n
              /\ BindEntry(e, rec) /\ EntryBound(e, rec, b)
  BY BootBindsEffect
<1>2. Serves /\ BootSoFar
  BY <1>1 DEF ServiceInv, Live
<1>3. \A r : ~Kept(r) /\ ~Kept(r)'
  BY <1>1 DEF Kept, Awaits
<1>4. Continues /\ ReloadSoFar'
  BY <1>1 DEF Continues, ReloadSoFar
<1>5. \A x \in DOMAIN reg : table[reg[x].name] = x
  BY <1>1, <1>2 DEF BootSoFar
<1>6. ASSUME NEW n \in Names, NEW st \in Registration, NEW r, NEW s, NEW b,
             <<1, n>> \in job.todo, job'.todo = job.todo \ {<<1, n>>},
             r \in DOMAIN reg, r = table[n], st = reg[r], st.name = n,
             Attach(r, st), Attached(r, st, s, b)
      PROVE  ServiceInv'
  <2>1. \A x \in DOMAIN bnd : bnd[x].entry = 0
    BY <1>1, <1>2, <1>6 DEF BootSoFar
  <2>2. bindings[st.cfg.sup] # 0 => bnd[bindings[st.cfg.sup]].entry = 0
    <3>1. st.cfg.sup \in Ports
      BY ProjectsAreTyped DEF Registration
    <3> QED
      BY <1>0, <2>1, <3>1 DEF Pointers
  <2>3. \A x \in DOMAIN reg \ {r} : reg'[x] = reg[x] /\ reg[x].name # n
    BY <1>5, <1>6 DEF Attached
  <2>4. /\ \A x \in DOMAIN reg \ {r} : Pending(x)' <=> Pending(x)
        /\ \A m \in EntryNames : PendingEntry(m)' <=> PendingEntry(m)
    BY <1>1, <1>6, <2>3 DEF Pending, PendingEntry
  <2>5. Serves'
    BY <1>2, <1>3, <1>6, <2>2, <2>4, AttachServes
  <2>6. BootSoFar'
    <3>1. DOMAIN reg' = DOMAIN reg /\ reg'[r].name = reg[r].name
      BY ZenonT(60), <1>6 DEF Attached
    <3>2. \A x \in DOMAIN reg' : table'[reg'[x].name] = x
      BY <1>1, <1>5, <2>3, <3>1
    <3>3. \A x \in DOMAIN bnd' : bnd'[x].entry = 0
      BY <1>6, <2>1 DEF Attached
    <3> QED
      BY <3>2, <3>3 DEF BootSoFar
  <2> QED
    BY <1>4, <2>5, <2>6 DEF ServiceInv
<1>7. ASSUME NEW n \in EntryNames, NEW rec \in Entry, NEW e, NEW b,
             <<2, n>> \in job.todo, job'.todo = job.todo \ {<<2, n>>},
             \A m : <<1, m>> \notin job.todo,
             e \in DOMAIN ent, e = entries[n], rec = ent[e], rec.cfg.name = n,
             BindEntry(e, rec), EntryBound(e, rec, b)
      PROVE  ServiceInv'
  <2>1. reg' = reg
    BY <1>7 DEF EntryBound
  <2>2. /\ \A x \in DOMAIN reg : Pending(x)' <=> Pending(x)
        /\ \A m \in EntryNames \ {n} : PendingEntry(m)' <=> PendingEntry(m)
    BY <1>1, <1>7, <2>1 DEF Pending, PendingEntry
  <2>3. Serves'
    BY <1>2, <1>3, <1>7, <2>2, BindEntryServes
  <2>4. BootSoFar'
    BY <1>1, <1>5, <1>7, <2>1 DEF BootSoFar
  <2> QED
    BY <1>4, <2>3, <2>4 DEF ServiceInv
<1> QED
  BY <1>1, <1>4, <1>6, <1>7

\* Nothing is bound, and everything is still to be.
LEMMA InitServes == Init => ServiceInv
<1> SUFFICES ASSUME Init PROVE ServiceInv
  OBVIOUS
<1>1. PICK names : names = SetToSeq(DOMAIN Boot.projects)
  OBVIOUS
<1>2. PICK wilds : wilds = SetToSeq(WildcardNames(Boot))
  OBVIOUS
<1>3. /\ reg = [i \in DOMAIN names |-> NewState(names[i], Boot.projects[names[i]], 0)]
      /\ table = [n \in Names |-> IF \E i \in DOMAIN names : names[i] = n
                                  THEN CHOOSE i \in DOMAIN names : names[i] = n ELSE 0]
      /\ entries = [n \in EntryNames |-> IF \E i \in DOMAIN wilds : wilds[i] = n
                                         THEN CHOOSE i \in DOMAIN wilds : wilds[i] = n ELSE 0]
      /\ bindings = [p \in Ports |-> 0] /\ bnd = << >>
      /\ job = [by |-> "boot", todo |-> {<<1, n>> : n \in DOMAIN Boot.projects}
                                        \cup {<<2, n>> : n \in WildcardNames(Boot)}]
  BY <1>1, <1>2 DEF Init
<1>4. /\ DOMAIN Boot.projects \subseteq Names /\ IsFiniteSet(DOMAIN Boot.projects)
      /\ IsFiniteSet(WildcardNames(Boot))
  <2>1. Boot \in Files \cup {Boot}
    OBVIOUS
  <2>2. DOMAIN Boot.projects \subseteq Names /\ WildcardNames(Boot) \subseteq EntryNames
    BY <2>1, FilesAssumption DEF WildcardNames
  <2> QED
    BY <2>2, FilesAssumption, FS_Subset
<1>5. /\ DOMAIN names \subseteq Nat \ {0}
      /\ \A i, j \in DOMAIN names : names[i] = names[j] => i = j
      /\ \A i \in DOMAIN names : names[i] \in DOMAIN Boot.projects
  BY <1>1, <1>4, SeqLists
<1>6. /\ DOMAIN wilds \subseteq Nat \ {0}
      /\ \A i \in DOMAIN wilds : wilds[i] \in WildcardNames(Boot)
  BY <1>2, <1>4, SeqLists
<1>7. Place(names, table, Names) /\ Place(wilds, entries, EntryNames)
  BY <1>3, <1>5, <1>6, PlaceOf
<1>8. DOMAIN reg = DOMAIN names /\ \A i \in DOMAIN names : reg[i].name = names[i] /\ reg[i].bind = 0
  BY <1>3 DEF NewState
<1>9. /\ job.by = "boot" /\ DOMAIN bnd = {} /\ \A p \in Ports : bindings[p] = 0
      /\ \A n \in DOMAIN Boot.projects : <<1, n>> \in job.todo
      /\ \A n \in WildcardNames(Boot) : <<2, n>> \in job.todo
  BY <1>3
<1>10. \A r \in DOMAIN reg : Pending(r)
  BY <1>5, <1>8, <1>9 DEF Pending
<1>11. \A n \in EntryNames : entries[n] # 0 => PendingEntry(n)
  BY <1>6, <1>7, <1>9 DEF PendingEntry, Place
<1>12. Serves
  BY <1>8, <1>9, <1>10, <1>11 DEF Serves, Sockets, Apart, InService, InUse, EntriesServe
<1>13. \A r \in DOMAIN reg : table[reg[r].name] = r
  <2> SUFFICES ASSUME NEW r \in DOMAIN reg PROVE table[names[r]] = r
    BY <1>8
  <2>1. r \in DOMAIN names /\ names[r] \in Names
    BY <1>4, <1>5, <1>8
  <2>2. table[names[r]] \in DOMAIN names /\ names[table[names[r]]] = names[r]
    BY <1>7, <2>1 DEF Place
  <2> QED
    BY <1>5, <2>1, <2>2
<1>14. BootSoFar /\ ReloadSoFar
  BY <1>9, <1>13 DEF BootSoFar, ReloadSoFar
<1> QED
  BY <1>12, <1>14 DEF ServiceInv

-----------------------------------------------------------------------------
(* Theorems *)

LEMMA StepServes ==
  ASSUME DaemonInv, ServiceInv, DaemonInv', [Next]_vars
  PROVE  ServiceInv' /\ Continues
<1>1. CASE DaemonWorks
  <2>1. CASE BootBinds
    BY <2>1, BootBindsServes
  <2>2. CASE BootFails \/ StopAllBegins \/ StopAllEnds
    BY <2>2, DownSteps
  <2>3. CASE BootEnds
    BY <2>3, BootEndsServes
  <2>4. CASE ReloadDetaches
    BY <2>4, ReloadDetachesServes
  <2>5. CASE ReloadUnbinds
    BY <2>5, ReloadUnbindsServes
  <2>6. CASE ReloadEnds
    BY <2>6, ReloadEndsServes
  <2>7. CASE JobRetires
    BY <2>7, JobRetiresServes
  <2>8. CASE \E n \in Names :
               ReloadAdds(n) \/ ReloadReplaces(n) \/ ReloadRestores(n) \/ ReloadLoses(n)
    BY <2>8, RebuildingServes
  <2>9. CASE \E n \in EntryNames : ReloadBindsEntry(n)
    BY <2>9, ReloadBindsEntryServes
  <2> QED
    BY <1>1, <2>1, <2>2, <2>3, <2>4, <2>5, <2>6, <2>7, <2>8, <2>9 DEF DaemonWorks
<1>2. CASE ReloadBegins
  BY <1>2, ReloadBeginsServes
<1>3. CASE Drain
  BY <1>3, DrainServes
<1>4. CASE \E q \in Requests : RequestWorks(q) \/ RequestComes(q)
  BY <1>4, RequestsServe
<1>5. CASE \E r \in DOMAIN reg : ProcWorks(r)
  BY <1>5, ProcessesServe
<1>6. CASE UNCHANGED vars
  <2>1. Still /\ table' = table /\ job' = job /\ run' = run /\ Shapes'
    BY <1>6 DEF vars, heap, Still, DaemonInv
  <2> QED
    BY <2>1, StillSteps
<1> QED
  BY <1>1, <1>2, <1>3, <1>4, <1>5, <1>6 DEF Next

\* While the daemon binds, serves or reloads, every project that is not being
\* retired, or whose route a reload keeps, is on an open listener behind a
\* switch of its own, every entry has its listener to itself, and a reload has
\* left in the table all it does not change (attach, detach, bindEntry,
\* unbindEntry, Reload).
THEOREM ServiceInvariant == Spec => []ServiceInv
<1>1. Init => ServiceInv
  BY InitServes
<1>2. DaemonInv /\ ServiceInv /\ DaemonInv' /\ [Next]_vars => ServiceInv'
  BY StepServes
<1> QED
  BY <1>1, <1>2, DaemonInvariant, PTL DEF Spec

\* What a reload does not change is in service, and not in its hands.
Untouched(n) ==
  /\ table[n] = Old(n) /\ Old(n) \in DOMAIN reg
  /\ reg[Old(n)].retire = "no" /\ ~InHand(Old(n))
  /\ sw[reg[Old(n)].sw] = Old(n) /\ bnd[reg[Old(n)].bind].open
EntryUntouched(n) ==
  /\ entries[n] = job.oldEnt[n] /\ job.oldEnt[n] \in DOMAIN ent
  /\ bnd[ent[job.oldEnt[n]].bind].open
UnchangedServes ==
  job.by = "reload" =>
    /\ \A n \in DOMAIN job.cfg.projects : Old(n) # 0 /\ n \notin Changed => Untouched(n)
    /\ \A n \in WildcardNames(job.cfg) : job.oldEnt[n] # 0 /\ EntryStays(n) => EntryUntouched(n)

LEMMA ServiceOfUnchanged == DaemonInv /\ ServiceInv => UnchangedServes
<1> SUFFICES ASSUME DaemonInv, ServiceInv, job.by = "reload"
             PROVE  /\ \A n \in DOMAIN job.cfg.projects :
                         Old(n) # 0 /\ n \notin Changed => Untouched(n)
                    /\ \A n \in WildcardNames(job.cfg) :
                         job.oldEnt[n] # 0 /\ EntryStays(n) => EntryUntouched(n)
  BY DEF UnchangedServes
<1>1. AtReload /\ Serves /\ ReloadSoFar /\ run # "exited"
  BY JobIsKnown DEF ServiceInv, Live, DaemonInv, Teardown, Nobody
<1>2. ASSUME NEW n \in DOMAIN job.cfg.projects, Old(n) # 0, n \notin Changed
      PROVE  Untouched(n)
  <2>1. n \in Names /\ table[n] = Old(n) /\ Changed \subseteq Names
    BY <1>1, <1>2, DiffIsTyped DEF DaemonInv, ReloadSoFar
  <2>2. Old(n) \in DOMAIN reg /\ reg[Old(n)].name = n
    BY <1>1, <1>2, <2>1 DEF DaemonInv, Jobs
  <2>3. job.step \in {"detach", "retire", "rebuild"}
    BY <1>1 DEF AtReload
  <2>4. reg[Old(n)].retire = "no"
    <3> SUFFICES ASSUME reg[Old(n)].retire # "no" PROVE FALSE
      OBVIOUS
    <3>1. InHand(table[n]) /\ (job.step = "rebuild" => <<2, n>> \in job.todo)
      BY <1>1, <1>2, <2>1 DEF DaemonInv, Teardown
    <3> QED
      BY <1>2, <2>1, <2>3, <3>1 DEF DaemonInv, ReloadWork, InHand
  <2>5. ~InHand(Old(n))
    BY <1>2, <2>1, <2>3, <2>4 DEF DaemonInv, ReloadWork, InHand, AllRetired
  <2>6. ~Kept(Old(n))
    BY <1>1, <1>2, <2>2 DEF Kept, Awaits, DaemonInv, Jobs
  <2>7. InUse(Old(n))
    BY <2>4 DEF InUse, Pending
  <2> QED
    BY <1>1, <2>1, <2>2, <2>4, <2>5, <2>6, <2>7 DEF Untouched, Serves, InService
<1>3. ASSUME NEW n \in WildcardNames(job.cfg), job.oldEnt[n] # 0, EntryStays(n)
      PROVE  EntryUntouched(n)
  <2>1. n \in EntryNames
    BY <1>1, EntriesAreTyped DEF WildcardNames, AtReload
  <2>2. entries[n] = job.oldEnt[n] /\ job.oldEnt[n] \in DOMAIN ent
    BY <1>1, <1>3, <2>1 DEF ReloadSoFar
  <2>3. Bound(entries[n])
    BY <1>1, <1>3, <2>1, <2>2 DEF Serves, EntriesServe, PendingEntry
  <2> QED
    BY <2>2, <2>3 DEF EntryUntouched, Bound
<1> QED
  BY <1>2, <1>3

\* Only its own last step ends a reload.
LEMMA ReloadIsEnded ==
  ASSUME DaemonInv, [Next]_vars, job.by = "reload", job'.by = "none"
  PROVE  UNCHANGED heap
<1>1. AtReload
  BY JobIsKnown
<1>2. job' # job
  OBVIOUS
<1>3. \A phase, n : ~Rebuild(phase, n)
  BY <1>1 DEF Rebuild, Done, AtReload
<1>4. ~ReloadDetaches /\ ~ReloadUnbinds
  BY <1>1 DEF ReloadDetaches, ReloadUnbinds, AtReload
<1>5. ~JobRetires /\ ~Drain /\ ~ReloadBegins /\ ~UNCHANGED vars
  BY <1>2 DEF JobRetires, Drain, ReloadBegins, Nobody, vars
<1>6. ~BootBinds /\ ~BootFails /\ ~BootEnds /\ ~StopAllBegins /\ ~StopAllEnds
  BY DEF BootBinds, BootFails, BootEnds, StopAllBegins, StopAllEnds, Nobody
<1>7. \A q \in Requests : ~RequestWorks(q) /\ ~RequestComes(q)
  BY <1>2 DEF RequestWorks, RequestComes, PassesSwitch, AsksForStart, Starts, Arrives, ArrivesAt,
              ClientLeaves, OperatorFinds
<1>8. \A r \in DOMAIN reg : ~ProcWorks(r)
  BY <1>2 DEF ProcWorks, StarterRuns, ProcStops, ProcExits
<1>9. ReloadEnds
  BY <1>3, <1>4, <1>5, <1>6, <1>7, <1>8
     DEF Next, DaemonWorks, ReloadAdds, ReloadReplaces, ReloadRestores, ReloadLoses, ReloadBindsEntry
<1> QED
  BY <1>9 DEF ReloadEnds

\* A reload never touches a project or an entry whose configuration it does
\* not change, whatever the files say, what else it adds, replaces, loses or
\* restores and which binds fail: the registration stays in the table and is
\* not retired, its handler stays in its switch, and its listener stays open
\* (Reload, retireAll, detach, unbindEntry).
THEOREM UnchangedStays == Spec => UnchangedUntouched
<1> DEFINE Stay ==
      job.by = "reload" /\ job'.by \in {"reload", "none"} =>
        /\ \A n \in DOMAIN job.cfg.projects :
             Old(n) # 0 /\ n \notin Changed =>
               /\ table'[n] = table[n] /\ reg'[Old(n)].retire = "no"
               /\ sw'[reg[Old(n)].sw] = Old(n) /\ bnd'[reg[Old(n)].bind].open
        /\ \A n \in WildcardNames(job.cfg) :
             job.oldEnt[n] # 0 /\ [ent[job.oldEnt[n]].cfg EXCEPT !.max = 0]
                                    = [EntryNamed(job.cfg, n) EXCEPT !.max = 0] =>
               entries'[n] = job.oldEnt[n] /\ bnd'[ent[job.oldEnt[n]].bind].open
<1>1. DaemonInv /\ ServiceInv /\ DaemonInv' /\ ServiceInv' /\ [Next]_vars => Stay
  <2> SUFFICES ASSUME DaemonInv, ServiceInv, DaemonInv', ServiceInv', [Next]_vars,
                      job.by = "reload", job'.by \in {"reload", "none"}
               PROVE  Stay
    OBVIOUS
  <2>1. UnchangedServes /\ UnchangedServes' /\ Continues
    BY ServiceOfUnchanged, StepServes, PTL
  <2>2. /\ \A n \in DOMAIN job.cfg.projects : Old(n) # 0 /\ n \notin Changed => Untouched(n)
        /\ \A n \in WildcardNames(job.cfg) :
             job.oldEnt[n] # 0 /\ EntryStays(n) => EntryUntouched(n)
    BY <2>1 DEF UnchangedServes
  <2>3. \A n \in WildcardNames(job.cfg) :
          [ent[job.oldEnt[n]].cfg EXCEPT !.max = 0] = [EntryNamed(job.cfg, n) EXCEPT !.max = 0]
            => EntryStays(n)
    BY DEF EntryStays, EquivalentEntry
  <2>4. CASE job'.by = "none"
    <3>1. UNCHANGED heap
      BY <2>4, ReloadIsEnded
    <3> QED
      BY <2>2, <2>3, <3>1 DEF Untouched, EntryUntouched, heap
  <2>5. CASE job'.by = "reload"
    <3>1. /\ job'.cfg = job.cfg /\ job'.old = job.old /\ job'.oldEnt = job.oldEnt
          /\ \A r \in DOMAIN reg :
               /\ r \in DOMAIN reg' /\ reg'[r].sw = reg[r].sw
               /\ InHand(r) \/ reg'[r].bind = reg[r].bind
          /\ \A e \in DOMAIN ent : e \in DOMAIN ent' /\ ent'[e] = ent[e]
      BY <2>1, <2>5 DEF Continues
    <3>2. AtReload /\ CfgsStay
      BY <2>1, <2>5, JobIsKnown DEF Continues, CfgsStay
    <3>3. Changed' = Changed /\ \A n \in DOMAIN job.cfg.projects : Old(n)' = Old(n)
      BY <3>1, <3>2, DiffIsStable, DiffIsTyped DEF DaemonInv
    <3>4. ASSUME NEW n \in DOMAIN job.cfg.projects, Old(n) # 0, n \notin Changed
          PROVE  /\ table'[n] = table[n] /\ reg'[Old(n)].retire = "no"
                 /\ sw'[reg[Old(n)].sw] = Old(n) /\ bnd'[reg[Old(n)].bind].open
      <4>1. Untouched(n) /\ Untouched(n)'
        BY <2>1, <2>2, <2>5, <3>1, <3>3, <3>4 DEF UnchangedServes
      <4> QED
        BY <3>1, <3>3, <4>1 DEF Untouched
    <3>5. ASSUME NEW n \in WildcardNames(job.cfg), job.oldEnt[n] # 0, EntryStays(n)
          PROVE  entries'[n] = job.oldEnt[n] /\ bnd'[ent[job.oldEnt[n]].bind].open
      <4>1. EntryUntouched(n)
        BY <2>2, <3>5
      <4>2. EntryStays(n)'
        BY <3>1, <3>5, <4>1 DEF EntryStays, EntryUntouched
      <4>3. EntryUntouched(n)'
        BY <2>1, <2>5, <3>1, <3>5, <4>2 DEF UnchangedServes
      <4> QED
        BY <3>1, <4>1, <4>3 DEF EntryUntouched
    <3> QED
      BY <2>3, <3>4, <3>5
  <2> QED
    BY <2>4, <2>5
<1>2. DaemonInv /\ ServiceInv /\ DaemonInv' /\ ServiceInv' /\ [Next]_vars => [Stay]_vars
  BY <1>1
<1> QED
  BY <1>2, DaemonInvariant, ServiceInvariant, PTL DEF Spec, UnchangedUntouched
=============================================================================
