---------------------------- MODULE DaemonProofs ----------------------------
(***************************************************************************)
(* Proofs about Daemon, for any files, names, ports and number of reloads. *)
(*                                                                         *)
(* RoutesAreLive and NothingSurvives are not inductive.  A route stays     *)
(* live because the step that removes a project from service also removes  *)
(* its route, or suspends a switch some reload is bound to fill: that a    *)
(* route belongs to the registrations behind its switch (RoutesAreOwned),  *)
(* that a suspended one is owed (RoutesLead, Awaits), and that the         *)
(* holder's work list agrees with the table (ReloadWork).  Nothing         *)
(* survives a shutdown because a registration that is not torn down is in  *)
(* the table or in the hands of the holder (Teardown), and because a       *)
(* listener counts exactly the registrations on it (Listeners), so that    *)
(* the last of them closes it.                                             *)
(*                                                                         *)
(* For each kind of change to the heap, a lemma says what it does          *)
(* (...Effect), one that the pointers still agree (...KeepsHeap), and one  *)
(* per action that DaemonInv is kept (...Keeps).                           *)
(***************************************************************************)
EXTENDS Daemon, FiniteSetTheorems, TLAPS

-----------------------------------------------------------------------------
(* Shapes *)

Projects == UNION {{f.projects[n] : n \in DOMAIN f.projects} : f \in Files \cup {Boot}}
Hosts == {p.host : p \in Projects}
Routings == UNION {[D -> Nat] : D \in SUBSET Hosts}
Registration ==
  [name : Names, cfg : Projects, sw : Nat, bind : Nat, entry : {0},
   drive : {"none", "starter", "monitor", "cancelled", "ended"},
   retire : {"no", "off", "stopping", "done"}, proc : {"down", "up", "stopping"}]
Listener == [port : Ports, open : BOOLEAN, members : Int, entry : Nat, routes : Routings]
Entry == [cfg : UNION {Wildcards(f) : f \in Files \cup {Boot}}, bind : Nat]
Runs == {"booting", "running", "draining", "exited", "crashed"}

Shapes ==
  /\ reg \in Seq(Registration) /\ sw \in Seq(Nat) /\ bnd \in Seq(Listener) /\ ent \in Seq(Entry)
  /\ table \in [Names -> Nat] /\ entries \in [EntryNames -> Nat] /\ bindings \in [Ports -> Nat]
  /\ run \in Runs

\* The holder of reloadMu, by what it does. An item of a teardown is a record.
AtBoot == job.by = "boot" /\ job = [by |-> "boot", todo |-> job.todo]
AtReload ==
  /\ job.by = "reload" /\ job.step \in {"detach", "retire", "rebuild"}
  /\ job = [by |-> "reload", step |-> job.step, cfg |-> job.cfg, old |-> job.old,
            oldEnt |-> job.oldEnt, items |-> job.items, todo |-> job.todo]
  /\ job.cfg \in Files /\ job.old \in [Names -> Nat] /\ job.oldEnt \in [EntryNames -> Nat]
AtStop == job.by = "stop" /\ job = [by |-> "stop", step |-> "retire", items |-> job.items]
InTeardown == AtReload \/ AtStop

Jobs ==
  /\ job = Nobody \/ AtBoot \/ AtReload \/ AtStop
  /\ InTeardown => \A i \in job.items :
       i = [reg |-> i.reg, keep |-> i.keep] /\ i.reg \in DOMAIN reg /\ i.keep \in BOOLEAN
  /\ AtReload => \A n \in Names : Old(n) # 0 => Old(n) \in DOMAIN reg /\ reg[Old(n)].name = n

\* Every pointer that is not nil leads to an object that points back.
Pointers ==
  /\ \A n \in Names : table[n] # 0 => table[n] \in DOMAIN reg /\ reg[table[n]].name = n
  /\ \A n \in EntryNames : entries[n] # 0 =>
       entries[n] \in DOMAIN ent /\ ent[entries[n]].cfg.name = n
  /\ \A p \in Ports : bindings[p] # 0 =>
       bindings[p] \in DOMAIN bnd /\ bnd[bindings[p]].port = p
  /\ \A s \in DOMAIN sw : sw[s] # 0 => sw[s] \in DOMAIN reg /\ reg[sw[s]].sw = s
  /\ \A r \in DOMAIN reg :
       /\ reg[r].sw # 0 => reg[r].sw \in DOMAIN sw
       /\ reg[r].bind # 0 => reg[r].bind \in DOMAIN bnd /\ bnd[reg[r].bind].port = reg[r].cfg.sup
  /\ \A b \in DOMAIN bnd : \A h \in DOMAIN bnd[b].routes : bnd[b].routes[h] \in DOMAIN sw

-----------------------------------------------------------------------------
(* Routing *)

\* A route belongs to the registrations behind its switch, all of which are
\* for that host on that listener.
RoutesAreOwned ==
  \A b \in DOMAIN bnd : \A h \in DOMAIN bnd[b].routes : \A r \in DOMAIN reg :
    reg[r].sw = bnd[b].routes[h] => reg[r].cfg.host = h /\ reg[r].bind = b

\* Project n keeps its route and waits for its replacement.
Awaits(n) ==
  /\ job.by = "reload" /\ n \in Changed /\ Keeps(n)
  /\ job.step = "retire" \/ (job.step = "rebuild" /\ <<2, n>> \in job.todo)

\* Behind a route is a registration that nobody has begun to retire, or a
\* reload that owes one.
RoutesLead ==
  \A b \in DOMAIN bnd : \A h \in DOMAIN bnd[b].routes :
    LET s == bnd[b].routes[h]
    IN IF sw[s] = 0 THEN \E n \in Names : Awaits(n) /\ reg[Old(n)].sw = s
       ELSE reg[sw[s]].retire = "no"

-----------------------------------------------------------------------------
(* The jobs *)

\* What Run has still to bind is registered and not bound.
BootWork ==
  job.by = "boot" =>
    /\ \A t \in job.todo : t \in {1} \X Names \/ t \in {2} \X EntryNames
    /\ \A n \in Names : <<1, n>> \in job.todo =>
         table[n] # 0 /\ reg[table[n]].sw = 0 /\ reg[table[n]].bind = 0
    /\ \A n \in EntryNames : <<2, n>> \in job.todo =>
         entries[n] # 0 /\ ent[entries[n]].bind = 0

InHand(r) == job.by \in {"reload", "stop"} /\ \E i \in job.items : i.reg = r

\* What a reload has to do against what is in the table.
ReloadWork ==
  job.by = "reload" =>
    /\ job.step = "detach" => table = job.old /\ job.items = {}
    /\ job.step \in {"detach", "retire"} => entries = job.oldEnt
    /\ job.step = "retire" =>
         /\ \A n \in Added : table[n] = 0
         /\ \A n \in Changed : table[n] = Old(n)
         /\ \A n \in Names : table[n] # 0 /\ InHand(table[n]) => n \in Changed
    /\ job.step \in {"retire", "rebuild"} => \A n \in Changed : InHand(Old(n))
    /\ \A i \in job.items : i.keep <=> \E n \in Changed : Keeps(n) /\ i.reg = Old(n)
    /\ job.step = "rebuild" =>
         /\ AllRetired
         /\ \A n \in Names : <<1, n>> \in job.todo => n \in Added /\ table[n] = 0
         /\ \A n \in Names : <<2, n>> \in job.todo => n \in Changed /\ table[n] = Old(n)
         /\ \A n \in EntryNames : <<3, n>> \in job.todo => 
                n \in WildcardNames(job.cfg) /\ entries[n] = 0

\* A shutdown has every project of the table in hand, and keeps no route.
StopWork ==
  job.by = "stop" => (\A i \in job.items : ~i.keep) /\ \A r \in Registered : InHand(r)

\* A registration that is not torn down is in the table or in somebody's
\* hands, and only what is in hand is torn down.
Teardown ==
  /\ \A r \in DOMAIN reg : reg[r].retire = "done" => reg[r].proc = "down"
  /\ \A r \in DOMAIN reg : reg[r].retire # "done" => r \in Registered \/ InHand(r)
  /\ \A n \in Names : table[n] # 0 /\ reg[table[n]].retire # "no" /\ run # "exited" =>
       InHand(table[n]) /\ (job.by = "reload" /\ job.step = "rebuild" => <<2, n>> \in job.todo)
  /\ run = "exited" => job = Nobody /\ \A r \in DOMAIN reg : reg[r].retire = "done"

-----------------------------------------------------------------------------
(* Listeners *)

\* The registrations a listener counts: those on it that are in service, and
\* those whose place on it a reload keeps for a replacement.
Kept(r) == \E n \in Names : Awaits(n) /\ Old(n) = r
Members(b) == {r \in DOMAIN reg : reg[r].bind = b /\ (reg[r].retire = "no" \/ Kept(r))}

\* A listener is open only for its members or for its entry.
Listeners ==
  \A b \in DOMAIN bnd :
    /\ bnd[b].members = Cardinality(Members(b))
    /\ bnd[b].open /\ bnd[b].entry = 0 => bnd[b].members > 0
    /\ bnd[b].open /\ bnd[b].entry # 0 =>
         \E n \in EntryNames : entries[n] = bnd[b].entry /\ ent[bnd[b].entry].bind = b
    /\ run = "exited" => ~bnd[b].open

DaemonInv ==
  /\ Shapes /\ Jobs /\ Pointers
  /\ RoutesAreOwned /\ RoutesLead
  /\ BootWork /\ ReloadWork /\ StopWork /\ Teardown
  /\ Listeners

-----------------------------------------------------------------------------
(* Sequences, routes and records *)

\* t is s with x in place i, or added there.
Replaced(t, s, S, i, x) ==
  /\ t \in Seq(S) /\ DOMAIN t = DOMAIN s \cup {i} /\ t[i] = x
  /\ \A j \in DOMAIN s \ {i} : t[j] = s[j]

LEMMA PutEffect ==
  ASSUME NEW S, NEW s \in Seq(S), NEW i \in 1..(Len(s) + 1), NEW x \in S, NEW t, t = Put(s, i, x)
  PROVE  Replaced(t, s, S, i, x)
<1>1. CASE i > Len(s)
  BY <1>1 DEF Put, Replaced
<1>2. CASE ~(i > Len(s))
  <2>1. i \in DOMAIN s /\ t = [s EXCEPT ![i] = x]
    BY <1>2 DEF Put
  <2>2. t \in [1..Len(s) -> S]
    BY <2>1
  <2>3. t \in Seq(S) /\ DOMAIN t = DOMAIN s
    BY <2>2
  <2> QED
    BY <2>1, <2>3 DEF Replaced
<1> QED
  BY <1>1, <1>2

LEMMA AppendEffect ==
  ASSUME NEW S, NEW s \in Seq(S), NEW x \in S, NEW t, t = Append(s, x)
  PROVE  Replaced(t, s, S, Len(s) + 1, x) /\ Len(s) + 1 \notin DOMAIN s /\ Len(s) + 1 \in Nat \ {0}
  BY DEF Replaced

LEMMA ExceptEffect ==
  ASSUME NEW S, NEW s \in Seq(S), NEW i \in DOMAIN s, NEW x \in S, NEW t, t = [s EXCEPT ![i] = x]
  PROVE  Replaced(t, s, S, i, x)
<1>1. t \in [1..Len(s) -> S]
  OBVIOUS
<1>2. t \in Seq(S) /\ DOMAIN t = DOMAIN s
  BY <1>1
<1> QED
  BY <1>2 DEF Replaced

\* setHost and removeHost
HostIsSet(g, f, h, s) ==
  /\ g \in Routings /\ DOMAIN g = DOMAIN f \cup {h} /\ g[h] = s
  /\ \A x \in DOMAIN f \ {h} : g[x] = f[x]
HostIsRemoved(g, f, h) ==
  /\ g \in Routings /\ DOMAIN g = DOMAIN f \ {h}
  /\ \A x \in DOMAIN f \ {h} : g[x] = f[x]

LEMMA RoutingEffect ==
  ASSUME NEW f \in Routings, NEW h \in Hosts, NEW s \in Nat
  PROVE  /\ HostIsSet(SetHost(f, h, s), f, h, s)
         /\ HostIsRemoved(RemoveHost(f, h), f, h)
<1>1. PICK D \in SUBSET Hosts : f \in [D -> Nat]
  BY DEF Routings
<1>2. SetHost(f, h, s) \in [D \cup {h} -> Nat]
  BY <1>1 DEF SetHost
<1>3. RemoveHost(f, h) \in [D \ {h} -> Nat]
  BY <1>1 DEF RemoveHost
<1> QED
  BY <1>1, <1>2, <1>3 DEF Routings, SetHost, RemoveHost, HostIsSet, HostIsRemoved

\* The record of a listener after a step, and of a registration.
LEMMA ListenerEffect ==
  ASSUME NEW l \in Listener, NEW m \in Int, NEW f \in Routings, NEW o \in BOOLEAN
  PROVE  LET k == [l EXCEPT !.members = m, !.routes = f]
             c == [l EXCEPT !.members = m, !.routes = f, !.open = o]
             d == [l EXCEPT !.open = o]
         IN /\ k \in Listener /\ k.members = m /\ k.routes = f
            /\ k.open = l.open /\ k.port = l.port /\ k.entry = l.entry
            /\ d \in Listener /\ d.members = l.members /\ d.routes = l.routes
            /\ d.open = o /\ d.port = l.port /\ d.entry = l.entry
  BY DEF Listener

-----------------------------------------------------------------------------
(* The heap: objects and pointers between them *)

\* What Shapes says of the objects one by one
ObjectsAreTyped ==
  /\ \A r \in DOMAIN reg :
       /\ r \in Nat \ {0} /\ reg[r] \in Registration
       /\ reg[r].sw \in Nat /\ reg[r].bind \in Nat
       /\ reg[r].name \in Names /\ reg[r].cfg \in Projects /\ reg[r].entry = 0
  /\ \A b \in DOMAIN bnd :
       /\ b \in Nat \ {0} /\ bnd[b] \in Listener
       /\ bnd[b].members \in Int /\ bnd[b].open \in BOOLEAN /\ bnd[b].routes \in Routings
  /\ \A e \in DOMAIN ent : e \in Nat \ {0} /\ ent[e] \in Entry /\ ent[e].bind \in Nat
  /\ \A s \in DOMAIN sw : s \in Nat \ {0} /\ sw[s] \in Nat

LEMMA ShapesOf == Shapes => ObjectsAreTyped
<1> SUFFICES ASSUME Shapes PROVE ObjectsAreTyped
  OBVIOUS
<1>1. \A r \in DOMAIN reg : r \in Nat \ {0} /\ reg[r] \in Registration
  BY DEF Shapes
<1>2. \A b \in DOMAIN bnd : b \in Nat \ {0} /\ bnd[b] \in Listener
  BY DEF Shapes
<1>3. \A e \in DOMAIN ent : e \in Nat \ {0} /\ ent[e] \in Entry
  BY DEF Shapes
<1>4. \A s \in DOMAIN sw : s \in Nat \ {0} /\ sw[s] \in Nat
  BY DEF Shapes
<1>5. \A r \in DOMAIN reg :
        /\ reg[r].sw \in Nat /\ reg[r].bind \in Nat
        /\ reg[r].name \in Names /\ reg[r].cfg \in Projects /\ reg[r].entry = 0
  BY <1>1 DEF Registration
<1>6. \A b \in DOMAIN bnd :
        bnd[b].members \in Int /\ bnd[b].open \in BOOLEAN /\ bnd[b].routes \in Routings
  BY <1>2 DEF Listener
<1>7. \A e \in DOMAIN ent : ent[e].bind \in Nat
  BY <1>3 DEF Entry
<1> QED
  BY <1>1, <1>2, <1>3, <1>4, <1>5, <1>6, <1>7 DEF ObjectsAreTyped

HeapInv == Shapes /\ Pointers /\ RoutesAreOwned

\* A step that adds no object: pointers and routes stay or go, and what gives
\* up its listener has no route left.
Shrinks ==
  /\ DOMAIN reg' = DOMAIN reg
  /\ \A r \in DOMAIN reg :
       /\ reg'[r].name = reg[r].name /\ reg'[r].cfg = reg[r].cfg /\ reg'[r].sw = reg[r].sw
       /\ reg'[r].bind \in {0, reg[r].bind}
  /\ DOMAIN sw' = DOMAIN sw /\ \A s \in DOMAIN sw : sw'[s] \in {0, sw[s]}
  /\ DOMAIN bnd' = DOMAIN bnd
  /\ \A b \in DOMAIN bnd :
       /\ bnd'[b].port = bnd[b].port
       /\ DOMAIN bnd'[b].routes \subseteq DOMAIN bnd[b].routes
       /\ \A h \in DOMAIN bnd'[b].routes : bnd'[b].routes[h] = bnd[b].routes[h]
  /\ \A r \in DOMAIN reg : reg'[r].bind # reg[r].bind =>
       \A b \in DOMAIN bnd : \A h \in DOMAIN bnd'[b].routes : bnd'[b].routes[h] # reg[r].sw
  /\ \A n \in Names : table'[n] \in {0, table[n]}
  /\ \A n \in EntryNames : entries'[n] \in {0, entries[n]}
  /\ \A p \in Ports : bindings'[p] \in {0, bindings[p]}
  /\ ent' = ent

LEMMA ShrinkingKeepsHeap == HeapInv /\ Shapes' /\ Shrinks => HeapInv'
<1> SUFFICES ASSUME HeapInv, Shapes', Shrinks PROVE Pointers' /\ RoutesAreOwned'
  BY DEF HeapInv
<1>1. Pointers'
  BY DEF HeapInv, Pointers, Shrinks
<1>2. RoutesAreOwned'
  BY DEF HeapInv, RoutesAreOwned, Shrinks
<1> QED
  BY <1>1, <1>2

\* attach
Attached(r, st, s, b) ==
  /\ s \in Nat \ {0} /\ s \notin DOMAIN sw
  /\ b \in Nat \ {0}
  /\ DOMAIN reg' = DOMAIN reg \cup {r}
  /\ reg'[r].name = st.name /\ reg'[r].cfg = st.cfg /\ reg'[r].sw = s /\ reg'[r].bind = b
  /\ reg'[r].retire = st.retire /\ reg'[r].proc = st.proc /\ reg'[r].drive = st.drive
  /\ \A x \in DOMAIN reg \ {r} : reg'[x] = reg[x]
  /\ DOMAIN sw' = DOMAIN sw \cup {s} /\ sw'[s] = r
  /\ \A x \in DOMAIN sw : sw'[x] = sw[x]
  /\ DOMAIN bnd' = DOMAIN bnd \cup {b}
  /\ \A x \in DOMAIN bnd \ {b} : bnd'[x] = bnd[x]
  /\ bnd'[b].port = st.cfg.sup
  /\ st.cfg.host \in DOMAIN bnd'[b].routes /\ bnd'[b].routes[st.cfg.host] = s
  /\ \A h \in DOMAIN bnd'[b].routes \ {st.cfg.host} :
       b \in DOMAIN bnd /\ h \in DOMAIN bnd[b].routes /\ bnd'[b].routes[h] = bnd[b].routes[h]
  /\ b \in DOMAIN bnd => DOMAIN bnd[b].routes \subseteq DOMAIN bnd'[b].routes
  /\ IF b \in DOMAIN bnd
     THEN /\ bnd[b].port = st.cfg.sup
          /\ bnd'[b].open = bnd[b].open /\ bnd'[b].entry = bnd[b].entry
          /\ bnd'[b].members = bnd[b].members + 1
     ELSE bnd'[b].open = TRUE /\ bnd'[b].entry = 0 /\ bnd'[b].members = 1
  /\ bindings' = [bindings EXCEPT ![st.cfg.sup] = b]
  /\ table' = [table EXCEPT ![st.name] = r]
  /\ entries' = entries /\ ent' = ent

LEMMA ProjectsAreTyped == \A p \in Projects : p.sup \in Ports /\ p.host \in Hosts
  BY FilesAssumption DEF Projects, Hosts

LEMMA AttachEffect ==
  ASSUME HeapInv, NEW st \in Registration, NEW r \in 1..(Len(reg) + 1), Attach(r, st), run' \in Runs
  PROVE  Shapes' /\ \E s, b : Attached(r, st, s, b)
<1> DEFINE p == st.cfg.sup
           h == st.cfg.host
           s == Len(sw) + 1
           b == IF bindings[p] # 0 THEN bindings[p] ELSE Len(bnd) + 1
           old == IF bindings[p] # 0 THEN bnd[b] ELSE NewBinding(p, 0)
           new == [old EXCEPT !.members = @ + 1, !.routes = SetHost(@, h, s)]
           strt == [st EXCEPT !.sw = s, !.bind = b]
<1>1. /\ bnd' = Put(bnd, b, new) /\ bindings' = [bindings EXCEPT ![p] = b]
      /\ sw' = Append(sw, r) /\ reg' = Put(reg, r, strt)
      /\ table' = [table EXCEPT ![st.name] = r] /\ entries' = entries /\ ent' = ent
  BY DEF Attach
<1>2. p \in Ports /\ h \in Hosts /\ st.cfg \in Projects
  BY ProjectsAreTyped DEF Registration
<1>3. /\ reg \in Seq(Registration) /\ sw \in Seq(Nat) /\ bnd \in Seq(Listener)
      /\ table \in [Names -> Nat] /\ bindings \in [Ports -> Nat]
  BY DEF HeapInv, Shapes
<1>4. b \in 1..(Len(bnd) + 1) /\ (bindings[p] # 0 <=> b \in DOMAIN bnd) /\ b # 0
  BY <1>2, <1>3 DEF HeapInv, Pointers
<1>5. s \in Nat \ {0} /\ s \notin DOMAIN sw
  BY <1>3
<1>6. old \in Listener /\ old.port = p
  <2>1. CASE bindings[p] # 0
    BY <1>2, <1>3, <1>4, <2>1 DEF HeapInv, Pointers
  <2>2. CASE bindings[p] = 0
    <3>1. [x \in {} |-> 0] \in Routings
      <4>1. [x \in {} |-> 0] \in [{} -> Nat]
        OBVIOUS
      <4> QED
        BY <4>1 DEF Routings
    <3> QED
      BY <1>2, <2>2, <3>1 DEF NewBinding, Listener
  <2> QED
    BY <2>1, <2>2
<1>10. IF b \in DOMAIN bnd THEN old = bnd[b] ELSE old = NewBinding(p, 0)
  BY <1>4
<1> HIDE DEF p, h, s, b, old
<1>7. /\ old.members + 1 \in Int /\ old.routes \in Routings
      /\ HostIsSet(SetHost(old.routes, h, s), old.routes, h, s)
  <2>1. old.members \in Int /\ old.routes \in Routings
    BY <1>6 DEF Listener
  <2>2. s \in Nat /\ old.members + 1 \in Int
    BY <2>1, <1>5
  <2> QED
    BY <2>1, <2>2, <1>2, RoutingEffect
<1>8. /\ new \in Listener /\ new.members = old.members + 1 /\ new.routes = SetHost(old.routes, h, s)
      /\ new.open = old.open /\ new.port = p /\ new.entry = old.entry
  BY <1>6, <1>7 DEF Listener, HostIsSet
<1>9. /\ strt \in Registration /\ strt.name = st.name /\ strt.cfg = st.cfg /\ strt.sw = s
      /\ strt.bind = b /\ strt.retire = st.retire /\ strt.proc = st.proc /\ strt.drive = st.drive
  <2>1. s \in Nat /\ b \in Nat
    BY <1>4, <1>5, <1>3
  <2> QED
    BY <2>1 DEF Registration
<1> HIDE DEF new, strt
<1>11. /\ bnd' \in Seq(Listener) /\ DOMAIN bnd' = DOMAIN bnd \cup {b} /\ bnd'[b] = new
       /\ \A x \in DOMAIN bnd \ {b} : bnd'[x] = bnd[x]
  <2>1. bnd' = Put(bnd, b, new)
    BY <1>1 DEF p, h, s, b, old, new
  <2>2. bnd \in Seq(Listener) /\ b \in 1..(Len(bnd) + 1) /\ new \in Listener
    BY <1>3, <1>4, <1>8
  <2>3. Replaced(bnd', bnd, Listener, b, new)
    BY <2>1, <2>2, PutEffect
  <2> QED
    BY <2>3 DEF Replaced
<1>12. /\ reg' \in Seq(Registration) /\ DOMAIN reg' = DOMAIN reg \cup {r} /\ reg'[r] = strt
       /\ \A x \in DOMAIN reg \ {r} : reg'[x] = reg[x]
  <2>1. reg' = Put(reg, r, strt)
    BY <1>1 DEF p, s, b, strt
  <2>2. Replaced(reg', reg, Registration, r, strt)
    BY <2>1, <1>3, <1>9, PutEffect
  <2> QED
    BY <2>2 DEF Replaced
<1>13. /\ sw' \in Seq(Nat) /\ DOMAIN sw' = DOMAIN sw \cup {s} /\ sw'[s] = r
       /\ \A x \in DOMAIN sw : sw'[x] = sw[x]
  <2>1. Replaced(sw', sw, Nat, s, r)
    <3>1. r \in Nat /\ sw' = Append(sw, r) /\ sw \in Seq(Nat)
      BY <1>1, <1>3
    <3> QED
      BY <3>1, AppendEffect DEF s
  <2> QED
    BY <1>5, <2>1 DEF Replaced
<1>14. Shapes'
  <2>1. bindings' = [bindings EXCEPT ![p] = b]
    BY <1>1 DEF p, b
  <2>0. r \in Nat /\ b \in Nat
    BY <1>3, <1>4
  <2>2. bindings' \in [Ports -> Nat]
    BY <1>3, <2>0, <2>1
  <2>3. table' \in [Names -> Nat]
    BY <1>1, <1>3, <2>0
  <2> QED
    BY <1>1, <1>11, <1>12, <1>13, <2>2, <2>3 DEF HeapInv, Shapes
<1>15. /\ h \in DOMAIN new.routes /\ new.routes[h] = s
       /\ \A x \in DOMAIN new.routes \ {h} :
            b \in DOMAIN bnd /\ x \in DOMAIN bnd[b].routes /\ new.routes[x] = bnd[b].routes[x]
       /\ b \in DOMAIN bnd => DOMAIN bnd[b].routes \subseteq DOMAIN new.routes
  <2>1. /\ DOMAIN new.routes = DOMAIN old.routes \cup {h} /\ new.routes[h] = s
        /\ \A x \in DOMAIN old.routes \ {h} : new.routes[x] = old.routes[x]
    BY <1>7, <1>8 DEF HostIsSet
  <2>2. b \notin DOMAIN bnd => DOMAIN old.routes = {}
    BY <1>10 DEF NewBinding
  <2> QED
    BY <1>10, <2>1, <2>2
<1>16. IF b \in DOMAIN bnd
       THEN bnd[b].port = p /\ new.open = bnd[b].open /\ new.entry = bnd[b].entry /\ new.members = bnd[b].members + 1
       ELSE new.open = TRUE /\ new.entry = 0 /\ new.members = 1
  BY <1>6, <1>8, <1>10 DEF NewBinding
<1>17. Attached(r, st, s, b)
  BY <1>1, <1>4, <1>5, <1>8, <1>9, <1>11, <1>12, <1>13, <1>15, <1>16 DEF Attached, p, h
<1> QED
  BY <1>14, <1>17

\* The registration that is attached is new, or one that Run has not bound.
LEMMA AttachKeepsHeap ==
  ASSUME HeapInv, Shapes', NEW r \in Nat \ {0}, NEW st \in Registration, NEW s, NEW b,
         Attached(r, st, s, b), r \in DOMAIN reg => reg[r].sw = 0 /\ reg[r].name = st.name
  PROVE  HeapInv'
<1>0. st.cfg \in Projects /\ st.cfg.sup \in Ports /\ st.name \in Names
  BY ProjectsAreTyped DEF Registration
<1>1. /\ \A n \in Names : (table[n] # 0 => table[n] \in DOMAIN reg /\ reg[table[n]].name = n)'
      /\ \A n \in EntryNames : (entries[n] # 0 =>
           entries[n] \in DOMAIN ent /\ ent[entries[n]].cfg.name = n)'
  BY SMTT(30), <1>0 DEF HeapInv, Shapes, Pointers, Attached
<1>2. \A p \in Ports : (bindings[p] # 0 =>
         bindings[p] \in DOMAIN bnd /\ bnd[bindings[p]].port = p)'
  <2> SUFFICES ASSUME NEW p \in Ports, bindings'[p] # 0
               PROVE  bindings'[p] \in DOMAIN bnd' /\ bnd'[bindings'[p]].port = p
    OBVIOUS
  <2>1. CASE p = st.cfg.sup
    <3>1. bindings'[p] = b
      BY <2>1 DEF HeapInv, Shapes, Attached
    <3> QED
      BY <2>1, <3>1 DEF Attached
  <2>2. CASE p # st.cfg.sup
    <3>1. bindings'[p] = bindings[p]
      BY <2>2 DEF HeapInv, Shapes, Attached
    <3>2. bindings[p] \in DOMAIN bnd /\ bnd[bindings[p]].port = p
      BY <3>1 DEF HeapInv, Pointers
    <3>3. bindings[p] # b
      BY <2>2, <3>2 DEF Attached
    <3> QED
      BY <3>1, <3>2, <3>3 DEF Attached
  <2> QED
    BY <2>1, <2>2
<1>3. \A x \in DOMAIN sw' : (sw[x] # 0 => sw[x] \in DOMAIN reg /\ reg[sw[x]].sw = x)'
  <2> SUFFICES ASSUME NEW x \in DOMAIN sw', sw'[x] # 0
               PROVE  sw'[x] \in DOMAIN reg' /\ reg'[sw'[x]].sw = x
    OBVIOUS
  <2>1. CASE x = s
    BY <2>1 DEF Attached
  <2>2. CASE x # s
    <3>1. x \in DOMAIN sw /\ x # 0 /\ sw'[x] = sw[x]
      BY <2>2 DEF Attached, HeapInv, Shapes
    <3>2. sw[x] \in DOMAIN reg /\ reg[sw[x]].sw = x /\ sw[x] # r
      BY <3>1 DEF HeapInv, Pointers
    <3> QED
      BY <3>1, <3>2 DEF Attached
  <2> QED
    BY <2>1, <2>2
<1>4. \A x \in DOMAIN reg' :
        (/\ reg[x].sw # 0 => reg[x].sw \in DOMAIN sw
         /\ reg[x].bind # 0 => reg[x].bind \in DOMAIN bnd /\ bnd[reg[x].bind].port = reg[x].cfg.sup)'
  <2> SUFFICES ASSUME NEW x \in DOMAIN reg'
               PROVE  (/\ reg[x].sw # 0 => reg[x].sw \in DOMAIN sw
                       /\ reg[x].bind # 0 =>
                            reg[x].bind \in DOMAIN bnd /\ bnd[reg[x].bind].port = reg[x].cfg.sup)'
    OBVIOUS
  <2>1. CASE x = r
    BY <2>1 DEF Attached
  <2>2. CASE x # r
    <3>1. x \in DOMAIN reg /\ reg'[x] = reg[x]
      BY <2>2 DEF Attached
    <3>2. \A y \in DOMAIN bnd : y \in DOMAIN bnd' /\ bnd'[y].port = bnd[y].port
      BY DEF Attached
    <3>3. DOMAIN sw \subseteq DOMAIN sw'
      BY DEF Attached
    <3> QED
      BY <3>1, <3>2, <3>3 DEF HeapInv, Pointers
  <2> QED
    BY <2>1, <2>2
<1>5. \A y \in DOMAIN bnd' : \A h \in DOMAIN bnd'[y].routes : bnd'[y].routes[h] \in DOMAIN sw'
  BY DEF HeapInv, Pointers, Attached
<1>6. Pointers'
  BY <1>1, <1>2, <1>3, <1>4, <1>5 DEF Pointers
<1>7. RoutesAreOwned'
  <2> SUFFICES ASSUME NEW y \in DOMAIN bnd', NEW h \in DOMAIN bnd'[y].routes, NEW x \in DOMAIN reg',
                      reg'[x].sw = bnd'[y].routes[h]
               PROVE  reg'[x].cfg.host = h /\ reg'[x].bind = y
    BY DEF RoutesAreOwned
  <2>1. CASE y = b /\ h = st.cfg.host
    <3>1. x = r
      BY <2>1 DEF Attached, HeapInv, Pointers
    <3> QED
      BY <2>1, <3>1 DEF Attached
  <2>2. CASE ~(y = b /\ h = st.cfg.host)
    <3>1. y \in DOMAIN bnd /\ h \in DOMAIN bnd[y].routes /\ bnd'[y].routes[h] = bnd[y].routes[h]
      BY <2>2 DEF Attached
    <3>2. bnd[y].routes[h] \in DOMAIN sw
      BY <3>1 DEF HeapInv, Pointers
    <3>3. x # r /\ x \in DOMAIN reg /\ reg'[x] = reg[x]
      BY <3>1, <3>2 DEF Attached
    <3> QED
      BY <3>1, <3>3 DEF HeapInv, RoutesAreOwned
  <2> QED
    BY <2>1, <2>2
<1> QED
  BY <1>6, <1>7 DEF HeapInv

\* activate
LEMMA ActivateEffect ==
  ASSUME NEW st \in Registration
  PROVE  /\ Activated(st) \in Registration
         /\ Activated(st).name = st.name /\ Activated(st).cfg = st.cfg
         /\ Activated(st).sw = st.sw /\ Activated(st).bind = st.bind
         /\ Activated(st).retire = st.retire /\ Activated(st).proc = st.proc
         /\ Activated(st).drive # "none"
  BY DEF Activated, Registration

\* commission with inherited
Inherited(r, st, old) ==
  /\ r \in Nat \ {0} /\ r \notin DOMAIN reg
  /\ DOMAIN reg' = DOMAIN reg \cup {r}
  /\ reg'[r].name = st.name /\ reg'[r].cfg = st.cfg
  /\ reg'[r].sw = reg[old].sw /\ reg'[r].bind = reg[old].bind
  /\ reg'[r].retire = st.retire /\ reg'[r].proc = st.proc /\ reg'[r].drive # "none"
  /\ \A x \in DOMAIN reg : reg'[x] = reg[x]
  /\ DOMAIN sw' = DOMAIN sw
  /\ \A s \in DOMAIN sw : sw'[s] = IF s = reg[old].sw THEN r ELSE sw[s]
  /\ table' = [table EXCEPT ![st.name] = r]
  /\ bnd' = bnd /\ bindings' = bindings /\ entries' = entries /\ ent' = ent

LEMMA InheritEffect ==
  ASSUME HeapInv, NEW st \in Registration, NEW old \in DOMAIN reg, Inherit(st, old), run' \in Runs
  PROVE  Shapes' /\ \E r : Inherited(r, st, old)
<1> DEFINE r == Len(reg) + 1
           mid == [st EXCEPT !.sw = reg[old].sw, !.bind = reg[old].bind]
           new == Activated(mid)
<1>1. /\ reg' = Append(reg, new) /\ table' = [table EXCEPT ![st.name] = r]
      /\ sw' = [sw EXCEPT ![reg[old].sw] = r]
      /\ bnd' = bnd /\ bindings' = bindings /\ entries' = entries /\ ent' = ent
  BY DEF Inherit
<1>2. /\ reg \in Seq(Registration) /\ sw \in Seq(Nat) /\ table \in [Names -> Nat]
      /\ r \in Nat
  BY DEF HeapInv, Shapes
<1>3. reg[old] \in Registration /\ reg[old].sw \in Nat /\ reg[old].bind \in Nat
  BY ShapesOf DEF HeapInv, ObjectsAreTyped
<1>4. /\ mid \in Registration /\ mid.name = st.name /\ mid.cfg = st.cfg
      /\ mid.sw = reg[old].sw /\ mid.bind = reg[old].bind
      /\ mid.retire = st.retire /\ mid.proc = st.proc
  BY <1>3 DEF Registration
<1> HIDE DEF mid
<1>5. /\ new \in Registration /\ new.name = st.name /\ new.cfg = st.cfg
      /\ new.sw = reg[old].sw /\ new.bind = reg[old].bind
      /\ new.retire = st.retire /\ new.proc = st.proc /\ new.drive # "none"
  BY <1>4, ActivateEffect
<1> HIDE DEF new
<1>6. Replaced(reg', reg, Registration, r, new) /\ r \notin DOMAIN reg /\ r \in Nat \ {0}
  BY <1>1, <1>2, <1>5, AppendEffect
<1>7. /\ sw' \in Seq(Nat) /\ DOMAIN sw' = DOMAIN sw
      /\ \A s \in DOMAIN sw : sw'[s] = IF s = reg[old].sw THEN r ELSE sw[s]
  <2> HIDE DEF r
  <2>1. sw \in [1..Len(sw) -> Nat] /\ Len(sw) \in Nat
    BY <1>2
  <2>2. sw' \in [1..Len(sw) -> Nat]
    BY <1>1, <1>2, <2>1
  <2>3. sw' \in Seq(Nat) /\ DOMAIN sw' = DOMAIN sw
    BY <2>1, <2>2
  <2> QED
    BY <1>1, <2>1, <2>3
<1>8. table' \in [Names -> Nat]
  BY <1>1, <1>2
<1>9. Shapes'
  BY <1>1, <1>6, <1>7, <1>8 DEF HeapInv, Shapes, Replaced
<1> HIDE DEF r
<1>10. Inherited(r, st, old)
  BY <1>1, <1>5, <1>6, <1>7 DEF Inherited, Replaced
<1> QED
  BY <1>9, <1>10

LEMMA InheritKeepsHeap ==
  ASSUME HeapInv, Shapes', NEW st \in Registration, NEW old \in DOMAIN reg, NEW r,
         Inherited(r, st, old), SameRoute(reg[old].cfg, st.cfg)
  PROVE  HeapInv'
<1>0. st.cfg \in Projects /\ st.name \in Names /\ table \in [Names -> Nat]
  BY DEF Registration, HeapInv, Shapes
<1>1. Pointers'
  <2>1. \A n \in Names : (table[n] # 0 => table[n] \in DOMAIN reg /\ reg[table[n]].name = n)'
    BY <1>0 DEF HeapInv, Pointers, Inherited
  <2>2. \A s \in DOMAIN sw : (sw[s] # 0 => sw[s] \in DOMAIN reg /\ reg[sw[s]].sw = s)'
    BY DEF HeapInv, Pointers, Inherited
  <2>3. \A x \in DOMAIN reg' :
          (/\ reg[x].sw # 0 => reg[x].sw \in DOMAIN sw
           /\ reg[x].bind # 0 =>
                reg[x].bind \in DOMAIN bnd /\ bnd[reg[x].bind].port = reg[x].cfg.sup)'
    BY DEF HeapInv, Pointers, Inherited, SameRoute
  <2> QED
    BY <2>1, <2>2, <2>3 DEF HeapInv, Pointers, Inherited
<1>2. RoutesAreOwned'
  BY DEF HeapInv, RoutesAreOwned, Inherited, SameRoute
<1> QED
  BY <1>1, <1>2 DEF HeapInv

\* bindEntry
EntryBound(e, rec, b) ==
  /\ b \in Nat \ {0} /\ b \notin DOMAIN bnd
  /\ DOMAIN bnd' = DOMAIN bnd \cup {b}
  /\ bnd'[b].port = rec.cfg.sup /\ bnd'[b].members = 0 /\ bnd'[b].entry = e /\ bnd'[b].open
  /\ DOMAIN bnd'[b].routes = {}
  /\ \A x \in DOMAIN bnd : bnd'[x] = bnd[x]
  /\ DOMAIN ent' = DOMAIN ent \cup {e} /\ ent'[e].cfg = rec.cfg /\ ent'[e].bind = b
  /\ \A x \in DOMAIN ent \ {e} : ent'[x] = ent[x]
  /\ bindings' = [bindings EXCEPT ![rec.cfg.sup] = b]
  /\ entries' = [entries EXCEPT ![rec.cfg.name] = e]
  /\ table' = table /\ reg' = reg /\ sw' = sw

LEMMA EntriesAreTyped ==
  \A f \in Files \cup {Boot} : \A w \in Wildcards(f) : w.name \in EntryNames /\ w.sup \in Ports
  BY FilesAssumption

LEMMA EmptyRouting == [x \in {} |-> 0] \in Routings /\ DOMAIN [x \in {} |-> 0] = {}
<1>1. [x \in {} |-> 0] \in [{} -> Nat]
  OBVIOUS
<1> QED
  BY <1>1 DEF Routings

LEMMA BindEntryEffect ==
  ASSUME HeapInv, NEW rec \in Entry, NEW e \in 1..(Len(ent) + 1), BindEntry(e, rec), run' \in Runs
  PROVE  Shapes' /\ \E b : EntryBound(e, rec, b)
<1> DEFINE b == Len(bnd) + 1
           new == NewBinding(rec.cfg.sup, e)
           rece == [rec EXCEPT !.bind = b]
<1>1. /\ bnd' = Append(bnd, new) /\ ent' = Put(ent, e, rece)
      /\ bindings' = [bindings EXCEPT ![rec.cfg.sup] = b]
      /\ entries' = [entries EXCEPT ![rec.cfg.name] = e]
      /\ table' = table /\ reg' = reg /\ sw' = sw
  BY DEF BindEntry
<1>2. /\ ent \in Seq(Entry) /\ bnd \in Seq(Listener) /\ e \in Nat /\ b \in Nat
      /\ entries \in [EntryNames -> Nat] /\ bindings \in [Ports -> Nat]
  BY DEF HeapInv, Shapes
<1>3. rec.cfg.name \in EntryNames /\ rec.cfg.sup \in Ports
  BY EntriesAreTyped DEF Entry
<1>4. /\ new \in Listener /\ new.port = rec.cfg.sup /\ new.members = 0 /\ new.entry = e
      /\ new.open /\ DOMAIN new.routes = {}
  BY <1>2, <1>3, EmptyRouting DEF Listener, NewBinding
<1>5. rece \in Entry /\ rece.cfg = rec.cfg /\ rece.bind = b
  BY <1>2 DEF Entry
<1> HIDE DEF new, rece
<1>6. Replaced(bnd', bnd, Listener, b, new) /\ b \notin DOMAIN bnd /\ b \in Nat \ {0}
  BY <1>1, <1>2, <1>4, AppendEffect
<1>7. Replaced(ent', ent, Entry, e, rece)
  BY <1>1, <1>2, <1>5, PutEffect
<1>8. bindings' \in [Ports -> Nat] /\ entries' \in [EntryNames -> Nat]
  BY <1>1, <1>2
<1>9. Shapes'
  BY <1>1, <1>6, <1>7, <1>8 DEF HeapInv, Shapes, Replaced
<1> HIDE DEF b
<1>10. EntryBound(e, rec, b)
  BY <1>1, <1>4, <1>5, <1>6, <1>7 DEF EntryBound, Replaced
<1> QED
  BY <1>9, <1>10

LEMMA BindEntryKeepsHeap ==
  ASSUME HeapInv, Shapes', NEW rec \in Entry, NEW e \in Nat \ {0}, NEW b, EntryBound(e, rec, b),
         e \in DOMAIN ent => ent[e].cfg = rec.cfg
  PROVE  HeapInv'
<1>0. /\ rec.cfg.name \in EntryNames /\ rec.cfg.sup \in Ports
      /\ entries \in [EntryNames -> Nat] /\ bindings \in [Ports -> Nat]
  BY EntriesAreTyped DEF Entry, HeapInv, Shapes
<1>1. \A n \in EntryNames : (entries[n] # 0 =>
        entries[n] \in DOMAIN ent /\ ent[entries[n]].cfg.name = n)'
  BY <1>0 DEF HeapInv, Pointers, EntryBound
<1>2. \A p \in Ports : (bindings[p] # 0 =>
        bindings[p] \in DOMAIN bnd /\ bnd[bindings[p]].port = p)'
  BY <1>0 DEF HeapInv, Pointers, EntryBound
<1>3. \A x \in DOMAIN bnd : x \in DOMAIN bnd' /\ bnd'[x] = bnd[x]
  BY DEF EntryBound
<1>4. \A x \in DOMAIN reg' : (reg[x].bind # 0 =>
        reg[x].bind \in DOMAIN bnd /\ bnd[reg[x].bind].port = reg[x].cfg.sup)'
  BY <1>3 DEF HeapInv, Pointers, EntryBound
<1>5. \A y \in DOMAIN bnd' : \A h \in DOMAIN bnd'[y].routes :
         y \in DOMAIN bnd /\ bnd'[y] = bnd[y]
  BY DEF EntryBound
<1>6. Pointers'
  BY <1>1, <1>2, <1>4, <1>5 DEF HeapInv, Pointers, EntryBound
<1>7. RoutesAreOwned'
  BY <1>5 DEF HeapInv, RoutesAreOwned, EntryBound
<1> QED
  BY <1>6, <1>7 DEF HeapInv

\* TakeOff
TakenOff(r, keep) ==
  /\ reg[r].retire = "no"
  /\ DOMAIN reg' = DOMAIN reg /\ \A x \in DOMAIN reg \ {r} : reg'[x] = reg[x]
  /\ reg'[r].name = reg[r].name /\ reg'[r].cfg = reg[r].cfg /\ reg'[r].sw = reg[r].sw
  /\ reg'[r].proc = reg[r].proc /\ reg'[r].retire = "off" /\ reg'[r].drive # "none"
  /\ reg'[r].bind = IF keep THEN reg[r].bind ELSE 0
  /\ table' = table /\ entries' = entries /\ ent' = ent
  /\ DOMAIN sw' = DOMAIN sw
  /\ \A s \in DOMAIN sw : sw'[s] = IF keep /\ s = reg[r].sw THEN 0 ELSE sw[s]
  /\ keep \/ reg[r].bind = 0 => bnd' = bnd /\ bindings' = bindings
  /\ ~keep /\ reg[r].bind # 0 =>
       /\ DOMAIN bnd' = DOMAIN bnd
       /\ \A x \in DOMAIN bnd \ {reg[r].bind} : bnd'[x] = bnd[x]
       /\ LET k == bnd[reg[r].bind]
              l == bnd'[reg[r].bind]
          IN /\ l.port = k.port /\ l.entry = k.entry /\ l.members = k.members - 1
             /\ l.open <=> k.open /\ ~(l.members <= 0 /\ l.entry = 0)
             /\ DOMAIN l.routes = DOMAIN k.routes \ {reg[r].cfg.host}
             /\ \A h \in DOMAIN l.routes : l.routes[h] = k.routes[h]
             /\ \A p \in Ports : bindings'[p] =
                  IF l.members <= 0 /\ l.entry = 0 /\ bindings[p] = reg[r].bind THEN 0 ELSE bindings[p]
       /\ \A p \in Ports : bindings'[p] \in {0, bindings[p]}

LEMMA TakeOffEffect ==
  ASSUME HeapInv, NEW r \in DOMAIN reg, NEW keep \in BOOLEAN, TakeOff(r, keep), run' \in Runs
  PROVE  Shapes' /\ TakenOff(r, keep)
<1> DEFINE st == reg[r]
           b == reg[r].bind
           nb == IF keep THEN st.bind ELSE 0
           nd == IF st.drive = "starter" THEN "cancelled" ELSE "ended"
           off == [st EXCEPT !.retire = "off", !.bind = nb, !.drive = nd]
<1>0. st \in Registration /\ st.sw \in Nat /\ st.bind \in Nat /\ st.cfg \in Projects /\ st.entry = 0
  BY ShapesOf DEF HeapInv, ObjectsAreTyped
<1>1. /\ reg \in Seq(Registration) /\ sw \in Seq(Nat) /\ bnd \in Seq(Listener)
      /\ bindings \in [Ports -> Nat]
  BY DEF HeapInv, Shapes
<1>3. reg' = [reg EXCEPT ![r] = off]
  BY DEF TakeOff
<1>10. nb \in Nat /\ nd \in {"cancelled", "ended"} /\ nb = IF keep THEN reg[r].bind ELSE 0
  BY <1>0
<1> HIDE DEF nb, nd
<1>2. /\ off \in Registration /\ off.name = st.name /\ off.cfg = st.cfg /\ off.sw = st.sw
      /\ off.proc = st.proc /\ off.retire = "off" /\ off.bind = nb /\ off.drive # "none"
  BY <1>0, <1>10 DEF Registration
<1>4. st.retire = "no" /\ table' = table /\ entries' = entries /\ ent' = ent /\ Detach(r, keep)
  BY DEF TakeOff
<1> HIDE DEF off
<1>5. Replaced(reg', reg, Registration, r, off)
  BY <1>1, <1>2, <1>3, ExceptEffect
<1>9. /\ DOMAIN reg' = DOMAIN reg /\ \A x \in DOMAIN reg \ {r} : reg'[x] = reg[x]
      /\ reg'[r].name = reg[r].name /\ reg'[r].cfg = reg[r].cfg /\ reg'[r].sw = reg[r].sw
      /\ reg'[r].proc = reg[r].proc /\ reg'[r].retire = "off" /\ reg'[r].drive # "none"
      /\ reg'[r].bind = IF keep THEN reg[r].bind ELSE 0
  BY <1>2, <1>5, <1>10 DEF Replaced
<1>6. CASE keep
  <2>1. sw' = [sw EXCEPT ![st.sw] = 0] /\ bnd' = bnd /\ bindings' = bindings
    BY <1>4, <1>6 DEF Detach
  <2>2. sw \in [1..Len(sw) -> Nat] /\ Len(sw) \in Nat
    BY <1>1
  <2>3. sw' \in [1..Len(sw) -> Nat]
    BY <2>1, <2>2
  <2>4. sw' \in Seq(Nat) /\ DOMAIN sw' = DOMAIN sw
    BY <2>2, <2>3
  <2>5. \A s \in DOMAIN sw : sw'[s] = IF s = reg[r].sw THEN 0 ELSE sw[s]
    BY <2>1, <2>2
  <2>6. Shapes'
    BY <1>4, <1>5, <2>1, <2>4 DEF HeapInv, Shapes, Replaced
  <2> QED
    BY <1>4, <1>6, <1>9, <2>1, <2>4, <2>5, <2>6 DEF TakenOff
<1>7. CASE ~keep /\ b = 0
  <2>1. sw' = sw /\ bnd' = bnd /\ bindings' = bindings
    BY <1>4, <1>7 DEF Detach
  <2>6. Shapes'
    BY <1>4, <1>5, <2>1 DEF HeapInv, Shapes, Replaced
  <2> QED
    BY <1>4, <1>7, <1>9, <2>1, <2>6 DEF TakenOff
<1>8. CASE ~keep /\ b # 0
  <2> DEFINE k == bnd[b]
             m == k.members - 1
             f == RemoveHost(k.routes, st.cfg.host)
             left == [k EXCEPT !.members = m, !.routes = f]
             closing == left.members <= 0 /\ left.entry = 0
             l == [left EXCEPT !.open = left.open /\ ~closing]
  <2>1. b \in DOMAIN bnd /\ k \in Listener /\ k.members \in Int /\ k.routes \in Routings
    BY <1>8, ShapesOf DEF HeapInv, ObjectsAreTyped, Pointers
  <2>2. Release(b, left)
    BY <1>4, <1>8 DEF Detach
  <2>3. sw' = sw /\ bnd' = [bnd EXCEPT ![b] = l]
        /\ bindings' = [p \in Ports |-> IF closing /\ bindings[p] = b THEN 0 ELSE bindings[p]]
    BY <2>2 DEF Release
  <2>4. m \in Int /\ st.cfg.host \in Hosts
    BY <2>1, <1>0, ProjectsAreTyped
  <2>5. HostIsRemoved(f, k.routes, st.cfg.host) /\ f \in Routings
    <3>1. 0 \in Nat
      OBVIOUS
    <3>2. HostIsRemoved(f, k.routes, st.cfg.host)
      BY <2>1, <2>4, <3>1, RoutingEffect
    <3> QED
      BY <3>2 DEF HostIsRemoved
  <2> HIDE DEF f, m
  <2>6. /\ left \in Listener /\ left.members = m /\ left.routes = f /\ left.open = k.open
        /\ left.port = k.port /\ left.entry = k.entry
    BY <2>1, <2>4, <2>5 DEF Listener
  <2> HIDE DEF left
  <2>7. (left.open /\ ~closing) \in BOOLEAN
    OBVIOUS
  <2>8. /\ l \in Listener /\ l.members = m /\ l.routes = f /\ l.port = k.port /\ l.entry = k.entry
        /\ l.open = (left.open /\ ~closing)
    BY <2>6, <2>7 DEF Listener
  <2> HIDE DEF l
  <2>9. l.open <=> k.open /\ ~(m <= 0 /\ k.entry = 0)
    BY <2>6, <2>8
  <2>10. Replaced(bnd', bnd, Listener, b, l)
    BY <1>1, <2>1, <2>3, <2>8, ExceptEffect
  <2>11. bindings' \in [Ports -> Nat] /\ \A p \in Ports : bindings'[p] \in {0, bindings[p]}
    BY <1>1, <2>3
  <2>12. Shapes'
    BY <1>4, <1>5, <2>3, <2>10, <2>11 DEF HeapInv, Shapes, Replaced
  <2>13. \A p \in Ports : bindings'[p] =
           IF l.members <= 0 /\ l.entry = 0 /\ bindings[p] = b THEN 0 ELSE bindings[p]
    BY <2>3, <2>6, <2>8
  <2> QED
    BY <1>4, <1>8, <1>9, <2>1, <2>3, <2>5, <2>8, <2>9, <2>10, <2>11, <2>12, <2>13
       DEF TakenOff, Replaced, HostIsRemoved, m
<1> QED
  BY <1>6, <1>7, <1>8

-----------------------------------------------------------------------------
(* The diff of a reload *)

\* Registrations keep their configuration as long as they exist.
CfgsStay == \A r \in DOMAIN reg : r \in DOMAIN reg' /\ reg'[r].cfg = reg[r].cfg /\ reg'[r].name = reg[r].name

LEMMA DiffIsTyped ==
  ASSUME Shapes, Jobs, AtReload
  PROVE  /\ Added \subseteq Names /\ Changed \subseteq Names
         /\ \A n \in DOMAIN job.cfg.projects :
              n \in Names /\ job.cfg.projects[n] \in Projects
         /\ \A n \in Changed : Old(n) \in DOMAIN reg /\ reg[Old(n)].name = n /\ Old(n) # 0
         /\ \A m, n \in Changed : Old(m) = Old(n) => m = n
         /\ \A n \in Added : Old(n) = 0 /\ n \notin Changed
<1>1. DOMAIN job.cfg.projects \subseteq Names
  BY FilesAssumption DEF AtReload
<1>2. \A n \in DOMAIN job.cfg.projects : job.cfg.projects[n] \in Projects
  BY DEF AtReload, Projects
<1>3. \A n \in Changed : n \in Names /\ Old(n) \in DOMAIN reg /\ reg[Old(n)].name = n /\ Old(n) # 0
  BY <1>1 DEF Changed, Jobs
<1> QED
  BY <1>1, <1>2, <1>3 DEF Added, Changed

\* The diff does not change while the reload goes on.
LEMMA DiffIsStable ==
  ASSUME Shapes, Shapes', Jobs, AtReload, CfgsStay,
         job'.cfg = job.cfg, job'.old = job.old
  PROVE  /\ Added' = Added /\ Changed' = Changed
         /\ \A n \in Names : Old(n)' = Old(n)
         /\ \A n \in Changed : Keeps(n)' <=> Keeps(n)
<1>1. \A n \in Names : Old(n)' = Old(n)
  BY DEF Old
<1>2. DOMAIN job.cfg.projects \subseteq Names
  BY FilesAssumption DEF AtReload
<1>3. \A r \in DOMAIN reg : ~Dynamic(r) /\ ~Dynamic(r)'
  <2>1. ObjectsAreTyped /\ ObjectsAreTyped'
    BY ShapesOf, PTL
  <2> QED
    BY <2>1 DEF Dynamic, CfgsStay, ObjectsAreTyped
<1>4. \A n \in Names : Old(n) # 0 => Old(n) \in DOMAIN reg
  BY DEF Jobs
<1>5. Added' = Added
  BY <1>1, <1>2 DEF Added
<1>6. Changed' = Changed
  BY <1>1, <1>2, <1>3, <1>4 DEF Changed, EquivalentProject, CfgsStay
<1>7. \A n \in Changed : Keeps(n)' <=> Keeps(n)
  BY <1>1, <1>2, <1>3, <1>4 DEF Changed, Keeps, CfgsStay
<1> QED
  BY <1>1, <1>5, <1>6, <1>7

-----------------------------------------------------------------------------
(* Steps that leave the objects in place: requests, processes, the ends of *)
(* jobs *)

Steady ==
  /\ DOMAIN reg' = DOMAIN reg
  /\ \A r \in DOMAIN reg :
       /\ reg'[r].name = reg[r].name /\ reg'[r].cfg = reg[r].cfg /\ reg'[r].sw = reg[r].sw
       /\ reg'[r].bind = reg[r].bind /\ reg'[r].retire = reg[r].retire
       /\ reg[r].retire = "done" /\ reg[r].proc = "down" => reg'[r].proc = "down"
       /\ reg[r].drive # "none" => reg'[r].drive # "none"
  /\ table' = table /\ entries' = entries /\ bindings' = bindings
  /\ sw' = sw /\ bnd' = bnd /\ ent' = ent

LEMMA SteadyKeepsHeap == HeapInv /\ Shapes' /\ Steady => HeapInv' /\ CfgsStay
<1> SUFFICES ASSUME HeapInv, Shapes', Steady PROVE HeapInv' /\ CfgsStay
  OBVIOUS
<1>1. Shrinks
  BY DEF Steady, Shrinks
<1> QED
  BY <1>1, ShrinkingKeepsHeap DEF Steady, CfgsStay

LEMMA MembersStay ==
  ASSUME DOMAIN reg' = DOMAIN reg,
         \A r \in DOMAIN reg : reg'[r].bind = reg[r].bind,
         \A r \in DOMAIN reg : (reg'[r].retire = "no" \/ Kept(r)') <=> (reg[r].retire = "no" \/ Kept(r))
  PROVE  \A b : Members(b)' = Members(b)
  BY DEF Members

\* Nothing but processes, drivers and requests changes.
LEMMA SteadyStep ==
  ASSUME DaemonInv, Shapes', Steady, job' = job, run' = run
  PROVE  DaemonInv'
<1>0. HeapInv /\ HeapInv' /\ CfgsStay
  BY SteadyKeepsHeap DEF DaemonInv, HeapInv
<1>1. AtReload' <=> AtReload
  BY DEF AtReload
<1>2. AtReload => /\ Added' = Added /\ Changed' = Changed
                  /\ \A n \in Names : Old(n)' = Old(n)
                  /\ \A n \in Changed : Keeps(n)' <=> Keeps(n)
  BY <1>0, DiffIsStable DEF DaemonInv, HeapInv
<1>3. job.by = "reload" <=> AtReload
  BY DEF DaemonInv, Jobs, AtReload, AtBoot, AtStop, Nobody
<1>4. \A n \in Names : Awaits(n)' <=> Awaits(n)
  BY <1>2, <1>3 DEF Awaits
<1>5. \A r : Kept(r)' <=> Kept(r)
  <2>1. \A n \in Names : Awaits(n) => Old(n)' = Old(n)
    BY <1>2, <1>3 DEF Awaits
  <2> QED
    BY <1>4, <2>1 DEF Kept
<1>6. Jobs'
  BY <1>0, <1>1 DEF DaemonInv, Jobs, AtBoot, AtReload, AtStop, InTeardown, Steady, Old
<1>7. RoutesLead'
  <2> SUFFICES ASSUME NEW b \in DOMAIN bnd, NEW h \in DOMAIN bnd[b].routes, NEW s,
                      s = bnd[b].routes[h]
               PROVE  IF sw[s] = 0 THEN \E n \in Names : (Awaits(n) /\ reg[Old(n)].sw = s)'
                      ELSE reg'[sw[s]].retire = "no"
    BY DEF RoutesLead, Steady
  <2>1. CASE sw[s] = 0
    <3>1. PICK n \in Names : Awaits(n) /\ reg[Old(n)].sw = s
      BY <2>1 DEF DaemonInv, RoutesLead
    <3>2. Old(n)' = Old(n) /\ Old(n) \in DOMAIN reg
      BY <3>1, <1>2, <1>3, DiffIsTyped DEF Awaits, DaemonInv
    <3>3. (Awaits(n) /\ reg[Old(n)].sw = s)'
      BY <1>4, <3>1, <3>2 DEF Steady
    <3> QED
      BY <2>1, <3>3
  <2>2. CASE sw[s] # 0
    <3>1. s \in DOMAIN sw /\ sw[s] \in DOMAIN reg /\ reg[sw[s]].retire = "no"
      BY <1>0, <2>2 DEF DaemonInv, RoutesLead, HeapInv, Pointers
    <3> QED
      BY <2>2, <3>1 DEF Steady
  <2> QED
    BY <2>1, <2>2
<1>8. BootWork' /\ StopWork'
  <2>1. Registered' = Registered /\ \A r : InHand(r)' <=> InHand(r)
    BY DEF Steady, Registered, InHand
  <2>2. BootWork'
    BY <1>0 DEF DaemonInv, BootWork, Steady, HeapInv, Pointers
  <2> QED
    BY <2>1, <2>2 DEF DaemonInv, StopWork
<1>9. ReloadWork'
  <2> SUFFICES ASSUME job.by = "reload" PROVE ReloadWork'
    BY DEF ReloadWork
  <2>1. AtReload /\ ReloadWork /\ Changed \subseteq Names
    BY <1>3, DiffIsTyped DEF DaemonInv
  <2>2. \A r : InHand(r)' <=> InHand(r)
    BY DEF InHand
  <2>3. AllRetired' <=> AllRetired
    BY <2>1 DEF DaemonInv, Jobs, InTeardown, AllRetired, Steady
  <2>4. \A i \in job.items : (\E n \in Changed : Keeps(n) /\ i.reg = Old(n))'
                                <=> \E n \in Changed : Keeps(n) /\ i.reg = Old(n)
    BY <1>2, <2>1
  <2> QED
    BY <1>2, <2>1, <2>2, <2>3, <2>4 DEF ReloadWork, Steady
<1>10. Teardown'
  BY <1>0 DEF DaemonInv, Teardown, Steady, InHand, Registered, HeapInv, Pointers
<1>11. Listeners'
  <2>1. \A b : Members(b)' = Members(b)
    BY <1>5, MembersStay DEF Steady
  <2> QED
    BY <2>1 DEF DaemonInv, Listeners, Steady
<1> QED
  BY <1>0, <1>6, <1>7, <1>8, <1>9, <1>10, <1>11 DEF DaemonInv, HeapInv

HeapButReg == <<table, entries, bindings, sw, bnd, ent>>

\* A process changes, and perhaps its driver.
LEMMA ProcessTurns ==
  ASSUME Shapes, UNCHANGED HeapButReg, run' \in Runs, NEW r \in DOMAIN reg,
         NEW v \in {"down", "up", "stopping"},
         NEW d \in {"none", "starter", "monitor", "cancelled", "ended"},
         reg[r].retire = "done" /\ reg[r].proc = "down" => v = "down",
         reg[r].drive # "none" => d # "none",
         reg' = [reg EXCEPT ![r] = [reg[r] EXCEPT !.drive = d, !.proc = v]]
  PROVE  Shapes' /\ Steady
<1> DEFINE new == [reg[r] EXCEPT !.drive = d, !.proc = v]
<1>1. reg \in Seq(Registration)
  BY DEF Shapes
<1>2. reg[r] \in Registration
  BY ShapesOf DEF ObjectsAreTyped
<1>3. /\ new \in Registration /\ new.name = reg[r].name /\ new.cfg = reg[r].cfg
      /\ new.sw = reg[r].sw /\ new.bind = reg[r].bind /\ new.retire = reg[r].retire
      /\ new.proc = v /\ new.drive = d
  BY <1>2 DEF Registration
<1>4. reg' = [reg EXCEPT ![r] = new]
  OBVIOUS
<1> HIDE DEF new
<1>5. Replaced(reg', reg, Registration, r, new)
  BY <1>1, <1>3, <1>4, ExceptEffect
<1>6. Shapes'
  BY <1>5 DEF Shapes, Replaced, HeapButReg
<1> QED
  BY <1>3, <1>5, <1>6 DEF Steady, Replaced, HeapButReg

LEMMA NothingTurns ==
  ASSUME Shapes, UNCHANGED heap, run' \in Runs
  PROVE  Shapes' /\ Steady
  BY DEF Shapes, Steady, heap

\* The whole record of a registration, for a step that changes one field.
LEMMA ProcOnly ==
  ASSUME Shapes, NEW r \in DOMAIN reg, NEW v, reg' = [reg EXCEPT ![r].proc = v]
  PROVE  reg' = [reg EXCEPT ![r] = [reg[r] EXCEPT !.drive = reg[r].drive, !.proc = v]]
<1>1. reg[r] \in Registration
  BY ShapesOf DEF ObjectsAreTyped
<1>2. [reg[r] EXCEPT !.drive = reg[r].drive, !.proc = v] = [reg[r] EXCEPT !.proc = v]
  BY <1>1 DEF Registration
<1> QED
  BY <1>2

LEMMA RequestsAreSteady ==
  ASSUME DaemonInv, NEW q \in Requests, RequestWorks(q) \/ RequestComes(q)
  PROVE  Shapes' /\ Steady /\ job' = job /\ run' = run
<1>0. Shapes /\ run \in Runs /\ ObjectsAreTyped
  BY ShapesOf DEF DaemonInv, Shapes
<1>1. CASE Starts(q) /\ req[q].reg \in DOMAIN reg
  <2> DEFINE r == req[q].reg
             v == IF Retired(r) THEN reg[r].proc ELSE "up"
  <2>1. /\ reg' = [reg EXCEPT ![r].proc = v] /\ UNCHANGED HeapButReg
        /\ job' = job /\ run' = run /\ run' \in Runs
    BY <1>0, <1>1 DEF Starts, HeapButReg
  <2>2. reg' = [reg EXCEPT ![r] = [reg[r] EXCEPT !.drive = reg[r].drive, !.proc = v]]
    BY <1>0, <1>1, <2>1, ProcOnly
  <2>3. /\ r \in DOMAIN reg /\ v \in {"down", "up", "stopping"}
        /\ reg[r].drive \in {"none", "starter", "monitor", "cancelled", "ended"}
        /\ reg[r].retire = "done" /\ reg[r].proc = "down" => v = "down"
    BY <1>0, <1>1 DEF Retired, ObjectsAreTyped, Registration
  <2> HIDE DEF r, v
  <2>4. Shapes' /\ Steady
    BY ZenonT(60), <1>0, <2>1, <2>2, <2>3, ProcessTurns
  <2> QED
    BY <2>1, <2>4
<1>2. CASE ~(Starts(q) /\ req[q].reg \in DOMAIN reg)
  <2>1. UNCHANGED <<heap, job, run>>
    <3>1. CASE Starts(q)
      <4>1. reg \in Seq(Registration)
        BY <1>0 DEF Shapes
      <4> QED
        BY <1>2, <3>1, <4>1 DEF Starts, heap
    <3> QED
      BY <3>1 DEF RequestWorks, RequestComes, PassesSwitch, AsksForStart, Arrives, ArrivesAt,
                  ClientLeaves, OperatorFinds
  <2>2. Shapes' /\ Steady
    BY <1>0, <2>1, NothingTurns
  <2> QED
    BY <2>1, <2>2
<1> QED
  BY <1>1, <1>2

LEMMA ProcessesAreSteady ==
  ASSUME DaemonInv, NEW r \in DOMAIN reg, ProcWorks(r)
  PROVE  Shapes' /\ Steady /\ job' = job /\ run' = run
<1>0. Shapes /\ run \in Runs /\ ObjectsAreTyped
  BY ShapesOf DEF DaemonInv, Shapes
<1>1. /\ reg[r].proc \in {"down", "up", "stopping"}
      /\ reg[r].drive \in {"none", "starter", "monitor", "cancelled", "ended"}
      /\ reg[r].retire = "done" => reg[r].proc = "down"
  BY <1>0 DEF ObjectsAreTyped, Registration, DaemonInv, Teardown
<1>2. UNCHANGED HeapButReg /\ job' = job /\ run' = run
  BY DEF ProcWorks, StarterRuns, ProcStops, ProcExits, HeapButReg
<1>3. \E v \in {"down", "up", "stopping"}, d \in {"none", "starter", "monitor", "cancelled", "ended"} :
        /\ reg[r].retire = "done" /\ reg[r].proc = "down" => v = "down"
        /\ reg[r].drive # "none" => d # "none"
        /\ reg' = [reg EXCEPT ![r] = [reg[r] EXCEPT !.drive = d, !.proc = v]]
  <2>1. CASE StarterRuns(r) /\ reg' = [reg EXCEPT ![r].drive = "ended"]
    <3>1. [reg[r] EXCEPT !.drive = "ended", !.proc = reg[r].proc] = [reg[r] EXCEPT !.drive = "ended"]
      BY <1>0 DEF ObjectsAreTyped, Registration
    <3> QED
      BY <1>1, <2>1, <3>1
  <2>2. CASE StarterRuns(r) /\ ~(reg' = [reg EXCEPT ![r].drive = "ended"])
    <3> DEFINE v == IF Retired(r) THEN reg[r].proc ELSE "up"
    <3>1. reg' = [reg EXCEPT ![r] = [reg[r] EXCEPT !.drive = "ended", !.proc = v]]
      BY <2>2 DEF StarterRuns
    <3>2. v \in {"down", "up", "stopping"} /\ (reg[r].retire = "done" => v = reg[r].proc)
      BY <1>1 DEF Retired
    <3> HIDE DEF v
    <3> QED
      BY <3>1, <3>2
  <2>3. CASE ProcStops(r)
    <3>1. reg' = [reg EXCEPT ![r].proc = "stopping"] /\ reg[r].proc = "up"
      BY <2>3 DEF ProcStops
    <3>2. reg' = [reg EXCEPT ![r] = [reg[r] EXCEPT !.drive = reg[r].drive, !.proc = "stopping"]]
      BY <1>0, <3>1, ProcOnly
    <3> QED
      BY <1>1, <3>1, <3>2
  <2>4. CASE ProcExits(r)
    <3>1. reg' = [reg EXCEPT ![r].proc = "down"]
      BY <2>4 DEF ProcExits
    <3>2. reg' = [reg EXCEPT ![r] = [reg[r] EXCEPT !.drive = reg[r].drive, !.proc = "down"]]
      BY <1>0, <3>1, ProcOnly
    <3> QED
      BY <1>1, <3>2
  <2> QED
    BY <2>1, <2>2, <2>3, <2>4 DEF ProcWorks
<1>4. Shapes' /\ Steady
  <2>1. PICK v \in {"down", "up", "stopping"}, d \in {"none", "starter", "monitor", "cancelled", "ended"} :
        /\ reg[r].retire = "done" /\ reg[r].proc = "down" => v = "down"
        /\ reg[r].drive # "none" => d # "none"
        /\ reg' = [reg EXCEPT ![r] = [reg[r] EXCEPT !.drive = d, !.proc = v]]
    BY <1>3
  <2>2. run' \in Runs
    BY <1>0, <1>2
  <2> QED
    BY <1>0, <1>2, <2>1, <2>2, ProcessTurns
<1> QED
  BY <1>2, <1>4

-----------------------------------------------------------------------------
(* Steps of a teardown *)

\* The rest of a step that keeps job: what is said of the diff and of items.
LEMMA JobStays ==
  ASSUME DaemonInv, HeapInv', CfgsStay, job' = job, table' = table
  PROVE  /\ Jobs' /\ StopWork'
         /\ AtReload <=> job.by = "reload"
         /\ AtReload' <=> AtReload
         /\ AtReload => /\ Added' = Added /\ Changed' = Changed
                        /\ \A n \in Names : Old(n)' = Old(n)
                        /\ \A n \in Changed : Keeps(n)' <=> Keeps(n)
         /\ \A n \in Names : Awaits(n)' <=> Awaits(n)
         /\ \A r : Kept(r)' <=> Kept(r)
         /\ \A r : InHand(r)' <=> InHand(r)
<1>1. AtReload' <=> AtReload
  BY DEF AtReload
<1>2. AtReload => /\ Added' = Added /\ Changed' = Changed
                  /\ \A n \in Names : Old(n)' = Old(n)
                  /\ \A n \in Changed : Keeps(n)' <=> Keeps(n)
  BY DiffIsStable DEF DaemonInv, HeapInv
<1>3. AtReload <=> job.by = "reload"
  BY DEF DaemonInv, Jobs, AtReload, AtBoot, AtStop, Nobody
<1>4. \A n \in Names : Awaits(n)' <=> Awaits(n)
  BY <1>2, <1>3 DEF Awaits
<1>5. \A r : Kept(r)' <=> Kept(r)
  <2>1. \A n \in Names : Awaits(n) => Old(n)' = Old(n)
    BY <1>2, <1>3 DEF Awaits
  <2> QED
    BY <1>4, <2>1 DEF Kept
<1>6. Jobs'
  BY <1>1 DEF DaemonInv, Jobs, AtBoot, AtReload, AtStop, InTeardown, CfgsStay, Old
<1>7. StopWork' /\ \A r : InHand(r)' <=> InHand(r)
  <2>1. Registered' = Registered /\ \A r : InHand(r)' <=> InHand(r)
    BY DEF Registered, InHand
  <2> QED
    BY <2>1 DEF DaemonInv, StopWork
<1> QED
  BY <1>1, <1>2, <1>3, <1>4, <1>5, <1>6, <1>7

\* A retired project is stopped, or its stop has ended.
MovesOn(r) ==
  /\ DOMAIN reg' = DOMAIN reg /\ \A x \in DOMAIN reg \ {r} : reg'[x] = reg[x]
  /\ reg'[r].name = reg[r].name /\ reg'[r].cfg = reg[r].cfg
  /\ reg'[r].sw = reg[r].sw /\ reg'[r].bind = reg[r].bind /\ reg'[r].drive = reg[r].drive
  /\ reg[r].retire \in {"off", "stopping"} /\ reg'[r].retire \in {"stopping", "done"}
  /\ reg'[r].retire = "done" => reg'[r].proc = "down"
  /\ UNCHANGED HeapButReg

LEMMA MoveEffect ==
  ASSUME Shapes, NEW r \in DOMAIN reg, RetireAndStop(r) \/ StopReturns(r), run' \in Runs
  PROVE  Shapes' /\ MovesOn(r)
<1>1. reg \in Seq(Registration) /\ reg[r] \in Registration
  BY ShapesOf DEF Shapes, ObjectsAreTyped
<1>2. UNCHANGED HeapButReg /\ reg[r].retire \in {"off", "stopping"}
  BY DEF RetireAndStop, StopReturns, HeapButReg
<1>3. PICK v \in {"down", "up", "stopping"}, t \in {"stopping", "done"} :
        /\ t = "done" => v = "down"
        /\ reg' = [reg EXCEPT ![r] = [reg[r] EXCEPT !.retire = t, !.proc = v]]
  <2>1. CASE RetireAndStop(r)
    <3> DEFINE v == IF reg[r].proc = "up" THEN "stopping" ELSE reg[r].proc
    <3>1. v \in {"down", "up", "stopping"}
      BY <1>1 DEF Registration
    <3>2. reg' = [reg EXCEPT ![r] = [reg[r] EXCEPT !.retire = "stopping", !.proc = v]]
      BY <2>1 DEF RetireAndStop
    <3> HIDE DEF v
    <3> QED
      BY <3>1, <3>2
  <2>2. CASE StopReturns(r)
    <3>1. reg' = [reg EXCEPT ![r].retire = "done"] /\ reg[r].proc = "down"
      BY <2>2 DEF StopReturns
    <3>2. [reg[r] EXCEPT !.retire = "done", !.proc = "down"] = [reg[r] EXCEPT !.retire = "done"]
      BY <1>1, <3>1 DEF Registration
    <3> QED
      BY <3>1, <3>2
  <2> QED
    BY <2>1, <2>2
<1> DEFINE new == [reg[r] EXCEPT !.retire = t, !.proc = v]
<1>4. /\ new \in Registration /\ new.name = reg[r].name /\ new.cfg = reg[r].cfg
      /\ new.sw = reg[r].sw /\ new.bind = reg[r].bind /\ new.retire = t /\ new.proc = v
      /\ new.drive = reg[r].drive
  BY <1>1 DEF Registration
<1>5. reg' = [reg EXCEPT ![r] = new]
  BY <1>3
<1> HIDE DEF new
<1>6. Replaced(reg', reg, Registration, r, new)
  BY <1>1, <1>4, <1>5, ExceptEffect
<1>7. Shapes'
  BY <1>2, <1>6 DEF Shapes, Replaced, HeapButReg
<1> QED
  BY <1>2, <1>3, <1>4, <1>6, <1>7 DEF MovesOn, Replaced

\* The holder tears down the items it has in hand.
Retiring == job.by \in {"reload", "stop"} /\ job.step = "retire"

LEMMA MovingKeeps ==
  ASSUME DaemonInv, Shapes', NEW r \in DOMAIN reg, MovesOn(r), Retiring, InHand(r),
         job' = job, run' = run
  PROVE  DaemonInv'
<1>0. HeapInv /\ CfgsStay /\ HeapInv'
  <2>1. Shrinks
    BY DEF MovesOn, Shrinks, HeapButReg
  <2> QED
    BY <2>1, ShrinkingKeepsHeap DEF DaemonInv, HeapInv, MovesOn, CfgsStay
<1>1. /\ Jobs' /\ StopWork' /\ (AtReload <=> job.by = "reload")
      /\ AtReload => /\ Added' = Added /\ Changed' = Changed
                     /\ \A n \in Names : Old(n)' = Old(n)
                     /\ \A n \in Changed : Keeps(n)' <=> Keeps(n)
      /\ \A n \in Names : Awaits(n)' <=> Awaits(n)
      /\ \A x : (Kept(x)' <=> Kept(x)) /\ (InHand(x)' <=> InHand(x))
  BY <1>0, JobStays DEF MovesOn, HeapButReg
<1>2. \A x \in DOMAIN reg : reg'[x].retire = "no" <=> reg[x].retire = "no"
  BY DEF MovesOn
<1>3. RoutesLead'
  <2> SUFFICES ASSUME NEW b \in DOMAIN bnd, NEW h \in DOMAIN bnd[b].routes, NEW s,
                      s = bnd[b].routes[h]
               PROVE  IF sw[s] = 0 THEN \E n \in Names : (Awaits(n) /\ reg[Old(n)].sw = s)'
                      ELSE reg'[sw[s]].retire = "no"
    BY DEF RoutesLead, MovesOn, HeapButReg
  <2>1. CASE sw[s] = 0
    <3>1. PICK n \in Names : Awaits(n) /\ reg[Old(n)].sw = s
      BY <2>1 DEF DaemonInv, RoutesLead
    <3>2. Old(n)' = Old(n) /\ Old(n) \in DOMAIN reg
      BY <3>1, <1>1, DiffIsTyped DEF Awaits, DaemonInv
    <3>3. (Awaits(n) /\ reg[Old(n)].sw = s)'
      BY <1>1, <3>1, <3>2 DEF MovesOn
    <3> QED
      BY <2>1, <3>3
  <2>2. CASE sw[s] # 0
    BY <1>0, <1>2, <2>2 DEF DaemonInv, RoutesLead, HeapInv, Pointers
  <2> QED
    BY <2>1, <2>2
<1>4. BootWork'
  BY DEF BootWork, Retiring
<1>5. ReloadWork'
  <2> SUFFICES ASSUME job.by = "reload" PROVE ReloadWork'
    BY DEF ReloadWork
  <2>1. AtReload /\ ReloadWork /\ Changed \subseteq Names
    BY <1>1, DiffIsTyped DEF DaemonInv
  <2>2. \A i \in job.items : (\E n \in Changed : Keeps(n) /\ i.reg = Old(n))'
                                <=> \E n \in Changed : Keeps(n) /\ i.reg = Old(n)
    BY <1>1, <2>1
  <2> QED
    BY <1>1, <2>1, <2>2 DEF ReloadWork, MovesOn, HeapButReg, Retiring
<1>6. Teardown'
  <2>1. Registered' = Registered
    BY DEF Registered, MovesOn, HeapButReg
  <2>2. run # "exited"
    BY DEF DaemonInv, Teardown, Retiring, Nobody
  <2>3. \A n \in Names : table[n] # 0 => table[n] \in DOMAIN reg
    BY <1>0 DEF HeapInv, Pointers
  <2>4. table' = table
    BY DEF MovesOn, HeapButReg
  <2>5. \A x \in DOMAIN reg' : reg'[x].retire = "done" => reg'[x].proc = "down"
    BY DEF DaemonInv, Teardown, MovesOn
  <2>6. \A x \in DOMAIN reg' : reg'[x].retire # "done" => x \in Registered \/ InHand(x)
    BY DEF DaemonInv, Teardown, MovesOn
  <2>7. \A n \in Names : table[n] # 0 /\ reg'[table[n]].retire # "no" => InHand(table[n])
    BY <1>2, <2>2, <2>3 DEF DaemonInv, Teardown
  <2> QED
    BY <1>1, <2>1, <2>2, <2>4, <2>5, <2>6, <2>7 DEF Teardown, Retiring
<1>7. Listeners'
  <2>1. \A b : Members(b)' = Members(b)
    BY <1>1, <1>2, MembersStay DEF MovesOn
  <2> QED
    BY <2>1 DEF DaemonInv, Listeners, MovesOn, HeapButReg
<1> QED
  BY <1>0, <1>1, <1>3, <1>4, <1>5, <1>6, <1>7 DEF DaemonInv, HeapInv

\* Members are counted one by one.
LEMMA MembersAreFinite ==
  ASSUME Shapes
  PROVE  \A b : IsFiniteSet(Members(b)) /\ Cardinality(Members(b)) \in Nat
<1>1. DOMAIN reg = 1..Len(reg) /\ Len(reg) \in Nat
  BY DEF Shapes
<1>2. IsFiniteSet(DOMAIN reg)
  BY <1>1, FS_Interval
<1>3. \A b : Members(b) \subseteq DOMAIN reg
  BY DEF Members
<1>4. \A b : IsFiniteSet(Members(b))
  BY <1>2, <1>3, FS_Subset
<1> QED
  BY <1>4, FS_CardinalityType

LEMMA OneMemberLess ==
  ASSUME Shapes, NEW b, NEW r \in Members(b)
  PROVE  Cardinality(Members(b) \ {r}) = Cardinality(Members(b)) - 1
  BY MembersAreFinite, FS_RemoveElement

LEMMA OneMemberMore ==
  ASSUME Shapes, NEW b, NEW r, r \notin Members(b)
  PROVE  Cardinality(Members(b) \cup {r}) = Cardinality(Members(b)) + 1
  BY MembersAreFinite, FS_AddElement

\* A project is taken off: its route goes, or its switch is suspended for the
\* replacement.
LEMMA TakingOffKeeps ==
  ASSUME DaemonInv, Shapes', NEW i \in job.items, NEW r, NEW keep,
         i = [reg |-> r, keep |-> keep], r \in DOMAIN reg, keep \in BOOLEAN,
         TakenOff(r, keep), Retiring, job' = job, run' = run
  PROVE  DaemonInv'
<1>a. HeapInv
  BY DEF DaemonInv, HeapInv
<1>b. r # 0 /\ i.reg = r /\ i.keep = keep /\ InHand(r)
  BY <1>a, ShapesOf DEF HeapInv, ObjectsAreTyped, InHand, Retiring
<1>c. \A b \in DOMAIN bnd' : \A h \in DOMAIN bnd'[b].routes :
        /\ b \in DOMAIN bnd /\ h \in DOMAIN bnd[b].routes /\ bnd'[b].routes[h] = bnd[b].routes[h]
        /\ ~keep => bnd'[b].routes[h] # reg[r].sw
  <2>1. CASE ~keep /\ reg[r].bind # 0
    BY <1>a, <2>1 DEF TakenOff, HeapInv, RoutesAreOwned
  <2>2. CASE ~keep /\ reg[r].bind = 0
    <3>1. bnd' = bnd /\ 0 \notin DOMAIN bnd
      BY <1>a, <2>2, ShapesOf DEF TakenOff, HeapInv, ObjectsAreTyped
    <3> QED
      BY <1>a, <2>2, <3>1 DEF HeapInv, RoutesAreOwned
  <2>3. CASE keep
    BY <2>3 DEF TakenOff
  <2> QED
    BY <2>1, <2>2, <2>3
<1>0. CfgsStay /\ HeapInv'
  <2>1. Shrinks
    <3>1. DOMAIN bnd' = DOMAIN bnd /\ \A b \in DOMAIN bnd : bnd'[b].port = bnd[b].port
      BY DEF TakenOff
    <3>2. \A x \in DOMAIN reg : reg'[x].bind # reg[x].bind => x = r /\ ~keep
      BY DEF TakenOff
    <3>3. \A p \in Ports : bindings'[p] \in {0, bindings[p]}
      BY DEF TakenOff
    <3>4. \A s \in DOMAIN sw : sw'[s] \in {0, sw[s]}
      BY DEF TakenOff
    <3>5. /\ DOMAIN reg' = DOMAIN reg /\ DOMAIN sw' = DOMAIN sw
          /\ table' = table /\ entries' = entries /\ ent' = ent
          /\ \A x \in DOMAIN reg :
               /\ reg'[x].name = reg[x].name /\ reg'[x].cfg = reg[x].cfg /\ reg'[x].sw = reg[x].sw
               /\ reg'[x].bind \in {0, reg[x].bind}
      BY DEF TakenOff
    <3> QED
      BY <1>c, <3>1, <3>2, <3>3, <3>4, <3>5 DEF Shrinks
  <2>2. CfgsStay
    BY DEF TakenOff, CfgsStay
  <2> QED
    BY <1>a, <2>1, <2>2, ShrinkingKeepsHeap
<1>1. /\ Jobs' /\ StopWork' /\ (AtReload <=> job.by = "reload")
      /\ AtReload => /\ Added' = Added /\ Changed' = Changed
                     /\ \A n \in Names : Old(n)' = Old(n)
                     /\ \A n \in Changed : Keeps(n)' <=> Keeps(n)
      /\ \A n \in Names : Awaits(n)' <=> Awaits(n)
      /\ \A x : (Kept(x)' <=> Kept(x)) /\ (InHand(x)' <=> InHand(x))
  BY <1>0, JobStays DEF TakenOff
<1>2. keep => \E n \in Names : Awaits(n) /\ Old(n) = r
  <2> SUFFICES ASSUME keep PROVE \E n \in Names : Awaits(n) /\ Old(n) = r
    OBVIOUS
  <2>1. job.by = "reload" /\ job.step = "retire"
    BY <1>b DEF DaemonInv, StopWork, Retiring
  <2>2. PICK n \in Changed : Keeps(n) /\ r = Old(n)
    BY <1>b, <2>1 DEF DaemonInv, ReloadWork
  <2>3. n \in Names
    BY <1>1, <2>1, DiffIsTyped DEF DaemonInv
  <2> QED
    BY <2>1, <2>2, <2>3 DEF Awaits
<1>3. RoutesLead'
  <2> SUFFICES ASSUME NEW b \in DOMAIN bnd', NEW h \in DOMAIN bnd'[b].routes, NEW s,
                      s = bnd'[b].routes[h]
               PROVE  IF sw'[s] = 0 THEN \E n \in Names : (Awaits(n) /\ reg[Old(n)].sw = s)'
                      ELSE reg'[sw'[s]].retire = "no"
    BY DEF RoutesLead
  <2>0. /\ b \in DOMAIN bnd /\ h \in DOMAIN bnd[b].routes /\ s = bnd[b].routes[h]
        /\ ~keep => s # reg[r].sw
        /\ s \in DOMAIN sw
    BY <1>a, <1>c DEF HeapInv, Pointers
  <2>1. CASE sw'[s] = 0
    <3>1. PICK n \in Names : Awaits(n) /\ reg[Old(n)].sw = s
      <4>1. CASE keep /\ s = reg[r].sw
        BY <1>2, <4>1
      <4>2. CASE ~(keep /\ s = reg[r].sw)
        <5>1. sw[s] = 0
          BY <2>0, <2>1, <4>2 DEF TakenOff
        <5> QED
          BY <2>0, <5>1 DEF DaemonInv, RoutesLead
      <4> QED
        BY <4>1, <4>2
    <3>2. Old(n)' = Old(n) /\ Old(n) \in DOMAIN reg
      BY <3>1, <1>1, DiffIsTyped DEF Awaits, DaemonInv
    <3>3. (Awaits(n) /\ reg[Old(n)].sw = s)'
      BY <1>1, <3>1, <3>2 DEF TakenOff
    <3> QED
      BY <2>1, <3>3
  <2>2. CASE sw'[s] # 0
    <3>1. sw'[s] = sw[s] /\ s # reg[r].sw
      BY <2>0, <2>2 DEF TakenOff
    <3>2. sw[s] \in DOMAIN reg /\ sw[s] # r
      BY <1>a, <2>0, <2>2, <3>1 DEF HeapInv, Pointers
    <3>3. reg[sw[s]].retire = "no"
      BY <2>0, <2>2, <3>1 DEF DaemonInv, RoutesLead
    <3> QED
      BY <2>2, <3>1, <3>2, <3>3 DEF TakenOff
  <2> QED
    BY <2>1, <2>2
<1>4. BootWork'
  BY DEF BootWork, Retiring
<1>5. ReloadWork'
  <2> SUFFICES ASSUME job.by = "reload" PROVE ReloadWork'
    BY DEF ReloadWork
  <2>1. AtReload /\ ReloadWork /\ Changed \subseteq Names
    BY <1>1, DiffIsTyped DEF DaemonInv
  <2>2. \A j \in job.items : (\E n \in Changed : Keeps(n) /\ j.reg = Old(n))'
                                <=> \E n \in Changed : Keeps(n) /\ j.reg = Old(n)
    BY <1>1, <2>1
  <2>3. table' = table /\ entries' = entries
    BY DEF TakenOff
  <2> QED
    BY <1>1, <2>1, <2>2, <2>3 DEF ReloadWork, Retiring
<1>6. Teardown'
  <2>1. Registered' = Registered /\ table' = table
    BY DEF Registered, TakenOff
  <2>2. run # "exited"
    BY DEF DaemonInv, Teardown, Retiring, Nobody
  <2>3. \A n \in Names : table[n] # 0 => table[n] \in DOMAIN reg
    BY <1>a DEF HeapInv, Pointers
  <2>5. \A x \in DOMAIN reg' : reg'[x].retire = "done" => reg'[x].proc = "down"
    BY DEF DaemonInv, Teardown, TakenOff
  <2>6. \A x \in DOMAIN reg' : reg'[x].retire # "done" => x \in Registered \/ InHand(x)
    BY <1>b DEF DaemonInv, Teardown, TakenOff
  <2>7. \A n \in Names : table[n] # 0 /\ reg'[table[n]].retire # "no" => InHand(table[n])
    BY <1>b, <2>2, <2>3 DEF DaemonInv, Teardown, TakenOff
  <2> QED
    BY <1>1, <2>1, <2>2, <2>5, <2>6, <2>7 DEF Teardown, Retiring
<1>7. Listeners'
  <2>0. \A b \in DOMAIN bnd : b # 0 /\ bnd[b].members \in Int
    BY <1>a, ShapesOf DEF HeapInv, ObjectsAreTyped
  <2>1. CASE keep \/ reg[r].bind = 0
    <3>1. keep => Kept(r) /\ Kept(r)'
      BY <1>1, <1>2 DEF Kept
    <3>2. /\ DOMAIN reg' = DOMAIN reg /\ reg'[r].bind = reg[r].bind
          /\ \A x \in DOMAIN reg \ {r} : reg'[x] = reg[x]
      BY <2>1 DEF TakenOff
    <3>3. ASSUME NEW b \in DOMAIN bnd, NEW x \in DOMAIN reg
          PROVE  x \in Members(b)' <=> x \in Members(b)
      <4>1. CASE x = r /\ keep
        BY <3>1, <3>2, <4>1 DEF Members
      <4>2. CASE x = r /\ ~keep
        BY <2>0, <2>1, <3>2, <4>2 DEF Members
      <4>3. CASE x # r
        BY <1>1, <3>2, <4>3 DEF Members
      <4> QED
        BY <4>1, <4>2, <4>3
    <3>4. \A b \in DOMAIN bnd : Members(b)' = Members(b)
      <4>1. \A b : Members(b) \subseteq DOMAIN reg /\ Members(b)' \subseteq DOMAIN reg
        BY <3>2 DEF Members
      <4> QED
        BY <3>3, <4>1
    <3> QED
      BY <2>1, <3>4 DEF DaemonInv, Listeners, TakenOff
  <2>2. CASE ~keep /\ reg[r].bind # 0
    <3>0. PICK b : b = reg[r].bind
      OBVIOUS
    <3>1. b \in DOMAIN bnd
      BY <1>a, <2>2, <3>0 DEF HeapInv, Pointers
    <3>2. r \in Members(b) /\ Members(b)' = Members(b) \ {r}
      <4>1. /\ DOMAIN reg' = DOMAIN reg /\ reg'[r].bind = 0 /\ b # 0 /\ reg[r].retire = "no"
            /\ \A x \in DOMAIN reg \ {r} : reg'[x] = reg[x]
        BY <2>2, <3>0, <3>1, <2>0 DEF TakenOff
      <4>2. r \in Members(b) /\ r \notin Members(b)'
        BY <3>0, <4>1 DEF Members
      <4>3. \A x \in DOMAIN reg \ {r} : x \in Members(b)' <=> x \in Members(b)
        BY <1>1, <4>1 DEF Members
      <4>4. Members(b) \subseteq DOMAIN reg /\ Members(b)' \subseteq DOMAIN reg
        BY <4>1 DEF Members
      <4> QED
        BY <4>2, <4>3, <4>4
    <3>3. \A x \in DOMAIN bnd \ {b} : Members(x)' = Members(x)
      BY <1>1, <2>2, <3>0, <2>0 DEF Members, TakenOff
    <3>4. bnd[b].members = Cardinality(Members(b))
      BY <3>1 DEF DaemonInv, Listeners
    <3>5. Cardinality(Members(b)') = bnd[b].members - 1
      BY <3>2, <3>4, OneMemberLess, <1>a DEF HeapInv
    <3>6. /\ \A x \in DOMAIN bnd \ {b} : bnd'[x] = bnd[x]
          /\ DOMAIN bnd' = DOMAIN bnd /\ b \in DOMAIN bnd /\ entries' = entries /\ ent' = ent
          /\ bnd'[b].members = bnd[b].members - 1
          /\ bnd'[b].entry = bnd[b].entry
          /\ bnd'[b].open <=> bnd[b].open /\ ~(bnd'[b].members <= 0 /\ bnd'[b].entry = 0)
      BY <2>2, <3>0, <3>1 DEF TakenOff
    <3>7. bnd'[b].open /\ bnd'[b].entry = 0 => bnd'[b].members > 0
      BY <2>0, <3>6
    <3>8. run # "exited"
      BY DEF DaemonInv, Teardown, Retiring, Nobody
    <3>9. bnd'[b].members = Cardinality(Members(b)')
      BY <3>5, <3>6
    <3>10. \A x \in DOMAIN bnd \ {b} : (Cardinality(Members(x)))' = Cardinality(Members(x))
      BY <3>3
    <3>11. bnd'[b].open => bnd[b].open
      BY <3>6
    <3>12. ASSUME NEW x \in DOMAIN bnd \ {b}
           PROVE  (/\ bnd[x].members = Cardinality(Members(x))
                   /\ bnd[x].open /\ bnd[x].entry = 0 => bnd[x].members > 0
                   /\ bnd[x].open /\ bnd[x].entry # 0 =>
                        \E n \in EntryNames : entries[n] = bnd[x].entry /\ ent[bnd[x].entry].bind = x)'
      BY <3>6, <3>10 DEF DaemonInv, Listeners
    <3>13. (bnd[b].open /\ bnd[b].entry # 0 =>
              \E n \in EntryNames : entries[n] = bnd[b].entry /\ ent[bnd[b].entry].bind = b)'
      <4> SUFFICES ASSUME bnd'[b].open, bnd[b].entry # 0
                   PROVE  \E n \in EntryNames : entries[n] = bnd[b].entry /\ ent[bnd[b].entry].bind = b
        BY <3>6
      <4> QED
        BY <3>6, <3>11 DEF DaemonInv, Listeners
    <3>14. \A x \in DOMAIN bnd : x = b \/ x \in DOMAIN bnd \ {b}
      OBVIOUS
    <3> QED
      <4> SUFFICES ASSUME NEW x \in DOMAIN bnd
                   PROVE  (/\ bnd[x].members = Cardinality(Members(x))
                           /\ bnd[x].open /\ bnd[x].entry = 0 => bnd[x].members > 0
                           /\ bnd[x].open /\ bnd[x].entry # 0 =>
                                \E n \in EntryNames : entries[n] = bnd[x].entry /\ ent[bnd[x].entry].bind = x
                           /\ run = "exited" => ~bnd[x].open)'
        BY <3>6 DEF Listeners
      <4>1. CASE x = b
        BY <3>7, <3>8, <3>9, <3>13, <4>1
      <4>2. CASE x # b
        BY <3>8, <3>12, <4>2
      <4> QED
        BY <4>1, <4>2
  <2> QED
    BY <2>1, <2>2
<1> QED
  BY <1>0, <1>1, <1>3, <1>4, <1>5, <1>6, <1>7 DEF DaemonInv, HeapInv

LEMMA JobRetiresKeeps == DaemonInv /\ JobRetires => DaemonInv'
<1> SUFFICES ASSUME DaemonInv, JobRetires PROVE DaemonInv'
  OBVIOUS
<1>1. job' = job /\ run' = run /\ Shapes /\ run' \in Runs
  BY DEF JobRetires, DaemonInv, Shapes
<1>2. InTeardown /\ Retiring /\ HeapInv
  BY DEF JobRetires, DaemonInv, Jobs, AtBoot, AtReload, AtStop, InTeardown, Nobody, Retiring, HeapInv
<1>3. PICK i \in job.items : TakeOff(i.reg, i.keep) \/ RetireAndStop(i.reg) \/ StopReturns(i.reg)
  BY DEF JobRetires
<1>4. i = [reg |-> i.reg, keep |-> i.keep] /\ i.reg \in DOMAIN reg /\ i.keep \in BOOLEAN
  BY <1>2 DEF DaemonInv, Jobs
<1>5. PICK r \in DOMAIN reg, keep \in BOOLEAN :
        i.reg = r /\ i.keep = keep /\ i = [reg |-> r, keep |-> keep]
  BY <1>4
<1>6. CASE TakeOff(r, keep)
  <2>1. Shapes' /\ TakenOff(r, keep)
    BY <1>1, <1>2, <1>6, TakeOffEffect
  <2> QED
    BY <1>1, <1>2, <1>5, <2>1, TakingOffKeeps
<1>7. CASE RetireAndStop(r) \/ StopReturns(r)
  <2>1. Shapes' /\ MovesOn(r)
    BY <1>1, <1>7, MoveEffect
  <2>2. InHand(r)
    BY <1>2, <1>5 DEF InHand, Retiring
  <2> QED
    BY <1>1, <1>2, <2>1, <2>2, MovingKeeps
<1> QED
  BY <1>3, <1>5, <1>6, <1>7

-----------------------------------------------------------------------------
(* Jobs begin and end *)

\* Who holds reloadMu changes, while no project awaits its replacement.
LEMMA JobTurns ==
  ASSUME DaemonInv, Shapes', Steady, run' # "exited",
         \A n \in Names : ~Awaits(n) /\ ~Awaits(n)'
  PROVE  HeapInv' /\ CfgsStay /\ RoutesLead' /\ Listeners' /\ Registered' = Registered
<1>0. HeapInv /\ HeapInv' /\ CfgsStay
  BY SteadyKeepsHeap DEF DaemonInv, HeapInv
<1>1. RoutesLead'
  BY <1>0 DEF DaemonInv, RoutesLead, Steady, HeapInv, Pointers
<1>2. \A r : ~Kept(r) /\ ~Kept(r)'
  BY DEF Kept
<1>3. \A b : Members(b)' = Members(b)
  BY <1>2, MembersStay DEF Steady
<1>4. Listeners'
  BY <1>3 DEF DaemonInv, Listeners, Steady
<1>5. Registered' = Registered
  BY DEF Registered, Steady
<1> QED
  BY <1>0, <1>1, <1>4, <1>5

LEMMA ReloadBeginsKeeps == DaemonInv /\ ReloadBegins => DaemonInv'
<1> SUFFICES ASSUME DaemonInv, ReloadBegins PROVE DaemonInv'
  OBVIOUS
<1>1. Shapes' /\ Steady /\ run' = run /\ run = "running" /\ job = Nobody
  <2>1. UNCHANGED heap /\ run' = run /\ run = "running" /\ job = Nobody /\ run' \in Runs
    BY DEF ReloadBegins, DaemonInv, Shapes
  <2> QED
    BY <2>1, NothingTurns DEF DaemonInv
<1>2. CASE job' = job
  BY <1>1, <1>2, SteadyStep
<1>3. CASE job' # job
  <2>1. PICK f \in Files : job' = [by |-> "reload", step |-> "detach", cfg |-> f, old |-> table,
                                   oldEnt |-> entries, items |-> {}, todo |-> {}]
    BY <1>3 DEF ReloadBegins
  <2>2. /\ job'.by = "reload" /\ job'.step = "detach" /\ job'.cfg = f /\ job'.old = table
        /\ job'.oldEnt = entries /\ job'.items = {} /\ job'.todo = {} /\ job.by = "none"
    BY <1>1, <2>1 DEF Nobody
  <2>3. \A n \in Names : ~Awaits(n) /\ ~Awaits(n)'
    BY <2>2 DEF Awaits
  <2>4. HeapInv' /\ RoutesLead' /\ Listeners' /\ Registered' = Registered
    BY <1>1, <2>3, JobTurns
  <2>5. /\ table' = table /\ entries' = entries /\ DOMAIN reg' = DOMAIN reg
        /\ \A r \in DOMAIN reg : reg'[r].retire = reg[r].retire
        /\ \A n \in Names : table[n] # 0 => table[n] \in DOMAIN reg /\ reg'[table[n]].name = n
    BY <1>1 DEF Steady, DaemonInv, Pointers
  <2>6. AtReload'
    BY <2>1, <2>2 DEF AtReload, DaemonInv, Shapes
  <2>7. Jobs'
    <3>1. \A n \in Names : Old(n)' = table[n]
      BY <2>2 DEF Old
    <3>2. \A n \in Names : Old(n)' # 0 => Old(n)' \in DOMAIN reg' /\ reg'[Old(n)'].name = n
      BY <2>5, <3>1
    <3> QED
      BY <2>2, <2>6, <3>2 DEF Jobs
  <2>8. BootWork' /\ StopWork'
    BY <2>2 DEF BootWork, StopWork
  <2>9. ReloadWork'
    BY <2>2, <2>5 DEF ReloadWork
  <2>10. \A r : ~InHand(r) /\ ~InHand(r)'
    BY <2>2 DEF InHand
  <2>11. Teardown'
    <3>1. \A n \in Names : table[n] # 0 => table[n] \in DOMAIN reg /\ reg[table[n]].retire = "no"
      BY <1>1, <2>10 DEF DaemonInv, Teardown, Pointers
    <3>2. \A n \in Names : table'[n] # 0 => reg'[table'[n]].retire = "no"
      BY <2>5, <3>1
    <3>3. \A r \in DOMAIN reg' : reg'[r].retire = "done" => reg'[r].proc = "down"
      BY <1>1 DEF DaemonInv, Teardown, Steady
    <3>4. \A r \in DOMAIN reg' : reg'[r].retire # "done" => r \in Registered'
      BY <2>4, <2>5, <2>10 DEF DaemonInv, Teardown
    <3> QED
      BY <1>1, <3>2, <3>3, <3>4 DEF Teardown
  <2> QED
    BY <2>4, <2>7, <2>8, <2>9, <2>11 DEF DaemonInv, HeapInv
<1> QED
  BY <1>2, <1>3

\* A job ends, or that of the shutdown begins.
LEMMA DrainKeeps == DaemonInv /\ Drain => DaemonInv'
<1> SUFFICES ASSUME DaemonInv, Drain PROVE DaemonInv'
  OBVIOUS
<1>1. Shapes' /\ Steady /\ run' = "draining" /\ run = "running" /\ job' = job
  <2>1. UNCHANGED heap /\ run' = "draining" /\ run = "running" /\ job' = job /\ run' \in Runs
    BY DEF Drain, DaemonInv, Shapes, Runs
  <2> QED
    BY <2>1, NothingTurns DEF DaemonInv
<1>2. UNCHANGED <<heap, job>>
  BY DEF Drain
<1>3. HeapInv' /\ Jobs' /\ RoutesLead' /\ BootWork' /\ ReloadWork' /\ StopWork'
  <2>1. \A n : Awaits(n)' <=> Awaits(n)
    BY <1>2 DEF heap, Awaits, Changed, Keeps, Old, Dynamic
  <2>2. \A r : InHand(r)' <=> InHand(r)
    BY <1>2 DEF heap, InHand
  <2>3. HeapInv'
    BY <1>1, SteadyKeepsHeap DEF DaemonInv, HeapInv
  <2>4. Jobs'
    BY <1>2 DEF heap, DaemonInv, Jobs, AtBoot, AtReload, AtStop, InTeardown, Old
  <2>5. RoutesLead'
    BY <1>2, <2>1 DEF heap, DaemonInv, RoutesLead, Old
  <2>6. BootWork'
    BY <1>2 DEF heap, DaemonInv, BootWork
  <2>7. StopWork'
    BY <1>2 DEF heap, DaemonInv, StopWork, Registered, InHand
  <2>8. ReloadWork'
    BY <1>2, <2>2 DEF heap, DaemonInv, ReloadWork, Added, Changed, Old, Keeps, Dynamic, AllRetired
  <2> QED
    BY <2>3, <2>4, <2>5, <2>6, <2>7, <2>8
<1>4. Teardown'
  BY <1>1, <1>2 DEF heap, DaemonInv, Teardown, Registered, InHand
<1>5. Listeners'
  <2>1. \A n : Awaits(n)' <=> Awaits(n)
    BY <1>2 DEF heap, Awaits, Changed, Keeps, Old, Dynamic
  <2>2. \A r : Kept(r)' <=> Kept(r)
    BY <1>2, <2>1 DEF Kept, Old
  <2>3. \A b : Members(b)' = Members(b)
    BY <1>1, <2>2, MembersStay DEF Steady
  <2> QED
    BY <1>1, <1>2, <2>3 DEF heap, DaemonInv, Listeners
<1> QED
  BY <1>3, <1>4, <1>5 DEF DaemonInv, HeapInv

LEMMA ReloadEndsKeeps == DaemonInv /\ ReloadEnds => DaemonInv'
<1> SUFFICES ASSUME DaemonInv, ReloadEnds PROVE DaemonInv'
  OBVIOUS
<1>1. Shapes' /\ Steady /\ run' = run /\ job' = Nobody
  <2>1. UNCHANGED heap /\ run' = run /\ job' = Nobody /\ run' \in Runs
    BY DEF ReloadEnds, DaemonInv, Shapes
  <2> QED
    BY <2>1, NothingTurns DEF DaemonInv
<1>2. job.by = "reload" /\ job.step = "rebuild" /\ job.todo = {} /\ job'.by = "none"
  BY <1>1 DEF ReloadEnds, Nobody
<1>3. run # "exited"
  BY <1>2 DEF DaemonInv, Teardown, Nobody
<1>4. \A n \in Names : ~Awaits(n) /\ ~Awaits(n)'
  BY <1>2 DEF Awaits
<1>5. HeapInv' /\ RoutesLead' /\ Listeners' /\ Registered' = Registered
  BY <1>1, <1>3, <1>4, JobTurns
<1>6. Jobs' /\ BootWork' /\ ReloadWork' /\ StopWork'
  BY <1>1, <1>2 DEF Jobs, BootWork, ReloadWork, StopWork, InTeardown, AtReload, AtStop
<1>7. \A r : InHand(r) => reg[r].retire = "done"
  BY <1>2 DEF InHand, DaemonInv, ReloadWork, AllRetired
<1>8. \A n \in Names : table[n] # 0 => table[n] \in DOMAIN reg /\ reg[table[n]].retire = "no"
  BY <1>2, <1>3 DEF DaemonInv, Teardown, Pointers
<1>9. Teardown'
  BY <1>1, <1>3, <1>5, <1>7, <1>8 DEF DaemonInv, Teardown, Steady
<1> QED
  BY <1>5, <1>6, <1>9 DEF DaemonInv, HeapInv

LEMMA StopAllBeginsKeeps == DaemonInv /\ StopAllBegins => DaemonInv'
<1> SUFFICES ASSUME DaemonInv, StopAllBegins PROVE DaemonInv'
  OBVIOUS
<1> DEFINE items == {[reg |-> r, keep |-> FALSE] : r \in Registered}
<1>1. Shapes' /\ Steady /\ run' = run /\ run = "draining"
  <2>1. UNCHANGED heap /\ run' = run /\ run = "draining" /\ run' \in Runs
    BY DEF StopAllBegins, DaemonInv, Shapes
  <2> QED
    BY <2>1, NothingTurns DEF DaemonInv
<1>2. job' = [by |-> "stop", step |-> "retire", items |-> items] /\ job = Nobody
  BY DEF StopAllBegins
<1>3. Registered \subseteq DOMAIN reg
  BY DEF Registered, DaemonInv, Pointers
<1>4. \A i \in items : /\ i = [reg |-> i.reg, keep |-> i.keep] /\ i.reg \in DOMAIN reg
                       /\ i.keep \in BOOLEAN /\ ~i.keep
  <2> SUFFICES ASSUME NEW r \in Registered, NEW i, i = [reg |-> r, keep |-> FALSE]
               PROVE  /\ i = [reg |-> i.reg, keep |-> i.keep] /\ i.reg \in DOMAIN reg
                      /\ i.keep \in BOOLEAN /\ ~i.keep
    OBVIOUS
  <2>1. i.reg = r /\ i.keep = FALSE
    OBVIOUS
  <2> QED
    BY <1>3, <2>1
<1>5. \A r \in Registered : \E i \in items : i.reg = r
  <2> SUFFICES ASSUME NEW r \in Registered PROVE \E i \in items : i.reg = r
    OBVIOUS
  <2>1. [reg |-> r, keep |-> FALSE] \in items /\ [reg |-> r, keep |-> FALSE].reg = r
    OBVIOUS
  <2> QED
    BY <2>1
<1> HIDE DEF items
<1>6. job'.by = "stop" /\ job'.step = "retire" /\ job'.items = items /\ job.by = "none"
  BY <1>2 DEF Nobody
<1>7. \A n \in Names : ~Awaits(n) /\ ~Awaits(n)'
  BY <1>6 DEF Awaits
<1>8. HeapInv' /\ RoutesLead' /\ Listeners' /\ Registered' = Registered
  BY <1>1, <1>7, JobTurns
<1>9. AtStop' /\ ~AtReload'
  BY <1>2, <1>6 DEF AtStop, AtReload
<1>10. Jobs'
  BY <1>1, <1>4, <1>6, <1>9 DEF Jobs, InTeardown, Steady
<1>11. \A r \in Registered : InHand(r)'
  BY <1>5, <1>6 DEF InHand
<1>12. BootWork' /\ ReloadWork' /\ StopWork'
  BY <1>4, <1>6, <1>8, <1>11 DEF BootWork, ReloadWork, StopWork
<1>13. \A r : ~InHand(r)
  BY <1>6 DEF InHand
<1>14. Teardown'
  BY <1>1, <1>6, <1>8, <1>11, <1>13 DEF DaemonInv, Teardown, Steady, Pointers
<1> QED
  BY <1>8, <1>10, <1>12, <1>14 DEF DaemonInv, HeapInv

\* Listeners close: nothing else about them changes.
Closes ==
  /\ DOMAIN bnd' = DOMAIN bnd
  /\ \A b \in DOMAIN bnd :
       /\ bnd'[b].port = bnd[b].port /\ bnd'[b].members = bnd[b].members
       /\ bnd'[b].entry = bnd[b].entry /\ bnd'[b].routes = bnd[b].routes
       /\ bnd'[b].open => bnd[b].open

LEMMA ClosingEffect ==
  ASSUME Shapes, NEW C,
         bnd' = [b \in DOMAIN bnd |-> IF b \in C THEN [bnd[b] EXCEPT !.open = FALSE] ELSE bnd[b]]
  PROVE  /\ bnd' \in Seq(Listener) /\ Closes
         /\ \A b \in DOMAIN bnd : bnd'[b].open <=> bnd[b].open /\ b \notin C
<1>1. \A b \in DOMAIN bnd : bnd[b] \in Listener
  BY ShapesOf DEF ObjectsAreTyped
<1>2. ASSUME NEW b \in DOMAIN bnd
      PROVE  /\ bnd'[b] \in Listener
             /\ bnd'[b].port = bnd[b].port /\ bnd'[b].members = bnd[b].members
             /\ bnd'[b].entry = bnd[b].entry /\ bnd'[b].routes = bnd[b].routes
             /\ bnd'[b].open <=> bnd[b].open /\ b \notin C
  <2>1. CASE b \in C
    <3> DEFINE shut == [bnd[b] EXCEPT !.open = FALSE]
    <3>1. bnd[b] \in Listener /\ bnd'[b] = shut
      BY <1>1, <2>1
    <3>2. /\ shut \in Listener /\ shut.port = bnd[b].port /\ shut.members = bnd[b].members
          /\ shut.entry = bnd[b].entry /\ shut.routes = bnd[b].routes /\ shut.open = FALSE
      BY <3>1 DEF Listener
    <3> QED
      BY <2>1, <3>1, <3>2
  <2>2. CASE b \notin C
    BY <1>1, <2>2
  <2> QED
    BY <2>1, <2>2
<1>3. DOMAIN bnd' = DOMAIN bnd /\ bnd' \in Seq(Listener)
  <2>1. DOMAIN bnd = 1..Len(bnd) /\ Len(bnd) \in Nat
    BY DEF Shapes
  <2>2. bnd' \in [1..Len(bnd) -> Listener]
    BY <1>2, <2>1
  <2> QED
    BY <2>1, <2>2
<1> QED
  BY <1>2, <1>3 DEF Closes

LEMMA BootFailsKeeps == DaemonInv /\ BootFails => DaemonInv'
<1> SUFFICES ASSUME DaemonInv, BootFails PROVE DaemonInv'
  OBVIOUS
<1>0. HeapInv
  BY DEF DaemonInv, HeapInv
<1>1. /\ job.by = "boot" /\ job' = Nobody /\ job'.by = "none" /\ run' = "draining"
      /\ UNCHANGED <<table, entries, bindings, reg, sw, ent>>
  BY DEF BootFails, Nobody
<1>2. bnd' \in Seq(Listener) /\ Closes /\ \A b \in DOMAIN bnd : ~bnd'[b].open
  <2>1. bnd' = [b \in DOMAIN bnd |-> IF b \in DOMAIN bnd THEN [bnd[b] EXCEPT !.open = FALSE] ELSE bnd[b]]
    BY DEF BootFails
  <2> QED
    BY <1>0, <2>1, ClosingEffect DEF HeapInv
<1>3. HeapInv'
  <2>1. Shapes'
    BY <1>1, <1>2 DEF DaemonInv, Shapes, Runs
  <2>2. Shrinks
    BY <1>1, <1>2 DEF Shrinks, Closes
  <2> QED
    BY <1>0, <2>1, <2>2, ShrinkingKeepsHeap
<1>4. Jobs' /\ BootWork' /\ ReloadWork' /\ StopWork'
  BY <1>1 DEF Jobs, BootWork, ReloadWork, StopWork, InTeardown, AtReload, AtStop
<1>5. \A n : ~Awaits(n) /\ ~Awaits(n)'
  BY <1>1 DEF Awaits
<1>6. RoutesLead'
  BY <1>1, <1>2, <1>5 DEF DaemonInv, RoutesLead, Closes
<1>7. \A r : ~InHand(r) /\ ~InHand(r)'
  BY <1>1 DEF InHand
<1>8. run # "exited"
  BY <1>1 DEF DaemonInv, Teardown, Nobody
<1>9. Teardown'
  BY <1>1, <1>7, <1>8 DEF DaemonInv, Teardown, Registered
<1>10. Listeners'
  <2>1. \A r : ~Kept(r) /\ ~Kept(r)'
    BY <1>5 DEF Kept
  <2>2. \A b : Members(b)' = Members(b)
    BY <1>1, <2>1, MembersStay
  <2> QED
    BY <1>1, <1>2, <2>2 DEF DaemonInv, Listeners, Closes
<1> QED
  BY <1>3, <1>4, <1>6, <1>9, <1>10 DEF DaemonInv, HeapInv

LEMMA BootEndsKeeps == DaemonInv /\ BootEnds => DaemonInv'
<1> SUFFICES ASSUME DaemonInv, BootEnds PROVE DaemonInv'
  OBVIOUS
<1>1. /\ job.by = "boot" /\ job' = Nobody /\ job'.by = "none" /\ run' = "running"
      /\ reg' = [r \in DOMAIN reg |-> Activated(reg[r])] /\ UNCHANGED HeapButReg
  BY DEF BootEnds, Nobody, HeapButReg
<1>2. \A r \in DOMAIN reg :
        /\ reg'[r] \in Registration
        /\ reg'[r].name = reg[r].name /\ reg'[r].cfg = reg[r].cfg /\ reg'[r].sw = reg[r].sw
        /\ reg'[r].bind = reg[r].bind /\ reg'[r].retire = reg[r].retire
        /\ reg'[r].proc = reg[r].proc /\ reg'[r].drive # "none"
  <2> SUFFICES ASSUME NEW r \in DOMAIN reg
               PROVE  /\ reg'[r] \in Registration
                      /\ reg'[r].name = reg[r].name /\ reg'[r].cfg = reg[r].cfg /\ reg'[r].sw = reg[r].sw
                      /\ reg'[r].bind = reg[r].bind /\ reg'[r].retire = reg[r].retire
                      /\ reg'[r].proc = reg[r].proc /\ reg'[r].drive # "none"
    OBVIOUS
  <2>1. reg[r] \in Registration
    BY ShapesOf DEF DaemonInv, ObjectsAreTyped
  <2>2. reg'[r] = Activated(reg[r])
    BY <1>1
  <2> QED
    BY <2>1, <2>2, ActivateEffect
<1>3. DOMAIN reg' = DOMAIN reg /\ reg' \in Seq(Registration)
  <2>1. DOMAIN reg = 1..Len(reg) /\ Len(reg) \in Nat
    BY DEF DaemonInv, Shapes
  <2>2. DOMAIN reg' = DOMAIN reg /\ reg' = [r \in DOMAIN reg |-> reg'[r]]
    BY <1>1
  <2>3. reg' \in [1..Len(reg) -> Registration]
    BY <1>2, <2>1, <2>2
  <2> QED
    BY <2>1, <2>2, <2>3
<1>4. Shapes'
  BY <1>1, <1>3 DEF DaemonInv, Shapes, HeapButReg, Runs
<1>5. Steady
  BY <1>1, <1>2, <1>3 DEF Steady, HeapButReg
<1>6. \A n \in Names : ~Awaits(n) /\ ~Awaits(n)'
  BY <1>1 DEF Awaits
<1>7. HeapInv' /\ RoutesLead' /\ Listeners' /\ Registered' = Registered
  BY <1>1, <1>4, <1>5, <1>6, JobTurns
<1>8. Jobs' /\ BootWork' /\ ReloadWork' /\ StopWork'
  BY <1>1 DEF Jobs, BootWork, ReloadWork, StopWork, InTeardown, AtReload, AtStop
<1>9. \A r : ~InHand(r) /\ ~InHand(r)'
  BY <1>1 DEF InHand
<1>10. Teardown'
  <2>1. run # "exited"
    BY <1>1 DEF DaemonInv, Teardown, Nobody
  <2>2. \A n \in Names : table[n] # 0 => table[n] \in DOMAIN reg /\ reg[table[n]].retire = "no"
    BY <1>9, <2>1 DEF DaemonInv, Teardown, Pointers
  <2> QED
    BY <1>1, <1>5, <1>7, <1>9, <2>2 DEF DaemonInv, Teardown, Steady
<1> QED
  BY <1>7, <1>8, <1>10 DEF DaemonInv, HeapInv

\* unbindEntry: the listeners of the entries in E are closed.
Unbound(E) ==
  /\ Closes
  /\ \A b \in DOMAIN bnd : bnd'[b].open <=> bnd[b].open /\ ~\E e \in E : ent[e].bind = b
  /\ \A n \in EntryNames : entries'[n] = IF entries[n] \in E THEN 0 ELSE entries[n]
  /\ \A p \in Ports :
       bindings'[p] = IF \E e \in E : ent[e].bind = bindings[p] THEN 0 ELSE bindings[p]
  /\ table' = table /\ reg' = reg /\ sw' = sw /\ ent' = ent

LEMMA UnbindEffect ==
  ASSUME Shapes, NEW E, UnbindEntries(E), run' \in Runs
  PROVE  Shapes' /\ Unbound(E)
<1> DEFINE C == {b \in DOMAIN bnd : \E e \in E : ent[e].bind = b}
<1>1. bnd' = [b \in DOMAIN bnd |-> IF b \in C THEN [bnd[b] EXCEPT !.open = FALSE] ELSE bnd[b]]
  BY DEF UnbindEntries
<1>2. \A b \in DOMAIN bnd : b \in C <=> \E e \in E : ent[e].bind = b
  OBVIOUS
<1> HIDE DEF C
<1>3. /\ bnd' \in Seq(Listener) /\ Closes
      /\ \A b \in DOMAIN bnd : bnd'[b].open <=> bnd[b].open /\ b \notin C
  BY <1>1, ClosingEffect
<1>4. /\ bindings' \in [Ports -> Nat]
      /\ \A p \in Ports :
           bindings'[p] = IF \E e \in E : ent[e].bind = bindings[p] THEN 0 ELSE bindings[p]
  BY DEF UnbindEntries, Shapes
<1>5. /\ entries' \in [EntryNames -> Nat]
      /\ \A n \in EntryNames : entries'[n] = IF entries[n] \in E THEN 0 ELSE entries[n]
  BY DEF UnbindEntries, Shapes
<1>6. table' = table /\ reg' = reg /\ sw' = sw /\ ent' = ent
  BY DEF UnbindEntries
<1>7. Shapes'
  BY <1>3, <1>4, <1>5, <1>6 DEF Shapes
<1> QED
  BY <1>2, <1>3, <1>4, <1>5, <1>6, <1>7 DEF Unbound

LEMMA UnbindingKeepsHeap ==
  ASSUME HeapInv, Shapes', NEW E, Unbound(E)
  PROVE  HeapInv' /\ CfgsStay
<1>1. Shrinks
  BY DEF Shrinks, Unbound, Closes
<1>2. CfgsStay
  BY DEF CfgsStay, Unbound
<1> QED
  BY <1>1, <1>2, ShrinkingKeepsHeap

LEMMA StopAllEndsKeeps == DaemonInv /\ StopAllEnds => DaemonInv'
<1> SUFFICES ASSUME DaemonInv, StopAllEnds PROVE DaemonInv'
  OBVIOUS
<1>0. HeapInv
  BY DEF DaemonInv, HeapInv
<1>1. PICK E : E = {e \in DOMAIN ent : ent[e].bind # 0 /\ \E n \in EntryNames : entries[n] = e}
  OBVIOUS
<1>2. job.by = "stop" /\ AllRetired /\ job' = Nobody /\ job'.by = "none" /\ run' = "exited"
  BY DEF StopAllEnds, Nobody
<1>3. Shapes' /\ Unbound(E)
  <2>1. UnbindEntries(E) /\ run' \in Runs
    BY <1>1 DEF StopAllEnds, Runs
  <2> QED
    BY <1>0, <2>1, UnbindEffect DEF HeapInv
<1>4. HeapInv' /\ CfgsStay
  BY <1>0, <1>3, UnbindingKeepsHeap
<1>5. Jobs' /\ BootWork' /\ ReloadWork' /\ StopWork'
  BY <1>2 DEF Jobs, BootWork, ReloadWork, StopWork, InTeardown, AtReload, AtStop
<1>6. \A n : ~Awaits(n) /\ ~Awaits(n)'
  BY <1>2 DEF Awaits
<1>7. RoutesLead'
  BY <1>3, <1>6 DEF DaemonInv, RoutesLead, Unbound, Closes
<1>8. \A r \in DOMAIN reg : reg[r].retire = "done"
  <2>1. \A r : InHand(r) => reg[r].retire = "done"
    BY <1>2 DEF InHand, AllRetired
  <2> QED
    BY <1>2, <2>1 DEF DaemonInv, Teardown, StopWork
<1>9. Teardown'
  <2>1. reg' = reg /\ table' = table
    BY <1>3 DEF Unbound
  <2> QED
    BY <1>2, <1>8, <2>1 DEF DaemonInv, Teardown
<1>10. Listeners'
  <2>1. \A r : ~Kept(r) /\ ~Kept(r)'
    BY <1>6 DEF Kept
  <2>2. \A b : Members(b)' = Members(b) /\ Members(b) = {}
    BY <1>3, <1>8, <2>1 DEF Members, Unbound
  <2>3. \A b : Cardinality(Members(b)) = 0 /\ Cardinality(Members(b)') = 0
    BY <2>2, FS_EmptySet
  <2>4. \A b \in DOMAIN bnd : bnd[b].open => bnd[b].entry # 0
    <3> SUFFICES ASSUME NEW b \in DOMAIN bnd, bnd[b].open, bnd[b].entry = 0 PROVE FALSE
      OBVIOUS
    <3>1. bnd[b].members = Cardinality(Members(b)) /\ bnd[b].members > 0
      BY DEF DaemonInv, Listeners
    <3>2. bnd[b].members = 0
      BY <2>3, <3>1
    <3> QED
      BY <3>1, <3>2
  <2>5. \A b \in DOMAIN bnd : ~bnd'[b].open
    <3> SUFFICES ASSUME NEW b \in DOMAIN bnd, bnd[b].open PROVE \E e \in E : ent[e].bind = b
      BY <1>3 DEF Unbound
    <3>1. PICK n \in EntryNames : entries[n] = bnd[b].entry /\ ent[bnd[b].entry].bind = b
      BY <2>4 DEF DaemonInv, Listeners
    <3>2. bnd[b].entry \in DOMAIN ent /\ b # 0
      BY <1>0, <2>4, <3>1, ShapesOf DEF HeapInv, Pointers, ObjectsAreTyped
    <3> QED
      BY <1>1, <3>1, <3>2
  <2>6. DOMAIN bnd' = DOMAIN bnd /\ \A b \in DOMAIN bnd : bnd'[b].members = bnd[b].members
    BY <1>3 DEF Unbound, Closes
  <2>7. \A b \in DOMAIN bnd : bnd'[b].members = Cardinality(Members(b)')
    BY <2>3, <2>6 DEF DaemonInv, Listeners
  <2> QED
    BY <2>5, <2>6, <2>7 DEF Listeners
<1> QED
  BY <1>4, <1>5, <1>7, <1>9, <1>10 DEF DaemonInv, HeapInv

-----------------------------------------------------------------------------
(* Reload: out of the table, down, and out of the listeners *)

\* The step under d.mu: removed projects leave the table, and a switch whose
\* route is kept is suspended.
Items == {[reg |-> table[n], keep |-> FALSE] : n \in Removed}
           \cup {[reg |-> table[n], keep |-> Keeps(n)] : n \in Changed}

LEMMA DetachEffect ==
  ASSUME DaemonInv, ReloadDetaches
  PROVE  /\ job.by = "reload" /\ job.step = "detach"
         /\ AtReload /\ table = job.old /\ job.items = {} /\ entries = job.oldEnt /\ run # "exited"
         /\ \A n \in Names : Old(n) = table[n] /\ (table[n] # 0 => table[n] \in DOMAIN reg /\ reg[table[n]].name = n)
         /\ Removed \subseteq Names /\ Removed \cap Changed = {} /\ Removed \cap Added = {}
         /\ \A n \in Removed : table[n] # 0
         /\ table' = [n \in Names |-> IF n \in Removed THEN 0 ELSE table[n]]
         /\ sw' = [s \in DOMAIN sw |->
                     IF \E n \in Changed : Keeps(n) /\ reg[table[n]].sw = s THEN 0 ELSE sw[s]]
         /\ job' = [job EXCEPT !.step = "retire", !.items = Items]
         /\ run' = run
         /\ entries' = entries /\ bindings' = bindings /\ reg' = reg /\ bnd' = bnd /\ ent' = ent
<1>0. HeapInv /\ ObjectsAreTyped /\ job.by = "reload" /\ job.step = "detach"
  BY ShapesOf DEF DaemonInv, HeapInv, ReloadDetaches
<1>1. AtReload /\ table = job.old /\ job.items = {} /\ entries = job.oldEnt /\ run # "exited"
  BY <1>0 DEF DaemonInv, Jobs, AtBoot, AtReload, AtStop, Nobody, ReloadWork, Teardown
<1>2. \A n \in Names : Old(n) = table[n] /\ (table[n] # 0 => table[n] \in DOMAIN reg /\ reg[table[n]].name = n)
  BY <1>0, <1>1 DEF Old, HeapInv, Pointers
<1>3. /\ Added \subseteq Names /\ Changed \subseteq Names
      /\ \A n \in Changed : Old(n) \in DOMAIN reg /\ reg[Old(n)].name = n /\ Old(n) # 0
      /\ \A m, n \in Changed : Old(m) = Old(n) => m = n
      /\ \A n \in Added : Old(n) = 0 /\ n \notin Changed
  BY <1>1, DiffIsTyped DEF DaemonInv
<1>6. /\ Removed \subseteq Names /\ Removed \cap Changed = {} /\ Removed \cap Added = {}
      /\ \A n \in Removed : table[n] # 0
  BY <1>1, <1>2, <1>3 DEF Removed, Changed, Added
<1>7. /\ table' = [n \in Names |-> IF n \in Removed THEN 0 ELSE table[n]]
      /\ sw' = [s \in DOMAIN sw |->
                  IF \E n \in Changed : Keeps(n) /\ reg[table[n]].sw = s THEN 0 ELSE sw[s]]
      /\ job' = [job EXCEPT !.step = "retire", !.items = Items]
      /\ run' = run
      /\ entries' = entries /\ bindings' = bindings /\ reg' = reg /\ bnd' = bnd /\ ent' = ent
  <2> DEFINE gone == {job.oldEnt[n] : n \in EntriesGone}
             dynamic == {n \in Names \ Changed : table[n] # 0 /\ reg[table[n]].entry \in gone}
             leaving == Removed \cup dynamic
  <2>1. 0 \notin gone
    BY DEF EntriesGone
  <2>2. \A n \in Names : table[n] # 0 => reg[table[n]].entry = 0
    BY <1>0, <1>2 DEF ObjectsAreTyped
  <2> HIDE DEF gone
  <2>3. leaving = Removed
    BY <2>1, <2>2
  <2>4. /\ table' = [n \in Names |-> IF n \in leaving THEN 0 ELSE table[n]]
        /\ sw' = [s \in DOMAIN sw |->
                    IF \E n \in Changed : Keeps(n) /\ reg[table[n]].sw = s THEN 0 ELSE sw[s]]
        /\ job' = [job EXCEPT !.step = "retire",
                     !.items = {[reg |-> table[n], keep |-> FALSE] : n \in leaving}
                          \cup {[reg |-> table[n], keep |-> Keeps(n)] : n \in Changed}]
        /\ run' = IF \E n \in Changed : table[n] = 0 THEN "crashed" ELSE run
        /\ entries' = entries /\ bindings' = bindings /\ reg' = reg /\ bnd' = bnd /\ ent' = ent
    BY DEF ReloadDetaches, gone
  <2>5. ~\E n \in Changed : table[n] = 0
    BY <1>2, <1>3
  <2> HIDE DEF leaving
  <2> QED
    BY <2>3, <2>4, <2>5 DEF Items
<1> QED
  BY <1>0, <1>1, <1>2, <1>6, <1>7

LEMMA ReloadDetachesKeeps == DaemonInv /\ ReloadDetaches => DaemonInv'
<1> SUFFICES ASSUME DaemonInv, ReloadDetaches PROVE DaemonInv'
  OBVIOUS
<1>0. HeapInv /\ ObjectsAreTyped /\ job.by = "reload" /\ job.step = "detach"
  BY ShapesOf, DetachEffect DEF DaemonInv, HeapInv
<1>1. AtReload /\ table = job.old /\ job.items = {} /\ entries = job.oldEnt /\ run # "exited"
  BY DetachEffect
<1>2. \A n \in Names : Old(n) = table[n] /\ (table[n] # 0 => table[n] \in DOMAIN reg /\ reg[table[n]].name = n)
  BY DetachEffect
<1>3. /\ Added \subseteq Names /\ Changed \subseteq Names
      /\ \A n \in Changed : Old(n) \in DOMAIN reg /\ reg[Old(n)].name = n /\ Old(n) # 0
      /\ \A m, n \in Changed : Old(m) = Old(n) => m = n
      /\ \A n \in Added : Old(n) = 0 /\ n \notin Changed
  BY <1>1, DiffIsTyped DEF DaemonInv
<1>4. \A r : ~InHand(r)
  BY <1>1 DEF InHand
<1>5. \A n : ~Awaits(n)
  BY <1>0 DEF Awaits
<1>6. /\ Removed \subseteq Names /\ Removed \cap Changed = {} /\ Removed \cap Added = {}
      /\ \A n \in Removed : table[n] # 0
  BY DetachEffect
<1> DEFINE items == {[reg |-> table[n], keep |-> FALSE] : n \in Removed}
                      \cup {[reg |-> table[n], keep |-> Keeps(n)] : n \in Changed}
<1>7. /\ table' = [n \in Names |-> IF n \in Removed THEN 0 ELSE table[n]]
      /\ sw' = [s \in DOMAIN sw |->
                  IF \E n \in Changed : Keeps(n) /\ reg[table[n]].sw = s THEN 0 ELSE sw[s]]
      /\ job' = [job EXCEPT !.step = "retire", !.items = items]
      /\ run' = run
      /\ entries' = entries /\ bindings' = bindings /\ reg' = reg /\ bnd' = bnd /\ ent' = ent
  BY DetachEffect DEF Items
<1>8. /\ \A n \in Removed : \E i \in items : i.reg = table[n]
      /\ \A n \in Changed : \E i \in items : i.reg = table[n]
      /\ \A i \in items : i = [reg |-> i.reg, keep |-> i.keep] /\ i.keep \in BOOLEAN
      /\ \A i \in items : \E n \in Removed \cup Changed :
           i.reg = table[n] /\ (i.keep <=> n \in Changed /\ Keeps(n))
  <2>1. \A n \in Removed : [reg |-> table[n], keep |-> FALSE] \in items
                             /\ [reg |-> table[n], keep |-> FALSE].reg = table[n]
    OBVIOUS
  <2>2. \A n \in Changed : [reg |-> table[n], keep |-> Keeps(n)] \in items
                             /\ [reg |-> table[n], keep |-> Keeps(n)].reg = table[n]
    OBVIOUS
  <2>3. \A n : Keeps(n) \in BOOLEAN
    BY DEF Keeps
  <2>4. ASSUME NEW i \in items
        PROVE  /\ i = [reg |-> i.reg, keep |-> i.keep] /\ i.keep \in BOOLEAN
               /\ \E n \in Removed \cup Changed :
                    i.reg = table[n] /\ (i.keep <=> n \in Changed /\ Keeps(n))
    <3>1. CASE \E n \in Removed : i = [reg |-> table[n], keep |-> FALSE]
      <4>1. PICK n \in Removed : i = [reg |-> table[n], keep |-> FALSE]
        BY <3>1
      <4>2. i.reg = table[n] /\ i.keep = FALSE /\ n \notin Changed
        BY <1>6, <4>1
      <4> QED
        BY <4>1, <4>2
    <3>2. CASE \E n \in Changed : i = [reg |-> table[n], keep |-> Keeps(n)]
      <4>1. PICK n \in Changed : i = [reg |-> table[n], keep |-> Keeps(n)]
        BY <3>2
      <4>2. i.reg = table[n] /\ i.keep = Keeps(n)
        BY <4>1
      <4> QED
        BY <2>3, <4>1, <4>2
    <3> QED
      BY <3>1, <3>2
  <2> QED
    BY <2>1, <2>2, <2>4
<1> HIDE DEF items
<1>9. /\ job'.by = "reload" /\ job'.step = "retire" /\ job'.items = items
      /\ job'.cfg = job.cfg /\ job'.old = job.old /\ job'.oldEnt = job.oldEnt
  BY <1>1, <1>7 DEF AtReload
<1>10. AtReload'
  <2>1. job' = [by |-> "reload", step |-> "retire", cfg |-> job.cfg, old |-> job.old,
                oldEnt |-> job.oldEnt, items |-> items, todo |-> job.todo]
    BY <1>1, <1>7 DEF AtReload
  <2>2. job'.todo = job.todo
    BY <2>1
  <2> QED
    BY <1>1, <1>9, <2>1, <2>2 DEF AtReload
<1>11. Shapes' /\ HeapInv' /\ CfgsStay
  <2>1. sw' \in Seq(Nat) /\ DOMAIN sw' = DOMAIN sw
    <3>1. DOMAIN sw = 1..Len(sw) /\ Len(sw) \in Nat /\ \A s \in DOMAIN sw : sw[s] \in Nat
      BY <1>0 DEF HeapInv, Shapes
    <3>2. sw' \in [1..Len(sw) -> Nat]
      BY <1>7, <3>1
    <3> QED
      BY <3>1, <3>2
  <2>2. table' \in [Names -> Nat]
    BY <1>0, <1>7 DEF HeapInv, Shapes
  <2>3. Shapes'
    BY <1>0, <1>7, <2>1, <2>2 DEF HeapInv, Shapes
  <2>4. Shrinks
    <3>1. \A s \in DOMAIN sw : sw'[s] \in {0, sw[s]}
      BY <1>7
    <3>2. \A n \in Names : table'[n] \in {0, table[n]}
      BY <1>7
    <3> QED
      BY <1>7, <2>1, <3>1, <3>2 DEF Shrinks
  <2>5. CfgsStay
    BY <1>7 DEF CfgsStay
  <2> QED
    BY <1>0, <2>3, <2>4, <2>5, ShrinkingKeepsHeap
<1>12. /\ Added' = Added /\ Changed' = Changed
       /\ \A n \in Names : Old(n)' = table[n]
       /\ \A n \in Changed : Keeps(n)' <=> Keeps(n)
  BY <1>0, <1>1, <1>2, <1>9, <1>11, DiffIsStable DEF DaemonInv, HeapInv
<1>13. \A r : InHand(r)' <=> \E i \in items : i.reg = r
  BY <1>9 DEF InHand
<1>14. \A n \in Names : Awaits(n)' <=> n \in Changed /\ Keeps(n)
  BY <1>9, <1>12 DEF Awaits
<1>15. Jobs'
  <2>1. \A i \in items : i.reg \in DOMAIN reg
    BY <1>2, <1>3, <1>6, <1>8
  <2>2. \A n \in Names : Old(n)' # 0 => Old(n)' \in DOMAIN reg' /\ reg'[Old(n)'].name = n
    BY <1>2, <1>7, <1>12
  <2> QED
    BY <1>7, <1>8, <1>9, <1>10, <2>1, <2>2 DEF Jobs
<1>16. RoutesLead'
  <2> SUFFICES ASSUME NEW b \in DOMAIN bnd, NEW h \in DOMAIN bnd[b].routes, NEW s,
                      s = bnd[b].routes[h]
               PROVE  IF sw'[s] = 0 THEN \E n \in Names : (Awaits(n) /\ reg[Old(n)].sw = s)'
                      ELSE reg'[sw'[s]].retire = "no"
    BY <1>7 DEF RoutesLead
  <2>1. s \in DOMAIN sw
    BY <1>0 DEF HeapInv, Pointers
  <2>2. sw[s] # 0 /\ reg[sw[s]].retire = "no"
    BY <1>5 DEF DaemonInv, RoutesLead
  <2>3. CASE \E n \in Changed : Keeps(n) /\ reg[table[n]].sw = s
    <3>1. PICK n \in Changed : Keeps(n) /\ reg[table[n]].sw = s
      BY <2>3
    <3>2. n \in Names /\ Awaits(n)' /\ Old(n)' = table[n]
      BY <1>3, <1>12, <1>14, <3>1
    <3>3. sw'[s] = 0
      BY <1>7, <2>1, <2>3
    <3>4. (Awaits(n) /\ reg[Old(n)].sw = s)'
      BY <1>7, <3>1, <3>2
    <3> QED
      BY <3>2, <3>3, <3>4
  <2>4. CASE ~\E n \in Changed : Keeps(n) /\ reg[table[n]].sw = s
    BY <1>7, <2>1, <2>2, <2>4
  <2> QED
    BY <2>3, <2>4
<1>17. BootWork' /\ StopWork'
  BY <1>9 DEF BootWork, StopWork
<1>18. ReloadWork'
  <2>1. entries' = job'.oldEnt
    BY <1>1, <1>7, <1>9
  <2>2. \A n \in Added' : table'[n] = 0
    BY <1>2, <1>3, <1>7, <1>12
  <2>3. \A n \in Changed' : table'[n] = Old(n)'
    BY <1>3, <1>6, <1>7, <1>12
  <2>4. (\A n \in Names : table[n] # 0 /\ InHand(table[n]) => n \in Changed)'
    <3> SUFFICES ASSUME NEW n \in Names, table'[n] # 0, InHand(table[n])' PROVE n \in Changed
      BY <1>12
    <3>1. n \notin Removed /\ table'[n] = table[n] /\ reg[table[n]].name = n
      BY <1>2, <1>7
    <3>2. PICK i \in items : i.reg = table[n]
      BY <1>9, <3>1 DEF InHand
    <3>3. PICK m \in Removed \cup Changed : i.reg = table[m]
      BY <1>8
    <3>4. reg[table[m]].name = m
      BY <1>2, <1>3, <1>6
    <3> QED
      BY <3>1, <3>2, <3>3, <3>4
  <2>5. (\A n \in Changed : InHand(Old(n)))'
    BY <1>3, <1>8, <1>9, <1>12 DEF InHand
  <2>6. \A i \in items : i.keep <=> (\E n \in Changed : Keeps(n) /\ i.reg = Old(n))'
    <3> SUFFICES ASSUME NEW i \in items
                 PROVE  i.keep <=> \E n \in Changed : Keeps(n) /\ i.reg = table[n]
      BY <1>3, <1>12
    <3>1. PICK m \in Removed \cup Changed :
            i.reg = table[m] /\ (i.keep <=> m \in Changed /\ Keeps(m))
      BY <1>8
    <3>2. \A n \in Changed : i.reg = table[n] => n = m
      <4>1. m \in Names /\ table[m] # 0
        BY <1>2, <1>3, <1>6
      <4>2. reg[table[m]].name = m
        BY <1>2, <4>1
      <4>3. \A n \in Changed : reg[table[n]].name = n
        BY <1>2, <1>3
      <4> QED
        BY <3>1, <4>2, <4>3
    <3> QED
      BY <3>1, <3>2
  <2> QED
    BY <1>9, <2>1, <2>2, <2>3, <2>4, <2>5, <2>6 DEF ReloadWork
<1>19. \A n \in Names : table[n] # 0 => reg[table[n]].retire = "no"
  BY <1>1, <1>4 DEF DaemonInv, Teardown
<1>20. Teardown'
  <2>1. \A r \in DOMAIN reg : reg[r].retire # "done" => r \in Registered' \/ InHand(r)'
    <3> SUFFICES ASSUME NEW r \in DOMAIN reg, reg[r].retire # "done"
                 PROVE  r \in Registered' \/ InHand(r)'
      OBVIOUS
    <3>1. r \in Registered
      BY <1>4 DEF DaemonInv, Teardown
    <3>2. PICK m \in Names : table[m] = r /\ r # 0
      BY <3>1 DEF Registered
    <3>3. CASE m \in Removed
      BY <1>8, <1>13, <3>2, <3>3
    <3>4. CASE m \notin Removed
      <4>1. table'[m] = r
        BY <1>7, <3>2, <3>4
      <4> QED
        BY <3>2, <4>1 DEF Registered
    <3> QED
      BY <3>3, <3>4
  <2>2. \A n \in Names : table'[n] # 0 => reg'[table'[n]].retire = "no"
    BY <1>7, <1>19
  <2>3. \A r \in DOMAIN reg' : reg'[r].retire = "done" => reg'[r].proc = "down"
    BY <1>7 DEF DaemonInv, Teardown
  <2> QED
    BY <1>1, <1>7, <2>1, <2>2, <2>3 DEF Teardown
<1>21. Listeners'
  <2>1. \A r : ~Kept(r)
    BY <1>5 DEF Kept
  <2>2. \A r : Kept(r)' => reg[r].retire = "no"
    <3> SUFFICES ASSUME NEW r, Kept(r)' PROVE reg[r].retire = "no"
      OBVIOUS
    <3>1. PICK n \in Names : Awaits(n)' /\ Old(n)' = r
      BY DEF Kept
    <3> QED
      BY <1>2, <1>3, <1>12, <1>14, <1>19, <3>1
  <2>3. \A b : Members(b)' = Members(b)
    BY <1>7, <2>1, <2>2, MembersStay
  <2> QED
    BY <1>7, <2>3 DEF DaemonInv, Listeners
<1> QED
  BY <1>11, <1>15, <1>16, <1>17, <1>18, <1>20, <1>21 DEF DaemonInv, HeapInv

LEMMA ReloadUnbindsKeeps == DaemonInv /\ ReloadUnbinds => DaemonInv'
<1> SUFFICES ASSUME DaemonInv, ReloadUnbinds PROVE DaemonInv'
  OBVIOUS
<1>0. HeapInv /\ job.by = "reload" /\ job.step = "retire" /\ AllRetired /\ run' = run
  BY DEF DaemonInv, HeapInv, ReloadUnbinds
<1>1. AtReload /\ entries = job.oldEnt /\ run # "exited"
  BY <1>0 DEF DaemonInv, Jobs, AtBoot, AtReload, AtStop, Nobody, ReloadWork, Teardown
<1>2. /\ Added \subseteq Names /\ Changed \subseteq Names
      /\ \A n \in Changed : Old(n) \in DOMAIN reg /\ reg[Old(n)].name = n /\ Old(n) # 0
  BY <1>1, DiffIsTyped DEF DaemonInv
<1>3. PICK E : E = {job.oldEnt[n] : n \in EntriesGone}
  OBVIOUS
<1>4. Shapes' /\ Unbound(E)
  <2>1. UnbindEntries(E) /\ run' \in Runs
    BY <1>0, <1>3 DEF ReloadUnbinds, HeapInv, Shapes
  <2> QED
    BY <1>0, <2>1, UnbindEffect DEF HeapInv
<1>5. HeapInv' /\ CfgsStay
  BY <1>0, <1>4, UnbindingKeepsHeap
<1> DEFINE todo == {<<1, n>> : n \in Added} \cup {<<2, n>> : n \in Changed}
                     \cup {<<3, n>> : n \in EntriesDue}
<1>6. job' = [job EXCEPT !.step = "rebuild", !.todo = todo]
  BY DEF ReloadUnbinds
<1>7. \A n : /\ <<1, n>> \in todo <=> n \in Added
             /\ <<2, n>> \in todo <=> n \in Changed
             /\ <<3, n>> \in todo <=> n \in EntriesDue
  OBVIOUS
<1> HIDE DEF todo
<1>8. /\ job'.by = "reload" /\ job'.step = "rebuild" /\ job'.items = job.items /\ job'.todo = todo
      /\ job'.cfg = job.cfg /\ job'.old = job.old /\ job'.oldEnt = job.oldEnt
  BY <1>1, <1>6 DEF AtReload
<1>9. AtReload'
  <2>1. job' = [by |-> "reload", step |-> "rebuild", cfg |-> job.cfg, old |-> job.old,
                oldEnt |-> job.oldEnt, items |-> job.items, todo |-> todo]
    BY <1>1, <1>6 DEF AtReload
  <2> QED
    BY <1>1, <1>8, <2>1 DEF AtReload
<1>10. /\ Added' = Added /\ Changed' = Changed
       /\ \A n \in Names : Old(n)' = Old(n)
       /\ \A n \in Changed : Keeps(n)' <=> Keeps(n)
  BY <1>1, <1>4, <1>5, <1>8, DiffIsStable DEF DaemonInv
<1>11. \A n \in Names : Awaits(n)' <=> Awaits(n)
  BY <1>0, <1>7, <1>8, <1>10 DEF Awaits
<1>12. \A r : (InHand(r)' <=> InHand(r)) /\ (Kept(r)' <=> Kept(r))
  BY <1>0, <1>8, <1>10, <1>11 DEF InHand, Kept
<1>13. /\ reg' = reg /\ table' = table /\ sw' = sw /\ ent' = ent /\ Registered' = Registered
       /\ DOMAIN bnd' = DOMAIN bnd /\ \A b \in DOMAIN bnd : bnd'[b].routes = bnd[b].routes
  BY <1>4 DEF Unbound, Closes, Registered
<1>14. Jobs'
  <2>1. InTeardown
    BY <1>1 DEF InTeardown
  <2> QED
    BY <1>8, <1>9, <1>10, <1>13, <2>1, <1>1 DEF DaemonInv, Jobs
<1>15. RoutesLead'
  BY <1>10, <1>11, <1>13 DEF DaemonInv, RoutesLead
<1>16. BootWork' /\ StopWork'
  BY <1>8 DEF BootWork, StopWork
<1>17. ReloadWork'
  <2>1. AllRetired'
    BY <1>0, <1>8, <1>13 DEF AllRetired
  <2>2. \A n \in EntriesDue : n \in WildcardNames(job.cfg)
                                /\ (n \in EntryNames => entries'[n] = 0)
    <3> SUFFICES ASSUME NEW n \in EntriesDue, n \in EntryNames PROVE entries'[n] = 0
      BY DEF EntriesDue
    <3>1. entries'[n] = IF entries[n] \in E THEN 0 ELSE entries[n]
      BY <1>4 DEF Unbound
    <3>2. entries[n] = 0 \/ entries[n] \in E
      BY <1>1, <1>3 DEF EntriesDue, EntriesGone
    <3> QED
      BY <3>1, <3>2
  <2>3. \A i \in job.items : (\E n \in Changed : Keeps(n) /\ i.reg = Old(n))'
                                <=> \E n \in Changed : Keeps(n) /\ i.reg = Old(n)
    BY <1>2, <1>10
  <2>4. /\ \A n \in Added : table[n] = 0
        /\ \A n \in Changed : table[n] = Old(n) /\ InHand(Old(n))
        /\ \A i \in job.items : i.keep <=> \E n \in Changed : Keeps(n) /\ i.reg = Old(n)
    BY <1>0 DEF DaemonInv, ReloadWork
  <2>5. (\A n \in Changed : InHand(Old(n)))'
    BY <1>0, <1>2, <1>8, <1>10, <2>4 DEF InHand
  <2>6. (\A i \in job.items : i.keep <=> \E n \in Changed : Keeps(n) /\ i.reg = Old(n))'
    BY <1>8, <2>3, <2>4
  <2>7. (/\ \A n \in Names : <<1, n>> \in job.todo => n \in Added /\ table[n] = 0
         /\ \A n \in Names : <<2, n>> \in job.todo => n \in Changed /\ table[n] = Old(n)
         /\ \A n \in EntryNames : <<3, n>> \in job.todo =>
                n \in WildcardNames(job.cfg) /\ entries[n] = 0)'
    BY <1>7, <1>8, <1>10, <1>13, <2>2, <2>4
  <2> QED
    BY <1>8, <2>1, <2>5, <2>6, <2>7 DEF ReloadWork
<1>18. Teardown'
  <2>1. \A n \in Names : table[n] # 0 /\ reg[table[n]].retire # "no" =>
          InHand(table[n]) /\ <<2, n>> \in todo
    BY <1>0, <1>1, <1>7 DEF DaemonInv, Teardown, ReloadWork
  <2>2. (\A n \in Names : table[n] # 0 /\ reg[table[n]].retire # "no" =>
          InHand(table[n]) /\ <<2, n>> \in job.todo)'
    BY <1>8, <1>12, <1>13, <2>1
  <2>3. (\A r \in DOMAIN reg : reg[r].retire # "done" => r \in Registered \/ InHand(r))'
    BY <1>12, <1>13 DEF DaemonInv, Teardown
  <2>4. (\A r \in DOMAIN reg : reg[r].retire = "done" => reg[r].proc = "down")'
    BY <1>13 DEF DaemonInv, Teardown
  <2> QED
    BY <1>0, <1>1, <2>2, <2>3, <2>4 DEF Teardown
<1>19. Listeners'
  <2>1. \A b : Members(b)' = Members(b)
    BY <1>12, <1>13, MembersStay
  <2>2. ASSUME NEW b \in DOMAIN bnd, bnd'[b].open, bnd'[b].entry # 0
        PROVE  \E n \in EntryNames : entries'[n] = bnd'[b].entry /\ ent'[bnd'[b].entry].bind = b
    <3>1. bnd[b].open /\ bnd'[b].entry = bnd[b].entry /\ ~\E e \in E : ent[e].bind = b
      BY <1>4, <2>2 DEF Unbound, Closes
    <3>2. PICK n \in EntryNames : entries[n] = bnd[b].entry /\ ent[bnd[b].entry].bind = b
      BY <2>2, <3>1 DEF DaemonInv, Listeners
    <3>3. entries[n] \notin E
      BY <3>1, <3>2
    <3> QED
      BY <1>4, <1>13, <3>1, <3>2, <3>3 DEF Unbound
  <2>3. \A b \in DOMAIN bnd : bnd'[b].members = bnd[b].members /\ bnd'[b].entry = bnd[b].entry
                                /\ (bnd'[b].open => bnd[b].open)
    BY <1>4 DEF Unbound, Closes
  <2>4. \A b \in DOMAIN bnd : bnd'[b].members = Cardinality(Members(b)')
    BY <2>1, <2>3 DEF DaemonInv, Listeners
  <2>5. \A b \in DOMAIN bnd : bnd'[b].open /\ bnd'[b].entry = 0 => bnd'[b].members > 0
    BY <2>3 DEF DaemonInv, Listeners
  <2> QED
    BY <1>0, <1>1, <1>13, <2>2, <2>4, <2>5 DEF Listeners
<1> QED
  BY <1>5, <1>14, <1>15, <1>16, <1>17, <1>18, <1>19 DEF DaemonInv, HeapInv

-----------------------------------------------------------------------------
(* Reload: what it builds *)

\* One entry of the work list is done: what is in the table for n is new, is
\* not there, or is what was there.
Built(phase, n) ==
  /\ job.by = "reload" /\ job.step = "rebuild" /\ <<phase, n>> \in job.todo
  /\ job' = [job EXCEPT !.todo = job.todo \ {<<phase, n>>}] /\ run' = run
  /\ \A r \in DOMAIN reg : r \in DOMAIN reg' /\ reg'[r] = reg[r]
  /\ \A r \in DOMAIN reg' \ DOMAIN reg : r # 0 /\ table'[n] = r /\ n \in Names /\ reg'[r].proc = "down"
  /\ \A m \in Names : table'[m] = table[m] \/ (m = n /\ phase \in {1, 2})
  /\ phase = 1 \/ (phase = 3 /\ n \in EntryNames /\ table' = table) \/ (phase = 2 /\ n \in Names)
  /\ phase = 2 \/ table'[n] # table[n] => table'[n] = 0 \/ reg'[table'[n]].retire = "no"
  /\ \A m \in EntryNames : entries'[m] = entries[m] \/ (m = n /\ phase = 3)

LEMMA BuildingKeepsWork ==
  ASSUME DaemonInv, HeapInv', NEW phase \in {1, 2, 3}, NEW n, Built(phase, n)
  PROVE  /\ Jobs' /\ BootWork' /\ ReloadWork' /\ StopWork' /\ Teardown'
         /\ Changed \subseteq Names
         /\ \A m \in Names : Old(m)' = Old(m)
         /\ \A m \in Names : Awaits(m) => Old(m) \in DOMAIN reg
         /\ \A m \in Names : Awaits(m)' <=> Awaits(m) /\ (phase = 2 => m # n)
<1>0. HeapInv /\ CfgsStay /\ run # "exited"
  BY DEF DaemonInv, HeapInv, CfgsStay, Built, Teardown, Nobody
<1>1. AtReload
  BY DEF DaemonInv, Jobs, AtBoot, AtReload, AtStop, Nobody, Built
<1>2. /\ Added \subseteq Names /\ Changed \subseteq Names
      /\ \A m \in Changed : Old(m) \in DOMAIN reg /\ reg[Old(m)].name = m /\ Old(m) # 0
      /\ \A m \in Added : m \notin Changed
  BY <1>1, DiffIsTyped DEF DaemonInv
<1>3. /\ job'.by = "reload" /\ job'.step = "rebuild" /\ job'.items = job.items
      /\ job'.todo = job.todo \ {<<phase, n>>}
      /\ job'.cfg = job.cfg /\ job'.old = job.old /\ job'.oldEnt = job.oldEnt
  BY <1>1 DEF AtReload, Built
<1>4. AtReload'
  <2>1. job' = [by |-> "reload", step |-> "rebuild", cfg |-> job.cfg, old |-> job.old,
                oldEnt |-> job.oldEnt, items |-> job.items, todo |-> job'.todo]
    BY <1>1, <1>3 DEF AtReload, Built
  <2> QED
    BY <1>1, <1>3, <2>1 DEF AtReload
<1>5. /\ Added' = Added /\ Changed' = Changed
      /\ \A m \in Names : Old(m)' = Old(m)
      /\ \A m \in Changed : Keeps(m)' <=> Keeps(m)
  BY <1>0, <1>1, <1>3, DiffIsStable DEF DaemonInv, HeapInv
<1>6. \A p, m : <<p, m>> \in job'.todo <=> <<p, m>> \in job.todo /\ ~(p = phase /\ m = n)
  BY <1>3
<1>7. \A m \in Names : Awaits(m)' <=> Awaits(m) /\ (phase = 2 => m # n)
  BY <1>3, <1>5, <1>6 DEF Awaits, Built
<1>8. \A r : InHand(r)' <=> InHand(r)
  BY <1>3 DEF InHand, Built
<1>9. Jobs'
  <2>1. InTeardown
    BY <1>1 DEF InTeardown
  <2>2. \A i \in job.items :
          i = [reg |-> i.reg, keep |-> i.keep] /\ i.reg \in DOMAIN reg' /\ i.keep \in BOOLEAN
    BY <2>1 DEF DaemonInv, Jobs, Built
  <2>3. \A m \in Names : Old(m) # 0 => Old(m) \in DOMAIN reg' /\ reg'[Old(m)].name = m
    BY <1>1 DEF DaemonInv, Jobs, Built
  <2> QED
    BY <1>3, <1>4, <1>5, <2>2, <2>3 DEF Jobs
<1>10. BootWork' /\ StopWork'
  BY <1>3 DEF BootWork, StopWork
<1>11. /\ AllRetired
       /\ \A m \in Names : <<1, m>> \in job.todo => m \in Added /\ table[m] = 0
       /\ \A m \in Names : <<2, m>> \in job.todo => m \in Changed /\ table[m] = Old(m)
       /\ \A m \in EntryNames : <<3, m>> \in job.todo => m \in WildcardNames(job.cfg) /\ entries[m] = 0
       /\ \A m \in Changed : InHand(Old(m))
       /\ \A i \in job.items : i.keep <=> \E m \in Changed : Keeps(m) /\ i.reg = Old(m)
  BY DEF DaemonInv, ReloadWork, Built
<1>12. ReloadWork'
  <2>1. AllRetired'
    <3>1. \A i \in job.items : i.reg \in DOMAIN reg
      BY <1>1 DEF DaemonInv, Jobs, InTeardown
    <3> QED
      BY <1>3, <1>11, <3>1 DEF AllRetired, Built
  <2>2. \A m \in Names : <<1, m>> \in job'.todo => m \in Added /\ table'[m] = 0
    BY <1>2, <1>6, <1>11 DEF Built
  <2>3. \A m \in Names : <<2, m>> \in job'.todo => m \in Changed /\ table'[m] = Old(m)
    BY <1>2, <1>6, <1>11 DEF Built
  <2>4. \A m \in EntryNames : <<3, m>> \in job'.todo => m \in WildcardNames(job.cfg) /\ entries'[m] = 0
    BY <1>6, <1>11 DEF Built
  <2>5. (\A m \in Changed : InHand(Old(m)))'
    BY <1>2, <1>3, <1>5, <1>11 DEF InHand, Built
  <2>6. (\A i \in job.items : i.keep <=> \E m \in Changed : Keeps(m) /\ i.reg = Old(m))'
    BY <1>2, <1>3, <1>5, <1>11
  <2> QED
    BY <1>3, <1>5, <2>1, <2>2, <2>3, <2>4, <2>5, <2>6 DEF ReloadWork
<1>13. Teardown'
  <2>1. \A r \in DOMAIN reg' : reg'[r].retire = "done" => reg'[r].proc = "down"
    BY DEF DaemonInv, Teardown, Built
  <2>2. ASSUME NEW r \in DOMAIN reg', reg'[r].retire # "done", ~InHand(r)
        PROVE  r \in Registered'
    <3>1. CASE r \notin DOMAIN reg
      BY <3>1 DEF Built, Registered
    <3>2. CASE r \in DOMAIN reg
      <4>1. PICK m \in Names : table[m] = r /\ r # 0
        BY <2>2, <3>2 DEF DaemonInv, Teardown, Registered, Built
      <4>2. table'[m] = table[m]
        <5> SUFFICES ASSUME m = n, phase \in {1, 2} PROVE FALSE
          BY DEF Built
        <5>1. CASE phase = 1
          BY <1>11, <4>1, <5>1 DEF Built
        <5>2. CASE phase = 2
          BY <1>11, <2>2, <4>1, <5>2 DEF Built
        <5> QED
          BY <5>1, <5>2
      <4> QED
        BY <4>1, <4>2 DEF Registered
    <3> QED
      BY <3>1, <3>2
  <2>3. ASSUME NEW m \in Names, NEW r, r = table'[m], r # 0, reg'[r].retire # "no"
        PROVE  InHand(r) /\ <<2, m>> \in job'.todo
    <3>1. table'[m] = table[m]
      BY <2>3 DEF Built
    <3>2. r \in DOMAIN reg /\ reg'[r] = reg[r]
      BY <1>0, <2>3, <3>1 DEF HeapInv, Pointers, Built
    <3>3. InHand(r) /\ <<2, m>> \in job.todo
      BY <1>0, <2>3, <3>1, <3>2 DEF DaemonInv, Teardown, Built
    <3>4. ~(phase = 2 /\ m = n)
      BY <2>3 DEF Built
    <3> QED
      BY <1>6, <3>3, <3>4
  <2>4. (\A m \in Names : table[m] # 0 /\ reg[table[m]].retire # "no" =>
           InHand(table[m]) /\ <<2, m>> \in job.todo)'
    BY <1>3, <2>3 DEF InHand, Built
  <2>5. (\A r \in DOMAIN reg : reg[r].retire # "done" => r \in Registered \/ InHand(r))'
    BY <1>8, <2>2
  <2> QED
    BY <1>0, <2>1, <2>4, <2>5 DEF Teardown, Built
<1>14. \A m \in Names : Awaits(m) => Old(m) \in DOMAIN reg
  BY <1>2 DEF Awaits
<1> QED
  BY <1>2, <1>5, <1>7, <1>9, <1>10, <1>12, <1>13, <1>14

\* A new switch and a new route: the rest is routed as before, and the
\* listener counts one member more.
LEMMA AttachingKeepsRoutes ==
  ASSUME DaemonInv, HeapInv', NEW r \in Nat \ {0}, NEW st \in Registration, NEW s, NEW b,
         Attached(r, st, s, b), st.retire = "no", run' # "exited",
         r \in DOMAIN reg => reg[r].sw = 0 /\ reg[r].bind = 0,
         \A n \in Names : Awaits(n)' <=> Awaits(n),
         \A n \in Names : Awaits(n) => Old(n) \in DOMAIN reg /\ Old(n)' = Old(n)
  PROVE  RoutesLead' /\ Listeners'
<1>0. HeapInv /\ ObjectsAreTyped
  BY ShapesOf DEF DaemonInv, HeapInv
<1>1. RoutesLead'
  <2> SUFFICES ASSUME NEW y \in DOMAIN bnd', NEW h \in DOMAIN bnd'[y].routes, NEW t,
                      t = bnd'[y].routes[h]
               PROVE  IF sw'[t] = 0 THEN \E n \in Names : (Awaits(n) /\ reg[Old(n)].sw = t)'
                      ELSE reg'[sw'[t]].retire = "no"
    BY DEF RoutesLead
  <2>1. CASE y = b /\ h = st.cfg.host
    <3>1. t = s /\ sw'[t] = r /\ reg'[r].retire = "no" /\ r # 0
      BY <2>1 DEF Attached
    <3> QED
      BY <3>1
  <2>2. CASE ~(y = b /\ h = st.cfg.host)
    <3>1. y \in DOMAIN bnd /\ h \in DOMAIN bnd[y].routes /\ t = bnd[y].routes[h]
      BY <2>2 DEF Attached
    <3>2. t \in DOMAIN sw /\ t # 0 /\ sw'[t] = sw[t]
      BY <1>0, <3>1 DEF HeapInv, Pointers, ObjectsAreTyped, Attached
    <3>3. CASE sw[t] = 0
      <4>1. PICK n \in Names : Awaits(n) /\ reg[Old(n)].sw = t
        BY <3>1, <3>3 DEF DaemonInv, RoutesLead
      <4>2. Old(n) \in DOMAIN reg /\ Old(n) # r /\ Old(n)' = Old(n) /\ Awaits(n)'
        BY <3>2, <4>1
      <4>3. (Awaits(n) /\ reg[Old(n)].sw = t)'
        BY <4>1, <4>2 DEF Attached
      <4> QED
        BY <3>2, <3>3, <4>3
    <3>4. CASE sw[t] # 0
      <4>1. sw[t] \in DOMAIN reg /\ reg[sw[t]].sw = t
        BY <1>0, <3>2, <3>4 DEF HeapInv, Pointers
      <4>2. sw[t] # r /\ reg[sw[t]].retire = "no"
        BY <3>1, <3>2, <3>4, <4>1 DEF DaemonInv, RoutesLead
      <4> QED
        BY <3>2, <3>4, <4>1, <4>2 DEF Attached
    <3> QED
      BY <3>3, <3>4
  <2> QED
    BY <2>1, <2>2
<1>2. \A x : Kept(x)' <=> Kept(x)
  BY DEF Kept
<1>3. /\ DOMAIN reg' = DOMAIN reg \cup {r} /\ reg'[r].bind = b /\ reg'[r].retire = "no"
      /\ \A x \in DOMAIN reg \ {r} : reg'[x] = reg[x]
      /\ b \in Nat \ {0}
  BY DEF Attached
<1>4. r \notin Members(b) /\ Members(b)' = Members(b) \cup {r}
  <2>1. r \notin Members(b) /\ r \in Members(b)'
    BY <1>3 DEF Members
  <2>2. \A x : x # r => (x \in Members(b)' <=> x \in Members(b))
    BY <1>2, <1>3 DEF Members
  <2> QED
    BY <2>1, <2>2
<1>5. \A y \in DOMAIN bnd \ {b} : Members(y)' = Members(y)
  <2> SUFFICES ASSUME NEW y \in DOMAIN bnd \ {b} PROVE Members(y)' = Members(y)
    OBVIOUS
  <2>1. r \notin Members(y) /\ r \notin Members(y)'
    BY <1>0, <1>3 DEF Members, ObjectsAreTyped
  <2>2. \A x : x # r => (x \in Members(y)' <=> x \in Members(y))
    BY <1>2, <1>3 DEF Members
  <2> QED
    BY <2>1, <2>2
<1>6. bnd'[b].members = Cardinality(Members(b)') /\ bnd'[b].members > 0
  <2>1. Cardinality(Members(b)') = Cardinality(Members(b)) + 1
    BY <1>0, <1>4, OneMemberMore DEF HeapInv
  <2>2. Cardinality(Members(b)) \in Nat
    BY <1>0, MembersAreFinite DEF HeapInv
  <2>3. CASE b \in DOMAIN bnd
    <3>1. bnd[b].members = Cardinality(Members(b))
      BY <2>3 DEF DaemonInv, Listeners
    <3>2. bnd'[b].members = bnd[b].members + 1
      BY <2>3 DEF Attached
    <3> QED
      BY <2>1, <2>2, <3>1, <3>2
  <2>4. CASE b \notin DOMAIN bnd
    <3>1. Members(b) = {}
      BY <1>0, <1>3, <2>4 DEF Members, HeapInv, Pointers
    <3>2. Cardinality(Members(b)) = 0
      BY <3>1, FS_EmptySet
    <3>3. bnd'[b].members = 1
      BY <2>4 DEF Attached
    <3> QED
      BY <2>1, <3>2, <3>3
  <2> QED
    BY <2>3, <2>4
<1>7. bnd'[b].entry # 0 => b \in DOMAIN bnd /\ bnd'[b].entry = bnd[b].entry /\ bnd'[b].open = bnd[b].open
  BY DEF Attached
<1>8. /\ DOMAIN bnd' = DOMAIN bnd \cup {b} /\ \A y \in DOMAIN bnd \ {b} : bnd'[y] = bnd[y]
      /\ entries' = entries /\ ent' = ent
  BY DEF Attached
<1>9. Listeners'
  <2> SUFFICES ASSUME NEW y \in DOMAIN bnd'
               PROVE  (/\ bnd[y].members = Cardinality(Members(y))
                       /\ bnd[y].open /\ bnd[y].entry = 0 => bnd[y].members > 0
                       /\ bnd[y].open /\ bnd[y].entry # 0 =>
                            \E n \in EntryNames : entries[n] = bnd[y].entry /\ ent[bnd[y].entry].bind = y)'
    BY DEF Listeners
  <2>1. CASE y = b
    <3>1. bnd'[b].open /\ bnd'[b].entry # 0 =>
            \E n \in EntryNames : entries'[n] = bnd'[b].entry /\ ent'[bnd'[b].entry].bind = b
      <4> SUFFICES ASSUME bnd'[b].open, bnd'[b].entry # 0
                   PROVE  \E n \in EntryNames :
                            entries'[n] = bnd'[b].entry /\ ent'[bnd'[b].entry].bind = b
        OBVIOUS
      <4>1. b \in DOMAIN bnd /\ bnd'[b].entry = bnd[b].entry /\ bnd[b].open
        BY <1>7
      <4>2. \E n \in EntryNames : entries[n] = bnd[b].entry /\ ent[bnd[b].entry].bind = b
        BY <4>1 DEF DaemonInv, Listeners
      <4> QED
        BY <1>8, <4>1, <4>2
    <3> QED
      BY <1>6, <2>1, <3>1
  <2>2. CASE y # b
    BY <1>5, <1>8, <2>2 DEF DaemonInv, Listeners
  <2> QED
    BY <2>1, <2>2
<1> QED
  BY <1>1, <1>9

\* commission without inherited, for one entry of the work list
LEMMA CommissionEffect ==
  ASSUME DaemonInv, NEW phase \in {1, 2}, NEW n \in Names, NEW p \in Projects,
         Rebuild(phase, n), Commission(n, p), phase = 2 => ~Keeps(n)
  PROVE  \E st \in Registration, r \in Nat \ {0} : \E s, b :
           /\ st.name = n /\ st.cfg = p /\ st.retire = "no" /\ r \notin DOMAIN reg
           /\ Attach(r, st) /\ Attached(r, st, s, b) /\ HeapInv' /\ Built(phase, n)
           /\ run' = run /\ run # "exited" /\ st.drive # "none"
<1> DEFINE new == NewState(n, p, 0)
           st == Activated(new)
           r == Len(reg) + 1
<1>0. HeapInv
  BY DEF DaemonInv, HeapInv
<1>1. new \in Registration /\ new.name = n /\ new.cfg = p /\ new.retire = "no" /\ new.proc = "down"
  BY DEF NewState, Registration
<1> HIDE DEF new
<1>2. /\ st \in Registration /\ st.name = n /\ st.cfg = p /\ st.retire = "no" /\ st.proc = "down"
      /\ st.drive # "none"
  BY <1>1, ActivateEffect
<1>3. Attach(r, st)
  BY DEF Commission, new
<1>4. r = Len(reg) + 1 /\ r \in 1..(Len(reg) + 1) /\ r \in Nat \ {0} /\ r \notin DOMAIN reg
  BY <1>0 DEF HeapInv, Shapes
<1> HIDE DEF st, r
<1>5. /\ job.by = "reload" /\ job.step = "rebuild" /\ <<phase, n>> \in job.todo
      /\ job' = [job EXCEPT !.todo = job.todo \ {<<phase, n>>}] /\ run' = run /\ run' \in Runs
  BY DEF Rebuild, Due, Done, DaemonInv, Shapes
<1>6. Shapes' /\ \E s, b : Attached(r, st, s, b)
  <2>1. Shapes' /\ \E s, b : Attached(Len(reg) + 1, st, s, b)
    BY <1>0, <1>2, <1>3, <1>4, <1>5, AttachEffect DEF r
  <2> QED
    BY <2>1 DEF r
<1>7. PICK s, b : Attached(r, st, s, b)
  BY <1>6
<1>8. HeapInv'
  BY <1>0, <1>2, <1>4, <1>6, <1>7, AttachKeepsHeap
<1>9. Built(phase, n)
  <2>1. table' = [table EXCEPT ![n] = r] /\ table \in [Names -> Nat]
    BY <1>2, <1>7 DEF Attached, DaemonInv, Shapes
  <2>2. table'[n] = r /\ \A m \in Names \ {n} : table'[m] = table[m]
    BY <2>1
  <2> QED
    BY <1>2, <1>4, <1>5, <1>7, <2>2 DEF Built, Attached
<1>10. run' = run /\ run # "exited"
  BY <1>5 DEF DaemonInv, Teardown, Nobody
<1> QED
  BY <1>2, <1>3, <1>4, <1>7, <1>8, <1>9, <1>10

LEMMA CommissionKeeps ==
  ASSUME DaemonInv, NEW phase \in {1, 2}, NEW n \in Names, NEW p \in Projects,
         Rebuild(phase, n), Commission(n, p), phase = 2 => ~Keeps(n)
  PROVE  DaemonInv'
<1>0. PICK st \in Registration, r \in Nat \ {0} : \E s, b :
        /\ st.name = n /\ st.cfg = p /\ st.retire = "no" /\ r \notin DOMAIN reg
        /\ Attach(r, st) /\ Attached(r, st, s, b) /\ HeapInv' /\ Built(phase, n)
        /\ run' = run /\ run # "exited"
  BY CommissionEffect
<1>1. PICK s, b :
        /\ st.name = n /\ st.cfg = p /\ st.retire = "no" /\ r \notin DOMAIN reg
        /\ Attach(r, st) /\ Attached(r, st, s, b) /\ HeapInv' /\ Built(phase, n)
        /\ run' = run /\ run # "exited"
  BY <1>0
<1>2. /\ Jobs' /\ BootWork' /\ ReloadWork' /\ StopWork' /\ Teardown'
      /\ \A m \in Names : Old(m)' = Old(m)
      /\ \A m \in Names : Awaits(m) => Old(m) \in DOMAIN reg
      /\ \A m \in Names : Awaits(m)' <=> Awaits(m) /\ (phase = 2 => m # n)
  <2>1. phase \in {1, 2, 3}
    OBVIOUS
  <2> QED
    BY <1>1, <2>1, BuildingKeepsWork
<1>3. \A m \in Names : Awaits(m)' <=> Awaits(m)
  BY <1>2 DEF Awaits
<1>4. RoutesLead' /\ Listeners'
  BY <1>1, <1>2, <1>3, AttachingKeepsRoutes
<1> QED
  BY <1>1, <1>2, <1>4 DEF DaemonInv, HeapInv

\* commission with inherited: the replacement takes the place that was kept.
LEMMA InheritingEffect ==
  ASSUME DaemonInv, NEW n \in Names, Rebuild(2, n), Keeps(n),
         Inherit(NewState(n, job.cfg.projects[n], 0), Old(n))
  PROVE  \E st \in Registration, old \in DOMAIN reg : \E r :
           /\ old = Old(n) /\ n \in Changed /\ reg[old].retire = "done" /\ Inherited(r, st, old)
           /\ st.name = n /\ st.retire = "no" /\ st.proc = "down" /\ run' # "exited"
           /\ st.cfg = job.cfg.projects[n]
           /\ HeapInv' /\ Built(2, n) /\ Awaits(n)
           /\ Kept(old) /\ ~Kept(old)' /\ \A x : x # old => (Kept(x)' <=> Kept(x))
<1> DEFINE st == NewState(n, job.cfg.projects[n], 0)
<1>0. HeapInv /\ ObjectsAreTyped
  BY ShapesOf DEF DaemonInv, HeapInv
<1>1. /\ job.by = "reload" /\ job.step = "rebuild" /\ <<2, n>> \in job.todo
      /\ job' = [job EXCEPT !.todo = job.todo \ {<<2, n>>}] /\ run' = run /\ run' \in Runs
  BY DEF Rebuild, Due, Done, DaemonInv, Shapes
<1>2. AtReload /\ n \in Changed /\ run' # "exited"
  BY <1>1 DEF DaemonInv, Jobs, AtBoot, AtReload, AtStop, Nobody, ReloadWork, Teardown
<1>3. PICK old : old = Old(n)
  OBVIOUS
<1>4. /\ old \in DOMAIN reg /\ reg[old].name = n /\ job.cfg.projects[n] \in Projects
      /\ \A m \in Changed : Old(m) = old => m = n
  BY <1>2, <1>3, DiffIsTyped DEF DaemonInv, Changed
<1>5. reg[old].retire = "done"
  BY <1>1, <1>2, <1>3 DEF DaemonInv, ReloadWork, InHand, AllRetired
<1>6. /\ st \in Registration /\ st.name = n /\ st.retire = "no" /\ st.proc = "down"
      /\ st.cfg = job.cfg.projects[n]
  BY <1>4 DEF NewState, Registration
<1>7. SameRoute(reg[old].cfg, st.cfg)
  BY <1>3, <1>6 DEF Keeps
<1>8. Inherit(st, old)
  BY <1>3
<1> HIDE DEF st
<1>9. Shapes' /\ \E r : Inherited(r, st, old)
  BY <1>0, <1>1, <1>4, <1>6, <1>8, InheritEffect
<1>10. PICK r : Inherited(r, st, old)
  BY <1>9
<1>11. HeapInv'
  BY <1>0, <1>4, <1>6, <1>7, <1>9, <1>10, InheritKeepsHeap
<1>12. /\ r \in Nat \ {0} /\ r \notin DOMAIN reg /\ DOMAIN reg' = DOMAIN reg \cup {r}
       /\ reg'[r].sw = reg[old].sw /\ reg'[r].bind = reg[old].bind /\ reg'[r].retire = "no"
       /\ reg'[r].proc = "down" /\ r # old
       /\ \A x \in DOMAIN reg : reg'[x] = reg[x]
       /\ \A s \in DOMAIN sw : sw'[s] = IF s = reg[old].sw THEN r ELSE sw[s]
       /\ bnd' = bnd /\ entries' = entries /\ ent' = ent
       /\ table' = [table EXCEPT ![n] = r]
  BY <1>4, <1>6, <1>10 DEF Inherited
<1>13. Built(2, n)
  <2>1. table'[n] = r /\ \A m \in Names \ {n} : table'[m] = table[m]
    BY <1>12 DEF DaemonInv, Shapes
  <2> QED
    BY <1>1, <1>12, <2>1 DEF Built
<1>14. /\ Jobs' /\ BootWork' /\ ReloadWork' /\ StopWork' /\ Teardown'
       /\ \A m \in Names : Old(m)' = Old(m)
       /\ \A m \in Names : Awaits(m) => Old(m) \in DOMAIN reg
       /\ \A m \in Names : Awaits(m)' <=> Awaits(m) /\ m # n
  BY <1>11, <1>13, BuildingKeepsWork
<1>15. Awaits(n)
  BY <1>1, <1>2 DEF Awaits
<1>16. Kept(old) /\ ~Kept(old)' /\ \A x : x # old => (Kept(x)' <=> Kept(x))
  <2>1. Kept(old)
    BY <1>3, <1>15 DEF Kept
  <2>2. ~Kept(old)'
    <3>1. \A m \in Names : Awaits(m)' => m \in Changed /\ m # n /\ Old(m)' = Old(m)
      BY <1>14 DEF Awaits
    <3> QED
      BY <1>4, <3>1 DEF Kept
  <2>3. \A x : x # old => (Kept(x)' <=> Kept(x))
    BY <1>3, <1>14 DEF Kept
  <2> QED
    BY <2>1, <2>2, <2>3
<1> QED
  BY <1>2, <1>3, <1>4, <1>5, <1>6, <1>10, <1>11, <1>13, <1>15, <1>16

LEMMA InheritingKeeps ==
  ASSUME DaemonInv, NEW n \in Names, Rebuild(2, n), Keeps(n),
         Inherit(NewState(n, job.cfg.projects[n], 0), Old(n))
  PROVE  DaemonInv'
<1>0. HeapInv
  BY DEF DaemonInv, HeapInv
<1>1. PICK st \in Registration, old \in DOMAIN reg : \E r :
        /\ old = Old(n) /\ n \in Changed /\ reg[old].retire = "done" /\ Inherited(r, st, old)
        /\ st.name = n /\ st.retire = "no" /\ st.proc = "down" /\ run' # "exited"
        /\ HeapInv' /\ Built(2, n) /\ Awaits(n)
        /\ Kept(old) /\ ~Kept(old)' /\ \A x : x # old => (Kept(x)' <=> Kept(x))
  BY InheritingEffect
<1>2. PICK r :
        /\ old = Old(n) /\ n \in Changed /\ reg[old].retire = "done" /\ Inherited(r, st, old)
        /\ st.name = n /\ st.retire = "no" /\ st.proc = "down" /\ run' # "exited"
        /\ HeapInv' /\ Built(2, n) /\ Awaits(n)
        /\ Kept(old) /\ ~Kept(old)' /\ \A x : x # old => (Kept(x)' <=> Kept(x))
  BY <1>1
<1>3. /\ r \in Nat \ {0} /\ r \notin DOMAIN reg /\ DOMAIN reg' = DOMAIN reg \cup {r}
      /\ reg'[r].sw = reg[old].sw /\ reg'[r].bind = reg[old].bind /\ reg'[r].retire = "no"
      /\ r # old
      /\ \A x \in DOMAIN reg : reg'[x] = reg[x]
      /\ \A s \in DOMAIN sw : sw'[s] = IF s = reg[old].sw THEN r ELSE sw[s]
      /\ bnd' = bnd /\ entries' = entries /\ ent' = ent
  BY <1>2 DEF Inherited
<1>4. /\ Jobs' /\ BootWork' /\ ReloadWork' /\ StopWork' /\ Teardown'
      /\ \A m \in Names : Old(m)' = Old(m)
      /\ \A m \in Names : Awaits(m) => Old(m) \in DOMAIN reg
      /\ \A m \in Names : Awaits(m)' <=> Awaits(m) /\ m # n
  BY <1>2, BuildingKeepsWork
<1>5. RoutesLead'
  <2> SUFFICES ASSUME NEW b \in DOMAIN bnd, NEW h \in DOMAIN bnd[b].routes, NEW s,
                      s = bnd[b].routes[h]
               PROVE  IF sw'[s] = 0 THEN \E m \in Names : (Awaits(m) /\ reg[Old(m)].sw = s)'
                      ELSE reg'[sw'[s]].retire = "no"
    BY <1>3 DEF RoutesLead
  <2>0. s \in DOMAIN sw
    BY <1>0 DEF HeapInv, Pointers
  <2>1. CASE s = reg[old].sw
    BY <1>3, <2>0, <2>1
  <2>2. CASE s # reg[old].sw /\ sw[s] = 0
    <3>1. PICK m \in Names : Awaits(m) /\ reg[Old(m)].sw = s
      BY <2>2 DEF DaemonInv, RoutesLead
    <3>2. m # n /\ Old(m) \in DOMAIN reg /\ Old(m)' = Old(m)
      BY <1>2, <1>4, <2>2, <3>1
    <3>3. (Awaits(m) /\ reg[Old(m)].sw = s)'
      BY <1>3, <1>4, <3>1, <3>2
    <3> QED
      BY <1>3, <2>0, <2>2, <3>3
  <2>3. CASE s # reg[old].sw /\ sw[s] # 0
    <3>1. sw[s] \in DOMAIN reg /\ reg[sw[s]].retire = "no"
      BY <1>0, <2>0, <2>3 DEF HeapInv, Pointers, DaemonInv, RoutesLead
    <3> QED
      BY <1>3, <2>0, <2>3, <3>1
  <2> QED
    BY <2>1, <2>2, <2>3
<1>6. ASSUME NEW b \in DOMAIN bnd
      PROVE  Cardinality(Members(b)') = Cardinality(Members(b))
  <2>0. \A x : x # r /\ x # old => (x \in Members(b)' <=> x \in Members(b))
    BY <1>2, <1>3 DEF Members
  <2>1. CASE b = reg[old].bind
    <3>1. old \in Members(b) /\ old \notin Members(b)' /\ r \in Members(b)' /\ r \notin Members(b)
      BY <1>2, <1>3, <2>1 DEF Members
    <3>2. Members(b)' = (Members(b) \ {old}) \cup {r}
      BY <2>0, <3>1
    <3>3. IsFiniteSet(Members(b)) /\ Cardinality(Members(b)) \in Nat
      BY <1>0, MembersAreFinite DEF HeapInv
    <3>4. /\ IsFiniteSet(Members(b) \ {old})
          /\ Cardinality(Members(b) \ {old}) = Cardinality(Members(b)) - 1
      BY <3>1, <3>3, FS_RemoveElement
    <3>5. Cardinality((Members(b) \ {old}) \cup {r}) = Cardinality(Members(b) \ {old}) + 1
      BY <3>1, <3>4, FS_AddElement
    <3>6. Cardinality((Members(b) \ {old}) \cup {r}) = Cardinality(Members(b))
      BY <3>3, <3>4, <3>5
    <3> QED
      BY <3>2, <3>6
  <2>2. CASE b # reg[old].bind
    <3>1. old \notin Members(b) /\ old \notin Members(b)' /\ r \notin Members(b)' /\ r \notin Members(b)
      BY <1>3, <2>2 DEF Members
    <3>2. Members(b)' = Members(b)
      BY <2>0, <3>1
    <3> QED
      BY <3>2
  <2> QED
    BY <2>1, <2>2
<1>7. Listeners'
  BY <1>2, <1>3, <1>6 DEF DaemonInv, Listeners
<1> QED
  BY <1>2, <1>4, <1>5, <1>7 DEF DaemonInv, HeapInv

\* The previous registration is lost, or an addition failed.
LEMMA NothingBuiltKeeps ==
  ASSUME DaemonInv, NEW phase \in {1, 2, 3}, NEW n, Rebuild(phase, n),
         phase = 1 \/ (phase = 2 /\ n \in Names /\ ~Keeps(n)) \/ (phase = 3 /\ n \in EntryNames),
         table' = IF phase = 2 THEN [table EXCEPT ![n] = 0] ELSE table,
         UNCHANGED <<entries, bindings, reg, sw, bnd, ent>>
  PROVE  DaemonInv'
<1>0. HeapInv
  BY DEF DaemonInv, HeapInv
<1>1. /\ job.by = "reload" /\ job.step = "rebuild" /\ <<phase, n>> \in job.todo
      /\ job' = [job EXCEPT !.todo = job.todo \ {<<phase, n>>}] /\ run' = run /\ run' \in Runs
  BY DEF Rebuild, Due, Done, DaemonInv, Shapes
<1>2. /\ table' \in [Names -> Nat] /\ \A m \in Names : table'[m] \in {0, table[m]}
      /\ phase = 2 => table'[n] = 0
      /\ \A m \in Names : table'[m] = table[m] \/ (m = n /\ phase = 2)
      /\ phase # 2 => table' = table
  BY <1>0 DEF HeapInv, Shapes
<1>3. HeapInv'
  <2>1. Shapes'
    BY <1>0, <1>1, <1>2 DEF HeapInv, Shapes
  <2>2. Shrinks
    BY <1>2 DEF Shrinks
  <2> QED
    BY <1>0, <2>1, <2>2, ShrinkingKeepsHeap
<1>4. Built(phase, n)
  BY <1>1, <1>2 DEF Built
<1>5. /\ Jobs' /\ BootWork' /\ ReloadWork' /\ StopWork' /\ Teardown'
      /\ \A m \in Names : Old(m)' = Old(m)
      /\ \A m \in Names : Awaits(m)' <=> Awaits(m) /\ (phase = 2 => m # n)
  BY <1>3, <1>4, BuildingKeepsWork
<1>6. \A m \in Names : Awaits(m)' <=> Awaits(m)
  <2>1. phase = 2 => ~Keeps(n)
    OBVIOUS
  <2>2. phase = 2 => ~Awaits(n)
    BY <2>1 DEF Awaits
  <2> QED
    BY <1>5, <2>2
<1>7. RoutesLead'
  BY <1>5, <1>6 DEF DaemonInv, RoutesLead
<1>8. \A x : Kept(x)' <=> Kept(x)
  BY <1>5, <1>6 DEF Kept
<1>9. \A b : Members(b)' = Members(b)
  BY <1>8, MembersStay
<1>10. Listeners'
  BY <1>1, <1>9 DEF DaemonInv, Listeners
<1> QED
  BY <1>3, <1>5, <1>7, <1>10 DEF DaemonInv, HeapInv

\* bindEntry: the new listener has its entry and no member.
LEMMA BindingEntryKeepsRoutes ==
  ASSUME DaemonInv, HeapInv', NEW e \in Nat \ {0}, NEW rec \in Entry, NEW b,
         EntryBound(e, rec, b), run' # "exited",
         IF e \in DOMAIN ent THEN entries[rec.cfg.name] = e /\ ent[e].bind = 0
         ELSE entries[rec.cfg.name] = 0,
         \A n \in Names : Awaits(n)' <=> Awaits(n),
         \A n \in Names : Awaits(n) => Old(n)' = Old(n)
  PROVE  RoutesLead' /\ Listeners'
<1>0. HeapInv /\ ObjectsAreTyped
  BY ShapesOf DEF DaemonInv, HeapInv
<1>1. /\ b \in Nat \ {0} /\ b \notin DOMAIN bnd /\ DOMAIN bnd' = DOMAIN bnd \cup {b}
      /\ bnd'[b].members = 0 /\ bnd'[b].entry = e /\ DOMAIN bnd'[b].routes = {}
      /\ \A x \in DOMAIN bnd : bnd'[x] = bnd[x]
      /\ ent'[e].bind = b /\ \A x \in DOMAIN ent \ {e} : ent'[x] = ent[x]
      /\ entries' = [entries EXCEPT ![rec.cfg.name] = e]
      /\ reg' = reg /\ sw' = sw
  BY DEF EntryBound
<1>2. rec.cfg.name \in EntryNames /\ entries \in [EntryNames -> Nat]
  BY EntriesAreTyped DEF Entry, DaemonInv, Shapes
<1>3. entries'[rec.cfg.name] = e /\ \A n \in EntryNames \ {rec.cfg.name} : entries'[n] = entries[n]
  BY <1>1, <1>2
<1>4. RoutesLead'
  <2>1. \A y \in DOMAIN bnd' : \A h \in DOMAIN bnd'[y].routes : y \in DOMAIN bnd /\ bnd'[y] = bnd[y]
    BY <1>1
  <2> QED
    BY <1>1, <2>1 DEF DaemonInv, RoutesLead
<1>5. \A x : Kept(x)' <=> Kept(x)
  BY DEF Kept
<1>6. \A y : Members(y)' = Members(y)
  BY <1>1, <1>5, MembersStay
<1>7. Members(b) = {} /\ Cardinality(Members(b)) = 0
  <2>1. Members(b) = {}
    BY <1>0, <1>1 DEF Members, HeapInv, Pointers
  <2> QED
    BY <2>1, FS_EmptySet
<1>8. Listeners'
  <2> SUFFICES ASSUME NEW y \in DOMAIN bnd'
               PROVE  (/\ bnd[y].members = Cardinality(Members(y))
                       /\ bnd[y].open /\ bnd[y].entry = 0 => bnd[y].members > 0
                       /\ bnd[y].open /\ bnd[y].entry # 0 =>
                            \E n \in EntryNames : entries[n] = bnd[y].entry /\ ent[bnd[y].entry].bind = y)'
    BY DEF Listeners
  <2>1. CASE y = b
    <3>1. bnd'[y].entry # 0
      BY <1>1, <2>1
    <3>2. \E n \in EntryNames : entries'[n] = bnd'[y].entry /\ ent'[bnd'[y].entry].bind = y
      BY <1>1, <1>2, <1>3, <2>1
    <3>3. bnd'[y].members = Cardinality(Members(y)')
      BY <1>1, <1>6, <1>7, <2>1
    <3> QED
      BY <3>1, <3>2, <3>3
  <2>2. CASE y # b
    <3>1. y \in DOMAIN bnd /\ bnd'[y] = bnd[y] /\ y # 0
      BY <1>0, <1>1, <2>2 DEF ObjectsAreTyped
    <3>2. ASSUME bnd[y].open, bnd[y].entry # 0
          PROVE  \E n \in EntryNames : entries'[n] = bnd[y].entry /\ ent'[bnd[y].entry].bind = y
      <4>1. PICK n \in EntryNames : entries[n] = bnd[y].entry /\ ent[bnd[y].entry].bind = y
        BY <3>1, <3>2 DEF DaemonInv, Listeners
      <4>2. bnd[y].entry \in DOMAIN ent
        BY <1>0, <3>2, <4>1 DEF HeapInv, Pointers
      <4>3. bnd[y].entry # e /\ n # rec.cfg.name
        BY <3>1, <3>2, <4>1, <4>2
      <4> QED
        BY <1>1, <1>3, <4>1, <4>2, <4>3
    <3>3. /\ bnd[y].members = Cardinality(Members(y))
          /\ bnd[y].open /\ bnd[y].entry = 0 => bnd[y].members > 0
      BY <3>1 DEF DaemonInv, Listeners
    <3> QED
      BY <1>6, <3>1, <3>2, <3>3
  <2> QED
    BY <2>1, <2>2
<1> QED
  BY <1>4, <1>8

LEMMA ReloadBindsEntryKeeps ==
  ASSUME DaemonInv, NEW n \in EntryNames, ReloadBindsEntry(n)
  PROVE  DaemonInv'
<1> DEFINE e == Len(ent) + 1
           rec == [cfg |-> EntryNamed(job.cfg, n), bind |-> 0]
<1>0. HeapInv
  BY DEF DaemonInv, HeapInv
<1>1. /\ job.by = "reload" /\ job.step = "rebuild" /\ <<3, n>> \in job.todo
      /\ job' = [job EXCEPT !.todo = job.todo \ {<<3, n>>}] /\ run' = run /\ run' \in Runs
      /\ Rebuild(3, n)
  BY DEF ReloadBindsEntry, Rebuild, Due, Done, DaemonInv, Shapes
<1>2. CASE UNCHANGED heap
  BY <1>1, <1>2, NothingBuiltKeeps DEF heap
<1>3. CASE BindEntry(e, rec)
  <2>1. AtReload /\ n \in WildcardNames(job.cfg) /\ entries[n] = 0 /\ run' # "exited"
    BY <1>1 DEF DaemonInv, Jobs, AtBoot, AtReload, AtStop, Nobody, ReloadWork, Teardown
  <2>2. EntryNamed(job.cfg, n) \in Wildcards(job.cfg) /\ EntryNamed(job.cfg, n).name = n
    BY <2>1 DEF EntryNamed, WildcardNames
  <2>3. rec \in Entry /\ rec.cfg.name = n
    BY <2>1, <2>2 DEF Entry, AtReload
  <2>4. e \in 1..(Len(ent) + 1) /\ e \in Nat \ {0} /\ e \notin DOMAIN ent
    BY <1>0 DEF HeapInv, Shapes
  <2> HIDE DEF rec
  <2>5. Shapes' /\ \E b : EntryBound(e, rec, b)
    BY <1>0, <1>1, <1>3, <2>3, <2>4, BindEntryEffect
  <2> HIDE DEF e
  <2>6. PICK b : EntryBound(e, rec, b)
    BY <2>5
  <2>7. HeapInv'
    BY <1>0, <2>3, <2>4, <2>5, <2>6, BindEntryKeepsHeap
  <2>8. Built(3, n)
    <3>1. \A m \in EntryNames \ {n} : entries'[m] = entries[m]
      BY <2>3, <2>6 DEF EntryBound, DaemonInv, Shapes
    <3>2. table' = table /\ reg' = reg
      BY <2>6 DEF EntryBound
    <3> QED
      BY <1>1, <3>1, <3>2 DEF Built
  <2>9. /\ Jobs' /\ BootWork' /\ ReloadWork' /\ StopWork' /\ Teardown'
        /\ \A m \in Names : Old(m)' = Old(m)
        /\ \A m \in Names : Awaits(m)' <=> Awaits(m)
    BY <2>7, <2>8, BuildingKeepsWork
  <2>10. RoutesLead' /\ Listeners'
    BY <2>1, <2>3, <2>4, <2>6, <2>7, <2>9, BindingEntryKeepsRoutes
  <2> QED
    BY <2>7, <2>9, <2>10 DEF DaemonInv, HeapInv
<1> QED
  BY <1>2, <1>3 DEF ReloadBindsEntry

LEMMA RebuildingKeeps ==
  ASSUME DaemonInv, NEW n \in Names,
         ReloadAdds(n) \/ ReloadReplaces(n) \/ ReloadRestores(n) \/ ReloadLoses(n)
  PROVE  DaemonInv'
<1>1. job.by = "reload" /\ job.step = "rebuild"
  BY DEF ReloadAdds, ReloadReplaces, ReloadRestores, ReloadLoses, Rebuild
<1>2. AtReload
  BY <1>1 DEF DaemonInv, Jobs, AtBoot, AtReload, AtStop, Nobody
<1>3. /\ \A m \in DOMAIN job.cfg.projects : job.cfg.projects[m] \in Projects
      /\ \A m \in Changed : Old(m) \in DOMAIN reg
  BY <1>2, DiffIsTyped DEF DaemonInv
<1>4. \A m \in Names : /\ <<1, m>> \in Due => m \in DOMAIN job.cfg.projects
                       /\ <<2, m>> \in Due => m \in Changed /\ m \in DOMAIN job.cfg.projects
  <2>1. Added \subseteq DOMAIN job.cfg.projects /\ Changed \subseteq DOMAIN job.cfg.projects
    BY DEF Added, Changed
  <2>2. Due \subseteq job.todo
    BY DEF Due
  <2>3. \A m \in Names : /\ <<1, m>> \in job.todo => m \in Added
                         /\ <<2, m>> \in job.todo => m \in Changed
    BY <1>1 DEF DaemonInv, ReloadWork
  <2> QED
    BY <2>1, <2>2, <2>3
<1>5. CASE ReloadAdds(n)
  <2>1. Rebuild(1, n) /\ job.cfg.projects[n] \in Projects
    BY <1>3, <1>4, <1>5 DEF ReloadAdds, Rebuild
  <2>2. CASE Commission(n, job.cfg.projects[n])
    BY <2>1, <2>2, CommissionKeeps
  <2>3. CASE UNCHANGED heap
    BY <2>1, <2>3, NothingBuiltKeeps DEF heap
  <2> QED
    BY <1>5, <2>2, <2>3 DEF ReloadAdds
<1>6. CASE ReloadReplaces(n)
  <2>1. Rebuild(2, n) /\ job.cfg.projects[n] \in Projects
    BY <1>3, <1>4, <1>6 DEF ReloadReplaces, Rebuild
  <2>2. CASE Keeps(n)
    BY <1>6, <2>1, <2>2, InheritingKeeps DEF ReloadReplaces
  <2>3. CASE ~Keeps(n)
    <3>1. Commission(n, job.cfg.projects[n])
      BY <1>6, <2>3 DEF ReloadReplaces
    <3> QED
      BY <2>1, <2>3, <3>1, CommissionKeeps
  <2> QED
    BY <2>2, <2>3
<1>7. CASE ReloadRestores(n)
  <2>1. Rebuild(2, n) /\ ~Keeps(n) /\ Commission(n, reg[Old(n)].cfg)
    BY <1>7 DEF ReloadRestores
  <2>2. reg[Old(n)].cfg \in Projects
    BY <1>3, <1>4, <2>1, ShapesOf DEF Rebuild, DaemonInv, ObjectsAreTyped
  <2> QED
    BY <2>1, <2>2, CommissionKeeps
<1>8. CASE ReloadLoses(n)
  <2>1. Rebuild(2, n) /\ ~Keeps(n) /\ table' = [table EXCEPT ![n] = 0]
        /\ UNCHANGED <<entries, bindings, reg, sw, bnd, ent>>
    BY <1>8 DEF ReloadLoses
  <2> QED
    BY <2>1, NothingBuiltKeeps
<1> QED
  BY <1>5, <1>6, <1>7, <1>8

-----------------------------------------------------------------------------
(* The start of the daemon *)

LEMMA BootBindsKeeps == DaemonInv /\ BootBinds => DaemonInv'
<1> SUFFICES ASSUME DaemonInv, BootBinds PROVE DaemonInv'
  OBVIOUS
<1>0. HeapInv /\ ObjectsAreTyped
  BY ShapesOf DEF DaemonInv, HeapInv
<1>1. job.by = "boot" /\ run' = run /\ run' \in Runs /\ run # "exited"
  BY DEF BootBinds, DaemonInv, Shapes, Teardown, Nobody
<1>2. AtBoot
  BY <1>1 DEF DaemonInv, Jobs, AtBoot, AtReload, AtStop, Nobody
<1>3. PICK t \in job.todo :
        /\ job' = [job EXCEPT !.todo = job.todo \ {t}]
        /\ IF t[1] = 1 THEN Attach(table[t[2]], reg[table[t[2]]])
           ELSE BindEntry(entries[t[2]], ent[entries[t[2]]])
  BY DEF BootBinds, Due, Done
<1>4. job'.by = "boot" /\ job'.todo = job.todo \ {t} /\ AtBoot'
  <2>1. job' = [by |-> "boot", todo |-> job.todo \ {t}]
    BY <1>2, <1>3 DEF AtBoot
  <2> QED
    BY <2>1 DEF AtBoot
<1>5. Jobs' /\ ReloadWork' /\ StopWork'
  BY <1>4 DEF Jobs, InTeardown, AtReload, AtStop, ReloadWork, StopWork
<1>6. \A n : ~Awaits(n) /\ ~Awaits(n)'
  BY <1>1, <1>4 DEF Awaits
<1>7. \A r : ~InHand(r) /\ ~InHand(r)'
  BY <1>1, <1>4 DEF InHand
<1>8. /\ \A u \in job.todo : u \in {1} \X Names \/ u \in {2} \X EntryNames
      /\ \A n \in Names : <<1, n>> \in job.todo =>
           table[n] # 0 /\ reg[table[n]].sw = 0 /\ reg[table[n]].bind = 0
      /\ \A n \in EntryNames : <<2, n>> \in job.todo =>
           entries[n] # 0 /\ ent[entries[n]].bind = 0
  BY <1>1 DEF DaemonInv, BootWork
<1>9. \A n \in Names : table[n] # 0 => reg[table[n]].retire = "no"
  BY <1>1, <1>7 DEF DaemonInv, Teardown
<1>10. CASE t[1] = 1
  <2>1. PICK n \in Names : t = <<1, n>>
    BY <1>8, <1>10
  <2>2. PICK r : r = table[n]
    OBVIOUS
  <2>3. /\ r \in DOMAIN reg /\ r # 0 /\ reg[r].name = n /\ reg[r] \in Registration
        /\ reg[r].sw = 0 /\ reg[r].bind = 0 /\ reg[r].retire = "no"
    BY <1>0, <1>8, <1>9, <2>1, <2>2 DEF HeapInv, Pointers, ObjectsAreTyped
  <2>4. r \in 1..(Len(reg) + 1) /\ r \in Nat \ {0}
    BY <1>0, <2>3 DEF HeapInv, Shapes
  <2>5. PICK st \in Registration : st = reg[r]
    BY <2>3
  <2>6. Attach(r, st)
    BY <1>3, <1>10, <2>1, <2>2, <2>5
  <2>7. Shapes' /\ \E s, b : Attached(r, st, s, b)
    BY <1>0, <1>1, <2>4, <2>6, AttachEffect
  <2>8. PICK s, b : Attached(r, st, s, b)
    BY <2>7
  <2>9. HeapInv'
    BY <1>0, <2>3, <2>4, <2>5, <2>7, <2>8, AttachKeepsHeap
  <2>10. RoutesLead' /\ Listeners'
    BY <1>1, <1>6, <2>3, <2>4, <2>5, <2>8, <2>9, AttachingKeepsRoutes
  <2>11. /\ table' = table /\ entries' = entries /\ ent' = ent
         /\ DOMAIN reg' = DOMAIN reg /\ \A x \in DOMAIN reg \ {r} : reg'[x] = reg[x]
         /\ reg'[r].retire = reg[r].retire /\ reg'[r].proc = reg[r].proc
    <3>1. table' = [table EXCEPT ![n] = r] /\ table \in [Names -> Nat]
      BY <2>3, <2>5, <2>8 DEF Attached, DaemonInv, Shapes
    <3>2. table' = table
      BY <2>2, <3>1
    <3> QED
      BY <2>3, <2>5, <2>8, <3>2 DEF Attached
  <2>12. BootWork'
    <3>1. ASSUME NEW m \in Names, <<1, m>> \in job'.todo
          PROVE  table'[m] # 0 /\ reg'[table'[m]].sw = 0 /\ reg'[table'[m]].bind = 0
      <4>1. m # n /\ <<1, m>> \in job.todo
        BY <1>4, <2>1, <3>1
      <4>2. table[m] \in DOMAIN reg /\ table[m] # r
        BY <1>0, <1>8, <2>3, <4>1 DEF HeapInv, Pointers
      <4> QED
        BY <1>8, <2>11, <4>1, <4>2
    <3> QED
      BY <1>4, <1>8, <2>11, <3>1 DEF BootWork
  <2>13. Teardown'
    <3>1. Registered' = Registered /\ \A x \in DOMAIN reg : reg'[x].retire = reg[x].retire
      BY <2>11 DEF Registered
    <3>2. \A x \in DOMAIN reg : reg'[x].proc = reg[x].proc
      BY <2>11
    <3>3. \A m \in Names : table[m] # 0 => reg'[table[m]].retire = "no"
      BY <1>0, <1>9, <3>1 DEF HeapInv, Pointers
    <3>4. \A x \in DOMAIN reg' : reg'[x].retire # "done" => x \in Registered'
      BY <1>7, <2>11, <3>1 DEF DaemonInv, Teardown
    <3>5. \A x \in DOMAIN reg' : reg'[x].retire = "done" => reg'[x].proc = "down"
      BY <2>11, <3>1, <3>2 DEF DaemonInv, Teardown
    <3> QED
      BY <1>1, <2>11, <3>3, <3>4, <3>5 DEF Teardown
  <2> QED
    BY <1>5, <2>9, <2>10, <2>12, <2>13 DEF DaemonInv, HeapInv
<1>11. CASE t[1] # 1
  <2>1. PICK n \in EntryNames : t = <<2, n>>
    BY <1>8, <1>11
  <2>2. PICK e : e = entries[n]
    OBVIOUS
  <2>3. /\ e \in DOMAIN ent /\ e # 0 /\ ent[e].cfg.name = n /\ ent[e] \in Entry /\ ent[e].bind = 0
    BY <1>0, <1>8, <2>1, <2>2 DEF HeapInv, Pointers, ObjectsAreTyped
  <2>4. e \in 1..(Len(ent) + 1) /\ e \in Nat \ {0}
    BY <1>0, <2>3 DEF HeapInv, Shapes
  <2>5. PICK rec \in Entry : rec = ent[e]
    BY <2>3
  <2>6. BindEntry(e, rec)
    BY <1>3, <1>11, <2>1, <2>2, <2>5
  <2>7. Shapes' /\ \E b : EntryBound(e, rec, b)
    BY <1>0, <1>1, <2>4, <2>6, BindEntryEffect
  <2>8. PICK b : EntryBound(e, rec, b)
    BY <2>7
  <2>9. HeapInv'
    BY <1>0, <2>4, <2>5, <2>7, <2>8, BindEntryKeepsHeap
  <2>10. RoutesLead' /\ Listeners'
    BY <1>1, <1>6, <2>2, <2>3, <2>4, <2>5, <2>8, <2>9, BindingEntryKeepsRoutes
  <2>11. /\ table' = table /\ entries' = entries /\ reg' = reg
         /\ \A x \in DOMAIN ent \ {e} : ent'[x] = ent[x]
    <3>1. entries' = [entries EXCEPT ![n] = e] /\ entries \in [EntryNames -> Nat]
      BY <2>3, <2>5, <2>8 DEF EntryBound, DaemonInv, Shapes
    <3>2. entries' = entries
      BY <2>2, <3>1
    <3> QED
      BY <2>8, <3>2 DEF EntryBound
  <2>12. BootWork'
    <3>1. ASSUME NEW m \in EntryNames, <<2, m>> \in job'.todo
          PROVE  entries'[m] # 0 /\ ent'[entries'[m]].bind = 0
      <4>1. m # n /\ <<2, m>> \in job.todo
        BY <1>4, <2>1, <3>1
      <4>2. entries[m] \in DOMAIN ent /\ entries[m] # e
        BY <1>0, <1>8, <2>3, <4>1 DEF HeapInv, Pointers
      <4> QED
        BY <1>8, <2>11, <4>1, <4>2
    <3> QED
      BY <1>4, <1>8, <2>11, <3>1 DEF BootWork
  <2>13. Teardown'
    <3>1. Registered' = Registered
      BY <2>11 DEF Registered
    <3> QED
      BY <1>1, <1>7, <1>9, <2>11, <3>1 DEF DaemonInv, Teardown
  <2> QED
    BY <1>5, <2>9, <2>10, <2>12, <2>13 DEF DaemonInv, HeapInv
<1> QED
  BY <1>10, <1>11

\* SetToSeq lists a finite set without repetition.
LEMMA SeqLists ==
  ASSUME NEW S, IsFiniteSet(S), NEW f, f = SetToSeq(S)
  PROVE  /\ f \in Seq(S) /\ DOMAIN f \subseteq Nat \ {0}
         /\ \A i, j \in DOMAIN f : f[i] = f[j] => i = j
         /\ \A x \in S : \E i \in DOMAIN f : f[i] = x
         /\ \A i \in DOMAIN f : f[i] \in S
<1>0. Cardinality(S) \in Nat
  BY FS_CardinalityType
<1>1. f \in [1..Cardinality(S) -> S] /\ IsInjective(f)
  <2>1. PICK g : g \in Bijection(1..Cardinality(S), S)
    BY FS_CardinalityType DEF ExistsBijection
  <2>2. g \in [1..Cardinality(S) -> S] /\ IsInjective(g)
    BY <2>1 DEF Bijection, Injection, IsInjective
  <2> QED
    BY <2>2 DEF SetToSeq
<1>2. f \in Injection(1..Cardinality(S), S)
  BY <1>1 DEF Injection, IsInjective
<1>3. Cardinality(1..Cardinality(S)) = Cardinality(S)
  BY <1>0, FS_Interval
<1>4. f \in Surjection(1..Cardinality(S), S)
  BY <1>2, <1>3, FS_Injection
<1>5. \A x \in S : \E i \in DOMAIN f : f[i] = x
  BY <1>1, <1>4 DEF Surjection
<1>6. \A i, j \in DOMAIN f : f[i] = f[j] => i = j
  BY <1>1 DEF IsInjective
<1>7. f \in Seq(S) /\ DOMAIN f \subseteq Nat \ {0} /\ \A i \in DOMAIN f : f[i] \in S
  BY <1>0, <1>1
<1> QED
  BY <1>5, <1>6, <1>7

\* The place of n in a list, or 0
Place(f, g, D) ==
  /\ g \in [D -> Nat]
  /\ \A n \in D : g[n] # 0 => g[n] \in DOMAIN f /\ f[g[n]] = n
  /\ \A n \in D : (\E i \in DOMAIN f : f[i] = n) => g[n] # 0

LEMMA PlaceOf ==
  ASSUME NEW D, NEW f, DOMAIN f \subseteq Nat \ {0}, NEW g,
         g = [n \in D |-> IF \E i \in DOMAIN f : f[i] = n THEN CHOOSE i \in DOMAIN f : f[i] = n ELSE 0]
  PROVE  Place(f, g, D)
<1>1. ASSUME NEW n \in D
      PROVE  /\ g[n] \in Nat
             /\ g[n] # 0 => g[n] \in DOMAIN f /\ f[g[n]] = n
             /\ (\E i \in DOMAIN f : f[i] = n) => g[n] # 0
  <2>1. CASE \E i \in DOMAIN f : f[i] = n
    <3>1. g[n] = CHOOSE i \in DOMAIN f : f[i] = n
      BY <2>1
    <3>2. g[n] \in DOMAIN f /\ f[g[n]] = n
      BY <2>1, <3>1
    <3> QED
      BY <3>2
  <2>2. CASE ~\E i \in DOMAIN f : f[i] = n
    BY <2>2
  <2> QED
    BY <2>1, <2>2
<1>2. g \in [D -> Nat]
  BY <1>1
<1> QED
  BY <1>1, <1>2 DEF Place

LEMMA InitHolds == Init => DaemonInv
<1> SUFFICES ASSUME Init PROVE DaemonInv
  OBVIOUS
<1>1. PICK names : names = SetToSeq(DOMAIN Boot.projects)
  OBVIOUS
<1>2. PICK wilds : wilds = SetToSeq(WildcardNames(Boot))
  OBVIOUS
<1>3. /\ reg = [i \in DOMAIN names |-> NewState(names[i], Boot.projects[names[i]], 0)]
      /\ ent = [i \in DOMAIN wilds |-> [cfg |-> EntryNamed(Boot, wilds[i]), bind |-> 0]]
      /\ table = [n \in Names |-> IF \E i \in DOMAIN names : names[i] = n
                                  THEN CHOOSE i \in DOMAIN names : names[i] = n ELSE 0]
      /\ entries = [n \in EntryNames |-> IF \E i \in DOMAIN wilds : wilds[i] = n
                                         THEN CHOOSE i \in DOMAIN wilds : wilds[i] = n ELSE 0]
      /\ bindings = [p \in Ports |-> 0] /\ sw = << >> /\ bnd = << >>
      /\ job = [by |-> "boot", todo |-> {<<1, n>> : n \in DOMAIN Boot.projects}
                                        \cup {<<2, n>> : n \in WildcardNames(Boot)}]
      /\ run = "booting"
  BY <1>1, <1>2 DEF Init
<1>4. /\ DOMAIN Boot.projects \subseteq Names /\ IsFiniteSet(DOMAIN Boot.projects)
      /\ WildcardNames(Boot) \subseteq EntryNames /\ IsFiniteSet(WildcardNames(Boot))
  <2>1. Boot \in Files \cup {Boot}
    OBVIOUS
  <2>2. DOMAIN Boot.projects \subseteq Names /\ WildcardNames(Boot) \subseteq EntryNames
    BY <2>1, FilesAssumption DEF WildcardNames
  <2> QED
    BY <2>2, FilesAssumption, FS_Subset
<1>5. /\ names \in Seq(DOMAIN Boot.projects) /\ DOMAIN names \subseteq Nat \ {0}
      /\ \A i, j \in DOMAIN names : names[i] = names[j] => i = j
      /\ \A x \in DOMAIN Boot.projects : \E i \in DOMAIN names : names[i] = x
      /\ \A i \in DOMAIN names : names[i] \in DOMAIN Boot.projects
  BY <1>1, <1>4, SeqLists
<1>6. /\ wilds \in Seq(WildcardNames(Boot)) /\ DOMAIN wilds \subseteq Nat \ {0}
      /\ \A i, j \in DOMAIN wilds : wilds[i] = wilds[j] => i = j
      /\ \A x \in WildcardNames(Boot) : \E i \in DOMAIN wilds : wilds[i] = x
      /\ \A i \in DOMAIN wilds : wilds[i] \in WildcardNames(Boot)
  BY <1>2, <1>4, SeqLists
<1>7. Place(names, table, Names) /\ Place(wilds, entries, EntryNames)
  BY <1>3, <1>5, <1>6, PlaceOf
<1>8. \A i \in DOMAIN names :
        /\ reg[i] \in Registration /\ reg[i].name = names[i] /\ reg[i].sw = 0 /\ reg[i].bind = 0
        /\ reg[i].retire = "no"
  <2> SUFFICES ASSUME NEW i \in DOMAIN names
               PROVE  /\ reg[i] \in Registration /\ reg[i].name = names[i] /\ reg[i].sw = 0
                      /\ reg[i].bind = 0 /\ reg[i].retire = "no"
    OBVIOUS
  <2>1. names[i] \in Names /\ Boot.projects[names[i]] \in Projects
    BY <1>4, <1>5 DEF Projects
  <2>2. reg[i] = NewState(names[i], Boot.projects[names[i]], 0)
    BY <1>3
  <2> QED
    BY <2>1, <2>2 DEF NewState, Registration
<1>9. \A i \in DOMAIN wilds : ent[i] \in Entry /\ ent[i].cfg.name = wilds[i] /\ ent[i].bind = 0
  <2> SUFFICES ASSUME NEW i \in DOMAIN wilds
               PROVE  ent[i] \in Entry /\ ent[i].cfg.name = wilds[i] /\ ent[i].bind = 0
    OBVIOUS
  <2>1. EntryNamed(Boot, wilds[i]) \in Wildcards(Boot) /\ EntryNamed(Boot, wilds[i]).name = wilds[i]
    BY <1>6 DEF EntryNamed, WildcardNames
  <2>2. ent[i] = [cfg |-> EntryNamed(Boot, wilds[i]), bind |-> 0]
    BY <1>3
  <2> QED
    BY <2>1, <2>2 DEF Entry
<1>10. DOMAIN reg = DOMAIN names /\ DOMAIN ent = DOMAIN wilds
  BY <1>3
<1>11. Shapes
  <2>1. reg \in Seq(Registration)
    <3>1. DOMAIN names = 1..Len(names) /\ Len(names) \in Nat
      BY <1>5
    <3>2. reg \in [1..Len(names) -> Registration]
      BY <1>3, <1>8, <3>1
    <3> QED
      BY <3>1, <3>2
  <2>2. ent \in Seq(Entry)
    <3>1. DOMAIN wilds = 1..Len(wilds) /\ Len(wilds) \in Nat
      BY <1>6
    <3>2. ent \in [1..Len(wilds) -> Entry]
      BY <1>3, <1>9, <3>1
    <3> QED
      BY <3>1, <3>2
  <2>3. table \in [Names -> Nat] /\ entries \in [EntryNames -> Nat]
    BY <1>7 DEF Place
  <2>4. bindings \in [Ports -> Nat] /\ sw \in Seq(Nat) /\ bnd \in Seq(Listener) /\ run \in Runs
    BY <1>3 DEF Runs
  <2> QED
    BY <2>1, <2>2, <2>3, <2>4 DEF Shapes
<1>12. DOMAIN sw = {} /\ DOMAIN bnd = {} /\ \A p \in Ports : bindings[p] = 0
  BY <1>3
<1>13. Pointers
  BY <1>7, <1>8, <1>9, <1>10, <1>12 DEF Pointers, Place
<1>14. RoutesAreOwned /\ RoutesLead /\ Listeners
  BY <1>12 DEF RoutesAreOwned, RoutesLead, Listeners
<1>15. job.by = "boot" /\ AtBoot
  BY <1>3 DEF AtBoot
<1>16. Jobs /\ ReloadWork /\ StopWork
  BY <1>15 DEF Jobs, InTeardown, AtReload, AtStop, ReloadWork, StopWork
<1>17. BootWork
  <2>1. \A n \in DOMAIN Boot.projects : table[n] # 0
    BY <1>4, <1>5, <1>7 DEF Place
  <2>2. \A n \in WildcardNames(Boot) : entries[n] # 0
    BY <1>4, <1>6, <1>7 DEF Place
  <2>3. /\ \A n : <<1, n>> \in job.todo => n \in DOMAIN Boot.projects
        /\ \A n : <<2, n>> \in job.todo => n \in WildcardNames(Boot)
    BY <1>3
  <2>4. \A t \in job.todo : t \in {1} \X Names \/ t \in {2} \X EntryNames
    BY <1>3, <1>4
  <2>5. \A n \in Names : table[n] # 0 => reg[table[n]].sw = 0 /\ reg[table[n]].bind = 0
    BY <1>7, <1>8 DEF Place
  <2>6. \A n \in EntryNames : entries[n] # 0 => ent[entries[n]].bind = 0
    BY <1>7, <1>9 DEF Place
  <2> QED
    BY <2>1, <2>2, <2>3, <2>4, <2>5, <2>6 DEF BootWork
<1>18. Teardown
  <2>1. \A r \in DOMAIN reg : r \in Registered
    <3> SUFFICES ASSUME NEW r \in DOMAIN reg PROVE r \in Registered
      OBVIOUS
    <3>1. PICK n \in Names : n = names[r]
      BY <1>4, <1>5, <1>10
    <3>2. table[n] # 0 /\ names[table[n]] = n /\ table[n] \in DOMAIN names
      BY <1>7, <1>10, <3>1 DEF Place
    <3>3. table[n] = r
      BY <1>5, <1>10, <3>1, <3>2
    <3> QED
      BY <3>2, <3>3 DEF Registered
  <2>2. \A n \in Names : table[n] # 0 => reg[table[n]].retire = "no"
    BY <1>7, <1>8 DEF Place
  <2>3. \A r \in DOMAIN reg : reg[r].retire = "no"
    BY <1>8, <1>10
  <2>4. run # "exited"
    BY <1>3
  <2> QED
    BY <2>1, <2>2, <2>3, <2>4 DEF Teardown
<1> QED
  BY <1>11, <1>13, <1>14, <1>16, <1>17, <1>18 DEF DaemonInv

-----------------------------------------------------------------------------
(* Theorems *)

\* Every step of the daemon keeps the invariant.
LEMMA NextKeeps == DaemonInv /\ [Next]_vars => DaemonInv'
<1> SUFFICES ASSUME DaemonInv, [Next]_vars PROVE DaemonInv'
  OBVIOUS
<1>1. CASE DaemonWorks
  <2>1. CASE BootBinds
    BY <2>1, BootBindsKeeps
  <2>2. CASE BootFails
    BY <2>2, BootFailsKeeps
  <2>3. CASE BootEnds
    BY <2>3, BootEndsKeeps
  <2>4. CASE ReloadDetaches
    BY <2>4, ReloadDetachesKeeps
  <2>5. CASE ReloadUnbinds
    BY <2>5, ReloadUnbindsKeeps
  <2>6. CASE ReloadEnds
    BY <2>6, ReloadEndsKeeps
  <2>7. CASE JobRetires
    BY <2>7, JobRetiresKeeps
  <2>8. CASE \E n \in Names :
               ReloadAdds(n) \/ ReloadReplaces(n) \/ ReloadRestores(n) \/ ReloadLoses(n)
    BY <2>8, RebuildingKeeps
  <2>9. CASE \E n \in EntryNames : ReloadBindsEntry(n)
    BY <2>9, ReloadBindsEntryKeeps
  <2>10. CASE StopAllBegins
    BY <2>10, StopAllBeginsKeeps
  <2>11. CASE StopAllEnds
    BY <2>11, StopAllEndsKeeps
  <2> QED
    BY <1>1, <2>1, <2>2, <2>3, <2>4, <2>5, <2>6, <2>7, <2>8, <2>9, <2>10, <2>11 DEF DaemonWorks
<1>2. CASE ReloadBegins
  BY <1>2, ReloadBeginsKeeps
<1>3. CASE Drain
  BY <1>3, DrainKeeps
<1>4. CASE \E q \in Requests : RequestWorks(q) \/ RequestComes(q)
  BY <1>4, RequestsAreSteady, SteadyStep
<1>5. CASE \E r \in DOMAIN reg : ProcWorks(r)
  BY <1>5, ProcessesAreSteady, SteadyStep
<1>6. CASE UNCHANGED vars
  <2>1. UNCHANGED heap /\ job' = job /\ run' = run /\ run' \in Runs /\ Shapes
    BY <1>6 DEF vars, DaemonInv, Shapes
  <2>2. Shapes' /\ Steady
    BY <2>1, NothingTurns
  <2> QED
    BY <2>1, <2>2, SteadyStep
<1> QED
  BY <1>1, <1>2, <1>3, <1>4, <1>5, <1>6 DEF Next

\* Whatever the files say, in which order they are read and what fails: the
\* pointers between projects, switches, listeners and entries agree, every
\* route leads to a project in service or is owed one by a reload, every
\* project that is not torn down has somebody who will, and a listener counts
\* exactly its members (daemon.go, state.go, router.go, reload.go).
THEOREM DaemonInvariant == Spec => []DaemonInv
  BY InitHolds, NextKeeps, PTL DEF Spec

\* Every pointer of the daemon is nil or leads to an object, and no listener
\* counts fewer than no members.
THEOREM TypeCorrect == Spec => []TypeOK
<1>1. DaemonInv => TypeOK
  <2> SUFFICES ASSUME DaemonInv PROVE TypeOK
    OBVIOUS
  <2>1. Shapes /\ Pointers /\ ObjectsAreTyped
    BY ShapesOf DEF DaemonInv
  <2>2. /\ DOMAIN reg = 1..Len(reg) /\ DOMAIN ent = 1..Len(ent) /\ DOMAIN bnd = 1..Len(bnd)
        /\ DOMAIN sw = 1..Len(sw) /\ Len(reg) \in Nat /\ Len(ent) \in Nat /\ Len(bnd) \in Nat
        /\ Len(sw) \in Nat
    BY <2>1 DEF Shapes
  <2>3. table \in [Names -> 0..Len(reg)]
    BY <2>1, <2>2 DEF Shapes, Pointers
  <2>4. entries \in [EntryNames -> 0..Len(ent)]
    BY <2>1, <2>2 DEF Shapes, Pointers
  <2>5. bindings \in [Ports -> 0..Len(bnd)]
    BY <2>1, <2>2 DEF Shapes, Pointers
  <2>6. \A s \in DOMAIN sw : sw[s] \in 0..Len(reg)
    BY <2>1, <2>2 DEF Pointers
  <2>7. \A r \in DOMAIN reg : reg[r].sw \in 0..Len(sw) /\ reg[r].bind \in 0..Len(bnd)
    BY <2>1, <2>2 DEF Pointers
  <2>8. \A r \in DOMAIN reg :
          /\ reg[r].name \in Names
          /\ reg[r].drive \in {"none", "starter", "monitor", "cancelled", "ended"}
          /\ reg[r].retire \in {"no", "off", "stopping", "done"}
          /\ reg[r].proc \in {"down", "up", "stopping"}
    BY <2>1 DEF ObjectsAreTyped, Registration
  <2>9. \A b \in DOMAIN bnd : bnd[b].members \in Nat
    BY <2>1, MembersAreFinite DEF DaemonInv, Listeners
  <2>10. \A b \in DOMAIN bnd : bnd[b].port \in Ports /\ bnd[b].open \in BOOLEAN
    BY <2>1 DEF ObjectsAreTyped, Listener
  <2>11. \A b \in DOMAIN bnd : \A h \in DOMAIN bnd[b].routes : bnd[b].routes[h] \in DOMAIN sw
    BY <2>1 DEF Pointers
  <2>12. run \in {"booting", "running", "draining", "exited", "crashed"}
    BY <2>1 DEF Shapes, Runs
  <2> QED
    BY <2>3, <2>4, <2>5, <2>6, <2>7, <2>8, <2>9, <2>10, <2>11, <2>12 DEF TypeOK
<1> QED
  BY <1>1, DaemonInvariant, PTL

\* A routed request reaches a project that is on exactly that listener for
\* exactly that host and that nobody has begun to retire, or waits at a switch
\* that the running reload will fill (router.ServeHTTP, handlerSwitch).
THEOREM RoutesAlwaysLive == Spec => []RoutesAreLive
<1>1. DaemonInv => RoutesAreLive
  <2> SUFFICES ASSUME DaemonInv, NEW b \in DOMAIN bnd, NEW h \in DOMAIN bnd[b].routes,
                      NEW r, r = sw[bnd[b].routes[h]]
               PROVE  IF r = 0 THEN job.by \in {"reload", "restart"}
                      ELSE /\ ~Retired(r) /\ reg[r].bind = b
                           /\ reg[r].cfg.sup = bnd[b].port /\ reg[r].cfg.host = h
    BY DEF RoutesAreLive
  <2>1. CASE r = 0
    BY <2>1 DEF DaemonInv, RoutesLead, Awaits
  <2>2. CASE r # 0
    <3>1. r \in DOMAIN reg /\ reg[r].sw = bnd[b].routes[h] /\ reg[r].retire = "no"
      BY <2>2 DEF DaemonInv, Pointers, RoutesLead
    <3>2. reg[r].cfg.host = h /\ reg[r].bind = b
      BY <3>1 DEF DaemonInv, RoutesAreOwned
    <3>3. b # 0
      BY ShapesOf DEF DaemonInv, ObjectsAreTyped
    <3>4. reg[r].cfg.sup = bnd[b].port
      BY <3>1, <3>2, <3>3 DEF DaemonInv, Pointers
    <3> QED
      BY <2>2, <3>1, <3>2, <3>4 DEF Retired
  <2> QED
    BY <2>1, <2>2
<1> QED
  BY <1>1, DaemonInvariant, PTL

\* When Run has returned, every process group is gone and every listener is
\* closed, whatever reload, request, starter or failed boot came before
\* (stopAll, retireAll).
THEOREM NothingIsLeft == Spec => []NothingSurvives
<1>1. DaemonInv => NothingSurvives
  BY DEF DaemonInv, Teardown, Listeners, NothingSurvives
<1> QED
  BY <1>1, DaemonInvariant, PTL
=============================================================================
