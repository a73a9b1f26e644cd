----------------------------- MODULE SyncProofs -----------------------------
(***************************************************************************)
(* Proofs about Sync, for any configurations, worktrees and sites, however *)
(* many commands run, fail or are killed, and whatever the user changes    *)
(* meanwhile.                                                              *)
(*                                                                         *)
(* Sync computes an entry's new file in a loop over the worktrees.  What   *)
(* the loop yields is shown for each prefix of them (Making, Claiming,     *)
(* Complete, Same), by the least prefix that lacks it, and DraftInv and    *)
(* CompleteInv carry it from the step that builds to the one that writes.  *)
(* SightInv says the same of a look at a site and the herd command that    *)
(* follows: what was seen holds still, unless others touched the site.     *)
(* TypesInv says that everything written is well formed, LoadInv that the  *)
(* ports a running sync takes to be in use cover all sources, ProxyInv     *)
(* that the entries dealt with are proxied or about to be, SettledInv that *)
(* a state a good sync left behind is a fixed point of the next.           *)
(*                                                                         *)
(* The proxies of retired wildcard entries go one at a time, and each may  *)
(* fail, so RetiredIsUnproxied needs an invariant of the loop              *)
(* (RetireLoop): a registration that is to be retired is either still on   *)
(* the work list or off Herd and out of syncer.state.  That the work list  *)
(* names all of them rests on the record being finite (RecordIsFinite).    *)
(***************************************************************************)
EXTENDS Sync, FiniteSetTheorems, WellFoundedInduction, TLAPS

\* What retireWildcards does for the registrations on record
Retirements == {Task("unproxy", n, records[n].base, records[n].sup) : n \in DOMAIN records}

RecordIsFinite == IsFiniteSet(DOMAIN records) /\ IsFiniteSet(DOMAIN mem)

\* n's proxy is gone and its registration will not be saved.
Retired(n) ==
  /\ ~ProxiesTo(records[n].base, records[n].sup)
  /\ n \in DOMAIN mem => mem[n] # records[n]

RetireLoop ==
  pc = "retire" =>
    /\ tasks \in Seq(Retirements)
    /\ ok /\ opts.herd /\ ~opts.dry =>
         \A n \in Retirable : Retired(n) \/ \E i \in 1..Len(tasks) : tasks[i].name = n

SyncInv == RecordIsFinite /\ RetireLoop

-----------------------------------------------------------------------------
(* Lists and functions *)

\* SetToSeq lists every element of a finite set.
LEMMA SetListed ==
  ASSUME NEW S, IsFiniteSet(S), NEW f, f = SetToSeq(S)
  PROVE  /\ f \in Seq(S) /\ DOMAIN f = 1..Len(f)
         /\ \A x \in S : \E i \in 1..Len(f) : f[i] = x
<1>0. Cardinality(S) \in Nat
  BY FS_CardinalityType
<1>1. f \in [1..Cardinality(S) -> S] /\ IsInjective(f)
  <2>1. PICK g : g \in Bijection(1..Cardinality(S), S)
    BY FS_CardinalityType DEF ExistsBijection
  <2>2. g \in [1..Cardinality(S) -> S] /\ IsInjective(g)
    BY <2>1 DEF Bijection, Injection, IsInjective
  <2> QED
    BY <2>2 DEF SetToSeq
<1>2. f \in Injection(1..Cardinality(S), S)
  BY <1>1 DEF Injection, IsInjective
<1>3. Cardinality(1..Cardinality(S)) = Cardinality(S)
  BY <1>0, FS_Interval
<1>4. f \in Surjection(1..Cardinality(S), S)
  BY <1>2, <1>3, FS_Injection
<1>5. \A x \in S : \E i \in DOMAIN f : f[i] = x
  BY <1>1, <1>4 DEF Surjection
<1>6. f \in Seq(S) /\ DOMAIN f = 1..Len(f)
  BY <1>0, <1>1
<1> QED
  BY <1>5, <1>6

\* With and Without keep a function finite, and Without only takes away.
LEMMA StaysFinite ==
  ASSUME NEW f, IsFiniteSet(DOMAIN f), NEW x, NEW v
  PROVE  /\ IsFiniteSet(DOMAIN With(f, x, v))
         /\ IsFiniteSet(DOMAIN Without(f, x))
<1>1. DOMAIN With(f, x, v) = DOMAIN f \cup {x} /\ DOMAIN Without(f, x) = DOMAIN f \ {x}
  BY DEF With, Without
<1>2. IsFiniteSet(DOMAIN f \cup {x}) /\ IsFiniteSet(DOMAIN f \ {x})
  BY FS_AddElement, FS_RemoveElement
<1> QED
  BY <1>1, <1>2

-----------------------------------------------------------------------------
(* Induction, and the loop of syncEntry *)

\* A set of naturals that is not empty has a least element.
LEMMA LeastNatural ==
  ASSUME NEW T, T \subseteq Nat, T # {}
  PROVE  \E x \in T : \A y \in T : x <= y
<1> DEFINE R == OpToRel(<, Nat)
<1>1. IsWellFoundedOn(R, Nat)
  BY NatLessThanWellFounded
<1>2. \A x, y \in Nat : y < x => <<y, x>> \in R
  BY DEF OpToRel
<1> HIDE DEF R
<1>3. PICK x \in T : \A y \in T : ~(<<y, x>> \in R)
  BY <1>1, WFMin
<1>4. \A y \in T : x \in Nat /\ y \in Nat /\ ~(y < x)
  BY <1>2, <1>3
<1> QED
  BY <1>4

\* Induction over a set of naturals in place of a predicate.
LEMMA SetInduction ==
  ASSUME NEW S, 0 \in S, \A n \in Nat : n \in S => n + 1 \in S
  PROVE  Nat \subseteq S
<1> SUFFICES ASSUME Nat \ S # {} PROVE FALSE
  OBVIOUS
<1>1. PICK x \in Nat \ S : \A y \in Nat \ S : x <= y
  BY LeastNatural
<1> QED
  BY <1>1

\* What the loop does with the i-th worktree, and what it begins with.
Turn(e, x, a, i) == IF Trees[i] \notin trees[e.name] THEN a ELSE Build(e, x, a, Trees[i])
Start == [used |-> used, final |-> << >>, ok |-> ok]

\* g lists what the loop has made of entry e after each worktree.
IsLoop(e, x, g) ==
  /\ DOMAIN g = 0..Len(Trees) /\ g[0] = Start
  /\ \A i \in 1..Len(Trees) : g[i] = Turn(e, x, g[i - 1], i)
  /\ g[Len(Trees)] = Reconciled(e, x)

\* The recursion in Reconciled defines a function: it has the values the loop
\* goes through.
LEMMA LoopIsDefined ==
  ASSUME NEW e, NEW x
  PROVE  \E g : IsLoop(e, x, g)
<1> DEFINE F(g, m) == [i \in 0..m |-> IF i = 0 THEN Start ELSE Turn(e, x, g[i - 1], i)]
           S == {m \in Nat : \E g : g = F(g, m)}
<1>0. Len(Trees) \in Nat
  BY TreesAssumption
<1>1. 0 \in S
  <2>1. [i \in 0..0 |-> Start] = F([i \in 0..0 |-> Start], 0)
    OBVIOUS
  <2> QED
    BY <2>1
<1>2. ASSUME NEW m \in Nat, m \in S PROVE m + 1 \in S
  <2>1. PICK g : g = F(g, m)
    BY <1>2
  <2>2. PICK v : v = Turn(e, x, g[m], m + 1)
    OBVIOUS
  <2> HIDE DEF F
  <2>3. PICK h : h = [i \in 0..(m + 1) |-> IF i = m + 1 THEN v ELSE g[i]]
    OBVIOUS
  <2> USE DEF F
  <2>4. \A i \in 0..(m + 1) : h[i] = IF i = 0 THEN Start ELSE Turn(e, x, h[i - 1], i)
    <3>1. h[0] = Start
      BY <2>1, <2>3
    <3>2. h[m + 1] = Turn(e, x, h[m], m + 1)
      BY <2>2, <2>3
    <3>3. \A i \in 1..m : h[i] = Turn(e, x, h[i - 1], i)
      BY <2>1, <2>3
    <3> QED
      BY <3>1, <3>2, <3>3
  <2>5. h = F(h, m + 1)
    BY <2>3, <2>4
  <2> QED
    BY <2>5
<1>3. PICK g : g = F(g, Len(Trees))
  <2>1. Len(Trees) \in S
    BY <1>0, <1>1, <1>2, SetInduction
  <2> QED
    BY <2>1
<1>4. PICK f : f = (CHOOSE h : h = F(h, Len(Trees)))
  OBVIOUS
<1>5. f = F(f, Len(Trees))
  BY <1>3, <1>4
<1>6. Reconciled(e, x) = f[Len(Trees)]
  BY <1>4 DEF Reconciled, Turn, Start
<1> QED
  BY <1>0, <1>5, <1>6 DEF IsLoop

-----------------------------------------------------------------------------
(* One candidate *)

\* A project of entry e for worktree c
Project(e, c, sup, app) ==
  [sup |-> sup, app |-> app, host |-> NoHost, dir |-> c, always |-> e.always, rest |-> e.rest]

\* No other file of the loaded configuration defines c.
Own(e, c) == c \in DOMAIN cfg.source => cfg.source[c] = e.name

\* The outcomes of build for candidate c, which take the loop from a to b.
Skips(a, b) == b.used = a.used /\ b.final = a.final /\ b.ok = FALSE

Keeps(e, x, a, b, c) ==
  /\ Own(e, c) /\ c \in DOMAIN x
  /\ b.used = a.used /\ b.final = With(a.final, c, x[c]) /\ b.ok = FALSE

\* The ports in use when the application_port is looked for
HeldFor(x, a, c, sup) == IF c \in DOMAIN x THEN a.used ELSE [a.used EXCEPT ![sup] = c]

Registers(e, x, a, b, c, sup, app) ==
  /\ Own(e, c) /\ sup # 0 /\ app # 0
  /\ IF c \in DOMAIN x THEN sup = x[c].sup
     ELSE sup = Allocate(a.used, e.sups) /\ (opts.herd => ~HerdConflict(Site(c)))
  /\ IF e.cmd
     THEN app = prints[c] /\ HeldFor(x, a, c, sup)[app] \in {Free, c} /\ app # sup
     ELSE app = IF c \in DOMAIN x THEN x[c].app ELSE Allocate(HeldFor(x, a, c, sup), e.apps)
  /\ b.used = [HeldFor(x, a, c, sup) EXCEPT ![app] = c]
  /\ b.final = With(a.final, c, Project(e, c, sup, app)) /\ b.ok = a.ok

IsAcc(a) == a = [used |-> a.used, final |-> a.final, ok |-> a.ok]

LEMMA BuildOutcome ==
  ASSUME NEW e, NEW x, NEW a, NEW b, NEW c, IsAcc(a), b = Build(e, x, a, c)
  PROVE  /\ IsAcc(b)
         /\ \/ Skips(a, b)
            \/ Keeps(e, x, a, b, c)
            \/ \E sup, app : Registers(e, x, a, b, c, sup, app)
<1> DEFINE known == c \in DOMAIN x
           skip == [a EXCEPT !.ok = FALSE]
           keep == IF known THEN [skip EXCEPT !.final = With(@, c, x[c])] ELSE skip
           Sup == IF known THEN x[c].sup ELSE Allocate(a.used, e.sups)
           Held(s) == IF known THEN a.used ELSE [a.used EXCEPT ![s] = c]
           App(h) == IF e.cmd THEN prints[c] ELSE IF known THEN x[c].app ELSE Allocate(h, e.apps)
           made(s, h, p) == [a EXCEPT !.used = [h EXCEPT ![p] = c],
                                      !.final = With(@, c, Project(e, c, s, p))]
           barred(s) == \/ c \in DOMAIN cfg.source /\ cfg.source[c] # e.name
                        \/ ~known /\ opts.herd /\ HerdConflict(Site(c))
                        \/ s = 0
           unfit(s, h, p) == e.cmd /\ (p = 0 \/ h[p] \notin {Free, c} \/ p = s)
<1>1. PICK s, h, p : s = Sup /\ h = Held(s) /\ p = App(h)
  OBVIOUS
<1>2. b = IF barred(s) THEN skip
          ELSE IF unfit(s, h, p) THEN keep
          ELSE IF p = 0 THEN skip ELSE made(s, h, p)
  BY <1>1, Zenon DEF Build, Project
<1>3. CASE b = skip
  BY <1>3 DEF IsAcc, Skips
<1>4. CASE b = keep /\ known /\ ~barred(s)
  BY <1>4 DEF IsAcc, Keeps, Own
<1>5. CASE b = made(s, h, p) /\ ~barred(s) /\ ~unfit(s, h, p) /\ p # 0
  <2>1. IsAcc(b) /\ b.used = [h EXCEPT ![p] = c] /\ b.ok = a.ok
                 /\ b.final = With(a.final, c, Project(e, c, s, p))
    BY <1>5 DEF IsAcc
  <2>2. h = HeldFor(x, a, c, s)
    BY <1>1 DEF HeldFor
  <2>3. Registers(e, x, a, b, c, s, p)
    BY <1>1, <1>5, <2>1, <2>2 DEF Registers, Own
  <2> QED
    BY <2>1, <2>3
<1> QED
  BY <1>2, <1>3, <1>4, <1>5

\* What sync puts into file f
Sound(f, p) == PortsAreValid(p) /\ p.host = NoHost /\ Allocated(f, p.sup)

\* A project of entry e for n is the one that the file held, or has the rest of
\* the entry's template.
Copies(e, x, n, p) == (n \in DOMAIN x /\ p = x[n]) \/ (p.always = e.always /\ p.rest = e.rest)

\* The loop has made a of entry e, whose file held x.
Making(e, x, a) ==
  /\ IsAcc(a) /\ DOMAIN a.used = 1..MaxPort /\ a.ok \in BOOLEAN
  /\ DOMAIN a.final \subseteq Names \cap trees[e.name]
  /\ a.final = [n \in DOMAIN a.final |-> a.final[n]]
  /\ \A n \in DOMAIN a.final :
       /\ Sound(e.name, a.final[n]) /\ Own(e, n) /\ Copies(e, x, n, a.final[n])
       /\ n \in DOMAIN x \/ (opts.herd => ~HerdConflict(Site(n)))

\* What a loaded proxy entry is like
ProxyEntry(e) == e \in AllEntries /\ EntryIsValid(e) /\ ~IsWildcard(e)

\* An entry that can be reconciled, whose file holds x
Ready(e, x) ==
  /\ ProxyEntry(e) /\ prints \in [Names -> Printed]
  /\ \A n \in DOMAIN x : Sound(e.name, x[n])

\* The ports of a project that is registered, and what becomes of used
NewPorts(e, x, a, b, c, sup, app) ==
  /\ sup \in 1..MaxPort /\ app \in 1..MaxPort /\ sup # app /\ Allocated(e.name, sup)
  /\ c \notin DOMAIN x => a.used[sup] = Free
  /\ c \notin DOMAIN x \/ e.cmd => a.used[app] \in {Free, c}
  /\ DOMAIN b.used = 1..MaxPort
  /\ \A p \in 1..MaxPort :
       b.used[p] = IF p = app \/ (p = sup /\ c \notin DOMAIN x) THEN c ELSE a.used[p]

\* allocate finds a port of the range that nobody has.
LEMMA AllocateFinds ==
  ASSUME NEW u, NEW r, RangeIsValid(r, TRUE), NEW p, p = Allocate(u, r), p # 0
  PROVE  p \in r[1]..r[2] /\ p \in 1..MaxPort /\ u[p] = Free
<1> DEFINE free == {q \in r[1]..r[2] : u[q] = Free}
<1>0. MaxPort \in Nat
  BY PortAssumption
<1>1. r[1] \in 1..MaxPort /\ r[2] \in 1..MaxPort
  BY DEF RangeIsValid, ValidPort
<1>2. free # {} /\ p = CHOOSE q \in free : \A t \in free : q <= t
  BY DEF Allocate
<1>3. free \subseteq Nat
  BY <1>0, <1>1
<1>4. p \in free
  BY <1>2, <1>3, LeastNatural
<1> QED
  BY <1>0, <1>1, <1>4

\* The ports of a project that build registers
LEMMA RegisteredPorts ==
  ASSUME NEW e, NEW x, NEW a, NEW b, NEW c \in Names, NEW sup, NEW app,
         Ready(e, x), DOMAIN a.used = 1..MaxPort,
         Registers(e, x, a, b, c, sup, app)
  PROVE  NewPorts(e, x, a, b, c, sup, app)
<1> USE DEF Ready, NewPorts
<1>0. MaxPort \in Nat /\ c # Free /\ Printed \subseteq 0..MaxPort
  BY PortAssumption, TreesAssumption, PortsAssumption
<1>4. e.cmd => app \in 1..MaxPort /\ app # sup /\ HeldFor(x, a, c, sup)[app] \in {Free, c}
  <2>1. e.cmd => app = prints[c] /\ app # 0 /\ app # sup
                 /\ HeldFor(x, a, c, sup)[app] \in {Free, c}
    BY DEF Registers
  <2>2. prints[c] \in 0..MaxPort
    BY <1>0
  <2> QED
    BY <1>0, <2>1, <2>2
<1>1. RangeIsValid(e.sups, TRUE) /\ e.sups # << >> /\ (~e.cmd => RangeIsValid(e.apps, TRUE))
  BY DEF ProxyEntry, EntryIsValid, RangeIsValid
<1>2. CASE c \in DOMAIN x
  <2>1. sup = x[c].sup /\ Sound(e.name, x[c])
    BY <1>2 DEF Registers
  <2>2. sup \in 1..MaxPort /\ Allocated(e.name, sup) /\ x[c].app \in 1..MaxPort /\ x[c].app # sup
    BY <2>1 DEF Sound, PortsAreValid, ValidPort
  <2>3. HeldFor(x, a, c, sup) = a.used
    BY <1>2 DEF HeldFor
  <2>4. app \in 1..MaxPort /\ app # sup /\ (e.cmd => a.used[app] \in {Free, c})
    <3>1. ~e.cmd => app = x[c].app
      BY <1>2 DEF Registers
    <3> QED
      BY <1>4, <2>2, <2>3, <3>1
  <2>5. b.used = [a.used EXCEPT ![app] = c]
    BY <2>3 DEF Registers
  <2> QED
    BY <1>2, <2>2, <2>4, <2>5
<1>3. CASE c \notin DOMAIN x
  <2>1. sup = Allocate(a.used, e.sups) /\ sup # 0
    BY <1>3 DEF Registers
  <2>2. sup \in e.sups[1]..e.sups[2] /\ sup \in 1..MaxPort /\ a.used[sup] = Free
    BY <1>1, <2>1, AllocateFinds
  <2>3. Allocated(e.name, sup)
    BY <1>1, <2>2 DEF Allocated, ProxyEntry
  <2>4. PICK h : h = [a.used EXCEPT ![sup] = c] /\ h = HeldFor(x, a, c, sup)
    BY <1>3 DEF HeldFor
  <2>5. app \in 1..MaxPort /\ app # sup /\ h[app] \in {Free, c}
    <3>1. CASE e.cmd
      BY <1>4, <2>4, <3>1
    <3>2. CASE ~e.cmd
      <4>1. app = Allocate(h, e.apps) /\ app # 0
        BY <1>3, <2>4, <3>2 DEF Registers
      <4>2. app \in 1..MaxPort /\ h[app] = Free
        BY <1>1, <3>2, <4>1, AllocateFinds
      <4> QED
        BY <1>0, <2>2, <2>4, <4>2
    <3> QED
      BY <3>1, <3>2
  <2>6. b.used = [h EXCEPT ![app] = c]
    BY <2>4 DEF Registers
  <2> QED
    BY <1>3, <2>2, <2>3, <2>4, <2>5, <2>6
<1> QED
  BY <1>2, <1>3

\* With adds one argument to a function.
Adds(f, c, v, g) ==
  /\ DOMAIN g = DOMAIN f \cup {c} /\ g[c] = v
  /\ \A n \in DOMAIN f : n # c => g[n] = f[n]
  /\ g = [n \in DOMAIN g |-> g[n]]

LEMMA WithAdds ==
  ASSUME NEW f, NEW c, NEW v
  PROVE  Adds(f, c, v, With(f, c, v))
BY DEF With, Adds

\* One more project
LEMMA MakingWith ==
  ASSUME NEW e, NEW x, NEW a, NEW b, NEW c \in Names, c \in trees[e.name], NEW p,
         Making(e, x, a), IsAcc(b), DOMAIN b.used = 1..MaxPort, b.ok \in BOOLEAN,
         b.final = With(a.final, c, p), Sound(e.name, p), Own(e, c), Copies(e, x, c, p),
         c \in DOMAIN x \/ (opts.herd => ~HerdConflict(Site(c)))
  PROVE  Making(e, x, b)
<1>1. Adds(a.final, c, p, b.final)
  BY WithAdds
<1> USE DEF Adds
<1>2. DOMAIN b.final \subseteq Names \cap trees[e.name]
  BY <1>1 DEF Making
<1>3. ASSUME NEW n \in DOMAIN b.final
      PROVE  /\ Sound(e.name, b.final[n]) /\ Own(e, n) /\ Copies(e, x, n, b.final[n])
             /\ n \in DOMAIN x \/ (opts.herd => ~HerdConflict(Site(n)))
  <2>1. CASE n = c
    BY Zenon, <1>1, <2>1
  <2>2. CASE n # c
    BY Zenon, <1>1, <1>3, <2>2 DEF Making
  <2> QED
    BY <2>1, <2>2
<1> QED
  BY Zenon, <1>1, <1>2, <1>3 DEF Making

\* One more candidate
LEMMA MakingGoesOn ==
  ASSUME NEW e, NEW x, NEW a, NEW b, NEW c \in Names, c \in trees[e.name],
         Ready(e, x), Making(e, x, a), b = Build(e, x, a, c)
  PROVE  Making(e, x, b)
<1>0. IsAcc(a) /\ DOMAIN a.used = 1..MaxPort /\ a.ok \in BOOLEAN
  BY DEF Making
<1>1. IsAcc(b)
  BY <1>0, BuildOutcome
<1>2. CASE Skips(a, b)
  BY <1>1, <1>2 DEF Making, Skips
<1>3. CASE Keeps(e, x, a, b, c)
  <2>1. /\ b.used = a.used /\ b.ok = FALSE /\ b.final = With(a.final, c, x[c])
        /\ Own(e, c) /\ c \in DOMAIN x /\ Sound(e.name, x[c])
        /\ DOMAIN b.used = 1..MaxPort /\ b.ok \in BOOLEAN /\ Copies(e, x, c, x[c])
    BY <1>0, <1>3 DEF Keeps, Ready, Copies
  <2> QED
    BY <1>1, <2>1, MakingWith
<1>4. ASSUME NEW sup, NEW app, Registers(e, x, a, b, c, sup, app)
      PROVE  Making(e, x, b)
  <2>1. /\ sup \in 1..MaxPort /\ app \in 1..MaxPort /\ sup # app /\ Allocated(e.name, sup)
        /\ DOMAIN b.used = 1..MaxPort
    <3>1. NewPorts(e, x, a, b, c, sup, app)
      BY <1>0, <1>4, RegisteredPorts
    <3> QED
      BY <3>1 DEF NewPorts
  <2>2. /\ b.ok = a.ok /\ b.final = With(a.final, c, Project(e, c, sup, app)) /\ Own(e, c)
        /\ c \in DOMAIN x \/ (opts.herd => ~HerdConflict(Site(c)))
    BY <1>4 DEF Registers
  <2>3. Sound(e.name, Project(e, c, sup, app)) /\ Copies(e, x, c, Project(e, c, sup, app))
    BY <2>1 DEF Sound, Copies, Project, PortsAreValid, ValidPort
  <2> QED
    BY Zenon, <1>0, <1>1, <2>1, <2>2, <2>3, MakingWith
<1> QED
  BY <1>0, <1>2, <1>3, <1>4, BuildOutcome

\* The whole loop
LEMMA EntryIsMade ==
  ASSUME NEW e, NEW x, Ready(e, x), DOMAIN used = 1..MaxPort, ok \in BOOLEAN
  PROVE  Making(e, x, Reconciled(e, x))
<1>1. PICK g : IsLoop(e, x, g)
  BY LoopIsDefined
<1>2. Len(Trees) \in Nat /\ \A i \in 1..Len(Trees) : Trees[i] \in Names
  BY TreesAssumption
<1> DEFINE S == {m \in Nat : m <= Len(Trees) => Making(e, x, g[m])}
<1>3. 0 \in S
  <2>1. Making(e, x, Start)
    BY DEF Making, Start, IsAcc
  <2> QED
    BY <1>1, <2>1 DEF IsLoop
<1>4. ASSUME NEW m \in Nat, m \in S PROVE m + 1 \in S
  <2> SUFFICES ASSUME m + 1 <= Len(Trees) PROVE Making(e, x, g[m + 1])
    OBVIOUS
  <2>1. m + 1 \in 1..Len(Trees) /\ Making(e, x, g[m]) /\ Trees[m + 1] \in Names
    BY <1>2, <1>4
  <2>2. g[m + 1] = Turn(e, x, g[m], m + 1)
    BY <1>1, <2>1 DEF IsLoop
  <2>3. CASE Trees[m + 1] \notin trees[e.name]
    BY <2>1, <2>2, <2>3 DEF Turn
  <2>4. CASE Trees[m + 1] \in trees[e.name]
    BY <2>1, <2>2, <2>4, MakingGoesOn DEF Turn
  <2> QED
    BY <2>3, <2>4
<1>5. Len(Trees) \in S
  BY <1>2, <1>3, <1>4, SetInduction
<1> QED
  BY <1>1, <1>2, <1>5 DEF IsLoop

-----------------------------------------------------------------------------
(* Types, and what a command has loaded *)

\* A port that this program gave away
Ours(p) == p \in 1..MaxPort /\ p # Foreign

\* x is what a projects.d file holds.
IsFragment(x) ==
  /\ IsFiniteSet(DOMAIN x) /\ x = [n \in DOMAIN x |-> x[n]]
  /\ \A n \in DOMAIN x : n # Free /\ PortsAreValid(x[n]) /\ x[n].sup # Foreign

FilesInv ==
  /\ files = [f \in DOMAIN Hand |-> files[f]]
  /\ \A f \in DOMAIN Hand :
       /\ files[f] = [managed |-> files[f].managed, projects |-> files[f].projects]
       /\ files[f].managed \in BOOLEAN
       /\ IsFragment(files[f].projects)
       /\ files[f].managed =>
            \A n \in DOMAIN files[f].projects : n \in Names /\ Sound(f, files[f].projects[n])

IsList(s) == s \in Seq(Range(s))
IsTask(t) == t.kind \in {"proxy", "unproxy"} /\ Ours(t.port)

SitesInv == \A h \in DOMAIN sites : sites[h] \in 0..MaxPort
RecordsInv ==
  /\ \A n \in DOMAIN records : Ours(records[n].sup)
  /\ \A n \in DOMAIN mem : Ours(mem[n].sup)
TasksInv == IsList(tasks) /\ \A i \in DOMAIN tasks : IsTask(tasks[i])

WorldInv == conf \in Confs /\ prints \in [Names -> Printed] /\ edits \in Nat
FlagsInv ==
  /\ ok \in BOOLEAN /\ settled \in BOOLEAN /\ chosen \in BOOLEAN
  /\ pc \in {"idle", "sync", "retire", "remove"}

\* todo is the end of the list of entries.
IsEnd(s, t) ==
  /\ s \in Seq(Range(t)) /\ Len(s) <= Len(t)
  /\ \A i \in 1..Len(s) : s[i] = t[i + Len(t) - Len(s)]

LoadedInv ==
  pc \in {"sync", "retire"} =>
    /\ cfg.entries = conf.entries /\ EntriesAreValid(cfg.entries)
    /\ IsEnd(todo, cfg.entries)
    /\ DOMAIN used = 1..MaxPort

TypesInv ==
  /\ FilesInv /\ SitesInv /\ RecordsInv /\ TasksInv /\ WorldInv /\ FlagsInv /\ LoadedInv

\* What is written next: the projects built for the file of entry e
IsDraft(e, d) ==
  /\ d = <<d[1]>> /\ IsFragment(d[1])
  /\ \A n \in DOMAIN d[1] :
       /\ n \in Names /\ Sound(e.name, d[1][n]) /\ Own(e, n)
       /\ Copies(e, files[e.name].projects, n, d[1][n])

\* A draft is for the first entry to do, and a herd command for the first Herd
\* action, or for that entry.
DraftInv ==
  /\ pc = "idle" => draft = << >> /\ ~chosen
  /\ chosen => tasks # << >> \/ (pc = "sync" /\ todo # << >> /\ IsWildcard(Head(todo)))
  /\ draft # << >> =>
       /\ AtEntry(Head(todo)) /\ ~IsWildcard(Head(todo)) /\ ~chosen
       /\ files[Head(todo).name].managed /\ IsDraft(Head(todo), draft)

\* A sequence over some set is a list.
LEMMA SeqIsList ==
  ASSUME NEW S, NEW s \in Seq(S)
  PROVE  IsList(s) /\ DOMAIN s = 1..Len(s) /\ \A i \in DOMAIN s : s[i] \in S
<1>1. DOMAIN s = 1..Len(s) /\ Len(s) \in Nat /\ \A i \in DOMAIN s : s[i] \in S
  OBVIOUS
<1>2. \A i \in 1..Len(s) : s[i] \in Range(s)
  BY <1>1 DEF Range
<1> QED
  BY <1>1, <1>2 DEF IsList

\* The lists of actions get shorter from the front.
LEMMA TailOfList ==
  ASSUME NEW s, IsList(s), s # << >>
  PROVE  /\ IsList(Tail(s)) /\ 1 \in DOMAIN s /\ Head(s) = s[1]
         /\ Len(s) \in Nat \ {0} /\ DOMAIN s = 1..Len(s)
         /\ Len(Tail(s)) = Len(s) - 1 /\ DOMAIN Tail(s) = 1..(Len(s) - 1)
         /\ \A i \in DOMAIN Tail(s) : i + 1 \in DOMAIN s /\ Tail(s)[i] = s[i + 1]
<1>1. /\ 1 \in DOMAIN s /\ Head(s) = s[1]
      /\ Len(s) \in Nat \ {0} /\ DOMAIN s = 1..Len(s)
      /\ Len(Tail(s)) = Len(s) - 1 /\ DOMAIN Tail(s) = 1..(Len(s) - 1)
      /\ \A i \in DOMAIN Tail(s) : i + 1 \in DOMAIN s /\ Tail(s)[i] = s[i + 1]
      /\ Tail(s) \in Seq(Range(s))
  BY DEF IsList
<1>2. IsList(Tail(s))
  BY <1>1, SeqIsList
<1> QED
  BY <1>1, <1>2

\* The Herd actions of an entry: a proxy for every project of the file, and
\* an unproxy for those that left it.
Proxies(final) == {Task("proxy", n, Site(n), final[n].sup) : n \in DOMAIN final}
Unproxies(x, final) == {Task("unproxy", n, Site(n), x[n].sup) : n \in DOMAIN x \ DOMAIN final}

LEMMA ActionsListed ==
  ASSUME NEW e, NEW final, NEW x, IsFiniteSet(DOMAIN final), IsFiniteSet(DOMAIN x),
         NEW t, t = HerdActions(e, final, x)
  PROVE  /\ t \in Seq(Proxies(final) \cup Unproxies(x, final))
         /\ e.herd # "off" /\ opts.herd => \A n \in DOMAIN final : \E i \in 1..Len(t) :
              t[i] = Task("proxy", n, Site(n), final[n].sup)
<1>1. CASE e.herd = "off" \/ ~opts.herd
  <2>1. t = << >>
    BY <1>1 DEF HerdActions
  <2> QED
    BY <1>1, <2>1
<1>2. CASE ~(e.herd = "off" \/ ~opts.herd)
  <2>1. PICK kept, gone : kept = SetToSeq(DOMAIN final) /\ gone = SetToSeq(DOMAIN x \ DOMAIN final)
    OBVIOUS
  <2>2. IsFiniteSet(DOMAIN x \ DOMAIN final)
    BY FS_Difference
  <2>3. /\ kept \in Seq(DOMAIN final) /\ DOMAIN kept = 1..Len(kept)
        /\ \A n \in DOMAIN final : \E i \in 1..Len(kept) : kept[i] = n
    BY <2>1, SetListed
  <2>4. gone \in Seq(DOMAIN x \ DOMAIN final) /\ DOMAIN gone = 1..Len(gone)
    BY <2>1, <2>2, SetListed
  <2>5. PICK k, g :
          /\ k = [i \in DOMAIN kept |-> Task("proxy", kept[i], Site(kept[i]), final[kept[i]].sup)]
          /\ g = [i \in DOMAIN gone |-> Task("unproxy", gone[i], Site(gone[i]), x[gone[i]].sup)]
    OBVIOUS
  <2>6. t = k \o g
    BY <1>2, <2>1, <2>5 DEF HerdActions
  <2>7. k \in Seq(Proxies(final)) /\ Len(k) = Len(kept)
    <3>1. \A i \in 1..Len(kept) : k[i] \in Proxies(final)
      BY <2>3, <2>5 DEF Proxies
    <3> QED
      BY <2>3, <2>5, <3>1
  <2>8. g \in Seq(Unproxies(x, final)) /\ Len(g) = Len(gone)
    <3>1. \A i \in 1..Len(gone) : g[i] \in Unproxies(x, final)
      BY <2>4, <2>5 DEF Unproxies
    <3> QED
      BY <2>4, <2>5, <3>1
  <2>9. t \in Seq(Proxies(final) \cup Unproxies(x, final)) /\ Len(t) = Len(k) + Len(g)
        /\ \A i \in 1..Len(k) : t[i] = k[i]
    BY <2>6, <2>7, <2>8
  <2>10. ASSUME NEW n \in DOMAIN final
         PROVE  \E i \in 1..Len(t) : t[i] = Task("proxy", n, Site(n), final[n].sup)
    <3>1. PICK i \in 1..Len(kept) : kept[i] = n
      BY <2>3
    <3>2. i \in 1..Len(k) /\ k[i] = Task("proxy", n, Site(n), final[n].sup)
      BY <2>3, <2>5, <2>7, <3>1
    <3> QED
      BY <2>7, <2>8, <2>9, <3>2
  <2> QED
    BY <2>9, <2>10
<1> QED
  BY <1>1, <1>2

LEMMA InitTypes == Init => TypesInv
<1> SUFFICES ASSUME Init PROVE TypesInv
  OBVIOUS
<1>0. << >> \in Seq({}) /\ DOMAIN << >> = {}
  OBVIOUS
<1>1. FilesInv
  <2>1. files = Hand /\ Hand = [f \in DOMAIN Hand |-> Hand[f]]
    BY HandAssumption DEF Init
  <2>2. ASSUME NEW f \in DOMAIN Hand
        PROVE  /\ Hand[f] = [managed |-> Hand[f].managed, projects |-> Hand[f].projects]
               /\ Hand[f].managed \in BOOLEAN
               /\ IsFragment(Hand[f].projects)
               /\ Hand[f].managed =>
                    \A n \in DOMAIN Hand[f].projects : n \in Names /\ Sound(f, Hand[f].projects[n])
    <3>1. PICK ps : ps = Hand[f].projects
      OBVIOUS
    <3>2. /\ Hand[f] \in [managed : BOOLEAN, projects : {ps}]
          /\ IsFiniteSet(DOMAIN ps) /\ ps \in [DOMAIN ps -> Range(ps)]
          /\ \A n \in DOMAIN ps :
               /\ n # Free /\ PortsAreValid(ps[n]) /\ ps[n].sup # Foreign
               /\ Hand[f].managed =>
                    n \in Names /\ ps[n].host = NoHost /\ Allocated(f, ps[n].sup)
      BY <2>2, <3>1, HandAssumption, PortsAssumption
    <3>3. /\ Hand[f] = [managed |-> Hand[f].managed, projects |-> Hand[f].projects]
          /\ Hand[f].managed \in BOOLEAN
      BY <3>2
    <3>4. IsFragment(ps)
      BY <3>2 DEF IsFragment
    <3> QED
      BY <3>1, <3>2, <3>3, <3>4 DEF Sound
  <2> QED
    BY <2>1, <2>2 DEF FilesInv
<1>2. SitesInv /\ RecordsInv
  BY <1>0 DEF Init, SitesInv, RecordsInv
<1>3. TasksInv
  BY <1>0, SeqIsList DEF Init, TasksInv
<1>4. WorldInv
  BY ConfsAssumption DEF Init, WorldInv
<1>5. FlagsInv /\ LoadedInv
  BY DEF Init, FlagsInv, LoadedInv
<1> QED
  BY <1>1, <1>2, <1>3, <1>4, <1>5 DEF TypesInv

\* The entries of a loaded configuration
LEMMA EntryIsLoaded ==
  ASSUME TypesInv, NEW e, AtEntry(e)
  PROVE  /\ e \in AllEntries /\ EntryIsValid(e) /\ (~IsWildcard(e) => e.name \in DOMAIN Hand)
         /\ IsWildcard(e) => Ours(e.sup)
         /\ \E i \in DOMAIN cfg.entries : e = cfg.entries[i] /\ i = Len(cfg.entries) - Len(todo) + 1
         /\ Len(todo) \in Nat \ {0} /\ Len(Tail(todo)) = Len(todo) - 1
         /\ IsEnd(Tail(todo), cfg.entries)
<1>1. /\ conf \in Confs /\ cfg.entries = conf.entries /\ EntriesAreValid(cfg.entries)
      /\ todo # << >> /\ e = Head(todo) /\ IsEnd(todo, cfg.entries)
  BY DEF TypesInv, WorldInv, LoadedInv, AtEntry
<1>2. PICK s, t : s = todo /\ t = cfg.entries
  OBVIOUS
<1>3. t \in Seq(Range(t))
  BY <1>1, <1>2, ConfsAssumption
<1>4. /\ s \in Seq(Range(t)) /\ Len(s) <= Len(t) /\ s # << >> /\ e = Head(s)
      /\ \A i \in 1..Len(s) : s[i] = t[i + Len(t) - Len(s)]
  BY <1>1, <1>2 DEF IsEnd
<1>5. /\ Len(s) \in Nat \ {0} /\ Len(t) \in Nat /\ DOMAIN t = 1..Len(t) /\ e = s[1]
      /\ Tail(s) \in Seq(Range(t)) /\ Len(Tail(s)) = Len(s) - 1
      /\ \A i \in 1..(Len(s) - 1) : Tail(s)[i] = s[i + 1]
  BY <1>3, <1>4
<1>6. /\ Len(t) - Len(s) + 1 \in DOMAIN t /\ e = t[Len(t) - Len(s) + 1]
  BY <1>4, <1>5
<1>7. IsEnd(Tail(s), t)
  <2>1. \A i \in 1..Len(Tail(s)) : Tail(s)[i] = t[i + Len(t) - Len(Tail(s))]
    BY <1>4, <1>5
  <2> QED
    BY <1>4, <1>5, <2>1 DEF IsEnd
<1>8. e \in AllEntries /\ EntryIsValid(e)
  BY <1>1, <1>2, <1>6 DEF AllEntries, Range, EntriesAreValid
<1>9. IsWildcard(e) => Ours(e.sup)
  BY <1>8, PortsAssumption DEF EntryIsValid, Ours, ValidPort
<1> QED
  BY <1>2, <1>5, <1>6, <1>7, <1>8, <1>9, ConfsAssumption

\* What syncEntry computes
LEMMA EntryResult ==
  ASSUME TypesInv, NEW e, AtEntry(e), ~IsWildcard(e), files[e.name].managed,
         NEW x, x = files[e.name].projects, NEW d, d = Reconciled(e, x)
  PROVE  /\ Ready(e, x) /\ Making(e, x, d) /\ IsFragment(x)
         /\ IsFragment(d.final)
         /\ \A n \in DOMAIN d.final : n \in Names /\ Sound(e.name, d.final[n])
<1>1. ProxyEntry(e) /\ e.name \in DOMAIN Hand
  BY EntryIsLoaded DEF ProxyEntry
<1>2. Ready(e, x) /\ IsFragment(x)
  BY <1>1 DEF Ready, TypesInv, WorldInv, FilesInv
<1>3. DOMAIN used = 1..MaxPort /\ ok \in BOOLEAN
  BY DEF TypesInv, LoadedInv, FlagsInv, AtEntry
<1>4. Making(e, x, d)
  BY <1>2, <1>3, EntryIsMade
<1>5. IsFiniteSet(DOMAIN d.final)
  <2>1. IsFiniteSet(Names)
    <3>1. Trees \in Seq(Names) /\ Len(Trees) \in Nat
      BY TreesAssumption
    <3>2. Trees \in Surjection(1..Len(Trees), Names)
      BY <3>1 DEF Surjection, Names, Range
    <3>3. IsFiniteSet(1..Len(Trees))
      BY <3>1, FS_Interval
    <3> QED
      BY <3>2, <3>3, FS_Surjection
  <2>2. DOMAIN d.final \subseteq Names
    BY <1>4 DEF Making
  <2> QED
    BY <2>1, <2>2, FS_Subset
<1>6. \A n \in DOMAIN d.final : n \in Names /\ Sound(e.name, d.final[n])
  BY <1>4 DEF Making
<1>7. \A n \in DOMAIN d.final :
        n # Free /\ PortsAreValid(d.final[n]) /\ d.final[n].sup # Foreign
  <2>1. \A n \in DOMAIN d.final : n # Free
    BY <1>4, TreesAssumption DEF Making
  <2> QED
    BY <1>1, <1>6, <2>1, PortsAssumption DEF Sound, ProxyEntry
<1>8. d.final = [n \in DOMAIN d.final |-> d.final[n]]
  BY <1>4 DEF Making
<1> QED
  BY <1>2, <1>4, <1>5, <1>6, <1>7, <1>8 DEF IsFragment

\* syncEntry, up to the write
LEMMA SyncBuildsTypes ==
  ASSUME TypesInv, NEW e, SyncBuilds(e)
  PROVE  TypesInv'
<1> DEFINE x == files[e.name].projects
           d == Reconciled(e, x)
<1>0. /\ AtEntry(e) /\ ~IsWildcard(e) /\ pc = "sync"
      /\ UNCHANGED <<files, records, sites, conf, prints, edits, pc, cfg, tasks, chosen, mem, settled>>
  BY DEF SyncBuilds, AtEntry, disk, outside
<1>1. CASE files[e.name].managed /\ used' = d.used /\ ok' = d.ok /\ UNCHANGED todo
  <2>1. Making(e, x, d)
    BY <1>0, <1>1, EntryResult
  <2>2. DOMAIN used' = 1..MaxPort /\ ok' \in BOOLEAN
    BY <1>1, <2>1 DEF Making
  <2> HIDE DEF d, x
  <2> QED
    BY <1>0, <1>1, <2>2 DEF TypesInv, FilesInv, SitesInv, RecordsInv, TasksInv, WorldInv, FlagsInv,
       LoadedInv
<1>2. CASE ok' = FALSE /\ todo' = Tail(todo) /\ UNCHANGED used
  <2>1. IsEnd(Tail(todo), cfg.entries)
    BY <1>0, EntryIsLoaded
  <2> HIDE DEF d, x
  <2> QED
    BY <1>0, <1>2, <2>1 DEF TypesInv, FilesInv, SitesInv, RecordsInv, TasksInv, WorldInv, FlagsInv,
       LoadedInv
<1> HIDE DEF x, d
<1> QED
  BY <1>1, <1>2 DEF SyncBuilds, x, d

\* What has been built for an entry
LEMMA DraftIs ==
  ASSUME TypesInv, DraftInv, NEW e, SyncWrites(e)
  PROVE  /\ AtEntry(e) /\ ~IsWildcard(e) /\ pc = "sync" /\ tasks = << >> /\ todo # << >>
         /\ e = Head(todo) /\ e.name \in DOMAIN Hand /\ files[e.name].managed
         /\ IsDraft(e, draft) /\ IsFragment(files[e.name].projects)
<1>1. AtEntry(e) /\ draft # << >> /\ e = Head(todo)
  BY DEF SyncWrites, AtEntry
<1>2. ~IsWildcard(e) /\ files[e.name].managed /\ IsDraft(e, draft)
  BY <1>1 DEF DraftInv
<1>3. e.name \in DOMAIN Hand
  BY <1>1, <1>2, EntryIsLoaded
<1> QED
  BY <1>1, <1>2, <1>3 DEF AtEntry, TypesInv, FilesInv

\* One file is rewritten.
LEMMA WrittenFiles ==
  ASSUME FilesInv, NEW f \in DOMAIN Hand, NEW ps, files' = Written(f, ps)
  PROVE  /\ files' = [g \in DOMAIN Hand |-> files'[g]]
         /\ files'[f] = [managed |-> TRUE, projects |-> ps]
         /\ files'[f].projects = ps /\ files'[f].managed
         /\ \A g \in DOMAIN Hand \ {f} : files'[g] = files[g]
<1>1. PICK w : w = [managed |-> TRUE, projects |-> ps]
  OBVIOUS
<1>2. files' = [files EXCEPT ![f] = w]
  BY <1>1 DEF Written
<1>3. files = [g \in DOMAIN Hand |-> files[g]]
  BY DEF FilesInv
<1>4. files' = [g \in DOMAIN Hand |-> IF g = f THEN w ELSE files[g]]
  BY <1>2, <1>3
<1>5. files'[f] = w /\ (\A g \in DOMAIN Hand \ {f} : files'[g] = files[g])
      /\ files' = [g \in DOMAIN Hand |-> files'[g]]
  BY <1>4
<1>6. w.managed = TRUE /\ w.projects = ps
  BY <1>1
<1> QED
  BY <1>1, <1>5, <1>6

\* The write
LEMMA SyncWritesTypes ==
  ASSUME TypesInv, DraftInv, NEW e, SyncWrites(e)
  PROVE  TypesInv'
<1>0. /\ AtEntry(e) /\ pc = "sync" /\ todo' = Tail(todo) /\ chosen' = FALSE
      /\ UNCHANGED <<records, sites, conf, prints, edits, pc, cfg, used, mem, settled>>
  BY DEF SyncWrites, AtEntry, outside, Ran
<1>1. PICK f, x, p : f = e.name /\ x = files[f].projects /\ p = draft[1]
  OBVIOUS
<1>2. /\ f \in DOMAIN Hand /\ files[f].managed /\ IsEnd(Tail(todo), cfg.entries)
      /\ IsFragment(x) /\ IsFragment(p) /\ \A n \in DOMAIN p : n \in Names /\ Sound(f, p[n])
  BY <1>0, <1>1, DraftIs, EntryIsLoaded DEF IsDraft
<1>3. /\ files' = files \/ files' = Written(f, p)
      /\ tasks' = tasks \/ tasks' = HerdActions(e, p, x)
      /\ ok' \in {ok, FALSE}
  BY <1>1 DEF SyncWrites
<1>4. FilesInv'
  <2>1. CASE files' = files
    BY <2>1 DEF TypesInv, FilesInv
  <2>2. CASE files' = Written(f, p)
    <3>1. /\ files' = [g \in DOMAIN Hand |-> files'[g]]
          /\ files'[f] = [managed |-> TRUE, projects |-> p]
          /\ files'[f].projects = p /\ files'[f].managed
          /\ \A g \in DOMAIN Hand \ {f} : files'[g] = files[g]
      BY <1>2, <2>2, WrittenFiles DEF TypesInv
    <3>2. files'[f] = [managed |-> files'[f].managed, projects |-> files'[f].projects]
          /\ files'[f].managed \in BOOLEAN
      BY <3>1
    <3> QED
      BY <1>2, <3>1, <3>2 DEF TypesInv, FilesInv
  <2> QED
    BY <1>3, <2>1, <2>2
<1>5. TasksInv'
  <2>1. CASE tasks' = tasks
    BY <2>1 DEF TypesInv, TasksInv
  <2>2. CASE tasks' = HerdActions(e, p, x)
    <3>1. tasks' \in Seq(Proxies(p) \cup Unproxies(x, p))
      BY <1>2, <2>2, ActionsListed DEF IsFragment
    <3>2. \A t \in Proxies(p) \cup Unproxies(x, p) : IsTask(t)
      <4>1. /\ \A n \in DOMAIN p : Ours(p[n].sup)
            /\ \A n \in DOMAIN x : Ours(x[n].sup)
        BY <1>2 DEF Ours, IsFragment, PortsAreValid, ValidPort
      <4>2. \A t \in Proxies(p) : IsTask(t)
        BY <4>1 DEF Proxies, Task, IsTask
      <4>3. \A t \in Unproxies(x, p) : IsTask(t)
        BY <4>1 DEF Unproxies, Task, IsTask
      <4> QED
        BY <4>2, <4>3
    <3> QED
      BY <3>1, <3>2, SeqIsList DEF TasksInv
  <2> QED
    BY <1>3, <2>1, <2>2
<1>6. ok' \in BOOLEAN
  BY <1>3 DEF TypesInv, FlagsInv
<1> QED
  BY <1>0, <1>2, <1>4, <1>5, <1>6 DEF TypesInv, SitesInv, RecordsInv, WorldInv, FlagsInv, LoadedInv

LEMMA SitesWith ==
  ASSUME SitesInv, NEW h, NEW p \in 0..MaxPort
  PROVE  /\ \A g \in DOMAIN With(sites, h, p) : With(sites, h, p)[g] \in 0..MaxPort
         /\ \A g \in DOMAIN Without(sites, h) : Without(sites, h)[g] \in 0..MaxPort
BY DEF SitesInv, With, Without

-----------------------------------------------------------------------------
(* What a command sees and what it runs *)

LEMMA Verdicts ==
  ASSUME NEW h, NEW p
  PROVE  /\ ProxyVerdict(h, p) \in {"manual", "skipped", "run"}
         /\ ProxyVerdict(h, p) = "skipped" => ProxiesTo(h, p)
         /\ ProxyVerdict(h, p) = "run" => ~NotProxy(h) /\ ~ProxiesTo(h, p)
         /\ UnproxyVerdict(h, p) \in {"manual", "skipped", "run"}
         /\ UnproxyVerdict(h, p) = "skipped" => ~ProxiesTo(h, p)
         /\ UnproxyVerdict(h, p) = "run" => ProxiesTo(h, p)
BY DEF ProxyVerdict, UnproxyVerdict

\* A herd command
LEMMA HerdRan ==
  ASSUME NEW r, RunHerd(r), ok \in BOOLEAN
  PROVE  /\ sites' \in {sites, r} /\ ok' \in BOOLEAN /\ (ok' => ok)
         /\ ok' /\ ~opts.dry => sites' = r
<1>1. sites' \in {sites, r}
  BY DEF RunHerd, HerdDone, HerdFails
<1>2. ok' \in BOOLEAN
  BY Zenon DEF RunHerd, HerdDone, HerdFails
<1>3. (ok' => ok) /\ (ok' /\ ~opts.dry => sites' = r)
  BY DEF RunHerd, HerdDone, HerdFails
<1> QED
  BY <1>1, <1>2, <1>3

\* A look is the end of an action, or the reason for a command.
LEMMA SiteLooked ==
  ASSUME NEW v, Looked(v), ok \in BOOLEAN
  PROVE  /\ chosen' \in BOOLEAN /\ (chosen' <=> v = "run")
         /\ ok' \in BOOLEAN /\ (ok' => ok) /\ (ok' => v # "manual")
BY DEF Looked

LEMMA ActionLooked ==
  ASSUME HerdLooks, ok \in BOOLEAN, NEW t, t = Head(tasks)
  PROVE  /\ chosen' \in BOOLEAN /\ ok' \in BOOLEAN /\ (ok' => ok)
         /\ \/ chosen' /\ UNCHANGED tasks
            \/ ~chosen' /\ tasks' = Tail(tasks)
         /\ IF t.kind = "proxy"
            THEN /\ chosen' => ~NotProxy(t.site) /\ ~ProxiesTo(t.site, t.port)
                 /\ ok' /\ ~chosen' => ProxiesTo(t.site, t.port)
            ELSE chosen' => ProxiesTo(t.site, t.port)
<1>1. PICK v : v = Verdict(t)
  OBVIOUS
<1>2. Looked(v) /\ tasks' = IF v = "run" THEN tasks ELSE Tail(tasks)
  BY <1>1 DEF HerdLooks
<1>3. /\ chosen' \in BOOLEAN /\ (chosen' <=> v = "run")
      /\ ok' \in BOOLEAN /\ (ok' => ok) /\ (ok' => v # "manual")
  BY <1>2, SiteLooked
<1>4. v \in {"manual", "skipped", "run"}
      /\ IF t.kind = "proxy"
         THEN /\ v = "skipped" => ProxiesTo(t.site, t.port)
              /\ v = "run" => ~NotProxy(t.site) /\ ~ProxiesTo(t.site, t.port)
         ELSE v = "run" => ProxiesTo(t.site, t.port)
  BY <1>1, Verdicts DEF Verdict
<1> QED
  BY <1>2, <1>3, <1>4

LEMMA ActionRan ==
  ASSUME HerdRuns, ok \in BOOLEAN, NEW t, t = Head(tasks)
  PROVE  /\ chosen' = FALSE /\ ok' \in BOOLEAN /\ (ok' => ok) /\ tasks' = Tail(tasks)
         /\ IF t.kind = "proxy"
            THEN /\ sites' \in {sites, With(sites, t.site, t.port)}
                 /\ ok' /\ ~opts.dry => sites' = With(sites, t.site, t.port)
            ELSE sites' \in {sites, Without(sites, t.site)}
<1>1. PICK r : r = Outcome(t)
  OBVIOUS
<1>2. RunHerd(r) /\ tasks' = Tail(tasks) /\ chosen' = FALSE
  BY <1>1 DEF HerdRuns, Ran
<1>3. r = IF t.kind = "proxy" THEN With(sites, t.site, t.port) ELSE Without(sites, t.site)
  BY <1>1 DEF Outcome
<1>4. /\ sites' \in {sites, r} /\ ok' \in BOOLEAN /\ (ok' => ok)
      /\ ok' /\ ~opts.dry => sites' = r
  BY <1>2, HerdRan
<1> QED
  BY <1>2, <1>3, <1>4

LEMMA ClaimLooked ==
  ASSUME NEW e, ClaimLooks(e), ok \in BOOLEAN
  PROVE  /\ chosen' \in BOOLEAN /\ ok' \in BOOLEAN /\ (ok' => ok)
         /\ \/ /\ chosen' /\ UNCHANGED <<todo, mem>>
               /\ ~NotProxy(e.base) /\ ~ProxiesTo(e.base, e.sup)
               /\ e.herd # "off" /\ opts.herd
            \/ /\ ~chosen' /\ todo' = Tail(todo) /\ UNCHANGED mem
               /\ ok' /\ opts.herd => e.herd = "off"
            \/ /\ ~chosen' /\ todo' = Tail(todo) /\ mem' = Recorded(e)
               /\ ProxiesTo(e.base, e.sup)
<1>1. PICK v : v = ClaimVerdict(e)
  OBVIOUS
<1>2. /\ Looked(v) /\ todo' = IF v = "run" THEN todo ELSE Tail(todo)
      /\ mem' = IF v = "skipped" THEN Recorded(e) ELSE mem
  BY <1>1 DEF ClaimLooks
<1>3. /\ chosen' \in BOOLEAN /\ (chosen' <=> v = "run")
      /\ ok' \in BOOLEAN /\ (ok' => ok) /\ (ok' => v # "manual")
  BY <1>2, SiteLooked
<1>4. \/ v = "off" /\ (opts.herd => e.herd = "off")
      \/ v = "manual"
      \/ v = ProxyVerdict(e.base, e.sup) /\ e.herd # "off" /\ opts.herd
  BY <1>1 DEF ClaimVerdict
<1>5. \/ v = "off" /\ (opts.herd => e.herd = "off")
      \/ v = "manual"
      \/ v = "skipped" /\ ProxiesTo(e.base, e.sup)
      \/ v = "run" /\ ~NotProxy(e.base) /\ ~ProxiesTo(e.base, e.sup) /\ e.herd # "off" /\ opts.herd
  BY <1>4, Verdicts
<1> QED
  BY <1>2, <1>3, <1>5

LEMMA ClaimRan ==
  ASSUME NEW e, ClaimRuns(e), ok \in BOOLEAN
  PROVE  /\ chosen' = FALSE /\ ok' \in BOOLEAN /\ (ok' => ok) /\ todo' = Tail(todo)
         /\ sites' \in {sites, With(sites, e.base, e.sup)}
         /\ mem' \in {mem, Recorded(e)}
         /\ ok' => mem' = Recorded(e)
         /\ ok' /\ ~opts.dry => sites' = With(sites, e.base, e.sup)
<1>1. PICK r : r = With(sites, e.base, e.sup)
  OBVIOUS
<1>2. /\ \/ HerdDone(r) /\ mem' = Recorded(e)
         \/ HerdFails(r) /\ UNCHANGED mem
      /\ todo' = Tail(todo) /\ chosen' = FALSE
  BY <1>1 DEF ClaimRuns, Ran
<1>3. RunHerd(r) /\ mem' \in {mem, Recorded(e)} /\ (ok' => mem' = Recorded(e))
  BY <1>2 DEF RunHerd, HerdFails
<1>4. /\ sites' \in {sites, r} /\ ok' \in BOOLEAN /\ (ok' => ok)
      /\ ok' /\ ~opts.dry => sites' = r
  BY <1>3, HerdRan
<1> QED
  BY <1>1, <1>2, <1>3, <1>4

LEMMA RetireLooked ==
  ASSUME RetireLooks, ok \in BOOLEAN, NEW t, t = Head(tasks)
  PROVE  /\ chosen' \in BOOLEAN /\ ok' \in BOOLEAN /\ (ok' => ok)
         /\ \/ chosen' /\ UNCHANGED <<tasks, mem>> /\ ProxiesTo(t.site, t.port)
            \/ /\ ~chosen' /\ tasks' = Tail(tasks) /\ mem' \in {mem, Forgotten(t.name)}
               /\ ok' => ~ProxiesTo(t.site, t.port) /\ mem' = Forgotten(t.name)
<1>1. PICK v : v = IF opts.herd THEN UnproxyVerdict(t.site, t.port) ELSE "manual"
  OBVIOUS
<1>2. /\ Looked(v) /\ tasks' = IF v = "run" THEN tasks ELSE Tail(tasks)
      /\ mem' = IF v = "skipped" THEN Forgotten(t.name) ELSE mem
  BY <1>1 DEF RetireLooks
<1>3. /\ chosen' \in BOOLEAN /\ (chosen' <=> v = "run")
      /\ ok' \in BOOLEAN /\ (ok' => ok) /\ (ok' => v # "manual")
  BY <1>2, SiteLooked
<1>4. /\ v \in {"manual", "skipped", "run"}
      /\ v = "skipped" => ~ProxiesTo(t.site, t.port)
      /\ v = "run" => ProxiesTo(t.site, t.port)
  BY <1>1, Verdicts
<1> QED
  BY <1>2, <1>3, <1>4

LEMMA RetireRan ==
  ASSUME RetireRuns, ok \in BOOLEAN, NEW t, t = Head(tasks)
  PROVE  /\ chosen' = FALSE /\ ok' \in BOOLEAN /\ (ok' => ok) /\ tasks' = Tail(tasks)
         /\ sites' \in {sites, Without(sites, t.site)}
         /\ mem' \in {mem, Forgotten(t.name)}
         /\ ok' /\ ~opts.dry => sites' = Without(sites, t.site) /\ mem' = Forgotten(t.name)
<1>1. PICK r : r = Without(sites, t.site)
  OBVIOUS
<1>2. /\ \/ HerdDone(r) /\ mem' = IF opts.dry THEN mem ELSE Forgotten(t.name)
         \/ HerdFails(r) /\ UNCHANGED mem
      /\ tasks' = Tail(tasks) /\ chosen' = FALSE
  BY <1>1 DEF RetireRuns, Ran
<1>3. /\ RunHerd(r) /\ mem' \in {mem, Forgotten(t.name)}
      /\ ok' /\ ~opts.dry => mem' = Forgotten(t.name)
  BY <1>2 DEF RunHerd, HerdFails
<1>4. /\ sites' \in {sites, r} /\ ok' \in BOOLEAN /\ (ok' => ok)
      /\ ok' /\ ~opts.dry => sites' = r
  BY <1>3, HerdRan
<1> QED
  BY <1>1, <1>2, <1>3, <1>4

-----------------------------------------------------------------------------
(* Types, after a step *)

\* syncWildcard
LEMMA ClaimTypes ==
  ASSUME TypesInv, NEW e, ClaimLooks(e) \/ ClaimRuns(e)
  PROVE  TypesInv'
<1>0. /\ AtEntry(e) /\ IsWildcard(e) /\ ok \in BOOLEAN
      /\ UNCHANGED <<files, records, conf, prints, edits, pc, cfg, used, tasks, settled>>
  BY DEF ClaimLooks, ClaimRuns, disk, outside, TypesInv, FlagsInv
<1>1. Ours(e.sup) /\ IsEnd(Tail(todo), cfg.entries)
  BY <1>0, EntryIsLoaded
<1>2. /\ todo' \in {todo, Tail(todo)} /\ mem' \in {mem, Recorded(e)}
      /\ ok' \in BOOLEAN /\ chosen' \in BOOLEAN
  BY <1>0, ClaimLooked, ClaimRan
<1>3. sites' \in {sites, With(sites, e.base, e.sup)}
  BY <1>0, ClaimRan DEF ClaimLooks
<1>4. SitesInv'
  <2>1. SitesInv /\ e.sup \in 0..MaxPort
    BY <1>1 DEF TypesInv, Ours
  <2> QED
    BY <1>3, <2>1, SitesWith DEF SitesInv
<1>5. RecordsInv'
  BY <1>0, <1>1, <1>2 DEF TypesInv, RecordsInv, Recorded, With
<1>6. LoadedInv'
  BY <1>0, <1>1, <1>2 DEF TypesInv, LoadedInv
<1> QED
  BY <1>0, <1>2, <1>4, <1>5, <1>6 DEF TypesInv, FilesInv, TasksInv, WorldInv, FlagsInv

\* The actions still to take
LEMMA TasksGoOn ==
  ASSUME TasksInv, tasks # << >>, tasks' \in {tasks, Tail(tasks)}
  PROVE  IsTask(Head(tasks)) /\ TasksInv'
<1>1. /\ IsList(tasks) /\ IsList(Tail(tasks)) /\ IsTask(Head(tasks))
      /\ \A i \in DOMAIN Tail(tasks) : IsTask(Tail(tasks)[i])
  BY TailOfList DEF TasksInv
<1>2. CASE tasks' = tasks
  BY <1>2 DEF TasksInv
<1>3. CASE tasks' = Tail(tasks)
  BY <1>1, <1>3 DEF TasksInv
<1> QED
  BY <1>1, <1>2, <1>3

\* The Herd actions of an entry
LEMMA ActionTypes ==
  ASSUME TypesInv, HerdLooks \/ HerdRuns
  PROVE  TypesInv'
<1>0. /\ tasks # << >> /\ ok \in BOOLEAN
      /\ UNCHANGED <<files, records, conf, prints, edits, pc, cfg, used, todo, mem, settled>>
  BY DEF HerdLooks, HerdRuns, disk, outside, TypesInv, FlagsInv
<1>1. PICK t : t = Head(tasks)
  OBVIOUS
<1>2. tasks' \in {tasks, Tail(tasks)} /\ ok' \in BOOLEAN /\ chosen' \in BOOLEAN
  BY <1>0, <1>1, ActionLooked, ActionRan
<1>3. IsTask(t) /\ TasksInv'
  BY <1>0, <1>1, <1>2, TasksGoOn DEF TypesInv
<1>4. sites' \in {sites, With(sites, t.site, t.port), Without(sites, t.site)}
  BY <1>0, <1>1, ActionRan DEF HerdLooks
<1>5. SitesInv'
  <2>1. SitesInv /\ t.port \in 0..MaxPort
    BY <1>3 DEF TypesInv, IsTask, Ours
  <2> QED
    BY <1>4, <2>1, SitesWith DEF SitesInv
<1> QED
  BY <1>0, <1>2, <1>3, <1>5 DEF TypesInv, FilesInv, RecordsInv, WorldInv, FlagsInv, LoadedInv

\* retireWildcards
LEMMA RetireBeginsTypes ==
  ASSUME TypesInv, RecordIsFinite, RetireBegins
  PROVE  TypesInv'
<1> DEFINE ns == SetToSeq(Retirable)
           task(i) == Task("unproxy", ns[i], records[ns[i]].base, records[ns[i]].sup)
<1>0. /\ pc = "sync" /\ pc' = "retire"
      /\ UNCHANGED <<files, records, sites, conf, prints, edits, cfg, used, todo, mem>>
      /\ UNCHANGED <<ok, settled, chosen>>
  BY DEF RetireBegins, disk, outside
<1>1. IsFiniteSet(Retirable)
  <2>1. Retirable \subseteq DOMAIN records
    BY DEF Retirable
  <2> QED
    BY <2>1, FS_Subset DEF RecordIsFinite
<1>2. ns \in Seq(Retirable) /\ DOMAIN ns = 1..Len(ns)
  BY <1>1, SetListed
<1>3. tasks' = [i \in 1..Len(ns) |-> task(i)]
  BY <1>2 DEF RetireBegins
<1> HIDE DEF ns
<1>4. \A i \in 1..Len(ns) : IsTask(task(i)) /\ task(i) \in Retirements
  BY <1>2 DEF TypesInv, RecordsInv, Task, IsTask, Retirable, Retirements
<1>5. tasks' \in Seq(Retirements) /\ \A i \in DOMAIN tasks' : IsTask(tasks'[i])
  BY <1>2, <1>3, <1>4
<1>6. TasksInv'
  BY <1>5, SeqIsList DEF TasksInv
<1> QED
  BY <1>0, <1>6 DEF TypesInv, FilesInv, SitesInv, RecordsInv, WorldInv, FlagsInv, LoadedInv

LEMMA RetireTypes ==
  ASSUME TypesInv, RetireLooks \/ RetireRuns
  PROVE  TypesInv'
<1>0. /\ tasks # << >> /\ ok \in BOOLEAN
      /\ UNCHANGED <<files, records, conf, prints, edits, pc, cfg, used, todo, settled>>
  BY DEF RetireLooks, RetireRuns, disk, outside, TypesInv, FlagsInv
<1>1. PICK t : t = Head(tasks)
  OBVIOUS
<1>2. /\ tasks' \in {tasks, Tail(tasks)} /\ mem' \in {mem, Forgotten(t.name)}
      /\ ok' \in BOOLEAN /\ chosen' \in BOOLEAN
  BY <1>0, <1>1, RetireLooked, RetireRan
<1>3. TasksInv'
  BY <1>0, <1>2, TasksGoOn DEF TypesInv
<1>4. sites' \in {sites, Without(sites, t.site)}
  BY <1>0, <1>1, RetireRan DEF RetireLooks
<1>5. SitesInv'
  BY <1>4 DEF TypesInv, SitesInv, Without
<1>6. RecordsInv'
  BY <1>0, <1>2 DEF TypesInv, RecordsInv, Forgotten, Without
<1> QED
  BY <1>0, <1>2, <1>3, <1>5, <1>6 DEF TypesInv, FilesInv, WorldInv, FlagsInv, LoadedInv

\* runSync finds a configuration that loads.
LEMMA SyncBeginsTypes ==
  ASSUME TypesInv, SyncBegins
  PROVE  TypesInv'
<1>0. /\ pc' = "sync" /\ todo' = conf.entries /\ mem' = records /\ ok' = TRUE
      /\ UNCHANGED <<files, records, sites, conf, prints, edits, tasks, chosen, settled>>
  BY DEF SyncBegins, disk, outside
<1>1. cfg'.entries = conf.entries /\ DOMAIN used' = 1..MaxPort /\ EntriesAreValid(conf.entries)
  BY DEF SyncBegins, Used, ConfigLoads, Loads, IsValid
<1>2. IsEnd(conf.entries, conf.entries)
  <2>1. PICK t : t = conf.entries
    OBVIOUS
  <2>2. t \in Seq(Range(t))
    BY <2>1, ConfsAssumption DEF TypesInv, WorldInv
  <2>3. IsEnd(t, t)
    BY <2>2 DEF IsEnd
  <2> QED
    BY <2>1, <2>3
<1> QED
  BY <1>0, <1>1, <1>2 DEF TypesInv, FilesInv, SitesInv, RecordsInv, TasksInv, WorldInv, FlagsInv,
     LoadedInv

\* The end of a command
LEMMA CommandOverTypes ==
  ASSUME TypesInv, SyncEnds \/ RemoveEnds \/ Crash
  PROVE  TypesInv'
<1>0. /\ pc' = "idle" /\ chosen' = FALSE /\ tasks' = << >> /\ mem' = << >> /\ records' \in {records, mem}
      /\ UNCHANGED <<files, sites, conf, prints, edits, ok>>
  BY DEF SyncEnds, RemoveEnds, Crash, CommandOver, Ran, disk, outside
<1>1. settled' \in BOOLEAN
  BY Zenon DEF SyncEnds, RemoveEnds, Crash, TypesInv, FlagsInv
<1>2. << >> \in Seq({}) /\ DOMAIN << >> = {}
  OBVIOUS
<1>3. TasksInv' /\ RecordsInv'
  BY <1>0, <1>2, SeqIsList DEF TasksInv, TypesInv, RecordsInv
<1> QED
  BY <1>0, <1>1, <1>3 DEF TypesInv, FilesInv, SitesInv, WorldInv, FlagsInv, LoadedInv

\* project:remove
LEMMA RemoveTypes ==
  ASSUME TypesInv, RemoveBegins
  PROVE  TypesInv'
<1>0. /\ pc' = "remove" /\ ok' = TRUE /\ settled' = FALSE
      /\ UNCHANGED <<records, sites, conf, prints, edits, chosen, mem>>
  BY DEF RemoveBegins, outside
<1>1. PICK f \in DOMAIN files, unproxy \in BOOLEAN : \E n \in DOMAIN files[f].projects :
        /\ files' = [files EXCEPT ![f].projects = Without(@, n)]
        /\ tasks' = IF unproxy
                    THEN <<Task("unproxy", n, Site(n), files[f].projects[n].sup)>> ELSE << >>
  BY DEF RemoveBegins
<1>2. PICK n \in DOMAIN files[f].projects :
        /\ files' = [files EXCEPT ![f].projects = Without(@, n)]
        /\ tasks' = IF unproxy
                    THEN <<Task("unproxy", n, Site(n), files[f].projects[n].sup)>> ELSE << >>
  BY <1>1
<1>3. PICK x : x = files[f].projects
  OBVIOUS
<1>4. /\ DOMAIN files = DOMAIN Hand /\ IsFragment(x) /\ files = [g \in DOMAIN Hand |-> files[g]]
      /\ files[f] = [managed |-> files[f].managed, projects |-> x]
      /\ files[f].managed => \A m \in DOMAIN x : m \in Names /\ Sound(f, x[m])
  BY <1>3 DEF TypesInv, FilesInv
<1>5. /\ files'[f] = [managed |-> files[f].managed, projects |-> Without(x, n)]
      /\ files' = [g \in DOMAIN Hand |-> files'[g]]
      /\ \A g \in DOMAIN Hand \ {f} : files'[g] = files[g]
  BY <1>2, <1>3, <1>4
<1>6. IsFragment(Without(x, n)) /\ DOMAIN Without(x, n) \subseteq DOMAIN x
      /\ \A m \in DOMAIN Without(x, n) : Without(x, n)[m] = x[m]
  <2>1. IsFiniteSet(DOMAIN Without(x, n))
    BY <1>4, StaysFinite DEF IsFragment
  <2> QED
    BY <1>4, <2>1 DEF IsFragment, Without
<1>7. FilesInv'
  BY <1>4, <1>5, <1>6 DEF TypesInv, FilesInv
<1>8. TasksInv'
  <2>1. IsTask(Task("unproxy", n, Site(n), x[n].sup))
    BY <1>2, <1>3, <1>4 DEF IsTask, Task, Ours, IsFragment, PortsAreValid, ValidPort
  <2>2. PICK t : t = Task("unproxy", n, Site(n), x[n].sup)
    OBVIOUS
  <2>3. tasks' \in {<<t>>, << >>}
    BY <1>2, <1>3, <2>2
  <2>4. tasks' \in Seq({t}) /\ \A i \in DOMAIN tasks' : tasks'[i] = t
    <3>1. CASE tasks' = <<t>>
      BY <3>1
    <3>2. CASE tasks' = << >>
      BY <3>2
    <3> QED
      BY <2>3, <3>1, <3>2
  <2> QED
    BY <2>1, <2>2, <2>4, SeqIsList DEF TasksInv
<1> QED
  BY <1>0, <1>7, <1>8 DEF TypesInv, SitesInv, RecordsInv, WorldInv, FlagsInv, LoadedInv

\* The world outside
LEMMA EditTypes ==
  ASSUME TypesInv, TreesChange \/ ConfigEdited \/ HerdUsed
  PROVE  TypesInv'
<1>0. /\ ok' = FALSE /\ settled' = FALSE
      /\ UNCHANGED <<files, records, pc, cfg, used, todo, tasks, chosen, mem>>
  BY DEF TreesChange, ConfigEdited, HerdUsed, Edits, disk, command
<1>1. WorldInv' /\ (pc # "idle" => conf' = conf)
  BY DEF TreesChange, ConfigEdited, HerdUsed, Edits, TypesInv, WorldInv
<1>2. SitesInv'
  <2>1. SitesInv /\ 0 \in 0..MaxPort /\ Foreign \in 0..MaxPort
    BY PortAssumption, PortsAssumption DEF TypesInv
  <2>2. CASE UNCHANGED sites
    BY <2>1, <2>2 DEF SitesInv
  <2>3. CASE HerdUsed
    <3>1. PICK h : sites' \in {Without(sites, h), With(sites, h, 0), With(sites, h, Foreign)}
      BY <2>3 DEF HerdUsed
    <3> QED
      BY <2>1, <3>1, SitesWith DEF SitesInv
  <2> QED
    BY <2>2, <2>3 DEF TreesChange, ConfigEdited
<1> QED
  BY <1>0, <1>1, <1>2 DEF TypesInv, FilesInv, RecordsInv, TasksInv, FlagsInv, LoadedInv

LEMMA NextTypes == TypesInv /\ DraftInv /\ RecordIsFinite /\ [Next]_vars => TypesInv'
<1> SUFFICES ASSUME TypesInv, DraftInv, RecordIsFinite, [Next]_vars PROVE TypesInv'
  OBVIOUS
<1>1. CASE UNCHANGED vars
  BY <1>1 DEF vars, disk, outside, command, TypesInv, FilesInv, SitesInv, RecordsInv, TasksInv,
     WorldInv, FlagsInv, LoadedInv
<1> QED
  BY <1>1, SyncBeginsTypes, SyncBuildsTypes, SyncWritesTypes, ClaimTypes, ActionTypes,
     RetireBeginsTypes, RetireTypes, CommandOverTypes, RemoveTypes, EditTypes DEF Next

LEMMA InitDraft == Init => DraftInv
BY DEF Init, DraftInv

\* Nothing but a change outside happens between the making and the writing of a
\* draft.
LEMMA DraftSteps ==
  ASSUME TypesInv, DraftInv, [Next]_vars, draft' # << >>
  PROVE  \/ draft # << >> /\ (TreesChange \/ HerdUsed \/ UNCHANGED vars)
         \/ \E e : SyncBuilds(e)
<1>1. CASE draft = << >>
  BY <1>1 DEF Next, SyncBegins, SyncWrites, ClaimLooks, ClaimRuns, HerdLooks, HerdRuns, RetireBegins,
     RetireLooks, RetireRuns, SyncEnds, RemoveBegins, RemoveEnds, Crash, CommandOver, TreesChange,
     ConfigEdited, HerdUsed, vars, command
<1>2. CASE draft # << >>
  <2>1. /\ pc = "sync" /\ tasks = << >> /\ todo # << >> /\ ~chosen /\ ~IsWildcard(Head(todo))
    BY <1>2 DEF DraftInv, AtEntry
  <2>2. ~SyncBegins /\ ~RemoveBegins /\ ~ConfigEdited
    BY <2>1 DEF SyncBegins, RemoveBegins, ConfigEdited
  <2>3. ~HerdLooks /\ ~HerdRuns /\ ~RetireBegins /\ ~RetireLooks /\ ~RetireRuns
    BY <2>1 DEF HerdLooks, HerdRuns, RetireBegins, RetireLooks, RetireRuns
  <2>4. ~SyncEnds /\ ~RemoveEnds /\ ~Crash
    BY DEF SyncEnds, RemoveEnds, Crash, CommandOver
  <2>5. \A e : ~SyncWrites(e) /\ ~ClaimLooks(e) /\ ~ClaimRuns(e)
    BY <2>1 DEF SyncWrites, ClaimLooks, ClaimRuns, AtEntry
  <2> QED
    BY <1>2, <2>2, <2>3, <2>4, <2>5 DEF Next
<1> QED
  BY <1>1, <1>2

\* What does not change with the world outside
LEMMA OutsideKeeps ==
  ASSUME TreesChange \/ HerdUsed \/ UNCHANGED vars
  PROVE  /\ UNCHANGED <<draft, files, records, conf, pc, opts, cfg, used, todo, tasks, chosen, mem>>
         /\ (ok' => ok /\ UNCHANGED <<sites, trees, prints>>) /\ (settled' => UNCHANGED vars)
BY DEF TreesChange, HerdUsed, Edits, vars, disk, outside, command

\* What has just been built
LEMMA DraftIsMade ==
  ASSUME TypesInv, DraftInv, NEW e, SyncBuilds(e), draft' # << >>,
         NEW x, x = files[e.name].projects, NEW d, d = Reconciled(e, x)
  PROVE  /\ e = Head(todo) /\ AtEntry(e) /\ ~IsWildcard(e) /\ files[e.name].managed
         /\ UNCHANGED <<files, sites, conf, trees, prints, pc, opts, cfg, todo, tasks, chosen>>
         /\ draft' = <<d.final>> /\ used' = d.used /\ ok' = d.ok
         /\ Making(e, x, d) /\ Ready(e, x)
         /\ IsDraft(e, draft') /\ draft'[1] = d.final
<1>1. /\ e = Head(todo) /\ AtEntry(e) /\ ~IsWildcard(e) /\ files[e.name].managed
      /\ UNCHANGED <<files, sites, conf, trees, prints, pc, opts, cfg, todo, tasks, chosen>>
      /\ draft' = <<d.final>> /\ used' = d.used /\ ok' = d.ok
  BY DEF SyncBuilds, AtEntry, disk, outside
<1>2. /\ Making(e, x, d) /\ Ready(e, x) /\ IsFragment(d.final)
      /\ \A n \in DOMAIN d.final : n \in Names /\ Sound(e.name, d.final[n])
  BY <1>1, EntryResult
<1>3. draft'[1] = d.final /\ draft' = <<draft'[1]>>
  BY <1>1
<1>4. \A n \in DOMAIN d.final : Own(e, n) /\ Copies(e, x, n, d.final[n])
  BY <1>2 DEF Making
<1>5. IsDraft(e, draft')
  BY <1>2, <1>3, <1>4 DEF IsDraft
<1> QED
  BY <1>1, <1>2, <1>3, <1>5

LEMMA NextDraft == TypesInv /\ DraftInv /\ [Next]_vars => DraftInv'
<1> SUFFICES ASSUME TypesInv, DraftInv, [Next]_vars PROVE DraftInv'
  OBVIOUS
<1>1. pc' = "idle" => draft' = << >> /\ ~chosen'
  BY DEF DraftInv, Next, SyncBegins, SyncBuilds, SyncWrites, AtEntry, ClaimLooks, ClaimRuns, HerdLooks,
     HerdRuns, RetireBegins, RetireLooks, RetireRuns, SyncEnds, RemoveBegins, RemoveEnds, Crash,
     CommandOver, Ran, TreesChange, ConfigEdited, HerdUsed, vars, command
<1>2. chosen' => tasks' # << >> \/ (pc' = "sync" /\ todo' # << >> /\ IsWildcard(Head(todo')))
  <2>0. /\ pc = "idle" => ~chosen
        /\ chosen => tasks # << >> \/ (pc = "sync" /\ todo # << >> /\ IsWildcard(Head(todo)))
    BY DEF DraftInv
  <2>1. CASE UNCHANGED <<pc, todo, tasks, chosen>>
    BY <2>0, <2>1
  <2>2. CASE SyncBegins \/ RemoveBegins \/ RetireBegins
    BY <2>0, <2>2 DEF SyncBegins, RemoveBegins, RetireBegins
  <2>3. CASE \E e : SyncBuilds(e) \/ SyncWrites(e) \/ ClaimRuns(e)
    BY <2>0, <2>3 DEF SyncBuilds, SyncWrites, ClaimRuns, AtEntry, Ran
  <2>4. ASSUME NEW e, ClaimLooks(e), chosen'
        PROVE  pc' = "sync" /\ todo' # << >> /\ IsWildcard(Head(todo'))
    BY <2>4, ClaimLooked DEF ClaimLooks, AtEntry, TypesInv, FlagsInv
  <2>5. CASE HerdLooks
    BY <2>5, ActionLooked DEF HerdLooks, TypesInv, FlagsInv
  <2>6. CASE RetireLooks
    BY <2>6, RetireLooked DEF RetireLooks, TypesInv, FlagsInv
  <2>7. CASE HerdRuns \/ RetireRuns \/ SyncEnds \/ RemoveEnds \/ Crash
    BY <2>7 DEF HerdRuns, RetireRuns, SyncEnds, RemoveEnds, Crash, CommandOver, Ran
  <2>8. CASE TreesChange \/ ConfigEdited \/ HerdUsed \/ UNCHANGED vars
    BY <2>1, <2>8 DEF TreesChange, ConfigEdited, HerdUsed, vars, command
  <2> QED
    BY <2>2, <2>3, <2>4, <2>5, <2>6, <2>7, <2>8 DEF Next
<1>3. ASSUME draft' # << >>
      PROVE  /\ AtEntry(Head(todo))' /\ ~IsWildcard(Head(todo)') /\ ~chosen'
             /\ files'[Head(todo').name].managed /\ IsDraft(Head(todo), draft)'
  <2>1. PICK e : e = Head(todo)
    OBVIOUS
  <2>2. /\ UNCHANGED <<files, pc, cfg, todo, tasks, chosen>> /\ AtEntry(e) /\ ~IsWildcard(e) /\ ~chosen
        /\ files[e.name].managed /\ IsDraft(e, draft')
    <3>1. CASE draft # << >> /\ (TreesChange \/ HerdUsed \/ UNCHANGED vars)
      BY <2>1, <3>1, OutsideKeeps DEF DraftInv
    <3>2. CASE \E c : SyncBuilds(c)
      <4>1. PICK c : SyncBuilds(c)
        BY <3>2
      <4>2. /\ c = e /\ AtEntry(e) /\ ~IsWildcard(e) /\ files[e.name].managed
            /\ UNCHANGED <<files, pc, cfg, todo, tasks, chosen>> /\ IsDraft(e, draft')
        BY <1>3, <2>1, <4>1, DraftIsMade
      <4>3. ~chosen
        BY <2>1, <4>2 DEF DraftInv, AtEntry
      <4> QED
        BY <4>2, <4>3
    <3> QED
      BY <1>3, <3>1, <3>2, DraftSteps
  <2> QED
    BY <2>1, <2>2 DEF AtEntry, IsDraft, Own
<1> QED
  BY <1>1, <1>2, <1>3 DEF DraftInv

-----------------------------------------------------------------------------
(* The inductive invariant *)

LEMMA InitSync == Init => SyncInv
<1> SUFFICES ASSUME Init PROVE SyncInv
  OBVIOUS
<1>1. DOMAIN << >> = {}
  OBVIOUS
<1>2. RecordIsFinite
  BY <1>1, FS_EmptySet DEF Init, RecordIsFinite
<1> QED
  BY <1>2 DEF Init, SyncInv, RetireLoop

\* The wildcard part of a sync records at most one more registration.
LEMMA ClaimKeeps ==
  ASSUME TypesInv, RecordIsFinite, NEW e, ClaimLooks(e) \/ ClaimRuns(e)
  PROVE  IsFiniteSet(DOMAIN mem')
<1>1. mem' \in {mem, Recorded(e)}
  BY ClaimLooked, ClaimRan DEF TypesInv, FlagsInv
<1>2. CASE mem' = mem
  BY <1>2 DEF RecordIsFinite
<1>3. CASE mem' = Recorded(e)
  BY <1>3, StaysFinite DEF RecordIsFinite, Recorded
<1> QED
  BY <1>1, <1>2, <1>3

\* The loop starts with every registration to retire on its list.
LEMMA RetireBeginsKeeps ==
  ASSUME SyncInv, RetireBegins
  PROVE  SyncInv'
<1> DEFINE ns == SetToSeq(Retirable)
           task(i) == Task("unproxy", ns[i], records[ns[i]].base, records[ns[i]].sup)
<1>1. UNCHANGED <<records, mem, sites, cfg>>
  BY DEF RetireBegins, disk
<1>2. IsFiniteSet(Retirable)
  <2>1. Retirable \subseteq DOMAIN records
    BY DEF Retirable
  <2> QED
    BY <2>1, FS_Subset DEF SyncInv, RecordIsFinite
<1>3. /\ ns \in Seq(Retirable) /\ DOMAIN ns = 1..Len(ns)
      /\ \A n \in Retirable : \E i \in 1..Len(ns) : ns[i] = n
  BY <1>2, SetListed
<1>4. tasks' = [i \in 1..Len(ns) |-> task(i)]
  BY <1>3 DEF RetireBegins
<1> HIDE DEF ns
<1>5. tasks' \in Seq(Retirements) /\ Len(tasks') = Len(ns)
  <2>1. \A i \in 1..Len(ns) : task(i) \in Retirements
    BY <1>3 DEF Retirements, Retirable
  <2> QED
    BY <2>1, <1>3, <1>4
<1>6. \A n \in Retirable : \E i \in 1..Len(tasks') : tasks'[i].name = n
  BY <1>3, <1>4, <1>5 DEF Task
<1>7. Retirements' = Retirements /\ Retirable' = Retirable
  BY <1>1 DEF Retirements, Retirable
<1> QED
  BY <1>1, <1>5, <1>6, <1>7 DEF SyncInv, RecordIsFinite, RetireLoop

\* One registration looked at or retired: its proxy goes and it is forgotten, or
\* the command is not ok any more; nothing comes back for the others.
LEMMA RetireKeeps ==
  ASSUME TypesInv, SyncInv, RetireLooks \/ RetireRuns
  PROVE  SyncInv'
<1> DEFINE t == Head(tasks)
<1>1. /\ pc = "retire" /\ tasks # << >> /\ ok \in BOOLEAN
      /\ UNCHANGED <<records, cfg, opts, pc>>
  BY DEF RetireLooks, RetireRuns, disk, TypesInv, FlagsInv
<1>2. /\ tasks \in Seq(Retirements) /\ t \in Retirements
      /\ Tail(tasks) \in Seq(Retirements) /\ Len(tasks) \in Nat \ {0}
      /\ Len(Tail(tasks)) = Len(tasks) - 1
      /\ \A i \in 1..Len(tasks) : i # 1 => Tail(tasks)[i - 1] = tasks[i]
  BY <1>1 DEF SyncInv, RetireLoop
<1>3. t.name \in DOMAIN records /\ t.site = records[t.name].base /\ t.port = records[t.name].sup
  BY <1>2 DEF Retirements, Task
<1>4. /\ tasks' \in {tasks, Tail(tasks)} /\ (ok' => ok)
      /\ mem' \in {mem, Forgotten(t.name)} /\ sites' \in {sites, Without(sites, t.site)}
      /\ ok' /\ ~opts.dry => \/ UNCHANGED <<tasks, mem, sites>>
                             \/ tasks' = Tail(tasks) /\ mem' = Forgotten(t.name)
                                /\ (sites' = Without(sites, t.site) \/ ~ProxiesTo(t.site, t.port))
  <2>1. CASE RetireLooks
    <3>1. UNCHANGED sites
      BY <2>1 DEF RetireLooks
    <3> QED
      BY <1>1, <2>1, <3>1, RetireLooked
  <2>2. CASE RetireRuns
    BY <1>1, <2>2, RetireRan
  <2> QED
    BY <2>1, <2>2
<1> HIDE DEF t
<1>6. RecordIsFinite'
  BY <1>1, <1>4, StaysFinite DEF SyncInv, RecordIsFinite, Forgotten
<1>7. ASSUME ok', opts.herd, ~opts.dry
      PROVE  \A n \in Retirable : Retired(n)' \/ \E i \in 1..Len(tasks') : tasks'[i].name = n
  <2> SUFFICES ASSUME NEW n \in Retirable
               PROVE  Retired(n)' \/ \E i \in 1..Len(tasks') : tasks'[i].name = n
    OBVIOUS
  <2>1. Retired(n) \/ \E i \in 1..Len(tasks) : tasks[i].name = n
    BY <1>1, <1>4, <1>7 DEF SyncInv, RetireLoop
  <2>2. CASE Retired(n)
    <3>1. ~ProxiesTo(records[n].base, records[n].sup)'
      BY <1>1, <1>4, <2>2 DEF Retired, ProxiesTo, Exists, Without
    <3>2. n \in DOMAIN mem' => mem'[n] # records[n]
      BY <1>4, <2>2 DEF Retired, Forgotten, Without
    <3> QED
      BY <1>1, <3>1, <3>2 DEF Retired
  <2>3. CASE UNCHANGED <<tasks, mem, sites>> /\ \E i \in 1..Len(tasks) : tasks[i].name = n
    BY <2>3
  <2>4. CASE /\ tasks' = Tail(tasks) /\ mem' = Forgotten(t.name)
             /\ sites' = Without(sites, t.site) \/ ~ProxiesTo(t.site, t.port)
             /\ \E i \in 1..Len(tasks) : tasks[i].name = n
    <3>1. PICK i \in 1..Len(tasks) : tasks[i].name = n
      BY <2>4
    <3>2. CASE i # 1
      <4>1. i - 1 \in 1..Len(tasks') /\ tasks'[i - 1].name = n
        BY <1>2, <2>4, <3>1, <3>2
      <4> QED
        BY <4>1
    <3>3. CASE n = t.name
      <4>1. ~(t.site \in DOMAIN sites' /\ sites'[t.site] = t.port)
        BY <1>4, <2>4 DEF ProxiesTo, Exists, Without
      <4>2. n \in DOMAIN mem' => mem'[n] # records[n]
        BY <2>4, <3>3 DEF Forgotten, Without
      <4> QED
        BY <1>1, <1>3, <3>3, <4>1, <4>2 DEF Retired, ProxiesTo, Exists
    <3> QED
      BY <1>2, <3>1, <3>2, <3>3 DEF t
  <2> QED
    BY <1>4, <1>7, <2>1, <2>2, <2>3, <2>4
<1>8. Retirements' = Retirements /\ Retirable' = Retirable
  BY <1>1 DEF Retirements, Retirable
<1>9. tasks' \in Seq(Retirements)
  BY <1>2, <1>4
<1> QED
  BY <1>1, <1>6, <1>7, <1>8, <1>9 DEF SyncInv, RetireLoop

\* What happens outside may change Herd's sites under a sync, which is then
\* not ok.
LEMMA EditKeeps ==
  ASSUME SyncInv, TreesChange \/ ConfigEdited \/ HerdUsed
  PROVE  SyncInv'
<1>1. UNCHANGED <<records, mem, pc, tasks>> /\ ok' = FALSE
  BY DEF TreesChange, ConfigEdited, HerdUsed, Edits, disk, command
<1>2. Retirements' = Retirements
  BY <1>1 DEF Retirements
<1> QED
  BY <1>1, <1>2 DEF SyncInv, RecordIsFinite, RetireLoop

LEMMA NextSync == TypesInv /\ SyncInv /\ [Next]_vars => SyncInv'
<1> SUFFICES ASSUME TypesInv, SyncInv, [Next]_vars PROVE SyncInv'
  OBVIOUS
<1>0. RecordIsFinite /\ RetireLoop
  BY DEF SyncInv
<1>1. CASE SyncBegins
  BY <1>0, <1>1 DEF SyncBegins, SyncInv, RecordIsFinite, RetireLoop, disk
<1>2. ASSUME NEW e, SyncBuilds(e) \/ SyncWrites(e) PROVE SyncInv'
  <2>1. UNCHANGED <<records, mem, pc>> /\ pc = "sync"
    BY <1>2 DEF SyncBuilds, SyncWrites, AtEntry, disk
  <2> QED
    BY <1>0, <2>1 DEF SyncInv, RecordIsFinite, RetireLoop
<1>3. ASSUME NEW e, ClaimLooks(e) \/ ClaimRuns(e) PROVE SyncInv'
  <2>1. UNCHANGED <<records, pc>> /\ pc = "sync"
    BY <1>3 DEF ClaimLooks, ClaimRuns, AtEntry, disk
  <2> QED
    BY <1>0, <1>3, <2>1, ClaimKeeps DEF SyncInv, RecordIsFinite, RetireLoop
<1>4. CASE HerdLooks \/ HerdRuns
  <2>1. UNCHANGED <<records, mem, pc>> /\ pc # "retire"
    BY <1>4 DEF HerdLooks, HerdRuns, disk
  <2> QED
    BY <1>0, <2>1 DEF SyncInv, RecordIsFinite, RetireLoop
<1>5. CASE RetireBegins
  BY <1>5, RetireBeginsKeeps
<1>6. CASE RetireLooks \/ RetireRuns
  BY <1>6, RetireKeeps
<1>7. CASE SyncEnds \/ RemoveEnds \/ Crash
  <2>1. records' \in {records, mem} /\ mem' = << >> /\ pc' = "idle"
    BY <1>7 DEF SyncEnds, RemoveEnds, Crash, CommandOver, disk
  <2>2. IsFiniteSet(DOMAIN << >>)
    BY FS_EmptySet
  <2> QED
    BY <1>0, <2>1, <2>2 DEF SyncInv, RecordIsFinite, RetireLoop
<1>8. CASE RemoveBegins
  <2>1. UNCHANGED <<records, mem>> /\ pc' = "remove"
    BY <1>8 DEF RemoveBegins
  <2> QED
    BY <1>0, <2>1 DEF SyncInv, RecordIsFinite, RetireLoop
<1>9. CASE TreesChange \/ ConfigEdited \/ HerdUsed
  BY <1>9, EditKeeps
<1>10. CASE UNCHANGED vars
  <2>1. UNCHANGED <<records, sites, mem, pc, tasks, ok, opts, cfg>>
    BY <1>10 DEF vars, disk, command
  <2>2. Retirements' = Retirements /\ Retirable' = Retirable
    BY <2>1 DEF Retirements, Retirable
  <2>3. \A n : Retired(n)' = Retired(n)
    BY <2>1 DEF Retired, ProxiesTo, Exists
  <2> QED
    BY <1>0, <2>1, <2>2, <2>3 DEF SyncInv, RecordIsFinite, RetireLoop
<1> QED
  BY <1>1, <1>2, <1>3, <1>4, <1>5, <1>6, <1>7, <1>8, <1>9, <1>10 DEF Next

-----------------------------------------------------------------------------
(* What a command does to Herd's sites *)

\* The site may become a proxy, or be taken away: it was no PHP site, or led to
\* the port, when the command looked, and is as it was then unless others
\* touched it.
MayProxy(site) == site \in touched \/ ~NotProxy(site)
MayUnproxy(site, port) == site \in touched \/ ProxiesTo(site, port)

LooksInv ==
  chosen =>
    IF tasks = << >> THEN MayProxy(Head(todo).base)
    ELSE LET t == Head(tasks)
         IN IF pc # "retire" /\ t.kind = "proxy" THEN MayProxy(t.site)
            ELSE MayUnproxy(t.site, t.port)

\* The worktrees that are new in a draft had free names when it was made.
FreeNames ==
  draft # << >> /\ opts.herd =>
    \A n \in DOMAIN draft[1] \ DOMAIN files[Head(todo).name].projects :
      Site(n) \notin Parked /\ MayProxy(Site(n))

SightInv == LooksInv /\ FreeNames

\* One step: what is no proxy stays as it is, and a proxy that is taken away led
\* to a port of this program, unless others touched the site.
Respects ==
  /\ \A h \in DOMAIN sites \ touched : sites[h] = 0 => h \in DOMAIN sites' /\ sites'[h] = 0
  /\ \A h \in DOMAIN sites \ (DOMAIN sites' \cup touched) : sites[h] # Foreign

LEMMA ProxyRespects ==
  ASSUME NEW h, NEW p, MayProxy(h), sites' \in {sites, With(sites, h, p)}
  PROVE  Respects
<1>1. h \in touched \/ ~(h \in DOMAIN sites /\ sites[h] = 0)
  BY DEF MayProxy, NotProxy, ProxiesTo, Exists
<1> QED
  BY <1>1 DEF Respects, With

LEMMA UnproxyRespects ==
  ASSUME NEW h, NEW p, Ours(p), MayUnproxy(h, p), sites' \in {sites, Without(sites, h)}
  PROVE  Respects
<1>1. h \in touched \/ (h \in DOMAIN sites /\ sites[h] = p /\ p # 0 /\ p # Foreign)
  BY PortAssumption DEF MayUnproxy, ProxiesTo, Exists, Ours
<1>2. DOMAIN Without(sites, h) = DOMAIN sites \ {h}
      /\ \A g \in DOMAIN sites \ {h} : Without(sites, h)[g] = sites[g]
  BY DEF Without
<1> QED
  BY <1>1, <1>2 DEF Respects

LEMMA CommandRespects ==
  ASSUME TypesInv, SightInv, [Next]_vars, edits' = edits
  PROVE  Respects
<1>1. CASE UNCHANGED sites
  BY <1>1 DEF Respects
<1>2. ASSUME NEW e, ClaimRuns(e) PROVE Respects
  <2>1. tasks = << >> /\ e = Head(todo) /\ chosen
    BY <1>2 DEF ClaimRuns, AtEntry
  <2>2. MayProxy(e.base)
    BY <2>1 DEF SightInv, LooksInv
  <2>3. sites' \in {sites, With(sites, e.base, e.sup)}
    BY <1>2, ClaimRan DEF TypesInv, FlagsInv
  <2> QED
    BY <2>2, <2>3, ProxyRespects
<1>3. ASSUME HerdRuns \/ RetireRuns PROVE Respects
  <2>1. PICK t : t = Head(tasks) /\ Ours(t.port) /\ tasks # << >> /\ chosen
    <3>1. tasks # << >> /\ chosen
      BY <1>3 DEF HerdRuns, RetireRuns
    <3> QED
      BY <3>1, TailOfList DEF TypesInv, TasksInv, IsTask
  <2>2. CASE HerdRuns
    <3>1. pc # "retire"
      BY <2>2 DEF HerdRuns
    <3>2. IF t.kind = "proxy" THEN MayProxy(t.site) ELSE MayUnproxy(t.site, t.port)
      BY <2>1, <3>1 DEF SightInv, LooksInv
    <3>3. IF t.kind = "proxy" THEN sites' \in {sites, With(sites, t.site, t.port)}
          ELSE sites' \in {sites, Without(sites, t.site)}
      BY <2>1, <2>2, ActionRan DEF TypesInv, FlagsInv
    <3> QED
      BY <2>1, <3>2, <3>3, ProxyRespects, UnproxyRespects
  <2>3. CASE RetireRuns
    <3>1. pc = "retire"
      BY <2>3 DEF RetireRuns
    <3>2. MayUnproxy(t.site, t.port)
      BY <2>1, <3>1 DEF SightInv, LooksInv
    <3>3. sites' \in {sites, Without(sites, t.site)}
      BY <2>1, <2>3, RetireRan DEF TypesInv, FlagsInv
    <3> QED
      BY <2>1, <3>2, <3>3, UnproxyRespects
  <2> QED
    BY <1>3, <2>2, <2>3
<1>4. CASE HerdUsed \/ TreesChange \/ ConfigEdited
  BY <1>4 DEF HerdUsed, TreesChange, ConfigEdited, Edits, TypesInv, WorldInv
<1>5. CASE SyncBegins \/ (\E e : SyncBuilds(e) \/ SyncWrites(e) \/ ClaimLooks(e)) \/ HerdLooks
  BY <1>1, <1>5 DEF SyncBegins, SyncBuilds, SyncWrites, ClaimLooks, HerdLooks
<1>6. CASE RetireBegins \/ RetireLooks \/ SyncEnds \/ RemoveBegins \/ RemoveEnds \/ Crash
  BY <1>1, <1>6 DEF RetireBegins, RetireLooks, SyncEnds, RemoveBegins, RemoveEnds, Crash
<1>7. CASE UNCHANGED vars
  BY <1>1, <1>7 DEF vars
<1> QED
  BY <1>2, <1>3, <1>4, <1>5, <1>6, <1>7 DEF Next

\* A change by others to a site that was looked at is noted.
LEMMA SightStays ==
  ASSUME HerdUsed \/ UNCHANGED <<sites, touched>>, chosen \/ draft # << >>, NEW h, NEW p
  PROVE  (MayProxy(h) => MayProxy(h)') /\ (MayUnproxy(h, p) => MayUnproxy(h, p)')
<1>1. CASE UNCHANGED <<sites, touched>>
  BY <1>1 DEF MayProxy, MayUnproxy, NotProxy, ProxiesTo, Exists
<1>2. CASE HerdUsed
  <2>1. PICK g : /\ sites' \in {Without(sites, g), With(sites, g, 0), With(sites, g, Foreign)}
                 /\ touched' = touched \cup {g}
    BY <1>2 DEF HerdUsed
  <2>2. CASE h = g
    BY <2>1, <2>2 DEF MayProxy, MayUnproxy
  <2>3. CASE h # g
    <3>1. (h \in DOMAIN sites' <=> h \in DOMAIN sites) /\ (h \in DOMAIN sites => sites'[h] = sites[h])
      BY <2>1, <2>3 DEF With, Without
    <3> QED
      BY <2>1, <3>1 DEF MayProxy, MayUnproxy, NotProxy, ProxiesTo, Exists
  <2> QED
    BY <2>2, <2>3
<1> QED
  BY <1>1, <1>2

LEMMA NextLooks ==
  ASSUME TypesInv, DraftInv, LooksInv, [Next]_vars
  PROVE  LooksInv'
<1> SUFFICES ASSUME chosen' PROVE LooksInv'
  BY DEF LooksInv
<1>1. ASSUME UNCHANGED <<pc, todo, tasks, chosen>>, HerdUsed \/ UNCHANGED <<sites, touched>>
      PROVE  LooksInv'
  <2>1. chosen
    BY <1>1
  <2>2. \A h, p : (MayProxy(h) => MayProxy(h)') /\ (MayUnproxy(h, p) => MayUnproxy(h, p)')
    BY <1>1, <2>1, SightStays
  <2>3. CASE tasks = << >>
    <3>1. PICK h : h = Head(todo).base
      OBVIOUS
    <3>2. MayProxy(h)'
      BY <2>1, <2>2, <2>3, <3>1 DEF LooksInv
    <3> QED
      BY <1>1, <2>3, <3>1, <3>2 DEF LooksInv
  <2>4. CASE tasks # << >>
    <3>1. PICK t, h, p : t = Head(tasks) /\ h = t.site /\ p = t.port
      OBVIOUS
    <3>2. IF pc # "retire" /\ t.kind = "proxy" THEN MayProxy(h)' ELSE MayUnproxy(h, p)'
      BY <2>1, <2>2, <2>4, <3>1 DEF LooksInv
    <3> QED
      BY <1>1, <2>4, <3>1, <3>2 DEF LooksInv
  <2> QED
    BY <2>3, <2>4
<1>2. CASE TreesChange \/ ConfigEdited \/ HerdUsed \/ UNCHANGED vars
  BY <1>1, <1>2 DEF TreesChange, ConfigEdited, HerdUsed, vars, command
<1>3. ASSUME NEW e, ClaimLooks(e) PROVE LooksInv'
  <2>1. tasks = << >> /\ e = Head(todo) /\ UNCHANGED <<tasks, sites, touched>>
    BY <1>3 DEF ClaimLooks, AtEntry
  <2>2. UNCHANGED todo /\ ~NotProxy(e.base)
    BY <1>3, ClaimLooked DEF TypesInv, FlagsInv
  <2> QED
    BY <2>1, <2>2 DEF LooksInv, MayProxy, NotProxy, ProxiesTo, Exists
<1>4. CASE HerdLooks
  <2>1. PICK t : t = Head(tasks)
    OBVIOUS
  <2>2. tasks # << >> /\ UNCHANGED <<pc, tasks, sites, touched>> /\ pc # "retire"
        /\ IF t.kind = "proxy" THEN ~NotProxy(t.site) ELSE ProxiesTo(t.site, t.port)
    BY <1>4, <2>1, ActionLooked DEF HerdLooks, TypesInv, FlagsInv
  <2> QED
    BY <2>1, <2>2 DEF LooksInv, MayProxy, MayUnproxy, NotProxy, ProxiesTo, Exists
<1>5. CASE RetireLooks
  <2>1. PICK t : t = Head(tasks)
    OBVIOUS
  <2>2. tasks # << >> /\ UNCHANGED <<pc, tasks, sites, touched>> /\ pc = "retire"
        /\ ProxiesTo(t.site, t.port)
    BY <1>5, <2>1, RetireLooked DEF RetireLooks, TypesInv, FlagsInv
  <2> QED
    BY <2>1, <2>2 DEF LooksInv, MayUnproxy, ProxiesTo, Exists
<1>6. ~SyncBegins /\ ~RemoveBegins /\ ~RetireBegins
  BY DEF DraftInv, SyncBegins, RemoveBegins, RetireBegins
<1>7. \A e : ~SyncBuilds(e) /\ ~SyncWrites(e) /\ ~ClaimRuns(e)
  BY DEF DraftInv, SyncBuilds, SyncWrites, ClaimRuns, AtEntry, Ran
<1>8. ~HerdRuns /\ ~RetireRuns /\ ~SyncEnds /\ ~RemoveEnds /\ ~Crash
  BY DEF HerdRuns, RetireRuns, SyncEnds, RemoveEnds, Crash, CommandOver, Ran
<1> QED
  BY <1>2, <1>3, <1>4, <1>5, <1>6, <1>7, <1>8 DEF Next

LEMMA NextFree ==
  ASSUME TypesInv, DraftInv, FreeNames, [Next]_vars
  PROVE  FreeNames'
<1> SUFFICES ASSUME draft' # << >>, opts'.herd,
                    NEW n \in DOMAIN draft'[1] \ DOMAIN files'[Head(todo').name].projects
             PROVE  Site(n) \notin Parked /\ MayProxy(Site(n))'
  BY DEF FreeNames, Site
<1>1. CASE draft # << >> /\ (TreesChange \/ HerdUsed \/ UNCHANGED vars)
  <2>1. UNCHANGED <<draft, files, opts, todo>>
    BY <1>1, OutsideKeeps
  <2>2. Site(n) \notin Parked /\ MayProxy(Site(n))
    BY <1>1, <2>1 DEF FreeNames
  <2>3. HerdUsed \/ UNCHANGED <<sites, touched>>
    BY <1>1 DEF TreesChange, vars
  <2>4. PICK h : h = Site(n)
    OBVIOUS
  <2>5. MayProxy(h)'
    BY <1>1, <2>2, <2>3, <2>4, SightStays
  <2> QED
    BY <2>2, <2>4, <2>5 DEF Site
<1>2. ASSUME NEW e, SyncBuilds(e) PROVE Site(n) \notin Parked /\ MayProxy(Site(n))'
  <2>1. PICK x, d : x = files[e.name].projects /\ d = Reconciled(e, x)
    OBVIOUS
  <2>2. /\ e = Head(todo) /\ UNCHANGED <<files, sites, opts, todo>> /\ Making(e, x, d)
        /\ draft'[1] = d.final
    BY <1>2, <2>1, DraftIsMade
  <2>3. n \in DOMAIN d.final \ DOMAIN x
    BY <2>1, <2>2
  <2>4. ~HerdConflict(Site(n))
    BY <2>2, <2>3 DEF Making
  <2> QED
    BY <2>2, <2>4 DEF HerdConflict, Conflict, MayProxy, NotProxy, ProxiesTo, Exists, Site
<1> QED
  BY <1>1, <1>2, DraftSteps

LEMMA NextSight == TypesInv /\ DraftInv /\ SightInv /\ [Next]_vars => SightInv'
BY NextLooks, NextFree DEF SightInv

\* A name that sync registers with Herd is one that Herd did not have, unless it
\* got it after sync had looked.
LEMMA NewNamesAreFree ==
  ASSUME TypesInv, DraftInv, SightInv, [Next]_vars, opts.herd, NEW f \in DOMAIN files,
         NEW n \in DOMAIN files'[f].projects \ DOMAIN files[f].projects
  PROVE  Site(n) \notin Parked /\ (NotProxy(Site(n)) => Site(n) \in touched)
<1>0. DOMAIN files = DOMAIN Hand /\ files = [g \in DOMAIN Hand |-> files[g]]
  BY DEF TypesInv, FilesInv
<1>1. CASE UNCHANGED files
  BY <1>1
<1>2. ASSUME NEW e, SyncWrites(e)
      PROVE  Site(n) \notin Parked /\ (NotProxy(Site(n)) => Site(n) \in touched)
  <2>1. PICK g, p : g = e.name /\ p = draft[1]
    OBVIOUS
  <2>2. g \in DOMAIN Hand /\ e = Head(todo) /\ draft # << >>
    BY <1>2, <2>1, DraftIs DEF SyncWrites
  <2>3. CASE files' = Written(g, p)
    <3>1. files'[g].projects = p /\ \A k \in DOMAIN Hand \ {g} : files'[k] = files[k]
      BY <2>2, <2>3, WrittenFiles DEF TypesInv
    <3>2. f = g /\ n \in DOMAIN p /\ n \notin DOMAIN files[g].projects
      BY <1>0, <3>1
    <3>3. Site(n) \notin Parked /\ MayProxy(Site(n))
      BY <2>1, <2>2, <3>2 DEF SightInv, FreeNames
    <3> QED
      BY <3>3 DEF MayProxy
  <2>4. files' = files \/ files' = Written(g, p)
    BY <1>2, <2>1 DEF SyncWrites
  <2> QED
    BY <1>1, <2>3, <2>4
<1>3. CASE RemoveBegins
  <2>1. PICK g \in DOMAIN files : \E m : files' = [files EXCEPT ![g].projects = Without(@, m)]
    BY <1>3 DEF RemoveBegins
  <2>2. PICK m : files' = [files EXCEPT ![g].projects = Without(@, m)]
    BY <2>1
  <2>3. /\ \A k \in DOMAIN Hand \ {g} : files'[k] = files[k]
        /\ files'[g].projects = Without(files[g].projects, m)
    <3>1. files[g] = [managed |-> files[g].managed, projects |-> files[g].projects]
      BY <1>0 DEF TypesInv, FilesInv
    <3> QED
      BY <1>0, <2>2, <3>1
  <2> QED
    BY <1>0, <2>3 DEF Without
<1>4. CASE SyncBegins \/ (\E e : SyncBuilds(e) \/ ClaimLooks(e) \/ ClaimRuns(e)) \/ HerdLooks \/ HerdRuns
  BY <1>1, <1>4 DEF SyncBegins, SyncBuilds, ClaimLooks, ClaimRuns, HerdLooks, HerdRuns, disk
<1>5. CASE RetireBegins \/ RetireLooks \/ RetireRuns \/ SyncEnds \/ RemoveEnds \/ Crash
  BY <1>1, <1>5 DEF RetireBegins, RetireLooks, RetireRuns, SyncEnds, RemoveEnds, Crash, disk
<1>6. CASE HerdUsed \/ TreesChange \/ ConfigEdited \/ UNCHANGED vars
  BY <1>1, <1>6 DEF HerdUsed, TreesChange, ConfigEdited, vars, disk
<1> QED
  BY <1>2, <1>3, <1>4, <1>5, <1>6 DEF Next

-----------------------------------------------------------------------------
(* The ports that the loop hands out *)

\* A port that somebody has in u is still theirs in v.
Grow(u, v) == \A p \in 1..MaxPort : u[p] # Free => v[p] = u[p]

\* Every project of ps has its two ports in u.
Holds(u, ps) == \A n \in DOMAIN ps : u[ps[n].sup] = n /\ u[ps[n].app] = n

HasPorts(ps) == \A n \in DOMAIN ps : ps[n].sup \in 1..MaxPort /\ ps[n].app \in 1..MaxPort

LEMMA GrowHolds ==
  ASSUME NEW u, NEW v, NEW ps, Grow(u, v), Holds(u, ps), HasPorts(ps), Free \notin DOMAIN ps
  PROVE  Holds(v, ps)
BY DEF Grow, Holds, HasPorts

LEMMA GrowTwice ==
  ASSUME NEW u, NEW v, NEW w, Grow(u, v), Grow(v, w)
  PROVE  Grow(u, w)
BY DEF Grow

\* What holds of the ports as the loop goes on, and what was skipped before
\* stays known.
Claiming(a) == Grow(used, a.used) /\ Holds(a.used, a.final) /\ (a.ok => ok)

LEMMA MadeHasPorts ==
  ASSUME NEW e, NEW x, NEW a, Making(e, x, a)
  PROVE  HasPorts(a.final) /\ Free \notin DOMAIN a.final
<1>1. Free \notin DOMAIN a.final
  BY TreesAssumption DEF Making
<1> QED
  BY <1>1 DEF HasPorts, Making, Sound, PortsAreValid, ValidPort

LEMMA HoldsWith ==
  ASSUME NEW u, NEW ps, NEW c, NEW p, Holds(u, ps), u[p.sup] = c, u[p.app] = c
  PROVE  Holds(u, With(ps, c, p))
<1>1. Adds(ps, c, p, With(ps, c, p))
  BY WithAdds
<1> QED
  BY <1>1 DEF Adds, Holds

LEMMA ClaimingGoesOn ==
  ASSUME NEW e, NEW x, NEW a, NEW b, NEW c \in Names,
         Ready(e, x), Making(e, x, a), b = Build(e, x, a, c), Holds(used, x), Claiming(a)
  PROVE  Claiming(b)
<1>0. IsAcc(a) /\ DOMAIN a.used = 1..MaxPort /\ c # Free
  BY TreesAssumption DEF Making
<1>1. CASE Skips(a, b)
  BY <1>1 DEF Skips, Claiming
<1>2. c \in DOMAIN x => /\ x[c].sup \in 1..MaxPort /\ a.used[x[c].sup] = c
                        /\ x[c].app \in 1..MaxPort /\ a.used[x[c].app] = c
  <2> SUFFICES ASSUME c \in DOMAIN x
               PROVE  /\ x[c].sup \in 1..MaxPort /\ a.used[x[c].sup] = c
                      /\ x[c].app \in 1..MaxPort /\ a.used[x[c].app] = c
    OBVIOUS
  <2>1. x[c].sup \in 1..MaxPort /\ x[c].app \in 1..MaxPort
    BY DEF Ready, Sound, PortsAreValid, ValidPort
  <2>2. used[x[c].sup] = c /\ used[x[c].app] = c /\ Grow(used, a.used)
    BY DEF Holds, Claiming
  <2> QED
    BY <1>0, <2>1, <2>2 DEF Grow
<1>3. CASE Keeps(e, x, a, b, c)
  BY <1>2, <1>3, HoldsWith DEF Keeps, Claiming
<1>4. ASSUME NEW sup, NEW app, Registers(e, x, a, b, c, sup, app)
      PROVE  Claiming(b)
  <2>1. /\ sup \in 1..MaxPort /\ app \in 1..MaxPort
        /\ c \notin DOMAIN x => a.used[sup] = Free
        /\ c \notin DOMAIN x \/ e.cmd => a.used[app] \in {Free, c}
        /\ \A p \in 1..MaxPort :
             b.used[p] = IF p = app \/ (p = sup /\ c \notin DOMAIN x) THEN c ELSE a.used[p]
    <3>1. NewPorts(e, x, a, b, c, sup, app)
      BY <1>0, <1>4, RegisteredPorts
    <3> QED
      BY <3>1 DEF NewPorts
  <2>2. /\ c \in DOMAIN x => sup = x[c].sup /\ (~e.cmd => app = x[c].app)
        /\ b.final = With(a.final, c, Project(e, c, sup, app)) /\ b.ok = a.ok
    BY <1>4 DEF Registers
  <2>3. a.used[app] \in {Free, c} /\ a.used[sup] \in {Free, c}
    BY <1>2, <2>1, <2>2
  <2>4. Grow(a.used, b.used)
    BY <2>1, <2>3 DEF Grow
  <2>5. b.used[sup] = c /\ b.used[app] = c
    BY <1>2, <2>1, <2>2
  <2>6. Holds(b.used, a.final)
    BY <2>4, GrowHolds, MadeHasPorts DEF Claiming
  <2>7. Holds(b.used, b.final)
    BY <2>2, <2>5, <2>6, HoldsWith DEF Project
  <2> QED
    BY <2>2, <2>4, <2>7, GrowTwice DEF Claiming
<1> QED
  BY <1>0, <1>1, <1>3, <1>4, BuildOutcome

\* The whole loop
LEMMA PortsAreClaimed ==
  ASSUME NEW e, NEW x, Ready(e, x), DOMAIN used = 1..MaxPort, ok \in BOOLEAN, Holds(used, x)
  PROVE  Claiming(Reconciled(e, x))
<1>1. PICK g : IsLoop(e, x, g)
  BY LoopIsDefined
<1>2. Len(Trees) \in Nat /\ \A i \in 1..Len(Trees) : Trees[i] \in Names
  BY TreesAssumption
<1> DEFINE S == {m \in Nat : m <= Len(Trees) => Making(e, x, g[m]) /\ Claiming(g[m])}
<1>3. 0 \in S
  <2>1. Making(e, x, Start)
    BY DEF Making, Start, IsAcc
  <2>2. Claiming(Start)
    BY DEF Start, Claiming, Grow, Holds
  <2> QED
    BY <1>1, <2>1, <2>2 DEF IsLoop
<1>4. ASSUME NEW m \in Nat, m \in S PROVE m + 1 \in S
  <2> SUFFICES ASSUME m + 1 <= Len(Trees) PROVE Making(e, x, g[m + 1]) /\ Claiming(g[m + 1])
    OBVIOUS
  <2>1. /\ m + 1 \in 1..Len(Trees) /\ Making(e, x, g[m]) /\ Claiming(g[m])
        /\ Trees[m + 1] \in Names
    BY <1>2, <1>4
  <2>2. g[m + 1] = Turn(e, x, g[m], m + 1)
    BY <1>1, <2>1 DEF IsLoop
  <2>3. CASE Trees[m + 1] \notin trees[e.name]
    BY <2>1, <2>2, <2>3 DEF Turn
  <2>4. CASE Trees[m + 1] \in trees[e.name]
    <3>1. g[m + 1] = Build(e, x, g[m], Trees[m + 1])
      BY <2>2, <2>4 DEF Turn
    <3>2. Making(e, x, g[m + 1])
      BY <2>1, <2>4, <3>1, MakingGoesOn
    <3>3. Claiming(g[m + 1])
      BY <2>1, <3>1, ClaimingGoesOn
    <3> QED
      BY <3>2, <3>3
  <2> QED
    BY <2>3, <2>4
<1>5. Len(Trees) \in S
  BY <1>2, <1>3, <1>4, SetInduction
<1> QED
  BY <1>1, <1>2, <1>5 DEF IsLoop

-----------------------------------------------------------------------------
(* What the loader checks, without the merging *)

\* Two projects that can be loaded together
Apart(p, q) ==
  /\ p.app \notin {q.app, q.sup}
  /\ p.sup = q.sup => NoHost \notin {p.host, q.host}
  /\ p.host = q.host => p.host = NoHost

\* The projects of the sources S have ports, and go together.
AreApart(S) ==
  \A s, t \in DOMAIN S : \A m \in DOMAIN S[s], n \in DOMAIN S[t] : m # n => Apart(S[s][m], S[t][n])
AreValid(S) == \A s \in DOMAIN S : \A n \in DOMAIN S[s] : PortsAreValid(S[s][n])

\* None of them has the port of a wildcard listener of es.
OffListeners(S, es) ==
  \A i \in DOMAIN es : IsWildcard(es[i]) =>
    \A s \in DOMAIN S : \A n \in DOMAIN S[s] : es[i].sup \notin {S[s][n].sup, S[s][n].app}
ListenersApart(es) ==
  \A i, j \in DOMAIN es : i # j /\ IsWildcard(es[i]) /\ IsWildcard(es[j]) => es[j].sup # es[i].sup

\* What loading asks of names, ports and hosts, and the same without the merging.
Fits(S, es) ==
  LET ps == Merge(S)
  IN /\ DefinedOnce(S)
     /\ \A n \in DOMAIN ps : PortsAreValid(ps[n])
     /\ ClaimsAreUnique(ps)
     /\ EntriesAreValid(es)
     /\ WildcardPortsAreOwn(ps, es)

Flat(S, es) ==
  /\ DefinedOnce(S) /\ AreValid(S) /\ AreApart(S) /\ OffListeners(S, es)
  /\ EntriesAreValid(es) /\ ListenersApart(es)

\* The merged projects are those of the sources.
LEMMA Merged ==
  ASSUME NEW S, DefinedOnce(S)
  PROVE  /\ \A s \in DOMAIN S : \A n \in DOMAIN S[s] : n \in DOMAIN Merge(S) /\ Merge(S)[n] = S[s][n]
         /\ \A n \in DOMAIN Merge(S) : \E s \in DOMAIN S : n \in DOMAIN S[s] /\ Merge(S)[n] = S[s][n]
<1>1. ASSUME NEW s \in DOMAIN S, NEW n \in DOMAIN S[s]
      PROVE  n \in DOMAIN Merge(S) /\ Merge(S)[n] = S[s][n]
  <2>1. PICK t : t = CHOOSE r \in DOMAIN S : n \in DOMAIN S[r]
    OBVIOUS
  <2>2. t \in DOMAIN S /\ n \in DOMAIN S[t]
    BY <1>1, <2>1
  <2>3. t = s
    BY <1>1, <2>2 DEF DefinedOnce
  <2>4. n \in UNION {DOMAIN S[r] : r \in DOMAIN S}
    BY <1>1
  <2> QED
    BY <2>1, <2>3, <2>4 DEF Merge
<1>2. ASSUME NEW n \in DOMAIN Merge(S) PROVE \E s \in DOMAIN S : n \in DOMAIN S[s]
  BY <1>2 DEF Merge
<1> QED
  BY <1>1, <1>2

LEMMA FlatFits ==
  ASSUME NEW S, NEW es
  PROVE  Fits(S, es) <=> Flat(S, es)
<1> SUFFICES ASSUME DefinedOnce(S) PROVE Fits(S, es) <=> Flat(S, es)
  BY DEF Fits, Flat
<1>1. PICK ps : ps = Merge(S)
  OBVIOUS
<1>2. /\ \A s \in DOMAIN S : \A n \in DOMAIN S[s] : n \in DOMAIN ps /\ ps[n] = S[s][n]
      /\ \A n \in DOMAIN ps : \E s \in DOMAIN S : n \in DOMAIN S[s] /\ ps[n] = S[s][n]
  BY <1>1, Merged
<1>3. (\A n \in DOMAIN ps : PortsAreValid(ps[n])) <=> AreValid(S)
  BY <1>2 DEF AreValid
<1>4. ClaimsAreUnique(ps) <=> AreApart(S)
  <2>1. ClaimsAreUnique(ps) <=> \A m, n \in DOMAIN ps : m # n => Apart(ps[m], ps[n])
    BY DEF ClaimsAreUnique, Apart
  <2>2. AreApart(S) => \A m, n \in DOMAIN ps : m # n => Apart(ps[m], ps[n])
    BY <1>2 DEF AreApart
  <2>3. (\A m, n \in DOMAIN ps : m # n => Apart(ps[m], ps[n])) => AreApart(S)
    BY <1>2 DEF AreApart
  <2> QED
    BY <2>1, <2>2, <2>3
<1>5. WildcardPortsAreOwn(ps, es) <=> OffListeners(S, es) /\ ListenersApart(es)
  BY <1>2 DEF WildcardPortsAreOwn, OffListeners, ListenersApart
<1> QED
  BY <1>1, <1>3, <1>4, <1>5 DEF Fits, Flat

\* The rest of the projects is what the loader accepts.
AreFine(S) == \A s \in DOMAIN S : \A n \in DOMAIN S[s] : S[s][n].rest \notin {"bad", "url"}

LEMMA LoadsWhen ==
  ASSUME NEW S, NEW es, NEW max
  PROVE  Loads(S, es, max, {}, TRUE) <=> Flat(S, es) /\ AreFine(S) /\ BudgetIsValid(Merge(S), max)
<1> SUFFICES ASSUME DefinedOnce(S)
             PROVE  Loads(S, es, max, {}, TRUE) <=>
                      Fits(S, es) /\ AreFine(S) /\ BudgetIsValid(Merge(S), max)
  BY FlatFits DEF Loads, Flat
<1>1. PICK ps : ps = Merge(S)
  OBVIOUS
<1>2. (\A n \in DOMAIN ps : ps[n].rest \notin {"bad", "url"}) <=> AreFine(S)
  BY <1>1, Merged DEF AreFine
<1>3. (\A n \in DOMAIN ps : ProjectIsValid(ps[n], {}, TRUE)) <=>
        (\A n \in DOMAIN ps : PortsAreValid(ps[n])) /\ AreFine(S)
  BY <1>2 DEF ProjectIsValid
<1> QED
  BY <1>1, <1>3 DEF Loads, IsValid, Fits

\* What has loaded still loads after a change that leaves the rest fine and
\* adds no always_on project that max_running counts.
LEMMA StillLoads ==
  ASSUME NEW S, NEW T, NEW es, NEW max \in Nat, Loads(S, es, max, {}, TRUE),
         IsFiniteSet(DOMAIN Merge(S)), Flat(T, es), AreFine(T),
         \A t \in DOMAIN T : \A n \in DOMAIN T[t] : max > 0 /\ T[t][n].always =>
           \E s \in DOMAIN S : n \in DOMAIN S[s] /\ S[s][n].always
  PROVE  Loads(T, es, max, {}, TRUE)
<1> DEFINE A == {n \in DOMAIN Merge(S) : Merge(S)[n].always}
           B == {n \in DOMAIN Merge(T) : Merge(T)[n].always}
<1>1. Flat(S, es) /\ BudgetIsValid(Merge(S), max)
  BY LoadsWhen
<1>2. ASSUME max > 0 PROVE Cardinality(B) <= max
  <2>1. B \subseteq A
    BY <1>1, <1>2, Merged DEF Flat
  <2>2. IsFiniteSet(A)
    BY FS_Subset
  <2>3. Cardinality(A) <= max
    BY <1>1, <1>2 DEF BudgetIsValid
  <2> HIDE DEF A, B
  <2>4. Cardinality(B) <= Cardinality(A) /\ Cardinality(A) \in Nat /\ Cardinality(B) \in Nat
    BY <2>1, <2>2, FS_Subset, FS_CardinalityType
  <2> QED
    BY <2>3, <2>4
<1>3. BudgetIsValid(Merge(T), max)
  BY <1>2 DEF BudgetIsValid
<1> QED
  BY <1>3, LoadsWhen

\* The sources of the configuration on disk
LEMMA SourcesAre ==
  ASSUME TypesInv
  PROVE  /\ DOMAIN Sources = DOMAIN Hand \cup {Main} /\ Sources[Main] = conf.projects
         /\ \A f \in DOMAIN Hand : f # Main /\ Sources[f] = files[f].projects
<1>1. DOMAIN files = DOMAIN Hand /\ Main \notin DOMAIN Hand
  BY HandAssumption DEF TypesInv, FilesInv
<1> QED
  BY <1>1 DEF Sources, With

\* There are finitely many projects.
LEMMA NamesAreFinite ==
  ASSUME TypesInv
  PROVE  IsFiniteSet(DOMAIN Merge(Sources))
<1>1. PICK S, g : S = Sources /\ g = [s \in DOMAIN S |-> DOMAIN S[s]]
  OBVIOUS
<1>2. IsFiniteSet(DOMAIN S)
  <2>1. IsFiniteSet(DOMAIN Hand \cup {Main})
    BY FS_AddElement, HandAssumption
  <2> QED
    BY <1>1, <2>1, SourcesAre
<1>3. \A s \in DOMAIN S : IsFiniteSet(DOMAIN S[s])
  <2>1. IsFiniteSet(DOMAIN conf.projects)
    BY ConfsAssumption DEF TypesInv, WorldInv
  <2>2. \A f \in DOMAIN Hand : IsFiniteSet(DOMAIN files[f].projects)
    BY DEF TypesInv, FilesInv, IsFragment
  <2> QED
    BY <1>1, <2>1, <2>2, SourcesAre
<1>4. PICK D : D = {DOMAIN S[s] : s \in DOMAIN S}
  OBVIOUS
<1>5. g \in Surjection(DOMAIN S, D)
  BY <1>1, <1>4 DEF Surjection
<1>6. IsFiniteSet(D)
  BY <1>2, <1>5, FS_Surjection
<1>7. IsFiniteSet(UNION D)
  BY <1>3, <1>4, <1>6, FS_UNION
<1> QED
  BY <1>1, <1>4, <1>7 DEF Merge

\* Every project of the sources has its ports in u, but that several projects
\* with a host may have one supervisor_port together.
Shares(S, n) == \E s \in DOMAIN S : n \in DOMAIN S[s] /\ S[s][n].host # NoHost
Claimed(S, u) ==
  \A s \in DOMAIN S : \A n \in DOMAIN S[s] :
    /\ n # Free /\ u[S[s][n].app] = n
    /\ u[S[s][n].sup] = n \/ (S[s][n].host # NoHost /\ Shares(S, u[S[s][n].sup]))

\* So have the wildcard listeners.
Listening(es, u) == \A i \in DOMAIN es : IsWildcard(es[i]) => u[es[i].sup] = "discovery:"

\* The names of a source are those it was loaded with, and in a managed file
\* those of worktrees of its own besides.
NamesInv(home) ==
  /\ \A n \in DOMAIN conf.projects : n \in DOMAIN cfg.source /\ cfg.source[n] = Main
  /\ \A f \in DOMAIN Hand : \A n \in DOMAIN files[f].projects :
       IF n \in DOMAIN cfg.source THEN cfg.source[n] = f ELSE home[n] = f

LoadInv(home) ==
  pc = "sync" =>
    /\ Flat(Sources, conf.entries) /\ NamesInv(home)
    /\ Claimed(Sources, used) /\ Listening(conf.entries, used)
    /\ draft # << >> =>
         Holds(used, draft[1]) /\ \A n \in DOMAIN draft[1] : home[n] = Head(todo).name

\* Every worktree has one directory that it appears in: the entries that scan
\* for it, however they are edited, put it into the file home[n].
HomesApart(home) ==
  \A e \in AllEntries : ~IsWildcard(e) => \A n \in Names \cap trees[e.name] : home[n] = e.name

\* The ports in use, when a sync has just loaded its configuration
LEMMA UsedIsClaimed ==
  ASSUME NEW S, NEW es, Flat(S, es), \A s \in DOMAIN S : Free \notin DOMAIN S[s],
         NEW u, u = Used(Merge(S), es)
  PROVE  Claimed(S, u) /\ Listening(es, u)
<1>1. PICK ps : ps = Merge(S)
  OBVIOUS
<1>2. /\ \A s \in DOMAIN S : \A n \in DOMAIN S[s] : n \in DOMAIN ps /\ ps[n] = S[s][n]
      /\ \A n \in DOMAIN ps : \E s \in DOMAIN S : n \in DOMAIN S[s] /\ ps[n] = S[s][n]
  BY <1>1, Merged DEF Flat
<1>3. /\ \A n \in DOMAIN ps : ps[n].sup \in 1..MaxPort /\ ps[n].app \in 1..MaxPort
      /\ \A n \in DOMAIN ps : ps[n].sup # ps[n].app
      /\ \A m, n \in DOMAIN ps : m # n => Apart(ps[m], ps[n])
      /\ \A i \in DOMAIN es : IsWildcard(es[i]) =>
           \A n \in DOMAIN ps : es[i].sup \notin {ps[n].sup, ps[n].app}
  <2>1. \A n \in DOMAIN ps : ps[n].sup \in 1..MaxPort /\ ps[n].app \in 1..MaxPort /\ ps[n].sup # ps[n].app
    BY <1>2 DEF Flat, AreValid, PortsAreValid, ValidPort
  <2>2. \A m, n \in DOMAIN ps : m # n => Apart(ps[m], ps[n])
    BY <1>2 DEF Flat, AreApart
  <2> QED
    BY <1>2, <2>1, <2>2 DEF Flat, OffListeners
<1>4. ASSUME NEW p \in 1..MaxPort, NEW n \in DOMAIN ps, p \in {ps[n].sup, ps[n].app}
      PROVE  u[p] \in DOMAIN ps /\ p \in {ps[u[p]].sup, ps[u[p]].app}
  <2>1. ~ \E i \in DOMAIN es : IsWildcard(es[i]) /\ es[i].sup = p
    BY <1>3, <1>4
  <2>2. u[p] = CHOOSE m \in DOMAIN ps : p \in {ps[m].sup, ps[m].app}
    BY <1>1, <1>4, <2>1 DEF Used
  <2> QED
    BY <1>4, <2>2
<1>5. ASSUME NEW n \in DOMAIN ps
      PROVE  /\ u[ps[n].app] = n
             /\ u[ps[n].sup] = n \/ (ps[n].host # NoHost /\ Shares(S, u[ps[n].sup]))
  <2>1. PICK m, k : m = u[ps[n].app] /\ k = u[ps[n].sup]
    OBVIOUS
  <2>2. m \in DOMAIN ps /\ ps[n].app \in {ps[m].sup, ps[m].app}
    BY <1>3, <1>4, <2>1
  <2>3. k \in DOMAIN ps /\ ps[n].sup \in {ps[k].sup, ps[k].app}
    BY <1>3, <1>4, <2>1
  <2>4. m = n
    BY <1>3, <2>2 DEF Apart
  <2>5. k # n => ps[n].host # NoHost /\ ps[k].host # NoHost
    BY <1>3, <2>3 DEF Apart
  <2>6. k # n => Shares(S, k)
    BY <1>2, <2>3, <2>5 DEF Shares
  <2> QED
    BY <2>1, <2>4, <2>5, <2>6
<1>6. Claimed(S, u)
  BY <1>2, <1>5 DEF Claimed
<1>7. ASSUME NEW i \in DOMAIN es, IsWildcard(es[i]) PROVE u[es[i].sup] = "discovery:"
  <2>1. es[i].sup \in 1..MaxPort
    BY <1>7 DEF Flat, EntriesAreValid, EntryIsValid, ValidPort
  <2> QED
    BY <1>7, <2>1 DEF Used
<1> QED
  BY <1>6, <1>7 DEF Listening

\* Of the sources S, one is rewritten.
Rewritten(S, T, f, ps) ==
  /\ f \in DOMAIN S /\ DOMAIN T = DOMAIN S /\ T[f] = ps
  /\ \A g \in DOMAIN S \ {f} : T[g] = S[g]

\* Projects whose ports are claimed go together when one of them has no host.
LEMMA ClaimedApart ==
  ASSUME NEW T, NEW v, DefinedOnce(T), Claimed(T, v),
         NEW s \in DOMAIN T, NEW t \in DOMAIN T, NEW m \in DOMAIN T[s], NEW n \in DOMAIN T[t],
         m # n, NoHost \in {T[s][m].host, T[t][n].host}
  PROVE  Apart(T[s][m], T[t][n])
<1>1. PICK p, q : p = T[s][m] /\ q = T[t][n]
  OBVIOUS
<1>2. /\ v[p.app] = m /\ (v[p.sup] = m \/ (p.host # NoHost /\ Shares(T, v[p.sup])))
      /\ v[q.app] = n /\ (v[q.sup] = n \/ (q.host # NoHost /\ Shares(T, v[q.sup])))
  BY <1>1 DEF Claimed
<1>3. (Shares(T, m) => p.host # NoHost) /\ (Shares(T, n) => q.host # NoHost)
  BY <1>1 DEF Shares, DefinedOnce
<1>4. Apart(p, q)
  BY <1>1, <1>2, <1>3 DEF Apart
<1> QED
  BY <1>1, <1>4

\* A managed file may be rewritten with projects whose names no other file
\* defines and which hold their ports, when what was held before still is.
LEMMA StillFlat ==
  ASSUME NEW S, NEW T, NEW f, NEW ps, NEW es, NEW u, NEW v,
         Rewritten(S, T, f, ps), Flat(S, es), Claimed(S, u), Listening(es, u), Grow(u, v),
         \A n \in DOMAIN S[f] : S[f][n].host = NoHost,
         \A n \in DOMAIN ps : /\ ps[n].host = NoHost /\ n \notin {Free, "discovery:"}
                              /\ PortsAreValid(ps[n])
                              /\ \A g \in DOMAIN S \ {f} : n \notin DOMAIN S[g],
         Holds(v, ps)
  PROVE  Flat(T, es) /\ Claimed(T, v) /\ Listening(es, v)
<1>0. /\ f \in DOMAIN S /\ DOMAIN T = DOMAIN S /\ T[f] = ps
      /\ \A g \in DOMAIN S \ {f} : T[g] = S[g]
  BY DEF Rewritten
<1>1. \A s \in DOMAIN S : \A n \in DOMAIN S[s] :
        S[s][n].sup \in 1..MaxPort /\ S[s][n].app \in 1..MaxPort
  BY DEF Flat, AreValid, PortsAreValid, ValidPort
<1>2. DefinedOnce(T)
  <2> SUFFICES ASSUME NEW s \in DOMAIN T, NEW t \in DOMAIN T, s # t,
                      NEW n \in DOMAIN T[s] \cap DOMAIN T[t]
               PROVE  FALSE
    BY DEF DefinedOnce
  <2>1. CASE s # f /\ t # f
    BY <1>0, <2>1 DEF Flat, DefinedOnce
  <2>2. CASE f \in {s, t}
    BY <1>0, <2>2
  <2> QED
    BY <2>1, <2>2
<1>3. AreValid(T)
  BY <1>0 DEF Flat, AreValid
<1>4. \A n : Shares(S, n) => n # Free /\ Shares(T, n)
  BY <1>0 DEF Shares, Claimed
<1>5. Claimed(T, v)
  <2> SUFFICES ASSUME NEW s \in DOMAIN T, NEW n \in DOMAIN T[s]
               PROVE  /\ n # Free /\ v[T[s][n].app] = n
                      /\ v[T[s][n].sup] = n \/ (T[s][n].host # NoHost /\ Shares(T, v[T[s][n].sup]))
    BY DEF Claimed
  <2>1. CASE s = f
    BY <1>0, <2>1 DEF Holds
  <2>2. CASE s # f
    <3>0. s \in DOMAIN S /\ T[s] = S[s] /\ n \in DOMAIN S[s]
      BY <1>0, <2>2
    <3>1. PICK p : p = S[s][n] /\ p = T[s][n] /\ n \in DOMAIN S[s] /\ s \in DOMAIN S
      BY <3>0
    <3>2. n # Free /\ u[p.app] = n /\ (u[p.sup] = n \/ (p.host # NoHost /\ Shares(S, u[p.sup])))
      <4>1. \A m \in DOMAIN S[s] :
              /\ m # Free /\ u[S[s][m].app] = m
              /\ u[S[s][m].sup] = m \/ (S[s][m].host # NoHost /\ Shares(S, u[S[s][m].sup]))
        BY <3>0 DEF Claimed
      <4>2. /\ n # Free /\ u[S[s][n].app] = n
            /\ u[S[s][n].sup] = n \/ (S[s][n].host # NoHost /\ Shares(S, u[S[s][n].sup]))
        BY <3>0, <4>1
      <4> QED
        BY <3>1, <4>2
    <3>3. p.sup \in 1..MaxPort /\ p.app \in 1..MaxPort
      BY <1>1, <3>1
    <3>4. v[p.app] = n /\ v[p.sup] = u[p.sup]
      BY <1>4, <3>2, <3>3 DEF Grow
    <3> QED
      BY <1>4, <3>1, <3>2, <3>4
  <2> QED
    BY <2>1, <2>2
<1>6. AreApart(T)
  <2> SUFFICES ASSUME NEW s \in DOMAIN T, NEW t \in DOMAIN T,
                      NEW m \in DOMAIN T[s], NEW n \in DOMAIN T[t], m # n
               PROVE  Apart(T[s][m], T[t][n])
    BY DEF AreApart
  <2>1. CASE s # f /\ t # f
    BY <1>0, <2>1 DEF Flat, AreApart
  <2>2. CASE f \in {s, t}
    <3>1. NoHost \in {T[s][m].host, T[t][n].host}
      BY <1>0, <2>2
    <3> QED
      BY <1>2, <1>5, <3>1, ClaimedApart
  <2> QED
    BY <2>1, <2>2
<1>7. \A i \in DOMAIN es : IsWildcard(es[i]) => es[i].sup \in 1..MaxPort
  BY DEF Flat, EntriesAreValid, EntryIsValid, ValidPort
<1>8. Listening(es, v)
  BY <1>7 DEF Listening, Grow, Free
<1>9. OffListeners(T, es)
  <2> SUFFICES ASSUME NEW i \in DOMAIN es, IsWildcard(es[i]), NEW s \in DOMAIN T, NEW n \in DOMAIN T[s]
               PROVE  es[i].sup \notin {T[s][n].sup, T[s][n].app}
    BY DEF OffListeners
  <2>1. CASE s = f
    <3>1. n \in DOMAIN ps /\ T[s][n] = ps[n] /\ v[ps[n].sup] = n /\ v[ps[n].app] = n
      BY <1>0, <2>1 DEF Holds
    <3>2. v[es[i].sup] = "discovery:" /\ n # "discovery:"
      BY <1>8, <3>1 DEF Listening
    <3> QED
      BY <3>1, <3>2
  <2>2. CASE s # f
    BY <1>0, <2>2 DEF Flat, OffListeners
  <2> QED
    BY <2>1, <2>2
<1> QED
  BY <1>2, <1>3, <1>5, <1>6, <1>8, <1>9 DEF Flat

\* What loads still loads with fewer projects.
LEMMA LessIsFlat ==
  ASSUME NEW S, NEW T, NEW es, Flat(S, es), DOMAIN T = DOMAIN S,
         \A s \in DOMAIN S : \A n \in DOMAIN T[s] : n \in DOMAIN S[s] /\ T[s][n] = S[s][n]
  PROVE  Flat(T, es)
<1>1. DefinedOnce(T)
  BY DEF Flat, DefinedOnce
<1>2. AreValid(T) /\ OffListeners(T, es)
  BY DEF Flat, AreValid, OffListeners
<1>3. AreApart(T)
  BY DEF Flat, AreApart
<1> QED
  BY <1>1, <1>2, <1>3 DEF Flat

LEMMA SourcesAreNext ==
  ASSUME TypesInv'
  PROVE  /\ DOMAIN Sources' = DOMAIN Hand \cup {Main} /\ Sources'[Main] = conf'.projects
         /\ \A f \in DOMAIN Hand : f # Main /\ Sources'[f] = files'[f].projects
<1>1. DOMAIN files' = DOMAIN Hand /\ Main \notin DOMAIN Hand
  BY HandAssumption DEF TypesInv, FilesInv
<1> QED
  BY <1>1 DEF Sources, With

\* More ports in use
LEMMA GrowClaimed ==
  ASSUME NEW S, NEW es, NEW u, NEW v, Flat(S, es), Claimed(S, u), Listening(es, u), Grow(u, v)
  PROVE  Claimed(S, v) /\ Listening(es, v)
<1>1. \A s \in DOMAIN S : \A n \in DOMAIN S[s] :
        S[s][n].sup \in 1..MaxPort /\ S[s][n].app \in 1..MaxPort
  BY DEF Flat, AreValid, PortsAreValid, ValidPort
<1>2. \A i \in DOMAIN es : IsWildcard(es[i]) => es[i].sup \in 1..MaxPort
  BY DEF Flat, EntriesAreValid, EntryIsValid, ValidPort
<1>3. Listening(es, v)
  BY <1>2 DEF Listening, Grow, Free
<1>4. \A n : Shares(S, n) => n # Free
  BY DEF Shares, Claimed
<1>5. ASSUME NEW s \in DOMAIN S, NEW n \in DOMAIN S[s]
      PROVE  /\ n # Free /\ v[S[s][n].app] = n
             /\ v[S[s][n].sup] = n \/ (S[s][n].host # NoHost /\ Shares(S, v[S[s][n].sup]))
  <2>1. /\ n # Free /\ u[S[s][n].app] = n
        /\ u[S[s][n].sup] = n \/ (S[s][n].host # NoHost /\ Shares(S, u[S[s][n].sup]))
    BY DEF Claimed
  <2>2. S[s][n].sup \in 1..MaxPort /\ S[s][n].app \in 1..MaxPort
    BY <1>1
  <2>3. PICK p : p = S[s][n]
    OBVIOUS
  <2>4. v[p.app] = u[p.app] /\ v[p.sup] = u[p.sup]
    BY <1>4, <2>1, <2>2, <2>3 DEF Grow
  <2> QED
    BY <2>1, <2>3, <2>4
<1>6. Claimed(S, v)
  BY <1>5 DEF Claimed
<1> QED
  BY <1>3, <1>6

\* A sync begins with a configuration that loads.
LEMMA BeginLoads ==
  ASSUME TypesInv, DraftInv, NEW home, SyncBegins
  PROVE  LoadInv(home)'
<1>0. /\ UNCHANGED <<files, conf>> /\ ConfigLoads /\ draft' = << >>
      /\ cfg' = [entries |-> conf.entries, source |-> [n \in DOMAIN Merge(Sources) |-> SourceOf(n)]]
      /\ used' = Used(Merge(Sources), conf.entries)
  BY DEF SyncBegins, DraftInv, disk, outside
<1>1. Sources' = Sources
  BY <1>0 DEF Sources
<1>2. Flat(Sources, conf.entries)
  BY <1>0, LoadsWhen DEF ConfigLoads
<1>3. \A s \in DOMAIN Sources : Free \notin DOMAIN Sources[s]
  <2>1. Free \notin DOMAIN conf.projects
    BY ConfsAssumption DEF TypesInv, WorldInv
  <2>2. \A f \in DOMAIN Hand : Free \notin DOMAIN files[f].projects
    BY DEF TypesInv, FilesInv, IsFragment
  <2> QED
    BY <2>1, <2>2, SourcesAre
<1>4. Claimed(Sources, used') /\ Listening(conf.entries, used')
  BY <1>0, <1>2, <1>3, UsedIsClaimed
<1>5. ASSUME NEW s \in DOMAIN Sources, NEW n \in DOMAIN Sources[s]
      PROVE  n \in DOMAIN cfg'.source /\ cfg'.source[n] = s
  <2>1. n \in DOMAIN Merge(Sources)
    BY <1>2, Merged DEF Flat
  <2>2. SourceOf(n) \in DOMAIN Sources /\ n \in DOMAIN Sources[SourceOf(n)]
    BY <1>5 DEF SourceOf
  <2>3. SourceOf(n) = s
    BY <1>2, <2>2 DEF Flat, DefinedOnce
  <2> QED
    BY <1>0, <2>1, <2>3
<1>6. NamesInv(home)'
  BY <1>0, <1>5, SourcesAre DEF NamesInv
<1> QED
  BY <1>0, <1>1, <1>2, <1>4, <1>6 DEF LoadInv

\* The projects that syncEntry writes: their names are in no other file.
LEMMA NamesAreOwn ==
  ASSUME TypesInv, NEW home, NamesInv(home), NEW e, ProxyEntry(e),
         NEW n, Own(e, n), home[n] = e.name
  PROVE  /\ \A g \in DOMAIN Sources \ {e.name} : n \notin DOMAIN Sources[g]
         /\ IF n \in DOMAIN cfg.source THEN cfg.source[n] = e.name ELSE home[n] = e.name
<1>1. e.name \in DOMAIN Hand
  BY ConfsAssumption DEF ProxyEntry
<1> QED
  BY <1>1, SourcesAre DEF Own, NamesInv

\* The projects of a managed file hold their ports.
LEMMA FileHolds ==
  ASSUME TypesInv, Claimed(Sources, used), NEW f \in DOMAIN Hand, files[f].managed
  PROVE  /\ Holds(used, files[f].projects)
         /\ \A n \in DOMAIN Sources[f] : Sources[f][n].host = NoHost
<1>1. f \in DOMAIN Sources /\ Sources[f] = files[f].projects
  BY SourcesAre
<1>2. \A n \in DOMAIN Sources[f] : Sources[f][n].host = NoHost
  BY <1>1 DEF TypesInv, FilesInv, Sound
<1> QED
  BY <1>1, <1>2 DEF Claimed, Holds

\* syncEntry, up to the write
LEMMA BuildLoads ==
  ASSUME TypesInv, DraftInv, NEW home, HomesApart(home), LoadInv(home), NEW e, SyncBuilds(e)
  PROVE  LoadInv(home)'
<1>0. /\ AtEntry(e) /\ ~IsWildcard(e) /\ pc = "sync" /\ draft = << >>
      /\ UNCHANGED <<files, conf, cfg, pc>>
  BY DEF SyncBuilds, AtEntry, disk, outside
<1>1. /\ Flat(Sources, conf.entries) /\ NamesInv(home)
      /\ Claimed(Sources, used) /\ Listening(conf.entries, used)
  BY <1>0 DEF LoadInv
<1>2. Sources' = Sources
  BY <1>0 DEF Sources
<1>3. CASE draft' = << >>
  <2>1. UNCHANGED used
    BY <1>3 DEF SyncBuilds
  <2> QED
    BY <1>0, <1>1, <1>2, <1>3, <2>1 DEF LoadInv, NamesInv
<1>4. CASE draft' # << >>
  <2>1. PICK x, d : x = files[e.name].projects /\ d = Reconciled(e, x)
    OBVIOUS
  <2>2. /\ e = Head(todo) /\ UNCHANGED todo /\ files[e.name].managed /\ used' = d.used
        /\ Making(e, x, d) /\ Ready(e, x) /\ draft'[1] = d.final
    BY <1>4, <2>1, DraftIsMade
  <2>3. e.name \in DOMAIN Hand /\ ProxyEntry(e)
    BY <1>0, EntryIsLoaded DEF ProxyEntry
  <2>4. Holds(used, x)
    BY <1>1, <2>1, <2>2, <2>3, FileHolds
  <2>5. DOMAIN used = 1..MaxPort /\ ok \in BOOLEAN
    BY <1>0 DEF TypesInv, LoadedInv, FlagsInv
  <2>6. Grow(used, used') /\ Holds(used', d.final)
    BY <2>1, <2>2, <2>4, <2>5, PortsAreClaimed DEF Claiming
  <2>7. Claimed(Sources, used') /\ Listening(conf.entries, used')
    BY <1>1, <2>6, GrowClaimed
  <2>8. \A n \in DOMAIN d.final : home[n] = e.name
    BY <2>2, <2>3 DEF Making, HomesApart, ProxyEntry
  <2> QED
    BY <1>0, <1>1, <1>2, <2>2, <2>6, <2>7, <2>8 DEF LoadInv, NamesInv
<1> QED
  BY <1>3, <1>4

\* The write
LEMMA EntryLoads ==
  ASSUME TypesInv, DraftInv, NEW home, LoadInv(home), NEW e, SyncWrites(e)
  PROVE  LoadInv(home)' /\ Flat(Sources', conf'.entries)
<1>1. PICK f, p : f = e.name /\ p = draft[1]
  OBVIOUS
<1>2. /\ AtEntry(e) /\ ~IsWildcard(e) /\ pc = "sync" /\ e = Head(todo) /\ f \in DOMAIN Hand
      /\ files[f].managed /\ draft # << >> /\ draft' = << >>
      /\ \A n \in DOMAIN p : n \in Names /\ Sound(f, p[n]) /\ Own(e, n)
      /\ UNCHANGED <<conf, cfg, used, pc>>
  BY <1>1, DraftIs DEF IsDraft, SyncWrites, outside
<1>3. /\ Flat(Sources, conf.entries) /\ NamesInv(home)
      /\ Claimed(Sources, used) /\ Listening(conf.entries, used)
      /\ Holds(used, p) /\ \A n \in DOMAIN p : home[n] = f
  BY <1>1, <1>2 DEF LoadInv
<1>4. TypesInv' /\ ProxyEntry(e)
  BY <1>2, SyncWritesTypes, EntryIsLoaded DEF ProxyEntry
<1>5. CASE files' = files
  <2>1. Sources' = Sources
    BY <1>2, <1>5 DEF Sources
  <2> QED
    BY <1>2, <1>3, <1>5, <2>1 DEF LoadInv, NamesInv
<1>6. CASE files' = Written(f, p)
  <2>1. files'[f].projects = p /\ \A g \in DOMAIN Hand \ {f} : files'[g] = files[g]
    BY <1>2, <1>6, WrittenFiles DEF TypesInv
  <2>2. Rewritten(Sources, Sources', f, p)
    BY <1>2, <1>4, <2>1, SourcesAre, SourcesAreNext DEF Rewritten
  <2>3. \A n \in DOMAIN p :
          /\ \A g \in DOMAIN Sources \ {f} : n \notin DOMAIN Sources[g]
          /\ IF n \in DOMAIN cfg.source THEN cfg.source[n] = f ELSE home[n] = f
    BY <1>1, <1>2, <1>3, <1>4, NamesAreOwn
  <2>4. \A n \in DOMAIN p : /\ p[n].host = NoHost /\ n \notin {Free, "discovery:"}
                            /\ PortsAreValid(p[n])
    BY <1>2, TreesAssumption DEF Sound
  <2>5. \A n \in DOMAIN Sources[f] : Sources[f][n].host = NoHost
    BY <1>2, <1>3, FileHolds
  <2>6. Grow(used, used)
    BY DEF Grow
  <2>7. Flat(Sources', conf.entries) /\ Claimed(Sources', used) /\ Listening(conf.entries, used)
    BY <1>3, <2>2, <2>3, <2>4, <2>5, <2>6, StillFlat
  <2>8. NamesInv(home)'
    BY <1>2, <1>3, <2>1, <2>3 DEF NamesInv
  <2> QED
    BY <1>2, <2>7, <2>8 DEF LoadInv
<1> QED
  BY <1>1, <1>5, <1>6 DEF SyncWrites

\* project:remove leaves fewer projects.
LEMMA RemoveLess ==
  ASSUME TypesInv, RemoveBegins
  PROVE  /\ DOMAIN Sources' = DOMAIN Sources
         /\ \A s \in DOMAIN Sources : \A n \in DOMAIN Sources'[s] :
              n \in DOMAIN Sources[s] /\ Sources'[s][n] = Sources[s][n]
<1>1. TypesInv' /\ UNCHANGED conf
  BY RemoveTypes DEF RemoveBegins, outside
<1>3. PICK f \in DOMAIN files : \E m : files' = [files EXCEPT ![f].projects = Without(@, m)]
  BY DEF RemoveBegins
<1>4. PICK m : files' = [files EXCEPT ![f].projects = Without(@, m)]
  BY <1>3
<1>5. /\ \A g \in DOMAIN Hand \ {f} : files'[g] = files[g]
      /\ files'[f].projects = Without(files[f].projects, m) /\ f \in DOMAIN Hand
  <2>1. files = [g \in DOMAIN Hand |-> files[g]]
        /\ files[f] = [managed |-> files[f].managed, projects |-> files[f].projects]
    BY <1>3 DEF TypesInv, FilesInv
  <2> QED
    BY <1>3, <1>4, <2>1
<1>6. \A g \in DOMAIN Hand : \A n \in DOMAIN files'[g].projects :
        n \in DOMAIN files[g].projects /\ files'[g].projects[n] = files[g].projects[n]
  BY <1>5 DEF Without
<1> QED
  BY <1>1, <1>6, SourcesAre, SourcesAreNext

LEMMA RemoveLoads ==
  ASSUME TypesInv, RemoveBegins
  PROVE  Flat(Sources', conf'.entries)
<1>1. UNCHANGED conf /\ Flat(Sources, conf.entries)
  BY LoadsWhen DEF RemoveBegins, ConfigLoads, outside
<1> QED
  BY <1>1, RemoveLess, LessIsFlat

LEMMA NextLoads ==
  ASSUME TypesInv, DraftInv, NEW home, HomesApart(home), LoadInv(home), [Next]_vars
  PROVE  LoadInv(home)' /\ (files' # files => Flat(Sources', conf'.entries))
<1>1. CASE pc' # "sync" /\ UNCHANGED files
  BY <1>1 DEF LoadInv
<1>2. ASSUME UNCHANGED <<files, conf, cfg, used, pc>>, draft' = << >> \/ UNCHANGED <<draft, todo>>
      PROVE  LoadInv(home)' /\ UNCHANGED files
  <2>1. Sources' = Sources
    BY <1>2 DEF Sources
  <2>2. CASE draft' = << >>
    BY <1>2, <2>1, <2>2 DEF LoadInv, NamesInv
  <2>3. CASE UNCHANGED <<draft, todo>>
    BY <1>2, <2>1, <2>3 DEF LoadInv, NamesInv
  <2> QED
    BY <1>2, <2>2, <2>3
<1>3. CASE SyncBegins
  BY <1>3, BeginLoads DEF SyncBegins, disk
<1>4. CASE \E e : SyncBuilds(e)
  BY <1>4, BuildLoads DEF SyncBuilds, disk
<1>5. CASE \E e : SyncWrites(e)
  BY <1>5, EntryLoads
<1>6. CASE \E e : ClaimLooks(e) \/ ClaimRuns(e)
  <2>1. UNCHANGED <<files, conf, cfg, used, pc, draft>>
    BY <1>6 DEF ClaimLooks, ClaimRuns, disk, outside
  <2>2. draft = << >>
    BY <1>6 DEF ClaimLooks, ClaimRuns, AtEntry, DraftInv
  <2> QED
    BY <1>2, <2>1, <2>2
<1>7. CASE HerdLooks \/ HerdRuns \/ TreesChange \/ HerdUsed \/ UNCHANGED vars
  BY <1>2, <1>7 DEF HerdLooks, HerdRuns, TreesChange, HerdUsed, vars, disk, outside, command
<1>8. CASE RetireBegins \/ RetireLooks \/ RetireRuns \/ SyncEnds \/ RemoveEnds \/ Crash \/ ConfigEdited
  BY <1>1, <1>8 DEF RetireBegins, RetireLooks, RetireRuns, SyncEnds, RemoveEnds, Crash, CommandOver,
     ConfigEdited, disk, command
<1>9. CASE RemoveBegins
  BY <1>9, RemoveLoads DEF RemoveBegins, LoadInv
<1> QED
  BY <1>3, <1>4, <1>5, <1>6, <1>7, <1>8, <1>9 DEF Next

\* A file is changed by syncEntry and by project:remove only.
LEMMA FilesChange ==
  ASSUME [Next]_vars, files' # files
  PROVE  RemoveBegins \/ \E e : SyncWrites(e)
BY DEF Next, SyncBegins, SyncBuilds, ClaimLooks, ClaimRuns, HerdLooks, HerdRuns, RetireBegins,
   RetireLooks, RetireRuns, SyncEnds, RemoveEnds, Crash, TreesChange, ConfigEdited, HerdUsed, vars, disk

\* A write leaves a configuration that loads, or is one of a risky entry's file.
LEMMA NextStillLoads ==
  ASSUME TypesInv, DraftInv, [Next]_vars, files' # files, ConfigLoads,
         Flat(Sources', conf'.entries)
  PROVE  ConfigLoads' \/ \E e \in Range(conf.entries) :
           Risky(e) /\ files'[e.name] # files[e.name]
<1>0. PICK S, T : S = Sources /\ T = Sources'
  OBVIOUS
<1>1. UNCHANGED conf /\ conf.max \in Nat
  <2>1. UNCHANGED conf
    BY FilesChange DEF RemoveBegins, SyncWrites, outside
  <2> QED
    BY <2>1, ConfsAssumption DEF TypesInv, WorldInv
<1>2. Loads(S, conf.entries, conf.max, {}, TRUE) /\ IsFiniteSet(DOMAIN Merge(S)) /\ AreFine(S)
  BY <1>0, NamesAreFinite, LoadsWhen DEF ConfigLoads
<1>3. ASSUME AreFine(T),
             \A t \in DOMAIN T : \A n \in DOMAIN T[t] : conf.max > 0 /\ T[t][n].always =>
               \E s \in DOMAIN S : n \in DOMAIN S[s] /\ S[s][n].always
      PROVE  ConfigLoads'
  <2>1. Loads(T, conf.entries, conf.max, {}, TRUE)
    BY <1>0, <1>1, <1>2, <1>3, StillLoads
  <2> QED
    BY <1>0, <1>1, <2>1 DEF ConfigLoads
<1>4. CASE RemoveBegins
  <2>1. \A t \in DOMAIN T : t \in DOMAIN S /\ \A n \in DOMAIN T[t] : n \in DOMAIN S[t] /\ T[t][n] = S[t][n]
    BY <1>0, <1>4, RemoveLess
  <2>2. AreFine(T)
    BY <1>2, <2>1 DEF AreFine
  <2> QED
    BY <1>3, <2>1, <2>2
<1>5. ASSUME NEW e, SyncWrites(e), ~Risky(e) \/ files'[e.name] = files[e.name]
      PROVE  ConfigLoads'
  <2>1. PICK f, p, x : f = e.name /\ p = draft[1] /\ x = files[f].projects
    OBVIOUS
  <2>2. /\ AtEntry(e) /\ ~IsWildcard(e) /\ f \in DOMAIN Hand
        /\ \A n \in DOMAIN p : Copies(e, x, n, p[n])
    BY <1>5, <2>1, DraftIs DEF IsDraft
  <2>3. files' = Written(f, p)
    BY <1>5, <2>1 DEF SyncWrites
  <2>4. files'[f].projects = p /\ \A g \in DOMAIN Hand \ {f} : files'[g] = files[g]
    BY <2>2, <2>3, WrittenFiles DEF TypesInv
  <2>5. files'[f] # files[f]
    <3>1. files = [g \in DOMAIN Hand |-> files[g]] /\ files' = [g \in DOMAIN Hand |-> files'[g]]
      BY <2>2, <2>3, WrittenFiles DEF TypesInv, FilesInv
    <3> QED
      BY <2>4, <3>1
  <2>6. e.rest \notin {"bad", "url"} /\ ~(e.always /\ conf.max > 0)
    BY <1>5, <2>1, <2>2, <2>5, EntryIsLoaded DEF Risky, EntryIsValid
  <2>7. TypesInv'
    BY <1>5, SyncWritesTypes
  <2>8. \A t \in DOMAIN T : t \in DOMAIN S
    BY <1>0, <2>7, SourcesAre, SourcesAreNext
  <2>9. ASSUME NEW t \in DOMAIN T, NEW n \in DOMAIN T[t]
        PROVE  \/ n \in DOMAIN S[t] /\ T[t][n] = S[t][n]
               \/ T[t][n].always = e.always /\ T[t][n].rest = e.rest
    <3>1. CASE t = f
      <4>1. T[t] = p /\ S[t] = x
        BY <1>0, <2>1, <2>2, <2>4, <2>7, <3>1, SourcesAre, SourcesAreNext
      <4> QED
        BY <2>2, <2>9, <4>1 DEF Copies
    <3>2. CASE t # f
      <4>1. T[t] = S[t]
        BY <1>0, <1>1, <2>4, <2>7, <2>9, <3>2, SourcesAre, SourcesAreNext
      <4> QED
        BY <2>9, <4>1
    <3> QED
      BY <3>1, <3>2
  <2>10. AreFine(T)
    BY <1>2, <2>6, <2>8, <2>9 DEF AreFine
  <2>11. ASSUME NEW t \in DOMAIN T, NEW n \in DOMAIN T[t], conf.max > 0, T[t][n].always
         PROVE  \E s \in DOMAIN S : n \in DOMAIN S[s] /\ S[s][n].always
    <3>1. T[t][n].always # e.always
      BY <2>6, <2>11
    <3> QED
      BY <2>8, <2>9, <2>11, <3>1
  <2> QED
    BY <1>3, <2>10, <2>11
<1>6. ASSUME NEW e, SyncWrites(e), Risky(e), files'[e.name] # files[e.name]
      PROVE  \E c \in Range(conf.entries) : Risky(c) /\ files'[c.name] # files[c.name]
  <2>1. AtEntry(e) /\ cfg.entries = conf.entries
    BY <1>6, DraftIs DEF TypesInv, LoadedInv
  <2>2. e \in Range(conf.entries)
    BY <2>1, EntryIsLoaded DEF Range
  <2> QED
    BY <1>6, <2>2
<1> QED
  BY <1>4, <1>5, <1>6, FilesChange

-----------------------------------------------------------------------------
(* The proxies of the registered worktrees *)

\* The base names of the wildcard entries, and the condition that no worktree
\* has one of them as its site.
Bases == {e.base : e \in {d \in AllEntries : IsWildcard(d)}}
BasesApart == \A n \in Names : Site(n) \notin Bases

\* What is recorded for n is the base of an entry of that name.
BaseOf(n, b) == \E e \in AllEntries : IsWildcard(e) /\ e.name = n /\ e.base = b
BasesKnown ==
  /\ \A n \in DOMAIN records : BaseOf(n, records[n].base)
  /\ \A n \in DOMAIN mem : BaseOf(n, mem[n].base)

\* A proxy action is for a project that some file has, an unproxy action for a
\* name that none has.
TaskFits(t) ==
  /\ t.site = Site(t.name) /\ t.name \in Names
  /\ IF t.kind = "proxy"
     THEN \E f \in DOMAIN Hand : /\ t.name \in DOMAIN files[f].projects
                                 /\ files[f].projects[t.name].sup = t.port
     ELSE \A f \in DOMAIN Hand : t.name \notin DOMAIN files[f].projects
TasksFit ==
  /\ (pc = "idle" => tasks = << >>) /\ (pc = "retire" => todo = << >>)
  /\ pc = "sync" /\ ~opts.dry => \A i \in DOMAIN tasks : TaskFits(tasks[i])

\* The projects of an entry that was reconciled have their proxies, or will.
InHand(n, p) ==
  ProxiesTo(Site(n), p) \/ \E j \in DOMAIN tasks : tasks[j] = Task("proxy", n, Site(n), p)
EntryDone(e) ==
  ~IsWildcard(e) /\ e.herd # "off" =>
    \A n \in DOMAIN files[e.name].projects :
      n \in Names /\ InHand(n, files[e.name].projects[n].sup)
EntriesDone ==
  pc \in {"sync", "retire"} /\ ok /\ opts.herd /\ ~opts.dry =>
    \A i \in 1..(Len(cfg.entries) - Len(todo)) : EntryDone(cfg.entries[i])

ProxyInv == BasesKnown /\ TasksFit /\ EntriesDone

\* The entries done with are entries.
LEMMA DoneAreEntries ==
  ASSUME TypesInv, pc \in {"sync", "retire"}
  PROVE  /\ Len(cfg.entries) \in Nat /\ Len(todo) \in Nat /\ Len(todo) <= Len(cfg.entries)
         /\ DOMAIN cfg.entries = 1..Len(cfg.entries)
         /\ \A i \in DOMAIN cfg.entries : cfg.entries[i] \in AllEntries
<1>1. PICK s, t : s = todo /\ t = cfg.entries
  OBVIOUS
<1>2. t \in Seq(Range(t)) /\ IsEnd(s, t) /\ t = conf.entries /\ conf \in Confs
  BY <1>1, ConfsAssumption DEF TypesInv, LoadedInv, WorldInv
<1>3. Len(t) \in Nat /\ Len(s) \in Nat /\ Len(s) <= Len(t) /\ DOMAIN t = 1..Len(t)
  BY <1>2 DEF IsEnd
<1>4. \A i \in DOMAIN t : t[i] \in AllEntries
  BY <1>2 DEF AllEntries, Range
<1> QED
  BY <1>1, <1>3, <1>4

\* A registration in mem or on record is of an entry.
LEMMA BasesStayKnown ==
  ASSUME TypesInv, BasesKnown, [Next]_vars
  PROVE  BasesKnown'
<1>1. CASE UNCHANGED <<records, mem>>
  BY <1>1 DEF BasesKnown
<1>2. ASSUME NEW e, ClaimLooks(e) \/ ClaimRuns(e) PROVE BasesKnown'
  <2>1. BaseOf(e.name, e.base)
    BY <1>2, EntryIsLoaded DEF ClaimLooks, ClaimRuns, BaseOf
  <2>2. records' = records
        /\ (mem' = mem \/ mem' = With(mem, e.name, [base |-> e.base, sup |-> e.sup]))
    BY <1>2 DEF ClaimLooks, ClaimRuns, Recorded, disk
  <2> QED
    BY <2>1, <2>2 DEF BasesKnown, With
<1>3. CASE RetireLooks \/ RetireRuns
  <2>1. records' = records /\ (mem' = mem \/ \E n : mem' = Without(mem, n))
    BY <1>3 DEF RetireLooks, RetireRuns, Forgotten, disk
  <2> QED
    BY <2>1 DEF BasesKnown, Without
<1>4. CASE SyncBegins \/ SyncEnds \/ RemoveEnds \/ Crash
  <2>1. records' \in {records, mem} /\ mem' \in {records, << >>}
    BY <1>4 DEF SyncBegins, SyncEnds, RemoveEnds, Crash, CommandOver, disk
  <2>2. DOMAIN << >> = {}
    OBVIOUS
  <2> QED
    BY <2>1, <2>2 DEF BasesKnown
<1>5. CASE (\E e : SyncBuilds(e) \/ SyncWrites(e)) \/ HerdLooks \/ HerdRuns \/ RetireBegins
           \/ RemoveBegins
  BY <1>1, <1>5 DEF SyncBuilds, SyncWrites, HerdLooks, HerdRuns, RetireBegins, RemoveBegins, disk
<1>6. CASE TreesChange \/ ConfigEdited \/ HerdUsed \/ UNCHANGED vars
  BY <1>1, <1>6 DEF TreesChange, ConfigEdited, HerdUsed, vars, disk, command
<1> QED
  BY <1>2, <1>3, <1>4, <1>5, <1>6 DEF Next

\* A change of sites that leaves a worktree's proxy alone
Touches(h) == \E q : sites' \in {sites, With(sites, h, q), Without(sites, h)}

LEMMA OtherSite ==
  ASSUME NEW g, NEW p, NEW h, h # g, ProxiesTo(g, p), Touches(h)
  PROVE  g \in DOMAIN sites' /\ sites'[g] = p
BY DEF ProxiesTo, Exists, With, Without, Touches

\* What keeps the entries done with done
LEMMA StillDone ==
  ASSUME TypesInv, EntriesDone, pc \in {"sync", "retire"}, UNCHANGED <<files, cfg, opts>>,
         ok' => ok, Len(todo') = Len(todo),
         ok' /\ opts.herd /\ ~opts.dry =>
           \A e \in AllEntries : EntryDone(e) => EntryDone(e)'
  PROVE  EntriesDone'
<1> SUFFICES ASSUME ok', opts.herd, ~opts.dry, NEW i \in 1..(Len(cfg.entries) - Len(todo))
             PROVE  EntryDone(cfg.entries[i])'
  BY DEF EntriesDone
<1>1. i \in DOMAIN cfg.entries /\ cfg.entries[i] \in AllEntries
  BY DoneAreEntries
<1>2. PICK e : e = cfg.entries[i]
  OBVIOUS
<1>3. EntryDone(e)
  BY <1>2 DEF EntriesDone
<1>4. EntryDone(e)'
  BY <1>1, <1>2, <1>3
<1> QED
  BY <1>2, <1>4

\* What a build skips is not forgotten.
LEMMA BuildsOk ==
  ASSUME TypesInv, DraftInv, NEW home, LoadInv(home), NEW e, SyncBuilds(e), ok'
  PROVE  ok /\ UNCHANGED todo /\ draft' # << >>
<1>1. /\ AtEntry(e) /\ ~IsWildcard(e) /\ pc = "sync" /\ files[e.name].managed
      /\ UNCHANGED todo /\ draft' # << >>
  BY DEF SyncBuilds, AtEntry
<1>2. PICK x, d : x = files[e.name].projects /\ d = Reconciled(e, x)
  OBVIOUS
<1>3. Ready(e, x) /\ ok' = d.ok /\ e.name \in DOMAIN Hand
  BY <1>1, <1>2, DraftIsMade, EntryIsLoaded
<1>4. Claimed(Sources, used)
  BY <1>1 DEF LoadInv
<1>5. Holds(used, x)
  BY <1>1, <1>2, <1>3, <1>4, FileHolds
<1>6. DOMAIN used = 1..MaxPort /\ ok \in BOOLEAN
  BY <1>1 DEF TypesInv, LoadedInv, FlagsInv
<1>7. Claiming(d)
  BY <1>2, <1>3, <1>5, <1>6, PortsAreClaimed
<1> QED
  BY <1>1, <1>3, <1>7 DEF Claiming

LEMMA BuildProxies ==
  ASSUME TypesInv, DraftInv, NEW home, LoadInv(home), TasksFit, EntriesDone, NEW e, SyncBuilds(e)
  PROVE  TasksFit' /\ EntriesDone'
<1>1. /\ pc = "sync" /\ tasks = << >> /\ DOMAIN << >> = {}
      /\ UNCHANGED <<files, sites, pc, opts, cfg, tasks>>
  BY DEF SyncBuilds, AtEntry, disk
<1>2. TasksFit'
  BY <1>1 DEF TasksFit
<1>3. CASE ~ok'
  BY <1>2, <1>3 DEF EntriesDone
<1>4. CASE ok'
  <2>1. ok /\ UNCHANGED todo
    BY <1>4, BuildsOk
  <2>2. \A c : EntryDone(c) => EntryDone(c)'
    BY <1>1 DEF EntryDone, InHand, ProxiesTo, Exists
  <2> QED
    BY <1>1, <1>2, <2>1, <2>2, StillDone
<1> QED
  BY <1>2, <1>3, <1>4

\* syncEntry leaves a proxy action for every project of its file.
LEMMA EntryProxies ==
  ASSUME TypesInv, DraftInv, NEW home, LoadInv(home), TasksFit, EntriesDone, NEW e, SyncWrites(e)
  PROVE  TasksFit' /\ EntriesDone'
<1>0. /\ AtEntry(e) /\ ~IsWildcard(e) /\ pc = "sync" /\ tasks = << >> /\ todo' = Tail(todo)
      /\ UNCHANGED <<sites, cfg, pc, opts>>
  BY DraftIs DEF SyncWrites, AtEntry, outside
<1>1. DOMAIN << >> = {}
  OBVIOUS
<1>2. CASE ok' = FALSE /\ tasks' = tasks
  BY <1>0, <1>1, <1>2 DEF TasksFit, EntriesDone
<1>3. CASE opts.dry
  BY <1>0, <1>3 DEF TasksFit, EntriesDone
<1>5. PICK f, x, p : f = e.name /\ x = files[f].projects /\ p = draft[1]
  OBVIOUS
<1>4. CASE /\ ~opts.dry /\ files' = Written(f, p)
           /\ tasks' = HerdActions(e, p, x) /\ UNCHANGED ok
  <2>1. /\ IsFragment(x) /\ IsFragment(p) /\ files[f].managed
        /\ \A n \in DOMAIN p : n \in Names
    BY <1>5, DraftIs DEF IsDraft
  <2>2. /\ f \in DOMAIN Hand
        /\ \E i \in DOMAIN cfg.entries : e = cfg.entries[i] /\ i = Len(cfg.entries) - Len(todo) + 1
        /\ Len(todo) \in Nat \ {0} /\ Len(Tail(todo)) = Len(todo) - 1
    BY <1>0, <1>5, EntryIsLoaded
  <2>4. /\ tasks' \in Seq(Proxies(p) \cup Unproxies(x, p))
        /\ e.herd # "off" /\ opts.herd => \A n \in DOMAIN p : \E i \in 1..Len(tasks') :
             tasks'[i] = Task("proxy", n, Site(n), p[n].sup)
    <3>1. PICK t : t = tasks' /\ t = HerdActions(e, p, x)
      BY <1>4
    <3>2. IsFiniteSet(DOMAIN p) /\ IsFiniteSet(DOMAIN x)
      BY <2>1 DEF IsFragment
    <3>3. /\ t \in Seq(Proxies(p) \cup Unproxies(x, p))
          /\ e.herd # "off" /\ opts.herd => \A n \in DOMAIN p : \E i \in 1..Len(t) :
               t[i] = Task("proxy", n, Site(n), p[n].sup)
      BY <3>1, <3>2, ActionsListed
    <3> QED
      BY <3>1, <3>3
  <2>5. files'[f].projects = p /\ \A g \in DOMAIN Hand \ {f} : files'[g] = files[g]
    BY <1>4, <2>2, WrittenFiles DEF TypesInv
  <2>6. DOMAIN tasks' = 1..Len(tasks')
    BY <2>4, SeqIsList
  <2>7. TasksFit'
    <3>1. ASSUME NEW t \in Proxies(p) PROVE TaskFits(t)'
      <4>1. PICK n \in DOMAIN p : t = Task("proxy", n, Site(n), p[n].sup)
        BY <3>1 DEF Proxies
      <4>2. t.kind = "proxy" /\ t.name = n /\ t.site = Site(n) /\ t.port = p[n].sup
        BY <4>1 DEF Task
      <4>3. n \in Names
        BY <2>1
      <4> QED
        BY <2>2, <2>5, <4>2, <4>3 DEF TaskFits
    <3>2. ASSUME NEW t \in Unproxies(x, p) PROVE TaskFits(t)'
      <4>1. PICK n \in DOMAIN x \ DOMAIN p : t = Task("unproxy", n, Site(n), x[n].sup)
        BY <3>2 DEF Unproxies
      <4>2. t.kind = "unproxy" /\ t.name = n /\ t.site = Site(n)
        BY <4>1 DEF Task
      <4>3. \A g \in DOMAIN Hand \ {f} : n \notin DOMAIN files[g].projects
        <5>1. DefinedOnce(Sources)
          BY <1>0 DEF LoadInv, Flat
        <5>2. n \in DOMAIN Sources[f] /\ f \in DOMAIN Sources
          BY <1>5, <2>2, <4>1, SourcesAre
        <5> QED
          BY <5>1, <5>2, SourcesAre DEF DefinedOnce
      <4>4. \A g \in DOMAIN Hand : n \notin DOMAIN files'[g].projects
        BY <2>5, <4>1, <4>3
      <4>5. n \in Names
        BY <1>5, <2>1, <2>2, <4>1 DEF TypesInv, FilesInv
      <4> QED
        BY <4>2, <4>4, <4>5 DEF TaskFits
    <3>3. \A i \in DOMAIN tasks' : tasks'[i] \in Proxies(p) \cup Unproxies(x, p)
      BY <2>4, SeqIsList
    <3> QED
      BY <1>0, <3>1, <3>2, <3>3 DEF TasksFit
  <2>8. EntriesDone'
    <3> SUFFICES ASSUME ok', opts.herd, NEW i \in 1..(Len(cfg.entries) - Len(todo'))
                 PROVE  EntryDone(cfg.entries[i])'
      BY <1>0 DEF EntriesDone
    <3>1. PICK l, m : l = Len(cfg.entries) /\ m = Len(todo) /\ l \in Nat /\ m \in Nat \ {0} /\ m <= l
      BY <1>0, <2>2, DoneAreEntries
    <3>2. i \in 1..(l - m + 1) /\ i \in DOMAIN cfg.entries
      BY <1>0, <2>2, <3>1, DoneAreEntries
    <3>3. CASE i = l - m + 1
      <4>1. cfg.entries[i] = e
        BY <2>2, <3>1, <3>3
      <4>2. DOMAIN p \subseteq Names
        BY <2>1
      <4>3. EntryDone(e)'
        BY <1>5, <2>4, <2>5, <2>6, <4>2 DEF EntryDone, InHand
      <4> QED
        BY <1>0, <4>1, <4>3
    <3>4. CASE i # l - m + 1
      <4>1. PICK c : c = cfg.entries[i]
        OBVIOUS
      <4>2. EntryDone(c)
        <5>1. i \in 1..(Len(cfg.entries) - Len(todo))
          BY <3>1, <3>2, <3>4
        <5> QED
          BY <1>0, <1>4, <4>1, <5>1 DEF EntriesDone
      <4>3. c.name # f
        <5>1. EntriesAreValid(cfg.entries)
          BY <1>0 DEF TypesInv, LoadedInv
        <5> QED
          BY <1>5, <2>2, <3>1, <3>2, <3>4, <4>1, <5>1 DEF EntriesAreValid
      <4>4. ~IsWildcard(c) => c.name \in DOMAIN Hand
        BY <1>0, <3>2, <4>1, DoneAreEntries, ConfsAssumption
      <4>5. \A n, q : InHand(n, q) => InHand(n, q)'
        BY <1>0, <1>1 DEF InHand, ProxiesTo, Exists
      <4>6. EntryDone(c)'
        BY <2>5, <4>2, <4>3, <4>4, <4>5 DEF EntryDone
      <4> QED
        BY <1>0, <4>1, <4>6
    <3> QED
      BY <3>3, <3>4
  <2> QED
    BY <2>7, <2>8
<1> QED
  BY <1>2, <1>3, <1>4, <1>5 DEF SyncWrites

\* One Herd action: the proxy it makes is the one its project waits for, and
\* it touches no other's.
LEMMA ActionProxies ==
  ASSUME TypesInv, NEW home, LoadInv(home), TasksFit, EntriesDone, HerdLooks \/ HerdRuns
  PROVE  TasksFit' /\ EntriesDone'
<1>a. /\ pc \in {"sync", "remove"} /\ tasks # << >>
      /\ UNCHANGED <<files, cfg, pc, opts, todo>>
  BY DEF HerdLooks, HerdRuns, disk
<1>1. PICK t : t = Head(tasks)
  OBVIOUS
<1>7. /\ ok' => ok
      /\ UNCHANGED <<sites, tasks>> \/ tasks' = Tail(tasks)
      /\ sites' \in {sites, With(sites, t.site, t.port), Without(sites, t.site)}
      /\ tasks' # tasks /\ ok' /\ ~opts.dry =>
           IF t.kind = "proxy"
           THEN (ProxiesTo(t.site, t.port) /\ UNCHANGED sites) \/ sites' = With(sites, t.site, t.port)
           ELSE sites' \in {sites, Without(sites, t.site)}
  <2>1. ok \in BOOLEAN
    BY DEF TypesInv, FlagsInv
  <2>2. CASE HerdLooks
    <3>1. UNCHANGED sites
      BY <2>2 DEF HerdLooks
    <3> QED
      BY <1>1, <2>1, <2>2, <3>1, ActionLooked
  <2>3. CASE HerdRuns
    BY <1>1, <2>1, <2>3, ActionRan
  <2> QED
    BY <2>2, <2>3
<1>8. CASE UNCHANGED <<sites, tasks>>
  <2>1. TasksFit'
    BY <1>a, <1>8 DEF TasksFit, TaskFits
  <2>2. \A c : EntryDone(c) => EntryDone(c)'
    BY <1>a, <1>8 DEF EntryDone, InHand, ProxiesTo, Exists
  <2>3. pc = "sync" => EntriesDone'
    BY <1>a, <1>7, <2>2, StillDone
  <2>4. pc = "remove" => EntriesDone'
    BY <1>a DEF EntriesDone
  <2> QED
    BY <1>a, <2>1, <2>3, <2>4
<1>9. Tail(tasks) # tasks
  BY <1>a, TailOfList DEF TypesInv, TasksInv
<1> SUFFICES ASSUME tasks' # tasks PROVE TasksFit' /\ EntriesDone'
  BY <1>7, <1>8, <1>9
<1>0. /\ pc \in {"sync", "remove"} /\ tasks # << >> /\ tasks' = Tail(tasks)
      /\ UNCHANGED <<files, cfg, pc, opts, todo>>
  BY <1>a, <1>7
<1>2. /\ 1 \in DOMAIN tasks /\ t = tasks[1] /\ Len(tasks) \in Nat \ {0} /\ DOMAIN tasks = 1..Len(tasks)
      /\ DOMAIN tasks' = 1..(Len(tasks) - 1)
      /\ \A i \in DOMAIN tasks' : i + 1 \in DOMAIN tasks /\ tasks'[i] = tasks[i + 1]
  BY <1>0, <1>1, TailOfList DEF TypesInv, TasksInv
<1>3. \A q : TaskFits(q)' = TaskFits(q)
  BY <1>0 DEF TaskFits
<1>4. TasksFit'
  BY <1>0, <1>2, <1>3 DEF TasksFit
<1>5. CASE pc = "remove"
  BY <1>0, <1>4, <1>5 DEF EntriesDone
<1>6. CASE pc = "sync"
  <2>1. ASSUME ok', opts.herd, ~opts.dry, NEW e \in AllEntries, EntryDone(e) PROVE EntryDone(e)'
    <3> SUFFICES ASSUME ~IsWildcard(e), e.herd # "off", NEW n \in DOMAIN files[e.name].projects
                 PROVE  n \in Names /\ InHand(n, files[e.name].projects[n].sup)'
      BY <1>0 DEF EntryDone
    <3>1. PICK p : p = files[e.name].projects[n].sup
      OBVIOUS
    <3>2. n \in Names /\ InHand(n, p) /\ e.name \in DOMAIN Hand
      BY <2>1, <3>1, ConfsAssumption DEF EntryDone
    <3>3. TaskFits(t)
      BY <1>2, <1>6, <2>1 DEF TasksFit
    <3>4. CASE t = Task("proxy", n, Site(n), p)
      <4>1. t.kind = "proxy" /\ t.site = Site(n) /\ t.port = p
        BY <3>4 DEF Task
      <4>3. (ProxiesTo(Site(n), p) /\ UNCHANGED sites) \/ sites' = With(sites, Site(n), p)
        BY <1>7, <2>1, <4>1
      <4>4. ProxiesTo(Site(n), p)'
        BY <4>3 DEF ProxiesTo, Exists, With, Site
      <4> QED
        BY <1>0, <3>1, <3>2, <4>4 DEF InHand
    <3>5. CASE \E j \in DOMAIN tasks : tasks[j] = Task("proxy", n, Site(n), p) /\ j # 1
      <4>1. PICK j \in DOMAIN tasks : tasks[j] = Task("proxy", n, Site(n), p) /\ j # 1
        BY <3>5
      <4>2. j - 1 \in DOMAIN tasks' /\ tasks'[j - 1] = tasks[j]
        BY <1>2, <4>1
      <4>3. InHand(n, p)'
        BY <4>1, <4>2 DEF InHand
      <4> QED
        BY <1>0, <3>1, <3>2, <4>3
    <3>6. CASE ProxiesTo(Site(n), p)
      <4>1. CASE t.site # Site(n)
        <5>2. Touches(t.site)
          BY <1>7 DEF Touches
        <5>3. Site(n) \in DOMAIN sites' /\ sites'[Site(n)] = p
          BY <3>6, <4>1, <5>2, OtherSite
        <5>4. ProxiesTo(Site(n), p)'
          BY <5>3 DEF ProxiesTo, Exists, Site
        <5> QED
          BY <1>0, <3>1, <3>2, <5>4 DEF InHand
      <4>2. CASE t.site = Site(n)
        <5>1. t.name = n
          BY <3>3, <4>2 DEF TaskFits, Site
        <5>2. t.kind = "proxy" /\ t.port = p
          <6>1. DefinedOnce(Sources)
            BY <1>6 DEF LoadInv, Flat
          <6>2. \A f \in DOMAIN Hand : n \in DOMAIN files[f].projects => f = e.name
            BY <3>2, <6>1, SourcesAre DEF DefinedOnce
          <6> QED
            BY <3>1, <3>2, <3>3, <5>1, <6>2 DEF TaskFits
        <5>4. UNCHANGED sites \/ sites' = With(sites, Site(n), p)
          BY <1>7, <2>1, <4>2, <5>2
        <5>5. ProxiesTo(Site(n), p)'
          BY <3>6, <5>4 DEF ProxiesTo, Exists, With, Site
        <5> QED
          BY <1>0, <3>1, <3>2, <5>5 DEF InHand
      <4> QED
        BY <4>1, <4>2
    <3> QED
      BY <1>2, <3>2, <3>4, <3>5, <3>6 DEF InHand
  <2>2. ok' => ok
    BY <1>7
  <2> QED
    BY <1>0, <1>4, <1>6, <2>1, <2>2, StillDone
<1> QED
  BY <1>0, <1>5, <1>6

\* A change at a base name of an entry touches no worktree's proxy.
LEMMA BaseIsOther ==
  ASSUME BasesApart, NEW e, EntryDone(e), UNCHANGED files, NEW h \in Bases, Touches(h),
         \A i \in DOMAIN tasks : tasks[i].kind = "proxy" => \E j \in DOMAIN tasks' : tasks'[j] = tasks[i]
  PROVE  EntryDone(e)'
<1>1. ASSUME NEW n \in Names, NEW p, InHand(n, p) PROVE InHand(n, p)'
  <2>1. Site(n) # h
    BY DEF BasesApart
  <2>2. CASE ProxiesTo(Site(n), p)
    <3>1. Site(n) \in DOMAIN sites' /\ sites'[Site(n)] = p
      BY <2>1, <2>2, OtherSite
    <3> QED
      BY <3>1 DEF InHand, ProxiesTo, Exists, Site
  <2>3. CASE \E j \in DOMAIN tasks : tasks[j] = Task("proxy", n, Site(n), p)
    BY <2>3 DEF InHand, Task
  <2> QED
    BY <1>1, <2>2, <2>3 DEF InHand
<1> QED
  BY <1>1 DEF EntryDone

\* syncWildcard
LEMMA WildcardProxies ==
  ASSUME TypesInv, BasesApart, TasksFit, EntriesDone, NEW e, ClaimLooks(e) \/ ClaimRuns(e)
  PROVE  TasksFit' /\ EntriesDone'
<1>0. /\ AtEntry(e) /\ IsWildcard(e) /\ pc = "sync" /\ tasks = << >> /\ ok \in BOOLEAN
      /\ UNCHANGED <<files, cfg, pc, opts, tasks>>
  BY DEF ClaimLooks, ClaimRuns, AtEntry, disk, outside, TypesInv, FlagsInv
<1>1. DOMAIN << >> = {}
  OBVIOUS
<1>2. TasksFit'
  BY <1>0, <1>1 DEF TasksFit
<1>3. (ok' => ok) /\ todo' \in {todo, Tail(todo)} /\ Touches(e.base)
  <2>1. CASE ClaimLooks(e)
    <3>1. UNCHANGED sites
      BY <2>1 DEF ClaimLooks
    <3> QED
      BY <1>0, <2>1, <3>1, ClaimLooked DEF Touches
  <2>2. CASE ClaimRuns(e)
    BY <1>0, <2>2, ClaimRan DEF Touches
  <2> QED
    BY <2>1, <2>2
<1>4. /\ e.base \in Bases
      /\ \E i \in DOMAIN cfg.entries : e = cfg.entries[i] /\ i = Len(cfg.entries) - Len(todo) + 1
      /\ Len(todo) \in Nat \ {0} /\ Len(Tail(todo)) = Len(todo) - 1
  BY <1>0, EntryIsLoaded DEF Bases
<1>5. EntriesDone'
  <2> SUFFICES ASSUME ok', opts.herd, ~opts.dry, NEW i \in 1..(Len(cfg.entries) - Len(todo'))
               PROVE  EntryDone(cfg.entries[i])'
    BY <1>0 DEF EntriesDone
  <2>1. PICK l, m : l = Len(cfg.entries) /\ m = Len(todo) /\ l \in Nat /\ m \in Nat \ {0} /\ m <= l
    BY <1>0, <1>4, DoneAreEntries
  <2>2. i \in 1..(l - m + 1)
    BY <1>0, <1>3, <1>4, <2>1
  <2>3. PICK c : c = cfg.entries[i]
    OBVIOUS
  <2>4. CASE i = l - m + 1
    BY <1>0, <1>4, <2>1, <2>3, <2>4 DEF EntryDone
  <2>5. CASE i # l - m + 1
    <3>1. EntryDone(c)
      <4>1. i \in 1..(Len(cfg.entries) - Len(todo))
        BY <2>1, <2>2, <2>5
      <4> QED
        BY <1>0, <1>3, <2>3, <4>1 DEF EntriesDone
    <3>2. EntryDone(c)'
      <4>1. \A j \in DOMAIN tasks : tasks[j].kind = "proxy" =>
              \E k \in DOMAIN tasks' : tasks'[k] = tasks[j]
        BY <1>0, <1>1
      <4> QED
        BY <1>0, <1>3, <1>4, <3>1, <4>1, BaseIsOther
    <3> QED
      BY <1>0, <2>3, <3>2
  <2> QED
    BY <2>4, <2>5
<1> QED
  BY <1>2, <1>5

\* retireWildcards
LEMMA RetireProxies ==
  ASSUME TypesInv, SyncInv, BasesApart, ProxyInv, RetireBegins \/ RetireLooks \/ RetireRuns
  PROVE  TasksFit' /\ EntriesDone'
<1>0. pc \in {"sync", "retire"} /\ pc' = "retire" /\ UNCHANGED <<files, records, cfg, opts, todo>>
  BY DEF RetireBegins, RetireLooks, RetireRuns, disk
<1>1. TasksFit' /\ BasesKnown /\ EntriesDone
  <2>1. todo = << >>
    BY DEF RetireBegins, RetireLooks, RetireRuns, ProxyInv, TasksFit
  <2> QED
    BY <1>0, <2>1 DEF ProxyInv, TasksFit
<1>2. CASE RetireBegins
  <2>1. tasks = << >> /\ UNCHANGED <<sites, ok>> /\ DOMAIN << >> = {}
    BY <1>2 DEF RetireBegins
  <2>2. \A n, p : InHand(n, p) => InHand(n, p)'
    BY <2>1 DEF InHand, ProxiesTo, Exists
  <2>3. \A e : EntryDone(e) => EntryDone(e)'
    BY <1>0, <2>2 DEF EntryDone
  <2> QED
    BY <1>0, <1>1, <2>1, <2>3, StillDone
<1>3. CASE RetireLooks \/ RetireRuns
  <2>1. PICK t : t = Head(tasks)
    OBVIOUS
  <2>2. /\ pc = "retire" /\ tasks # << >> /\ (ok' => ok)
        /\ sites' \in {sites, Without(sites, t.site)}
    <3>1. pc = "retire" /\ tasks # << >> /\ ok \in BOOLEAN
      BY <1>3 DEF RetireLooks, RetireRuns, TypesInv, FlagsInv
    <3>2. CASE RetireLooks
      <4>1. UNCHANGED sites
        BY <3>2 DEF RetireLooks
      <4> QED
        BY <2>1, <3>1, <3>2, <4>1, RetireLooked
    <3>3. CASE RetireRuns
      BY <2>1, <3>1, <3>3, RetireRan
    <3> QED
      BY <1>3, <3>2, <3>3
  <2>3. tasks \in Seq(Retirements)
    BY <2>2 DEF SyncInv, RetireLoop
  <2>4. t \in Retirements /\ \A i \in DOMAIN tasks : tasks[i] \in Retirements
    BY <2>1, <2>2, <2>3
  <2>5. \A r \in Retirements : r.kind = "unproxy" /\ r.site \in Bases
    BY <1>1 DEF Retirements, Task, BasesKnown, BaseOf, Bases
  <2>6. \A i \in DOMAIN tasks : tasks[i].kind # "proxy"
    BY <2>4, <2>5
  <2>7. \A e : EntryDone(e) => EntryDone(e)'
    <3>1. Touches(t.site) /\ t.site \in Bases
      BY <2>2, <2>4, <2>5 DEF Touches
    <3> QED
      BY <1>0, <2>6, <3>1, BaseIsOther
  <2> QED
    BY <1>0, <1>1, <2>2, <2>7, StillDone
<1> QED
  BY <1>2, <1>3

LEMMA NextProxies ==
  ASSUME TypesInv, DraftInv, SyncInv, BasesApart, NEW home, LoadInv(home), ProxyInv,
         [Next]_vars
  PROVE  ProxyInv'
<1>0. BasesKnown' /\ BasesKnown /\ TasksFit /\ EntriesDone
  BY BasesStayKnown DEF ProxyInv
<1>1. CASE SyncBegins
  <2>1. /\ pc = "idle" /\ tasks' = tasks /\ pc' = "sync" /\ todo' = conf.entries
        /\ cfg'.entries = conf.entries
    BY <1>1 DEF SyncBegins
  <2>2. Len(conf.entries) \in Nat
    BY ConfsAssumption DEF TypesInv, WorldInv
  <2>3. TasksFit'
    BY <1>0, <2>1 DEF TasksFit
  <2>4. EntriesDone'
    BY <2>1, <2>2 DEF EntriesDone
  <2> QED
    BY <1>0, <2>3, <2>4 DEF ProxyInv
<1>2. CASE \E e : SyncBuilds(e) \/ SyncWrites(e)
  BY <1>0, <1>2, BuildProxies, EntryProxies DEF ProxyInv
<1>3. CASE \E e : ClaimLooks(e) \/ ClaimRuns(e)
  BY <1>0, <1>3, WildcardProxies DEF ProxyInv
<1>4. CASE HerdLooks \/ HerdRuns
  BY <1>0, <1>4, ActionProxies DEF ProxyInv
<1>5. CASE RetireBegins \/ RetireLooks \/ RetireRuns
  BY <1>0, <1>5, RetireProxies DEF ProxyInv
<1>6. CASE SyncEnds \/ RemoveEnds \/ Crash \/ RemoveBegins
  <2>1. (pc' = "idle" /\ tasks' = << >>) \/ pc' = "remove"
    BY <1>6 DEF SyncEnds, RemoveEnds, Crash, RemoveBegins, CommandOver
  <2> QED
    BY <1>0, <2>1 DEF ProxyInv, TasksFit, EntriesDone
<1>7. CASE TreesChange \/ ConfigEdited \/ HerdUsed
  <2>1. ok' = FALSE /\ UNCHANGED <<files, pc, opts, todo, tasks>>
    BY <1>7 DEF TreesChange, ConfigEdited, HerdUsed, Edits, disk, command
  <2>2. TasksFit'
    BY <1>0, <2>1 DEF TasksFit, TaskFits
  <2> QED
    BY <1>0, <2>1, <2>2 DEF ProxyInv, EntriesDone
<1>8. CASE UNCHANGED vars
  <2>1. UNCHANGED <<files, sites, pc, opts, cfg, todo, tasks, ok>>
    BY <1>8 DEF vars, disk, command
  <2>2. TasksFit'
    BY <1>0, <2>1 DEF TasksFit, TaskFits
  <2>3. \A e : EntryDone(e)' = EntryDone(e)
    BY <2>1 DEF EntryDone, InHand, ProxiesTo, Exists
  <2> QED
    BY <1>0, <2>1, <2>2, <2>3 DEF ProxyInv, EntriesDone
<1> QED
  BY <1>1, <1>2, <1>3, <1>4, <1>5, <1>6, <1>7, <1>8 DEF Next

-----------------------------------------------------------------------------
(* A sync that skips nothing, and the one after it *)

\* p is what build makes of worktree n for entry e, up to the ports that it
\* allocates or finds in the file.
Built(e, n, p) == p = Project(e, n, p.sup, p.app) /\ (e.cmd => p.app = prints[n])

\* As long as nothing is skipped, the first i worktrees are in the file.
Complete(e, a, i) ==
  a.ok => /\ \A j \in 1..i : Trees[j] \in trees[e.name] => Trees[j] \in DOMAIN a.final
          /\ \A n \in DOMAIN a.final : Built(e, n, a.final[n])

LEMMA CompleteGoesOn ==
  ASSUME NEW e, NEW x, NEW a, NEW i \in 1..Len(Trees), Len(Trees) \in Nat, IsAcc(a),
         Complete(e, a, i - 1)
  PROVE  IsAcc(Turn(e, x, a, i)) /\ Complete(e, Turn(e, x, a, i), i)
<1>1. PICK b, c : b = Turn(e, x, a, i) /\ c = Trees[i]
  OBVIOUS
<1>2. CASE c \notin trees[e.name]
  <2>1. b = a
    BY <1>1, <1>2 DEF Turn
  <2>2. Complete(e, b, i)
    BY <1>1, <1>2, <2>1 DEF Complete
  <2> QED
    BY <1>1, <2>1, <2>2
<1>3. CASE c \in trees[e.name]
  <2>1. b = Build(e, x, a, c)
    BY <1>1, <1>3 DEF Turn
  <2>2. IsAcc(b) /\ (\/ Skips(a, b) \/ Keeps(e, x, a, b, c)
                     \/ \E sup, app : Registers(e, x, a, b, c, sup, app))
    BY <2>1, BuildOutcome
  <2>3. CASE b.ok = FALSE
    BY <1>1, <2>2, <2>3 DEF Complete
  <2>4. ASSUME NEW sup, NEW app, Registers(e, x, a, b, c, sup, app) PROVE Complete(e, b, i)
    <3>1. /\ b.final = With(a.final, c, Project(e, c, sup, app)) /\ b.ok = a.ok
          /\ e.cmd => app = prints[c]
      BY <2>4 DEF Registers
    <3>2. Adds(a.final, c, Project(e, c, sup, app), b.final)
      BY <3>1, WithAdds
    <3>3. Built(e, c, Project(e, c, sup, app))
      BY <3>1 DEF Built, Project
    <3> SUFFICES ASSUME b.ok
                 PROVE  /\ \A j \in 1..i : Trees[j] \in trees[e.name] => Trees[j] \in DOMAIN b.final
                        /\ \A n \in DOMAIN b.final : Built(e, n, b.final[n])
      BY DEF Complete
    <3>4. /\ \A j \in 1..(i - 1) : Trees[j] \in trees[e.name] => Trees[j] \in DOMAIN a.final
          /\ \A n \in DOMAIN a.final : Built(e, n, a.final[n])
      BY <3>1 DEF Complete
    <3>5. DOMAIN b.final = DOMAIN a.final \cup {c} /\ b.final[c] = Project(e, c, sup, app)
          /\ \A n \in DOMAIN a.final : n # c => b.final[n] = a.final[n]
      BY <3>2 DEF Adds
    <3>6. \A n \in DOMAIN b.final : Built(e, n, b.final[n])
      BY <3>3, <3>4, <3>5
    <3> QED
      BY <1>1, <3>4, <3>5, <3>6
  <2> QED
    BY <1>1, <2>2, <2>3, <2>4 DEF Skips, Keeps
<1> QED
  BY <1>2, <1>3

\* The whole loop
LEMMA EntryIsComplete ==
  ASSUME NEW e, NEW x, NEW d, d = Reconciled(e, x), d.ok
  PROVE  /\ \A n \in Names \cap trees[e.name] : n \in DOMAIN d.final
         /\ \A n \in DOMAIN d.final : Built(e, n, d.final[n])
<1>1. PICK g : IsLoop(e, x, g)
  BY LoopIsDefined
<1>2. Len(Trees) \in Nat /\ \A n \in Names : \E j \in 1..Len(Trees) : Trees[j] = n
  BY TreesAssumption DEF Names, Range
<1> DEFINE S == {m \in Nat : m <= Len(Trees) => IsAcc(g[m]) /\ Complete(e, g[m], m)}
<1>3. 0 \in S
  <2>1. IsAcc(Start) /\ Complete(e, Start, 0)
    BY DEF Start, IsAcc, Complete
  <2> QED
    BY <1>1, <2>1 DEF IsLoop
<1>4. ASSUME NEW m \in Nat, m \in S PROVE m + 1 \in S
  <2> SUFFICES ASSUME m + 1 <= Len(Trees) PROVE IsAcc(g[m + 1]) /\ Complete(e, g[m + 1], m + 1)
    OBVIOUS
  <2>1. m + 1 \in 1..Len(Trees) /\ IsAcc(g[m]) /\ Complete(e, g[m], m) /\ (m + 1) - 1 = m
    BY <1>2, <1>4
  <2>2. g[m + 1] = Turn(e, x, g[m], m + 1)
    BY <1>1, <2>1 DEF IsLoop
  <2> QED
    BY <1>2, <2>1, <2>2, CompleteGoesOn
<1>5. Len(Trees) \in S
  BY <1>2, <1>3, <1>4, SetInduction
<1>6. Complete(e, d, Len(Trees))
  BY <1>1, <1>2, <1>5 DEF IsLoop
<1> QED
  BY <1>2, <1>6 DEF Complete

\* x is what a sync that skips nothing puts into the file of entry e.
IsComplete(e, x) ==
  DOMAIN x = Names \cap trees[e.name] /\ \A n \in DOMAIN x : Built(e, n, x[n])

\* The file of an entry is as a sync that skips nothing leaves it.
FileIsFixed(e) == files[e.name].managed /\ IsComplete(e, files[e.name].projects)

\* While nothing is skipped, the draft has a project of every worktree.
CompleteInv == ok /\ draft # << >> => IsComplete(Head(todo), draft[1])

LEMMA NextComplete == TypesInv /\ DraftInv /\ CompleteInv /\ [Next]_vars => CompleteInv'
<1> SUFFICES ASSUME TypesInv, DraftInv, CompleteInv, [Next]_vars, ok', draft' # << >>
             PROVE  IsComplete(Head(todo), draft[1])'
  BY DEF CompleteInv
<1>1. CASE draft # << >> /\ (TreesChange \/ HerdUsed \/ UNCHANGED vars)
  <2>1. ok /\ UNCHANGED <<draft, todo, trees, prints>>
    BY <1>1, OutsideKeeps
  <2> QED
    BY <1>1, <2>1 DEF CompleteInv, IsComplete, Built
<1>2. ASSUME NEW e, SyncBuilds(e) PROVE IsComplete(Head(todo), draft[1])'
  <2>1. PICK x, d : x = files[e.name].projects /\ d = Reconciled(e, x)
    OBVIOUS
  <2>2. /\ e = Head(todo) /\ UNCHANGED <<todo, trees, prints>> /\ d.ok /\ draft'[1] = d.final
        /\ Making(e, x, d)
    BY <1>2, <2>1, DraftIsMade
  <2>3. /\ \A n \in Names \cap trees[e.name] : n \in DOMAIN d.final
        /\ \A n \in DOMAIN d.final : Built(e, n, d.final[n])
    BY <2>1, <2>2, EntryIsComplete
  <2>4. DOMAIN d.final = Names \cap trees[e.name]
    BY <2>2, <2>3 DEF Making
  <2> QED
    BY <2>2, <2>3, <2>4 DEF IsComplete, Built
<1> QED
  BY <1>1, <1>2, DraftSteps

\* build finds such a project again.
LEMMA BuildAgain ==
  ASSUME NEW e, NEW x, NEW a, NEW b, NEW c \in Names, b = Build(e, x, a, c), IsAcc(a),
         Ready(e, x), c \in DOMAIN x, Own(e, c), Built(e, c, x[c]), Holds(a.used, x)
  PROVE  b.final = With(a.final, c, x[c])
<1>1. /\ x[c].sup \in 1..MaxPort /\ x[c].app \in 1..MaxPort /\ x[c].sup # x[c].app
  BY DEF Ready, Sound, PortsAreValid, ValidPort
<1>2. x[c].sup # 0 /\ x[c].app # 0 /\ a.used[x[c].app] = c
  BY <1>1, PortAssumption DEF Holds
<1>3. PICK s, p, u : s = x[c].sup /\ p = x[c].app /\ u = a.used
  OBVIOUS
<1>4. e.cmd => prints[c] = p
  BY <1>3 DEF Built
<1>5. x[c] = Project(e, c, s, p)
  BY <1>3 DEF Built
<1>6. b = [a EXCEPT !.used = [u EXCEPT ![p] = c], !.final = With(@, c, Project(e, c, s, p))]
  <2>1. s # 0 /\ p # 0 /\ s # p /\ u[p] = c
    BY <1>1, <1>2, <1>3
  <2>2. ~(c \in DOMAIN cfg.source /\ cfg.source[c] # e.name)
    BY DEF Own
  <2>3. (IF e.cmd THEN prints[c] ELSE x[c].app) = p
    BY <1>3, <1>4
  <2> QED
    BY <1>3, <2>1, <2>2, <2>3 DEF Build, Project
<1>7. b.final = With(a.final, c, Project(e, c, s, p))
  BY <1>6 DEF IsAcc
<1> QED
  BY <1>5, <1>7

\* The first i worktrees are in the file again, with what it had.
Same(e, x, a, i) ==
  /\ Making(e, x, a) /\ Claiming(a)
  /\ \A j \in 1..i : Trees[j] \in trees[e.name] => Trees[j] \in DOMAIN a.final
  /\ \A n \in DOMAIN a.final : a.final[n] = x[n]

\* A file of an entry that can be found again as it is
Fixed(e, x) ==
  /\ x = [n \in DOMAIN x |-> x[n]] /\ DOMAIN x = Names \cap trees[e.name]
  /\ \A n \in DOMAIN x : Own(e, n) /\ Built(e, n, x[n])

LEMMA SameGoesOn ==
  ASSUME NEW e, NEW x, NEW a, NEW i \in 1..Len(Trees), Len(Trees) \in Nat, Trees[i] \in Names,
         Ready(e, x), Holds(used, x), Fixed(e, x), Same(e, x, a, i - 1)
  PROVE  Same(e, x, Turn(e, x, a, i), i)
<1>1. PICK b, c : b = Turn(e, x, a, i) /\ c = Trees[i]
  OBVIOUS
<1>2. CASE c \notin trees[e.name]
  <2>1. b = a
    BY <1>1, <1>2 DEF Turn
  <2>2. Same(e, x, b, i)
    BY <1>1, <1>2, <2>1 DEF Same
  <2> QED
    BY <1>1, <2>2
<1>3. CASE c \in trees[e.name]
  <2>1. b = Build(e, x, a, c) /\ c \in Names
    BY <1>1, <1>3 DEF Turn
  <2>2. Making(e, x, a) /\ Claiming(a) /\ IsAcc(a)
    BY DEF Same, Making
  <2>3. Making(e, x, b)
    BY <1>3, <2>1, <2>2, MakingGoesOn
  <2>4. Claiming(b)
    BY <2>1, <2>2, ClaimingGoesOn
  <2>5. c \in DOMAIN x /\ Own(e, c) /\ Built(e, c, x[c])
    BY <1>3, <2>1 DEF Fixed
  <2>6. Holds(a.used, x)
    <3>1. HasPorts(x)
      BY DEF Ready, HasPorts, Sound, PortsAreValid, ValidPort
    <3>2. Free \notin DOMAIN x
      BY TreesAssumption DEF Fixed
    <3> QED
      BY <2>2, <3>1, <3>2, GrowHolds DEF Claiming
  <2>7. b.final = With(a.final, c, x[c])
    BY <2>1, <2>2, <2>5, <2>6, BuildAgain
  <2>8. Adds(a.final, c, x[c], b.final)
    BY <2>7, WithAdds
  <2>9. /\ \A j \in 1..i : Trees[j] \in trees[e.name] => Trees[j] \in DOMAIN b.final
        /\ \A n \in DOMAIN b.final : b.final[n] = x[n]
    BY <1>1, <2>8 DEF Same, Adds
  <2>10. Same(e, x, b, i)
    BY <2>3, <2>4, <2>9 DEF Same
  <2> QED
    BY <1>1, <2>10
<1> QED
  BY <1>2, <1>3

\* The whole loop
LEMMA EntryIsSame ==
  ASSUME NEW e, NEW x, Ready(e, x), DOMAIN used = 1..MaxPort, ok \in BOOLEAN, Holds(used, x),
         Fixed(e, x), NEW d, d = Reconciled(e, x)
  PROVE  d.final = x
<1>1. PICK g : IsLoop(e, x, g)
  BY LoopIsDefined
<1>2. /\ Len(Trees) \in Nat /\ \A i \in 1..Len(Trees) : Trees[i] \in Names
      /\ \A n \in Names : \E j \in 1..Len(Trees) : Trees[j] = n
  BY TreesAssumption DEF Names, Range
<1> DEFINE S == {m \in Nat : m <= Len(Trees) => Same(e, x, g[m], m)}
<1>3. 0 \in S
  <2>1. Making(e, x, Start)
    BY DEF Making, Start, IsAcc
  <2>2. Claiming(Start)
    BY DEF Start, Claiming, Grow, Holds
  <2>3. Same(e, x, Start, 0)
    BY <2>1, <2>2 DEF Same, Start
  <2> QED
    BY <1>1, <2>3 DEF IsLoop
<1>4. ASSUME NEW m \in Nat, m \in S PROVE m + 1 \in S
  <2> SUFFICES ASSUME m + 1 <= Len(Trees) PROVE Same(e, x, g[m + 1], m + 1)
    OBVIOUS
  <2>1. m + 1 \in 1..Len(Trees) /\ Same(e, x, g[m], m) /\ (m + 1) - 1 = m /\ Trees[m + 1] \in Names
    BY <1>2, <1>4
  <2>2. g[m + 1] = Turn(e, x, g[m], m + 1)
    BY <1>1, <2>1 DEF IsLoop
  <2> QED
    BY <1>2, <2>1, <2>2, SameGoesOn
<1>5. Len(Trees) \in S
  BY <1>2, <1>3, <1>4, SetInduction
<1>6. Same(e, x, d, Len(Trees))
  BY <1>1, <1>2, <1>5 DEF IsLoop
<1>7. DOMAIN d.final = DOMAIN x
  BY <1>2, <1>6 DEF Same, Making, Fixed
<1> QED
  BY <1>6, <1>7 DEF Same, Making, Fixed

\* Wildcard entries with the same base have the same name, whatever the user
\* edits: no entry is renamed in place.
BasesAreOwn ==
  \A d, e \in AllEntries : IsWildcard(d) /\ IsWildcard(e) /\ d.base = e.base => d.name = e.name

IsFcn(f) == f = [x \in DOMAIN f |-> f[x]]

\* n is recorded with the base b, or would be, by an entry of the command.
LiveBase(n, b) ==
  \E i \in DOMAIN cfg.entries :
    IsWildcard(cfg.entries[i]) /\ cfg.entries[i].name = n /\ cfg.entries[i].base = b

\* syncer.state holds what was on record and what the entries record.
MemInv ==
  /\ IsFcn(records) /\ IsFcn(mem)
  /\ pc \in {"sync", "retire"} =>
       \A n \in DOMAIN mem : (n \in DOMAIN records /\ mem[n] = records[n]) \/ LiveBase(n, mem[n].base)
  /\ pc = "retire" => \A i \in DOMAIN tasks : tasks[i].name \in Retirable

\* A wildcard entry that was reconciled has its proxy and is recorded.
OnRecord(e, r) ==
  ProxiesTo(e.base, e.sup) /\ e.name \in DOMAIN r /\ r[e.name] = [base |-> e.base, sup |-> e.sup]
EntryFixed(e) ==
  /\ ~IsWildcard(e) => FileIsFixed(e)
  /\ IsWildcard(e) /\ e.herd # "off" => OnRecord(e, mem)
FixedInv ==
  pc \in {"sync", "retire"} /\ ok /\ opts.herd /\ ~opts.dry =>
    \A i \in 1..(Len(cfg.entries) - Len(todo)) : EntryFixed(cfg.entries[i])

LEMMA FcnWith ==
  ASSUME NEW f, NEW x, NEW v
  PROVE  IsFcn(With(f, x, v)) /\ IsFcn(Without(f, x))
BY DEF IsFcn, With, Without

LEMMA FcnEmpty == IsFcn(<< >>)
BY DEF IsFcn

LEMMA NextMem ==
  ASSUME TypesInv, SyncInv, MemInv, [Next]_vars
  PROVE  MemInv'
<1>0. IsFcn(records) /\ IsFcn(mem)
  BY DEF MemInv
<1>1. CASE UNCHANGED <<records, mem, pc, cfg>> /\ (pc = "retire" => UNCHANGED tasks)
  <2>1. Retirable' = Retirable /\ \A n, b : LiveBase(n, b)' = LiveBase(n, b)
    BY <1>1 DEF Retirable, LiveBase
  <2> QED
    BY <1>1, <2>1 DEF MemInv, IsFcn
<1>2. CASE SyncBegins
  <2>1. mem' = records /\ records' = records /\ pc' = "sync"
    BY <1>2 DEF SyncBegins, disk
  <2> QED
    BY <1>0, <2>1 DEF MemInv, IsFcn
<1>3. ASSUME NEW e, ClaimLooks(e) \/ ClaimRuns(e) PROVE MemInv'
  <2>1. /\ UNCHANGED <<records, pc, cfg, tasks>> /\ AtEntry(e) /\ pc = "sync" /\ IsWildcard(e)
        /\ mem' = mem \/ mem' = With(mem, e.name, [base |-> e.base, sup |-> e.sup])
    BY <1>3 DEF ClaimLooks, ClaimRuns, AtEntry, Recorded, disk
  <2>2. LiveBase(e.name, e.base)
    BY <2>1, EntryIsLoaded DEF LiveBase
  <2>3. \A n, b : LiveBase(n, b)' = LiveBase(n, b)
    BY <2>1 DEF LiveBase
  <2>4. IsFcn(mem')
    BY <1>0, <2>1, FcnWith
  <2>5. \A n \in DOMAIN mem' : \/ n \in DOMAIN mem /\ mem'[n] = mem[n]
                               \/ n = e.name /\ mem'[n].base = e.base
    BY <2>1 DEF With
  <2>6. \A n \in DOMAIN mem' :
          (n \in DOMAIN records /\ mem'[n] = records[n]) \/ LiveBase(n, mem'[n].base)
    BY <2>1, <2>2, <2>5 DEF MemInv
  <2>7. IsFcn(records')
    BY <1>0, <2>1
  <2> QED
    BY <2>1, <2>3, <2>4, <2>6, <2>7 DEF MemInv
<1>4. CASE RetireBegins
  <2>1. /\ pc = "sync" /\ pc' = "retire" /\ UNCHANGED <<records, mem, cfg>>
    BY <1>4 DEF RetireBegins, disk
  <2>2. Retirable' = Retirable /\ \A n, b : LiveBase(n, b)' = LiveBase(n, b)
    BY <2>1 DEF Retirable, LiveBase
  <2>3. \A i \in DOMAIN tasks' : tasks'[i].name \in Retirable
    <3>1. PICK ns : ns = SetToSeq(Retirable)
      OBVIOUS
    <3>2. IsFiniteSet(Retirable)
      <4>1. Retirable \subseteq DOMAIN records
        BY DEF Retirable
      <4> QED
        BY <4>1, FS_Subset DEF SyncInv, RecordIsFinite
    <3>3. ns \in Seq(Retirable) /\ DOMAIN ns = 1..Len(ns)
      BY <3>1, <3>2, SetListed
    <3>4. tasks' = [i \in DOMAIN ns |->
                      Task("unproxy", ns[i], records[ns[i]].base, records[ns[i]].sup)]
      BY <1>4, <3>1 DEF RetireBegins
    <3> QED
      BY <3>3, <3>4 DEF Task
  <2>4. IsFcn(records') /\ IsFcn(mem')
    BY <1>0, <2>1
  <2> QED
    BY <2>1, <2>2, <2>3, <2>4 DEF MemInv
<1>5. CASE RetireLooks \/ RetireRuns
  <2>1. /\ pc = "retire" /\ tasks # << >> /\ tasks' \in {tasks, Tail(tasks)}
        /\ UNCHANGED <<records, cfg, pc>>
        /\ mem' = mem \/ \E n : mem' = Without(mem, n)
    BY <1>5 DEF RetireLooks, RetireRuns, Forgotten, disk
  <2>2. Retirable' = Retirable /\ \A n, b : LiveBase(n, b)' = LiveBase(n, b)
    BY <2>1 DEF Retirable, LiveBase
  <2>3. IsFcn(mem') /\ IsFcn(records')
    BY <1>0, <2>1, FcnWith
  <2>4. \A n \in DOMAIN mem' : n \in DOMAIN mem /\ mem'[n] = mem[n]
    BY <2>1 DEF Without
  <2>5. \A i \in DOMAIN tasks' : tasks'[i].name \in Retirable
    <3>1. \A i \in DOMAIN tasks' : \E j \in DOMAIN tasks : tasks'[i] = tasks[j]
      BY <2>1, TailOfList DEF TypesInv, TasksInv
    <3> QED
      BY <2>1, <3>1 DEF MemInv
  <2> QED
    BY <2>1, <2>2, <2>3, <2>4, <2>5 DEF MemInv
<1>6. CASE SyncEnds \/ RemoveEnds \/ Crash
  <2>1. records' \in {records, mem} /\ mem' = << >> /\ pc' = "idle"
    BY <1>6 DEF SyncEnds, RemoveEnds, Crash, CommandOver, disk
  <2>2. IsFcn(mem') /\ IsFcn(records')
    BY <1>0, <2>1, FcnEmpty
  <2> QED
    BY <2>1, <2>2 DEF MemInv
<1>7. CASE RemoveBegins
  <2>1. UNCHANGED <<records, mem>> /\ pc' = "remove"
    BY <1>7 DEF RemoveBegins
  <2>2. IsFcn(mem') /\ IsFcn(records')
    BY <1>0, <2>1
  <2> QED
    BY <2>1, <2>2 DEF MemInv
<1>8. CASE (\E e : SyncBuilds(e) \/ SyncWrites(e)) \/ HerdLooks \/ HerdRuns
  BY <1>1, <1>8 DEF SyncBuilds, SyncWrites, AtEntry, HerdLooks, HerdRuns, disk
<1>9. CASE TreesChange \/ ConfigEdited \/ HerdUsed \/ UNCHANGED vars
  BY <1>1, <1>9 DEF TreesChange, ConfigEdited, HerdUsed, vars, disk, command
<1> QED
  BY <1>2, <1>3, <1>4, <1>5, <1>6, <1>7, <1>8, <1>9 DEF Next

\* The entries done with after one more
LEMMA OneMore ==
  ASSUME TypesInv, NEW e, AtEntry(e), todo' = Tail(todo),
         NEW i \in 1..(Len(cfg.entries) - Len(todo'))
  PROVE  /\ cfg.entries[i] \in AllEntries
         /\ \/ cfg.entries[i] = e
            \/ i \in 1..(Len(cfg.entries) - Len(todo)) /\ cfg.entries[i].name # e.name
<1>0. pc = "sync"
  BY DEF AtEntry
<1>1. /\ \E k \in DOMAIN cfg.entries : e = cfg.entries[k] /\ k = Len(cfg.entries) - Len(todo) + 1
      /\ Len(todo) \in Nat \ {0} /\ Len(Tail(todo)) = Len(todo) - 1
  BY EntryIsLoaded
<1>2. PICK l, m : l = Len(cfg.entries) /\ m = Len(todo) /\ l \in Nat /\ m \in Nat \ {0} /\ m <= l
  BY <1>0, <1>1, DoneAreEntries
<1>3. i \in 1..(l - m + 1) /\ i \in DOMAIN cfg.entries /\ cfg.entries[i] \in AllEntries
  BY <1>0, <1>1, <1>2, DoneAreEntries
<1>4. CASE i = l - m + 1
  BY <1>1, <1>2, <1>3, <1>4
<1>5. CASE i # l - m + 1
  <2>1. i \in 1..(Len(cfg.entries) - Len(todo))
    BY <1>2, <1>3, <1>5
  <2>2. EntriesAreValid(cfg.entries)
    BY <1>0 DEF TypesInv, LoadedInv
  <2>3. cfg.entries[i].name # e.name
    BY <1>1, <1>2, <1>3, <1>5, <2>2 DEF EntriesAreValid
  <2> QED
    BY <1>3, <2>1, <2>3
<1> QED
  BY <1>4, <1>5

\* What keeps the entries fixed
LEMMA StillFixed ==
  ASSUME TypesInv, FixedInv, pc \in {"sync", "retire"},
         UNCHANGED <<files, trees, prints, cfg, opts>>, ok' => ok, Len(todo') = Len(todo),
         ok' /\ opts.herd /\ ~opts.dry =>
           \A i \in DOMAIN cfg.entries : LET e == cfg.entries[i] IN
             IsWildcard(e) /\ OnRecord(e, mem) => OnRecord(e, mem)'
  PROVE  FixedInv'
<1> SUFFICES ASSUME ok', opts.herd, ~opts.dry, NEW i \in 1..(Len(cfg.entries) - Len(todo))
             PROVE  EntryFixed(cfg.entries[i])'
  BY DEF FixedInv
<1>1. i \in DOMAIN cfg.entries
  BY DoneAreEntries
<1>2. PICK e : e = cfg.entries[i]
  OBVIOUS
<1>3. EntryFixed(e)
  BY <1>2 DEF FixedInv
<1>4. IsWildcard(e) /\ OnRecord(e, mem) => OnRecord(e, mem)'
  BY <1>1, <1>2
<1>5. FileIsFixed(e) => FileIsFixed(e)'
  BY DEF FileIsFixed, IsComplete, Built
<1>6. EntryFixed(e)'
  BY <1>3, <1>4, <1>5 DEF EntryFixed
<1> QED
  BY <1>2, <1>6

\* What is built without a skip changes nothing yet.
LEMMA BuildFixes ==
  ASSUME TypesInv, DraftInv, NEW home, LoadInv(home), FixedInv, NEW e, SyncBuilds(e)
  PROVE  FixedInv'
<1>1. pc = "sync" /\ UNCHANGED <<files, sites, trees, prints, pc, opts, cfg, mem>>
  BY DEF SyncBuilds, AtEntry, disk, outside
<1>2. CASE ~ok'
  BY <1>2 DEF FixedInv
<1>3. CASE ok'
  <2>1. ok /\ UNCHANGED todo
    BY <1>3, BuildsOk
  <2>2. \A c : OnRecord(c, mem) => OnRecord(c, mem)'
    BY <1>1 DEF OnRecord, ProxiesTo, Exists
  <2> QED
    BY <1>1, <2>1, <2>2, StillFixed
<1> QED
  BY <1>2, <1>3

\* syncEntry that skips nothing leaves its file fixed.
LEMMA EntryFixes ==
  ASSUME TypesInv, DraftInv, CompleteInv, FixedInv, NEW e, SyncWrites(e)
  PROVE  FixedInv'
<1>0. /\ AtEntry(e) /\ ~IsWildcard(e) /\ pc = "sync" /\ todo' = Tail(todo)
      /\ UNCHANGED <<sites, cfg, pc, opts, mem, trees, prints>>
  BY DraftIs DEF SyncWrites, outside
<1>1. CASE ok' = FALSE \/ opts.dry
  BY <1>0, <1>1 DEF FixedInv
<1>2. PICK f, p : f = e.name /\ p = draft[1]
  OBVIOUS
<1>3. CASE ~opts.dry /\ files' = Written(f, p) /\ UNCHANGED ok
  <2> SUFFICES ASSUME ok', opts.herd, NEW i \in 1..(Len(cfg.entries) - Len(todo'))
               PROVE  EntryFixed(cfg.entries[i])'
    BY <1>0 DEF FixedInv
  <2>1. f \in DOMAIN Hand /\ IsComplete(e, p) /\ ok
    BY <1>2, <1>3, DraftIs DEF CompleteInv, SyncWrites
  <2>2. /\ files'[f].projects = p /\ files'[f].managed
        /\ \A g \in DOMAIN Hand \ {f} : files'[g] = files[g]
    BY <1>3, <2>1, WrittenFiles DEF TypesInv
  <2>3. \A c, x : IsComplete(c, x)' = IsComplete(c, x)
    BY <1>0 DEF IsComplete, Built
  <2>4. PICK c : c = cfg.entries[i] /\ c \in AllEntries
    BY <1>0, OneMore
  <2>5. CASE c = e
    <3>1. FileIsFixed(e)'
      BY <1>0, <1>2, <2>1, <2>2 DEF FileIsFixed, IsComplete, Built
    <3>2. EntryFixed(e)'
      BY <1>0, <3>1 DEF EntryFixed
    <3> QED
      BY <1>0, <2>4, <2>5, <3>2
  <2>6. CASE i \in 1..(Len(cfg.entries) - Len(todo)) /\ c.name # f
    <3>1. EntryFixed(c)
      BY <1>0, <1>3, <2>1, <2>4, <2>6 DEF FixedInv
    <3>2. ~IsWildcard(c) => c.name \in DOMAIN Hand
      BY <2>4, ConfsAssumption
    <3>3. ~IsWildcard(c) => FileIsFixed(c)'
      BY <1>0, <2>2, <2>6, <3>1, <3>2 DEF EntryFixed, FileIsFixed, IsComplete, Built
    <3>4. OnRecord(c, mem) => OnRecord(c, mem)'
      BY <1>0 DEF OnRecord, ProxiesTo, Exists
    <3>5. EntryFixed(c)'
      BY <3>1, <3>3, <3>4 DEF EntryFixed
    <3> QED
      BY <1>0, <2>4, <3>5
  <2> QED
    BY <1>0, <1>2, <2>4, <2>5, <2>6, OneMore
<1> QED
  BY <1>1, <1>2, <1>3 DEF SyncWrites

\* syncWildcard records its entry, and no other entry has the same base.
LEMMA WildcardFixes ==
  ASSUME TypesInv, DraftInv, BasesAreOwn, FixedInv, NEW e, ClaimLooks(e) \/ ClaimRuns(e)
  PROVE  FixedInv'
<1>0. /\ AtEntry(e) /\ IsWildcard(e) /\ pc = "sync" /\ ok \in BOOLEAN
      /\ UNCHANGED <<files, trees, prints, cfg, pc, opts>>
  BY DEF ClaimLooks, ClaimRuns, AtEntry, disk, outside, TypesInv, FlagsInv
<1>1. CASE ~(ok' /\ opts.herd /\ ~opts.dry)
  BY <1>0, <1>1 DEF FixedInv
<1>2. PICK r : r = [base |-> e.base, sup |-> e.sup]
  OBVIOUS
<1>3. ASSUME ok', opts.herd, ~opts.dry
      PROVE  /\ ok
             /\ \/ UNCHANGED <<sites, todo, mem>>
                \/ todo' = Tail(todo) /\ UNCHANGED <<sites, mem>> /\ e.herd = "off"
                \/ /\ todo' = Tail(todo) /\ mem' = With(mem, e.name, r)
                   /\ (UNCHANGED sites /\ ProxiesTo(e.base, e.sup)) \/ sites' = With(sites, e.base, e.sup)
  <2>1. CASE ClaimLooks(e)
    <3>1. UNCHANGED sites
      BY <2>1 DEF ClaimLooks
    <3> QED
      BY <1>0, <1>2, <1>3, <2>1, <3>1, ClaimLooked DEF Recorded
  <2>2. CASE ClaimRuns(e)
    BY <1>0, <1>2, <1>3, <2>2, ClaimRan DEF Recorded
  <2> QED
    BY <2>1, <2>2
<1>4. CASE ok' /\ opts.herd /\ ~opts.dry /\ UNCHANGED <<sites, todo, mem>>
  <2>1. \A c : OnRecord(c, mem) => OnRecord(c, mem)'
    BY <1>4 DEF OnRecord, ProxiesTo, Exists
  <2> QED
    BY <1>0, <1>3, <1>4, <2>1, StillFixed
<1>5. ASSUME ok', opts.herd, ~opts.dry, todo' = Tail(todo),
             \/ UNCHANGED <<sites, mem>> /\ e.herd = "off"
             \/ /\ mem' = With(mem, e.name, r)
                /\ (UNCHANGED sites /\ ProxiesTo(e.base, e.sup)) \/ sites' = With(sites, e.base, e.sup)
      PROVE  FixedInv'
  <2> SUFFICES ASSUME NEW i \in 1..(Len(cfg.entries) - Len(todo'))
               PROVE  EntryFixed(cfg.entries[i])'
    BY <1>0 DEF FixedInv
  <2>1. e \in AllEntries
    BY <1>0, EntryIsLoaded
  <2>2. PICK c : c = cfg.entries[i] /\ c \in AllEntries
    BY <1>0, <1>5, OneMore
  <2>3. CASE c = e
    <3>1. e.herd # "off" =>
            /\ e.base \in DOMAIN sites' /\ sites'[e.base] = e.sup
            /\ e.name \in DOMAIN mem' /\ mem'[e.name] = r
      BY <1>5 DEF ProxiesTo, Exists, With
    <3>2. EntryFixed(e)'
      BY <1>0, <1>2, <3>1 DEF EntryFixed, OnRecord, ProxiesTo, Exists
    <3> QED
      BY <1>0, <2>2, <2>3, <3>2
  <2>4. CASE i \in 1..(Len(cfg.entries) - Len(todo)) /\ c.name # e.name
    <3>1. EntryFixed(c)
      BY <1>0, <1>3, <1>5, <2>2, <2>4 DEF FixedInv
    <3>2. CASE ~IsWildcard(c)
      <4>1. EntryFixed(c)'
        BY <1>0, <3>1, <3>2 DEF EntryFixed, FileIsFixed, IsComplete, Built
      <4> QED
        BY <1>0, <2>2, <4>1
    <3>3. CASE IsWildcard(c)
      <4>1. c.base # e.base
        BY <1>0, <2>1, <2>2, <2>4, <3>3 DEF BasesAreOwn
      <4>2. PICK q : q = [base |-> c.base, sup |-> c.sup]
        OBVIOUS
      <4>3. OnRecord(c, mem) => /\ c.base \in DOMAIN sites' /\ sites'[c.base] = c.sup
                                /\ c.name \in DOMAIN mem' /\ mem'[c.name] = q
        BY <1>5, <2>4, <4>1, <4>2 DEF OnRecord, ProxiesTo, Exists, With
      <4>4. EntryFixed(c)'
        BY <3>1, <3>3, <4>2, <4>3 DEF EntryFixed, OnRecord, ProxiesTo, Exists
      <4> QED
        BY <1>0, <2>2, <4>4
    <3> QED
      BY <3>2, <3>3
  <2> QED
    BY <1>0, <1>5, <2>2, <2>3, <2>4, OneMore
<1> QED
  BY <1>1, <1>3, <1>4, <1>5

\* The Herd actions of worktrees leave the bases alone.
LEMMA ActionFixes ==
  ASSUME TypesInv, BasesApart, TasksFit, FixedInv, HerdLooks \/ HerdRuns
  PROVE  FixedInv'
<1>0. /\ pc \in {"sync", "remove"} /\ tasks # << >> /\ ok \in BOOLEAN
      /\ UNCHANGED <<files, trees, prints, cfg, pc, opts, todo, mem>>
  BY DEF HerdLooks, HerdRuns, disk, outside, TypesInv, FlagsInv
<1>1. CASE pc = "remove"
  BY <1>0, <1>1 DEF FixedInv
<1>2. CASE pc = "sync"
  <2>1. PICK t : t = Head(tasks)
    OBVIOUS
  <2>2. t = tasks[1] /\ 1 \in DOMAIN tasks
    BY <1>0, <2>1, TailOfList DEF TypesInv, TasksInv
  <2>3. (ok' => ok) /\ Touches(t.site)
    <3>1. CASE HerdLooks
      <4>1. UNCHANGED sites
        BY <3>1 DEF HerdLooks
      <4> QED
        BY <1>0, <2>1, <3>1, <4>1, ActionLooked DEF Touches
    <3>2. CASE HerdRuns
      BY <1>0, <2>1, <3>2, ActionRan DEF Touches
    <3> QED
      BY <3>1, <3>2
  <2>4. ASSUME ~opts.dry, NEW i \in DOMAIN cfg.entries, NEW e, e = cfg.entries[i],
               IsWildcard(e), OnRecord(e, mem)
        PROVE  OnRecord(e, mem)'
    <3>1. e \in AllEntries
      BY <1>2, <2>4, DoneAreEntries
    <3>2. e.base \in Bases
      BY <2>4, <3>1 DEF Bases
    <3>3. TaskFits(t)
      BY <1>2, <2>2, <2>4 DEF TasksFit
    <3>4. t.site # e.base
      BY <3>2, <3>3 DEF TaskFits, BasesApart
    <3>5. e.base \in DOMAIN sites' /\ sites'[e.base] = e.sup
      BY <2>3, <2>4, <3>4, OtherSite DEF OnRecord
    <3> QED
      BY <1>0, <2>4, <3>5 DEF OnRecord, ProxiesTo, Exists
  <2>5. ok' /\ opts.herd /\ ~opts.dry =>
          \A i \in DOMAIN cfg.entries : LET e == cfg.entries[i] IN
            IsWildcard(e) /\ OnRecord(e, mem) => OnRecord(e, mem)'
    BY <1>0, <2>4
  <2> QED
    BY <1>0, <1>2, <2>3, <2>5, StillFixed
<1> QED
  BY <1>0, <1>1, <1>2

\* retireWildcards takes no base of an entry, and forgets none of what the
\* entries recorded.
LEMMA RetireFixes ==
  ASSUME TypesInv, SyncInv, BasesAreOwn, BasesKnown, MemInv, FixedInv,
         RetireBegins \/ RetireLooks \/ RetireRuns
  PROVE  FixedInv'
<1>0. /\ pc \in {"sync", "retire"} /\ UNCHANGED <<files, trees, prints, records, cfg, opts, todo>>
  BY DEF RetireBegins, RetireLooks, RetireRuns, disk, outside
<1>1. CASE RetireBegins
  <2>1. UNCHANGED <<sites, mem, ok>>
    BY <1>1 DEF RetireBegins
  <2>2. \A i \in DOMAIN cfg.entries : LET e == cfg.entries[i] IN
          IsWildcard(e) /\ OnRecord(e, mem) => OnRecord(e, mem)'
    BY <1>0, <2>1 DEF OnRecord, ProxiesTo, Exists
  <2> QED
    BY <1>0, <2>1, <2>2, StillFixed
<1>2. CASE RetireLooks \/ RetireRuns
  <2>1. PICK t : t = Head(tasks)
    OBVIOUS
  <2>2. /\ pc = "retire" /\ tasks # << >> /\ (ok' => ok)
        /\ sites' \in {sites, Without(sites, t.site)}
        /\ mem' = mem \/ (mem' = Without(mem, t.name) /\ mem[t.name] = records[t.name])
    <3>1. pc = "retire" /\ tasks # << >> /\ ok \in BOOLEAN
      BY <1>2 DEF RetireLooks, RetireRuns, TypesInv, FlagsInv
    <3>2. CASE RetireLooks
      <4>1. UNCHANGED sites
        BY <3>2 DEF RetireLooks
      <4> QED
        BY <2>1, <3>1, <3>2, <4>1, RetireLooked DEF Forgotten
    <3>3. CASE RetireRuns
      BY <2>1, <3>1, <3>3, RetireRan DEF Forgotten
    <3> QED
      BY <1>2, <3>2, <3>3
  <2>3. t \in Retirements
    <3>1. tasks \in Seq(Retirements)
      BY <2>2 DEF SyncInv, RetireLoop
    <3> QED
      BY <2>1, <2>2, <3>1
  <2>4. t.name \in DOMAIN records /\ t.site = records[t.name].base
    BY <2>3 DEF Retirements, Task
  <2>5. t.name \in Retirable
    <3>1. t = tasks[1] /\ 1 \in DOMAIN tasks
      BY <2>1, <2>2, TailOfList DEF TypesInv, TasksInv
    <3> QED
      BY <2>2, <3>1 DEF MemInv
  <2>6. ASSUME NEW i \in DOMAIN cfg.entries, NEW e, e = cfg.entries[i],
               IsWildcard(e), OnRecord(e, mem)
        PROVE  OnRecord(e, mem)'
    <3>1. e \in AllEntries
      BY <2>2, <2>6, DoneAreEntries
    <3>2. ~(t.name = e.name /\ records[t.name].base = e.base)
      BY <2>5, <2>6 DEF Retirable
    <3>3. t.site # e.base
      <4>1. PICK c \in AllEntries : IsWildcard(c) /\ c.name = t.name /\ c.base = records[t.name].base
        BY <2>4 DEF BasesKnown, BaseOf
      <4> QED
        BY <2>4, <2>6, <3>1, <3>2, <4>1 DEF BasesAreOwn
    <3>4. Touches(t.site)
      BY <2>2 DEF Touches
    <3>5. e.base \in DOMAIN sites' /\ sites'[e.base] = e.sup
      BY <2>6, <3>3, <3>4, OtherSite DEF OnRecord
    <3>6. e.name \in DOMAIN mem' /\ mem'[e.name] = [base |-> e.base, sup |-> e.sup]
      <4>1. e.name \in DOMAIN mem /\ mem[e.name] = [base |-> e.base, sup |-> e.sup]
        BY <2>6 DEF OnRecord
      <4>2. mem[e.name].base = e.base
        BY <4>1
      <4>3. mem' = Without(mem, t.name) => e.name # t.name \/ mem' = mem
        BY <2>2, <3>2, <4>2
      <4> QED
        BY <2>2, <4>1, <4>3 DEF Without
    <3> QED
      BY <3>5, <3>6 DEF OnRecord, ProxiesTo, Exists
  <2>7. ok' /\ opts.herd /\ ~opts.dry =>
          \A i \in DOMAIN cfg.entries : LET e == cfg.entries[i] IN
            IsWildcard(e) /\ OnRecord(e, mem) => OnRecord(e, mem)'
    BY <1>0, <2>6
  <2> QED
    BY <1>0, <2>2, <2>7, StillFixed
<1> QED
  BY <1>1, <1>2

LEMMA NextFixed ==
  ASSUME TypesInv, DraftInv, SyncInv, BasesApart, BasesAreOwn, NEW home, LoadInv(home), ProxyInv,
         MemInv, CompleteInv, FixedInv, [Next]_vars
  PROVE  FixedInv'
<1>0. BasesKnown /\ TasksFit
  BY DEF ProxyInv
<1>1. CASE SyncBegins
  <2>1. pc' = "sync" /\ todo' = conf.entries /\ cfg'.entries = conf.entries
    BY <1>1 DEF SyncBegins
  <2>2. Len(conf.entries) \in Nat
    BY ConfsAssumption DEF TypesInv, WorldInv
  <2> QED
    BY <2>1, <2>2 DEF FixedInv
<1>2. CASE \E e : SyncBuilds(e) \/ SyncWrites(e)
  BY <1>2, BuildFixes, EntryFixes
<1>3. CASE \E e : ClaimLooks(e) \/ ClaimRuns(e)
  BY <1>3, WildcardFixes
<1>4. CASE HerdLooks \/ HerdRuns
  BY <1>0, <1>4, ActionFixes
<1>5. CASE RetireBegins \/ RetireLooks \/ RetireRuns
  BY <1>0, <1>5, RetireFixes
<1>6. CASE SyncEnds \/ RemoveEnds \/ Crash \/ RemoveBegins
  <2>1. pc' \in {"idle", "remove"}
    BY <1>6 DEF SyncEnds, RemoveEnds, Crash, RemoveBegins, CommandOver
  <2> QED
    BY <2>1 DEF FixedInv
<1>7. CASE TreesChange \/ ConfigEdited \/ HerdUsed
  <2>1. ok' = FALSE
    BY <1>7 DEF TreesChange, ConfigEdited, HerdUsed, Edits
  <2> QED
    BY <2>1 DEF FixedInv
<1>8. CASE UNCHANGED vars
  <2>1. UNCHANGED <<files, sites, trees, prints, pc, opts, cfg, todo, mem, ok>>
    BY <1>8 DEF vars, disk, outside, command
  <2>2. \A e : EntryFixed(e)' = EntryFixed(e)
    BY <2>1 DEF EntryFixed, FileIsFixed, IsComplete, Built, OnRecord, ProxiesTo, Exists
  <2> QED
    BY <2>1, <2>2 DEF FixedInv
<1> QED
  BY <1>1, <1>2, <1>3, <1>4, <1>5, <1>6, <1>7, <1>8 DEF Next

\* Everything of an entry is in place: the file, the proxies of its worktrees,
\* its own proxy and the record of it.
InPlace(e) ==
  /\ ~IsWildcard(e) =>
       /\ FileIsFixed(e)
       /\ e.herd # "off" => \A n \in DOMAIN files[e.name].projects :
                              ProxiesTo(Site(n), files[e.name].projects[n].sup)
  /\ IsWildcard(e) /\ e.herd # "off" => OnRecord(e, records)

\* Nothing is on record that has to be retired.
IsLive(n) ==
  \E i \in DOMAIN conf.entries :
    /\ IsWildcard(conf.entries[i]) /\ conf.entries[i].name = n
    /\ conf.entries[i].base = records[n].base

\* After a sync that ended well, and during the next one
SettledInv ==
  settled =>
    /\ \A i \in DOMAIN conf.entries : InPlace(conf.entries[i])
    /\ \A n \in DOMAIN records : IsLive(n)
    /\ pc # "remove" /\ (pc \in {"sync", "retire"} => mem = records)
    /\ pc = "sync" => \A i \in DOMAIN tasks :
                        tasks[i].kind = "proxy" /\ ProxiesTo(tasks[i].site, tasks[i].port)
    /\ pc = "retire" => tasks = << >>
    /\ ~chosen /\ (draft # << >> => draft[1] = files[Head(todo).name].projects)

\* A sync that ends well settles.
LEMMA GoodEndSettles ==
  ASSUME TypesInv, SyncInv, ProxyInv, MemInv, FixedInv, AtGoodEnd, SyncEnds, records' = mem
  PROVE  SettledInv'
<1>0. /\ pc = "retire" /\ todo = << >> /\ tasks = << >> /\ ok /\ opts.herd /\ ~opts.dry
      /\ pc' = "idle" /\ draft' = << >> /\ chosen' = FALSE
      /\ UNCHANGED <<files, sites, conf, trees, prints>>
  BY DEF AtGoodEnd, SyncEnds, CommandOver, Ran, ProxyInv, TasksFit, outside
<1>1. cfg.entries = conf.entries
  BY <1>0 DEF TypesInv, LoadedInv
<1>2. DOMAIN << >> = {} /\ Len(<< >>) = 0
  OBVIOUS
<1>3. ASSUME NEW i \in DOMAIN conf.entries, NEW e, e = conf.entries[i] PROVE InPlace(e)'
  <2>1. i \in 1..(Len(cfg.entries) - Len(todo))
    BY <1>0, <1>1, <1>2, DoneAreEntries
  <2>2. EntryDone(e) /\ EntryFixed(e)
    BY <1>0, <1>1, <1>3, <2>1 DEF ProxyInv, EntriesDone, FixedInv
  <2>3. ~IsWildcard(e) => FileIsFixed(e)'
    BY <1>0, <2>2 DEF EntryFixed, FileIsFixed, IsComplete, Built
  <2>4. ~IsWildcard(e) /\ e.herd # "off" => \A n \in DOMAIN files[e.name].projects :
          ProxiesTo(Site(n), files[e.name].projects[n].sup)
    BY <1>0, <1>2, <2>2 DEF EntryDone, InHand
  <2>5. ~IsWildcard(e) /\ e.herd # "off" => \A n \in DOMAIN files'[e.name].projects :
          ProxiesTo(Site(n), files[e.name].projects[n].sup)'
    BY <1>0, <2>4 DEF ProxiesTo, Exists, Site
  <2>6. IsWildcard(e) /\ e.herd # "off" => OnRecord(e, records)'
    BY <1>0, <2>2 DEF EntryFixed, OnRecord, ProxiesTo, Exists
  <2> QED
    BY <2>3, <2>5, <2>6 DEF InPlace
<1>4. ASSUME NEW n \in DOMAIN mem PROVE IsLive(n)'
  <2>1. CASE LiveBase(n, mem[n].base)
    BY <1>0, <1>1, <2>1 DEF LiveBase, IsLive
  <2>2. CASE n \in DOMAIN records /\ mem[n] = records[n]
    <3>1. n \in Retirable => Retired(n)
      BY <1>0, <1>2 DEF SyncInv, RetireLoop
    <3>2. n \notin Retirable
      BY <1>4, <2>2, <3>1 DEF Retired
    <3>3. LiveBase(n, mem[n].base)
      BY <2>2, <3>2 DEF Retirable, LiveBase
    <3> QED
      BY <2>1, <3>3
  <2> QED
    BY <1>0, <2>1, <2>2 DEF MemInv
<1>5. \A i \in DOMAIN conf'.entries : InPlace(conf.entries[i])'
  BY <1>0, <1>3
<1> QED
  BY <1>0, <1>4, <1>5 DEF SettledInv

\* What leaves the stores alone leaves everything in place.
LEMMA StaysInPlace ==
  ASSUME UNCHANGED <<files, sites, records, conf, trees, prints>>,
         \A i \in DOMAIN conf.entries : InPlace(conf.entries[i]),
         \A n \in DOMAIN records : IsLive(n)
  PROVE  /\ \A i \in DOMAIN conf'.entries : InPlace(conf.entries[i])'
         /\ \A n \in DOMAIN records' : IsLive(n)'
<1>1. \A e : InPlace(e)' = InPlace(e)
  BY DEF InPlace, FileIsFixed, IsComplete, Built, OnRecord, ProxiesTo, Exists
<1>2. \A n : IsLive(n)' = IsLive(n)
  BY DEF IsLive
<1> QED
  BY <1>1, <1>2

\* syncEntry again: what is built is what the file holds.
LEMMA BuildAgainSame ==
  ASSUME TypesInv, DraftInv, NEW home, LoadInv(home), NEW e, SyncBuilds(e), InPlace(e), draft' # << >>
  PROVE  draft'[1] = files[e.name].projects
<1>1. PICK x, d : x = files[e.name].projects /\ d = Reconciled(e, x)
  OBVIOUS
<1>2. /\ AtEntry(e) /\ ~IsWildcard(e) /\ files[e.name].managed /\ Ready(e, x) /\ draft'[1] = d.final
      /\ pc = "sync"
  BY <1>1, DraftIsMade DEF AtEntry
<1>3. e.name \in DOMAIN Hand /\ IsComplete(e, x) /\ IsFragment(x)
  BY <1>1, <1>2, EntryIsLoaded, EntryResult DEF InPlace, FileIsFixed
<1>4. DOMAIN used = 1..MaxPort /\ ok \in BOOLEAN /\ Holds(used, x)
  <2>1. Claimed(Sources, used)
    BY <1>2 DEF LoadInv
  <2> QED
    BY <1>1, <1>2, <1>3, <2>1, FileHolds DEF TypesInv, LoadedInv, FlagsInv
<1>5. Fixed(e, x)
  <2>1. \A n \in DOMAIN x : Own(e, n)
    BY <1>1, <1>2, <1>3 DEF LoadInv, NamesInv, Own
  <2> QED
    BY <1>3, <2>1 DEF Fixed, IsComplete, IsFragment
<1> QED
  BY <1>1, <1>2, <1>4, <1>5, EntryIsSame

\* The file is what it was, and every Herd action finds its proxy.
LEMMA EntryAgain ==
  ASSUME TypesInv, DraftInv, NEW e, SyncWrites(e), InPlace(e),
         draft[1] = files[e.name].projects
  PROVE  /\ UNCHANGED files
         /\ \A i \in DOMAIN tasks' :
              tasks'[i].kind = "proxy" /\ ProxiesTo(tasks'[i].site, tasks'[i].port)
<1>1. PICK f, x : f = e.name /\ x = files[f].projects /\ draft[1] = x
  OBVIOUS
<1>2. /\ ~IsWildcard(e) /\ tasks = << >> /\ f \in DOMAIN Hand /\ files[f].managed /\ IsFragment(x)
      /\ DOMAIN << >> = {}
  BY <1>1, DraftIs
<1>3. files = [g \in DOMAIN Hand |-> files[g]] /\ files[f] = [managed |-> TRUE, projects |-> x]
  BY <1>1, <1>2 DEF TypesInv, FilesInv
<1>4. Written(f, x) = files
  BY <1>2, <1>3 DEF Written
<1>5. ASSUME tasks' = HerdActions(e, x, x), NEW i \in DOMAIN tasks'
      PROVE  tasks'[i].kind = "proxy" /\ ProxiesTo(tasks'[i].site, tasks'[i].port)
  <2>1. e.herd # "off"
    BY <1>2, <1>5 DEF HerdActions
  <2>2. tasks' \in Seq(Proxies(x) \cup Unproxies(x, x))
    BY <1>2, <1>5, ActionsListed DEF IsFragment
  <2>3. tasks'[i] \in Proxies(x) \cup Unproxies(x, x)
    BY <1>5, <2>2
  <2>4. Unproxies(x, x) = {}
    BY DEF Unproxies
  <2>5. PICK n \in DOMAIN x : tasks'[i] = Task("proxy", n, Site(n), x[n].sup)
    BY <2>3, <2>4 DEF Proxies
  <2>6. ProxiesTo(Site(n), x[n].sup)
    BY <1>1, <1>2, <2>1, <2>5 DEF InPlace
  <2> QED
    BY <2>5, <2>6 DEF Task
<1>6. UNCHANGED files /\ (tasks' = HerdActions(e, x, x) \/ tasks' = tasks)
  BY <1>1, <1>4 DEF SyncWrites
<1> QED
  BY <1>2, <1>5, <1>6

\* Nothing is to be retired.
LEMMA NothingToRetire ==
  ASSUME RetireBegins, Retirable = {}
  PROVE  tasks' = << >>
<1>1. PICK ns : ns = SetToSeq(Retirable)
  OBVIOUS
<1>2. ns \in Seq({}) /\ DOMAIN ns = 1..Len(ns)
  BY <1>1, SetListed, FS_EmptySet
<1>3. DOMAIN ns = {}
  BY <1>2
<1>4. tasks' = [i \in DOMAIN ns |-> Task("unproxy", ns[i], records[ns[i]].base, records[ns[i]].sup)]
  BY <1>1 DEF RetireBegins
<1> QED
  BY <1>3, <1>4

\* Another sync, as far as it gets
LEMMA SettledStays ==
  ASSUME TypesInv, DraftInv, NEW home, LoadInv(home), TasksFit, MemInv, SettledInv, settled,
         settled', [Next]_vars
  PROVE  UNCHANGED <<files, sites, records>> /\ SettledInv'
<1>0. /\ \A i \in DOMAIN conf.entries : InPlace(conf.entries[i])
      /\ \A n \in DOMAIN records : IsLive(n)
      /\ pc # "remove" /\ (pc \in {"sync", "retire"} => mem = records)
      /\ pc = "sync" => \A i \in DOMAIN tasks :
                          tasks[i].kind = "proxy" /\ ProxiesTo(tasks[i].site, tasks[i].port)
      /\ pc = "retire" => tasks = << >>
      /\ ~chosen /\ (draft # << >> => draft[1] = files[Head(todo).name].projects)
  BY DEF SettledInv
<1>1. ASSUME UNCHANGED <<files, sites, records, conf, trees, prints>>,
             pc' # "remove", pc' \in {"sync", "retire"} => mem' = records,
             pc' = "sync" => \A i \in DOMAIN tasks' :
                               tasks'[i].kind = "proxy" /\ ProxiesTo(tasks'[i].site, tasks'[i].port),
             pc' = "retire" => tasks' = << >>,
             ~chosen', draft' # << >> => draft'[1] = files'[Head(todo').name].projects
      PROVE  UNCHANGED <<files, sites, records>> /\ SettledInv'
  <2>1. /\ \A i \in DOMAIN conf'.entries : InPlace(conf.entries[i])'
        /\ \A n \in DOMAIN records' : IsLive(n)'
    BY <1>0, <1>1, StaysInPlace
  <2>2. \A h, p : ProxiesTo(h, p) => h \in DOMAIN sites' /\ sites'[h] = p
    BY <1>1 DEF ProxiesTo, Exists
  <2>3. pc' = "sync" => \A i \in DOMAIN tasks' :
          /\ tasks'[i].kind = "proxy"
          /\ tasks'[i].site \in DOMAIN sites' /\ sites'[tasks'[i].site] = tasks'[i].port
    BY <1>1, <2>2
  <2>4. pc' = "sync" => \A i \in DOMAIN tasks' :
          tasks'[i].kind = "proxy" /\ ProxiesTo(tasks[i].site, tasks[i].port)'
    BY <2>3 DEF ProxiesTo, Exists
  <2> QED
    BY <1>1, <2>1, <2>4 DEF SettledInv
<1>2. DOMAIN << >> = {}
  OBVIOUS
<1>3. CASE SyncBegins
  <2>1. /\ UNCHANGED <<files, sites, records, conf, trees, prints, draft, tasks, chosen>>
        /\ pc = "idle" /\ pc' = "sync" /\ mem' = records
    BY <1>3 DEF SyncBegins, disk, outside
  <2>2. tasks' = << >> /\ draft' = << >> /\ ~chosen'
    BY <2>1 DEF TasksFit, DraftInv
  <2> QED
    BY <1>1, <1>2, <2>1, <2>2
<1>4. ASSUME NEW e, SyncBuilds(e) PROVE UNCHANGED <<files, sites, records>> /\ SettledInv'
  <2>1. /\ UNCHANGED <<files, sites, records, conf, trees, prints, mem, pc, tasks, chosen>>
        /\ pc = "sync" /\ AtEntry(e) /\ tasks = << >> /\ e = Head(todo)
    BY <1>4 DEF SyncBuilds, AtEntry, disk, outside
  <2>2. InPlace(e)
    BY <1>0, <2>1, EntryIsLoaded DEF TypesInv, LoadedInv
  <2>3. draft' # << >> => draft'[1] = files'[Head(todo').name].projects
    <3> SUFFICES ASSUME draft' # << >> PROVE draft'[1] = files'[Head(todo').name].projects
      OBVIOUS
    <3>1. UNCHANGED todo
      BY <1>4 DEF SyncBuilds
    <3> QED
      BY <1>4, <2>1, <2>2, <3>1, BuildAgainSame
  <2> QED
    BY <1>0, <1>1, <1>2, <2>1, <2>3
<1>5. ASSUME NEW e, SyncWrites(e) PROVE UNCHANGED <<files, sites, records>> /\ SettledInv'
  <2>1. /\ UNCHANGED <<sites, records, conf, trees, prints, mem, pc>> /\ pc = "sync" /\ AtEntry(e)
        /\ draft # << >> /\ draft' = << >> /\ ~chosen' /\ e = Head(todo)
    BY <1>5 DEF SyncWrites, AtEntry, outside, Ran
  <2>2. InPlace(e)
    BY <1>0, <2>1, EntryIsLoaded DEF TypesInv, LoadedInv
  <2>3. /\ UNCHANGED files
        /\ \A i \in DOMAIN tasks' :
              tasks'[i].kind = "proxy" /\ ProxiesTo(tasks'[i].site, tasks'[i].port)
    BY <1>0, <1>5, <2>1, <2>2, EntryAgain
  <2> QED
    BY <1>0, <1>1, <2>1, <2>3
<1>6. ASSUME NEW e, ClaimLooks(e) PROVE UNCHANGED <<files, sites, records>> /\ SettledInv'
  <2>1. /\ UNCHANGED <<files, sites, records, conf, trees, prints, pc, tasks, draft>> /\ pc = "sync"
        /\ AtEntry(e) /\ IsWildcard(e) /\ tasks = << >> /\ ok \in BOOLEAN /\ e = Head(todo)
    BY <1>6 DEF ClaimLooks, AtEntry, disk, outside, TypesInv, FlagsInv
  <2>2. InPlace(e)
    BY <1>0, <2>1, EntryIsLoaded DEF TypesInv, LoadedInv
  <2>3. draft = << >>
    BY <2>1 DEF DraftInv
  <2>4. e.herd # "off" => OnRecord(e, records)
    BY <2>1, <2>2 DEF InPlace
  <2>5. ~chosen' /\ (mem' = mem \/ (mem' = Recorded(e)))
    BY <1>6, <2>1, <2>4, ClaimLooked DEF OnRecord
  <2>6. mem' = mem
    <3> SUFFICES ASSUME mem' = Recorded(e) PROVE mem' = mem
      BY <2>5
    <3>1. CASE e.herd = "off"
      BY <1>6, <3>1 DEF ClaimLooks, ClaimVerdict
    <3>2. CASE e.herd # "off"
      <4>1. PICK v : v = [base |-> e.base, sup |-> e.sup]
        OBVIOUS
      <4>2. e.name \in DOMAIN mem /\ mem[e.name] = v /\ IsFcn(mem)
        BY <1>0, <2>1, <2>4, <3>2, <4>1 DEF OnRecord, MemInv
      <4>3. mem' = With(mem, e.name, v)
        BY <4>1 DEF Recorded
      <4> QED
        BY <4>2, <4>3 DEF With, IsFcn
    <3> QED
      BY <3>1, <3>2
  <2> QED
    BY <1>0, <1>1, <1>2, <2>1, <2>3, <2>5, <2>6
<1>12. CASE HerdLooks
  <2>1. /\ UNCHANGED <<files, sites, records, conf, trees, prints, pc, mem, draft>> /\ pc = "sync"
        /\ tasks # << >> /\ ok \in BOOLEAN
    BY <1>0, <1>12 DEF HerdLooks, disk, outside, TypesInv, FlagsInv
  <2>2. PICK t : t = Head(tasks)
    OBVIOUS
  <2>3. 1 \in DOMAIN tasks /\ t = tasks[1]
    BY <2>1, <2>2, TailOfList DEF TypesInv, TasksInv
  <2>4. t.kind = "proxy" /\ ProxiesTo(t.site, t.port)
    BY <1>0, <2>1, <2>3
  <2>5. ~chosen' /\ tasks' = Tail(tasks)
    BY <1>12, <2>1, <2>2, <2>4, ActionLooked
  <2>6. \A i \in DOMAIN tasks' : i + 1 \in DOMAIN tasks /\ tasks'[i] = tasks[i + 1]
    BY <2>1, <2>5, TailOfList DEF TypesInv, TasksInv
  <2>7. \A i \in DOMAIN tasks' :
          tasks'[i].kind = "proxy" /\ ProxiesTo(tasks'[i].site, tasks'[i].port)
    BY <1>0, <2>1, <2>6
  <2>8. draft = << >>
    BY <2>1 DEF DraftInv, AtEntry
  <2> QED
    BY <1>0, <1>1, <2>1, <2>5, <2>7, <2>8
<1>7. CASE RetireBegins
  <2>1. /\ UNCHANGED <<files, sites, records, conf, trees, prints, mem>> /\ pc = "sync"
        /\ pc' = "retire" /\ UNCHANGED chosen /\ draft' = << >>
    BY <1>7 DEF RetireBegins, disk, outside, DraftInv, AtEntry
  <2>2. Retirable = {}
    BY <1>0, <2>1 DEF Retirable, IsLive, TypesInv, LoadedInv
  <2>3. tasks' = << >>
    BY <1>7, <2>2, NothingToRetire
  <2> QED
    BY <1>0, <1>1, <2>1, <2>3
<1>8. CASE RetireLooks \/ RetireRuns \/ HerdRuns \/ \E e : ClaimRuns(e)
  BY <1>0, <1>8 DEF RetireLooks, RetireRuns, HerdRuns, ClaimRuns
<1>9. CASE SyncEnds \/ Crash
  <2>1. /\ UNCHANGED <<files, sites, records, conf, trees, prints>> /\ pc' = "idle"
        /\ draft' = << >> /\ ~chosen'
    BY <1>0, <1>9 DEF SyncEnds, Crash, CommandOver, Ran, disk, outside
  <2> QED
    BY <1>1, <2>1
<1>10. CASE RemoveBegins \/ RemoveEnds \/ TreesChange \/ ConfigEdited \/ HerdUsed
  BY <1>0, <1>10 DEF RemoveBegins, RemoveEnds, TreesChange, ConfigEdited, HerdUsed, Edits
<1>11. CASE UNCHANGED vars
  BY <1>0, <1>1, <1>11 DEF vars, disk, outside, command
<1> QED
  BY <1>3, <1>4, <1>5, <1>6, <1>7, <1>8, <1>9, <1>10, <1>11, <1>12 DEF Next

LEMMA NextSettled ==
  ASSUME TypesInv, DraftInv, SyncInv, NEW home, LoadInv(home), ProxyInv, MemInv, FixedInv,
         SettledInv, [Next]_vars
  PROVE  SettledInv'
<1>1. CASE ~settled'
  BY <1>1 DEF SettledInv
<1>2. CASE settled /\ settled'
  BY <1>2, SettledStays DEF ProxyInv
<1>3. CASE ~settled /\ settled'
  <2>1. SyncEnds
    BY <1>3 DEF Next, SyncBegins, SyncBuilds, SyncWrites, ClaimLooks, ClaimRuns, HerdLooks, HerdRuns,
       RetireBegins, RetireLooks, RetireRuns, RemoveBegins, RemoveEnds, Crash, TreesChange,
       ConfigEdited, HerdUsed, Edits, vars
  <2>2. AtGoodEnd /\ records' = mem
    BY <1>3, <2>1 DEF SyncEnds, AtGoodEnd
  <2> QED
    BY <2>1, <2>2, GoodEndSettles
<1> QED
  BY <1>1, <1>2, <1>3 DEF TypesInv, FlagsInv

-----------------------------------------------------------------------------
(* Theorems *)

LEMMA Invariant == Spec => [](TypesInv /\ DraftInv /\ SyncInv)
<1>1. TypesInv /\ DraftInv /\ SyncInv /\ [Next]_vars => (TypesInv /\ DraftInv /\ SyncInv)'
  BY NextTypes, NextDraft, NextSync DEF SyncInv
<1> QED
  BY InitTypes, InitDraft, InitSync, <1>1, PTL DEF Spec

\* The record of registrations stays finite, and while retireWildcards is at
\* work every registration it has to retire is on its list or done with.
THEOREM SyncInvariant == Spec => []SyncInv
BY Invariant, PTL

\* Whatever sync computes over the worktrees, every project it writes has two
\* ports, its supervisor_port from a range of its entry, and every Herd action
\* and every record carries such a port.
THEOREM TypesInvariant == Spec => []TypesInv
BY Invariant, PTL

\* The state has its type: the ports of what sync builds and writes are ports,
\* those it allocates are of the entry's range, whatever port_command prints.
THEOREM TypeCorrect == Spec => []TypeOK
<1>1. TypesInv /\ DraftInv => TypeOK
  <2> SUFFICES ASSUME TypesInv, DraftInv PROVE TypeOK
    OBVIOUS
  <2>1. \A f \in DOMAIN files : \A n \in DOMAIN files[f].projects :
          /\ PortsAreValid(files[f].projects[n])
          /\ files[f].managed => Allocated(f, files[f].projects[n].sup)
    BY DEF TypesInv, FilesInv, IsFragment, Sound
  <2>2. /\ \A n \in DOMAIN records : ValidPort(records[n].sup)
        /\ \A i \in DOMAIN tasks : tasks[i].kind \in {"proxy", "unproxy"} /\ ValidPort(tasks[i].port)
    BY DEF TypesInv, RecordsInv, TasksInv, IsTask, Ours, ValidPort
  <2>3. \A i \in DOMAIN draft : \A n \in DOMAIN draft[i] : PortsAreValid(draft[i][n])
    <3>1. CASE draft = << >>
      BY <3>1
    <3>2. CASE draft # << >>
      <4>1. PICK d : draft = <<d>> /\ IsFragment(d)
        BY <3>2 DEF DraftInv, IsDraft
      <4> QED
        BY <4>1 DEF IsFragment
    <3> QED
      BY <3>1, <3>2
  <2> QED
    BY <2>1, <2>2, <2>3 DEF TypeOK, TypesInv, SitesInv, WorldInv, FlagsInv
<1> QED
  BY <1>1, Invariant, PTL

\* Whatever fails, is killed or changes meanwhile, a command of this program
\* leaves a site alone that is no proxy, registers with Herd no name that Herd
\* serves as a PHP site (herdConflict), and takes away no proxy that the user
\* pointed elsewhere (unproxyAction), except at a site that others changed
\* between the command's look at it and what it then did.
THEOREM SitesAlwaysRespected == Spec => SitesAreRespected
<1>1. Init => SightInv
  BY DEF Init, SightInv, LooksInv, FreeNames
<1>2. TypesInv /\ DraftInv /\ SightInv /\ [Next]_vars =>
        [edits' = edits =>
           /\ \A h \in DOMAIN sites \ touched : sites[h] = 0 => h \in DOMAIN sites' /\ sites'[h] = 0
           /\ \A h \in DOMAIN sites \ (DOMAIN sites' \cup touched) : sites[h] # Foreign
           /\ opts.herd => \A f \in DOMAIN files :
                \A n \in DOMAIN files'[f].projects \ DOMAIN files[f].projects :
                  Site(n) \notin Parked /\ (NotProxy(Site(n)) => Site(n) \in touched)]_vars
  BY CommandRespects, NewNamesAreFree DEF Respects
<1> QED
  BY <1>1, <1>2, NextSight, Invariant, PTL DEF Spec, SitesAreRespected

\* What sync and project:remove write has names, ports and hosts that fit all
\* the rest, whatever port_command prints and however full the ranges are, and
\* it loads unless the template of the entry is risky, when every worktree name
\* belongs to one entry.  Two entries that find a new worktree of the same name
\* in one sync both register it: build asks the configuration that was loaded,
\* and not the file just written, whether the name is taken.
THEOREM ConfigAlwaysLoads ==
  ASSUME NEW CONSTANT home
  PROVE  Spec /\ []HomesApart(home) => ConfigStillLoads
<1>1. Init => LoadInv(home)
  BY DEF Init, LoadInv
<1>2. TypesInv /\ DraftInv /\ HomesApart(home) /\ LoadInv(home) /\ [Next]_vars => LoadInv(home)'
  BY NextLoads
<1>3. TypesInv /\ DraftInv /\ HomesApart(home) /\ LoadInv(home) /\ [Next]_vars =>
        [files' # files /\ ConfigLoads =>
           /\ ClaimsFit'
           /\ ConfigLoads' \/ \E e \in Range(conf.entries) :
                Risky(e) /\ files'[e.name] # files[e.name]]_vars
  <2> SUFFICES ASSUME TypesInv, DraftInv, HomesApart(home), LoadInv(home), [Next]_vars,
                      files' # files, ConfigLoads
               PROVE  ClaimsFit' /\ (ConfigLoads' \/ \E e \in Range(conf.entries) :
                        Risky(e) /\ files'[e.name] # files[e.name])
    OBVIOUS
  <2>1. Flat(Sources', conf'.entries)
    BY NextLoads
  <2>2. Fits(Sources', conf'.entries)
    BY <2>1, FlatFits
  <2>3. ClaimsFit'
    BY <2>2 DEF Fits, ClaimsFit
  <2> QED
    BY <2>1, <2>3, NextStillLoads
<1> QED
  BY <1>1, <1>2, <1>3, Invariant, PTL DEF Spec, ConfigStillLoads

\* A sync with Herd that ended with nothing failed, skipped or changed by
\* others has proxied every worktree registered in a file of its entries
\* (herdActions), when no worktree has the name of another entry's worktree or
\* of a wildcard entry's base.
THEOREM WorktreesAlwaysProxied ==
  ASSUME NEW CONSTANT home, BasesApart
  PROVE  Spec /\ []HomesApart(home) => []WorktreesAreProxied
<1>1. Init => LoadInv(home) /\ ProxyInv
  <2>1. DOMAIN << >> = {}
    OBVIOUS
  <2> QED
    BY <2>1 DEF Init, LoadInv, ProxyInv, BasesKnown, TasksFit, EntriesDone
<1>2. TypesInv /\ DraftInv /\ SyncInv /\ HomesApart(home) /\ LoadInv(home) /\ ProxyInv
        /\ [Next]_vars => LoadInv(home)' /\ ProxyInv'
  BY NextLoads, NextProxies
<1>3. TypesInv /\ SyncInv /\ ProxyInv => WorktreesAreProxied
  <2> SUFFICES ASSUME TypesInv, SyncInv, ProxyInv, AtGoodEnd, NEW i \in DOMAIN cfg.entries,
                      ~IsWildcard(cfg.entries[i]), cfg.entries[i].herd # "off",
                      NEW n \in DOMAIN files[cfg.entries[i].name].projects
               PROVE  ProxiesTo(Site(n), files[cfg.entries[i].name].projects[n].sup)
    BY DEF WorktreesAreProxied
  <2>1. PICK e : e = cfg.entries[i]
    OBVIOUS
  <2>2. todo = << >> /\ tasks = << >> /\ pc = "retire" /\ DOMAIN << >> = {}
    BY DEF AtGoodEnd, ProxyInv, TasksFit
  <2>3. i \in 1..(Len(cfg.entries) - Len(todo))
    BY <2>2, DoneAreEntries
  <2>4. EntryDone(e)
    BY <2>1, <2>3 DEF AtGoodEnd, ProxyInv, EntriesDone
  <2> QED
    BY <2>1, <2>2, <2>4 DEF EntryDone, InHand
<1> QED
  BY <1>1, <1>2, <1>3, Invariant, PTL DEF Spec

\* Syncing is idempotent: after a sync with Herd that ended with nothing
\* failed, skipped or changed by others, another one finds every file, site
\* and record as it would leave it, when no worktree has the name of another
\* entry's worktree or of a wildcard entry's base, and no wildcard entry is
\* renamed in place.
THEOREM SyncIsIdempotent ==
  ASSUME NEW CONSTANT home, BasesApart, BasesAreOwn
  PROVE  Spec /\ []HomesApart(home) => Idempotent
<1> DEFINE Inv == TypesInv /\ DraftInv /\ SyncInv
           More == LoadInv(home) /\ ProxyInv /\ MemInv /\ CompleteInv /\ FixedInv /\ SettledInv
<1>1. Init => More
  <2>1. DOMAIN << >> = {}
    OBVIOUS
  <2> QED
    BY <2>1, FcnEmpty DEF Init, LoadInv, ProxyInv, BasesKnown, TasksFit, EntriesDone, MemInv,
       CompleteInv, FixedInv, SettledInv
<1>2. Inv /\ HomesApart(home) /\ More /\ [Next]_vars => More'
  BY NextLoads, NextProxies, NextMem, NextComplete, NextFixed, NextSettled
<1>3. Inv /\ More /\ [Next]_vars =>
        [settled /\ settled' => UNCHANGED <<files, sites, records>>]_vars
  BY SettledStays DEF ProxyInv
<1>4. Spec => []Inv
  BY Invariant, PTL
<1> HIDE DEF Inv, More
<1> QED
  BY <1>1, <1>2, <1>3, <1>4, PTL DEF Spec, Idempotent

\* A sync with Herd that ended with nothing failed, skipped or changed by
\* others has unproxied, and taken off the record, every wildcard entry that
\* was removed or moved to another base_domain (retireWildcards).
THEOREM RetiredAlwaysUnproxied == Spec => []RetiredIsUnproxied
<1>1. SyncInv => RetiredIsUnproxied
  <2> SUFFICES ASSUME SyncInv, AtGoodEnd, NEW n \in DOMAIN records,
                      \A i \in DOMAIN cfg.entries :
                        cfg.entries[i].name = n /\ IsWildcard(cfg.entries[i]) =>
                          cfg.entries[i].base # records[n].base
               PROVE  Retired(n)
    BY DEF RetiredIsUnproxied, Retired
  <2>1. n \in Retirable
    BY DEF Retirable
  <2>2. ~ \E i \in 1..Len(tasks) : tasks[i].name = n
    BY DEF AtGoodEnd
  <2> QED
    BY <2>1, <2>2 DEF SyncInv, RetireLoop, AtGoodEnd
<1> QED
  BY <1>1, SyncInvariant, PTL
=============================================================================
