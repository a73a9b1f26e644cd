--------------------------- MODULE WildcardProofs ---------------------------
(***************************************************************************)
(* Proofs about Wildcard, for every configuration, any set of requests and *)
(* any bounds.                                                             *)
(*                                                                         *)
(* A label has one resolution at a time and nobody waits for one that is   *)
(* not in progress, whatever reloads, drops, restarts and the shutdown do  *)
(* meanwhile (SingleFlight).  ResolverInv is inductive.  SingleFlight is   *)
(* not, because it does not say that a request in the resolver is nowhere  *)
(* else in the daemon (Placed): one that were could begin again and forget *)
(* the flight others wait for.                                             *)
(*                                                                         *)
(* A project in the table is served, about to be, or on its way out        *)
(* (DynamicIsServed), if no reload comes in between and operators leave    *)
(* alone what comes and goes (FatesApart).  While Run binds there are no   *)
(* dynamic projects and the invariants of Daemon hold (Booting); when it   *)
(* has bound everything they imply DynamicInv, which the steps of the      *)
(* resolver, of drops and of restarts preserve.                            *)
(*                                                                         *)
(* Under the same hypotheses stopAll leaves no listener, and no process    *)
(* but of always_on projects that were resolved too late                   *)
(* (OnlyLateStartersOutlive).  HaltInv adds to DynamicInv that what        *)
(* stopAll does not have in hand is always on, or is not running and will  *)
(* not be started.  A start that failed is stopped without ever having     *)
(* served (Failed).                                                        *)
(***************************************************************************)
EXTENDS Wildcard, TableProofs

\* Requests, in the daemon and in the resolver, are records.
Shaped ==
  /\ res = [q \in Requests |-> res[q]]
  /\ \A q \in Requests :
       res[q] = [step |-> res[q].step, ent |-> res[q].ent, label |-> res[q].label,
                 reg |-> res[q].reg, port |-> res[q].port, out |-> res[q].out]
  /\ req = [q \in Requests |-> req[q]]
  /\ \A q \in Requests :
       req[q] = [step |-> req[q].step, sw |-> req[q].sw, reg |-> req[q].reg]

\* A request is in the resolver exactly while the daemon's side says so.
Placed == \A q \in Requests : res[q].step # "away" <=> req[q].step = "resolving"

SameFlight(p, q) == res[p].ent = res[q].ent /\ res[p].label = res[q].label
InFlight(q) == res[q].step \in Resolving

\* One flight at a time, and nobody waits without one.
OneFlight ==
  /\ \A p, q \in Requests : InFlight(p) /\ InFlight(q) /\ SameFlight(p, q) => p = q
  /\ \A p \in Requests : At(p, "await") =>
       \E q \in Requests : InFlight(q) /\ SameFlight(p, q)

ResolverInv == Shaped /\ Placed /\ OneFlight

\* The initial state satisfies the invariant.
LEMMA InitEstablishes == WildcardInit => ResolverInv
<1> SUFFICES ASSUME WildcardInit PROVE ResolverInv
  OBVIOUS
<1>1. /\ res = [q \in Requests |-> Outside]
      /\ req = [q \in Requests |-> Idle]
  BY DEF WildcardInit, Init
<1>2. Shaped
  BY <1>1 DEF Shaped, Outside, Idle
<1>3. \A q \in Requests : res[q].step = "away" /\ req[q].step = "away"
  BY <1>1 DEF Outside, Idle
<1>4. OneFlight /\ Placed
  BY <1>3 DEF OneFlight, InFlight, Resolving, At, Placed
<1> QED
  BY <1>2, <1>4 DEF ResolverInv

-----------------------------------------------------------------------------
(* What a change of one request's place does to the flights. *)

\* Only request q moves, to the place s of its flight.
Moves(q, s) ==
  /\ res'[q].step = s /\ res'[q].ent = res[q].ent /\ res'[q].label = res[q].label
  /\ \A p \in Requests \ {q} : res'[p] = res[p]

\* The request that resolves a label goes on.
LEMMA FlightGoesOn ==
  ASSUME OneFlight, NEW q \in Requests, NEW s \in Resolving, InFlight(q), Moves(q, s)
  PROVE  OneFlight'
<1>1. \A p \in Requests : InFlight(p)' <=> InFlight(p)
  BY DEF InFlight, Moves
<1>2. \A p \in Requests : At(p, "await")' => At(p, "await")
  BY DEF At, Moves, Resolving
<1>3. \A p, x \in Requests : SameFlight(p, x)' <=> SameFlight(p, x)
  BY DEF SameFlight, Moves
<1> QED
  BY <1>1, <1>2, <1>3 DEF OneFlight

\* A request joins the flight of its label, or begins one that is missing.
LEMMA FlightIsJoined ==
  ASSUME OneFlight, NEW q \in Requests, ~InFlight(q),
         \/ Moves(q, "await") /\ \E p \in Requests : InFlight(p) /\ SameFlight(q, p)
         \/ Moves(q, "check") /\ \A p \in Requests : ~(InFlight(p) /\ SameFlight(q, p))
  PROVE  OneFlight'
<1>1. \A p, x \in Requests : SameFlight(p, x)' <=> SameFlight(p, x)
  BY DEF SameFlight, Moves
<1>2. \A p \in Requests \ {q} :
         /\ InFlight(p)' <=> InFlight(p)
         /\ At(p, "await")' <=> At(p, "await")
  BY DEF InFlight, Moves, At
<1>3. \A p, x \in Requests : SameFlight(p, x) <=> SameFlight(x, p)
  BY DEF SameFlight
<1>4. CASE Moves(q, "await") /\ \E p \in Requests : InFlight(p) /\ SameFlight(q, p)
  <2>1. ~InFlight(q)'
    BY <1>4 DEF InFlight, Moves, Resolving
  <2>2. ASSUME NEW p \in Requests, NEW x \in Requests,
               InFlight(p)', InFlight(x)', SameFlight(p, x)'
        PROVE  p = x
    BY <1>1, <1>2, <2>1, <2>2 DEF OneFlight
  <2>3. ASSUME NEW p \in Requests, At(p, "await")'
        PROVE  \E x \in Requests : InFlight(x)' /\ SameFlight(p, x)'
    <3>1. PICK x \in Requests : InFlight(x) /\ SameFlight(p, x)
      BY <1>2, <1>4, <2>3 DEF OneFlight
    <3> QED
      BY <1>1, <1>2, <3>1
  <2> QED
    BY <2>2, <2>3 DEF OneFlight
<1>5. CASE Moves(q, "check") /\ \A p \in Requests : ~(InFlight(p) /\ SameFlight(q, p))
  <2>1. InFlight(q)' /\ ~At(q, "await")'
    BY <1>5 DEF InFlight, Moves, Resolving, At
  <2>2. ASSUME NEW p \in Requests, NEW x \in Requests,
               InFlight(p)', InFlight(x)', SameFlight(p, x)'
        PROVE  p = x
    <3>1. CASE p # q /\ x # q
      BY <1>1, <1>2, <2>2, <3>1 DEF OneFlight
    <3>2. CASE p = q \/ x = q
      BY <1>1, <1>2, <1>3, <1>5, <2>2, <3>2
    <3> QED
      BY <3>1, <3>2
  <2>3. ASSUME NEW p \in Requests, At(p, "await")'
        PROVE  \E x \in Requests : InFlight(x)' /\ SameFlight(p, x)'
    <3>1. PICK x \in Requests : InFlight(x) /\ SameFlight(p, x)
      BY <1>2, <2>1, <2>3 DEF OneFlight
    <3> QED
      BY <1>1, <1>2, <3>1
  <2> QED
    BY <2>2, <2>3 DEF OneFlight
<1> QED
  BY <1>4, <1>5

\* A request that is in no flight comes or goes.
LEMMA FlightsAreKept ==
  ASSUME OneFlight, NEW q \in Requests, ~InFlight(q),
         res'[q].step \in {"away", "enter"},
         \A p \in Requests \ {q} : res'[p] = res[p]
  PROVE  OneFlight'
<1>1. ~InFlight(q)' /\ ~At(q, "await")'
  BY DEF InFlight, Resolving, At
<1>2. \A p \in Requests \ {q} :
         /\ InFlight(p)' <=> InFlight(p)
         /\ At(p, "await")' <=> At(p, "await")
  BY DEF InFlight, At
<1>3. \A p, x \in Requests : p # q /\ x # q => (SameFlight(p, x)' <=> SameFlight(p, x))
  BY DEF SameFlight
<1>4. ASSUME NEW p \in Requests, NEW x \in Requests,
             InFlight(p)', InFlight(x)', SameFlight(p, x)'
      PROVE  p = x
  BY <1>1, <1>2, <1>3, <1>4 DEF OneFlight
<1>5. ASSUME NEW p \in Requests, At(p, "await")'
      PROVE  \E x \in Requests : InFlight(x)' /\ SameFlight(p, x)'
  <2>1. PICK x \in Requests : InFlight(x) /\ SameFlight(p, x)
    BY <1>1, <1>2, <1>5 DEF OneFlight
  <2> QED
    BY <1>1, <1>2, <1>3, <1>5, <2>1
<1> QED
  BY <1>4, <1>5 DEF OneFlight

\* A flight ends: its own request leaves, and whoever waited for it is woken.
LEMMA FlightEnds ==
  ASSUME OneFlight, NEW q \in Requests, InFlight(q),
         res'[q].step = "away",
         \A p \in Requests \ {q} :
           IF At(p, "await") /\ SameFlight(p, q) THEN res'[p].step = "woken"
           ELSE res'[p] = res[p]
  PROVE  OneFlight'
<1>1. ~InFlight(q)' /\ ~At(q, "await")'
  BY DEF InFlight, Resolving, At
<1>2. \A p \in Requests : InFlight(p)' => p # q /\ InFlight(p) /\ res'[p] = res[p]
  BY <1>1 DEF InFlight, Resolving, At
<1>3. \A p \in Requests : At(p, "await")' =>
         p # q /\ At(p, "await") /\ ~SameFlight(p, q) /\ res'[p] = res[p]
  BY <1>1 DEF At
<1>4. \A p \in Requests : InFlight(p) /\ p # q => res'[p] = res[p]
  BY DEF InFlight, Resolving, At
<1>5. ASSUME NEW p \in Requests, NEW x \in Requests,
             InFlight(p)', InFlight(x)', SameFlight(p, x)'
      PROVE  p = x
  BY <1>2, <1>5 DEF OneFlight, SameFlight
<1>6. ASSUME NEW p \in Requests, At(p, "await")'
      PROVE  \E x \in Requests : InFlight(x)' /\ SameFlight(p, x)'
  <2>1. PICK x \in Requests : InFlight(x) /\ SameFlight(p, x)
    BY <1>3, <1>6 DEF OneFlight
  <2>2. x # q
    BY <1>3, <1>6, <2>1
  <2> QED
    BY <1>3, <1>4, <1>6, <2>1, <2>2 DEF SameFlight, InFlight
<1> QED
  BY <1>5, <1>6 DEF OneFlight

-----------------------------------------------------------------------------
(* The steps. *)

\* A request that is answered leaves the resolver.
LEMMA AnsweredLeaves ==
  ASSUME Shaped, Placed, NEW q \in Requests, Answered(q)
  PROVE  /\ Shaped' /\ Placed'
         /\ res'[q].step = "away"
         /\ \A p \in Requests \ {q} : res'[p] = res[p]
<1>1. /\ res'[q] = Outside /\ req'[q] = Idle
      /\ \A p \in Requests \ {q} : res'[p] = res[p] /\ req'[p] = req[p]
  BY DEF Answered, Shaped
<1>2. Shaped'
  BY DEF Answered, Shaped, Outside, Idle
<1>3. Outside.step = "away" /\ Idle.step = "away"
  BY DEF Outside, Idle
<1> QED
  BY <1>1, <1>2, <1>3 DEF Placed

\* A step of the resolver that only moves a request on.
LEMMA GotoMoves ==
  ASSUME Shaped, Placed, NEW q \in Requests, NEW s, Goto(q, s), UNCHANGED req,
         res[q].step # "away", s # "away"
  PROVE  Shaped' /\ Placed' /\ Moves(q, s)
<1>1. Moves(q, s)
  BY DEF Goto, Shaped, Moves
<1>2. Shaped'
  BY DEF Goto, Shaped
<1>3. Placed'
  BY <1>1 DEF Placed, Moves
<1> QED
  BY <1>1, <1>2, <1>3

\* A step of the resolver that moves a request on and notes a result.
LEMMA CallChanges ==
  ASSUME Shaped, NEW q \in Requests, UNCHANGED req, NEW s,
         \/ \E o : res' = [res EXCEPT ![q].step = s, ![q].out = o]
         \/ \E p : res' = [res EXCEPT ![q].step = s, ![q].port = p]
         \/ \E r, o : res' = [res EXCEPT ![q].step = s, ![q].reg = r, ![q].out = o]
  PROVE  Moves(q, s) /\ Shaped'
<1>0. res[q] = [step |-> res[q].step, ent |-> res[q].ent, label |-> res[q].label,
                reg |-> res[q].reg, port |-> res[q].port, out |-> res[q].out]
  BY DEF Shaped
<1>1. ASSUME NEW c, res' = [res EXCEPT ![q] = c], c.step = s,
             c.ent = res[q].ent, c.label = res[q].label,
             c = [step |-> c.step, ent |-> c.ent, label |-> c.label,
                  reg |-> c.reg, port |-> c.port, out |-> c.out]
      PROVE  Moves(q, s) /\ Shaped'
  <2>1. res'[q] = c /\ \A x \in Requests \ {q} : res'[x] = res[x]
    BY <1>1 DEF Shaped
  <2>2. Moves(q, s)
    BY <1>1, <2>1 DEF Moves
  <2>3. Shaped'
    BY <1>1, <2>1 DEF Shaped
  <2> QED
    BY ZenonT(60), <2>2, <2>3
<1>2. ASSUME NEW o, res' = [res EXCEPT ![q].step = s, ![q].out = o]
      PROVE  Moves(q, s) /\ Shaped'
  <2> DEFINE c == [step |-> s, ent |-> res[q].ent, label |-> res[q].label,
                   reg |-> res[q].reg, port |-> res[q].port, out |-> o]
  <2>1. /\ c.step = s /\ c.ent = res[q].ent /\ c.label = res[q].label
        /\ c = [step |-> c.step, ent |-> c.ent, label |-> c.label,
                reg |-> c.reg, port |-> c.port, out |-> c.out]
    OBVIOUS
  <2>2. res' = [res EXCEPT ![q] = c]
    BY ZenonT(60), <1>0, <1>2 DEF Shaped
  <2> HIDE DEF c
  <2> QED
    BY <1>1, <2>1, <2>2
<1>3. ASSUME NEW p, res' = [res EXCEPT ![q].step = s, ![q].port = p]
      PROVE  Moves(q, s) /\ Shaped'
  <2> DEFINE c == [step |-> s, ent |-> res[q].ent, label |-> res[q].label,
                   reg |-> res[q].reg, port |-> p, out |-> res[q].out]
  <2>1. /\ c.step = s /\ c.ent = res[q].ent /\ c.label = res[q].label
        /\ c = [step |-> c.step, ent |-> c.ent, label |-> c.label,
                reg |-> c.reg, port |-> c.port, out |-> c.out]
    OBVIOUS
  <2>2. res' = [res EXCEPT ![q] = c]
    BY ZenonT(60), <1>0, <1>3 DEF Shaped
  <2> HIDE DEF c
  <2> QED
    BY <1>1, <2>1, <2>2
<1>4. ASSUME NEW r, NEW o, res' = [res EXCEPT ![q].step = s, ![q].reg = r, ![q].out = o]
      PROVE  Moves(q, s) /\ Shaped'
  <2> DEFINE c == [step |-> s, ent |-> res[q].ent, label |-> res[q].label,
                   reg |-> r, port |-> res[q].port, out |-> o]
  <2>1. /\ c.step = s /\ c.ent = res[q].ent /\ c.label = res[q].label
        /\ c = [step |-> c.step, ent |-> c.ent, label |-> c.label,
                reg |-> c.reg, port |-> c.port, out |-> c.out]
    OBVIOUS
  <2>2. res' = [res EXCEPT ![q] = c]
    BY ZenonT(60), <1>0, <1>4 DEF Shaped
  <2> HIDE DEF c
  <2> QED
    BY <1>1, <2>1, <2>2
<1> QED
  BY ZenonT(60), <1>2, <1>3, <1>4

\* resolve up to the unlock of rs.mu
LEMMA EntersPreserves ==
  ASSUME ResolverInv, NEW q \in Requests, Enters(q)
  PROVE  ResolverInv'
<1>1. res[q].step = "enter" /\ ~InFlight(q)
  BY DEF Enters, At, InFlight, Resolving
<1>2. CASE Answered(q)
  BY <1>1, <1>2, AnsweredLeaves, FlightsAreKept DEF ResolverInv
<1>3. CASE /\ Goto(q, "await") /\ UNCHANGED req
           /\ Flights(res[q].ent, res[q].label) # {}
  <2>1. \E p \in Requests : InFlight(p) /\ SameFlight(q, p)
    BY <1>3 DEF Flights, InFlight, SameFlight
  <2> QED
    BY <1>1, <1>3, <2>1, GotoMoves, FlightIsJoined DEF ResolverInv
<1>4. CASE /\ Goto(q, "check") /\ UNCHANGED req
           /\ Flights(res[q].ent, res[q].label) = {}
  <2>1. \A p \in Requests : ~(InFlight(p) /\ SameFlight(q, p))
    BY <1>4 DEF Flights, InFlight, SameFlight
  <2> QED
    BY <1>1, <1>4, <2>1, GotoMoves, FlightIsJoined DEF ResolverInv
<1> QED
  BY <1>2, <1>3, <1>4 DEF Enters

\* materialise: the steps of the request that resolves the label
LEMMA MaterialisePreserves ==
  ASSUME ResolverInv, NEW q \in Requests,
         Checks(q) \/ FindsPort(q) \/ Registers(q) \/ Routes(q)
  PROVE  ResolverInv'
<1>1. InFlight(q) /\ res[q].step # "away"
  BY DEF Checks, FindsPort, Registers, Routes, At, InFlight, Resolving
<1>2. ASSUME NEW s \in Resolving, Moves(q, s), Shaped', UNCHANGED req
      PROVE  ResolverInv'
  <2>1. Placed'
    BY <1>1, <1>2 DEF ResolverInv, Placed, Moves, Resolving
  <2> QED
    BY <1>1, <1>2, <2>1, FlightGoesOn DEF ResolverInv
<1>3. ASSUME NEW s \in Resolving, Goto(q, s), UNCHANGED req
      PROVE  ResolverInv'
  <2>1. s # "away"
    BY DEF Resolving
  <2> QED
    BY <1>1, <1>2, <1>3, <2>1, GotoMoves DEF ResolverInv
<1>4. CASE Checks(q)
  <2> DEFINE s == IF res[q].label \in tree /\ table[res[q].label] = 0 THEN "port" ELSE "finish"
  <2> DEFINE o == IF res[q].label \in tree THEN "503" ELSE "404"
  <2>0. res' = [res EXCEPT ![q] = [res[q] EXCEPT !.step = s, !.out = o]] /\ UNCHANGED req
    BY <1>4 DEF Checks, vars
  <2> HIDE DEF s, o
  <2>1. Moves(q, s) /\ Shaped'
    BY ZenonT(60), <2>0, CallChanges DEF ResolverInv
  <2> USE DEF s
  <2>2. s \in Resolving /\ UNCHANGED req
    BY <1>4 DEF Checks, Resolving, vars
  <2> QED
    BY <1>2, <2>1, <2>2
<1>5. CASE FindsPort(q)
  <2>1. UNCHANGED req
    BY <1>5 DEF FindsPort, vars
  <2>2. ASSUME NEW p, res' = [res EXCEPT ![q].step = "register", ![q].port = p]
        PROVE  ResolverInv'
    <3>1. Moves(q, "register") /\ Shaped'
      BY <2>1, <2>2, CallChanges DEF ResolverInv
    <3> QED
      BY <1>2, <2>1, <3>1 DEF Resolving
  <2>3. CASE Goto(q, "finish")
    BY Zenon, <1>3, <2>1, <2>3 DEF Resolving
  <2> QED
    BY ZenonT(60), <1>5, <2>2, <2>3 DEF FindsPort
<1>6. CASE Registers(q)
  <2>1. UNCHANGED req
    BY <1>6 DEF Registers
  <2>2. ASSUME NEW r, res' = [res EXCEPT ![q].step = "route", ![q].reg = r, ![q].out = "ok"]
        PROVE  ResolverInv'
    <3>1. Moves(q, "route") /\ Shaped'
      BY <2>1, <2>2, CallChanges DEF ResolverInv
    <3> QED
      BY <1>2, <2>1, <3>1 DEF Resolving
  <2>3. CASE Goto(q, "finish")
    BY <1>3, <2>1, <2>3 DEF Resolving
  <2> QED
    BY ZenonT(60), <1>6, <2>2, <2>3 DEF Registers
<1>7. CASE Routes(q)
  BY <1>3, <1>7 DEF Routes, Resolving
<1> QED
  BY ZenonT(60), <1>4, <1>5, <1>6, <1>7

\* vanishGuard lets a request on to the switch, or it is answered.
LEMMA GuardedLeaves ==
  ASSUME Shaped, NEW q \in Requests, NEW s, NEW l, NEW e,
         Guarded(q, s, l, e) \/ req' = [req EXCEPT ![q] = Idle]
  PROVE  /\ req' = [p \in Requests |-> req'[p]]
         /\ \A p \in Requests : req'[p] = [step |-> req'[p].step, sw |-> req'[p].sw,
                                           reg |-> req'[p].reg]
         /\ req'[q].step \in {"away", "switch"}
         /\ \A p \in Requests \ {q} : req'[p] = req[p]
<1>1. PICK to \in {Idle, [step |-> "switch", sw |-> s, reg |-> 0]} :
        req' = [req EXCEPT ![q] = to]
  BY DEF Guarded
<1>2. /\ to = [step |-> to.step, sw |-> to.sw, reg |-> to.reg]
      /\ to.step \in {"away", "switch"}
  BY DEF Idle
<1> QED
  BY <1>1, <1>2 DEF Shaped

\* resolve to its end
LEMMA FinishesPreserves ==
  ASSUME ResolverInv, NEW q \in Requests, Finishes(q)
  PROVE  ResolverInv'
<1> DEFINE waiting == {w \in Requests : At(w, "await") /\ SameFlight(w, q)}
<1>1. InFlight(q)
  BY DEF Finishes, At, InFlight, Resolving
<1>2. res' = [w \in Requests |->
                IF w = q THEN Outside
                ELSE IF w \in waiting THEN [res[w] EXCEPT !.step = "woken", !.reg = res[q].reg]
                ELSE res[w]]
  BY DEF Finishes, SameFlight
<1>3. q \notin waiting
  BY <1>1 DEF At, InFlight, Resolving
<1>4. res'[q].step = "away"
  BY <1>2 DEF Outside
<1>5. \A p \in Requests \ {q} :
         IF p \in waiting THEN res'[p].step = "woken" ELSE res'[p] = res[p]
  <2>1. ASSUME NEW p \in Requests \ {q}, p \in waiting PROVE res'[p].step = "woken"
    <3>1. res'[p] = [res[p] EXCEPT !.step = "woken", !.reg = res[q].reg]
      BY <1>2, <2>1
    <3> QED
      BY <3>1 DEF ResolverInv, Shaped
  <2> QED
    BY <1>2, <2>1
<1>6. \A p \in Requests :
         res'[p] = [step |-> res'[p].step, ent |-> res'[p].ent, label |-> res'[p].label,
                    reg |-> res'[p].reg, port |-> res'[p].port, out |-> res'[p].out]
  BY <1>2 DEF ResolverInv, Shaped, Outside
<1>7. /\ req' = [p \in Requests |-> req'[p]]
      /\ \A p \in Requests : req'[p] = [step |-> req'[p].step, sw |-> req'[p].sw,
                                        reg |-> req'[p].reg]
      /\ req'[q].step \in {"away", "switch"}
      /\ \A p \in Requests \ {q} : req'[p] = req[p]
  BY GuardedLeaves DEF Finishes, ResolverInv
<1>8. Shaped'
  BY <1>2, <1>6, <1>7 DEF Shaped
<1>9. Placed'
  BY <1>4, <1>5, <1>7 DEF ResolverInv, Placed, At
<1>10. OneFlight'
  BY <1>1, <1>4, <1>5, FlightEnds DEF ResolverInv
<1> QED
  BY <1>8, <1>9, <1>10 DEF ResolverInv

\* A waiting request is woken, or gives up.
LEMMA WaitEnds ==
  ASSUME ResolverInv, NEW q \in Requests, Wakes(q) \/ GivesUp(q)
  PROVE  ResolverInv'
<1>1. ~InFlight(q)
  BY DEF Wakes, GivesUp, At, InFlight, Resolving
<1>2. CASE Wakes(q)
  <2>1. res' = [res EXCEPT ![q] = Outside]
    BY <1>2 DEF Wakes
  <2>2. /\ req' = [p \in Requests |-> req'[p]]
        /\ \A p \in Requests : req'[p] = [step |-> req'[p].step, sw |-> req'[p].sw,
                                          reg |-> req'[p].reg]
        /\ req'[q].step \in {"away", "switch"}
        /\ \A p \in Requests \ {q} : req'[p] = req[p]
    BY <1>2, GuardedLeaves DEF Wakes, ResolverInv
  <2>3. res'[q].step = "away" /\ \A p \in Requests \ {q} : res'[p] = res[p]
    BY <2>1 DEF ResolverInv, Shaped, Outside
  <2>4. Shaped'
    BY <2>1, <2>2 DEF ResolverInv, Shaped, Outside
  <2>5. Placed'
    BY <2>2, <2>3 DEF ResolverInv, Placed
  <2> QED
    BY <1>1, <2>3, <2>4, <2>5, FlightsAreKept DEF ResolverInv
<1>3. CASE GivesUp(q)
  BY <1>1, <1>3, AnsweredLeaves, FlightsAreKept DEF ResolverInv, GivesUp
<1> QED
  BY <1>2, <1>3

\* A request comes into the resolver.
LEMMA UnroutedPreserves ==
  ASSUME ResolverInv, NEW q \in Requests, Unrouted(q)
  PROVE  ResolverInv'
<1>1. CASE UNCHANGED <<req, res>>
  BY <1>1 DEF ResolverInv, Shaped, Placed, OneFlight, InFlight, SameFlight, At
<1>2. ASSUME NEW e, NEW l, req[q].step = "away",
             req' = [req EXCEPT ![q].step = "resolving"],
             res' = [res EXCEPT ![q] = [Outside EXCEPT !.step = "enter", !.ent = e, !.label = l]]
      PROVE  ResolverInv'
  <2>1. res[q].step = "away" /\ ~InFlight(q)
    BY <1>2 DEF ResolverInv, Placed, InFlight, Resolving
  <2>2. res'[q].step = "enter" /\ \A p \in Requests \ {q} : res'[p] = res[p]
    BY <1>2 DEF ResolverInv, Shaped, Outside
  <2>3. req'[q].step = "resolving" /\ \A p \in Requests \ {q} : req'[p] = req[p]
    BY <1>2 DEF ResolverInv, Shaped
  <2>4. Shaped'
    BY <1>2 DEF ResolverInv, Shaped, Outside
  <2>5. Placed'
    BY <2>2, <2>3 DEF ResolverInv, Placed
  <2> QED
    BY <2>1, <2>2, <2>4, <2>5, FlightsAreKept DEF ResolverInv
<1> QED
  BY <1>1, <1>2 DEF Unrouted

\* A request that is not in the resolver moves in the daemon.
LEMMA ElsewherePreserves ==
  ASSUME ResolverInv, UNCHANGED res, NEW q \in Requests, NEW to,
         req[q].step # "resolving", req' = [req EXCEPT ![q] = to],
         to.step # "resolving", to = [step |-> to.step, sw |-> to.sw, reg |-> to.reg]
  PROVE  ResolverInv'
<1>1. Shaped'
  BY DEF ResolverInv, Shaped
<1>2. Placed'
  BY DEF ResolverInv, Placed, Shaped
<1>3. OneFlight'
  BY DEF ResolverInv, OneFlight, InFlight, SameFlight, At
<1> QED
  BY <1>1, <1>2, <1>3 DEF ResolverInv

\* What does not concern requests preserves the invariant.
LEMMA UnconcernedPreserves ==
  ASSUME ResolverInv, UNCHANGED <<req, res>>
  PROVE  ResolverInv'
BY DEF ResolverInv, Shaped, Placed, OneFlight, InFlight, SameFlight, At

\* What a request does outside the resolver preserves the invariant.
LEMMA RequestPreserves ==
  ASSUME ResolverInv, NEW q \in Requests, UNCHANGED res,
         \/ RequestWorks(q) \/ ClientLeaves(q)
         \/ \E r \in Registered : OperatorFinds(q, r)
         \/ ArrivesGuarded(q)
  PROVE  ResolverInv'
<1>0. ASSUME NEW to, req[q].step # "resolving", req' = [req EXCEPT ![q] = to],
             to.step # "resolving", to = [step |-> to.step, sw |-> to.sw, reg |-> to.reg]
      PROVE  ResolverInv'
  BY <1>0, ElsewherePreserves
<1>1. ASSUME NEW t, NEW x, NEW r, req[q].step # "resolving", t # "resolving",
             req' = [req EXCEPT ![q] = [step |-> t, sw |-> x, reg |-> r]]
      PROVE  ResolverInv'
  <2> DEFINE to == [step |-> t, sw |-> x, reg |-> r]
  <2>1. to.step = t /\ to = [step |-> to.step, sw |-> to.sw, reg |-> to.reg]
    OBVIOUS
  <2>2. req' = [req EXCEPT ![q] = to]
    BY <1>1
  <2> HIDE DEF to
  <2> QED
    BY <1>0, <1>1, <2>1, <2>2
<1>2. CASE PassesSwitch(q)
  BY <1>1, <1>2 DEF PassesSwitch, Step
<1>3. CASE AsksForStart(q)
  <2>1. CASE run = "running"
    <3> DEFINE to == [req[q] EXCEPT !.step = "start"]
    <3>1. to.step = "start" /\ to = [step |-> to.step, sw |-> to.sw, reg |-> to.reg]
      BY DEF ResolverInv, Shaped
    <3>2. req[q].step = "handler" /\ req' = [req EXCEPT ![q] = to]
      BY <1>3, <2>1 DEF AsksForStart, Step
    <3> HIDE DEF to
    <3> QED
      BY <1>0, <3>1, <3>2
  <2>2. CASE run # "running"
    BY <1>1, <1>3, <2>2 DEF AsksForStart, Step, Idle
  <2> QED
    BY <2>1, <2>2
<1>4. CASE Starts(q)
  BY <1>1, <1>4 DEF Starts, Idle
<1>5. CASE ClientLeaves(q)
  BY <1>1, <1>5 DEF ClientLeaves, Step, Idle
<1>6. CASE \E r \in Registered : OperatorFinds(q, r)
  BY <1>1, <1>6 DEF OperatorFinds, Step
<1>7. CASE ArrivesGuarded(q)
  <2>1. PICK b \in DOMAIN bnd : \E h \in DOMAIN bnd[b].routes :
          \/ ArrivesAt(q, b, h)
          \/ req[q].step = "away" /\ Guarded(q, RouteOf(b, h), h[1], bnd[b].entry)
    BY <1>7 DEF ArrivesGuarded
  <2>2. PICK h \in DOMAIN bnd[b].routes :
          \/ ArrivesAt(q, b, h)
          \/ req[q].step = "away" /\ Guarded(q, RouteOf(b, h), h[1], bnd[b].entry)
    BY <2>1
  <2> QED
    BY <1>1, <2>2 DEF ArrivesAt, Step, Guarded, Idle
<1> QED
  BY <1>2, <1>3, <1>4, <1>5, <1>6, <1>7 DEF RequestWorks

\* The work of the daemon itself does not touch a request.
LEMMA DaemonSparesRequests ==
  ASSUME DaemonWorks \/ ReloadBegins \/ Drain
  PROVE  UNCHANGED req
<1>1. CASE BootBinds \/ BootFails \/ BootEnds
  BY <1>1 DEF BootBinds, BootFails, BootEnds
<1>2. CASE ReloadBegins \/ ReloadDetaches \/ ReloadUnbinds \/ ReloadEnds \/ JobRetires
  BY <1>2 DEF ReloadBegins, ReloadDetaches, ReloadUnbinds, ReloadEnds, JobRetires
<1>3. ASSUME NEW n \in Names,
             ReloadAdds(n) \/ ReloadReplaces(n) \/ ReloadRestores(n) \/ ReloadLoses(n)
      PROVE  UNCHANGED req
  BY <1>3 DEF ReloadAdds, ReloadReplaces, ReloadRestores, ReloadLoses, Rebuild
<1>4. ASSUME NEW n \in EntryNames, ReloadBindsEntry(n) PROVE UNCHANGED req
  BY <1>4 DEF ReloadBindsEntry, Rebuild
<1>5. CASE StopAllBegins \/ StopAllEnds \/ Drain
  BY <1>5 DEF StopAllBegins, StopAllEnds, Drain
<1> QED
  BY <1>1, <1>2, <1>3, <1>4, <1>5 DEF DaemonWorks

\* The invariant holds in every state of every behaviour.
THEOREM ResolverInvariant == WildcardSpec => []ResolverInv
<1>1. WildcardInit => ResolverInv
  BY InitEstablishes
<1>2. ResolverInv /\ [WildcardNext]_wvars => ResolverInv'
  <2> SUFFICES ASSUME ResolverInv, [WildcardNext]_wvars PROVE ResolverInv'
    OBVIOUS
  <2>1. CASE (DaemonWorks \/ ReloadBegins \/ Drain) /\ UNCHANGED wild
    BY <2>1, DaemonSparesRequests, UnconcernedPreserves DEF wild
  <2>2. ASSUME NEW q \in Requests,
               \/ (RequestWorks(q) \/ ClientLeaves(q)) /\ UNCHANGED wild
               \/ \E r \in Registered : OperatorFinds(q, r) /\ Operated(r) /\ UNCHANGED wild
        PROVE  ResolverInv'
    BY <2>2, RequestPreserves DEF wild
  <2>3. ASSUME NEW q \in Requests, ArrivesGuarded(q) PROVE ResolverInv'
    <3>1. UNCHANGED res
      BY <2>3 DEF ArrivesGuarded, wild
    <3> QED
      BY <2>3, <3>1, RequestPreserves
  <2>4. ASSUME NEW q \in Requests, Unrouted(q) \/ Resolves(q) \/ GivesUp(q)
        PROVE  ResolverInv'
    BY <2>4, UnroutedPreserves, EntersPreserves, MaterialisePreserves, FinishesPreserves,
       WaitEnds DEF Resolves
  <2>5. ASSUME NEW r \in DOMAIN reg,
               \/ (StarterRuns(r) \/ ProcStops(r)) /\ UNCHANGED wild
               \/ StopEnds(r) \/ RestartBegins(r)
        PROVE  ResolverInv'
    <3>1. UNCHANGED <<req, res>>
      BY <2>5 DEF StarterRuns, ProcStops, StopEnds, ProcExits, RestartBegins, wild, vars
    <3> QED
      BY <3>1, UnconcernedPreserves
  <2>6. ASSUME NEW d \in drops, DropWorks(d) PROVE ResolverInv'
    <3>1. UNCHANGED <<req, res>>
      BY <2>6 DEF DropWorks, DropFinds, DropRetires, DropForgets, wild, vars
    <3> QED
      BY <3>1, UnconcernedPreserves
  <2>7. CASE RestartWorks \/ BackoffElapses \/ WorktreeComesAndGoes
    <3>1. UNCHANGED <<req, res>>
      BY <2>7 DEF RestartWorks, RestartChecks, RestartStops, RestartLocks,
         RestartCommissions, RestartStarts, BackoffElapses, WorktreeComesAndGoes, vars
    <3> QED
      BY <3>1, UnconcernedPreserves
  <2>8. CASE UNCHANGED wvars
    BY <2>8, UnconcernedPreserves DEF wvars, vars, wild
  <2> QED
    BY <2>1, <2>2, <2>3, <2>4, <2>5, <2>6, <2>7, <2>8 DEF WildcardNext
<1> QED
  BY <1>1, <1>2, PTL DEF WildcardSpec

\* A label has at most one resolution at a time, and whoever waits for one
\* waits for one that is in progress (resolver.resolve).
THEOREM SingleFlightAlways == WildcardSpec => []SingleFlight
<1>1. ResolverInv => SingleFlight
  <2> SUFFICES ASSUME ResolverInv PROVE SingleFlight
    OBVIOUS
  <2>1. ASSUME NEW e, NEW l PROVE Cardinality(Flights(e, l)) <= 1
    <3>1. \A p, q \in Flights(e, l) : p = q
      BY DEF Flights, ResolverInv, OneFlight, InFlight, SameFlight
    <3>2. CASE Flights(e, l) = {}
      BY <3>2, FS_EmptySet
    <3>3. CASE Flights(e, l) # {}
      <4>1. PICK p : Flights(e, l) = {p}
        BY <3>1, <3>3
      <4>2. Cardinality({p}) = 1
        BY FS_Singleton
      <4>3. Cardinality(Flights(e, l)) = 1
        BY <4>1, <4>2
      <4> QED
        BY <4>3
    <3> QED
      BY <3>2, <3>3
  <2>2. ASSUME NEW q \in Requests, At(q, "await")
        PROVE  Flights(res[q].ent, res[q].label) # {}
    BY <2>2 DEF Flights, ResolverInv, OneFlight, InFlight, SameFlight
  <2> QED
    BY <2>1, <2>2 DEF SingleFlight
<1> QED
  BY <1>1, ResolverInvariant, PTL

-----------------------------------------------------------------------------
(***************************************************************************)
(* Dynamic projects, while the daemon runs and no reload comes             *)
(***************************************************************************)

\* Ports and hosts of dynamic projects
GivenPorts ==
  (UNION {PortsOf[l] : l \in Labels}) \cup (UNION {c.cfg.apps[1]..c.cfg.apps[2] : c \in Entry})
DynamicProjects ==
  UNION {UNION {{DynamicProject(c.cfg, l, p) : p \in GivenPorts} : l \in Labels} : c \in Entry}
AnyHost == Hosts \cup UNION {{HostOf(c.cfg, l) : l \in Labels} : c \in Entry}
AnyRoutes == UNION {[D -> Nat] : D \in SUBSET AnyHost}

AnyProject ==
  [name : Names, cfg : Projects \cup DynamicProjects, sw : Nat, bind : Nat, entry : Nat,
   drive : {"none", "starter", "monitor", "cancelled", "ended"},
   retire : {"no", "off", "stopping", "done"}, proc : {"down", "up", "stopping"}]
AnyListener == [port : Ports, open : BOOLEAN, members : Int, entry : Nat, routes : AnyRoutes]
DropCall == [step : {"find", "retire"}, label : Labels, ent : Nat \ {0}, reg : Nat]
RestartCall ==
  [step : {"none", "check", "stop", "lock", "swap", "start"}, reg : Nat, port : GivenPorts \cup {0}]

Formed ==
  /\ reg \in Seq(AnyProject) /\ sw \in Seq(Nat) /\ bnd \in Seq(AnyListener) /\ ent \in Seq(Entry)
  /\ table \in [Names -> Nat] /\ entries \in [EntryNames -> Nat] /\ bindings \in [Ports -> Nat]
  /\ drops \subseteq DropCall /\ rst \in RestartCall

\* The entries of the table have their listeners, and those have routes for
\* labels only.
Up == {entries[n] : n \in EntryNames} \ {0}
EntriesAreUp ==
  /\ \A e \in Up : e \in DOMAIN ent /\ Bound(e) /\ bindings[ent[e].cfg.sup] = ent[e].bind
  /\ \A b \in DOMAIN bnd : bnd[b].entry # 0 =>
       /\ bnd[b].entry \in Up /\ ent[bnd[b].entry].bind = b
       /\ \A h \in DOMAIN bnd[b].routes : \E l \in Labels : h = HostIn(bnd[b].entry, l)

\* Registrations behind one switch are of one project; one with an entry is
\* what Discovery.Project makes of its name.
Made ==
  /\ \A n \in Names : table[n] # 0 => table[n] \in DOMAIN reg /\ reg[table[n]].name = n
  /\ \A r \in DOMAIN reg : reg[r].sw \in DOMAIN sw
  /\ \A r \in DOMAIN reg : Dynamic(r) =>
       /\ reg[r].entry \in Up /\ reg[r].name \in Labels
       /\ reg[r].cfg.host = HostIn(reg[r].entry, reg[r].name)
       /\ reg[r].cfg.sup = ent[reg[r].entry].cfg.sup
  /\ \A r, x \in DOMAIN reg : reg[r].sw = reg[x].sw =>
       reg[r].name = reg[x].name /\ reg[r].entry = reg[x].entry

\* r is between the lock of a restart and its commission.
Swapping(r) == rst.step = "swap" /\ rst.reg = r

OnListener(r) ==
  LET b == reg[r].bind
  IN /\ b \in DOMAIN bnd /\ bnd[b].open /\ bnd[b].entry = reg[r].entry
     /\ bindings[reg[r].cfg.sup] = b

\* What is in the table is behind its switch, and served, about to be, or on
\* its way out.
Stands(r) == (reg[r].retire = "no" \/ Swapping(r)) /\ OnListener(r) /\ (Routed(r) \/ BeingRouted(r))
BeingRetired(r) == BeingDropped(r) \/ InHand(r)
Leaves(r) == reg[r].retire # "no" /\ ~Swapping(r) /\ reg[r].bind = 0 /\ BeingRetired(r)
InTable ==
  \A r \in Registered :
    sw[reg[r].sw] = (IF Swapping(r) THEN 0 ELSE r) /\ (Stands(r) \/ Leaves(r))
OutOfTable ==
  \A r \in DOMAIN reg :
    /\ r \notin Registered => reg[r].retire = "done"
    /\ reg[r].drive = "none" => \E q \in Requests : At(q, "route") /\ res[q].reg = r

On(b) == {r \in Registered : reg[r].bind = b}
Counted == \A b \in DOMAIN bnd : bnd[b].members = Cardinality(On(b))

\* The resolver: what it is about to route is the one registration of its
\* label and entry, or was.
Resolved(q) ==
  /\ res[q].reg \in DOMAIN reg
  /\ reg[res[q].reg].entry = res[q].ent /\ reg[res[q].reg].name = res[q].label
  /\ \A x \in Registered : reg[x].name = res[q].label /\ reg[x].entry = res[q].ent =>
       reg[x].sw = reg[res[q].reg].sw
Calls ==
  \A q \in Requests : ~At(q, "away") =>
    /\ res[q].ent \in Up /\ res[q].label \in Labels
    /\ At(q, "register") => res[q].port \in GivenPorts
    /\ At(q, "route") => Resolved(q)

\* Only worktrees that vanish are dropped, only operated ones restarted.
Fated == fate \in [Labels -> Fates] /\ \A l \in Labels \ tree : "vanish" \in fate[l]
DropsAreDue ==
  \A d \in drops :
    /\ "vanish" \in fate[d.label]
    /\ d.step = "retire" => d.reg \in DOMAIN reg /\ Dynamic(d.reg) /\ reg[d.reg].name = d.label
Swap(r) == [by |-> "restart", step |-> "retire", items |-> {[reg |-> r, keep |-> TRUE]}]
StoppingAll == AtStop /\ \A i \in job.items : i.keep = FALSE /\ i.reg \in DOMAIN reg
Restarting ==
  /\ rst.step # "none" => rst.reg \in DOMAIN reg /\ Dynamic(rst.reg) /\ Operated(rst.reg)
  /\ rst.step \in {"lock", "swap"} => rst.port \in GivenPorts
  /\ rst.step = "swap" => job = Swap(rst.reg) /\ table[reg[rst.reg].name] = rst.reg
  /\ rst.step # "swap" /\ job # Nobody /\ ~StoppingAll =>
       /\ rst.step = "start" /\ job.by = "restart"
       /\ \A i \in job.items : i.reg \in DOMAIN reg /\ reg[i.reg].retire = "done"

DynamicInv ==
  /\ Formed /\ EntriesAreUp /\ Made
  /\ InTable /\ OutOfTable /\ Counted
  /\ Calls /\ DropsAreDue /\ Restarting

\* Between swaps, what the invariant says is that projects are served.
LEMMA DynamicServes == DynamicInv /\ Quiet => DynamicIsServed
<1> SUFFICES ASSUME DynamicInv, Quiet PROVE DynamicIsServed
  OBVIOUS
<1>1. rst.step # "swap"
  <2>1. Nobody.by # Swap(rst.reg).by
    BY DEF Nobody, Swap
  <2> QED
    BY <2>1 DEF DynamicInv, Restarting, Quiet
<1>2. ASSUME NEW r \in Registered
      PROVE  IF reg[r].retire = "no" THEN Served(r) \/ BeingRouted(r) ELSE BeingDropped(r)
  <2>1. r \in DOMAIN reg /\ ~Swapping(r)
    BY <1>1 DEF Registered, DynamicInv, Made, Swapping
  <2>2. sw[reg[r].sw] = r /\ (Stands(r) \/ Leaves(r))
    BY <2>1 DEF DynamicInv, InTable
  <2>3. CASE Leaves(r)
    BY <2>3 DEF Leaves, BeingRetired, InHand, Quiet, Nobody
  <2>4. CASE Stands(r) /\ ~BeingRouted(r)
    <3>1. reg[r].drive # "none"
      BY <2>1, <2>4 DEF DynamicInv, OutOfTable, BeingRouted
    <3>2. reg[r].bind # 0
      BY <2>4 DEF Stands, OnListener, DynamicInv, Formed
    <3> QED
      BY <2>1, <2>2, <2>4, <3>1, <3>2 DEF Stands, OnListener, Routed, Served
  <2>5. CASE Stands(r) /\ BeingRouted(r)
    BY <2>1, <2>5 DEF Stands
  <2> QED
    BY <2>2, <2>3, <2>4, <2>5
<1> QED
  BY <1>2 DEF DynamicIsServed, DynamicInv, Counted, On

-----------------------------------------------------------------------------
(* Steps that leave every project where it is *)

\* Registrations go on in their teardown, or not; their processes change.
Turned ==
  /\ DOMAIN reg' = DOMAIN reg
  /\ \A r \in DOMAIN reg :
       /\ reg'[r].name = reg[r].name /\ reg'[r].cfg = reg[r].cfg /\ reg'[r].sw = reg[r].sw
       /\ reg'[r].bind = reg[r].bind /\ reg'[r].entry = reg[r].entry
       /\ ~Swapping(r) => (reg'[r].retire = "no" <=> reg[r].retire = "no")
       /\ reg[r].retire = "done" => reg'[r].retire = "done"
       /\ reg'[r].drive = "none" => reg[r].drive = "none"
  /\ UNCHANGED <<table, entries, bindings, sw, bnd, ent>>

\* Nobody begins or ends what a project in the table waits for.
CallsGoOn ==
  /\ \A q \in Requests : At(q, "route")' <=> At(q, "route")
  /\ \A q \in Requests : At(q, "route") =>
       res'[q].reg = res[q].reg /\ res'[q].ent = res[q].ent /\ res'[q].label = res[q].label
DropsGoOn == \A d \in drops : d.step = "retire" => d \in drops'
SwapGoesOn == \A r : Swapping(r)' <=> Swapping(r)
StopGoesOn == job.by = "stop" => job' = job

\* Nobody reloads.
LEMMA NoReload ==
  ASSUME DynamicInv
  PROVE  job.by # "reload"
<1>1. Nobody.by = "none" /\ Swap(rst.reg).by = "restart"
  BY DEF Nobody, Swap
<1> QED
  BY <1>1 DEF DynamicInv, Restarting, StoppingAll, AtStop

LEMMA TurningKeeps ==
  ASSUME DynamicInv, Turned, CallsGoOn, DropsGoOn, SwapGoesOn, StopGoesOn
  PROVE  EntriesAreUp' /\ Made' /\ InTable' /\ OutOfTable' /\ Counted' /\ Up' = Up
         /\ Registered' = Registered
<1>1. Up' = Up /\ Registered' = Registered
  BY DEF Up, Registered, Turned
<1>2. EntriesAreUp'
  BY <1>1 DEF DynamicInv, EntriesAreUp, Turned, Bound, HostIn
<1>3. Made'
  BY <1>1 DEF DynamicInv, Made, Turned, Dynamic, HostIn
<1>4. \A r \in Registered : r \in DOMAIN reg
  BY DEF DynamicInv, Made, Registered
<1>5. \A r \in DOMAIN reg : BeingRouted(r)' <=> BeingRouted(r)
  <2> SUFFICES ASSUME NEW r \in DOMAIN reg PROVE BeingRouted(r)' <=> BeingRouted(r)
    OBVIOUS
  <2>1. \A q \in Requests : At(q, "route") => res[q].reg \in DOMAIN reg
    BY DEF DynamicInv, Calls, Resolved, At
  <2> QED
    BY <2>1 DEF BeingRouted, CallsGoOn, Turned
<1>6. \A r : BeingRetired(r) => BeingRetired(r)'
  <2>1. \A r : BeingDropped(r) => BeingDropped(r)'
    BY DEF BeingDropped, DropsGoOn
  <2>2. job.by # "reload"
    BY NoReload
  <2>3. \A r : InHand(r) => InHand(r)'
    BY <2>2 DEF InHand, StopGoesOn
  <2> QED
    BY <2>1, <2>3 DEF BeingRetired
<1>7. \A r \in DOMAIN reg : Routed(r)' <=> Routed(r)
  BY DEF Routed, Turned
<1>8. \A r \in DOMAIN reg : OnListener(r)' <=> OnListener(r)
  BY DEF OnListener, Turned
<1>9. InTable'
  <2> SUFFICES ASSUME NEW r \in Registered
               PROVE  sw'[reg'[r].sw] = (IF Swapping(r)' THEN 0 ELSE r) /\ (Stands(r)' \/ Leaves(r)')
    BY <1>1 DEF InTable
  <2>1. sw[reg[r].sw] = (IF Swapping(r) THEN 0 ELSE r) /\ (Stands(r) \/ Leaves(r))
    BY DEF DynamicInv, InTable
  <2>2. sw'[reg'[r].sw] = (IF Swapping(r)' THEN 0 ELSE r)
    BY <1>4, <2>1 DEF Turned, SwapGoesOn
  <2>3. Stands(r) => Stands(r)'
    BY <1>4, <1>5, <1>7, <1>8 DEF Stands, Turned, SwapGoesOn
  <2>4. Leaves(r) => Leaves(r)'
    BY <1>4, <1>6 DEF Leaves, Turned, SwapGoesOn
  <2> QED
    BY <2>1, <2>2, <2>3, <2>4
<1>10. OutOfTable'
  <2>1. ASSUME NEW r \in DOMAIN reg, r \notin Registered PROVE reg'[r].retire = "done"
    BY <2>1 DEF DynamicInv, OutOfTable, Turned
  <2>2. ASSUME NEW r \in DOMAIN reg, reg'[r].drive = "none"
        PROVE  \E q \in Requests : At(q, "route")' /\ res'[q].reg = r
    BY <2>2 DEF DynamicInv, OutOfTable, Turned, CallsGoOn
  <2> QED
    BY <1>1, <2>1, <2>2 DEF OutOfTable, Turned
<1>11. Counted'
  <2>1. \A b : On(b)' = On(b)
    BY <1>1, <1>4 DEF On, Turned
  <2> QED
    BY <2>1 DEF DynamicInv, Counted, Turned
<1> QED
  BY <1>1, <1>2, <1>3, <1>9, <1>10, <1>11

\* What is left to show when every project stays where it is.
LEMMA CallsStay ==
  ASSUME DynamicInv, Turned, CallsGoOn,
         \A q \in Requests : ~At(q, "away")' =>
           /\ res'[q].ent \in Up /\ res'[q].label \in Labels
           /\ At(q, "register")' => res'[q].port \in GivenPorts
  PROVE  Calls'
<1>1. Up' = Up /\ Registered' = Registered
  BY DEF Up, Registered, Turned
<1>2. \A r \in Registered : r \in DOMAIN reg
  BY DEF DynamicInv, Made, Registered
<1>3. ASSUME NEW q \in Requests, At(q, "route")' PROVE Resolved(q)'
  <2>1. At(q, "route") /\ res'[q].reg = res[q].reg /\ res'[q].ent = res[q].ent
        /\ res'[q].label = res[q].label
    BY <1>3 DEF CallsGoOn
  <2>2. Resolved(q)
    BY <2>1 DEF DynamicInv, Calls, At
  <2> QED
    BY <1>1, <1>2, <2>1, <2>2 DEF Resolved, Turned
<1> QED
  BY <1>1, <1>3 DEF Calls

LEMMA DropsStay ==
  ASSUME DynamicInv, Turned, fate' = fate,
         \A d \in drops' \ drops :
           /\ "vanish" \in fate[d.label]
           /\ d.step = "retire" => d.reg \in DOMAIN reg /\ Dynamic(d.reg) /\ reg[d.reg].name = d.label
  PROVE  DropsAreDue'
  BY DEF DynamicInv, DropsAreDue, Turned, Dynamic

LEMMA RestartStays ==
  ASSUME DynamicInv, Turned, fate' = fate, rst' = rst, job' = job
  PROVE  Restarting' /\ SwapGoesOn /\ StopGoesOn
<1>1. \A r \in DOMAIN reg : Operated(r)' <=> Operated(r)
  BY DEF Operated, Turned
<1>2. StoppingAll' <=> StoppingAll
  BY DEF StoppingAll, AtStop, Turned
<1>3. Restarting'
  BY <1>1, <1>2 DEF DynamicInv, Restarting, Turned, Dynamic
<1> QED
  BY <1>3 DEF SwapGoesOn, Swapping, StopGoesOn

\* The resolver moves requests, and nothing else happens.
LEMMA OnlyCalls ==
  ASSUME DynamicInv, UNCHANGED heap, UNCHANGED <<fate, rst, job>>, CallsGoOn, DropsGoOn,
         \A q \in Requests : ~At(q, "away")' =>
           /\ res'[q].ent \in Up /\ res'[q].label \in Labels
           /\ At(q, "register")' => res'[q].port \in GivenPorts,
         \A d \in drops' \ drops :
           /\ d \in DropCall /\ "vanish" \in fate[d.label]
           /\ d.step = "retire" => d.reg \in DOMAIN reg /\ Dynamic(d.reg) /\ reg[d.reg].name = d.label
  PROVE  DynamicInv'
<1>1. Turned
  BY DEF Turned, heap
<1>2. Formed'
  BY DEF DynamicInv, Formed, heap
<1>3. Calls' /\ DropsAreDue' /\ Restarting' /\ SwapGoesOn /\ StopGoesOn
  BY <1>1, CallsStay, DropsStay, RestartStays
<1> QED
  BY <1>1, <1>2, <1>3, TurningKeeps DEF DynamicInv

\* The parts of a step in which the resolver does nothing
LEMMA NoCalls ==
  ASSUME DynamicInv, res' = res
  PROVE  /\ CallsGoOn
         /\ \A q \in Requests : ~At(q, "away")' =>
              /\ res'[q].ent \in Up /\ res'[q].label \in Labels
              /\ At(q, "register")' => res'[q].port \in GivenPorts
  BY DEF DynamicInv, Calls, CallsGoOn, At

\* One request moves, to or from other places than the one before the route.
LEMMA OneCall ==
  ASSUME DynamicInv, NEW q \in Requests, \A p \in Requests \ {q} : res'[p] = res[p],
         ~At(q, "route"), ~At(q, "route")',
         ~At(q, "away")' => /\ res'[q].ent \in Up /\ res'[q].label \in Labels
                            /\ At(q, "register")' => res'[q].port \in GivenPorts
  PROVE  /\ CallsGoOn
         /\ \A p \in Requests : ~At(p, "away")' =>
              /\ res'[p].ent \in Up /\ res'[p].label \in Labels
              /\ At(p, "register")' => res'[p].port \in GivenPorts
<1>1. \A p \in Requests \ {q} : At(p, "route")' <=> At(p, "route")
  BY DEF At
<1>2. CallsGoOn
  BY <1>1 DEF CallsGoOn
<1>3. \A p \in Requests \ {q} : ~At(p, "away")' =>
        /\ res'[p].ent \in Up /\ res'[p].label \in Labels
        /\ At(p, "register")' => res'[p].port \in GivenPorts
  BY DEF DynamicInv, Calls, At
<1> QED
  BY <1>2, <1>3

-----------------------------------------------------------------------------
(* Requests *)

\* vanishGuard drops a project only when its worktree is gone.
LEMMA GuardedDrops ==
  ASSUME DynamicInv, Fated, NEW q, NEW s, NEW l \in Labels, NEW e \in Up,
         Guarded(q, s, l, e) \/ UNCHANGED drops
  PROVE  /\ DropsGoOn
         /\ \A d \in drops' \ drops :
              /\ d \in DropCall /\ "vanish" \in fate[d.label]
              /\ d.step = "retire" => d.reg \in DOMAIN reg /\ Dynamic(d.reg) /\ reg[d.reg].name = d.label
<1> DEFINE c == [step |-> "find", label |-> l, ent |-> e, reg |-> 0]
<1>1. e \in Nat \ {0}
  BY DEF Up, DynamicInv, Formed
<1>2. c \in DropCall /\ c.label = l /\ c.step = "find"
  BY <1>1 DEF DropCall
<1> HIDE DEF c
<1>3. CASE UNCHANGED drops
  BY <1>3 DEF DropsGoOn
<1>4. CASE drops' = drops \cup {c} /\ l \notin tree
  BY <1>2, <1>4 DEF DropsGoOn, Fated
<1> QED
  BY <1>3, <1>4 DEF Guarded, c

\* serve: a request for a label comes into the resolver.
LEMMA UnroutedServes ==
  ASSUME ResolverInv, Fated, DynamicInv, NEW q \in Requests, Unrouted(q)
  PROVE  DynamicInv'
<1>1. UNCHANGED heap /\ UNCHANGED <<fate, rst, job, drops>>
  BY DEF Unrouted, place
<1>2. DropsGoOn /\ drops' \ drops = {}
  BY <1>1 DEF DropsGoOn
<1>3. CASE UNCHANGED res
  BY <1>1, <1>2, <1>3, NoCalls, OnlyCalls
<1>4. CASE ~UNCHANGED res
  <2>1. PICK b \in DOMAIN bnd, l \in Labels :
          /\ bnd[b].entry # 0 /\ req[q].step = "away"
          /\ res' = [res EXCEPT ![q] = [Outside EXCEPT !.step = "enter",
                                                       !.ent = bnd[b].entry, !.label = l]]
    BY <1>4 DEF Unrouted
  <2>2. bnd[b].entry \in Up
    BY <2>1 DEF DynamicInv, EntriesAreUp
  <2>3. /\ res'[q].step = "enter" /\ res'[q].ent = bnd[b].entry /\ res'[q].label = l
        /\ \A p \in Requests \ {q} : res'[p] = res[p]
    BY <2>1 DEF ResolverInv, Shaped, Outside
  <2>4. ~At(q, "route") /\ ~At(q, "route")' /\ ~At(q, "register")'
    BY <2>1, <2>3 DEF ResolverInv, Placed, At
  <2> QED
    BY <1>1, <1>2, <2>2, <2>3, <2>4, OneCall, OnlyCalls
<1> QED
  BY <1>3, <1>4

\* A request of the resolver moves on, or leaves it.
LEMMA MovingServes ==
  ASSUME DynamicInv, NEW q \in Requests, NEW s \in {"check", "await", "port", "finish"},
         Moves(q, s), ~At(q, "route"), ~At(q, "away"),
         UNCHANGED heap, UNCHANGED <<fate, rst, job, drops>>
  PROVE  DynamicInv'
<1>1. ~At(q, "route")' /\ ~At(q, "register")'
  BY DEF Moves, At
<1>2. res'[q].ent \in Up /\ res'[q].label \in Labels /\ \A p \in Requests \ {q} : res'[p] = res[p]
  BY DEF Moves, DynamicInv, Calls
<1>3. DropsGoOn /\ drops' \ drops = {}
  BY DEF DropsGoOn
<1> QED
  BY <1>1, <1>2, <1>3, OneCall, OnlyCalls

LEMMA LeavingServes ==
  ASSUME DynamicInv, NEW q \in Requests, At(q, "away")', ~At(q, "route"),
         \A p \in Requests \ {q} : res'[p] = res[p],
         UNCHANGED heap, UNCHANGED <<fate, rst, job>>, DropsGoOn,
         \A d \in drops' \ drops :
           /\ d \in DropCall /\ "vanish" \in fate[d.label]
           /\ d.step = "retire" => d.reg \in DOMAIN reg /\ Dynamic(d.reg) /\ reg[d.reg].name = d.label
  PROVE  DynamicInv'
<1>1. ~At(q, "route")'
  BY DEF At
<1> QED
  BY <1>1, OneCall, OnlyCalls

\* resolve up to the unlock of rs.mu, and a wait that is given up
LEMMA EntersServes ==
  ASSUME ResolverInv, DynamicInv, NEW q \in Requests, Enters(q) \/ GivesUp(q)
  PROVE  DynamicInv'
<1>1. /\ UNCHANGED heap /\ UNCHANGED <<fate, rst, job, drops>>
      /\ DropsGoOn /\ drops' \ drops = {}
  BY DEF Enters, GivesUp, place, DropsGoOn
<1>2. ~At(q, "route") /\ ~At(q, "away")
  BY DEF Enters, GivesUp, At
<1>3. CASE Answered(q)
  BY <1>1, <1>2, <1>3, AnsweredLeaves, LeavingServes DEF ResolverInv, At
<1>4. ASSUME NEW s \in {"await", "check"}, Goto(q, s), UNCHANGED req PROVE DynamicInv'
  <2>1. res[q].step # "away" /\ s # "away"
    BY <1>2 DEF At
  <2>2. Moves(q, s)
    BY <1>4, <2>1, GotoMoves DEF ResolverInv
  <2> QED
    BY <1>1, <1>2, <2>2, MovingServes
<1> QED
  BY <1>3, <1>4 DEF Enters, GivesUp

\* materialise, up to the section that registers
LEMMA FindingServes ==
  ASSUME ResolverInv, DynamicInv, NEW q \in Requests, Checks(q) \/ FindsPort(q)
  PROVE  DynamicInv'
<1>1. /\ UNCHANGED heap /\ UNCHANGED <<fate, rst, job, drops, req>>
      /\ DropsGoOn /\ drops' \ drops = {}
  BY DEF Checks, FindsPort, place, vars, DropsGoOn
<1>2. ~At(q, "route") /\ ~At(q, "away") /\ res[q].step # "away"
  BY DEF Checks, FindsPort, At
<1>3. CASE Checks(q)
  <2> DEFINE s == IF res[q].label \in tree /\ table[res[q].label] = 0 THEN "port" ELSE "finish"
  <2> DEFINE o == IF res[q].label \in tree THEN "503" ELSE "404"
  <2>0. res' = [res EXCEPT ![q] = [res[q] EXCEPT !.step = s, !.out = o]]
    BY <1>3 DEF Checks
  <2>1. s \in {"check", "await", "port", "finish"}
    OBVIOUS
  <2> HIDE DEF s, o
  <2>2. Moves(q, s)
    BY ZenonT(60), <1>1, <2>0, CallChanges DEF ResolverInv
  <2> QED
    BY <1>1, <1>2, <2>1, <2>2, MovingServes
<1>4. CASE FindsPort(q) /\ Goto(q, "finish")
  <2>1. Moves(q, "finish")
    BY <1>1, <1>2, <1>4, GotoMoves DEF ResolverInv
  <2> QED
    BY <1>1, <1>2, <2>1, MovingServes
<1>5. CASE FindsPort(q) /\ ~Goto(q, "finish")
  <2> DEFINE e == ent[res[q].ent].cfg
             given == IF e.cmd THEN PortsOf[res[q].label] ELSE e.apps[1]..e.apps[2]
  <2>1. PICK p \in given : res' = [res EXCEPT ![q].step = "register", ![q].port = p]
    BY <1>5 DEF FindsPort
  <2>2. Moves(q, "register")
    BY <1>1, <2>1, CallChanges DEF ResolverInv
  <2>3. res'[q].port = p
    <3>1. res[q] = [step |-> res[q].step, ent |-> res[q].ent, label |-> res[q].label,
                    reg |-> res[q].reg, port |-> res[q].port, out |-> res[q].out]
      BY DEF ResolverInv, Shaped
    <3>2. res'[q] = [res[q] EXCEPT !.step = "register", !.port = p]
      BY <2>1 DEF ResolverInv, Shaped
    <3> QED
      BY <3>1, <3>2
  <2>4. res[q].ent \in Up /\ res[q].label \in Labels
    BY <1>2 DEF DynamicInv, Calls
  <2>5. p \in GivenPorts
    <3>1. ent[res[q].ent] \in Entry
      BY <2>4 DEF DynamicInv, EntriesAreUp, Formed
    <3>2. CASE e.cmd
      BY <2>1, <2>4, <3>2 DEF GivenPorts
    <3>3. CASE ~e.cmd
      <4>1. p \in ent[res[q].ent].cfg.apps[1]..ent[res[q].ent].cfg.apps[2]
        BY <2>1, <3>3
      <4> QED
        BY <3>1, <4>1 DEF GivenPorts
    <3> QED
      BY <3>2, <3>3
  <2>6. /\ ~At(q, "route")' /\ res'[q].ent \in Up /\ res'[q].label \in Labels
        /\ \A x \in Requests \ {q} : res'[x] = res[x]
    BY <2>2, <2>4 DEF Moves, At
  <2> QED
    BY <1>1, <1>2, <2>3, <2>5, <2>6, OneCall, OnlyCalls
<1> QED
  BY <1>3, <1>4, <1>5

\* resolve to its end, and the wait for it
LEMMA FinishesServes ==
  ASSUME ResolverInv, Fated, DynamicInv, NEW q \in Requests, Finishes(q)
  PROVE  DynamicInv'
<1> DEFINE waiting == {w \in Requests : At(w, "await") /\ SameFlight(w, q)}
<1>1. UNCHANGED heap /\ UNCHANGED <<fate, rst, job>> /\ At(q, "finish")
  BY DEF Finishes, place
<1>2. res' = [w \in Requests |->
                IF w = q THEN Outside
                ELSE IF w \in waiting THEN [res[w] EXCEPT !.step = "woken", !.reg = res[q].reg]
                ELSE res[w]]
  BY DEF Finishes, SameFlight
<1>3. res'[q].step = "away"
  BY <1>2 DEF Outside
<1>4. \A p \in Requests \ {q} :
         IF p \in waiting
         THEN res'[p].step = "woken" /\ res'[p].ent = res[p].ent /\ res'[p].label = res[p].label
         ELSE res'[p] = res[p]
  <2>1. ASSUME NEW p \in Requests \ {q}, p \in waiting
        PROVE  res'[p].step = "woken" /\ res'[p].ent = res[p].ent /\ res'[p].label = res[p].label
    <3>1. res'[p] = [res[p] EXCEPT !.step = "woken", !.reg = res[q].reg]
      BY <1>2, <2>1
    <3> QED
      BY <3>1 DEF ResolverInv, Shaped
  <2> QED
    BY <1>2, <2>1
<1>5. ~At(q, "away") /\ ~At(q, "route") /\ \A p \in waiting : At(p, "await")
  BY <1>1 DEF At
<1>6. res[q].ent \in Up /\ res[q].label \in Labels
  BY <1>5 DEF DynamicInv, Calls
<1>7. /\ DropsGoOn
      /\ \A d \in drops' \ drops :
           /\ d \in DropCall /\ "vanish" \in fate[d.label]
           /\ d.step = "retire" => d.reg \in DOMAIN reg /\ Dynamic(d.reg) /\ reg[d.reg].name = d.label
  BY <1>6, GuardedDrops DEF Finishes
<1>8. CallsGoOn
  <2>1. \A p \in Requests : At(p, "route")' <=> At(p, "route")
    BY <1>3, <1>4, <1>5 DEF At
  <2>2. \A p \in Requests : At(p, "route") => res'[p] = res[p]
    BY <1>4, <1>5 DEF At
  <2> QED
    BY <2>1, <2>2 DEF CallsGoOn
<1>9. \A p \in Requests : ~At(p, "away")' =>
        /\ res'[p].ent \in Up /\ res'[p].label \in Labels
        /\ At(p, "register")' => res'[p].port \in GivenPorts
  <2> SUFFICES ASSUME NEW p \in Requests, ~At(p, "away")'
               PROVE  /\ res'[p].ent \in Up /\ res'[p].label \in Labels
                      /\ At(p, "register")' => res'[p].port \in GivenPorts
    OBVIOUS
  <2>1. p # q
    BY <1>3 DEF At
  <2>2. CASE p \in waiting
    <3>1. At(p, "await") /\ ~At(p, "away") /\ ~At(p, "register")'
      BY <1>4, <1>5, <2>1, <2>2 DEF At
    <3> QED
      BY <1>4, <2>1, <2>2, <3>1 DEF DynamicInv, Calls
  <2>3. CASE p \notin waiting
    BY <1>4, <2>1, <2>3 DEF DynamicInv, Calls, At
  <2> QED
    BY <2>2, <2>3
<1> QED
  BY <1>1, <1>7, <1>8, <1>9, OnlyCalls

LEMMA WakesServes ==
  ASSUME ResolverInv, Fated, DynamicInv, NEW q \in Requests, Wakes(q)
  PROVE  DynamicInv'
<1>1. UNCHANGED heap /\ UNCHANGED <<fate, rst, job>> /\ At(q, "woken")
  BY DEF Wakes, place
<1>2. ~At(q, "away") /\ ~At(q, "route")
  BY <1>1 DEF At
<1>3. res[q].ent \in Up /\ res[q].label \in Labels
  BY <1>2 DEF DynamicInv, Calls
<1>4. /\ DropsGoOn
      /\ \A d \in drops' \ drops :
           /\ d \in DropCall /\ "vanish" \in fate[d.label]
           /\ d.step = "retire" => d.reg \in DOMAIN reg /\ Dynamic(d.reg) /\ reg[d.reg].name = d.label
  BY <1>3, GuardedDrops DEF Wakes
<1>5. At(q, "away")' /\ \A p \in Requests \ {q} : res'[p] = res[p]
  BY DEF Wakes, ResolverInv, Shaped, Outside, At
<1> QED
  BY <1>1, <1>2, <1>4, <1>5, LeavingServes

\* A request for a routed host, and what requests do behind the switch
LEMMA ArrivesServes ==
  ASSUME Fated, DynamicInv, NEW q \in Requests, ArrivesGuarded(q)
  PROVE  DynamicInv'
<1>1. UNCHANGED heap /\ UNCHANGED <<fate, rst, job, res>>
  BY DEF ArrivesGuarded, ArrivesAt, wild, place
<1>2. CASE UNCHANGED drops
  <2>1. DropsGoOn /\ drops' \ drops = {}
    BY <1>2 DEF DropsGoOn
  <2> QED
    BY <1>1, <2>1, NoCalls, OnlyCalls
<1>3. CASE ~UNCHANGED drops
  <2>1. PICK b \in DOMAIN bnd : \E h \in DOMAIN bnd[b].routes :
          bnd[b].entry # 0 /\ Guarded(q, RouteOf(b, h), h[1], bnd[b].entry)
    BY <1>3 DEF ArrivesGuarded, wild
  <2>2. PICK h \in DOMAIN bnd[b].routes :
          bnd[b].entry # 0 /\ Guarded(q, RouteOf(b, h), h[1], bnd[b].entry)
    BY <2>1
  <2>3. bnd[b].entry \in Up /\ \E l \in Labels : h = HostIn(bnd[b].entry, l)
    BY <2>2 DEF DynamicInv, EntriesAreUp
  <2>4. h[1] \in Labels
    BY <2>3 DEF HostIn, HostOf
  <2> QED
    BY <1>1, <2>2, <2>3, <2>4, GuardedDrops, NoCalls, OnlyCalls
<1> QED
  BY <1>2, <1>3

-----------------------------------------------------------------------------
(* Processes and teardowns *)

Drives == {"none", "starter", "monitor", "cancelled", "ended"}
Procs == {"down", "up", "stopping"}

\* The record of a project that turns
LEMMA OneTurns ==
  ASSUME DynamicInv, NEW r, NEW v, reg' = [reg EXCEPT ![r] = v],
         r \in DOMAIN reg =>
           /\ v \in AnyProject
           /\ v.name = reg[r].name /\ v.cfg = reg[r].cfg /\ v.sw = reg[r].sw
           /\ v.bind = reg[r].bind /\ v.entry = reg[r].entry
           /\ ~Swapping(r) => (v.retire = "no" <=> reg[r].retire = "no")
           /\ reg[r].retire = "done" => v.retire = "done"
           /\ v.drive = "none" => reg[r].drive = "none",
         UNCHANGED <<table, entries, bindings, sw, bnd, ent>>
  PROVE  Turned /\ reg' \in Seq(AnyProject)
<1>0. reg \in Seq(AnyProject)
  BY DEF DynamicInv, Formed
<1>1. CASE r \in DOMAIN reg
  <2>1. Replaced(reg', reg, AnyProject, r, v)
    BY <1>0, <1>1, ExceptEffect
  <2>2. \A x \in DOMAIN reg \ {r} : reg'[x] = reg[x]
    BY <2>1 DEF Replaced
  <2> QED
    BY <1>1, <2>1, <2>2 DEF Turned, Replaced
<1>2. CASE r \notin DOMAIN reg
  <2>1. reg' = reg
    BY <1>0, <1>2
  <2> QED
    BY <1>0, <2>1 DEF Turned
<1> QED
  BY <1>1, <1>2

LEMMA ProcTurns ==
  ASSUME DynamicInv, NEW r,
         \/ \E q \in Requests : Starts(q) /\ r = req[q].reg
         \/ StarterRuns(r) \/ ProcStops(r) \/ ProcExits(r) \/ RetireAndStop(r) \/ StopReturns(r)
         \/ (RestartStops \/ RestartStarts) /\ r = rst.reg
  PROVE  Turned /\ reg' \in Seq(AnyProject)
<1>0. /\ UNCHANGED <<table, entries, bindings, sw, bnd, ent>>
      /\ r \in DOMAIN reg => reg[r] \in AnyProject
  <2>1. CASE \E q \in Requests : Starts(q) /\ r = req[q].reg
    BY <2>1 DEF Starts, DynamicInv, Formed
  <2>2. CASE StarterRuns(r) \/ ProcStops(r) \/ ProcExits(r)
    BY <2>2 DEF StarterRuns, ProcStops, ProcExits, DynamicInv, Formed
  <2>3. CASE RetireAndStop(r) \/ StopReturns(r)
    BY <2>3 DEF RetireAndStop, StopReturns, DynamicInv, Formed
  <2>4. CASE RestartStops \/ RestartStarts
    BY <2>4 DEF RestartStops, RestartStarts, DynamicInv, Formed
  <2> QED
    BY <2>1, <2>2, <2>3, <2>4
<1>1. ASSUME NEW v, reg' = [reg EXCEPT ![r] = v],
             r \in DOMAIN reg =>
               \E d \in Drives, p \in Procs, t \in {"no", "off", "stopping", "done"} :
                 /\ \/ v = [reg[r] EXCEPT !.proc = p] /\ d = reg[r].drive /\ t = reg[r].retire
                    \/ v = [reg[r] EXCEPT !.drive = d] /\ p = reg[r].proc /\ t = reg[r].retire
                    \/ v = [reg[r] EXCEPT !.drive = d, !.proc = p] /\ t = reg[r].retire
                    \/ v = [reg[r] EXCEPT !.retire = t] /\ d = reg[r].drive /\ p = reg[r].proc
                    \/ v = [reg[r] EXCEPT !.retire = t, !.proc = p] /\ d = reg[r].drive
                 /\ d = "none" => reg[r].drive = "none"
                 /\ t = "no" <=> reg[r].retire = "no"
                 /\ reg[r].retire = "done" => t = "done"
      PROVE  Turned /\ reg' \in Seq(AnyProject)
  <2>1. r \in DOMAIN reg =>
           /\ v \in AnyProject
           /\ v.name = reg[r].name /\ v.cfg = reg[r].cfg /\ v.sw = reg[r].sw
           /\ v.bind = reg[r].bind /\ v.entry = reg[r].entry
           /\ v.retire = "no" <=> reg[r].retire = "no"
           /\ reg[r].retire = "done" => v.retire = "done"
           /\ v.drive = "none" => reg[r].drive = "none"
    <3> SUFFICES ASSUME r \in DOMAIN reg
                 PROVE  /\ v \in AnyProject
                        /\ v.name = reg[r].name /\ v.cfg = reg[r].cfg /\ v.sw = reg[r].sw
                        /\ v.bind = reg[r].bind /\ v.entry = reg[r].entry
                        /\ v.retire = "no" <=> reg[r].retire = "no"
                        /\ reg[r].retire = "done" => v.retire = "done"
                        /\ v.drive = "none" => reg[r].drive = "none"
      OBVIOUS
    <3>1. PICK d \in Drives, p \in Procs, t \in {"no", "off", "stopping", "done"} :
            /\ \/ v = [reg[r] EXCEPT !.proc = p] /\ d = reg[r].drive /\ t = reg[r].retire
               \/ v = [reg[r] EXCEPT !.drive = d] /\ p = reg[r].proc /\ t = reg[r].retire
               \/ v = [reg[r] EXCEPT !.drive = d, !.proc = p] /\ t = reg[r].retire
               \/ v = [reg[r] EXCEPT !.retire = t] /\ d = reg[r].drive /\ p = reg[r].proc
               \/ v = [reg[r] EXCEPT !.retire = t, !.proc = p] /\ d = reg[r].drive
            /\ d = "none" => reg[r].drive = "none"
            /\ t = "no" <=> reg[r].retire = "no"
            /\ reg[r].retire = "done" => t = "done"
      BY <1>1
    <3>2. /\ v \in AnyProject
          /\ v.name = reg[r].name /\ v.cfg = reg[r].cfg /\ v.sw = reg[r].sw
          /\ v.bind = reg[r].bind /\ v.entry = reg[r].entry /\ v.drive = d /\ v.retire = t
      <4> DEFINE st == reg[r]
      <4>1. st \in AnyProject
        BY <1>0
      <4>2. \/ v = [st EXCEPT !.proc = p] /\ d = st.drive /\ t = st.retire
            \/ v = [st EXCEPT !.drive = d] /\ p = st.proc /\ t = st.retire
            \/ v = [st EXCEPT !.drive = d, !.proc = p] /\ t = st.retire
            \/ v = [st EXCEPT !.retire = t] /\ d = st.drive /\ p = st.proc
            \/ v = [st EXCEPT !.retire = t, !.proc = p] /\ d = st.drive
        BY <3>1
      <4> HIDE DEF st
      <4>3. /\ v \in AnyProject
            /\ v.name = st.name /\ v.cfg = st.cfg /\ v.sw = st.sw /\ v.bind = st.bind
            /\ v.entry = st.entry /\ v.drive = d /\ v.retire = t
        BY <4>1, <4>2 DEF AnyProject, Drives, Procs
      <4> QED
        BY <4>3 DEF st
    <3> QED
      BY <3>1, <3>2
  <2> QED
    BY <1>0, <1>1, <2>1, OneTurns
<1>2. r \in DOMAIN reg =>
        reg[r].drive \in Drives /\ reg[r].proc \in Procs
        /\ reg[r].retire \in {"no", "off", "stopping", "done"}
  BY <1>0 DEF AnyProject, Drives, Procs
<1>3. ASSUME NEW p, r \in DOMAIN reg => p \in Procs, reg' = [reg EXCEPT ![r].proc = p]
      PROVE  Turned /\ reg' \in Seq(AnyProject)
  <2> DEFINE v == [reg[r] EXCEPT !.proc = p]
  <2>1. reg' = [reg EXCEPT ![r] = v]
    BY <1>3
  <2> QED
    BY <1>1, <1>2, <1>3, <2>1
<1>4. CASE \E q \in Requests : Starts(q) /\ r = req[q].reg
  BY <1>2, <1>3, <1>4 DEF Starts, Procs
<1>5. CASE ProcStops(r) \/ ProcExits(r)
  BY <1>3, <1>5 DEF ProcStops, ProcExits, Procs
<1>6. CASE (RestartStops \/ RestartStarts) /\ r = rst.reg
  BY <1>2, <1>3, <1>6 DEF RestartStops, RestartStarts, Procs
<1>7. CASE StarterRuns(r)
  <2>1. CASE reg' = [reg EXCEPT ![r].drive = "ended"]
    <3> DEFINE v == [reg[r] EXCEPT !.drive = "ended"]
    <3>1. reg' = [reg EXCEPT ![r] = v] /\ "ended" \in Drives
      BY <2>1 DEF Drives
    <3> QED
      BY <1>1, <1>2, <3>1
  <2>2. CASE reg' = [reg EXCEPT ![r] =
                       [reg[r] EXCEPT !.drive = "ended", !.proc = IF Retired(r) THEN @ ELSE "up"]]
    <3> DEFINE p == IF Retired(r) THEN reg[r].proc ELSE "up"
               v == [reg[r] EXCEPT !.drive = "ended", !.proc = p]
    <3>1. reg' = [reg EXCEPT ![r] = v] /\ "ended" \in Drives /\ (r \in DOMAIN reg => p \in Procs)
      BY <1>2, <2>2 DEF Drives, Procs
    <3> HIDE DEF p
    <3> QED
      BY <1>1, <1>2, <3>1
  <2> QED
    BY <1>7, <2>1, <2>2 DEF StarterRuns
<1>8. CASE RetireAndStop(r)
  <2> DEFINE p == IF reg[r].proc = "up" THEN "stopping" ELSE reg[r].proc
             v == [reg[r] EXCEPT !.retire = "stopping", !.proc = p]
  <2>1. reg' = [reg EXCEPT ![r] = v] /\ (r \in DOMAIN reg => p \in Procs) /\ reg[r].retire = "off"
    BY <1>2, <1>8 DEF RetireAndStop, Procs
  <2> HIDE DEF p
  <2> QED
    BY <1>1, <1>2, <2>1
<1>9. CASE StopReturns(r)
  <2> DEFINE v == [reg[r] EXCEPT !.retire = "done"]
  <2>1. reg' = [reg EXCEPT ![r] = v] /\ reg[r].retire = "stopping"
    BY <1>9 DEF StopReturns
  <2> QED
    BY <1>1, <1>2, <2>1
<1> QED
  BY <1>4, <1>5, <1>6, <1>7, <1>8, <1>9

\* What is left to show when projects turn and the resolver does nothing.
LEMMA TurningServes ==
  ASSUME DynamicInv, Turned, reg' \in Seq(AnyProject), UNCHANGED <<res, fate>>, DropsGoOn,
         rst' \in RestartCall, Restarting', SwapGoesOn, StopGoesOn,
         \A d \in drops' \ drops :
           /\ d \in DropCall /\ "vanish" \in fate[d.label]
           /\ d.step = "retire" => d.reg \in DOMAIN reg /\ Dynamic(d.reg) /\ reg[d.reg].name = d.label
  PROVE  DynamicInv'
<1>1. Formed'
  BY DEF DynamicInv, Formed, Turned
<1>2. CallsGoOn /\ Calls'
  BY NoCalls, CallsStay
<1>3. DropsAreDue'
  BY DropsStay
<1> QED
  BY <1>1, <1>2, <1>3, TurningKeeps DEF DynamicInv

LEMMA OnlyTurning ==
  ASSUME DynamicInv, Turned, reg' \in Seq(AnyProject), UNCHANGED <<res, fate, rst, job>>, DropsGoOn,
         \A d \in drops' \ drops :
           /\ d \in DropCall /\ "vanish" \in fate[d.label]
           /\ d.step = "retire" => d.reg \in DOMAIN reg /\ Dynamic(d.reg) /\ reg[d.reg].name = d.label
  PROVE  DynamicInv'
<1>1. rst' \in RestartCall
  BY DEF DynamicInv, Formed
<1> QED
  BY <1>1, RestartStays, TurningServes

\* A step that changes nothing the invariant speaks of
LEMMA AsideServes ==
  ASSUME DynamicInv, UNCHANGED heap, UNCHANGED <<res, fate, rst, job, drops>>
  PROVE  DynamicInv'
<1>1. DropsGoOn /\ drops' \ drops = {}
  BY DEF DropsGoOn
<1> QED
  BY <1>1, NoCalls, OnlyCalls

\* Requests behind the switch, and operators
LEMMA BehindServes ==
  ASSUME DynamicInv, NEW q \in Requests, UNCHANGED wild,
         RequestWorks(q) \/ ClientLeaves(q) \/ \E r \in Registered : OperatorFinds(q, r)
  PROVE  DynamicInv'
<1>1. CASE PassesSwitch(q) \/ AsksForStart(q) \/ ClientLeaves(q) \/ \E r \in Registered : OperatorFinds(q, r)
  BY <1>1, AsideServes DEF PassesSwitch, AsksForStart, ClientLeaves, OperatorFinds, wild, place
<1>2. CASE Starts(q)
  <2>1. Turned /\ reg' \in Seq(AnyProject)
    BY <1>2, ProcTurns
  <2>2. UNCHANGED <<res, fate, rst, job>> /\ DropsGoOn /\ drops' \ drops = {}
    BY <1>2 DEF Starts, wild, place, DropsGoOn
  <2> QED
    BY <2>1, <2>2, OnlyTurning
<1> QED
  BY <1>1, <1>2 DEF RequestWorks

\* The record dropDynamic is called with
LEMMA DropIsCall ==
  ASSUME DynamicInv, NEW r \in DOMAIN reg, Dynamic(r)
  PROVE  /\ DropOf(r) \in DropCall /\ DropOf(r).label = reg[r].name
         /\ DropOf(r).reg = r /\ DropOf(r).step = "retire"
<1>1. reg[r].name \in Labels /\ reg[r].entry \in Nat \ {0} /\ r \in Nat
  <2>1. reg \in Seq(AnyProject)
    BY DEF DynamicInv, Formed
  <2>2. reg[r] \in AnyProject /\ r \in Nat
    BY <2>1
  <2>3. reg[r].name \in Labels /\ reg[r].entry # 0
    BY DEF DynamicInv, Made, Dynamic
  <2> QED
    BY <2>2, <2>3 DEF AnyProject
<1> QED
  BY <1>1 DEF DropOf, DropCall

\* Starters, monitors and the ends of processes
LEMMA ProcServes ==
  ASSUME DynamicInv, Fated, NEW r \in DOMAIN reg,
         ((StarterRuns(r) \/ ProcStops(r)) /\ UNCHANGED wild) \/ StopEnds(r)
  PROVE  DynamicInv'
<1>1. Turned /\ reg' \in Seq(AnyProject)
  BY ProcTurns DEF StopEnds
<1>2. UNCHANGED <<res, fate, rst, job>>
  BY DEF StarterRuns, ProcStops, StopEnds, ProcExits, wild, place
<1>3. CASE UNCHANGED drops
  <2>1. DropsGoOn /\ drops' \ drops = {}
    BY <1>3 DEF DropsGoOn
  <2> QED
    BY <1>1, <1>2, <2>1, OnlyTurning
<1>4. CASE ~UNCHANGED drops
  <2>1. Dynamic(r) /\ reg[r].name \notin tree /\ drops' = drops \cup {DropOf(r)}
    BY <1>4 DEF StopEnds, wild
  <2>2. reg[r].name \in Labels
    BY <2>1 DEF DynamicInv, Made
  <2>3. "vanish" \in fate[reg[r].name]
    BY <2>1, <2>2 DEF Fated
  <2>4. DropsGoOn
    BY <2>1 DEF DropsGoOn
  <2>5. ASSUME NEW d \in drops' \ drops
        PROVE  /\ d \in DropCall /\ "vanish" \in fate[d.label]
               /\ d.step = "retire" => d.reg \in DOMAIN reg /\ Dynamic(d.reg) /\ reg[d.reg].name = d.label
    <3>1. d = DropOf(r)
      BY <2>1
    <3> QED
      BY <2>1, <2>3, <3>1, DropIsCall
  <2> QED
    BY <1>1, <1>2, <2>4, <2>5, OnlyTurning
<1> QED
  BY <1>3, <1>4

-----------------------------------------------------------------------------
(* Drops and restarts that leave the table as it is *)

LEMMA DropFindsServes ==
  ASSUME DynamicInv, NEW d \in drops, DropFinds(d)
  PROVE  DynamicInv'
<1> DEFINE r == table[d.label]
           c == [d EXCEPT !.step = "retire", !.reg = r]
<1>0. UNCHANGED heap /\ UNCHANGED <<res, fate, rst, job>> /\ d.step = "find"
  BY DEF DropFinds, vars, place
<1>1. d \in DropCall /\ "vanish" \in fate[d.label]
  BY DEF DynamicInv, Formed, DropsAreDue
<1>2. DropsGoOn
  BY <1>0 DEF DropsGoOn, DropFinds
<1>3. ASSUME r # 0, reg[r].entry = d.ent, NEW x \in {c}
      PROVE  /\ x \in DropCall /\ "vanish" \in fate[x.label]
             /\ x.step = "retire" => x.reg \in DOMAIN reg /\ Dynamic(x.reg) /\ reg[x.reg].name = x.label
  <2>1. d.label \in Names
    BY <1>1, WildcardAssumption DEF DropCall
  <2>2. r \in DOMAIN reg /\ reg[r].name = d.label /\ r \in Nat
    BY <1>3, <2>1 DEF DynamicInv, Made, Formed
  <2>3. x \in DropCall /\ x.label = d.label /\ x.reg = r
    BY <1>1, <1>3, <2>2 DEF DropCall
  <2>4. d.ent # 0
    BY <1>1 DEF DropCall
  <2> QED
    BY <1>1, <1>3, <2>2, <2>3, <2>4 DEF Dynamic
<1>4. \A x \in drops' \ drops : x \in {c} /\ r # 0 /\ reg[r].entry = d.ent
  BY DEF DropFinds
<1> HIDE DEF c, r
<1>5. DropsGoOn /\ \A x \in drops' \ drops :
        /\ x \in DropCall /\ "vanish" \in fate[x.label]
        /\ x.step = "retire" => x.reg \in DOMAIN reg /\ Dynamic(x.reg) /\ reg[x.reg].name = x.label
  BY <1>2, <1>3, <1>4
<1> QED
  BY <1>0, <1>5, NoCalls, OnlyCalls

\* Nobody operates on a project whose worktree comes and goes.
FatesApart == \A f \in Fates : ~({"vanish", "operate"} \subseteq f)

LEMMA OperatedIsThere ==
  ASSUME DynamicInv, Fated, FatesApart, rst.step # "none"
  PROVE  /\ rst.reg \in DOMAIN reg /\ Dynamic(rst.reg) /\ Operated(rst.reg)
         /\ reg[rst.reg].name \in tree /\ reg[rst.reg].name \in Labels
         /\ ~("vanish" \in fate[reg[rst.reg].name])
<1>1. rst.reg \in DOMAIN reg /\ Dynamic(rst.reg) /\ Operated(rst.reg)
  BY DEF DynamicInv, Restarting
<1>2. reg[rst.reg].name \in Labels /\ "operate" \in fate[reg[rst.reg].name]
  BY <1>1 DEF Operated
<1>3. fate[reg[rst.reg].name] \in Fates
  BY <1>2 DEF Fated
<1>4. ~("vanish" \in fate[reg[rst.reg].name])
  BY <1>2, <1>3 DEF FatesApart
<1> QED
  BY <1>1, <1>2, <1>4 DEF Fated

\* Who may hold reloadMu while a restart is not in its swap
LEMMA JobRests ==
  ASSUME DynamicInv, rst.step # "swap"
  PROVE  \/ job = Nobody /\ job.by = "none"
         \/ StoppingAll /\ job.by = "stop"
         \/ rst.step = "start" /\ job.by = "restart"
  BY DEF DynamicInv, Restarting, StoppingAll, AtStop, Nobody

\* A step of a restart, outside its swap
LEMMA RestartMoves ==
  ASSUME DynamicInv, Turned, reg' \in Seq(AnyProject), UNCHANGED <<res, fate, drops>>,
         rst.step # "swap", rst'.step # "swap", rst' \in RestartCall,
         (job' = Nobody /\ job.by # "stop") \/ (StoppingAll /\ job' = job),
         rst'.step # "none" => rst'.reg \in DOMAIN reg /\ Dynamic(rst'.reg) /\ Operated(rst'.reg),
         rst'.step = "lock" => rst'.port \in GivenPorts
  PROVE  DynamicInv'
<1>1. \A r \in DOMAIN reg : (Operated(r)' <=> Operated(r)) /\ (Dynamic(r)' <=> Dynamic(r))
  BY DEF Operated, Dynamic, Turned
<1>2. Restarting'
  <2>1. StoppingAll /\ job' = job => StoppingAll'
    BY DEF StoppingAll, AtStop, Turned
  <2> QED
    BY <1>1, <2>1 DEF Restarting, Turned, Nobody, Operated, Dynamic
<1>3. SwapGoesOn /\ StopGoesOn
  BY DEF SwapGoesOn, Swapping, StopGoesOn
<1>4. DropsGoOn /\ drops' \ drops = {}
  BY DEF DropsGoOn
<1> QED
  BY <1>2, <1>3, <1>4, TurningServes

LEMMA RestartBeginsServes ==
  ASSUME DynamicInv, NEW r \in DOMAIN reg, RestartBegins(r)
  PROVE  DynamicInv'
<1>1. /\ UNCHANGED heap /\ UNCHANGED <<res, fate, drops, job>>
      /\ rst = NoRestart /\ Dynamic(r) /\ Operated(r)
      /\ rst' = [step |-> "check", reg |-> r, port |-> 0]
  BY DEF RestartBegins, vars, place
<1>2. rst.step = "none"
  BY <1>1 DEF NoRestart
<1>3. (job' = Nobody /\ job.by # "stop") \/ (StoppingAll /\ job' = job)
  BY <1>1, <1>2, JobRests
<1>4. rst' \in RestartCall /\ rst'.step = "check" /\ rst'.reg = r
  BY <1>1 DEF RestartCall, DynamicInv, Formed
<1>5. Turned /\ reg' \in Seq(AnyProject)
  BY <1>1 DEF Turned, heap, DynamicInv, Formed
<1> QED
  BY <1>1, <1>2, <1>3, <1>4, <1>5, RestartMoves

LEMMA RestartChecksServes ==
  ASSUME DynamicInv, Fated, FatesApart, RestartChecks
  PROVE  DynamicInv'
<1> DEFINE r == rst.reg
           ports == IF ent[reg[r].entry].cfg.cmd THEN PortsOf[reg[r].name] ELSE {reg[r].cfg.app}
<1>1. /\ UNCHANGED heap /\ UNCHANGED <<res, fate, job>> /\ rst.step = "check"
  BY DEF RestartChecks, vars, place
<1>2. r \in DOMAIN reg /\ Dynamic(r) /\ Operated(r) /\ reg[r].name \in tree /\ reg[r].name \in Labels
  BY <1>1, OperatedIsThere
<1>3. (job' = Nobody /\ job.by # "stop") \/ (StoppingAll /\ job' = job)
  BY <1>1, JobRests
<1>4. Turned /\ reg' \in Seq(AnyProject)
  BY <1>1 DEF Turned, heap, DynamicInv, Formed
<1>5. UNCHANGED drops
  BY <1>2 DEF RestartChecks
<1>6. \/ rst' = NoRestart
      \/ rst' = [rst EXCEPT !.step = "stop"]
      \/ \E p \in PortsOf[reg[r].name] : rst' = [rst EXCEPT !.step = "lock", !.port = p]
  BY <1>2 DEF RestartChecks
<1>7. rst \in RestartCall
  BY DEF DynamicInv, Formed
<1>8. CASE rst' = NoRestart
  <2>1. rst' \in RestartCall /\ rst'.step = "none"
    BY <1>8 DEF NoRestart, RestartCall
  <2> QED
    BY <1>1, <1>3, <1>4, <1>5, <2>1, RestartMoves
<1>9. CASE rst' = [rst EXCEPT !.step = "stop"]
  <2>1. rst' \in RestartCall /\ rst'.step = "stop" /\ rst'.reg = r
    BY <1>7, <1>9 DEF RestartCall
  <2> QED
    BY <1>1, <1>2, <1>3, <1>4, <1>5, <2>1, RestartMoves
<1>10. ASSUME NEW p \in PortsOf[reg[r].name], rst' = [rst EXCEPT !.step = "lock", !.port = p]
       PROVE  DynamicInv'
  <2>1. p \in GivenPorts
    BY <1>2 DEF GivenPorts
  <2>2. rst' \in RestartCall /\ rst'.step = "lock" /\ rst'.reg = r /\ rst'.port = p
    BY <1>7, <1>10, <2>1 DEF RestartCall
  <2> QED
    BY <1>1, <1>2, <1>3, <1>4, <1>5, <2>1, <2>2, RestartMoves
<1> QED
  BY <1>6, <1>8, <1>9, <1>10

LEMMA RestartTurnsServe ==
  ASSUME DynamicInv, RestartStops \/ RestartStarts
  PROVE  DynamicInv'
<1>1. Turned /\ reg' \in Seq(AnyProject)
  BY ProcTurns
<1>2. rst \in RestartCall
  BY DEF DynamicInv, Formed
<1>3. UNCHANGED <<res, fate, drops>>
  BY DEF RestartStops, RestartStarts, place
<1>4. rst.step \in {"stop", "start"} /\ rst.reg \in DOMAIN reg /\ Dynamic(rst.reg) /\ Operated(rst.reg)
  BY DEF RestartStops, RestartStarts, DynamicInv, Restarting
<1>5. CASE RestartStops
  <2>1. rst' = [rst EXCEPT !.step = "start"] /\ rst.step = "stop" /\ job' = job
    BY <1>5 DEF RestartStops
  <2>2. rst' \in RestartCall /\ rst'.step = "start" /\ rst'.reg = rst.reg
    BY <1>2, <2>1 DEF RestartCall
  <2>3. (job' = Nobody /\ job.by # "stop") \/ (StoppingAll /\ job' = job)
    BY <2>1, JobRests
  <2> QED
    BY <1>1, <1>3, <1>4, <2>1, <2>2, <2>3, RestartMoves
<1>6. CASE RestartStarts
  <2>1. rst' = NoRestart /\ job' = IF job.by = "restart" THEN Nobody ELSE job
    BY <1>6 DEF RestartStarts
  <2>2. rst' \in RestartCall /\ rst'.step = "none"
    BY <2>1 DEF NoRestart, RestartCall
  <2>3. (job' = Nobody /\ job.by # "stop") \/ (StoppingAll /\ job' = job)
    BY <1>4, <2>1, JobRests
  <2> QED
    BY <1>1, <1>3, <1>4, <2>2, <2>3, RestartMoves
<1> QED
  BY <1>5, <1>6

-----------------------------------------------------------------------------
(* What the invariant says of objects one by one *)

Typed ==
  /\ \A r \in DOMAIN reg :
       /\ r \in Nat \ {0} /\ reg[r] \in AnyProject /\ reg[r].name \in Names
       /\ reg[r].sw \in Nat /\ reg[r].bind \in Nat /\ reg[r].entry \in Nat
  /\ \A b \in DOMAIN bnd :
       b \in Nat \ {0} /\ bnd[b] \in AnyListener /\ bnd[b].members \in Int /\ bnd[b].routes \in AnyRoutes
  /\ \A e \in DOMAIN ent : e \in Nat \ {0} /\ ent[e] \in Entry
  /\ \A r \in Registered : r \in DOMAIN reg /\ table[reg[r].name] = r /\ r # 0
  /\ \A r, x \in Registered : reg[r].sw = reg[x].sw => r = x

LEMMA FormedIsTyped == DynamicInv => Typed
<1> SUFFICES ASSUME DynamicInv PROVE Typed
  OBVIOUS
<1>1. \A r \in DOMAIN reg : r \in Nat \ {0} /\ reg[r] \in AnyProject
  BY DEF DynamicInv, Formed
<1>2. \A r \in DOMAIN reg :
        reg[r].name \in Names /\ reg[r].sw \in Nat /\ reg[r].bind \in Nat /\ reg[r].entry \in Nat
  BY <1>1 DEF AnyProject
<1>3. \A b \in DOMAIN bnd : b \in Nat \ {0} /\ bnd[b] \in AnyListener
  BY DEF DynamicInv, Formed
<1>4. \A b \in DOMAIN bnd : bnd[b].members \in Int /\ bnd[b].routes \in AnyRoutes
  BY <1>3 DEF AnyListener
<1>5. \A e \in DOMAIN ent : e \in Nat \ {0} /\ ent[e] \in Entry
  BY DEF DynamicInv, Formed
<1>6. \A r \in Registered : r \in DOMAIN reg /\ table[reg[r].name] = r /\ r # 0
  BY DEF Registered, DynamicInv, Made
<1>7. \A r, x \in Registered : reg[r].sw = reg[x].sw => r = x
  <2> SUFFICES ASSUME NEW r \in Registered, NEW x \in Registered, reg[r].sw = reg[x].sw PROVE r = x
    OBVIOUS
  <2>1. reg[r].name = reg[x].name
    BY <1>6 DEF DynamicInv, Made
  <2> QED
    BY <1>6, <2>1
<1> QED
  BY <1>1, <1>2, <1>3, <1>4, <1>5, <1>6, <1>7 DEF Typed

\* The holder of reloadMu retires the project a restart swaps.
LEMMA SwapTurns ==
  ASSUME DynamicInv, job.by # "stop", JobRetires
  PROVE  Turned /\ reg' \in Seq(AnyProject)
<1>1. PICK i \in job.items : TakeOff(i.reg, i.keep) \/ RetireAndStop(i.reg) \/ StopReturns(i.reg)
  BY DEF JobRetires
<1>2. rst.step = "swap" /\ job = Swap(rst.reg)
  <2>1. job # Nobody
    BY DEF JobRetires, Nobody
  <2>2. ~(reg[i.reg].retire = "done")
    BY <1>1 DEF TakeOff, RetireAndStop, StopReturns
  <2> QED
    BY <2>1, <2>2 DEF DynamicInv, Restarting, StoppingAll, AtStop
<1> DEFINE r == rst.reg
<1>3. i.reg = r /\ i.keep = TRUE
  BY <1>2 DEF Swap
<1>4. CASE RetireAndStop(r) \/ StopReturns(r)
  BY <1>4, ProcTurns
<1>5. CASE TakeOff(r, TRUE)
  <2> DEFINE v == [reg[r] EXCEPT !.retire = "off", !.bind = IF TRUE THEN @ ELSE 0,
                                 !.drive = IF @ = "starter" THEN "cancelled" ELSE "ended"]
  <2>1. /\ reg[r].retire = "no" /\ reg' = [reg EXCEPT ![r] = v]
        /\ sw' = [sw EXCEPT ![reg[r].sw] = 0]
        /\ UNCHANGED <<table, entries, ent, bnd, bindings>>
    BY <1>5 DEF TakeOff, Detach
  <2>2. r \in DOMAIN reg /\ table[reg[r].name] = r /\ Swapping(r)
    BY <1>2 DEF DynamicInv, Restarting, Swapping
  <2>3. reg[r] \in AnyProject /\ reg[r].name \in Names /\ r # 0
    BY <2>2, FormedIsTyped DEF Typed
  <2>4. r \in Registered
    BY <2>2, <2>3 DEF Registered
  <2>5. sw[reg[r].sw] = 0 /\ sw \in Seq(Nat)
    BY <2>2, <2>4 DEF DynamicInv, InTable, Formed
  <2>6. sw' = sw
    BY <2>1, <2>5
  <2>7. /\ v \in AnyProject
        /\ v.name = reg[r].name /\ v.cfg = reg[r].cfg /\ v.sw = reg[r].sw
        /\ v.bind = reg[r].bind /\ v.entry = reg[r].entry /\ v.drive # "none"
    BY <2>3 DEF AnyProject
  <2> HIDE DEF v
  <2> QED
    BY <2>1, <2>2, <2>6, <2>7, OneTurns
<1> QED
  BY <1>1, <1>3, <1>4, <1>5

LEMMA SwapRetires ==
  ASSUME DynamicInv, job.by # "stop", JobRetires, UNCHANGED wild
  PROVE  DynamicInv'
<1>1. UNCHANGED <<res, fate, rst, job>> /\ DropsGoOn /\ drops' \ drops = {}
  BY DEF JobRetires, wild, place, DropsGoOn
<1> QED
  BY <1>1, SwapTurns, OnlyTurning

-----------------------------------------------------------------------------
(* The swap of a restart *)

LEMMA RestartLocksServes ==
  ASSUME DynamicInv, Fated, FatesApart, RestartLocks
  PROVE  DynamicInv'
<1> DEFINE r == rst.reg
<1>0. /\ rst.step = "lock" /\ job = Nobody
      /\ UNCHANGED <<table, entries, bindings, reg, bnd, ent>> /\ UNCHANGED <<res, fate, drops>>
  BY DEF RestartLocks, place
<1>1. r \in DOMAIN reg /\ Dynamic(r) /\ Operated(r) /\ ~("vanish" \in fate[reg[r].name])
  BY <1>0, OperatedIsThere
<1>2. rst \in RestartCall /\ rst.port \in GivenPorts /\ reg \in Seq(AnyProject) /\ sw \in Seq(Nat)
  BY <1>0 DEF DynamicInv, Formed, Restarting
<1>3. CASE table[reg[r].name] # r
  <2>1. rst' = NoRestart /\ UNCHANGED <<sw, job>>
    BY <1>3 DEF RestartLocks
  <2>2. rst' \in RestartCall /\ rst'.step = "none"
    BY <2>1 DEF NoRestart, RestartCall
  <2>3. Turned
    BY <1>0, <2>1 DEF Turned
  <2> QED
    BY <1>0, <1>2, <2>1, <2>2, <2>3, RestartMoves DEF Nobody
<1>4. CASE table[reg[r].name] = r
  <2>1. /\ rst' = [rst EXCEPT !.step = "swap"]
        /\ sw' = [sw EXCEPT ![reg[r].sw] = 0] /\ job' = Swap(r)
    BY <1>4 DEF RestartLocks, Swap
  <2>2. rst' \in RestartCall /\ rst'.step = "swap" /\ rst'.reg = r /\ rst'.port = rst.port
    BY <1>2, <2>1 DEF RestartCall
  <2>3. r \in Registered /\ reg[r].sw \in DOMAIN sw
    BY <1>1, <1>4, FormedIsTyped DEF Typed, Registered, DynamicInv, Made
  <2>4. Replaced(sw', sw, Nat, reg[r].sw, 0)
    BY <1>2, <2>1, <2>3, ExceptEffect
  <2>5. sw' \in Seq(Nat) /\ DOMAIN sw' = DOMAIN sw /\ sw'[reg[r].sw] = 0
        /\ \A s \in DOMAIN sw \ {reg[r].sw} : sw'[s] = sw[s]
    BY <2>3, <2>4 DEF Replaced
  <2>6. Up' = Up /\ Registered' = Registered
    BY <1>0 DEF Up, Registered
  <2>7. Formed'
    BY <1>0, <2>2, <2>5 DEF DynamicInv, Formed
  <2>8. EntriesAreUp'
    BY <1>0, <2>6 DEF DynamicInv, EntriesAreUp, Bound, HostIn
  <2>9. Made'
    BY <1>0, <2>5, <2>6 DEF DynamicInv, Made, Dynamic, HostIn
  <2>10. Calls' /\ DropsAreDue'
    BY <1>0, <2>6 DEF DynamicInv, Calls, Resolved, At, DropsAreDue, Dynamic
  <2>11. OutOfTable' /\ Counted'
    BY <1>0, <2>6 DEF DynamicInv, OutOfTable, Counted, On, At
  <2>12. Restarting'
    BY <1>0, <1>1, <1>2, <1>4, <2>1, <2>2 DEF Restarting, Dynamic, Operated
  <2>13. ASSUME NEW x \in Registered
         PROVE  sw'[reg'[x].sw] = (IF Swapping(x)' THEN 0 ELSE x) /\ (Stands(x)' \/ Leaves(x)')
    <3>1. (Swapping(x)' <=> x = r) /\ ~Swapping(x)
      BY <1>0, <2>2 DEF Swapping
    <3>2. sw[reg[x].sw] = x /\ (Stands(x) \/ Leaves(x))
      BY <3>1 DEF DynamicInv, InTable
    <3>3. /\ OnListener(x)' <=> OnListener(x)
          /\ Routed(x)' <=> Routed(x)
          /\ BeingRouted(x)' <=> BeingRouted(x)
          /\ BeingRetired(x)' <=> BeingRetired(x)
      <4>1. ~InHand(x) /\ ~InHand(x)'
        BY <1>0, <2>1 DEF InHand, Nobody, Swap
      <4> QED
        BY <1>0, <4>1 DEF OnListener, Routed, BeingRouted, BeingRetired, BeingDropped, At
    <3>4. CASE x = r
      <4>1. ~BeingRetired(r)
        BY <1>0, <1>1 DEF BeingRetired, BeingDropped, InHand, Nobody, DynamicInv, DropsAreDue
      <4>2. Stands(r)
        BY <3>2, <3>4, <4>1 DEF Leaves
      <4> QED
        BY <1>0, <2>5, <3>1, <3>3, <3>4, <4>2 DEF Stands
    <3>5. CASE x # r
      <4>1. reg[x].sw # reg[r].sw /\ reg[x].sw \in DOMAIN sw
        BY <2>3, <3>5, FormedIsTyped DEF Typed, DynamicInv, Made
      <4>2. sw'[reg'[x].sw] = x
        BY <1>0, <2>5, <3>2, <4>1
      <4> QED
        BY <1>0, <3>1, <3>2, <3>3, <3>5, <4>2 DEF Stands, Leaves
    <3> QED
      BY <3>4, <3>5
  <2>14. InTable'
    BY <2>6, <2>13 DEF InTable
  <2> QED
    BY <2>7, <2>8, <2>9, <2>10, <2>11, <2>12, <2>14 DEF DynamicInv
<1> QED
  BY <1>3, <1>4

\* The end of dropDynamic
LEMMA DropForgetsServes ==
  ASSUME DynamicInv, Fated, FatesApart, NEW d \in drops, DropForgets(d)
  PROVE  DynamicInv'
<1> DEFINE r == d.reg
           l == d.label
<1>0. /\ d.step = "retire" /\ reg[r].retire = "done"
      /\ UNCHANGED <<entries, bindings, reg, sw, bnd, ent>> /\ UNCHANGED <<job, res, fate, rst>>
      /\ table' = [table EXCEPT ![l] = IF @ = r THEN 0 ELSE @]
      /\ drops' = drops \ {d}
  BY DEF DropForgets, place
<1>1. /\ r \in DOMAIN reg /\ Dynamic(r) /\ reg[r].name = l /\ "vanish" \in fate[l] /\ l \in Labels
      /\ l \in Names /\ table \in [Names -> Nat]
  <2>1. r \in DOMAIN reg /\ Dynamic(r) /\ reg[r].name = l /\ "vanish" \in fate[l]
    BY <1>0 DEF DynamicInv, DropsAreDue
  <2> QED
    BY <2>1, WildcardAssumption DEF DynamicInv, Made, Formed
<1>2. /\ \A n \in Names \ {l} : table'[n] = table[n]
      /\ table'[l] = (IF table[l] = r THEN 0 ELSE table[l])
      /\ table' \in [Names -> Nat]
  BY <1>0, <1>1
<1>3. Registered' = Registered \ {r}
  <2>1. \A n \in Names : table[n] = r => n = l
    BY <1>1, FormedIsTyped DEF Typed, DynamicInv, Made
  <2>2. ASSUME NEW x \in Registered' PROVE x \in Registered \ {r}
    <3>1. PICK n \in Names : table'[n] = x /\ x # 0
      BY DEF Registered
    <3>2. table[n] = x /\ x # r
      BY <1>2, <2>1, <3>1
    <3> QED
      BY <3>1, <3>2 DEF Registered
  <2>3. ASSUME NEW x \in Registered \ {r} PROVE x \in Registered'
    <3>1. PICK n \in Names : table[n] = x /\ x # 0 /\ x # r
      BY DEF Registered
    <3>2. table'[n] = x
      BY <1>2, <3>1
    <3> QED
      BY <3>1, <3>2 DEF Registered
  <2> QED
    BY <2>2, <2>3
<1>4. ~Swapping(r) /\ (r \in Registered => reg[r].bind = 0)
  <2>1. ~Swapping(r)
    BY <1>1, OperatedIsThere DEF Swapping
  <2> QED
    BY <1>0, <2>1 DEF DynamicInv, InTable, Stands, Leaves
<1>5. Up' = Up
  BY <1>0 DEF Up
<1>6. Formed'
  BY <1>0, <1>2 DEF DynamicInv, Formed
<1>7. EntriesAreUp'
  BY <1>0, <1>5 DEF DynamicInv, EntriesAreUp, Bound, HostIn
<1>8. Made'
  <2>1. \A n \in Names : table'[n] # 0 => table'[n] = table[n]
    BY <1>2
  <2> QED
    BY <1>0, <1>5, <2>1 DEF DynamicInv, Made, Dynamic, HostIn
<1>9. Calls'
  BY <1>0, <1>3, <1>5 DEF DynamicInv, Calls, Resolved, At
<1>10. DropsAreDue'
  BY <1>0 DEF DynamicInv, DropsAreDue, Dynamic
<1>11. OutOfTable'
  BY <1>0, <1>3 DEF DynamicInv, OutOfTable, At
<1>12. Counted'
  <2>1. ASSUME NEW b \in DOMAIN bnd PROVE On(b)' = On(b)
    <3>1. b # 0
      BY FormedIsTyped DEF Typed
    <3> QED
      BY <1>0, <1>3, <1>4, <3>1 DEF On
  <2> QED
    BY <1>0, <2>1 DEF DynamicInv, Counted
<1>13. Restarting'
  <2>1. ASSUME rst.step = "swap" PROVE table'[reg[rst.reg].name] = rst.reg
    <3>1. reg[rst.reg].name # l /\ reg[rst.reg].name \in Labels
      BY <1>1, <2>1, OperatedIsThere
    <3>2. table[reg[rst.reg].name] = rst.reg
      BY <2>1 DEF DynamicInv, Restarting
    <3> QED
      BY <1>2, <3>1, <3>2, WildcardAssumption
  <2> QED
    BY <1>0, <2>1 DEF DynamicInv, Restarting, StoppingAll, AtStop, Dynamic, Operated
<1>14. ASSUME NEW x \in Registered \ {r}
       PROVE  sw'[reg'[x].sw] = (IF Swapping(x)' THEN 0 ELSE x) /\ (Stands(x)' \/ Leaves(x)')
  <2>1. /\ OnListener(x)' <=> OnListener(x)
        /\ Routed(x)' <=> Routed(x)
        /\ BeingRouted(x)' <=> BeingRouted(x)
        /\ BeingRetired(x) => BeingRetired(x)'
        /\ Swapping(x)' <=> Swapping(x)
    BY <1>0 DEF OnListener, Routed, BeingRouted, BeingRetired, BeingDropped, InHand, At, Swapping
  <2> QED
    BY <1>0, <2>1 DEF DynamicInv, InTable, Stands, Leaves
<1>15. InTable'
  BY <1>3, <1>14 DEF InTable
<1> QED
  BY <1>6, <1>7, <1>8, <1>9, <1>10, <1>11, <1>12, <1>13, <1>15 DEF DynamicInv

-----------------------------------------------------------------------------
(* New registrations *)

LEMMA OnIsFinite ==
  ASSUME DynamicInv, NEW b
  PROVE  IsFiniteSet(On(b)) /\ Cardinality(On(b)) \in Nat
<1>1. DOMAIN reg = 1..Len(reg) /\ Len(reg) \in Nat
  BY DEF DynamicInv, Formed
<1>2. IsFiniteSet(DOMAIN reg)
  BY <1>1, FS_Interval
<1>3. On(b) \subseteq DOMAIN reg
  BY FormedIsTyped DEF Typed, On
<1> QED
  BY <1>2, <1>3, FS_Subset, FS_CardinalityType

LEMMA OneOn ==
  ASSUME DynamicInv, NEW b, NEW r \in On(b), NEW x, x \notin On(b)
  PROVE  /\ Cardinality(On(b) \ {r}) = Cardinality(On(b)) - 1
         /\ Cardinality(On(b) \cup {x}) = Cardinality(On(b)) + 1
         /\ Cardinality((On(b) \ {r}) \cup {x}) = Cardinality(On(b))
<1>1. IsFiniteSet(On(b)) /\ Cardinality(On(b)) \in Nat
  BY OnIsFinite
<1>2. IsFiniteSet(On(b) \ {r}) /\ Cardinality(On(b) \ {r}) = Cardinality(On(b)) - 1
  BY <1>1, FS_RemoveElement
<1>3. Cardinality(On(b) \cup {x}) = Cardinality(On(b)) + 1
  BY <1>1, FS_AddElement
<1>4. x \notin On(b) \ {r}
  OBVIOUS
<1>5. Cardinality((On(b) \ {r}) \cup {x}) = Cardinality(On(b) \ {r}) + 1
  BY <1>2, <1>4, FS_AddElement
<1> QED
  BY <1>1, <1>2, <1>3, <1>5

\* What Discovery.Project makes is a project like others.
LEMMA DynamicIsTyped ==
  ASSUME DynamicInv, NEW e \in Up, NEW l \in Labels, NEW p \in GivenPorts
  PROVE  LET c == DynamicProject(ent[e].cfg, l, p)
         IN /\ c \in DynamicProjects /\ c.host = HostIn(e, l) /\ c.host \in AnyHost
            /\ c.sup = ent[e].cfg.sup
<1>1. ent[e] \in Entry
  BY FormedIsTyped DEF Typed, DynamicInv, EntriesAreUp
<1>2. DynamicProject(ent[e].cfg, l, p) \in DynamicProjects
  BY <1>1 DEF DynamicProjects
<1>3. HostIn(e, l) \in AnyHost
  BY <1>1 DEF HostIn, AnyHost
<1> QED
  BY <1>2, <1>3 DEF DynamicProject, HostIn

\* commission with the retired project as inherited: the switch, the listener
\* and the route are those of the project it replaces.
LEMMA RestartCommissionsServes ==
  ASSUME DynamicInv, RestartCommissions
  PROVE  DynamicInv'
<1> DEFINE r == rst.reg
           e == reg[r].entry
           l == reg[r].name
           c == DynamicProject(ent[e].cfg, l, rst.port)
           v == Activated([NewState(l, c, e) EXCEPT !.sw = reg[r].sw, !.bind = reg[r].bind])
<1>n. PICK n : n = Len(reg) + 1
  OBVIOUS
<1>0. /\ rst.step = "swap" /\ AllRetired
      /\ reg' = Append(reg, v) /\ table' = [table EXCEPT ![l] = n] /\ sw' = [sw EXCEPT ![reg[r].sw] = n]
      /\ UNCHANGED <<entries, bindings, bnd, ent>> /\ UNCHANGED <<job, res, fate, drops>>
      /\ rst' = [rst EXCEPT !.step = "start", !.reg = n]
  <2>1. NewState(l, c, e).name = l
    BY DEF NewState
  <2> QED
    BY <1>n, <2>1 DEF RestartCommissions, Inherit, place
<1>1. /\ r \in DOMAIN reg /\ Dynamic(r) /\ Operated(r) /\ table[l] = r /\ rst.port \in GivenPorts
      /\ job = Swap(r)
  BY <1>0 DEF DynamicInv, Restarting
<1>2. reg[r].retire = "done"
  BY <1>0, <1>1 DEF AllRetired, Swap
<1>3. /\ e \in Up /\ e # 0 /\ l \in Labels /\ l \in Names
      /\ reg[r].cfg.host = HostIn(e, l) /\ reg[r].cfg.sup = ent[e].cfg.sup
      /\ reg[r].sw \in DOMAIN sw
  BY <1>1, WildcardAssumption DEF DynamicInv, Made, Dynamic
<1>4. c \in DynamicProjects /\ c.host = reg[r].cfg.host /\ c.sup = reg[r].cfg.sup
  BY <1>1, <1>3, DynamicIsTyped
<1>5. /\ reg \in Seq(AnyProject) /\ sw \in Seq(Nat) /\ table \in [Names -> Nat] /\ rst \in RestartCall
      /\ n \in Nat \ {0} /\ n \notin DOMAIN reg
  BY <1>n DEF DynamicInv, Formed
<1>6. /\ v \in AnyProject /\ v.name = l /\ v.cfg = c /\ v.sw = reg[r].sw /\ v.bind = reg[r].bind
      /\ v.entry = e /\ v.retire = "no" /\ v.drive # "none"
  <2>1. reg[r].sw \in Nat /\ reg[r].bind \in Nat /\ e \in Nat
    BY <1>1, FormedIsTyped DEF Typed
  <2> HIDE DEF c, e, l
  <2> QED
    BY <1>3, <1>4, <2>1 DEF AnyProject, Activated, NewState
<1>7. r \in Registered
  BY <1>1, <1>3, FormedIsTyped DEF Typed, Registered
<1>8. OnListener(r) /\ (Routed(r) \/ BeingRouted(r)) /\ Swapping(r)
  BY <1>0, <1>7 DEF DynamicInv, InTable, Stands, Leaves, Swapping
<1> HIDE DEF v, c, e, l
<1>9. /\ reg' \in Seq(AnyProject) /\ DOMAIN reg' = DOMAIN reg \cup {n} /\ reg'[n] = v
      /\ \A x \in DOMAIN reg : reg'[x] = reg[x]
  <2>1. Replaced(reg', reg, AnyProject, n, v)
    BY <1>n, <1>0, <1>5, <1>6, AppendEffect
  <2> QED
    BY <1>5, <2>1 DEF Replaced
<1>10. /\ sw' \in Seq(Nat) /\ DOMAIN sw' = DOMAIN sw /\ sw'[reg[r].sw] = n
       /\ \A s \in DOMAIN sw \ {reg[r].sw} : sw'[s] = sw[s]
  <2>1. Replaced(sw', sw, Nat, reg[r].sw, n)
    BY <1>0, <1>3, <1>5, ExceptEffect
  <2> QED
    BY <1>3, <2>1 DEF Replaced
<1>11. table' \in [Names -> Nat] /\ table'[l] = n /\ \A m \in Names \ {l} : table'[m] = table[m]
  BY <1>0, <1>3, <1>5
<1>12. rst' \in RestartCall /\ rst'.step = "start" /\ rst'.reg = n
  BY <1>0, <1>5 DEF RestartCall
<1>13. Registered' = (Registered \ {r}) \cup {n}
  <2>1. \A m \in Names : table[m] = r => m = l
    BY <1>1, FormedIsTyped DEF Typed, DynamicInv, Made, l
  <2>2. ASSUME NEW x \in Registered' PROVE x \in (Registered \ {r}) \cup {n}
    <3>1. PICK m \in Names : table'[m] = x /\ x # 0
      BY DEF Registered
    <3>2. m # l => table[m] = x /\ x # r
      BY <1>11, <2>1, <3>1
    <3> QED
      BY <1>11, <3>1, <3>2 DEF Registered
  <2>3. ASSUME NEW x \in Registered \ {r} PROVE x \in Registered'
    <3>1. PICK m \in Names : table[m] = x /\ x # 0 /\ x # r
      BY DEF Registered
    <3>2. m # l
      BY <1>1, <3>1 DEF l
    <3> QED
      BY <1>11, <3>1, <3>2 DEF Registered
  <2>4. n \in Registered'
    BY <1>3, <1>5, <1>11 DEF Registered
  <2> QED
    BY <2>2, <2>3, <2>4
<1>14. Up' = Up
  BY <1>0 DEF Up
<1>15. Formed'
  BY <1>0, <1>9, <1>10, <1>11, <1>12 DEF DynamicInv, Formed
<1>16. EntriesAreUp'
  BY <1>0, <1>14 DEF DynamicInv, EntriesAreUp, Bound, HostIn
<1>17. Made'
  <2>1. \A m \in Names : table'[m] # 0 => table'[m] \in DOMAIN reg' /\ reg'[table'[m]].name = m
    BY <1>6, <1>9, <1>11 DEF DynamicInv, Made
  <2>2. \A x \in DOMAIN reg' : reg'[x].sw \in DOMAIN sw'
    BY <1>3, <1>6, <1>9, <1>10 DEF DynamicInv, Made
  <2>3. \A x \in DOMAIN reg' : Dynamic(x)' =>
          /\ reg'[x].entry \in Up /\ reg'[x].name \in Labels
          /\ reg'[x].cfg.host = HostIn(reg'[x].entry, reg'[x].name)
          /\ reg'[x].cfg.sup = ent[reg'[x].entry].cfg.sup
    BY <1>3, <1>4, <1>6, <1>9 DEF DynamicInv, Made, Dynamic
  <2>4. \A x, y \in DOMAIN reg' : reg'[x].sw = reg'[y].sw =>
          reg'[x].name = reg'[y].name /\ reg'[x].entry = reg'[y].entry
    <3>1. \A x \in DOMAIN reg : reg'[x].sw = reg'[n].sw =>
            reg'[x].name = reg'[n].name /\ reg'[x].entry = reg'[n].entry
      BY <1>1, <1>6, <1>9 DEF DynamicInv, Made, e, l
    <3> QED
      BY <1>9, <3>1 DEF DynamicInv, Made
  <2> QED
    BY <1>0, <1>14, <2>1, <2>2, <2>3, <2>4 DEF Made, HostIn
<1>18. /\ \A x \in Registered \ {r} : BeingRouted(x) => BeingRouted(x)'
       /\ BeingRouted(r) => BeingRouted(n)'
  <2>1. \A q \in Requests : At(q, "route") => res[q].reg \in DOMAIN reg
    BY DEF DynamicInv, Calls, Resolved, At
  <2>2. \A q \in Requests : At(q, "route")' <=> At(q, "route")
    BY <1>0 DEF At
  <2>3. \A x \in Registered : x \in DOMAIN reg
    BY FormedIsTyped DEF Typed
  <2>4. \A q \in Requests : At(q, "route") => reg'[res'[q].reg].sw = reg[res[q].reg].sw
    BY <1>0, <1>9, <2>1
  <2> QED
    BY <1>6, <1>9, <2>2, <2>3, <2>4 DEF BeingRouted
<1>19. InTable'
  <2>1. \A x : ~Swapping(x)'
    BY <1>12 DEF Swapping
  <2>2. sw'[reg'[n].sw] = n /\ Stands(n)'
    <3>1. OnListener(n)'
      BY <1>0, <1>4, <1>6, <1>8, <1>9 DEF OnListener, e
    <3>2. Routed(n)' \/ BeingRouted(n)'
      BY <1>0, <1>4, <1>6, <1>8, <1>9, <1>18 DEF Routed
    <3> QED
      BY <1>6, <1>9, <1>10, <3>1, <3>2 DEF Stands
  <2>3. ASSUME NEW x \in Registered \ {r}
        PROVE  sw'[reg'[x].sw] = x /\ (Stands(x)' \/ Leaves(x)')
    <3>1. ~Swapping(x) /\ x \in DOMAIN reg /\ reg[x].sw # reg[r].sw /\ reg[x].sw \in DOMAIN sw
      BY <1>7, FormedIsTyped DEF Typed, Swapping, DynamicInv, Made
    <3>2. sw[reg[x].sw] = x /\ (Stands(x) \/ Leaves(x))
      BY <3>1 DEF DynamicInv, InTable
    <3>3. /\ OnListener(x)' <=> OnListener(x)
          /\ Routed(x)' <=> Routed(x)
          /\ BeingRetired(x)' <=> BeingRetired(x)
      BY <1>0, <1>9, <3>1 DEF OnListener, Routed, BeingRetired, BeingDropped, InHand
    <3> QED
      BY <1>9, <1>10, <1>18, <2>1, <3>1, <3>2, <3>3 DEF Stands, Leaves
  <2> QED
    BY <1>13, <2>1, <2>2, <2>3 DEF InTable
<1>20. OutOfTable'
  <2>1. \A x \in DOMAIN reg' : x \notin Registered' => reg'[x].retire = "done"
    BY <1>2, <1>9, <1>13 DEF DynamicInv, OutOfTable
  <2>2. \A x \in DOMAIN reg' : reg'[x].drive = "none" =>
          \E q \in Requests : At(q, "route")' /\ res'[q].reg = x
    BY <1>0, <1>6, <1>9 DEF DynamicInv, OutOfTable, At
  <2> QED
    BY <2>1, <2>2 DEF OutOfTable
<1>21. Counted'
  <2>1. ASSUME NEW b \in DOMAIN bnd PROVE Cardinality(On(b)') = Cardinality(On(b))
    <3>1. \A x \in Registered : x \in DOMAIN reg
      BY FormedIsTyped DEF Typed
    <3>2. n \notin On(b)
      BY <1>5, <3>1 DEF On
    <3>3. CASE reg[r].bind = b
      <4>1. r \in On(b)
        BY <1>7, <3>3 DEF On
      <4>2. On(b)' = (On(b) \ {r}) \cup {n}
        BY <1>6, <1>9, <1>13, <3>1, <3>3 DEF On
      <4>3. Cardinality((On(b) \ {r}) \cup {n}) = Cardinality(On(b))
        BY <3>2, <4>1, OneOn
      <4> QED
        BY <4>2, <4>3
    <3>4. CASE reg[r].bind # b
      <4>1. On(b)' = On(b)
        BY <1>6, <1>9, <1>13, <3>1, <3>4 DEF On
      <4> QED
        BY <4>1
    <3> QED
      BY <3>3, <3>4
  <2> QED
    BY <1>0, <2>1 DEF DynamicInv, Counted
<1>22. Calls'
  <2>1. ASSUME NEW q \in Requests, At(q, "route")' PROVE Resolved(q)'
    <3>1. Resolved(q)
      BY <1>0, <2>1 DEF DynamicInv, Calls, At
    <3>2. /\ res[q].reg \in DOMAIN reg /\ reg'[res[q].reg] = reg[res[q].reg]
          /\ reg[res[q].reg].entry = res[q].ent /\ reg[res[q].reg].name = res[q].label
      BY <1>9, <3>1 DEF Resolved
    <3>3. ASSUME NEW x \in Registered', reg'[x].name = res[q].label, reg'[x].entry = res[q].ent
          PROVE  reg'[x].sw = reg'[res[q].reg].sw
      <4>1. CASE x = n
        <5>1. reg[r].name = res[q].label /\ reg[r].entry = res[q].ent
          BY <1>6, <1>9, <3>3, <4>1 DEF e, l
        <5> QED
          BY <1>6, <1>7, <1>9, <3>1, <3>2, <4>1, <5>1 DEF Resolved
      <4>2. CASE x # n
        <5>1. x \in Registered /\ x \in DOMAIN reg
          BY <1>13, <3>3, <4>2, FormedIsTyped DEF Typed
        <5> QED
          BY <1>9, <3>1, <3>2, <3>3, <5>1 DEF Resolved
      <4> QED
        BY <4>1, <4>2
    <3> QED
      BY <1>0, <1>9, <3>2, <3>3 DEF Resolved
  <2> QED
    BY <1>0, <1>14, <2>1 DEF DynamicInv, Calls, At
<1>23. DropsAreDue'
  BY <1>0, <1>9 DEF DynamicInv, DropsAreDue, Dynamic
<1>24. Restarting'
  <2>1. Dynamic(n)' /\ Operated(n)'
    BY <1>0, <1>1, <1>3, <1>6, <1>9 DEF Dynamic, Operated, e, l
  <2>2. job'.by = "restart" /\ \A i \in job'.items : i.reg = r
    BY <1>0, <1>1 DEF Swap
  <2> QED
    BY <1>1, <1>2, <1>9, <1>12, <2>1, <2>2 DEF Restarting, Dynamic, Operated
<1> QED
  BY <1>15, <1>16, <1>17, <1>19, <1>20, <1>21, <1>22, <1>23, <1>24 DEF DynamicInv

\* The section of materialise under d.mu: a project nobody routes yet.
LEMMA RegistersServes ==
  ASSUME ResolverInv, DynamicInv, NEW q \in Requests, Registers(q)
  PROVE  DynamicInv'
<1> DEFINE e == res[q].ent
           l == res[q].label
<1>n. PICK n, s, b, c : n = Len(reg) + 1 /\ s = Len(sw) + 1 /\ b = ent[e].bind
                        /\ c = DynamicProject(ent[e].cfg, l, res[q].port)
  OBVIOUS
<1> DEFINE v == [NewState(l, c, e) EXCEPT !.sw = s, !.bind = b]
<1>0. /\ At(q, "register") /\ ~At(q, "away") /\ ~At(q, "route")
      /\ UNCHANGED <<job, fate, drops, rst, req>>
  BY DEF Registers, place, At
<1>1. CASE table[l] # 0
  <2>1. Goto(q, "finish") /\ UNCHANGED heap /\ res[q].step # "away"
    BY <1>0, <1>1 DEF Registers, At
  <2>2. Moves(q, "finish")
    BY <1>0, <2>1, GotoMoves DEF ResolverInv
  <2> QED
    BY <1>0, <2>1, <2>2, MovingServes
<1>2. CASE table[l] = 0
  <2>0. /\ reg' = Append(reg, v) /\ sw' = Append(sw, n) /\ table' = [table EXCEPT ![l] = n]
        /\ bnd' = [bnd EXCEPT ![b].members = @ + 1]
        /\ res' = [res EXCEPT ![q].step = "route", ![q].reg = n, ![q].out = "ok"]
        /\ UNCHANGED <<entries, bindings, ent>>
    BY <1>n, <1>2 DEF Registers
  <2>1. e \in Up /\ e # 0 /\ e \in DOMAIN ent /\ l \in Labels /\ l \in Names /\ res[q].port \in GivenPorts
    BY <1>0, WildcardAssumption DEF DynamicInv, Calls, Up, EntriesAreUp
  <2>2. c \in DynamicProjects /\ c.host = HostIn(e, l) /\ c.sup = ent[e].cfg.sup
    BY <1>n, <2>1, DynamicIsTyped
  <2>3. b \in DOMAIN bnd /\ bnd[b].open /\ bnd[b].entry = e /\ bindings[ent[e].cfg.sup] = b
    BY <1>n, <2>1 DEF DynamicInv, EntriesAreUp, Bound
  <2>4. /\ reg \in Seq(AnyProject) /\ sw \in Seq(Nat) /\ bnd \in Seq(AnyListener)
        /\ table \in [Names -> Nat] /\ n \in Nat \ {0} /\ n \notin DOMAIN reg
        /\ s \in Nat \ {0} /\ s \notin DOMAIN sw
    BY <1>n DEF DynamicInv, Formed
  <2>5. b \in Nat \ {0} /\ bnd[b] \in AnyListener /\ bnd[b].members \in Int /\ e \in Nat
    BY <2>1, <2>3, FormedIsTyped DEF Typed
  <2>6. /\ v \in AnyProject /\ v.name = l /\ v.cfg = c /\ v.sw = s /\ v.bind = b
        /\ v.entry = e /\ v.retire = "no"
    <3> HIDE DEF e, l
    <3> QED
      BY <2>1, <2>2, <2>4, <2>5 DEF AnyProject, NewState
  <2> HIDE DEF v
  <2>7. /\ reg' \in Seq(AnyProject) /\ DOMAIN reg' = DOMAIN reg \cup {n} /\ reg'[n] = v
        /\ \A x \in DOMAIN reg : reg'[x] = reg[x]
    <3>1. Replaced(reg', reg, AnyProject, n, v)
      BY <1>n, <2>0, <2>4, <2>6, AppendEffect
    <3> QED
      BY <2>4, <3>1 DEF Replaced
  <2>8. /\ sw' \in Seq(Nat) /\ DOMAIN sw' = DOMAIN sw \cup {s} /\ sw'[s] = n
        /\ \A x \in DOMAIN sw : sw'[x] = sw[x]
    <3>1. Replaced(sw', sw, Nat, s, n)
      BY <1>n, <2>0, <2>4, AppendEffect
    <3> QED
      BY <2>4, <3>1 DEF Replaced
  <2>9. table' \in [Names -> Nat] /\ table'[l] = n /\ \A m \in Names \ {l} : table'[m] = table[m]
    BY <2>0, <2>1, <2>4
  <2>10. /\ bnd' \in Seq(AnyListener) /\ DOMAIN bnd' = DOMAIN bnd
         /\ bnd'[b].members = bnd[b].members + 1
         /\ \A x \in DOMAIN bnd \ {b} : bnd'[x] = bnd[x]
         /\ \A x \in DOMAIN bnd : /\ bnd'[x].open = bnd[x].open /\ bnd'[x].entry = bnd[x].entry
                                  /\ bnd'[x].port = bnd[x].port /\ bnd'[x].routes = bnd[x].routes
    <3> DEFINE k == [bnd[b] EXCEPT !.members = bnd[b].members + 1]
    <3>1. /\ k \in AnyListener /\ k.members = bnd[b].members + 1 /\ k.open = bnd[b].open
          /\ k.entry = bnd[b].entry /\ k.port = bnd[b].port /\ k.routes = bnd[b].routes
      BY <2>5 DEF AnyListener
    <3>2. bnd' = [bnd EXCEPT ![b] = k]
      BY <2>0
    <3> HIDE DEF k
    <3>3. Replaced(bnd', bnd, AnyListener, b, k)
      BY <2>3, <2>4, <3>1, <3>2, ExceptEffect
    <3> QED
      BY <2>3, <3>1, <3>3 DEF Replaced
  <2>11. /\ res'[q].step = "route" /\ res'[q].reg = n /\ res'[q].ent = e /\ res'[q].label = l
         /\ \A p \in Requests \ {q} : res'[p] = res[p]
    <3>1. Moves(q, "route")
      BY <1>0, <2>0, CallChanges DEF ResolverInv
    <3>2. res'[q].reg = n
      BY <2>0 DEF ResolverInv, Shaped
    <3> QED
      BY <3>1, <3>2 DEF Moves
  <2>12. \A x \in Registered : x \in DOMAIN reg /\ reg[x].sw \in DOMAIN sw /\ reg[x].sw # s
    BY <2>4, FormedIsTyped DEF Typed, DynamicInv, Made
  <2>13. Registered' = Registered \cup {n}
    <3>1. ASSUME NEW x \in Registered' PROVE x \in Registered \cup {n}
      <4>1. PICK m \in Names : table'[m] = x /\ x # 0
        BY DEF Registered
      <4> QED
        BY <2>9, <4>1 DEF Registered
    <3>2. ASSUME NEW x \in Registered PROVE x \in Registered'
      <4>1. PICK m \in Names : table[m] = x /\ x # 0
        BY DEF Registered
      <4> QED
        BY <1>2, <2>9, <4>1 DEF Registered
    <3>3. n \in Registered'
      BY <2>1, <2>4, <2>9 DEF Registered
    <3> QED
      BY <3>1, <3>2, <3>3
  <2>14. Up' = Up
    BY <2>0 DEF Up
  <2>15. Formed'
    BY <1>0, <2>0, <2>7, <2>8, <2>9, <2>10 DEF DynamicInv, Formed
  <2>16. EntriesAreUp'
    <3>1. \A x \in Up : Bound(x)'
      BY <2>0, <2>10 DEF DynamicInv, EntriesAreUp, Bound
    <3> QED
      BY <2>0, <2>10, <2>14, <3>1 DEF DynamicInv, EntriesAreUp, HostIn
  <2>17. Made'
    <3>1. \A m \in Names : table'[m] # 0 => table'[m] \in DOMAIN reg' /\ reg'[table'[m]].name = m
      BY <2>6, <2>7, <2>9 DEF DynamicInv, Made
    <3>2. \A x \in DOMAIN reg' : reg'[x].sw \in DOMAIN sw'
      BY <2>6, <2>7, <2>8 DEF DynamicInv, Made
    <3>3. \A x \in DOMAIN reg' : Dynamic(x)' =>
            /\ reg'[x].entry \in Up /\ reg'[x].name \in Labels
            /\ reg'[x].cfg.host = HostIn(reg'[x].entry, reg'[x].name)
            /\ reg'[x].cfg.sup = ent[reg'[x].entry].cfg.sup
      BY <2>1, <2>2, <2>6, <2>7 DEF DynamicInv, Made, Dynamic
    <3>4. \A x, y \in DOMAIN reg' : reg'[x].sw = reg'[y].sw =>
            reg'[x].name = reg'[y].name /\ reg'[x].entry = reg'[y].entry
      <4>1. \A x \in DOMAIN reg : reg'[x].sw # reg'[n].sw
        BY <2>4, <2>6, <2>7 DEF DynamicInv, Made
      <4> QED
        BY <2>7, <4>1 DEF DynamicInv, Made
    <3> QED
      BY <2>0, <2>14, <3>1, <3>2, <3>3, <3>4 DEF Made, HostIn
  <2>18. \A p \in Requests : At(p, "route") => p # q /\ At(p, "route")' /\ res'[p] = res[p] /\ res[p].reg \in DOMAIN reg
    BY <1>0, <2>11 DEF At, DynamicInv, Calls, Resolved
  <2>19. InTable'
    <3>1. \A x : Swapping(x)' <=> Swapping(x)
      BY <1>0 DEF Swapping
    <3>2. ~Swapping(n)
      BY <2>4 DEF Swapping, DynamicInv, Restarting
    <3>3. sw'[reg'[n].sw] = n /\ Stands(n)'
      <4>1. OnListener(n)'
        BY <2>0, <2>2, <2>3, <2>6, <2>7, <2>10 DEF OnListener
      <4>2. BeingRouted(n)'
        BY <2>11 DEF BeingRouted, At
      <4> QED
        BY <2>6, <2>7, <2>8, <4>1, <4>2 DEF Stands
    <3>4. ASSUME NEW x \in Registered
          PROVE  sw'[reg'[x].sw] = (IF Swapping(x) THEN 0 ELSE x) /\ (Stands(x)' \/ Leaves(x)')
      <4>1. sw[reg[x].sw] = (IF Swapping(x) THEN 0 ELSE x) /\ (Stands(x) \/ Leaves(x))
        BY DEF DynamicInv, InTable
      <4>2. reg'[x] = reg[x] /\ sw'[reg[x].sw] = sw[reg[x].sw]
        BY <2>7, <2>8, <2>12
      <4>3. /\ OnListener(x) => OnListener(x)'
            /\ OnListener(x) /\ Routed(x) => Routed(x)'
            /\ BeingRetired(x)' <=> BeingRetired(x)
        BY <1>0, <2>0, <2>10, <4>2 DEF OnListener, Routed, BeingRetired, BeingDropped, InHand
      <4>4. BeingRouted(x) => BeingRouted(x)'
        BY <2>7, <2>18, <4>2 DEF BeingRouted
      <4> QED
        BY <3>1, <4>1, <4>2, <4>3, <4>4 DEF Stands, Leaves
    <3> QED
      BY <2>13, <3>1, <3>2, <3>3, <3>4 DEF InTable
  <2>20. OutOfTable'
    <3>1. \A x \in DOMAIN reg' : x \notin Registered' => reg'[x].retire = "done"
      BY <2>7, <2>13 DEF DynamicInv, OutOfTable
    <3>2. ASSUME NEW x \in DOMAIN reg', reg'[x].drive = "none"
          PROVE  \E p \in Requests : At(p, "route")' /\ res'[p].reg = x
      <4>1. CASE x = n
        BY <2>11, <4>1 DEF At
      <4>2. CASE x # n
        <5>1. PICK p \in Requests : At(p, "route") /\ res[p].reg = x
          BY <2>7, <3>2, <4>2 DEF DynamicInv, OutOfTable
        <5> QED
          BY <2>18, <5>1
      <4> QED
        BY <4>1, <4>2
    <3> QED
      BY <3>1, <3>2 DEF OutOfTable
  <2>21. Counted'
    <3>1. n \notin On(b)
      BY <2>4, <2>12 DEF On
    <3>2. On(b)' = On(b) \cup {n}
      BY <2>6, <2>7, <2>12, <2>13 DEF On
    <3>3. Cardinality(On(b) \cup {n}) = Cardinality(On(b)) + 1
      BY <3>1, OnIsFinite, FS_AddElement
    <3>4. \A x \in DOMAIN bnd \ {b} : On(x)' = On(x)
      BY <2>6, <2>7, <2>12, <2>13 DEF On
    <3>5. bnd'[b].members = Cardinality(On(b)')
      BY <2>3, <2>10, <3>2, <3>3 DEF DynamicInv, Counted
    <3>6. \A x \in DOMAIN bnd \ {b} : bnd'[x].members = Cardinality(On(x)')
      <4>1. \A x \in DOMAIN bnd \ {b} : bnd'[x].members = Cardinality(On(x))
        BY <2>10 DEF DynamicInv, Counted
      <4> QED
        BY <3>4, <4>1
    <3> QED
      BY <2>10, <3>5, <3>6 DEF Counted
  <2>22. Calls'
    <3>1. Resolved(q)'
      <4>1. \A x \in Registered' : reg'[x].name = l => x = n
        <5>1. \A x \in Registered : reg[x].name # l
          BY <1>2, FormedIsTyped DEF Typed
        <5> QED
          BY <2>7, <2>12, <2>13, <5>1
      <4> QED
        BY <2>6, <2>7, <2>11, <4>1 DEF Resolved
    <3>2. ASSUME NEW p \in Requests \ {q}, At(p, "route")' PROVE Resolved(p)'
      <4>1. At(p, "route") /\ res'[p] = res[p]
        BY <2>11, <3>2 DEF At
      <4>2. Resolved(p)
        BY <4>1 DEF DynamicInv, Calls, At
      <4>3. ~(res[p].ent = e /\ res[p].label = l)
        BY <1>0, <4>1 DEF ResolverInv, OneFlight, InFlight, SameFlight, Resolving, At
      <4>4. \A x \in Registered' : reg'[x].name = res[p].label /\ reg'[x].entry = res[p].ent =>
               x \in Registered /\ reg'[x] = reg[x]
        BY <2>6, <2>7, <2>12, <2>13, <4>3
      <4> QED
        BY <2>7, <4>1, <4>2, <4>4 DEF Resolved
    <3>3. \A p \in Requests \ {q} : ~At(p, "away")' =>
            /\ res'[p].ent \in Up /\ res'[p].label \in Labels
            /\ At(p, "register")' => res'[p].port \in GivenPorts
      BY <2>11 DEF DynamicInv, Calls, At
    <3>4. ~At(q, "register")' /\ res'[q].ent \in Up /\ res'[q].label \in Labels
      BY <2>1, <2>11 DEF At
    <3> QED
      BY <2>14, <3>1, <3>2, <3>3, <3>4 DEF Calls
  <2>23. DropsAreDue'
    BY <1>0, <2>7 DEF DynamicInv, DropsAreDue, Dynamic
  <2>24. Restarting'
    <3>1. rst.step = "swap" => reg[rst.reg].name # l
      BY <1>2, FormedIsTyped DEF Typed, DynamicInv, Restarting
    <3>2. rst.step = "swap" => table'[reg[rst.reg].name] = rst.reg
      BY <2>9, <3>1, FormedIsTyped DEF Typed, DynamicInv, Restarting
    <3> QED
      BY <1>0, <2>7, <3>2 DEF DynamicInv, Restarting, StoppingAll, AtStop, Dynamic, Operated
  <2> QED
    BY <2>15, <2>16, <2>17, <2>19, <2>20, <2>21, <2>22, <2>23, <2>24 DEF DynamicInv
<1> QED
  BY <1>1, <1>2

-----------------------------------------------------------------------------
(* Routes *)

\* setHost and removeHost
RouteIsSet(g, f, h, s) ==
  /\ g \in AnyRoutes /\ DOMAIN g = DOMAIN f \cup {h} /\ g[h] = s
  /\ \A x \in DOMAIN f \ {h} : g[x] = f[x]
RouteIsRemoved(g, f, h) ==
  g \in AnyRoutes /\ DOMAIN g = DOMAIN f \ {h} /\ \A x \in DOMAIN f \ {h} : g[x] = f[x]

LEMMA RouteEffect ==
  ASSUME NEW f \in AnyRoutes, NEW h \in AnyHost, NEW s \in Nat
  PROVE  /\ RouteIsSet(SetHost(f, h, s), f, h, s)
         /\ RouteIsRemoved(RemoveHost(f, h), f, h)
<1>1. PICK D \in SUBSET AnyHost : f \in [D -> Nat]
  BY DEF AnyRoutes
<1>2. SetHost(f, h, s) \in [D \cup {h} -> Nat]
  BY <1>1 DEF SetHost
<1>3. RemoveHost(f, h) \in [D \ {h} -> Nat]
  BY <1>1 DEF RemoveHost
<1> QED
  BY <1>1, <1>2, <1>3 DEF AnyRoutes, SetHost, RemoveHost, RouteIsSet, RouteIsRemoved

\* On the listener of an entry a host belongs to one name.
LEMMA HostsApart ==
  ASSUME DynamicInv, NEW r \in DOMAIN reg, Dynamic(r), NEW x \in Registered, OnListener(x),
         reg[x].bind = ent[reg[r].entry].bind
  PROVE  /\ reg[x].entry = reg[r].entry
         /\ reg[x].cfg.host = reg[r].cfg.host => reg[x].name = reg[r].name
<1>1. x \in DOMAIN reg /\ reg[r].entry \in Up
  BY FormedIsTyped DEF Typed, DynamicInv, Made
<1>2. bnd[reg[x].bind].entry = reg[r].entry
  BY <1>1 DEF DynamicInv, EntriesAreUp, Bound
<1>3. reg[x].entry = reg[r].entry
  BY <1>2 DEF OnListener
<1>4. Dynamic(x)
  BY <1>3 DEF Dynamic
<1> QED
  BY <1>1, <1>3, <1>4 DEF DynamicInv, Made, HostIn, HostOf

\* A project with an entry is on the listener of that entry.
LEMMA OnEntry ==
  ASSUME DynamicInv, NEW x \in DOMAIN reg, Dynamic(x), OnListener(x)
  PROVE  reg[x].bind = ent[reg[x].entry].bind
  BY DEF DynamicInv, EntriesAreUp, OnListener, Dynamic

LEMMA RoutesServes ==
  ASSUME ResolverInv, DynamicInv, NEW q \in Requests, Routes(q)
  PROVE  DynamicInv'
<1>n. PICK r, b, h, s : r = res[q].reg /\ b = ent[res[q].ent].bind /\ h = reg[r].cfg.host
                        /\ s = reg[r].sw
  OBVIOUS
<1>0. /\ At(q, "route") /\ ~At(q, "away") /\ res[q].step # "away"
      /\ bnd' = [bnd EXCEPT ![b].routes = SetHost(@, h, s)]
      /\ reg' = [reg EXCEPT ![r] = Activated(@)]
      /\ Goto(q, "finish") /\ UNCHANGED <<table, entries, bindings, sw, ent, req>>
      /\ UNCHANGED <<job, fate, drops, rst>>
  BY <1>n DEF Routes, place, At
<1>1. Resolved(q) /\ res[q].ent \in Up /\ res[q].label \in Labels
  BY <1>0 DEF DynamicInv, Calls
<1>2. r \in DOMAIN reg /\ reg[r].entry = res[q].ent /\ reg[r].name = res[q].label /\ Dynamic(r)
  BY <1>n, <1>1 DEF Resolved, Dynamic, Up
<1>3. /\ b \in DOMAIN bnd /\ bnd[b].entry = reg[r].entry /\ b = ent[reg[r].entry].bind
      /\ h = HostIn(reg[r].entry, reg[r].name)
  BY <1>n, <1>1, <1>2 DEF DynamicInv, EntriesAreUp, Bound, Made
<1>4. /\ reg \in Seq(AnyProject) /\ bnd \in Seq(AnyListener) /\ reg[r] \in AnyProject /\ s \in Nat
      /\ bnd[b] \in AnyListener /\ bnd[b].routes \in AnyRoutes
  BY <1>n, <1>2, <1>3, FormedIsTyped DEF Typed, DynamicInv, Formed
<1>5. h \in AnyHost
  <2>1. ent[reg[r].entry] \in Entry
    BY <1>1, <1>2, FormedIsTyped DEF Typed, DynamicInv, EntriesAreUp
  <2> QED
    BY <1>1, <1>2, <1>3, <2>1 DEF AnyHost, HostIn
<1>6. /\ bnd' \in Seq(AnyListener) /\ DOMAIN bnd' = DOMAIN bnd
      /\ \A x \in DOMAIN bnd \ {b} : bnd'[x] = bnd[x]
      /\ \A x \in DOMAIN bnd : /\ bnd'[x].open = bnd[x].open /\ bnd'[x].entry = bnd[x].entry
                               /\ bnd'[x].port = bnd[x].port /\ bnd'[x].members = bnd[x].members
      /\ DOMAIN bnd'[b].routes = DOMAIN bnd[b].routes \cup {h} /\ bnd'[b].routes[h] = s
      /\ \A x \in DOMAIN bnd[b].routes \ {h} : bnd'[b].routes[x] = bnd[b].routes[x]
  <2>0. PICK g : g = SetHost(bnd[b].routes, h, s)
    OBVIOUS
  <2> DEFINE k == [bnd[b] EXCEPT !.routes = g]
  <2>1. RouteIsSet(g, bnd[b].routes, h, s)
    BY <1>4, <1>5, <2>0, RouteEffect
  <2>2. /\ k \in AnyListener /\ k.routes = g /\ k.open = bnd[b].open
        /\ k.entry = bnd[b].entry /\ k.port = bnd[b].port /\ k.members = bnd[b].members
    BY <1>4, <2>1 DEF AnyListener, RouteIsSet
  <2>3. bnd' = [bnd EXCEPT ![b] = k]
    BY <1>0, <2>0
  <2> HIDE DEF k
  <2>4. Replaced(bnd', bnd, AnyListener, b, k)
    BY <1>3, <1>4, <2>2, <2>3, ExceptEffect
  <2> QED
    BY <1>3, <2>1, <2>2, <2>4 DEF Replaced, RouteIsSet
<1>7. /\ reg' \in Seq(AnyProject) /\ DOMAIN reg' = DOMAIN reg /\ reg'[r].drive # "none"
      /\ \A x \in DOMAIN reg \ {r} : reg'[x] = reg[x]
      /\ \A x \in DOMAIN reg :
           /\ reg'[x].name = reg[x].name /\ reg'[x].cfg = reg[x].cfg /\ reg'[x].sw = reg[x].sw
           /\ reg'[x].bind = reg[x].bind /\ reg'[x].entry = reg[x].entry
           /\ reg'[x].retire = reg[x].retire
  <2> DEFINE v == Activated(reg[r])
  <2>1. /\ v \in AnyProject /\ v.drive # "none" /\ v.name = reg[r].name /\ v.cfg = reg[r].cfg
        /\ v.sw = reg[r].sw /\ v.bind = reg[r].bind /\ v.entry = reg[r].entry
        /\ v.retire = reg[r].retire
    BY <1>4 DEF Activated, AnyProject
  <2>2. reg' = [reg EXCEPT ![r] = v]
    BY <1>0
  <2> HIDE DEF v
  <2>3. Replaced(reg', reg, AnyProject, r, v)
    BY <1>2, <1>4, <2>1, <2>2, ExceptEffect
  <2> QED
    BY <1>2, <2>1, <2>3 DEF Replaced
<1>8. res'[q].step = "finish" /\ res'[q].ent = res[q].ent /\ res'[q].label = res[q].label
      /\ \A p \in Requests \ {q} : res'[p] = res[p]
  BY <1>0, GotoMoves DEF ResolverInv, Moves
<1>9. Up' = Up /\ Registered' = Registered
  BY <1>0 DEF Up, Registered
<1>10. \A x \in Registered : x \in DOMAIN reg
  BY FormedIsTyped DEF Typed
<1>11. Formed'
  BY <1>0, <1>6, <1>7 DEF DynamicInv, Formed
<1>12. EntriesAreUp'
  <2>1. \A x \in Up : Bound(x)'
    BY <1>0, <1>6 DEF DynamicInv, EntriesAreUp, Bound
  <2>2. \A x \in DOMAIN bnd : bnd[x].entry # 0 =>
          \A y \in DOMAIN bnd'[x].routes : \E l \in Labels : y = HostIn(bnd[x].entry, l)
    BY <1>1, <1>2, <1>3, <1>6 DEF DynamicInv, EntriesAreUp
  <2> QED
    BY <1>0, <1>6, <1>9, <2>1, <2>2 DEF DynamicInv, EntriesAreUp, HostIn
<1>13. Made'
  BY <1>0, <1>7, <1>9 DEF DynamicInv, Made, Dynamic, HostIn
<1>14. InTable'
  <2> SUFFICES ASSUME NEW x \in Registered
               PROVE  sw'[reg'[x].sw] = (IF Swapping(x)' THEN 0 ELSE x) /\ (Stands(x)' \/ Leaves(x)')
    BY <1>9 DEF InTable
  <2>1. sw[reg[x].sw] = (IF Swapping(x) THEN 0 ELSE x) /\ (Stands(x) \/ Leaves(x))
    BY DEF DynamicInv, InTable
  <2>2. /\ Swapping(x)' <=> Swapping(x)
        /\ BeingRetired(x)' <=> BeingRetired(x)
    BY <1>0 DEF Swapping, BeingRetired, BeingDropped, InHand
  <2>3. OnListener(x) => OnListener(x)'
    BY <1>0, <1>6, <1>7, <1>10 DEF OnListener
  <2>4. ASSUME OnListener(x), Routed(x) PROVE Routed(x)'
    <3>1. CASE reg[x].bind = b /\ reg[x].cfg.host = h
      <4>1. reg[x].entry = reg[r].entry /\ reg[x].name = reg[r].name
        BY <1>n, <1>2, <1>3, <2>4, <3>1, HostsApart
      <4>2. reg[x].sw = s
        BY <1>n, <1>1, <1>2, <4>1 DEF Resolved
      <4> QED
        BY <1>6, <1>7, <1>10, <3>1, <4>2 DEF Routed
    <3>2. CASE reg[x].bind # b
      BY <1>6, <1>7, <1>10, <2>4, <3>2 DEF Routed, OnListener
    <3>3. CASE reg[x].bind = b /\ reg[x].cfg.host # h
      BY <1>6, <1>7, <1>10, <2>4, <3>3 DEF Routed
    <3> QED
      BY <3>1, <3>2, <3>3
  <2>5. ASSUME OnListener(x), BeingRouted(x) PROVE Routed(x)' \/ BeingRouted(x)'
    <3>1. PICK p \in Requests : At(p, "route") /\ reg[res[p].reg].sw = reg[x].sw
      BY <2>5 DEF BeingRouted
    <3>2. res[p].reg \in DOMAIN reg
      BY <3>1 DEF DynamicInv, Calls, Resolved, At
    <3>3. CASE p = q
      <4>1. reg[x].sw = s /\ reg[x].name = reg[r].name /\ reg[x].entry = reg[r].entry
        BY <1>n, <1>2, <1>10, <3>1, <3>3 DEF DynamicInv, Made
      <4>2. Dynamic(x) /\ reg[x].cfg.host = h
        BY <1>2, <1>3, <1>10, <4>1 DEF Dynamic, DynamicInv, Made
      <4>3. reg[x].bind = b
        BY <1>3, <1>10, <2>5, <4>1, <4>2, OnEntry
      <4> QED
        BY <1>6, <1>7, <1>10, <4>1, <4>2, <4>3 DEF Routed
    <3>4. CASE p # q
      BY <1>7, <1>8, <1>10, <3>1, <3>2, <3>4 DEF BeingRouted, At
    <3> QED
      BY <3>3, <3>4
  <2> QED
    BY <1>0, <1>7, <1>10, <2>1, <2>2, <2>3, <2>4, <2>5 DEF Stands, Leaves
<1>15. OutOfTable'
  <2>1. \A x \in DOMAIN reg : x \notin Registered => reg'[x].retire = "done"
    BY <1>7 DEF DynamicInv, OutOfTable
  <2>2. ASSUME NEW x \in DOMAIN reg, reg'[x].drive = "none"
        PROVE  \E p \in Requests : At(p, "route")' /\ res'[p].reg = x
    <3>1. x # r /\ reg[x].drive = "none"
      BY <1>7, <2>2
    <3>2. PICK p \in Requests : At(p, "route") /\ res[p].reg = x
      BY <3>1 DEF DynamicInv, OutOfTable
    <3> QED
      BY <1>n, <1>8, <3>1, <3>2 DEF At
  <2> QED
    BY <1>7, <1>9, <2>1, <2>2 DEF OutOfTable
<1>16. Counted'
  <2>1. \A x : On(x)' = On(x)
    BY <1>7, <1>9, <1>10 DEF On
  <2> QED
    BY <1>6, <2>1 DEF DynamicInv, Counted
<1>17. Calls'
  <2>1. ASSUME NEW p \in Requests, At(p, "route")' PROVE Resolved(p)'
    <3>1. At(p, "route") /\ res'[p] = res[p]
      BY <1>8, <2>1 DEF At
    <3>2. Resolved(p)
      BY <3>1 DEF DynamicInv, Calls, At
    <3> QED
      BY <1>7, <1>9, <1>10, <3>1, <3>2 DEF Resolved
  <2>2. \A p \in Requests \ {q} : ~At(p, "away")' =>
          /\ res'[p].ent \in Up /\ res'[p].label \in Labels
          /\ At(p, "register")' => res'[p].port \in GivenPorts
    BY <1>8 DEF DynamicInv, Calls, At
  <2>3. ~At(q, "register")' /\ res'[q].ent \in Up /\ res'[q].label \in Labels
    BY <1>1, <1>8 DEF At
  <2> QED
    BY <1>9, <2>1, <2>2, <2>3 DEF Calls
<1>18. DropsAreDue' /\ Restarting'
  <2>1. DropsAreDue'
    BY <1>0, <1>7 DEF DynamicInv, DropsAreDue, Dynamic
  <2>2. Restarting'
    BY <1>0, <1>7 DEF DynamicInv, Restarting, StoppingAll, AtStop, Dynamic, Operated
  <2> QED
    BY <2>1, <2>2
<1> QED
  BY <1>11, <1>12, <1>13, <1>14, <1>15, <1>16, <1>17, <1>18 DEF DynamicInv

\* What is being routed belongs to an entry.
LEMMA RoutingIsDynamic ==
  ASSUME DynamicInv, NEW r \in DOMAIN reg, BeingRouted(r)
  PROVE  Dynamic(r)
<1>1. PICK q \in Requests : At(q, "route") /\ reg[res[q].reg].sw = reg[r].sw
  BY DEF BeingRouted
<1>2. res[q].reg \in DOMAIN reg /\ reg[res[q].reg].entry = res[q].ent /\ res[q].ent \in Up
  BY <1>1 DEF DynamicInv, Calls, Resolved, At
<1>3. reg[r].entry = res[q].ent
  BY <1>1, <1>2 DEF DynamicInv, Made
<1> QED
  BY <1>2, <1>3 DEF Dynamic, Up

\* Projects are served on ports.
LEMMA SupIsPort ==
  ASSUME DynamicInv, NEW r \in DOMAIN reg
  PROVE  reg[r].cfg.sup \in Ports
<1>1. reg[r].cfg \in Projects \cup DynamicProjects
  BY FormedIsTyped DEF Typed, AnyProject
<1>2. \A y \in Projects : y.sup \in Ports
  BY ProjectsAreTyped
<1>3. ASSUME NEW y \in DynamicProjects PROVE y.sup \in Ports
  <2>1. PICK c \in Entry, l \in Labels, p \in GivenPorts : y = DynamicProject(c.cfg, l, p)
    BY DEF DynamicProjects
  <2>2. y.sup = c.cfg.sup
    BY <2>1 DEF DynamicProject
  <2>3. PICK f \in Files \cup {Boot} : c.cfg \in Wildcards(f)
    BY DEF Entry
  <2> QED
    BY <2>2, <2>3, EntriesAreTyped
<1> QED
  BY <1>1, <1>2, <1>3

\* What retire does when it takes project r, of host h, off its listener b,
\* which it closes if c
OffListener(r, b, h, c) ==
  /\ b = reg[r].bind /\ h = reg[r].cfg.host /\ c = (bnd[b].members - 1 <= 0 /\ bnd[b].entry = 0)
  /\ b \in DOMAIN bnd /\ bnd[b].entry = reg[r].entry /\ b # 0 /\ bnd[b].open
  /\ bnd' \in Seq(AnyListener) /\ DOMAIN bnd' = DOMAIN bnd
  /\ \A x \in DOMAIN bnd \ {b} : bnd'[x] = bnd[x]
  /\ \A x \in DOMAIN bnd : bnd'[x].entry = bnd[x].entry /\ bnd'[x].port = bnd[x].port
  /\ ~c <=> bnd'[b].open
  /\ bnd'[b].members = bnd[b].members - 1
  /\ DOMAIN bnd'[b].routes = DOMAIN bnd[b].routes \ {h}
  /\ \A x \in DOMAIN bnd[b].routes \ {h} : bnd'[b].routes[x] = bnd[b].routes[x]
  /\ bindings' \in [Ports -> Nat] /\ sw' = sw
  /\ \A p \in Ports : bindings'[p] = IF c /\ bindings[p] = b THEN 0 ELSE bindings[p]
  /\ reg' \in Seq(AnyProject) /\ DOMAIN reg' = DOMAIN reg /\ reg'[r].bind = 0
  /\ reg'[r].drive = (IF reg[r].drive = "starter" THEN "cancelled" ELSE "ended")
  /\ reg'[r].retire = "off" /\ reg'[r].proc = reg[r].proc
  /\ \A x \in DOMAIN reg \ {r} : reg'[x] = reg[x]
  /\ \A x \in DOMAIN reg :
       /\ reg'[x].name = reg[x].name /\ reg'[x].cfg = reg[x].cfg /\ reg'[x].sw = reg[x].sw
       /\ reg'[x].entry = reg[x].entry

LEMMA OffEffect ==
  ASSUME DynamicInv, NEW r \in DOMAIN reg, ~Swapping(r), TakeOff(r, FALSE)
  PROVE  /\ \E b, h, c : OffListener(r, b, h, c)
         /\ r \in Registered /\ OnListener(r) /\ (Routed(r) \/ BeingRouted(r))
<1>n. PICK b, h, c : /\ b = reg[r].bind /\ h = reg[r].cfg.host
                     /\ c = (bnd[b].members - 1 <= 0 /\ bnd[b].entry = 0)
  OBVIOUS
<1>0. /\ reg[r].retire = "no" /\ Detach(r, FALSE)
      /\ reg' = [reg EXCEPT ![r] =
                   [reg[r] EXCEPT !.retire = "off", !.bind = 0,
                                  !.drive = IF @ = "starter" THEN "cancelled" ELSE "ended"]]
      /\ UNCHANGED <<table, entries, ent>>
  BY DEF TakeOff
<1>2. r \in Registered
  BY <1>0 DEF DynamicInv, OutOfTable
<1>4. OnListener(r) /\ (Routed(r) \/ BeingRouted(r))
  BY <1>0, <1>2 DEF DynamicInv, InTable, Stands, Leaves
<1>5. b \in DOMAIN bnd /\ bnd[b].entry = reg[r].entry /\ b # 0 /\ bnd[b].open
  BY <1>n, <1>4, FormedIsTyped DEF OnListener, Typed
<1>6. /\ reg \in Seq(AnyProject) /\ bnd \in Seq(AnyListener) /\ reg[r] \in AnyProject
      /\ bnd[b] \in AnyListener /\ bnd[b].routes \in AnyRoutes /\ bnd[b].members \in Int
      /\ bindings \in [Ports -> Nat]
  BY <1>5, FormedIsTyped DEF Typed, DynamicInv, Formed
<1>7. h \in AnyHost
  <2>1. reg[r].cfg \in Projects \cup DynamicProjects
    BY <1>6 DEF AnyProject
  <2>2. \A y \in Projects : y.host \in AnyHost
    BY DEF Hosts, AnyHost
  <2>3. \A y \in DynamicProjects : y.host \in AnyHost
    BY DEF DynamicProjects, DynamicProject, AnyHost
  <2> QED
    BY <1>n, <2>1, <2>2, <2>3
<1>8. /\ bnd' \in Seq(AnyListener) /\ DOMAIN bnd' = DOMAIN bnd
      /\ \A x \in DOMAIN bnd \ {b} : bnd'[x] = bnd[x]
      /\ \A x \in DOMAIN bnd : bnd'[x].entry = bnd[x].entry /\ bnd'[x].port = bnd[x].port
      /\ ~c <=> bnd'[b].open
      /\ bnd'[b].members = bnd[b].members - 1
      /\ DOMAIN bnd'[b].routes = DOMAIN bnd[b].routes \ {h}
      /\ \A x \in DOMAIN bnd[b].routes \ {h} : bnd'[b].routes[x] = bnd[b].routes[x]
      /\ bindings' \in [Ports -> Nat] /\ sw' = sw
      /\ \A p \in Ports : bindings'[p] = IF c /\ bindings[p] = b THEN 0 ELSE bindings[p]
  <2>0. PICK g, m, left : /\ g = RemoveHost(bnd[b].routes, h) /\ m = bnd[b].members - 1
                          /\ left = [bnd[b] EXCEPT !.members = m, !.routes = g]
    OBVIOUS
  <2>1. RouteIsRemoved(g, bnd[b].routes, h)
    BY <1>6, <1>7, <2>0, RouteEffect
  <2>2. /\ left \in AnyListener /\ left.routes = g /\ left.members = bnd[b].members - 1
        /\ left.open = bnd[b].open /\ left.entry = bnd[b].entry /\ left.port = bnd[b].port
    <3>1. m \in Int /\ g \in AnyRoutes
      BY <1>6, <2>0, <2>1 DEF RouteIsRemoved
    <3>2. /\ left \in AnyListener /\ left.routes = g /\ left.members = m
          /\ left.open = bnd[b].open /\ left.entry = bnd[b].entry /\ left.port = bnd[b].port
      BY <1>6, <2>0, <3>1 DEF AnyListener
    <3> QED
      BY <2>0, <3>2
  <2>3. Release(b, left)
    BY <1>n, <1>0, <1>5, <2>0 DEF Detach
  <2>4. PICK u : /\ u = [left EXCEPT !.open = @ /\ ~(left.members <= 0 /\ left.entry = 0)]
                 /\ bnd' = [bnd EXCEPT ![b] = u]
    BY <2>3 DEF Release
  <2>5. /\ u \in AnyListener /\ u.routes = g /\ u.members = bnd[b].members - 1
        /\ u.entry = bnd[b].entry /\ u.port = bnd[b].port
        /\ u.open = (left.open /\ ~(left.members <= 0 /\ left.entry = 0))
    <3>1. (left.open /\ ~(left.members <= 0 /\ left.entry = 0)) \in BOOLEAN
      BY <2>2 DEF AnyListener
    <3>2. /\ u \in AnyListener /\ u.routes = left.routes /\ u.members = left.members
          /\ u.entry = left.entry /\ u.port = left.port
          /\ u.open = (left.open /\ ~(left.members <= 0 /\ left.entry = 0))
      BY <2>2, <2>4, <3>1 DEF AnyListener
    <3> QED
      BY <2>2, <3>2
  <2>6. ~c <=> u.open
    BY <1>n, <1>5, <2>2, <2>5
  <2>7. Replaced(bnd', bnd, AnyListener, b, u)
    BY <1>5, <1>6, <2>4, <2>5, ExceptEffect
  <2>8. /\ bindings' = [p \in Ports |-> IF c /\ bindings[p] = b THEN 0 ELSE bindings[p]]
        /\ sw' = sw
    BY <1>n, <2>2, <2>3 DEF Release
  <2>9. /\ bindings' \in [Ports -> Nat]
        /\ \A p \in Ports : bindings'[p] = IF c /\ bindings[p] = b THEN 0 ELSE bindings[p]
    BY <1>6, <2>8
  <2> QED
    BY <1>5, <2>1, <2>5, <2>6, <2>7, <2>8, <2>9 DEF Replaced, RouteIsRemoved
<1>9. /\ reg' \in Seq(AnyProject) /\ DOMAIN reg' = DOMAIN reg /\ reg'[r].bind = 0
      /\ reg'[r].drive = (IF reg[r].drive = "starter" THEN "cancelled" ELSE "ended")
      /\ reg'[r].retire = "off" /\ reg'[r].proc = reg[r].proc
      /\ \A x \in DOMAIN reg \ {r} : reg'[x] = reg[x]
      /\ \A x \in DOMAIN reg :
           /\ reg'[x].name = reg[x].name /\ reg'[x].cfg = reg[x].cfg /\ reg'[x].sw = reg[x].sw
           /\ reg'[x].entry = reg[x].entry
  <2> DEFINE v == [reg[r] EXCEPT !.retire = "off", !.bind = 0,
                                 !.drive = IF @ = "starter" THEN "cancelled" ELSE "ended"]
  <2>1. /\ v \in AnyProject /\ v.name = reg[r].name /\ v.cfg = reg[r].cfg
        /\ v.sw = reg[r].sw /\ v.bind = 0 /\ v.entry = reg[r].entry /\ v.retire = "off"
        /\ v.drive = (IF reg[r].drive = "starter" THEN "cancelled" ELSE "ended")
        /\ v.proc = reg[r].proc
    BY <1>6 DEF AnyProject
  <2>2. reg' = [reg EXCEPT ![r] = v]
    BY <1>0
  <2> HIDE DEF v
  <2>3. Replaced(reg', reg, AnyProject, r, v)
    BY <1>6, <2>1, <2>2, ExceptEffect
  <2> QED
    BY <2>1, <2>3 DEF Replaced
<1>10. OffListener(r, b, h, c)
  BY <1>n, <1>5, <1>8, <1>9 DEF OffListener
<1> QED
  BY <1>2, <1>4, <1>10

\* The listener stays for the projects left on it or for its entry.
LEMMA OffServes ==
  ASSUME DynamicInv, NEW r \in DOMAIN reg, ~Swapping(r), BeingRetired(r), TakeOff(r, FALSE),
         UNCHANGED <<job, res, fate, drops, rst>>
  PROVE  DynamicInv'
<1>1. PICK b, h, c : OffListener(r, b, h, c)
  BY OffEffect
<1>n. /\ b = reg[r].bind /\ h = reg[r].cfg.host
      /\ c = (bnd[b].members - 1 <= 0 /\ bnd[b].entry = 0)
  BY <1>1 DEF OffListener
<1>0. /\ reg[r].retire = "no"
      /\ UNCHANGED <<table, entries, ent>> /\ UNCHANGED <<job, res, fate, drops, rst>>
  BY DEF TakeOff
<1>2. r \in Registered
  BY OffEffect
<1>3. \A x : Swapping(x) => x # r
  OBVIOUS
<1>4. OnListener(r) /\ (Routed(r) \/ BeingRouted(r))
  BY OffEffect
<1>5. b \in DOMAIN bnd /\ bnd[b].entry = reg[r].entry /\ b # 0 /\ bnd[b].open
  BY <1>1 DEF OffListener
<1>6. bindings \in [Ports -> Nat]
  BY DEF DynamicInv, Formed
<1>8. /\ bnd' \in Seq(AnyListener) /\ DOMAIN bnd' = DOMAIN bnd
      /\ \A x \in DOMAIN bnd \ {b} : bnd'[x] = bnd[x]
      /\ \A x \in DOMAIN bnd : bnd'[x].entry = bnd[x].entry /\ bnd'[x].port = bnd[x].port
      /\ ~c => bnd'[b].open
      /\ bnd'[b].members = bnd[b].members - 1
      /\ DOMAIN bnd'[b].routes = DOMAIN bnd[b].routes \ {h}
      /\ \A x \in DOMAIN bnd[b].routes \ {h} : bnd'[b].routes[x] = bnd[b].routes[x]
      /\ bindings' \in [Ports -> Nat] /\ sw' = sw
      /\ \A p \in Ports : bindings'[p] = IF c /\ bindings[p] = b THEN 0 ELSE bindings[p]
  BY <1>1 DEF OffListener
<1>9. /\ reg' \in Seq(AnyProject) /\ DOMAIN reg' = DOMAIN reg /\ reg'[r].drive # "none"
      /\ reg'[r].retire = "off" /\ reg'[r].bind = 0
      /\ \A x \in DOMAIN reg \ {r} : reg'[x] = reg[x]
      /\ \A x \in DOMAIN reg :
           /\ reg'[x].name = reg[x].name /\ reg'[x].cfg = reg[x].cfg /\ reg'[x].sw = reg[x].sw
           /\ reg'[x].entry = reg[x].entry
  BY <1>1 DEF OffListener
<1>10. \A x \in Registered : x \in DOMAIN reg
  BY FormedIsTyped DEF Typed
<1>19. ASSUME c, NEW x \in On(b) PROVE x = r
  <2>1. r \in On(b) /\ IsFiniteSet(On(b))
    BY <1>n, <1>2, OnIsFinite DEF On
  <2>2. bnd[b].members = Cardinality(On(b)) /\ Cardinality(On(b)) \in Nat
    BY <1>5, OnIsFinite DEF DynamicInv, Counted
  <2>3. Cardinality(On(b) \ {r}) = Cardinality(On(b)) - 1 /\ IsFiniteSet(On(b) \ {r})
    BY <2>1, FS_RemoveElement
  <2>4. Cardinality(On(b) \ {r}) <= 0 /\ Cardinality(On(b) \ {r}) \in Nat
    BY <1>n, <1>19, <2>2, <2>3, FS_CardinalityType
  <2>5. On(b) \ {r} = {}
    BY <2>3, <2>4, FS_EmptySet
  <2> QED
    BY <2>5
<1>11. Up' = Up /\ Registered' = Registered
  BY <1>0 DEF Up, Registered
<1>12. Formed'
  BY <1>0, <1>8, <1>9 DEF DynamicInv, Formed
<1>13. EntriesAreUp'
  <2>1. ASSUME NEW x \in Up PROVE Bound(x)' /\ bindings'[ent[x].cfg.sup] = ent[x].bind
    <3>1. /\ x \in DOMAIN ent /\ ent[x].bind \in DOMAIN bnd /\ bnd[ent[x].bind].open
          /\ bnd[ent[x].bind].entry = x /\ bnd[ent[x].bind].port = ent[x].cfg.sup
          /\ bindings[ent[x].cfg.sup] = ent[x].bind
      BY DEF DynamicInv, EntriesAreUp, Bound
    <3>2. x # 0 /\ bnd[ent[x].bind].port \in Ports
      <4>1. bnd[ent[x].bind] \in AnyListener
        BY <3>1, FormedIsTyped DEF Typed
      <4> QED
        BY <4>1 DEF Up, AnyListener
    <3>3. c => ent[x].bind # b
      BY <1>n, <3>1, <3>2
    <3>4. bnd'[ent[x].bind].open
      BY <1>5, <1>8, <3>1, <3>3
    <3> QED
      BY <1>0, <1>8, <3>1, <3>2, <3>3, <3>4 DEF Bound
  <2>2. \A x \in DOMAIN bnd : bnd[x].entry # 0 =>
          \A y \in DOMAIN bnd'[x].routes : \E l \in Labels : y = HostIn(bnd[x].entry, l)
    BY <1>8 DEF DynamicInv, EntriesAreUp
  <2>3. \A x \in DOMAIN bnd : bnd[x].entry # 0 => bnd[x].entry \in Up /\ ent[bnd[x].entry].bind = x
    BY DEF DynamicInv, EntriesAreUp
  <2>4. \A x \in Up : x \in DOMAIN ent
    BY DEF DynamicInv, EntriesAreUp
  <2>5. ent' = ent /\ \A x, l : HostIn(x, l)' = HostIn(x, l)
    BY <1>0 DEF HostIn
  <2>6. \A x \in Up' : x \in DOMAIN ent' /\ Bound(x)' /\ bindings'[ent'[x].cfg.sup] = ent'[x].bind
    BY <1>11, <2>1, <2>4, <2>5
  <2>7. \A x \in DOMAIN bnd' : bnd'[x].entry # 0 =>
          /\ bnd'[x].entry \in Up' /\ ent'[bnd'[x].entry].bind = x
          /\ \A y \in DOMAIN bnd'[x].routes : \E l \in Labels : y = HostIn(bnd[x].entry, l)'
    BY <1>8, <1>11, <2>2, <2>3, <2>5 DEF HostIn
  <2> QED
    BY <2>6, <2>7 DEF EntriesAreUp
<1>14. Made'
  <2>1. /\ table' = table /\ ent' = ent /\ sw' = sw /\ DOMAIN reg' = DOMAIN reg /\ Up' = Up
        /\ \A x \in DOMAIN reg :
             /\ reg'[x].name = reg[x].name /\ reg'[x].cfg = reg[x].cfg /\ reg'[x].sw = reg[x].sw
             /\ reg'[x].entry = reg[x].entry
    BY <1>0, <1>8, <1>9, <1>11
  <2> QED
    BY <2>1 DEF DynamicInv, Made, Dynamic, HostIn
<1>15. InTable'
  <2>0. \A x : (Swapping(x)' <=> Swapping(x)) /\ (BeingRetired(x)' <=> BeingRetired(x))
    BY <1>0 DEF Swapping, BeingRetired, BeingDropped, InHand
  <2>1. sw'[reg'[r].sw] = r /\ Leaves(r)' /\ ~Swapping(r)
    BY <1>2, <1>3, <1>8, <1>9, <2>0 DEF Leaves, DynamicInv, InTable
  <2>2. ASSUME NEW x \in Registered \ {r}
        PROVE  sw'[reg'[x].sw] = (IF Swapping(x) THEN 0 ELSE x) /\ (Stands(x)' \/ Leaves(x)')
    <3>1. reg'[x] = reg[x] /\ sw' = sw
      BY <1>8, <1>9, <1>10
    <3>2. sw[reg[x].sw] = (IF Swapping(x) THEN 0 ELSE x) /\ (Stands(x) \/ Leaves(x))
      BY DEF DynamicInv, InTable
    <3>3. OnListener(x) => OnListener(x)'
      <4> SUFFICES ASSUME OnListener(x) PROVE OnListener(x)'
        OBVIOUS
      <4>1. c => reg[x].bind # b
        BY <1>10, <1>19 DEF On
      <4>2. reg[x].cfg.sup \in Ports
        BY <1>10, SupIsPort
      <4> QED
        BY <1>5, <1>8, <3>1, <4>1, <4>2 DEF OnListener
    <3>4. ASSUME OnListener(x), Routed(x) PROVE Routed(x)'
      <4>1. ~(reg[x].bind = b /\ reg[x].cfg.host = h)
        <5>1. ASSUME reg[x].bind = b, reg[x].cfg.host = h PROVE FALSE
          <6>1. CASE Routed(r)
            BY <1>n, <1>2, <3>4, <5>1, <6>1, FormedIsTyped DEF Routed, Typed
          <6>2. CASE BeingRouted(r)
            <7>1. Dynamic(r)
              BY <6>2, RoutingIsDynamic
            <7>2. reg[x].name = reg[r].name
              BY <1>n, <1>4, <3>4, <5>1, <7>1, OnEntry, HostsApart
            <7> QED
              BY <1>2, <7>2, FormedIsTyped DEF Typed
          <6> QED
            BY <1>4, <6>1, <6>2
        <5> QED
          BY <5>1
      <4> QED
        BY <1>8, <3>1, <3>4, <4>1 DEF Routed, OnListener
    <3>5. BeingRouted(x) => BeingRouted(x)'
      <4>1. \A q \in Requests : At(q, "route") => res[q].reg \in DOMAIN reg
        BY DEF DynamicInv, Calls, Resolved, At
      <4> QED
        BY <1>0, <1>9, <1>10, <4>1 DEF BeingRouted, At
    <3> QED
      BY <2>0, <3>1, <3>2, <3>3, <3>4, <3>5 DEF Stands, Leaves
  <2> QED
    BY <1>11, <2>0, <2>1, <2>2 DEF InTable
<1>16. OutOfTable'
  <2>1. \A x \in DOMAIN reg : x \notin Registered => reg'[x].retire = "done"
    BY <1>2, <1>9 DEF DynamicInv, OutOfTable
  <2>2. ASSUME NEW x \in DOMAIN reg, reg'[x].drive = "none"
        PROVE  \E p \in Requests : At(p, "route")' /\ res'[p].reg = x
    BY <1>0, <1>9, <2>2 DEF DynamicInv, OutOfTable, At
  <2> QED
    BY <1>9, <1>11, <2>1, <2>2 DEF OutOfTable
<1>17. Counted'
  <2>1. On(b)' = On(b) \ {r} /\ r \in On(b)
    <3>1. r \in On(b)
      BY <1>n, <1>2 DEF On
    <3>2. \A x \in Registered : reg'[x].bind = b <=> x # r /\ reg[x].bind = b
      BY <1>5, <1>9, <1>10
    <3> QED
      BY <1>11, <3>1, <3>2 DEF On
  <2>2. Cardinality(On(b) \ {r}) = Cardinality(On(b)) - 1
    BY <2>1, OnIsFinite, FS_RemoveElement
  <2>3. bnd'[b].members = Cardinality(On(b)')
    BY <1>5, <1>8, <2>1, <2>2 DEF DynamicInv, Counted
  <2>4. ASSUME NEW x \in DOMAIN bnd \ {b} PROVE bnd'[x].members = Cardinality(On(x)')
    <3>1. x # 0
      BY FormedIsTyped DEF Typed
    <3>2. On(x)' = On(x)
      BY <1>n, <1>9, <1>10, <1>11, <3>1 DEF On
    <3> QED
      BY <1>8, <3>2 DEF DynamicInv, Counted
  <2> QED
    BY <1>8, <2>3, <2>4 DEF Counted
<1>18. Calls'
  <2>1. ASSUME NEW p \in Requests, At(p, "route")' PROVE Resolved(p)'
    <3>1. Resolved(p)
      BY <1>0, <2>1 DEF DynamicInv, Calls, At
    <3> QED
      BY <1>0, <1>9, <1>10, <1>11, <3>1 DEF Resolved
  <2> QED
    BY <1>0, <1>11, <2>1 DEF DynamicInv, Calls, At
<1>21. DropsAreDue'
  BY <1>0, <1>9 DEF DynamicInv, DropsAreDue, Dynamic
<1>20. Restarting'
  <2>1. \A x \in DOMAIN reg : reg[x].retire = "done" => reg'[x].retire = "done"
    BY <1>0, <1>9
  <2> QED
    BY <1>0, <1>9, <2>1 DEF DynamicInv, Restarting, StoppingAll, AtStop, Dynamic, Operated
<1> QED
  BY <1>12, <1>13, <1>14, <1>15, <1>16, <1>17, <1>18, <1>20, <1>21 DEF DynamicInv

\* dropDynamic
LEMMA DropServes ==
  ASSUME DynamicInv, Fated, FatesApart, NEW d \in drops, DropWorks(d)
  PROVE  DynamicInv'
<1>1. CASE DropFinds(d)
  BY <1>1, DropFindsServes
<1>2. CASE DropForgets(d)
  BY <1>2, DropForgetsServes
<1>3. CASE DropRetires(d)
  <2>1. d.step = "retire" /\ UNCHANGED <<job, run, req, reloads, wild>>
    BY <1>3 DEF DropRetires
  <2>2. CASE TakeOff(d.reg, FALSE)
    <3>1. d.reg \in DOMAIN reg /\ "vanish" \in fate[reg[d.reg].name] /\ BeingRetired(d.reg)
      BY <2>1 DEF DynamicInv, DropsAreDue, BeingRetired, BeingDropped
    <3>2. ~Swapping(d.reg)
      BY <3>1, OperatedIsThere DEF Swapping
    <3> QED
      BY <2>1, <2>2, <3>1, <3>2, OffServes DEF wild, place
  <2>3. CASE RetireAndStop(d.reg) \/ StopReturns(d.reg)
    <3>1. UNCHANGED <<res, fate, rst, job>> /\ DropsGoOn /\ drops' \ drops = {}
      BY <2>1 DEF wild, place, DropsGoOn
    <3> QED
      BY <2>3, <3>1, ProcTurns, OnlyTurning
  <2> QED
    BY <1>3, <2>2, <2>3 DEF DropRetires
<1> QED
  BY <1>1, <1>2, <1>3 DEF DropWorks

\* stopAll
LEMMA StopBeginsServes ==
  ASSUME DynamicInv, StopAllBegins, UNCHANGED wild
  PROVE  DynamicInv'
<1>1. /\ UNCHANGED heap /\ UNCHANGED <<res, fate, rst, drops>> /\ job = Nobody
      /\ job' = [by |-> "stop", step |-> "retire",
                 items |-> {[reg |-> r, keep |-> FALSE] : r \in Registered}]
  BY DEF StopAllBegins, wild, place
<1>2. Turned /\ reg' \in Seq(AnyProject) /\ rst' \in RestartCall
  BY <1>1 DEF Turned, heap, DynamicInv, Formed
<1>3. rst.step # "swap" /\ job.by = "none"
  BY <1>1 DEF DynamicInv, Restarting, Nobody, Swap
<1>4. StoppingAll'
  <2>1. job'.by = "stop" /\ job' = [by |-> "stop", step |-> "retire", items |-> job'.items]
    BY <1>1
  <2>2. \A i \in job'.items : i.keep = FALSE /\ i.reg \in DOMAIN reg
    BY <1>1, FormedIsTyped DEF Typed
  <2> QED
    BY <1>2, <2>1, <2>2 DEF StoppingAll, AtStop, Turned
<1>5. Restarting'
  BY <1>1, <1>3, <1>4 DEF DynamicInv, Restarting, Dynamic, Operated, heap
<1>6. DropsGoOn /\ drops' \ drops = {} /\ SwapGoesOn /\ StopGoesOn
  BY <1>1, <1>3 DEF DropsGoOn, SwapGoesOn, Swapping, StopGoesOn
<1> QED
  BY <1>1, <1>2, <1>5, <1>6, TurningServes

LEMMA StopRetires ==
  ASSUME DynamicInv, job.by = "stop", JobRetires, UNCHANGED wild
  PROVE  DynamicInv'
<1>1. UNCHANGED <<res, fate, rst, job, drops>> /\ DropsGoOn /\ drops' \ drops = {}
  BY DEF JobRetires, wild, place, DropsGoOn
<1>2. PICK i \in job.items : TakeOff(i.reg, i.keep) \/ RetireAndStop(i.reg) \/ StopReturns(i.reg)
  BY DEF JobRetires
<1>3. rst.step # "swap" /\ job # Nobody
  BY DEF DynamicInv, Restarting, Nobody, Swap
<1>4. StoppingAll
  BY <1>3 DEF DynamicInv, Restarting
<1>5. i.reg \in DOMAIN reg /\ i.keep = FALSE /\ BeingRetired(i.reg) /\ ~Swapping(i.reg)
  BY <1>3, <1>4 DEF StoppingAll, BeingRetired, InHand, Swapping
<1>6. CASE TakeOff(i.reg, i.keep)
  BY <1>1, <1>5, <1>6, OffServes
<1>7. CASE RetireAndStop(i.reg) \/ StopReturns(i.reg)
  BY <1>1, <1>7, ProcTurns, OnlyTurning
<1> QED
  BY <1>2, <1>6, <1>7

-----------------------------------------------------------------------------
(***************************************************************************)
(* What stopAll relies on                                                  *)
(***************************************************************************)

\* Pointers of the requests under way
SwitchFits(s) == sw[s] \in DOMAIN reg \cup {0}
RoutesFit(b) == \A h \in DOMAIN bnd[b].routes : bnd[b].routes[h] \in DOMAIN sw
RequestFits(q) ==
  /\ req[q].step = "switch" => req[q].sw \in DOMAIN sw
  /\ req[q].step \in {"handler", "start"} => req[q].reg \in DOMAIN reg
CallFits(q) == res[q].reg \in DOMAIN reg \cup {0}
Linked ==
  /\ \A s \in DOMAIN sw : SwitchFits(s)
  /\ \A b \in DOMAIN bnd : RoutesFit(b)
  /\ \A q \in Requests : RequestFits(q) /\ CallFits(q)

Ended == \A r \in DOMAIN reg : reg[r].retire = "done" => reg[r].proc = "down"
Needed == \A b \in DOMAIN bnd : bnd[b].open /\ bnd[b].entry = 0 => bnd[b].members > 0

\* A dynamic project that is always on; one without a process; and one nobody
\* is about to start
Late(r) == Dynamic(r) /\ reg[r].cfg.always
Cold(r) ==
  /\ Dynamic(r) /\ reg[r].proc = "down" /\ ~reg[r].cfg.always
  /\ reg[r].drive \notin {"starter", "cancelled"}
Spared(r) ==
  /\ rst.step = "none" \/ rst.reg # r
  /\ \A q \in Requests : req[q].step = "start" => req[q].reg # r

\* What stopAll does not find in the table is gone, or was resolved since: then
\* it is always on, or will not be started, for the daemon drains.
Covered ==
  job.by = "stop" =>
    /\ run # "running"
    /\ \A r \in DOMAIN reg :
         InHand(r) \/ reg[r].retire = "done" \/ Late(r) \/ (Cold(r) /\ Spared(r))
HaltInv == Linked /\ Ended /\ Needed /\ Covered

\* What a step may do to the daemon's objects
HeapHalts ==
  /\ DOMAIN reg \subseteq DOMAIN reg' /\ DOMAIN sw \subseteq DOMAIN sw'
  /\ \A s \in DOMAIN sw' : SwitchFits(s)'
  /\ \A b \in DOMAIN bnd' : RoutesFit(b)'
  /\ Ended' /\ Needed'
  /\ \A x \in DOMAIN reg :
       /\ reg[x].retire = "done" => reg'[x].retire = "done"
       /\ Cold(x) /\ Spared(x) => Cold(x)'
       /\ Late(x) => Late(x)'
  /\ job.by = "stop" => \A x \in DOMAIN reg' \ DOMAIN reg : Late(x)' \/ Cold(x)'

LEMMA HeapRests ==
  ASSUME HaltInv, UNCHANGED <<reg, sw, bnd>>
  PROVE  HeapHalts
  BY DEF HeapHalts, HaltInv, Linked, SwitchFits, RoutesFit, Ended, Needed, Cold, Late, Dynamic

\* Projects turn.
LEMMA TurningHalts ==
  ASSUME HaltInv, Turned,
         \A x \in DOMAIN reg :
           /\ reg'[x].retire = "done" => reg'[x].proc = "down"
           /\ Cold(x) /\ Spared(x) =>
                reg'[x].proc = "down" /\ reg'[x].drive \notin {"starter", "cancelled"}
  PROVE  HeapHalts
<1>1. DOMAIN reg' = DOMAIN reg /\ UNCHANGED <<sw, bnd>>
  BY DEF Turned
<1>2. \A x \in DOMAIN reg : reg'[x].cfg = reg[x].cfg /\ reg'[x].entry = reg[x].entry
        /\ (reg[x].retire = "done" => reg'[x].retire = "done")
  BY DEF Turned
<1>3. (\A s \in DOMAIN sw' : SwitchFits(s)') /\ (\A b \in DOMAIN bnd' : RoutesFit(b)') /\ Needed'
  BY <1>1 DEF HaltInv, Linked, SwitchFits, RoutesFit, Needed
<1>4. Ended'
  BY <1>1 DEF Ended
<1>5. \A x \in DOMAIN reg : (Cold(x) /\ Spared(x) => Cold(x)') /\ (Late(x) => Late(x)')
  BY <1>1, <1>2 DEF Cold, Late, Dynamic
<1> QED
  BY <1>1, <1>2, <1>3, <1>4, <1>5 DEF HeapHalts

\* A process starts or ends only as its supervisor and its retirement allow.
LEMMA ProcHalts ==
  ASSUME DynamicInv, HaltInv, NEW r,
         \/ \E q \in Requests : Starts(q) /\ r = req[q].reg
         \/ StarterRuns(r) \/ ProcStops(r) \/ ProcExits(r) \/ RetireAndStop(r) \/ StopReturns(r)
         \/ (RestartStops \/ RestartStarts) /\ r = rst.reg
  PROVE  HeapHalts
<1>1. Turned
  BY ProcTurns
<1> DEFINE Fine(x) ==
      /\ reg'[x].retire = "done" => reg'[x].proc = "down"
      /\ Cold(x) /\ Spared(x) =>
           reg'[x].proc = "down" /\ reg'[x].drive \notin {"starter", "cancelled"}
<1>2. \A x \in DOMAIN reg : reg'[x] = reg[x] => Fine(x)
  BY DEF HaltInv, Ended, Cold
<1>3. reg \in Seq(AnyProject)
  BY DEF DynamicInv, Formed
<1>4. ASSUME NEW v, reg' = [reg EXCEPT ![r] = v],
             r \in DOMAIN reg =>
               /\ v.retire = "done" => v.proc = "down"
               /\ Cold(r) /\ Spared(r) => v.proc = "down" /\ v.drive \notin {"starter", "cancelled"}
      PROVE  HeapHalts
  <2>1. \A x \in DOMAIN reg : x # r => reg'[x] = reg[x]
    BY <1>3, <1>4
  <2>2. r \in DOMAIN reg => reg'[r] = v
    BY <1>3, <1>4
  <2>3. \A x \in DOMAIN reg : Fine(x)
    BY <1>2, <1>4, <2>1, <2>2
  <2> QED
    BY <1>1, <2>3, TurningHalts
<1>5. r \in DOMAIN reg =>
        /\ reg[r] \in AnyProject
        /\ reg[r].retire = "done" => reg[r].proc = "down"
        /\ Cold(r) => reg[r].proc = "down" /\ reg[r].drive \notin {"starter", "cancelled"}
  BY <1>3 DEF HaltInv, Ended, Cold
<1>6. ASSUME NEW p, reg' = [reg EXCEPT ![r].proc = p],
             r \in DOMAIN reg =>
               (Retired(r) => p = reg[r].proc \/ p = "down" \/ reg[r].proc # "down")
               /\ (Cold(r) /\ Spared(r) => p = "down")
      PROVE  HeapHalts
  <2>0. PICK v : v = [reg[r] EXCEPT !.proc = p]
    OBVIOUS
  <2>1. reg' = [reg EXCEPT ![r] = v]
    BY <1>6, <2>0
  <2>2. r \in DOMAIN reg => v.proc = p /\ v.retire = reg[r].retire /\ v.drive = reg[r].drive
    BY <1>5, <2>0 DEF AnyProject
  <2>3. r \in DOMAIN reg =>
          /\ v.retire = "done" => v.proc = "down"
          /\ Cold(r) /\ Spared(r) => v.proc = "down" /\ v.drive \notin {"starter", "cancelled"}
    BY <1>5, <1>6, <2>2 DEF Retired
  <2> QED
    BY <1>4, <2>1, <2>3
<1>7. CASE \E q \in Requests : Starts(q) /\ r = req[q].reg
  <2>1. PICK q \in Requests : Starts(q) /\ r = req[q].reg
    BY <1>7
  <2>2. reg' = [reg EXCEPT ![r].proc = IF Retired(r) THEN reg[r].proc ELSE "up"] /\ ~Spared(r)
    BY <2>1 DEF Starts, Spared
  <2> QED
    BY <1>6, <2>2
<1>8. CASE ProcStops(r)
  BY <1>5, <1>6, <1>8 DEF ProcStops
<1>9. CASE ProcExits(r)
  BY <1>6, <1>9 DEF ProcExits
<1>10. CASE RestartStops /\ r = rst.reg
  <2>1. reg' = [reg EXCEPT ![r].proc = IF reg[r].proc = "up" THEN "stopping" ELSE reg[r].proc]
    BY <1>10 DEF RestartStops
  <2> QED
    BY <1>5, <1>6, <2>1
<1>11. CASE RestartStarts /\ r = rst.reg
  <2>1. reg' = [reg EXCEPT ![r].proc = IF Retired(r) THEN reg[r].proc ELSE "up"] /\ ~Spared(r)
    BY <1>11 DEF RestartStarts, Spared
  <2> QED
    BY <1>6, <2>1
<1>12. CASE StarterRuns(r)
  <2>1. PICK v : /\ reg' = [reg EXCEPT ![r] = v]
                 /\ \/ v = [reg[r] EXCEPT !.drive = "ended",
                                          !.proc = IF Retired(r) THEN reg[r].proc ELSE "up"]
                    \/ v = [reg[r] EXCEPT !.drive = "ended"]
    BY <1>12 DEF StarterRuns
  <2>2. reg[r].drive \in {"starter", "cancelled"}
    BY <1>12 DEF StarterRuns
  <2>3. r \in DOMAIN reg => v.retire = reg[r].retire /\ (Retired(r) => v.proc = reg[r].proc)
    BY <1>5, <2>1 DEF AnyProject
  <2>4. r \in DOMAIN reg => (v.retire = "done" => v.proc = "down") /\ ~Cold(r)
    BY <1>5, <2>2, <2>3 DEF Retired
  <2> QED
    BY <1>4, <2>1, <2>4
<1>13. CASE RetireAndStop(r)
  <2>1. PICK v : /\ reg' = [reg EXCEPT ![r] = v]
                 /\ v = [reg[r] EXCEPT !.retire = "stopping",
                                       !.proc = IF reg[r].proc = "up" THEN "stopping" ELSE reg[r].proc]
    BY <1>13 DEF RetireAndStop
  <2>2. r \in DOMAIN reg => v.retire = "stopping" /\ v.drive = reg[r].drive
          /\ (reg[r].proc = "down" => v.proc = "down")
    BY <1>5, <2>1 DEF AnyProject
  <2> QED
    BY <1>4, <1>5, <2>1, <2>2
<1>14. CASE StopReturns(r)
  <2>1. PICK v : reg' = [reg EXCEPT ![r] = v] /\ v = [reg[r] EXCEPT !.retire = "done"]
    BY <1>14 DEF StopReturns
  <2>2. r \in DOMAIN reg => v.proc = "down" /\ v.drive = reg[r].drive
    BY <1>5, <1>14, <2>1 DEF AnyProject, StopReturns
  <2> QED
    BY <1>4, <1>5, <2>1, <2>2
<1> QED
  BY <1>7, <1>8, <1>9, <1>10, <1>11, <1>12, <1>13, <1>14

LEMMA OffHalts ==
  ASSUME DynamicInv, HaltInv, NEW r \in DOMAIN reg, ~Swapping(r), TakeOff(r, FALSE)
  PROVE  HeapHalts
<1>1. PICK b, h, c : OffListener(r, b, h, c)
  BY OffEffect
<1>2. /\ DOMAIN reg' = DOMAIN reg /\ DOMAIN bnd' = DOMAIN bnd /\ sw' = sw
      /\ \A x \in DOMAIN reg \ {r} : reg'[x] = reg[x]
      /\ \A x \in DOMAIN bnd \ {b} : bnd'[x] = bnd[x]
      /\ reg'[r].retire = "off" /\ reg'[r].proc = reg[r].proc
      /\ reg'[r].cfg = reg[r].cfg /\ reg'[r].entry = reg[r].entry
      /\ reg'[r].drive = (IF reg[r].drive = "starter" THEN "cancelled" ELSE "ended")
  BY <1>1 DEF OffListener
<1>3. /\ b \in DOMAIN bnd /\ bnd'[b].members = bnd[b].members - 1 /\ bnd'[b].entry = bnd[b].entry
      /\ bnd'[b].open <=> ~(bnd[b].members - 1 <= 0 /\ bnd[b].entry = 0)
      /\ DOMAIN bnd'[b].routes \subseteq DOMAIN bnd[b].routes
      /\ \A x \in DOMAIN bnd'[b].routes : bnd'[b].routes[x] = bnd[b].routes[x]
  BY <1>1 DEF OffListener
<1>4. reg[r].retire = "no" /\ bnd[b].members \in Int
  BY <1>3, FormedIsTyped DEF TakeOff, Typed
<1>5. \A s \in DOMAIN sw' : SwitchFits(s)'
  BY <1>2 DEF HaltInv, Linked, SwitchFits
<1>6. \A x \in DOMAIN bnd' : RoutesFit(x)'
  <2>1. RoutesFit(b)'
    BY <1>2, <1>3 DEF HaltInv, Linked, RoutesFit
  <2>2. \A x \in DOMAIN bnd \ {b} : RoutesFit(x)'
    BY <1>2 DEF HaltInv, Linked, RoutesFit
  <2> QED
    BY <1>2, <2>1, <2>2
<1>7. Ended'
  BY <1>2 DEF HaltInv, Ended
<1>8. Needed'
  <2>1. bnd'[b].open /\ bnd'[b].entry = 0 => bnd'[b].members > 0
    BY <1>3, <1>4
  <2>2. \A x \in DOMAIN bnd \ {b} : bnd'[x].open /\ bnd'[x].entry = 0 => bnd'[x].members > 0
    BY <1>2 DEF HaltInv, Needed
  <2> QED
    BY <1>2, <2>1, <2>2 DEF Needed
<1>9. \A x \in DOMAIN reg :
        /\ reg[x].retire = "done" => reg'[x].retire = "done"
        /\ (Cold(x) => Cold(x)') /\ (Late(x) => Late(x)')
  BY <1>2, <1>4 DEF Cold, Late, Dynamic
<1> QED
  BY <1>2, <1>5, <1>6, <1>7, <1>8, <1>9 DEF HeapHalts

\* retireAll, for a restart or for stopAll
LEMMA JobHalts ==
  ASSUME DynamicInv, HaltInv, JobRetires
  PROVE  HeapHalts
<1>1. PICK i \in job.items : TakeOff(i.reg, i.keep) \/ RetireAndStop(i.reg) \/ StopReturns(i.reg)
  BY DEF JobRetires
<1>2. CASE RetireAndStop(i.reg) \/ StopReturns(i.reg)
  BY <1>2, ProcHalts
<1>3. CASE TakeOff(i.reg, i.keep) /\ job.by = "stop"
  <2>1. rst.step # "swap" /\ job # Nobody
    BY <1>3 DEF DynamicInv, Restarting, Nobody, Swap
  <2>2. StoppingAll
    BY <1>3, <2>1 DEF DynamicInv, Restarting
  <2>3. i.reg \in DOMAIN reg /\ i.keep = FALSE /\ ~Swapping(i.reg)
    BY <2>1, <2>2 DEF StoppingAll, Swapping
  <2> QED
    BY <1>3, <2>3, OffHalts
<1>4. CASE TakeOff(i.reg, i.keep) /\ job.by # "stop"
  <2>1. Turned
    BY <1>4, SwapTurns
  <2>2. PICK v : /\ reg' = [reg EXCEPT ![i.reg] = v]
                 /\ v = [reg[i.reg] EXCEPT !.retire = "off", !.bind = IF i.keep THEN @ ELSE 0,
                           !.drive = IF @ = "starter" THEN "cancelled" ELSE "ended"]
    BY <1>4 DEF TakeOff
  <2>3. reg \in Seq(AnyProject)
    BY DEF DynamicInv, Formed
  <2>4. \A x \in DOMAIN reg : x # i.reg => reg'[x] = reg[x]
    BY <2>2, <2>3
  <2>5. i.reg \in DOMAIN reg =>
          /\ reg'[i.reg] = v /\ v.retire = "off" /\ v.proc = reg[i.reg].proc
          /\ v.drive = (IF reg[i.reg].drive = "starter" THEN "cancelled" ELSE "ended")
    <3> SUFFICES ASSUME i.reg \in DOMAIN reg
                 PROVE  /\ reg'[i.reg] = v /\ v.retire = "off" /\ v.proc = reg[i.reg].proc
                        /\ v.drive = (IF reg[i.reg].drive = "starter" THEN "cancelled" ELSE "ended")
      OBVIOUS
    <3>1. reg[i.reg] \in AnyProject /\ reg'[i.reg] = v
      BY <2>2, <2>3
    <3> QED
      BY <2>2, <3>1 DEF AnyProject
  <2>6. \A x \in DOMAIN reg :
          /\ reg'[x].retire = "done" => reg'[x].proc = "down"
          /\ Cold(x) /\ Spared(x) =>
               reg'[x].proc = "down" /\ reg'[x].drive \notin {"starter", "cancelled"}
    BY <2>4, <2>5 DEF HaltInv, Ended, Cold
  <2> QED
    BY <2>1, <2>6, TurningHalts
<1> QED
  BY <1>1, <1>2, <1>3, <1>4

\* The project of a resolution is there, without a process.
LEMMA RegistersHalts ==
  ASSUME DynamicInv, HaltInv, NEW q \in Requests, Registers(q)
  PROVE  HeapHalts
<1> DEFINE e == res[q].ent
           l == res[q].label
<1>n. PICK n, s, b, c : n = Len(reg) + 1 /\ s = Len(sw) + 1 /\ b = ent[e].bind
                        /\ c = DynamicProject(ent[e].cfg, l, res[q].port)
  OBVIOUS
<1>1. CASE table[l] # 0
  BY <1>1, HeapRests DEF Registers, heap
<1>2. CASE table[l] = 0
  <2>0. PICK v : /\ v = [NewState(l, c, e) EXCEPT !.sw = s, !.bind = b]
                 /\ reg' = Append(reg, v) /\ sw' = Append(sw, n)
                 /\ bnd' = [bnd EXCEPT ![b].members = @ + 1]
    BY <1>n, <1>2 DEF Registers
  <2>1. v.proc = "down" /\ v.retire = "no" /\ v.drive = "none" /\ v.entry = e /\ v.cfg = c
    BY <2>0 DEF NewState
  <2>3. e \in Up /\ e # 0
    BY DEF Registers, At, DynamicInv, Calls, Up
  <2>4. b \in DOMAIN bnd /\ bnd[b].entry = e
    BY <1>n, <2>3 DEF DynamicInv, EntriesAreUp, Bound
  <2>5. reg \in Seq(AnyProject) /\ sw \in Seq(Nat) /\ bnd \in Seq(AnyListener) /\ n \in Nat
    BY <1>n DEF DynamicInv, Formed
  <2>6. /\ DOMAIN reg' = DOMAIN reg \cup {n} /\ reg'[n] = v /\ n \notin DOMAIN reg
        /\ \A x \in DOMAIN reg : reg'[x] = reg[x]
    BY <1>n, <2>0, <2>5
  <2>7. /\ DOMAIN sw' = DOMAIN sw \cup {s} /\ sw'[s] = n
        /\ \A x \in DOMAIN sw : sw'[x] = sw[x]
    BY <1>n, <2>0, <2>5
  <2>8. /\ DOMAIN bnd' = DOMAIN bnd
        /\ \A x \in DOMAIN bnd \ {b} : bnd'[x] = bnd[x]
        /\ bnd'[b].entry = bnd[b].entry /\ bnd'[b].routes = bnd[b].routes
    <3>1. PICK k : k = [bnd[b] EXCEPT !.members = @ + 1] /\ bnd' = [bnd EXCEPT ![b] = k]
      BY <2>0
    <3>2. bnd[b] \in AnyListener
      BY <2>4, <2>5
    <3>3. k.entry = bnd[b].entry /\ k.routes = bnd[b].routes
      BY <3>1, <3>2 DEF AnyListener
    <3> QED
      BY <2>4, <2>5, <3>1, <3>3
  <2>9. \A x \in DOMAIN sw' : SwitchFits(x)'
    BY <2>6, <2>7 DEF HaltInv, Linked, SwitchFits
  <2>10. \A x \in DOMAIN bnd' : RoutesFit(x)'
    <3>1. \A x \in DOMAIN bnd : bnd'[x].routes = bnd[x].routes
      BY <2>8
    <3> QED
      BY <2>7, <2>8, <3>1 DEF HaltInv, Linked, RoutesFit
  <2>11. Ended'
    BY <2>1, <2>6 DEF HaltInv, Ended
  <2>12. Needed'
    BY <2>3, <2>4, <2>8 DEF HaltInv, Needed
  <2>13. \A x \in DOMAIN reg :
           /\ reg[x].retire = "done" => reg'[x].retire = "done"
           /\ (Cold(x) => Cold(x)') /\ (Late(x) => Late(x)')
    BY <2>6 DEF Cold, Late, Dynamic
  <2>14. Late(n)' \/ Cold(n)'
    BY <2>1, <2>3, <2>6 DEF Cold, Late, Dynamic
  <2> QED
    BY <2>6, <2>7, <2>9, <2>10, <2>11, <2>12, <2>13, <2>14 DEF HeapHalts
<1> QED
  BY <1>1, <1>2

\* setHost, activate
LEMMA RoutesHalts ==
  ASSUME DynamicInv, HaltInv, NEW q \in Requests, Routes(q)
  PROVE  HeapHalts
<1>n. PICK r, b, h, s : r = res[q].reg /\ b = ent[res[q].ent].bind /\ h = reg[r].cfg.host
                        /\ s = reg[r].sw
  OBVIOUS
<1>0. /\ bnd' = [bnd EXCEPT ![b].routes = SetHost(@, h, s)]
      /\ reg' = [reg EXCEPT ![r] = Activated(@)] /\ sw' = sw /\ At(q, "route")
  BY <1>n DEF Routes
<1>1. Resolved(q) /\ res[q].ent \in Up
  BY <1>0 DEF DynamicInv, Calls, At
<1>2. r \in DOMAIN reg /\ s \in DOMAIN sw
  BY <1>n, <1>1 DEF Resolved, DynamicInv, Made
<1>3. b \in DOMAIN bnd
  BY <1>n, <1>1 DEF DynamicInv, EntriesAreUp, Bound
<1>4. reg \in Seq(AnyProject) /\ bnd \in Seq(AnyListener) /\ reg[r] \in AnyProject /\ bnd[b] \in AnyListener
  BY <1>2, <1>3 DEF DynamicInv, Formed
<1>5. /\ DOMAIN bnd' = DOMAIN bnd
      /\ \A x \in DOMAIN bnd \ {b} : bnd'[x] = bnd[x]
      /\ bnd'[b].open = bnd[b].open /\ bnd'[b].entry = bnd[b].entry /\ bnd'[b].members = bnd[b].members
      /\ bnd'[b].routes = SetHost(bnd[b].routes, h, s)
  <2>1. PICK g, k : /\ g = SetHost(bnd[b].routes, h, s) /\ k = [bnd[b] EXCEPT !.routes = g]
                    /\ bnd' = [bnd EXCEPT ![b] = k]
    BY <1>0
  <2>2. k.open = bnd[b].open /\ k.entry = bnd[b].entry /\ k.members = bnd[b].members /\ k.routes = g
    BY <1>4, <2>1 DEF AnyListener
  <2> QED
    BY <1>3, <1>4, <2>1, <2>2
<1>6. /\ DOMAIN reg' = DOMAIN reg
      /\ \A x \in DOMAIN reg \ {r} : reg'[x] = reg[x]
      /\ reg'[r].cfg = reg[r].cfg /\ reg'[r].entry = reg[r].entry /\ reg'[r].retire = reg[r].retire
      /\ reg'[r].proc = reg[r].proc
      /\ reg'[r].drive = IF reg[r].cfg.always THEN "starter" ELSE "monitor"
  <2>1. PICK v : v = Activated(reg[r]) /\ reg' = [reg EXCEPT ![r] = v]
    BY <1>0
  <2>2. /\ v.cfg = reg[r].cfg /\ v.entry = reg[r].entry /\ v.retire = reg[r].retire
        /\ v.proc = reg[r].proc /\ v.drive = IF reg[r].cfg.always THEN "starter" ELSE "monitor"
    BY <1>4, <2>1 DEF Activated, AnyProject
  <2> QED
    BY <1>2, <1>4, <2>1, <2>2
<1>7. \A x \in DOMAIN sw' : SwitchFits(x)'
  BY <1>0, <1>6 DEF HaltInv, Linked, SwitchFits
<1>8. \A x \in DOMAIN bnd' : RoutesFit(x)'
  <2>1. RoutesFit(b)'
    BY <1>0, <1>2, <1>3, <1>5 DEF HaltInv, Linked, RoutesFit, SetHost
  <2>2. \A x \in DOMAIN bnd \ {b} : RoutesFit(x)'
    BY <1>0, <1>5 DEF HaltInv, Linked, RoutesFit
  <2> QED
    BY <1>5, <2>1, <2>2
<1>9. Ended' /\ Needed'
  BY <1>5, <1>6 DEF HaltInv, Ended, Needed
<1>10. \A x \in DOMAIN reg :
         /\ reg[x].retire = "done" => reg'[x].retire = "done"
         /\ (Cold(x) => Cold(x)') /\ (Late(x) => Late(x)')
  BY <1>6 DEF Cold, Late, Dynamic
<1> QED
  BY <1>0, <1>6, <1>7, <1>8, <1>9, <1>10 DEF HeapHalts

\* The swap of a restart
LEMMA LocksHalts ==
  ASSUME DynamicInv, HaltInv, RestartLocks
  PROVE  HeapHalts
<1>1. UNCHANGED <<reg, bnd>> /\ rst.step = "lock"
  BY DEF RestartLocks
<1>2. CASE UNCHANGED sw
  BY <1>1, <1>2, HeapRests
<1>3. CASE sw' = [sw EXCEPT ![reg[rst.reg].sw] = 0]
  <2>1. sw \in Seq(Nat)
    BY DEF DynamicInv, Formed
  <2>2. DOMAIN sw' = DOMAIN sw /\ \A s \in DOMAIN sw : sw'[s] \in {sw[s], 0}
    BY <1>3, <2>1
  <2> QED
    BY <1>1, <2>2
       DEF HeapHalts, HaltInv, Linked, SwitchFits, RoutesFit, Ended, Needed, Cold, Late, Dynamic
<1> QED
  BY <1>2, <1>3 DEF RestartLocks

LEMMA CommissionsHalts ==
  ASSUME DynamicInv, HaltInv, RestartCommissions
  PROVE  HeapHalts
<1>n. PICK n, t : n = Len(reg) + 1 /\ t = reg[rst.reg].sw
  OBVIOUS
<1>0. PICK v, c : /\ v = Activated([NewState(reg[rst.reg].name, c, reg[rst.reg].entry)
                                     EXCEPT !.sw = reg[rst.reg].sw, !.bind = reg[rst.reg].bind])
                  /\ reg' = Append(reg, v) /\ sw' = [sw EXCEPT ![t] = n]
                  /\ bnd' = bnd
  BY <1>n DEF RestartCommissions, Inherit
<1>1. rst.step = "swap" /\ job.by # "stop"
  BY DEF RestartCommissions, DynamicInv, Restarting, Swap
<1>2. v.retire = "no"
  BY <1>0 DEF Activated, NewState
<1>3. reg \in Seq(AnyProject) /\ sw \in Seq(Nat) /\ n \in Nat
  BY <1>n DEF DynamicInv, Formed
<1>4. /\ DOMAIN reg' = DOMAIN reg \cup {n} /\ reg'[n] = v /\ n \notin DOMAIN reg
      /\ \A x \in DOMAIN reg : reg'[x] = reg[x]
  BY <1>n, <1>0, <1>3
<1>5. DOMAIN sw' = DOMAIN sw /\ \A s \in DOMAIN sw : sw'[s] \in {sw[s], n}
  BY <1>0, <1>3
<1>6. \A s \in DOMAIN sw' : SwitchFits(s)'
  BY <1>4, <1>5 DEF HaltInv, Linked, SwitchFits
<1>7. (\A b \in DOMAIN bnd' : RoutesFit(b)') /\ Needed'
  BY <1>0, <1>5 DEF HaltInv, Linked, RoutesFit, Needed
<1>8. Ended'
  BY <1>2, <1>4 DEF HaltInv, Ended
<1>9. \A x \in DOMAIN reg :
        /\ reg[x].retire = "done" => reg'[x].retire = "done"
        /\ (Cold(x) => Cold(x)') /\ (Late(x) => Late(x)')
  BY <1>4 DEF Cold, Late, Dynamic
<1> QED
  BY <1>1, <1>4, <1>5, <1>6, <1>7, <1>8, <1>9 DEF HeapHalts

\* Every step of a daemon that serves, but the end of stopAll
LEMMA HeapStep ==
  ASSUME FatesApart, Fated, DynamicInv, HaltInv, WildcardNext,
         (DaemonWorks \/ ReloadBegins \/ Drain) =>
           JobRetires \/ StopAllBegins \/ Drain
  PROVE  HeapHalts
<1>1. CASE DaemonWorks \/ ReloadBegins \/ Drain
  BY <1>1, JobHalts, HeapRests DEF StopAllBegins, Drain, heap
<1>2. ASSUME NEW q \in Requests,
             \/ RequestWorks(q) \/ ClientLeaves(q)
             \/ \E r \in Registered : OperatorFinds(q, r)
             \/ ArrivesGuarded(q) \/ Unrouted(q)
      PROVE  HeapHalts
  <2>1. CASE Starts(q)
    BY <2>1, ProcHalts
  <2>2. CASE ~Starts(q)
    <3>1. UNCHANGED heap
      BY <1>2, <2>2 DEF RequestWorks, PassesSwitch, AsksForStart, ClientLeaves, OperatorFinds,
         ArrivesGuarded, ArrivesAt, Unrouted
    <3> QED
      BY <3>1, HeapRests DEF heap
  <2> QED
    BY <2>1, <2>2
<1>3. ASSUME NEW q \in Requests, Resolves(q) \/ GivesUp(q) PROVE HeapHalts
  <2>1. CASE Registers(q) \/ Routes(q)
    BY <2>1, RegistersHalts, RoutesHalts
  <2>2. CASE Enters(q) \/ Checks(q) \/ FindsPort(q) \/ Finishes(q) \/ Wakes(q) \/ GivesUp(q)
    <3>1. UNCHANGED heap
      BY <2>2 DEF Enters, Checks, FindsPort, Finishes, Wakes, GivesUp, vars
    <3> QED
      BY <3>1, HeapRests DEF heap
  <2> QED
    BY <1>3, <2>1, <2>2 DEF Resolves
<1>4. ASSUME NEW r \in DOMAIN reg,
             StarterRuns(r) \/ ProcStops(r) \/ StopEnds(r) \/ RestartBegins(r)
      PROVE  HeapHalts
  BY <1>4, ProcHalts, HeapRests DEF StopEnds, RestartBegins, vars, heap
<1>5. ASSUME NEW d \in drops, DropWorks(d) PROVE HeapHalts
  <2>1. CASE DropFinds(d) \/ DropForgets(d)
    BY <2>1, HeapRests DEF DropFinds, DropForgets, vars, heap
  <2>2. CASE DropRetires(d)
    <3>1. CASE TakeOff(d.reg, FALSE)
      <4>1. d.reg \in DOMAIN reg /\ "vanish" \in fate[reg[d.reg].name]
        BY <2>2 DEF DropRetires, DynamicInv, DropsAreDue
      <4>2. ~Swapping(d.reg)
        BY <4>1, OperatedIsThere DEF Swapping
      <4> QED
        BY <3>1, <4>1, <4>2, OffHalts
    <3> QED
      BY <2>2, <3>1, ProcHalts DEF DropRetires
  <2> QED
    BY <1>5, <2>1, <2>2 DEF DropWorks
<1>6. CASE RestartWorks
  <2>1. CASE RestartStops \/ RestartStarts
    BY <2>1, ProcHalts
  <2>2. CASE RestartChecks
    BY <2>2, HeapRests DEF RestartChecks, vars, heap
  <2> QED
    BY <1>6, <2>1, <2>2, LocksHalts, CommissionsHalts DEF RestartWorks
<1>7. CASE BackoffElapses \/ WorktreeComesAndGoes
  BY <1>7, HeapRests DEF BackoffElapses, WorktreeComesAndGoes, vars, heap
<1> QED
  BY <1>1, <1>2, <1>3, <1>4, <1>5, <1>6, <1>7 DEF WildcardNext

\* What requests may do in a step: a start is asked for only while the daemon
\* runs.
RequestsBehave ==
  /\ \A p \in Requests : req'[p] = req[p] \/ RequestFits(p)'
  /\ run # "running" => \A p \in Requests : req'[p].step = "start" => req'[p] = req[p]

LEMMA OneRequest ==
  ASSUME Shaped, NEW q \in Requests, NEW to, req' = [req EXCEPT ![q] = to],
         to.step = "switch" => to.sw \in DOMAIN sw',
         to.step \in {"handler", "start"} => to.reg \in DOMAIN reg',
         to.step = "start" => run = "running"
  PROVE  RequestsBehave
<1>1. req'[q] = to /\ \A p \in Requests \ {q} : req'[p] = req[p]
  BY DEF Shaped
<1>2. RequestFits(q)'
  BY <1>1 DEF RequestFits
<1> QED
  BY <1>1, <1>2 DEF RequestsBehave

LEMMA RequestLeaves ==
  ASSUME Shaped, NEW q \in Requests, req' = [req EXCEPT ![q] = Idle]
  PROVE  RequestsBehave
<1>1. Idle.step = "away"
  BY DEF Idle
<1> QED
  BY <1>1, OneRequest

LEMMA GuardedBehaves ==
  ASSUME Shaped, NEW q \in Requests, NEW s \in DOMAIN sw', NEW l, NEW e, Guarded(q, s, l, e)
  PROVE  RequestsBehave
<1>1. CASE l \in tree
  <2> DEFINE to == [step |-> "switch", sw |-> s, reg |-> 0]
  <2>1. req' = [req EXCEPT ![q] = to] /\ to.step = "switch" /\ to.sw = s
    BY <1>1 DEF Guarded
  <2> HIDE DEF to
  <2> QED
    BY <2>1, OneRequest
<1>2. CASE l \notin tree
  BY <1>2, RequestLeaves DEF Guarded
<1> QED
  BY <1>1, <1>2

LEMMA RequestStep ==
  ASSUME ResolverInv, DynamicInv, HaltInv, HeapHalts, WildcardNext
  PROVE  RequestsBehave
<1>0. Shaped /\ Linked /\ DOMAIN reg \subseteq DOMAIN reg' /\ DOMAIN sw \subseteq DOMAIN sw'
  BY DEF ResolverInv, HaltInv, HeapHalts
<1>1. ASSUME UNCHANGED req PROVE RequestsBehave
  BY <1>1 DEF RequestsBehave
<1>2. CASE DaemonWorks \/ ReloadBegins \/ Drain
  BY <1>1, <1>2, DaemonSparesRequests
<1>3. ASSUME NEW q \in Requests, PassesSwitch(q) PROVE RequestsBehave
  <2>1. req[q].sw \in DOMAIN sw
    BY <1>0, <1>3 DEF PassesSwitch, Linked, RequestFits
  <2>2. sw[req[q].sw] \in DOMAIN reg
    BY <1>0, <1>3, <2>1 DEF PassesSwitch, Linked, SwitchFits
  <2> DEFINE to == [step |-> "handler", sw |-> 0, reg |-> sw[req[q].sw]]
  <2>3. req' = [req EXCEPT ![q] = to] /\ to.step = "handler" /\ to.reg \in DOMAIN reg
    BY <1>3, <2>2 DEF PassesSwitch, Step
  <2> HIDE DEF to
  <2> QED
    BY <1>0, <2>3, OneRequest
<1>4. ASSUME NEW q \in Requests, AsksForStart(q) PROVE RequestsBehave
  <2>1. CASE run = "running"
    <3> DEFINE to == [req[q] EXCEPT !.step = "start"]
    <3>1. req' = [req EXCEPT ![q] = to] /\ req[q].reg \in DOMAIN reg
      BY <1>0, <1>4, <2>1 DEF AsksForStart, Step, Linked, RequestFits
    <3>2. to.step = "start" /\ to.reg = req[q].reg
      BY <1>0 DEF Shaped
    <3> HIDE DEF to
    <3> QED
      BY <1>0, <2>1, <3>1, <3>2, OneRequest
  <2>2. CASE run # "running"
    BY <1>0, <1>4, <2>2, RequestLeaves DEF AsksForStart, Step
  <2> QED
    BY <2>1, <2>2
<1>5. ASSUME NEW q \in Requests, ClientLeaves(q) \/ Starts(q) PROVE RequestsBehave
  BY <1>0, <1>5, RequestLeaves DEF ClientLeaves, Step, Starts
<1>6. ASSUME NEW q \in Requests, NEW r \in Registered, OperatorFinds(q, r) PROVE RequestsBehave
  <2> DEFINE to == [step |-> "start", sw |-> 0, reg |-> r]
  <2>1. req' = [req EXCEPT ![q] = to] /\ to.step = "start" /\ to.reg = r /\ run = "running"
    BY <1>6 DEF OperatorFinds, Step
  <2>2. r \in DOMAIN reg
    BY FormedIsTyped DEF Typed
  <2> HIDE DEF to
  <2> QED
    BY <1>0, <2>1, <2>2, OneRequest
<1>7. ASSUME NEW q \in Requests, ArrivesGuarded(q) PROVE RequestsBehave
  <2>1. PICK b \in DOMAIN bnd : \E h \in DOMAIN bnd[b].routes :
          ArrivesAt(q, b, h) \/ Guarded(q, RouteOf(b, h), h[1], bnd[b].entry)
    BY <1>7 DEF ArrivesGuarded
  <2>2. PICK h \in DOMAIN bnd[b].routes :
          ArrivesAt(q, b, h) \/ Guarded(q, RouteOf(b, h), h[1], bnd[b].entry)
    BY <2>1
  <2>3. RouteOf(b, h) \in DOMAIN sw
    BY <1>0 DEF RouteOf, Linked, RoutesFit
  <2>4. CASE ArrivesAt(q, b, h)
    <3>0. PICK s : s = RouteOf(b, h)
      OBVIOUS
    <3> DEFINE to == [step |-> "switch", sw |-> s, reg |-> 0]
    <3>1. req' = [req EXCEPT ![q] = to] /\ to.step = "switch" /\ to.sw = s
      BY <2>4, <3>0 DEF ArrivesAt, Step
    <3> HIDE DEF to
    <3> QED
      BY <1>0, <2>3, <3>0, <3>1, OneRequest
  <2>5. CASE Guarded(q, RouteOf(b, h), h[1], bnd[b].entry)
    BY <1>0, <2>3, <2>5, GuardedBehaves
  <2> QED
    BY <2>2, <2>4, <2>5
<1>8. ASSUME NEW q \in Requests, Unrouted(q) PROVE RequestsBehave
  <2>1. CASE req' = [req EXCEPT ![q].step = "resolving"]
    <3> DEFINE to == [req[q] EXCEPT !.step = "resolving"]
    <3>1. req' = [req EXCEPT ![q] = to] /\ to.step = "resolving"
      BY <1>0, <2>1 DEF Shaped
    <3> HIDE DEF to
    <3> QED
      BY <1>0, <3>1, OneRequest
  <2> QED
    BY <1>1, <1>8, <2>1 DEF Unrouted
<1>9. ASSUME NEW q \in Requests, Finishes(q) \/ Wakes(q) PROVE RequestsBehave
  <2>1. CASE req' = [req EXCEPT ![q] = Idle]
    BY <1>0, <2>1, RequestLeaves
  <2>2. CASE res[q].reg # 0
    <3>1. res[q].reg \in DOMAIN reg
      BY <1>0, <2>2 DEF Linked, CallFits
    <3>2. reg[res[q].reg].sw \in DOMAIN sw
      BY <3>1 DEF DynamicInv, Made
    <3> QED
      BY <1>0, <1>9, <2>2, <3>2, GuardedBehaves DEF Finishes, Wakes
  <2> QED
    BY <1>9, <2>1, <2>2 DEF Finishes, Wakes
<1>10. ASSUME NEW q \in Requests, Answered(q) PROVE RequestsBehave
  BY <1>0, <1>10, RequestLeaves DEF Answered
<1>11. ASSUME NEW q \in Requests, Resolves(q) \/ GivesUp(q) PROVE RequestsBehave
  <2>1. CASE Finishes(q) \/ Wakes(q) \/ Answered(q)
    BY <1>9, <1>10, <2>1
  <2>2. CASE ~(Finishes(q) \/ Wakes(q) \/ Answered(q))
    <3>1. UNCHANGED req
      BY <1>11, <2>2 DEF Resolves, GivesUp, Enters, Checks, FindsPort, Registers, Routes, vars
    <3> QED
      BY <1>1, <3>1
  <2> QED
    BY <2>1, <2>2
<1>12. ASSUME NEW r \in DOMAIN reg,
              StarterRuns(r) \/ ProcStops(r) \/ StopEnds(r) \/ RestartBegins(r)
       PROVE  UNCHANGED req
  BY <1>12 DEF StarterRuns, ProcStops, StopEnds, ProcExits, RestartBegins, vars
<1>13. ASSUME NEW d \in drops, DropWorks(d) PROVE UNCHANGED req
  BY <1>13 DEF DropWorks, DropFinds, DropRetires, DropForgets, vars
<1>14. ASSUME RestartWorks \/ BackoffElapses \/ WorktreeComesAndGoes PROVE UNCHANGED req
  BY <1>14 DEF RestartWorks, RestartChecks, RestartStops, RestartLocks, RestartCommissions,
     RestartStarts, BackoffElapses, WorktreeComesAndGoes, vars
<1> QED
  BY <1>1, <1>2, <1>3, <1>4, <1>5, <1>6, <1>7, <1>8, <1>11, <1>12, <1>13, <1>14
     DEF WildcardNext, RequestWorks

\* What the resolver remembers is a registration.
LEMMA CallStep ==
  ASSUME ResolverInv, HaltInv, HeapHalts, WildcardNext
  PROVE  \A q \in Requests : CallFits(q)'
<1>0. Shaped /\ DOMAIN reg \subseteq DOMAIN reg' /\ \A q \in Requests : CallFits(q)
  BY DEF ResolverInv, HeapHalts, HaltInv, Linked
<1>1. ASSUME \A q \in Requests : res'[q].reg = res[q].reg PROVE \A q \in Requests : CallFits(q)'
  BY <1>0, <1>1 DEF CallFits
<1>2. ASSUME NEW q \in Requests, NEW to, res' = [res EXCEPT ![q] = to],
             to.reg = res[q].reg \/ to.reg \in DOMAIN reg' \cup {0}
      PROVE  \A p \in Requests : CallFits(p)'
  <2>1. res'[q] = to /\ \A p \in Requests \ {q} : res'[p] = res[p]
    BY <1>0, <1>2 DEF Shaped
  <2> QED
    BY <1>0, <1>2, <2>1 DEF CallFits
<1>3. Outside.reg = 0
  BY DEF Outside
<1>4. ASSUME NEW q \in Requests, NEW s, Goto(q, s) PROVE \A p \in Requests : CallFits(p)'
  <2>1. \A p \in Requests : res'[p].reg = res[p].reg
    BY <1>0, <1>4 DEF Goto, Shaped
  <2> QED
    BY <1>1, <2>1
<1>5. ASSUME NEW q \in Requests, Answered(q) PROVE \A p \in Requests : CallFits(p)'
  BY <1>2, <1>3, <1>5 DEF Answered
<1>6. ASSUME NEW q \in Requests, Unrouted(q) PROVE \A p \in Requests : CallFits(p)'
  <2>1. CASE UNCHANGED res
    BY <1>1, <2>1
  <2>2. CASE ~UNCHANGED res
    <3>1. PICK b \in DOMAIN bnd, l \in Labels :
            res' = [res EXCEPT ![q] = [Outside EXCEPT !.step = "enter",
                                                      !.ent = bnd[b].entry, !.label = l]]
      BY <1>6, <2>2 DEF Unrouted
    <3>2. PICK to : /\ to = [Outside EXCEPT !.step = "enter", !.ent = bnd[b].entry, !.label = l]
                    /\ res' = [res EXCEPT ![q] = to]
      BY <3>1
    <3>3. to.reg = 0
      BY <3>2 DEF Outside
    <3> QED
      BY <1>2, <3>2, <3>3
  <2> QED
    BY <2>1, <2>2
<1>7. ASSUME NEW q \in Requests, Enters(q) \/ GivesUp(q) PROVE \A p \in Requests : CallFits(p)'
  BY <1>4, <1>5, <1>7 DEF Enters, GivesUp
<1>8. ASSUME NEW q \in Requests, Checks(q) \/ FindsPort(q) PROVE \A p \in Requests : CallFits(p)'
  <2>1. CASE \E s : Goto(q, s)
    BY <1>4, <2>1
  <2>2. ASSUME NEW s, NEW o, res' = [res EXCEPT ![q].step = s, ![q].out = o]
        PROVE  \A p \in Requests : res'[p].reg = res[p].reg
    BY <1>0, <2>2 DEF Shaped
  <2>3. ASSUME NEW s, NEW o, res' = [res EXCEPT ![q].step = s, ![q].port = o]
        PROVE  \A p \in Requests : res'[p].reg = res[p].reg
    BY <1>0, <2>3 DEF Shaped
  <2>4. CASE Checks(q)
    BY <1>1, <2>2, <2>4 DEF Checks
  <2>5. CASE FindsPort(q)
    BY <1>1, <2>1, <2>3, <2>5 DEF FindsPort
  <2> QED
    BY <1>8, <2>4, <2>5
<1>9. ASSUME NEW q \in Requests, Registers(q) PROVE \A p \in Requests : CallFits(p)'
  <2>1. CASE Goto(q, "finish")
    BY <1>4, <2>1
  <2>2. CASE ~Goto(q, "finish")
    <3>1. PICK n, st, k : /\ n = Len(reg) + 1 /\ reg' = Append(reg, st) /\ sw' = Append(sw, n)
                          /\ k = Len(sw) + 1
                          /\ res' = [res EXCEPT ![q].step = "route", ![q].reg = n, ![q].out = "ok"]
      BY <1>9, <2>2 DEF Registers
    <3>2. res'[q].reg = n /\ \A p \in Requests \ {q} : res'[p] = res[p]
      BY <1>0, <3>1 DEF Shaped
    <3>3. n \in DOMAIN reg'
      BY <3>1
    <3> QED
      BY <1>0, <3>2, <3>3 DEF CallFits
  <2> QED
    BY <2>1, <2>2
<1>10. ASSUME NEW q \in Requests, Routes(q) PROVE \A p \in Requests : CallFits(p)'
  BY <1>4, <1>10 DEF Routes
<1>11. ASSUME NEW q \in Requests, Finishes(q) PROVE \A p \in Requests : CallFits(p)'
  <2>1. \A p \in Requests : \/ res'[p] = Outside \/ res'[p] = res[p]
                            \/ res'[p] = [res[p] EXCEPT !.step = "woken", !.reg = res[q].reg]
    BY <1>11 DEF Finishes
  <2>2. \A p \in Requests : res'[p].reg \in {0, res[p].reg, res[q].reg}
    BY <1>0, <1>3, <2>1 DEF Shaped
  <2> QED
    BY <1>0, <2>2 DEF CallFits
<1>12. ASSUME NEW q \in Requests, Wakes(q) PROVE \A p \in Requests : CallFits(p)'
  BY <1>2, <1>3, <1>12 DEF Wakes
<1>13. ASSUME NEW q \in Requests, Resolves(q) \/ GivesUp(q) PROVE \A p \in Requests : CallFits(p)'
  BY <1>7, <1>8, <1>9, <1>10, <1>11, <1>12, <1>13 DEF Resolves
<1>14. ASSUME NEW q \in Requests, ArrivesGuarded(q) PROVE UNCHANGED res
  BY <1>14 DEF ArrivesGuarded, wild
<1>15. ASSUME NEW r \in DOMAIN reg, StopEnds(r) \/ RestartBegins(r) PROVE UNCHANGED res
  BY <1>15 DEF StopEnds, RestartBegins
<1>16. ASSUME NEW d \in drops, DropWorks(d) PROVE UNCHANGED res
  BY <1>16 DEF DropWorks, DropFinds, DropRetires, DropForgets, wild
<1>17. ASSUME RestartWorks \/ BackoffElapses \/ WorktreeComesAndGoes PROVE UNCHANGED res
  BY <1>17 DEF RestartWorks, RestartChecks, RestartStops, RestartLocks, RestartCommissions,
     RestartStarts, BackoffElapses, WorktreeComesAndGoes
<1>18. UNCHANGED wild => UNCHANGED res
  BY DEF wild
<1> QED
  BY <1>1, <1>6, <1>13, <1>14, <1>15, <1>16, <1>17, <1>18 DEF WildcardNext

\* While the daemon stops, a restart goes on with its project or ends.
LEMMA RestartStep ==
  ASSUME DynamicInv, HaltInv, job.by = "stop", WildcardNext
  PROVE  rst'.step = "none" \/ (rst.step # "none" /\ rst'.reg = rst.reg)
<1>0. run # "running" /\ rst.step # "swap" /\ rst \in RestartCall /\ NoRestart.step = "none"
  BY DEF HaltInv, Covered, DynamicInv, Formed, Restarting, Swap, NoRestart
<1>1. ASSUME UNCHANGED rst PROVE rst'.step = "none" \/ (rst.step # "none" /\ rst'.reg = rst.reg)
  BY <1>1
<1>2. ASSUME NEW q \in Requests,
             ArrivesGuarded(q) \/ Unrouted(q) \/ Resolves(q) \/ GivesUp(q)
      PROVE  UNCHANGED rst
  BY <1>2 DEF ArrivesGuarded, Unrouted, Resolves, Enters, Checks, FindsPort, Registers, Routes,
     Finishes, Wakes, GivesUp, wild
<1>3. ASSUME NEW r \in DOMAIN reg, StopEnds(r) \/ RestartBegins(r) PROVE UNCHANGED rst
  BY <1>0, <1>3 DEF StopEnds, RestartBegins
<1>4. ASSUME NEW d \in drops, DropWorks(d) PROVE UNCHANGED rst
  BY <1>4 DEF DropWorks, DropFinds, DropRetires, DropForgets, wild
<1>5. ASSUME RestartWorks PROVE rst'.step = "none" \/ (rst.step # "none" /\ rst'.reg = rst.reg)
  <2>1. CASE RestartChecks
    <3>1. \/ rst' = NoRestart \/ rst' = [rst EXCEPT !.step = "stop"]
          \/ \E p : rst' = [rst EXCEPT !.step = "lock", !.port = p]
      BY <2>1 DEF RestartChecks
    <3>2. rst.step # "none"
      BY <2>1 DEF RestartChecks
    <3> QED
      BY <1>0, <3>1, <3>2 DEF RestartCall
  <2>2. CASE RestartStops \/ RestartStarts
    BY <1>0, <2>2 DEF RestartStops, RestartStarts, RestartCall
  <2>3. ~RestartLocks /\ ~RestartCommissions
    BY <1>0 DEF RestartLocks, RestartCommissions, Nobody
  <2> QED
    BY <1>5, <2>1, <2>2, <2>3 DEF RestartWorks
<1>6. ASSUME BackoffElapses \/ WorktreeComesAndGoes \/ UNCHANGED wild PROVE UNCHANGED rst
  BY <1>6 DEF BackoffElapses, WorktreeComesAndGoes, wild
<1> QED
  BY <1>1, <1>2, <1>3, <1>4, <1>5, <1>6 DEF WildcardNext

\* reloadMu and the stage of the daemon
LEMMA HolderStep ==
  ASSUME WildcardNext,
         (DaemonWorks \/ ReloadBegins \/ Drain) => JobRetires \/ StopAllBegins \/ Drain
  PROVE  run' \in {run, "draining"} /\ (StopAllBegins \/ job' = job \/ job'.by # "stop")
<1>1. ASSUME NEW q \in Requests,
             \/ RequestWorks(q) \/ ClientLeaves(q)
             \/ \E r \in Registered : OperatorFinds(q, r)
             \/ ArrivesGuarded(q) \/ Unrouted(q)
      PROVE  UNCHANGED <<job, run>>
  BY <1>1 DEF RequestWorks, PassesSwitch, AsksForStart, Starts, ClientLeaves, OperatorFinds,
     ArrivesGuarded, ArrivesAt, Unrouted
<1>2. ASSUME NEW q \in Requests, Resolves(q) \/ GivesUp(q) PROVE UNCHANGED <<job, run>>
  BY <1>2 DEF Resolves, GivesUp, Enters, Checks, FindsPort, Registers, Routes, Finishes, Wakes, vars
<1>3. ASSUME NEW r \in DOMAIN reg,
             StarterRuns(r) \/ ProcStops(r) \/ StopEnds(r) \/ RestartBegins(r)
      PROVE  UNCHANGED <<job, run>>
  BY <1>3 DEF StarterRuns, ProcStops, StopEnds, ProcExits, RestartBegins, vars
<1>4. ASSUME NEW d \in drops, DropWorks(d) PROVE UNCHANGED <<job, run>>
  BY <1>4 DEF DropWorks, DropFinds, DropRetires, DropForgets, vars
<1>5. CASE RestartLocks
  <2>1. run' = run /\ (job' = job \/ job'.by = "restart")
    BY <1>5 DEF RestartLocks
  <2> QED
    BY <2>1
<1>6. CASE RestartStarts
  <2>1. run' = run /\ (job' = job \/ job' = Nobody)
    BY <1>6 DEF RestartStarts
  <2> QED
    BY <2>1 DEF Nobody
<1>7. CASE RestartChecks \/ RestartStops \/ RestartCommissions \/ BackoffElapses \/ WorktreeComesAndGoes
  BY <1>7 DEF RestartChecks, RestartStops, RestartCommissions, BackoffElapses,
     WorktreeComesAndGoes, vars
<1>8. CASE JobRetires \/ StopAllBegins \/ Drain
  BY <1>8 DEF JobRetires, StopAllBegins, Drain
<1> QED
  BY <1>1, <1>2, <1>3, <1>4, <1>5, <1>6, <1>7, <1>8 DEF WildcardNext, RestartWorks

LEMMA HaltStep ==
  ASSUME FatesApart, Fated, ResolverInv, DynamicInv, HaltInv, WildcardNext,
         (DaemonWorks \/ ReloadBegins \/ Drain) => JobRetires \/ StopAllBegins \/ Drain
  PROVE  HaltInv'
<1>1. HeapHalts
  BY HeapStep
<1>2. RequestsBehave
  BY <1>1, RequestStep
<1>3. \A q \in Requests : CallFits(q)'
  BY <1>1, CallStep
<1>4. DOMAIN reg \subseteq DOMAIN reg' /\ DOMAIN sw \subseteq DOMAIN sw'
      /\ \A q \in Requests : RequestFits(q)
  BY <1>1 DEF HeapHalts, HaltInv, Linked
<1>5. \A q \in Requests : RequestFits(q)'
  BY <1>2, <1>4 DEF RequestsBehave, RequestFits
<1>6. Linked' /\ Ended' /\ Needed'
  BY <1>1, <1>3, <1>5 DEF HeapHalts, Linked
<1>7. CASE StopAllBegins
  <2>1. /\ run = "draining" /\ run' = run /\ reg' = reg /\ table' = table
        /\ job' = [by |-> "stop", step |-> "retire",
                   items |-> {[reg |-> r, keep |-> FALSE] : r \in Registered}]
    BY <1>7 DEF StopAllBegins, heap
  <2>2. ASSUME NEW r \in Registered PROVE InHand(r)'
    <3>1. [reg |-> r, keep |-> FALSE] \in job'.items /\ job'.by = "stop"
      BY <2>1
    <3>2. [reg |-> r, keep |-> FALSE].reg = r
      OBVIOUS
    <3> QED
      BY <3>1, <3>2 DEF InHand
  <2>3. \A r \in DOMAIN reg : r \notin Registered => reg[r].retire = "done"
    BY DEF DynamicInv, OutOfTable
  <2>4. Covered'
    BY <2>1, <2>2, <2>3 DEF Covered
  <2> QED
    BY <1>6, <2>4 DEF HaltInv
<1>8. CASE job'.by # "stop"
  BY <1>6, <1>8 DEF HaltInv, Covered
<1>9. CASE job' = job /\ job.by = "stop"
  <2>1. /\ run # "running" /\ run' # "running"
        /\ \A r \in DOMAIN reg :
             InHand(r) \/ reg[r].retire = "done" \/ Late(r) \/ (Cold(r) /\ Spared(r))
    BY <1>9, HolderStep DEF HaltInv, Covered
  <2>2. \A q \in Requests : req'[q].step = "start" => req'[q] = req[q] /\ req[q].reg \in DOMAIN reg
    BY <1>2, <1>4, <2>1 DEF RequestsBehave, RequestFits
  <2>3. rst'.step = "none" \/ (rst.step # "none" /\ rst'.reg = rst.reg /\ rst.reg \in DOMAIN reg)
    BY <1>9, RestartStep DEF DynamicInv, Restarting
  <2>4. ASSUME NEW r \in DOMAIN reg'
        PROVE  InHand(r)' \/ reg'[r].retire = "done" \/ Late(r)' \/ (Cold(r)' /\ Spared(r)')
    <3>1. CASE r \notin DOMAIN reg
      <4>1. Spared(r)'
        BY <2>2, <2>3, <3>1 DEF Spared
      <4> QED
        BY <1>1, <1>9, <3>1, <4>1 DEF HeapHalts
    <3>2. CASE r \in DOMAIN reg /\ InHand(r)
      BY <1>9, <3>2 DEF InHand
    <3>3. CASE r \in DOMAIN reg /\ reg[r].retire = "done"
      BY <1>1, <3>3 DEF HeapHalts
    <3>4. CASE r \in DOMAIN reg /\ Cold(r) /\ Spared(r)
      <4>1. Spared(r)'
        BY <2>2, <2>3, <3>4 DEF Spared
      <4> QED
        BY <1>1, <3>4, <4>1 DEF HeapHalts
    <3>5. CASE r \in DOMAIN reg /\ Late(r)
      BY <1>1, <3>5 DEF HeapHalts
    <3> QED
      BY <2>1, <3>1, <3>2, <3>3, <3>4, <3>5
  <2>5. Covered'
    BY <2>1, <2>4 DEF Covered
  <2> QED
    BY <1>6, <2>5 DEF HaltInv
<1> QED
  BY <1>7, <1>8, <1>9, HolderStep

\* When stopAll is through, every project it found is stopped, what it did not
\* find is always on or was never started, and no listener has anything left to
\* be open for.
LEMMA StopAllHalts ==
  ASSUME DynamicInv, HaltInv, StopAllEnds
  PROVE  /\ \A r \in DOMAIN reg' : reg'[r].proc # "down" =>
              Dynamic(r) /\ reg[r].cfg.always /\ \A i \in job.items : i.reg # r
         /\ \A b \in DOMAIN bnd' : ~bnd'[b].open
<1> DEFINE E == {e \in DOMAIN ent : ent[e].bind # 0 /\ \E n \in EntryNames : entries[n] = e}
<1>1. /\ job.by = "stop" /\ reg' = reg
      /\ bnd' = [b \in DOMAIN bnd |->
                   IF \E e \in E : ent[e].bind = b THEN [bnd[b] EXCEPT !.open = FALSE] ELSE bnd[b]]
  BY DEF StopAllEnds, UnbindEntries
<1>2. \A r \in DOMAIN reg : InHand(r) => reg[r].retire = "done"
  BY DEF StopAllEnds, AllRetired, InHand
<1>3. \A r \in DOMAIN reg : reg[r].retire = "done" \/ Late(r) \/ Cold(r)
  BY <1>1, <1>2 DEF HaltInv, Covered
<1>4. \A r \in DOMAIN reg : reg[r].proc # "down" =>
        Dynamic(r) /\ reg[r].cfg.always /\ \A i \in job.items : i.reg # r
  BY <1>1, <1>2, <1>3 DEF HaltInv, Ended, Cold, Late, InHand
<1>5. rst.step # "swap"
  BY <1>1 DEF DynamicInv, Restarting, Swap
<1>6. \A b \in DOMAIN bnd : bnd[b] \in AnyListener /\ b # 0
  BY DEF DynamicInv, Formed
<1>7. ASSUME NEW r \in Registered
      PROVE  reg[r].bind \in DOMAIN bnd => bnd[reg[r].bind].entry # 0
  <2>1. r \in DOMAIN reg /\ (Stands(r) \/ Leaves(r))
    BY DEF DynamicInv, Made, InTable, Registered
  <2>2. CASE Leaves(r)
    BY <1>6, <2>2 DEF Leaves
  <2>3. CASE Stands(r)
    <3>1. reg[r].retire = "no"
      BY <1>5, <2>3 DEF Stands, Swapping
    <3>2. Dynamic(r)
      BY <1>3, <2>1, <3>1 DEF Cold, Late
    <3> QED
      BY <2>3, <3>2 DEF Stands, OnListener, Dynamic
  <2> QED
    BY <2>1, <2>2, <2>3
<1>8. ASSUME NEW b \in DOMAIN bnd, bnd[b].open PROVE bnd[b].entry # 0
  <2> SUFFICES ASSUME bnd[b].entry = 0 PROVE FALSE
    OBVIOUS
  <2>1. bnd[b].members > 0 /\ bnd[b].members = Cardinality(On(b))
    BY <1>8 DEF HaltInv, Needed, DynamicInv, Counted
  <2>2. PICK r \in Registered : reg[r].bind = b
    <3>1. On(b) # {}
      BY <2>1, FS_EmptySet
    <3> QED
      BY <3>1 DEF On
  <2> QED
    BY <1>7, <2>2
<1>9. ASSUME NEW b \in DOMAIN bnd PROVE ~bnd'[b].open
  <2>1. CASE bnd[b].open
    <3>1. bnd[b].entry \in Up /\ ent[bnd[b].entry].bind = b /\ bnd[b].entry \in DOMAIN ent
      BY <1>8, <2>1 DEF DynamicInv, EntriesAreUp
    <3>2. bnd[b].entry \in E
      BY <1>6, <3>1 DEF Up
    <3>3. bnd'[b] = [bnd[b] EXCEPT !.open = FALSE]
      BY <1>1, <3>1, <3>2
    <3> QED
      BY <1>6, <3>3 DEF AnyListener
  <2>2. CASE ~bnd[b].open
    BY <1>1, <1>6, <2>2 DEF AnyListener
  <2> QED
    BY <2>1, <2>2
<1> QED
  BY <1>1, <1>4, <1>9

-----------------------------------------------------------------------------
(* The start of the daemon *)

\* No request has come, and nothing is resolved, dropped or restarted.
AtRest ==
  /\ res = [q \in Requests |-> Outside] /\ drops = {} /\ rst = NoRestart
  /\ \A q \in Requests : req[q].step = "away"

\* What is known of the daemon without dynamic projects, and that while Run
\* binds, no listener is closed.
Fresh == DaemonInv /\ ServiceInv /\ TableInv /\ AtRest /\ \A b \in DOMAIN bnd : bnd[b].open
Booting == Fresh /\ job.by = "boot"
Booted == Fresh /\ Quiet /\ \A r \in DOMAIN reg : table[reg[r].name] = r

\* A start that gave up: nobody can reach it any more.
Failed ==
  /\ DaemonInv /\ AtRest /\ job.by \in {"none", "stop"}
  /\ \A b \in DOMAIN bnd : ~bnd[b].open

LEMMA BootedServes == Booted => DynamicInv
<1> SUFFICES ASSUME Booted PROVE DynamicInv
  OBVIOUS
<1>0. /\ DaemonInv /\ ServiceInv /\ TableInv /\ AtRest /\ Quiet
      /\ \A b \in DOMAIN bnd : bnd[b].open
      /\ \A r \in DOMAIN reg : table[reg[r].name] = r
  BY DEF Booted, Fresh
<1>1. job = Nobody /\ job.by = "none" /\ run = "running" /\ Live
  BY <1>0 DEF Quiet, Nobody, Live
<1>2. Serves /\ AllRouted /\ \A r \in DOMAIN reg : reg[r].drive # "none"
  BY <1>0, <1>1 DEF ServiceInv, TableInv, RoutedInv, DrivenInv
<1>3. \A r : ~Kept(r)
  BY <1>1 DEF Kept, Awaits
<1>4. ObjectsAreTyped /\ Shapes /\ Pointers
  BY <1>0, ShapesOf DEF DaemonInv
<1>5. /\ \A q \in Requests : At(q, "away") /\ ~At(q, "route")
      /\ drops = {} /\ rst.step = "none" /\ rst \in RestartCall /\ \A x : ~Swapping(x)
  BY <1>0 DEF AtRest, Outside, At, NoRestart, RestartCall, Swapping
<1>6. \A r \in DOMAIN reg :
        /\ r \in Registered /\ InUse(r) /\ reg[r].retire = "no" /\ ~Dynamic(r) /\ reg[r].entry = 0
        /\ reg[r].name \in Names /\ r # 0
  BY <1>0, <1>3, <1>4, QuietIsInUse DEF Registered, InUse, ObjectsAreTyped, Dynamic
<1>7. \A r \in Registered : r \in DOMAIN reg
  BY <1>4 DEF Registered, Pointers
<1>8. Formed
  <2>1. Registration \subseteq AnyProject
    BY DEF Registration, AnyProject
  <2>2. Routings \subseteq AnyRoutes
    BY DEF Routings, AnyRoutes, AnyHost
  <2>3. Listener \subseteq AnyListener
    BY <2>2 DEF Listener, AnyListener
  <2>4. reg \in Seq(AnyProject) /\ bnd \in Seq(AnyListener)
    BY <1>4, <2>1, <2>3 DEF Shapes
  <2> QED
    BY <1>4, <1>5, <2>4 DEF Formed, Shapes
<1>9. EntriesAreUp
  <2>1. ASSUME NEW e \in Up
        PROVE  e \in DOMAIN ent /\ Bound(e) /\ bindings[ent[e].cfg.sup] = ent[e].bind
    <3>1. PICK n \in EntryNames : entries[n] = e /\ e # 0
      BY DEF Up
    <3>2. e \in DOMAIN ent /\ Bound(e)
      BY <1>1, <1>2, <1>4, <3>1 DEF Pointers, Serves, EntriesServe, PendingEntry
    <3> QED
      BY <1>2, <3>2 DEF Bound, Serves, Sockets
  <2>2. ASSUME NEW b \in DOMAIN bnd, bnd[b].entry # 0
        PROVE  /\ bnd[b].entry \in Up /\ ent[bnd[b].entry].bind = b
               /\ DOMAIN bnd[b].routes = {}
    <3>1. bnd[b].entry \in Up /\ ent[bnd[b].entry].bind = b
      BY <1>0, <2>2 DEF DaemonInv, Listeners, Up
    <3>2. ASSUME NEW h \in DOMAIN bnd[b].routes PROVE FALSE
      <4> DEFINE s == bnd[b].routes[h]
      <4>1. s \in DOMAIN sw /\ sw[s] # 0
        BY <1>0, <1>1, <1>4 DEF DaemonInv, RoutesLead, Awaits, Pointers
      <4>2. sw[s] \in DOMAIN reg /\ reg[sw[s]].sw = s
        BY <1>4, <4>1 DEF Pointers
      <4>3. reg[sw[s]].bind = b
        BY <1>0, <4>2 DEF DaemonInv, RoutesAreOwned
      <4>4. b # 0
        BY <1>4 DEF ObjectsAreTyped
      <4> QED
        BY <1>2, <2>2, <4>2, <4>3, <4>4 DEF Serves, Apart
    <3> QED
      BY <3>1, <3>2
  <2> QED
    BY <2>1, <2>2 DEF EntriesAreUp
<1>10. ASSUME NEW r \in DOMAIN reg
       PROVE  /\ reg[r].bind \in DOMAIN bnd /\ reg[r].sw \in DOMAIN sw
              /\ sw[reg[r].sw] = r /\ OnListener(r) /\ Routed(r)
  <2>1. /\ reg[r].bind # 0 /\ bnd[reg[r].bind].open /\ reg[r].sw # 0 /\ sw[reg[r].sw] = r /\ Routed(r)
    BY <1>2, <1>3, <1>6 DEF Serves, InService, AllRouted
  <2>2. reg[r].bind \in DOMAIN bnd /\ bnd[reg[r].bind].port = reg[r].cfg.sup /\ reg[r].sw \in DOMAIN sw
    BY <1>4, <2>1 DEF Pointers
  <2>3. bindings[reg[r].cfg.sup] = reg[r].bind /\ bnd[reg[r].bind].entry = 0
    BY <1>2, <2>1, <2>2 DEF Serves, Sockets, Apart
  <2> QED
    BY <1>6, <2>1, <2>2, <2>3 DEF OnListener
<1>11. Made
  <2>1. \A r, x \in DOMAIN reg : reg[r].sw = reg[x].sw => r = x
    BY <1>2, <1>6 DEF Serves, InService
  <2> QED
    BY <1>4, <1>6, <1>10, <2>1 DEF Made, Pointers
<1>12. InTable /\ OutOfTable
  BY <1>2, <1>5, <1>6, <1>7, <1>10 DEF InTable, OutOfTable, Stands
<1>13. Counted
  <2>1. \A b : Members(b) = On(b)
    BY <1>3, <1>6, <1>7 DEF Members, On
  <2> QED
    BY <1>0, <2>1 DEF Counted, DaemonInv, Listeners
<1>14. Calls /\ DropsAreDue /\ Restarting
  BY <1>1, <1>5 DEF Calls, DropsAreDue, Restarting
<1> QED
  BY <1>8, <1>9, <1>11, <1>12, <1>13, <1>14 DEF DynamicInv

\* What a worktree is given at the start is its fate for good, and one that is
\* gone was fated to.
LEMMA FatedStays == Fated /\ [WildcardNext]_wvars => Fated'
<1> SUFFICES ASSUME Fated, [WildcardNext]_wvars PROVE Fated'
  OBVIOUS
<1>1. CASE WorktreeComesAndGoes
  <2>1. PICK l \in Labels :
          "vanish" \in fate[l] /\ tree' = IF l \in tree THEN tree \ {l} ELSE tree \cup {l}
    BY <1>1 DEF WorktreeComesAndGoes
  <2>2. fate' = fate /\ tree \ {l} \subseteq tree'
    BY <1>1, <2>1 DEF WorktreeComesAndGoes
  <2> QED
    BY <2>1, <2>2 DEF Fated
<1>2. CASE UNCHANGED place
  BY <1>2 DEF Fated, place
<1>3. CASE \E q \in Requests : ArrivesGuarded(q) \/ Unrouted(q) \/ Resolves(q) \/ GivesUp(q)
  BY <1>2, <1>3 DEF ArrivesGuarded, Unrouted, Resolves, GivesUp, Enters, Checks, FindsPort,
     Registers, Routes, Finishes, Wakes, wild
<1>4. CASE \E r \in DOMAIN reg :
             \/ (StarterRuns(r) \/ ProcStops(r)) /\ UNCHANGED wild
             \/ StopEnds(r) \/ RestartBegins(r)
  BY <1>2, <1>4 DEF StopEnds, RestartBegins, wild
<1>5. CASE \E d \in drops : DropWorks(d)
  BY <1>2, <1>5 DEF DropWorks, DropFinds, DropRetires, DropForgets, wild
<1>6. CASE RestartWorks \/ BackoffElapses
  BY <1>2, <1>6 DEF RestartWorks, RestartChecks, RestartStops, RestartLocks, RestartCommissions,
     RestartStarts, BackoffElapses
<1>7. CASE UNCHANGED wild \/ UNCHANGED wvars
  BY <1>2, <1>7 DEF wild, wvars
<1> QED
  BY <1>1, <1>3, <1>4, <1>5, <1>6, <1>7 DEF WildcardNext

\* Files that are not read again do not move a project.
LEMMA NoReloadNoMove == Files = {} => CanGoBack
  BY DEF CanGoBack, SameRoute

LEMMA BootedHalts == Booted => HaltInv
<1> SUFFICES ASSUME Booted PROVE HaltInv
  OBVIOUS
<1>1. /\ Pointers /\ Teardown /\ Listeners /\ job = Nobody
      /\ \A q \in Requests : req[q].step = "away" /\ res[q].reg = 0
  BY DEF Booted, Fresh, DaemonInv, Quiet, AtRest, Outside
<1>2. Linked
  BY <1>1 DEF Linked, SwitchFits, RoutesFit, RequestFits, CallFits, Pointers
<1>3. Ended /\ Needed
  BY <1>1 DEF Ended, Needed, Teardown, Listeners
<1>4. Covered
  BY <1>1 DEF Covered, Nobody
<1> QED
  BY <1>2, <1>3, <1>4 DEF HaltInv

\* While Run binds, and once it has given up, nobody comes: only Run itself
\* and processes take steps.
LEMMA RestIsPlain ==
  ASSUME DaemonInv, AtRest, run # "running", Serving => \A b \in DOMAIN bnd : ~bnd[b].open,
         [WildcardNext]_wvars
  PROVE  \/ (DaemonWorks \/ ReloadBegins \/ Drain) /\ UNCHANGED wild
         \/ [Next]_vars /\ UNCHANGED <<res, drops, rst, req, job, run, bnd>>
<1>0. /\ drops = {} /\ rst.step = "none"
      /\ \A q \in Requests : res[q].step = "away" /\ req[q].step = "away"
  BY DEF AtRest, NoRestart, Outside
<1>1. \A r \in DOMAIN reg : ~Dynamic(r)
  BY ShapesOf DEF DaemonInv, ObjectsAreTyped, Dynamic
<1>2. ASSUME NEW q \in Requests, (RequestWorks(q) \/ ClientLeaves(q)) /\ UNCHANGED wild
      PROVE  FALSE
  BY <1>0, <1>2 DEF RequestWorks, PassesSwitch, AsksForStart, Starts, ClientLeaves, Step
<1>3. ASSUME NEW q \in Requests,
             \/ \E r \in Registered : OperatorFinds(q, r) /\ Operated(r) /\ UNCHANGED wild
             \/ ArrivesGuarded(q) \/ Unrouted(q)
      PROVE  FALSE
  BY <1>3 DEF OperatorFinds, ArrivesGuarded, ArrivesAt, Unrouted
<1>4. ASSUME NEW q \in Requests, Resolves(q) \/ GivesUp(q) PROVE FALSE
  BY <1>0, <1>4 DEF Resolves, GivesUp, Enters, Checks, FindsPort, Registers, Routes, Finishes,
     Wakes, At
<1>5. ASSUME NEW r \in DOMAIN reg,
             ((StarterRuns(r) \/ ProcStops(r)) /\ UNCHANGED wild) \/ StopEnds(r)
      PROVE  Next /\ UNCHANGED <<res, drops, rst, req, job, run, bnd>>
  <2>1. ProcWorks(r) /\ UNCHANGED <<res, drops, rst>>
    BY <1>1, <1>5 DEF ProcWorks, StopEnds, wild
  <2>2. UNCHANGED <<req, job, run, bnd>>
    BY <1>5 DEF StarterRuns, ProcStops, StopEnds, ProcExits
  <2> QED
    BY <2>1, <2>2 DEF Next
<1>6. ~(\E r \in DOMAIN reg : RestartBegins(r)) /\ ~RestartWorks
  BY <1>0 DEF RestartBegins, RestartWorks, RestartChecks, RestartStops, RestartLocks,
     RestartCommissions, RestartStarts
<1>7. CASE BackoffElapses \/ WorktreeComesAndGoes \/ UNCHANGED wvars
  BY <1>7 DEF BackoffElapses, WorktreeComesAndGoes, wvars, vars, wild, heap
<1> QED
  BY <1>0, <1>2, <1>3, <1>4, <1>5, <1>6, <1>7 DEF WildcardNext

\* While Run binds, its own steps are all the daemon does.
LEMMA BootingIsPlain ==
  ASSUME Booting, run = "booting", [WildcardNext]_wvars
  PROVE  /\ [Next]_vars /\ UNCHANGED <<res, drops, rst, req>>
         /\ BootBinds \/ BootFails \/ BootEnds \/ UNCHANGED <<job, run, bnd>>
<1>0. job.by = "boot" /\ job # Nobody
  BY DEF Booting, Nobody
<1>1. DaemonInv /\ AtRest /\ ~Serving
  BY DEF Booting, Fresh, Serving
<1>2. CASE (DaemonWorks \/ ReloadBegins \/ Drain) /\ UNCHANGED wild
  <2>1. CASE BootBinds \/ BootFails \/ BootEnds
    <3>1. UNCHANGED req
      BY <2>1 DEF BootBinds, BootFails, BootEnds
    <3> QED
      BY <1>2, <2>1, <3>1 DEF Next, DaemonWorks, wild
  <2>2. ~(ReloadBegins \/ Drain \/ StopAllBegins \/ StopAllEnds)
    BY <1>0 DEF ReloadBegins, Drain, StopAllBegins, StopAllEnds
  <2>3. ~(ReloadDetaches \/ ReloadUnbinds \/ ReloadEnds \/ JobRetires)
    BY <1>0 DEF ReloadDetaches, ReloadUnbinds, ReloadEnds, JobRetires
  <2>4. \A n : ~(ReloadAdds(n) \/ ReloadReplaces(n) \/ ReloadRestores(n) \/ ReloadLoses(n)
                 \/ ReloadBindsEntry(n))
    BY <1>0 DEF ReloadAdds, ReloadReplaces, ReloadRestores, ReloadLoses, ReloadBindsEntry, Rebuild
  <2> QED
    BY <1>2, <2>1, <2>2, <2>3, <2>4 DEF DaemonWorks
<1> QED
  BY <1>1, <1>2, RestIsPlain

\* Run binds one listener after the other; then the daemon serves what is in
\* its table, or gives up.
LEMMA BootingGoesOn ==
  ASSUME Files = {}, Booting, run = "booting", [WildcardNext]_wvars
  PROVE  /\ run' = "booting" => Booting'
         /\ run' = "running" => Booted'
         /\ run' = "draining" => Failed'
         /\ run' # "booting" => job'.by = "none" /\ run' \in {"running", "draining"}
<1>0. DaemonInv /\ ServiceInv /\ ClaimsInv /\ RoutedInv /\ DrivenInv /\ AtRest /\ job.by = "boot"
  BY DEF Booting, Fresh, TableInv
<1>1. [Next]_vars /\ UNCHANGED <<res, drops, rst, req>>
  BY BootingIsPlain
<1>2. DaemonInv'
  BY <1>0, <1>1, NextKeeps
<1>3. ServiceInv'
  BY <1>0, <1>1, <1>2, StepServes
<1>4. ClaimsInv' /\ RoutedInv' /\ DrivenInv'
  BY <1>0, <1>1, <1>2, NoReloadNoMove, StepClaims, StepRouted, StepDrives
<1>5. AtRest'
  BY <1>0, <1>1 DEF AtRest
<1>6. (\A b \in DOMAIN bnd' : bnd'[b].open) => Fresh'
  BY <1>2, <1>3, <1>4, <1>5 DEF Fresh, TableInv
<1>7. \A b \in DOMAIN bnd : bnd[b].open
  BY DEF Booting, Fresh
<1>8. Nobody.by = "none"
  BY DEF Nobody
<1>9. CASE BootBinds
  <2>1. job'.by = "boot" /\ run' = "booting"
    BY <1>0, <1>9, BootBindsEffect
  <2>2. \A b \in DOMAIN bnd' : bnd'[b].open
    <3>1. CASE \E r, st, s, b : Attached(r, st, s, b)
      BY <1>7, <3>1 DEF Attached
    <3>2. CASE \E e, rec, b : EntryBound(e, rec, b)
      BY <1>7, <3>2 DEF EntryBound
    <3> QED
      BY <1>0, <1>9, <3>1, <3>2, BootBindsEffect
  <2> QED
    BY <1>6, <2>1, <2>2 DEF Booting
<1>10. CASE BootFails
  <2>1. job' = Nobody /\ run' = "draining"
    BY <1>10 DEF BootFails
  <2>2. \A b \in DOMAIN bnd' : ~bnd'[b].open
    <3>1. bnd' = [b \in DOMAIN bnd |-> [bnd[b] EXCEPT !.open = FALSE]]
      BY <1>10 DEF BootFails
    <3>2. \A b \in DOMAIN bnd : bnd[b] \in Listener
      BY <1>0, ShapesOf DEF DaemonInv, ObjectsAreTyped
    <3> QED
      BY <3>1, <3>2 DEF Listener
  <2> QED
    BY <1>2, <1>5, <1>8, <2>1, <2>2 DEF Failed
<1>11. CASE BootEnds
  <2>1. job' = Nobody /\ run' = "running" /\ bnd' = bnd /\ table' = table
    BY <1>11 DEF BootEnds
  <2>2. DOMAIN reg' = DOMAIN reg /\ \A r \in DOMAIN reg : reg'[r].name = reg[r].name
    <3>1. DOMAIN reg' = DOMAIN reg /\ \A r \in DOMAIN reg : reg'[r] = Activated(reg[r])
      BY <1>11 DEF BootEnds
    <3> QED
      BY <1>0, <3>1, ShapesOf, ActivateEffect DEF DaemonInv, ObjectsAreTyped
  <2>3. \A r \in DOMAIN reg : table[reg[r].name] = r
    BY <1>0 DEF ServiceInv, Live, BootSoFar
  <2> QED
    BY <1>6, <1>7, <1>8, <2>1, <2>2, <2>3 DEF Booted, Quiet
<1>12. CASE UNCHANGED <<job, run, bnd>>
  BY <1>0, <1>6, <1>7, <1>12 DEF Booting
<1> QED
  BY <1>9, <1>10, <1>11, <1>12, BootingIsPlain

LEMMA RetiringClosed ==
  ASSUME DaemonInv, JobRetires, \A b \in DOMAIN bnd : ~bnd[b].open
  PROVE  \A b \in DOMAIN bnd' : ~bnd'[b].open
<1>1. run' \in Runs /\ HeapInv /\ InTeardown
  BY DEF JobRetires, DaemonInv, Shapes, Jobs, AtBoot, AtReload, AtStop, InTeardown, Nobody, HeapInv
<1>2. PICK i \in job.items : TakeOff(i.reg, i.keep) \/ RetireAndStop(i.reg) \/ StopReturns(i.reg)
  BY DEF JobRetires
<1>3. i.reg \in DOMAIN reg /\ i.keep \in BOOLEAN
  BY <1>1 DEF DaemonInv, Jobs
<1>4. CASE TakeOff(i.reg, i.keep)
  <2>1. PICK r \in DOMAIN reg, keep \in BOOLEAN : TakenOff(r, keep)
    BY <1>1, <1>3, <1>4, TakeOffEffect
  <2> QED
    BY <2>1 DEF TakenOff
<1>5. CASE RetireAndStop(i.reg) \/ StopReturns(i.reg)
  BY <1>5 DEF RetireAndStop, StopReturns
<1> QED
  BY <1>2, <1>4, <1>5

\* A start that gave up ends what it began and never serves.
LEMMA FailedGoesOn ==
  ASSUME Files = {}, Failed, run = "draining", [WildcardNext]_wvars
  PROVE  DaemonInv' /\ (run' = "draining" => Failed') /\ run' \in {"draining", "exited"}
<1>0. /\ DaemonInv /\ AtRest /\ job.by \in {"none", "stop"}
      /\ \A b \in DOMAIN bnd : ~bnd[b].open
  BY DEF Failed
<1>1. Nobody.by = "none"
  BY DEF Nobody
<1>2. CASE (DaemonWorks \/ ReloadBegins \/ Drain) /\ UNCHANGED wild
  <2>1. DaemonInv' /\ UNCHANGED <<res, drops, rst>>
    <3>1. Next /\ UNCHANGED wild
      BY <1>2 DEF Next
    <3> QED
      BY <1>0, <3>1, NextKeeps DEF wild
  <2>2. ~(BootBinds \/ BootFails \/ BootEnds \/ ReloadBegins \/ Drain)
    BY <1>0 DEF BootBinds, BootFails, BootEnds, ReloadBegins, Drain
  <2>3. ~(ReloadDetaches \/ ReloadUnbinds \/ ReloadEnds)
    BY <1>0 DEF ReloadDetaches, ReloadUnbinds, ReloadEnds
  <2>4. \A n : ~(ReloadAdds(n) \/ ReloadReplaces(n) \/ ReloadRestores(n) \/ ReloadLoses(n)
                 \/ ReloadBindsEntry(n))
    BY <1>0 DEF ReloadAdds, ReloadReplaces, ReloadRestores, ReloadLoses, ReloadBindsEntry, Rebuild
  <2>5. CASE JobRetires
    <3>1. UNCHANGED <<job, run, req>>
      BY <2>5 DEF JobRetires
    <3>2. \A b \in DOMAIN bnd' : ~bnd'[b].open
      BY <1>0, <2>5, RetiringClosed
    <3> QED
      BY <1>0, <2>1, <3>1, <3>2 DEF Failed, AtRest
  <2>6. CASE StopAllBegins
    <3>1. job'.by = "stop" /\ UNCHANGED <<run, req, bnd>>
      BY <2>6 DEF StopAllBegins, heap
    <3> QED
      BY <1>0, <2>1, <3>1 DEF Failed, AtRest
  <2>7. CASE StopAllEnds
    BY <2>1, <2>7 DEF StopAllEnds
  <2> QED
    BY <1>2, <2>2, <2>3, <2>4, <2>5, <2>6, <2>7 DEF DaemonWorks
<1>3. CASE [Next]_vars /\ UNCHANGED <<res, drops, rst, req, job, run, bnd>>
  <2>1. DaemonInv'
    BY <1>0, <1>3, NextKeeps
  <2> QED
    BY <1>0, <1>3, <2>1 DEF Failed, AtRest
<1> QED
  BY <1>0, <1>2, <1>3, RestIsPlain

-----------------------------------------------------------------------------
(* The daemon as it runs *)

\* Nobody binds or reloads: a restart or stopAll holds reloadMu.
LEMMA ServingJob ==
  ASSUME Files = {}, DynamicInv, DaemonWorks \/ ReloadBegins \/ Drain
  PROVE  JobRetires \/ StopAllBegins \/ StopAllEnds \/ Drain
<1>1. job.by \in {"none", "restart", "stop"}
  <2>1. Nobody.by = "none" /\ Swap(rst.reg).by = "restart"
    BY DEF Nobody, Swap
  <2> QED
    BY <2>1 DEF DynamicInv, Restarting, StoppingAll, AtStop
<1>2. ~(BootBinds \/ BootFails \/ BootEnds \/ ReloadBegins)
  BY <1>1 DEF BootBinds, BootFails, BootEnds, ReloadBegins
<1>3. ~(ReloadDetaches \/ ReloadUnbinds \/ ReloadEnds)
  BY <1>1 DEF ReloadDetaches, ReloadUnbinds, ReloadEnds
<1>4. \A n : ~(ReloadAdds(n) \/ ReloadReplaces(n) \/ ReloadRestores(n) \/ ReloadLoses(n)
               \/ ReloadBindsEntry(n))
  BY <1>1 DEF ReloadAdds, ReloadReplaces, ReloadRestores, ReloadLoses, ReloadBindsEntry, Rebuild
<1> QED
  BY <1>2, <1>3, <1>4 DEF DaemonWorks

LEMMA ServingKeeps ==
  ASSUME Files = {}, FatesApart, ResolverInv, Fated, DynamicInv, ~StopAllEnds,
         [WildcardNext]_wvars
  PROVE  DynamicInv'
<1>1. CASE (DaemonWorks \/ ReloadBegins \/ Drain) /\ UNCHANGED wild
  <2>1. CASE Drain
    BY <1>1, <2>1, AsideServes DEF Drain, wild, place
  <2> QED
    BY <1>1, <2>1, ServingJob, SwapRetires, StopRetires, StopBeginsServes
<1>2. ASSUME NEW q \in Requests,
             \/ (RequestWorks(q) \/ ClientLeaves(q)) /\ UNCHANGED wild
             \/ \E r \in Registered : OperatorFinds(q, r) /\ Operated(r) /\ UNCHANGED wild
      PROVE  DynamicInv'
  BY <1>2, BehindServes
<1>3. ASSUME NEW q \in Requests, ArrivesGuarded(q) \/ Unrouted(q) PROVE DynamicInv'
  BY <1>3, ArrivesServes, UnroutedServes
<1>4. ASSUME NEW q \in Requests, Resolves(q) \/ GivesUp(q) PROVE DynamicInv'
  BY <1>4, EntersServes, FindingServes, RegistersServes, RoutesServes, FinishesServes,
     WakesServes DEF Resolves
<1>5. ASSUME NEW r \in DOMAIN reg,
             \/ (StarterRuns(r) \/ ProcStops(r)) /\ UNCHANGED wild
             \/ StopEnds(r) \/ RestartBegins(r)
      PROVE  DynamicInv'
  BY <1>5, ProcServes, RestartBeginsServes
<1>6. ASSUME NEW d \in drops, DropWorks(d) PROVE DynamicInv'
  BY <1>6, DropServes
<1>7. CASE RestartWorks
  BY <1>7, RestartChecksServes, RestartTurnsServe, RestartLocksServes, RestartCommissionsServes
     DEF RestartWorks
<1>8. CASE BackoffElapses \/ WorktreeComesAndGoes \/ UNCHANGED wvars
  BY <1>8, AsideServes DEF BackoffElapses, WorktreeComesAndGoes, wvars, vars, wild, place
<1> QED
  BY <1>1, <1>2, <1>3, <1>4, <1>5, <1>6, <1>7, <1>8 DEF WildcardNext

LEMMA HaltRests ==
  ASSUME HaltInv, UNCHANGED <<reg, sw, bnd, table, job, run, req, res, rst>>
  PROVE  HaltInv'
<1>1. Linked'
  BY DEF HaltInv, Linked, SwitchFits, RoutesFit, RequestFits, CallFits
<1>2. Ended' /\ Needed'
  BY DEF HaltInv, Ended, Needed
<1>3. Covered'
  BY DEF HaltInv, Covered, InHand, Cold, Late, Dynamic, Spared
<1> QED
  BY <1>1, <1>2, <1>3 DEF HaltInv

\* The daemon serves, until stopAll is through.
LEMMA ServingGoesOn ==
  ASSUME Files = {}, FatesApart, ResolverInv, Fated, DynamicInv, HaltInv, ~StopAllEnds,
         [WildcardNext]_wvars
  PROVE  DynamicInv' /\ HaltInv' /\ run' \in {run, "draining"}
<1>1. DynamicInv'
  BY ServingKeeps
<1>2. CASE UNCHANGED wvars
  <2>1. UNCHANGED <<reg, sw, bnd, table, job, run, req, res, rst>>
    BY <1>2 DEF wvars, vars, heap, wild
  <2> QED
    BY <1>1, <2>1, HaltRests
<1>3. CASE WildcardNext
  <2>1. (DaemonWorks \/ ReloadBegins \/ Drain) => JobRetires \/ StopAllBegins \/ Drain
    BY ServingJob
  <2> QED
    BY <1>1, <1>3, <2>1, HaltStep, HolderStep
<1> QED
  BY <1>2, <1>3

\* After the boot and without reloads, reloadMu is held by a restart or by the
\* shutdown; a daemon that does not serve any more does not begin to.
AfterBoot == job.by \in {"none", "stop", "restart"}

LEMMA AfterBootStays ==
  ASSUME Files = {}, run # "booting", AfterBoot, [WildcardNext]_wvars
  PROVE  /\ AfterBoot' /\ run' # "booting"
         /\ run' = "running" => run = "running"
         /\ run' = "draining" => run \in {"running", "draining"}
<1>0. Nobody.by = "none"
  BY DEF Nobody
<1>1. CASE UNCHANGED <<job, run>>
  BY <1>1 DEF AfterBoot
<1>2. CASE (DaemonWorks \/ ReloadBegins \/ Drain) /\ UNCHANGED wild
  <2>1. ~(BootBinds \/ BootFails \/ BootEnds \/ ReloadBegins)
    BY DEF BootBinds, BootFails, BootEnds, ReloadBegins, AfterBoot
  <2>2. ~(ReloadDetaches \/ ReloadUnbinds \/ ReloadEnds)
    BY DEF ReloadDetaches, ReloadUnbinds, ReloadEnds, AfterBoot
  <2>3. \A n : ~(ReloadAdds(n) \/ ReloadReplaces(n) \/ ReloadRestores(n) \/ ReloadLoses(n)
                 \/ ReloadBindsEntry(n))
    BY DEF ReloadAdds, ReloadReplaces, ReloadRestores, ReloadLoses, ReloadBindsEntry, Rebuild,
       AfterBoot
  <2>4. CASE JobRetires
    BY <1>1, <2>4 DEF JobRetires
  <2>5. CASE StopAllBegins
    <3>1. job'.by = "stop" /\ run' = run
      BY <2>5 DEF StopAllBegins
    <3> QED
      BY <3>1 DEF AfterBoot
  <2>6. CASE StopAllEnds \/ Drain
    BY <1>0, <2>6 DEF StopAllEnds, Drain, AfterBoot
  <2> QED
    BY <1>2, <2>1, <2>2, <2>3, <2>4, <2>5, <2>6 DEF DaemonWorks
<1>3. ASSUME NEW q \in Requests,
             \/ (RequestWorks(q) \/ ClientLeaves(q)) /\ UNCHANGED wild
             \/ \E r \in Registered : OperatorFinds(q, r) /\ Operated(r) /\ UNCHANGED wild
             \/ ArrivesGuarded(q) \/ Unrouted(q)
      PROVE  UNCHANGED <<job, run>>
  BY <1>3 DEF RequestWorks, PassesSwitch, AsksForStart, Starts, ClientLeaves, OperatorFinds,
     ArrivesGuarded, ArrivesAt, Unrouted
<1>4. ASSUME NEW q \in Requests, Resolves(q) \/ GivesUp(q) PROVE UNCHANGED <<job, run>>
  BY <1>4 DEF Resolves, GivesUp, Enters, Checks, FindsPort, Registers, Routes, Finishes, Wakes, vars
<1>5. ASSUME NEW r \in DOMAIN reg,
             \/ (StarterRuns(r) \/ ProcStops(r)) /\ UNCHANGED wild
             \/ StopEnds(r) \/ RestartBegins(r)
      PROVE  UNCHANGED <<job, run>>
  BY <1>5 DEF StarterRuns, ProcStops, StopEnds, ProcExits, RestartBegins, vars
<1>6. ASSUME NEW d \in drops, DropWorks(d) PROVE UNCHANGED <<job, run>>
  BY <1>6 DEF DropWorks, DropFinds, DropRetires, DropForgets, vars
<1>7. CASE RestartLocks
  <2>1. run' = run /\ (job' = job \/ job'.by = "restart")
    BY <1>7 DEF RestartLocks
  <2> QED
    BY <2>1 DEF AfterBoot
<1>8. CASE RestartStarts
  <2>1. run' = run /\ (job' = job \/ job' = Nobody)
    BY <1>8 DEF RestartStarts
  <2> QED
    BY <1>0, <2>1 DEF AfterBoot
<1>9. CASE RestartChecks \/ RestartStops \/ RestartCommissions \/ BackoffElapses
             \/ WorktreeComesAndGoes \/ UNCHANGED wvars
  BY <1>1, <1>9 DEF RestartChecks, RestartStops, RestartCommissions, BackoffElapses,
     WorktreeComesAndGoes, wvars, vars
<1> QED
  BY <1>1, <1>2, <1>3, <1>4, <1>5, <1>6, <1>7, <1>8, <1>9 DEF WildcardNext, RestartWorks

-----------------------------------------------------------------------------
(* Theorem *)

\* What holds while Run binds, and what from then on until the daemon is down
Stage ==
  /\ Fated
  /\ run = "booting" => Booting
  /\ run = "running" => DynamicInv /\ HaltInv
  /\ run = "draining" => Failed \/ (DynamicInv /\ HaltInv)
  /\ run # "booting" => AfterBoot

LEMMA StageInit == WildcardInit => Stage
<1> SUFFICES ASSUME WildcardInit PROVE Stage
  OBVIOUS
<1>1. Init /\ Fated
  BY DEF WildcardInit, Fated
<1>2. DaemonInv /\ ServiceInv /\ TableInv
  BY <1>1, InitHolds, InitServes, InitClaims, InitRouted DEF TableInv
<1>3. bnd = << >> /\ run = "booting" /\ job.by = "boot" /\ req = [q \in Requests |-> Idle]
  BY <1>1 DEF Init
<1>4. \A b \in DOMAIN bnd : bnd[b].open
  BY <1>3
<1>5. AtRest
  BY <1>3 DEF WildcardInit, AtRest, Idle
<1> QED
  BY <1>1, <1>2, <1>3, <1>4, <1>5 DEF Stage, Booting, Fresh

LEMMA StageGoesOn ==
  ASSUME Files = {}, FatesApart, ResolverInv, Stage, [WildcardNext]_wvars
  PROVE  Stage'
<1>1. Fated /\ Fated'
  BY FatedStays DEF Stage
<1>2. CASE run = "booting"
  <2>1. /\ run' = "booting" => Booting'
        /\ run' = "running" => Booted'
        /\ run' = "draining" => Failed'
        /\ run' # "booting" => job'.by = "none" /\ run' \in {"running", "draining"}
    BY <1>2, BootingGoesOn DEF Stage
  <2>2. Booted' => DynamicInv' /\ HaltInv'
    BY BootedServes, BootedHalts, PTL
  <2> QED
    BY <1>1, <2>1, <2>2 DEF Stage, AfterBoot
<1>3. CASE run # "booting"
  <2>1. /\ AfterBoot' /\ run' # "booting"
        /\ run' = "running" => run = "running"
        /\ run' = "draining" => run \in {"running", "draining"}
    BY <1>3, AfterBootStays DEF Stage
  <2>2. CASE run = "draining" /\ Failed
    BY <1>1, <2>1, <2>2, FailedGoesOn DEF Stage
  <2>3. CASE DynamicInv /\ HaltInv
    <3>1. CASE StopAllEnds
      BY <1>1, <2>1, <3>1 DEF StopAllEnds, Stage
    <3>2. CASE ~StopAllEnds
      BY <1>1, <2>1, <2>3, <3>2, ServingGoesOn DEF Stage
    <3> QED
      BY <3>1, <3>2
  <2>4. CASE run \notin {"running", "draining"}
    BY <1>1, <2>1, <2>4 DEF Stage
  <2> QED
    BY <2>2, <2>3, <2>4 DEF Stage
<1> QED
  BY <1>2, <1>3

LEMMA StageStops ==
  ASSUME Files = {}, FatesApart, ResolverInv, Stage, [WildcardNext]_wvars,
         run = "draining", run' = "exited"
  PROVE  /\ \A r \in DOMAIN reg' : reg'[r].proc # "down" =>
              Dynamic(r) /\ reg[r].cfg.always /\ \A i \in job.items : i.reg # r
         /\ \A b \in DOMAIN bnd' : ~bnd'[b].open
<1>1. CASE Failed
  <2>1. DaemonInv'
    BY <1>1, FailedGoesOn
  <2> QED
    BY <2>1 DEF DaemonInv, Teardown, Listeners
<1>2. CASE DynamicInv /\ HaltInv
  <2>1. StopAllEnds
    BY <1>2, ServingGoesOn DEF Stage
  <2> QED
    BY <1>2, <2>1, StopAllHalts
<1> QED
  BY <1>1, <1>2 DEF Stage

\* While the daemon runs and no restart holds reloadMu, a project in the table,
\* also one that a request, a vanished worktree, the idle monitor or an
\* operator has materialised, dropped or moved to another port, is served on
\* its listener, about to be routed by its resolution, or in the hands of the
\* dropDynamic that retires it, and every listener counts its members
\* (materialise, dropDynamic, dropIfVanished, restartDynamic, detach).  Assumed:
\* the configuration is not reloaded meanwhile, and a label whose worktree comes
\* and goes is not one that operators command.
THEOREM DynamicAlwaysServed ==
  ASSUME Files = {}, FatesApart
  PROVE  WildcardSpec => []DynamicIsServed
<1>1. WildcardInit => Stage
  BY StageInit
<1>2. ResolverInv /\ Stage /\ [WildcardNext]_wvars => Stage'
  BY StageGoesOn
<1>3. Stage => DynamicIsServed
  BY DynamicServes DEF Stage, Quiet, DynamicIsServed
<1> QED
  BY <1>1, <1>2, <1>3, ResolverInvariant, PTL DEF WildcardSpec

\* When stopAll returns, no listener is open, and what still has a process is
\* an always_on dynamic project that a resolution registered after stopAll had
\* cloned the table, also when a request was starting a project, a worktree had
\* vanished, a restart was under way or Run never got to serve: what is in the
\* table when stopAll clones it is retired, and what a resolution adds
\* afterwards is refused its start on demand, for the daemon drains, unless
\* activate starts it (stopAll, materialise, activate, EnsureStartedOnDemand,
\* dropDynamic, restartDynamic, unbindEntry).  Assumed as for
\* DynamicAlwaysServed: no reloads, and fates that exclude each other.
THEOREM StopAllAlwaysStops ==
  ASSUME Files = {}, FatesApart
  PROVE  WildcardSpec => OnlyLateStartersOutlive
<1> DEFINE Stopped ==
      run = "draining" /\ run' = "exited" =>
        /\ \A r \in DOMAIN reg' : reg'[r].proc # "down" =>
             Dynamic(r) /\ reg[r].cfg.always /\ \A i \in job.items : i.reg # r
        /\ \A b \in DOMAIN bnd' : ~bnd'[b].open
<1>1. WildcardInit => Stage
  BY StageInit
<1>2. ResolverInv /\ Stage /\ [WildcardNext]_wvars => Stage'
  BY StageGoesOn
<1>3. ResolverInv /\ Stage /\ [WildcardNext]_wvars => [Stopped]_wvars
  BY StageStops
<1> HIDE DEF Stopped
<1>4. WildcardSpec => [][Stopped]_wvars
  BY <1>1, <1>2, <1>3, ResolverInvariant, PTL DEF WildcardSpec
<1> QED
  BY <1>4 DEF OnlyLateStartersOutlive, Stopped
=============================================================================
