-------------------------------- MODULE Budget --------------------------------
(***************************************************************************)
(* The running-server budget (internal/daemon/budget.go): the caps on how  *)
(* many projects may be starting or running at once, the reservations that *)
(* enforce them, and the evictions that make room.                         *)
(*                                                                         *)
(* A starter is one call of startOnDemand or startManual.  Its reservation *)
(* attempts are serialized by budgetMu, but the states it reads are the    *)
(* lock-free states of the supervisors, which change under it: projects    *)
(* become ready, exit, are stopped by an operator or the idle monitor, and *)
(* are started by callers that found no need to reserve.  Where such a     *)
(* change between two reads can matter, the reads are separate steps.      *)
(*                                                                         *)
(* A project is its lifecycle state (Lifecycle says what it may do, and    *)
(* IdleStop shows the handshake behind the stop gate in detail).  A call   *)
(* is told the outcome of a startup at the moment it is decided.  Victims  *)
(* are tried in any order: nothing here depends on who was active last.    *)
(***************************************************************************)
EXTENDS Naturals, FiniteSets

CONSTANTS
  Projects,          \* every project of the configuration
  AlwaysOn,          \* the always_on ones
  Entry,             \* the worktrees of a wildcard entry
  Visited,           \* bound: the projects with requests, leases, idle stops
  Removable,         \* bound: the projects a reload takes out of service
  Starters,          \* calls of startOnDemand and startManual at one time
  Caps,              \* top-level max_running of the configurations; 0 is unset
  EntryCaps,         \* the entry's own max_running
  EvictionAttempts   \* evictionAttempts

NoOne == "nobody"

ASSUME BudgetAssumption ==
  /\ NoOne \notin Projects \cup Starters
  /\ IsFiniteSet(Projects)
  /\ AlwaysOn \subseteq Projects /\ Entry \subseteq Projects
  /\ Visited \subseteq Projects /\ Removable \subseteq Projects
  /\ Caps \subseteq Nat /\ EntryCaps \subseteq Nat
  /\ EvictionAttempts \in Nat \ {0}

VARIABLES
  state,             \* Supervisor.State of every project
  retired,           \* the projects whose supervisor is retired
  registered,        \* d.states
  parked,            \* requests in flight, open WebSockets or a lease
  gated,             \* the stop gate is armed
  cap, entryCap,     \* d.maxRunning, entry.maxRunning
  lock,              \* budgetMu, by its holder
  pc, manual, want,  \* where a starter stands, is it manual, its project
  try,               \* the locals of the tryReserveLocked call in progress
  outside            \* history: up, but started without a count of the slots

projectVars == <<state, retired, registered, parked, gated>>
capVars     == <<cap, entryCap>>
starterVars == <<lock, pc, manual, want, try>>
vars        == <<projectVars, capVars, starterVars, outside>>

Up    == {"starting", "running"}
Down  == {"stopped", "failed"}

TypeOK ==
  /\ state \in [Projects -> Up \cup Down \cup {"stopping"}]
  /\ retired \subseteq Projects /\ registered \subseteq Projects
  /\ parked \subseteq Projects /\ gated \subseteq Projects
  /\ outside \subseteq Projects
  /\ cap \in Caps /\ entryCap \in EntryCaps
  /\ lock \in Starters \cup {NoOne}
  /\ pc \in [Starters -> {"idle", "bypass", "lock", "over", "count", "judge",
                          "start", "wait", "sleep", "nil"}]
  /\ manual \in [Starters -> BOOLEAN]
  /\ want \in [Starters -> Projects \cup {NoOne}]
  /\ try \in [limit : Caps \cup {0}, entryLimit : EntryCaps \cup {0},
             table : SUBSET Projects, todo : SUBSET Projects,
             seen : SUBSET Projects, rivals : SUBSET Projects,
             blocked : BOOLEAN, attempt : 0..EvictionAttempts,
             lastErr : BOOLEAN]

\* The caps an attempt goes by, the projects it looks at (states), those that
\* countRunning has yet to look at and those it counted, those evict has yet to
\* judge, whether one was blocked, the number of counts so far that led to no
\* start, and whether one of them left an error.
NoTry ==
  [limit |-> 0, entryLimit |-> 0, table |-> {}, todo |-> {}, seen |-> {},
   rivals |-> {}, blocked |-> FALSE, attempt |-> 0, lastErr |-> FALSE]

Init ==
  /\ state = [p \in Projects |-> "stopped"]
  /\ retired = {}
  /\ registered = Projects
  /\ parked = {}
  /\ gated = {}
  /\ cap \in Caps
  /\ entryCap \in EntryCaps
  /\ lock = NoOne
  /\ pc = [s \in Starters |-> "idle"]
  /\ manual = [s \in Starters |-> FALSE]
  /\ want = [s \in Starters |-> NoOne]
  /\ try = NoTry
  /\ outside = {}

Go(s, step) == pc' = [pc EXCEPT ![s] = step]

\* The calls of the starters in S return; starter s of the rest goes on.
Answer(S, s, step) ==
  /\ pc' = [t \in Starters |-> IF t \in S THEN "idle"
                               ELSE IF t = s THEN step ELSE pc[t]]
  /\ manual' = [t \in Starters |-> IF t \in S THEN FALSE ELSE manual[t]]
  /\ want' = [t \in Starters |-> IF t \in S THEN NoOne ELSE want[t]]

\* The starters that wait for the startup of p.
Waiters(p) == {s \in Starters : pc[s] = "wait" /\ want[s] = p}

-----------------------------------------------------------------------------
(* The start itself.                                                       *)

\* EnsureStarted or EnsureStartedOnDemand for starter s; booked says whether
\* the slots were counted first.
EnsureStarted(s, booked) ==
  LET p == want[s]
      Answered == Answer({s}, s, "idle")
      Waits == Answer({}, s, "wait")
  IN
  /\ \/ /\ \/ state[p] \in {"running", "stopping"} /\ Answered
           \/ state[p] = "starting" /\ Waits
           \/ state[p] \in Down /\ p \in retired /\ Answered
           \/ state[p] = "failed" /\ ~manual[s] /\ Answered   \* in its backoff
        /\ UNCHANGED <<state, outside>>
     \/ /\ state[p] \in Down /\ p \notin retired
        /\ state' = [state EXCEPT ![p] = "starting"]
        /\ outside' = IF booked THEN outside ELSE outside \cup {p}
        /\ Waits
     \/ /\ state[p] \in Down /\ p \notin retired    \* there is nothing to run
        /\ state' = [state EXCEPT ![p] = "failed"]
        /\ Answered
        /\ UNCHANGED outside
  /\ UNCHANGED <<retired, registered, parked, gated, capVars>>

-----------------------------------------------------------------------------
(* startOnDemand, startManual and reserve.                                 *)

Budgeted(p) == cap > 0 \/ (p \in Entry /\ entryCap > 0)

\* A call for p, which goes to step.
Call(s, p, m, step) ==
  /\ pc[s] = "idle"
  /\ Go(s, step)
  /\ manual' = [manual EXCEPT ![s] = m]
  /\ want' = [want EXCEPT ![s] = p]
  /\ UNCHANGED <<projectVars, capVars, lock, try, outside>>

\* Without a cap, or for a start that is short-circuited or refused anyway
\* (up, stopping, or failed and in its backoff), nothing is reserved.
StartOnDemand(s, p) ==
  \/ /\ ~Budgeted(p) \/ state[p] # "stopped"
     /\ Call(s, p, FALSE, "bypass")
  \/ /\ Budgeted(p)
     /\ state[p] \in Down
     /\ Call(s, p, FALSE, "lock")

\* ... and the start that this test led to, some time later.
Bypass(s) ==
  /\ pc[s] = "bypass"
  /\ EnsureStarted(s, FALSE)
  /\ UNCHANGED <<lock, try>>

StartManual(s, p) == Call(s, p, TRUE, "lock")

\* A reservation that was refused sleeps until its ticker fires ...
Poll(s) ==
  /\ pc[s] = "sleep"
  /\ Go(s, "lock")
  /\ UNCHANGED <<projectVars, capVars, lock, manual, want, try, outside>>

DeadlineIgnored(s) == Poll(s)

\* ... or its deadline passes or its context ends.
Deadline(s) ==
  /\ pc[s] = "sleep"
  /\ Answer({s}, s, "idle")
  /\ UNCHANGED <<projectVars, capVars, lock, try, outside>>

-----------------------------------------------------------------------------
(* tryReserveLocked.                                                       *)

\* Lock budgetMu, read the project's state, then the caps and (under d.mu) the
\* table.  No count is needed by a project that is up or stopping, by one that
\* has left the table, and where no cap applies.
Lock(s) ==
  LET p == want[s]
      e == IF p \in Entry THEN entryCap ELSE 0
  IN
  /\ pc[s] = "lock"
  /\ lock = NoOne
  /\ lock' = s
  /\ IF state[p] \notin Down \/ (cap = 0 /\ e = 0) \/ p \notin registered
       THEN Go(s, "over") /\ UNCHANGED try
       ELSE /\ Go(s, "count")
            /\ try' = [NoTry EXCEPT !.limit = cap, !.entryLimit = e,
                                    !.table = registered, !.todo = registered]
  /\ UNCHANGED <<projectVars, capVars, manual, want, outside>>

\* The attempt is over and budgetMu is released.
Unlock ==
  /\ lock' = NoOne
  /\ try' = NoTry

\* A step of the attempt of s that changes no project.
Attempt(s, from, to) ==
  /\ pc[s] = from
  /\ Go(s, to)
  /\ UNCHANGED <<projectVars, capVars, lock, manual, want, outside>>

HoldsSlotRunning(p) == state[p] = "running"

HoldsSlot(p) == state[p] \in Up

\* countRunning: one project after the other, in the order of the table.
Count(s) ==
  LET p == CHOOSE q \in try.todo : TRUE IN
  /\ try.todo # {}
  /\ Attempt(s, "count", "count")
  /\ try' = [try EXCEPT !.todo = @ \ {p},
                        !.seen = IF HoldsSlot(p) THEN @ \cup {p} ELSE @]

NeedGlobal == try.limit > 0 /\ Cardinality(try.seen) >= try.limit
NeedEntry ==
  try.entryLimit > 0 /\ Cardinality(try.seen \cap Entry) >= try.entryLimit

\* There is room, or evictionOrder lists the slot holders of the pool.  Those
\* that are always_on, or were starting when listed, are blocked.
Decide(s) ==
  LET pool    == IF NeedEntry THEN try.table \cap Entry ELSE try.table
      holders == {p \in pool : HoldsSlot(p)}
      open    == {p \in holders \ AlwaysOn : state[p] = "running"}
  IN
  /\ try.todo = {}
  /\ IF NeedGlobal \/ NeedEntry
       THEN /\ Attempt(s, "count", "judge")
            /\ try' = [try EXCEPT !.seen = {}, !.rivals = open,
                                  !.blocked = holders # open]
       ELSE /\ Attempt(s, "count", "start")
            /\ try' = [try EXCEPT !.seen = {}]

\* blockReason, and BeginStop that finds somebody or an armed gate.
Blocks(s, p) ==
  /\ p \in try.rivals
  /\ p \in parked \cup gated
  /\ Attempt(s, "judge", "judge")
  /\ try' = [try EXCEPT !.rivals = @ \ {p}, !.blocked = TRUE]

LastAttemptNever == FALSE

LastAttempt == try.attempt + 1 = EvictionAttempts

\* Count again; err says whether this attempt left an error.
Again(err) ==
  /\ try' = [try EXCEPT !.todo = try.table, !.rivals = {}, !.blocked = FALSE,
                        !.attempt = @ + 1, !.lastErr = @ \/ err]
  /\ UNCHANGED lock

\* Every candidate was tried.  Without a blocker all of them changed state
\* before they could be judged, which is worth another attempt.
NoVictim(s) ==
  /\ pc[s] = "judge"
  /\ try.rivals = {}
  /\ IF try.blocked \/ LastAttempt
       THEN Unlock /\ Go(s, "sleep")
       ELSE Again(TRUE) /\ Go(s, "count")
  /\ UNCHANGED <<projectVars, capVars, manual, want, outside>>

\* The victim: its gate is armed and StopAsync called, which tells whoever
\* waits for its startup.  After the last attempt nobody counts again: the
\* error left by an earlier one is returned, or else neither error nor channel.
Evict(s, v) ==
  /\ pc[s] = "judge"
  /\ v \in try.rivals
  /\ v \notin parked \cup gated
  /\ gated' = gated \cup {v}
  /\ state' = [state EXCEPT ![v] = IF @ \in Up THEN "stopping" ELSE @]
  /\ outside' = outside \ {v}
  /\ Answer(Waiters(v), s, IF ~LastAttempt THEN "count"
                           ELSE IF try.lastErr THEN "sleep" ELSE "nil")
  /\ IF LastAttempt THEN Unlock ELSE Again(FALSE)
  /\ UNCHANGED <<retired, registered, parked, capVars>>

\* There is room: the start claims the slot before budgetMu is released.
Start(s) ==
  /\ pc[s] = "start"
  /\ EnsureStarted(s, TRUE)
  /\ Unlock

\* The start that needs no count.
StartOver(s) ==
  /\ pc[s] = "over"
  /\ EnsureStarted(s, FALSE)
  /\ Unlock

-----------------------------------------------------------------------------
(* The projects and their environment.                                     *)

\* The supervisor of p moves to state x and tells whoever waits.
Becomes(p, x) ==
  /\ state' = [state EXCEPT ![p] = x]
  /\ outside' = IF x \in Up THEN outside ELSE outside \ {p}
  /\ Answer(Waiters(p), NoOne, "idle")
  /\ UNCHANGED <<retired, registered, parked, gated, capVars, lock, try>>

\* A startup succeeds or fails, a process exits, a stop begins or ends.
Lifecycle(p) ==
  \/ state[p] = "starting" /\ \E x \in {"running", "failed"} : Becomes(p, x)
  \/ state[p] = "running" /\ \E x \in {"stopped", "failed"} : Becomes(p, x)
  \/ HoldsSlot(p) /\ Becomes(p, "stopping")
  \/ state[p] = "stopping" /\ Becomes(p, "stopped")

\* What happens to p's tracker and registration.
Around(p) ==
  UNCHANGED <<state, capVars, starterVars, outside>>

\* The idle monitor arms the gate of an unused project (and goes on to stop it).
IdleStop(p) ==
  /\ p \in Visited
  /\ state[p] = "running"
  /\ p \notin AlwaysOn \cup parked
  /\ gated' = gated \cup {p}
  /\ Around(p) /\ UNCHANGED <<retired, registered, parked>>

\* The stop an idle monitor or an eviction waits for has ended.
ReleaseGate(p) ==
  /\ p \in gated
  /\ state[p] # "stopping"
  /\ gated' = gated \ {p}
  /\ Around(p) /\ UNCHANGED <<retired, registered, parked>>

\* Requests, WebSockets and leases come and go.
Parking(p) ==
  /\ p \in Visited
  /\ parked' = IF p \in parked THEN parked \ {p} ELSE parked \cup {p}
  /\ Around(p) /\ UNCHANGED <<retired, registered, gated>>

\* A reload takes p out of the table and then retires its supervisor; a changed
\* project is retired while it is still in the table.
TakeOut(p) ==
  /\ p \in Removable
  /\ \/ registered' = registered \ {p} /\ UNCHANGED retired
     \/ retired' = retired \cup {p} /\ UNCHANGED registered
  /\ Around(p) /\ UNCHANGED <<parked, gated>>

\* applyBudget
ApplyBudget ==
  /\ cap' \in Caps
  /\ entryCap' \in EntryCaps
  /\ UNCHANGED <<projectVars, starterVars, outside>>

-----------------------------------------------------------------------------
Reservation(s) ==
  \/ Count(s) \/ Decide(s)
  \/ \E p \in Projects : Blocks(s, p) \/ Evict(s, p)
  \/ NoVictim(s) \/ Start(s) \/ StartOver(s)

Next ==
  \/ \E s \in Starters :
       \/ \E p \in Projects : StartOnDemand(s, p) \/ StartManual(s, p)
       \/ Bypass(s) \/ Poll(s) \/ Deadline(s)
       \/ Lock(s) \/ Reservation(s)
  \/ \E p \in Projects :
       Lifecycle(p) \/ IdleStop(p) \/ ReleaseGate(p) \/ Parking(p) \/ TakeOut(p)
  \/ ApplyBudget

\* Goroutines run; a sync.Mutex is granted to whoever keeps asking; select does
\* not ignore an expired timer for ever.
Fairness ==
  \A s \in Starters :
    /\ WF_vars(Bypass(s)) /\ WF_vars(Reservation(s))
    /\ SF_vars(Lock(s)) /\ SF_vars(Deadline(s))

Spec == Init /\ [][Next]_vars

FairSpec == Spec /\ Fairness

-----------------------------------------------------------------------------
(* Properties.                                                             *)

\* The projects of the table that are up after a count of the slots.
Booked == {p \in registered \ outside : state[p] \in Up}

\* A start the budget admits never takes the booked slots beyond the caps it
\* was admitted under, however the states changed while they were counted: two
\* simultaneous wake-ups never both conclude there is room.
AdmissionWithinCap ==
  [][ \A p \in Booked' \ Booked :
        /\ try.limit > 0 => Cardinality(Booked') <= try.limit
        /\ try.entryLimit > 0 /\ p \in Entry =>
             Cardinality(Booked' \cap Entry) <= try.entryLimit ]_vars

\* The wait for a slot ends, however full the budget stays: a starter gets to
\* the supervisor, or is refused when its capacity wait is over.
CapacityWaitEnds ==
  \A s \in Starters :
    pc[s] = "lock" ~> pc[s] \in {"idle", "wait", "nil"}

\* "evicts as many evictable ones as it takes to make room": a reservation ends
\* in a refusal or in a channel that will yield the outcome.
ReservationHasOutcome == \A s \in Starters : pc[s] # "nil"

\* max_running is "how many projects may be starting or running at once".
RunningWithinCap ==
  cap > 0 => Cardinality({p \in Projects : state[p] \in Up}) <= cap
=============================================================================
