------------------------------- MODULE IdleStop -------------------------------
(***************************************************************************)
(* One project's traffic against the stops nobody asked for: requests that *)
(* pass through the on-demand proxy (internal/proxy/ondemand.go), the      *)
(* activity tracker they feed (internal/idle/tracker.go), and the two      *)
(* goroutines that stop a project which looks unused, the idle monitor     *)
(* (internal/idle/monitor.go) and the evictor of the running-server budget *)
(* (daemon/budget.go, evict).  They share the tracker's counters and its   *)
(* stop gate, all of them atomics, with no lock around the handshake: every*)
(* atomic load or store the handshake depends on is a step of its own.     *)
(*                                                                         *)
(* The project's supervisor is Lifecycle, the specification Supervisor     *)
(* implements, so what is shown here holds of the composition.  Time is    *)
(* one bit, elapsed: now is past Tracker.Deadline, a full idle timeout     *)
(* after the process was spawned and after lastActivity.                   *)
(***************************************************************************)
EXTENDS Naturals, FiniteSets

CONSTANTS
  Requests,   \* requests in the proxy at one time
  MaxHeld,    \* hold_max_requests
  KeepAlive,  \* websockets_keep_alive
  MaxRuns     \* bound: processes spawned in one behaviour

ASSUME IdleStopAssumption ==
  MaxHeld \in Nat /\ MaxRuns \in Nat /\ KeepAlive \in BOOLEAN

VARIABLES
  state, retired, instance, hoping, owed,    \* the supervisor (Lifecycle)
  runs,        \* processes spawned so far
  elapsed,     \* Tracker.Deadline has passed
  recent,      \* history: no idle timeout has passed since a forward ended
  lease,       \* an unexpired lease is held
  inflight,    \* who is counted in Tracker.inflight
  persistent,  \* who is counted in Tracker.persistent
  held,        \* who is counted in onDemand.held
  gate,        \* Tracker.gate, by the stopper that armed it
  pc, kind,    \* where a request stands, and how it is counted
  gated,       \* the gate a waiting request found
  spc,         \* where a stopper stands
  target       \* the process a stopper decided on

superVars   == <<state, retired, instance, hoping, owed>>
trackerVars == <<elapsed, lease, inflight, persistent, gate>>
requestVars == <<pc, kind, gated, held>>
stopperVars == <<spc, target>>
vars == <<superVars, runs, recent, trackerVars, requestVars, stopperVars>>

Operator == "operator"
Monitor  == "monitor"
Evictor  == "evictor"
Stoppers == {Monitor, Evictor}

Process == INSTANCE Lifecycle WITH Clients <- Requests \cup {Operator}

RequestSteps ==
  {"away", "begun", "gated", "routed", "ask", "wait", "stampFirst", "endFirst",
   "forward", "unhold", "stamp", "end"}
StopperSteps ==
  {"asleep", "arm", "inflight", "persistent", "recheck",
   "stop", "await", "release", "close"}

\* An upgrade is a tunnel if websockets_keep_alive says so, else momentary.
Kinds == {"plain", IF KeepAlive THEN "tunnel" ELSE "momentary"}

TypeOK ==
  /\ state \in {"stopped", "starting", "running", "stopping", "failed"}
  /\ {retired, instance, elapsed, recent, lease} \subseteq BOOLEAN
  /\ hoping \subseteq Requests \cup {Operator}
  /\ owed \subseteq Requests \cup {Operator}
  /\ runs \in 0..MaxRuns
  /\ inflight \subseteq Requests
  /\ persistent \subseteq Requests
  /\ held \subseteq Requests
  /\ gate \in Stoppers \cup {"nil"}
  /\ pc \in [Requests -> RequestSteps]
  /\ kind \in [Requests -> Kinds]
  /\ gated \in [Requests -> Stoppers \cup {"nil"}]
  /\ spc \in [Stoppers -> StopperSteps]
  /\ target \in [Stoppers -> 0..MaxRuns]

Init ==
  /\ Process!Init
  /\ runs = 0
  /\ elapsed = FALSE
  /\ recent = FALSE
  /\ lease = FALSE
  /\ inflight = {}
  /\ persistent = {}
  /\ held = {}
  /\ gate = "nil"
  /\ pc = [r \in Requests |-> "away"]
  /\ kind = [r \in Requests |-> "plain"]
  /\ gated = [r \in Requests |-> "nil"]
  /\ spc = [s \in Stoppers |-> "asleep"]
  /\ target = [s \in Stoppers |-> 0]

Go(r, step) == pc' = [pc EXCEPT ![r] = step]

\* Where a request is forwarded: an upgrade that is not kept alive ends its
\* activity first (beforeForward).
Onward(r) == IF kind[r] = "momentary" THEN "stampFirst" ELSE "forward"

\* The requests of R that still wait for the startup are forwarded or denied;
\* whoever gave up waiting is not affected.
Forward(R) ==
  pc' = [r \in Requests |-> IF r \in R /\ pc[r] = "wait" THEN Onward(r) ELSE pc[r]]
Deny(R) ==
  pc' = [r \in Requests |-> IF r \in R /\ pc[r] = "wait" THEN "unhold" ELSE pc[r]]

-----------------------------------------------------------------------------
(* A request in the proxy: ServeHTTP, serveUpgrade, dispatch,              *)
(* holdAndForward.                                                         *)

BeginAs(r, k) ==
  /\ pc[r] = "away"
  /\ r \notin hoping \cup owed
  /\ kind' = [kind EXCEPT ![r] = k]
  /\ inflight' = IF k = "tunnel" THEN inflight ELSE inflight \cup {r}
  /\ persistent' = IF k = "tunnel" THEN persistent \cup {r} ELSE persistent
  /\ Go(r, "begun")
  /\ UNCHANGED <<superVars, runs, recent, elapsed, lease, gate, gated,
                 held, stopperVars>>

\* RequestBegan, or PersistentOpened for an upgrade that is kept alive.  A
\* request is identified with the channel it waits on, so it is not reused
\* before an abandoned channel was answered.
Begin(r, k) == k \in Kinds /\ BeginAs(r, k)

\* What a request does on its own account.
Request(r, from, to) ==
  /\ pc[r] = from
  /\ Go(r, to)
  /\ kind' = [kind EXCEPT ![r] = IF to = "away" THEN "plain" ELSE kind[r]]
  /\ UNCHANGED <<superVars, runs, lease, gate, stopperVars>>

\* StopGate
ReadGate(r) ==
  /\ Request(r, "begun", IF gate = "nil" THEN "routed" ELSE "gated")
  /\ gated' = [gated EXCEPT ![r] = gate]
  /\ UNCHANGED <<recent, elapsed, inflight, persistent, held>>

\* The lock-free State check: the hot path, or the cold one, which begins with
\* held.Add(1) and the limit.
ReadState(r) ==
  /\ IF state = "running"
       THEN Request(r, "routed", Onward(r)) /\ UNCHANGED held
       ELSE /\ Request(r, "routed",
                       IF Cardinality(held) < MaxHeld THEN "ask" ELSE "unhold")
            /\ held' = held \cup {r}
  /\ UNCHANGED <<recent, elapsed, inflight, persistent, gated>>

\* The client goes away, or hold_max_wait is over.
GiveUp(r) ==
  /\ \/ Request(r, "gated", "stamp")
     \/ Request(r, "wait", "unhold")
  /\ gated' = [gated EXCEPT ![r] = "nil"]
  /\ UNCHANGED <<recent, elapsed, inflight, persistent, held>>

ForwardEnds(r) ==
  /\ Request(r, "forward", IF r \in held THEN "unhold"
                           ELSE IF kind[r] = "momentary" THEN "away" ELSE "stamp")
  /\ recent' = (recent \/ kind[r] # "momentary")
  /\ UNCHANGED <<elapsed, inflight, persistent, held, gated>>

\* The deferred held.Add(-1): after a denial, or after the whole forward.
Unhold(r) ==
  /\ Request(r, "unhold", IF r \in inflight \cup persistent THEN "stamp" ELSE "away")
  /\ held' = held \ {r}
  /\ UNCHANGED <<recent, elapsed, inflight, persistent, gated>>

EndFirst(r) ==
  /\ \/ Request(r, "stampFirst", "endFirst")
     \/ Request(r, "stamp", "end")
  /\ inflight' = inflight \ {r}
  /\ persistent' = persistent \ {r}
  /\ UNCHANGED <<recent, elapsed, held, gated>>

\* RequestEnded, PersistentClosed: lastActivity is stored first ...
Stamp(r) ==
  /\ \/ Request(r, "stampFirst", "endFirst")
     \/ Request(r, "stamp", "end")
  /\ elapsed' = FALSE
  /\ UNCHANGED <<recent, inflight, persistent, held, gated>>

StampLast(r) ==
  /\ \/ Request(r, "endFirst", "forward")
     \/ Request(r, "end", "away")
  /\ elapsed' = FALSE
  /\ UNCHANGED <<recent, inflight, persistent, held, gated>>

\* ... and then the counter is decremented.
End(r) ==
  /\ \/ Request(r, "endFirst", "forward")
     \/ Request(r, "end", "away")
  /\ inflight' = inflight \ {r}
  /\ persistent' = persistent \ {r}
  /\ UNCHANGED <<recent, elapsed, held, gated>>

\* EnsureStartedOnDemand: answered at once.  A failed project may be in its
\* backoff window; a retired one starts no more.
AskAnswered(r) ==
  /\ pc[r] = "ask"
  /\ \/ state = "running" /\ Go(r, Onward(r))
     \/ state = "stopping" /\ Go(r, "unhold")
     \/ state = "failed" /\ Go(r, "unhold")
     \/ state = "stopped" /\ retired /\ Go(r, "unhold")
  /\ UNCHANGED <<superVars, runs, recent, trackerVars, kind, gated, held,
                 stopperVars>>

\* EnsureStartedOnDemand: the request shares the startup in flight.
AskShares(r) ==
  /\ pc[r] = "ask"
  /\ Process!Share(r)
  /\ Go(r, "wait")
  /\ UNCHANGED <<runs, recent, trackerVars, kind, gated, held, stopperVars>>

\* A process is spawned: its idle window starts.
Spawned ==
  /\ runs < MaxRuns
  /\ runs' = runs + 1
  /\ elapsed' = FALSE
  /\ UNCHANGED <<lease, inflight, persistent, gate>>

AskStarts(r) ==
  /\ pc[r] = "ask"
  /\ \/ Process!Start(r) /\ Spawned /\ Go(r, "wait")
     \/ Process!StartImpossible /\ Go(r, "unhold") /\ UNCHANGED <<runs, trackerVars>>
  /\ UNCHANGED <<recent, kind, gated, held, stopperVars>>

-----------------------------------------------------------------------------
(* The supervisor and the operator's commands.                             *)

Ready ==
  /\ Process!Ready
  /\ Forward(hoping)
  /\ UNCHANGED <<runs, recent, trackerVars, kind, gated, held, stopperVars>>

Told(c) ==
  /\ Process!Tell(c)
  /\ Deny({c})
  /\ UNCHANGED <<runs, recent, trackerVars, kind, gated, held, stopperVars>>

\* The stop of a starting project fails its waiters at once.
BeginStop ==
  /\ Process!BeginStop
  /\ Deny(hoping)
  /\ UNCHANGED <<runs, recent, trackerVars, kind, gated, held>>

OperatorStarts ==
  /\ \/ Process!Start(Operator) /\ Spawned
     \/ /\ Process!StartImpossible
        /\ UNCHANGED <<runs, trackerVars>>
  /\ UNCHANGED <<recent, requestVars, stopperVars>>

OperatorStops == BeginStop /\ UNCHANGED stopperVars

\* A stop runs to its end: the group goes, then the state changes.
StopFinishes ==
  /\ \/ state = "stopping" /\ Process!Vanish
     \/ Process!EndStop
  /\ UNCHANGED <<runs, recent, trackerVars, requestVars, stopperVars>>

\* The process fails or exits unasked, or the project is retired (by a reload
\* or the shutdown, which also ends the monitor's context).
ProcessStep ==
  /\ \/ Process!StartFails
     \/ Process!Exit
     \/ ~retired /\ Process!Retire
  /\ UNCHANGED <<runs, recent, trackerVars, requestVars, stopperVars>>

\* Lease, ReleaseLease, and a lease that expires.
LeaseChanges ==
  /\ lease' = ~lease
  /\ UNCHANGED <<superVars, runs, recent, elapsed, inflight, persistent,
                 gate, requestVars, stopperVars>>

\* A full idle timeout goes by; only a process has an idle window.
TimePasses ==
  /\ state \in {"starting", "running"}
  /\ elapsed' = TRUE
  /\ recent' = FALSE
  /\ UNCHANGED <<superVars, runs, lease, inflight, persistent, gate,
                 requestVars, stopperVars>>

-----------------------------------------------------------------------------
(* The stoppers.                                                           *)

\* A step of stopper s that touches nothing else.
Stopper(s, from, to) ==
  /\ spc[s] = from
  /\ spc' = [spc EXCEPT ![s] = to]
  /\ UNCHANGED <<superVars, runs, recent, elapsed, lease, inflight,
                 persistent, kind, held>>

Parked == inflight # {} \/ persistent # {} \/ lease

\* tick finds the project running, not parked and past its deadline.  These
\* reads only choose when to try: anything may happen before the gate is armed,
\* and each of them is repeated afterwards.
MonitorTick ==
  /\ ~retired
  /\ state = "running"
  /\ ~Parked
  /\ elapsed
  /\ Stopper(Monitor, "asleep", "arm")
  /\ UNCHANGED <<gate, pc, gated, target>>

\* evict considers the project: it is running and blockReason finds nothing.
EvictorPicks ==
  /\ state = "running"
  /\ ~Parked
  /\ Stopper(Evictor, "asleep", "arm")
  /\ UNCHANGED <<gate, pc, gated, target>>

\* BeginStop publishes the gate (a compare-and-swap) ...
Arm(s) ==
  /\ Stopper(s, "arm", IF gate = "nil" THEN "inflight" ELSE "asleep")
  /\ gate' = IF gate = "nil" THEN s ELSE gate
  /\ UNCHANGED <<pc, gated, target>>

CheckInflightNever(s) ==
  Stopper(s, "inflight", "persistent") /\ UNCHANGED <<gate, pc, gated, target>>

\* ... and only then looks for activity, one counter after the other.
CheckInflight(s) ==
  /\ Stopper(s, "inflight", IF inflight # {} THEN "release" ELSE "persistent")
  /\ UNCHANGED <<gate, pc, gated, target>>

\* The evictor stops its victim now, the monitor looks once more.
CheckPersistent(s) ==
  /\ Stopper(s, "persistent", IF persistent # {} \/ lease THEN "release"
                              ELSE IF s = Monitor THEN "recheck" ELSE "stop")
  /\ target' = [target EXCEPT ![s] = runs]
  /\ UNCHANGED <<gate, pc, gated>>

\* Snapshot and Deadline again, under the armed gate.
Recheck ==
  /\ Stopper(Monitor, "recheck",
             IF state = "running" /\ elapsed THEN "stop" ELSE "release")
  /\ target' = [target EXCEPT ![Monitor] = runs]
  /\ UNCHANGED <<gate, pc, gated>>

\* StopAsync: whatever process there is by now.
Stop(s) ==
  /\ spc[s] = "stop"
  /\ spc' = [spc EXCEPT ![s] = "await"]
  /\ target' = [target EXCEPT ![s] = runs]
  /\ \/ BeginStop
     \/ /\ state \notin {"starting", "running"}
        /\ UNCHANGED <<superVars, runs, recent, trackerVars, requestVars>>

\* The stop is finished, or the monitor's context has ended.
Await(s) ==
  /\ ~(state = "stopping" /\ target[s] = runs) \/ (s = Monitor /\ retired)
  /\ Stopper(s, "await", "release")
  /\ UNCHANGED <<gate, pc, gated, target>>

\* release, and BeginStop's roll-back: the gate is withdrawn ...
Release(s) ==
  /\ Stopper(s, "release", "close")
  /\ gate' = "nil"
  /\ UNCHANGED <<pc, gated, target>>

CloseNobody(s) ==
  /\ Stopper(s, "close", "asleep")
  /\ target' = [target EXCEPT ![s] = 0]
  /\ UNCHANGED <<gate, pc, gated>>

\* ... and then closed, which frees whoever found it.
Close(s) ==
  LET freed == {r \in Requests : gated[r] = s} IN
  /\ Stopper(s, "close", "asleep")
  /\ pc' = [r \in Requests |-> IF r \in freed THEN "routed" ELSE pc[r]]
  /\ gated' = [r \in Requests |-> IF r \in freed THEN "nil" ELSE gated[r]]
  /\ target' = [target EXCEPT ![s] = 0]
  /\ UNCHANGED gate

-----------------------------------------------------------------------------
RequestStep(r) ==
  \/ ReadGate(r) \/ ReadState(r)
  \/ AskAnswered(r) \/ AskShares(r) \/ AskStarts(r)
  \/ Unhold(r) \/ Stamp(r) \/ End(r)

StopperStep(s) ==
  \/ Arm(s) \/ CheckInflight(s) \/ CheckPersistent(s)
  \/ Stop(s) \/ Await(s) \/ Release(s) \/ Close(s)

Next ==
  \/ \E r \in Requests :
       \/ \E k \in {"plain", "tunnel", "momentary"} : Begin(r, k)
       \/ RequestStep(r)
       \/ GiveUp(r)
       \/ ForwardEnds(r)
  \/ \E c \in Requests \cup {Operator} : Told(c)
  \/ \E s \in Stoppers : StopperStep(s)
  \/ MonitorTick \/ Recheck \/ EvictorPicks
  \/ Ready \/ OperatorStarts \/ OperatorStops \/ ProcessStep \/ StopFinishes
  \/ LeaseChanges \/ TimePasses

\* Goroutines that can run do run; a stop that was begun finishes (Supervisor's
\* StopFinishes); time passes.  Nothing forces a forward to end, a client to
\* leave, a process to become ready or anyone to evict.
Fairness ==
  /\ \A r \in Requests : WF_vars(RequestStep(r))
  /\ \A s \in Stoppers : WF_vars(StopperStep(s))
  /\ WF_vars(MonitorTick)
  /\ WF_vars(Recheck)
  /\ WF_vars(TimePasses)
  /\ WF_vars(StopFinishes)

Spec == Init /\ [][Next]_vars

FairSpec == Spec /\ Fairness

-----------------------------------------------------------------------------
(* Properties.                                                             *)

\* Past the gate: on the way to the process, or being served by it.
PastGate == {"routed", "ask", "wait", "stampFirst", "forward"}

\* The Dekker-style handshake: once a stopper has decided, no request that is
\* counted as activity is past the gate, so none is forwarded to the process
\* that is about to die, and none that was being served is cut off.
NoForwardIntoStop ==
  \A s \in Stoppers : spc[s] \in {"stop", "await"} =>
    \A r \in inflight \cup persistent : pc[r] \notin PastGate

\* Every completed request restarts the full idle window: the monitor never
\* decides to stop a process less than one idle timeout after a request was
\* served (RequestEnded stores lastActivity before it decrements, and the
\* deadline is read again under the armed gate).
FullWindowAfterRequest == spc[Monitor] = "stop" => ~recent

\* Brackets balance on every path through the proxy, early returns included:
\* a request that left is counted nowhere (a leaked slot would park the idle
\* countdown for ever), and one that is about to be uncounted is counted once.
BracketsBalance ==
  \A r \in Requests :
    /\ pc[r] = "away" => r \notin inflight \cup persistent \cup held
    /\ pc[r] \in {"stampFirst", "endFirst", "stamp", "end"} =>
         (r \in inflight) # (r \in persistent)

\* No lost wake-up and no second armer: the gate is armed exactly while its
\* owner is between BeginStop and release, and a request that waits on a gate
\* waits for an owner that is still bound to close it.
GateIsOwned ==
  /\ \A s \in Stoppers :
       gate = s <=> spc[s] \in {"inflight", "persistent", "recheck", "stop",
                                "await", "release"}
  /\ \A r \in Requests : pc[r] = "gated" =>
       \/ gate = gated[r]
       \/ gated[r] \in Stoppers /\ spc[gated[r]] = "close"

\* A request that waits for an idle stop gets through: nobody is dropped.
GatedRequestProceeds == \A r \in Requests : pc[r] = "gated" ~> pc[r] # "gated"

\* A project that stays unused is stopped.
Unused == \A r \in Requests : pc[r] = "away"
UnusedIsStopped ==
  <>[](Unused /\ ~lease /\ ~retired) => []<>(state # "running")

\* "a freshly started project always gets a full idle window": the process the
\* idle monitor stops is the one whose window it saw expire.
FreshProcessSpared ==
  spc[Monitor] = "stop" /\ state \in {"starting", "running"} =>
    runs = target[Monitor]
=============================================================================
