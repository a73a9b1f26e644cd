------------------------- MODULE IdleStopProofs -------------------------
(***************************************************************************)
(* Proofs about IdleStop, for every set of requests, any hold limit and    *)
(* any number of processes.  IdleStopInv is inductive.  The handshake      *)
(* rests on two facts that NoForwardIntoStop leaves unsaid: a stopper that *)
(* found a counter at zero owns the gate (GateIsOwned), and whoever was    *)
(* counted since then has not got past that gate (Shut), not even by the   *)
(* close of the gate before it.  The full idle window rests on Unstamped:  *)
(* a forward that ended under a passed deadline is still counted.          *)
(***************************************************************************)
EXTENDS IdleStop, TLAPS

Counted == inflight \cup persistent

\* How a request is counted, and where on its way it is counted and held.
Bracketed ==
  /\ \A r \in inflight : kind[r] # "tunnel"
  /\ \A r \in persistent : kind[r] = "tunnel"
  /\ \A r \in held :
       pc[r] \in {"ask", "wait", "unhold", "forward", "stampFirst", "endFirst"}
  /\ \A r \in Requests :
       /\ pc[r] \notin {"away", "forward", "unhold"} => r \in Counted
       /\ pc[r] = "away" => r \notin Counted
       /\ pc[r] = "forward" => (r \in Counted <=> kind[r] # "momentary")
       /\ pc[r] \in {"stampFirst", "endFirst"} => kind[r] = "momentary"

\* Who waits at a gate, and at which.
Waiting == \A r \in Requests : gated[r] # "nil" <=> pc[r] = "gated"

\* Request r has been counted only since stopper s armed its gate, or is done.
Outside(r, s) == pc[r] \in {"begun", "stamp", "end"} \/ gated[r] = s

\* What a stopper knows of the counters it has found at zero.
Shut ==
  \A s \in Stoppers :
    /\ spc[s] \in {"persistent", "recheck", "stop", "await"} =>
         \A r \in inflight : Outside(r, s)
    /\ spc[s] \in {"recheck", "stop", "await"} =>
         \A r \in persistent : Outside(r, s)

\* A forward ended, and its request has not stored lastActivity yet.
Ending(r) == pc[r] \in {"unhold", "stamp"}

\* A deadline that passed before the last forward ended is one that is about
\* to be put off; the monitor cannot overlook it.
Unstamped ==
  recent /\ elapsed =>
    /\ \E r \in Counted : Ending(r)
    /\ spc[Monitor] = "persistent" => \E r \in persistent : Ending(r)
    /\ spc[Monitor] # "recheck"

\* The variables that are one bit.
Flags == {retired, instance, elapsed, recent, lease} \subseteq BOOLEAN

IdleStopInv ==
  /\ TypeOK
  /\ Bracketed
  /\ Waiting
  /\ GateIsOwned
  /\ Shut
  /\ Unstamped
  /\ FullWindowAfterRequest

-----------------------------------------------------------------------------

\* The initial state satisfies the invariant.
LEMMA InitEstablishes == Init => IdleStopInv
<1> SUFFICES ASSUME Init PROVE IdleStopInv
  OBVIOUS
<1>1. TypeOK
  <2>1. {retired, instance, elapsed, recent, lease} \subseteq BOOLEAN
    BY Zenon DEF Init, Process!Init
  <2>2. /\ runs \in 0..MaxRuns
        /\ target \in [Stoppers -> 0..MaxRuns]
    BY IdleStopAssumption DEF Init
  <2> QED
    BY <2>1, <2>2 DEF Init, TypeOK, Process!Init, Stoppers, Monitor, Evictor,
       RequestSteps, StopperSteps, Kinds
<1>2. Bracketed /\ Waiting /\ GateIsOwned
  BY DEF Init, Bracketed, Waiting, GateIsOwned, Counted, Stoppers, Monitor, Evictor
<1>3. Shut /\ Unstamped /\ FullWindowAfterRequest
  BY DEF Init, Shut, Unstamped, FullWindowAfterRequest, Stoppers, Monitor, Evictor
<1> QED
  BY <1>1, <1>2, <1>3 DEF IdleStopInv

\* A startup that begins, and one that does not, keep the flags Boolean.
LEMMA StartFlags ==
  ASSUME Flags, NEW c, Process!Start(c), Spawned, UNCHANGED recent
  PROVE  Flags'
<1>1. instance' = TRUE /\ elapsed' = FALSE /\ UNCHANGED <<retired, recent, lease>>
  BY Zenon DEF Process!Start, Spawned
<1> QED
  BY Zenon, <1>1 DEF Flags

LEMMA ImpossibleFlags ==
  ASSUME Flags, Process!StartImpossible, UNCHANGED trackerVars, UNCHANGED recent
  PROVE  Flags'
<1>1. UNCHANGED <<retired, instance, elapsed, recent, lease>>
  BY Zenon DEF Process!StartImpossible, trackerVars
<1> QED
  BY Zenon, <1>1 DEF Flags

\* The Boolean variables stay Boolean: a request ends its forward, stores
\* lastActivity, or starts the process.
LEMMA RequestFlags ==
  ASSUME Flags, NEW r \in Requests, ForwardEnds(r) \/ Stamp(r) \/ AskStarts(r)
  PROVE  Flags'
<1>1. CASE ForwardEnds(r)
  <2>1. UNCHANGED <<retired, instance, elapsed, lease>>
    BY Zenon, <1>1 DEF ForwardEnds, Request, superVars
  <2>2. recent' \in BOOLEAN
    BY Zenon, <1>1 DEF ForwardEnds
  <2> QED
    BY Zenon, <2>1, <2>2 DEF Flags
<1>2. CASE Stamp(r)
  <2>1. UNCHANGED <<retired, instance, recent, lease>> /\ elapsed' = FALSE
    BY Zenon, <1>2 DEF Stamp, Request, superVars
  <2> QED
    BY Zenon, <2>1 DEF Flags
<1>3. CASE AskStarts(r)
  <2>1. UNCHANGED recent
    BY Zenon, <1>3 DEF AskStarts
  <2>2. CASE Process!Start(r) /\ Spawned
    BY Zenon, <2>1, <2>2, StartFlags
  <2>3. CASE Process!StartImpossible /\ UNCHANGED trackerVars
    BY Zenon, <2>1, <2>3, ImpossibleFlags
  <2> QED
    BY Zenon, <1>3, <2>2, <2>3 DEF AskStarts
<1> QED
  BY Zenon, <1>1, <1>2, <1>3

\* The same for the supervisor's steps and for time.
LEMMA ProcessFlags ==
  ASSUME Flags, OperatorStarts \/ ProcessStep \/ StopFinishes \/ TimePasses
  PROVE  Flags'
<1>1. CASE OperatorStarts
  <2>1. UNCHANGED recent
    BY Zenon, <1>1 DEF OperatorStarts
  <2>2. CASE Process!Start(Operator) /\ Spawned
    BY Zenon, <2>1, <2>2, StartFlags
  <2>3. CASE Process!StartImpossible /\ UNCHANGED trackerVars
    BY Zenon, <2>1, <2>3, ImpossibleFlags
  <2> QED
    BY Zenon, <1>1, <2>2, <2>3 DEF OperatorStarts
<1>2. CASE ProcessStep
  <2>1. UNCHANGED <<elapsed, recent, lease>>
    BY Zenon, <1>2 DEF ProcessStep, trackerVars
  <2>2. CASE Process!StartFails \/ Process!Exit
    <3>1. instance' = FALSE /\ UNCHANGED retired
      BY Zenon, <2>2 DEF Process!StartFails, Process!Exit
    <3> QED
      BY Zenon, <2>1, <3>1 DEF Flags
  <2>3. CASE Process!Retire
    <3>1. retired' = TRUE /\ UNCHANGED instance
      BY Zenon, <2>3 DEF Process!Retire
    <3> QED
      BY Zenon, <2>1, <3>1 DEF Flags
  <2> QED
    BY Zenon, <1>2, <2>2, <2>3 DEF ProcessStep
<1>3. CASE StopFinishes
  <2>1. UNCHANGED <<elapsed, recent, lease>>
    BY Zenon, <1>3 DEF StopFinishes, trackerVars
  <2>2. UNCHANGED retired /\ (instance' = FALSE \/ UNCHANGED instance)
    BY Zenon, <1>3 DEF StopFinishes, Process!Vanish, Process!EndStop
  <2> QED
    BY Zenon, <2>1, <2>2 DEF Flags
<1>4. CASE TimePasses
  <2>1. UNCHANGED <<retired, instance, lease>> /\ elapsed' = TRUE /\ recent' = FALSE
    BY Zenon, <1>4 DEF TimePasses, superVars
  <2> QED
    BY Zenon, <2>1 DEF Flags
<1> QED
  BY Zenon, <1>1, <1>2, <1>3, <1>4

\* What a request does on its own account preserves the invariant.
LEMMA RequestPreserves ==
  ASSUME IdleStopInv, NEW r \in Requests,
         \/ \E k \in {"plain", "tunnel", "momentary"} : Begin(r, k)
         \/ RequestStep(r) \/ GiveUp(r) \/ ForwardEnds(r)
  PROVE  IdleStopInv'
<1>0. Flags /\ (ForwardEnds(r) \/ Stamp(r) \/ AskStarts(r) => Flags')
  <2>1. Flags
    BY Zenon DEF IdleStopInv, TypeOK, Flags
  <2> QED
    BY Zenon, <2>1, RequestFlags
<1> USE IdleStopAssumption
    DEF IdleStopInv, TypeOK, Bracketed, Waiting, GateIsOwned, Shut, Outside,
        Unstamped, Ending, Counted, FullWindowAfterRequest, Stoppers, Monitor, Evictor,
        Go, superVars, trackerVars, requestVars, stopperVars, RequestSteps, StopperSteps
<1>1. ASSUME NEW k \in {"plain", "tunnel", "momentary"}, Begin(r, k)
      PROVE  IdleStopInv'
  BY <1>1 DEF Begin, BeginAs
<1>2. CASE ReadGate(r)
  BY <1>2 DEF ReadGate, Request
<1>3. CASE ReadState(r)
  BY <1>3 DEF ReadState, Request, Onward
<1>4. CASE GiveUp(r)
  BY <1>4 DEF GiveUp, Request
<1>5. CASE ForwardEnds(r)
  <2>2. TypeOK'
    BY <1>5, <1>0 DEF Flags, ForwardEnds, Request, Kinds
  <2>3. Bracketed' /\ Waiting' /\ GateIsOwned' /\ Shut'
    BY <1>5 DEF ForwardEnds, Request
  <2>4. Unstamped' /\ FullWindowAfterRequest'
    BY <1>5 DEF ForwardEnds, Request
  <2> QED
    BY <2>2, <2>3, <2>4
<1>6. CASE Unhold(r)
  <2>1. TypeOK'
    BY <1>6 DEF Unhold, Request, Kinds
  <2>2. Bracketed' /\ Waiting' /\ GateIsOwned' /\ Shut'
    BY <1>6 DEF Unhold, Request
  <2>3. Unstamped' /\ FullWindowAfterRequest'
    BY <1>6 DEF Unhold, Request
  <2> QED
    BY <2>1, <2>2, <2>3
<1>7. CASE Stamp(r)
  <2>2. TypeOK'
    BY <1>7, <1>0 DEF Flags, Stamp, Request, Kinds
  <2>3. Bracketed' /\ Waiting' /\ GateIsOwned' /\ Shut'
    BY <1>7 DEF Stamp, Request
  <2>4. Unstamped' /\ FullWindowAfterRequest'
    BY <1>7 DEF Stamp, Request
  <2> QED
    BY <2>2, <2>3, <2>4
<1>8. CASE End(r)
  <2>1. TypeOK'
    BY <1>8 DEF End, Request, Kinds
  <2>2. Bracketed' /\ Waiting' /\ GateIsOwned' /\ Shut'
    BY <1>8 DEF End, Request
  <2>3. Unstamped' /\ FullWindowAfterRequest'
    BY <1>8 DEF End, Request
  <2> QED
    BY <2>1, <2>2, <2>3
<1>9. CASE AskAnswered(r)
  BY <1>9 DEF AskAnswered, Onward
<1>10. CASE AskShares(r)
  BY <1>10 DEF AskShares, Process!Share
<1>11. CASE AskStarts(r)
  <2>2. TypeOK'
    BY <1>11, <1>0 DEF Flags, AskStarts, Spawned, Process!Start, Process!StartImpossible
  <2>3. Bracketed' /\ Waiting' /\ GateIsOwned' /\ Shut'
    BY <1>11 DEF AskStarts, Spawned
  <2>4. Unstamped' /\ FullWindowAfterRequest'
    BY <1>11 DEF AskStarts, Spawned
  <2> QED
    BY <2>2, <2>3, <2>4
<1> QED
  BY <1>1, <1>2, <1>3, <1>4, <1>5, <1>6, <1>7, <1>8, <1>9, <1>10, <1>11 DEF RequestStep

\* The supervisor, the operator, leases and time preserve the invariant.
LEMMA ProcessPreserves ==
  ASSUME IdleStopInv,
         \/ \E c \in Requests \cup {Operator} : Told(c)
         \/ Ready \/ OperatorStarts \/ OperatorStops \/ ProcessStep \/ StopFinishes
         \/ LeaseChanges \/ TimePasses
  PROVE  IdleStopInv'
<1>0. Flags /\ (OperatorStarts \/ ProcessStep \/ StopFinishes \/ TimePasses => Flags')
  <2>1. Flags
    BY Zenon DEF IdleStopInv, TypeOK, Flags
  <2> QED
    BY Zenon, <2>1, ProcessFlags
<1> USE IdleStopAssumption
    DEF IdleStopInv, TypeOK, Bracketed, Waiting, GateIsOwned, Shut, Outside,
        Unstamped, Ending, Counted, FullWindowAfterRequest, Stoppers, Monitor, Evictor,
        superVars, trackerVars, requestVars, stopperVars, RequestSteps, StopperSteps
<1>1. ASSUME NEW c \in Requests \cup {Operator}, Told(c)
      PROVE  IdleStopInv'
  BY <1>1 DEF Told, Deny, Process!Tell
<1>2. CASE Ready
  BY <1>2 DEF Ready, Forward, Onward, Process!Ready
<1>3. CASE OperatorStarts
  <2>2. TypeOK'
    BY <1>3, <1>0 DEF Flags, OperatorStarts, Spawned, Process!Start, Process!StartImpossible
  <2>3. Bracketed' /\ Waiting' /\ GateIsOwned' /\ Shut' /\ Unstamped' /\ FullWindowAfterRequest'
    BY <1>3 DEF OperatorStarts, Spawned
  <2> QED
    BY <2>2, <2>3
<1>4. CASE OperatorStops
  BY <1>4 DEF OperatorStops, BeginStop, Deny, Process!BeginStop
<1>5. CASE ProcessStep
  <2>2. TypeOK'
    BY <1>5, <1>0 DEF Flags, ProcessStep, Process!StartFails, Process!Exit, Process!Retire
  <2>3. Bracketed' /\ Waiting' /\ GateIsOwned' /\ Shut' /\ Unstamped' /\ FullWindowAfterRequest'
    BY <1>5 DEF ProcessStep
  <2> QED
    BY <2>2, <2>3
<1>6. CASE StopFinishes
  <2>2. TypeOK'
    BY <1>6, <1>0 DEF Flags, StopFinishes, Process!Vanish, Process!EndStop
  <2>3. Bracketed' /\ Waiting' /\ GateIsOwned' /\ Shut' /\ Unstamped' /\ FullWindowAfterRequest'
    BY <1>6 DEF StopFinishes
  <2> QED
    BY <2>2, <2>3
<1>7. CASE LeaseChanges
  BY <1>7 DEF LeaseChanges
<1>8. CASE TimePasses
  <2>1. TypeOK'
    BY <1>8, <1>0 DEF Flags, TimePasses
  <2>2. Bracketed' /\ Waiting' /\ GateIsOwned' /\ Shut'
    BY <1>8 DEF TimePasses
  <2>3. Unstamped' /\ FullWindowAfterRequest'
    BY <1>8 DEF TimePasses
  <2> QED
    BY <2>1, <2>2, <2>3
<1> QED
  BY <1>1, <1>2, <1>3, <1>4, <1>5, <1>6, <1>7, <1>8

\* The stoppers preserve the invariant.
LEMMA StopperPreserves ==
  ASSUME IdleStopInv,
         MonitorTick \/ Recheck \/ EvictorPicks \/ \E s \in Stoppers : StopperStep(s)
  PROVE  IdleStopInv'
<1> USE IdleStopAssumption
    DEF IdleStopInv, TypeOK, Bracketed, Waiting, GateIsOwned, Shut, Outside,
        Unstamped, Ending, Counted, FullWindowAfterRequest, Stoppers, Monitor, Evictor,
        superVars, trackerVars, requestVars, stopperVars, RequestSteps, StopperSteps,
        Stopper
<1>1. CASE MonitorTick
  BY <1>1 DEF MonitorTick
<1>2. CASE EvictorPicks
  BY <1>2 DEF EvictorPicks
<1>3. CASE Recheck
  BY <1>3 DEF Recheck
<1>4. ASSUME NEW s \in Stoppers, Arm(s) PROVE IdleStopInv'
  BY <1>4 DEF Arm
<1>5. ASSUME NEW s \in Stoppers, CheckInflight(s) PROVE IdleStopInv'
  BY <1>5 DEF CheckInflight
<1>6. ASSUME NEW s \in Stoppers, CheckPersistent(s) PROVE IdleStopInv'
  BY <1>6 DEF CheckPersistent
<1>7. ASSUME NEW s \in Stoppers, Stop(s) PROVE IdleStopInv'
  BY <1>7 DEF Stop, BeginStop, Deny, Process!BeginStop
<1>8. ASSUME NEW s \in Stoppers, Await(s) PROVE IdleStopInv'
  BY <1>8 DEF Await
<1>9. ASSUME NEW s \in Stoppers, Release(s) PROVE IdleStopInv'
  BY <1>9 DEF Release
<1>10. ASSUME NEW s \in Stoppers, Close(s) PROVE IdleStopInv'
  <2> DEFINE freed == {r \in Requests : gated[r] = s}
  <2>1. \A r \in freed : pc[r] = "gated"
    BY <1>10
  <2>2. TypeOK'
    BY <1>10 DEF Close
  <2>3. Bracketed' /\ Waiting'
    BY <1>10, <2>1 DEF Close
  <2>4. GateIsOwned'
    BY <1>10 DEF Close
  <2>5. Shut'
    BY <1>10, <2>1 DEF Close
  <2>6. Unstamped' /\ FullWindowAfterRequest'
    BY <1>10, <2>1 DEF Close
  <2> QED
    BY <2>2, <2>3, <2>4, <2>5, <2>6
<1> QED
  BY <1>1, <1>2, <1>3, <1>4, <1>5, <1>6, <1>7, <1>8, <1>9, <1>10 DEF StopperStep

\* The invariant holds in every state of every behaviour.
THEOREM IdleStopInvariant == Spec => []IdleStopInv
<1>1. Init => IdleStopInv
  BY InitEstablishes
<1>2. IdleStopInv /\ [Next]_vars => IdleStopInv'
  <2> SUFFICES ASSUME IdleStopInv, [Next]_vars PROVE IdleStopInv'
    OBVIOUS
  <2>1. CASE Next
    BY <2>1, RequestPreserves, ProcessPreserves, StopperPreserves DEF Next
  <2>2. CASE UNCHANGED vars
    BY <2>2 DEF vars, superVars, trackerVars, requestVars, stopperVars,
       IdleStopInv, TypeOK, Bracketed, Waiting, GateIsOwned, Shut, Outside,
       Unstamped, Ending, Counted, FullWindowAfterRequest
  <2> QED
    BY <2>1, <2>2
<1> QED
  BY <1>1, <1>2, PTL DEF Spec

\* The variables of proxy, tracker, monitor and evictor keep their types.
THEOREM TypeCorrect == Spec => []TypeOK
BY IdleStopInvariant, PTL DEF IdleStopInv

\* Once the monitor or the evictor has decided to stop the process, no request
\* that is counted as activity is past the gate or being served, with no lock
\* between the counters, the gate and the two of them (BeginStop, StopGate).
THEOREM Handshake == Spec => []NoForwardIntoStop
<1>1. IdleStopInv => NoForwardIntoStop
  BY DEF IdleStopInv, Bracketed, Waiting, Shut, Outside, NoForwardIntoStop, PastGate, TypeOK,
         Stoppers, Monitor, Evictor
<1> QED
  BY <1>1, IdleStopInvariant, PTL

\* The monitor never decides to stop a process less than one idle timeout after
\* a request was served (lastActivity is stored before the decrement).
THEOREM FullWindow == Spec => []FullWindowAfterRequest
BY IdleStopInvariant, PTL DEF IdleStopInv

\* The gate is armed exactly while its owner is between BeginStop and release,
\* and whoever waits at a gate waits for an owner bound to close it.
THEOREM GateHasOwner == Spec => []GateIsOwned
BY IdleStopInvariant, PTL DEF IdleStopInv

\* Every path through the proxy undoes what it counted, exactly once.
THEOREM Balanced == Spec => []BracketsBalance
<1>1. IdleStopInv => BracketsBalance
  BY DEF IdleStopInv, Bracketed, Counted, BracketsBalance, TypeOK
<1> QED
  BY <1>1, IdleStopInvariant, PTL
=============================================================================
