-------------------------- MODULE SupervisorProofs --------------------------
(***************************************************************************)
(* Proofs about Supervisor, for every set of clients and every number of   *)
(* spawns.  SupervisorInv is inductive: NoOrphan needs OneStopOwner (a     *)
(* stop that ends leaves no other stop's group at large), TypeOK needs     *)
(* AbortReasonIsOwn (an exit handler never delivers the reason of a stop), *)
(* and AbortReasonIsOwn needs Tracked (the probe of a starting command     *)
(* does not see it reaped).                                                *)
(***************************************************************************)
EXTENDS Supervisor, TLAPS

\* The initial state satisfies the invariant.
LEMMA InitEstablishes == Init => SupervisorInv
<1> SUFFICES ASSUME Init PROVE SupervisorInv
  OBVIOUS
<1>1. TypeOK
  <2>1. /\ state \in States
        /\ cmd \in 0..MaxSpawns
        /\ spawned \in 0..MaxSpawns
        /\ failures \in 0..MaxFailures
        /\ stopDone \in 0..MaxSpawns
        /\ joined \in [Clients -> 0..MaxSpawns]
    BY SupervisorAssumption DEF Init, States
  <2>2. /\ retired \in BOOLEAN
        /\ backoff \in BOOLEAN
        /\ kids \in [Spawns -> BOOLEAN]
        /\ killed \in [Spawns -> BOOLEAN]
    BY Zenon DEF Init
  <2> QED
    BY <2>1, <2>2 DEF Init, TypeOK
<1>2. Fresh /\ Tracked /\ NoOrphan /\ OneStopOwner
  BY SupervisorAssumption
     DEF Init, Fresh, Tracked, NoOrphan, OneStopOwner, Loose, Alive, StopPending
<1>3. EveryWaiterHasOneSender
  BY DEF Init, EveryWaiterHasOneSender
<1>4. BackoffOnlyAfterFailure /\ AbortReasonIsOwn
  BY DEF Init, BackoffOnlyAfterFailure, AbortReasonIsOwn
<1> QED
  BY <1>1, <1>2, <1>3, <1>4 DEF SupervisorInv

\* ensureStartedLocked preserves the invariant, provided the calling method
\* passes on a backoff window only if it is open, and none if the project
\* failed.
LEMMA EnsureStartedLockedPreserves ==
  ASSUME SupervisorInv,
         NEW c \in Clients, call[c] \in {"idle", "restart"},
         NEW f \in 0..MaxFailures, NEW b \in BOOLEAN,
         b => backoff /\ state # "failed",
         EnsureStartedLocked(c, f, b)
  PROVE  SupervisorInv'
<1> USE SupervisorAssumption
    DEF SupervisorInv, TypeOK, Fresh, Tracked, NoOrphan, EveryWaiterHasOneSender,
        OneStopOwner, BackoffOnlyAfterFailure, AbortReasonIsOwn, Loose, Alive,
        StopPending, States
<1>1. CASE /\ Answer(c)
           /\ failures' = f
           /\ backoff' = b
           /\ UNCHANGED <<state, cmd, spawned, retired, abortErr, stopDone, procVars>>
  BY <1>1 DEF Answer, procVars
<1>2. CASE /\ state = "starting"
           /\ Wait(c)
           /\ failures' = f
           /\ backoff' = b
           /\ UNCHANGED <<state, cmd, spawned, retired, abortErr, stopDone, procVars>>
  BY <1>2 DEF Wait, procVars
<1>3. CASE MayStart /\ Spawn /\ failures' = f /\ backoff' = b /\ Wait(c)
  BY <1>3 DEF Wait, MayStart, Spawn, StartGroup, Spawns
<1>4. CASE /\ MayStart
           /\ state' = "failed"
           /\ RecordStartFailure(f)
           /\ Answer(c)
           /\ UNCHANGED <<cmd, spawned, retired, abortErr, stopDone, procVars>>
  BY <1>4 DEF MayStart, RecordStartFailure, Answer, procVars
<1> QED
  BY <1>1, <1>2, <1>3, <1>4 DEF EnsureStartedLocked

\* What a caller of the supervisor's methods does preserves the invariant.
LEMMA ClientStepPreserves ==
  ASSUME SupervisorInv, NEW c \in Clients, ClientStep(c)
  PROVE  SupervisorInv'
<1>0. /\ 0 \in 0..MaxFailures
      /\ failures \in 0..MaxFailures
      /\ backoff \in BOOLEAN
  BY SupervisorAssumption DEF SupervisorInv, TypeOK
<1>1. CASE EnsureStarted(c)
  BY <1>0, <1>1, EnsureStartedLockedPreserves DEF EnsureStarted
<1>2. CASE EnsureStartedOnDemand(c)
  <2>1. CASE state = "failed" /\ backoff
    BY <1>2, <2>1, SupervisorAssumption
       DEF SupervisorInv, TypeOK, Fresh, Tracked, NoOrphan, EveryWaiterHasOneSender,
           OneStopOwner, BackoffOnlyAfterFailure, AbortReasonIsOwn, Loose, Alive,
           StopPending, procVars, EnsureStartedOnDemand, Answer
  <2>2. CASE ~(state = "failed" /\ backoff)
    BY <1>0, <1>2, <2>2, EnsureStartedLockedPreserves DEF EnsureStartedOnDemand
  <2> QED
    BY <2>1, <2>2
<1>3. CASE RestartStarts(c)
  BY <1>0, <1>3, EnsureStartedLockedPreserves DEF RestartStarts
<1> USE DEF SupervisorInv, TypeOK, Fresh, Tracked, NoOrphan, EveryWaiterHasOneSender,
            OneStopOwner, BackoffOnlyAfterFailure, AbortReasonIsOwn, Loose, Alive,
            StopPending, fieldVars, procVars
<1>4. ASSUME NEW kind \in {"stop", "restart"}, StopJoin(c, kind)
      PROVE  SupervisorInv'
  BY <1>4, SupervisorAssumption DEF StopJoin, Join
<1>5. ASSUME NEW kind \in {"stop", "restart"}, StopOwn(c, kind)
      PROVE  SupervisorInv'
  BY <1>5 DEF StopOwn, States
<1>6. CASE StopReturns(c)
  BY <1>6, SupervisorAssumption DEF StopReturns
<1>7. CASE StopGivesUp(c)
  BY <1>7, SupervisorAssumption DEF StopGivesUp
<1>8. CASE DeliverFailure(c)
  BY <1>8 DEF DeliverFailure
<1> QED
  BY <1>1, <1>2, <1>3, <1>4, <1>5, <1>6, <1>7, <1>8 DEF ClientStep, StopAsync

\* What the goroutines and the processes of a spawn do preserves the invariant.
LEMMA SpawnStepPreserves ==
  ASSUME SupervisorInv, NEW g \in Spawns, SpawnStep(g)
  PROVE  SupervisorInv'
<1> USE DEF SupervisorInv, TypeOK, Fresh, Tracked, NoOrphan, EveryWaiterHasOneSender,
            OneStopOwner, BackoffOnlyAfterFailure, AbortReasonIsOwn, Loose, Alive,
            StopPending, States, fieldVars, procVars, callVars
<1>1. CASE ProbeReady(g)
  <2>1. CASE state = "starting" /\ cmd = g
    <3>1. backoff' \in BOOLEAN
      BY Zenon, <1>1, <2>1 DEF ProbeReady
    <3>2. TypeOK'
      BY <1>1, <2>1, <3>1, SupervisorAssumption DEF ProbeReady, NotifyWaiters
    <3>3. EveryWaiterHasOneSender'
      BY <1>1, <2>1 DEF ProbeReady, NotifyWaiters
    <3>4. Fresh' /\ Tracked' /\ NoOrphan' /\ OneStopOwner' /\ AbortReasonIsOwn'
      BY <1>1, <2>1 DEF ProbeReady
    <3>5. BackoffOnlyAfterFailure'
      BY <1>1, <2>1 DEF ProbeReady
    <3> QED
      BY <3>2, <3>3, <3>4, <3>5
  <2>2. CASE ~(state = "starting" /\ cmd = g)
    BY <1>1, <2>2 DEF ProbeReady
  <2> QED
    BY <2>1, <2>2
<1>2. CASE ProbeSeesExit(g)
  BY <1>2 DEF ProbeSeesExit
<1>3. CASE ProbeDeadline(g)
  BY <1>3 DEF ProbeDeadline
<1>4. CASE ProbeKill(g)
  BY <1>4 DEF ProbeKill
<1>5. CASE ExitStarting(g)
  BY <1>5, SupervisorAssumption DEF ExitStarting, RecordStartFailure
<1>6. CASE ExitRunning(g)
  BY <1>6, SupervisorAssumption DEF ExitRunning
<1>7. CASE ExitRecorded(g)
  BY <1>7, SupervisorAssumption DEF ExitRecorded
<1>8. CASE ExitStale(g)
  BY <1>8 DEF ExitStale
<1>9. CASE StopSignal(g)
  BY <1>9 DEF StopSignal, StopStep
<1>10. CASE GroupExited(g)
  BY <1>10 DEF GroupExited, StopStep
<1>11. CASE GraceExpires(g)
  BY <1>11 DEF GraceExpires, StopStep
<1>12. CASE DrainExpires(g)
  BY <1>12 DEF DrainExpires, StopStep
<1>13. CASE FinishStop(g)
  BY <1>13 DEF FinishStop, StopStep
<1>14. CASE CloseStopDone(g)
  BY <1>14 DEF CloseStopDone, StopStep
<1>15. CASE ChildExits(g)
  BY <1>15 DEF ChildExits
<1>16. CASE KidsExit(g)
  BY <1>16 DEF KidsExit
<1> QED
  BY <1>1, <1>2, <1>3, <1>4, <1>5, <1>6, <1>7, <1>8, <1>9, <1>10, <1>11, <1>12,
     <1>13, <1>14, <1>15, <1>16
     DEF SpawnStep, ProbeStep, HandleExit, StopGoroutine

\* Every step preserves the invariant.
LEMMA NextPreserves == SupervisorInv /\ [Next]_vars => SupervisorInv'
<1> SUFFICES ASSUME SupervisorInv, [Next]_vars
             PROVE  SupervisorInv'
  OBVIOUS
<1> USE DEF SupervisorInv, TypeOK, Fresh, Tracked, NoOrphan, EveryWaiterHasOneSender,
            OneStopOwner, BackoffOnlyAfterFailure, AbortReasonIsOwn, Loose, Alive,
            StopPending, fieldVars, procVars, callVars
<1>1. CASE Retire
  BY <1>1 DEF Retire
<1>2. CASE BackoffExpires
  BY <1>2 DEF BackoffExpires
<1>3. CASE UNCHANGED vars
  BY <1>3 DEF vars
<1> QED
  BY <1>1, <1>2, <1>3, ClientStepPreserves, SpawnStepPreserves DEF Next

\* In every reachable state of the supervisor the invariant holds.
THEOREM SupervisorInvariant == Spec => []SupervisorInv
<1> QED
  BY InitEstablishes, NextPreserves, PTL DEF Spec

\* Every field of the supervisor stays in its type.
THEOREM TypeCorrect == Spec => []TypeOK
<1>1. SupervisorInv => TypeOK
  BY DEF SupervisorInv
<1> QED
  BY <1>1, SupervisorInvariant, PTL

\* No process group is ever orphaned: whatever is alive and was not sent
\* SIGKILL is the tracked command's or is about to be escalated on.
THEOREM NeverOrphans == Spec => []NoOrphan
<1>1. SupervisorInv => NoOrphan
  BY DEF SupervisorInv
<1> QED
  BY <1>1, SupervisorInvariant, PTL

\* Every waiting EnsureStarted caller has exactly one goroutine bound to
\* answer it.
THEOREM WaitersAreOwned == Spec => []EveryWaiterHasOneSender
<1>1. SupervisorInv => EveryWaiterHasOneSender
  BY DEF SupervisorInv
<1> QED
  BY <1>1, SupervisorInvariant, PTL

\* A stop has exactly one owner, and joiners wait for that owner's channel.
THEOREM StopsAreOwned == Spec => []OneStopOwner
<1>1. SupervisorInv => OneStopOwner
  BY DEF SupervisorInv
<1> QED
  BY <1>1, SupervisorInvariant, PTL

\* A backoff window is open only while the last start failed: no start, stop or
\* readiness leaves one behind that would refuse a later on-demand start.
THEOREM BackoffIsFailures == Spec => []BackoffOnlyAfterFailure
BY SupervisorInvariant, PTL DEF SupervisorInv

\* An abort reason belongs to the startup in flight: the exit of a later
\* process is never reported with the reason of an earlier abort.
THEOREM AbortReasonsAreOwn == Spec => []AbortReasonIsOwn
BY SupervisorInvariant, PTL DEF SupervisorInv

\* Once retired and down, the supervisor never leaves the stopped and failed
\* states: Retire closes the window for every late start.
THEOREM RetiredStaysDownAlways == Spec => RetiredStaysDown
<1>1. ASSUME SupervisorInv, [Next]_vars,
             retired, state \in {"stopped", "failed"}
      PROVE  state' \in {"stopped", "failed"}
  <2> USE DEF fieldVars, OneStopOwner, StopPending
  <2>1. ASSUME NEW c \in Clients, ClientStep(c)
        PROVE  state' \in {"stopped", "failed"}
    BY <1>1, <2>1
       DEF ClientStep, EnsureStarted, EnsureStartedOnDemand, RestartStarts,
           EnsureStartedLocked, MayStart, StopAsync, StopJoin, StopOwn,
           StopReturns, StopGivesUp, DeliverFailure
  <2>2. ASSUME NEW g \in Spawns, SpawnStep(g)
        PROVE  state' \in {"stopped", "failed"}
    BY <1>1, <2>2
       DEF SpawnStep, ProbeStep, ProbeReady, ProbeSeesExit, ProbeDeadline,
           ProbeKill, HandleExit, ExitStarting, ExitRunning, ExitRecorded,
           ExitStale, StopGoroutine, StopSignal, GroupExited, GraceExpires,
           DrainExpires, FinishStop, CloseStopDone, ChildExits, KidsExit
  <2> QED
    BY <1>1, <2>1, <2>2 DEF Next, Retire, BackoffExpires, vars
<1>2. SupervisorInv /\ [Next]_vars
        => [retired /\ state \in {"stopped", "failed"}
              => state' \in {"stopped", "failed"}]_vars
  BY <1>1
<1> QED
  BY <1>2, SupervisorInvariant, PTL DEF Spec, RetiredStaysDown

-----------------------------------------------------------------------------
(* The supervisor implements Lifecycle.                                    *)

\* ensureStartedLocked starts, shares, fails or merely answers.
LEMMA EnsureStartedLockedRefines ==
  ASSUME SupervisorInv,
         NEW c \in Clients, call[c] \in {"idle", "restart"},
         NEW f, NEW b,
         EnsureStartedLocked(c, f, b)
  PROVE  [Lifecycle!Next]_(Lifecycle!vars)
<1> USE DEF Lifecycle!Next, Lifecycle!vars
<1>1. c \notin waiters /\ owed[c] = "none"
  BY DEF SupervisorInv, EveryWaiterHasOneSender
<1>2. CASE /\ Answer(c)
           /\ UNCHANGED <<state, retired, procVars>>
  BY <1>2 DEF Answer, procVars, Loose, Alive
<1>3. CASE /\ state = "starting"
           /\ Wait(c)
           /\ UNCHANGED <<state, retired, procVars>>
  <2>1. Lifecycle!Share(c)
    BY <1>1, <1>3 DEF Lifecycle!Share, Wait, procVars, Loose, Alive
  <2> QED
    BY <2>1
<1>4. CASE MayStart /\ Spawn /\ Wait(c)
  <2>1. ~\E g \in Spawns : Loose(g)
    BY <1>4 DEF MayStart, SupervisorInv, NoOrphan
  <2>2. \E g \in Spawns : Loose(g)'
    BY <1>4 DEF Spawn, StartGroup, SupervisorInv, TypeOK, Fresh, Loose, Alive, Spawns
  <2>3. Lifecycle!Start(c)
    BY <1>1, <1>4, <2>1, <2>2
       DEF Lifecycle!Start, Lifecycle!Down, MayStart, Spawn, StartGroup, Wait
  <2> QED
    BY <2>3
<1>5. CASE /\ MayStart
           /\ state' = "failed"
           /\ Answer(c)
           /\ UNCHANGED <<retired, procVars>>
  <2>1. Lifecycle!StartImpossible
    BY <1>5 DEF Lifecycle!StartImpossible, Lifecycle!Down, MayStart, Answer,
                procVars, Loose, Alive
  <2> QED
    BY <2>1
<1> QED
  BY <1>2, <1>3, <1>4, <1>5 DEF EnsureStartedLocked

\* A client's step begins a stop, delivers a failure, or is ensureStartedLocked.
LEMMA ClientStepRefines ==
  ASSUME SupervisorInv, NEW c \in Clients, ClientStep(c)
  PROVE  [Lifecycle!Next]_(Lifecycle!vars)
<1> USE DEF Lifecycle!Next, Lifecycle!vars, Loose, Alive
<1>1. CASE EnsureStarted(c) \/ RestartStarts(c)
  BY <1>1, EnsureStartedLockedRefines DEF EnsureStarted, RestartStarts
<1>2. CASE EnsureStartedOnDemand(c)
  <2>1. CASE state = "failed" /\ backoff
    BY <1>2, <2>1 DEF EnsureStartedOnDemand, Answer, procVars
  <2>2. CASE ~(state = "failed" /\ backoff)
    BY <1>2, <2>2, EnsureStartedLockedRefines DEF EnsureStartedOnDemand
  <2> QED
    BY <2>1, <2>2
<1>3. ASSUME NEW kind, StopJoin(c, kind)
      PROVE  UNCHANGED Lifecycle!vars
  BY <1>3 DEF StopJoin, fieldVars, procVars
<1>4. ASSUME NEW kind, StopOwn(c, kind)
      PROVE  Lifecycle!BeginStop
  BY <1>4 DEF StopOwn, Lifecycle!BeginStop, SupervisorInv, EveryWaiterHasOneSender
<1>5. CASE StopReturns(c) \/ StopGivesUp(c)
  BY <1>5 DEF StopReturns, StopGivesUp, fieldVars, procVars
<1>6. CASE DeliverFailure(c)
  <2>1. Lifecycle!Tell(c)
    BY <1>6 DEF DeliverFailure, Lifecycle!Tell, fieldVars, procVars,
                SupervisorInv, TypeOK
  <2> QED
    BY <2>1
<1> QED
  BY <1>1, <1>2, <1>3, <1>4, <1>5, <1>6 DEF ClientStep, StopAsync

\* Of the steps of a spawn, a probe makes the project ready, an exit handler
\* fails the startup or ends the run, a stop goroutine ends the stop, and
\* what kills or ends a group is Vanish.
LEMMA SpawnStepRefines ==
  ASSUME SupervisorInv, NEW g \in Spawns, SpawnStep(g)
  PROVE  [Lifecycle!Next]_(Lifecycle!vars)
<1> USE DEF Lifecycle!Next, Lifecycle!vars
<1>0. TypeOK
  BY DEF SupervisorInv
<1>1. ASSUME UNCHANGED <<state, retired, waiters, owed>>,
             \A h \in Spawns : Loose(h)' => Loose(h)
      PROVE  Lifecycle!Vanish \/ UNCHANGED Lifecycle!vars
  BY <1>1 DEF Lifecycle!Vanish
<1>2. CASE ProbeReady(g)
  <2>1. CASE state = "starting" /\ cmd = g
    <3>1. Lifecycle!Ready
      BY <1>2, <2>1 DEF ProbeReady, NotifyWaiters, Lifecycle!Ready, Loose, Alive
    <3> QED
      BY <3>1
  <2>2. CASE ~(state = "starting" /\ cmd = g)
    BY <1>2, <2>2 DEF ProbeReady, callVars, Loose, Alive
  <2> QED
    BY <2>1, <2>2
<1>3. CASE ExitStarting(g)
  <2>1. \A h \in Spawns : ~Loose(h)'
    BY <1>0, <1>3
       DEF ExitStarting, SupervisorInv, NoOrphan, Loose, Alive, TypeOK
  <2>2. {c \in Clients : owed[c] # "none"}'
          = {c \in Clients : owed[c] # "none"} \cup waiters
    BY <1>0, <1>3 DEF ExitStarting, TypeOK
  <2>3. Lifecycle!StartFails
    BY <1>3, <2>1, <2>2 DEF ExitStarting, Lifecycle!StartFails
  <2> QED
    BY <2>3
<1>4. CASE ExitRunning(g)
  <2>1. \A h \in Spawns : ~Loose(h)'
    BY <1>0, <1>4
       DEF ExitRunning, SupervisorInv, NoOrphan, Loose, Alive, TypeOK
  <2>2. Lifecycle!Exit
    BY <1>4, <2>1 DEF ExitRunning, Lifecycle!Exit, callVars
  <2> QED
    BY <2>2
<1>5. CASE FinishStop(g)
  <2>1. state = "stopping" /\ \A h \in Spawns : ~Loose(h)
    BY <1>5 DEF FinishStop, StopStep, SupervisorInv, OneStopOwner, StopPending,
                NoOrphan
  <2>2. Lifecycle!EndStop
    BY <1>5, <2>1
       DEF FinishStop, StopStep, Lifecycle!EndStop, Loose, Alive, callVars
  <2> QED
    BY <2>2
<1>6. CASE \/ ProbeSeesExit(g) \/ ProbeDeadline(g) \/ ProbeKill(g)
           \/ ExitRecorded(g) \/ ExitStale(g)
  <2>1. \A h \in Spawns : Loose(h)' => Loose(h)
    BY <1>0, <1>6
       DEF ProbeSeesExit, ProbeDeadline, ProbeKill, ExitRecorded, ExitStale,
           Loose, Alive, TypeOK
  <2> QED
    BY <1>1, <1>6, <2>1
       DEF ProbeSeesExit, ProbeDeadline, ProbeKill, ExitRecorded, ExitStale,
           fieldVars, callVars
<1>7. CASE \/ StopSignal(g) \/ GroupExited(g) \/ GraceExpires(g)
           \/ DrainExpires(g) \/ CloseStopDone(g)
  <2>1. \A h \in Spawns : Loose(h)' => Loose(h)
    BY <1>0, <1>7
       DEF StopSignal, GroupExited, GraceExpires, DrainExpires, CloseStopDone,
           StopStep, Loose, Alive, TypeOK
  <2> QED
    BY <1>1, <1>7, <2>1
       DEF StopSignal, GroupExited, GraceExpires, DrainExpires, CloseStopDone,
           StopStep, callVars
<1>8. CASE ChildExits(g) \/ KidsExit(g)
  <2>1. \A h \in Spawns : Loose(h)' => Loose(h)
    BY <1>0, <1>8 DEF ChildExits, KidsExit, Loose, Alive, TypeOK
  <2> QED
    BY <1>1, <1>8, <2>1 DEF ChildExits, KidsExit, fieldVars, callVars
<1> QED
  BY <1>2, <1>3, <1>4, <1>5, <1>6, <1>7, <1>8
     DEF SpawnStep, ProbeStep, HandleExit, StopGoroutine

\* Every behaviour of the supervisor is one of the life cycle its methods
\* promise.
THEOREM Implementation == Spec => ImplementsLifecycle
<1>1. Init => Lifecycle!Init
  BY DEF Init, Lifecycle!Init, Loose, Alive
<1>2. SupervisorInv /\ [Next]_vars => [Lifecycle!Next]_(Lifecycle!vars)
  <2> SUFFICES ASSUME SupervisorInv, [Next]_vars
               PROVE  [Lifecycle!Next]_(Lifecycle!vars)
    OBVIOUS
  <2>1. CASE Retire
    <3>1. Lifecycle!Retire
      BY <2>1 DEF Retire, Lifecycle!Retire, procVars, callVars, Loose, Alive
    <3> QED
      BY <3>1 DEF Lifecycle!Next
  <2>2. CASE BackoffExpires \/ UNCHANGED vars
    BY <2>2 DEF BackoffExpires, vars, Lifecycle!vars, procVars, callVars, Loose, Alive
  <2> QED
    BY <2>1, <2>2, ClientStepRefines, SpawnStepRefines DEF Next
<1> QED
  BY <1>1, <1>2, SupervisorInvariant, PTL
     DEF Spec, ImplementsLifecycle, Lifecycle!Spec
=============================================================================
