------------------------------ MODULE Supervisor ------------------------------
(***************************************************************************)
(* The process supervisor of one project (internal/process/supervisor.go). *)
(*                                                                         *)
(* A Supervisor is shared by the goroutines that call its methods          *)
(* (proxy requests, CLI commands, the idle monitor, reload and shutdown)   *)
(* and by the goroutines it starts itself: for every spawned command one   *)
(* that waits for the direct child (handleExit), one that probes readiness *)
(* (probeReadiness), and for every stop one that drains the process group  *)
(* (finishStop).  Each critical section under s.mu is one action here, and *)
(* whatever the code does after unlocking (sending a signal, delivering    *)
(* outcomes, closing stopDone) is an action of its own.                    *)
(*                                                                         *)
(* Spawns are numbered 1, 2, ...: number g stands for the *exec.Cmd, its   *)
(* process group and its procDone and stopDone channels.  Number 0 is nil. *)
(* A client is one call of EnsureStarted, EnsureStartedOnDemand, Stop or   *)
(* Restart: the channel it was handed outlives a caller that gave up.      *)
(***************************************************************************)
EXTENDS Naturals

CONSTANTS
  Clients,      \* concurrent callers of the supervisor's methods
  MaxSpawns,    \* bound: commands spawned in one behaviour
  MaxFailures   \* bound: consecutiveFailures saturates here

ASSUME SupervisorAssumption ==
  /\ MaxSpawns \in Nat
  /\ MaxFailures \in Nat \ {0}

VARIABLES
  state,      \* s.state (and its mirror s.atomicState)
  cmd,        \* s.cmd and s.pgid: the spawn the supervisor tracks
  spawned,    \* the number of spawns so far
  retired,    \* s.retired
  failures,   \* s.consecutiveFailures
  backoff,    \* now is before s.nextRetryAt
  abortErr,   \* s.abortErr, by its reason
  stopDone,   \* s.stopDone: the spawn whose stop it announces
  waiters,    \* s.waiters
  child,      \* the direct child of a spawn; "reaped" once procDone is closed
  kids,       \* group members that survived the direct child are alive
  killed,     \* the group was sent SIGKILL
  probe,      \* where the spawn's probeReadiness goroutine stands
  stop,       \* where the stop of the spawn stands
  call,       \* what a client is blocked on
  joined,     \* the stopDone channel a stopping client waits for
  owed        \* a start failure handleExit still has to deliver

vars == <<state, cmd, spawned, retired, failures, backoff, abortErr, stopDone,
          waiters, child, kids, killed, probe, stop, call, joined, owed>>

\* The supervisor's fields (under s.mu), the spawns, the calls.
fieldVars == <<state, cmd, spawned, retired, failures, backoff, abortErr,
               stopDone, waiters>>
procVars  == <<child, kids, killed, probe, stop>>
callVars  == <<call, joined, owed>>

Spawns == 1..MaxSpawns

States  == {"stopped", "starting", "running", "stopping", "failed"}

TypeOK ==
  /\ state \in States
  /\ cmd \in 0..MaxSpawns
  /\ spawned \in 0..MaxSpawns
  /\ retired \in BOOLEAN
  /\ failures \in 0..MaxFailures
  /\ backoff \in BOOLEAN
  /\ abortErr \in {"none", "timeout", "stop"}
  /\ stopDone \in 0..MaxSpawns
  /\ waiters \in SUBSET Clients
  /\ child \in [Spawns -> {"none", "alive", "exited", "reaped"}]
  /\ kids \in [Spawns -> BOOLEAN]
  /\ killed \in [Spawns -> BOOLEAN]
  /\ probe \in [Spawns -> {"none", "probing", "killing", "done"}]
  /\ stop \in [Spawns -> {"none", "signal", "grace", "drain", "finish",
                          "closing", "closed"}]
  /\ call \in [Clients -> {"idle", "start", "stop", "restart"}]
  /\ joined \in [Clients -> 0..MaxSpawns]
  /\ owed \in [Clients -> {"none", "exit", "timeout"}]

Init ==
  /\ state = "stopped"
  /\ cmd = 0
  /\ spawned = 0
  /\ retired = FALSE
  /\ failures = 0
  /\ backoff = FALSE
  /\ abortErr = "none"
  /\ stopDone = 0
  /\ waiters = {}
  /\ child = [g \in Spawns |-> "none"]
  /\ kids = [g \in Spawns |-> FALSE]
  /\ killed = [g \in Spawns |-> FALSE]
  /\ probe = [g \in Spawns |-> "none"]
  /\ stop = [g \in Spawns |-> "none"]
  /\ call = [c \in Clients |-> "idle"]
  /\ joined = [c \in Clients |-> 0]
  /\ owed = [c \in Clients |-> "none"]

-----------------------------------------------------------------------------
(* Answering the callers of EnsureStarted.                                 *)

\* The call of c returns a channel that already holds its answer.
Answer(c) ==
  /\ call' = [call EXCEPT ![c] = "idle"]
  /\ joined' = [joined EXCEPT ![c] = 0]
  /\ UNCHANGED <<waiters, owed>>

\* The call of c returns a channel that the current startup will answer.
Wait(c) ==
  /\ waiters' = waiters \cup {c}
  /\ call' = [call EXCEPT ![c] = "start"]
  /\ joined' = [joined EXCEPT ![c] = 0]
  /\ UNCHANGED owed

NotifyWaitersTwice ==
  /\ call' = [c \in Clients |-> IF c \in waiters THEN "idle" ELSE call[c]]
  /\ UNCHANGED <<waiters, joined, owed>>

\* notifyWaitersLocked: every pending caller gets the outcome, under s.mu.
NotifyWaiters ==
  /\ call' = [c \in Clients |-> IF c \in waiters THEN "idle" ELSE call[c]]
  /\ waiters' = {}
  /\ UNCHANGED <<joined, owed>>

\* recordStartFailureLocked, after f earlier failures in a row.
RecordStartFailure(f) ==
  /\ failures' = IF f < MaxFailures THEN f + 1 ELSE f
  /\ backoff' = TRUE

-----------------------------------------------------------------------------
(* Starting.                                                               *)

\* The command of spawn g and the goroutines that watch it.
StartGroup(g) ==
  /\ g \in Spawns
  /\ spawned' = g
  /\ cmd' = g
  /\ child' = [child EXCEPT ![g] = "alive"]
  /\ probe' = [probe EXCEPT ![g] = "probing"]
  /\ UNCHANGED <<kids, killed, stop, stopDone, retired>>

SpawnKeepingAbortErr ==
  StartGroup(spawned + 1) /\ state' = "starting" /\ UNCHANGED abortErr

\* spawnLocked succeeds: the command runs in a group of its own.
Spawn ==
  /\ StartGroup(spawned + 1)
  /\ state' = "starting"
  /\ abortErr' = "none"

MayStartRetired == state \in {"stopped", "failed"}

MayStart == state \in {"stopped", "failed"} /\ ~retired

\* ensureStartedLocked for caller c; f and b are the failure count and the
\* backoff window as the calling method leaves them.
EnsureStartedLocked(c, f, b) ==
  \/ /\ \/ state = "running" /\ Answer(c)
        \/ state = "starting" /\ Wait(c)
        \/ state = "stopping" /\ Answer(c)
        \/ state \in {"stopped", "failed"} /\ retired /\ Answer(c)
     /\ failures' = f
     /\ backoff' = b
     /\ UNCHANGED <<state, cmd, spawned, retired, abortErr, stopDone, procVars>>
  \/ /\ MayStart
     /\ Spawn
     /\ failures' = f
     /\ backoff' = b
     /\ Wait(c)
  \/ /\ MayStart      \* the environment, the log file or the command failed
     /\ state' = "failed"
     /\ RecordStartFailure(f)
     /\ Answer(c)
     /\ UNCHANGED <<cmd, spawned, retired, abortErr, stopDone, procVars>>

EnsureStartedKeepingBackoff(c) ==
  call[c] = "idle" /\ EnsureStartedLocked(c, failures, backoff)

\* project:start, and the start half of a restart: resets the backoff.
EnsureStarted(c) ==
  /\ call[c] = "idle"
  /\ EnsureStartedLocked(c, 0, FALSE)

\* A request-triggered start: refused inside the backoff window.
EnsureStartedOnDemand(c) ==
  /\ call[c] = "idle"
  /\ IF state = "failed" /\ backoff
       THEN /\ Answer(c)
            /\ UNCHANGED <<state, cmd, spawned, retired, failures, backoff,
                           abortErr, stopDone, procVars>>
       ELSE EnsureStartedLocked(c, failures, backoff)

Retire ==
  /\ ~retired
  /\ retired' = TRUE
  /\ UNCHANGED <<state, cmd, spawned, failures, backoff, abortErr,
                 stopDone, waiters, procVars, callVars>>

\* The wall clock passes nextRetryAt.
BackoffExpires ==
  /\ backoff
  /\ backoff' = FALSE
  /\ UNCHANGED <<state, cmd, spawned, retired, failures, abortErr,
                 stopDone, waiters, procVars, callVars>>

-----------------------------------------------------------------------------
(* probeReadiness of spawn g.                                              *)

\* A probe succeeds.  Anything may be listening on the application port, so
\* a probe can succeed whatever became of the command itself.
ProbeReady(g) ==
  /\ probe[g] = "probing"
  /\ probe' = [probe EXCEPT ![g] = "done"]
  /\ IF state = "starting" /\ cmd = g
       THEN /\ state' = "running"
            /\ failures' = 0
            /\ backoff' = FALSE
            /\ NotifyWaiters
       ELSE UNCHANGED <<state, failures, backoff, waiters, callVars>>
  /\ UNCHANGED <<cmd, spawned, retired, abortErr, stopDone, child,
                 kids, killed, stop>>

\* The process exited, and handleExit has already dealt with it.
ProbeSeesExit(g) ==
  /\ probe[g] = "probing"
  /\ child[g] = "reaped"
  /\ probe' = [probe EXCEPT ![g] = "done"]
  /\ UNCHANGED <<fieldVars, child, kids, killed, stop, callVars>>

\* startup_timeout_seconds elapsed.
ProbeDeadline(g) ==
  /\ probe[g] = "probing"
  /\ IF state = "starting" /\ cmd = g
       THEN /\ abortErr' = "timeout"
            /\ probe' = [probe EXCEPT ![g] = "killing"]
       ELSE /\ probe' = [probe EXCEPT ![g] = "done"]
            /\ UNCHANGED abortErr
  /\ UNCHANGED <<state, cmd, spawned, retired, failures, backoff,
                 stopDone, waiters, child, kids, killed, stop, callVars>>

ProbeKillLost(g) ==
  /\ probe[g] = "killing"
  /\ probe' = [probe EXCEPT ![g] = "done"]
  /\ UNCHANGED <<fieldVars, child, kids, killed, stop, callVars>>

\* ... and the group is killed, after s.mu was released.
ProbeKill(g) ==
  /\ probe[g] = "killing"
  /\ probe' = [probe EXCEPT ![g] = "done"]
  /\ killed' = [killed EXCEPT ![g] = TRUE]
  /\ UNCHANGED <<fieldVars, child, kids, stop, callVars>>

-----------------------------------------------------------------------------
(* handleExit of spawn g.                                                  *)

\* The child exits while the project is starting: the startup failed.  The
\* waiters are taken now and answered later, once the output is drained.
ExitStarting(g) ==
  LET reason == IF abortErr = "none" THEN "exit" ELSE abortErr IN
  /\ child[g] = "exited"
  /\ cmd = g
  /\ state = "starting"
  /\ state' = "failed"
  /\ cmd' = 0
  /\ RecordStartFailure(failures)
  /\ abortErr' = "none"
  /\ owed' = [c \in Clients |-> IF c \in waiters THEN reason ELSE owed[c]]
  /\ waiters' = {}
  /\ killed' = [killed EXCEPT ![g] = TRUE]
  /\ child' = [child EXCEPT ![g] = "reaped"]
  /\ UNCHANGED <<spawned, retired, stopDone, kids, probe, stop, call, joined>>

\* One send of handleExit's delivery loop.
DeliverFailure(c) ==
  /\ owed[c] # "none"
  /\ owed' = [owed EXCEPT ![c] = "none"]
  /\ call' = [call EXCEPT ![c] = "idle"]
  /\ UNCHANGED <<fieldVars, procVars, joined>>

\* The child exits although nobody asked it to.
ExitRunning(g) ==
  /\ child[g] = "exited"
  /\ cmd = g
  /\ state = "running"
  /\ state' \in {"stopped", "failed"}     \* stopped: a clean exit
  /\ cmd' = 0
  /\ killed' = [killed EXCEPT ![g] = TRUE]
  /\ child' = [child EXCEPT ![g] = "reaped"]
  /\ UNCHANGED <<spawned, retired, failures, backoff, abortErr, stopDone,
                 waiters, kids, probe, stop, callVars>>

ExitRecordedAsStopped(g) ==
  /\ child[g] = "exited"
  /\ cmd = g
  /\ state \in {"stopping", "stopped", "failed"}
  /\ state' = "stopped"
  /\ cmd' = 0
  /\ child' = [child EXCEPT ![g] = "reaped"]
  /\ UNCHANGED <<spawned, retired, failures, backoff, abortErr, stopDone,
                 waiters, kids, killed, probe, stop, callVars>>

\* The child exits during a stop, or after a stop declared it stopped anyway
\* and nothing was spawned since: only the exit is recorded.
ExitRecorded(g) ==
  /\ child[g] = "exited"
  /\ cmd = g
  /\ state \in {"stopping", "stopped", "failed"}
  /\ cmd' = 0
  /\ child' = [child EXCEPT ![g] = "reaped"]
  /\ UNCHANGED <<state, spawned, retired, failures, backoff, abortErr,
                 stopDone, waiters, kids, killed, probe, stop, callVars>>

\* An extremely late exit: the supervisor has respawned meanwhile.
ExitStale(g) ==
  /\ child[g] = "exited"
  /\ cmd # g
  /\ child' = [child EXCEPT ![g] = "reaped"]
  /\ UNCHANGED <<fieldVars, kids, killed, probe, stop, callVars>>

HandleExit(g) ==
  ExitStarting(g) \/ ExitRunning(g) \/ ExitRecorded(g) \/ ExitStale(g)

-----------------------------------------------------------------------------
(* Stopping.                                                               *)

\* c calls StopAsync and will wait for channel g (0: one already closed).
Join(c, kind, g) ==
  /\ call' = [call EXCEPT ![c] = kind]
  /\ joined' = [joined EXCEPT ![c] = g]

\* Nothing to stop, or somebody else's stop to wait for.
StopJoin(c, kind) ==
  /\ call[c] = "idle"
  /\ \/ state \in {"stopped", "failed"} /\ Join(c, kind, 0)
     \/ state = "stopping" /\ Join(c, kind, stopDone)
  /\ UNCHANGED <<fieldVars, procVars, owed>>

\* Starting or running: this caller owns the stop.  A starting project's
\* waiters are told at once.
StopOwn(c, kind) ==
  /\ call[c] = "idle"
  /\ state \in {"starting", "running"}
  /\ state' = "stopping"
  /\ abortErr' = IF state = "starting" THEN "stop" ELSE abortErr
  /\ LET told == IF state = "starting" THEN waiters ELSE {}
     IN  /\ call' = [d \in Clients |-> IF d = c THEN kind
                                      ELSE IF d \in told THEN "idle" ELSE call[d]]
         /\ waiters' = waiters \ told
  /\ joined' = [joined EXCEPT ![c] = cmd]
  /\ stopDone' = cmd
  /\ stop' = [stop EXCEPT ![cmd] = "signal"]
  /\ UNCHANGED <<cmd, spawned, retired, failures, backoff, child, kids,
                 killed, probe, owed>>

StopAsync(c, kind) == StopJoin(c, kind) \/ StopOwn(c, kind)

\* The step of the stop goroutine of g from phase p to phase q.
StopStep(g, p, q) ==
  /\ stop[g] = p
  /\ stop' = [stop EXCEPT ![g] = q]
  /\ UNCHANGED <<cmd, spawned, retired, failures, backoff, abortErr, stopDone,
                 waiters, child, kids, probe, callVars>>

\* The graceful signal, sent after s.mu was released; members may ignore it.
StopSignal(g) ==
  /\ StopStep(g, "signal", "grace")
  /\ UNCHANGED <<state, killed>>

\* awaitGroupExit: the child is reaped and kill(-pgid, 0) finds nobody.
GroupExited(g) ==
  /\ child[g] = "reaped"
  /\ ~kids[g]
  /\ \E p \in {"grace", "drain"} : StopStep(g, p, "finish")
  /\ UNCHANGED <<state, killed>>

GraceExpiresWithoutKill(g) ==
  StopStep(g, "grace", "drain") /\ UNCHANGED <<state, killed>>

\* The graceful window is over: SIGKILL.
GraceExpires(g) ==
  /\ StopStep(g, "grace", "drain")
  /\ killed' = [killed EXCEPT ![g] = TRUE]
  /\ UNCHANGED state

DrainNeverExpires(g) == GroupExited(g)

\* killDrainTimeout is over: declared stopped anyway.
DrainExpires(g) ==
  /\ StopStep(g, "drain", "finish")
  /\ UNCHANGED <<state, killed>>

\* finishStop's critical section.
FinishStop(g) ==
  /\ StopStep(g, "finish", "closing")
  /\ state' = "stopped"
  /\ UNCHANGED killed

\* close(stopDone)
CloseStopDone(g) ==
  /\ StopStep(g, "closing", "closed")
  /\ UNCHANGED <<state, killed>>

\* The channel c waits for is closed.
StopClosed(c) == joined[c] # 0 => stop[joined[c]] = "closed"

\* Stop returns nil.
StopReturns(c) ==
  /\ call[c] = "stop"
  /\ StopClosed(c)
  /\ joined' = [joined EXCEPT ![c] = 0]
  /\ call' = [call EXCEPT ![c] = "idle"]
  /\ UNCHANGED <<fieldVars, procVars, owed>>

\* Restart: its stop is done, so it calls EnsureStarted.
RestartStarts(c) ==
  /\ call[c] = "restart"
  /\ StopClosed(c)
  /\ EnsureStartedLocked(c, 0, FALSE)

\* The caller's context ends first.  The stop itself goes on.
StopGivesUp(c) ==
  /\ call[c] \in {"stop", "restart"}
  /\ joined' = [joined EXCEPT ![c] = 0]
  /\ call' = [call EXCEPT ![c] = "idle"]
  /\ UNCHANGED <<fieldVars, procVars, owed>>

-----------------------------------------------------------------------------
(* The command's own processes.                                            *)

\* The direct child ends, by itself or by a signal; what it started in the
\* group may survive it.
ChildExits(g) ==
  /\ child[g] = "alive"
  /\ child' = [child EXCEPT ![g] = "exited"]
  /\ \E survivors \in BOOLEAN : kids' = [kids EXCEPT ![g] = survivors]
  /\ UNCHANGED <<fieldVars, killed, probe, stop, callVars>>

\* The last surviving member of the group ends.
KidsExit(g) ==
  /\ kids[g]
  /\ kids' = [kids EXCEPT ![g] = FALSE]
  /\ UNCHANGED <<fieldVars, child, killed, probe, stop, callVars>>

-----------------------------------------------------------------------------
ClientStep(c) ==
  \/ EnsureStarted(c)
  \/ EnsureStartedOnDemand(c)
  \/ \E kind \in {"stop", "restart"} : StopAsync(c, kind)
  \/ StopReturns(c)
  \/ RestartStarts(c)
  \/ StopGivesUp(c)
  \/ DeliverFailure(c)

ProbeStep(g) == ProbeReady(g) \/ ProbeSeesExit(g) \/ ProbeDeadline(g)

StopGoroutine(g) ==
  \/ StopSignal(g)
  \/ GroupExited(g)
  \/ GraceExpires(g)
  \/ DrainExpires(g)
  \/ FinishStop(g)
  \/ CloseStopDone(g)

SpawnStep(g) ==
  \/ ProbeStep(g)
  \/ ProbeKill(g)
  \/ HandleExit(g)
  \/ StopGoroutine(g)
  \/ ChildExits(g)
  \/ KidsExit(g)

Next ==
  \/ \E c \in Clients : ClientStep(c)
  \/ \E g \in Spawns : SpawnStep(g)
  \/ Retire
  \/ BackoffExpires

\* The Go scheduler runs every runnable goroutine, every timer the code arms
\* fires, and the kernel ends a child that was sent SIGKILL.  Nothing says
\* that a command exits by itself, becomes ready or obeys a graceful signal.
Fairness ==
  /\ \A g \in Spawns :
       /\ WF_vars(ProbeStep(g))
       /\ WF_vars(ProbeKill(g))
       /\ WF_vars(HandleExit(g))
       /\ WF_vars(StopGoroutine(g))
       /\ WF_vars(killed[g] /\ ChildExits(g))
  /\ \A c \in Clients :
       /\ WF_vars(DeliverFailure(c))
       /\ WF_vars(StopReturns(c))
       /\ WF_vars(RestartStarts(c))

Spec == Init /\ [][Next]_vars

FairSpec == Spec /\ Fairness

-----------------------------------------------------------------------------
(* Properties.                                                             *)

\* The group of spawn g still has members.
Alive(g) == child[g] = "alive" \/ kids[g]

\* The group of spawn g has members that nobody has sent SIGKILL.
Loose(g) == Alive(g) /\ ~killed[g]

\* The stop of spawn g was begun and has not declared the project stopped.
StopPending(g) == stop[g] \in {"signal", "grace", "drain", "finish"}

\* Children are never orphaned: members of a group that were not sent SIGKILL
\* belong to the command the supervisor is starting or running, or to the one
\* whose stop is still going to escalate (handleExit's straggler kills and
\* finishStop's escalation).
NoOrphan ==
  \A g \in Spawns : Loose(g) =>
    \/ cmd = g /\ state \in {"starting", "running"}
    \/ state = "stopping" /\ stopDone = g /\ stop[g] \in {"signal", "grace"}

\* EnsureStarted's channel yields exactly one value: a caller that is waiting
\* is either among s.waiters of the startup in flight or held by one exit
\* handler that still has to deliver the failure, never both, never neither.
EveryWaiterHasOneSender ==
  /\ waiters # {} => state = "starting"
  /\ \A c \in Clients :
       /\ call[c] = "start" <=> (c \in waiters \/ owed[c] # "none")
       /\ ~(c \in waiters /\ owed[c] # "none")

\* A stop has one owner: the project is stopping exactly while one finishStop
\* goroutine is bound to declare it stopped, and s.stopDone, which the other
\* Stop callers join, is that goroutine's channel.
OneStopOwner ==
  /\ \A g \in Spawns : StopPending(g) => state = "stopping" /\ stopDone = g
  /\ state = "stopping" => \E g \in Spawns : StopPending(g)

\* The retry window only ever restrains a failed project: whatever starts,
\* runs or was stopped has no window left over that would make the next
\* request-triggered start fail (EnsureStartedOnDemand tests both).
BackoffOnlyAfterFailure == backoff => state = "failed" /\ failures > 0

\* Waiters are told the reason of their own startup: while starting, abortErr
\* blames the readiness timeout exactly if the current spawn's own probe ran
\* into its deadline, and never a stop or a timeout of an earlier spawn.
AbortReasonIsOwn ==
  state = "starting" =>
    abortErr = IF probe[cmd] \in {"killing", "done"} THEN "timeout" ELSE "none"

\* A command that is starting or running is tracked, and not reaped yet.
Tracked ==
  state \in {"starting", "running"} =>
    cmd \in Spawns /\ child[cmd] \in {"alive", "exited"}

\* Nothing has happened yet to the spawns to come.
Fresh ==
  /\ cmd <= spawned
  /\ \A g \in Spawns : g > spawned =>
       /\ child[g] = "none" /\ probe[g] = "none" /\ stop[g] = "none"
       /\ ~kids[g] /\ ~killed[g]

\* The inductive invariant.
SupervisorInv ==
  /\ TypeOK
  /\ Fresh
  /\ Tracked
  /\ NoOrphan
  /\ EveryWaiterHasOneSender
  /\ OneStopOwner
  /\ BackoffOnlyAfterFailure
  /\ AbortReasonIsOwn

\* A retired supervisor that is down stays down, whatever late probe, exit
\* handler, restart or stop goroutine still runs.
RetiredStaysDown ==
  [][retired /\ state \in {"stopped", "failed"}
       => state' \in {"stopped", "failed"}]_vars

\* Every EnsureStarted caller is answered: the startup succeeds, exits, is
\* stopped, or is killed at its deadline and its failure delivered.
StartIsAnswered == \A c \in Clients : call[c] = "start" ~> call[c] # "start"

\* Every stop ends, even if members survive SIGKILL in an uninterruptible
\* sleep, and with it every Stop call.
StopFinishes ==
  /\ state = "stopping" ~> state = "stopped"
  /\ \A c \in Clients : call[c] = "stop" ~> call[c] # "stop"

\* Reload relies on it: when a retired supervisor has nothing to stop, the
\* process group of its project is gone, so that a replacement cannot race
\* its predecessor for the application port.
RetiredGroupGone ==
  retired /\ state \in {"stopped", "failed"} => \A g \in Spawns : ~Alive(g)

\* The refinement mapping to Lifecycle.
Lifecycle == INSTANCE Lifecycle WITH
  instance <- \E g \in Spawns : Loose(g),
  hoping   <- waiters,
  owed     <- {c \in Clients : owed[c] # "none"}

\* The supervisor, with its goroutines per spawn and per stop, implements the
\* life cycle its methods promise: no late probe, exit handler or stop
\* goroutine makes a transition the diagram does not have, a new group is
\* started only when no earlier one is at large, and every waiter is told.
ImplementsLifecycle == Lifecycle!Spec
=============================================================================
