------------------------------ MODULE Lifecycle ------------------------------
(***************************************************************************)
(* What the supervisor of a project promises its callers, from the         *)
(* contracts of EnsureStarted, Stop and Retire in supervisor.go: the       *)
(* five-state diagram, one process group at a time, one answer for         *)
(* everyone who waits for a startup, no process for a retired project.     *)
(***************************************************************************)
CONSTANT Clients

VARIABLES
  state,     \* the lifecycle state
  retired,   \* no process may be started any more
  instance,  \* a process group is alive that nobody has sent SIGKILL
  hoping,    \* callers that wait for the startup in flight
  owed       \* callers of a failed startup that are yet to be told

vars == <<state, retired, instance, hoping, owed>>

Down == state \in {"stopped", "failed"}

Init ==
  /\ state = "stopped"
  /\ retired = FALSE
  /\ instance = FALSE
  /\ hoping = {}
  /\ owed = {}

\* A caller begins a startup; it finds no earlier group at large.
Start(c) ==
  /\ Down
  /\ ~retired
  /\ ~instance
  /\ c \notin owed
  /\ state' = "starting"
  /\ instance' = TRUE
  /\ hoping' = hoping \cup {c}
  /\ UNCHANGED <<retired, owed>>

\* A caller shares the startup in flight.
Share(c) ==
  /\ state = "starting"
  /\ c \notin hoping \cup owed
  /\ hoping' = hoping \cup {c}
  /\ UNCHANGED <<state, retired, instance, owed>>

\* A startup that does not even begin.
StartImpossible ==
  /\ Down
  /\ ~retired
  /\ state' = "failed"
  /\ UNCHANGED <<retired, instance, hoping, owed>>

\* Readiness: everyone who waits is told.
Ready ==
  /\ state = "starting"
  /\ state' = "running"
  /\ hoping' = {}
  /\ UNCHANGED <<retired, instance, owed>>

\* The startup fails: whoever waits will be told, and nothing is left behind.
StartFails ==
  /\ state = "starting"
  /\ state' = "failed"
  /\ instance' = FALSE
  /\ owed' = owed \cup hoping
  /\ hoping' = {}
  /\ UNCHANGED retired

Tell(c) ==
  /\ c \in owed
  /\ owed' = owed \ {c}
  /\ UNCHANGED <<state, retired, instance, hoping>>

\* The process ends unasked, and nothing of it is left behind.
Exit ==
  /\ state = "running"
  /\ state' \in {"stopped", "failed"}
  /\ instance' = FALSE
  /\ UNCHANGED <<retired, hoping, owed>>

\* The group ends, or is sent SIGKILL, without a change of state.
Vanish ==
  /\ instance
  /\ instance' = FALSE
  /\ UNCHANGED <<state, retired, hoping, owed>>

BeginStop ==
  /\ state \in {"starting", "running"}
  /\ state' = "stopping"
  /\ hoping' = {}
  /\ UNCHANGED <<retired, instance, owed>>

\* Stopped is declared when nothing is left at large.
EndStop ==
  /\ state = "stopping"
  /\ ~instance
  /\ state' = "stopped"
  /\ UNCHANGED <<retired, instance, hoping, owed>>

Retire ==
  /\ retired' = TRUE
  /\ UNCHANGED <<state, instance, hoping, owed>>

Next ==
  \/ \E c \in Clients : Start(c) \/ Share(c) \/ Tell(c)
  \/ StartImpossible \/ Ready \/ StartFails
  \/ Exit \/ Vanish \/ BeginStop \/ EndStop \/ Retire

Spec == Init /\ [][Next]_vars
=============================================================================
