----------------------------- MODULE BudgetProofs -----------------------------
(* Proofs about the running-server budget, for any number of projects,      *)
(* starters and caps.                                                       *)
EXTENDS Budget, FiniteSetTheorems, TLAPS

Attempting == {"over", "count", "judge", "start"}

\* An attempt holds budgetMu.
Exclusive == \A s \in Starters : pc[s] \in Attempting => lock = s

\* Whoever is on the way to a start knows its project.
Wanted == \A s \in Starters : pc[s] # "idle" => want[s] \in Projects

\* An attempt that counts looks at every project of the table, and has
\* attempts left.
Looking ==
  \A s \in Starters : pc[s] \in {"count", "judge"} =>
    registered \subseteq try.table /\ try.attempt < EvictionAttempts

\* The count misses no booked slot: what it has looked at and not counted holds
\* none, and no other start can book one.
Counting ==
  \A s \in Starters : pc[s] = "count" => Booked \subseteq try.todo \cup try.seen

\* Once an attempt has found room, there is room.
Room ==
  \A s \in Starters : pc[s] = "start" =>
    /\ try.limit > 0 => Cardinality(Booked) < try.limit
    /\ try.entryLimit > 0 => Cardinality(Booked \cap Entry) < try.entryLimit

\* What TypeOK says of the attempt.
Tries ==
  [limit : Caps \cup {0}, entryLimit : EntryCaps \cup {0},
   table : SUBSET Projects, todo : SUBSET Projects,
   seen : SUBSET Projects, rivals : SUBSET Projects,
   blocked : BOOLEAN, attempt : 0..EvictionAttempts, lastErr : BOOLEAN]

BudgetInv == TypeOK /\ Exclusive /\ Wanted /\ Looking /\ Counting /\ Room

-----------------------------------------------------------------------------
\* A part of a finite set is no larger than the whole.
LEMMA SmallerCount ==
  ASSUME NEW S, NEW T, IsFiniteSet(T), S \subseteq T
  PROVE  /\ IsFiniteSet(S)
         /\ Cardinality(S) \in Nat
         /\ Cardinality(T) \in Nat
         /\ Cardinality(S) <= Cardinality(T)
  BY FS_Subset, FS_CardinalityType

\* One more element makes a finite set larger by one at most.
LEMMA OneMore ==
  ASSUME NEW S, NEW x, IsFiniteSet(S)
  PROVE  /\ IsFiniteSet(S \cup {x})
         /\ Cardinality(S \cup {x}) <= Cardinality(S) + 1
  <1>1. Cardinality(S) \in Nat  BY FS_CardinalityType
  <1>2. /\ IsFiniteSet(S \cup {x})
        /\ Cardinality(S \cup {x}) = IF x \in S THEN Cardinality(S)
                                     ELSE Cardinality(S) + 1
    BY FS_AddElement, Zenon
  <1>3. Cardinality(S \cup {x}) \in {Cardinality(S), Cardinality(S) + 1}
    BY <1>2, Zenon
  <1> QED  BY <1>1, <1>2, <1>3

\* The booked projects are finitely many.
LEMMA BookedFinite ==
  ASSUME TypeOK
  PROVE  /\ IsFiniteSet(Booked)
         /\ Cardinality(Booked) \in Nat
         /\ Cardinality(Booked \cap Entry) \in Nat
  <1>1. Booked \subseteq Projects  BY DEF Booked, TypeOK
  <1>2. IsFiniteSet(Booked)  BY <1>1, SmallerCount, BudgetAssumption
  <1>3. Cardinality(Booked \cap Entry) \in Nat
    BY <1>2, SmallerCount
  <1> QED  BY <1>2, <1>3, FS_CardinalityType

\* Room survives every step that books no slot.
LEMMA RoomRemains ==
  ASSUME TypeOK, Booked' \subseteq Booked
  PROVE  /\ Cardinality(Booked') \in Nat
         /\ Cardinality((Booked \cap Entry)') \in Nat
         /\ Cardinality(Booked') <= Cardinality(Booked)
         /\ Cardinality((Booked \cap Entry)') <= Cardinality(Booked \cap Entry)
  <1>1. IsFiniteSet(Booked) /\ IsFiniteSet(Booked \cap Entry)
    BY BookedFinite, FS_Subset
  <1>2. (Booked \cap Entry)' \subseteq Booked \cap Entry  OBVIOUS
  <1>3. Cardinality(Booked') \in Nat /\ Cardinality(Booked') <= Cardinality(Booked)
    BY <1>1, SmallerCount
  <1>4. /\ Cardinality((Booked \cap Entry)') \in Nat
        /\ Cardinality((Booked \cap Entry)') <= Cardinality(Booked \cap Entry)
    BY <1>1, <1>2, SmallerCount
  <1> QED  BY <1>3, <1>4

\* The type of the attempt.
LEMMA TryType ==
  ASSUME TypeOK
  PROVE  try \in Tries
  BY DEF TypeOK, Tries

\* ... which the state between attempts has too.
LEMMA NoTryType ==
  NoTry \in Tries
  <1>1. 0 \in 0..EvictionAttempts  BY BudgetAssumption
  <1> QED  BY <1>1 DEF NoTry, Tries

\* The caps an attempt goes by are natural numbers.
LEMMA TryTypes ==
  ASSUME TypeOK
  PROVE  /\ try.limit \in Nat /\ try.entryLimit \in Nat
         /\ try.attempt \in 0..EvictionAttempts
  <1>1. /\ try.limit \in Caps \cup {0}
        /\ try.entryLimit \in EntryCaps \cup {0}
        /\ try.attempt \in 0..EvictionAttempts
    BY DEF TypeOK
  <1>2. Caps \cup {0} \subseteq Nat /\ EntryCaps \cup {0} \subseteq Nat
    BY BudgetAssumption
  <1> QED  BY <1>1, <1>2, Zenon

-----------------------------------------------------------------------------
\* A start that books nothing books nothing, and keeps the types.
LEMMA EnsureStartedKeeps ==
  ASSUME TypeOK, Wanted, NEW s \in Starters, pc[s] # "idle", NEW b \in BOOLEAN,
         EnsureStarted(s, b)
  PROVE  /\ state' \in [Projects -> Up \cup Down \cup {"stopping"}]
         /\ outside' \subseteq Projects
         /\ pc' \in [Starters -> {"idle", "bypass", "lock", "over", "count",
                                 "judge", "start", "wait", "sleep", "nil"}]
         /\ manual' \in [Starters -> BOOLEAN]
         /\ want' \in [Starters -> Projects \cup {NoOne}]
         /\ pc'[s] \in {"idle", "wait"}
         /\ pc'[s] = "wait" => want'[s] = want[s]
         /\ \A t \in Starters \ {s} : pc'[t] = pc[t] /\ want'[t] = want[t]
         /\ UNCHANGED <<retired, registered, parked, gated, capVars>>
         /\ Booked' \subseteq IF b THEN Booked \cup {want[s]} ELSE Booked
  <1> DEFINE p == want[s]
  <1>0. p \in Projects  BY DEF Wanted
  <1>1. CASE /\ Answer({s}, s, "idle") /\ UNCHANGED <<state, outside>>
    <2>1. Booked' = Booked  BY <1>1 DEF EnsureStarted, Booked
    <2> QED  BY <1>1, <2>1 DEF EnsureStarted, Answer, TypeOK
  <1>2. CASE /\ Answer({}, s, "wait") /\ UNCHANGED <<state, outside>>
    <2>1. Booked' = Booked  BY <1>2 DEF EnsureStarted, Booked
    <2> QED  BY <1>2, <2>1 DEF EnsureStarted, Answer, TypeOK
  <1>3. CASE /\ state' = [state EXCEPT ![p] = "starting"]
             /\ outside' = IF b THEN outside ELSE outside \cup {p}
             /\ Answer({}, s, "wait")
    <2>1. Booked' \subseteq IF b THEN Booked \cup {p} ELSE Booked
      BY <1>0, <1>3 DEF EnsureStarted, Booked, TypeOK
    <2> QED  BY <1>0, <1>3, <2>1 DEF EnsureStarted, Answer, TypeOK, Up
  <1>4. CASE /\ state' = [state EXCEPT ![p] = "failed"]
             /\ UNCHANGED outside
             /\ Answer({s}, s, "idle")
    <2>1. Booked' \subseteq Booked
      BY <1>0, <1>4 DEF EnsureStarted, Booked, TypeOK, Up
    <2> QED  BY <1>0, <1>4, <2>1 DEF EnsureStarted, Answer, TypeOK, Down
  <1> QED  BY <1>1, <1>2, <1>3, <1>4 DEF EnsureStarted

-----------------------------------------------------------------------------
\* A step beside the attempt in progress keeps the invariant.
LEMMA BystanderKeeps ==
  ASSUME BudgetInv, TypeOK', Wanted', UNCHANGED <<lock, try>>,
         registered' \subseteq registered, Booked' \subseteq Booked,
         \A s \in Starters : pc'[s] \in Attempting => pc'[s] = pc[s]
  PROVE  BudgetInv'
  <1>1. Exclusive'  BY DEF BudgetInv, Exclusive
  <1>2. Looking'  BY DEF BudgetInv, Looking, Attempting
  <1>3. Counting'  BY DEF BudgetInv, Counting, Attempting
  <1>4. Room'
    <2> SUFFICES ASSUME NEW s \in Starters, pc'[s] = "start"
                 PROVE /\ try.limit > 0 => Cardinality(Booked') < try.limit
                       /\ try.entryLimit > 0 =>
                            Cardinality((Booked \cap Entry)') < try.entryLimit
      BY DEF Room
    <2>1. pc[s] = "start"  BY DEF Attempting
    <2>2. /\ try.limit > 0 => Cardinality(Booked) < try.limit
          /\ try.entryLimit > 0 => Cardinality(Booked \cap Entry) < try.entryLimit
      BY <2>1 DEF BudgetInv, Room
    <2>3. try.limit \in Nat /\ try.entryLimit \in Nat
      BY TryTypes DEF BudgetInv
    <2>4. /\ Cardinality(Booked) \in Nat
          /\ Cardinality(Booked \cap Entry) \in Nat
      BY BookedFinite DEF BudgetInv
    <2> QED  BY <2>2, <2>3, <2>4, RoomRemains DEF BudgetInv
  <1> QED  BY <1>1, <1>2, <1>3, <1>4 DEF BudgetInv

\* So does a step after which nobody is in an attempt.
LEMMA ReleaseKeeps ==
  ASSUME TypeOK', Wanted', \A s \in Starters : pc'[s] \notin Attempting
  PROVE  BudgetInv'
  BY DEF BudgetInv, Exclusive, Looking, Counting, Room, Attempting

\* While s is in its attempt, nobody else is.
LEMMA Alone ==
  ASSUME BudgetInv, NEW s \in Starters, pc[s] \in Attempting
  PROVE  \A t \in Starters \ {s} : pc[t] \notin Attempting
  BY DEF BudgetInv, Exclusive

-----------------------------------------------------------------------------
\* A call books nothing.
LEMMA CallKeeps ==
  ASSUME BudgetInv, NEW s \in Starters, NEW p \in Projects,
         StartOnDemand(s, p) \/ StartManual(s, p)
  PROVE  BudgetInv' /\ Booked' = Booked
  <1>1. PICK m \in BOOLEAN, step \in {"bypass", "lock"} : Call(s, p, m, step)
    <2>1. CASE StartOnDemand(s, p)
      <3>1. Call(s, p, FALSE, "bypass") \/ Call(s, p, FALSE, "lock")
        BY <2>1 DEF StartOnDemand
      <3> QED  BY <3>1, Zenon
    <2>2. CASE StartManual(s, p)
      <3>1. Call(s, p, TRUE, "lock")  BY <2>2 DEF StartManual
      <3> QED  BY <3>1, Zenon
    <2> QED  BY <2>1, <2>2
  <1>2. Booked' = Booked  BY <1>1 DEF Call, projectVars, Booked
  <1>3. TypeOK'
    BY <1>1 DEF BudgetInv, TypeOK, Call, Go, projectVars, capVars
  <1>4. Wanted' /\ \A t \in Starters : pc'[t] \in Attempting => pc'[t] = pc[t]
    BY <1>1 DEF BudgetInv, TypeOK, Wanted, Attempting, Call, Go
  <1>5. UNCHANGED <<lock, try, registered>>  BY <1>1 DEF Call, projectVars
  <1> QED  BY <1>2, <1>3, <1>4, <1>5, BystanderKeeps

\* Nor does the end of a sleep.
LEMMA SleepKeeps ==
  ASSUME BudgetInv, NEW s \in Starters, Poll(s) \/ Deadline(s)
  PROVE  BudgetInv' /\ Booked' = Booked
  <1>1. Booked' = Booked  BY DEF Poll, Deadline, projectVars, Booked
  <1>2. TypeOK'
    <2>1. CASE Poll(s)
      BY <2>1 DEF BudgetInv, TypeOK, Poll, Go, projectVars, capVars
    <2>2. CASE Deadline(s)
      BY <2>2 DEF BudgetInv, TypeOK, Deadline, Answer, projectVars, capVars
    <2> QED  BY <2>1, <2>2
  <1>3. Wanted' /\ \A t \in Starters : pc'[t] \in Attempting => pc'[t] = pc[t]
    <2>1. CASE Poll(s)
      BY <2>1 DEF BudgetInv, TypeOK, Wanted, Attempting, Poll, Go
    <2>2. CASE Deadline(s)
      BY <2>2 DEF BudgetInv, TypeOK, Wanted, Attempting, Deadline, Answer
    <2> QED  BY <2>1, <2>2
  <1>4. UNCHANGED <<lock, try, registered>>  BY DEF Poll, Deadline, projectVars
  <1> QED  BY <1>1, <1>2, <1>3, <1>4, BystanderKeeps

\* The start of a call that reserves nothing.
LEMMA BypassKeeps ==
  ASSUME BudgetInv, NEW s \in Starters, Bypass(s)
  PROVE  BudgetInv' /\ Booked' \subseteq Booked
  <1>1. pc[s] = "bypass" /\ EnsureStarted(s, FALSE) /\ UNCHANGED <<lock, try>>
    BY DEF Bypass
  <1>2. TypeOK /\ Wanted  BY DEF BudgetInv
  <1>3. Booked' \subseteq Booked  BY <1>1, <1>2, EnsureStartedKeeps
  <1>4. TypeOK'  BY <1>1, <1>2, EnsureStartedKeeps DEF TypeOK, capVars
  <1>5. Wanted' /\ \A t \in Starters : pc'[t] \in Attempting => pc'[t] = pc[t]
    BY <1>1, <1>2, EnsureStartedKeeps DEF Wanted, Attempting
  <1>6. UNCHANGED registered  BY <1>1 DEF EnsureStarted
  <1> QED  BY <1>1, <1>3, <1>4, <1>5, <1>6, BystanderKeeps

\* What the projects and their environment do.
LEMMA ProjectKeeps ==
  ASSUME BudgetInv, NEW p \in Projects,
         \/ Lifecycle(p) \/ IdleStop(p) \/ ReleaseGate(p)
         \/ Parking(p) \/ TakeOut(p)
  PROVE  BudgetInv' /\ Booked' \subseteq Booked
  <1>1. CASE Lifecycle(p)
    <2>1. PICK x \in {"stopped", "running", "stopping", "failed"} :
            Becomes(p, x) /\ (x = "running" => state[p] = "starting")
      BY <1>1 DEF Lifecycle
    <2>2. Booked' \subseteq Booked
      BY <2>1 DEF BudgetInv, TypeOK, Becomes, Booked, Up
    <2>3. TypeOK'
      BY <2>1 DEF BudgetInv, TypeOK, Becomes, Answer, capVars, Up, Down
    <2>4. Wanted' /\ \A t \in Starters : pc'[t] \in Attempting => pc'[t] = pc[t]
      BY <2>1, BudgetAssumption
      DEF BudgetInv, TypeOK, Becomes, Answer, Wanted, Attempting
    <2> QED  BY <2>1, <2>2, <2>3, <2>4, BystanderKeeps DEF Becomes
  <1>2. CASE IdleStop(p) \/ ReleaseGate(p) \/ Parking(p) \/ TakeOut(p)
    <2>1. registered' \subseteq registered /\ UNCHANGED <<state, starterVars, outside>>
      BY <1>2 DEF IdleStop, ReleaseGate, Parking, TakeOut, Around
    <2>2. Booked' \subseteq Booked  BY <2>1 DEF Booked
    <2>3. TypeOK'
      BY <1>2, <2>1 DEF BudgetInv, TypeOK, starterVars, IdleStop, ReleaseGate,
                  Parking, TakeOut, Around, capVars
    <2>4. Wanted'  BY <2>1 DEF BudgetInv, Wanted, starterVars
    <2> QED  BY <2>1, <2>2, <2>3, <2>4, BystanderKeeps DEF starterVars
  <1> QED  BY <1>1, <1>2

\* New caps change nothing for the attempt in progress, which has read its own.
LEMMA ApplyBudgetKeeps ==
  ASSUME BudgetInv, ApplyBudget
  PROVE  BudgetInv' /\ Booked' = Booked
  <1>1. Booked' = Booked  BY DEF ApplyBudget, projectVars, Booked
  <1>2. TypeOK' /\ Wanted'
    BY DEF BudgetInv, TypeOK, Wanted, ApplyBudget, projectVars, starterVars
  <1> QED  BY <1>1, <1>2, BystanderKeeps
           DEF ApplyBudget, projectVars, starterVars

-----------------------------------------------------------------------------
\* A step of the attempt of s, judged by what s will rely on.
LEMMA OwnStepKeeps ==
  ASSUME NEW s \in Starters, TypeOK', Wanted', lock' = s,
         \A t \in Starters \ {s} : pc'[t] \notin Attempting,
         pc'[s] \in {"count", "judge"} =>
           (registered \subseteq try.table /\ try.attempt < EvictionAttempts)',
         pc'[s] = "count" => (Booked \subseteq try.todo \cup try.seen)',
         pc'[s] = "start" =>
           (/\ try.limit > 0 => Cardinality(Booked) < try.limit
            /\ try.entryLimit > 0 => Cardinality(Booked \cap Entry) < try.entryLimit)'
  PROVE  BudgetInv'
  <1>1. \A t \in Starters : pc'[t] \in Attempting => t = s  OBVIOUS
  <1>2. Exclusive'  BY <1>1 DEF Exclusive
  <1>3. Looking'  BY <1>1 DEF Looking, Attempting
  <1>4. Counting'  BY <1>1 DEF Counting, Attempting
  <1>5. Room'  BY <1>1 DEF Room, Attempting
  <1> QED  BY <1>2, <1>3, <1>4, <1>5 DEF BudgetInv

\* An attempt begins with everything left to count.
LEMMA LockKeeps ==
  ASSUME BudgetInv, NEW s \in Starters, Lock(s)
  PROVE  BudgetInv' /\ Booked' = Booked
  <1> DEFINE e == IF want[s] \in Entry THEN entryCap ELSE 0
             fresh == [NoTry EXCEPT !.limit = cap, !.entryLimit = e,
                                    !.table = registered, !.todo = registered]
  <1>1. /\ lock = NoOne /\ lock' = s /\ pc[s] = "lock"
        /\ UNCHANGED <<projectVars, capVars, manual, want, outside>>
        /\ \/ Go(s, "over") /\ UNCHANGED try
           \/ Go(s, "count") /\ try' = fresh
    BY DEF Lock
  <1>2. Booked' = Booked  BY <1>1 DEF projectVars, Booked
  <1>3. TypeOK'
    <2>1. CASE Go(s, "over") /\ UNCHANGED try
      BY <1>1, <2>1 DEF BudgetInv, TypeOK, Go, projectVars, capVars
    <2>2. CASE Go(s, "count") /\ try' = fresh
      <3>1. 0 \in 0..EvictionAttempts  BY BudgetAssumption
      <3> QED  BY <1>1, <2>2, <3>1
               DEF BudgetInv, TypeOK, Go, projectVars, capVars, NoTry
    <2> QED  BY <1>1, <2>1, <2>2
  <1>4. Wanted'  BY <1>1 DEF BudgetInv, TypeOK, Wanted, Go
  <1>5. \A t \in Starters : pc[t] \notin Attempting
    BY <1>1, BudgetAssumption DEF BudgetInv, Exclusive
  <1>6. \A t \in Starters \ {s} : pc'[t] \notin Attempting
    BY <1>1, <1>5 DEF BudgetInv, TypeOK, Go
  <1>7. CASE Go(s, "over")
    <2>1. pc'[s] = "over"  BY <1>7 DEF BudgetInv, TypeOK, Go
    <2> QED  BY <1>1, <1>2, <1>3, <1>4, <1>6, <2>1, OwnStepKeeps
  <1>8. CASE Go(s, "count") /\ try' = fresh
    <2>1. pc'[s] = "count"  BY <1>8 DEF BudgetInv, TypeOK, Go
    <2>2. /\ try'.table = registered /\ try'.todo = registered
          /\ try'.attempt = 0
      BY <1>8 DEF NoTry
    <2>3. registered' = registered  BY <1>1 DEF projectVars
    <2>4. Booked' \subseteq try'.todo  BY <2>2, <2>3 DEF Booked
    <2>5. try'.attempt < EvictionAttempts  BY <2>2, BudgetAssumption
    <2> QED  BY <1>1, <1>2, <1>3, <1>4, <1>6, <2>1, <2>2, <2>3, <2>4, <2>5,
                OwnStepKeeps
  <1> QED  BY <1>1, <1>7, <1>8

\* What all steps of an attempt share that change no project.
LEMMA AttemptKeeps ==
  ASSUME BudgetInv, NEW s \in Starters, NEW from \in {"count", "judge"},
         NEW to \in {"count", "judge", "start"}, Attempt(s, from, to)
  PROVE  /\ pc[s] = from /\ pc'[s] = to
         /\ lock' = s
         /\ registered' = registered /\ Booked' = Booked
         /\ Wanted'
         /\ \A t \in Starters \ {s} : pc'[t] \notin Attempting
         /\ registered \subseteq try.table /\ try.attempt < EvictionAttempts
         /\ try' \in Tries => TypeOK'
  <1>1. pc[s] = from /\ pc[s] \in Attempting  BY DEF Attempt, Attempting
  <1>2. pc'[s] = to /\ Wanted'
    BY DEF BudgetInv, TypeOK, Wanted, Attempt, Go
  <1>3. lock' = s  BY <1>1 DEF BudgetInv, Exclusive, Attempt
  <1>4. registered' = registered /\ Booked' = Booked
    BY DEF Attempt, projectVars, Booked
  <1>5. \A t \in Starters \ {s} : pc'[t] \notin Attempting
    BY <1>1, Alone DEF BudgetInv, TypeOK, Attempt, Go
  <1>6. registered \subseteq try.table /\ try.attempt < EvictionAttempts
    BY <1>1 DEF BudgetInv, Looking
  <1>7. ASSUME try' \in Tries
        PROVE  TypeOK'
    BY <1>7 DEF BudgetInv, TypeOK, Tries, Attempt, Go, projectVars, capVars
  <1> QED  BY <1>1, <1>2, <1>3, <1>4, <1>5, <1>6, <1>7

\* The project just looked at is counted if it holds a slot.
LEMMA CountKeeps ==
  ASSUME BudgetInv, NEW s \in Starters, Count(s)
  PROVE  BudgetInv' /\ Booked' = Booked
  <1>1. PICK p \in try.todo :
          /\ Attempt(s, "count", "count")
          /\ try' = [try EXCEPT !.todo = @ \ {p},
                                !.seen = IF HoldsSlot(p) THEN @ \cup {p} ELSE @]
    BY DEF Count
  <1>2. TypeOK  BY DEF BudgetInv
  <1>3. /\ try'.todo = try.todo \ {p} /\ try'.table = try.table
        /\ try'.attempt = try.attempt
        /\ try'.seen = IF HoldsSlot(p) THEN try.seen \cup {p} ELSE try.seen
    BY <1>1, <1>2 DEF TypeOK
  <1>4. TypeOK'
    <2>1. p \in Projects  BY <1>1, <1>2 DEF TypeOK
    <2>2. try' \in Tries
      BY <1>1, <1>2, <2>1, TryType DEF Tries, TypeOK
    <2> QED  BY <1>1, <2>2, AttemptKeeps
  <1>5. /\ pc[s] = "count" /\ pc'[s] = "count" /\ lock' = s /\ Wanted'
        /\ registered' = registered /\ Booked' = Booked
        /\ registered \subseteq try.table /\ try.attempt < EvictionAttempts
        /\ \A t \in Starters \ {s} : pc'[t] \notin Attempting
    BY <1>1, AttemptKeeps
  <1>6. Booked \subseteq try.todo \cup try.seen
    BY <1>5 DEF BudgetInv, Counting
  <1>7. p \in Booked => HoldsSlot(p)  BY DEF Booked, HoldsSlot
  <1>8. Booked' \subseteq try'.todo \cup try'.seen
    BY <1>3, <1>5, <1>6, <1>7
  <1> QED  BY <1>3, <1>4, <1>5, <1>8, OwnStepKeeps

\* A finished count that is below the caps means room, whatever changed since
\* the first look.
LEMMA DecideKeeps ==
  ASSUME BudgetInv, NEW s \in Starters, Decide(s)
  PROVE  BudgetInv' /\ Booked' = Booked
  <1>1. TypeOK  BY DEF BudgetInv
  <1>2. CASE NeedGlobal \/ NeedEntry
    <2>1. PICK r \in SUBSET Projects, b \in BOOLEAN :
            /\ Attempt(s, "count", "judge")
            /\ try' = [try EXCEPT !.seen = {}, !.rivals = r, !.blocked = b]
      <3> DEFINE pool == IF NeedEntry THEN try.table \cap Entry ELSE try.table
                 holders == {p \in pool : HoldsSlot(p)}
                 open == {p \in holders \ AlwaysOn : state[p] = "running"}
      <3>1. open \in SUBSET Projects  BY <1>1 DEF TypeOK
      <3>2. (holders # open) \in BOOLEAN  OBVIOUS
      <3>3. /\ Attempt(s, "count", "judge")
            /\ try' = [try EXCEPT !.seen = {}, !.rivals = open,
                                  !.blocked = (holders # open)]
        BY <1>2, Zenon DEF Decide
      <3> HIDE DEF pool, holders, open
      <3> QED  BY <3>1, <3>2, <3>3, Zenon
    <2>2. /\ pc'[s] = "judge" /\ lock' = s /\ Wanted'
          /\ registered' = registered /\ Booked' = Booked
          /\ registered \subseteq try.table /\ try.attempt < EvictionAttempts
          /\ \A t \in Starters \ {s} : pc'[t] \notin Attempting
      BY <2>1, AttemptKeeps
    <2>3. try' \in Tries
      BY <1>1, <2>1, TryType DEF Tries
    <2>4. TypeOK'  BY <2>1, <2>3, AttemptKeeps
    <2>5. try'.table = try.table /\ try'.attempt = try.attempt
      BY <1>1, <2>1 DEF TypeOK
    <2> QED  BY <2>2, <2>4, <2>5, OwnStepKeeps
  <1>3. CASE ~(NeedGlobal \/ NeedEntry)
    <2>1. /\ try.todo = {} /\ Attempt(s, "count", "start")
          /\ try' = [try EXCEPT !.seen = {}]
      BY <1>3 DEF Decide
    <2>2. /\ pc[s] = "count" /\ pc'[s] = "start" /\ lock' = s /\ Wanted'
          /\ Booked' = Booked
          /\ \A t \in Starters \ {s} : pc'[t] \notin Attempting
      BY <2>1, AttemptKeeps
    <2>3. try' \in Tries
      BY <1>1, <2>1, TryType DEF Tries
    <2>4. TypeOK'  BY <2>1, <2>3, AttemptKeeps
    <2>5. try'.limit = try.limit /\ try'.entryLimit = try.entryLimit
      BY <1>1, <2>1 DEF TypeOK
    <2>6. Booked \subseteq try.seen
      BY <2>1, <2>2 DEF BudgetInv, Counting
    <2>7. IsFiniteSet(try.seen)
      <3>1. try.seen \subseteq Projects  BY <1>1 DEF TypeOK
      <3> QED  BY <3>1, FS_Subset, BudgetAssumption
    <2>8. /\ Cardinality(Booked) \in Nat /\ Cardinality(try.seen) \in Nat
          /\ Cardinality(Booked) <= Cardinality(try.seen)
      BY <2>6, <2>7, SmallerCount
    <2>9. /\ Cardinality(Booked \cap Entry) \in Nat
          /\ Cardinality(try.seen \cap Entry) \in Nat
          /\ Cardinality(Booked \cap Entry) <= Cardinality(try.seen \cap Entry)
      <3>1. IsFiniteSet(try.seen \cap Entry)  BY <2>7, FS_Subset
      <3>2. Booked \cap Entry \subseteq try.seen \cap Entry  BY <2>6
      <3> QED  BY <3>1, <3>2, SmallerCount
    <2>10. /\ try.limit > 0 => Cardinality(Booked) < try.limit
           /\ try.entryLimit > 0 => Cardinality(Booked \cap Entry) < try.entryLimit
      BY <1>1, <1>3, <2>8, <2>9, TryTypes DEF NeedGlobal, NeedEntry
    <2>11. (/\ try.limit > 0 => Cardinality(Booked) < try.limit
            /\ try.entryLimit > 0 => Cardinality(Booked \cap Entry) < try.entryLimit)'
      BY <2>2, <2>5, <2>10
    <2> QED  BY <2>2, <2>4, <2>11, OwnStepKeeps
  <1> QED  BY <1>2, <1>3

\* Judging a rival takes no slot.
LEMMA BlocksKeeps ==
  ASSUME BudgetInv, NEW s \in Starters, NEW p \in Projects, Blocks(s, p)
  PROVE  BudgetInv' /\ Booked' = Booked
  <1>1. /\ Attempt(s, "judge", "judge")
        /\ try' = [try EXCEPT !.rivals = @ \ {p}, !.blocked = TRUE]
    BY DEF Blocks
  <1>2. TypeOK  BY DEF BudgetInv
  <1>3. /\ pc'[s] = "judge" /\ lock' = s /\ Wanted'
        /\ registered' = registered /\ Booked' = Booked
        /\ registered \subseteq try.table /\ try.attempt < EvictionAttempts
        /\ \A t \in Starters \ {s} : pc'[t] \notin Attempting
    BY <1>1, AttemptKeeps
  <1>4. try' \in Tries  BY <1>1, <1>2, TryType DEF Tries
  <1>5. TypeOK'  BY <1>1, <1>4, AttemptKeeps
  <1>6. try'.table = try.table /\ try'.attempt = try.attempt
    BY <1>1, <1>2 DEF TypeOK
  <1> QED  BY <1>3, <1>5, <1>6, OwnStepKeeps

\* A new count within the attempt of s, or its end, with no new slot taken.
LEMMA RetryKeeps ==
  ASSUME BudgetInv, NEW s \in Starters, pc[s] = "judge",
         registered' = registered, Booked' \subseteq Booked, Wanted',
         NEW err \in BOOLEAN,
         \A t \in Starters \ {s} : pc'[t] \in {pc[t], "idle"},
         try' \in Tries => TypeOK',
         \/ pc'[s] \notin Attempting /\ Unlock
         \/ pc'[s] = "count" /\ Again(err) /\ ~LastAttempt
  PROVE  BudgetInv'
  <1>1. TypeOK /\ pc[s] \in Attempting  BY DEF BudgetInv, Attempting
  <1>2. \A t \in Starters \ {s} : pc'[t] \notin Attempting
    BY <1>1, Alone DEF Attempting
  <1>3. CASE pc'[s] \notin Attempting /\ Unlock
    <2>1. try' \in Tries  BY <1>3, NoTryType DEF Unlock
    <2> QED  BY <1>2, <1>3, <2>1, ReleaseKeeps
  <1>4. CASE pc'[s] = "count" /\ Again(err) /\ ~LastAttempt
    <2>1. try' = [try EXCEPT !.todo = try.table, !.rivals = {}, !.blocked = FALSE,
                             !.attempt = try.attempt + 1,
                             !.lastErr = try.lastErr \/ err]
      BY <1>4 DEF Again
    <2>2. lock' = s  BY <1>1, <1>4 DEF Again, BudgetInv, Exclusive
    <2>3. registered \subseteq try.table /\ try.attempt < EvictionAttempts
      BY DEF BudgetInv, Looking
    <2>4. /\ try'.table = try.table /\ try'.todo = try.table
          /\ try'.attempt = try.attempt + 1
      BY <1>1, <2>1 DEF TypeOK
    <2>5. try.attempt + 1 \in 0..EvictionAttempts /\ try.attempt + 1 < EvictionAttempts
      BY <1>1, <1>4, <2>3, TryTypes, BudgetAssumption DEF LastAttempt
    <2>6. try' \in Tries
      <3>1. (try.lastErr \/ err) \in BOOLEAN  OBVIOUS
      <3> HIDE DEF Unlock, Again
      <3> QED  BY <1>1, <2>1, <2>5, <3>1, TryType DEF Tries
    <2>7. TypeOK'  BY <2>6
    <2>8. Booked' \subseteq try'.todo  BY <2>3, <2>4 DEF Booked
    <2> QED  BY <1>2, <1>4, <2>2, <2>3, <2>4, <2>5, <2>7, <2>8, OwnStepKeeps
  <1> QED  BY <1>3, <1>4

\* Without a victim the attempt ends or counts again.
LEMMA NoVictimKeeps ==
  ASSUME BudgetInv, NEW s \in Starters, NoVictim(s)
  PROVE  BudgetInv' /\ Booked' = Booked
  <1>1. /\ pc[s] = "judge"
        /\ UNCHANGED <<projectVars, capVars, manual, want, outside>>
        /\ \/ Unlock /\ Go(s, "sleep")
           \/ Again(TRUE) /\ Go(s, "count") /\ ~LastAttempt
    BY DEF NoVictim
  <1>2. TypeOK  BY DEF BudgetInv
  <1>3. registered' = registered /\ Booked' = Booked
    BY <1>1 DEF projectVars, Booked
  <1>4. /\ lock' \in {lock, NoOne}
        /\ \A t \in Starters \ {s} : pc'[t] = pc[t]
        /\ pc' \in [Starters -> {"idle", "bypass", "lock", "over", "count",
                                 "judge", "start", "wait", "sleep", "nil"}]
        /\ \/ pc'[s] = "sleep" /\ Unlock
           \/ pc'[s] = "count" /\ Again(TRUE) /\ ~LastAttempt
    <2>1. CASE Unlock /\ Go(s, "sleep")
      BY <1>2, <2>1 DEF TypeOK, Go, Unlock
    <2>2. CASE Again(TRUE) /\ Go(s, "count") /\ ~LastAttempt
      BY <1>2, <2>2 DEF TypeOK, Go, Again
    <2> QED  BY <1>1, <2>1, <2>2
  <1>5. Wanted'  BY <1>1, <1>4 DEF BudgetInv, Wanted
  <1>6. try' \in Tries => TypeOK'
    BY <1>1, <1>2, <1>4 DEF TypeOK, Tries, projectVars, capVars
  <1>7. \/ pc'[s] \notin Attempting /\ Unlock
        \/ pc'[s] = "count" /\ Again(TRUE) /\ ~LastAttempt
    BY <1>4 DEF Attempting
  <1> QED  BY <1>1, <1>3, <1>4, <1>5, <1>6, <1>7, RetryKeeps, Zenon

\* An eviction only gives slots back.
LEMMA EvictKeeps ==
  ASSUME BudgetInv, NEW s \in Starters, NEW v \in Projects, Evict(s, v)
  PROVE  BudgetInv' /\ Booked' \subseteq Booked
  <1> DEFINE step == IF ~LastAttempt THEN "count"
                     ELSE IF try.lastErr THEN "sleep" ELSE "nil"
  <1>1. /\ pc[s] = "judge"
        /\ gated' = gated \cup {v}
        /\ state' = [state EXCEPT ![v] = IF @ \in Up THEN "stopping" ELSE @]
        /\ outside' = outside \ {v}
        /\ Answer(Waiters(v), s, step)
        /\ UNCHANGED <<retired, registered, parked, capVars>>
        /\ (LastAttempt /\ Unlock) \/ (~LastAttempt /\ Again(FALSE))
    <2>1. IF LastAttempt THEN Unlock ELSE Again(FALSE)  BY Zenon DEF Evict
    <2> QED  BY <2>1, Zenon DEF Evict
  <1>2. TypeOK  BY DEF BudgetInv
  <1>3. Booked' \subseteq Booked  BY <1>1, <1>2 DEF TypeOK, Booked, Up
  <1>4. s \notin Waiters(v)  BY <1>1 DEF Waiters
  <1>5. /\ step \in {"count", "sleep", "nil"}
        /\ ~LastAttempt => step = "count"
        /\ LastAttempt => step # "count"
    OBVIOUS
  <1> HIDE DEF step
  <1>6. /\ \A t \in Starters \ {s} : pc'[t] \in {pc[t], "idle"}
        /\ pc'[s] = step
        /\ pc' \in [Starters -> {"idle", "bypass", "lock", "over", "count",
                                 "judge", "start", "wait", "sleep", "nil"}]
    BY <1>1, <1>2, <1>4, <1>5 DEF Answer, TypeOK
  <1>7. /\ manual' \in [Starters -> BOOLEAN]
        /\ want' \in [Starters -> Projects \cup {NoOne}]
    BY <1>1, <1>2 DEF Answer, TypeOK
  <1>8. Wanted'
    BY <1>1, <1>4 DEF BudgetInv, Wanted, Answer
  <1>9. state' \in [Projects -> Up \cup Down \cup {"stopping"}]
    <2>1. state' = [state EXCEPT ![v] = IF state[v] \in Up THEN "stopping" ELSE state[v]]
      BY <1>1
    <2> QED  BY <1>2, <2>1 DEF TypeOK, Up, Down
  <1>10. lock' \in {lock, NoOne}  BY <1>1 DEF Unlock, Again
  <1>11. try' \in Tries => TypeOK'
    BY <1>1, <1>2, <1>6, <1>7, <1>9, <1>10 DEF TypeOK, Tries, capVars
  <1>12. \/ pc'[s] \notin Attempting /\ Unlock
         \/ pc'[s] = "count" /\ Again(FALSE) /\ ~LastAttempt
    BY <1>1, <1>5, <1>6 DEF Attempting
  <1>13. registered' = registered /\ FALSE \in BOOLEAN  BY <1>1
  <1> QED  BY <1>1, <1>3, <1>6, <1>8, <1>11, <1>12, <1>13, RetryKeeps, Zenon

\* The start at the end of an attempt.
LEMMA AttemptEnds ==
  ASSUME BudgetInv, NEW s \in Starters, pc[s] \in {"over", "start"},
         NEW b \in BOOLEAN, EnsureStarted(s, b), Unlock
  PROVE  BudgetInv'
  <1>1. TypeOK /\ Wanted /\ pc[s] # "idle" /\ pc[s] \in Attempting
    BY DEF BudgetInv, Attempting
  <1>2. try' \in Tries /\ lock' = NoOne  BY NoTryType DEF Unlock
  <1>3. TypeOK'
    BY <1>1, <1>2, EnsureStartedKeeps DEF TypeOK, Tries, capVars
  <1>4. Wanted'
    <2>1. pc'[s] # "idle" => want'[s] \in Projects
      BY <1>1, EnsureStartedKeeps DEF Wanted
    <2> QED  BY <1>1, <2>1, EnsureStartedKeeps DEF Wanted
  <1>5. \A t \in Starters : pc'[t] \notin Attempting
    BY <1>1, Alone, EnsureStartedKeeps DEF Attempting
  <1> QED  BY <1>3, <1>4, <1>5, ReleaseKeeps

\* A start that was not counted is booked by nobody.
LEMMA StartOverKeeps ==
  ASSUME BudgetInv, NEW s \in Starters, StartOver(s)
  PROVE  BudgetInv' /\ Booked' \subseteq Booked
  <1>1. /\ pc[s] = "over" /\ EnsureStarted(s, FALSE) /\ Unlock
        /\ TypeOK /\ Wanted
    BY DEF StartOver, BudgetInv
  <1>2. Booked' \subseteq Booked  BY <1>1, EnsureStartedKeeps
  <1> QED  BY <1>1, <1>2, AttemptEnds

\* The start that was counted takes one slot, and there was room for it.
LEMMA StartKeeps ==
  ASSUME BudgetInv, NEW s \in Starters, Start(s)
  PROVE  /\ BudgetInv'
         /\ try.limit > 0 => Cardinality(Booked') <= try.limit
         /\ try.entryLimit > 0 => Cardinality(Booked' \cap Entry) <= try.entryLimit
  <1>1. /\ pc[s] = "start" /\ EnsureStarted(s, TRUE) /\ Unlock
        /\ TypeOK /\ Wanted
    BY DEF Start, BudgetInv
  <1> DEFINE p == want[s]
             B == Booked \cup {p}
  <1>2. Booked' \subseteq B  BY <1>1, EnsureStartedKeeps
  <1>3. IsFiniteSet(Booked) /\ IsFiniteSet(Booked \cap Entry)
    BY <1>1, BookedFinite, FS_Subset
  <1>4. IsFiniteSet(B) /\ Cardinality(B) <= Cardinality(Booked) + 1
    BY <1>3, OneMore
  <1>5. /\ IsFiniteSet(B \cap Entry)
        /\ Cardinality(B \cap Entry) <= Cardinality(Booked \cap Entry) + 1
    <2>1. B \cap Entry \subseteq (Booked \cap Entry) \cup {p}  OBVIOUS
    <2>2. /\ IsFiniteSet((Booked \cap Entry) \cup {p})
          /\ Cardinality((Booked \cap Entry) \cup {p})
               <= Cardinality(Booked \cap Entry) + 1
      BY <1>3, OneMore
    <2>3. Cardinality(Booked \cap Entry) \in Nat  BY <1>1, BookedFinite
    <2> QED  BY <2>1, <2>2, <2>3, SmallerCount
  <1>6. /\ Cardinality(Booked') \in Nat
        /\ Cardinality(Booked') <= Cardinality(Booked) + 1
    BY <1>1, <1>2, <1>4, SmallerCount, BookedFinite
  <1>7. /\ Cardinality(Booked' \cap Entry) \in Nat
        /\ Cardinality(Booked' \cap Entry) <= Cardinality(Booked \cap Entry) + 1
    <2>1. Booked' \cap Entry \subseteq B \cap Entry  BY <1>2
    <2> QED  BY <1>1, <1>5, <2>1, SmallerCount, BookedFinite
  <1>8. /\ try.limit > 0 => Cardinality(Booked) < try.limit
        /\ try.entryLimit > 0 => Cardinality(Booked \cap Entry) < try.entryLimit
    BY <1>1 DEF BudgetInv, Room
  <1>9. BudgetInv'  BY <1>1, AttemptEnds
  <1> QED  BY <1>1, <1>6, <1>7, <1>8, <1>9, BookedFinite, TryTypes

-----------------------------------------------------------------------------
\* The daemon starts with no attempt in progress and every project stopped.
LEMMA InitHolds == Init => BudgetInv
  <1> SUFFICES ASSUME Init PROVE BudgetInv  OBVIOUS
  <1>1. try \in Tries  BY NoTryType DEF Init
  <1>2. TypeOK  BY <1>1 DEF Init, TypeOK, Tries, Down
  <1> QED  BY <1>2 DEF Init, BudgetInv, Exclusive, Wanted, Looking, Counting,
                      Room, Attempting

\* What a step may do to the booked slots, given the caps of the attempt.
Admitted ==
  \A p \in Booked' \ Booked :
    /\ try.limit > 0 => Cardinality(Booked') <= try.limit
    /\ try.entryLimit > 0 /\ p \in Entry =>
         Cardinality(Booked' \cap Entry) <= try.entryLimit

\* Every step keeps the invariant, and none but a counted start books a slot.
LEMMA NextKeeps ==
  ASSUME BudgetInv, [Next]_vars
  PROVE  BudgetInv' /\ Admitted
  <1>1. CASE UNCHANGED vars
    <2>1. UNCHANGED <<state, registered, outside, starterVars, projectVars, capVars>>
      BY <1>1 DEF vars, projectVars
    <2>2. Booked' = Booked  BY <2>1 DEF Booked
    <2>3. TypeOK' /\ Wanted'
      BY <2>1 DEF BudgetInv, TypeOK, Wanted, starterVars, projectVars, capVars
    <2>4. BudgetInv'
      BY <2>1, <2>2, <2>3, BystanderKeeps DEF starterVars
    <2> QED  BY <2>2, <2>4 DEF Admitted
  <1>2. ASSUME NEW s \in Starters, NEW p \in Projects,
               StartOnDemand(s, p) \/ StartManual(s, p)
        PROVE  BudgetInv' /\ Admitted
    BY <1>2, CallKeeps DEF Admitted
  <1>3. ASSUME NEW s \in Starters, Poll(s) \/ Deadline(s)
        PROVE  BudgetInv' /\ Admitted
    BY <1>3, SleepKeeps DEF Admitted
  <1>4. ASSUME NEW s \in Starters, Bypass(s)
        PROVE  BudgetInv' /\ Admitted
    BY <1>4, BypassKeeps DEF Admitted
  <1>5. ASSUME NEW s \in Starters, Lock(s)
        PROVE  BudgetInv' /\ Admitted
    BY <1>5, LockKeeps DEF Admitted
  <1>6. ASSUME NEW s \in Starters, Count(s)
        PROVE  BudgetInv' /\ Admitted
    BY <1>6, CountKeeps DEF Admitted
  <1>7. ASSUME NEW s \in Starters, Decide(s)
        PROVE  BudgetInv' /\ Admitted
    BY <1>7, DecideKeeps DEF Admitted
  <1>8. ASSUME NEW s \in Starters, NEW p \in Projects, Blocks(s, p) \/ Evict(s, p)
        PROVE  BudgetInv' /\ Admitted
    BY <1>8, BlocksKeeps, EvictKeeps DEF Admitted
  <1>9. ASSUME NEW s \in Starters, NoVictim(s)
        PROVE  BudgetInv' /\ Admitted
    BY <1>9, NoVictimKeeps DEF Admitted
  <1>10. ASSUME NEW s \in Starters, Start(s)
         PROVE  BudgetInv' /\ Admitted
    BY <1>10, StartKeeps DEF Admitted
  <1>11. ASSUME NEW s \in Starters, StartOver(s)
         PROVE  BudgetInv' /\ Admitted
    BY <1>11, StartOverKeeps DEF Admitted
  <1>12. ASSUME NEW p \in Projects,
                \/ Lifecycle(p) \/ IdleStop(p) \/ ReleaseGate(p)
                \/ Parking(p) \/ TakeOut(p)
         PROVE  BudgetInv' /\ Admitted
    BY <1>12, ProjectKeeps DEF Admitted
  <1>13. CASE ApplyBudget
    BY <1>13, ApplyBudgetKeeps DEF Admitted
  <1> QED
    BY <1>1, <1>2, <1>3, <1>4, <1>5, <1>6, <1>7, <1>8, <1>9, <1>10, <1>11, <1>12,
       <1>13, Zenon
    DEF Next, Reservation

\* The invariant of the budget: attempts exclude each other under budgetMu, a
\* count in progress has missed no booked slot, and a verdict that there is room
\* still holds when the start it allows is made.
THEOREM BudgetInvariant == Spec => []BudgetInv
  <1>1. BudgetInv /\ [Next]_vars => BudgetInv'  BY NextKeeps
  <1> QED  BY <1>1, InitHolds, PTL DEF Spec

\* Every variable of the budget keeps its type.
THEOREM TypeCorrect == Spec => []TypeOK
  <1>1. BudgetInv => TypeOK  BY DEF BudgetInv
  <1> QED  BY <1>1, BudgetInvariant, PTL

\* A start that reserve admits never takes the booked slots beyond the caps it
\* was admitted under, for any number of projects, concurrent starts and caps:
\* two simultaneous wake-ups never both conclude that there is room.
THEOREM Admission == Spec => AdmissionWithinCap
  <1>1. BudgetInv /\ [Next]_vars =>
          [\A p \in Booked' \ Booked :
             /\ try.limit > 0 => Cardinality(Booked') <= try.limit
             /\ try.entryLimit > 0 /\ p \in Entry =>
                  Cardinality(Booked' \cap Entry) <= try.entryLimit]_vars
    BY NextKeeps DEF Admitted
  <1> QED  BY <1>1, BudgetInvariant, PTL DEF Spec, AdmissionWithinCap
=============================================================================
