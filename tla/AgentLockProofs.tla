--------------------------- MODULE AgentLockProofs ---------------------------
(***************************************************************************)
(* Proofs about the agent lock for any number of processes, any supply of  *)
(* inodes and any bound on revalidation.                                   *)
(***************************************************************************)
EXTENDS AgentLock, TLAPS

(***************************************************************************)
(* The inductive invariant.  TurnMutex alone is not inductive: it follows  *)
(* from what flock guarantees about one inode (FlockCompatible) once every *)
(* owner's inode is known to be the one the path names (OwnerKeepsPath).   *)
(* OwnerKeepsPath in turn survives an unlink only because the unlinker is  *)
(* itself an owner, and survives a create because a path that names        *)
(* nothing has no owner.                                                   *)
(***************************************************************************)
Counting == \A p \in Procs : pc[p] # "unlock" => attempts[p] < MaxAttempts

OpenFiles ==
  \A p \in Procs : Locked(p) \/ pc[p] = "flock" => fd[p] \in Inodes

Roles ==
  \A p \in Procs :
     /\ pc[p] \in {"validate", "retry", "lookup", "launch", "turn", "record"}
          => Revalidates(p)
     /\ pc[p] \in {"check", "unlink"} => ~Shared(p)

FlockCompatible ==
  \A p, q \in Procs :
     p # q /\ Locked(p) /\ Locked(q) /\ fd[p] = fd[q] => Shared(p) /\ Shared(q)

IInv ==
  /\ TypeOK
  /\ Counting
  /\ OpenFiles
  /\ Roles
  /\ FlockCompatible
  /\ OwnerKeepsPath
-----------------------------------------------------------------------------
(* One owner per agent follows from the invariant: two owners would hold   *)
(* exclusive flocks on the one inode the path names.                       *)
LEMMA OwnersExclude == IInv => TurnMutex
  <1> SUFFICES ASSUME IInv, NEW p \in Procs, NEW q \in Procs,
                      Owns(p), Owns(q), p # q
               PROVE  FALSE
    BY DEF TurnMutex
  <1>1. fd[p] = fd[q]
    BY DEF IInv, OwnerKeepsPath
  <1>2. Locked(p) /\ Locked(q)
    BY DEF Owns, Locked, Owning
  <1>3. ~Shared(p)
    BY DEF IInv, Roles, Owns, Revalidates, Shared
  <1> QED
    BY <1>1, <1>2, <1>3 DEF IInv, FlockCompatible

(* No process has a file open and no lock file exists at first. *)
LEMMA InitIInv == Init => IInv
  <1> SUFFICES ASSUME Init PROVE IInv
    OBVIOUS
  <1> USE LockAssumption DEF Init, LockAssumption
  <1>1. TypeOK
    <2>1. exists \in BOOLEAN
      BY Zenon
    <2>2. cmd \in [Procs -> AllCommands \cup {"none"}]
      OBVIOUS
    <2>3. pc \in [Procs -> PCs]
      BY DEF PCs
    <2>4. fd \in [Procs -> Inodes \cup {NoInode}]
      OBVIOUS
    <2>5. attempts \in [Procs -> 0 .. MaxAttempts]
      OBVIOUS
    <2> QED
      BY <2>1, <2>2, <2>3, <2>4, <2>5 DEF TypeOK
  <1>2. Counting
    BY DEF Counting
  <1>3. OpenFiles /\ Roles /\ FlockCompatible /\ OwnerKeepsPath
    BY DEF OpenFiles, Roles, FlockCompatible, OwnerKeepsPath, Locked, Owning,
           Owns, Shared
  <1> QED
    BY <1>1, <1>2, <1>3 DEF IInv

(* Type correctness and the bound on revalidation, step by step. *)
LEMMA TypeStep ==
  ASSUME TypeOK, Counting, Next
  PROVE  TypeOK' /\ Counting'
  <1> USE LockAssumption DEF LockAssumption, TypeOK, Counting, Goto, PCs, Owning, AllCommands
  <1>1. CASE Register
    BY <1>1 DEF Register
  <1>2. ASSUME NEW p \in Procs, Begin(p) PROVE TypeOK' /\ Counting'
    BY <1>2 DEF Begin
  <1>3. ASSUME NEW p \in Procs, Grant(p) PROVE TypeOK' /\ Counting'
    BY <1>3 DEF Grant
  <1>4. ASSUME NEW p \in Procs, Crash(p) PROVE TypeOK' /\ Counting'
    BY <1>4 DEF Crash, Finish
  <1>5. ASSUME NEW p \in Procs, Pop(p) PROVE TypeOK' /\ Counting'
    <2>1. exists' \in BOOLEAN
      BY <1>5, Zenon DEF Pop
    <2>2. path' \in Inodes \cup {NoInode} /\ path' = path
      BY <1>5 DEF Pop
    <2>3. CASE exists
      BY <1>5, <2>1, <2>2, <2>3 DEF Pop
    <2>4. CASE ~exists
      BY <1>5, <2>1, <2>2, <2>4 DEF Pop, Finish
    <2> QED
      BY <2>3, <2>4
  <1>6. ASSUME NEW p \in Procs, Probe(p) PROVE TypeOK' /\ Counting'
    BY <1>6 DEF Probe, Finish
  <1>7. ASSUME NEW p \in Procs, Open(p) PROVE TypeOK' /\ Counting'
    BY <1>7 DEF Open
  <1>8. ASSUME NEW p \in Procs, Refuse(p) PROVE TypeOK' /\ Counting'
    BY <1>8 DEF Refuse, Finish
  <1>9. ASSUME NEW p \in Procs, Validate(p) PROVE TypeOK' /\ Counting'
    BY <1>9 DEF Validate
  <1>10. ASSUME NEW p \in Procs, Retry(p) PROVE TypeOK' /\ Counting'
    BY <1>10 DEF Retry
  <1>11. ASSUME NEW p \in Procs, Unlock(p) PROVE TypeOK' /\ Counting'
    BY <1>11 DEF Unlock, Finish
  <1>12. ASSUME NEW p \in Procs, Lookup(p) PROVE TypeOK' /\ Counting'
    BY <1>12 DEF Lookup
  <1>13. ASSUME NEW p \in Procs, EndRun(p) PROVE TypeOK' /\ Counting'
    BY <1>13 DEF EndRun
  <1>14. ASSUME NEW p \in Procs, Record(p) PROVE TypeOK' /\ Counting'
    BY <1>14 DEF Record
  <1>15. ASSUME NEW p \in Procs, Check(p) PROVE TypeOK' /\ Counting'
    BY <1>15 DEF Check
  <1>16. ASSUME NEW p \in Procs, Unlink(p) PROVE TypeOK' /\ Counting'
    BY <1>16 DEF Unlink
  <1>17. ASSUME NEW p \in Procs, Launch(p) PROVE TypeOK' /\ Counting'
    BY <1>17 DEF Launch
  <1> QED
    BY <1>1, <1>2, <1>3, <1>4, <1>5, <1>6, <1>7, <1>8, <1>9, <1>10, <1>11,
       <1>12, <1>13, <1>14, <1>15, <1>16, <1>17 DEF Next, Work, Step

(* Every variable keeps its type, and a revalidating command never counts  *)
(* past the bound at which _flock gives up.                                *)
THEOREM TypeCorrect == Spec => []TypeOK
  <1>1. Init => TypeOK /\ Counting
    BY InitIInv DEF IInv
  <1>2. TypeOK /\ Counting /\ [Next]_vars => TypeOK' /\ Counting'
    <2>1. CASE Next
      BY <2>1, TypeStep
    <2>2. CASE UNCHANGED vars
      BY <2>2 DEF vars, TypeOK, Counting
    <2> QED
      BY <2>1, <2>2
  <1> QED
    BY <1>1, <1>2, PTL DEF Spec

-----------------------------------------------------------------------------
(* The lock discipline, step by step.  Only Begin, Open, Grant, Validate,  *)
(* Check and Unlink can disturb it: every other step moves one process to  *)
(* a program counter that owns no more than the one it left.               *)
Discipline == OpenFiles /\ Roles /\ FlockCompatible /\ OwnerKeepsPath

(* Every step keeps the discipline of the lock file. *)
LEMMA DisciplineStep ==
  ASSUME IInv, Next
  PROVE  Discipline'
  <1> USE DEF IInv, Discipline, OpenFiles, Roles, FlockCompatible,
              OwnerKeepsPath, TypeOK, Goto, Locked, Owning, Owns, Shared,
              Revalidates
  <1>1. CASE Register
    BY <1>1 DEF Register
  <1>2. ASSUME NEW p \in Procs, Begin(p) PROVE Discipline'
    BY <1>2 DEF Begin
  <1>3. ASSUME NEW p \in Procs, Grant(p) PROVE Discipline'
    BY <1>3 DEF Grant, Conflict
  <1>4. ASSUME NEW p \in Procs, Crash(p) PROVE Discipline'
    BY <1>4 DEF Crash, Finish
  <1>5. ASSUME NEW p \in Procs, Pop(p) PROVE Discipline'
    BY <1>5 DEF Pop, Finish
  <1>6. ASSUME NEW p \in Procs, Probe(p) PROVE Discipline'
    BY <1>6 DEF Probe, Finish
  <1>7. ASSUME NEW p \in Procs, Open(p) PROVE Discipline'
    BY <1>7, LockAssumption DEF Open, LockAssumption
  <1>8. ASSUME NEW p \in Procs, Refuse(p) PROVE Discipline'
    BY <1>8 DEF Refuse, Finish
  <1>9. ASSUME NEW p \in Procs, Validate(p) PROVE Discipline'
    BY <1>9 DEF Validate, IsLive
  <1>10. ASSUME NEW p \in Procs, Retry(p) PROVE Discipline'
    BY <1>10 DEF Retry
  <1>11. ASSUME NEW p \in Procs, Unlock(p) PROVE Discipline'
    BY <1>11 DEF Unlock, Finish
  <1>12. ASSUME NEW p \in Procs, Lookup(p) PROVE Discipline'
    BY <1>12 DEF Lookup
  <1>13. ASSUME NEW p \in Procs, EndRun(p) PROVE Discipline'
    BY <1>13 DEF EndRun
  <1>14. ASSUME NEW p \in Procs, Record(p) PROVE Discipline'
    BY <1>14 DEF Record
  <1>15. ASSUME NEW p \in Procs, Check(p) PROVE Discipline'
    BY <1>15 DEF Check, IsLive
  <1>16. ASSUME NEW p \in Procs, Unlink(p) PROVE Discipline'
    BY <1>16 DEF Unlink
  <1>17. ASSUME NEW p \in Procs, Launch(p) PROVE Discipline'
    BY <1>17 DEF Launch
  <1> QED
    BY <1>1, <1>2, <1>3, <1>4, <1>5, <1>6, <1>7, <1>8, <1>9, <1>10, <1>11,
       <1>12, <1>13, <1>14, <1>15, <1>16, <1>17 DEF Next, Work, Step

(* The invariant holds in every reachable state. *)
LEMMA Invariance == Spec => []IInv
  <1>1. Init => IInv
    BY InitIInv
  <1>2. IInv /\ [Next]_vars => IInv'
    <2>1. ASSUME IInv, Next PROVE IInv'
      <3>1. TypeOK' /\ Counting'
        BY <2>1, TypeStep DEF IInv
      <3>2. Discipline'
        BY <2>1, DisciplineStep
      <3> QED
        BY <3>1, <3>2 DEF IInv, Discipline
    <2>2. ASSUME IInv, UNCHANGED vars PROVE IInv'
      BY <2>2 DEF vars, IInv, TypeOK, Counting, OpenFiles, Roles,
         FlockCompatible, OwnerKeepsPath, Locked, Owns, Shared, Revalidates
    <2> QED
      BY <2>1, <2>2
  <1> QED
    BY <1>1, <1>2, PTL DEF Spec

(* At most one process at a time acts for an agent, however the lock file  *)
(* is unlinked, recreated and its inode number reused underneath waiters.  *)
THEOREM MutualExclusion == Spec => []TurnMutex
  BY Invariance, OwnersExclude, PTL

(* An owner's inode stays the one the path names for as long as it owns.   *)
THEOREM OwnedPathStable == Spec => []OwnerKeepsPath
  <1>1. IInv => OwnerKeepsPath
    BY DEF IInv
  <1> QED
    BY <1>1, Invariance, PTL

-----------------------------------------------------------------------------
(* Refinement: every step of the lock protocol is a step of TurnOwner or   *)
(* leaves its variables alone.                                             *)

(* p is the only process that moves, and exists stays. *)
OnlyMoves(p) ==
  \A q \in Procs \ {p} : pc'[q] = pc[q] /\ cmd'[q] = cmd[q]

(* An owner is the only one, and nobody else runs or is about to. *)
LEMMA SoleOwner ==
  ASSUME TurnMutex, NEW p \in Procs, Owns(p)
  PROVE  /\ Owners = {p}
         /\ Cleared = IF pc[p] = "launch" THEN {p} ELSE {}
         /\ Running = IF pc[p] = "turn" THEN {p} ELSE {}
  <1>1. \A q \in Procs : Owns(q) => q = p
    BY DEF TurnMutex
  <1>2. Owners = {p}
    BY <1>1 DEF Owners
  <1>3. Cleared = IF pc[p] = "launch" THEN {p} ELSE {}
    BY <1>1 DEF Cleared, Owns
  <1>4. Running = IF pc[p] = "turn" THEN {p} ELSE {}
    BY <1>1 DEF Running, Owns
  <1> QED
    BY <1>2, <1>3, <1>4

(* A process that takes ownership does so while there is no owner. *)
LEMMA TakesOwnership ==
  ASSUME TurnMutex', NEW p \in Procs, ~Owns(p), Owns(p)', OnlyMoves(p),
         pc'[p] \notin {"launch", "turn"}, UNCHANGED exists
  PROVE  Turns!Acquire(p)
  <1>1. \A q \in Procs : Owns(q)' => q = p
    BY DEF TurnMutex
  <1>2. \A q \in Procs \ {p} : Owns(q) = Owns(q)'
    BY DEF OnlyMoves, Owns, Revalidates
  <1>3. Owners = {} /\ Owners' = {p}
    BY <1>1, <1>2 DEF Owners
  <1>4. Running = {} /\ Running' = {}
    BY <1>1, <1>2 DEF Running, Owns
  <1>5. Cleared = {} /\ Cleared' = {}
    BY <1>1, <1>2 DEF Cleared, Owns
  <1> QED
    BY <1>3, <1>4, <1>5 DEF Turns!Acquire

(* A process that gives ownership up leaves none behind. *)
LEMMA GivesUp ==
  ASSUME TurnMutex, NEW p \in Procs, Owns(p), ~Owns(p)', OnlyMoves(p),
         UNCHANGED exists
  PROVE  Turns!Release(p)
  <1>1. \A q \in Procs \ {p} : ~Owns(q) /\ ~Owns(q)'
    BY DEF TurnMutex, OnlyMoves, Owns, Revalidates
  <1>2. Owners = {p}
    BY SoleOwner
  <1>3. Owners' = {} /\ Cleared' = {} /\ Running' = {}
    BY <1>1 DEF Owners, Cleared, Running, Owns
  <1> QED
    BY <1>2, <1>3 DEF Turns!Release

(* A step on either side of ownership changes nothing that TurnOwner sees. *)
LEMMA StaysOut ==
  ASSUME NEW p \in Procs, ~Owns(p), ~Owns(p)', OnlyMoves(p)
  PROVE  UNCHANGED <<Owners, Cleared, Running>>
  <1>1. \A q \in Procs : Owns(q) = Owns(q)'
    BY DEF OnlyMoves, Owns, Revalidates
  <1>2. \A q \in Procs : /\ (pc[q] = "turn") = (pc'[q] = "turn")
                         /\ (pc[q] = "launch") = (pc'[q] = "launch")
    BY DEF OnlyMoves, Owns
  <1> QED
    BY <1>1, <1>2 DEF Owners, Cleared, Running

(* Nor does a step that an owner takes without giving ownership up. *)
LEMMA StaysOwner ==
  ASSUME TurnMutex, TurnMutex', NEW p \in Procs, Owns(p), Owns(p)', OnlyMoves(p)
  PROVE  /\ Owners = {p} /\ Owners' = {p}
         /\ Cleared = IF pc[p] = "launch" THEN {p} ELSE {}
         /\ Cleared' = IF pc'[p] = "launch" THEN {p} ELSE {}
         /\ Running = IF pc[p] = "turn" THEN {p} ELSE {}
         /\ Running' = IF pc'[p] = "turn" THEN {p} ELSE {}
  <1>1. \A q \in Procs : Owns(q)' => q = p
    BY DEF TurnMutex
  <1>2. Owners' = {p}
    BY <1>1 DEF Owners
  <1>3. Cleared' = IF pc'[p] = "launch" THEN {p} ELSE {}
    BY <1>1 DEF Cleared, Owns
  <1>4. Running' = IF pc'[p] = "turn" THEN {p} ELSE {}
    BY <1>1 DEF Running, Owns
  <1> QED
    BY <1>2, <1>3, <1>4, SoleOwner

(* Every step of the protocol is a TurnOwner step or a stutter of it. *)
LEMMA RefinementStep ==
  ASSUME IInv, TurnMutex, TurnMutex', Next
  PROVE  [Turns!Next]_Turns!vars
  <1> DEFINE Goal == [Turns!Next]_Turns!vars
  <1> USE DEF Turns!Next, Turns!vars
  <1>a. TypeOK /\ Roles
    BY DEF IInv
  <1>b. ASSUME NEW p \in Procs,
               ~Owns(p), ~Owns(p)', OnlyMoves(p), UNCHANGED exists
        PROVE  Goal
    BY <1>b, StaysOut
  <1>1. CASE Register
    <2>1. UNCHANGED <<Owners, Cleared, Running>>
      BY <1>1 DEF Register, Owners, Cleared, Running, Owns, Revalidates
    <2> QED
      BY <1>1, <2>1 DEF Register, Turns!Register
  <1>2. ASSUME NEW p \in Procs,
               \/ Begin(p) \/ Grant(p) \/ Probe(p) \/ Open(p) \/ Refuse(p)
               \/ Retry(p) \/ Unlock(p)
        PROVE  Goal
    <2>1. OnlyMoves(p) /\ UNCHANGED exists
      BY <1>2, <1>a DEF OnlyMoves, TypeOK, Begin, Grant, Probe, Open, Refuse,
         Retry, Unlock, Goto, Finish
    <2>2. ~Owns(p)
      BY <1>2 DEF Owns, Begin, Grant, Probe, Open, Refuse, Retry, Unlock
    <2>3. ~Owns(p)'
      BY <1>2, <1>a DEF Owns, TypeOK, Begin, Grant, Probe, Open, Refuse, Retry,
         Unlock, Goto, Finish, Revalidates
    <2> QED
      BY <2>1, <2>2, <2>3, <1>b
  <1>3. ASSUME NEW p \in Procs, Pop(p) PROVE Goal
    <2>1. OnlyMoves(p) /\ ~Owns(p) /\ ~Owns(p)'
      BY <1>3, <1>a DEF OnlyMoves, TypeOK, Pop, Goto, Finish, Owns
    <2>2. UNCHANGED <<Owners, Cleared, Running>>
      BY <2>1, StaysOut
    <2>3. exists' = FALSE \/ UNCHANGED exists
      BY <1>3 DEF Pop
    <2> QED
      BY <2>2, <2>3 DEF Turns!Delete
  <1>4. ASSUME NEW p \in Procs, Validate(p) PROVE Goal
    <2>1. OnlyMoves(p) /\ ~Owns(p) /\ UNCHANGED exists
          /\ pc'[p] \notin {"launch", "turn"}
      BY <1>4, <1>a DEF OnlyMoves, TypeOK, Validate, Goto, Owns
    <2> QED
      BY <2>1, <1>b, TakesOwnership
  <1>5. ASSUME NEW p \in Procs, Lookup(p) PROVE Goal
    <2>1. OnlyMoves(p) /\ Owns(p) /\ UNCHANGED exists /\ pc[p] \notin {"launch", "turn"}
      BY <1>5, <1>a DEF OnlyMoves, TypeOK, Lookup, Goto, Owns
    <2>2. CASE exists /\ pc'[p] = "launch"
      <3>1. Owns(p)'
        BY <2>2 DEF Owns
      <3> QED
        BY <2>1, <2>2, <3>1, StaysOwner DEF Turns!Clear
    <2>3. CASE pc'[p] = "check"
      <3>1. Owns(p)'
        BY <1>5, <2>3, <1>a DEF Owns, Roles, Lookup, Revalidates
      <3> QED
        BY <2>1, <2>3, <3>1, StaysOwner
    <2>4. CASE pc'[p] = "unlock"
      <3>1. ~Owns(p)'
        BY <2>4 DEF Owns
      <3> QED
        BY <2>1, <3>1, GivesUp
    <2> QED
      BY <1>5, <1>a, <2>2, <2>3, <2>4 DEF Lookup, Goto, TypeOK
  <1>6. ASSUME NEW p \in Procs, EndRun(p) PROVE Goal
    <2>1. OnlyMoves(p) /\ Owns(p) /\ UNCHANGED exists /\ pc[p] = "turn"
      BY <1>6, <1>a DEF OnlyMoves, TypeOK, EndRun, Goto, Owns
    <2>2. CASE pc'[p] = "record"
      <3>1. Owns(p)'
        BY <2>2 DEF Owns
      <3> QED
        BY <2>1, <2>2, <3>1, StaysOwner DEF Turns!EndRun
    <2>3. CASE pc'[p] = "unlock"
      <3>1. ~Owns(p)'
        BY <2>3 DEF Owns
      <3> QED
        BY <2>1, <3>1, GivesUp
    <2> QED
      BY <1>6, <1>a, <2>2, <2>3 DEF EndRun, Goto, TypeOK
  <1>7. ASSUME NEW p \in Procs, Record(p) PROVE Goal
    <2>1. OnlyMoves(p) /\ Owns(p) /\ UNCHANGED exists /\ pc[p] \notin {"launch", "turn"}
      BY <1>7, <1>a DEF OnlyMoves, TypeOK, Record, Goto, Owns
    <2>2. CASE exists /\ pc'[p] = "launch"
      <3>1. Owns(p)'
        BY <2>2 DEF Owns
      <3> QED
        BY <2>1, <2>2, <3>1, StaysOwner DEF Turns!Clear
    <2>3. CASE pc'[p] = "check"
      <3>1. Owns(p)'
        BY <1>7, <2>3, <1>a DEF Owns, Roles, Record, Revalidates
      <3> QED
        BY <2>1, <2>3, <3>1, StaysOwner
    <2>4. CASE pc'[p] = "unlock"
      <3>1. ~Owns(p)'
        BY <2>4 DEF Owns
      <3> QED
        BY <2>1, <3>1, GivesUp
    <2> QED
      BY <1>7, <1>a, <2>2, <2>3, <2>4 DEF Record, Goto, TypeOK
  <1>8. ASSUME NEW p \in Procs, Check(p) PROVE Goal
    <2>1. /\ OnlyMoves(p) /\ UNCHANGED exists
          /\ pc[p] \notin {"launch", "turn"} /\ pc'[p] \notin {"launch", "turn"}
      BY <1>8, <1>a DEF OnlyMoves, TypeOK, Check, Goto
    <2>2. CASE Owns(p) /\ Owns(p)'
      BY <2>1, <2>2, StaysOwner
    <2>3. CASE Owns(p) /\ ~Owns(p)'
      BY <2>1, <2>3, GivesUp
    <2>4. CASE ~Owns(p) /\ Owns(p)'
      BY <2>1, <2>4, TakesOwnership
    <2>5. CASE ~Owns(p) /\ ~Owns(p)'
      BY <2>1, <2>5, <1>b
    <2> QED
      BY <2>2, <2>3, <2>4, <2>5
  <1>9. ASSUME NEW p \in Procs, Unlink(p) PROVE Goal
    <2>1. OnlyMoves(p) /\ Owns(p) /\ ~Owns(p)' /\ UNCHANGED exists
      BY <1>9, <1>a DEF OnlyMoves, TypeOK, Unlink, Goto, Owns
    <2> QED
      BY <2>1, GivesUp
  <1>10. ASSUME NEW p \in Procs, Crash(p) PROVE Goal
    <2>1. OnlyMoves(p) /\ ~Owns(p)' /\ UNCHANGED exists
      BY <1>10, <1>a DEF OnlyMoves, TypeOK, Crash, Finish, Goto, Owns
    <2> QED
      BY <2>1, GivesUp, <1>b
  <1>11. ASSUME NEW p \in Procs, Launch(p) PROVE Goal
    <2>1. /\ OnlyMoves(p) /\ Owns(p) /\ Owns(p)' /\ UNCHANGED exists
          /\ pc[p] = "launch" /\ pc'[p] = "turn"
      BY <1>11, <1>a DEF OnlyMoves, TypeOK, Launch, Goto, Owns
    <2> QED
      BY <2>1, StaysOwner DEF Turns!StartRun
  <1> QED
    BY <1>1, <1>2, <1>3, <1>4, <1>5, <1>6, <1>7, <1>8, <1>9, <1>10, <1>11
       DEF Next, Work, Step

(* The lock protocol implements TurnOwner: a CLI run starts only under     *)
(* sole ownership, and each one uses up a lookup made in that ownership    *)
(* that found the agent registered (which delete may end at any moment).   *)
THEOREM Refinement == Spec => ImplementsTurnOwner
  <1>1. Init => Turns!Init
    BY DEF Init, Turns!Init, Owners, Cleared, Running, Owns
  <1>2. IInv /\ TurnMutex /\ TurnMutex' /\ [Next]_vars
          => [Turns!Next]_Turns!vars
    <2>1. CASE UNCHANGED vars
      BY <2>1 DEF vars, Turns!vars, Owners, Cleared, Running, Owns, Revalidates
    <2> QED
      BY <2>1, RefinementStep
  <1> QED
    BY <1>1, <1>2, Invariance, MutualExclusion, PTL
       DEF Spec, Turns!Spec, ImplementsTurnOwner
=============================================================================
