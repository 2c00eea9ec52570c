----------------------------- MODULE TeamProofs -----------------------------
(* Proofs about teams: about TeamTeardown for any number of concurrent     *)
(* commands, and about TeamSearch for any root, directories of teams,      *)
(* checkouts and depth.                                                    *)
EXTENDS TeamTeardown, TeamSearch, SequenceTheorems, WellFoundedInduction, TLAPS

(***************************************************************************)
(* Teardown                                                                *)
(***************************************************************************)
TearingDown == {"remove", "removing", "removed"}

(* What the team lock gives: a teardown that has it is alone, only a       *)
(* teardown tears down, and nobody has the lock of a missing directory.    *)
TeamLock ==
  /\ \A p \in Procs : pc[p] \in TearingDown => verb[p] = "teardown"
  /\ \A p, q \in Procs :
       p # q /\ pc[p] \in TearingDown => pc[q] \notin Holding

InTheDirectory ==
  /\ \A p \in Procs : pc[p] \in Holding => root
  /\ agents # "none" => root

IInv ==
  /\ TypeOK
  /\ TeamLock
  /\ InTheDirectory
  /\ RegistryStays
  /\ TeardownIsComplete

-----------------------------------------------------------------------------
(* An empty directory and idle slots satisfy the invariant. *)
LEMMA InitIInv == ASSUME Init PROVE IInv
<1>1. TypeOK
  <2>1. root \in BOOLEAN /\ worktree \in BOOLEAN
    BY Zenon DEF Init
  <2> QED BY <2>1 DEF Init, TypeOK, PCs
<1> QED BY <1>1 DEF Init, IInv, TeamLock, InTheDirectory, RegistryStays,
                    TeardownIsComplete, TearingDown, Holding

(* Every step keeps the values of the variables in their types. *)
LEMMA TypeStep == ASSUME TypeOK, [Next]_vars PROVE TypeOK'
<1> USE DEF TypeOK, PCs, Holding
<1>1. CASE AddWorktree
  <2>1. root' \in BOOLEAN /\ worktree' \in BOOLEAN
    BY <1>1, Zenon DEF AddWorktree
  <2> QED BY <1>1, <2>1 DEF AddWorktree
<1>2. CASE RemoveWorktree
  <2>1. root' \in BOOLEAN /\ worktree' \in BOOLEAN
    BY <1>2, Zenon DEF RemoveWorktree
  <2> QED BY <1>2, <2>1 DEF RemoveWorktree
<1>3. ASSUME NEW p \in Procs, Begin(p) PROVE TypeOK'
  BY <1>3 DEF Begin, Goto, Verbs
<1>4. ASSUME NEW p \in Procs, Lock(p) PROVE TypeOK'
  <2>1. root' \in BOOLEAN
    BY <1>4, Zenon DEF Lock
  <2> QED BY <1>4, <2>1 DEF Lock, Goto, Finish
<1>5. ASSUME NEW p \in Procs, Read(p) PROVE TypeOK'
  <2>1. IsTeam \in BOOLEAN
    BY DEF IsTeam
  <2> QED BY <1>5, <2>1 DEF Read, Goto
<1>6. ASSUME NEW p \in Procs, TakeLock(p) PROVE TypeOK'
  BY <1>6 DEF TakeLock, Goto
<1>7. ASSUME NEW p \in Procs, Persist(p) PROVE TypeOK'
  BY <1>7 DEF Persist, Goto
<1>8. ASSUME NEW p \in Procs,
             Leave(p) \/ EndTeardown(p) \/ Crash(p)
      PROVE  TypeOK'
  BY <1>8 DEF Leave, EndTeardown, Crash, Finish, Goto
<1>9. ASSUME NEW p \in Procs, StartRemoval(p) \/ RemoveEntry(p) PROVE TypeOK'
  BY <1>9 DEF StartRemoval, RemoveEntry, Goto
<1>10. CASE UNCHANGED vars
  BY <1>10 DEF vars
<1> QED BY <1>1, <1>2, <1>3, <1>4, <1>5, <1>6, <1>7, <1>8, <1>9, <1>10 DEF Next

(* Every step keeps the rest of the invariant.  A command that ends or     *)
(* waits holds nothing; the interesting steps are taking the team lock,    *)
(* and changing agents/ while holding it.                                  *)
LEMMA LockStep == ASSUME IInv, TypeOK', [Next]_vars PROVE IInv'
<1> USE DEF IInv, TypeOK, TearingDown, Holding, TeamLock, InTheDirectory,
            RegistryStays, TeardownIsComplete, IsTeam
<1>1. CASE AddWorktree \/ RemoveWorktree
  BY <1>1 DEF AddWorktree, RemoveWorktree
<1>2. ASSUME NEW p \in Procs, Begin(p) PROVE IInv'
  BY <1>2 DEF Begin, Goto
<1>3. ASSUME NEW p \in Procs, Lock(p) PROVE IInv'
  <2>1. root'
    BY <1>3 DEF Lock
  <2>2. TeamLock'
    BY <1>3 DEF Lock, Goto, Finish, Others
  <2>3. RegistryStays' /\ TeardownIsComplete'
    BY <1>3 DEF Lock, Goto, Finish
  <2> QED BY <2>1, <2>2, <2>3
<1>4. ASSUME NEW p \in Procs, Read(p) PROVE IInv'
  BY <1>4 DEF Read, Goto
<1>5. ASSUME NEW p \in Procs, TakeLock(p) PROVE IInv'
  BY <1>5 DEF TakeLock, Goto
<1>6. ASSUME NEW p \in Procs, Persist(p) PROVE IInv'
  BY <1>6 DEF Persist, Goto
<1>7. ASSUME NEW p \in Procs, Leave(p) \/ EndTeardown(p) \/ Crash(p) PROVE IInv'
  BY <1>7 DEF Leave, EndTeardown, Crash, Finish, Goto
<1>8. ASSUME NEW p \in Procs, StartRemoval(p) \/ RemoveEntry(p) PROVE IInv'
  BY <1>8 DEF StartRemoval, RemoveEntry, Goto
<1>9. CASE UNCHANGED vars
  BY <1>9 DEF vars
<1> QED BY <1>1, <1>2, <1>3, <1>4, <1>5, <1>6, <1>7, <1>8, <1>9 DEF Next

(* The invariant holds in every reachable state. *)
LEMMA AlwaysIInv == Spec => []IInv
<1>1. IInv /\ [Next]_vars => IInv'
  BY TypeStep, LockStep DEF IInv
<1> QED BY InitIInv, <1>1, PTL DEF Spec

-----------------------------------------------------------------------------
(* The variables keep their types, and a teardown never runs the           *)
(* constructor that parses the registry (cli.py:901-908).                  *)
THEOREM TypeCorrect == Spec => []TypeOK
<1>1. IInv => TypeOK
  BY DEF IInv
<1> QED BY <1>1, AlwaysIInv, PTL

(* No team is torn down around a running command (cli.py:838-841). *)
THEOREM TeardownIsAlone == Spec => []RegistryStays
<1>1. IInv => RegistryStays
  BY DEF IInv
<1> QED BY <1>1, AlwaysIInv, PTL

(* A teardown that reports success has left no agents/ behind. *)
THEOREM TeardownCompletes == Spec => []TeardownIsComplete
<1>1. IInv => TeardownIsComplete
  BY DEF IInv
<1> QED BY <1>1, AlwaysIInv, PTL

(* Whatever is left of a team can be torn down by name (cli.py:831-834). *)
THEOREM Removable == Spec => []AlwaysRemovable
<1>1. IInv => AlwaysRemovable
  BY DEF IInv, InTheDirectory, AlwaysRemovable, Passes, IsCandidate, Workers
<1> QED BY <1>1, AlwaysIInv, PTL

(* A worktree has a team directory around it, and a command that got past  *)
(* the gate found one.                                                     *)
DirectoryFound ==
  /\ worktree => root
  /\ \A p \in Procs : pc[p] # "idle" => root

(* No orchestrator command makes a team directory: a command that gets to  *)
(* the lock found the directory, and nothing here removes it again.        *)
THEOREM OnlyGitMakesTeams == Spec => NoStrayTeam
<1>1. Init => DirectoryFound
  BY DEF Init, DirectoryFound
<1>2. TypeOK /\ DirectoryFound /\ [Next]_vars => DirectoryFound'
  <2> SUFFICES ASSUME TypeOK, DirectoryFound, [Next]_vars PROVE DirectoryFound'
    OBVIOUS
  <2> USE DEF TypeOK, DirectoryFound
  <2>1. CASE AddWorktree \/ RemoveWorktree
    BY <2>1 DEF AddWorktree, RemoveWorktree
  <2>2. ASSUME NEW p \in Procs, Begin(p) PROVE DirectoryFound'
    BY <2>2 DEF Begin, Passes, Goto
  <2>3. ASSUME NEW p \in Procs, Lock(p) PROVE DirectoryFound'
    BY <2>3 DEF Lock
  <2>4. ASSUME NEW p \in Procs,
               Read(p) \/ TakeLock(p) \/ Persist(p) \/ Leave(p)
                 \/ StartRemoval(p) \/ RemoveEntry(p) \/ EndTeardown(p) \/ Crash(p)
        PROVE  DirectoryFound'
    BY <2>4 DEF Read, TakeLock, Persist, Leave, StartRemoval, RemoveEntry,
                EndTeardown, Crash, Finish, Goto
  <2>5. CASE UNCHANGED vars
    BY <2>5 DEF vars
  <2> QED BY <2>1, <2>2, <2>3, <2>4, <2>5 DEF Next
<1>3. DirectoryFound /\ [Next]_vars => [~root /\ root' => worktree']_vars
  BY DEF DirectoryFound, Next, vars, AddWorktree, RemoveWorktree, Begin, Lock,
         Read, TakeLock, Persist, Leave, StartRemoval, RemoveEntry, EndTeardown, Crash
<1> QED BY <1>1, <1>2, <1>3, TypeCorrect, PTL DEF Spec, NoStrayTeam

(***************************************************************************)
(* Search                                                                  *)
(*                                                                         *)
(* The tree on the disk holds the prefixes of its paths, which is all that *)
(* a walk needs to find what is down to its depth.  The walk is a function *)
(* of the level, so that it has the levels it defines is proved first.     *)
(***************************************************************************)
(* A path is a sequence of segments. *)
Paths == Seq(Segment)

(* A set of numbers has a least one. *)
LEMMA LeastNat ==
  ASSUME NEW S \in SUBSET Nat, S # {}
  PROVE  \E x \in S : \A y \in S : x <= y
<1>1. IsWellFoundedOn(OpToRel(<, Nat), Nat)
  BY NatLessThanWellFounded
<1>2. PICK x \in S : \A y \in S : ~(<<y, x>> \in OpToRel(<, Nat))
  BY <1>1, WFMin
<1>3. ASSUME NEW y \in S PROVE x <= y
  <2>1. ~(<<y, x>> \in OpToRel(<, Nat))
    BY <1>2
  <2>2. OpToRel(<, Nat) = {ss \in Nat \X Nat : ss[1] < ss[2]}
    BY DEF OpToRel
  <2>3. ~(y < x)
    BY <2>1, <2>2
  <2> QED BY <2>3
<1> QED BY <1>3

(* What holds at 0 and, when it holds at n, at n + 1 holds everywhere. *)
LEMMA UpFromZero ==
  ASSUME NEW S \in SUBSET Nat, 0 \in S, \A n \in S : n + 1 \in S
  PROVE  S = Nat
<1> SUFFICES ASSUME Nat \ S # {} PROVE FALSE
  OBVIOUS
<1>1. PICK x \in Nat \ S : \A y \in Nat \ S : x <= y
  BY LeastNat
<1>2. x # 0 /\ x - 1 \in Nat /\ ~(x <= x - 1)
  BY <1>1
<1>3. x - 1 \in S
  BY <1>1, <1>2
<1>4. (x - 1) + 1 \in S
  BY <1>3
<1> QED BY <1>1, <1>2, <1>4

-----------------------------------------------------------------------------
(* The first segments of a path. *)
LEMMA CutPath ==
  ASSUME NEW p \in Paths, NEW k \in 0 .. Len(p)
  PROVE  /\ SubSeq(p, 1, k) \in Paths /\ Len(SubSeq(p, 1, k)) = k
         /\ \A i \in 1 .. k : SubSeq(p, 1, k)[i] = p[i]
<1>1. Len(p) \in Nat /\ \A i \in 1 .. Len(p) : p[i] \in Segment
  BY LenProperties, ElementOfSeq DEF Paths
<1>2. k \in Int /\ k \in Nat /\ \A i \in 1 .. k : p[i] \in Segment
  BY <1>1
<1> QED BY <1>2, SubSeqProperties DEF Paths

(* Prefixes, segment by segment. *)
LEMMA PrefixBySegment ==
  ASSUME NEW p \in Paths, NEW q \in Paths
  PROVE  IsPrefix(p, q) <=> /\ Len(p) <= Len(q)
                            /\ \A i \in 1 .. Len(p) : p[i] = q[i]
<1>1. Len(p) \in Nat /\ Len(q) \in Nat
  BY LenProperties DEF Paths
<1>2. SubSeq(p, 1, Len(p)) = p
  BY SubSeqFull DEF Paths
<1>3. CASE Len(p) <= Len(q)
  <2>1. PICK c : c = SubSeq(q, 1, Len(p))
    OBVIOUS
  <2>2. Len(p) \in 0 .. Len(q)
    BY <1>1, <1>3
  <2>3. c \in Paths /\ Len(c) = Len(p) /\ \A i \in 1 .. Len(p) : c[i] = q[i]
    BY <2>1, <2>2, CutPath
  <2>4. p = c <=> \A i \in 1 .. Len(p) : p[i] = q[i]
    BY <2>3, SeqEqual DEF Paths
  <2> QED BY <1>2, <1>3, <2>1, <2>4 DEF IsPrefix
<1>4. CASE ~(Len(p) <= Len(q))
  BY <1>4 DEF IsPrefix
<1> QED BY <1>3, <1>4

(* Prefixes of paths are ordered as they should be. *)
LEMMA PrefixOrder ==
  ASSUME NEW p \in Paths, NEW q \in Paths, NEW r \in Paths
  PROVE  /\ IsPrefix(p, p)
         /\ IsPrefix(p, q) /\ IsPrefix(q, r) => IsPrefix(p, r)
         /\ IsPrefix(p, r) /\ IsPrefix(q, r) /\ Len(p) <= Len(q) => IsPrefix(p, q)
         /\ IsPrefix(p, q) => Len(p) <= Len(q)
         /\ IsPrefix(p, q) /\ Len(p) = Len(q) => p = q
<1>1. Len(p) \in Nat /\ Len(q) \in Nat /\ Len(r) \in Nat
  BY LenProperties DEF Paths
<1>2. IsPrefix(p, p)
  BY <1>1, PrefixBySegment
<1>3. IsPrefix(p, q) /\ IsPrefix(q, r) => IsPrefix(p, r)
  BY <1>1, PrefixBySegment
<1>4. IsPrefix(p, r) /\ IsPrefix(q, r) /\ Len(p) <= Len(q) => IsPrefix(p, q)
  BY <1>1, PrefixBySegment
<1>5. IsPrefix(p, q) => Len(p) <= Len(q)
  BY PrefixBySegment
<1>6. IsPrefix(p, q) /\ Len(p) = Len(q) => p = q
  BY PrefixBySegment, SeqEqual DEF Paths
<1> QED BY <1>2, <1>3, <1>4, <1>5, <1>6

(* The first segments of a path, and nothing else, are its prefixes. *)
LEMMA CutIsPrefix ==
  ASSUME NEW p \in Paths, NEW k \in 0 .. Len(p)
  PROVE  /\ IsPrefix(SubSeq(p, 1, k), p)
         /\ \A q \in Paths : IsPrefix(q, p) /\ Len(q) = k => q = SubSeq(p, 1, k)
<1>1. PICK c : c = SubSeq(p, 1, k)
  OBVIOUS
<1>2. c \in Paths /\ Len(c) = k /\ \A i \in 1 .. k : c[i] = p[i]
  BY <1>1, CutPath
<1>3. k <= Len(p) /\ k \in Nat
  BY LenProperties DEF Paths
<1>4. IsPrefix(c, p)
  BY <1>2, <1>3, PrefixBySegment
<1>5. ASSUME NEW q \in Paths, IsPrefix(q, p), Len(q) = k PROVE q = c
  <2>1. \A i \in 1 .. Len(q) : q[i] = p[i]
    BY <1>5, PrefixBySegment
  <2> QED BY <1>2, <1>5, <2>1, SeqEqual DEF Paths
<1> QED BY <1>1, <1>4, <1>5

(* A path with one segment more. *)
LEMMA OneMore ==
  ASSUME NEW p \in Paths, NEW x \in Segment
  PROVE  /\ Append(p, x) \in Paths /\ Len(Append(p, x)) = Len(p) + 1
         /\ IsPrefix(p, Append(p, x))
<1>1. PICK a : a = Append(p, x)
  OBVIOUS
<1>2. a \in Paths /\ Len(a) = Len(p) + 1 /\ \A i \in 1 .. Len(p) : a[i] = p[i]
  BY <1>1, AppendProperties DEF Paths
<1>3. Len(p) \in Nat
  BY LenProperties DEF Paths
<1>4. IsPrefix(p, a)
  BY <1>2, <1>3, PrefixBySegment
<1> QED BY <1>1, <1>2, <1>4

-----------------------------------------------------------------------------
(* The directories one level below some, unless they stop the walk. *)
Below(S, stops) == (UNION {Children(d) : d \in S}) \ stops

(* Does a function give the directories of a walk level by level? *)
IsLevels(level, from, stops, depth) ==
  level = [n \in 0 .. depth |-> IF n = 0 THEN {from} ELSE Below(level[n - 1], stops)]

(* The levels of a walk are well defined, however deep it goes. *)
LEMMA LevelsExist ==
  ASSUME NEW from, NEW stops, NEW depth \in Nat
  PROVE  \E level : IsLevels(level, from, stops, depth)
<1> DEFINE S == {m \in Nat : \E level : IsLevels(level, from, stops, m)}
<1>1. 0 \in S
  <2>1. IsLevels([n \in 0 .. 0 |-> {from}], from, stops, 0)
    BY DEF IsLevels
  <2> QED BY <2>1
<1>2. ASSUME NEW m \in S PROVE m + 1 \in S
  <2>1. PICK f : IsLevels(f, from, stops, m)
    OBVIOUS
  <2> DEFINE g == [n \in 0 .. m + 1 |-> IF n = m + 1 THEN Below(f[m], stops) ELSE f[n]]
  <2>2. \A n \in 0 .. m : f[n] = IF n = 0 THEN {from} ELSE Below(f[n - 1], stops)
    BY <2>1 DEF IsLevels
  <2>3. \A n \in 0 .. m : g[n] = f[n]
    OBVIOUS
  <2>4. ASSUME NEW n \in 0 .. m + 1
        PROVE  g[n] = IF n = 0 THEN {from} ELSE Below(g[n - 1], stops)
    <3>1. CASE n = m + 1
      <4>1. g[n] = Below(f[m], stops) /\ g[n - 1] = f[m] /\ n # 0
        BY <2>3, <3>1
      <4> HIDE DEF g
      <4> QED BY <4>1
    <3>2. CASE n # m + 1
      <4>1. n \in 0 .. m /\ g[n] = f[n]
        BY <2>3, <3>2
      <4>2. n # 0 => n - 1 \in 0 .. m /\ g[n - 1] = f[n - 1]
        BY <2>3, <4>1
      <4> HIDE DEF g
      <4> QED BY <2>2, <4>1, <4>2
    <3> QED BY <3>1, <3>2
  <2>5. DOMAIN g = 0 .. m + 1 /\ g = [n \in 0 .. m + 1 |-> g[n]]
    OBVIOUS
  <2> HIDE DEF g
  <2>6. IsLevels(g, from, stops, m + 1)
    BY <2>4, <2>5 DEF IsLevels
  <2> QED BY <2>6
<1>3. S \in SUBSET Nat
  OBVIOUS
<1> HIDE DEF S
<1>4. S = Nat
  BY <1>1, <1>2, <1>3, UpFromZero
<1> QED BY <1>4 DEF S

(* What a walk enters is the union of its levels. *)
LEMMA EnteredByLevel ==
  ASSUME NEW from, NEW stops, NEW depth \in Nat
  PROVE  \E level : /\ IsLevels(level, from, stops, depth)
                    /\ Entered(from, stops, depth) = UNION {level[n] : n \in 0 .. depth}
<1> DEFINE level == CHOOSE f : IsLevels(f, from, stops, depth)
<1>1. IsLevels(level, from, stops, depth)
  BY LevelsExist
<1>2. Entered(from, stops, depth) = UNION {level[n] : n \in 0 .. depth}
  BY DEF Entered, IsLevels, Below
<1> QED BY <1>1, <1>2

-----------------------------------------------------------------------------
(* A directory's parents are in the tree. *)
LEMMA ParentsAreThere ==
  ASSUME TreeTypeOK, NEW e \in dirs, NEW k \in 0 .. Len(e)
  PROVE  SubSeq(e, 1, k) \in dirs
<1>1. SubSeq(e, 1, k) \in {SubSeq(e, 1, i) : i \in 0 .. Len(e)}
  OBVIOUS
<1>2. SubSeq(e, 1, k) \in Parents(dirs)
  BY <1>1 DEF Parents
<1> QED BY <1>2 DEF TreeTypeOK

(* Is there no stop on the way from one path to another? *)
Clear(from, e, stops) ==
  \A t \in stops : ~(IsStrictPrefix(from, t) /\ IsPrefix(t, e))

(* A directory a walk reads n levels below the one it starts from. *)
AtLevel(from, e, stops, n) ==
  /\ e \in dirs \cup {from}
  /\ IsPrefix(from, e) /\ Len(e) = Len(from) + n
  /\ Clear(from, e, stops)

(* A path and the one around it. *)
LEMMA StepDown ==
  ASSUME TreeTypeOK, NEW from \in Paths, NEW stops \in SUBSET Paths, NEW n \in Nat,
         NEW e
  PROVE  AtLevel(from, e, stops, n + 1) <=>
           /\ e \in dirs /\ e \notin stops
           /\ \E d : AtLevel(from, d, stops, n) /\ e \in Children(d)
<1>0. dirs \subseteq Paths /\ Len(from) \in Nat
  BY LenProperties DEF TreeTypeOK, Paths
<1>1. ASSUME AtLevel(from, e, stops, n + 1)
      PROVE  /\ e \in dirs /\ e \notin stops
             /\ \E d : AtLevel(from, d, stops, n) /\ e \in Children(d)
  <2>1. /\ e \in Paths /\ Len(e) = Len(from) + n + 1 /\ Len(e) \in Nat
        /\ IsPrefix(from, e) /\ e # from /\ e \in dirs
    BY <1>0, <1>1 DEF AtLevel
  <2>2. e \notin stops
    <3>1. IsStrictPrefix(from, e) /\ IsPrefix(e, e)
      BY <2>1, PrefixOrder DEF IsStrictPrefix
    <3> QED BY <1>1, <3>1 DEF AtLevel, Clear
  <2>3. PICK d : d = SubSeq(e, 1, Len(from) + n)
    OBVIOUS
  <2>4. Len(from) + n \in 0 .. Len(e)
    BY <1>0, <2>1
  <2>5. d \in Paths /\ Len(d) = Len(from) + n /\ IsPrefix(d, e) /\ d \in dirs
    BY <2>1, <2>3, <2>4, CutPath, CutIsPrefix, ParentsAreThere
  <2>6. IsPrefix(from, d)
    BY <1>0, <2>1, <2>5, PrefixOrder
  <2>7. Clear(from, d, stops)
    <3>1. ASSUME NEW t \in stops, IsPrefix(t, d) PROVE IsPrefix(t, e)
      BY <2>1, <2>5, <3>1, PrefixOrder
    <3> QED BY <1>1, <3>1 DEF AtLevel, Clear
  <2>8. AtLevel(from, d, stops, n)
    BY <2>5, <2>6, <2>7 DEF AtLevel
  <2>9. e \in Children(d)
    BY <2>1, <2>5 DEF Children
  <2> QED BY <2>1, <2>2, <2>8, <2>9
<1>2. ASSUME e \in dirs, e \notin stops,
             NEW d, AtLevel(from, d, stops, n), e \in Children(d)
      PROVE  AtLevel(from, e, stops, n + 1)
  <2>1. /\ d \in Paths /\ e \in Paths /\ Len(d) = Len(from) + n
        /\ IsPrefix(from, d) /\ IsPrefix(d, e) /\ Len(e) = Len(d) + 1
    BY <1>0, <1>2 DEF AtLevel, Children
  <2>2. IsPrefix(from, e) /\ Len(e) = Len(from) + (n + 1)
    BY <1>0, <2>1, PrefixOrder
  <2>3. Clear(from, e, stops)
    <3> SUFFICES ASSUME NEW t \in stops, IsStrictPrefix(from, t), IsPrefix(t, e)
                 PROVE  FALSE
      BY DEF Clear
    <3>1. t \in Paths /\ Len(t) \in Nat /\ Len(e) \in Nat /\ Len(d) \in Nat
      BY <2>1, LenProperties DEF Paths
    <3>2. Len(t) <= Len(e) /\ t # e
      BY <1>2, <2>1, <3>1, PrefixOrder
    <3>3. Len(t) <= Len(d)
      <4>1. Len(t) # Len(e)
        BY <2>1, <3>1, <3>2, PrefixOrder
      <4> QED BY <2>1, <3>1, <3>2, <4>1
    <3>4. IsPrefix(t, d)
      BY <2>1, <3>1, <3>3, PrefixOrder
    <3> QED BY <1>2, <3>4 DEF AtLevel, Clear
  <2> QED BY <1>2, <2>2, <2>3 DEF AtLevel
<1> QED BY <1>1, <1>2

(* What is one level below some directories. *)
LEMMA InBelow ==
  ASSUME NEW S, NEW stops, NEW e
  PROVE  e \in Below(S, stops) <=>
           e \in dirs /\ e \notin stops /\ \E d : d \in S /\ e \in Children(d)
<1>1. \A d : Children(d) \subseteq dirs
  BY DEF Children
<1>2. e \in Below(S, stops) <=> e \notin stops /\ \E d \in S : e \in Children(d)
  BY DEF Below
<1> QED BY <1>1, <1>2

(* A level holds the directories that far down with no stop on the way. *)
LEMMA LevelIs ==
  ASSUME TreeTypeOK, NEW from \in Paths, NEW stops \in SUBSET Paths,
         NEW depth \in Nat, NEW level, IsLevels(level, from, stops, depth)
  PROVE  \A n \in 0 .. depth : \A e : e \in level[n] <=> AtLevel(from, e, stops, n)
<1> DEFINE S == {n \in Nat : n <= depth =>
                   \A e : e \in level[n] <=> AtLevel(from, e, stops, n)}
<1>0. /\ dirs \subseteq Paths /\ Len(from) \in Nat
      /\ \A n \in 0 .. depth :
           level[n] = IF n = 0 THEN {from} ELSE Below(level[n - 1], stops)
  BY LenProperties DEF TreeTypeOK, Paths, IsLevels
<1>1. 0 \in S
  <2>1. ASSUME NEW e PROVE e = from <=> AtLevel(from, e, stops, 0)
    <3>1. AtLevel(from, from, stops, 0)
      <4>1. IsPrefix(from, from)
        BY PrefixOrder
      <4>2. \A t \in stops : ~(IsStrictPrefix(from, t) /\ IsPrefix(t, from))
        <5> SUFFICES ASSUME NEW t \in stops, IsStrictPrefix(from, t), IsPrefix(t, from)
                     PROVE  FALSE
          OBVIOUS
        <5>1. t \in Paths /\ Len(t) \in Nat /\ IsPrefix(from, t) /\ from # t
          BY LenProperties DEF Paths, IsStrictPrefix
        <5>2. Len(t) <= Len(from) /\ Len(from) <= Len(t)
          BY <5>1, PrefixOrder
        <5>3. Len(t) = Len(from)
          BY <1>0, <5>1, <5>2
        <5> QED BY <5>1, <5>3, PrefixOrder
      <4> QED BY <1>0, <4>1, <4>2 DEF AtLevel, Clear
    <3>2. ASSUME AtLevel(from, e, stops, 0) PROVE e = from
      <4>1. e \in Paths /\ IsPrefix(from, e) /\ Len(from) = Len(e)
        BY <1>0, <3>2 DEF AtLevel
      <4> QED BY <4>1, PrefixOrder
    <3> QED BY <3>1, <3>2
  <2> QED BY <1>0, <2>1
<1>2. ASSUME NEW n \in S PROVE n + 1 \in S
  <2> SUFFICES ASSUME n + 1 <= depth, NEW e
               PROVE  e \in level[n + 1] <=> AtLevel(from, e, stops, n + 1)
    OBVIOUS
  <2>1. n <= depth /\ n + 1 \in 0 .. depth /\ n + 1 # 0 /\ (n + 1) - 1 = n
    OBVIOUS
  <2>2. \A d : d \in level[n] <=> AtLevel(from, d, stops, n)
    BY <2>1
  <2>3. level[n + 1] = Below(level[n], stops)
    BY <1>0, <2>1
  <2>4. e \in level[n + 1] <=>
          e \in dirs /\ e \notin stops /\ \E d : d \in level[n] /\ e \in Children(d)
    BY <2>3, InBelow
  <2>5. n \in Nat
    OBVIOUS
  <2> HIDE DEF S
  <2> QED BY <2>2, <2>4, <2>5, StepDown
<1>3. S \in SUBSET Nat
  OBVIOUS
<1> HIDE DEF S
<1>4. S = Nat
  BY <1>1, <1>2, <1>3, UpFromZero
<1> QED BY <1>4 DEF S

(* What a walk finds: the hits at most SearchDepth levels down that have   *)
(* no stop between the start and them.                                     *)
LEMMA WalkFinds ==
  ASSUME TreeTypeOK, NEW from \in Paths, NEW hits, NEW stops \in SUBSET Paths, NEW e
  PROVE  e \in Walk(from, hits, stops) <=>
           /\ e \in dirs /\ e \in hits
           /\ IsStrictPrefix(from, e) /\ Len(e) - Len(from) <= SearchDepth
           /\ \A t \in stops : ~(IsStrictPrefix(from, t) /\ IsStrictPrefix(t, e))
<1>0. /\ SearchDepth - 1 \in Nat /\ SearchDepth \in Nat
      /\ dirs \subseteq Paths /\ Len(from) \in Nat
  BY TreeAssumption, LenProperties DEF TreeTypeOK, Paths
<1>1. PICK level : /\ IsLevels(level, from, stops, SearchDepth - 1)
                   /\ Entered(from, stops, SearchDepth - 1)
                        = UNION {level[n] : n \in 0 .. SearchDepth - 1}
  BY <1>0, EnteredByLevel
<1>2. \A n \in 0 .. SearchDepth - 1 : \A d : d \in level[n] <=> AtLevel(from, d, stops, n)
  BY <1>0, <1>1, LevelIs
<1>3. e \in Walk(from, hits, stops) <=>
        \E n \in 0 .. SearchDepth - 1 : \E d : /\ AtLevel(from, d, stops, n)
                                               /\ e \in Children(d) /\ e \in hits
  BY <1>1, <1>2 DEF Walk
<1>4. ASSUME NEW n \in 0 .. SearchDepth - 1, NEW d, AtLevel(from, d, stops, n),
             e \in Children(d), e \in hits
      PROVE  /\ e \in dirs /\ e \in hits
             /\ IsStrictPrefix(from, e) /\ Len(e) - Len(from) <= SearchDepth
             /\ \A t \in stops : ~(IsStrictPrefix(from, t) /\ IsStrictPrefix(t, e))
  <2>1. /\ d \in Paths /\ e \in Paths /\ e \in dirs /\ Len(d) = Len(from) + n
        /\ IsPrefix(from, d) /\ IsPrefix(d, e) /\ Len(e) = Len(d) + 1
    BY <1>0, <1>4 DEF AtLevel, Children
  <2>2. Len(e) = Len(from) + n + 1 /\ Len(e) - Len(from) <= SearchDepth /\ e # from
    BY <1>0, <2>1
  <2>3. IsPrefix(from, e)
    BY <2>1, PrefixOrder
  <2>4. ASSUME NEW t \in stops, IsStrictPrefix(from, t), IsStrictPrefix(t, e) PROVE FALSE
    <3>1. t \in Paths /\ Len(t) \in Nat /\ IsPrefix(t, e) /\ t # e
      BY <2>4, LenProperties DEF Paths, IsStrictPrefix
    <3>2. Len(t) <= Len(e) /\ Len(t) # Len(e)
      BY <2>1, <3>1, PrefixOrder
    <3>3. Len(t) <= Len(d)
      BY <1>0, <2>1, <3>1, <3>2
    <3>4. IsPrefix(t, d)
      BY <2>1, <3>1, <3>3, PrefixOrder
    <3> QED BY <1>4, <2>4, <3>4 DEF AtLevel, Clear
  <2> QED BY <1>4, <2>1, <2>2, <2>3, <2>4 DEF IsStrictPrefix
<1>5. ASSUME e \in dirs, e \in hits,
             IsStrictPrefix(from, e), Len(e) - Len(from) <= SearchDepth,
             \A t \in stops : ~(IsStrictPrefix(from, t) /\ IsStrictPrefix(t, e))
      PROVE  \E n \in 0 .. SearchDepth - 1 : \E d :
               AtLevel(from, d, stops, n) /\ e \in Children(d) /\ e \in hits
  <2>1. e \in Paths /\ Len(e) \in Nat /\ IsPrefix(from, e) /\ from # e
    BY <1>0, <1>5, LenProperties DEF Paths, IsStrictPrefix
  <2>2. Len(from) <= Len(e) /\ Len(from) # Len(e)
    BY <2>1, PrefixOrder
  <2>3. PICK n : n = Len(e) - Len(from) - 1
    OBVIOUS
  <2>4. n \in 0 .. SearchDepth - 1 /\ Len(from) + n \in 0 .. Len(e) /\ Len(e) = Len(from) + n + 1
    BY <1>0, <1>5, <2>1, <2>2, <2>3
  <2>5. PICK d : d = SubSeq(e, 1, Len(from) + n)
    OBVIOUS
  <2>6. d \in Paths /\ Len(d) = Len(from) + n /\ IsPrefix(d, e) /\ d \in dirs
    BY <1>5, <2>1, <2>4, <2>5, CutPath, CutIsPrefix, ParentsAreThere
  <2>7. IsPrefix(from, d)
    BY <1>0, <2>1, <2>4, <2>6, PrefixOrder
  <2>8. Clear(from, d, stops)
    <3> SUFFICES ASSUME NEW t \in stops, IsStrictPrefix(from, t), IsPrefix(t, d)
                 PROVE  FALSE
      BY DEF Clear
    <3>1. t \in Paths
      OBVIOUS
    <3>2. IsPrefix(t, e)
      BY <2>1, <2>6, <3>1, PrefixOrder
    <3>3. Len(t) <= Len(d)
      BY <2>6, <3>1, PrefixOrder
    <3>4. t # e
      BY <1>0, <2>4, <2>6, <3>3
    <3> QED BY <1>5, <3>2, <3>4 DEF IsStrictPrefix
  <2>9. AtLevel(from, d, stops, n)
    BY <2>6, <2>7, <2>8 DEF AtLevel
  <2>10. e \in Children(d)
    BY <1>5, <2>4, <2>6 DEF Children
  <2> QED BY <1>5, <2>4, <2>9, <2>10
<1> QED BY <1>3, <1>4, <1>5

-----------------------------------------------------------------------------
(* The parents of some paths are their prefixes. *)
LEMMA InParents ==
  ASSUME NEW P \in SUBSET Paths, NEW e
  PROVE  e \in Parents(P) <=> e \in Paths /\ \E d \in P : IsPrefix(e, d)
<1>1. e \in Parents(P) <=> \E d \in P : \E i \in 0 .. Len(d) : e = SubSeq(d, 1, i)
  BY DEF Parents
<1>2. ASSUME NEW d \in P, NEW i \in 0 .. Len(d), e = SubSeq(d, 1, i)
      PROVE  e \in Paths /\ IsPrefix(e, d)
  <2>1. SubSeq(d, 1, i) \in Paths /\ IsPrefix(SubSeq(d, 1, i), d)
    BY CutPath, CutIsPrefix
  <2> QED BY <1>2, <2>1, Zenon
<1>3. ASSUME e \in Paths, NEW d \in P, IsPrefix(e, d)
      PROVE  Len(e) \in 0 .. Len(d) /\ e = SubSeq(d, 1, Len(e))
  <2>1. Len(e) \in 0 .. Len(d)
    BY <1>3, PrefixOrder, LenProperties DEF Paths
  <2> QED BY <1>3, <2>1, CutIsPrefix
<1> QED BY <1>1, <1>2, <1>3

(* Does a set of paths hold every prefix of its paths? *)
IsTree(P) == \A d \in P : \A e \in Paths : IsPrefix(e, d) => e \in P

(* Then, and only then, adding parents adds nothing. *)
LEMMA TreeParents ==
  ASSUME NEW P \in SUBSET Paths
  PROVE  Parents(P) = P <=> IsTree(P)
<1>1. P \subseteq Parents(P)
  BY InParents, PrefixOrder
<1>2. Parents(P) \subseteq P <=> IsTree(P)
  BY InParents DEF IsTree
<1> QED BY <1>1, <1>2

(* Paths with their parents are a tree. *)
LEMMA ParentsTree ==
  ASSUME NEW P \in SUBSET Paths
  PROVE  /\ P \subseteq Parents(P) /\ Parents(P) \subseteq Paths
         /\ IsTree(Parents(P))
<1>1. P \subseteq Parents(P) /\ Parents(P) \subseteq Paths
  BY InParents, PrefixOrder
<1>2. ASSUME NEW d \in Parents(P), NEW e \in Paths, IsPrefix(e, d)
      PROVE  e \in Parents(P)
  <2>1. PICK c \in P : IsPrefix(d, c)
    BY InParents
  <2>2. IsPrefix(e, c)
    BY <1>1, <1>2, <2>1, PrefixOrder
  <2> QED BY <2>2, InParents
<1> QED BY <1>1, <1>2 DEF IsTree

(* The tree there is, without the operator that adds parents. *)
LEMMA TreeThere ==
  TreeTypeOK <=> /\ dirs \subseteq Paths /\ IsTree(dirs)
                 /\ registries \subseteq dirs
                 /\ \A d \in registries : AgentsDir(d) \in dirs
BY TreeParents DEF TreeTypeOK, Paths

(* The same after a step. *)
LEMMA TreeThereNext ==
  TreeTypeOK' <=> /\ dirs' \subseteq Paths /\ IsTree(dirs')
                  /\ registries' \subseteq dirs'
                  /\ \A d \in registries' : AgentsDir(d) \in dirs'
BY TreeParents DEF TreeTypeOK, Paths

(* A tree starts as one. *)
LEMMA TreeBegins == TreeInit => TreeTypeOK
<1> SUFFICES ASSUME TreeInit PROVE TreeTypeOK
  OBVIOUS
<1>1. {Root} \in SUBSET Paths
  BY TreeAssumption DEF Paths
<1>2. dirs \subseteq Paths /\ IsTree(dirs) /\ registries = {}
  BY <1>1, ParentsTree DEF TreeInit
<1> QED BY <1>2, TreeThere

(* agents/ made in a directory that is there. *)
LEMMA AgentsMade ==
  ASSUME TreeTypeOK, NEW d \in dirs
  PROVE  dirs \cup {AgentsDir(d)} \subseteq Paths /\ IsTree(dirs \cup {AgentsDir(d)})
<1>1. dirs \subseteq Paths /\ d \in Paths /\ Len(d) \in Nat /\ IsTree(dirs)
  BY TreeThere, LenProperties DEF Paths
<1>2. PICK a : a = AgentsDir(d)
  OBVIOUS
<1>3. a \in Paths /\ Len(a) = Len(d) + 1 /\ IsPrefix(d, a)
  <2>0. "agents" \in Segment
    BY TreeAssumption
  <2>1. Append(d, "agents") \in Paths /\ Len(Append(d, "agents")) = Len(d) + 1
        /\ IsPrefix(d, Append(d, "agents"))
    BY <1>1, <2>0, OneMore, Zenon
  <2> QED BY <1>2, <2>1, Zenon DEF AgentsDir
<1>4. ASSUME NEW e \in Paths, IsPrefix(e, a) PROVE e \in dirs \cup {a}
  <2>1. Len(e) \in Nat /\ Len(e) <= Len(a)
    BY <1>3, <1>4, PrefixOrder, LenProperties DEF Paths
  <2>2. CASE Len(e) = Len(a)
    BY <1>3, <1>4, <2>2, PrefixOrder
  <2>3. CASE Len(e) # Len(a)
    <3>1. Len(e) <= Len(d)
      BY <1>1, <1>3, <2>1, <2>3
    <3>2. d \in Paths
      BY <1>1
    <3>3. IsPrefix(e, d)
      BY <1>3, <1>4, <3>1, <3>2, PrefixOrder, Zenon
    <3> QED BY <1>1, <3>3 DEF IsTree
  <2> QED BY <2>2, <2>3
<1>5. IsTree(dirs \cup {a}) /\ dirs \cup {a} \subseteq Paths
  BY <1>1, <1>3, <1>4 DEF IsTree
<1> QED BY <1>2, <1>5

(* Trees put together. *)
LEMMA TreesJoin ==
  ASSUME NEW P, NEW Q, IsTree(P), IsTree(Q)
  PROVE  IsTree(P \cup Q)
BY DEF IsTree

(* One path put after another. *)
LEMMA JoinPaths ==
  ASSUME NEW p \in Paths, NEW q \in Paths
  PROVE  /\ p \o q \in Paths /\ Len(p \o q) = Len(p) + Len(q)
         /\ IsPrefix(p, p \o q)
<1>1. PICK j : j = p \o q
  OBVIOUS
<1>2. j \in Paths /\ Len(j) = Len(p) + Len(q) /\ \A i \in 1 .. Len(p) : j[i] = p[i]
  BY <1>1, ConcatProperties, LenProperties DEF Paths
<1>3. Len(p) \in Nat /\ Len(q) \in Nat
  BY LenProperties DEF Paths
<1>4. IsPrefix(p, j)
  BY <1>2, <1>3, PrefixBySegment
<1> QED BY <1>1, <1>2, <1>4

(* agents/ and worktree/ of a directory. *)
LEMMA AgentsAndWorktree ==
  ASSUME NEW d \in Paths
  PROVE  /\ AgentsDir(d) \in Paths /\ IsPrefix(d, AgentsDir(d))
         /\ Worktree(d) \in Paths /\ IsPrefix(d, Worktree(d))
<1>1. "agents" \in Segment /\ "worktree" \in Segment
  BY TreeAssumption
<1>2. /\ Append(d, "agents") \in Paths /\ IsPrefix(d, Append(d, "agents"))
      /\ Append(d, "worktree") \in Paths /\ IsPrefix(d, Append(d, "worktree"))
  BY <1>1, OneMore, Zenon
<1> QED BY <1>2, Zenon DEF AgentsDir, Worktree

(* A name reaches a path, and one that is there unless a directory of      *)
(* teams is configured.                                                    *)
LEMMA ReachedPath ==
  ASSUME TreeTypeOK, NEW name \in Names, NEW env \in Environments,
         NEW d \in Reached(name, env)
  PROVE  d \in Paths /\ (env = {} => d \in dirs)
<1>1. dirs \subseteq Paths /\ name \in Paths /\ env \subseteq Paths /\ Root \in Paths
  BY TreeThere, TreeAssumption DEF Environments, Paths
<1>2. CASE env = {}
  <2>1. d \in Resolve(name)
    BY <1>2 DEF Reached
  <2>2. d \in Walk(Root, {e \in dirs : IsCandidateAt(e)}, registries)
    BY <2>1 DEF Resolve
  <2>3. d \in dirs
    BY <2>2 DEF Walk
  <2> QED BY <1>1, <2>3
<1>3. CASE env # {}
  <2>1. PICK c \in env : d = c \o name
    BY <1>3 DEF Reached
  <2>2. c \in Paths
    BY <1>1, <2>1
  <2>3. c \o name \in Paths
    BY <1>1, <2>2, JoinPaths
  <2> QED BY <1>3, <2>1, <2>3, Zenon
<1> QED BY <1>2, <1>3

(* A new worktree leaves a tree. *)
LEMMA AddWorktreeKeeps ==
  ASSUME TreeTypeOK, NEW p \in Places, AddWorktreeAt(p)
  PROVE  TreeTypeOK'
<1>0. /\ dirs \subseteq Paths /\ IsTree(dirs) /\ registries \subseteq dirs
      /\ \A d \in registries : AgentsDir(d) \in dirs
      /\ p \in Paths /\ Worktree(p) \in Paths
  BY TreeThere, TreeAssumption, AgentsAndWorktree DEF Paths
<1>1. PICK inside \in Checkouts :
        LET decoys == {Worktree(p) \o q : q \in inside}
        IN  /\ dirs' = dirs \cup Parents({Worktree(p)} \cup {AgentsDir(d) : d \in decoys})
            /\ registries' = registries \cup decoys
  BY DEF AddWorktreeAt
<1>2. inside \subseteq Paths
  BY TreeAssumption DEF Paths
<1> DEFINE decoys == {Worktree(p) \o q : q \in inside}
           new    == {Worktree(p)} \cup {AgentsDir(d) : d \in decoys}
<1>3. \A q \in inside : Worktree(p) \o q \in Paths
  BY <1>0, <1>2, JoinPaths
<1>4. decoys \subseteq Paths
  BY <1>3
<1>5. dirs' = dirs \cup Parents(new) /\ registries' = registries \cup decoys
  BY <1>1
<1> HIDE DEF decoys
<1>6. new \in SUBSET Paths /\ \A d \in decoys : AgentsDir(d) \in new
  BY <1>0, <1>4, AgentsAndWorktree
<1> HIDE DEF new
<1>7. new \subseteq Parents(new) /\ Parents(new) \subseteq Paths /\ IsTree(Parents(new))
  BY <1>6, ParentsTree
<1>8. \A d \in decoys : d \in Parents(new) /\ AgentsDir(d) \in Parents(new)
  BY <1>4, <1>6, <1>7, AgentsAndWorktree DEF IsTree
<1>9. dirs' \subseteq Paths /\ IsTree(dirs')
  BY <1>0, <1>5, <1>7, TreesJoin
<1>10. registries' \subseteq dirs' /\ \A d \in registries' : AgentsDir(d) \in dirs'
  BY <1>0, <1>5, <1>8
<1> QED BY <1>9, <1>10, TreeThereNext

(* What deletes a directory with everything below it leaves a tree. *)
LEMMA DeleteKeeps ==
  ASSUME TreeTypeOK, NEW e \in Paths, Delete(Under(e))
  PROVE  TreeTypeOK'
<1>0. /\ dirs \subseteq Paths /\ IsTree(dirs) /\ registries \subseteq dirs
      /\ \A d \in registries : AgentsDir(d) \in dirs
  BY TreeThere
<1>1. /\ \A d : d \in dirs' <=> d \in dirs /\ ~IsPrefix(e, d)
      /\ \A d : d \in registries' <=> d \in registries /\ ~IsPrefix(e, AgentsDir(d))
  BY <1>0 DEF Delete, Under
<1>2. dirs' \subseteq Paths
  BY <1>0, <1>1
<1>3. ASSUME NEW d \in dirs', NEW c \in Paths, IsPrefix(c, d) PROVE c \in dirs'
  <2>1. c \in dirs /\ d \in Paths
    BY <1>0, <1>1, <1>3 DEF IsTree
  <2>2. ~IsPrefix(e, c)
    BY <1>1, <1>3, <2>1, PrefixOrder
  <2> QED BY <1>1, <2>1, <2>2
<1>4. ASSUME NEW d \in registries' PROVE d \in dirs' /\ AgentsDir(d) \in dirs'
  <2>1. d \in dirs /\ d \in Paths /\ AgentsDir(d) \in dirs /\ ~IsPrefix(e, AgentsDir(d))
    BY <1>0, <1>1
  <2>2. AgentsDir(d) \in Paths /\ IsPrefix(d, AgentsDir(d))
    BY <2>1, AgentsAndWorktree
  <2>3. ~IsPrefix(e, d)
    BY <2>1, <2>2, PrefixOrder
  <2> QED BY <1>1, <2>1, <2>3
<1> QED BY <1>2, <1>3, <1>4, TreeThereNext DEF IsTree

(* What makes agents/ in a directory, and perhaps a registry there, leaves *)
(* a tree.                                                                 *)
LEMMA AgentsKeep ==
  ASSUME TreeTypeOK, NEW d \in dirs, dirs' = dirs \cup {AgentsDir(d)},
         registries' \in {registries, registries \cup {d}}
  PROVE  TreeTypeOK'
<1>1. dirs' \subseteq Paths /\ IsTree(dirs')
  BY AgentsMade
<1>2. registries' \subseteq dirs' /\ \A c \in registries' : AgentsDir(c) \in dirs'
  BY TreeThere
<1> QED BY <1>1, <1>2, TreeThereNext

(* Every step leaves a tree. *)
LEMMA TreeStep == TreeTypeOK /\ [TreeNext]_treeVars => TreeTypeOK'
<1> SUFFICES ASSUME TreeTypeOK, [TreeNext]_treeVars PROVE TreeTypeOK'
  OBVIOUS
<1>0. Places \subseteq Paths /\ dirs \subseteq Paths /\ IsTree(dirs)
  BY TreeAssumption, TreeThere DEF Paths
<1>1. ASSUME NEW p \in Places, AddWorktreeAt(p) PROVE TreeTypeOK'
  BY <1>1, AddWorktreeKeeps
<1>2. ASSUME NEW p \in Places, RemoveWorktreeAt(p) PROVE TreeTypeOK'
  BY <1>0, <1>2, AgentsAndWorktree, DeleteKeeps DEF RemoveWorktreeAt
<1>3. ASSUME NEW p \in Places, RemoveTeam(p) PROVE TreeTypeOK'
  BY <1>0, <1>3, DeleteKeeps DEF RemoveTeam
<1>4. ASSUME NEW name \in Names, NEW env \in Environments,
             NEW d \in Reached(name, env),
             Create(d) \/ DeleteAgent(d) \/ Teardown(d)
      PROVE  TreeTypeOK'
  <2>1. d \in Paths
    BY ReachedPath
  <2>2. CASE Create(d)
    <3>1. Worktree(d) \in dirs /\ IsPrefix(d, Worktree(d))
      BY <2>1, <2>2, AgentsAndWorktree DEF Create
    <3>2. d \in dirs
      BY <1>0, <2>1, <3>1 DEF IsTree
    <3> QED BY <2>2, <3>2, AgentsKeep DEF Create
  <2>3. CASE DeleteAgent(d)
    BY <2>3, AgentsKeep DEF DeleteAgent
  <2>4. CASE Teardown(d)
    BY <2>1, <2>4, AgentsAndWorktree, DeleteKeeps DEF Teardown
  <2> QED BY <1>4, <2>2, <2>3, <2>4
<1>5. CASE UNCHANGED treeVars
  BY <1>5, TreeThere, TreeThereNext DEF treeVars
<1> QED BY <1>1, <1>2, <1>3, <1>4, <1>5 DEF TreeNext, Command

(* The tree on the disk stays a tree, with every registry in an agents/ of *)
(* its team: what every walk relies on.                                    *)
THEOREM TreeTypeCorrect == TreeSpec => []TreeTypeOK
BY TreeBegins, TreeStep, PTL DEF TreeSpec

(* A walk from any root or directory of teams is what discover is          *)
(* documented to do: every team down to SEARCH_DEPTH, and none inside      *)
(* another, whatever the tree and the depth.                               *)
THEOREM DiscoverDocumented == TreeSpec => []DiscoverIsDocumented
<1>1. TreeTypeOK => DiscoverIsDocumented
  <2> SUFFICES ASSUME TreeTypeOK, NEW from \in {Root} \cup TeamsDirs, NEW d
               PROVE  d \in Discover(from) <=>
                        /\ d \in registries /\ IsStrictPrefix(from, d)
                        /\ Len(d) - Len(from) <= SearchDepth
                        /\ ~Hidden(from, d)
    BY DEF DiscoverIsDocumented, Discover, Walk
  <2>1. from \in Paths /\ registries \in SUBSET Paths /\ registries \subseteq dirs
    BY TreeThere, TreeAssumption DEF Paths
  <2>2. d \in Discover(from) <=>
          /\ d \in dirs /\ d \in registries
          /\ IsStrictPrefix(from, d) /\ Len(d) - Len(from) <= SearchDepth
          /\ \A t \in registries : ~(IsStrictPrefix(from, t) /\ IsStrictPrefix(t, d))
    BY <2>1, WalkFinds DEF Discover
  <2> QED BY <2>1, <2>2 DEF Hidden
<1> QED BY <1>1, TreeTypeCorrect, PTL

(* Whatever team a name reaches, list teams shows. *)
THEOREM ListedIfReachable == TreeSpec => []ReachableIsListed
<1>1. TreeTypeOK => ReachableIsListed
  <2> SUFFICES ASSUME TreeTypeOK, NEW name \in Names, NEW env \in Environments,
                      NEW d \in Reached(name, env), IsTeamAt(d)
               PROVE  d \in Listed(env)
    BY DEF ReachableIsListed
  <2>0. /\ dirs \subseteq Paths /\ registries \in SUBSET Paths /\ registries \subseteq dirs
        /\ name \in Paths /\ env \subseteq Paths /\ Root \in Paths
        /\ d \in registries /\ d \in dirs
    BY TreeThere, TreeAssumption DEF Environments, Paths, IsTeamAt
  <2>1. CASE env = {}
    <3>1. d \in Walk(Root, {e \in dirs : IsCandidateAt(e)}, registries)
      BY <2>1 DEF Reached, Resolve
    <3>2. /\ IsStrictPrefix(Root, d) /\ Len(d) - Len(Root) <= SearchDepth
          /\ \A t \in registries : ~(IsStrictPrefix(Root, t) /\ IsStrictPrefix(t, d))
      BY <2>0, <3>1, WalkFinds
    <3>3. d \in Walk(Root, registries, registries)
      BY <2>0, <3>2, WalkFinds
    <3> QED BY <3>3 DEF Listed, Discover
  <2>2. CASE env # {}
    <3>1. PICK c \in env : d = c \o name /\ Len(name) = 1
      BY <2>2 DEF Reached
    <3>2. c \in Paths /\ d \in Paths /\ Len(c) \in Nat
      BY <2>0, <3>1, LenProperties DEF Paths
    <3>3. Len(d) = Len(c) + 1 /\ IsPrefix(c, d)
      <4>1. Len(c \o name) = Len(c) + Len(name) /\ IsPrefix(c, c \o name)
        BY <2>0, <3>2, JoinPaths
      <4> QED BY <3>1, <4>1, Zenon
    <3>4. IsStrictPrefix(c, d) /\ Len(d) - Len(c) <= SearchDepth
      BY <3>2, <3>3, TreeAssumption DEF IsStrictPrefix
    <3>5. ASSUME NEW t \in registries, IsStrictPrefix(c, t), IsStrictPrefix(t, d)
          PROVE  FALSE
      <4>1. t \in Paths /\ Len(t) \in Nat /\ IsPrefix(c, t) /\ IsPrefix(t, d)
            /\ c # t /\ t # d
        BY <2>0, <3>5, LenProperties DEF Paths, IsStrictPrefix
      <4>2. Len(c) <= Len(t) /\ Len(t) <= Len(d) /\ Len(c) # Len(t) /\ Len(t) # Len(d)
        BY <3>2, <4>1, PrefixOrder
      <4> QED BY <3>2, <3>3, <4>1, <4>2
    <3>6. d \in Walk(c, registries, registries)
      BY <2>0, <3>2, <3>4, <3>5, WalkFinds
    <3> QED BY <3>1, <3>6 DEF Listed, Discover
  <2> QED BY <2>1, <2>2
<1> QED BY <1>1, TreeTypeCorrect, PTL

(* What a walk for a name would find: candidates not inside a team. *)
LEMMA ResolveFinds ==
  ASSUME TreeTypeOK, NEW name, NEW d
  PROVE  d \in Resolve(name) <=>
           /\ d \in Paths /\ IsCandidateAt(d) /\ IsSuffix(name, Relative(d))
           /\ IsStrictPrefix(Root, d) /\ Len(d) - Len(Root) <= SearchDepth
           /\ ~Hidden(Root, d)
<1>1. /\ dirs \subseteq Paths /\ IsTree(dirs) /\ Root \in Paths
      /\ registries \in SUBSET Paths
  BY TreeThere, TreeAssumption DEF Paths
<1>2. d \in Paths /\ IsCandidateAt(d) => d \in dirs
  BY <1>1, AgentsAndWorktree DEF IsCandidateAt, IsTree
<1>3. d \in Walk(Root, {e \in dirs : IsCandidateAt(e)}, registries) <=>
        /\ d \in dirs /\ d \in {e \in dirs : IsCandidateAt(e)}
        /\ IsStrictPrefix(Root, d) /\ Len(d) - Len(Root) <= SearchDepth
        /\ \A t \in registries : ~(IsStrictPrefix(Root, t) /\ IsStrictPrefix(t, d))
  BY <1>1, WalkFinds
<1> QED BY <1>1, <1>2, <1>3 DEF Resolve, Hidden

(* A name that reached a team reaches it, alone or not, as long as the     *)
(* team is there and no team appears above it.                             *)
THEOREM NotRedirected == TreeSpec => NeverRedirected
<1> DEFINE Finds == \A name \in Names : \A d :
                      d \in Resolve(name) <=>
                        /\ d \in Paths /\ IsCandidateAt(d) /\ IsSuffix(name, Relative(d))
                        /\ IsStrictPrefix(Root, d) /\ Len(d) - Len(Root) <= SearchDepth
                        /\ ~Hidden(Root, d)
<1>1. TreeTypeOK => Finds
  BY ResolveFinds
<1>2. ASSUME Finds, Finds'
      PROVE  \A name \in Names : \A d \in Reached(name, {}) :
               IsCandidateAt(d)' /\ ~Hidden(Root, d)' => d \in Resolve(name)'
  <2> SUFFICES ASSUME NEW name \in Names, NEW d \in Reached(name, {}),
                      IsCandidateAt(d)', ~Hidden(Root, d)'
               PROVE  d \in Resolve(name)'
    OBVIOUS
  <2>1. d \in Resolve(name)
    BY DEF Reached
  <2>2. /\ d \in Paths /\ IsSuffix(name, Relative(d))
        /\ IsStrictPrefix(Root, d) /\ Len(d) - Len(Root) <= SearchDepth
    BY <1>2, <2>1
  <2> QED BY <1>2, <2>2
<1> HIDE DEF Finds
<1> QED BY <1>1, <1>2, TreeTypeCorrect, PTL DEF NeverRedirected
=============================================================================
