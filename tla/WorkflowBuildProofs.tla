------------------------- MODULE WorkflowBuildProofs -------------------------
(***************************************************************************)
(* What holds of build() for every number of merges, commits and calls.    *)
(*                                                                         *)
(* Gated speaks of one point of the program, so the invariant says at each *)
(* point which part of it has been established and which part an agent's   *)
(* turn or another pull request may have taken away since.                 *)
(***************************************************************************)
EXTENDS WorkflowBuild, TLAPS

Before     == {"open", "spectacle", "poll", "checkout", "implement",
               "self_review", "is_draft"}
Syncing    == {"sync", "resolve", "resolved"}
Testing    == {"head", "lock", "make", "repair", "repaired"}
Responding == {"respond", "responded"}
Finishing  == {"note", "cleanup"}

(* Which call of sync_with_master or ci_gate leads where. *)
SiteInv ==
  /\ pc \in Before => site = "first"
  /\ pc \in Syncing => site \in {"first", "again", "last"}
  /\ pc \in Testing => site \in {"first", "rounds", "again"}
  /\ pc \in {"review"} \cup Responding => site = "rounds"
  /\ pc \in Finishing => site \in {"again", "last"}

(* One repair per gate, and three rounds. *)
BoundInv ==
  /\ pc = "head" => tries \in {0, 1}
  /\ pc \in {"lock", "make"} => tries \in {1, 2}
  /\ pc \in {"repair", "repaired"} => tries = 1
  /\ pc \notin Testing \cup Stopped => tries = 0
  /\ pc \in Testing /\ site = "rounds" => round < Rounds
  /\ pc \in Responding => round < Rounds

(* Where the clone is what the PR shows, and where it has the master that  *)
(* was fetched last.                                                       *)
CloneInv ==
  /\ pc \in {"sync", "head", "lock", "make", "review", "respond"} \cup Finishing
       => CommittedAndPushed
  /\ pc \in Testing \cup {"review"} \cup Responding \cup Finishing
       => tree.base >= fetched

LastGreen(id) == ci.passed /\ ci.named = id /\ ci.ran = id

(* What the last make ci was about. *)
CiInv ==
  /\ pc \in {"lock", "make"} => ci.named = tree.id
  /\ pc \in {"review", "respond"} \cup Finishing => LastGreen(tree.id)
  /\ pc = "responded" => LastGreen(old)
  /\ pc = "sync" /\ site # "first" => LastGreen(tree.id)

ApprovedInv ==
  /\ pc \notin Stopped /\ site \in {"again", "last"} => approved
  /\ pc = "ended" /\ code = 0 => approved /\ Gated

IInv == TypeOK /\ SiteInv /\ BoundInv /\ CloneInv /\ CiInv /\ ApprovedInv
-----------------------------------------------------------------------------
USE DEF vars, gitHub, clone, gate, Goto, Exit, Rounds, Running, Stopped

(* Before the first call nothing is built, pushed or approved. *)
LEMMA InitEstablishes == Init => IInv
<1> SUFFICES ASSUME Init PROVE IInv
  OBVIOUS
<1>1. /\ approved \in BOOLEAN /\ dirty \in BOOLEAN /\ busy \in BOOLEAN
      /\ ci \in [named : Nat, ran : Nat, passed : BOOLEAN]
  BY Zenon DEF Init, NoCi
<1> QED
  BY <1>1, BoundsAssumption
     DEF Init, IInv, TypeOK, PCs, Codes, Commits, SiteInv, BoundInv, CloneInv,
         CiInv, ApprovedInv, Before, Syncing, Testing, Responding, Finishing

(* Every step of the driver, of its agents, of other pull requests and of   *)
(* the machine keeps the invariant.                                        *)
LEMMA NextPreserves == IInv /\ [Next]_vars => IInv'
<1> SUFFICES ASSUME IInv, [Next]_vars PROVE IInv'
  OBVIOUS
<1> USE BoundsAssumption
       DEF IInv, TypeOK, PCs, Codes, Commits, SiteInv, BoundInv, CloneInv,
           CiInv, ApprovedInv, Before, Syncing, Testing, Responding,
           Finishing, CommittedAndPushed, LastGreen, Gated
<1>1. CASE Call
  <2>1. dirty' \in BOOLEAN /\ ci' \in [named : Nat, ran : Nat, passed : BOOLEAN]
    BY <1>1, Zenon DEF Call, NoCi
  <2>2. CASE pc' = "open" /\ code' = Running
    BY <1>1, <2>1, <2>2 DEF Call
  <2>3. CASE Exit(5)
    BY <1>1, <2>1, <2>3 DEF Call
  <2> QED
    BY <1>1, <2>2, <2>3 DEF Call
<1>2. CASE FindDraft
  BY <1>2 DEF FindDraft
<1>3. CASE OpenDraft
  BY <1>3 DEF OpenDraft
<1>4. CASE Poll
  BY <1>4 DEF Poll
<1>5. CASE Checkout
  BY <1>5 DEF Checkout
<1>6. CASE Implement
  BY <1>6 DEF Implement, DevinWorks, NewCommits
<1>7. CASE SelfReview
  BY <1>7 DEF SelfReview, DevinWorks, NewCommits
<1>8. CASE IsDraft
  BY <1>8 DEF IsDraft
<1>9. CASE IsCurrent
  BY <1>9 DEF IsCurrent, AfterCurrent
<1>10. CASE MergeMaster
  BY <1>10 DEF MergeMaster, AfterMoved
<1>11. CASE Conflict
  BY <1>11 DEF Conflict
<1>12. CASE Resolve
  BY <1>12 DEF Resolve, DevinWorks, NewCommits
<1>13. CASE Resolved
  BY <1>13 DEF Resolved, AfterMoved
<1>14. CASE ReadHead
  BY <1>14 DEF ReadHead
<1>15. CASE TakeLock
  BY <1>15 DEF TakeLock
<1>16. CASE MakeCi
  <2>1. CASE Green
    <3>1. ci' \in [named : Nat, ran : Nat, passed : BOOLEAN]
          /\ ci'.named = tree.id /\ ci'.ran = tree.id /\ ci'.passed
      BY <1>16, <2>1 DEF MakeCi, Green
    <3>2. TypeOK'
      BY <1>16, <2>1, <3>1 DEF MakeCi, Green
    <3>3. SiteInv' /\ BoundInv' /\ CloneInv'
      BY <1>16, <2>1 DEF MakeCi, Green
    <3>4. CiInv' /\ ApprovedInv'
      BY <1>16, <2>1, <3>1 DEF MakeCi, Green
    <3> QED
      BY <3>2, <3>3, <3>4
  <2>2. CASE Red
    <3>1. ci' \in [named : Nat, ran : Nat, passed : BOOLEAN]
      BY <2>2 DEF Red
    <3> QED
      BY <1>16, <2>2, <3>1 DEF MakeCi, Red
  <2> QED
    BY <1>16, <2>1, <2>2 DEF MakeCi
<1>17. CASE Repair
  BY <1>17 DEF Repair, DevinWorks, NewCommits
<1>18. CASE Repaired
  BY <1>18 DEF Repaired
<1>19. CASE Review
  <2>1. approved' \in BOOLEAN
    BY <1>19, Zenon DEF Review
  <2>2. CASE approved'
    BY <1>19, <2>1, <2>2 DEF Review
  <2>3. CASE ~approved'
    BY <1>19, <2>1, <2>3 DEF Review
  <2> QED
    BY <2>2, <2>3
<1>20. CASE Respond
  BY <1>20 DEF Respond, DevinWorks, NewCommits
<1>21. CASE Responded
  BY <1>21 DEF Responded
<1>22. CASE UserNote
  BY <1>22 DEF UserNote
<1>23. CASE Cleanup
  BY <1>23 DEF Cleanup
<1>24. CASE Crash
  BY <1>24 DEF Crash
<1>25. CASE MasterMoves
  BY <1>25 DEF MasterMoves
<1>26. CASE OtherTakes
  BY <1>26 DEF OtherTakes
<1>27. CASE OtherReleases
  <2>1. busy' \in BOOLEAN
    BY <1>27, Zenon DEF OtherReleases
  <2> QED
    BY <1>27, <2>1 DEF OtherReleases
<1>28. CASE Redraft
  BY <1>28 DEF Redraft
<1>29. CASE UNCHANGED vars
  BY <1>29
<1> QED
  BY <1>1, <1>2, <1>3, <1>4, <1>5, <1>6, <1>7, <1>8, <1>9, <1>10, <1>11,
     <1>12, <1>13, <1>14, <1>15, <1>16, <1>17, <1>18, <1>19, <1>20,
     <1>21, <1>22, <1>23, <1>24, <1>25, <1>26, <1>27, <1>28, <1>29
  DEF Next, Driver
-----------------------------------------------------------------------------
(* At every point of build(): which part of the gate holds by now and has  *)
(* not been taken away since.                                              *)
THEOREM Invariant == Spec => []IInv
<1>1. Init => IInv
  BY InitEstablishes
<1>2. IInv /\ [Next]_vars => IInv'
  BY NextPreserves
<1> QED
  BY <1>1, <1>2, PTL DEF Spec

(* Every reachable state of a build is well typed, so at most two runs of  *)
(* make ci per gate and three review rounds (go.py: ci_gate,               *)
(* review_rounds).                                                         *)
THEOREM TypeCorrect == Spec => []TypeOK
<1>1. IInv => TypeOK
  BY DEF IInv
<1> QED
  BY <1>1, Invariant, PTL

(* make ci only ever runs on the PR's head, with the master of the last    *)
(* fetch in it (go.py: sync_with_master, run_make_ci).                     *)
THEOREM CiAuthoritative == Spec => []CiIsAuthoritative
<1>1. IInv => CiIsAuthoritative
  BY DEF IInv, CloneInv, CiInv, CiIsAuthoritative, Testing, Finishing,
         Responding
<1> QED
  BY <1>1, Invariant, PTL

(* The reviewer's log is a green one, of the very commit under review      *)
(* (go.py: review_rounds).                                                 *)
THEOREM ReviewerLog == Spec => []ReviewerReadsItsLog
<1>1. IInv => ReviewerReadsItsLog
  BY DEF IInv, CloneInv, CiInv, ReviewerReadsItsLog, Gated, LastGreen,
         Testing, Finishing, Responding
<1> QED
  BY <1>1, Invariant, PTL

(* A call that exits 0 leaves an approved, gated PR (go.py: build).        *)
THEOREM DoneGated == Spec => []DoneIsGated
<1>1. IInv => DoneIsGated
  BY DEF IInv, ApprovedInv, DoneIsGated
<1> QED
  BY <1>1, Invariant, PTL
=============================================================================
