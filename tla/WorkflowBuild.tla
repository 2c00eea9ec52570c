---------------------------- MODULE WorkflowBuild ----------------------------
(***************************************************************************)
(* Invocation B of the workflow driver: one converged issue becomes an     *)
(* approved pull request (examples/gabriels_workflow_v5/go.py: build).     *)
(*                                                                         *)
(* The driver is one sequential process; an agent's turn is one step whose *)
(* outcome the driver does not control.  Around it other pull requests are *)
(* merged, other issues' runs hold the machine-wide CI lock, the driver is *)
(* killed and called again, and a human sends a ready PR back to draft.    *)
(* A commit is its number on the branch and the master it contains.        *)
(***************************************************************************)
EXTENDS Integers

CONSTANTS
  MaxMaster,  \* bound: merges to master
  MaxCommits, \* bound: commits on the branch after which devin makes no more
  MaxCalls    \* bound: calls of the driver on this issue

ASSUME BoundsAssumption ==
  MaxMaster \in Nat /\ MaxCommits \in Nat /\ MaxCalls \in Nat

VARIABLES
  master,   \* how many merges origin/master has seen
  pr,       \* the pull request of the handoff branch
  approved, \* its label reviewer-approves
  head,     \* its head commit
  busy,     \* another run holds ci.lock
  pc,       \* where the driver is
  site,     \* which of build's calls of sync_with_master or ci_gate it is in
  code,     \* the exit code, Running before
  tree,     \* HEAD of the clone
  old,      \* HEAD before the current review response
  dirty,    \* the clone holds uncommitted work
  fetched,  \* the clone's origin/master
  ci,       \* CI_RUNS[-1]: the commit it names, the one it ran on, its verdict
  tries,    \* runs of make ci in this gate
  round,    \* the review round
  made,     \* commits made on the branch so far
  calls     \* calls of the driver so far

gitHub == <<master, pr, approved, head>>
clone  == <<tree, old, dirty, fetched>>
gate   == <<ci, tries>>
vars   == <<gitHub, clone, gate, busy, pc, site, code, round, made, calls>>

Rounds   == 3
Running  == -1
NoCi     == [named |-> 0, ran |-> 0, passed |-> FALSE]
Codes    == {Running, 0, 1, 2, 3, 5, 6, 7, 8, 10}
Stopped  == {"idle", "ended"}
PCs      == Stopped \cup
  {"open", "spectacle", "poll", "checkout", "implement", "self_review",
   "is_draft", "sync", "resolve", "resolved", "head", "lock", "make",
   "repair", "repaired", "review", "respond", "responded", "note", "cleanup"}

Goto(l) == pc' = l /\ UNCHANGED code
Exit(c) == pc' = "ended" /\ code' = c

Init ==
  /\ master \in 0 .. MaxMaster
  /\ pr = "none"
  /\ approved = FALSE
  /\ head = [id |-> 0, base |-> 0]
  /\ tree = head
  /\ old = 0
  /\ dirty = FALSE
  /\ fetched = 0
  /\ ci = NoCi
  /\ tries = 0
  /\ busy = FALSE
  /\ pc = "idle"
  /\ site = "first"
  /\ code = Running
  /\ round = 1
  /\ made = 0
  /\ calls = 0

-----------------------------------------------------------------------------
(* The stale team directory goes, a new clone is detached at origin/master *)
(* and everything the process knows starts anew.                           *)
Call ==
  /\ pc \in Stopped
  /\ calls < MaxCalls
  /\ calls' = calls + 1
  /\ fetched' = master
  /\ tree' = [id |-> 0, base |-> master]
  /\ old' = 0
  /\ dirty' = FALSE
  /\ ci' = NoCi
  /\ tries' = 0
  /\ round' = 1
  /\ site' = "first"
  /\ \/ pc' = "open" /\ code' = Running
     \/ Exit(5)
  /\ UNCHANGED <<gitHub, busy, made>>

(* Only a draft on the handoff branch is this issue's PR. *)
FindDraft ==
  /\ pc = "open"
  /\ Goto(IF pr = "draft" THEN "checkout" ELSE "spectacle")
  /\ UNCHANGED <<gitHub, clone, gate, busy, site, round, made, calls>>

(* Spectacle opens the draft with an empty commit, or does not manage to:  *)
(* GitHub refuses a second open PR of one branch.                          *)
OpenDraft ==
  /\ pc = "spectacle"
  /\ \/ /\ pr = "none"
        /\ pr' = "draft"
        /\ made' = made + 1
        /\ head' = [id |-> made + 1, base |-> master]
     \/ UNCHANGED <<pr, made, head>>
  /\ Goto("poll")
  /\ UNCHANGED <<master, approved, clone, gate, busy, site, round, calls>>

(* Six looks at a list that may lag behind. *)
Poll ==
  /\ pc = "poll"
  /\ \/ pr = "draft" /\ Goto("checkout")
     \/ Exit(2)
  /\ UNCHANGED <<gitHub, clone, gate, busy, site, round, made, calls>>

Checkout ==
  /\ pc = "checkout"
  /\ fetched' = master
  /\ \/ tree' = head /\ Goto("implement")
     \/ UNCHANGED tree /\ Exit(5)
  /\ UNCHANGED <<gitHub, old, dirty, gate, busy, site, round, made, calls>>

-----------------------------------------------------------------------------
(* What devin's turn may leave: one more commit or none, merging master or *)
(* not, pushed or not, and a clean tree or not.                            *)
NewCommits ==
  IF made < MaxCommits
  THEN {[id |-> made + 1, base |-> b] : b \in tree.base .. master}
  ELSE {}

DevinWorks ==
  /\ tree' \in {tree} \cup NewCommits
  /\ made' = IF tree' = tree THEN made ELSE made + 1
  /\ head' \in {head, tree'}
  /\ dirty' \in BOOLEAN

CommittedAndPushed == ~dirty /\ tree = head

Implement ==
  /\ pc = "implement"
  /\ DevinWorks
  /\ Goto("self_review")
  /\ UNCHANGED <<master, pr, approved, old, fetched, gate, busy, site, round,
                 calls>>

SelfReview ==
  /\ pc = "self_review"
  /\ DevinWorks
  /\ pr' \in {pr, "ready"}
  /\ Goto("is_draft")
  /\ UNCHANGED <<master, approved, old, fetched, gate, busy, site, round,
                 calls>>

IsDraft ==
  /\ pc = "is_draft"
  /\ \/ pr = "draft" /\ Exit(6)
     \/ pr # "draft" /\ ~CommittedAndPushed /\ Exit(8)
     \/ pr # "draft" /\ CommittedAndPushed /\ Goto("sync")
  /\ UNCHANGED <<gitHub, clone, gate, busy, site, round, made, calls>>

-----------------------------------------------------------------------------
(* Where build goes when sync_with_master finds the branch current, and    *)
(* when it had to bring it up to date.                                     *)
AfterCurrent == Goto(IF site = "first" THEN "head" ELSE "note")

(* Faulty variant: the merge after the review is not gated again. *)
AfterMovedUngated ==
  CASE site = "first" -> Goto("head")
    [] site = "again" -> Goto("note")
    [] OTHER          -> Exit(10)

AfterMoved   == IF site = "last" THEN Exit(10) ELSE Goto("head")

IsCurrent ==
  /\ pc = "sync"
  /\ tree.base >= master
  /\ fetched' = master
  /\ AfterCurrent
  /\ UNCHANGED <<gitHub, tree, old, dirty, gate, busy, site, round, made,
                 calls>>

(* Faulty variant: the merge is made but not pushed. *)
MergeUnpushed ==
  /\ pc = "sync"
  /\ tree.base < master
  /\ fetched' = master
  /\ made' = made + 1
  /\ tree' = [id |-> made + 1, base |-> master]
  /\ AfterMoved
  /\ UNCHANGED <<gitHub, old, dirty, gate, busy, site, round, calls>>

(* A clean merge is the driver's own, and pushed. *)
MergeMaster ==
  /\ pc = "sync"
  /\ tree.base < master
  /\ fetched' = master
  /\ made' = made + 1
  /\ tree' = [id |-> made + 1, base |-> master]
  /\ head' = tree'
  /\ AfterMoved
  /\ UNCHANGED <<master, pr, approved, old, dirty, gate, busy, site, round,
                 calls>>

Conflict ==
  /\ pc = "sync"
  /\ tree.base < master
  /\ fetched' = master
  /\ Goto("resolve")
  /\ UNCHANGED <<gitHub, tree, old, dirty, gate, busy, site, round, made,
                 calls>>

Resolve ==
  /\ pc = "resolve"
  /\ DevinWorks
  /\ Goto("resolved")
  /\ UNCHANGED <<master, pr, approved, old, fetched, gate, busy, site, round,
                 calls>>

Resolved ==
  /\ pc = "resolved"
  /\ \/ ~CommittedAndPushed /\ Exit(8)
     \/ CommittedAndPushed /\ tree.base < fetched /\ Exit(10)
     \/ CommittedAndPushed /\ tree.base >= fetched /\ AfterMoved
  /\ UNCHANGED <<gitHub, clone, gate, busy, site, round, made, calls>>

-----------------------------------------------------------------------------
(* run_make_ci: the head is read, then the lock is waited for. *)
ReadHead ==
  /\ pc = "head"
  /\ ci' = [named |-> tree.id, ran |-> 0, passed |-> FALSE]
  /\ tries' = tries + 1
  /\ Goto("lock")
  /\ UNCHANGED <<gitHub, clone, busy, site, round, made, calls>>

TakeLock ==
  /\ pc = "lock"
  /\ ~busy
  /\ Goto("make")
  /\ UNCHANGED <<gitHub, clone, gate, busy, site, round, made, calls>>

(* What follows a green gate. *)
Green ==
  /\ ci' = [ci EXCEPT !.ran = tree.id, !.passed = TRUE]
  /\ tries' = 0
  /\ \/ site = "first" /\ site' = "rounds" /\ Goto("review") /\ UNCHANGED round
     \/ site = "rounds" /\ Goto("review") /\ round' = round + 1
        /\ UNCHANGED site
     \/ site = "again" /\ site' = "last" /\ Goto("sync") /\ UNCHANGED round

(* Faulty variant: every red run gets a repair. *)
RedAgain ==
  /\ ci' = [ci EXCEPT !.ran = tree.id]
  /\ Goto("repair")
  /\ tries' = 0
  /\ UNCHANGED <<site, round>>

Red ==
  /\ ci' = [ci EXCEPT !.ran = tree.id]
  /\ IF tries = 1 THEN Goto("repair") ELSE Exit(7)
  /\ UNCHANGED <<tries, site, round>>

MakeCi ==
  /\ pc = "make"
  /\ Green \/ Red
  /\ UNCHANGED <<gitHub, clone, busy, made, calls>>

Repair ==
  /\ pc = "repair"
  /\ DevinWorks
  /\ Goto("repaired")
  /\ UNCHANGED <<master, pr, approved, old, fetched, gate, busy, site, round,
                 calls>>

Repaired ==
  /\ pc = "repaired"
  /\ IF CommittedAndPushed THEN Goto("head") ELSE Exit(8)
  /\ UNCHANGED <<gitHub, clone, gate, busy, site, round, made, calls>>

-----------------------------------------------------------------------------
(* The reviewer adds the label or not; the driver reads the label.         *)
Review ==
  /\ pc = "review"
  /\ approved' \in {approved, TRUE}
  /\ \/ approved' /\ site' = "again" /\ Goto("sync")
     \/ ~approved' /\ round < Rounds /\ UNCHANGED site /\ Goto("respond")
     \/ ~approved' /\ round = Rounds /\ UNCHANGED site /\ Exit(3)
  /\ UNCHANGED <<master, pr, head, clone, gate, busy, round, made, calls>>

Respond ==
  /\ pc = "respond"
  /\ old' = tree.id
  /\ DevinWorks
  /\ Goto("responded")
  /\ UNCHANGED <<master, pr, approved, fetched, gate, busy, site, round,
                 calls>>

(* Faulty variant: a response goes back to the reviewer ungated. *)
RespondedUngated ==
  /\ pc = "responded"
  /\ \/ ~CommittedAndPushed /\ Exit(8) /\ UNCHANGED round
     \/ CommittedAndPushed /\ Goto("review") /\ round' = round + 1
  /\ UNCHANGED <<gitHub, clone, gate, busy, site, made, calls>>

(* A new commit is gated again; a pushback goes straight to the reviewer. *)
Responded ==
  /\ pc = "responded"
  /\ \/ ~CommittedAndPushed /\ Exit(8) /\ UNCHANGED round
     \/ CommittedAndPushed /\ tree.id # old /\ Goto("head") /\ UNCHANGED round
     \/ CommittedAndPushed /\ tree.id = old /\ Goto("review")
        /\ round' = round + 1
  /\ UNCHANGED <<gitHub, clone, gate, busy, site, made, calls>>

UserNote ==
  /\ pc = "note"
  /\ Goto("cleanup")
  /\ UNCHANGED <<gitHub, clone, gate, busy, site, round, made, calls>>

Cleanup ==
  /\ pc = "cleanup"
  /\ Exit(0)
  /\ UNCHANGED <<gitHub, clone, gate, busy, site, round, made, calls>>

(* A command or an agent's turn fails, which ends the driver in a          *)
(* traceback, or the driver is killed and the turn with it.                *)
Crash ==
  /\ pc \notin Stopped
  /\ Exit(1)
  /\ UNCHANGED <<gitHub, clone, gate, busy, site, round, made, calls>>

-----------------------------------------------------------------------------
(* Another pull request is merged. *)
MasterMoves ==
  /\ master < MaxMaster
  /\ master' = master + 1
  /\ UNCHANGED <<pr, approved, head, clone, gate, busy, pc, site, code, round,
                 made, calls>>

(* Another issue's run takes ci.lock, or its make ci ends. *)
OtherTakes ==
  /\ ~busy
  /\ pc # "make"
  /\ busy' = TRUE
  /\ UNCHANGED <<gitHub, clone, gate, pc, site, code, round, made, calls>>

OtherReleases ==
  /\ busy
  /\ busy' = FALSE
  /\ UNCHANGED <<gitHub, clone, gate, pc, site, code, round, made, calls>>

(* A human sends the PR of an ended call back to draft to call again. *)
Redraft ==
  /\ pc = "ended"
  /\ pr = "ready"
  /\ pr' = "draft"
  /\ UNCHANGED <<master, approved, head, clone, gate, busy, pc, site, code,
                 round, made, calls>>

Driver ==
  \/ FindDraft \/ OpenDraft \/ Poll \/ Checkout \/ Implement \/ SelfReview
  \/ IsDraft \/ IsCurrent \/ MergeMaster \/ Conflict \/ Resolve \/ Resolved
  \/ ReadHead \/ TakeLock \/ MakeCi \/ Repair \/ Repaired \/ Review \/ Respond
  \/ Responded \/ UserNote \/ Cleanup

Next ==
  \/ Call \/ Driver \/ Crash
  \/ MasterMoves \/ OtherTakes \/ OtherReleases \/ Redraft

Spec == Init /\ [][Next]_vars

(* Every turn and every make ci ends: a turn is killed at --timeout, and   *)
(* the driver waits for nothing else but ci.lock, which its holder's own   *)
(* make ci frees in the end and the kernel grants in turn.  Nobody has to  *)
(* call, to merge or to send a PR back.                                    *)
Fairness == WF_vars(Driver) /\ SF_vars(TakeLock) /\ WF_vars(OtherReleases)

FairSpec == Spec /\ Fairness

-----------------------------------------------------------------------------
Commits == [id : Nat, base : Nat]

TypeOK ==
  /\ master \in 0 .. MaxMaster
  /\ pr \in {"none", "draft", "ready"}
  /\ approved \in BOOLEAN
  /\ head \in Commits
  /\ busy \in BOOLEAN
  /\ pc \in PCs
  /\ site \in {"first", "rounds", "again", "last"}
  /\ code \in Codes
  /\ tree \in Commits
  /\ old \in Nat
  /\ dirty \in BOOLEAN
  /\ fetched \in 0 .. MaxMaster
  /\ ci \in [named : Nat, ran : Nat, passed : BOOLEAN]
  /\ tries \in 0 .. 2
  /\ round \in 1 .. Rounds
  /\ made \in Nat
  /\ calls \in 0 .. MaxCalls

(* The PR's head, the clone and the last green make ci are one commit, and *)
(* it contains the master last fetched.                                    *)
Gated ==
  /\ CommittedAndPushed
  /\ ci.passed
  /\ ci.named = tree.id
  /\ ci.ran = tree.id
  /\ tree.base >= fetched

(* make ci runs on what is pushed and on a branch with the master of the   *)
(* last fetch: local make ci is authoritative because of that (flow.md),   *)
(* however devin ended his turns and whoever was merged meanwhile.         *)
CiIsAuthoritative ==
  pc \in {"lock", "make"} =>
    /\ CommittedAndPushed
    /\ ci.named = tree.id
    /\ tree.base >= fetched

(* In every round the reviewer is given the log of a green make ci on the  *)
(* very commit under review (prompts/code-reviewer-review.md).             *)
ReviewerReadsItsLog == pc = "review" => Gated

(* A call that exits 0 leaves an approved PR whose head make ci passed on, *)
(* with everything pushed, also when master moved during the review.       *)
DoneIsGated == pc = "ended" /\ code = 0 => approved /\ Gated

(* Every call ends with an exit code: one repair per gate, three rounds    *)
(* and one re-gate bound it, and it is not starved at ci.lock.             *)
CallsEnd == pc \notin Stopped ~> pc = "ended"
=============================================================================
