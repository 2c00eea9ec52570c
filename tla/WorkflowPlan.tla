----------------------------- MODULE WorkflowPlan -----------------------------
(***************************************************************************)
(* Invocation A of the workflow driver: the tree of issues below Root is   *)
(* triaged, split and debated leaf by leaf, breadth first                  *)
(* (examples/gabriels_workflow_v5/go.py: plan).                            *)
(*                                                                         *)
(* The labels of the issues are all that outlives a call.  An agent's turn *)
(* sets the labels its prompt allows, or none; every turn may create its   *)
(* agent, as a fork of the primer or afresh.  The driver is killed at any  *)
(* point and called again, and a human resolves blocked issues.            *)
(***************************************************************************)
EXTENDS Integers, Sequences

CONSTANTS
  Issues,     \* issue numbers
  Root,       \* the issue of the call
  ChildLists, \* what the CHILDREN line of a split may name
  PlanCap,    \* PLAN_CAP: issues taken in one call
  MaxCalls    \* bound: calls of the driver

ASSUME PlanAssumption ==
  /\ Root \in Issues
  /\ ChildLists \subseteq Seq(Issues)
  /\ PlanCap \in Nat
  /\ MaxCalls \in Nat

VARIABLES
  labels,    \* of every issue, CLOSED among them
  children,  \* the last CHILDREN line of every issue, <<>> when there is none
  briefed,   \* the issues with a decision brief
  pc,        \* where the driver is
  code,      \* its exit code, Running before
  queue,     \* issues to take
  taken,     \* issues taken
  cur,       \* the issue taken last
  splitAny,  \* some issue was split
  forks,     \* FORKS: the names fork_primer has handed out
  primed,    \* PRIMED, FORK_WORKS
  forkWorks,
  team,      \* how each agent of the team came to be
  debated,   \* the issues debated in this call
  agreed,    \* the issues that had converged when it began
  calls      \* calls of the driver so far

gitHub == <<labels, children, briefed>>
walk   == <<queue, taken, cur, splitAny>>
agents == <<forks, primed, forkWorks, team>>
log    == <<debated, agreed, calls>>
vars   == <<gitHub, pc, code, walk, agents, log>>

Roles     == {"owen", "spectacle", "doku"}
Names     == Roles \X Issues
Origins   == {"none", "fork", "fresh", "default"}
Verdicts  == {"owens-is-happy", "owens-rejects", "owens-is-blocked",
              "owens-split"}
Labels    == Verdicts \cup
  {"spectacle-is-happy", "spectacle-is-blocked", "CLOSED"}
Running   == -1
Stopped   == {"idle", "ended"}
PCs       == Stopped \cup
  {"next", "triage", "route", "reject_review", "proposal", "stance",
   "critique", "rebuttal", "final", "brief", "discard", "summary", "cleanup"}

Blocked(L)   == L \cap {"owens-is-blocked", "spectacle-is-blocked"} # {}
Converged(L) == {"owens-is-happy", "spectacle-is-happy"} \subseteq L

Goto(l) == pc' = l /\ UNCHANGED code
Exit(c) == pc' = "ended" /\ code' = c

Nobody == [n \in Names |-> "none"]

Init ==
  /\ labels = [i \in Issues |-> {}]
  /\ children = [i \in Issues |-> <<>>]
  /\ briefed = {}
  /\ pc = "idle"
  /\ code = Running
  /\ queue = <<>>
  /\ taken = 0
  /\ cur = Root
  /\ splitAny = FALSE
  /\ forks = {}
  /\ primed = FALSE
  /\ forkWorks = TRUE
  /\ team = Nobody
  /\ debated = {}
  /\ agreed = {}
  /\ calls = 0

-----------------------------------------------------------------------------
(* The labels route the call: a blocked issue is refused, a converged one  *)
(* is built instead; otherwise the team and the clone start afresh.        *)
Call ==
  /\ pc \in Stopped
  /\ calls < MaxCalls
  /\ ~Converged(labels[Root])
  /\ calls' = calls + 1
  /\ queue' = <<Root>>
  /\ taken' = 0
  /\ cur' = Root
  /\ splitAny' = FALSE
  /\ forks' = {}
  /\ primed' = FALSE
  /\ forkWorks' = TRUE
  /\ team' = Nobody
  /\ debated' = {}
  /\ agreed' = {i \in Issues : Converged(labels[i])}
  /\ \/ Blocked(labels[Root]) /\ Exit(1)
     \/ ~Blocked(labels[Root]) /\ pc' = "next" /\ code' = Running
     \/ ~Blocked(labels[Root]) /\ Exit(5)
  /\ UNCHANGED gitHub

(* fork_primer and the talk that follows: a name that was handed out is    *)
(* talked to without flags, and so gets the default backend if its agent   *)
(* is not there; any other name is forked from the primer when it can be,  *)
(* or starts afresh on its own flags.  Only doku runs on another backend.  *)
Forkable == {"owen", "spectacle"}

Turn(role, i) ==
  LET n == <<role, i>>
      Born(how) ==
        team' = [team EXCEPT ![n] = IF @ = "none" THEN how ELSE @]
  IN  \/ /\ n \in forks
         /\ Born("default")
         /\ UNCHANGED <<forks, primed, forkWorks>>
      \/ /\ n \notin forks
         /\ forks' = forks \cup {n}
         /\ \/ /\ forkWorks /\ role \in Forkable
               /\ primed' = TRUE
               /\ \/ Born("fork") /\ UNCHANGED forkWorks
                  \/ Born("fresh") /\ forkWorks' = FALSE
            \/ /\ ~(forkWorks /\ role \in Forkable)
               /\ Born("fresh")
               /\ UNCHANGED <<primed, forkWorks>>

(* The current issue loses and gains labels. *)
Relabel(minus, plus) ==
  labels' = [labels EXCEPT ![cur] = (@ \ minus) \cup plus]

Adds(choices) ==
  \E l \in choices \cup {"no label"} : Relabel({}, {l} \ {"no label"})

-----------------------------------------------------------------------------
(* The queue: what has converged or is closed needs no turn.  (Faulty      *)
(* variants: what was split is not counted, and owen's agreement is taken  *)
(* for both's.)                                                            *)
TakeUncounted ==
  /\ pc = "next"
  /\ queue # <<>>
  /\ cur' = Head(queue)
  /\ queue' = Tail(queue)
  /\ LET L == labels[Head(queue)]
     IN  /\ taken' = IF "owens-split" \in L THEN taken ELSE taken + 1
         /\ IF taken + 1 > PlanCap THEN Exit(9) ELSE
            Goto(IF Converged(L) \/ "CLOSED" \in L THEN "next"
                 ELSE IF L \cap Verdicts = {} THEN "triage" ELSE "route")
  /\ UNCHANGED <<gitHub, splitAny, agents, log>>

TakeHalfAgreed ==
  /\ pc = "next"
  /\ queue # <<>>
  /\ cur' = Head(queue)
  /\ queue' = Tail(queue)
  /\ taken' = taken + 1
  /\ LET L == labels[Head(queue)]
     IN  IF taken + 1 > PlanCap THEN Exit(9) ELSE
         Goto(IF L \cap {"owens-is-happy", "CLOSED"} # {} THEN "next"
              ELSE IF L \cap Verdicts = {} THEN "triage" ELSE "route")
  /\ UNCHANGED <<gitHub, splitAny, agents, log>>

Take ==
  /\ pc = "next"
  /\ queue # <<>>
  /\ cur' = Head(queue)
  /\ queue' = Tail(queue)
  /\ taken' = taken + 1
  /\ LET L == labels[Head(queue)]
     IN  \/ taken + 1 > PlanCap /\ Exit(9)
         \/ /\ taken + 1 <= PlanCap
            /\ Goto(IF Converged(L) \/ "CLOSED" \in L THEN "next"
                    ELSE IF L \cap Verdicts = {} THEN "triage" ELSE "route")
  /\ UNCHANGED <<gitHub, splitAny, agents, log>>

QueueEmpty ==
  /\ pc = "next"
  /\ queue = <<>>
  /\ Goto(IF splitAny THEN "summary" ELSE "cleanup")
  /\ UNCHANGED <<gitHub, walk, agents, log>>

Triage ==
  /\ pc = "triage"
  /\ Turn("owen", cur)
  /\ \/ Adds(Verdicts \ {"owens-split"}) /\ UNCHANGED children
     \/ /\ Relabel({}, {"owens-split"})
        /\ \E c \in ChildLists : children' = [children EXCEPT ![cur] = c]
  /\ Goto("route")
  /\ UNCHANGED <<briefed, walk, log>>

Split ==
  /\ pc = "route"
  /\ "owens-split" \in labels[cur]
  /\ IF children[cur] = <<>> THEN Exit(9) /\ UNCHANGED <<queue, splitAny>>
     ELSE /\ queue' = queue \o children[cur]
          /\ splitAny' = TRUE
          /\ Goto("discard")
  /\ UNCHANGED <<gitHub, taken, cur, agents, log>>

-----------------------------------------------------------------------------
Debate ==
  /\ pc = "route"
  /\ "owens-split" \notin labels[cur]
  /\ debated' = debated \cup {cur}
  /\ Goto(IF "owens-rejects" \in labels[cur] THEN "reject_review"
          ELSE "stance")
  /\ UNCHANGED <<gitHub, walk, agents, agreed, calls>>

(* Spectacle concurs and closes the issue, or vetoes; either may go amiss. *)
RejectReview ==
  /\ pc = "reject_review"
  /\ Turn("spectacle", cur)
  /\ \/ Relabel({}, {"CLOSED"})
     \/ Relabel({"owens-rejects"}, {})
     \/ Relabel({}, {})
  /\ Goto(IF "CLOSED" \in labels'[cur] THEN "discard" ELSE "proposal")
  /\ UNCHANGED <<children, briefed, walk, log>>

Proposal ==
  /\ pc = "proposal"
  /\ Turn("owen", cur)
  /\ Adds({"owens-is-happy", "owens-is-blocked"})
  /\ Goto("stance")
  /\ UNCHANGED <<children, briefed, walk, log>>

Stance ==
  /\ pc = "stance"
  /\ Goto(IF Blocked(labels[cur]) THEN "discard" ELSE "critique")
  /\ UNCHANGED <<gitHub, walk, agents, log>>

(* Faulty variant: only a debate that was disputed is briefed. *)
CritiqueUnbriefed ==
  /\ pc = "critique"
  /\ Turn("spectacle", cur)
  /\ Adds({"spectacle-is-happy"})
  /\ Goto(IF Blocked(labels'[cur]) \/ Converged(labels'[cur]) THEN "discard"
          ELSE "rebuttal")
  /\ UNCHANGED <<children, briefed, walk, log>>

Critique ==
  /\ pc = "critique"
  /\ Turn("spectacle", cur)
  /\ Adds({"spectacle-is-happy"})
  /\ Goto(IF Blocked(labels'[cur]) THEN "discard"
          ELSE IF Converged(labels'[cur]) THEN "brief" ELSE "rebuttal")
  /\ UNCHANGED <<children, briefed, walk, log>>

Rebuttal ==
  /\ pc = "rebuttal"
  /\ Turn("owen", cur)
  /\ Adds({"owens-is-happy", "owens-is-blocked"})
  /\ Goto(IF Blocked(labels'[cur]) THEN "discard" ELSE "final")
  /\ UNCHANGED <<children, briefed, walk, log>>

Final ==
  /\ pc = "final"
  /\ Turn("spectacle", cur)
  /\ Adds({"spectacle-is-happy", "spectacle-is-blocked"})
  /\ Goto(IF Converged(labels'[cur]) /\ ~Blocked(labels'[cur])
          THEN "brief" ELSE "discard")
  /\ UNCHANGED <<children, briefed, walk, log>>

Brief ==
  /\ pc = "brief"
  /\ Turn("doku", cur)
  /\ briefed' = briefed \cup {cur}
  /\ Goto("discard")
  /\ UNCHANGED <<labels, children, walk, log>>

-----------------------------------------------------------------------------
(* The issue's forks are deleted by name; a name without an agent would    *)
(* end the driver.  (Faulty variant: doku is kept.)                        *)
Mine == forks \cap (Roles \X {cur})

Fire(names) == team' = [n \in Names |-> IF n \in names THEN "none" ELSE team[n]]

DiscardSpares ==
  /\ pc = "discard"
  /\ Goto("next")
  /\ Fire(Mine \ {<<"doku", cur>>})
  /\ forks' = forks \ Mine
  /\ UNCHANGED <<gitHub, walk, primed, forkWorks, log>>

Discard ==
  /\ pc = "discard"
  /\ IF \A n \in Mine : team[n] # "none" THEN Goto("next") ELSE Exit(1)
  /\ Fire(Mine)
  /\ forks' = forks \ Mine
  /\ UNCHANGED <<gitHub, walk, primed, forkWorks, log>>

Summary ==
  /\ pc = "summary"
  /\ Turn("doku", Root)
  /\ Goto("cleanup")
  /\ UNCHANGED <<gitHub, walk, log>>

Cleanup ==
  /\ pc = "cleanup"
  /\ Exit(0)
  /\ team' = Nobody
  /\ UNCHANGED <<gitHub, walk, forks, primed, forkWorks, log>>

(* A command or a turn fails, or the driver is killed. *)
Crash ==
  /\ pc \notin Stopped
  /\ Exit(1)
  /\ UNCHANGED <<gitHub, walk, agents, log>>

(* Between calls a human supplies the evidence a blocked issue lacks. *)
Unblock(i) ==
  /\ pc = "ended"
  /\ Blocked(labels[i])
  /\ labels' = [labels EXCEPT
       ![i] = @ \ {"owens-is-blocked", "spectacle-is-blocked"}]
  /\ UNCHANGED <<children, briefed, pc, code, walk, agents, log>>

Driver ==
  \/ Take \/ QueueEmpty \/ Triage \/ Split \/ Debate \/ RejectReview
  \/ Proposal \/ Stance \/ Critique \/ Rebuttal \/ Final \/ Brief \/ Discard
  \/ Summary \/ Cleanup

Next == Call \/ Driver \/ Crash \/ \E i \in Issues : Unblock(i)

Spec == Init /\ [][Next]_vars

(* Every turn ends, at the latest at its --timeout. *)
FairSpec == Spec /\ WF_vars(Driver)

-----------------------------------------------------------------------------
TypeOK ==
  /\ labels \in [Issues -> SUBSET Labels]
  /\ children \in [Issues -> Seq(Issues)]
  /\ briefed \subseteq Issues
  /\ pc \in PCs
  /\ code \in {Running, 0, 1, 5, 9}
  /\ queue \in Seq(Issues)
  /\ taken \in 0 .. PlanCap + 1
  /\ cur \in Issues
  /\ splitAny \in BOOLEAN
  /\ forks \subseteq Names
  /\ primed \in BOOLEAN
  /\ forkWorks \in BOOLEAN
  /\ team \in [Names -> Origins]
  /\ debated \subseteq Issues
  /\ agreed \subseteq Issues
  /\ calls \in 0 .. MaxCalls

(* FORKS and the team agree while the driver runs: the only agents are     *)
(* forks of the issue at hand, none is left when the next one is taken,    *)
(* and none was ever created by a talk without flags, even when an issue   *)
(* is queued twice or the tree summary follows on the root.                *)
NothingBleeds ==
  pc \notin Stopped =>
    /\ forks = {n \in Names : team[n] # "none"}
    /\ \A n \in forks :
         /\ pc # "next"
         /\ n[2] = IF pc = "cleanup" THEN Root ELSE cur
         /\ team[n] # "default"

(* The issues of the tree: what splits reach from Root. *)
Listed(S) == UNION {{children[i][k] : k \in DOMAIN children[i]} :
                      i \in {j \in S : "owens-split" \in labels[j]}}

Closed(S) == Listed(S) \subseteq S

Settled(i) ==
  \/ Converged(labels[i])
  \/ labels[i] \cap {"CLOSED", "owens-split"} # {}
  \/ i \in debated

(* A planning call that exits 0 has been at every issue of the tree: each  *)
(* one converged, was closed or split, or was debated in this very call,   *)
(* whatever crashes and earlier calls left and however splits overlap.     *)
TreeIsPlanned ==
  pc = "ended" /\ code = 0 =>
    \E S \in SUBSET Issues :
       /\ Root \in S
       /\ Closed(S)
       /\ \A i \in S : Settled(i)

(* When a call is through with the tree, the brief a human picks leaves by *)
(* is there for every issue that came to agreement in it, unless the final *)
(* decision blocked it.                                                    *)
AgreedIsBriefed ==
  pc = "cleanup" =>
    \A i \in debated \ agreed :
      Converged(labels[i]) /\ ~Blocked(labels[i]) => i \in briefed

(* Every call ends: the cap bounds the walk although issues may list each  *)
(* other as children.                                                      *)
PlanEnds == pc \notin Stopped ~> pc = "ended"
=============================================================================
