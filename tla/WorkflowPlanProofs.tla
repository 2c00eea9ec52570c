-------------------------- MODULE WorkflowPlanProofs --------------------------
(***************************************************************************)
(* What holds of plan() for every set of issues, however they list each    *)
(* other, and for every cap.                                               *)
(*                                                                         *)
(* TreeIsPlanned speaks of the tree at the end of a call.  While the walk  *)
(* is on, a part of the tree is settled and closed but for what is still   *)
(* pending; taking an issue moves it out of that part, finishing it moves  *)
(* it back in.                                                             *)
(***************************************************************************)
EXTENDS WorkflowPlan, SequenceTheorems, TLAPS

Debating == {"reject_review", "proposal", "stance", "critique", "rebuttal",
             "final", "brief"}
Working  == {"triage", "route", "discard"} \cup Debating

Elems(q) == {q[k] : k \in DOMAIN q}
AtHand   == IF pc \in Working THEN {cur} ELSE {}

(* S is settled, and with what is pending it is closed and holds the root. *)
Settles(S, rest) ==
  /\ Root \in S \cup rest
  /\ Listed(S) \subseteq S \cup rest
  /\ \A i \in S : Settled(i)

WalkInv ==
  /\ pc \notin Stopped => taken <= PlanCap
  /\ pc \in {"summary", "cleanup"} => queue = <<>>

AgentInv == NothingBleeds /\ (pc = "summary" => forks = {})

LabelInv ==
  /\ \A i \in Issues : "owens-split" \in labels[i] =>
       labels[i] \cap {"owens-is-happy", "CLOSED"} = {}
  /\ pc = "triage" => labels[cur] \cap (Verdicts \cup {"CLOSED"}) = {}
  /\ pc = "route" /\ labels[cur] \cap {"owens-rejects", "owens-split"} # {}
       => ~Converged(labels[cur])
  /\ pc = "reject_review" => ~Converged(labels[cur])
  /\ pc \in Debating => cur \in debated /\ "owens-split" \notin labels[cur]
  /\ pc = "discard" => Settled(cur) /\ Listed({cur}) \subseteq Elems(queue)

BriefInv ==
  pc \notin Stopped =>
    \A i \in debated :
      Converged(labels[i]) /\ ~Blocked(labels[i]) =>
        i \in briefed \/ (i = cur /\ pc \in Working \ {"discard"})

TreeInv ==
  /\ pc \notin Stopped =>
       \E S \in SUBSET (Issues \ AtHand) : Settles(S, Elems(queue) \cup AtHand)
  /\ TreeIsPlanned

IInv == TypeOK /\ WalkInv /\ AgentInv /\ LabelInv /\ BriefInv /\ TreeInv
-----------------------------------------------------------------------------
USE DEF vars, gitHub, walk, agents, log, Goto, Exit, Running, Stopped

(* What is in a queue: its head and what Take leaves of it. *)
LEMMA ElemsOfTail ==
  ASSUME NEW q \in Seq(Issues), q # <<>>
  PROVE  Elems(q) = {Head(q)} \cup Elems(Tail(q))
<1>1. /\ DOMAIN q = 1 .. Len(q) /\ Len(q) \in Nat \ {0}
      /\ DOMAIN Tail(q) = 1 .. Len(q) - 1
      /\ Head(q) = q[1]
      /\ \A k \in 1 .. Len(q) - 1 : Tail(q)[k] = q[k + 1]
  BY HeadTailProperties
<1>2. ASSUME NEW x \in Elems(q) PROVE x \in {Head(q)} \cup Elems(Tail(q))
  <2>1. PICK k \in 1 .. Len(q) : x = q[k]
    BY <1>1, <1>2 DEF Elems
  <2>2. CASE k = 1
    BY <1>1, <2>1, <2>2
  <2>3. CASE k # 1
    <3>1. k - 1 \in 1 .. Len(q) - 1 /\ (k - 1) + 1 = k
      BY <1>1, <2>3
    <3> QED
      BY <1>1, <2>1, <3>1 DEF Elems
  <2> QED
    BY <2>2, <2>3
<1>3. ASSUME NEW x \in {Head(q)} \cup Elems(Tail(q)) PROVE x \in Elems(q)
  <2>1. \A k \in 1 .. Len(q) - 1 : k + 1 \in 1 .. Len(q)
    BY <1>1
  <2> QED
    BY <1>1, <1>3, <2>1 DEF Elems
<1> QED
  BY <1>2, <1>3

(* A split appends the children to what is in the queue. *)
LEMMA ElemsOfConcat ==
  ASSUME NEW q \in Seq(Issues), NEW c \in Seq(Issues)
  PROVE  Elems(q \o c) = Elems(q) \cup Elems(c)
<1>1. /\ DOMAIN q = 1 .. Len(q) /\ Len(q) \in Nat
      /\ DOMAIN c = 1 .. Len(c) /\ Len(c) \in Nat
      /\ DOMAIN (q \o c) = 1 .. Len(q) + Len(c)
      /\ \A k \in 1 .. Len(q) + Len(c) :
           (q \o c)[k] = IF k <= Len(q) THEN q[k] ELSE c[k - Len(q)]
  BY ConcatProperties
<1>2. ASSUME NEW x \in Elems(q \o c) PROVE x \in Elems(q) \cup Elems(c)
  BY <1>1, <1>2 DEF Elems
<1>3. ASSUME NEW k \in 1 .. Len(q) PROVE q[k] \in Elems(q \o c)
  BY <1>1, <1>3 DEF Elems
<1>4. ASSUME NEW k \in 1 .. Len(c) PROVE c[k] \in Elems(q \o c)
  <2>1. Len(q) + k \in 1 .. Len(q) + Len(c) /\ (Len(q) + k) - Len(q) = k
        /\ ~(Len(q) + k <= Len(q))
    BY <1>1, <1>4
  <2> QED
    BY <1>1, <2>1 DEF Elems
<1> QED
  BY <1>1, <1>2, <1>3, <1>4 DEF Elems

(* A turn leaves FORKS a set of names, and each agent with one origin. *)
LEMMA TurnTypes ==
  ASSUME TypeOK, NEW role \in Roles, NEW i \in Issues, Turn(role, i)
  PROVE  /\ forks' \subseteq Names
         /\ primed' \in BOOLEAN
         /\ forkWorks' \in BOOLEAN
         /\ team' \in [Names -> Origins]
<1>1. <<role, i>> \in Names
  BY DEF Names
<1>2. /\ forks \subseteq Names
      /\ primed \in BOOLEAN
      /\ forkWorks \in BOOLEAN
      /\ team \in [Names -> Origins]
  BY DEF TypeOK
<1>3. primed' \in BOOLEAN /\ forkWorks' \in BOOLEAN
  BY <1>2, Zenon DEF Turn
<1>4. forks' \subseteq Names
  BY <1>1, <1>2 DEF Turn
<1>5. team' \in [Names -> Origins]
  BY <1>1, <1>2 DEF Turn, Origins
<1> QED
  BY <1>3, <1>4, <1>5

(* A turn for the issue at hand keeps FORKS and the team in step. *)
LEMMA TurnForks ==
  ASSUME TypeOK, NEW role \in Roles, NEW i \in Issues, Turn(role, i),
         forks = {n \in Names : team[n] # "none"},
         \A n \in forks : n[2] = i /\ team[n] # "default"
  PROVE  /\ forks' = {n \in Names : team'[n] # "none"}
         /\ \A n \in forks' : n[2] = i /\ team'[n] # "default"
<1> DEFINE m == <<role, i>>
<1>1. m \in Names /\ m[2] = i
  BY DEF Names
<1>2. forks \subseteq Names /\ team \in [Names -> Origins]
  BY DEF TypeOK
<1>3. CASE /\ m \in forks
           /\ forks' = forks
           /\ team' = [team EXCEPT ![m] = IF @ = "none" THEN "default" ELSE @]
  BY <1>1, <1>2, <1>3
<1>4. CASE /\ m \notin forks
           /\ forks' = forks \cup {m}
           /\ \E how \in {"fork", "fresh"} :
                team' = [team EXCEPT ![m] = IF @ = "none" THEN how ELSE @]
  BY <1>1, <1>2, <1>4
<1> QED
  BY <1>3, <1>4 DEF Turn

(* Every step keeps the types, the cap, and an empty queue behind it. *)
LEMMA TypesAndWalk ==
  ASSUME TypeOK, WalkInv, [Next]_vars
  PROVE  TypeOK' /\ WalkInv'
<1> USE PlanAssumption DEF WalkInv
<1>0. /\ "owen" \in Roles /\ "spectacle" \in Roles /\ "doku" \in Roles
      /\ cur \in Issues
      /\ Verdicts \subseteq Labels
      /\ {"CLOSED", "spectacle-is-happy", "spectacle-is-blocked"} \subseteq Labels
  BY DEF Roles, TypeOK, Labels
<1>00. ASSUME NEW minus, NEW plus \in SUBSET Labels, Relabel(minus, plus)
       PROVE  labels' \in [Issues -> SUBSET Labels]
  BY <1>00 DEF TypeOK, Relabel
<1>01. ASSUME NEW choices \in SUBSET Labels, Adds(choices)
       PROVE  labels' \in [Issues -> SUBSET Labels]
  BY <1>01, <1>00 DEF Adds
<1>1. CASE Call
  <2>1. /\ splitAny' \in BOOLEAN
        /\ primed' \in BOOLEAN
        /\ forkWorks' \in BOOLEAN
    BY <1>1, Zenon DEF Call
  <2>2. team' \in [Names -> Origins]
    BY <1>1 DEF Call, Nobody, Origins
  <2>3. queue' \in Seq(Issues) /\ cur' \in Issues
    BY <1>1, <1>0 DEF Call
  <2>4. pc' \in {"ended", "next"} /\ code' \in {1, 5, Running}
    BY <1>1 DEF Call
  <2>5. /\ taken' = 0 /\ forks' = {} /\ debated' = {}
        /\ agreed' \subseteq Issues /\ calls' \in 0 .. MaxCalls
    BY <1>1 DEF Call, TypeOK
  <2> QED
    BY <1>1, <2>1, <2>2, <2>3, <2>4, <2>5 DEF Call, TypeOK, PCs
<1>2. CASE Take
  BY <1>2 DEF Take, TypeOK, PCs
<1>3. CASE QueueEmpty
  BY <1>3 DEF QueueEmpty, TypeOK, PCs
<1>4. CASE Triage
  <2>1. /\ forks' \subseteq Names
        /\ primed' \in BOOLEAN
        /\ forkWorks' \in BOOLEAN
        /\ team' \in [Names -> Origins]
    BY <1>0, <1>4, TurnTypes DEF Triage
  <2>2. labels' \in [Issues -> SUBSET Labels]
    BY <1>0, <1>00, <1>01, <1>4 DEF Triage, Verdicts
  <2>3. children' \in [Issues -> Seq(Issues)]
    BY <1>0, <1>4 DEF Triage, TypeOK
  <2> QED
    BY <1>4, <2>1, <2>2, <2>3 DEF Triage, TypeOK, PCs
<1>5. CASE Split
  <2>1. queue' \in Seq(Issues) /\ splitAny' \in BOOLEAN
    <3>1. queue \in Seq(Issues) /\ children[cur] \in Seq(Issues)
          /\ splitAny \in BOOLEAN
      BY DEF TypeOK
    <3>2. splitAny' \in BOOLEAN
      BY <1>5, <3>1, Zenon DEF Split
    <3>3. queue' = queue \/ queue' = queue \o children[cur]
      BY <1>5 DEF Split
    <3> QED
      BY <3>1, <3>2, <3>3, ConcatProperties
  <2>2. /\ pc' \in {"ended", "discard"}
        /\ code' \in {9, code}
    BY <1>5 DEF Split
  <2> QED
    BY <1>5, <2>1, <2>2 DEF Split, TypeOK, PCs
<1>6. CASE Debate
  BY <1>6 DEF Debate, TypeOK, PCs
<1>7. CASE RejectReview
  <2>1. /\ forks' \subseteq Names
        /\ primed' \in BOOLEAN
        /\ forkWorks' \in BOOLEAN
        /\ team' \in [Names -> Origins]
    BY <1>0, <1>7, TurnTypes DEF RejectReview
  <2>2. labels' \in [Issues -> SUBSET Labels]
    BY <1>0, <1>00, <1>01, <1>7 DEF RejectReview, Verdicts
  <2> QED
    BY <1>7, <2>1, <2>2 DEF RejectReview, TypeOK, PCs
<1>8. CASE Proposal
  <2>1. /\ forks' \subseteq Names
        /\ primed' \in BOOLEAN
        /\ forkWorks' \in BOOLEAN
        /\ team' \in [Names -> Origins]
    BY <1>0, <1>8, TurnTypes DEF Proposal
  <2>2. labels' \in [Issues -> SUBSET Labels]
    BY <1>0, <1>00, <1>01, <1>8 DEF Proposal, Verdicts
  <2> QED
    BY <1>8, <2>1, <2>2 DEF Proposal, TypeOK, PCs
<1>9. CASE Stance
  BY <1>9 DEF Stance, TypeOK, PCs
<1>10. CASE Critique
  <2>1. /\ forks' \subseteq Names
        /\ primed' \in BOOLEAN
        /\ forkWorks' \in BOOLEAN
        /\ team' \in [Names -> Origins]
    BY <1>0, <1>10, TurnTypes DEF Critique
  <2>2. labels' \in [Issues -> SUBSET Labels]
    BY <1>0, <1>00, <1>01, <1>10 DEF Critique, Verdicts
  <2> QED
    BY <1>10, <2>1, <2>2 DEF Critique, TypeOK, PCs
<1>11. CASE Rebuttal
  <2>1. /\ forks' \subseteq Names
        /\ primed' \in BOOLEAN
        /\ forkWorks' \in BOOLEAN
        /\ team' \in [Names -> Origins]
    BY <1>0, <1>11, TurnTypes DEF Rebuttal
  <2>2. labels' \in [Issues -> SUBSET Labels]
    BY <1>0, <1>00, <1>01, <1>11 DEF Rebuttal, Verdicts
  <2> QED
    BY <1>11, <2>1, <2>2 DEF Rebuttal, TypeOK, PCs
<1>12. CASE Final
  <2>1. /\ forks' \subseteq Names
        /\ primed' \in BOOLEAN
        /\ forkWorks' \in BOOLEAN
        /\ team' \in [Names -> Origins]
    BY <1>0, <1>12, TurnTypes DEF Final
  <2>2. labels' \in [Issues -> SUBSET Labels]
    BY <1>0, <1>00, <1>01, <1>12 DEF Final, Verdicts
  <2> QED
    BY <1>12, <2>1, <2>2 DEF Final, TypeOK, PCs
<1>13. CASE Brief
  <2>1. /\ forks' \subseteq Names
        /\ primed' \in BOOLEAN
        /\ forkWorks' \in BOOLEAN
        /\ team' \in [Names -> Origins]
    BY <1>0, <1>13, TurnTypes DEF Brief
  <2> QED
    BY <1>13, <2>1 DEF Brief, TypeOK, PCs
<1>14. CASE Discard
  BY <1>14 DEF Discard, TypeOK, PCs, Nobody, Fire, Mine, Origins
<1>15. CASE Summary
  <2>1. /\ forks' \subseteq Names
        /\ primed' \in BOOLEAN
        /\ forkWorks' \in BOOLEAN
        /\ team' \in [Names -> Origins]
    BY <1>0, <1>15, TurnTypes DEF Summary
  <2> QED
    BY <1>15, <2>1 DEF Summary, TypeOK, PCs
<1>16. CASE Cleanup
  BY <1>16 DEF Cleanup, TypeOK, PCs, Nobody, Origins
<1>17. CASE Crash
  BY <1>17 DEF Crash, TypeOK, PCs
<1>18. CASE \E i \in Issues : Unblock(i)
  BY <1>18 DEF Unblock, TypeOK, PCs
<1>19. CASE UNCHANGED vars
  BY <1>19 DEF TypeOK
<1> QED
  BY <1>1, <1>2, <1>3, <1>4, <1>5, <1>6, <1>7, <1>8, <1>9, <1>10, <1>11,
     <1>12, <1>13, <1>14, <1>15, <1>16, <1>17, <1>18, <1>19
  DEF Next, Driver

(* Nothing bleeds from one issue to the next. *)
LEMMA AgentsKept ==
  ASSUME TypeOK, WalkInv, AgentInv, [Next]_vars
  PROVE  AgentInv'
<1> USE PlanAssumption DEF AgentInv, NothingBleeds
<1>0. /\ "owen" \in Roles /\ "spectacle" \in Roles /\ "doku" \in Roles
      /\ cur \in Issues
      /\ forks \subseteq Names
      /\ team \in [Names -> Origins]
  BY DEF Roles, TypeOK
<1>1. CASE Call
  BY <1>0, <1>1 DEF Call, Nobody
<1>2. CASE Take
  BY <1>0, <1>2 DEF Take
<1>3. CASE QueueEmpty
  BY <1>0, <1>3 DEF QueueEmpty
<1>4. CASE Triage
  <2>1. /\ forks' = {n \in Names : team'[n] # "none"}
        /\ \A n \in forks' : n[2] = cur /\ team'[n] # "default"
    BY <1>0, <1>4, TurnForks DEF Triage
  <2> QED
    BY <1>4, <2>1 DEF Triage
<1>5. CASE Split
  BY <1>0, <1>5 DEF Split
<1>6. CASE Debate
  BY <1>0, <1>6 DEF Debate
<1>7. CASE RejectReview
  <2>1. /\ forks' = {n \in Names : team'[n] # "none"}
        /\ \A n \in forks' : n[2] = cur /\ team'[n] # "default"
    BY <1>0, <1>7, TurnForks DEF RejectReview
  <2> QED
    BY <1>7, <2>1 DEF RejectReview
<1>8. CASE Proposal
  <2>1. /\ forks' = {n \in Names : team'[n] # "none"}
        /\ \A n \in forks' : n[2] = cur /\ team'[n] # "default"
    BY <1>0, <1>8, TurnForks DEF Proposal
  <2> QED
    BY <1>8, <2>1 DEF Proposal
<1>9. CASE Stance
  BY <1>0, <1>9 DEF Stance
<1>10. CASE Critique
  <2>1. /\ forks' = {n \in Names : team'[n] # "none"}
        /\ \A n \in forks' : n[2] = cur /\ team'[n] # "default"
    BY <1>0, <1>10, TurnForks DEF Critique
  <2> QED
    BY <1>10, <2>1 DEF Critique
<1>11. CASE Rebuttal
  <2>1. /\ forks' = {n \in Names : team'[n] # "none"}
        /\ \A n \in forks' : n[2] = cur /\ team'[n] # "default"
    BY <1>0, <1>11, TurnForks DEF Rebuttal
  <2> QED
    BY <1>11, <2>1 DEF Rebuttal
<1>12. CASE Final
  <2>1. /\ forks' = {n \in Names : team'[n] # "none"}
        /\ \A n \in forks' : n[2] = cur /\ team'[n] # "default"
    BY <1>0, <1>12, TurnForks DEF Final
  <2> QED
    BY <1>12, <2>1 DEF Final
<1>13. CASE Brief
  <2>1. /\ forks' = {n \in Names : team'[n] # "none"}
        /\ \A n \in forks' : n[2] = cur /\ team'[n] # "default"
    BY <1>0, <1>13, TurnForks DEF Brief
  <2> QED
    BY <1>13, <2>1 DEF Brief
<1>14. CASE Discard
  <2>1. Mine = forks
    BY <1>0, <1>14 DEF Discard, Mine, Names
  <2>2. forks' = {} /\ \A n \in Names : team'[n] = "none"
    BY <1>0, <1>14, <2>1 DEF Discard, Fire
  <2> QED
    BY <1>14, <2>2 DEF Discard
<1>15. CASE Summary
  <2>1. /\ forks' = {n \in Names : team'[n] # "none"}
        /\ \A n \in forks' : n[2] = Root /\ team'[n] # "default"
    BY <1>0, <1>15, TurnForks DEF Summary
  <2> QED
    BY <1>15, <2>1 DEF Summary
<1>16. CASE Cleanup
  BY <1>0, <1>16 DEF Cleanup, Nobody
<1>17. CASE Crash
  BY <1>0, <1>17 DEF Crash
<1>18. CASE \E i \in Issues : Unblock(i)
  BY <1>18 DEF Unblock
<1>19. CASE UNCHANGED vars
  BY <1>19
<1> QED
  BY <1>1, <1>2, <1>3, <1>4, <1>5, <1>6, <1>7, <1>8, <1>9, <1>10, <1>11,
     <1>12, <1>13, <1>14, <1>15, <1>16, <1>17, <1>18, <1>19
  DEF Next, Driver

OthersKeepLabels == \A i \in Issues \ {cur} : labels'[i] = labels[i]

(* An agent's turn changes the labels of the issue at hand alone: replacing *)
(* some of them,                                                           *)
LEMMA RelabelHere ==
  ASSUME TypeOK, NEW minus, NEW plus, Relabel(minus, plus)
  PROVE  /\ labels'[cur] = (labels[cur] \ minus) \cup plus
         /\ OthersKeepLabels
BY DEF TypeOK, Relabel, OthersKeepLabels

(* or adding one of its choices, or none. *)
LEMMA AddsHere ==
  ASSUME TypeOK, NEW choices, Adds(choices)
  PROVE  /\ \/ labels'[cur] = labels[cur]
            \/ \E l \in choices : labels'[cur] = labels[cur] \cup {l}
         /\ OthersKeepLabels
<1>1. PICK l \in choices \cup {"no label"} : Relabel({}, {l} \ {"no label"})
  BY DEF Adds
<1>2. labels'[cur] = labels[cur] \cup ({l} \ {"no label"}) /\ OthersKeepLabels
  BY <1>1 DEF Relabel, TypeOK, OthersKeepLabels
<1>3. CASE l = "no label"
  BY <1>2, <1>3
<1>4. CASE l # "no label"
  BY <1>2, <1>4
<1> QED
  BY <1>3, <1>4

(* What is known of the labels of the issue at hand, and of split issues. *)
LEMMA LabelsKept ==
  ASSUME TypeOK, LabelInv, [Next]_vars
  PROVE  LabelInv'
<1> USE DEF LabelInv, Debating, OthersKeepLabels
<1>0. /\ cur \in Issues
      /\ children \in [Issues -> Seq(Issues)]
      /\ queue \in Seq(Issues)
      /\ labels \in [Issues -> SUBSET Labels]
  BY DEF TypeOK
<1>00. ASSUME "owens-split" \notin labels'[cur'] PROVE Listed({cur})' = {}
  BY <1>00 DEF Listed
<1>1. CASE Call
  BY <1>0, <1>1 DEF Call
<1>2. CASE Take
  <2>1. cur' \in Issues
    BY <1>0, <1>2, HeadTailProperties DEF Take
  <2> QED
    BY <1>0, <1>2, <2>1 DEF Take, Converged, Verdicts
<1>3. CASE QueueEmpty
  BY <1>0, <1>3 DEF QueueEmpty
<1>4. CASE Triage
  <2>1. /\ \/ labels'[cur] = labels[cur]
           \/ \E l \in Verdicts : labels'[cur] = labels[cur] \cup {l}
        /\ OthersKeepLabels
    <3>1. CASE Adds(Verdicts \ {"owens-split"})
      BY <3>1, AddsHere
    <3>2. CASE Relabel({}, {"owens-split"})
      <4>1. labels'[cur] = labels[cur] \cup {"owens-split"}
        BY <3>2 DEF Relabel, TypeOK
      <4>2. OthersKeepLabels
        BY <3>2 DEF Relabel, TypeOK
      <4> QED
        BY <4>1, <4>2 DEF Verdicts
    <3> QED
      BY <1>4, <3>1, <3>2 DEF Triage
  <2>2. labels[cur] \cap (Verdicts \cup {"CLOSED"}) = {}
    BY <1>4 DEF Triage
  <2>3. pc' = "route" /\ cur' = cur
    BY <1>4 DEF Triage
  <2>4. \A i \in Issues : "owens-split" \in labels'[i] =>
          labels'[i] \cap {"owens-is-happy", "CLOSED"} = {}
    <3>1. "owens-split" \in labels'[cur] =>
            labels'[cur] \cap {"owens-is-happy", "CLOSED"} = {}
      BY <2>1, <2>2 DEF Verdicts
    <3> QED
      BY <2>1, <3>1
  <2>5. labels'[cur] \cap {"owens-rejects", "owens-split"} # {}
          => "owens-is-happy" \notin labels'[cur]
    BY <2>1, <2>2 DEF Verdicts
  <2> QED
    BY <2>3, <2>4, <2>5 DEF Converged
<1>5. CASE Split
  <2>1. CASE children[cur] = <<>>
    BY <1>5, <2>1 DEF Split
  <2>2. CASE children[cur] # <<>>
    <3>1. /\ pc' = "discard" /\ UNCHANGED <<labels, children, cur, debated>>
          /\ queue' = queue \o children[cur]
          /\ "owens-split" \in labels[cur]
      BY <1>5, <2>2 DEF Split
    <3>2. Settled(cur)'
      BY <3>1 DEF Settled
    <3>3. Listed({cur})' \subseteq Elems(children[cur])
      BY <3>1 DEF Listed, Elems
    <3>4. Elems(children[cur]) \subseteq Elems(queue')
      BY <1>0, <3>1, ElemsOfConcat
    <3>5. Elems(queue)' = Elems(queue')
      BY DEF Elems
    <3> QED
      BY <3>1, <3>2, <3>3, <3>4, <3>5
  <2> QED
    BY <2>1, <2>2
<1>6. CASE Debate
  BY <1>0, <1>6 DEF Debate
<1>7. CASE RejectReview
  <2>1. /\ \/ labels'[cur] = labels[cur] \cup {"CLOSED"}
           \/ labels'[cur] = labels[cur] \ {"owens-rejects"}
           \/ labels'[cur] = labels[cur]
        /\ OthersKeepLabels
    BY <1>7 DEF RejectReview, Relabel, TypeOK
  <2>2. /\ cur' = cur /\ pc' \in {"discard", "proposal"}
        /\ cur \in debated /\ debated' = debated
        /\ "owens-split" \notin labels[cur]
    BY <1>7 DEF RejectReview
  <2>3. "owens-split" \notin labels'[cur]
    BY <2>1, <2>2
  <2>4. Settled(cur)'
    BY <2>2 DEF Settled
  <2> QED
    BY <1>0, <1>00, <2>1, <2>2, <2>3, <2>4
<1>8. CASE Proposal
  <2>1. "owens-split" \notin labels'[cur] /\ OthersKeepLabels
    <3>1. "owens-split" \notin labels[cur]
      BY <1>8 DEF Proposal
    <3>2. Adds({"owens-is-happy", "owens-is-blocked"})
      BY <1>8 DEF Proposal
    <3> QED
      BY <3>1, <3>2, AddsHere
  <2>2. Settled(cur)'
    BY <1>8 DEF Proposal, Settled
  <2> QED
    BY <1>0, <1>00, <1>8, <2>1, <2>2 DEF Proposal
<1>9. CASE Stance
  <2>1. Settled(cur)'
    BY <1>9 DEF Stance, Settled
  <2> QED
    BY <1>0, <1>00, <1>9, <2>1 DEF Stance
<1>10. CASE Critique
  <2>1. "owens-split" \notin labels'[cur] /\ OthersKeepLabels
    <3>1. "owens-split" \notin labels[cur]
      BY <1>10 DEF Critique
    <3>2. Adds({"spectacle-is-happy"})
      BY <1>10 DEF Critique
    <3> QED
      BY <3>1, <3>2, AddsHere
  <2>2. Settled(cur)'
    BY <1>10 DEF Critique, Settled
  <2> QED
    BY <1>0, <1>00, <1>10, <2>1, <2>2 DEF Critique
<1>11. CASE Rebuttal
  <2>1. "owens-split" \notin labels'[cur] /\ OthersKeepLabels
    <3>1. "owens-split" \notin labels[cur]
      BY <1>11 DEF Rebuttal
    <3>2. Adds({"owens-is-happy", "owens-is-blocked"})
      BY <1>11 DEF Rebuttal
    <3> QED
      BY <3>1, <3>2, AddsHere
  <2>2. Settled(cur)'
    BY <1>11 DEF Rebuttal, Settled
  <2> QED
    BY <1>0, <1>00, <1>11, <2>1, <2>2 DEF Rebuttal
<1>12. CASE Final
  <2>1. "owens-split" \notin labels'[cur] /\ OthersKeepLabels
    <3>1. "owens-split" \notin labels[cur]
      BY <1>12 DEF Final
    <3>2. Adds({"spectacle-is-happy", "spectacle-is-blocked"})
      BY <1>12 DEF Final
    <3> QED
      BY <3>1, <3>2, AddsHere
  <2>2. Settled(cur)'
    BY <1>12 DEF Final, Settled
  <2> QED
    BY <1>0, <1>00, <1>12, <2>1, <2>2 DEF Final
<1>13. CASE Brief
  <2>1. Settled(cur)'
    BY <1>13 DEF Brief, Settled
  <2> QED
    BY <1>0, <1>00, <1>13, <2>1 DEF Brief
<1>14. CASE Discard
  BY <1>0, <1>14 DEF Discard
<1>15. CASE Summary
  BY <1>0, <1>15 DEF Summary
<1>16. CASE Cleanup
  BY <1>0, <1>16 DEF Cleanup
<1>17. CASE Crash
  BY <1>0, <1>17 DEF Crash
<1>18. CASE \E i \in Issues : Unblock(i)
  BY <1>0, <1>18 DEF Unblock
<1>19. CASE UNCHANGED vars
  BY <1>19 DEF Settled, Listed, Elems
<1> QED
  BY <1>1, <1>2, <1>3, <1>4, <1>5, <1>6, <1>7, <1>8, <1>9, <1>10, <1>11,
     <1>12, <1>13, <1>14, <1>15, <1>16, <1>17, <1>18, <1>19
  DEF Next, Driver

(* No debate of this call that came to agreement is left without a brief. *)
LEMMA BriefsKept ==
  ASSUME TypeOK, LabelInv, BriefInv, [Next]_vars
  PROVE  BriefInv'
<1> USE DEF BriefInv, Working, Debating, OthersKeepLabels
<1>0. cur \in Issues /\ debated \subseteq Issues
  BY DEF TypeOK
<1>1. CASE Call
  BY <1>0, <1>1 DEF Call
<1>2. CASE Take
  BY <1>0, <1>2 DEF Take
<1>3. CASE QueueEmpty
  BY <1>0, <1>3 DEF QueueEmpty
<1>4. CASE Triage
  <2>1. OthersKeepLabels
    BY <1>4, AddsHere, RelabelHere DEF Triage
  <2> QED
    BY <1>0, <1>4, <2>1 DEF Triage, Blocked, Converged
<1>5. CASE Split
  <2>1. ~Converged(labels[cur])
    BY <1>0, <1>5 DEF Split, LabelInv, Converged
  <2> QED
    BY <1>0, <1>5, <2>1 DEF Split
<1>6. CASE Debate
  BY <1>0, <1>6 DEF Debate
<1>7. CASE RejectReview
  <2>1. OthersKeepLabels
    BY <1>7, RelabelHere DEF RejectReview
  <2>2. ~Converged(labels'[cur])
    BY <1>7 DEF RejectReview, Relabel, LabelInv, Converged, TypeOK
  <2> QED
    BY <1>0, <1>7, <2>1, <2>2 DEF RejectReview
<1>8. CASE Proposal
  <2>1. OthersKeepLabels
    BY <1>8, AddsHere DEF Proposal
  <2> QED
    BY <1>0, <1>8, <2>1 DEF Proposal, Blocked, Converged
<1>9. CASE Stance
  BY <1>0, <1>9 DEF Stance
<1>10. CASE Critique
  <2>1. OthersKeepLabels
    BY <1>10, AddsHere DEF Critique
  <2> QED
    BY <1>0, <1>10, <2>1 DEF Critique, Blocked, Converged
<1>11. CASE Rebuttal
  <2>1. OthersKeepLabels
    BY <1>11, AddsHere DEF Rebuttal
  <2> QED
    BY <1>0, <1>11, <2>1 DEF Rebuttal, Blocked, Converged
<1>12. CASE Final
  <2>1. OthersKeepLabels
    BY <1>12, AddsHere DEF Final
  <2> QED
    BY <1>0, <1>12, <2>1 DEF Final, Blocked, Converged
<1>13. CASE Brief
  BY <1>0, <1>13 DEF Brief
<1>14. CASE Discard
  BY <1>0, <1>14 DEF Discard
<1>15. CASE Summary
  BY <1>0, <1>15 DEF Summary
<1>16. CASE Cleanup
  BY <1>0, <1>16 DEF Cleanup
<1>17. CASE Crash
  BY <1>0, <1>17 DEF Crash
<1>18. CASE \E i \in Issues : Unblock(i)
  BY <1>18 DEF Unblock
<1>19. CASE UNCHANGED vars
  BY <1>19
<1> QED
  BY <1>1, <1>2, <1>3, <1>4, <1>5, <1>6, <1>7, <1>8, <1>9, <1>10, <1>11,
     <1>12, <1>13, <1>14, <1>15, <1>16, <1>17, <1>18, <1>19
  DEF Next, Driver

(* What is settled and listed elsewhere stays so while one issue is at hand. *)
LEMMA OthersSettled ==
  ASSUME NEW S \in SUBSET Issues,
         \A i \in S : labels'[i] = labels[i] /\ children'[i] = children[i],
         debated \subseteq debated'
  PROVE  /\ Listed(S)' = Listed(S)
         /\ \A i \in S : Settled(i) => Settled(i)'
<1>1. \A i \in S : Settled(i) => Settled(i)'
  BY DEF Settled, Converged
<1>2. {j \in S : "owens-split" \in labels[j]}
        = {j \in S : "owens-split" \in labels'[j]}
  OBVIOUS
<1> QED
  BY <1>1, <1>2 DEF Listed

(* The settled part of the tree grows with every issue that is done. *)
LEMMA TreeKept ==
  ASSUME TypeOK, WalkInv, LabelInv, TreeInv, [Next]_vars
  PROVE  TreeInv'
<1> USE DEF TreeInv, TreeIsPlanned, Settles, AtHand, Working, Debating
<1>0. /\ cur \in Issues
      /\ queue \in Seq(Issues)
      /\ children \in [Issues -> Seq(Issues)]
      /\ debated \subseteq Issues
  BY DEF TypeOK
<1>00. Elems(queue)' = Elems(queue')
  BY DEF Elems
<1>01. ASSUME /\ pc \in Working /\ pc' \in Working
              /\ UNCHANGED cur
              /\ Elems(queue) \subseteq Elems(queue')
              /\ OthersKeepLabels
              /\ \A i \in Issues \ {cur} : children'[i] = children[i]
              /\ debated \subseteq debated'
       PROVE  TreeInv'
  <2>1. PICK S \in SUBSET (Issues \ {cur}) :
          Settles(S, Elems(queue) \cup {cur})
    BY <1>01
  <2>2. Listed(S)' = Listed(S) /\ \A i \in S : Settled(i)'
    BY <1>01, <2>1, OthersSettled DEF OthersKeepLabels
  <2>3. Settles(S, Elems(queue) \cup {cur})'
    BY <1>00, <1>01, <2>1, <2>2
  <2> QED
    BY <1>01, <2>1, <2>3
<1>02. ASSUME pc' = "ended", code' # 0
       PROVE  TreeInv'
  BY <1>02
<1>1. CASE Call
  <2>1. CASE pc' = "ended" /\ code' # 0
    BY <1>02, <2>1
  <2>2. CASE pc' = "next"
    <3>1. queue' = <<Root>>
      BY <1>1 DEF Call
    <3>2. Elems(queue') = {Root}
      BY <3>1 DEF Elems
    <3>3. Settles({}, Elems(queue))'
      BY <1>00, <3>2 DEF Listed
    <3> QED
      BY <2>2, <3>3
  <2> QED
    BY <1>1, <2>1, <2>2 DEF Call
<1>2. CASE Take
  <2>1. CASE pc' = "ended" /\ code' = 9
    BY <1>02, <2>1
  <2>2. CASE /\ pc' = IF \/ Converged(labels[cur'])
                         \/ "CLOSED" \in labels[cur'] THEN "next"
                      ELSE IF labels[cur'] \cap Verdicts = {} THEN "triage"
                      ELSE "route"
    <3>1. /\ cur' = Head(queue) /\ queue # <<>> /\ queue' = Tail(queue)
          /\ UNCHANGED <<labels, children, debated>> /\ pc = "next"
      BY <1>2 DEF Take
    <3>2. Elems(queue) = {cur'} \cup Elems(queue') /\ cur' \in Issues
      BY <1>0, <3>1, ElemsOfTail, HeadTailProperties
    <3>3. PICK S \in SUBSET Issues : Settles(S, Elems(queue))
      BY <3>1
    <3>4. CASE Converged(labels[cur']) \/ "CLOSED" \in labels[cur']
      <4>0. PICK T \in SUBSET Issues : T = S \cup {cur'}
        BY <3>2
      <4>1. "owens-split" \notin labels[cur'] /\ Settled(cur')
        BY <3>2, <3>4 DEF LabelInv, Converged, Settled
      <4>2. Listed(T) = Listed(S)
        BY <4>0, <4>1 DEF Listed
      <4>3. Settles(T, Elems(queue'))
        BY <3>2, <3>3, <4>0, <4>1, <4>2
      <4>4. Settles(T, Elems(queue))'
        <5>1. Listed(T)' = Listed(T) /\ \A i \in T : Settled(i)'
          BY <3>1, <3>2, <4>3, OthersSettled
        <5> QED
          BY <1>00, <4>3, <5>1
      <4>5. pc' = "next"
        BY <2>2, <3>4
      <4> QED
        BY <4>4, <4>5
    <3>5. CASE ~(Converged(labels[cur']) \/ "CLOSED" \in labels[cur'])
      <4>0. PICK T \in SUBSET Issues : T = S \ {cur'}
        OBVIOUS
      <4>1. Listed(T) \subseteq Listed(S)
        BY <4>0 DEF Listed
      <4>2. Settles(T, Elems(queue') \cup {cur'})
        BY <3>2, <3>3, <4>0, <4>1
      <4>3. Settles(T, Elems(queue) \cup {cur})'
        <5>1. Listed(T)' = Listed(T) /\ \A i \in T : Settled(i)'
          BY <3>1, <4>2, OthersSettled
        <5> QED
          BY <1>00, <4>2, <5>1
      <4>4. pc' \in {"triage", "route"}
        BY <2>2, <3>5
      <4> QED
        BY <4>0, <4>3, <4>4
    <3> QED
      BY <3>4, <3>5
  <2> QED
    BY <1>2, <2>1, <2>2 DEF Take
<1>3. CASE QueueEmpty
  <2>1. UNCHANGED <<labels, children, debated, queue>> /\ pc = "next"
        /\ pc' \in {"summary", "cleanup"}
    BY <1>3 DEF QueueEmpty
  <2>2. PICK S \in SUBSET Issues : Settles(S, Elems(queue))
    BY <2>1
  <2>3. Settles(S, Elems(queue))'
    <3>1. Listed(S)' = Listed(S) /\ \A i \in S : Settled(i)'
      BY <2>1, <2>2, OthersSettled
    <3> QED
      BY <1>00, <2>1, <2>2, <3>1
  <2> QED
    BY <2>1, <2>3
<1>4. CASE Triage
  <2>1. OthersKeepLabels
    BY <1>4, AddsHere, RelabelHere DEF Triage
  <2> QED
    BY <1>0, <1>01, <1>4, <2>1 DEF Triage
<1>5. CASE Split
  <2>1. CASE children[cur] = <<>>
    BY <1>02, <1>5, <2>1 DEF Split
  <2>2. CASE children[cur] # <<>>
    <3>1. Elems(queue') = Elems(queue) \cup Elems(children[cur])
      BY <1>0, <1>5, <2>2, ElemsOfConcat DEF Split
    <3> QED
      BY <1>01, <1>5, <2>2, <3>1 DEF Split, OthersKeepLabels
  <2> QED
    BY <2>1, <2>2
<1>6. CASE Debate
  BY <1>01, <1>6 DEF Debate, OthersKeepLabels
<1>7. CASE RejectReview
  <2>1. OthersKeepLabels
    BY <1>7, RelabelHere DEF RejectReview
  <2> QED
    BY <1>01, <1>7, <2>1 DEF RejectReview
<1>8. CASE Proposal
  <2>1. OthersKeepLabels
    BY <1>8, AddsHere DEF Proposal
  <2> QED
    BY <1>01, <1>8, <2>1 DEF Proposal
<1>9. CASE Stance
  BY <1>01, <1>9 DEF Stance, OthersKeepLabels
<1>10. CASE Critique
  <2>1. OthersKeepLabels
    BY <1>10, AddsHere DEF Critique
  <2> QED
    BY <1>01, <1>10, <2>1 DEF Critique
<1>11. CASE Rebuttal
  <2>1. OthersKeepLabels
    BY <1>11, AddsHere DEF Rebuttal
  <2> QED
    BY <1>01, <1>11, <2>1 DEF Rebuttal
<1>12. CASE Final
  <2>1. OthersKeepLabels
    BY <1>12, AddsHere DEF Final
  <2> QED
    BY <1>01, <1>12, <2>1 DEF Final
<1>13. CASE Brief
  BY <1>01, <1>13 DEF Brief, OthersKeepLabels
<1>14. CASE Discard
  <2>1. CASE pc' = "ended" /\ code' = 1
    BY <1>02, <2>1
  <2>2. CASE pc' = "next"
    <3>1. pc = "discard" /\ UNCHANGED <<labels, children, debated, queue, cur>>
      BY <1>14 DEF Discard
    <3>2. PICK S \in SUBSET (Issues \ {cur}) :
            Settles(S, Elems(queue) \cup {cur})
      BY <3>1
    <3>0. PICK T \in SUBSET Issues : T = S \cup {cur}
      BY <1>0
    <3>3. Listed(T) = Listed(S) \cup Listed({cur})
      BY <3>0 DEF Listed
    <3>4. Settled(cur) /\ Listed({cur}) \subseteq Elems(queue)
      BY <3>1 DEF LabelInv
    <3>5. Settles(T, Elems(queue))
      BY <3>0, <3>2, <3>3, <3>4
    <3>6. Settles(T, Elems(queue))'
      <4>1. Listed(T)' = Listed(T) /\ \A i \in T : Settled(i)'
        BY <1>0, <3>1, <3>5, OthersSettled
      <4> QED
        BY <1>00, <3>1, <3>5, <4>1
    <3> QED
      BY <2>2, <3>6
  <2> QED
    BY <1>14, <2>1, <2>2 DEF Discard
<1>15. CASE Summary
  <2>1. UNCHANGED <<labels, children, debated, queue>> /\ pc = "summary"
        /\ pc' = "cleanup"
    BY <1>15 DEF Summary
  <2>2. PICK S \in SUBSET Issues : Settles(S, Elems(queue))
    BY <2>1
  <2>3. Settles(S, Elems(queue))'
    <3>1. Listed(S)' = Listed(S) /\ \A i \in S : Settled(i)'
      BY <2>1, <2>2, OthersSettled
    <3> QED
      BY <1>00, <2>1, <2>2, <3>1
  <2> QED
    BY <2>1, <2>3
<1>16. CASE Cleanup
  <2>1. UNCHANGED <<labels, children, debated, queue>> /\ pc = "cleanup"
        /\ pc' = "ended"
    BY <1>16 DEF Cleanup
  <2>2. PICK S \in SUBSET Issues : Settles(S, Elems(queue))
    BY <2>1
  <2>3. Elems(queue) = {}
    BY <2>1 DEF WalkInv, Elems
  <2>4. Listed(S)' = Listed(S) /\ \A i \in S : Settled(i)'
    BY <2>1, <2>2, OthersSettled
  <2>5. Root \in S /\ Closed(S)'
    BY <2>2, <2>3, <2>4 DEF Closed
  <2> QED
    BY <2>1, <2>4, <2>5
<1>17. CASE Crash
  BY <1>02, <1>17 DEF Crash
<1>18. CASE \E i \in Issues : Unblock(i)
  <2>1. PICK j \in Issues : Unblock(j)
    BY <1>18
  <2>2. /\ pc = "ended" /\ UNCHANGED <<pc, code, children, debated>>
        /\ labels' = [labels EXCEPT ![j] =
              @ \ {"owens-is-blocked", "spectacle-is-blocked"}]
    BY <2>1 DEF Unblock
  <2>3. SUFFICES ASSUME code = 0
                 PROVE  TreeIsPlanned'
    BY <2>2
  <2>4. PICK S \in SUBSET Issues :
          /\ Root \in S
          /\ Closed(S)
          /\ \A i \in S : Settled(i)
    BY <2>2, <2>3
  <2>5. \A i \in Issues :
          \A l \in {"owens-is-happy", "spectacle-is-happy", "CLOSED",
                   "owens-split"} :
            l \in labels'[i] <=> l \in labels[i]
    BY <2>2 DEF TypeOK
  <2>6. \A i \in S : Settled(i)'
    BY <2>2, <2>4, <2>5 DEF Settled, Converged
  <2>7. {i \in S : "owens-split" \in labels'[i]}
          = {i \in S : "owens-split" \in labels[i]}
    BY <2>5
  <2>8. Closed(S)'
    BY <2>2, <2>4, <2>7 DEF Closed, Listed
  <2> QED
    BY <2>4, <2>6, <2>8
<1>19. CASE UNCHANGED vars
  <2>1. \A S \in SUBSET Issues :
          Listed(S)' = Listed(S) /\ (Closed(S)' <=> Closed(S))
    BY <1>19 DEF Listed, Closed
  <2>2. \A i \in Issues : Settled(i)' <=> Settled(i)
    BY <1>19 DEF Settled
  <2> QED
    BY <1>00, <1>19, <2>1, <2>2
<1> QED
  BY <1>1, <1>2, <1>3, <1>4, <1>5, <1>6, <1>7, <1>8, <1>9, <1>10, <1>11,
     <1>12, <1>13, <1>14, <1>15, <1>16, <1>17, <1>18, <1>19
  DEF Next, Driver

(* No call has been made, and no issue has a label. *)
LEMMA InitEstablishes == Init => IInv
<1> SUFFICES ASSUME Init PROVE IInv
  OBVIOUS
<1>1. splitAny \in BOOLEAN /\ primed \in BOOLEAN /\ forkWorks \in BOOLEAN
  BY Zenon DEF Init
<1>2. TypeOK
  BY <1>1, PlanAssumption DEF Init, TypeOK, PCs, Nobody, Origins
<1> QED
  BY <1>2 DEF Init, IInv, WalkInv, AgentInv, NothingBleeds, LabelInv,
              Debating, BriefInv, TreeInv, TreeIsPlanned

(* Every step of the driver, a crash or a human keeps the invariant. *)
LEMMA NextPreserves == IInv /\ [Next]_vars => IInv'
BY TypesAndWalk, AgentsKept, LabelsKept, BriefsKept, TreeKept DEF IInv
-----------------------------------------------------------------------------
(* At every point of plan(): what is settled of the tree, what is pending, *)
(* whose agents exist, and what is known of the labels.                    *)
THEOREM Invariant == Spec => []IInv
BY InitEstablishes, NextPreserves, PTL DEF Spec

(* No call takes more than PLAN_CAP issues and one, and an agent has one   *)
(* origin.                                                                 *)
THEOREM TypeCorrect == Spec => []TypeOK
<1>1. IInv => TypeOK
  BY DEF IInv
<1> QED
  BY <1>1, Invariant, PTL

(* FORKS and the team agree, and no agent outlives its issue, however the  *)
(* issues list each other.                                                 *)
THEOREM NoBleed == Spec => []NothingBleeds
<1>1. IInv => NothingBleeds
  BY DEF IInv, AgentInv
<1> QED
  BY <1>1, Invariant, PTL

(* A call that exits 0 has been at every issue that splits reach from the  *)
(* root, whatever it found there.                                          *)
THEOREM TreePlanned == Spec => []TreeIsPlanned
<1>1. IInv => TreeIsPlanned
  BY DEF IInv, TreeInv
<1> QED
  BY <1>1, Invariant, PTL

(* An agreement of this call has its brief when the call ends.             *)
THEOREM Briefed == Spec => []AgreedIsBriefed
<1>1. IInv => AgreedIsBriefed
  BY DEF IInv, BriefInv, AgreedIsBriefed, Stopped, Working, Debating
<1> QED
  BY <1>1, Invariant, PTL
=============================================================================
