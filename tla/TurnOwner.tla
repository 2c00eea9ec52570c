------------------------------ MODULE TurnOwner ------------------------------
(***************************************************************************)
(* What the agent lock promises, without lock files or inodes: at any time *)
(* at most one process acts for the agent, a CLI run happens only inside   *)
(* such an ownership, and every run uses up a lookup, made in the same     *)
(* ownership, that found the agent registered.  The agent may be deleted   *)
(* between the two: that run still starts, and the next one does not.      *)
(* AgentLock is shown to implement it.                                     *)
(***************************************************************************)
EXTENDS Naturals

CONSTANT Procs

VARIABLES
  owners,    \* the processes acting for the agent
  cleared,   \* those of them that found it registered and may start one run
  running,   \* those of them with a CLI run in progress
  exists     \* is the agent registered?

vars == <<owners, cleared, running, exists>>

Init ==
  /\ owners = {}
  /\ cleared = {}
  /\ running = {}
  /\ exists = FALSE

(* Registration and deletion ask no owner: delete never refuses. *)
Register ==
  /\ exists' = TRUE
  /\ UNCHANGED <<owners, cleared, running>>

Delete ==
  /\ exists' = FALSE
  /\ UNCHANGED <<owners, cleared, running>>

Acquire(p) ==
  /\ owners = {}
  /\ owners' = {p}
  /\ UNCHANGED <<cleared, running, exists>>

(* The owner, with no run in progress, finds the agent registered. *)
Clear(p) ==
  /\ owners = {p}
  /\ cleared = {}
  /\ running = {}
  /\ exists
  /\ cleared' = {p}
  /\ UNCHANGED <<owners, running, exists>>

StartRun(p) ==
  /\ cleared = {p}
  /\ cleared' = {}
  /\ running' = {p}
  /\ UNCHANGED <<owners, exists>>

EndRun(p) ==
  /\ running = {p}
  /\ running' = {}
  /\ UNCHANGED <<owners, cleared, exists>>

(* The owner lets go, or dies, with or without a run in progress. *)
Release(p) ==
  /\ owners = {p}
  /\ owners' = {}
  /\ cleared' = {}
  /\ running' = {}
  /\ UNCHANGED exists

Next ==
  \/ Register \/ Delete
  \/ \E p \in Procs :
       Acquire(p) \/ Clear(p) \/ StartRun(p) \/ EndRun(p) \/ Release(p)

Spec == Init /\ [][Next]_vars
=============================================================================
