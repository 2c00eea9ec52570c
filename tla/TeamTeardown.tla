---------------------------- MODULE TeamTeardown ----------------------------
(***************************************************************************)
(* One team directory under concurrent commands, its teardown and the      *)
(* user's git worktree commands (orchestrator/cli.py: _resolve_team,       *)
(* _resolve_team_root, _team_locked, _teardown_team; the predicates of     *)
(* orchestrator/teams.py).                                                 *)
(*                                                                         *)
(* Every command looks at the directory before it takes the team lock:     *)
(* shared for all but teardown, exclusive without waiting for teardown.    *)
(* The directory holds the lock file, agents/ (the registry with its lock  *)
(* files) and worktree/, which belongs to git.                             *)
(***************************************************************************)
CONSTANT Procs    \* slots that run one orchestrator command after the other

(* create and fork; talk and chat; list; delete NAME; delete without NAME. *)
Verbs   == {"create", "talk", "list", "delete", "teardown"}
Workers == {"create", "talk"}   \* verbs that need worktree/

VARIABLES
  root,      \* does the team directory exist?
  worktree,  \* does its worktree/ exist?
  agents,    \* agents/: "none", "bare" (no registry in it), "registry"
  verb,      \* the command each slot runs, or "none"
  pc,        \* where it is
  found      \* what the command's constructor read: is there a registry?

vars == <<root, worktree, agents, verb, pc, found>>

(* Program counters at which a slot holds the team lock. *)
Holding == {"read", "inside", "locked", "remove", "removing", "removed"}
PCs     == {"idle", "lock"} \cup Holding

Goto(p, l) == pc' = [pc EXCEPT ![p] = l]

Finish(p) ==
  /\ Goto(p, "idle")
  /\ verb' = [verb EXCEPT ![p] = "none"]
  /\ found' = [found EXCEPT ![p] = FALSE]

Init ==
  /\ root = FALSE /\ worktree = FALSE /\ agents = "none"
  /\ verb = [p \in Procs |-> "none"]
  /\ pc = [p \in Procs |-> "idle"]
  /\ found = [p \in Procs |-> FALSE]

-----------------------------------------------------------------------------
(* The user's git worktree add and git worktree remove. *)
AddWorktree ==
  /\ ~worktree
  /\ worktree' = TRUE /\ root' = TRUE
  /\ UNCHANGED <<agents, verb, pc, found>>

RemoveWorktree ==
  /\ worktree
  /\ worktree' = FALSE
  /\ UNCHANGED <<root, agents, verb, pc, found>>

-----------------------------------------------------------------------------
(* is_team and is_candidate. *)
IsTeam      == agents = "registry"
IsCandidate == agents # "none" \/ worktree

(* Does a command get past the checks?  With AGENTS_ARMY_TEAMS_DIR the     *)
(* directory is given; otherwise a walk has to find it (walked).  (Faulty  *)
(* variants: every verb asks for worktree/; none asks for the directory.)  *)
PassesWithWorktree(v, walked) ==
  /\ walked => IsCandidate
  /\ worktree

PassesAnyway(v, walked) ==
  /\ walked => IsCandidate
  /\ v \in Workers => worktree

Passes(v, walked) ==
  /\ walked => IsCandidate
  /\ v \in Workers => worktree
  /\ v \notin Workers => root

Begin(p) ==
  /\ pc[p] = "idle"
  /\ \E v \in Verbs, walked \in BOOLEAN :
       /\ Passes(v, walked)
       /\ verb' = [verb EXCEPT ![p] = v]
  /\ Goto(p, "lock")
  /\ UNCHANGED <<root, worktree, agents, found>>

(* _flock makes the lock file's directory.  Teardown finds the team in use *)
(* and fails, or has it to itself; the others wait for teardowns only.     *)
(* (Faulty variant: teardown asks for a shared lock too.)                  *)
Others(p) == {q \in Procs \ {p} : pc[q] \in Holding}

LockShared(p) ==
  /\ pc[p] = "lock"
  /\ root' = TRUE
  /\ Goto(p, IF verb[p] = "teardown" THEN "remove" ELSE "read")
  /\ UNCHANGED <<worktree, agents, verb, found>>

Lock(p) ==
  /\ pc[p] = "lock"
  /\ root' = TRUE
  /\ \/ /\ verb[p] = "teardown" /\ Others(p) # {}
        /\ Finish(p)
     \/ /\ verb[p] = "teardown" /\ Others(p) = {}
        /\ Goto(p, "remove")
        /\ UNCHANGED <<verb, found>>
     \/ /\ verb[p] # "teardown"
        /\ \A q \in Others(p) : verb[q] # "teardown"
        /\ Goto(p, "read")
        /\ UNCHANGED <<verb, found>>
  /\ UNCHANGED <<worktree, agents>>

-----------------------------------------------------------------------------
(* Any other verb: the constructor reads the registry, and then the        *)
(* command takes locks under agents/, which makes the directory, and may   *)
(* change the registry.  list makes nothing.                               *)
Read(p) ==
  /\ pc[p] = "read"
  /\ found' = [found EXCEPT ![p] = IsTeam]
  /\ Goto(p, "inside")
  /\ UNCHANGED <<root, worktree, agents, verb>>

TakeLock(p) ==
  /\ pc[p] = "inside" /\ verb[p] # "list"
  /\ agents' = IF agents = "none" THEN "bare" ELSE agents
  /\ Goto(p, "locked")
  /\ UNCHANGED <<root, worktree, verb, found>>

(* create makes a registry, and so does a talk to an agent that is not     *)
(* there yet; the others change an agent they found.                       *)
Persist(p) ==
  /\ pc[p] = "locked"
  /\ verb[p] \in Workers \/ IsTeam
  /\ agents' = "registry"
  /\ found' = [found EXCEPT ![p] = TRUE]
  /\ Goto(p, "inside")
  /\ UNCHANGED <<root, worktree, verb>>

(* The command ends, with or without an error. *)
Leave(p) ==
  /\ pc[p] \in {"inside", "locked"}
  /\ Finish(p)
  /\ UNCHANGED <<root, worktree, agents>>

-----------------------------------------------------------------------------
(* Teardown removes agents/ entry by entry, in an order of its own. *)
StartRemoval(p) ==
  /\ pc[p] = "remove"
  /\ Goto(p, IF agents = "none" THEN "removed" ELSE "removing")
  /\ UNCHANGED <<root, worktree, agents, verb, found>>

RemoveEntry(p) ==
  /\ pc[p] = "removing"
  /\ \/ agents = "registry" /\ agents' = "bare" /\ UNCHANGED pc
     \/ agents = "bare" /\ agents' = "none" /\ Goto(p, "removed")
  /\ UNCHANGED <<root, worktree, verb, found>>

EndTeardown(p) ==
  /\ pc[p] = "removed"
  /\ Finish(p)
  /\ UNCHANGED <<root, worktree, agents>>

Crash(p) ==
  /\ pc[p] # "idle"
  /\ Finish(p)
  /\ UNCHANGED <<root, worktree, agents>>

Next ==
  \/ AddWorktree \/ RemoveWorktree
  \/ \E p \in Procs :
       \/ Begin(p) \/ Lock(p) \/ Read(p) \/ TakeLock(p) \/ Persist(p)
       \/ Leave(p) \/ StartRemoval(p) \/ RemoveEntry(p) \/ EndTeardown(p) \/ Crash(p)

Spec == Init /\ [][Next]_vars

-----------------------------------------------------------------------------
(* The values of the variables; and teardown never goes through the        *)
(* constructor, which would fail on a registry that does not parse.        *)
TypeOK ==
  /\ root \in BOOLEAN /\ worktree \in BOOLEAN
  /\ agents \in {"none", "bare", "registry"}
  /\ verb \in [Procs -> Verbs \cup {"none"}]
  /\ pc \in [Procs -> PCs]
  /\ found \in [Procs -> BOOLEAN]
  /\ \A p \in Procs : pc[p] \in {"read", "inside", "locked"}
                         => verb[p] # "teardown"

(* The registry a command read does not disappear under it, nor do the     *)
(* lock files of agents/ that it holds: the team is torn down around no    *)
(* running command.                                                        *)
RegistryStays ==
  \A p \in Procs :
     /\ pc[p] \in {"inside", "locked"} /\ found[p] => IsTeam
     /\ pc[p] = "locked" => agents # "none"

(* A teardown that reports success leaves no agents/ behind; nobody has    *)
(* made a new one by then.                                                 *)
TeardownIsComplete == \A p \in Procs : pc[p] = "removed" => agents = "none"

(* Whatever was left behind, by a crash in the middle of a teardown, by a  *)
(* command that failed before it wrote a registry, or after the worktree   *)
(* is gone, can still be torn down by name, with either way to find it.    *)
AlwaysRemovable ==
  agents # "none" => \A walked \in BOOLEAN : Passes("teardown", walked)

(* Only git makes a team directory: no orchestrator command creates one    *)
(* for a team that is not there.                                           *)
NoStrayTeam == [][~root /\ root' => worktree']_vars
=============================================================================
