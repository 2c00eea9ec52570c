------------------------------ MODULE TeamSearch ------------------------------
(***************************************************************************)
(* Finding teams in a directory tree that commands and git keep changing   *)
(* (orchestrator/teams.py: _walk, discover, resolve; orchestrator/cli.py:  *)
(* _validate_team_name, _resolve_team_root, _resolve_team, _print_teams,   *)
(* _teardown_team; the roots of orchestrator/paths.py).                    *)
(*                                                                         *)
(* A path is a sequence of segments.  A walk reads the tree in one step;   *)
(* symbolic links, which it never enters, are left out.                    *)
(***************************************************************************)
EXTENDS Naturals, FiniteSets, SequencesExt

CONSTANTS
  Segment,      \* what a directory may be called
  Root,         \* $AGENTS_ARMY_ROOT, a path
  TeamsDirs,    \* the values of $AGENTS_ARMY_TEAMS_DIR, paths
  Places,       \* where the user adds worktrees, paths
  Checkouts,    \* what a checkout has of its own: sets of paths with a registry
  Names,        \* what a command gives to --team, sequences of segments
  SearchDepth   \* SEARCH_DEPTH

ASSUME TreeAssumption ==
  /\ {"agents", "worktree"} \subseteq Segment
  /\ Root \in Seq(Segment) /\ TeamsDirs \subseteq Seq(Segment)
  /\ Places \subseteq Seq(Segment) /\ Names \subseteq Seq(Segment)
  /\ UNION Checkouts \subseteq Seq(Segment)
  /\ SearchDepth \in Nat \ {0}

VARIABLES
  dirs,         \* the directories there are
  registries    \* those with a registry in their agents/

treeVars == <<dirs, registries>>

(* $AGENTS_ARMY_TEAMS_DIR as a set: empty when it is not set. *)
Environments == {{}} \cup {{d} : d \in TeamsDirs}

AgentsDir(d) == Append(d, "agents")
Worktree(d)  == Append(d, "worktree")
Parents(ds)  == UNION {{SubSeq(d, 1, i) : i \in 0 .. Len(d)} : d \in ds}
Under(d)     == {e \in dirs : IsPrefix(d, e)}

TreeInit ==
  /\ dirs = Parents({Root})
  /\ registries = {}

-----------------------------------------------------------------------------
IsTeamAt(d)      == d \in registries
IsCandidateAt(d) == AgentsDir(d) \in dirs \/ Worktree(d) \in dirs

Children(d) == {e \in dirs : Len(e) = Len(d) + 1 /\ IsPrefix(d, e)}

(* _walk: the directories it reads, level by level down to some depth, and *)
(* the hits among what they hold; nothing below a stop is read.            *)
(* (Faulty variant: the bound lets one more level in.)                     *)
Entered(from, stops, depth) ==
  LET level[n \in 0 .. depth] ==
        IF n = 0 THEN {from}
        ELSE (UNION {Children(d) : d \in level[n - 1]}) \ stops
  IN  UNION {level[n] : n \in 0 .. depth}

WalkOneMore(from, hits, stops) ==
  UNION {Children(d) \cap hits : d \in Entered(from, stops, SearchDepth)}

Walk(from, hits, stops) ==
  UNION {Children(d) \cap hits : d \in Entered(from, stops, SearchDepth - 1)}

Discover(d) == Walk(d, registries, registries)

Relative(d) == SubSeq(d, Len(Root) + 1, Len(d))

(* resolve.  (Faulty variant: a candidate ends the descent too.) *)
ResolveShadowed(name) ==
  LET candidates == {d \in dirs : IsCandidateAt(d)}
  IN  {d \in Walk(Root, candidates, candidates) : IsSuffix(name, Relative(d))}

Resolve(name) ==
  {d \in Walk(Root, {e \in dirs : IsCandidateAt(e)}, registries) :
     IsSuffix(name, Relative(d))}

(* The directory a name reaches, if any: joined to the configured one,     *)
(* where a qualified name is refused, or the only one a walk finds.        *)
Reached(name, env) ==
  IF env = {}
  THEN IF Cardinality(Resolve(name)) = 1 THEN Resolve(name) ELSE {}
  ELSE {d \o name : d \in IF Len(name) = 1 THEN env ELSE {}}

(* list teams: the teams under the root and the others under the           *)
(* configured directory.  (Faulty variant: a directory that overlaps the   *)
(* root is not walked.)                                                    *)
ListedWithoutOverlap(env) ==
  Discover(Root) \cup
  UNION {Discover(d) : d \in {e \in env : ~IsPrefix(e, Root) /\ ~IsPrefix(Root, e)}}

Listed(env) == Discover(Root) \cup UNION {Discover(d) : d \in env}

-----------------------------------------------------------------------------
(* git worktree add, git worktree remove, and rm -rf of a team.  (Faulty   *)
(* variant: what is deleted is still taken for a team.)                    *)
AddWorktreeAt(p) ==
  /\ Worktree(p) \notin dirs
  /\ \E inside \in Checkouts :
       LET decoys == {Worktree(p) \o q : q \in inside}
       IN  /\ dirs' = dirs \cup Parents({Worktree(p)} \cup {AgentsDir(d) : d \in decoys})
           /\ registries' = registries \cup decoys

DeleteStale(gone) ==
  /\ gone # {}
  /\ dirs' = dirs \ gone
  /\ UNCHANGED registries

Delete(gone) ==
  /\ gone # {}
  /\ dirs' = dirs \ gone
  /\ registries' = {d \in registries : AgentsDir(d) \notin gone}

RemoveWorktreeAt(p) == Delete(Under(Worktree(p)))
RemoveTeam(p)     == Delete(Under(p))

-----------------------------------------------------------------------------
(* create needs worktree/; it leaves a registry, or, if it fails before it *)
(* persists, agents/ with its lock file.                                   *)
Create(d) ==
  /\ Worktree(d) \in dirs
  /\ dirs' = dirs \cup {AgentsDir(d)}
  /\ registries' \in {registries, registries \cup {d}}

(* delete NAME needs the team's directory; its locks make agents/. *)
DeleteAgent(d) ==
  /\ d \in dirs
  /\ dirs' = dirs \cup {AgentsDir(d)}
  /\ UNCHANGED registries

(* Teardown removes agents/ if it is there. *)
Teardown(d) == Delete(Under(AgentsDir(d)))

Command ==
  \E name \in Names, env \in Environments :
    \E d \in Reached(name, env) : Create(d) \/ DeleteAgent(d) \/ Teardown(d)

TreeNext ==
  \/ \E p \in Places : AddWorktreeAt(p) \/ RemoveWorktreeAt(p) \/ RemoveTeam(p)
  \/ Command

TreeSpec == TreeInit /\ [][TreeNext]_treeVars

-----------------------------------------------------------------------------
(* A directory's parents are there (teams.py reads a tree), and so is      *)
(* agents/ around a registry.                                              *)
TreeTypeOK ==
  /\ dirs \subseteq Seq(Segment)
  /\ registries \subseteq dirs
  /\ Parents(dirs) = dirs
  /\ {AgentsDir(d) : d \in registries} \subseteq dirs

(* A registry strictly between the directory a walk starts from and d. *)
Hidden(from, d) == \E t \in registries : IsStrictPrefix(from, t) /\ IsStrictPrefix(t, d)

(* The walk finds exactly the teams at most SearchDepth levels down that   *)
(* are not inside another team, wherever it starts: what discover and      *)
(* SEARCH_DEPTH are documented to do.                                      *)
DiscoverIsDocumented ==
  \A from \in {Root} \cup TeamsDirs :
     Discover(from) = {d \in registries : /\ IsStrictPrefix(from, d)
                                          /\ Len(d) - Len(from) <= SearchDepth
                                          /\ ~Hidden(from, d)}

(* Whatever team with a registry a command can reach by name, list teams   *)
(* shows under the same environment: discover and resolve walk by          *)
(* different rules, and the configured directory may overlap the root.     *)
ReachableIsListed ==
  \A name \in Names, env \in Environments :
     \A d \in Reached(name, env) : IsTeamAt(d) => d \in Listed(env)

(* A name is never silently redirected: while the team it reached is       *)
(* there, and nobody makes a team of a directory above it, the name        *)
(* reaches that team or is ambiguous, whatever else is added, torn down,   *)
(* or left behind half made.                                               *)
NeverRedirected ==
  [][\A name \in Names :
       \A d \in Reached(name, {}) :
          IsCandidateAt(d)' /\ ~Hidden(Root, d)' => d \in Resolve(name)']_treeVars
=============================================================================
