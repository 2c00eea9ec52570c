--------------------------- MODULE MutationCache ---------------------------
(***************************************************************************)
(* `make mutation` and its result cache (tools/mutation_cache.py, the      *)
(* Makefile's mutation recipe, the mutation job of ci.yml).  mutmut keeps  *)
(* a verdict per function between runs and re-measures a function when its *)
(* body changes; mutation_cache.py drops the whole cache when anything     *)
(* else that decides a verdict has changed, which it knows by a digest     *)
(* that `--record` writes after a run has measured and passed the gate.    *)
(*                                                                         *)
(* The workspace is a developer's, where trees are edited in place and     *)
(* runs are killed, or a hosted job's, which starts from a checkout and a  *)
(* restored cache and publishes its cache when it succeeds.                *)
(*                                                                         *)
(* HashedSelection, ChecksPassUnselected and CheckKeepsStats are defective *)
(* variants of the definition each precedes; Next does not use them.       *)
(***************************************************************************)
EXTENDS Integers, FiniteSets

CONSTANTS
  Tests,             \* files pytest collects by name, under tests/
  Helpers,           \* other python files under tests/ and tools/nodump/
  Data,              \* files there that are not python
  Harmless,          \* the files that cannot decide a verdict
  Functions,         \* the functions mutmut mutates
  Versions,          \* what a file or a body can contain
  EditWhileRunning,  \* a developer edits while make runs
  MaxEdits,          \* bound on edits
  None

Files == Tests \cup Helpers \cup Data

VARIABLES
  hosted,     \* the workspace belongs to a hosted job
  tree,       \* the working tree
  pc,         \* where the recipe is
  snapshot,   \* the tree mutmut copied to mutants/
  verdicts,   \* mutants/: what each function was measured under
  stats,      \* mutants/mutmut-cicd-stats.json
  recorded,   \* reports/mutation-test-inputs.sha256
  saved,      \* the caches hosted jobs have published
  edits       \* edits so far

vars == <<hosted, tree, pc, snapshot, verdicts, stats, recorded, saved, edits>>

-----------------------------------------------------------------------------
(* A tree holds the files (None: not there), the mutated module's          *)
(* functions and the frame around them with pytest's options, and the      *)
(* three lists: mutmut's selection, DIGEST_EXCLUSIONS and DIGEST_EXTRA.    *)
(* An exclusion carries a reason, which a review has found true.           *)
Trees == [content  : [Files -> Versions \cup {None}],
          body     : [Functions -> Versions],
          frame    : Versions,
          selected : SUBSET Tests,
          excluded : SUBSET Harmless,
          extra    : SUBSET Data]

Present(t) == {f \in Files : t.content[f] # None}

HashedSelection(t) == t.selected \cup t.extra

Hashed(t) ==
  t.selected \cup t.extra \cup ((Present(t) \cap (Tests \cup Helpers)) \ t.excluded)

Digest(t) == [files |-> [f \in Hashed(t) |-> t.content[f]], frame |-> t.frame]

Digests == [files : UNION {[S -> Versions] : S \in SUBSET Files}, frame : Versions]

ChecksPassUnselected(t) ==
  /\ Present(t) \cap Data \subseteq t.extra \cup t.excluded
  /\ t.excluded \subseteq Present(t)
  /\ Hashed(t) \subseteq Present(t)

(* Checks A, B and D.  (C relates two lists of pyproject.toml that do not  *)
(* change here.)  A hashed file that is missing fails the reading of it.   *)
ChecksPass(t) ==
  /\ Present(t) \cap Data \subseteq t.extra \cup t.excluded
  /\ t.excluded \subseteq Present(t)
  /\ \A f \in Present(t) \cap Tests : f \in t.selected <=> f \notin t.excluded
  /\ Hashed(t) \subseteq Present(t)

(* What a verdict depends on besides the body of its function. *)
Context(t) == [seen     |-> [f \in Present(t) \ Harmless |-> t.content[f]],
               selected |-> t.selected,
               frame    |-> t.frame]

Contexts == [seen     : UNION {[S -> Versions] : S \in SUBSET Files},
             selected : SUBSET Tests,
             frame    : Versions]

Verdicts == [body : Versions, under : Contexts]

NoVerdicts == [f \in Functions |-> None]

ASSUME ConstantsOK ==
  /\ Harmless \subseteq Files
  /\ Helpers \cap Tests = {} /\ Data \cap (Tests \cup Helpers) = {}
  /\ EditWhileRunning \in BOOLEAN
  /\ MaxEdits \in Nat
  /\ None \notin Versions \cup Verdicts \cup [Functions -> Verdicts] \cup Digests

Caches == [verdicts : [Functions -> Verdicts], stats : [Functions -> Verdicts],
           recorded : Digests]

-----------------------------------------------------------------------------
Init ==
  /\ hosted \in BOOLEAN
  /\ \E v \in Versions : tree = [content  |-> [f \in Files |-> v],
                                body     |-> [f \in Functions |-> v],
                                frame    |-> v,
                                selected |-> Tests \ Harmless,
                                excluded |-> Harmless,
                                extra    |-> Data \ Harmless]
  /\ pc = "idle"
  /\ snapshot = tree
  /\ verdicts = NoVerdicts
  /\ stats = None
  /\ recorded = None
  /\ saved = {}
  /\ edits = 0

(* One edit of the tree, or the next commit of a hosted job. *)
Edited(t) ==
  {[t EXCEPT !.content[f] = v] : f \in Files, v \in Versions \cup {None}}
    \cup {[t EXCEPT !.body[f] = v] : f \in Functions, v \in Versions}
    \cup {[t EXCEPT !.frame = v] : v \in Versions}
    \cup {[t EXCEPT !.selected = S] : S \in SUBSET Tests}
    \cup {[t EXCEPT !.excluded = S] : S \in SUBSET Harmless}
    \cup {[t EXCEPT !.extra = S] : S \in SUBSET Data}

Edit ==
  /\ edits < MaxEdits
  /\ pc = "idle" \/ (EditWhileRunning /\ ~hosted)
  /\ \E t \in Edited(tree) \ {tree} : tree' = t
  /\ edits' = edits + 1
  /\ UNCHANGED <<hosted, pc, snapshot, verdicts, stats, recorded, saved>>

(* A developer runs make mutation in the workspace as it stands. *)
Make ==
  /\ ~hosted
  /\ pc = "idle"
  /\ pc' = "check"
  /\ UNCHANGED <<hosted, tree, snapshot, verdicts, stats, recorded, saved, edits>>

(* A hosted job checks a commit out and restores a published cache, or     *)
(* finds none to restore.                                                  *)
StartJob ==
  /\ hosted
  /\ pc = "idle"
  /\ pc' = "check"
  /\ \/ /\ verdicts' = NoVerdicts
        /\ stats' = None
        /\ recorded' = None
     \/ \E c \in saved : /\ verdicts' = c.verdicts
                         /\ stats' = c.stats
                         /\ recorded' = c.recorded
  /\ UNCHANGED <<hosted, tree, snapshot, saved, edits>>

(* mutation_cache.py: a failed check ends the recipe; the stats of an      *)
(* earlier run go; the cache stays when the digest is the recorded one.    *)
RefuseTree ==
  /\ pc \in {"check", "record"}
  /\ ~ChecksPass(tree)
  /\ pc' = "idle"
  /\ UNCHANGED <<hosted, tree, snapshot, verdicts, stats, recorded, saved, edits>>

CheckKeepsStats ==
  /\ pc = "check"
  /\ ChecksPass(tree)
  /\ pc' = IF recorded = Digest(tree) THEN "copy" ELSE "drop"
  /\ UNCHANGED <<hosted, tree, snapshot, verdicts, stats, recorded, saved, edits>>

Check ==
  /\ pc = "check"
  /\ ChecksPass(tree)
  /\ stats' = None
  /\ pc' = IF recorded = Digest(tree) THEN "copy" ELSE "drop"
  /\ UNCHANGED <<hosted, tree, snapshot, verdicts, recorded, saved, edits>>

(* shutil.rmtree of mutants/ *)
Drop ==
  /\ pc = "drop"
  /\ verdicts' = NoVerdicts
  /\ pc' = "copy"
  /\ UNCHANGED <<hosted, tree, snapshot, stats, recorded, saved, edits>>

(* mutmut copies the tree and forgets the verdicts of changed functions. *)
Copy ==
  /\ pc = "copy"
  /\ snapshot' = tree
  /\ verdicts' = [f \in Functions |->
                    IF verdicts[f] # None /\ verdicts[f].body = tree.body[f]
                      THEN verdicts[f] ELSE None]
  /\ pc' = "measure"
  /\ UNCHANGED <<hosted, tree, stats, recorded, saved, edits>>

(* mutmut measures the functions that have no verdict. *)
Measure(f) ==
  /\ pc = "measure"
  /\ verdicts[f] = None
  /\ verdicts' = [verdicts EXCEPT ![f] = [body  |-> snapshot.body[f],
                                          under |-> Context(snapshot)]]
  /\ UNCHANGED <<hosted, tree, pc, snapshot, stats, recorded, saved, edits>>

Export ==
  /\ pc = "measure"
  /\ \A f \in Functions : verdicts[f] # None
  /\ stats' = verdicts
  /\ pc' = "gate"
  /\ UNCHANGED <<hosted, tree, snapshot, verdicts, recorded, saved, edits>>

(* mutation_gate.py: the score is above the floor or below it. *)
PassGate ==
  /\ pc = "gate"
  /\ stats # None
  /\ pc' = "record"
  /\ UNCHANGED <<hosted, tree, snapshot, verdicts, stats, recorded, saved, edits>>

(* mutation_cache.py --record hashes the tree as it is now. *)
Record ==
  /\ pc = "record"
  /\ ChecksPass(tree)
  /\ recorded' = Digest(tree)
  /\ pc' = IF hosted THEN "save" ELSE "idle"
  /\ UNCHANGED <<hosted, tree, snapshot, verdicts, stats, saved, edits>>

(* The job publishes mutants/ and the digest; after an exact cache hit it  *)
(* publishes nothing, and so ends like a stopped one.                      *)
Save ==
  /\ pc = "save"
  /\ saved' = saved \cup {[verdicts |-> verdicts, stats |-> stats,
                             recorded |-> recorded]}
  /\ pc' = "idle"
  /\ UNCHANGED <<hosted, tree, snapshot, verdicts, stats, recorded, edits>>

(* A failing gate, a failing command or a signal ends the recipe where it  *)
(* is; in the middle of the rmtree some of mutants/ is gone.               *)
Stop ==
  /\ pc # "idle"
  /\ pc' = "idle"
  /\ \/ UNCHANGED verdicts
     \/ /\ pc = "drop"
        /\ \E S \in SUBSET Functions :
              verdicts' = [f \in Functions |-> IF f \in S THEN None ELSE verdicts[f]]
  /\ UNCHANGED <<hosted, tree, snapshot, stats, recorded, saved, edits>>

Next ==
  \/ Edit \/ Make \/ StartJob \/ RefuseTree \/ Check \/ Drop \/ Copy
  \/ (\E f \in Functions : Measure(f))
  \/ Export \/ PassGate \/ Record \/ Save \/ Stop

Spec == Init /\ [][Next]_vars

-----------------------------------------------------------------------------
TypeOK ==
  /\ hosted \in BOOLEAN
  /\ tree \in Trees
  /\ pc \in {"idle", "check", "drop", "copy", "measure", "gate", "record", "save"}
  /\ snapshot \in Trees
  /\ verdicts \in [Functions -> Verdicts \cup {None}]
  /\ stats \in {None} \cup [Functions -> Verdicts]
  /\ recorded \in Digests \cup {None}
  /\ saved \subseteq Caches
  /\ edits \in 0 .. MaxEdits

(* Every published cache holds verdicts that were measured under the       *)
(* inputs its digest was taken of (ci.yml:150-154, "a saved cache always   *)
(* carries a digest written by a run that measured and cleared the floor").*)
Reading(d) == [seen     |-> [f \in DOMAIN d.files \ Harmless |-> d.files[f]],
               selected |-> Tests \cap DOMAIN d.files,
               frame    |-> d.frame]

CachesAreMeasured ==
  \A c \in saved, f \in Functions : c.verdicts[f].under = Reading(c.recorded)

(* The gate counts what this run's tree decides: every verdict it reads    *)
(* was measured under the tests, the other inputs and the body that the    *)
(* run copied (mutation_cache.py:2, "Drop mutmut's cache when anything     *)
(* that decides a verdict has changed").                                   *)
Measured(f) == /\ stats[f].body = snapshot.body[f]
               /\ stats[f].under = Context(snapshot)

VerdictsAreCurrent == pc = "gate" => \A f \in Functions : Measured(f)

(* Where a run starts from a checkout and a published cache this holds,    *)
(* whichever cache is restored and however runs before it ended            *)
(* (ci.yml:150-154).                                                       *)
HostedVerdictsAreCurrent == hosted => VerdictsAreCurrent

(* No test that can decide a verdict is left out of the measurement the    *)
(* gate reads, unless the tree is edited between the checks and mutmut's   *)
(* copy of it (mutation_cache.py, check D).                                *)
NothingLeftOut ==
  pc = "gate" /\ (hosted \/ ~EditWhileRunning) =>
    (Present(snapshot) \cap Tests) \ Harmless \subseteq snapshot.selected

(* The gate never reads the stats of an earlier run: whatever stats lie in *)
(* mutants/ are those of the verdicts beside them, also for a developer    *)
(* who runs mutation_gate.py alone after a killed run (check E).           *)
StatsOfTheseVerdicts == stats # None => stats = verdicts
=============================================================================
