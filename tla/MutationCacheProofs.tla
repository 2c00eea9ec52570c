------------------------ MODULE MutationCacheProofs ------------------------
(* Proofs about MutationCache for any files, functions and contents.       *)
EXTENDS MutationCache, TLAPS

(* Whether the tree mutmut copies is the tree that was checked. *)
Steady == hosted \/ ~EditWhileRunning

Checked ==
  Steady => /\ pc \in {"drop", "copy"} => ChecksPass(tree)
            /\ pc \in {"measure", "gate", "record"} => /\ ChecksPass(snapshot)
                                                       /\ snapshot = tree

(* The stats are there from the export to the next check only. *)
Exported ==
  /\ StatsOfTheseVerdicts
  /\ pc \in {"drop", "copy", "measure"} => stats = None
  /\ pc \in {"gate", "record", "save"} => stats # None
  /\ \A c \in saved : c.stats = c.verdicts

(* What the verdicts of a hosted job were measured under, at each step. *)
UnderDigest ==
  \A f \in Functions : verdicts[f] # None => /\ recorded # None
                                             /\ verdicts[f].under = Reading(recorded)

UnderTree ==
  \A f \in Functions : verdicts[f] # None => verdicts[f].under = Context(tree)

OfSnapshot ==
  \A f \in Functions : verdicts[f] # None => verdicts[f].body = snapshot.body[f]

Sound ==
  hosted => /\ pc \in {"check", "save"} => UnderDigest
            /\ pc \in {"copy", "measure", "gate", "record"} => UnderTree
            /\ pc \in {"measure", "gate"} => OfSnapshot

IInv ==
  /\ TypeOK
  /\ Checked
  /\ Exported
  /\ Sound
  /\ pc = "save" => hosted /\ recorded # None
  /\ CachesAreMeasured

-----------------------------------------------------------------------------
(* The digest of a tree that passes the checks determines everything else  *)
(* that a verdict depends on.                                              *)
LEMMA DigestDetermines ==
  ASSUME NEW t \in Trees, ChecksPass(t)
  PROVE  Context(t) = Reading(Digest(t))
<1> DEFINE d == Digest(t)
<1>1. DOMAIN d.files = Hashed(t) /\ d.frame = t.frame
  BY DEF Digest
<1>2. Present(t) \ Harmless = DOMAIN d.files \ Harmless
  <2>1. Present(t) \subseteq Files /\ Hashed(t) \subseteq Present(t)
    BY DEF Present, ChecksPass
  <2>2. ASSUME NEW f \in Present(t), f \notin Harmless PROVE f \in Hashed(t)
    <3>1. f \notin t.excluded
      BY <2>2 DEF Trees
    <3> QED BY <2>1, <3>1 DEF ChecksPass, Hashed, Files
  <2> QED BY <1>1, <2>1, <2>2
<1>3. \A f \in DOMAIN d.files : d.files[f] = t.content[f]
  BY DEF Digest
<1>4. t.selected = Tests \cap DOMAIN d.files
  <2>1. t.selected \subseteq Tests /\ t.extra \subseteq Data
    BY DEF Trees
  <2>2. Hashed(t) \subseteq Present(t)
    BY DEF ChecksPass
  <2>3. ASSUME NEW f \in Tests, f \in Hashed(t) PROVE f \in t.selected
    BY <2>1, <2>2, <2>3, ConstantsOK DEF ChecksPass, Hashed
  <2> QED BY <1>1, <2>1, <2>3 DEF Hashed
<1> HIDE DEF d
<1>5. Context(t) = Reading(d)
  BY <1>1, <1>2, <1>3, <1>4 DEF Context, Reading
<1> QED BY <1>5 DEF d

LEMMA DigestType ==
  ASSUME NEW t \in Trees, ChecksPass(t) PROVE Digest(t) \in Digests
<1>1. Hashed(t) \in SUBSET Files
  BY DEF ChecksPass, Present
<1>2. \A f \in Hashed(t) : t.content[f] \in Versions
  BY DEF ChecksPass, Present, Trees
<1>3. [f \in Hashed(t) |-> t.content[f]] \in [Hashed(t) -> Versions]
  BY <1>2
<1>4. t.frame \in Versions
  BY DEF Trees
<1> QED BY <1>1, <1>3, <1>4 DEF Digest, Digests

LEMMA ContextType == ASSUME NEW t \in Trees PROVE Context(t) \in Contexts
<1>1. Present(t) \ Harmless \in SUBSET Files
  BY DEF Present
<1>2. \A f \in Present(t) : t.content[f] \in Versions
  BY DEF Present, Trees
<1>3. [f \in Present(t) \ Harmless |-> t.content[f]]
         \in [Present(t) \ Harmless -> Versions]
  BY <1>2
<1>4. t.frame \in Versions /\ t.selected \in SUBSET Tests
  BY DEF Trees
<1> QED BY <1>1, <1>3, <1>4 DEF Context, Contexts

LEMMA EditedType == ASSUME NEW t \in Trees, NEW u \in Edited(t) PROVE u \in Trees
<1> USE DEF Trees
<1>1. ASSUME NEW f \in Files, NEW v \in Versions \cup {None},
             u = [t EXCEPT !.content[f] = v]
      PROVE  u \in Trees
  <2>1. [t.content EXCEPT ![f] = v] \in [Files -> Versions \cup {None}]
    OBVIOUS
  <2>2. u = [t EXCEPT !.content = [t.content EXCEPT ![f] = v]]
    BY <1>1
  <2> QED BY <2>1, <2>2
<1>2. ASSUME NEW f \in Functions, NEW v \in Versions, u = [t EXCEPT !.body[f] = v]
      PROVE  u \in Trees
  <2>1. [t.body EXCEPT ![f] = v] \in [Functions -> Versions]
    OBVIOUS
  <2>2. u = [t EXCEPT !.body = [t.body EXCEPT ![f] = v]]
    BY <1>2
  <2> QED BY <2>1, <2>2
<1>3. ASSUME NEW v \in Versions, u = [t EXCEPT !.frame = v] PROVE u \in Trees
  BY <1>3
<1>4. ASSUME NEW S \in SUBSET Tests, u = [t EXCEPT !.selected = S] PROVE u \in Trees
  BY <1>4
<1>5. ASSUME NEW S \in SUBSET Harmless, u = [t EXCEPT !.excluded = S] PROVE u \in Trees
  BY <1>5
<1>6. ASSUME NEW S \in SUBSET Data, u = [t EXCEPT !.extra = S] PROVE u \in Trees
  BY <1>6
<1> QED BY <1>1, <1>2, <1>3, <1>4, <1>5, <1>6 DEF Edited

-----------------------------------------------------------------------------
(* The untouched workspace satisfies the invariant. *)
LEMMA InitIInv == ASSUME Init PROVE IInv
<1>1. TypeOK
  <2>1. tree \in Trees
    <3>1. Tests \ Harmless \in SUBSET Tests /\ Data \ Harmless \in SUBSET Data
      OBVIOUS
    <3> QED BY <3>1 DEF Init, Trees
  <2>2. hosted \in BOOLEAN
    BY Zenon DEF Init
  <2>3. 0 \in 0 .. MaxEdits
    BY ConstantsOK
  <2> QED BY <2>1, <2>2, <2>3 DEF Init, TypeOK, NoVerdicts
<1>2. Checked /\ Exported /\ Sound
  BY DEF Init, Checked, Exported, Sound, StatsOfTheseVerdicts
<1> QED BY <1>1, <1>2 DEF IInv, Init, CachesAreMeasured

(* Every step keeps the values of the variables in their types. *)
LEMMA TypeStep == ASSUME IInv, [Next]_vars PROVE TypeOK'
<1> USE DEF IInv, TypeOK
<1>h. hosted' \in BOOLEAN
  <2>1. hosted' = hosted
    BY DEF Next, vars, Edit, Make, StartJob, RefuseTree, Check, Drop, Copy, Measure,
           Export, PassGate, Record, Save, Stop
  <2> QED BY <2>1
<1>1. CASE Edit
  <2>1. tree' \in Trees
    BY <1>1, EditedType DEF Edit
  <2>2. edits' \in 0 .. MaxEdits
    BY <1>1, ConstantsOK DEF Edit
  <2> QED BY <1>1, <1>h, <2>1, <2>2 DEF Edit
<1>2. CASE StartJob
  <2>1. CASE UNCHANGED saved /\ verdicts' = NoVerdicts /\ stats' = None /\ recorded' = None
    BY <1>2, <1>h, <2>1 DEF StartJob, NoVerdicts
  <2>2. ASSUME NEW c \in saved,
               verdicts' = c.verdicts, stats' = c.stats, recorded' = c.recorded
        PROVE  TypeOK'
    <3>1. /\ c.verdicts \in [Functions -> Verdicts]
          /\ c.stats \in [Functions -> Verdicts]
          /\ c.recorded \in Digests
      BY DEF Caches
    <3> QED BY <1>2, <1>h, <2>2, <3>1 DEF StartJob
  <2> QED BY <1>2, <2>1, <2>2 DEF StartJob
<1>3. CASE Check
  BY <1>3, <1>h DEF Check
<1>4. CASE Drop
  BY <1>4, <1>h DEF Drop, NoVerdicts
<1>5. CASE Copy
  BY <1>5, <1>h DEF Copy
<1>6. ASSUME NEW f \in Functions, Measure(f) PROVE TypeOK'
  <2>1. snapshot.body[f] \in Versions
    BY DEF Trees
  <2>2. [body |-> snapshot.body[f], under |-> Context(snapshot)] \in Verdicts
    BY <2>1, ContextType DEF Verdicts
  <2> QED BY <1>6, <1>h, <2>2 DEF Measure
<1>7. CASE Export
  <2>1. stats' \in [Functions -> Verdicts]
    BY <1>7 DEF Export
  <2> QED BY <1>7, <1>h, <2>1 DEF Export
<1>8. CASE Record
  BY <1>8, <1>h, DigestType DEF Record
<1>9. CASE Save
  <2>1. stats \in [Functions -> Verdicts] /\ verdicts = stats /\ recorded \in Digests
    BY <1>9 DEF Save, Exported, StatsOfTheseVerdicts
  <2>2. [verdicts |-> verdicts, stats |-> stats, recorded |-> recorded] \in Caches
    BY <2>1 DEF Caches
  <2> QED BY <1>9, <1>h, <2>2 DEF Save
<1>10. CASE Stop
  BY <1>10, <1>h DEF Stop
<1>11. CASE Make \/ RefuseTree \/ PassGate
  BY <1>11, <1>h DEF Make, RefuseTree, PassGate
<1>12. CASE UNCHANGED vars
  BY <1>12, <1>h DEF vars
<1> QED BY <1>1, <1>2, <1>3, <1>4, <1>5, <1>6, <1>7, <1>8, <1>9, <1>10, <1>11, <1>12
        DEF Next

(* Every step keeps what the later steps of a run rely on. *)
LEMMA InvStep == ASSUME IInv, [Next]_vars PROVE IInv'
<1> USE DEF IInv
<1>t. TypeOK'
  BY TypeStep
<1>1. Checked'
  <2> USE DEF Checked, Steady
  <2>1. CASE Edit
    BY <2>1 DEF Edit
  <2>2. CASE StartJob
    BY <2>2 DEF StartJob
  <2>3. CASE Check \/ Drop \/ Copy
    BY <2>3 DEF Check, Drop, Copy
  <2>4. CASE \E f \in Functions : Measure(f)
    BY <2>4 DEF Measure
  <2>5. CASE Export \/ PassGate \/ Record \/ Save \/ Stop \/ Make \/ RefuseTree
    BY <2>5 DEF Export, PassGate, Record, Save, Stop, Make, RefuseTree
  <2>6. CASE UNCHANGED vars
    BY <2>6 DEF vars
  <2> QED BY <2>1, <2>2, <2>3, <2>4, <2>5, <2>6 DEF Next
<1>2. Exported'
  <2> USE DEF Exported, StatsOfTheseVerdicts
  <2>1. CASE Edit
    BY <2>1 DEF Edit
  <2>2. CASE StartJob
    BY <2>2 DEF StartJob
  <2>3. CASE Check \/ Drop \/ Copy
    BY <2>3 DEF Check, Drop, Copy
  <2>4. CASE \E f \in Functions : Measure(f)
    BY <2>4 DEF Measure
  <2>5. CASE Export
    <3>1. stats' \in [Functions -> Verdicts]
      BY <2>5 DEF Export, TypeOK
    <3>2. stats' # None
      BY <3>1, ConstantsOK
    <3> QED BY <2>5, <3>2 DEF Export
  <2>6. CASE Stop
    BY <2>6 DEF Stop
  <2>7. CASE Save
    BY <2>7 DEF Save
  <2>8. CASE PassGate \/ Record \/ Make \/ RefuseTree
    BY <2>8 DEF PassGate, Record, Make, RefuseTree
  <2>9. CASE UNCHANGED vars
    BY <2>9 DEF vars
  <2> QED BY <2>1, <2>2, <2>3, <2>4, <2>5, <2>6, <2>7, <2>8, <2>9 DEF Next
<1>3. Sound'
  <2> USE DEF Sound, UnderDigest, UnderTree, OfSnapshot
  <2> SUFFICES ASSUME hosted' PROVE Sound'
    OBVIOUS
  <2>h. hosted
    BY DEF Next, vars, Edit, Make, StartJob, RefuseTree, Check, Drop, Copy, Measure,
           Export, PassGate, Record, Save, Stop
  <2>1. CASE Edit
    BY <2>1, <2>h DEF Edit
  <2>2. CASE StartJob
    <3>1. CASE verdicts' = NoVerdicts
      BY <2>2, <3>1 DEF StartJob, NoVerdicts
    <3>2. ASSUME NEW c \in saved, verdicts' = c.verdicts, recorded' = c.recorded
          PROVE  UnderDigest'
      <4>1. recorded' # None
        BY <3>2, ConstantsOK DEF TypeOK, Caches
      <4> QED BY <3>2, <4>1 DEF CachesAreMeasured
    <3> QED BY <2>2, <3>1, <3>2 DEF StartJob
  <2>3. CASE Check
    <3>1. tree \in Trees /\ ChecksPass(tree)
      BY <2>3 DEF Check, TypeOK
    <3>2. CASE recorded = Digest(tree)
      BY <2>3, <2>h, <3>1, <3>2, DigestDetermines DEF Check
    <3>3. CASE recorded # Digest(tree)
      BY <2>3, <3>3 DEF Check
    <3> QED BY <3>2, <3>3
  <2>4. CASE Drop
    BY <2>4 DEF Drop, NoVerdicts
  <2>5. CASE Copy
    BY <2>5, <2>h DEF Copy
  <2>6. ASSUME NEW f \in Functions, Measure(f) PROVE Sound'
    <3>1. snapshot = tree
      BY <2>6, <2>h DEF Measure, Checked, Steady
    <3>2. \A g \in Functions : verdicts'[g] =
             IF g = f THEN [body |-> snapshot.body[f], under |-> Context(snapshot)]
                      ELSE verdicts[g]
      BY <2>6 DEF Measure, TypeOK
    <3> QED BY <2>6, <2>h, <3>1, <3>2 DEF Measure
  <2>7. CASE Export \/ PassGate \/ RefuseTree \/ Save
    BY <2>7, <2>h DEF Export, PassGate, RefuseTree, Save
  <2>8. CASE Record
    <3>1. tree \in Trees /\ ChecksPass(tree)
      BY <2>8 DEF Record, TypeOK
    <3>2. recorded' # None
      BY <2>8, <3>1, DigestType, ConstantsOK DEF Record
    <3> QED BY <2>8, <2>h, <3>1, <3>2, DigestDetermines DEF Record
  <2>9. CASE Stop
    BY <2>9 DEF Stop
  <2>10. CASE Make
    BY <2>10, <2>h DEF Make
  <2>11. CASE UNCHANGED vars
    BY <2>11, <2>h DEF vars
  <2> QED BY <2>1, <2>2, <2>3, <2>4, <2>5, <2>6, <2>7, <2>8, <2>9, <2>10, <2>11
          DEF Next
<1>4. (pc = "save" => hosted /\ recorded # None)'
  <2>1. CASE Record
    <3>1. recorded' # None
      BY <2>1, DigestType, ConstantsOK DEF Record, TypeOK
    <3> QED BY <2>1, <3>1 DEF Record
  <2>2. CASE UNCHANGED vars
    BY <2>2 DEF vars
  <2>3. CASE Edit
    BY <2>3 DEF Edit
  <2>4. CASE ~Record /\ ~Edit /\ Next
    BY <2>4 DEF Next, Make, StartJob, RefuseTree, Check, Drop, Copy, Measure,
                Export, PassGate, Save, Stop
  <2> QED BY <2>1, <2>2, <2>3, <2>4
<1>5. CachesAreMeasured'
  <2> USE DEF CachesAreMeasured
  <2>1. CASE Save
    <3>1. \A f \in Functions : verdicts[f].under = Reading(recorded)
      <4>1. stats \in [Functions -> Verdicts] /\ verdicts = stats
        BY <2>1 DEF Save, TypeOK, Exported, StatsOfTheseVerdicts
      <4>2. \A f \in Functions : verdicts[f] # None
        BY <4>1, ConstantsOK
      <4> QED BY <2>1, <4>2 DEF Save, Sound, UnderDigest
    <3> QED BY <2>1, <3>1 DEF Save
  <2>2. CASE ~Save
    <3>1. UNCHANGED saved
      BY <2>2 DEF Next, vars, Edit, Make, StartJob, RefuseTree, Check, Drop, Copy,
                  Measure, Export, PassGate, Record, Stop
    <3> QED BY <3>1
  <2> QED BY <2>1, <2>2
<1> QED BY <1>t, <1>1, <1>2, <1>3, <1>4, <1>5

LEMMA AlwaysIInv == Spec => []IInv
<1>1. IInv /\ [Next]_vars => IInv'
  BY InvStep
<1> QED BY <1>1, InitIInv, PTL DEF Spec

-----------------------------------------------------------------------------
(* Every variable keeps its type: in particular a cache is published whole *)
(* or not at all (ci.yml:155-162).                                         *)
THEOREM TypeCorrect == Spec => []TypeOK
<1>1. IInv => TypeOK
  BY DEF IInv
<1> QED BY <1>1, AlwaysIInv, PTL

(* A published cache holds verdicts measured under the inputs its digest   *)
(* was taken of (ci.yml:150-154).                                          *)
THEOREM PublishedCachesHold == Spec => []CachesAreMeasured
<1>1. IInv => CachesAreMeasured
  BY DEF IInv
<1> QED BY <1>1, AlwaysIInv, PTL

(* The gate of a hosted job counts only verdicts of the tree it checked    *)
(* out, whichever published cache it restored (mutation_cache.py:489-539). *)
THEOREM HostedGateIsSound == Spec => []HostedVerdictsAreCurrent
<1>1. IInv => HostedVerdictsAreCurrent
  <2> SUFFICES ASSUME IInv, hosted, pc = "gate", NEW f \in Functions
               PROVE  Measured(f)
    BY DEF HostedVerdictsAreCurrent, VerdictsAreCurrent
  <2>1. stats = verdicts /\ stats \in [Functions -> Verdicts] /\ snapshot = tree
    BY DEF IInv, TypeOK, Exported, StatsOfTheseVerdicts, Checked, Steady
  <2>2. verdicts[f] # None
    BY <2>1, ConstantsOK
  <2> QED BY <2>1, <2>2 DEF IInv, Sound, UnderTree, OfSnapshot, Measured
<1> QED BY <1>1, AlwaysIInv, PTL

(* Every test that can decide a verdict takes part in the measurement the  *)
(* gate reads, when the tree stands still (mutation_cache.py:430-477).     *)
THEOREM EveryTestTakesPart == Spec => []NothingLeftOut
<1>1. IInv => NothingLeftOut
  BY DEF IInv, TypeOK, Trees, Checked, Steady, ChecksPass, NothingLeftOut
<1> QED BY <1>1, AlwaysIInv, PTL

(* The gate never reads the stats of an earlier run                        *)
(* (mutation_cache.py:523-525).                                            *)
THEOREM StatsAreFresh == Spec => []StatsOfTheseVerdicts
<1>1. IInv => StatsOfTheseVerdicts
  BY DEF IInv, Exported
<1> QED BY <1>1, AlwaysIInv, PTL
=============================================================================
