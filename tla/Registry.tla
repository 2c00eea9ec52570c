------------------------------ MODULE Registry ------------------------------
(***************************************************************************)
(* The agent registry shared by concurrent orchestrator commands           *)
(* (orchestrator/core.py: Agent.talk and class Orchestrator).              *)
(*                                                                         *)
(* The registry is one JSON file.  A command that changes it takes the     *)
(* state lock, reloads the file, changes its own copy, writes that to a    *)
(* fixed temporary file and renames it over the registry.  talk and chat   *)
(* hold their agent's lock around all of that and around the CLI run; here *)
(* an agent lock has at most one owner, which is what AgentLock shows of   *)
(* the lock files.                                                         *)
(*                                                                         *)
(* Session ids are opaque and compared only for equality, so an id that    *)
(* nothing refers to any more may be handed out again, and the lowest such *)
(* number stands for all of them.                                          *)
(***************************************************************************)
EXTENDS Naturals, FiniteSets

CONSTANTS
  Procs,      \* slots that run one orchestrator command after the other
  Names,      \* agent names
  Sessions,   \* session ids a backend CLI may report, naturals
  None,       \* no process, no session, no entry, no temporary file
  Leftover    \* a temporary file whose writer died before renaming it

ASSUME RegistryAssumption ==
  /\ Sessions \subseteq Nat
  /\ None \notin Procs \cup Names \cup Nat

Entry == [session : Sessions \cup {None}, pending : Sessions \cup {None}]

ASSUME SpecialValues ==
  /\ None \notin Entry
  /\ {None, Leftover} \cap [Names -> Entry \cup {None}] = {}

Registries == [Names -> Entry \cup {None}]

VARIABLES
  file,       \* orchestrator_state.json: the entry of every name, or None
  tmp,        \* the temporary file beside it: a registry, Leftover, or None
  stateLock,  \* holder of the state lock, or None
  owner,      \* holder of every agent's lock, or None
  pc,         \* where each slot is in its command
  job,        \* what the slot is doing to the registry
  name,       \* the agent the command names
  source,     \* fork: the agent it copies
  mem,        \* the copy of the registry a slot is changing, or None
  agent,      \* the Agent object a turn or chat works on, or None
  orphan      \* history: that agent was deleted since it was looked up

vars ==
  <<file, tmp, stateLock, owner, pc, job, name, source, mem, agent, orphan>>

Jobs == {"create", "fork", "delete", "lookup", "record", "chat", "none"}

(* Program counters inside the state lock, and those inside an agent lock  *)
(* but outside it.                                                         *)
InState == {"read", "write", "swap", "free", "fail"}

PCs == {"idle", "wait_agent", "wait_state", "running", "done", "chat_read",
        "chatting", "reclaim", "reclaiming", "leave"} \cup InState

Goto(p, l) == pc' = [pc EXCEPT ![p] = l]

(* The command is over: its process is gone, and what it knew with it. *)
End(p) ==
  /\ Goto(p, "idle")
  /\ job' = [job EXCEPT ![p] = "none"]
  /\ name' = [name EXCEPT ![p] = None]
  /\ source' = [source EXCEPT ![p] = None]
  /\ mem' = [mem EXCEPT ![p] = None]
  /\ agent' = [agent EXCEPT ![p] = None]
  /\ orphan' = [orphan EXCEPT ![p] = FALSE]

Init ==
  /\ file = [n \in Names |-> None]
  /\ tmp = None
  /\ stateLock = None
  /\ owner = [n \in Names |-> None]
  /\ pc = [p \in Procs |-> "idle"]
  /\ job = [p \in Procs |-> "none"]
  /\ name = [p \in Procs |-> None]
  /\ source = [p \in Procs |-> None]
  /\ mem = [p \in Procs |-> None]
  /\ agent = [p \in Procs |-> None]
  /\ orphan = [p \in Procs |-> FALSE]

-----------------------------------------------------------------------------
(* Ids in use: in the registry, in the temporary file, in some process.    *)
EntriesOf(r) ==
  IF r \in {None, Leftover} THEN {} ELSE {r[n] : n \in Names} \ {None}

Entries ==
  EntriesOf(file) \cup EntriesOf(tmp)
    \cup (UNION {EntriesOf(mem[p]) : p \in Procs})
    \cup ({agent[p] : p \in Procs} \ {None})

Lowest(S) == {x \in S : \A y \in S : x <= y}

FreshSession ==
  Lowest(Sessions \ UNION {{e.session, e.pending} : e \in Entries})

-----------------------------------------------------------------------------
(* Commands start. *)
BeginWrite(p, j, n, s) ==
  /\ pc[p] = "idle"
  /\ job' = [job EXCEPT ![p] = j]
  /\ name' = [name EXCEPT ![p] = n]
  /\ source' = [source EXCEPT ![p] = s]
  /\ Goto(p, "wait_state")
  /\ UNCHANGED <<file, tmp, stateLock, owner, mem, agent, orphan>>

BeginTalk(p, n) ==
  /\ pc[p] = "idle"
  /\ job' = [job EXCEPT ![p] = "lookup"]
  /\ name' = [name EXCEPT ![p] = n]
  /\ Goto(p, "wait_agent")
  /\ UNCHANGED <<file, tmp, stateLock, owner, source, mem, agent, orphan>>

(* Faulty variant: the lock is not asked for. *)
BeginChatUnlocked(p, n) ==
  /\ pc[p] = "idle"
  /\ job' = [job EXCEPT ![p] = "chat"]
  /\ name' = [name EXCEPT ![p] = n]
  /\ Goto(p, "chat_read")
  /\ UNCHANGED <<file, tmp, stateLock, owner, source, mem, agent, orphan>>

(* chat does not wait: while the agent is in use it fails right away. *)
BeginChat(p, n) ==
  /\ pc[p] = "idle"
  /\ owner[n] = None
  /\ owner' = [owner EXCEPT ![n] = p]
  /\ job' = [job EXCEPT ![p] = "chat"]
  /\ name' = [name EXCEPT ![p] = n]
  /\ Goto(p, "chat_read")
  /\ UNCHANGED <<file, tmp, stateLock, source, mem, agent, orphan>>

Begin(p) ==
  \E n \in Names :
    \/ BeginWrite(p, "create", n, None)
    \/ BeginWrite(p, "delete", n, None)
    \/ \E s \in Names : BeginWrite(p, "fork", n, s)
    \/ BeginTalk(p, n)
    \/ BeginChat(p, n)

(* The two blocking locks: talk's agent lock, and the state lock. *)
TakeAgent(p) ==
  /\ pc[p] = "wait_agent"
  /\ owner[name[p]] = None
  /\ owner' = [owner EXCEPT ![name[p]] = p]
  /\ Goto(p, "wait_state")
  /\ UNCHANGED <<file, tmp, stateLock, job, name, source, mem, agent, orphan>>

(* Faulty variant: the state lock excludes nobody. *)
TakeStateUnguarded(p) ==
  /\ pc[p] = "wait_state"
  /\ stateLock' = p
  /\ Goto(p, "read")
  /\ UNCHANGED <<file, tmp, owner, job, name, source, mem, agent, orphan>>

TakeState(p) ==
  /\ pc[p] = "wait_state"
  /\ stateLock = None
  /\ stateLock' = p
  /\ Goto(p, "read")
  /\ UNCHANGED <<file, tmp, owner, job, name, source, mem, agent, orphan>>

-----------------------------------------------------------------------------
(* Inside the state lock: reload, decide, change the copy. *)

Change(p, r, l) ==
  /\ mem' = [mem EXCEPT ![p] = r]
  /\ Goto(p, l)

Refuse(p) == Change(p, None, "fail")

(* spawn and ensure: both leave an existing agent alone. *)
Create(p) ==
  /\ pc[p] = "read" /\ job[p] = "create"
  /\ \/ file[name[p]] # None /\ Refuse(p)
     \/ /\ file[name[p]] = None
        /\ Change(p, [file EXCEPT ![name[p]] =
                         [session |-> None, pending |-> None]], "write")
  /\ UNCHANGED <<file, tmp, stateLock, owner, job, name, source, agent, orphan>>

(* fork registers the copy with the session its first turn has to fork; it *)
(* needs a source with a session, on a backend that can fork, and a free   *)
(* name.                                                                   *)
Fork(p) ==
  /\ pc[p] = "read" /\ job[p] = "fork"
  /\ \/ Refuse(p)
     \/ /\ file[source[p]] # None
        /\ file[source[p]].session # None
        /\ file[name[p]] = None
        /\ Change(p, [file EXCEPT ![name[p]] =
                         [session |-> None,
                          pending |-> file[source[p]].session]], "write")
  /\ UNCHANGED <<file, tmp, stateLock, owner, job, name, source, agent, orphan>>

Delete(p) ==
  /\ pc[p] = "read" /\ job[p] = "delete"
  /\ \/ file[name[p]] = None /\ Refuse(p)
     \/ /\ file[name[p]] # None
        /\ Change(p, [file EXCEPT ![name[p]] = None], "write")
  /\ UNCHANGED <<file, tmp, stateLock, owner, job, name, source, agent, orphan>>

(* talk keeps the Agent object it finds for the rest of the call. *)
Lookup(p) ==
  /\ pc[p] = "read" /\ job[p] = "lookup"
  /\ agent' = [agent EXCEPT ![p] = file[name[p]]]
  /\ Goto(p, IF file[name[p]] = None THEN "fail" ELSE "free")
  /\ UNCHANGED <<file, tmp, stateLock, owner, job, name, source, mem, orphan>>

(* _turn writes the session and the fork marker of its own Agent object    *)
(* into whatever entry the name has now.  (The faulty variant changes the  *)
(* detached Agent object, and so writes the entry back as it was.)         *)
RecordDetached(p) ==
  /\ pc[p] = "read" /\ job[p] = "record"
  /\ \/ file[name[p]] = None /\ Refuse(p)
     \/ file[name[p]] # None /\ Change(p, file, "write")
  /\ UNCHANGED <<file, tmp, stateLock, owner, job, name, source, agent, orphan>>

Record(p) ==
  /\ pc[p] = "read" /\ job[p] = "record"
  /\ \/ file[name[p]] = None /\ Refuse(p)
     \/ /\ file[name[p]] # None
        /\ Change(p, [file EXCEPT ![name[p]].session = agent[p].session,
                                  ![name[p]].pending = agent[p].pending],
                  "write")
  /\ UNCHANGED <<file, tmp, stateLock, owner, job, name, source, agent, orphan>>

(* _persist: write the temporary file, then rename it over the registry. *)
WriteTmp(p) ==
  /\ pc[p] = "write"
  /\ tmp' = mem[p]
  /\ Goto(p, "swap")
  /\ UNCHANGED <<file, stateLock, owner, job, name, source, mem, agent, orphan>>

Swap(p) ==
  /\ pc[p] = "swap"
  /\ file' = tmp
  /\ tmp' = None
  /\ mem' = [mem EXCEPT ![p] = None]
  /\ Goto(p, "free")
  /\ orphan' = [q \in Procs |->
                  \/ orphan[q]
                  \/ /\ job[p] = "delete"
                     /\ name[q] = name[p]
                     /\ agent[q] # None]
  /\ UNCHANGED <<stateLock, owner, job, name, source, agent>>

(* The state lock is released before anything else is done: the CLI runs   *)
(* without it, and delete asks for the agent lock only now.                *)
FreeTo(p, l) ==
  /\ stateLock' = None
  /\ Goto(p, l)
  /\ UNCHANGED <<file, tmp, owner, job, name, source, mem, agent, orphan>>

FreeEnd(p) ==
  /\ stateLock' = None
  /\ End(p)
  /\ UNCHANGED <<file, tmp, owner>>

(* Faulty variant: delete goes for the agent lock inside the state lock. *)
FreeAfterReclaim(p) ==
  \/ /\ pc[p] = "free"
     /\ \/ job[p] \in {"create", "fork"} /\ FreeEnd(p)
        \/ job[p] = "delete" /\ Goto(p, "wait_agent")
             /\ UNCHANGED <<file, tmp, stateLock, owner, job, name, source, mem,
                            agent, orphan>>
        \/ job[p] = "lookup" /\ FreeTo(p, "running")
        \/ job[p] = "record" /\ FreeTo(p, "done")
  \/ /\ pc[p] = "fail"
     /\ \/ job[p] \in {"create", "fork", "delete"} /\ FreeEnd(p)
        \/ job[p] \in {"lookup", "record"} /\ FreeTo(p, "leave")

Free(p) ==
  \/ /\ pc[p] = "free"
     /\ \/ job[p] \in {"create", "fork"} /\ FreeEnd(p)
        \/ job[p] = "delete" /\ FreeTo(p, "reclaim")
        \/ job[p] = "lookup" /\ FreeTo(p, "running")
        \/ job[p] = "record" /\ FreeTo(p, "done")
  \/ /\ pc[p] = "fail"
     /\ \/ job[p] \in {"create", "fork", "delete"} /\ FreeEnd(p)
        \/ job[p] \in {"lookup", "record"} /\ FreeTo(p, "leave")

-----------------------------------------------------------------------------
(* Inside the agent lock. *)

(* Agent.talk once the CLI has reported.  A backend that names no session  *)
(* leaves the Agent as it was; a forked resume that reports the session it *)
(* was to copy is refused; anything else becomes the agent's session and   *)
(* ends the pending fork.  (Faulty variants: the copied session is taken   *)
(* for the agent's own; the fork is over with the turn that was to make it.) *)
ReportsAlias(p, r) ==
  /\ agent' = [agent EXCEPT ![p] =
                 IF r = None THEN @
                 ELSE [@ EXCEPT !.session = r, !.pending = None]]
  /\ job' = [job EXCEPT ![p] = "record"]
  /\ Goto(p, "wait_state")

ReportsCleared(p, r) ==
  /\ r # agent[p].pending \/ r = None
  /\ agent' = [agent EXCEPT ![p] = [session |-> IF r = None THEN @.session ELSE r,
                                    pending |-> None]]
  /\ job' = [job EXCEPT ![p] = "record"]
  /\ Goto(p, "wait_state")

Reports(p, r) ==
  /\ r # agent[p].pending \/ r = None
  /\ agent' = [agent EXCEPT ![p] =
                 IF r = None THEN @
                 ELSE [@ EXCEPT !.session = r, !.pending = None]]
  /\ job' = [job EXCEPT ![p] = "record"]
  /\ Goto(p, "wait_state")

(* What a CLI run may report: nothing, the session it resumed (or was to   *)
(* copy), or a session of its own.                                         *)
Reportable(p) == {None, agent[p].session, agent[p].pending} \cup FreshSession

EndTurn(p) ==
  /\ pc[p] = "running"
  /\ \E r \in Reportable(p) : Reports(p, r)
  /\ UNCHANGED <<file, tmp, stateLock, owner, name, source, mem, orphan>>

(* The turn raises: the CLI failed, timed out, or did not fork. *)
FailTurn(p) ==
  /\ pc[p] = "running"
  /\ Goto(p, "leave")
  /\ UNCHANGED <<file, tmp, stateLock, owner, job, name, source, mem, agent, orphan>>

(* A reply that breaks the schema is answered with another turn. *)
Repair(p) ==
  /\ pc[p] = "done"
  /\ Goto(p, "running")
  /\ UNCHANGED <<file, tmp, stateLock, owner, job, name, source, mem, agent, orphan>>

(* chat reads the registry without the state lock, and refuses an agent    *)
(* without a session of its own (or on a backend that cannot chat).        *)
ChatRead(p) ==
  /\ pc[p] = "chat_read"
  /\ \/ Goto(p, "leave") /\ UNCHANGED agent
     \/ /\ file[name[p]] # None
        /\ file[name[p]].session # None
        /\ file[name[p]].pending = None
        /\ agent' = [agent EXCEPT ![p] = file[name[p]]]
        /\ Goto(p, "chatting")
  /\ UNCHANGED <<file, tmp, stateLock, owner, job, name, source, mem, orphan>>

(* delete tries the agent lock without waiting, to unlink its file. *)
Reclaim(p) ==
  /\ pc[p] = "reclaim"
  /\ owner[name[p]] = None
  /\ owner' = [owner EXCEPT ![name[p]] = p]
  /\ Goto(p, "reclaiming")
  /\ UNCHANGED <<file, tmp, stateLock, job, name, source, mem, agent, orphan>>

SkipReclaim(p) ==
  /\ pc[p] = "reclaim"
  /\ owner[name[p]] # None
  /\ End(p)
  /\ UNCHANGED <<file, tmp, stateLock, owner>>

(* The command ends and gives its agent lock back. *)
Leave(p) ==
  /\ pc[p] \in {"done", "chatting", "reclaiming", "leave"}
  /\ owner' = [owner EXCEPT ![name[p]] = None]
  /\ End(p)
  /\ UNCHANGED <<file, tmp, stateLock>>

(* The process dies, perhaps half way through writing the temporary file.  *)
(* The kernel drops its locks; the files stay.                             *)
Crash(p) ==
  /\ pc[p] # "idle"
  /\ stateLock' = IF stateLock = p THEN None ELSE stateLock
  /\ owner' = [n \in Names |-> IF owner[n] = p THEN None ELSE owner[n]]
  /\ \/ pc[p] \in {"write", "swap"} /\ tmp' = Leftover
     \/ pc[p] # "swap" /\ UNCHANGED tmp
  /\ End(p)
  /\ UNCHANGED file

Work(p) ==
  \/ Begin(p) \/ TakeAgent(p) \/ TakeState(p)
  \/ Create(p) \/ Fork(p) \/ Delete(p) \/ Lookup(p) \/ Record(p)
  \/ WriteTmp(p) \/ Swap(p) \/ Free(p)
  \/ EndTurn(p) \/ FailTurn(p) \/ Repair(p) \/ ChatRead(p)
  \/ Reclaim(p) \/ SkipReclaim(p) \/ Leave(p)

Next == \E p \in Procs : Work(p) \/ Crash(p)

Spec == Init /\ [][Next]_vars

-----------------------------------------------------------------------------
TypeOK ==
  /\ file \in Registries
  /\ tmp \in Registries \cup {None, Leftover}
  /\ stateLock \in Procs \cup {None}
  /\ owner \in [Names -> Procs \cup {None}]
  /\ pc \in [Procs -> PCs]
  /\ job \in [Procs -> Jobs]
  /\ name \in [Procs -> Names \cup {None}]
  /\ source \in [Procs -> Names \cup {None}]
  /\ mem \in [Procs -> Registries \cup {None}]
  /\ agent \in [Procs -> Entry \cup {None}]
  /\ orphan \in [Procs -> BOOLEAN]

(* No update is lost and no reader sees half of one: whatever the          *)
(* interleaving of writers and crashes, the file moves as if every command *)
(* changed its one entry atomically.  In particular a turn never           *)
(* resurrects a deleted agent, and a fork copies the session its source    *)
(* has at the moment the fork appears.                                     *)
Atomic == INSTANCE AtomicRegistry

ImplementsAtomicRegistry == Atomic!Spec

(* Two agents never share a session: not through a fork whose CLI          *)
(* continued the source's session, not through a delete and a re-creation, *)
(* not through turns that end after the registry changed under them.       *)
SessionsDistinct ==
  \A m, n \in Names :
     m # n /\ file[m] # None /\ file[n] # None /\ file[m].session # None
       => file[m].session # file[n].session

(* No two commands drive one session at the same time, under the same name *)
(* or under different ones: a turn that copies a session is not driving it.*)
Drives(p, s) ==
  /\ pc[p] \in {"running", "chatting"}
  /\ agent[p].pending = None
  /\ agent[p].session = s

OneDriverPerSession ==
  \A p, q \in Procs, s \in Sessions : Drives(p, s) /\ Drives(q, s) => p = q

(* While a command works on an agent and nobody deleted that agent, the    *)
(* registry holds the session and the fork marker the command goes by: a   *)
(* repair turn and a chat continue where the last recorded turn ended.     *)
RegistryAgrees ==
  \A p \in Procs :
     pc[p] \in {"running", "done", "chatting"} /\ ~orphan[p]
       => file[name[p]] = agent[p]

(* A pending fork is kept until a turn has made it: whatever turns fail,   *)
(* report no session or crash before they are recorded, and whatever the   *)
(* other commands write meanwhile, an entry with a fork to do is deleted   *)
(* or moves, once, to a session that is not the one to copy and to no fork *)
(* at all.  Only a turn whose own agent was deleted writes over it, the    *)
(* hazard TurnLandsOnItsAgent is about.                                    *)
Makes(e, f) ==
  /\ e.session = None
  /\ f.session \notin {None, e.pending}
  /\ f.pending = None

ForkKeptUntilMade ==
  [][ \A n \in Names :
        /\ file[n] # None
        /\ file[n].pending # None
        /\ file'[n] \notin {None, file[n]}
        => \/ Makes(file[n], file'[n])
           \/ \E p \in Procs : Swap(p) /\ name[p] = n /\ orphan[p] ]_vars

(* No two commands wait for each other: the order is agent lock before     *)
(* state lock, and delete never waits for an agent lock.                   *)
WaitsFor(p, q) ==
  \/ pc[p] = "wait_agent" /\ owner[name[p]] = q
  \/ pc[p] = "wait_state" /\ stateLock = q

NoWaitCycle ==
  ~ \E p, q \in Procs : WaitsFor(p, q) /\ WaitsFor(q, p)

(* What talk's contract says of an agent deleted during its turn: the turn *)
(* is not recorded (tests/test_orchestrator_turns.py:927-951).             *)
TurnLandsOnItsAgent ==
  [][ \A p \in Procs : Swap(p) /\ job[p] = "record" => ~orphan[p] ]_vars
=============================================================================
