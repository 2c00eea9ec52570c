------------------------------ MODULE AgentLock ------------------------------
(***************************************************************************)
(* The lock file of ONE agent name, at the grain of its system calls       *)
(* (orchestrator/core.py: _is_live, _flock, talk, chat, delete,            *)
(* _reclaim_agent_lock, _agent_is_busy).                                   *)
(*                                                                         *)
(* flock(2) binds to an inode while the commands agree on a path, and the  *)
(* path is unlinked when the agent is gone.  So a process may be granted a *)
(* lock on an inode that no longer guards anything.  The module models     *)
(* open, flock, stat, unlink and close as separate steps; which processes  *)
(* hold a lock on which inode is derived from their program counters.      *)
(*                                                                         *)
(* A member of Procs is a slot that runs one orchestrator command after    *)
(* the other, each a process of its own.                                   *)
(***************************************************************************)
EXTENDS Naturals

CONSTANTS
  Procs,        \* slots in which orchestrator commands run
  Inodes,       \* inode numbers; one is reusable once nothing refers to it
  NoInode,      \* "no such file", and the descriptor of a process without one
  MaxAttempts,  \* _MAX_REVALIDATE_ATTEMPTS
  Commands      \* the commands this instance runs, a subset of AllCommands

AllCommands == {"talk", "chat", "delete", "list"}

ASSUME LockAssumption ==
  /\ NoInode \notin Inodes
  /\ MaxAttempts \in Nat \ {0}
  /\ Commands \subseteq AllCommands

VARIABLES
  path,      \* the inode the agent's lock path names, or NoInode
  exists,    \* is the agent in the registry?
  cmd,       \* the command each slot runs, "none" while idle
  pc,        \* where each slot is in that command
  fd,        \* the inode each slot has open, or NoInode
  attempts   \* failed revalidations of the current acquisition

vars == <<path, exists, cmd, pc, fd, attempts>>

(* Program counters at which the slot owns the flock on its inode. *)
Owning == {"validate", "retry", "lookup", "launch", "turn", "record",
           "check", "unlink", "unlock"}

PCs == {"idle", "pop", "probe", "open", "flock"} \cup Owning

Locked(p) == pc[p] \in Owning

(* list probes with LOCK_SH, every other command takes LOCK_EX; only talk  *)
(* blocks, and only talk and chat revalidate.                              *)
Shared(p)      == cmd[p] = "list"
NonBlocking(p) == cmd[p] # "talk"
Revalidates(p) == cmd[p] \in {"talk", "chat"}

Conflict(p) ==
  \E q \in Procs \ {p} :
     /\ Locked(q)
     /\ fd[q] = fd[p]
     /\ ~(Shared(p) /\ Shared(q))

(* _is_live: the locked inode is the one the path names. *)
IsLive(p) == path = fd[p]

(* Steps from one program counter to another, and the end of a command. *)
Goto(p, l) == pc' = [pc EXCEPT ![p] = l]

Finish(p) ==
  /\ Goto(p, "idle")
  /\ cmd' = [cmd EXCEPT ![p] = "none"]
  /\ fd' = [fd EXCEPT ![p] = NoInode]
  /\ attempts' = [attempts EXCEPT ![p] = 0]

Init ==
  /\ path = NoInode
  /\ exists = FALSE
  /\ cmd = [p \in Procs |-> "none"]
  /\ pc = [p \in Procs |-> "idle"]
  /\ fd = [p \in Procs |-> NoInode]
  /\ attempts = [p \in Procs |-> 0]

-----------------------------------------------------------------------------
(* Commands start.  spawn, ensure and fork register the agent without ever *)
(* touching its lock file.  list only probes agents its constructor read.  *)

Register ==
  /\ ~exists
  /\ exists' = TRUE
  /\ UNCHANGED <<path, cmd, pc, fd, attempts>>

Begin(p) ==
  /\ pc[p] = "idle"
  /\ \E c \in Commands :
       /\ c = "list" => exists
       /\ cmd' = [cmd EXCEPT ![p] = c]
       /\ Goto(p, CASE c = "delete" -> "pop"
                    [] c = "list" -> "probe"
                    [] OTHER -> "open")
  /\ UNCHANGED <<path, exists, fd, attempts>>

(* delete removes the entry under the state lock, or finds none and fails. *)
Pop(p) ==
  /\ pc[p] = "pop"
  /\ \/ /\ exists
        /\ exists' = FALSE
        /\ Goto(p, "open")
        /\ UNCHANGED <<cmd, fd, attempts>>
     \/ /\ ~exists
        /\ Finish(p)
        /\ UNCHANGED exists
  /\ UNCHANGED path

(* _agent_is_busy looks for the file first, and answers "idle" without it. *)
Probe(p) ==
  /\ pc[p] = "probe"
  /\ \/ path # NoInode /\ Goto(p, "open") /\ UNCHANGED <<cmd, fd, attempts>>
     \/ path = NoInode /\ Finish(p)
  /\ UNCHANGED <<path, exists>>

-----------------------------------------------------------------------------
(* _flock *)

Open(p) ==
  /\ pc[p] = "open"
  /\ \/ /\ path # NoInode
        /\ fd' = [fd EXCEPT ![p] = path]
        /\ UNCHANGED path
     \/ /\ path = NoInode
        /\ \E i \in Inodes \ {fd[q] : q \in Procs} :
             /\ path' = i
             /\ fd' = [fd EXCEPT ![p] = i]
  /\ Goto(p, "flock")
  /\ UNCHANGED <<exists, cmd, attempts>>

Grant(p) ==
  /\ pc[p] = "flock"
  /\ ~Conflict(p)
  /\ Goto(p, CASE Revalidates(p) -> "validate"
               [] cmd[p] = "delete" -> "check"
               [] OTHER -> "unlock")
  /\ UNCHANGED <<path, exists, cmd, fd, attempts>>

(* BlockingIOError: delete leaves the file, list answers "busy", chat fails. *)
Refuse(p) ==
  /\ pc[p] = "flock"
  /\ NonBlocking(p)
  /\ Conflict(p)
  /\ Finish(p)
  /\ UNCHANGED <<path, exists>>

(* Faulty variant: failed attempts are not counted. *)
ValidateUncounted(p) ==
  /\ pc[p] = "validate"
  /\ Goto(p, IF IsLive(p) THEN "lookup" ELSE "retry")
  /\ UNCHANGED <<path, exists, cmd, fd, attempts>>

Validate(p) ==
  /\ pc[p] = "validate"
  /\ \/ /\ IsLive(p)
        /\ Goto(p, "lookup")
        /\ UNCHANGED attempts
     \/ /\ ~IsLive(p)
        /\ attempts' = [attempts EXCEPT ![p] = @ + 1]
        /\ Goto(p, IF attempts[p] + 1 >= MaxAttempts THEN "unlock" ELSE "retry")
  /\ UNCHANGED <<path, exists, cmd, fd>>

Retry(p) ==
  /\ pc[p] = "retry"
  /\ Goto(p, "open")
  /\ fd' = [fd EXCEPT ![p] = NoInode]
  /\ UNCHANGED <<path, exists, cmd, attempts>>

Unlock(p) ==
  /\ pc[p] = "unlock"
  /\ Finish(p)
  /\ UNCHANGED <<path, exists>>

-----------------------------------------------------------------------------
(* What talk and chat do with a validated lock. *)

(* talk looks the agent up under the state lock and lets that lock go,     *)
(* chat reads the registry without it: either way the run it looked up for *)
(* starts later, in a step of its own, and delete may come in between.     *)
(* chat may also refuse an agent it finds: no session yet, or a backend    *)
(* that cannot chat.                                                       *)
Lookup(p) ==
  /\ pc[p] = "lookup"
  /\ \/ ~exists /\ Goto(p, "check")
     \/ exists /\ Goto(p, "launch")
     \/ exists /\ cmd[p] = "chat" /\ Goto(p, "unlock")
  /\ UNCHANGED <<path, exists, cmd, fd, attempts>>

(* The CLI is started for the agent that was looked up, registered or not  *)
(* by now.                                                                 *)
Launch(p) ==
  /\ pc[p] = "launch"
  /\ Goto(p, "turn")
  /\ UNCHANGED <<path, exists, cmd, fd, attempts>>

(* The CLI run ends.  chat returns its exit code; a turn yields a result   *)
(* to record, or raises (TurnError, TimeoutExpired, a fork that did not    *)
(* happen), which leaves talk without reclaiming anything.                 *)
EndRun(p) ==
  /\ pc[p] = "turn"
  /\ \/ cmd[p] = "talk" /\ Goto(p, "record")
     \/ Goto(p, "unlock")
  /\ UNCHANGED <<path, exists, cmd, fd, attempts>>

(* The result is persisted unless the agent was deleted meanwhile.  The    *)
(* state lock is let go again, and a validated turn may then go on to      *)
(* another attempt under the same agent lock.  (The faulty variant does    *)
(* not look whether the agent still exists.)                               *)
RecordUnchecked(p) ==
  /\ pc[p] = "record"
  /\ \E l \in {"launch", "unlock"} : Goto(p, l)
  /\ UNCHANGED <<path, exists, cmd, fd, attempts>>

Record(p) ==
  /\ pc[p] = "record"
  /\ \/ ~exists /\ Goto(p, "check")
     \/ exists /\ \E l \in {"launch", "unlock"} : Goto(p, l)
  /\ UNCHANGED <<path, exists, cmd, fd, attempts>>

(* The agent is gone: unlink the file, but only while it is this inode. *)
(* (The faulty variant unlinks whatever the path names.)                   *)
CheckBlindly(p) ==
  /\ pc[p] = "check"
  /\ Goto(p, "unlink")
  /\ UNCHANGED <<path, exists, cmd, fd, attempts>>

Check(p) ==
  /\ pc[p] = "check"
  /\ Goto(p, IF IsLive(p) THEN "unlink" ELSE "unlock")
  /\ UNCHANGED <<path, exists, cmd, fd, attempts>>

Unlink(p) ==
  /\ pc[p] = "unlink"
  /\ path' = NoInode
  /\ Goto(p, "unlock")
  /\ UNCHANGED <<exists, cmd, fd, attempts>>

(* The process dies; the kernel closes its file and drops its flock. *)
Crash(p) ==
  /\ pc[p] # "idle"
  /\ Finish(p)
  /\ UNCHANGED <<path, exists>>

-----------------------------------------------------------------------------
(* The steps a running command takes by itself. *)
Step(p) ==
  \/ Pop(p) \/ Probe(p) \/ Open(p) \/ Refuse(p) \/ Validate(p) \/ Retry(p)
  \/ Unlock(p) \/ Lookup(p) \/ Launch(p) \/ EndRun(p) \/ Record(p) \/ Check(p)
  \/ Unlink(p)

Work ==
  \/ Register
  \/ \E p \in Procs : Begin(p) \/ Grant(p) \/ Step(p)

Next == Work \/ \E p \in Procs : Crash(p)

Spec == Init /\ [][Next]_vars

(* A running command keeps taking steps: every turn is killed at its       *)
(* timeout, a validated turn runs out of retries and a chat ends when its  *)
(* user leaves.  The kernel does not pass over a blocked flock for ever.   *)
(* Nothing makes anyone start a command.                                   *)
Fairness ==
  \A p \in Procs :
     /\ WF_vars(Step(p))
     /\ SF_vars(Grant(p))
     /\ SF_vars(Record(p) /\ pc'[p] = "unlock")

FairSpec == Spec /\ Fairness

-----------------------------------------------------------------------------
TypeOK ==
  /\ path \in Inodes \cup {NoInode}
  /\ exists \in BOOLEAN
  /\ cmd \in [Procs -> AllCommands \cup {"none"}]
  /\ pc \in [Procs -> PCs]
  /\ fd \in [Procs -> Inodes \cup {NoInode}]
  /\ attempts \in [Procs -> 0 .. MaxAttempts]

(* p acts as the one owner of the agent: it holds a validated lock, or it  *)
(* has confirmed that the file it is about to unlink is its own.           *)
Owns(p) ==
  \/ pc[p] \in {"lookup", "launch", "turn", "record", "unlink"}
  \/ pc[p] = "check" /\ Revalidates(p)

(* At most one process at a time acts for an agent: no two turns or chats  *)
(* overlap, and no reclaim unlinks the file while one of them runs, even   *)
(* though the lock file is removed and recreated under waiters.            *)
TurnMutex == \A p, q \in Procs : Owns(p) /\ Owns(q) => p = q

(* The file an owner locked stays the one the path names, so every later   *)
(* command of the same agent contends with it.  In particular talk's own   *)
(* handler always finds its lock live (core.py:552-556).                   *)
OwnerKeepsPath == \A p \in Procs : Owns(p) => path = fd[p]

(* Every started command ends, whatever the others do to the file: a       *)
(* waiter on a reclaimed inode re-acquires or gives up, it never hangs     *)
(* (core.py:203-207).  This takes for granted that lists stop overlapping  *)
(* now and then: flock grants a shared lock past a blocked exclusive one,  *)
(* so three processes of which two keep probing would starve a talk.       *)
CommandsEnd ==
  []<>(\A q \in Procs : ~Shared(q)) =>
     \A p \in Procs : pc[p] # "idle" ~> pc[p] = "idle"

(* The lock protocol implements TurnOwner: whatever happens to the file,   *)
(* ownership passes from one process to another only through nobody, a CLI *)
(* run starts only inside it, and every run, a repair's included, follows  *)
(* a lookup of its own in the same ownership that found the agent          *)
(* registered: a deleted agent gets the run already looked up, no other.   *)
Owners  == {p \in Procs : Owns(p)}
Cleared == {p \in Procs : pc[p] = "launch"}
Running == {p \in Procs : pc[p] = "turn"}

Turns == INSTANCE TurnOwner
           WITH owners <- Owners, cleared <- Cleared, running <- Running

ImplementsTurnOwner == Turns!Spec
=============================================================================
