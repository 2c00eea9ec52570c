--------------------------- MODULE RegistryProofs ---------------------------
(***************************************************************************)
(* Proofs about the registry for any number of processes, agent names and  *)
(* session ids.                                                            *)
(***************************************************************************)
EXTENDS Registry, TLAPS

(***************************************************************************)
(* The inductive invariant.  The interesting properties relate the file to *)
(* what the processes know; they are inductive only together with what a   *)
(* process at each program counter has (Shape), with the two locks read    *)
(* both ways (StateLock, AgentLocks), and with what a writer has prepared  *)
(* (Prepared): the one change its command makes to the file of this very   *)
(* moment, which the state lock keeps as it is.                            *)
(***************************************************************************)
Shape ==
  \A p \in Procs :
     /\ pc[p] = "idle" => job[p] = "none" /\ agent[p] = None
     /\ pc[p] # "idle" => name[p] \in Names /\ job[p] # "none"
     /\ job[p] = "fork" => source[p] \in Names
     /\ pc[p] = "wait_agent" => job[p] = "lookup"
     /\ pc[p] \in {"reclaim", "reclaiming"} => job[p] = "delete"
     /\ pc[p] \in {"wait_state"} \cup InState => job[p] # "chat"
     /\ pc[p] \in {"write", "swap"} => job[p] # "lookup"
     /\ pc[p] \in {"write", "swap"} <=> mem[p] # None
     /\ pc[p] \in {"running", "done", "chatting"} => agent[p] # None
     /\ pc[p] # "leave" /\ job[p] = "record" => agent[p] # None
     /\ pc[p] = "free" /\ job[p] = "lookup" => agent[p] # None

StateLock ==
  \A p \in Procs : pc[p] \in InState <=> stateLock = p

(* Where a command has its agent's lock. *)
Holding(p) ==
  \/ pc[p] \in {"running", "done", "chat_read", "chatting", "reclaiming", "leave"}
  \/ pc[p] \in {"wait_state"} \cup InState /\ job[p] \in {"lookup", "record"}

AgentLocks ==
  \A p \in Procs, n \in Names :
     owner[n] = p <=> Holding(p) /\ name[p] = n

(* A writer's copy is the file with its own entry changed. *)
Prepared ==
  \A p \in Procs : pc[p] \in {"write", "swap"} =>
     /\ Atomic!Changed(file, name[p], mem[p])
     /\ \A n \in Names \ {name[p]} : mem[p][n] = file[n]
     /\ job[p] \in {"create", "fork"} => file[name[p]] = None
     /\ job[p] = "record" => mem[p][name[p]] = agent[p]
     /\ job[p] = "delete" => mem[p][name[p]] = None
     /\ pc[p] = "swap" => tmp = mem[p]

(* An agent a command works on is in the file as the command knows it. *)
Agrees ==
  \A p \in Procs :
     /\ \/ pc[p] \in {"running", "done", "chatting"}
        \/ pc[p] = "free" /\ job[p] \in {"lookup", "record"}
     /\ ~orphan[p]
     => file[name[p]] = agent[p]

(* A turn that is over but not yet written has left the entry as it was,   *)
(* or, if that had a fork to do, has made the fork.                        *)
Moved ==
  \A p \in Procs :
     /\ job[p] = "record" /\ pc[p] \in {"wait_state", "read", "write", "swap"}
     /\ ~orphan[p]
     => /\ file[name[p]] # None
        /\ file[name[p]].pending # None =>
             agent[p] = file[name[p]] \/ Makes(file[name[p]], agent[p])

(* Nobody has both a session and a fork to do. *)
Sound(e) == e # None /\ e.pending # None => e.session = None

ForksSound ==
  /\ \A n \in Names : Sound(file[n])
  /\ \A p \in Procs : Sound(agent[p])
  /\ \A p \in Procs, n \in Names : mem[p] # None => Sound(mem[p][n])

(* The names that a session belongs to, in the file, in a writer's copy or *)
(* in a running command.                                                   *)
Claims(n, s) ==
  \/ file[n] # None /\ file[n].session = s
  \/ \E p \in Procs : mem[p] # None /\ mem[p][n] # None /\ mem[p][n].session = s
  \/ \E p \in Procs : name[p] = n /\ agent[p] # None /\ agent[p].session = s

OneClaim ==
  \A m, n \in Names, s \in Sessions : Claims(m, s) /\ Claims(n, s) => m = n

IInv ==
  /\ TypeOK
  /\ Shape
  /\ StateLock
  /\ AgentLocks
  /\ Prepared
  /\ Agrees
  /\ Moved
  /\ ForksSound
  /\ OneClaim
-----------------------------------------------------------------------------
(* An empty registry and idle slots satisfy the invariant. *)
LEMMA InitIInv == ASSUME Init PROVE IInv
<1> USE RegistryAssumption, SpecialValues DEF Init
<1>1. TypeOK
  BY DEF TypeOK, Registries, PCs, Jobs
<1>2. Shape /\ StateLock /\ AgentLocks /\ Prepared /\ Agrees /\ Moved
  BY DEF Shape, StateLock, AgentLocks, Holding, Prepared, Agrees, Moved, InState
<1>3. ForksSound
  BY DEF ForksSound, Sound
<1>4. OneClaim
  BY DEF OneClaim, Claims
<1> QED BY <1>1, <1>2, <1>3, <1>4 DEF IInv

(* A fresh session is one that nobody in the model refers to. *)
LEMMA FreshIsUnclaimed ==
  ASSUME IInv, NEW r \in FreshSession
  PROVE  r \in Sessions /\ \A n \in Names : ~Claims(n, r)
<1> DEFINE Used == UNION {{e.session, e.pending} : e \in Entries}
<1>1. r \in Sessions /\ r \notin Used
  BY DEF FreshSession, Lowest
<1>2. \A e \in Entries : e.session # r
  BY <1>1
<1>3. \A n \in Names : file[n] # None => file[n] \in Entries
  <2>1. file \notin {None, Leftover}
    BY SpecialValues DEF IInv, TypeOK, Registries
  <2> QED BY <2>1 DEF Entries, EntriesOf
<1>4. ASSUME NEW p \in Procs, mem[p] # None, NEW n \in Names, mem[p][n] # None
      PROVE  mem[p][n] \in Entries
  <2>1. mem[p] \notin {None, Leftover}
    BY <1>4, SpecialValues DEF IInv, TypeOK, Registries
  <2>2. mem[p][n] \in EntriesOf(mem[p])
    BY <1>4, <2>1 DEF EntriesOf
  <2> QED BY <2>2 DEF Entries
<1>5. \A p \in Procs : agent[p] # None => agent[p] \in Entries
  BY DEF Entries
<1> QED BY <1>1, <1>2, <1>3, <1>4, <1>5 DEF Claims

(* What a CLI run may report is an id, or nothing. *)
LEMMA ReportableType ==
  ASSUME IInv, NEW p \in Procs, pc[p] = "running", NEW r \in Reportable(p)
  PROVE  r \in Sessions \cup {None}
<1>1. agent[p] \in Entry
  BY DEF IInv, Shape, TypeOK
<1> QED BY <1>1, FreshIsUnclaimed DEF Reportable, Entry

-----------------------------------------------------------------------------
(* What a turn writes is its own Agent object in place of the entry. *)
LEMMA RecordedCopy ==
  ASSUME IInv, NEW p \in Procs, Record(p), ~Refuse(p)
  PROVE  /\ name[p] \in Names /\ file \in Registries /\ file[name[p]] # None
         /\ agent[p] \in Entry
         /\ Change(p, [file EXCEPT ![name[p]] = agent[p]], "write")
<1>1. /\ name[p] \in Names /\ file \in Registries /\ file[name[p]] # None
      /\ agent[p] \in Entry /\ file[name[p]] \in Entry
  BY DEF IInv, TypeOK, Shape, Record, Registries
<1>2. [file EXCEPT ![name[p]].session = agent[p].session,
                   ![name[p]].pending = agent[p].pending]
        = [file EXCEPT ![name[p]] = agent[p]]
  BY <1>1 DEF Registries, Entry
<1> QED BY <1>1, <1>2 DEF Record

(* A command that changes its copy of the registry makes a registry of it. *)
LEMMA CopyType ==
  ASSUME IInv, NEW p \in Procs,
         Create(p) \/ Fork(p) \/ Delete(p) \/ Record(p)
  PROVE  Refuse(p) \/ \E r \in Registries : Change(p, r, "write")
<1>1. TypeOK /\ Shape /\ name[p] \in Names /\ file \in Registries
  BY DEF IInv, TypeOK, Shape, Create, Fork, Delete, Record
<1>2. CASE Create(p)
  <2>1. [file EXCEPT ![name[p]] = [session |-> None, pending |-> None]]
          \in Registries
    BY <1>1 DEF Registries, Entry
  <2> QED BY <1>2, <2>1 DEF Create
<1>3. CASE Fork(p) /\ ~Refuse(p)
  <2>1. source[p] \in Names /\ file[source[p]] \in Entry
    BY <1>1, <1>3 DEF Fork, Shape, Registries
  <2>2. [file EXCEPT ![name[p]] = [session |-> None,
                                   pending |-> file[source[p]].session]]
          \in Registries
    BY <1>1, <2>1 DEF Registries, Entry
  <2> QED BY <1>3, <2>2 DEF Fork
<1>4. CASE Delete(p)
  <2>1. [file EXCEPT ![name[p]] = None] \in Registries
    BY <1>1 DEF Registries
  <2> QED BY <1>4, <2>1 DEF Delete
<1>5. CASE Record(p) /\ ~Refuse(p)
  <2>1. [file EXCEPT ![name[p]] = agent[p]] \in Registries
    BY <1>5, RecordedCopy DEF Registries
  <2> QED BY <1>5, <2>1, RecordedCopy
<1> QED BY <1>2, <1>3, <1>4, <1>5

(* Every step keeps the values of the variables in their types. *)
LEMMA TypeStep == ASSUME IInv, [Next]_vars PROVE TypeOK'
<1> USE DEF TypeOK
<1>0. TypeOK /\ Shape
  BY DEF IInv
<1>1. CASE UNCHANGED vars
  BY <1>0, <1>1 DEF vars
<1>2. ASSUME NEW p \in Procs, Begin(p) \/ TakeAgent(p) \/ TakeState(p)
      PROVE  TypeOK'
  BY <1>0, <1>2 DEF Begin, BeginWrite, BeginTalk, BeginChat, TakeAgent,
                    TakeState, Goto, PCs, InState, Jobs, Shape
<1>3. ASSUME NEW p \in Procs,
             Create(p) \/ Fork(p) \/ Delete(p) \/ Lookup(p) \/ Record(p)
      PROVE  TypeOK'
  <2>1. CASE Lookup(p)
    BY <1>0, <2>1 DEF Lookup, Goto, Registries, PCs, InState, Shape
  <2>2. CASE ~Lookup(p)
    <3>1. PICK r \in Registries \cup {None}, l \in InState : Change(p, r, l)
      BY <1>3, <2>2, CopyType DEF InState, Refuse
    <3> QED BY <1>0, <1>3, <2>2, <3>1
            DEF Create, Fork, Delete, Record, Change, Goto, PCs
  <2> QED BY <2>1, <2>2
<1>4. ASSUME NEW p \in Procs, WriteTmp(p) \/ Swap(p) PROVE TypeOK'
  <2>1. mem[p] \in Registries
    BY <1>0, <1>4 DEF WriteTmp, Swap, Shape
  <2>2. pc[p] = "swap" => tmp = mem[p]
    BY DEF IInv, Prepared
  <2>3. CASE WriteTmp(p)
    BY <1>0, <2>1, <2>3 DEF WriteTmp, Goto, PCs, InState
  <2>4. CASE Swap(p)
    <3>1. pc' \in [Procs -> PCs] /\ orphan' \in [Procs -> BOOLEAN]
      BY <1>0, <2>4 DEF Swap, Goto, PCs, InState
    <3> QED BY <1>0, <2>1, <2>2, <2>4, <3>1 DEF Swap
  <2> QED BY <1>4, <2>3, <2>4
<1>5. ASSUME NEW p \in Procs, Free(p) PROVE TypeOK'
  BY <1>0, <1>5 DEF Free, FreeTo, FreeEnd, End, Goto, PCs, InState, Jobs
<1>6. ASSUME NEW p \in Procs, EndTurn(p) PROVE TypeOK'
  <2>1. PICK r \in Reportable(p) : Reports(p, r)
    BY <1>6 DEF EndTurn
  <2>2. r \in Sessions \cup {None} /\ agent[p] \in Entry
    BY <1>0, <1>6, ReportableType DEF EndTurn, Shape
  <2>3. agent' \in [Procs -> Entry \cup {None}]
    BY <1>0, <2>1, <2>2 DEF Reports, Entry
  <2> QED BY <1>0, <1>6, <2>1, <2>3 DEF EndTurn, Reports, Goto, PCs, Jobs
<1>7. ASSUME NEW p \in Procs, FailTurn(p) \/ Repair(p) \/ ChatRead(p)
      PROVE  TypeOK'
  BY <1>0, <1>7 DEF FailTurn, Repair, ChatRead, Goto, PCs, Shape, Registries
<1>8. ASSUME NEW p \in Procs,
             Reclaim(p) \/ SkipReclaim(p) \/ Leave(p)
      PROVE  TypeOK'
  BY <1>0, <1>8 DEF Reclaim, SkipReclaim, Leave, End, Goto, PCs, Jobs
<1>9. ASSUME NEW p \in Procs, Crash(p) PROVE TypeOK'
  BY <1>0, <1>9 DEF Crash, End, Goto, PCs, Jobs
<1> QED BY <1>1, <1>2, <1>3, <1>4, <1>5, <1>6, <1>7, <1>8, <1>9 DEF Next, Work

(* Every step keeps the shape of a command. *)
LEMMA ShapeStep == ASSUME IInv, TypeOK', [Next]_vars PROVE Shape'
<1> USE SpecialValues, RegistryAssumption DEF Shape, TypeOK, InState
<1>0. TypeOK /\ Shape /\ Agrees
  BY DEF IInv
<1>1. CASE UNCHANGED vars
  BY <1>0, <1>1 DEF vars
<1>2. ASSUME NEW p \in Procs, Begin(p) \/ TakeAgent(p) \/ TakeState(p)
      PROVE  Shape'
  BY <1>0, <1>2 DEF Begin, BeginWrite, BeginTalk, BeginChat, TakeAgent,
                    TakeState, Goto
<1>3. ASSUME NEW p \in Procs,
             Create(p) \/ Fork(p) \/ Delete(p) \/ Lookup(p) \/ Record(p)
      PROVE  Shape'
  <2>1. CASE Lookup(p)
    BY <1>0, <2>1 DEF Lookup, Goto
  <2>2. CASE ~Lookup(p)
    <3>1. PICK r, l : /\ Change(p, r, l)
                      /\ \/ r = None /\ l = "fail"
                         \/ r # None /\ l = "write"
      BY <1>3, <2>2, CopyType DEF Refuse, Registries
    <3> QED BY <1>0, <1>3, <2>2, <3>1
            DEF Create, Fork, Delete, Record, Change, Goto
  <2> QED BY <2>1, <2>2
<1>4. ASSUME NEW p \in Procs, WriteTmp(p) \/ Swap(p) PROVE Shape'
  BY <1>0, <1>4 DEF WriteTmp, Swap, Goto
<1>5. ASSUME NEW p \in Procs, Free(p) PROVE Shape'
  BY <1>0, <1>5 DEF Free, FreeTo, FreeEnd, End, Goto
<1>6. ASSUME NEW p \in Procs, EndTurn(p) PROVE Shape'
  <2>1. PICK r \in Reportable(p) : Reports(p, r)
    BY <1>6 DEF EndTurn
  <2>2. agent'[p] # None
    <3>1. agent[p] \in Entry
      BY <1>0, <1>6 DEF EndTurn
    <3>2. r \in Sessions \cup {None}
      BY <1>6, ReportableType DEF EndTurn
    <3>3. r # None => [agent[p] EXCEPT !.session = r, !.pending = None] \in Entry
      BY <3>1, <3>2 DEF Entry
    <3> QED BY <1>0, <2>1, <3>1, <3>3 DEF Reports
  <2>3. \A q \in Procs \ {p} : agent'[q] = agent[q]
    BY <1>0, <2>1 DEF Reports
  <2> QED BY <1>0, <1>6, <2>1, <2>2, <2>3 DEF EndTurn, Reports, Goto
<1>7. ASSUME NEW p \in Procs, FailTurn(p) \/ Repair(p) \/ ChatRead(p)
      PROVE  Shape'
  BY <1>0, <1>7 DEF FailTurn, Repair, ChatRead, Goto
<1>8. ASSUME NEW p \in Procs,
             Reclaim(p) \/ SkipReclaim(p) \/ Leave(p)
      PROVE  Shape'
  BY <1>0, <1>8 DEF Reclaim, SkipReclaim, Leave, End, Goto
<1>9. ASSUME NEW p \in Procs, Crash(p) PROVE Shape'
  BY <1>0, <1>9 DEF Crash, End, Goto
<1> QED BY <1>1, <1>2, <1>3, <1>4, <1>5, <1>6, <1>7, <1>8, <1>9 DEF Next, Work

(* A process is inside the state lock exactly while it holds it. *)
LEMMA StateLockStep == ASSUME IInv, TypeOK', [Next]_vars PROVE StateLock'
<1> USE SpecialValues, RegistryAssumption DEF StateLock, TypeOK, InState
<1>0. TypeOK /\ Shape /\ StateLock
  BY DEF IInv
<1>1. CASE UNCHANGED vars
  BY <1>0, <1>1 DEF vars
<1>2. ASSUME NEW p \in Procs, Begin(p) \/ TakeAgent(p) \/ TakeState(p)
      PROVE  StateLock'
  BY <1>0, <1>2 DEF Begin, BeginWrite, BeginTalk, BeginChat, TakeAgent,
                    TakeState, Goto
<1>3. ASSUME NEW p \in Procs,
             Create(p) \/ Fork(p) \/ Delete(p) \/ Lookup(p) \/ Record(p)
      PROVE  StateLock'
  BY <1>0, <1>3 DEF Create, Fork, Delete, Lookup, Record, Refuse, Change, Goto
<1>4. ASSUME NEW p \in Procs, WriteTmp(p) \/ Swap(p) PROVE StateLock'
  BY <1>0, <1>4 DEF WriteTmp, Swap, Goto
<1>5. ASSUME NEW p \in Procs, Free(p) PROVE StateLock'
  BY <1>0, <1>5 DEF Free, FreeTo, FreeEnd, End, Goto
<1>6. ASSUME NEW p \in Procs, EndTurn(p) PROVE StateLock'
  BY <1>0, <1>6 DEF EndTurn, Reports, Goto
<1>7. ASSUME NEW p \in Procs, FailTurn(p) \/ Repair(p) \/ ChatRead(p)
      PROVE  StateLock'
  BY <1>0, <1>7 DEF FailTurn, Repair, ChatRead, Goto
<1>8. ASSUME NEW p \in Procs,
             Reclaim(p) \/ SkipReclaim(p) \/ Leave(p)
      PROVE  StateLock'
  BY <1>0, <1>8 DEF Reclaim, SkipReclaim, Leave, End, Goto
<1>9. ASSUME NEW p \in Procs, Crash(p) PROVE StateLock'
  BY <1>0, <1>9 DEF Crash, End, Goto
<1> QED BY <1>1, <1>2, <1>3, <1>4, <1>5, <1>6, <1>7, <1>8, <1>9 DEF Next, Work

(* A command has its agent's lock exactly where it should. *)
LEMMA AgentLocksStep == ASSUME IInv, TypeOK', [Next]_vars PROVE AgentLocks'
<1> USE SpecialValues, RegistryAssumption DEF AgentLocks, TypeOK, InState, Holding
<1>0. TypeOK /\ Shape /\ AgentLocks
  BY DEF IInv
<1>1. CASE UNCHANGED vars
  BY <1>0, <1>1 DEF vars
<1>2. ASSUME NEW p \in Procs, Begin(p) \/ TakeAgent(p) \/ TakeState(p)
      PROVE  AgentLocks'
  <2>1. CASE TakeAgent(p) \/ TakeState(p)
    BY <1>0, <2>1 DEF TakeAgent, TakeState, Goto, Shape
  <2>2. ASSUME NEW n \in Names, BeginTalk(p, n) PROVE AgentLocks'
    BY <1>0, <2>2 DEF BeginTalk, Goto
  <2>3. ASSUME NEW n \in Names, BeginChat(p, n) PROVE AgentLocks'
    BY <1>0, <2>3 DEF BeginChat, Goto
  <2>4. ASSUME NEW n \in Names, NEW s \in Names \cup {None},
               NEW j \in {"create", "delete", "fork"}, BeginWrite(p, j, n, s)
        PROVE  AgentLocks'
    BY <1>0, <2>4 DEF BeginWrite, Goto
  <2> QED BY <1>2, <2>1, <2>2, <2>3, <2>4 DEF Begin
<1>3. ASSUME NEW p \in Procs,
             Create(p) \/ Fork(p) \/ Delete(p) \/ Lookup(p) \/ Record(p)
      PROVE  AgentLocks'
  BY <1>0, <1>3 DEF Create, Fork, Delete, Lookup, Record, Refuse, Change, Goto
<1>4. ASSUME NEW p \in Procs, WriteTmp(p) \/ Swap(p) PROVE AgentLocks'
  BY <1>0, <1>4 DEF WriteTmp, Swap, Goto
<1>5. ASSUME NEW p \in Procs, Free(p) PROVE AgentLocks'
  BY <1>0, <1>5 DEF Free, FreeTo, FreeEnd, End, Goto
<1>6. ASSUME NEW p \in Procs, EndTurn(p) PROVE AgentLocks'
  BY <1>0, <1>6 DEF EndTurn, Reports, Goto
<1>7. ASSUME NEW p \in Procs, FailTurn(p) \/ Repair(p) \/ ChatRead(p)
      PROVE  AgentLocks'
  BY <1>0, <1>7 DEF FailTurn, Repair, ChatRead, Goto
<1>8. ASSUME NEW p \in Procs,
             Reclaim(p) \/ SkipReclaim(p) \/ Leave(p)
      PROVE  AgentLocks'
  BY <1>0, <1>8 DEF Reclaim, SkipReclaim, Leave, End, Goto
<1>9. ASSUME NEW p \in Procs, Crash(p) PROVE AgentLocks'
  BY <1>0, <1>9 DEF Crash, End, Goto
<1> QED BY <1>1, <1>2, <1>3, <1>4, <1>5, <1>6, <1>7, <1>8, <1>9 DEF Next, Work

(* Only one process at a time is inside the state lock. *)
LEMMA OneWriter ==
  ASSUME IInv, NEW p \in Procs, NEW q \in Procs, pc[p] \in InState,
         pc[q] \in InState
  PROVE  p = q
BY DEF IInv, StateLock

(* Inside the state lock the file still is what the copy was made from. *)
LEMMA PreparedStep == ASSUME IInv, TypeOK', [Next]_vars PROVE Prepared'
<1> USE DEF Prepared, TypeOK, InState
<1>0. TypeOK /\ Shape /\ Prepared
  BY DEF IInv
<1>1. CASE UNCHANGED vars
  BY <1>0, <1>1 DEF vars, Atomic!Changed, Atomic!Spawned, Atomic!Forked, Atomic!Deleted, Atomic!Recorded
<1>2. ASSUME NEW p \in Procs, Begin(p) \/ TakeAgent(p) \/ TakeState(p)
      PROVE  Prepared'
  BY <1>0, <1>2 DEF Begin, BeginWrite, BeginTalk, BeginChat, TakeAgent, TakeState, Goto
<1>3. ASSUME NEW p \in Procs,
             Create(p) \/ Fork(p) \/ Delete(p) \/ Lookup(p) \/ Record(p)
      PROVE  Prepared'
  <2> DEFINE Copy(r) == /\ Atomic!Changed(file, name[p], r)
                        /\ \A n \in Names \ {name[p]} : r[n] = file[n]
                        /\ job[p] \in {"create", "fork"} => file[name[p]] = None
                        /\ job[p] = "record" => r[name[p]] = agent[p]
                        /\ job[p] = "delete" => r[name[p]] = None
  <2>1. name[p] \in Names /\ file \in Registries /\ pc[p] = "read"
    BY <1>0, <1>3 DEF Create, Fork, Delete, Lookup, Record, Shape
  <2>2. \A q \in Procs \ {p} : pc[q] \notin InState
    BY <2>1, OneWriter
  <2>3. ASSUME Refuse(p) \/ \E r : Copy(r) /\ Change(p, r, "write"),
               UNCHANGED <<file, name, job, agent>>
        PROVE  Prepared'
    BY <1>0, <2>1, <2>2, <2>3 DEF Change, Refuse, Goto
  <2>4. CASE Create(p) /\ ~Refuse(p)
    <3> DEFINE r == [file EXCEPT ![name[p]] = [session |-> None, pending |-> None]]
    <3>1. Change(p, r, "write") /\ file[name[p]] = None
      BY <2>4 DEF Create
    <3>2. Copy(r)
      BY <2>1, <2>4, <3>1 DEF Atomic!Changed, Atomic!Spawned, Create, Registries
    <3> QED BY <2>3, <2>4, <3>1, <3>2 DEF Create
  <2>5. CASE Fork(p) /\ ~Refuse(p)
    <3> DEFINE r == [file EXCEPT ![name[p]] = [session |-> None,
                                   pending |-> file[source[p]].session]]
    <3>1. Change(p, r, "write") /\ file[name[p]] = None /\ source[p] \in Names
      BY <1>0, <2>5 DEF Fork, Shape
    <3>2. Copy(r)
      BY <2>1, <2>5, <3>1 DEF Atomic!Changed, Atomic!Forked, Fork, Registries
    <3> QED BY <2>3, <2>5, <3>1, <3>2 DEF Fork
  <2>6. CASE Delete(p) /\ ~Refuse(p)
    <3> DEFINE r == [file EXCEPT ![name[p]] = None]
    <3>1. Change(p, r, "write") /\ file[name[p]] # None
      BY <2>6 DEF Delete
    <3>2. Copy(r)
      BY <2>1, <2>6, <3>1 DEF Atomic!Changed, Atomic!Deleted, Delete, Registries
    <3> QED BY <2>3, <2>6, <3>1, <3>2 DEF Delete
  <2>7. CASE Record(p) /\ ~Refuse(p)
    <3> DEFINE r == [file EXCEPT ![name[p]] = agent[p]]
    <3>1. Change(p, r, "write") /\ file[name[p]] # None /\ agent[p] \in Entry
      BY <2>7, RecordedCopy
    <3>2. Copy(r)
      <4>1. agent[p] \in Atomic!Entry
        BY <3>1 DEF Entry, Atomic!Entry
      <4> QED BY <2>1, <2>7, <3>1, <4>1
              DEF Atomic!Changed, Atomic!Recorded, Record, Registries
    <3> QED BY <2>3, <2>7, <3>1, <3>2 DEF Record
  <2>8. CASE Refuse(p) /\ (Create(p) \/ Fork(p) \/ Delete(p) \/ Record(p))
    BY <2>3, <2>8 DEF Create, Fork, Delete, Record
  <2>9. CASE Lookup(p)
    BY <1>0, <2>1, <2>2, <2>9 DEF Lookup, Goto
  <2> QED BY <1>3, <2>4, <2>5, <2>6, <2>7, <2>8, <2>9
<1>4. ASSUME NEW p \in Procs, WriteTmp(p) \/ Swap(p) PROVE Prepared'
  <2>1. \A q \in Procs \ {p} : pc[q] \notin InState
    BY <1>4, OneWriter DEF WriteTmp, Swap
  <2>2. CASE WriteTmp(p)
    BY <1>0, <2>1, <2>2 DEF WriteTmp, Goto
  <2>3. CASE Swap(p)
    BY <1>0, <2>1, <2>3 DEF Swap, Goto
  <2> QED BY <1>4, <2>2, <2>3
<1>5. ASSUME NEW p \in Procs, Free(p) PROVE Prepared'
  BY <1>0, <1>5 DEF Free, FreeTo, FreeEnd, End, Goto
<1>6. ASSUME NEW p \in Procs, EndTurn(p) PROVE Prepared'
  BY <1>0, <1>6 DEF EndTurn, Reports, Goto
<1>7. ASSUME NEW p \in Procs, FailTurn(p) \/ Repair(p) \/ ChatRead(p)
      PROVE  Prepared'
  BY <1>0, <1>7 DEF FailTurn, Repair, ChatRead, Goto
<1>8. ASSUME NEW p \in Procs,
             Reclaim(p) \/ SkipReclaim(p) \/ Leave(p)
      PROVE  Prepared'
  BY <1>0, <1>8 DEF Reclaim, SkipReclaim, Leave, End, Goto
<1>9. ASSUME NEW p \in Procs, Crash(p) PROVE Prepared'
  <2>1. CASE pc[p] \in InState
    <3>1. \A q \in Procs \ {p} : pc[q] \notin InState
      BY <2>1, OneWriter
    <3> QED BY <1>0, <1>9, <3>1 DEF Crash, End, Goto
  <2>2. CASE pc[p] \notin InState
    BY <1>0, <1>9, <2>2 DEF Crash, End, Goto
  <2> QED BY <2>1, <2>2
<1> QED BY <1>1, <1>2, <1>3, <1>4, <1>5, <1>6, <1>7, <1>8, <1>9 DEF Next, Work

-----------------------------------------------------------------------------
(* Only a rename changes the file, and nobody but the owner of an agent    *)
(* renames a turn's result over it.                                        *)
LEMMA AgreesStep == ASSUME IInv, TypeOK', [Next]_vars PROVE Agrees'
<1> USE DEF Agrees, TypeOK, InState
<1>0. TypeOK /\ Shape /\ Agrees
  BY DEF IInv
<1>1. CASE UNCHANGED vars
  BY <1>0, <1>1 DEF vars
<1>2. ASSUME NEW p \in Procs, Begin(p) \/ TakeAgent(p) \/ TakeState(p)
      PROVE  Agrees'
  BY <1>0, <1>2 DEF Begin, BeginWrite, BeginTalk, BeginChat, TakeAgent,
                    TakeState, Goto
<1>3. ASSUME NEW p \in Procs,
             Create(p) \/ Fork(p) \/ Delete(p) \/ Lookup(p) \/ Record(p)
      PROVE  Agrees'
  BY <1>0, <1>3 DEF Create, Fork, Delete, Lookup, Record, Refuse, Change, Goto
<1>4. ASSUME NEW p \in Procs, WriteTmp(p) \/ Swap(p) PROVE Agrees'
  <2>1. CASE WriteTmp(p)
    BY <1>0, <2>1 DEF WriteTmp, Goto
  <2>2. CASE Swap(p)
    <3> SUFFICES ASSUME NEW q \in Procs, ~orphan'[q],
                        \/ pc'[q] \in {"running", "done", "chatting"}
                        \/ pc'[q] = "free" /\ job[q] \in {"lookup", "record"}
                 PROVE  file'[name[q]] = agent[q]
      BY <2>2 DEF Swap
    <3>1. /\ file' = mem[p] /\ name[p] \in Names /\ pc[p] = "swap"
          /\ \A n \in Names \ {name[p]} : mem[p][n] = file[n]
          /\ job[p] \in {"create", "fork"} => file[name[p]] = None
          /\ job[p] = "record" => mem[p][name[p]] = agent[p]
          /\ job[p] \in {"create", "fork", "delete", "record"}
      BY <1>0, <2>2 DEF Swap, IInv, Prepared, Shape, Jobs
    <3>2. CASE q = p
      BY <1>0, <2>2, <3>1, <3>2 DEF Swap, Goto
    <3>3. CASE q # p
      <4>1. pc'[q] = pc[q] /\ ~orphan[q]
        BY <1>0, <2>2, <3>3 DEF Swap, Goto
      <4>2. pc[q] \in {"running", "done", "chatting"} /\ agent[q] # None
        BY <1>0, <2>2, <3>3, <4>1, OneWriter DEF Swap, Shape
      <4>3. file[name[q]] = agent[q] /\ name[q] \in Names
        BY <1>0, <4>1, <4>2 DEF Shape
      <4>4. CASE name[q] # name[p]
        BY <3>1, <4>3, <4>4
      <4>5. CASE name[q] = name[p]
        <5>1. job[p] # "delete"
          BY <1>0, <2>2, <4>2, <4>5 DEF Swap
        <5>2. job[p] # "record"
          BY <3>1, <3>3, <4>2, <4>3, <4>5 DEF IInv, AgentLocks, Holding
        <5> QED BY <3>1, <4>2, <4>3, <4>5, <5>1, <5>2
      <4> QED BY <4>4, <4>5
    <3> QED BY <3>2, <3>3
  <2> QED BY <1>4, <2>1, <2>2
<1>5. ASSUME NEW p \in Procs, Free(p) PROVE Agrees'
  BY <1>0, <1>5 DEF Free, FreeTo, FreeEnd, End, Goto
<1>6. ASSUME NEW p \in Procs, EndTurn(p) PROVE Agrees'
  BY <1>0, <1>6 DEF EndTurn, Reports, Goto
<1>7. ASSUME NEW p \in Procs, FailTurn(p) \/ Repair(p) \/ ChatRead(p)
      PROVE  Agrees'
  BY <1>0, <1>7 DEF FailTurn, Repair, ChatRead, Goto
<1>8. ASSUME NEW p \in Procs,
             Reclaim(p) \/ SkipReclaim(p) \/ Leave(p)
      PROVE  Agrees'
  BY <1>0, <1>8 DEF Reclaim, SkipReclaim, Leave, End, Goto
<1>9. ASSUME NEW p \in Procs, Crash(p) PROVE Agrees'
  BY <1>0, <1>9 DEF Crash, End, Goto
<1> QED BY <1>1, <1>2, <1>3, <1>4, <1>5, <1>6, <1>7, <1>8, <1>9 DEF Next, Work

(* A turn that is over keeps what it goes by until it is written. *)
LEMMA MovedStep == ASSUME IInv, TypeOK', [Next]_vars PROVE Moved'
<1> USE SpecialValues DEF Moved, TypeOK, InState
<1>0. TypeOK /\ Shape /\ Moved
  BY DEF IInv
<1>1. CASE UNCHANGED vars
  <2>1. UNCHANGED <<file, pc, job, name, agent, orphan>>
    BY <1>1 DEF vars
  <2> QED BY <1>0, <2>1 DEF Makes
<1>2. ASSUME NEW p \in Procs, Begin(p) \/ TakeAgent(p) \/ TakeState(p)
      PROVE  Moved'
  <2>1. UNCHANGED <<file, agent, orphan>>
    BY <1>2 DEF Begin, BeginWrite, BeginTalk, BeginChat, TakeAgent, TakeState
  <2>2. /\ \A q \in Procs \ {p} :
              pc'[q] = pc[q] /\ job'[q] = job[q] /\ name'[q] = name[q]
        /\ \/ pc[p] = "idle" /\ job'[p] # "record"
           \/ pc[p] = "wait_agent" /\ UNCHANGED <<job, name>>
           \/ pc[p] = "wait_state" /\ UNCHANGED <<job, name>>
    BY <1>0, <1>2 DEF Begin, BeginWrite, BeginTalk, BeginChat, TakeAgent,
                      TakeState, Goto
  <2>3. pc[p] = "wait_agent" => job[p] = "lookup"
    BY <1>0 DEF Shape
  <2> QED BY <1>0, <2>1, <2>2, <2>3
<1>3. ASSUME NEW p \in Procs,
             Create(p) \/ Fork(p) \/ Delete(p) \/ Lookup(p) \/ Record(p)
      PROVE  Moved'
  BY <1>0, <1>3 DEF Create, Fork, Delete, Lookup, Record, Refuse, Change, Goto,
                    Makes
<1>4. ASSUME NEW p \in Procs, WriteTmp(p) \/ Swap(p) PROVE Moved'
  <2>1. CASE WriteTmp(p)
    BY <1>0, <2>1 DEF WriteTmp, Goto, Makes
  <2>2. CASE Swap(p)
    <3>1. /\ file' = mem[p] /\ name[p] \in Names /\ pc[p] = "swap"
          /\ \A n \in Names \ {name[p]} : mem[p][n] = file[n]
          /\ job[p] \in {"create", "fork"} => file[name[p]] = None
          /\ job[p] \in {"create", "fork", "delete", "record"}
      BY <1>0, <2>2 DEF Swap, IInv, Prepared, Shape, Jobs
    <3> SUFFICES ASSUME NEW q \in Procs, ~orphan'[q], job[q] = "record",
                        pc'[q] \in {"wait_state", "read", "write", "swap"}
                 PROVE  /\ file'[name[q]] # None
                        /\ file'[name[q]].pending # None =>
                             \/ agent[q] = file'[name[q]]
                             \/ Makes(file'[name[q]], agent[q])
      BY <2>2 DEF Swap, Makes
    <3>2. q # p /\ pc'[q] = pc[q] /\ ~orphan[q]
      BY <1>0, <2>2 DEF Swap, Goto
    <3>3. name[q] \in Names /\ file[name[q]] # None /\ agent[q] # None
      BY <1>0, <3>2 DEF Shape
    <3>4. name[q] # name[p]
      <4> SUFFICES ASSUME name[q] = name[p] PROVE FALSE
        OBVIOUS
      <4>1. job[p] \notin {"delete", "create", "fork"}
        BY <1>0, <2>2, <3>1, <3>3 DEF Swap
      <4>2. Holding(p) /\ Holding(q)
        BY <3>1, <3>2, <4>1 DEF Holding
      <4> QED BY <3>1, <3>2, <4>2 DEF IInv, AgentLocks
    <3>5. file'[name[q]] = file[name[q]]
      BY <3>1, <3>3, <3>4
    <3> QED BY <1>0, <3>2, <3>5 DEF Makes
  <2> QED BY <1>4, <2>1, <2>2
<1>5. ASSUME NEW p \in Procs, Free(p) PROVE Moved'
  BY <1>0, <1>5 DEF Free, FreeTo, FreeEnd, End, Goto, Makes
<1>6. ASSUME NEW p \in Procs, EndTurn(p) PROVE Moved'
  <2>1. PICK r \in Reportable(p) : Reports(p, r)
    BY <1>6 DEF EndTurn
  <2>2. /\ agent[p] \in Entry /\ pc[p] = "running" /\ Sound(agent[p])
        /\ UNCHANGED <<file, name, orphan>>
    BY <1>0, <1>6 DEF EndTurn, Shape, IInv, ForksSound
  <2>3. \A q \in Procs \ {p} :
           pc'[q] = pc[q] /\ job'[q] = job[q] /\ agent'[q] = agent[q]
    BY <1>0, <2>1 DEF Reports, Goto
  <2>4. ~orphan[p] => file[name[p]] = agent[p]
    BY <2>2 DEF IInv, Agrees
  <2>5. agent[p].pending # None =>
           agent'[p] = agent[p] \/ Makes(agent[p], agent'[p])
    <3> DEFINE a == agent[p]
               b == [a EXCEPT !.session = r, !.pending = None]
    <3>1. agent'[p] = IF r = None THEN a ELSE b
      BY <1>0, <2>1 DEF Reports
    <3>2. a.pending # None => a.session = None
      BY <2>2, SpecialValues DEF Sound
    <3>3. r # None => r # a.pending
      BY <2>1 DEF Reports
    <3>4. b.session = r /\ b.pending = None
      BY <2>2 DEF Entry
    <3> QED BY <3>1, <3>2, <3>3, <3>4 DEF Makes
  <2>6. agent[p] # None
    BY <1>0, <2>2 DEF Shape
  <2> QED BY <1>0, <2>2, <2>3, <2>4, <2>5, <2>6 DEF Makes
<1>7. ASSUME NEW p \in Procs, FailTurn(p) \/ Repair(p) \/ ChatRead(p)
      PROVE  Moved'
  BY <1>0, <1>7 DEF FailTurn, Repair, ChatRead, Goto, Makes
<1>8. ASSUME NEW p \in Procs,
             Reclaim(p) \/ SkipReclaim(p) \/ Leave(p)
      PROVE  Moved'
  BY <1>0, <1>8 DEF Reclaim, SkipReclaim, Leave, End, Goto, Makes
<1>9. ASSUME NEW p \in Procs, Crash(p) PROVE Moved'
  BY <1>0, <1>9 DEF Crash, End, Goto, Makes
<1> QED BY <1>1, <1>2, <1>3, <1>4, <1>5, <1>6, <1>7, <1>8, <1>9 DEF Next, Work

(* A fork is pending only where there is no session. *)
LEMMA ForksSoundStep == ASSUME IInv, TypeOK', [Next]_vars PROVE ForksSound'
<1> USE SpecialValues DEF ForksSound, TypeOK, Sound
<1>0. TypeOK /\ Shape /\ ForksSound
  BY DEF IInv
<1>1. CASE UNCHANGED vars
  BY <1>0, <1>1 DEF vars
<1>2. ASSUME NEW p \in Procs, Begin(p) \/ TakeAgent(p) \/ TakeState(p)
      PROVE  ForksSound'
  BY <1>0, <1>2 DEF Begin, BeginWrite, BeginTalk, BeginChat, TakeAgent,
                    TakeState, Goto
<1>3. ASSUME NEW p \in Procs,
             Create(p) \/ Fork(p) \/ Delete(p) \/ Lookup(p) \/ Record(p)
      PROVE  ForksSound'
  <2>1. name[p] \in Names /\ file \in Registries
    BY <1>0, <1>3 DEF Create, Fork, Delete, Lookup, Record, Shape
  <2>2. ASSUME Refuse(p) \/ \E r : (\A n \in Names : Sound(r[n])) /\ Change(p, r, "write"),
               UNCHANGED <<file, agent>>
        PROVE  ForksSound'
    BY <1>0, <2>2 DEF Change, Refuse
  <2>3. CASE Create(p)
    <3>1. \A n \in Names :
            Sound([file EXCEPT ![name[p]] = [session |-> None, pending |-> None]][n])
      BY <1>0, <2>1 DEF Registries
    <3> QED BY <2>2, <2>3, <3>1 DEF Create
  <2>4. CASE Fork(p)
    <3> DEFINE s == file[source[p]].session
    <3>1. \A n \in Names :
            Sound([file EXCEPT ![name[p]] = [session |-> None, pending |-> s]][n])
      BY <1>0, <2>1 DEF Registries
    <3> QED BY <2>2, <2>4, <3>1 DEF Fork
  <2>5. CASE Delete(p)
    <3>1. \A n \in Names : Sound([file EXCEPT ![name[p]] = None][n])
      BY <1>0, <2>1 DEF Registries
    <3> QED BY <2>2, <2>5, <3>1 DEF Delete
  <2>6. CASE Lookup(p)
    BY <1>0, <2>1, <2>6 DEF Lookup
  <2>7. CASE Record(p) /\ ~Refuse(p)
    <3> DEFINE r == [file EXCEPT ![name[p]] = agent[p]]
    <3>1. \A n \in Names : Sound(r[n])
      BY <1>0, <2>1 DEF Registries
    <3>2. Change(p, r, "write")
      BY <2>7, RecordedCopy
    <3> QED BY <2>2, <2>7, <3>1, <3>2 DEF Record
  <2>8. CASE Record(p) /\ Refuse(p)
    BY <2>2, <2>8 DEF Record
  <2> QED BY <1>3, <2>3, <2>4, <2>5, <2>6, <2>7, <2>8
<1>4. ASSUME NEW p \in Procs, WriteTmp(p) \/ Swap(p) PROVE ForksSound'
  BY <1>0, <1>4 DEF WriteTmp, Swap, Goto, IInv, Prepared, Shape
<1>5. ASSUME NEW p \in Procs, Free(p) PROVE ForksSound'
  BY <1>0, <1>5 DEF Free, FreeTo, FreeEnd, End, Goto
<1>6. ASSUME NEW p \in Procs, EndTurn(p) PROVE ForksSound'
  BY <1>0, <1>6 DEF EndTurn, Reports, Goto
<1>7. ASSUME NEW p \in Procs, FailTurn(p) \/ Repair(p) \/ ChatRead(p)
      PROVE  ForksSound'
  BY <1>0, <1>7 DEF FailTurn, Repair, ChatRead, Goto
<1>8. ASSUME NEW p \in Procs,
             Reclaim(p) \/ SkipReclaim(p) \/ Leave(p)
      PROVE  ForksSound'
  <2>1. CASE Reclaim(p)
    BY <1>0, <2>1 DEF Reclaim
  <2>2. CASE SkipReclaim(p) \/ Leave(p)
    BY <1>0, <2>2 DEF SkipReclaim, Leave, End
  <2> QED BY <1>8, <2>1, <2>2
<1>9. ASSUME NEW p \in Procs, Crash(p) PROVE ForksSound'
  BY <1>0, <1>9 DEF Crash, End, Goto
<1> QED BY <1>1, <1>2, <1>3, <1>4, <1>5, <1>6, <1>7, <1>8, <1>9 DEF Next, Work

-----------------------------------------------------------------------------
(* A step that makes no new claim to a session keeps claims apart. *)
NoNewClaim == \A n \in Names, s \in Sessions : Claims(n, s)' => Claims(n, s)

LEMMA ClaimsKept == ASSUME IInv, NoNewClaim PROVE OneClaim'
BY DEF NoNewClaim, IInv, OneClaim

(* Only the end of a turn makes one, and that to a fresh session. *)
LEMMA OneClaimStep == ASSUME IInv, TypeOK', [Next]_vars PROVE OneClaim'
<1> USE DEF TypeOK
<1>0. TypeOK /\ Shape
  BY DEF IInv
<1>1. CASE UNCHANGED vars
  <2>1. NoNewClaim
    BY <1>1 DEF vars, NoNewClaim, Claims
  <2> QED BY <2>1, ClaimsKept
<1>2. ASSUME NEW p \in Procs, Begin(p) \/ TakeAgent(p) \/ TakeState(p)
      PROVE  OneClaim'
  <2>1. UNCHANGED <<file, mem, agent>>
    BY <1>2 DEF Begin, BeginWrite, BeginTalk, BeginChat, TakeAgent, TakeState
  <2>2. \A q \in Procs : name'[q] # name[q] => agent[q] = None
    BY <1>0, <1>2 DEF Begin, BeginWrite, BeginTalk, BeginChat, TakeAgent, TakeState, Shape
  <2>3. NoNewClaim
    BY <2>1, <2>2 DEF NoNewClaim, Claims
  <2> QED BY <2>3, ClaimsKept
<1>3. ASSUME NEW p \in Procs,
             Create(p) \/ Fork(p) \/ Delete(p) \/ Lookup(p) \/ Record(p)
      PROVE  OneClaim'
  <2>1. name[p] \in Names /\ file \in Registries
    BY <1>0, <1>3 DEF Create, Fork, Delete, Lookup, Record, Shape
  <2> DEFINE Inherited(r, n) ==
               \/ r[n] = None \/ r[n].session = None
               \/ r[n] = file[n]
               \/ n = name[p] /\ r[n] = agent[p]
  <2>2. ASSUME UNCHANGED <<file, name, agent>>,
               \A q \in Procs \ {p} : mem'[q] = mem[q],
               mem'[p] = None \/ \A n \in Names : Inherited(mem'[p], n)
        PROVE  OneClaim'
    <3>1. NoNewClaim
      BY <1>0, <2>2, RegistryAssumption DEF NoNewClaim, Claims
    <3> QED BY <3>1, ClaimsKept
  <2>3. CASE Refuse(p) /\ (Create(p) \/ Fork(p) \/ Delete(p) \/ Record(p))
    <3>1. UNCHANGED <<file, name, agent>> /\ mem' = [mem EXCEPT ![p] = None]
      BY <2>3 DEF Refuse, Change, Create, Fork, Delete, Record
    <3> QED BY <1>0, <2>2, <3>1
  <2>4. CASE Create(p) /\ ~Refuse(p)
    <3> DEFINE r == [file EXCEPT ![name[p]] = [session |-> None, pending |-> None]]
    <3>1. mem' = [mem EXCEPT ![p] = r] /\ UNCHANGED <<file, name, agent>>
      BY <2>4 DEF Create, Change
    <3>2. \A n \in Names : r[n] = file[n] \/ r[n].session = None
      BY <2>1 DEF Registries
    <3>3. \A n \in Names : Inherited(r, n)
      <4> HIDE DEF r
      <4> QED BY <3>2
    <3>4. mem'[p] = r /\ \A q \in Procs \ {p} : mem'[q] = mem[q]
      BY <1>0, <3>1
    <3> HIDE DEF r, Inherited
    <3> QED BY <2>2, <3>1, <3>3, <3>4
  <2>5. CASE Fork(p) /\ ~Refuse(p)
    <3> DEFINE s == file[source[p]].session
               r == [file EXCEPT ![name[p]] = [session |-> None, pending |-> s]]
    <3>1. mem' = [mem EXCEPT ![p] = r] /\ UNCHANGED <<file, name, agent>>
      BY <2>5 DEF Fork, Change
    <3>2. \A n \in Names : r[n] = file[n] \/ r[n].session = None
      <4> HIDE DEF s
      <4> QED BY <2>1 DEF Registries
    <3>3. \A n \in Names : Inherited(r, n)
      <4> HIDE DEF r
      <4> QED BY <3>2
    <3>4. mem'[p] = r /\ \A q \in Procs \ {p} : mem'[q] = mem[q]
      BY <1>0, <3>1
    <3> HIDE DEF r, Inherited
    <3> QED BY <2>2, <3>1, <3>3, <3>4
  <2>6. CASE Delete(p) /\ ~Refuse(p)
    <3> DEFINE r == [file EXCEPT ![name[p]] = None]
    <3>1. mem' = [mem EXCEPT ![p] = r] /\ UNCHANGED <<file, name, agent>>
      BY <2>6 DEF Delete, Change
    <3>2. \A n \in Names : r[n] = file[n] \/ r[n] = None
      BY <2>1 DEF Registries
    <3>3. \A n \in Names : Inherited(r, n)
      <4> HIDE DEF r
      <4> QED BY <3>2
    <3>4. mem'[p] = r /\ \A q \in Procs \ {p} : mem'[q] = mem[q]
      BY <1>0, <3>1
    <3> HIDE DEF r, Inherited
    <3> QED BY <2>2, <3>1, <3>3, <3>4
  <2>7. CASE Record(p) /\ ~Refuse(p)
    <3> DEFINE r == [file EXCEPT ![name[p]] = agent[p]]
    <3>1. mem' = [mem EXCEPT ![p] = r] /\ UNCHANGED <<file, name, agent>>
      BY <2>7, RecordedCopy DEF Record, Change
    <3>2. \A n \in Names : r[n] = IF n = name[p] THEN agent[p] ELSE file[n]
      BY <2>1 DEF Registries
    <3>3. \A n \in Names : Inherited(r, n)
      <4> HIDE DEF r
      <4> QED BY <3>2
    <3>4. mem'[p] = r /\ \A q \in Procs \ {p} : mem'[q] = mem[q]
      BY <1>0, <3>1
    <3> HIDE DEF r, Inherited
    <3> QED BY <2>2, <3>1, <3>3, <3>4
  <2>8. CASE Lookup(p)
    <3>1. NoNewClaim
      BY <1>0, <2>1, <2>8 DEF Lookup, NoNewClaim, Claims
    <3> QED BY <3>1, ClaimsKept
  <2> QED BY <1>3, <2>3, <2>4, <2>5, <2>6, <2>7, <2>8
<1>4. ASSUME NEW p \in Procs, WriteTmp(p) \/ Swap(p) PROVE OneClaim'
  <2>1. CASE WriteTmp(p)
    <3>1. NoNewClaim
      BY <2>1 DEF WriteTmp, NoNewClaim, Claims
    <3> QED BY <3>1, ClaimsKept
  <2>2. CASE Swap(p)
    <3>1. file' = mem[p] /\ mem[p] # None /\ UNCHANGED <<name, agent>>
      BY <1>0, <2>2 DEF Swap, IInv, Prepared, Shape
    <3>2. \A q \in Procs : mem'[q] = None \/ mem'[q] = mem[q]
      BY <1>0, <2>2 DEF Swap
    <3>3. NoNewClaim
      BY <3>1, <3>2 DEF NoNewClaim, Claims
    <3> QED BY <3>3, ClaimsKept
  <2> QED BY <1>4, <2>1, <2>2
<1>5. ASSUME NEW p \in Procs,
             \/ Free(p) \/ FailTurn(p) \/ Repair(p) \/ Reclaim(p)
             \/ SkipReclaim(p) \/ Leave(p) \/ Crash(p)
      PROVE  OneClaim'
  <2>1. /\ UNCHANGED file
        /\ \/ UNCHANGED <<name, mem, agent>>
           \/ End(p)
    BY <1>5 DEF Free, FreeTo, FreeEnd, FailTurn, Repair, Reclaim, SkipReclaim,
                Leave, Crash
  <2>2. NoNewClaim
    BY <1>0, <2>1 DEF End, NoNewClaim, Claims
  <2> QED BY <2>2, ClaimsKept
<1>6. ASSUME NEW p \in Procs, EndTurn(p) PROVE OneClaim'
  <2>1. PICK r \in Reportable(p) : Reports(p, r)
    BY <1>6 DEF EndTurn
  <2>2. agent[p] \in Entry /\ name[p] \in Names /\ pc[p] = "running"
    BY <1>0, <1>6 DEF EndTurn, Shape
  <2>3. UNCHANGED <<file, mem, name>>
    BY <1>6 DEF EndTurn
  <2>4. /\ \A q \in Procs \ {p} : agent'[q] = agent[q]
        /\ agent'[p].session = IF r = None THEN agent[p].session ELSE r
    BY <1>0, <2>1, <2>2 DEF Reports, Entry
  <2>5. \A n \in Names, s \in Sessions : Claims(n, s)' =>
           Claims(n, s) \/ (r # None /\ s = r /\ n = name[p])
    BY <2>2, <2>3, <2>4, SpecialValues DEF Claims
  <2>6. CASE r \in {None, agent[p].session}
    <3>1. r # None => Claims(name[p], r)
      BY <2>2, <2>6, SpecialValues DEF Claims
    <3>2. NoNewClaim
      BY <2>5, <3>1 DEF NoNewClaim
    <3> QED BY <3>2, ClaimsKept
  <2>7. CASE r \in FreshSession
    <3>1. \A n \in Names : ~Claims(n, r)
      BY <2>7, FreshIsUnclaimed
    <3> QED BY <2>5, <3>1 DEF IInv, OneClaim
  <2> QED BY <2>1, <2>6, <2>7 DEF Reportable, Reports
<1>7. ASSUME NEW p \in Procs, ChatRead(p) PROVE OneClaim'
  <2>1. UNCHANGED <<file, mem, name>> /\ name[p] \in Names
    BY <1>0, <1>7 DEF ChatRead, Shape
  <2>2. /\ \A q \in Procs \ {p} : agent'[q] = agent[q]
        /\ agent'[p] \in {agent[p], file[name[p]]}
    BY <1>0, <1>7 DEF ChatRead
  <2>3. NoNewClaim
    BY <2>1, <2>2 DEF NoNewClaim, Claims
  <2> QED BY <2>3, ClaimsKept
<1> QED BY <1>1, <1>2, <1>3, <1>4, <1>5, <1>6, <1>7 DEF Next, Work

-----------------------------------------------------------------------------
(* The invariant holds in every reachable state. *)
LEMMA AlwaysIInv == Spec => []IInv
<1>1. IInv /\ [Next]_vars => IInv'
  <2> SUFFICES ASSUME IInv, [Next]_vars PROVE IInv'
    OBVIOUS
  <2>1. TypeOK'
    BY TypeStep
  <2> QED BY <2>1, ShapeStep, StateLockStep, AgentLocksStep, PreparedStep,
             AgreesStep, MovedStep, ForksSoundStep, OneClaimStep DEF IInv
<1> QED BY <1>1, InitIInv, PTL DEF Spec

(* Only a rename changes the file. *)
LEMMA OnlySwap ==
  ASSUME [Next]_vars, file' # file
  PROVE  \E p \in Procs : Swap(p)
<1>1. ASSUME NEW p \in Procs, Work(p) \/ Crash(p), ~Swap(p)
      PROVE  UNCHANGED file
  BY <1>1 DEF Work, Crash, Begin, BeginWrite, BeginTalk, BeginChat, TakeAgent,
              TakeState, Create, Fork, Delete, Lookup, Record, WriteTmp, Free,
              FreeTo, FreeEnd, EndTurn, FailTurn, Repair, ChatRead, Reclaim,
              SkipReclaim, Leave
<1> QED BY <1>1 DEF Next, vars

(* Every variable keeps its type: in particular what a writer renames over *)
(* the registry is a whole registry (core.py:855-857).                     *)
THEOREM TypeCorrect == Spec => []TypeOK
<1>1. IInv => TypeOK
  BY DEF IInv
<1> QED BY <1>1, AlwaysIInv, PTL

(* Two agents never share a session, whatever the backends report          *)
(* (core.py:167-179).                                                      *)
THEOREM NoSharedSession == Spec => []SessionsDistinct
<1>1. IInv => SessionsDistinct
  <2> SUFFICES ASSUME IInv, NEW m \in Names, NEW n \in Names, m # n,
                      file[m] # None, file[n] # None, file[m].session # None,
                      file[m].session = file[n].session
               PROVE  FALSE
    BY DEF SessionsDistinct
  <2>1. file[m].session \in Sessions
    BY DEF IInv, TypeOK, Registries, Entry
  <2>2. Claims(m, file[m].session) /\ Claims(n, file[m].session)
    BY DEF Claims
  <2> QED BY <2>1, <2>2 DEF IInv, OneClaim
<1> QED BY <1>1, AlwaysIInv, PTL

(* No two commands drive one session, under one name or under two          *)
(* (core.py:789-806).                                                      *)
THEOREM SessionsHaveOneDriver == Spec => []OneDriverPerSession
<1>1. IInv => OneDriverPerSession
  <2> SUFFICES ASSUME IInv, NEW p \in Procs, NEW q \in Procs, NEW s \in Sessions,
                      Drives(p, s), Drives(q, s)
               PROVE  p = q
    BY DEF OneDriverPerSession
  <2>1. /\ agent[p] # None /\ agent[q] # None
        /\ name[p] \in Names /\ name[q] \in Names
    BY DEF IInv, Shape, Drives
  <2>2. Claims(name[p], s) /\ Claims(name[q], s)
    BY <2>1 DEF Claims, Drives
  <2>3. name[p] = name[q]
    BY <2>1, <2>2 DEF IInv, OneClaim
  <2> QED BY <2>1, <2>3 DEF IInv, AgentLocks, Holding, Drives
<1> QED BY <1>1, AlwaysIInv, PTL

(* The registry agrees with every command at work on an agent that was not *)
(* deleted under it (core.py:612-626).                                     *)
THEOREM RegistryIsCurrent == Spec => []RegistryAgrees
<1>1. IInv => RegistryAgrees
  BY DEF IInv, Agrees, RegistryAgrees
<1> QED BY <1>1, AlwaysIInv, PTL

(* A pending fork is kept until a turn has made it, and is then replaced   *)
(* by a session that is not the one it copied (core.py:173-184, 636-640).  *)
THEOREM PendingForksKept == Spec => ForkKeptUntilMade
<1>1. IInv /\ [Next]_vars =>
         [ \A n \in Names :
             /\ file[n] # None
             /\ file[n].pending # None
             /\ file'[n] \notin {None, file[n]}
             => \/ Makes(file[n], file'[n])
                \/ \E p \in Procs : Swap(p) /\ name[p] = n /\ orphan[p] ]_vars
  <2> SUFFICES ASSUME IInv, [Next]_vars, NEW n \in Names,
                      file[n] # None, file[n].pending # None,
                      file'[n] \notin {None, file[n]}
               PROVE  \/ Makes(file[n], file'[n])
                      \/ \E p \in Procs : Swap(p) /\ name[p] = n /\ orphan[p]
    OBVIOUS
  <2>1. PICK p \in Procs : Swap(p)
    BY OnlySwap
  <2>2. /\ file' = mem[p] /\ pc[p] = "swap" /\ name[p] \in Names
        /\ \A m \in Names \ {name[p]} : mem[p][m] = file[m]
        /\ job[p] \in {"create", "fork"} => file[name[p]] = None
        /\ job[p] = "record" => mem[p][name[p]] = agent[p]
        /\ job[p] = "delete" => mem[p][name[p]] = None
        /\ job[p] \in {"create", "fork", "delete", "record"}
    BY <2>1 DEF Swap, IInv, TypeOK, Prepared, Shape, Jobs, InState
  <2>3. name[p] = n /\ job[p] \in {"delete", "record"}
    <3>1. name[p] = n
      BY <2>2
    <3> QED BY <2>2, <3>1
  <2>4. job[p] = "record"
    BY <2>2, <2>3
  <2>5. CASE orphan[p]
    BY <2>1, <2>3, <2>5
  <2>6. CASE ~orphan[p]
    BY <2>2, <2>3, <2>4, <2>6 DEF IInv, Moved
  <2> QED BY <2>5, <2>6
<1> QED BY <1>1, AlwaysIInv, PTL DEF Spec, ForkKeptUntilMade

(* No two commands wait for each other (core.py:726-729). *)
THEOREM LocksAreOrdered == Spec => []NoWaitCycle
<1>1. IInv => NoWaitCycle
  <2> SUFFICES ASSUME IInv, NEW p \in Procs, NEW q \in Procs,
                      WaitsFor(p, q), WaitsFor(q, p)
               PROVE  FALSE
    BY DEF NoWaitCycle
  <2>1. /\ pc[p] \in {"wait_agent", "wait_state"}
        /\ pc[q] \in {"wait_agent", "wait_state"}
    BY DEF WaitsFor
  <2>2. pc[p] = "wait_agent" /\ pc[q] = "wait_agent"
    BY <2>1 DEF WaitsFor, IInv, StateLock, InState
  <2> QED BY <2>2 DEF WaitsFor, IInv, AgentLocks, Holding, Shape, InState
<1> QED BY <1>1, AlwaysIInv, PTL

(* The file moves as if every command changed one entry in a single step:  *)
(* only a rename changes it, and renames exactly the change that its       *)
(* command prepared on the registry of that moment (core.py:849-857).      *)
THEOREM Refinement == Spec => ImplementsAtomicRegistry
<1>1. Init => Atomic!Init
  BY DEF Init, Atomic!Init
<1>2. IInv /\ [Next]_vars => [Atomic!Next]_file
  <2> SUFFICES ASSUME IInv, [Next]_vars PROVE [Atomic!Next]_file
    OBVIOUS
  <2>1. ASSUME NEW p \in Procs, Swap(p) PROVE Atomic!Next
    BY <2>1 DEF Swap, IInv, Prepared, Shape, Atomic!Next
  <2> QED BY <2>1, OnlySwap
<1> QED BY <1>1, <1>2, AlwaysIInv, PTL DEF Spec, ImplementsAtomicRegistry, Atomic!Spec
=============================================================================
