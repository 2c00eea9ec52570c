---------------------------- MODULE ValidatedTurn ----------------------------
(***************************************************************************)
(* One `talk --schema` call: run the CLI, record the turn, validate the    *)
(* reply, repair it with another run, within one wall-clock budget         *)
(* (orchestrator/core.py: _turn, _validated_turn).                         *)
(*                                                                         *)
(* The clock ticks R times a second, and a CLI run is granted whole        *)
(* seconds.  Time passes while the CLI runs and while the call waits for   *)
(* the state lock to record the turn; the statements between take none.    *)
(* subprocess kills a run the moment its grant is spent.                   *)
(***************************************************************************)
EXTENDS Integers

CONSTANTS
  R,          \* ticks in a second
  Timeouts,   \* values of --timeout, in seconds
  Retries,    \* values of --retries
  MaxRetries, \* bound on Retries
  MaxWait     \* bound: ticks a recorded turn waits for the state lock

ASSUME BudgetAssumption ==
  /\ R \in Nat \ {0}
  /\ Timeouts \subseteq Nat \ {0}
  /\ MaxRetries \in Nat
  /\ Retries \subseteq 0 .. MaxRetries
  /\ MaxWait \in Nat

VARIABLES
  now,       \* time.monotonic() since the call, in ticks
  timeout,   \* the call's --timeout
  retries,   \* the call's --retries
  pc,        \* where the call is
  attempt,   \* CLI runs started
  grant,     \* seconds granted to the current run
  until,     \* when the current run is killed, or the wait has to end
  moved,     \* runs after which the CLI session moved on
  recorded   \* the position of that session the registry knows

vars ==
  <<now, timeout, retries, pc, attempt, grant, until, moved, recorded>>

Finished == {"returned", "invalid", "failed", "gone"}
PCs      == {"start", "run", "record", "validate", "repair"} \cup Finished

deadline == timeout * R

Goto(l) == pc' = l

Init ==
  /\ now = 0
  /\ timeout \in Timeouts
  /\ retries \in Retries
  /\ pc = "start"
  /\ attempt = 0
  /\ grant = 0
  /\ until = 0
  /\ moved = 0
  /\ recorded = 0

(* g = max(1, ceil(t)) of a number of ticks, as seconds. *)
IsGrant(g, t) ==
  /\ g >= 1
  /\ g * R >= t
  /\ g = 1 \/ g * R - R < t

-----------------------------------------------------------------------------
(* Faulty variant: every attempt gets the whole --timeout. *)
LaunchAnew ==
  /\ pc \in {"start", "repair"}
  /\ attempt' = attempt + 1
  /\ grant' = timeout
  /\ until' = now + timeout * R
  /\ Goto("run")
  /\ UNCHANGED <<now, timeout, retries, moved, recorded>>

(* The next attempt gets what is left of the budget, in whole seconds. *)
Launch ==
  /\ pc \in {"start", "repair"}
  /\ attempt' = attempt + 1
  /\ \E g \in 1 .. timeout :
       /\ IsGrant(g, deadline - now)
       /\ grant' = g
       /\ until' = now + g * R
  /\ Goto("run")
  /\ UNCHANGED <<now, timeout, retries, moved, recorded>>

(* Time passes while the CLI runs and while the state lock is waited for. *)
Tick ==
  /\ pc \in {"run", "record"}
  /\ now < until
  /\ now' = now + 1
  /\ UNCHANGED <<timeout, retries, pc, attempt, grant, until, moved, recorded>>

(* The CLI answers in time ... *)
Reply ==
  /\ pc = "run"
  /\ moved' = moved + 1
  /\ until' = now + MaxWait
  /\ Goto("record")
  /\ UNCHANGED <<now, timeout, retries, attempt, grant, recorded>>

(* ... or fails, or is killed at the end of its grant, or did not fork. *)
Fail ==
  /\ pc = "run"
  /\ Goto("failed")
  /\ UNCHANGED <<now, timeout, retries, attempt, grant, until, moved, recorded>>

(* Faulty variant: only the reply that is returned gets recorded. *)
PersistLast ==
  /\ pc = "record"
  /\ Goto("validate")
  /\ UNCHANGED <<now, timeout, retries, attempt, grant, until, moved, recorded>>

(* The turn is persisted before its reply is looked at, unless the agent   *)
(* was deleted meanwhile.                                                  *)
Persist ==
  /\ pc = "record"
  /\ \/ recorded' = moved /\ Goto("validate")
     \/ UNCHANGED recorded /\ Goto("gone")
  /\ UNCHANGED <<now, timeout, retries, attempt, grant, until, moved>>

Satisfied ==
  /\ pc = "validate"
  /\ Goto("returned")
  /\ UNCHANGED <<now, timeout, retries, attempt, grant, until, moved, recorded>>

(* A reply that breaks the schema: out of retries, out of time, or again.  *)
(* (Faulty variant: the clock is not read.)                                *)
RejectedUntimed ==
  /\ pc = "validate"
  /\ Goto(IF attempt > retries THEN "invalid" ELSE "repair")
  /\ UNCHANGED <<now, timeout, retries, attempt, grant, until, moved, recorded>>

Rejected ==
  /\ pc = "validate"
  /\ Goto(IF attempt > retries \/ deadline - now <= 0 THEN "invalid"
          ELSE "repair")
  /\ UNCHANGED <<now, timeout, retries, attempt, grant, until, moved, recorded>>

Done == pc \in Finished /\ UNCHANGED vars

Next ==
  \/ Launch \/ Tick \/ Reply \/ Fail \/ Persist \/ Satisfied \/ Rejected
  \/ Done

Spec == Init /\ [][Next]_vars

-----------------------------------------------------------------------------
(* The counts stay in their ranges: --retries N allows N corrections, so   *)
(* no call starts more than N + 1 runs.                                    *)
TypeOK ==
  /\ now \in Nat
  /\ timeout \in Timeouts
  /\ retries \in Retries
  /\ pc \in PCs
  /\ attempt \in 0 .. retries + 1
  /\ grant \in 0 .. timeout
  /\ until \in Nat
  /\ moved \in 0 .. attempt
  /\ recorded \in 0 .. moved

(* --timeout is the budget of the whole loop: however many attempts it     *)
(* takes and however the grants are rounded, no CLI run is still going a   *)
(* second after the budget is spent.                                       *)
RunsWithinBudget == pc = "run" => now < deadline + R

(* The agent's lock is held for one budget, the rounding of the last grant *)
(* and one wait for the state lock, not for one of each per attempt.       *)
CallBounded == now < deadline + R + MaxWait

(* A repair starts only while some of the budget and one of the retries    *)
(* are left, even though the rejected turn was recorded, and may have      *)
(* waited for that, after its run ended.                                   *)
NoLateRepair ==
  [][pc = "repair" /\ pc' = "run" => now < deadline /\ attempt <= retries]_vars

(* The registry knows every run that moved the session on before the next  *)
(* one starts and before the call gives up on the reply, so neither a      *)
(* repair nor a later call resumes from a stale session.                   *)
PositionRecorded == pc \notin {"record", "gone"} => recorded = moved
=============================================================================
