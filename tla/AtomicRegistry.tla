--------------------------- MODULE AtomicRegistry ---------------------------
(***************************************************************************)
(* What the registry file promises its readers, who take no lock: it       *)
(* always holds a whole registry, and it goes from one to the next as if   *)
(* every command changed one entry in a single step, by what the registry  *)
(* held right before that step.  Registry is shown to implement it.        *)
(***************************************************************************)
CONSTANTS Names, Sessions, None

VARIABLE file

Entry == [session : Sessions \cup {None}, pending : Sessions \cup {None}]

(* r becomes t by one command on the name n. *)
Spawned(r, n, t) ==
  /\ r[n] = None
  /\ t = [r EXCEPT ![n] = [session |-> None, pending |-> None]]

(* The copy is to fork the session its source has now. *)
Forked(r, n, s, t) ==
  /\ r[n] = None
  /\ r[s] # None /\ r[s].session # None
  /\ t = [r EXCEPT ![n] = [session |-> None, pending |-> r[s].session]]

Deleted(r, n, t) ==
  /\ r[n] # None
  /\ t = [r EXCEPT ![n] = None]

(* A turn moves an existing entry on; it never brings one back. *)
Recorded(r, n, t) ==
  /\ r[n] # None
  /\ \E e \in Entry : t = [r EXCEPT ![n] = e]

Changed(r, n, t) ==
  \/ Spawned(r, n, t)
  \/ \E s \in Names : Forked(r, n, s, t)
  \/ Deleted(r, n, t)
  \/ Recorded(r, n, t)

Init == file = [n \in Names |-> None]

Next == \E n \in Names : Changed(file, n, file')

Spec == Init /\ [][Next]_file
=============================================================================
