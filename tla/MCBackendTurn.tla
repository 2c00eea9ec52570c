---- MODULE MCBackendTurn ----
(* BackendTurn for TLC: every adapter, all agent states before the call.   *)
EXTENDS BackendTurn, TLC

(* No id, part or reason is treated apart from the others of its kind. *)
Symmetry ==
  Permutations(Sessions) \cup Permutations(Parts) \cup Permutations(Reasons)
====
