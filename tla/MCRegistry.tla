----------------------------- MODULE MCRegistry -----------------------------
(* Instances of Registry for TLC. *)
EXTENDS Registry, TLC

(* Processes and names are interchangeable; session ids are naturals that  *)
(* the module already hands out in a canonical order.                      *)
ProcsAndNames == Permutations(Procs) \cup Permutations(Names)
=============================================================================
