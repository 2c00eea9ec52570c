--------------------------- MODULE MCTeamTeardown ---------------------------
(* Instances of TeamTeardown for TLC. *)
EXTENDS TeamTeardown, TLC

(* Processes are interchangeable. *)
ProcsSymmetric == Permutations(Procs)
=============================================================================
