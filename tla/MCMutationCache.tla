-------------------------- MODULE MCMutationCache --------------------------
(* Instances of MutationCache for TLC. *)
EXTENDS MutationCache, TLC

CONSTANTS test_turns, test_gates, conftest, fixture, talk, list  \* files and functions

=============================================================================
