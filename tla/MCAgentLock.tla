----------------------------- MODULE MCAgentLock -----------------------------
(* An instance of AgentLock for TLC: two commands of any kind and three    *)
(* inode numbers.  There is no symmetry, because liveness is checked too.  *)
EXTENDS AgentLock

CONSTANTS p1, p2, i1, i2, i3
=============================================================================
