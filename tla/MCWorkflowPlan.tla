--------------------------- MODULE MCWorkflowPlan ---------------------------
(* An instance of WorkflowPlan for TLC: an issue may split into the two    *)
(* leaves, into one of them listed twice, into the root again, or with a   *)
(* CHILDREN line nobody can parse.                                         *)
EXTENDS WorkflowPlan

CONSTANTS r, a, b

MCChildLists == {<<>>, <<a, b>>, <<a, a>>, <<Root>>}
=============================================================================
