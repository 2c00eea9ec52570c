----------------------------- MODULE MCTeamSearch -----------------------------
(* A root with a flat team, a namespaced one and one that has the          *)
(* namespace's own path; a team outside the root.  A team in the checkout  *)
(* of the namespaced one is too deep to be found, the others are not.      *)
EXTENDS TeamSearch

HomeSegments  == {"h", "r", "t", "agents", "worktree"}
HomeRoot      == <<"h">>
HomeTeamsDirs == {<<>>, <<"h", "r">>}
HomePlaces    == {<<"h", "t">>, <<"h", "r">>, <<"h", "r", "t">>, <<"t">>}
HomeCheckouts == {{}, {<<"t">>}}
HomeNames     == {<<"t">>, <<"r">>, <<"r", "t">>}
=============================================================================
