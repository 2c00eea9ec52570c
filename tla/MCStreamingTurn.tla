--------------------------- MODULE MCStreamingTurn ---------------------------
(* Instances of StreamingTurn for TLC: texts whose characters and line     *)
(* ends a read can cut, and one that is cut short inside a character.      *)
EXTENDS StreamingTurn

TextsShort == { <<"h1", "h2", "cr">>, <<"cr", "lf">>, <<"c", "h1">> }
=============================================================================
