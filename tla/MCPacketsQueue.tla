--------------------------- MODULE MCPacketsQueue ---------------------------
(* The four threads of PacketsQueue as model values.                        *)
EXTENDS PacketsQueue

CONSTANTS main, reader, periodical, rx
MCThread == {main, reader, periodical, rx}
=============================================================================
