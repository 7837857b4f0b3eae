--------------------------- MODULE MCSubagentDrain ---------------------------
(* Two turns with up to three agents in all and one trouble. *)
EXTENDS SubagentDrain

CONSTANTS Normal

TwoModes == {Normal, AutoMode}
==============================================================================
