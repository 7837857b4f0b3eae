--------------------------- MODULE MCTurnBoundary ---------------------------
(* Instances of TurnBoundary for TLC; the bounds are in the cfg files.  A  *)
(* file is attached whatever the other files are, so one is enough.        *)
EXTENDS TurnBoundary
CONSTANT f1
MCFiles == {f1}
=============================================================================
