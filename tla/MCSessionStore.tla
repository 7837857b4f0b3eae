--------------------------- MODULE MCSessionStore ---------------------------
(* A session of four messages, one turn kept by a compaction, two             *)
(* compactions begun, one failed write and one end of the process.            *)
EXTENDS SessionStore
=============================================================================
