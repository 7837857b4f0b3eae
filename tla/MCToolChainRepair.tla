-------------------------- MODULE MCToolChainRepair --------------------------
(* Every transcript that up to six messages and three tool calls can make,    *)
(* each of them with and without loads in between.                            *)
EXTENDS ToolChainRepair
=============================================================================
