--------------------------- MODULE MCPairWorkflow ---------------------------
(***************************************************************************)
(* PairWorkflow is small as it stands: the runs only choose its bounds.    *)
(***************************************************************************)
EXTENDS PairWorkflow, TLC
=============================================================================
