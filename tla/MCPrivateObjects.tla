------------------------- MODULE MCPrivateObjects -------------------------
(* PrivateObjects for TLC. *)
EXTENDS PrivateObjects
CONSTANTS w1, w2, p1, p2
=============================================================================
