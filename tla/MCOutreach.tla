----------------------------- MODULE MCOutreach -----------------------------
(* Outreach with two requests and two invocations. *)
EXTENDS Outreach
CONSTANTS r1, r2, s1, s2
=============================================================================
