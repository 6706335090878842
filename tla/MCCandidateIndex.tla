-------------------------- MODULE MCCandidateIndex --------------------------
(* CandidateIndex with two workers; see CandidateIndex.cfg. *)
EXTENDS CandidateIndex
CONSTANTS w1, w2
=============================================================================
