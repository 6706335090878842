---------------------------- MODULE MCCasePurge ----------------------------
(* CasePurge with two roles of one e-mail, one of which had an e-mail before. *)
EXTENDS CasePurge
CONSTANTS e1, e2
MCLinks == {<<"a", "shared">>, <<"b", "shared">>, <<"a", "own">>}
MCMaxDeletions == [c \in Cases |-> IF c = "a" THEN 2 ELSE 1]
=============================================================================
