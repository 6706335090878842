-------------------------- MODULE MCFirstResponse --------------------------
(***************************************************************************)
(* Two replies of one candidate.  The intake knows the first one and reads *)
(* two roles in it; of the second it may miss the sender, the role or both.*)
(***************************************************************************)
EXTENDS FirstResponse

CONSTANTS m1, m2, c, d, a, b

MCMatches == [m \in {m1, m2} |-> IF m = m1 THEN {c} ELSE {c, Unknown}]
MCReadings == [m \in {m1, m2} |-> IF m = m1 THEN {{a, b}} ELSE {{}, {a}}]
MCAdded == {<<c, a>>}
=============================================================================
