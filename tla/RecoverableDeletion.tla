------------------------- MODULE RecoverableDeletion -------------------------
(***************************************************************************)
(* What the deletion of a case promises: until its window closes it can be  *)
(* taken back, and then nothing is missing; once the window closed the case *)
(* never comes back, and only then may parts of it be lost, its own or those *)
(* it shares with another such case.  CasePurge implements this module.      *)
(***************************************************************************)
CONSTANT Cases

VARIABLES phase,  \* "kept", "hidden" or "doomed"
          whole   \* the cases of which nothing is missing

vars == <<phase, whole>>

Init == /\ phase = [c \in Cases |-> "kept"]
        /\ whole = Cases

Move(c, from, to) == /\ phase[c] = from
                     /\ phase' = [phase EXCEPT ![c] = to]
                     /\ UNCHANGED whole

Hide(c) == Move(c, "kept", "hidden")
GiveBack(c) == c \in whole /\ Move(c, "hidden", "kept")
CloseWindow(c) == Move(c, "hidden", "doomed")

\* Cases that share something lose it together.
Lose(lost) == /\ \A c \in lost : phase[c] = "doomed"
              /\ whole' = whole \ lost
              /\ UNCHANGED phase

Next == \/ \E c \in Cases : Hide(c) \/ GiveBack(c) \/ CloseWindow(c)
        \/ \E lost \in SUBSET Cases : Lose(lost)

Spec == Init /\ [][Next]_vars
=============================================================================
