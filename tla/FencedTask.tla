----------------------------- MODULE FencedTask -----------------------------
(***************************************************************************)
(* What the job queue promises to the handlers that run on top of it: a    *)
(* task is owned by one execution at a time, every execution is numbered   *)
(* by a fencing token, only the newest execution writes, and a closed task *)
(* is neither reopened nor written.  JobQueue implements this module.      *)
(***************************************************************************)
EXTENDS Naturals

CONSTANT Jobs

VARIABLES phase,     \* "none", "open", "owned" or "done"
          fence,     \* token of the newest execution
          written    \* token of the execution that wrote last, 0 before any

vars == <<phase, fence, written>>

Init == /\ phase = [j \in Jobs |-> "none"]
        /\ fence = [j \in Jobs |-> 0]
        /\ written = [j \in Jobs |-> 0]

Submit(j) == /\ phase[j] = "none"
             /\ phase' = [phase EXCEPT ![j] = "open"]
             /\ UNCHANGED <<fence, written>>

\* A first claim, or the takeover of an execution whose lease ran out.
Acquire(j) == /\ phase[j] \in {"open", "owned"}
              /\ phase' = [phase EXCEPT ![j] = "owned"]
              /\ fence' = [fence EXCEPT ![j] = @ + 1]
              /\ UNCHANGED written

Write(j) == /\ phase[j] = "owned"
            /\ written' = [written EXCEPT ![j] = fence[j]]
            /\ UNCHANGED <<phase, fence>>

Yield(j) == /\ phase[j] = "owned"
            /\ phase' = [phase EXCEPT ![j] = "open"]
            /\ UNCHANGED <<fence, written>>

\* Success, failure or cancellation; a cancellation may burn a token.
Close(j) == /\ phase[j] \in {"open", "owned"}
            /\ phase' = [phase EXCEPT ![j] = "done"]
            /\ \E t \in {fence[j], fence[j] + 1} : fence' = [fence EXCEPT ![j] = t]
            /\ UNCHANGED written

Next == \E j \in Jobs : Submit(j) \/ Acquire(j) \/ Write(j) \/ Yield(j) \/ Close(j)

Spec == Init /\ [][Next]_vars
=============================================================================
