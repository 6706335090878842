---------------------------- MODULE MCJobQueue ----------------------------
(***************************************************************************)
(* Small instances of JobQueue: a resume build (control "generation") and  *)
(* a source job (control "master_inbox", two flags), the build last in the *)
(* order of claims, as in the code (priorities 50 and 10).                 *)
(***************************************************************************)
EXTENDS JobQueue, TLC

MCRequired == [j \in Jobs |-> IF j = "build" THEN "generation" ELSE "master_inbox"]
MCPriority == [j \in Jobs |-> IF j = "build" THEN 50 ELSE 10]

\* Everything on, ingestion off under a master_inbox flag left on, all off.
AllOn == {"ingestion", "generation", "master_inbox"}
NoIngestion == {"generation", "master_inbox"}
MCSettings == {AllOn, NoIngestion, {}}
MCOnOff == {AllOn, {}}

\* Workers are interchangeable; sound here because no run with symmetry checks
\* a liveness property.
WorkerSymmetry == Permutations(Workers)
=============================================================================
