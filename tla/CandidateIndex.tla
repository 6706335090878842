--------------------------- MODULE CandidateIndex ---------------------------
(***************************************************************************)
(* The candidate index of Submissions V2: index_candidates of              *)
(* worker-handlers.mjs, upsertCandidateIndex and                           *)
(* finalizeCandidateIndexCycle of repository.mjs, the source cursor of     *)
(* 002_guards_and_leases.sql and the suppression of purged candidates.     *)
(*                                                                         *)
(* A cycle copies Paraform's list page by page and then deactivates every  *)
(* row it did not stamp.  It spans several jobs, handed on by a checkpoint *)
(* in the cursor's row, and the list changes meanwhile: a page is the      *)
(* entry at an offset of a list that is sorted by time of change.  A page  *)
(* has one entry.  The five pages of a job are "read on or stop".  A purge *)
(* and an upsert take the same advisory lock per candidate, so the upsert  *)
(* is two steps: lock and read the suppressions, then write.               *)
(*                                                                         *)
(* Jobs are claimed as in JobQueue: here a job is queued, or some worker   *)
(* has it, and a worker whose job was taken away goes on until a fence     *)
(* stops it.  A cycle is named after the hourly job that begins it: that   *)
(* job has its name from then on, and a stamp whose name nobody has any    *)
(* more is an earlier one, so that the name can be used again.             *)
(***************************************************************************)
EXTENDS Naturals, Sequences, SequencesExt, FiniteSets

CONSTANTS
  People,    \* candidates, a set
  Deleted,   \* those whose last case may be purged
  Workers,   \* worker processes
  Cycles,    \* names of cycles, which bound those in use at one time
  MaxChanges,\* bound: changes of Paraform's list
  MaxFaults  \* bound: failures, crashes and leases that run out under a worker

Nobody == "nobody"
Absent == "absent"
Inactive == "inactive"
Earlier == "earlier"
NoCycle == "none"

ASSUME PeopleAssumption == IsFiniteSet(People)
ASSUME DeletedAssumption == Deleted \subseteq People
ASSUME WorkersAssumption == Nobody \notin Workers
ASSUME CyclesAssumption == Cycles \cap {NoCycle, Absent, Inactive, Earlier} = {}
ASSUME BoundsAssumption == MaxChanges \in Nat /\ MaxFaults \in Nat

VARIABLES
  list,       \* Paraform's candidates, latest change first
  row,        \* candidate_index: absent, inactive, or the cycle that stamped it
  suppressed, \* candidate_index_suppressions
  cursor,     \* the row of source_cursors
  queue,      \* queued rows of jobs, by cycle
  worker,     \* what each worker is doing
  changes, faults, \* so far
  steady      \* history: who is listed since the cycle began, and stands where it did

vars == <<list, row, suppressed, cursor, queue, worker, changes, faults, steady>>

Offsets == 0 .. Cardinality(People)
Hourly == [cycle |-> NoCycle, continues |-> FALSE]
Jobs == {Hourly} \cup [cycle : Cycles, continues : BOOLEAN]

Lists == UNION {{s \in [1 .. n -> People] : IsInjective(s)} : n \in Offsets}

Active(p) == row[p] \notin {Absent, Inactive}
Listed == ToSet(list)

Free == [cycle |-> NoCycle, at |-> 0, owner |-> Nobody, live |-> FALSE]
Idle == [pc |-> "idle", own |-> FALSE]

Executions ==
  [pc : {"read", "upsert", "write", "finalize", "commit", "complete"}, own : BOOLEAN,
   job : Jobs, cycle : Cycles, at : Offsets, page : People \cup {Nobody}, next : Offsets,
   skip : BOOLEAN]

\* While an upsert's transaction is open its worker has the cursor: the row is
\* locked in share mode, although the lease may run out.
Holding(w) == worker[w].pc = "write"

TypeOK ==
  /\ list \in Lists
  /\ row \in [People -> Cycles \cup {Absent, Inactive, Earlier}]
  /\ suppressed \subseteq Deleted
  /\ cursor \in [cycle : Cycles \cup {NoCycle}, at : Offsets, owner : Workers \cup {Nobody}, live : BOOLEAN]
  /\ cursor.cycle = NoCycle <=> cursor.at = 0
  /\ queue \subseteq Jobs
  /\ worker \in [Workers -> {Idle} \cup Executions]
  /\ \A w \in Workers : Holding(w) => cursor.owner = w
  /\ changes \in 0 .. MaxChanges /\ faults \in 0 .. MaxFaults
  /\ steady \subseteq Listed

Init ==
  /\ list \in Lists
  /\ row = [p \in People |-> Absent]
  /\ suppressed = {}
  /\ cursor = Free
  /\ queue = {}
  /\ worker = [w \in Workers |-> Idle]
  /\ changes = 0 /\ faults = 0
  /\ steady = {}
-----------------------------------------------------------------------------
(* Paraform *)

PlaceOf(p) == CHOOSE n \in DOMAIN list : list[n] = p

Without(p) == IF p \in Listed THEN RemoveAt(list, PlaceOf(p)) ELSE list

Change == changes < MaxChanges /\ changes' = changes + 1

\* A profile is added, or changed.
Touch(p) ==
  /\ Change
  /\ list' = <<p>> \o Without(p)
  /\ steady' = steady \ {p}
  /\ UNCHANGED <<row, suppressed, cursor, queue, worker, faults>>

\* A profile is removed, and whoever stood behind it moves up.
Drop(p) ==
  /\ p \in Listed /\ Change
  /\ list' = Without(p)
  /\ steady' = steady \cap {list[n] : n \in 1 .. (PlaceOf(p) - 1)}
  /\ UNCHANGED <<row, suppressed, cursor, queue, worker, faults>>
-----------------------------------------------------------------------------
(* The purge of a candidate's last case *)

\* Mutant: the purge does not wait for the candidate's lock.
LockFreeAlways(p) == TRUE

LockFree(p) == \A w \in Workers : Holding(w) => worker[w].page /= p

\* The part of finalize_case_purge that is about the candidate.  Once all migrations
\* are applied that transaction rolls back (CasePurge says why); the action is there
\* to show what the lock and the suppression are worth when it commits.
Purge(p) ==
  /\ row[p] /= Absent /\ LockFree(p)
  /\ row' = [row EXCEPT ![p] = Absent]
  /\ suppressed' = suppressed \cup {p}
  /\ UNCHANGED <<list, changes, cursor, queue, worker, faults, steady>>
-----------------------------------------------------------------------------
(* Jobs *)

\* The hourly tick; bound: while one new job waits, no other is queued.
Tick ==
  /\ Hourly \notin queue
  /\ queue' = queue \cup {Hourly}
  /\ UNCHANGED <<list, changes, row, suppressed, cursor, worker, faults, steady>>

\* A cycle that did not end is continued by another job, queued once for this
\* cycle and offset and never again: which were queued is not remembered here.
Continuations(w) ==
  IF worker[w].at = 0 THEN {} ELSE {[cycle |-> worker[w].cycle, continues |-> TRUE]}

Become(w, execution) == worker' = [worker EXCEPT ![w] = execution]

\* What a job that did not complete may leave: itself for another attempt, and
\* at its end the continuation.
Left(w) == {worker[w].job} \cup IF worker[w].pc = "complete" THEN Continuations(w) ELSE {}

Retried(w) == \E left \in SUBSET Left(w) : queue' = queue \cup left

\* fail_job.
Failed(w) ==
  /\ Become(w, Idle)
  /\ IF worker[w].own THEN Retried(w) ELSE UNCHANGED queue
-----------------------------------------------------------------------------
(* The handler of index_candidates *)

Goto(w, pc) == Become(w, [worker[w] EXCEPT !.pc = pc])

\* Mutant: the claim does not wait for an open transaction.
CursorFreeUnlocked == cursor.owner = Nobody \/ ~cursor.live

CursorFree ==
  /\ cursor.owner = Nobody \/ ~cursor.live
  /\ \A w \in Workers : ~Holding(w)

\* Mutant: neither who leases the cursor nor when is asked.
HasCursorAlways(w) == TRUE

\* assertSourceFence.
HasCursor(w) == cursor.owner = w /\ cursor.live

Fenced(w) == worker[w].own /\ HasCursor(w)

Stale(j) == j.continues /\ j.cycle /= cursor.cycle

\* Somebody else is at it, or the cycle of this continuation is over: the job
\* ends at once.
Coalesce(w, j) ==
  /\ worker[w] = Idle /\ j \in queue
  /\ \/ cursor.owner /= Nobody /\ cursor.live
     \/ CursorFree /\ Stale(j)
  /\ queue' = queue \ {j}
  /\ UNCHANGED <<list, changes, row, suppressed, cursor, worker, faults, steady>>

InUse == {cursor.cycle} \cup {j.cycle : j \in queue}
           \cup UNION {{worker[w].cycle, worker[w].job.cycle} : w \in {v \in Workers : worker[v] /= Idle}}

Begin(w, j, c) ==
  Become(w, [pc |-> "read", own |-> TRUE, job |-> j, cycle |-> c, at |-> cursor.at,
             page |-> Nobody, next |-> 0, skip |-> FALSE])

\* A worker claims a job and the cursor and takes up the cycle of the
\* checkpoint, or begins one, which has the name the job had in an attempt
\* before, or a new one.
Take(w, j) ==
  /\ worker[w] = Idle /\ j \in queue
  /\ CursorFree /\ ~Stale(j)
  /\ queue' = queue \ {j}
  /\ cursor' = [cursor EXCEPT !.owner = w, !.live = TRUE]
  /\ \/ /\ cursor.cycle /= NoCycle
        /\ Begin(w, j, cursor.cycle)
        /\ UNCHANGED <<row, steady>>
     \/ /\ cursor.cycle = NoCycle /\ j /= Hourly
        /\ Begin(w, j, j.cycle)
        /\ steady' = Listed
        /\ UNCHANGED row
     \/ /\ cursor.cycle = NoCycle /\ j = Hourly /\ Cycles \ InUse /= {}
        /\ LET c == CHOOSE c \in Cycles : c \notin InUse
           IN Begin(w, [cycle |-> c, continues |-> FALSE], c)
        /\ row' = [p \in People |-> IF row[p] \in Cycles \ InUse THEN Earlier ELSE row[p]]
        /\ steady' = Listed
  /\ UNCHANGED <<list, changes, suppressed, faults>>

\* The checkpoint of the job, then the page at the offset and the next offset
\* (0 is no next page).
Read(w) ==
  /\ worker[w].pc = "read" /\ worker[w].own
  /\ LET n == worker[w].at + 1
     IN Become(w, [worker[w] EXCEPT !.pc = "upsert",
          !.page = IF n <= Len(list) THEN list[n] ELSE Nobody,
          !.next = IF n < Len(list) THEN n ELSE 0])
  /\ UNCHANGED <<list, changes, row, suppressed, cursor, queue, faults, steady>>

\* The fences, the candidate's lock, and the suppressions read under it.
OpenUpsert(w) ==
  /\ worker[w].pc = "upsert" /\ Fenced(w)
  /\ Become(w, [worker[w] EXCEPT !.pc = "write", !.skip = worker[w].page \in suppressed])
  /\ UNCHANGED <<list, changes, row, suppressed, cursor, queue, faults, steady>>

\* The page was confirmed later than any row (one clock confirms them).
CommitUpsert(w) ==
  /\ Holding(w)
  /\ row' = [p \in People |->
               IF p = worker[w].page /\ ~worker[w].skip THEN worker[w].cycle ELSE row[p]]
  /\ \E pc \in IF worker[w].next = 0 THEN {"finalize"} ELSE {"read", "commit"} :
       Become(w, [worker[w] EXCEPT !.pc = pc, !.at = worker[w].next,
                                   !.page = Nobody, !.next = 0, !.skip = FALSE])
  /\ UNCHANGED <<list, changes, suppressed, cursor, queue, faults, steady>>

\* finalizeCandidateIndexCycle; retirePreviousCandidateHmac activates nobody.
Finalize(w) ==
  /\ worker[w].pc = "finalize" /\ Fenced(w)
  /\ row' = [p \in People |-> IF Active(p) /\ row[p] /= worker[w].cycle THEN Inactive ELSE row[p]]
  /\ Goto(w, "commit")
  /\ UNCHANGED <<list, changes, suppressed, cursor, queue, faults, steady>>

\* Mutant: the checkpoint of a cycle that ended still names it.
NextCheckpointKept(w) == [Free EXCEPT !.cycle = worker[w].cycle, !.at = worker[w].at]

NextCheckpoint(w) ==
  IF worker[w].at = 0 THEN Free ELSE [Free EXCEPT !.cycle = worker[w].cycle, !.at = worker[w].at]

\* commit_source_cursor has the cursor's fence only.
CommitCursor(w) ==
  /\ worker[w].pc = "commit" /\ HasCursor(w)
  /\ cursor' = NextCheckpoint(w)
  /\ Goto(w, "complete")
  /\ steady' = IF worker[w].at = 0 THEN {} ELSE steady
  /\ UNCHANGED <<list, changes, row, suppressed, queue, faults>>

\* The continuation, unless it was queued before, and the end of the job.
Complete(w) ==
  /\ worker[w].pc = "complete"
  /\ queue' \in {queue, queue \cup Continuations(w)}
  /\ Become(w, Idle)
  /\ UNCHANGED <<list, changes, row, suppressed, cursor, faults, steady>>

\* What stops a step: a fence.
Refused(w) ==
  \/ worker[w].pc \in {"read", "commit"} /\ ~worker[w].own
  \/ worker[w].pc \in {"upsert", "finalize"} /\ ~Fenced(w)
  \/ worker[w].pc = "commit" /\ ~HasCursor(w)

\* The catch: the cursor is given back, and the job failed.
GiveUp(w) ==
  /\ cursor' = IF HasCursor(w) THEN [cursor EXCEPT !.owner = Nobody, !.live = FALSE] ELSE cursor
  /\ Failed(w)
  /\ UNCHANGED <<list, changes, row, suppressed, steady>>

Lose(w) == Refused(w) /\ GiveUp(w) /\ UNCHANGED faults
-----------------------------------------------------------------------------
(* Faults *)

Fault == faults < MaxFaults /\ faults' = faults + 1

\* Paraform, the database or the deadline of the job refuses a step.
Fail(w) ==
  /\ worker[w].pc \in {"read", "upsert", "write", "finalize", "commit", "complete"}
  /\ Fault /\ GiveUp(w)

\* The worker is gone; its job is found by the next claim, its cursor is leased.
Crash(w) ==
  /\ worker[w] /= Idle /\ Fault
  /\ Failed(w)
  /\ UNCHANGED <<list, changes, row, suppressed, cursor, steady>>

\* The job's lease or the controls' epoch: the worker no longer owns its job.
\* An open transaction has the job's row locked.
LoseJob(w) ==
  /\ worker[w].own /\ ~Holding(w) /\ Fault
  /\ Retried(w)
  /\ Become(w, [worker[w] EXCEPT !.own = FALSE])
  /\ UNCHANGED <<list, changes, row, suppressed, cursor, steady>>

\* 600 seconds, which the handler does not renew.
Working(w) == worker[w].pc \notin {"idle", "complete"}

LoseCursor ==
  /\ cursor.live /\ Working(cursor.owner) /\ Fault
  /\ cursor' = [cursor EXCEPT !.live = FALSE]
  /\ UNCHANGED <<list, changes, row, suppressed, queue, worker, steady>>

LeaseExpires ==
  /\ cursor.live /\ ~Working(cursor.owner)
  /\ cursor' = [cursor EXCEPT !.live = FALSE]
  /\ UNCHANGED <<list, changes, row, suppressed, queue, worker, faults, steady>>
-----------------------------------------------------------------------------
Step(w) ==
  \/ Read(w) \/ OpenUpsert(w) \/ CommitUpsert(w) \/ Finalize(w)
  \/ CommitCursor(w) \/ Complete(w) \/ Lose(w)

Work(w) == Step(w) \/ \E j \in Jobs : Take(w, j) \/ Coalesce(w, j)

Paraform == \E p \in People : Touch(p) \/ Drop(p)

Next ==
  \/ Paraform
  \/ \E p \in Deleted : Purge(p)
  \/ Tick
  \/ \E w \in Workers : Work(w) \/ Fail(w) \/ Crash(w) \/ LoseJob(w)
  \/ LoseCursor \/ LeaseExpires

Spec == Init /\ [][Next]_vars

\* The cron ticks, workers that run go on, a lease nobody renews ends.
Fairness ==
  /\ WF_vars(Tick)
  /\ WF_vars(LeaseExpires)
  /\ \A w \in Workers : WF_vars(Work(w))

FairSpec == Spec /\ Fairness
-----------------------------------------------------------------------------
(* Properties *)

\* A cycle deactivates "missing profiles" (submissions-v2-db.test.mjs:2225), and
\* of those it sees every one that was listed all the time, did not change and
\* had nobody leave in front of it, whoever read which page, however often the
\* cursor changed hands.  Of the others it may take a listed one for missing.
SteadyStayActive ==
  [][\A p \in steady : Active(p) /\ p \notin suppressed' => row'[p] /= Inactive]_vars

\* The index does not learn of a purged candidate again (suppressions are read
\* under the lock finalize_case_purge takes).
PurgedStaysOut == \A p \in suppressed : row[p] = Absent

\* When Paraform's list stops changing the index becomes that list.
Current == \A p \in People : Active(p) <=> p \in Listed \ suppressed

IndexConverges == <>[][~Paraform]_list => <>[]Current
=============================================================================
