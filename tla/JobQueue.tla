------------------------------ MODULE JobQueue ------------------------------
(***************************************************************************)
(* The fenced job queue of Submissions V2: the runtime-control row, the    *)
(* jobs and their attempt ledger (migrations/submissions-v2/001, 002, 009) *)
(* and the workers that claim and run the jobs (submissions-v2-worker/     *)
(* runner.mjs, repository.mjs assertWorkerFence).                          *)
(*                                                                         *)
(* One action is one database statement or one transaction that holds its  *)
(* row locks to the end, except where the code lets another transaction    *)
(* in: checkpoint_job and fail_job lock the job, read the controls WITHOUT *)
(* a lock and then write, and a handler's transaction checks its fence     *)
(* first and commits later, under share locks on the job and the controls. *)
(* A lease is "live" until the clock passes it, which may happen at any    *)
(* moment: the model has no clock.                                         *)
(***************************************************************************)
EXTENDS Naturals, Sequences

CONSTANTS
  Jobs,          \* rows of submissions_v2.jobs, one per (kind, idempotency key)
  PairJobs,      \* the jobs whose subject is a candidate-role pair
  Workers,       \* worker identities; a restarted worker keeps its identity
  Required,      \* required_control of every job
  Priority,      \* priority of every job, the lower the sooner
  EnvFlags,      \* controls the environment of the workers enables
  MaxAttempts,   \* max_attempts
  Settings,      \* bound: the combinations of flags an administrator sets
  MaxEpoch,      \* bound: control changes
  MaxCrashes     \* bound: crashes of workers

Flags == {"ui", "ingestion", "generation", "master_inbox", "curated"}
RequiredControls == Flags \cup {"always"}

ASSUME JobsAssumption == PairJobs \subseteq Jobs
ASSUME RequiredAssumption == Required \in [Jobs -> RequiredControls]
ASSUME PriorityAssumption == Priority \in [Jobs -> Nat]
ASSUME EnvAssumption == EnvFlags \subseteq Flags
ASSUME AttemptsAssumption == MaxAttempts \in Nat \ {0}
ASSUME BoundsAssumption ==
  /\ Settings \subseteq SUBSET Flags
  /\ MaxEpoch \in Nat
  /\ MaxCrashes \in Nat

NoWorker == "none"
ASSUME WorkerAssumption == NoWorker \notin Workers

VARIABLES
  controls,  \* runtime_controls: [epoch, on]
  job,       \* the rows of the table jobs
  tries,     \* job_attempts of each job, oldest first
  applied,   \* token of the execution that last committed an effect of the job
  worker,    \* what each worker process knows
  crashes    \* how many times a worker crashed

vars == <<controls, job, tries, applied, worker, crashes>>

States == {"absent", "queued", "running", "held", "succeeded", "failed", "cancelled"}
Terminal == {"succeeded", "failed", "cancelled"}
Outcomes == {"open", "succeeded", "retry", "held", "failed", "lease_expired"}
Tokens == 0 .. MaxAttempts + 1
Controls == [epoch : 0 .. MaxEpoch, on : SUBSET Flags]
Claims == [job : Jobs, token : Tokens, attempt : 1 .. MaxAttempts]

TypeOK ==
  /\ controls \in Controls
  /\ job \in [Jobs -> [state : States, owner : Workers \cup {NoWorker},
                       lease : {"none", "live", "expired"}, token : Tokens,
                       attempts : 0 .. MaxAttempts, epoch : 0 .. MaxEpoch,
                       due : BOOLEAN]]
  /\ tries \in [Jobs -> Seq([token : Tokens, outcome : Outcomes])]
  /\ applied \in [Jobs -> Tokens]
  /\ worker \in [Workers ->
       [pc : {"idle", "claim", "reserve", "run", "apply", "checkpoint", "fail"},
        view : Controls, batch : Seq(Claims), aborted : BOOLEAN,
        read : Controls, retry : BOOLEAN]]
  /\ crashes \in 0 .. MaxCrashes

-----------------------------------------------------------------------------
(* Controls *)

\* job_control_enabled: the flags a required control stands for.
Needs(required) ==
  CASE required = "always" -> {}
    [] required \in {"master_inbox", "curated"} -> {"ingestion", required}
    [] OTHER -> {required}

Enabled(j, on) == Needs(Required[j]) \subseteq on

\* enabledKinds and enqueue look at the job's own flag only.
OwnFlagOn(j, on) == Required[j] \in on \cup {"always"}

IsBuild(j) == Required[j] = "generation"

-----------------------------------------------------------------------------
(* Rows, leases and locks *)

NoControls == [epoch |-> 0, on |-> {}]

IdleWorker == [pc |-> "idle", view |-> NoControls, batch |-> <<>>, aborted |-> FALSE,
               read |-> NoControls, retry |-> FALSE]

AbsentJob == [state |-> "absent", owner |-> NoWorker, lease |-> "none", token |-> 0,
              attempts |-> 0, epoch |-> 0, due |-> FALSE]

Current(w) == Head(worker[w].batch)

\* Transactions open on the row of j, and on the row of the controls.
InTransaction(w) == worker[w].pc \in {"apply", "checkpoint", "fail"}

\* Mutants: a read without FOR UPDATE, a fence without FOR SHARE.
RowNeverLocked(j) == FALSE
ControlsNeverLocked == FALSE

RowLocked(j) == \E w \in Workers : InTransaction(w) /\ Current(w).job = j
ControlsLocked == \E w \in Workers : worker[w].pc = "apply"

\* The where clause every write of an execution carries.
FenceHolds(w) ==
  LET claim == Current(w)
      row == job[claim.job]
  IN /\ row.state = "running"
     /\ row.owner = w
     /\ row.token = claim.token
     /\ row.epoch = worker[w].view.epoch
     /\ row.lease = "live"

ControlsHold(w) ==
  /\ controls.epoch = worker[w].view.epoch
  /\ Enabled(Current(w).job, controls.on)

\* The row after its execution let go of it.
Released(row, state, epoch, due) ==
  [row EXCEPT !.state = state, !.owner = NoWorker, !.lease = "none",
              !.epoch = epoch, !.due = due]

\* job_attempts: close the open attempts of j, those of every token or of one.
Close(j, tokens, outcome) ==
  [tries EXCEPT ![j] =
     [i \in DOMAIN @ |-> IF @[i].outcome = "open" /\ @[i].token \in tokens
                         THEN [@[i] EXCEPT !.outcome = outcome] ELSE @[i]]]

\* runClaimedJob returned: the next claimed job, or the end of the cycle.
NextClaim(w) ==
  worker' = [worker EXCEPT ![w] =
    IF Len(worker[w].batch) > 1
    THEN [IdleWorker EXCEPT !.pc = "run", !.view = worker[w].view,
                            !.batch = Tail(worker[w].batch)]
    ELSE IdleWorker]

-----------------------------------------------------------------------------
Init ==
  /\ controls = [epoch |-> 0, on |-> {}]
  /\ job = [j \in Jobs |-> AbsentJob]
  /\ tries = [j \in Jobs |-> <<>>]
  /\ applied = [j \in Jobs |-> 0]
  /\ worker = [w \in Workers |-> IdleWorker]
  /\ crashes = 0

(* The administrator, the API and the clock *)

\* set_runtime_controls with its triggers: queued work whose control goes off
\* is held, held work whose control is on is queued again.
SetControls(on) ==
  /\ ~ControlsLocked
  /\ controls.epoch < MaxEpoch
  /\ LET epoch == controls.epoch + 1
     IN /\ controls' = [epoch |-> epoch, on |-> on]
        /\ job' = [j \in Jobs |->
             CASE job[j].state = "queued" /\ ~Enabled(j, on) ->
                    [job[j] EXCEPT !.state = "held", !.epoch = epoch]
               [] job[j].state = "held" /\ Enabled(j, on) ->
                    [job[j] EXCEPT !.state = "queued", !.epoch = epoch, !.due = TRUE]
               [] job[j].state = "queued" /\ Enabled(j, on) ->
                    [job[j] EXCEPT !.epoch = epoch]
               [] OTHER -> job[j]]
  /\ UNCHANGED <<tries, applied, worker, crashes>>

Insert(j) ==
  /\ job[j].state = "absent"
  /\ job' = [job EXCEPT ![j] = [AbsentJob EXCEPT !.state = "queued",
                                !.epoch = controls.epoch, !.due = TRUE]]
  /\ UNCHANGED <<controls, tries, applied, worker, crashes>>

\* enqueue: refused when the job's own flag is off; a second call with the same
\* key finds the row and changes nothing.
Enqueue(j) == OwnFlagOn(j, controls.on) /\ Insert(j)

\* enqueueInternal and resumeAfterRecheck insert without looking at the flag.
EnqueueInternal(j) == Required[j] \in {"ingestion", "generation"} /\ Insert(j)

Cancellable(j) ==
  /\ j \in PairJobs
  /\ job[j].state \in {"queued", "running", "held"}
  /\ ~RowLocked(j)

\* cancel_pair_job: burns a token, leaves the attempt row open.
CancelPairJob(j) ==
  /\ Cancellable(j)
  /\ job' = [job EXCEPT ![j] =
       [Released(job[j], "cancelled", job[j].epoch, job[j].due)
        EXCEPT !.token = job[j].token + 1]]
  /\ UNCHANGED <<controls, tries, applied, worker, crashes>>

\* upsertRoleIndex when the role of the pair went away: closes the attempt,
\* keeps the token.
CancelForRole(j) ==
  /\ Cancellable(j)
  /\ job' = [job EXCEPT ![j] = Released(@, "cancelled", @.epoch, @.due)]
  /\ tries' = Close(j, Tokens, "held")
  /\ UNCHANGED <<controls, applied, worker, crashes>>

LeaseExpires(j) ==
  /\ job[j].lease = "live"
  /\ job' = [job EXCEPT ![j].lease = "expired"]
  /\ UNCHANGED <<controls, tries, applied, worker, crashes>>

BecomesDue(j) ==
  /\ job[j].state = "queued"
  /\ ~job[j].due
  /\ job' = [job EXCEPT ![j].due = TRUE]
  /\ UNCHANGED <<controls, tries, applied, worker, crashes>>

-----------------------------------------------------------------------------
(* The worker cycle: read the controls, claim, reserve a build, run *)

ReadControls(w) ==
  /\ worker[w].pc = "idle"
  /\ worker' = [worker EXCEPT ![w].pc = "claim",
        ![w].view = [epoch |-> controls.epoch, on |-> controls.on \cap EnvFlags]]
  /\ UNCHANGED <<controls, job, tries, applied, crashes>>

\* Mutants: the attempts are not counted, a dead worker's job is not taken over.
ClaimableForEver(j) ==
  /\ Enabled(j, controls.on)
  /\ \/ job[j].state = "queued" /\ job[j].due
     \/ job[j].state = "running" /\ job[j].lease = "expired"
ClaimableOnlyQueued(j) ==
  /\ job[j].attempts < MaxAttempts
  /\ Enabled(j, controls.on)
  /\ job[j].state = "queued" /\ job[j].due

\* Rows claim_jobs may take for w: SKIP LOCKED, due, attempts left, its control
\* on, and queued or abandoned by an execution whose lease ran out.
Claimable(j) ==
  /\ job[j].attempts < MaxAttempts
  /\ Enabled(j, controls.on)
  /\ \/ job[j].state = "queued" /\ job[j].due
     \/ job[j].state = "running" /\ job[j].lease = "expired"

Eligible(w, kinds) ==
  {j \in kinds : /\ controls.epoch = worker[w].view.epoch
                 /\ OwnFlagOn(j, worker[w].view.on)
                 /\ Claimable(j)
                 /\ ~RowLocked(j)}

Soonest(S) == {j \in S : \A k \in S : Priority[j] <= Priority[k]}

\* Mutant: a takeover leaves the attempt it ends open.
TakeSilently(w, j) ==
  /\ job' = [job EXCEPT ![j] =
       [state |-> "running", owner |-> w, lease |-> "live", token |-> job[j].token + 1,
        attempts |-> job[j].attempts + 1, epoch |-> worker[w].view.epoch,
        due |-> job[j].due]]
  /\ tries' = [tries EXCEPT ![j] =
       Append(@, [token |-> job[j].token + 1, outcome |-> "open"])]

Take(w, j) ==
  /\ job' = [job EXCEPT ![j] =
       [state |-> "running", owner |-> w, lease |-> "live", token |-> job[j].token + 1,
        attempts |-> job[j].attempts + 1, epoch |-> worker[w].view.epoch,
        due |-> job[j].due]]
  /\ tries' = [Close(j, Tokens, "lease_expired") EXCEPT
       ![j] = Append(@, [token |-> job[j].token + 1, outcome |-> "open"])]

Claim(w, j) == [job |-> j, token |-> job[j].token + 1, attempt |-> job[j].attempts + 1]

ReservesBuild(w) == "generation" \in worker[w].view.on

\* The general claim of a cycle, of one job.
ClaimJob(w) ==
  /\ worker[w].pc = "claim"
  /\ \E j \in Soonest(Eligible(w, Jobs)) :
       /\ Take(w, j)
       /\ worker' = [worker EXCEPT
            ![w].pc = IF ReservesBuild(w) /\ ~IsBuild(j) THEN "reserve" ELSE "run",
            ![w].batch = <<Claim(w, j)>>]
  /\ UNCHANGED <<controls, applied, crashes>>

ClaimNothing(w) ==
  /\ worker[w].pc = "claim"
  /\ Eligible(w, Jobs) = {}
  /\ worker' = IF ReservesBuild(w) THEN [worker EXCEPT ![w].pc = "reserve"]
                                   ELSE [worker EXCEPT ![w] = IdleWorker]
  /\ UNCHANGED <<controls, job, tries, applied, crashes>>

\* The second claim of a cycle that picked no resume build: one build on top.
Builds == {j \in Jobs : IsBuild(j)}

ReserveBuild(w) ==
  /\ worker[w].pc = "reserve"
  /\ \E j \in Soonest(Eligible(w, Builds)) :
       /\ Take(w, j)
       /\ worker' = [worker EXCEPT ![w].pc = "run",
                                   ![w].batch = Append(worker[w].batch, Claim(w, j))]
  /\ UNCHANGED <<controls, applied, crashes>>

ReserveNothing(w) ==
  /\ worker[w].pc = "reserve"
  /\ Eligible(w, Builds) = {}
  /\ worker' = IF worker[w].batch = <<>> THEN [worker EXCEPT ![w] = IdleWorker]
                                         ELSE [worker EXCEPT ![w].pc = "run"]
  /\ UNCHANGED <<controls, job, tries, applied, crashes>>

-----------------------------------------------------------------------------
(* runClaimedJob *)

\* heartbeat_job returned nothing: the handler's signal is aborted.  A renewal
\* that succeeds leaves a live lease live.
HeartbeatLost(w) ==
  /\ worker[w].pc = "run"
  /\ ~worker[w].aborted
  /\ ~(FenceHolds(w) /\ ControlsHold(w))
  /\ worker' = [worker EXCEPT ![w].aborted = TRUE]
  /\ UNCHANGED <<controls, job, tries, applied, crashes>>

\* assertWorkerFence at the start of a handler's transaction, share locks taken.
BeginApply(w) ==
  /\ worker[w].pc = "run"
  /\ FenceHolds(w)
  /\ ControlsHold(w)
  /\ worker' = [worker EXCEPT ![w].pc = "apply"]
  /\ UNCHANGED <<controls, job, tries, applied, crashes>>

\* The transaction commits its effects, or fails and leaves none.
EndApply(w) ==
  /\ worker[w].pc = "apply"
  /\ worker' = [worker EXCEPT ![w].pc = "run"]
  /\ \/ applied' = [applied EXCEPT ![Current(w).job] = Current(w).token]
     \/ UNCHANGED applied
  /\ UNCHANGED <<controls, job, tries, crashes>>

\* checkpoint_job: the row is locked and the controls are read without a lock.
BeginCheckpoint(w) ==
  /\ worker[w].pc = "run"
  /\ FenceHolds(w)
  /\ worker' = [worker EXCEPT ![w].pc = "checkpoint", ![w].read = controls]
  /\ UNCHANGED <<controls, job, tries, applied, crashes>>

\* The controls it read still let the job run: only the checkpoint is saved.
EndCheckpoint(w) ==
  LET claim == Current(w)
      read == worker[w].read
      runs == Enabled(claim.job, read.on)
      saved == [worker EXCEPT ![w].pc = "run", ![w].read = NoControls]
  IN /\ worker[w].pc = "checkpoint"
     /\ \/ /\ read.epoch = worker[w].view.epoch /\ runs
           /\ worker' = saved
           /\ UNCHANGED <<job, tries>>
        \/ /\ read.epoch /= worker[w].view.epoch /\ runs
           /\ job' = [job EXCEPT ![claim.job] = Released(@, "queued", read.epoch, TRUE)]
           /\ tries' = Close(claim.job, {claim.token}, "retry")
           /\ worker' = saved
        \/ /\ ~runs
           /\ job' = [job EXCEPT ![claim.job] = Released(@, "held", read.epoch, @.due)]
           /\ tries' = Close(claim.job, {claim.token}, "held")
           /\ NextClaim(w)
     /\ UNCHANGED <<controls, applied, crashes>>

\* complete_job, one statement: it settles the job, or finds no row and the
\* worker reports the job as held.
CompleteJob(w) ==
  LET claim == Current(w)
  IN /\ worker[w].pc = "run"
     /\ ~worker[w].aborted
     /\ IF FenceHolds(w) /\ ControlsHold(w)
        THEN /\ job' = [job EXCEPT ![claim.job] = Released(@, "succeeded", @.epoch, @.due)]
             /\ tries' = Close(claim.job, {claim.token}, "succeeded")
        ELSE UNCHANGED <<job, tries>>
     /\ NextClaim(w)
     /\ UNCHANGED <<controls, applied, crashes>>

\* The handler threw: a lost fence or an aborted signal is not retryable.
BeginFail(w) ==
  /\ worker[w].pc = "run"
  /\ FenceHolds(w)
  /\ \E retry \in BOOLEAN :
       /\ retry => ~worker[w].aborted /\ Current(w).attempt < MaxAttempts
       /\ worker' = [worker EXCEPT ![w].pc = "fail", ![w].read = controls, ![w].retry = retry]
  /\ UNCHANGED <<controls, job, tries, applied, crashes>>

\* fail_job and checkpoint_job find no row for an execution that lost its fence.
DropLostClaim(w) ==
  /\ worker[w].pc = "run"
  /\ ~FenceHolds(w)
  /\ NextClaim(w)
  /\ UNCHANGED <<controls, job, tries, applied, crashes>>

FailedState(w) ==
  LET read == worker[w].read
  IN IF ~Enabled(Current(w).job, read.on) THEN "held"
     ELSE IF \/ read.epoch /= worker[w].view.epoch
             \/ worker[w].retry /\ job[Current(w).job].attempts < MaxAttempts
          THEN "queued" ELSE "failed"

AttemptOutcome(state) == IF state = "queued" THEN "retry" ELSE state

EndFail(w) ==
  LET claim == Current(w)
      state == FailedState(w)
  IN /\ worker[w].pc = "fail"
     /\ job' = [job EXCEPT ![claim.job] =
          Released(@, state, worker[w].read.epoch, @.due /\ state /= "queued")]
     /\ tries' = Close(claim.job, {claim.token}, AttemptOutcome(state))
     /\ NextClaim(w)
     /\ UNCHANGED <<controls, applied, crashes>>

\* The process dies, or the database call of a cycle throws: its transactions
\* roll back and its claims are forgotten while their leases last.
Crash(w) ==
  /\ crashes < MaxCrashes
  /\ worker[w].pc /= "idle"
  /\ crashes' = crashes + 1
  /\ worker' = [worker EXCEPT ![w] = IdleWorker]
  /\ UNCHANGED <<controls, job, tries, applied>>

-----------------------------------------------------------------------------
Administrate ==
  \/ \E on \in Settings : SetControls(on)
  \/ \E j \in Jobs : Enqueue(j) \/ EnqueueInternal(j) \/ CancelPairJob(j) \/ CancelForRole(j)

Clock == \E j \in Jobs : LeaseExpires(j) \/ BecomesDue(j)

Cycle(w) == ReadControls(w) \/ ClaimJob(w) \/ ClaimNothing(w) \/ ReserveBuild(w) \/ ReserveNothing(w)

Settle(w) == EndApply(w) \/ EndCheckpoint(w) \/ CompleteJob(w) \/ EndFail(w) \/ DropLostClaim(w)

Run(w) == HeartbeatLost(w) \/ BeginApply(w) \/ BeginCheckpoint(w) \/ BeginFail(w) \/ Settle(w)

Next ==
  \/ Administrate
  \/ Clock
  \/ \E w \in Workers : Cycle(w) \/ Run(w) \/ Crash(w)

Spec == Init /\ [][Next]_vars

\* The clock moves, a handler ends (runClaimedJob arms a deadline for it), a
\* statement that began ends, and a live worker goes on with its cycle.
Finish(w) == CompleteJob(w) \/ BeginFail(w) \/ DropLostClaim(w)

Fairness ==
  /\ \A j \in Jobs : WF_vars(LeaseExpires(j)) /\ WF_vars(BecomesDue(j))
  /\ \A w \in Workers : /\ WF_vars(Cycle(w))
                        /\ WF_vars(EndApply(w) \/ EndCheckpoint(w) \/ EndFail(w))
                        /\ SF_vars(Finish(w))

FairSpec == Spec /\ Fairness

-----------------------------------------------------------------------------
(* What must hold *)

\* The attempt ledger tells the truth about the job (claim_jobs, checkpoint_job,
\* complete_job and fail_job each write both tables): one row per claim, tokens
\* in order, and a row is open only for the execution that owns the job now.
\* cancel_pair_job alone leaves the row of the execution it cut off open.
LedgerMatchesJobs ==
  \A j \in Jobs :
    /\ Len(tries[j]) = job[j].attempts
    /\ \A i, k \in DOMAIN tries[j] : i < k => tries[j][i].token < tries[j][k].token
    /\ \A i \in DOMAIN tries[j] :
         tries[j][i].outcome = "open" =>
           \/ job[j].state = "running" /\ tries[j][i].token = job[j].token
           \/ job[j].state = "cancelled" /\ i = Len(tries[j])

\* A handler's transaction commits only while its execution is the newest one
\* of a running job, its control is on and no administrator changed the controls
\* since the worker read them (assertWorkerFence holds its locks to the end).
WritesAreFenced ==
  [][\A w \in Workers :
       applied' /= applied /\ worker[w].pc = "apply" /\ worker'[w].pc = "run" =>
         LET j == Current(w).job
         IN /\ job[j].state = "running"
            /\ job[j].token = Current(w).token
            /\ controls.epoch = worker[w].view.epoch
            /\ Enabled(j, controls.on)]_vars

\* The queue hides its workers behind one promise per job.
Phase(j) == CASE job[j].state = "absent" -> "none"
              [] job[j].state \in {"queued", "held"} -> "open"
              [] job[j].state = "running" -> "owned"
              [] OTHER -> "done"

Task == INSTANCE FencedTask WITH
  phase <- [j \in Jobs |-> Phase(j)],
  fence <- [j \in Jobs |-> job[j].token],
  written <- applied

ImplementsFencedTask == Task!Spec

\* No job that a worker may claim waits for ever: queued work is started, and
\* work whose worker died is taken over once its lease ran out.
Waiting(j) ==
  /\ job[j].attempts < MaxAttempts
  /\ Enabled(j, controls.on)
  /\ OwnFlagOn(j, EnvFlags)
  /\ \/ job[j].state = "queued"
     \/ job[j].state = "running" /\ job[j].lease = "expired"

NoJobWaitsForever == \A j \in Jobs : []<>~Waiting(j)

=============================================================================
