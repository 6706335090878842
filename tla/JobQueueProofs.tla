--------------------------- MODULE JobQueueProofs ---------------------------
(***************************************************************************)
(* Proofs about JobQueue for every set of jobs and workers and every bound. *)
(* The inductive invariant says what an open transaction may rely on: the  *)
(* row it locked is still the row it checked, and a handler's transaction  *)
(* still runs under the controls it read.  Types and token counts carry it, *)
(* and from it follows, last, what the attempt ledger says of every job.   *)
(***************************************************************************)
EXTENDS JobQueue, SequenceTheorems, TLAPS

\* Every claim takes one token and one attempt; only a cancellation may take a
\* token without an attempt.
TokensCountAttempts ==
  \A j \in Jobs :
    \/ job[j].token = job[j].attempts
    \/ job[j].state = "cancelled" /\ job[j].token = job[j].attempts + 1

\* A worker that runs or writes has a claim at hand.
BatchReady ==
  \A w \in Workers :
    worker[w].pc \in {"run", "apply", "checkpoint", "fail"} => worker[w].batch /= <<>>

\* A transaction's row lock protects the fence it checked.
TransactionOwnsRow ==
  \A w \in Workers : InTransaction(w) =>
    LET row == job[Current(w).job]
    IN /\ row.state = "running"
       /\ row.owner = w
       /\ row.token = Current(w).token
       /\ row.epoch = worker[w].view.epoch

\* A handler's transaction also holds the controls it checked.
ApplyUnderControls ==
  \A w \in Workers : worker[w].pc = "apply" => ControlsHold(w)

IInv == TypeOK /\ TokensCountAttempts /\ BatchReady /\ TransactionOwnsRow /\ ApplyUnderControls

\* What the ledger of one job says: a row per claim, numbered by its token, and
\* only the last one may be open, while the job runs or after a cancellation.
LedgerTells(row, rows) ==
  /\ Len(rows) = row.attempts
  /\ \A i \in DOMAIN rows :
       /\ rows[i].token = i
       /\ rows[i].outcome = "open" => row.state \in {"running", "cancelled"} /\ i = Len(rows)

LedgersTell == \A j \in Jobs : LedgerTells(job[j], tries[j])

JobType == [state : States, owner : Workers \cup {NoWorker},
            lease : {"none", "live", "expired"}, token : Tokens,
            attempts : 0 .. MaxAttempts, epoch : 0 .. MaxEpoch, due : BOOLEAN]

TryType == [token : Tokens, outcome : Outcomes]

WorkerType == [pc : {"idle", "claim", "reserve", "run", "apply", "checkpoint", "fail"},
               view : Controls, batch : Seq(Claims), aborted : BOOLEAN,
               read : Controls, retry : BOOLEAN]

\* The types of the variables, one fact each (TypeOK spelled out).
LEMMA Types ==
  TypeOK <=> /\ controls \in Controls
             /\ job \in [Jobs -> JobType]
             /\ tries \in [Jobs -> Seq(TryType)]
             /\ applied \in [Jobs -> Tokens]
             /\ worker \in [Workers -> WorkerType]
             /\ crashes \in 0 .. MaxCrashes
BY DEF TypeOK, JobType, TryType, WorkerType

\* What no worker's step but its own may change: the pc, batch and view of the
\* other workers, which is what their transactions rely on.
LEMMA IdleType == NoControls \in Controls /\ IdleWorker \in WorkerType
<1>1. NoControls \in Controls
  BY BoundsAssumption DEF NoControls, Controls, Flags
<1> QED
  BY <1>1 DEF IdleWorker, WorkerType

\* The queue starts empty, with nobody at work.
LEMMA InitIInv == Init => IInv
<1> SUFFICES ASSUME Init PROVE IInv
  OBVIOUS
<1> USE BoundsAssumption, AttemptsAssumption, IdleType
<1>1. controls \in Controls
  BY DEF Init, NoControls, Controls, Flags
<1>2. job \in [Jobs -> JobType] /\ applied \in [Jobs -> Tokens]
  BY DEF Init, JobType, AbsentJob, States, Tokens
<1>3. tries \in [Jobs -> Seq(TryType)]
  BY DEF Init
<1>4. worker \in [Workers -> WorkerType] /\ crashes \in 0 .. MaxCrashes
  BY DEF Init
<1>5. TokensCountAttempts /\ BatchReady /\ TransactionOwnsRow /\ ApplyUnderControls
  BY DEF Init, TokensCountAttempts, BatchReady, TransactionOwnsRow, ApplyUnderControls,
         InTransaction, IdleWorker, AbsentJob
<1> QED
  BY <1>1, <1>2, <1>3, <1>4, <1>5, Types DEF IInv

-----------------------------------------------------------------------------
(* What the helpers return *)

\* A worker that runs has a claim of a known job.
LEMMA CurrentClaim ==
  ASSUME TypeOK, BatchReady, NEW w \in Workers,
         worker[w].pc \in {"run", "apply", "checkpoint", "fail"}
  PROVE  Current(w) \in Claims /\ Current(w).job \in Jobs
<1>1. worker[w].batch \in Seq(Claims) /\ worker[w].batch /= <<>>
  BY Types DEF BatchReady, WorkerType
<1>2. Current(w) \in Claims
  BY <1>1, HeadTailProperties, Zenon DEF Current
<1> QED
  BY <1>2 DEF Claims

\* Closing attempts changes no types.
LEMMA CloseType ==
  ASSUME tries \in [Jobs -> Seq(TryType)], NEW j \in Jobs, NEW tokens,
         NEW outcome \in Outcomes
  PROVE  Close(j, tokens, outcome) \in [Jobs -> Seq(TryType)]
<1> DEFINE new == [i \in DOMAIN tries[j] |->
                     IF tries[j][i].outcome = "open" /\ tries[j][i].token \in tokens
                     THEN [tries[j][i] EXCEPT !.outcome = outcome] ELSE tries[j][i]]
           n == Len(tries[j])
<1>1. n \in Nat /\ DOMAIN tries[j] = 1 .. n /\ \A i \in 1 .. n : tries[j][i] \in TryType
  BY LenProperties, ElementOfSeq
<1>2. new \in [1 .. n -> TryType]
  BY <1>1 DEF TryType
<1>3. new \in Seq(TryType)
  BY <1>1, <1>2, SeqDef
<1>4. Close(j, tokens, outcome) = [tries EXCEPT ![j] = new]
  BY DEF Close
<1> QED
  BY <1>3, <1>4

\* The row an execution lets go of.
LEMMA ReleasedType ==
  ASSUME NEW row \in JobType, NEW state \in States, NEW epoch \in 0 .. MaxEpoch,
         NEW due \in BOOLEAN
  PROVE  LET released == Released(row, state, epoch, due)
         IN /\ released \in JobType /\ released.token = row.token
            /\ released.attempts = row.attempts
BY DEF Released, JobType

\* What follows the head of a batch of two or more.
LEMMA TailNotEmpty ==
  ASSUME NEW S, NEW s \in Seq(S), Len(s) > 1
  PROVE  Tail(s) \in Seq(S) /\ Tail(s) /= <<>>
<1>1. Len(s) \in Nat /\ s /= <<>>
  BY EmptySeq, LenProperties
<1>2. Tail(s) \in Seq(S) /\ Len(Tail(s)) = Len(s) - 1
  BY <1>1, HeadTailProperties
<1>3. Len(Tail(s)) /= 0
  BY <1>1, <1>2, SMT
<1>4. Len(<<>>) = 0
  BY EmptySeq
<1> QED
  BY <1>2, <1>3, <1>4, Zenon

\* After a job the worker runs the next one of its batch or is idle.
LEMMA NextClaimWorker ==
  ASSUME TypeOK, NEW w \in Workers, NextClaim(w)
  PROVE  /\ worker' \in [Workers -> WorkerType]
         /\ worker'[w].pc \in {"idle", "run"}
         /\ worker'[w].pc = "run" => worker'[w].batch /= <<>>
         /\ \A v \in Workers \ {w} : worker'[v] = worker[v]
<1> DEFINE b == worker[w].batch
           next == [IdleWorker EXCEPT !.pc = "run", !.view = worker[w].view, !.batch = Tail(b)]
<1>0. worker \in [Workers -> WorkerType] /\ worker[w] \in WorkerType
  BY Types
<1>1. b \in Seq(Claims) /\ Len(b) \in Nat
  BY <1>0, LenProperties DEF WorkerType
<1>2. worker' = [worker EXCEPT ![w] = IF Len(b) > 1 THEN next ELSE IdleWorker]
  BY DEF NextClaim
<1>3. CASE Len(b) > 1
  <2>2. Tail(b) \in Seq(Claims) /\ Tail(b) /= <<>>
    BY <1>1, <1>3, TailNotEmpty
  <2>4. next \in WorkerType /\ next.pc = "run" /\ next.batch = Tail(b)
    BY <1>0, <2>2, IdleType DEF WorkerType, IdleWorker
  <2> QED
    BY <1>0, <1>2, <1>3, <2>2, <2>4
<1>4. CASE ~(Len(b) > 1)
  BY <1>0, <1>2, <1>4, IdleType DEF IdleWorker
<1> QED
  BY <1>3, <1>4

-----------------------------------------------------------------------------
(* Every step keeps the invariant *)

\* The parts of the invariant that steps on rows and controls can disturb, for
\* the steps that leave the workers alone.
LEMMA SetControlsStep ==
  ASSUME IInv, NEW on \in Settings, SetControls(on) PROVE IInv'
<1> USE BoundsAssumption DEF IInv
<1>1. controls' \in Controls /\ controls'.epoch \in 0 .. MaxEpoch
  <2>1. controls.epoch \in 0 .. MaxEpoch /\ controls.epoch < MaxEpoch
    BY Types DEF SetControls, Controls
  <2>2. controls' = [epoch |-> controls.epoch + 1, on |-> on]
    BY DEF SetControls
  <2> QED
    BY <2>1, <2>2 DEF Controls
<1>2. \A j \in Jobs : /\ job'[j] \in JobType
                      /\ job'[j].token = job[j].token /\ job'[j].attempts = job[j].attempts
                      /\ job[j].state = "cancelled" => job'[j] = job[j]
                      /\ job[j].state = "running" => job'[j] = job[j]
  <2> SUFFICES ASSUME NEW j \in Jobs
               PROVE  /\ job'[j] \in JobType
                      /\ job'[j].token = job[j].token /\ job'[j].attempts = job[j].attempts
                      /\ job[j].state = "cancelled" => job'[j] = job[j]
                      /\ job[j].state = "running" => job'[j] = job[j]
    OBVIOUS
  <2>1. job[j] \in JobType
    BY Types
  <2>2. controls.epoch + 1 \in 0 .. MaxEpoch
    BY <1>1 DEF SetControls
  <2> QED
    BY <2>1, <2>2 DEF SetControls, JobType, States
<1>3. TypeOK'
  <2>1. job' \in [Jobs -> JobType]
    BY <1>2 DEF SetControls
  <2> QED
    BY <1>1, <2>1, Types DEF SetControls, TypeOK, JobType
<1>4. TokensCountAttempts'
  BY <1>2 DEF TokensCountAttempts
<1>5. BatchReady' /\ worker' = worker
  BY DEF SetControls, BatchReady
<1>6. TransactionOwnsRow'
  BY <1>2, <1>5, CurrentClaim DEF TransactionOwnsRow, InTransaction, Current
<1>7. ApplyUnderControls'
  BY <1>5 DEF SetControls, ApplyUnderControls, ControlsLocked
<1> QED
  BY <1>3, <1>4, <1>5, <1>6, <1>7

\* A step of the API or the clock on one row.
LEMMA RowStep ==
  ASSUME IInv, NEW j \in Jobs, NEW row \in JobType,
         job' = [job EXCEPT ![j] = row],
         tries' \in [Jobs -> Seq(TryType)],
         UNCHANGED <<controls, applied, worker, crashes>>,
         \/ ~RowLocked(j)
         \/ row = [job[j] EXCEPT !.lease = row.lease],
         \/ row.token = row.attempts
         \/ row.state = "cancelled" /\ row.token = row.attempts + 1
  PROVE  IInv'
<1> USE DEF IInv
<1>1. job \in [Jobs -> JobType] /\ job' \in [Jobs -> JobType]
  BY Types
<1>2. TypeOK'
  <2>1. /\ controls' \in Controls /\ applied' \in [Jobs -> Tokens]
        /\ worker' \in [Workers -> WorkerType] /\ crashes' \in 0 .. MaxCrashes
    BY Types
  <2> QED
    BY <1>1, <2>1 DEF TypeOK, JobType, WorkerType, TryType
<1>3. TokensCountAttempts'
  BY <1>1 DEF TokensCountAttempts
<1>4. BatchReady' /\ ApplyUnderControls'
  BY DEF BatchReady, ApplyUnderControls, ControlsHold, Current
<1>5. TransactionOwnsRow'
  <2> SUFFICES ASSUME NEW w \in Workers, InTransaction(w)
               PROVE  LET r == job'[Current(w).job]
                      IN /\ r.state = "running" /\ r.owner = w
                         /\ r.token = Current(w).token /\ r.epoch = worker[w].view.epoch
    BY DEF TransactionOwnsRow, InTransaction, Current
  <2>1. Current(w).job \in Jobs
    BY CurrentClaim DEF InTransaction
  <2>2. LET r == job[Current(w).job]
        IN /\ r.state = "running" /\ r.owner = w
           /\ r.token = Current(w).token /\ r.epoch = worker[w].view.epoch
    BY DEF TransactionOwnsRow
  <2>3. CASE Current(w).job = j
    <3>1. row = [job[j] EXCEPT !.lease = row.lease]
      BY <2>3 DEF RowLocked
    <3>2. job[j] \in JobType /\ job'[j] = row
      BY <1>1
    <3> QED
      BY <2>2, <2>3, <3>1, <3>2 DEF JobType
  <2>4. CASE Current(w).job /= j
    BY <1>1, <2>1, <2>2, <2>4
  <2> QED
    BY <2>3, <2>4
<1> QED
  BY <1>2, <1>3, <1>4, <1>5

\* A step of a worker that ends outside a transaction, on one row at most.
LEMMA SettledStep ==
  ASSUME IInv, NEW w \in Workers, NEW j \in Jobs, NEW row \in JobType,
         job' = [job EXCEPT ![j] = row],
         tries' \in [Jobs -> Seq(TryType)], applied' \in [Jobs -> Tokens],
         controls' = controls, crashes' \in 0 .. MaxCrashes,
         worker' \in [Workers -> WorkerType],
         worker'[w].pc \in {"idle", "claim", "reserve", "run"},
         worker'[w].pc = "run" => worker'[w].batch /= <<>>,
         \A v \in Workers \ {w} : worker'[v] = worker[v],
         row = job[j] \/ \A v \in Workers \ {w} : InTransaction(v) => Current(v).job /= j,
         \/ row.token = row.attempts
         \/ row.state = "cancelled" /\ row.token = row.attempts + 1
  PROVE  IInv'
<1> USE DEF IInv
<1>1. job \in [Jobs -> JobType] /\ job' \in [Jobs -> JobType]
  BY Types
<1>2. TypeOK'
  <2>1. controls' \in Controls
    BY Types
  <2> QED
    BY <1>1, <2>1 DEF TypeOK, JobType, WorkerType, TryType
<1>3. TokensCountAttempts'
  BY <1>1 DEF TokensCountAttempts
<1>4. BatchReady'
  BY DEF BatchReady
<1>5. \A v \in Workers : InTransaction(v)' =>
         /\ v /= w /\ InTransaction(v) /\ worker'[v] = worker[v]
         /\ Current(v)' = Current(v) /\ Current(v).job \in Jobs
  BY CurrentClaim DEF InTransaction, Current
<1>6. TransactionOwnsRow'
  <2> SUFFICES ASSUME NEW v \in Workers, InTransaction(v)'
               PROVE  LET r == job'[Current(v).job]
                      IN /\ r.state = "running" /\ r.owner = v
                         /\ r.token = Current(v).token /\ r.epoch = worker[v].view.epoch
    BY <1>5 DEF TransactionOwnsRow
  <2>1. job'[Current(v).job] = job[Current(v).job]
    BY <1>1, <1>5
  <2> QED
    BY <1>5, <2>1 DEF TransactionOwnsRow
<1>7. ApplyUnderControls'
  <2> SUFFICES ASSUME NEW v \in Workers, worker'[v].pc = "apply"
               PROVE  ControlsHold(v)'
    BY DEF ApplyUnderControls
  <2>1. InTransaction(v)'
    BY DEF InTransaction
  <2>2. ControlsHold(v)
    BY <1>5, <2>1 DEF ApplyUnderControls
  <2> QED
    BY <1>5, <2>1, <2>2 DEF ControlsHold
<1> QED
  BY <1>2, <1>3, <1>4, <1>6, <1>7

\* A step by which a worker that runs begins a transaction on the row it owns.
LEMMA BeginStep ==
  ASSUME IInv, NEW w \in Workers, worker[w].pc = "run", FenceHolds(w),
         UNCHANGED <<controls, job, tries, applied, crashes>>,
         worker' \in [Workers -> WorkerType],
         worker'[w].pc \in {"apply", "checkpoint", "fail"},
         worker'[w].batch = worker[w].batch, worker'[w].view = worker[w].view,
         \A v \in Workers \ {w} : worker'[v] = worker[v],
         worker'[w].pc = "apply" => ControlsHold(w)
  PROVE  IInv'
<1> USE DEF IInv
<1>1. TypeOK'
  BY DEF TypeOK, WorkerType
<1>2. TokensCountAttempts' /\ BatchReady'
  BY DEF TokensCountAttempts, BatchReady
<1>3. TransactionOwnsRow'
  <2> SUFFICES ASSUME NEW v \in Workers, InTransaction(v)'
               PROVE  LET r == job'[Current(v)'.job]
                      IN  /\ r.state = "running" /\ r.owner = v
                          /\ r.token = Current(v)'.token
                          /\ r.epoch = worker'[v].view.epoch
    BY DEF TransactionOwnsRow
  <2>1. Current(v)' = Current(v) /\ worker'[v].view = worker[v].view /\ job' = job
    BY DEF Current
  <2>2. CASE v = w
    BY <2>1, <2>2 DEF FenceHolds
  <2>3. CASE v /= w
    <3>1. InTransaction(v)
      BY <2>3 DEF InTransaction
    <3> QED
      BY <2>1, <3>1 DEF TransactionOwnsRow
  <2> QED
    BY <2>2, <2>3
<1>4. ApplyUnderControls'
  BY DEF ApplyUnderControls, ControlsHold, Current
<1> QED
  BY <1>1, <1>2, <1>3, <1>4

\* The rows, the attempts and the counters have their types.
LEMMA RowFacts ==
  ASSUME IInv, NEW j \in Jobs
  PROVE  /\ job \in [Jobs -> JobType] /\ job[j] \in JobType
         /\ tries \in [Jobs -> Seq(TryType)]
         /\ controls \in Controls /\ controls.epoch \in 0 .. MaxEpoch
         /\ job[j].state /= "cancelled" => job[j].token = job[j].attempts
         /\ \/ job[j].token = job[j].attempts
            \/ job[j].state = "cancelled" /\ job[j].token = job[j].attempts + 1
<1>1. TypeOK /\ TokensCountAttempts
  BY DEF IInv
<1>2. /\ controls \in Controls
      /\ job \in [Jobs -> JobType]
      /\ tries \in [Jobs -> Seq(TryType)]
  BY <1>1, Types
<1>3. controls.epoch \in 0 .. MaxEpoch
  BY <1>2 DEF Controls
<1>4. job[j] \in JobType
  BY <1>2
<1>5. \/ job[j].token = job[j].attempts
      \/ job[j].state = "cancelled" /\ job[j].token = job[j].attempts + 1
  BY <1>1 DEF TokensCountAttempts
<1> QED
  BY <1>2, <1>3, <1>4, <1>5

\* enqueue adds a row that nobody holds.
LEMMA InsertStep ==
  ASSUME IInv, NEW j \in Jobs, Insert(j) PROVE IInv'
<1> DEFINE row == [AbsentJob EXCEPT !.state = "queued", !.epoch = controls.epoch, !.due = TRUE]
<1>1. row \in JobType /\ row.token = row.attempts
  <2>1. 0 \in Tokens /\ 0 \in 0 .. MaxAttempts /\ controls.epoch \in 0 .. MaxEpoch
    BY RowFacts, AttemptsAssumption DEF Tokens
  <2>2. AbsentJob \in JobType /\ AbsentJob.token = 0 /\ AbsentJob.attempts = 0
    BY <2>1, BoundsAssumption DEF AbsentJob, JobType, States
  <2> QED
    BY <2>1, <2>2 DEF JobType, States
<1>2. ~RowLocked(j)
  BY DEF IInv, TransactionOwnsRow, RowLocked, Insert
<1>3. job' = [job EXCEPT ![j] = row] /\ UNCHANGED <<controls, tries, applied, worker, crashes>>
  BY DEF Insert
<1> QED
  BY <1>1, <1>2, <1>3, RowFacts, RowStep

\* A cancellation burns a token of a job no transaction has locked.
LEMMA CancelStep ==
  ASSUME IInv, NEW j \in Jobs, CancelPairJob(j) \/ CancelForRole(j) PROVE IInv'
<1> DEFINE gone == Released(job[j], "cancelled", job[j].epoch, job[j].due)
<1>0. /\ ~RowLocked(j) /\ job[j].token = job[j].attempts /\ job[j] \in JobType
      /\ tries \in [Jobs -> Seq(TryType)]
  BY RowFacts DEF CancelPairJob, CancelForRole, Cancellable
<1>1. /\ gone \in JobType /\ gone.state = "cancelled"
      /\ gone.token = job[j].token /\ gone.attempts = job[j].attempts
  BY <1>0 DEF Released, JobType, States
<1>2. CASE CancelPairJob(j)
  <2> DEFINE row == [gone EXCEPT !.token = job[j].token + 1]
  <2>1. job[j].token + 1 \in Tokens
    BY <1>0, AttemptsAssumption DEF JobType, Tokens
  <2>2. row \in JobType /\ row.state = "cancelled" /\ row.token = row.attempts + 1
    BY <1>0, <1>1, <2>1 DEF JobType
  <2>3. job' = [job EXCEPT ![j] = row] /\ UNCHANGED <<controls, tries, applied, worker, crashes>>
    BY <1>2 DEF CancelPairJob
  <2> QED
    BY <1>0, <2>2, <2>3, RowStep
<1>3. CASE CancelForRole(j)
  <2>1. job' = [job EXCEPT ![j] = gone] /\ UNCHANGED <<controls, applied, worker, crashes>>
    BY <1>3 DEF CancelForRole
  <2>2. tries' \in [Jobs -> Seq(TryType)]
    BY <1>0, <1>3, CloseType DEF CancelForRole, Outcomes
  <2> QED
    BY <1>0, <1>1, <2>1, <2>2, RowStep
<1> QED
  BY <1>2, <1>3

\* The clock changes a lease or a due time, no owner and no token.
LEMMA ClockStep ==
  ASSUME IInv, NEW j \in Jobs, LeaseExpires(j) \/ BecomesDue(j) PROVE IInv'
<1>1. CASE LeaseExpires(j)
  <2> DEFINE row == [job[j] EXCEPT !.lease = "expired"]
  <2>1. /\ row \in JobType /\ row.token = job[j].token /\ row.attempts = job[j].attempts
        /\ row.state = job[j].state /\ row = [job[j] EXCEPT !.lease = row.lease]
    BY RowFacts DEF JobType
  <2>2. job' = [job EXCEPT ![j] = row] /\ UNCHANGED <<controls, tries, applied, worker, crashes>>
    BY <1>1 DEF LeaseExpires
  <2> QED
    BY <2>1, <2>2, RowFacts, RowStep
<1>2. CASE BecomesDue(j)
  <2> DEFINE row == [job[j] EXCEPT !.due = TRUE]
  <2>1. /\ row \in JobType /\ row.token = job[j].token /\ row.attempts = job[j].attempts
        /\ row.state = job[j].state
    BY RowFacts DEF JobType
  <2>2. ~RowLocked(j)
    BY <1>2 DEF IInv, TransactionOwnsRow, RowLocked, BecomesDue
  <2>3. job' = [job EXCEPT ![j] = row] /\ UNCHANGED <<controls, tries, applied, worker, crashes>>
    BY <1>2 DEF BecomesDue
  <2> QED
    BY <2>1, <2>2, <2>3, RowFacts, RowStep
<1> QED
  BY <1>1, <1>2

\* Steps of a worker that touch no row.
LEMMA CycleStep ==
  ASSUME IInv, NEW w \in Workers,
         \/ ReadControls(w) \/ ClaimNothing(w) \/ ReserveNothing(w)
         \/ HeartbeatLost(w) \/ DropLostClaim(w) \/ EndApply(w) \/ Crash(w)
  PROVE  IInv'
<1> DEFINE view == [epoch |-> controls.epoch, on |-> controls.on \cap EnvFlags]
<1>0. /\ worker \in [Workers -> WorkerType] /\ worker[w] \in WorkerType /\ TypeOK
      /\ controls \in Controls /\ applied \in [Jobs -> Tokens] /\ crashes \in 0 .. MaxCrashes
  BY Types DEF IInv
<1>1. /\ worker' \in [Workers -> WorkerType]
      /\ worker'[w].pc \in {"idle", "claim", "reserve", "run"}
      /\ worker'[w].pc = "run" => worker'[w].batch /= <<>>
      /\ \A v \in Workers \ {w} : worker'[v] = worker[v]
  <2>1. CASE ReadControls(w)
    <3>1. view \in Controls
      BY <1>0 DEF Controls
    <3>2. worker' = [worker EXCEPT ![w].pc = "claim", ![w].view = view]
      BY <2>1 DEF ReadControls
    <3> QED
      BY <1>0, <3>1, <3>2 DEF WorkerType
  <2>2. CASE ClaimNothing(w)
    BY <1>0, <2>2, IdleType DEF ClaimNothing, WorkerType, IdleWorker
  <2>3. CASE ReserveNothing(w)
    BY <1>0, <2>3, IdleType DEF ReserveNothing, WorkerType, IdleWorker
  <2>4. CASE HeartbeatLost(w)
    BY <1>0, <2>4 DEF HeartbeatLost, WorkerType, IInv, BatchReady
  <2>5. CASE DropLostClaim(w)
    BY <1>0, <2>5, NextClaimWorker DEF DropLostClaim
  <2>6. CASE EndApply(w)
    BY <1>0, <2>6 DEF EndApply, WorkerType, IInv, BatchReady
  <2>7. CASE Crash(w)
    BY <1>0, <2>7, IdleType DEF Crash, IdleWorker
  <2> QED
    BY <2>1, <2>2, <2>3, <2>4, <2>5, <2>6, <2>7
<1>2. UNCHANGED <<controls, job, tries>> /\ crashes' \in 0 .. MaxCrashes
  <2>1. CASE Crash(w)
    BY <1>0, <2>1, BoundsAssumption DEF Crash
  <2> QED
    BY <1>0, <2>1 DEF ReadControls, ClaimNothing, ReserveNothing, HeartbeatLost,
                      DropLostClaim, EndApply
<1>3. applied' \in [Jobs -> Tokens]
  <2>1. CASE EndApply(w)
    <3>1. Current(w).job \in Jobs /\ Current(w).token \in Tokens
      BY <2>1, CurrentClaim DEF IInv, EndApply, Claims
    <3> QED
      BY <1>0, <2>1, <3>1 DEF EndApply
  <2> QED
    BY <1>0, <2>1 DEF ReadControls, ClaimNothing, ReserveNothing, HeartbeatLost,
                      DropLostClaim, Crash
<1>4. TypeOK'
  BY <1>0, <1>1, <1>2, <1>3 DEF TypeOK, WorkerType
<1>5. TokensCountAttempts' /\ BatchReady'
  BY <1>1, <1>2 DEF IInv, TokensCountAttempts, BatchReady
<1>6. \A v \in Workers : InTransaction(v)' =>
         InTransaction(v) /\ worker'[v] = worker[v] /\ Current(v)' = Current(v)
  BY <1>1 DEF InTransaction, Current
<1>7. TransactionOwnsRow'
  BY <1>2, <1>6 DEF IInv, TransactionOwnsRow
<1>8. ApplyUnderControls'
  BY <1>2, <1>6 DEF IInv, ApplyUnderControls, ControlsHold, InTransaction
<1> QED
  BY <1>4, <1>5, <1>7, <1>8 DEF IInv

\* A transaction begins.
LEMMA BeginTransactionStep ==
  ASSUME IInv, NEW w \in Workers, BeginApply(w) \/ BeginCheckpoint(w) \/ BeginFail(w)
  PROVE  IInv'
<1>0. /\ worker \in [Workers -> WorkerType] /\ worker[w] \in WorkerType
      /\ controls \in Controls
  BY Types DEF IInv
<1>1. /\ worker[w].pc = "run" /\ FenceHolds(w)
      /\ UNCHANGED <<controls, job, tries, applied, crashes>>
  BY DEF BeginApply, BeginCheckpoint, BeginFail
<1>2. /\ worker' \in [Workers -> WorkerType]
      /\ worker'[w].pc \in {"apply", "checkpoint", "fail"}
      /\ worker'[w].batch = worker[w].batch /\ worker'[w].view = worker[w].view
      /\ \A v \in Workers \ {w} : worker'[v] = worker[v]
      /\ worker'[w].pc = "apply" => ControlsHold(w)
  <2>1. CASE BeginApply(w)
    BY <1>0, <2>1 DEF BeginApply, WorkerType
  <2>2. CASE BeginCheckpoint(w)
    BY <1>0, <2>2 DEF BeginCheckpoint, WorkerType
  <2>3. CASE BeginFail(w)
    <3>1. PICK retry \in BOOLEAN :
            worker' = [worker EXCEPT ![w].pc = "fail", ![w].read = controls, ![w].retry = retry]
      BY <2>3 DEF BeginFail
    <3> QED
      BY <1>0, <3>1 DEF WorkerType
  <2> QED
    BY <2>1, <2>2, <2>3
<1> QED
  BY <1>1, <1>2, BeginStep

\* A claim numbers a new execution of a row nobody has locked.
LEMMA TakeFacts ==
  ASSUME IInv, NEW w \in Workers, NEW kinds \in SUBSET Jobs,
         NEW j \in Soonest(Eligible(w, kinds)), Take(w, j)
  PROVE  /\ j \in Jobs /\ ~RowLocked(j) /\ job[j].state \in {"queued", "running"}
         /\ Claim(w, j) \in Claims
         /\ \E row \in JobType : /\ job' = [job EXCEPT ![j] = row]
                                 /\ row.token = row.attempts
         /\ tries' \in [Jobs -> Seq(TryType)]
<1>1. /\ j \in Jobs /\ ~RowLocked(j) /\ job[j].state \in {"queued", "running"}
      /\ job[j].attempts < MaxAttempts
  BY DEF Soonest, Eligible, Claimable
<1>2. /\ job[j] \in JobType /\ job[j].token = job[j].attempts
      /\ tries \in [Jobs -> Seq(TryType)] /\ worker[w].view.epoch \in 0 .. MaxEpoch
  BY <1>1, RowFacts, Types DEF IInv, WorkerType, Controls
<1>3. job[j].token + 1 \in Tokens /\ job[j].attempts + 1 \in 1 .. MaxAttempts
  BY <1>1, <1>2, AttemptsAssumption DEF JobType, Tokens
<1>4. Claim(w, j) \in Claims
  BY <1>1, <1>3 DEF Claim, Claims
<1>5. \E row \in JobType : job' = [job EXCEPT ![j] = row] /\ row.token = row.attempts
  <2> DEFINE row == [state |-> "running", owner |-> w, lease |-> "live",
                     token |-> job[j].token + 1, attempts |-> job[j].attempts + 1,
                     epoch |-> worker[w].view.epoch, due |-> job[j].due]
  <2>1. row \in JobType /\ row.token = row.attempts
    BY <1>2, <1>3 DEF JobType, States
  <2>2. job' = [job EXCEPT ![j] = row]
    BY DEF Take
  <2> QED
    BY <2>1, <2>2
<1>6. tries' \in [Jobs -> Seq(TryType)]
  <2> DEFINE closed == Close(j, Tokens, "lease_expired")
             new == [token |-> job[j].token + 1, outcome |-> "open"]
  <2>1. closed \in [Jobs -> Seq(TryType)]
    BY <1>1, <1>2, CloseType DEF Outcomes
  <2>2. new \in TryType
    BY <1>3 DEF TryType, Outcomes
  <2>3. Append(closed[j], new) \in Seq(TryType)
    BY <1>1, <2>1, <2>2, AppendProperties
  <2>4. tries' = [closed EXCEPT ![j] = Append(closed[j], new)]
    BY DEF Take
  <2> QED
    BY <2>1, <2>3, <2>4
<1> QED
  BY <1>1, <1>4, <1>5, <1>6

\* A claim is a new execution of a row that nobody has locked.
LEMMA ClaimStep ==
  ASSUME IInv, NEW w \in Workers, ClaimJob(w) \/ ReserveBuild(w)
  PROVE  IInv'
<1>0. /\ worker \in [Workers -> WorkerType] /\ worker[w] \in WorkerType
      /\ applied \in [Jobs -> Tokens] /\ crashes \in 0 .. MaxCrashes
  BY Types DEF IInv
<1>1. PICK kinds \in SUBSET Jobs, j \in Jobs :
        /\ j \in Soonest(Eligible(w, kinds))
        /\ Take(w, j) /\ UNCHANGED <<controls, applied, crashes>>
        /\ \/ worker' = [worker EXCEPT
                ![w].pc = IF ReservesBuild(w) /\ ~IsBuild(j) THEN "reserve" ELSE "run",
                ![w].batch = <<Claim(w, j)>>]
           \/ worker' = [worker EXCEPT ![w].pc = "run",
                ![w].batch = Append(worker[w].batch, Claim(w, j))]
  <2>1. CASE ClaimJob(w)
    <3>1. PICK j \in Soonest(Eligible(w, Jobs)) :
            /\ Take(w, j)
            /\ worker' = [worker EXCEPT
                 ![w].pc = IF ReservesBuild(w) /\ ~IsBuild(j) THEN "reserve" ELSE "run",
                 ![w].batch = <<Claim(w, j)>>]
      BY <2>1 DEF ClaimJob
    <3>2. j \in Jobs /\ Jobs \in SUBSET Jobs
      BY DEF Soonest, Eligible
    <3> QED
      BY <2>1, <3>1, <3>2, Zenon DEF ClaimJob
  <2>2. CASE ReserveBuild(w)
    <3>1. PICK j \in Soonest(Eligible(w, Builds)) :
            /\ Take(w, j)
            /\ worker' = [worker EXCEPT ![w].pc = "run",
                 ![w].batch = Append(worker[w].batch, Claim(w, j))]
      BY <2>2 DEF ReserveBuild
    <3>2. j \in Jobs /\ Builds \in SUBSET Jobs
      BY DEF Soonest, Eligible, Builds
    <3> QED
      BY <2>2, <3>1, <3>2, Zenon DEF ReserveBuild
  <2> QED
    BY <2>1, <2>2
<1>2. /\ j \in Jobs /\ ~RowLocked(j) /\ Claim(w, j) \in Claims
      /\ tries' \in [Jobs -> Seq(TryType)]
  BY <1>1, TakeFacts
<1>3. PICK row \in JobType : job' = [job EXCEPT ![j] = row] /\ row.token = row.attempts
  BY <1>1, TakeFacts
<1>4. /\ worker' \in [Workers -> WorkerType] /\ worker'[w].pc \in {"reserve", "run"}
      /\ worker'[w].batch /= <<>> /\ \A v \in Workers \ {w} : worker'[v] = worker[v]
  <2>1. /\ <<Claim(w, j)>> \in Seq(Claims) /\ <<Claim(w, j)>> /= <<>>
    BY <1>2
  <2>2. /\ Append(worker[w].batch, Claim(w, j)) \in Seq(Claims)
        /\ Append(worker[w].batch, Claim(w, j)) /= <<>>
    BY <1>0, <1>2, AppendProperties DEF WorkerType
  <2>3. CASE worker' = [worker EXCEPT ![w].pc = "run",
               ![w].batch = Append(worker[w].batch, Claim(w, j))]
    BY <1>0, <2>2, <2>3 DEF WorkerType
  <2>4. CASE worker' = [worker EXCEPT
               ![w].pc = IF ReservesBuild(w) /\ ~IsBuild(j) THEN "reserve" ELSE "run",
               ![w].batch = <<Claim(w, j)>>]
    BY <1>0, <2>1, <2>4 DEF WorkerType
  <2> QED
    BY <1>1, <2>3, <2>4
<1>5. \A v \in Workers \ {w} : InTransaction(v) => Current(v).job /= j
  BY <1>2 DEF RowLocked
<1> QED
  BY <1>0, <1>1, <1>2, <1>3, <1>4, <1>5, SettledStep

\* The row a transaction of w has locked is no other transaction's.
LEMMA OwnRow ==
  ASSUME IInv, NEW w \in Workers,
         InTransaction(w) \/ (worker[w].pc = "run" /\ FenceHolds(w))
  PROVE  /\ Current(w).job \in Jobs
         /\ job[Current(w).job] \in JobType
         /\ job[Current(w).job].state = "running"
         /\ job[Current(w).job].token = job[Current(w).job].attempts
         /\ \A v \in Workers \ {w} : InTransaction(v) => Current(v).job /= Current(w).job
<1>1. Current(w).job \in Jobs
  BY CurrentClaim DEF IInv, InTransaction
<1>2. job[Current(w).job].state = "running" /\ job[Current(w).job].owner = w
  BY DEF IInv, TransactionOwnsRow, FenceHolds
<1>3. \A v \in Workers \ {w} : InTransaction(v) => Current(v).job /= Current(w).job
  BY <1>2 DEF IInv, TransactionOwnsRow
<1> QED
  BY <1>1, <1>2, <1>3, RowFacts

\* A statement that lets go of the row of w, or leaves it as it is.
LEMMA LetGoStep ==
  ASSUME IInv, NEW w \in Workers,
         InTransaction(w) \/ (worker[w].pc = "run" /\ FenceHolds(w)),
         NEW row \in JobType, row.token = row.attempts,
         job' = [job EXCEPT ![Current(w).job] = row],
         tries' \in [Jobs -> Seq(TryType)],
         UNCHANGED <<controls, applied, crashes>>,
         worker' \in [Workers -> WorkerType],
         worker'[w].pc \in {"idle", "run"},
         worker'[w].pc = "run" => worker'[w].batch /= <<>>,
         \A v \in Workers \ {w} : worker'[v] = worker[v]
  PROVE  IInv'
<1>1. /\ Current(w).job \in Jobs
      /\ \A v \in Workers \ {w} : InTransaction(v) => Current(v).job /= Current(w).job
  BY OwnRow
<1>2. applied' \in [Jobs -> Tokens] /\ crashes' \in 0 .. MaxCrashes /\ controls' = controls
  BY Types DEF IInv
<1> QED
  BY <1>1, <1>2, SettledStep

\* A checkpoint writes the row the worker locked, or finds its lease gone.
LEMMA EndCheckpointStep ==
  ASSUME IInv, NEW w \in Workers, EndCheckpoint(w) PROVE IInv'
<1> DEFINE claim == Current(w)
           read == worker[w].read
           saved == [worker EXCEPT ![w].pc = "run", ![w].read = NoControls]
<1>0. /\ worker \in [Workers -> WorkerType] /\ worker[w] \in WorkerType
      /\ read.epoch \in 0 .. MaxEpoch /\ InTransaction(w) /\ worker[w].batch /= <<>>
      /\ job \in [Jobs -> JobType] /\ tries \in [Jobs -> Seq(TryType)]
      /\ applied \in [Jobs -> Tokens] /\ crashes \in 0 .. MaxCrashes
  BY Types DEF IInv, WorkerType, Controls, EndCheckpoint, InTransaction, BatchReady
<1>1. /\ saved \in [Workers -> WorkerType] /\ saved[w].pc = "run" /\ saved[w].batch /= <<>>
      /\ \A v \in Workers \ {w} : saved[v] = worker[v]
  BY <1>0, IdleType DEF WorkerType
<1>2. UNCHANGED <<controls, applied, crashes>>
  BY DEF EndCheckpoint
<1>t. InTransaction(w)
  BY <1>0
<1>3. claim.job \in Jobs /\ job[claim.job] \in JobType /\ job[claim.job].token = job[claim.job].attempts
  BY <1>t, OwnRow
<1>4. CASE worker' = saved /\ UNCHANGED <<job, tries>>
  <2>1. job' = [job EXCEPT ![claim.job] = job[claim.job]] /\ tries' \in [Jobs -> Seq(TryType)]
    BY <1>0, <1>4
  <2> QED
    BY <1>1, <1>2, <1>3, <1>4, <1>t, <2>1, LetGoStep
<1>5. CASE /\ job' = [job EXCEPT ![claim.job] = Released(job[claim.job], "queued", read.epoch, TRUE)]
           /\ tries' = Close(claim.job, {claim.token}, "retry")
           /\ worker' = saved
  <2> DEFINE row == Released(job[claim.job], "queued", read.epoch, TRUE)
  <2>1. "queued" \in States /\ "retry" \in Outcomes
    BY DEF States, Outcomes
  <2>2. row \in JobType /\ row.token = row.attempts
    BY <1>0, <1>3, <2>1, ReleasedType
  <2>3. tries' \in [Jobs -> Seq(TryType)]
    BY <1>0, <1>3, <1>5, <2>1, CloseType
  <2> QED
    BY <1>1, <1>2, <1>5, <1>t, <2>2, <2>3, LetGoStep
<1>6. CASE /\ job' = [job EXCEPT ![claim.job] =
                        Released(job[claim.job], "held", read.epoch, job[claim.job].due)]
           /\ tries' = Close(claim.job, {claim.token}, "held")
           /\ NextClaim(w)
  <2> DEFINE row == Released(job[claim.job], "held", read.epoch, job[claim.job].due)
  <2>1. "held" \in States /\ "held" \in Outcomes /\ job[claim.job].due \in BOOLEAN
    BY <1>3 DEF States, Outcomes, JobType
  <2>2. row \in JobType /\ row.token = row.attempts
    BY <1>0, <1>3, <2>1, ReleasedType
  <2>3. tries' \in [Jobs -> Seq(TryType)]
    BY <1>0, <1>3, <1>6, <2>1, CloseType
  <2>4. /\ worker' \in [Workers -> WorkerType] /\ worker'[w].pc \in {"idle", "run"}
        /\ worker'[w].pc = "run" => worker'[w].batch /= <<>>
        /\ \A v \in Workers \ {w} : worker'[v] = worker[v]
    BY <1>6, NextClaimWorker DEF IInv
  <2> QED
    BY <1>2, <1>6, <1>t, <2>2, <2>3, <2>4, LetGoStep
<1> QED
  BY <1>4, <1>5, <1>6 DEF EndCheckpoint

\* complete_job closes the row of the newest execution only.
LEMMA CompleteJobStep ==
  ASSUME IInv, NEW w \in Workers, CompleteJob(w) PROVE IInv'
<1> DEFINE claim == Current(w)
<1>0. /\ UNCHANGED <<controls, applied, crashes>> /\ worker[w].pc = "run"
      /\ applied \in [Jobs -> Tokens] /\ crashes \in 0 .. MaxCrashes
      /\ job \in [Jobs -> JobType] /\ tries \in [Jobs -> Seq(TryType)]
      /\ claim.job \in Jobs
  BY Types, CurrentClaim DEF IInv, CompleteJob
<1>1. /\ worker' \in [Workers -> WorkerType] /\ worker'[w].pc \in {"idle", "run"}
      /\ worker'[w].pc = "run" => worker'[w].batch /= <<>>
      /\ \A v \in Workers \ {w} : worker'[v] = worker[v]
  BY NextClaimWorker DEF IInv, CompleteJob
<1>2. CASE FenceHolds(w) /\ ControlsHold(w)
  <2>1. /\ "succeeded" \in States /\ "succeeded" \in Outcomes
        /\ job[claim.job].due \in BOOLEAN /\ job[claim.job].epoch \in 0 .. MaxEpoch
    BY <1>0 DEF States, Outcomes, JobType
  <2> DEFINE row == Released(job[claim.job], "succeeded", job[claim.job].epoch, job[claim.job].due)
  <2>2. /\ job' = [job EXCEPT ![claim.job] = row]
        /\ tries' = Close(claim.job, {claim.token}, "succeeded")
    BY <1>2 DEF CompleteJob
  <2>3. job[claim.job].token = job[claim.job].attempts
    BY <1>0, <1>2, OwnRow
  <2>4. row \in JobType /\ row.token = row.attempts
    BY <1>0, <2>1, <2>3, ReleasedType
  <2>5. tries' \in [Jobs -> Seq(TryType)]
    BY <1>0, <2>1, <2>2, CloseType
  <2> HIDE DEF row
  <2> QED
    BY <1>0, <1>1, <1>2, <2>2, <2>4, <2>5, LetGoStep
<1>3. CASE ~(FenceHolds(w) /\ ControlsHold(w))
  <2>1. job' = [job EXCEPT ![claim.job] = job[claim.job]] /\ tries' = tries
    BY <1>0, <1>3 DEF CompleteJob
  <2>2. /\ job[claim.job] \in JobType
        /\ \/ job[claim.job].token = job[claim.job].attempts
           \/ /\ job[claim.job].state = "cancelled"
              /\ job[claim.job].token = job[claim.job].attempts + 1
    BY <1>0, RowFacts
  <2> QED
    BY <1>0, <1>1, <2>1, <2>2, SettledStep
<1> QED
  BY <1>2, <1>3

\* fail_job ends or requeues the row the worker locked.
LEMMA EndFailStep ==
  ASSUME IInv, NEW w \in Workers, EndFail(w) PROVE IInv'
<1> DEFINE j == Current(w).job
           state == FailedState(w)
           due == job[j].due /\ state /= "queued"
<1>1. /\ InTransaction(w) /\ UNCHANGED <<controls, applied, crashes>>
      /\ worker[w].read.epoch \in 0 .. MaxEpoch
  BY Types DEF IInv, EndFail, InTransaction, WorkerType, Controls
<1>t. InTransaction(w)
  BY <1>1
<1>2. /\ worker' \in [Workers -> WorkerType] /\ worker'[w].pc \in {"idle", "run"}
      /\ worker'[w].pc = "run" => worker'[w].batch /= <<>>
      /\ \A v \in Workers \ {w} : worker'[v] = worker[v]
  BY NextClaimWorker DEF IInv, EndFail
<1>3. state \in States /\ AttemptOutcome(state) \in Outcomes
  BY DEF FailedState, States, AttemptOutcome, Outcomes
<1>4. due \in BOOLEAN
  OBVIOUS
<1>5. /\ job' = [job EXCEPT ![j] = Released(job[j], state, worker[w].read.epoch, due)]
      /\ tries' = Close(j, {Current(w).token}, AttemptOutcome(state))
  BY DEF EndFail
<1>6. j \in Jobs /\ job[j] \in JobType /\ job[j].token = job[j].attempts
  BY <1>t, OwnRow
<1> DEFINE row == Released(job[j], state, worker[w].read.epoch, due)
<1> HIDE DEF state, due
<1>7. row \in JobType /\ row.token = row.attempts
  BY <1>1, <1>3, <1>4, <1>6, ReleasedType
<1>8. tries' \in [Jobs -> Seq(TryType)]
  <2>1. tries \in [Jobs -> Seq(TryType)]
    BY Types DEF IInv
  <2> QED
    BY <1>3, <1>5, <1>6, <2>1, CloseType
<1> HIDE DEF row
<1> QED
  BY <1>1, <1>2, <1>5, <1>7, <1>8, <1>t, LetGoStep DEF row

-----------------------------------------------------------------------------
(* The theorems *)

\* Every action keeps the invariant.
LEMMA NextIInv == IInv /\ [Next]_vars => IInv'
<1> SUFFICES ASSUME IInv, [Next]_vars PROVE IInv'
  OBVIOUS
<1>1. CASE UNCHANGED vars
  <2>1. TypeOK'
    BY <1>1, Types DEF IInv, vars, TypeOK, JobType, TryType, WorkerType
  <2> QED
    BY <1>1, <2>1 DEF IInv, vars, TokensCountAttempts, BatchReady, TransactionOwnsRow,
       ApplyUnderControls, InTransaction, ControlsHold, Current
<1>2. ASSUME NEW on \in Settings, SetControls(on) PROVE IInv'
  BY <1>2, SetControlsStep
<1>3. ASSUME NEW j \in Jobs, Enqueue(j) \/ EnqueueInternal(j) PROVE IInv'
  BY <1>3, InsertStep DEF Enqueue, EnqueueInternal
<1>4. ASSUME NEW j \in Jobs, CancelPairJob(j) \/ CancelForRole(j) PROVE IInv'
  BY <1>4, CancelStep
<1>5. ASSUME NEW j \in Jobs, LeaseExpires(j) \/ BecomesDue(j) PROVE IInv'
  BY <1>5, ClockStep
<1>6. ASSUME NEW w \in Workers, Cycle(w) PROVE IInv'
  BY <1>6, CycleStep, ClaimStep DEF Cycle
<1>7. ASSUME NEW w \in Workers, Run(w) PROVE IInv'
  BY <1>7, CycleStep, BeginTransactionStep, EndCheckpointStep, CompleteJobStep, EndFailStep
     DEF Run, Settle
<1>8. ASSUME NEW w \in Workers, Crash(w) PROVE IInv'
  BY <1>8, CycleStep
<1> QED
  BY <1>1, <1>2, <1>3, <1>4, <1>5, <1>6, <1>7, <1>8 DEF Next, Administrate, Clock

\* Every reachable state satisfies the inductive invariant.
THEOREM InductiveInvariant == Spec => []IInv
BY InitIInv, NextIInv, PTL DEF Spec

\* Type correctness: attempts never pass max_attempts, a token is never more
\* than one above them (claim_jobs and cancel_pair_job are all that count).
THEOREM TypeCorrect == Spec => []TypeOK
<1>1. IInv => TypeOK
  BY DEF IInv
<1> QED
  BY <1>1, InductiveInvariant, PTL

\* The fence of a handler's transaction: what assertWorkerFence checked still
\* holds at the commit, whatever the other workers, the administrator and the
\* clock did in between.
THEOREM FencedWrites == Spec => WritesAreFenced
<1> DEFINE Fenced == \A w \in Workers :
       applied' /= applied /\ worker[w].pc = "apply" /\ worker'[w].pc = "run" =>
         LET j == Current(w).job
         IN /\ job[j].state = "running"
            /\ job[j].token = Current(w).token
            /\ controls.epoch = worker[w].view.epoch
            /\ Enabled(j, controls.on)
<1>1. IInv => Fenced
  BY DEF IInv, TransactionOwnsRow, ApplyUnderControls, ControlsHold, InTransaction
<1>2. IInv /\ [Next]_vars => [Fenced]_vars
  BY <1>1
<1> QED
  BY <1>2, InductiveInvariant, PTL DEF Spec, WritesAreFenced

-----------------------------------------------------------------------------
(* The queue implements FencedTask *)

\* One row and one effect change at most: what a step does to the abstract task.
LEMMA TaskStep ==
  ASSUME NEW j \in Jobs, NEW row, job' = [job EXCEPT ![j] = row],
         job \in [Jobs -> JobType], applied' = applied,
         \/ row.state = job[j].state /\ row.token = job[j].token
         \/ job[j].state = "absent" /\ row.state = "queued" /\ row.token = job[j].token
         \/ /\ job[j].state \in {"queued", "running"} /\ row.state = "running"
            /\ row.token = job[j].token + 1
         \/ /\ job[j].state = "running" /\ row.state \in {"queued", "held"}
            /\ row.token = job[j].token
         \/ /\ job[j].state \in {"queued", "held", "running"} /\ row.state \in Terminal
            /\ row.token \in {job[j].token, job[j].token + 1}
  PROVE  [Task!Next]_(Task!vars)
<1> DEFINE ph == [k \in Jobs |-> Phase(k)]
           fn == [k \in Jobs |-> job[k].token]
           newPhase == CASE row.state = "absent" -> "none"
                         [] row.state \in {"queued", "held"} -> "open"
                         [] row.state = "running" -> "owned"
                         [] OTHER -> "done"
<1>1. job'[j] = row /\ \A k \in Jobs \ {j} : job'[k] = job[k]
  OBVIOUS
<1>2. ph' = [ph EXCEPT ![j] = newPhase]
  BY <1>1 DEF Phase
<1>3. fn' = [fn EXCEPT ![j] = row.token]
  BY <1>1
<1>4. ph[j] = Phase(j) /\ fn[j] = job[j].token
  OBVIOUS
<1>5. CASE row.state = job[j].state /\ row.token = job[j].token
  <2>1. ph' = ph /\ fn' = fn
    BY <1>2, <1>3, <1>5 DEF Phase
  <2> QED
    BY <2>1 DEF Task!vars
<1>6. CASE job[j].state = "absent" /\ row.state = "queued" /\ row.token = job[j].token
  <2>1. ph[j] = "none" /\ ph' = [ph EXCEPT ![j] = "open"] /\ fn' = fn
    BY <1>2, <1>3, <1>4, <1>6 DEF Phase
  <2> QED
    BY <2>1 DEF Task!Next, Task!Submit
<1>7. CASE /\ job[j].state \in {"queued", "running"} /\ row.state = "running"
           /\ row.token = job[j].token + 1
  <2>1. /\ ph[j] \in {"open", "owned"} /\ ph' = [ph EXCEPT ![j] = "owned"]
        /\ fn' = [fn EXCEPT ![j] = fn[j] + 1]
    BY <1>2, <1>3, <1>4, <1>7 DEF Phase
  <2> QED
    BY <2>1 DEF Task!Next, Task!Acquire
<1>8. CASE /\ job[j].state = "running" /\ row.state \in {"queued", "held"}
           /\ row.token = job[j].token
  <2>1. ph[j] = "owned" /\ ph' = [ph EXCEPT ![j] = "open"] /\ fn' = fn
    <3>1. ph[j] = "owned" /\ newPhase = "open"
      BY <1>4, <1>8 DEF Phase
    <3>2. fn' = fn
      BY <1>3, <1>8
    <3> QED
      BY <1>2, <3>1, <3>2
  <2> QED
    BY <2>1 DEF Task!Next, Task!Yield
<1>9. CASE /\ job[j].state \in {"queued", "held", "running"} /\ row.state \in Terminal
           /\ row.token \in {job[j].token, job[j].token + 1}
  <2>1. /\ ph[j] \in {"open", "owned"} /\ ph' = [ph EXCEPT ![j] = "done"]
        /\ \E t \in {fn[j], fn[j] + 1} : fn' = [fn EXCEPT ![j] = t]
    BY <1>2, <1>3, <1>4, <1>9 DEF Phase, Terminal
  <2> QED
    BY <2>1 DEF Task!Next, Task!Close
<1> QED
  BY <1>5, <1>6, <1>7, <1>8, <1>9

\* A row nobody inserted was never claimed.
NeverClaimed == \A j \in Jobs : job[j].state = "absent" => job[j].token = 0

\* Only a claim takes a row to a token above 0.
LEMMA NeverClaimedStep == IInv /\ NeverClaimed /\ [Next]_vars => NeverClaimed'
<1> SUFFICES ASSUME IInv, NeverClaimed, [Next]_vars, NEW j \in Jobs, job'[j].state = "absent"
             PROVE  job[j].state = "absent" /\ job'[j].token = job[j].token
  BY DEF NeverClaimed
<1> DEFINE Same == job[j].state = "absent" /\ job'[j].token = job[j].token
<1>0. job \in [Jobs -> JobType] /\ job[j] \in JobType
  BY Types DEF IInv
<1>r. \A state, epoch, due :
        Released(job[j], state, epoch, due).state = state
  BY <1>0 DEF Released, JobType
<1>1. ASSUME NEW on \in Settings, SetControls(on) PROVE Same
  BY <1>0, <1>1 DEF SetControls, JobType
<1>2. ASSUME NEW k \in Jobs, Insert(k) PROVE Same
  BY <1>0, <1>2 DEF Insert, AbsentJob
<1>3. ASSUME NEW k \in Jobs, CancelPairJob(k) \/ CancelForRole(k) PROVE Same
  BY <1>0, <1>3 DEF CancelPairJob, CancelForRole, Released, JobType
<1>4. ASSUME NEW k \in Jobs, LeaseExpires(k) \/ BecomesDue(k) PROVE Same
  BY <1>0, <1>4 DEF LeaseExpires, BecomesDue, JobType
<1>5. ASSUME NEW w \in Workers, ClaimJob(w) \/ ReserveBuild(w) PROVE Same
  <2>1. PICK k \in Jobs : Take(w, k)
    BY <1>5 DEF ClaimJob, ReserveBuild, Soonest, Eligible, Builds
  <2>2. job'[k].state = "running" /\ (j /= k => job'[j] = job[j])
    BY <1>0, <2>1 DEF Take
  <2> QED
    BY <2>2
<1>6. ASSUME NEW w \in Workers, EndCheckpoint(w) \/ CompleteJob(w) \/ EndFail(w)
      PROVE  Same
  <2> DEFINE k == Current(w).job
  <2>1. \/ job' = job
        \/ \E state \in States \ {"absent"} : \E epoch, due :
              job' = [job EXCEPT ![k] = Released(job[k], state, epoch, due)]
    <3>1. CASE EndCheckpoint(w)
      <4>1. \/ job' = job
            \/ job' = [job EXCEPT ![k] = Released(job[k], "queued", worker[w].read.epoch, TRUE)]
            \/ job' = [job EXCEPT ![k] = Released(job[k], "held", worker[w].read.epoch, job[k].due)]
        BY <3>1 DEF EndCheckpoint
      <4>2. {"queued", "held"} \subseteq States \ {"absent"}
        BY DEF States
      <4> QED
        BY <4>1, <4>2, Zenon
    <3>2. CASE CompleteJob(w)
      BY <3>2 DEF CompleteJob, States
    <3>3. CASE EndFail(w)
      <4>1. FailedState(w) \in States \ {"absent"}
        BY DEF FailedState, States
      <4> QED
        BY <3>3, <4>1 DEF EndFail
    <3> QED
      BY <1>6, <3>1, <3>2, <3>3
  <2>2. CASE j = k
    BY <1>0, <1>r, <2>1, <2>2
  <2>3. CASE j /= k
    BY <1>0, <2>1, <2>3
  <2> QED
    BY <2>2, <2>3
<1>7. ASSUME NEW w \in Workers,
             \/ ReadControls(w) \/ ClaimNothing(w) \/ ReserveNothing(w) \/ HeartbeatLost(w)
             \/ BeginApply(w) \/ BeginCheckpoint(w) \/ BeginFail(w)
             \/ EndApply(w) \/ DropLostClaim(w) \/ Crash(w)
      PROVE  Same
  BY <1>7 DEF ReadControls, ClaimNothing, ReserveNothing, HeartbeatLost, BeginApply,
              BeginCheckpoint, BeginFail, EndApply, DropLostClaim, Crash
<1>8. CASE UNCHANGED vars
  BY <1>8 DEF vars
<1> QED
  BY <1>1, <1>2, <1>3, <1>4, <1>5, <1>6, <1>7, <1>8
     DEF Next, Administrate, Clock, Cycle, Run, Settle, Enqueue, EnqueueInternal

\* A job that is absent was never claimed.
LEMMA NeverClaimedHolds == Spec => []NeverClaimed
<1>1. Init => NeverClaimed
  BY DEF Init, NeverClaimed, AbsentJob
<1> QED
  BY <1>1, NeverClaimedStep, InductiveInvariant, PTL DEF Spec

\* The empty queue is the empty task list.
LEMMA InitRefines == Init => Task!Init
BY DEF Init, Task!Init, Phase, AbsentJob

\* A transaction's commit is a write of the newest execution.
LEMMA ApplyRefines ==
  ASSUME IInv, NEW w \in Workers, EndApply(w) PROVE [Task!Next]_(Task!vars)
<1> DEFINE j == Current(w).job
           ph == [k \in Jobs |-> Phase(k)]
           fn == [k \in Jobs |-> job[k].token]
<1>1. j \in Jobs /\ job[j].state = "running" /\ job[j].token = Current(w).token
  BY CurrentClaim DEF EndApply, IInv, TransactionOwnsRow, InTransaction
<1>2. ph[j] = "owned" /\ fn[j] = Current(w).token
  BY <1>1 DEF Phase
<1>3. ph' = ph /\ fn' = fn
  BY DEF EndApply, Phase
<1>4. CASE applied' = [applied EXCEPT ![j] = Current(w).token]
  BY <1>1, <1>2, <1>3, <1>4 DEF Task!Next, Task!Write
<1>5. CASE UNCHANGED applied
  BY <1>3, <1>5 DEF Task!vars
<1> QED
  BY <1>4, <1>5 DEF EndApply

\* Claims, and what an execution does with its row.
LEMMA ExecutionRefines ==
  ASSUME IInv, NEW w \in Workers,
         \/ ClaimJob(w) \/ ReserveBuild(w)
         \/ EndCheckpoint(w) \/ CompleteJob(w) \/ EndFail(w)
  PROVE  [Task!Next]_(Task!vars)
<1>0. job \in [Jobs -> JobType]
  BY Types DEF IInv
<1>s. ASSUME job' = job, applied' = applied PROVE [Task!Next]_(Task!vars)
  BY <1>s DEF Task!vars, Phase
<1>1. ASSUME NEW kinds \in SUBSET Jobs, NEW j \in Soonest(Eligible(w, kinds)), Take(w, j),
             applied' = applied
      PROVE  [Task!Next]_(Task!vars)
  <2> DEFINE row == [state |-> "running", owner |-> w, lease |-> "live",
                     token |-> job[j].token + 1, attempts |-> job[j].attempts + 1,
                     epoch |-> worker[w].view.epoch, due |-> job[j].due]
  <2>1. j \in Jobs /\ job[j].state \in {"queued", "running"}
    BY <1>1, TakeFacts
  <2>2. job' = [job EXCEPT ![j] = row] /\ row.state = "running" /\ row.token = job[j].token + 1
    BY <1>1 DEF Take
  <2> HIDE DEF row
  <2> QED
    BY <1>0, <1>1, <2>1, <2>2, TaskStep
<1>2. ASSUME InTransaction(w) \/ (worker[w].pc = "run" /\ FenceHolds(w)), applied' = applied,
             NEW state \in {"queued", "held", "succeeded", "failed"}, NEW epoch, NEW due,
             job' = [job EXCEPT ![Current(w).job] =
                       Released(job[Current(w).job], state, epoch, due)]
      PROVE  [Task!Next]_(Task!vars)
  <2> DEFINE j == Current(w).job
             row == Released(job[j], state, epoch, due)
  <2>1. j \in Jobs /\ job[j].state = "running" /\ job[j] \in JobType
    BY <1>2, OwnRow
  <2>2. row.state = state /\ row.token = job[j].token
    BY <2>1 DEF Released, JobType
  <2>3. state \in {"queued", "held"} \/ state \in Terminal
    BY <1>2 DEF Terminal
  <2> HIDE DEF row
  <2> QED
    BY <1>0, <1>2, <2>1, <2>2, <2>3, TaskStep DEF row
<1>3. CASE ClaimJob(w)
  BY <1>1, <1>3 DEF ClaimJob
<1>4. CASE ReserveBuild(w)
  <2>1. Builds \in SUBSET Jobs
    BY DEF Builds
  <2> QED
    BY <1>1, <1>4, <2>1 DEF ReserveBuild
<1>5. CASE EndCheckpoint(w)
  <2>1. InTransaction(w) /\ applied' = applied
    BY <1>5 DEF EndCheckpoint, InTransaction
  <2>2. \/ job' = job
        \/ job' = [job EXCEPT ![Current(w).job] =
                     Released(job[Current(w).job], "queued", worker[w].read.epoch, TRUE)]
        \/ job' = [job EXCEPT ![Current(w).job] =
                     Released(job[Current(w).job], "held", worker[w].read.epoch,
                              job[Current(w).job].due)]
    BY <1>5 DEF EndCheckpoint
  <2> QED
    BY <1>2, <1>s, <2>1, <2>2
<1>6. CASE CompleteJob(w)
  <2>1. worker[w].pc = "run" /\ applied' = applied
    BY <1>6 DEF CompleteJob
  <2>2. CASE FenceHolds(w) /\ ControlsHold(w)
    BY <1>2, <1>6, <2>1, <2>2 DEF CompleteJob
  <2>3. CASE ~(FenceHolds(w) /\ ControlsHold(w))
    BY <1>6, <1>s, <2>1, <2>3 DEF CompleteJob
  <2> QED
    BY <2>2, <2>3
<1>7. CASE EndFail(w)
  <2>1. InTransaction(w) /\ applied' = applied
    BY <1>7 DEF EndFail, InTransaction
  <2>2. FailedState(w) \in {"queued", "held", "succeeded", "failed"}
    BY DEF FailedState
  <2> QED
    BY <1>2, <1>7, <2>1, <2>2 DEF EndFail
<1> QED
  BY <1>3, <1>4, <1>5, <1>6, <1>7

\* Steps of the administrator, the API and the clock.
LEMMA OutsideRefines ==
  ASSUME IInv, NeverClaimed, Administrate \/ Clock PROVE [Task!Next]_(Task!vars)
<1>0. job \in [Jobs -> JobType] /\ \A j \in Jobs : job[j] \in JobType
  BY Types DEF IInv
<1>1. ASSUME NEW on \in Settings, SetControls(on) PROVE [Task!Next]_(Task!vars)
  <2>1. \A j \in Jobs : Phase(j)' = Phase(j) /\ job'[j].token = job[j].token
    <3> SUFFICES ASSUME NEW j \in Jobs
                 PROVE  Phase(j)' = Phase(j) /\ job'[j].token = job[j].token
      OBVIOUS
    <3>1. \/ job'[j] = job[j]
          \/ /\ job[j].state \in {"queued", "held"} /\ job'[j].state \in {"queued", "held"}
             /\ job'[j].token = job[j].token
      BY <1>0, <1>1 DEF SetControls, JobType
    <3> QED
      BY <3>1 DEF Phase
  <2>2. applied' = applied
    BY <1>1 DEF SetControls
  <2> QED
    BY <2>1, <2>2 DEF Task!vars
<1>2. ASSUME NEW j \in Jobs, Insert(j) PROVE [Task!Next]_(Task!vars)
  <2> DEFINE row == [AbsentJob EXCEPT !.state = "queued", !.epoch = controls.epoch, !.due = TRUE]
  <2>1. job[j].state = "absent" /\ job' = [job EXCEPT ![j] = row] /\ applied' = applied
    BY <1>2 DEF Insert
  <2>2. row.state = "queued" /\ row.token = 0 /\ job[j].token = 0
    BY <2>1 DEF AbsentJob, NeverClaimed
  <2> HIDE DEF row
  <2> QED
    BY <1>0, <2>1, <2>2, TaskStep
<1>3. ASSUME NEW j \in Jobs, CancelPairJob(j) PROVE [Task!Next]_(Task!vars)
  <2> DEFINE row == [Released(job[j], "cancelled", job[j].epoch, job[j].due)
                     EXCEPT !.token = job[j].token + 1]
  <2>1. /\ job[j].state \in {"queued", "held", "running"} /\ applied' = applied
        /\ job' = [job EXCEPT ![j] = row]
    BY <1>3 DEF CancelPairJob, Cancellable
  <2>2. row.state \in Terminal /\ row.token \in {job[j].token, job[j].token + 1}
    BY <1>0 DEF Released, JobType, Terminal
  <2> HIDE DEF row
  <2> QED
    BY <1>0, <2>1, <2>2, TaskStep
<1>4. ASSUME NEW j \in Jobs, CancelForRole(j) PROVE [Task!Next]_(Task!vars)
  <2> DEFINE row == Released(job[j], "cancelled", job[j].epoch, job[j].due)
  <2>1. /\ job[j].state \in {"queued", "held", "running"} /\ applied' = applied
        /\ job' = [job EXCEPT ![j] = row]
    BY <1>4 DEF CancelForRole, Cancellable
  <2>2. row.state \in Terminal /\ row.token \in {job[j].token, job[j].token + 1}
    BY <1>0 DEF Released, JobType, Terminal
  <2> HIDE DEF row
  <2> QED
    BY <1>0, <2>1, <2>2, TaskStep
<1>5. ASSUME NEW j \in Jobs, LeaseExpires(j) \/ BecomesDue(j) PROVE [Task!Next]_(Task!vars)
  <2>1. \A k \in Jobs : Phase(k)' = Phase(k) /\ job'[k].token = job[k].token
    BY <1>0, <1>5 DEF LeaseExpires, BecomesDue, Phase, JobType
  <2>2. applied' = applied
    BY <1>5 DEF LeaseExpires, BecomesDue
  <2> QED
    BY <2>1, <2>2 DEF Task!vars
<1> QED
  BY <1>1, <1>2, <1>3, <1>4, <1>5 DEF Administrate, Clock, Enqueue, EnqueueInternal

\* Every action of the queue is one of FencedTask, or a stutter.
LEMMA NextRefines == IInv /\ NeverClaimed /\ [Next]_vars => [Task!Next]_(Task!vars)
<1> SUFFICES ASSUME IInv, NeverClaimed, [Next]_vars PROVE [Task!Next]_(Task!vars)
  OBVIOUS
<1>s. ASSUME job' = job, applied' = applied PROVE [Task!Next]_(Task!vars)
  BY <1>s DEF Task!vars, Phase
<1>1. CASE UNCHANGED vars
  BY <1>1, <1>s DEF vars
<1>2. CASE Administrate \/ Clock
  BY <1>2, OutsideRefines
<1>3. ASSUME NEW w \in Workers, Cycle(w) \/ Run(w) \/ Crash(w)
      PROVE  [Task!Next]_(Task!vars)
  <2>1. \/ job' = job /\ applied' = applied
        \/ EndApply(w)
        \/ ClaimJob(w) \/ ReserveBuild(w)
        \/ EndCheckpoint(w) \/ CompleteJob(w) \/ EndFail(w)
    BY <1>3 DEF Cycle, Run, Settle, ReadControls, ClaimNothing, ReserveNothing,
                HeartbeatLost, BeginApply, BeginCheckpoint, BeginFail, DropLostClaim, Crash
  <2> QED
    BY <1>s, <2>1, ApplyRefines, ExecutionRefines
<1> QED
  BY <1>1, <1>2, <1>3 DEF Next

\* Refinement: whatever workers, administrators, the clock and crashes do, each
\* job keeps the promise of FencedTask to the handlers that run on top of it.
THEOREM Refinement == Spec => ImplementsFencedTask
<1>1. Spec => [](IInv /\ NeverClaimed)
  BY InductiveInvariant, NeverClaimedHolds, PTL
<1> QED
  BY <1>1, InitRefines, NextRefines, PTL DEF Spec, ImplementsFencedTask, Task!Spec
-----------------------------------------------------------------------------
(* The attempt ledger *)

\* Closing attempts keeps their number and their tokens, and leaves no attempt
\* open whose token it was asked to close.
LEMMA CloseIs ==
  ASSUME tries \in [Jobs -> Seq(TryType)], NEW j \in Jobs, NEW tokens,
         NEW outcome \in Outcomes \ {"open"}
  PROVE  LET closed == Close(j, tokens, outcome)[j]
         IN /\ closed \in Seq(TryType) /\ Len(closed) = Len(tries[j])
            /\ DOMAIN closed = DOMAIN tries[j]
            /\ \A i \in DOMAIN closed :
                 /\ closed[i].token = tries[j][i].token
                 /\ closed[i].outcome = "open" =>
                      tries[j][i].outcome = "open" /\ tries[j][i].token \notin tokens
<1> DEFINE old == tries[j]
           new == [i \in DOMAIN old |->
                     IF old[i].outcome = "open" /\ old[i].token \in tokens
                     THEN [old[i] EXCEPT !.outcome = outcome] ELSE old[i]]
           n == Len(old)
<1>1. n \in Nat /\ DOMAIN old = 1 .. n /\ \A i \in 1 .. n : old[i] \in TryType
  BY LenProperties, ElementOfSeq
<1>2. Close(j, tokens, outcome)[j] = new
  BY DEF Close
<1>3. new \in [1 .. n -> TryType]
  BY <1>1 DEF TryType
<1>4. new \in Seq(TryType) /\ DOMAIN new = 1 .. n
  BY <1>1, <1>3, SeqDef
<1>5. Len(new) = n
  BY <1>1, <1>4, LenProperties
<1>6. ASSUME NEW i \in 1 .. n
      PROVE  /\ new[i].token = old[i].token
             /\ new[i].outcome = "open" => old[i].outcome = "open" /\ old[i].token \notin tokens
  BY <1>1, <1>6 DEF TryType
<1> QED
  BY <1>1, <1>2, <1>4, <1>5, <1>6

\* A row that keeps its count of attempts keeps its ledger true when the ledger
\* is left alone and the row goes on running or stays cut off, or when the newest
\* attempt is closed with it.
LEMMA LedgerKept ==
  ASSUME IInv, LedgersTell, NEW j \in Jobs, NEW row \in JobType,
         job' = [job EXCEPT ![j] = row], row.attempts = job[j].attempts,
         \/ /\ tries' = tries
            /\ \/ job[j].state \notin {"running", "cancelled"}
               \/ row.state \in {"running", "cancelled"}
         \/ /\ job[j].state /= "cancelled"
            /\ \E outcome \in Outcomes \ {"open"} : \E tokens \in SUBSET Tokens :
                  job[j].token \in tokens /\ tries' = Close(j, tokens, outcome)
  PROVE  LedgersTell'
<1>1. /\ job \in [Jobs -> JobType] /\ job'[j] = row /\ tries \in [Jobs -> Seq(TryType)]
      /\ \A k \in Jobs \ {j} : job'[k] = job[k] /\ tries'[k] = tries[k]
      /\ job[j].state /= "cancelled" => job[j].token = job[j].attempts
  BY RowFacts DEF Close
<1>2. \A k \in Jobs : LedgerTells(job[k], tries[k])
  BY DEF LedgersTell
<1>3. LedgerTells(row, tries'[j])
  <2>1. CASE /\ tries' = tries
             /\ \/ job[j].state \notin {"running", "cancelled"}
                \/ row.state \in {"running", "cancelled"}
    BY <1>2, <2>1 DEF LedgerTells
  <2>2. CASE /\ job[j].state /= "cancelled"
             /\ \E outcome \in Outcomes \ {"open"} : \E tokens \in SUBSET Tokens :
                   job[j].token \in tokens /\ tries' = Close(j, tokens, outcome)
    <3>1. PICK outcome \in Outcomes \ {"open"}, tokens \in SUBSET Tokens :
             job[j].token \in tokens /\ tries' = Close(j, tokens, outcome)
      BY <2>2
    <3> DEFINE new == tries'[j]
    <3>2. /\ Len(new) = Len(tries[j]) /\ DOMAIN new = DOMAIN tries[j]
          /\ \A i \in DOMAIN new :
               /\ new[i].token = tries[j][i].token
               /\ new[i].outcome = "open" =>
                    tries[j][i].outcome = "open" /\ tries[j][i].token \notin tokens
      BY <1>1, <3>1, CloseIs
    <3>3. Len(new) = row.attempts
      BY <1>2, <3>2 DEF LedgerTells
    <3>4. ASSUME NEW i \in DOMAIN new PROVE new[i].token = i /\ new[i].outcome /= "open"
      <4>1. tries[j][i].token = i /\ (tries[j][i].outcome = "open" => i = job[j].attempts)
        BY <1>2, <3>2 DEF LedgerTells
      <4>2. job[j].attempts \in tokens
        BY <1>1, <2>2, <3>1
      <4> QED
        BY <3>2, <4>1, <4>2
    <3> QED
      BY <3>3, <3>4 DEF LedgerTells
  <2> QED
    BY <2>1, <2>2
<1> QED
  BY <1>1, <1>2, <1>3 DEF LedgersTell

\* A claim closes what the last execution left open and opens its own attempt.
LEMMA TakeTells ==
  ASSUME IInv, LedgersTell, NEW w \in Workers, NEW j \in Jobs, Take(w, j),
         job[j].state \in {"queued", "running"}
  PROVE  LedgersTell'
<1> DEFINE old == tries[j]
           closed == Close(j, Tokens, "lease_expired")[j]
           open == [token |-> job[j].token + 1, outcome |-> "open"]
           new == Append(closed, open)
           n == job[j].attempts
<1>1. /\ job \in [Jobs -> JobType] /\ tries \in [Jobs -> Seq(TryType)]
      /\ job[j] \in JobType /\ job[j].token = n /\ n \in Tokens
      /\ n \in 0 .. MaxAttempts /\ n \in Nat
  <2>1. /\ job \in [Jobs -> JobType] /\ tries \in [Jobs -> Seq(TryType)]
        /\ job[j] \in JobType /\ job[j].token = n
    BY RowFacts
  <2> QED
    BY <2>1, AttemptsAssumption DEF JobType, Tokens
<1>2. LedgerTells(job[j], old) /\ \A k \in Jobs : LedgerTells(job[k], tries[k])
  BY DEF LedgersTell
<1>3. "lease_expired" \in Outcomes \ {"open"}
  BY DEF Outcomes
<1>4. /\ closed \in Seq(TryType) /\ Len(closed) = n /\ DOMAIN closed = DOMAIN old
      /\ \A i \in DOMAIN closed :
           /\ closed[i].token = i
           /\ closed[i].outcome = "open" => old[i].outcome = "open" /\ old[i].token \notin Tokens
  BY <1>1, <1>2, <1>3, CloseIs DEF LedgerTells
<1>5. \A i \in DOMAIN closed : closed[i].outcome /= "open"
  BY <1>1, <1>2, <1>4 DEF LedgerTells
<1>6. DOMAIN closed = 1 .. n
  BY <1>4, LenProperties
<1>7. open \in TryType
  <2>1. n + 1 \in Tokens
    BY <1>1, AttemptsAssumption DEF Tokens
  <2> QED
    BY <1>1, <2>1 DEF TryType, Outcomes
<1>8. /\ Len(new) = n + 1 /\ new[n + 1] = open /\ DOMAIN new = 1 .. n + 1
      /\ \A i \in 1 .. n : new[i] = closed[i]
  <2>1. /\ new \in Seq(TryType) /\ Len(new) = n + 1
        /\ new[n + 1] = open /\ \A i \in 1 .. n : new[i] = closed[i]
    BY <1>4, <1>7, AppendProperties
  <2> QED
    BY <2>1, LenProperties
<1>9. job'[j].state = "running" /\ job'[j].attempts = n + 1
  BY <1>1 DEF Take
<1>10. tries'[j] = new /\ \A k \in Jobs \ {j} : tries'[k] = tries[k] /\ job'[k] = job[k]
  BY <1>1 DEF Take, Close
<1>11. ASSUME NEW i \in 1 .. n + 1
       PROVE  new[i].token = i /\ (new[i].outcome = "open" => i = n + 1)
  <2>1. CASE i = n + 1
    BY <1>1, <1>8, <2>1
  <2>2. CASE i /= n + 1
    <3>1. i \in 1 .. n
      BY <1>1, <2>2
    <3> QED
      BY <1>4, <1>5, <1>6, <1>8, <3>1
  <2> QED
    BY <2>1, <2>2
<1> HIDE DEF new
<1>12. LedgerTells(job'[j], tries'[j])
  BY <1>8, <1>9, <1>10, <1>11 DEF LedgerTells
<1> QED
  BY <1>2, <1>10, <1>12 DEF LedgersTell

\* The statements that let go of a row close the attempt of their own execution.
LEMMA LetGoTells ==
  ASSUME IInv, LedgersTell, NEW w \in Workers,
         InTransaction(w) \/ (worker[w].pc = "run" /\ FenceHolds(w)),
         NEW state \in States, NEW epoch \in 0 .. MaxEpoch, NEW due \in BOOLEAN,
         NEW outcome \in Outcomes \ {"open"},
         job' = [job EXCEPT ![Current(w).job] = Released(job[Current(w).job], state, epoch, due)],
         tries' = Close(Current(w).job, {Current(w).token}, outcome)
  PROVE  LedgersTell'
<1> DEFINE j == Current(w).job
           row == Released(job[j], state, epoch, due)
<1>1. j \in Jobs /\ job[j] \in JobType /\ job[j].state = "running"
  BY OwnRow
<1>2. row \in JobType /\ row.attempts = job[j].attempts
  BY <1>1, ReleasedType
<1>3. job[j].token = Current(w).token
  BY DEF IInv, TransactionOwnsRow, FenceHolds
<1>4. {Current(w).token} \in SUBSET Tokens /\ job[j].token \in {Current(w).token}
  BY <1>1, <1>3 DEF JobType
<1> HIDE DEF row
<1>5. job' = [job EXCEPT ![j] = row]
  BY DEF row
<1> QED
  BY <1>1, <1>2, <1>4, <1>5, LedgerKept

\* Every step keeps the ledgers true.
LEMMA LedgersTellStep == IInv /\ LedgersTell /\ NeverClaimed /\ [Next]_vars => LedgersTell'
<1> SUFFICES ASSUME IInv, LedgersTell, NeverClaimed, [Next]_vars PROVE LedgersTell'
  OBVIOUS
<1>s. ASSUME UNCHANGED <<job, tries>> PROVE LedgersTell'
  BY <1>s DEF LedgersTell
<1>1. ASSUME NEW on \in Settings, SetControls(on) PROVE LedgersTell'
  <2>1. ASSUME NEW j \in Jobs
        PROVE  /\ job'[j].attempts = job[j].attempts
               /\ job[j].state \in {"running", "cancelled"} => job'[j] = job[j]
    <3>1. job[j] \in JobType
      BY RowFacts
    <3> QED
      BY <1>1, <3>1 DEF SetControls, JobType
  <2>2. tries' = tries
    BY <1>1 DEF SetControls
  <2>3. ASSUME NEW j \in Jobs PROVE LedgerTells(job'[j], tries[j])
    <3>1. LedgerTells(job[j], tries[j])
      BY DEF LedgersTell
    <3> QED
      BY <2>1, <3>1 DEF LedgerTells
  <2> QED
    BY <2>2, <2>3 DEF LedgersTell
<1>2. ASSUME NEW j \in Jobs, Insert(j) PROVE LedgersTell'
  <2> DEFINE row == [AbsentJob EXCEPT !.state = "queued", !.epoch = controls.epoch, !.due = TRUE]
  <2>1. job' = [job EXCEPT ![j] = row] /\ tries' = tries /\ job[j].state = "absent"
    BY <1>2 DEF Insert
  <2>2. 0 \in Tokens /\ 0 \in 0 .. MaxAttempts /\ controls.epoch \in 0 .. MaxEpoch
    BY RowFacts, AttemptsAssumption DEF Tokens
  <2>3. row \in JobType /\ row.attempts = 0
    BY <2>2, BoundsAssumption DEF AbsentJob, JobType, States
  <2>4. job[j].attempts = 0
    BY <2>1, RowFacts DEF NeverClaimed
  <2> HIDE DEF row
  <2> QED
    BY <2>1, <2>3, <2>4, LedgerKept
<1>3. ASSUME NEW j \in Jobs, CancelPairJob(j) PROVE LedgersTell'
  <2> DEFINE gone == Released(job[j], "cancelled", job[j].epoch, job[j].due)
             row == [gone EXCEPT !.token = job[j].token + 1]
  <2>1. job[j] \in JobType /\ job[j].token = job[j].attempts
    BY <1>3, RowFacts DEF CancelPairJob, Cancellable
  <2>2. gone \in JobType /\ gone.attempts = job[j].attempts /\ gone.state = "cancelled"
    BY <2>1 DEF Released, JobType, States
  <2>3. job[j].token + 1 \in Tokens
    BY <2>1, AttemptsAssumption DEF JobType, Tokens
  <2>4. row \in JobType /\ row.attempts = job[j].attempts /\ row.state = "cancelled"
    BY <2>2, <2>3 DEF JobType
  <2>5. job' = [job EXCEPT ![j] = row] /\ tries' = tries
    BY <1>3 DEF CancelPairJob
  <2> HIDE DEF row
  <2> QED
    BY <2>4, <2>5, LedgerKept
<1>4. ASSUME NEW j \in Jobs, CancelForRole(j) PROVE LedgersTell'
  <2> DEFINE row == Released(job[j], "cancelled", job[j].epoch, job[j].due)
  <2>1. job[j] \in JobType /\ job[j].state /= "cancelled" /\ job[j].token \in Tokens
    BY <1>4, RowFacts DEF CancelForRole, Cancellable, JobType
  <2>2. row \in JobType /\ row.attempts = job[j].attempts
    BY <2>1 DEF Released, JobType, States
  <2>3. job' = [job EXCEPT ![j] = row] /\ tries' = Close(j, Tokens, "held")
    BY <1>4 DEF CancelForRole
  <2>4. "held" \in Outcomes \ {"open"} /\ Tokens \in SUBSET Tokens
    BY DEF Outcomes
  <2> HIDE DEF row
  <2> QED
    BY <2>1, <2>2, <2>3, <2>4, LedgerKept
<1>5. ASSUME NEW j \in Jobs, LeaseExpires(j) \/ BecomesDue(j) PROVE LedgersTell'
  <2>1. PICK row \in JobType : /\ job' = [job EXCEPT ![j] = row]
                               /\ row.attempts = job[j].attempts /\ row.state = job[j].state
    <3>1. job[j] \in JobType /\ "expired" \in {"none", "live", "expired"}
      BY RowFacts
    <3>2. /\ [job[j] EXCEPT !.lease = "expired"] \in JobType
          /\ [job[j] EXCEPT !.due = TRUE] \in JobType
      BY <3>1 DEF JobType
    <3> QED
      BY <1>5, <3>1, <3>2 DEF LeaseExpires, BecomesDue, JobType
  <2>2. tries' = tries
    BY <1>5 DEF LeaseExpires, BecomesDue
  <2> QED
    BY <2>1, <2>2, LedgerKept
<1>6. ASSUME NEW w \in Workers, ClaimJob(w) \/ ReserveBuild(w) PROVE LedgersTell'
  <2>1. PICK j \in Jobs : Take(w, j) /\ job[j].state \in {"queued", "running"}
    BY <1>6 DEF ClaimJob, ReserveBuild, Soonest, Eligible, Builds, Claimable
  <2> QED
    BY <2>1, TakeTells
<1>7. ASSUME NEW w \in Workers, EndCheckpoint(w) PROVE LedgersTell'
  <2> DEFINE claim == Current(w)
             read == worker[w].read
  <2>1. InTransaction(w) /\ read.epoch \in 0 .. MaxEpoch
    BY <1>7, Types DEF IInv, WorkerType, Controls, EndCheckpoint, InTransaction
  <2>2. claim.job \in Jobs /\ job[claim.job].due \in BOOLEAN
    BY <2>1, OwnRow DEF JobType
  <2>3. /\ {"queued", "held"} \subseteq States /\ {"retry", "held"} \subseteq Outcomes \ {"open"}
        /\ TRUE \in BOOLEAN
    BY DEF States, Outcomes
  <2>4. CASE UNCHANGED <<job, tries>>
    BY <1>s, <2>4
  <2>5. CASE /\ job' = [job EXCEPT ![claim.job] = Released(job[claim.job], "queued", read.epoch, TRUE)]
             /\ tries' = Close(claim.job, {claim.token}, "retry")
    <3>1. "queued" \in States /\ "retry" \in Outcomes \ {"open"}
      BY <2>3
    <3> QED
      BY <2>1, <2>3, <2>5, <3>1, LetGoTells
  <2>6. CASE /\ job' = [job EXCEPT ![claim.job] =
                          Released(job[claim.job], "held", read.epoch, job[claim.job].due)]
             /\ tries' = Close(claim.job, {claim.token}, "held")
    <3>1. "held" \in States /\ "held" \in Outcomes \ {"open"}
      BY <2>3
    <3> QED
      BY <2>1, <2>2, <2>6, <3>1, LetGoTells
  <2> QED
    BY <1>7, <2>4, <2>5, <2>6 DEF EndCheckpoint
<1>8. ASSUME NEW w \in Workers, CompleteJob(w) PROVE LedgersTell'
  <2> DEFINE claim == Current(w)
  <2>1. CASE FenceHolds(w) /\ ControlsHold(w)
    <3>1. worker[w].pc = "run"
      BY <1>8 DEF CompleteJob
    <3>2. job[claim.job].due \in BOOLEAN /\ job[claim.job].epoch \in 0 .. MaxEpoch
      BY <2>1, <3>1, OwnRow DEF JobType
    <3>3. "succeeded" \in States /\ "succeeded" \in Outcomes \ {"open"}
      BY DEF States, Outcomes
    <3>4. /\ job' = [job EXCEPT ![claim.job] = Released(job[claim.job], "succeeded",
                                                  job[claim.job].epoch, job[claim.job].due)]
          /\ tries' = Close(claim.job, {claim.token}, "succeeded")
      BY <1>8, <2>1 DEF CompleteJob
    <3> QED
      BY <2>1, <3>1, <3>2, <3>3, <3>4, LetGoTells
  <2>2. CASE ~(FenceHolds(w) /\ ControlsHold(w))
    BY <1>8, <1>s, <2>2 DEF CompleteJob
  <2> QED
    BY <2>1, <2>2
<1>9. ASSUME NEW w \in Workers, EndFail(w) PROVE LedgersTell'
  <2> DEFINE j == Current(w).job
             state == FailedState(w)
             due == job[j].due /\ state /= "queued"
  <2>1. InTransaction(w) /\ worker[w].read.epoch \in 0 .. MaxEpoch
    BY <1>9, Types DEF IInv, WorkerType, Controls, EndFail, InTransaction
  <2>2. state \in States /\ AttemptOutcome(state) \in Outcomes \ {"open"} /\ due \in BOOLEAN
    BY DEF FailedState, States, AttemptOutcome, Outcomes
  <2>3. /\ job' = [job EXCEPT ![j] = Released(job[j], state, worker[w].read.epoch, due)]
        /\ tries' = Close(j, {Current(w).token}, AttemptOutcome(state))
    BY <1>9 DEF EndFail
  <2> HIDE DEF state, due
  <2> QED
    BY <2>1, <2>2, <2>3, LetGoTells
<1>10. ASSUME NEW w \in Workers,
              \/ ReadControls(w) \/ ClaimNothing(w) \/ ReserveNothing(w) \/ HeartbeatLost(w)
              \/ BeginApply(w) \/ BeginCheckpoint(w) \/ BeginFail(w)
              \/ EndApply(w) \/ DropLostClaim(w) \/ Crash(w)
       PROVE  LedgersTell'
  <2>1. UNCHANGED <<job, tries>>
    BY <1>10 DEF ReadControls, ClaimNothing, ReserveNothing, HeartbeatLost, BeginApply,
                 BeginCheckpoint, BeginFail, EndApply, DropLostClaim, Crash
  <2> QED
    BY <1>s, <2>1
<1>11. CASE UNCHANGED vars
  <2>1. UNCHANGED <<job, tries>>
    BY <1>11 DEF vars
  <2> QED
    BY <1>s, <2>1
<1> QED
  BY <1>1, <1>2, <1>3, <1>4, <1>5, <1>6, <1>7, <1>8, <1>9, <1>10, <1>11
     DEF Next, Administrate, Clock, Cycle, Run, Settle, Enqueue, EnqueueInternal

\* The ledgers are true in every reachable state.
LEMMA LedgersTellHolds == Spec => []LedgersTell
<1>1. Init => LedgersTell
  <2> SUFFICES ASSUME Init, NEW j \in Jobs PROVE LedgerTells(job[j], tries[j])
    BY DEF LedgersTell
  <2>1. tries[j] = <<>> /\ job[j].attempts = 0
    BY DEF Init, AbsentJob
  <2>2. Len(<<>>) = 0 /\ DOMAIN <<>> = {}
    BY EmptySeq
  <2> QED
    BY <2>1, <2>2 DEF LedgerTells
<1> QED
  BY <1>1, LedgersTellStep, InductiveInvariant, NeverClaimedHolds, PTL DEF Spec

\* The attempt ledger tells the truth about the job: one row per claim, in the
\* order of the tokens, and a row is open only for the execution that owns the
\* job, or for the one cancel_pair_job cut off.
THEOREM LedgerHolds == Spec => []LedgerMatchesJobs
<1>1. IInv /\ LedgersTell => LedgerMatchesJobs
  <2> SUFFICES ASSUME IInv, LedgersTell, NEW j \in Jobs
               PROVE  /\ Len(tries[j]) = job[j].attempts
                      /\ \A i, k \in DOMAIN tries[j] :
                           i < k => tries[j][i].token < tries[j][k].token
                      /\ \A i \in DOMAIN tries[j] :
                           tries[j][i].outcome = "open" =>
                             \/ job[j].state = "running" /\ tries[j][i].token = job[j].token
                             \/ job[j].state = "cancelled" /\ i = Len(tries[j])
    BY DEF LedgerMatchesJobs
  <2>1. LedgerTells(job[j], tries[j])
    BY DEF LedgersTell
  <2>2. job[j].state /= "cancelled" => job[j].token = job[j].attempts
    BY RowFacts
  <2>3. ASSUME NEW i \in DOMAIN tries[j], tries[j][i].outcome = "open"
        PROVE  \/ job[j].state = "running" /\ tries[j][i].token = job[j].token
               \/ job[j].state = "cancelled" /\ i = Len(tries[j])
    BY <2>1, <2>2, <2>3 DEF LedgerTells
  <2>4. \A i, k \in DOMAIN tries[j] : i < k => tries[j][i].token < tries[j][k].token
    BY <2>1 DEF LedgerTells
  <2>5. Len(tries[j]) = job[j].attempts
    BY <2>1 DEF LedgerTells
  <2> QED
    BY <2>3, <2>4, <2>5
<1> QED
  BY <1>1, InductiveInvariant, LedgersTellHolds, PTL

=============================================================================
