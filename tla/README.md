# Submissions V2 and the outreach sends: a TLA+ verification

The repository `raydar-agent-dashboard` hosts the pages and serverless tools of an agent team.
Most of it shows data that other systems own. Two parts have protocols of their own:
**Submissions V2**, a Postgres schema that decides what happens to a candidate-role pair after a
candidate replied, with a worker that builds resumes and copies the candidate list, a purge executor,
and the commands of recruiters, all on the same rows; and the **outreach sends** of ParaAI, which
e-mail candidates and cannot take an e-mail back. This project models them, checks them with TLC
and proves their safety properties with TLAPS.

Line references are to files under `src/`; `repository.mjs`, `pipeline.mjs` and `state.mjs` are in
`api/submissions-v2/_lib`, migrations in `migrations/submissions-v2`, `runner.mjs`,
`worker-handlers.mjs` and `server.mjs` in `submissions-v2-worker`, `purge.mjs` in
`submissions-v2-purge`, `outreach*.mjs` in `api/paraai/_lib`.

## 1. The system

### 1.1 Submissions V2

| Part | State it keeps | Operations | Module |
| --- | --- | --- | --- |
| Runtime controls | one row `runtime_controls`: five flags and an epoch | `set_runtime_controls`, the triggers that hold and requeue jobs | `JobQueue` |
| Job queue | `jobs` (state, owner, lease, fencing token, attempts, epoch), `job_attempts` | `enqueue`, `claim_jobs`, `renew_job_lease`, `checkpoint_job`, `complete_job`, `fail_job`, two cancellations | `JobQueue` |
| Worker | what its process holds: the controls it read, the claims of this cycle | `workerCycle`, `runClaimedJob`, `assertWorkerFence` | `JobQueue` |
| Replies | `source_events`, `source_offered_roles`, `first_response_claims`, the reviews of unresolved replies | intake, claims, `classify_email_reply`, `bindUnresolvedSignal`, `dismissUnresolvedSignal`, retry, direct additions | `FirstResponse` |
| Candidate-role pair | `candidate_role_pairs`, `review_items`, `case_deletions` | classification, the recruiter's commands, role index, rechecks, proofs, deletion, restoration | `PairWorkflow` |
| Resume preparation | `resume_generations`, `resume_artifacts` | `startResumeGeneration`, `promoteResumeArtifacts`, failure routing, the recovery loop | `PairWorkflow` |
| Notification outbox | `notification_outbox` | admission of replies, `claimNotifications`, `deliverNotification`, `settleNotification` | `NotificationOutbox` |
| Private objects | `private_object_reservations`, `upload_reservations`, `quarantined_supplements`, the blob store | reserve, renew, put, commit, upload, accept, the routine lanes of the purge | `PrivateObjects` |
| Purge executor | purge leases of `case_deletions`, the blob store | delete, restore, claim, plan, remove, finalize, release | `CasePurge` |
| Candidate index | `candidate_index`, `candidate_index_suppressions`, its row of `source_cursors` | `index_candidates`, `upsertCandidateIndex`, `finalizeCandidateIndexCycle` | `CandidateIndex` |
| Other sources | `source_cursors`, `source_events` | role index, curated lists, inboxes, proofs | not modelled |
| Worker schedule | the recurring jobs | `scheduleTick`, `scheduleSequenceInbox` | not modelled |
| Commands | `api_commands`: idempotency keys and answers | `command` | not modelled |
| Classifier, models, collector, renderer | none | text in, text out | inputs of `FirstResponse` and `PairWorkflow` |
| HTTP API, presentation, pages | none | session and origin checks, parsing, presentation | not modelled |

How they interact. The API and the worker share nothing but the database. Every mutation is one
transaction that locks the rows it needs; a command on a pair carries the `state_version` the
recruiter saw (`lockPair`) and every change of a pair advances it by one. The API enqueues jobs; the
worker claims them with a lease, and its handlers write through transactions that assert the job's
fence (`assertWorkerFence`) and, for a build, the generation's (`assertGenerationFence`). A build
remembers the version of the pair it was started for. Announcements are rows that the transaction
of a reply inserts and another job posts to Slack, inside a transaction. Database triggers and
deferred constraints are a second line: `assert_pair_review_consistency`,
`assert_pair_artifact_set`, `notification_outbox_lease_check`.

What is hard here, and what makes each part correct:

* **Takeover.** A worker that is slow is not dead. Its job is claimed again, and both run the handler.
  Correct: only the newest execution of a running job writes, and the ledger can tell the attempts apart.
* **Controls.** An administrator turns a flag off at any moment. Correct: no handler commits under
  controls that changed since its worker read them; a job is held exactly while its control is off.
* **Crashes.** A worker dies between two statements, or between the work and `complete_job`. Correct:
  the job is run again or ends; nothing stays claimed, active or in sending for ever.
* **Who answered first.** An e-mail is delivered by a push and by jobs that reconcile; two replies,
  a recruiter and a curated list may open the same case. Correct: the one that holds the claim opens
  it, it is announced once, a reply nobody could place stays in Review, and no claim outlives its use.
* **Stale work.** A recruiter corrects, marks, deletes or regenerates while a resume is being built.
  Correct: the build publishes only for the decision it was asked for.
* **Two tables, one fact.** Reviews, artifacts and the workflow state say the same thing.
* **Slack.** A post cannot be taken back and its answer may be lost. Correct: at most one post, none
  about a deleted case, and no announcement forgotten.
* **Two stores.** No transaction covers a row and its blob. Correct: what was committed or may be
  restored is not deleted, nothing stored is forgotten, and what a deletion promised to delete leaves.
* **A list that moves.** The candidate list is read page by page, over several jobs, while it
  changes; at the end whatever was not read is deactivated. Correct: who stayed where he was is not
  taken for missing, who was purged does not come back.

`PROJECT.json` lists these at the lines where they bite ("hazards"), with the properties that cover
each; those no property covers say why.

### 1.2 ParaAI: sending outreach

State: one stored row per candidate with a record per interview request (`out`), a lock per
candidate, revisions that refuse a save on stale state. Operations: `processMatchRequest` (the
send path), `reconcileQueuedMailroomMatches`, and deliveries through Gmail (searched by a marker)
or the Mailroom (a queue with one row per request). Hard: a hand-off whose answer is lost, or that
arrives after its caller gave up; a sender that dies under the lock; the choice of the lane made
again; any save refused. Correct: one e-mail about a request, nothing recorded as sent that was
not, one open conversation of a candidate, a queued send settled when ticks reach its candidate.
Modelled in `Outreach`.

### 1.3 The rest of the repository

Not modelled: Submissions V1 (the rollback surface), the rest of ParaAI (`api/paraai`, eighty
thousand lines of queues and receipts over a key-value store), sequence booking protection
(`api/seq`), applicants, the reply inbox, activity and emails, sourcing, the status, health, revenue
and roster dashboards, authentication, the proxies to services outside the repository, and the
pages. Each has a row in `PROJECT.json` "components" with the reason.

## 2. Modules

```
FencedTask          what the queue promises to handlers (abstract)
  JobQueue          controls, jobs, attempts, workers            implements FencedTask
    MCJobQueue      instances         JobQueueProofs             theorems
FirstResponse       replies, claims, classification, bindings
  MCFirstResponse   instance          FirstResponseProofs        theorems
PairWorkflow        pair, reviews, builds, deletion
  MCPairWorkflow    instances         PairWorkflowProofs         theorems
NotificationOutbox  announcements, Slack, deletion
  MCNotificationOutbox  instances     NotificationOutboxProofs   theorems
PrivateObjects      rows and blobs, the routine purge lanes
  MCPrivateObjects  instances         PrivateObjectsProofs       theorems
RecoverableDeletion what a deletion promises (abstract)
  CasePurge         deletion, restoration, case purge lanes      implements RecoverableDeletion
    MCCasePurge     instances         CasePurgeProofs            theorems
CandidateIndex      the candidate list and its copy
  MCCandidateIndex  instance          CandidateIndexProofs       theorems
Outreach            the first e-mail about each request
  MCOutreach        instance          OutreachProofs             theorems
```

### JobQueue

Variables: `controls` is the row of `runtime_controls` (epoch, flags that are on); `job` the rows of
`jobs`; `tries` the rows of `job_attempts`, oldest first; `worker` what a worker process knows;
`applied` is a history variable, the token of the execution that last committed an effect;
`crashes` counts against a bound.

One action is one SQL statement, or one transaction whose locks last to its end. Where the code lets
another transaction in there are two actions: `BeginCheckpoint`/`EndCheckpoint` and
`BeginFail`/`EndFail` (the row of the job is locked, the controls are read without a lock, then the
row is written), and `BeginApply`/`EndApply` (a handler checks its fence, works, commits; share locks
on the job and the controls are held in between, which is why `Eligible`, the cancellations and
`SetControls` have `RowLocked` and `ControlsLocked` in their guards). `ReadControls`, `ClaimJob`,
`ReserveBuild` are the three calls of `workerCycle`. A lease is `live` or `expired` and expires at
any moment: there is no clock. A handler is anything that commits any number of times and then
returns or throws. A worker never checks that a lease is live except where the statement does.

### FencedTask

One promise per job: owned by one execution at a time, numbered by a token that only grows, written
only by the newest, never written or reopened after it closed. `JobQueue!ImplementsFencedTask` maps
`phase` to the state of the row, `fence` to its token and `written` to `applied`.

### FirstResponse

How a reply becomes cases, for any number of candidates, roles and replies; what happens to a case
afterwards is `PairWorkflow`. Variables: `signal` the rows of `source_events` of replies with their
offered roles and open reviews; `delivery` the executions of `intakeMasterInbox`; `claims` the rows
of `first_response_claims` (`pending` until the e-mail is recorded, `bound`, `released`); `pair` the
cases with the event that created each; `jobs` the classification jobs; `news` the rows
`submission_added` of the outbox, as cases: `about[m]` the case that took over the row of reply `m`.

`Receive`, `ClaimRoles` and `Record` are the transactions of an intake; a delivery may stop between
them (`Leave`), and what it claimed is there for the next delivery of the same e-mail. `Begin` is
`sourceForClassification`, `Apply` and `Route` the two ends of `processSignal`; other attempts may
fall between them, and `Retry` and `Fail` say how an attempt ends without a result. The answer of the
classifier is any part of the roles it was given. `RetryClassification`, `Bind` and `Dismiss` are the
commands on replies, `AddCandidate` and `ObserveCurated` open a case without one, and `Correct`,
`Hide` and `Restore` are there because a repeated classification reads what they write. One job has
at most one execution that writes (`JobQueue`).

Four defects stay outside the properties, the first two by an explicit disjunct:

* `routeClassificationFailure` reads the candidate from the envelope. When a recruiter bound a reply
  in `needs_role` to another candidate and the classifier fails, cases of the first candidate are
  opened, with no claim (`OwnersCreate` without its second disjunct fails in five steps); when that
  candidate answered before, the reply is closed and nobody sees it.
* After a failed classification a reply cannot be bound to another candidate for the same role
  (`first_response_claims_event_role_uq`), nor dismissed; binding it to cases that exist closes it
  with its first review open and its claim active (`ClaimsLeadOn` without its second disjunct).
* A late second delivery may reserve claims for an e-mail that has a row with another candidate or
  other roles: nothing binds or releases them (`ClaimsLeadOn` speaks of bound claims).
* A repeated classification that decides some of the cases an earlier failure had opened closes the
  reply; the other cases keep an open classifier failure that can be corrected but not retried.

### PairWorkflow

Variables: `pair` is the row of `candidate_role_pairs` with the flags that marks and role index add;
`reviews` the reasons of its open `review_items`; `jobs` its `prepare_resume` jobs with what their
execution is doing; `gens` its `resume_generations`, each with the state of its artifact set
(`copy`); `rechecks` its queued `recheck_pair` jobs; `manifest` what `case_deletions` recorded;
`roleActive` the row of the role index.

Each action is one transaction, with every write it makes. `Classify`, `ClassificationFails` and
`ClassificationRecovers` are what replies do; `AddCandidate` to `RestoreCase` the commands;
`IndexRole`, `RecheckRole`, `RecheckResume`, `ProveSubmission` what sources do; `Claim` to `EndJob`
one execution of the handler `prepare_resume` with `runClaimedJob` around it; `RecoverReady` and
`RecoverExpired` the two halves of `recoverExpiredResumeGenerations`. A command with a stale version
is refused and changes nothing, so it is not an action. What the classifier and the models answer is
nondeterministic.

It composes with `JobQueue` by what that module shows: because writes are fenced, a job here has at
most one execution that can write, and the worker's lease is one bit (`live`). The controls stay on;
holding is `JobQueue`'s subject.

`Init` is an empty pair, a published pair that a recruiter marked as submitted (so that the mark can
be taken back within the bound), or a row as `recoverExpiredResumeGenerations` describes it at
`repository.mjs:3304`: left in Preparing with a current resume and a refresh queued. No handler
leaves a row like that any more, and without it `RecoverReady` could never be checked.

### NotificationOutbox

Variables: `row` the table, `hidden` whether the case is deleted, `worker` the executions of
`deliver_notification`, `posts` what Slack accepted, `deletions` counts against a bound.

`deliverNotification` posts inside its transaction, so its statements are separate actions with the
locks they take: `ReadNotification` (no lock), `LockPair`, `LockRow`, `Accept` or `Refuse`,
`CommitSent`. Before or after each of them the process may die (`Crash`), the statement may fail
(`DeliveryFails`), the lease expire, the case be deleted (`SoftDelete`, which waits for the locks).
A post is accepted or not, and the code learns that, or learns nothing (`unknown`). Slack is not in
the repository: `Accept` and `Refuse` are what `postSafeNotification` makes of its answers.

### PrivateObjects

Variables: `state` and `age` the rows that own an object (a reservation of a pipeline write, a
reservation of a browser upload, a quarantined file), `clean` the executor's claim of a row, `write`
the write lease, `bound` the pathnames whose owner row was inserted, `store` the blobs, `writer` and
`purger` the processes. A write is `Reserve`, `Renew`, `Put`, `Commit`; an upload `ReserveUpload`,
`BrowserPut`, `AddSupplement`, `Accept`; an executor `Claim`, `Remove`, then `Finalize` or `Release`.
Everybody may stop anywhere (`Abandon`, `Crash`, `RemoveFails`, `FinalizeFails`). A pathname is
derived from what is written, so two writers of it write the same bytes and have the same
reservation. Times are what the where clauses ask for: a lease is live or not, a row is fresh,
expired, or old enough.

Two timing assumptions carry the result, and both are conjuncts of a guard: a put ends within its
15-minute lease (`LeaseExpires`), and a delete ends within the 15 minutes of its claim
(`SlowDeletes = FALSE` in `ClaimRunsOut`). A delete request that takes longer could reach the store
after the row was claimed, released and committed again; nothing in the code but its own request
timeouts prevents that.

An accepted upload may have no file. An executor claims the supplement while it is in quarantine and
old, deletes its file and then fails to finalize (`Remove`, `FinalizeFails`, `Release`); the row is
`pending` again (`011_isolated_routine_object_purge.sql:903-909`), and `Accept`, which asks the row and
not the store, takes it out of quarantine (`repository.mjs:2413-2429`). The model reaches this, with
fast deletes too. So `OwnedIsStored` speaks of what pipeline writes committed (`bound`) and of the
accepted files no executor ever claimed.

### CasePurge

Variables: `case`, `deletion` (rows of `case_deletions`), `store`, `executor`, and `faults`, which
counts against a bound. `SoftDelete` and `Restore` are the API's; an executor's cycle is `Claim`,
`Plan`, one `Remove` per object, then `FinalizeManifest` or `FinalizeCase`, or `Fails`, and `Release`.

**The finalization of a case never commits.** `finalize_case_purge` deletes the pair
(`005_isolated_case_purge.sql:363`); the foreign key then sets `case_deletions.pair_id` of its
deletions null (`003_case_retention.sql:44-46`), and the trigger of migration 011 refuses any change
of `pair_id` (`011_isolated_routine_object_purge.sql:463-467`, `692-694`), the purge's included. So
`FinalizeCase` always leads to `failing`, and the executor gives the row back as `soft_deleted`, its
objects gone, for the next one to claim (finding 3). What the transaction would delete is not
modelled: no row of a case, a reply or an e-mail ever leaves, and `Deletable` never changes. The lane
of restored manifests touches no `pair_id` and commits.

A case shares its e-mail with the other roles of that e-mail (`Links`); `Deletable` counts the
references the plan counts. Which case refers to which e-mail is fixed at the start: replies that
arrive during a purge are not modelled. An executor claims one deletion at a time here, the code a
batch that it works off one by one; its lease may run out at any time, which covers the rest of the
batch. Claims repeat for ever, so the model uses a token again once nobody works under it
(`Unused`): only the comparison of tokens matters. `PrivateObjects` has the routine lanes of the same
executor; the two share no row.

### RecoverableDeletion

One promise per case: it is kept, hidden or doomed, in that order, and only a hidden case comes
back, whole. Nothing of it is lost before it is doomed; cases that share an e-mail lose it together.
`CasePurge!ImplementsRecoverableDeletion` maps `phase` to the row of the case and to whether the
window of its pending deletion has closed, and `whole` to the cases all of whose objects and pending
manifests are there. What makes this more than the windows is that the failed finalization puts a row
whose objects are deleted back to `soft_deleted`, the state from which `restoreCase` restores: only the
closed window still tells the two apart. That a doomed case ends is not promised, and is not so.

### CandidateIndex

Variables: `list` Paraform's candidates, latest change first; `row` the table `candidate_index` (a
row holds the name of the cycle that stamped it); `suppressed`; `cursor` the row of
`source_cursors` with the checkpoint of the cycle; `queue` and `worker` the jobs; `steady` is a
history variable.

The code asks Paraform for a page at an offset and takes `next_cursor` as the next offset (the
tests of `paraform-sources.mjs` show offset + limit), so a page is whoever stands at that offset
when it is read. `Touch` moves a candidate to the front, `Drop` moves up whoever stood behind.
`Take` claims the job and the cursor and resumes the checkpoint or begins a cycle; `Read`,
`OpenUpsert`, `CommitUpsert` handle a page, the upsert in two steps because it holds the candidate's
advisory lock, which the purge takes too; `Finalize` deactivates what the cycle did not stamp;
`Purge` is what `finalize_case_purge` does to a candidate, which at present it rolls back (`CasePurge`):
`PurgedStaysOut` shows what the lock and the suppression are worth when it commits;
`CommitCursor` stores the checkpoint; `Complete` queues the continuation. A job is claimed by one
worker, which is `JobQueue`'s subject: `LoseJob` and `LoseCursor` take job and cursor from a worker
that goes on until a fence stops it. One clock confirms all pages. Names of cycles are used again
once nobody knows them, and the rows that still bear one are renamed `Earlier`, which keeps the
model finite without letting an old stamp pass for a new one.

What `SteadyStayActive` does not promise matters as much. A candidate who changed while a cycle ran
moves to the front, behind the reader; one in front of whom another left moves up, maybe past the
reader. Both may be missed and deactivated although they are listed, until the next cycle. With a
history that forgets only the candidate who left (`steady \ {p}` in `Drop`) TLC shows such a
deactivation in a few steps. `addCandidate` answers `candidate_not_found` for them meanwhile
(`repository.mjs:1876`). `IndexConverges` says that this ends when the list rests.

### Outreach

Variables: `out` a record per request and `matched` the requests with a `sentAt`, both in the stored
row; `lock`; `sender` what each function invocation is doing; `room` the rows of the Mailroom;
`flying` hand-offs whose caller no longer waits; `posts` and `excused` are history.

`Start` to `Claim` is `processMatchRequest` up to the saved claim, `AskStatus` to `Poll` the
Mailroom, `Search` to `Find` Gmail, `Deliver` and `Reconcile` the record. Others save the row without
the lock (`reviewHeldOutreach`), so any save may be refused, which is a disjunct of every save.
The lock lives 150 seconds and a function 120 (`vercel.json:121`), so it expires only on the dead.
`ClaimAges` is the two minutes after which `unclaim` trusts the Mailroom's "no row"; it is assumed
that a hand-off has arrived by then. Where the code releases a claim without waiting (a refusal
that finds no row), a hand-off of the same request may still be on its way: such a request is put in
`excused`, and `EmailedOnceUnlessReleased` promises nothing of it. The Gmail search may miss a
message that was just accepted; the code then never posts again for the same claim
(`reconcileOnly`), which is what the property rests on.

A tick of `reconcileQueuedMailroomMatches` may end before it reaches a given candidate: it stops after
ten results (`outreach.mjs:4291-4310`), a row the Mailroom still holds counts as one, and it walks the
500 candidates saved last, the latest first (`outreach-store.mjs:218-226`); a paused or cooling lane
reaches nobody. `passed` says that the next tick would not come as far, `Crowd` changes it whenever
nobody works on the candidate, and `Reconcile` needs it false. It means nothing while an invocation
works on him (`Start` makes it false, and afterwards `Crowd` chooses again). Nothing in the code sees to it that `passed` ends:
ten older waiting sends may hide a sent one for ever. `QueuedIsSettled` therefore has the premise
`<>[]~passed`, without which TLC finds it violated at once.

## 3. Runs

| Run | Checks | Result |
| --- | --- | --- |
| `queue_safety` | `TypeOK`, `LedgerMatchesJobs`, `WritesAreFenced`, `ImplementsFencedTask`; two workers, a build and a source job, two attempts, two control changes | holds |
| `queue_liveness` | `NoJobWaitsForever`; one worker, two crashes, three settings of the flags | holds |
| `replies` | `TypeOK`, `OwnersCreate`, `AnnouncedOnce`, `UnresolvedIsShown`, `ClaimsLeadOn`, `RepliesAreSettled`; two replies, two deliveries at a time, two candidates, two roles | holds |
| `pair` | `TypeOK`, `TablesAgree`, `DeletedCaseIsRestorable`, `PublishesWhatWasAsked`, `WorkersDecideNothing`, `ProvenStaysProven`, `GenerationsEnd` | holds |
| `pair_unrouted` | `FailuresGoToReview` | violated: finding 1 |
| `outbox` | `TypeOK`, `AtMostOnePost`, `NoPostAboutDeletedCase`, `NoNoteIsForgotten`; two executions, two announcements, one of a retired kind | holds |
| `objects` | `TypeOK`, `OwnedIsStored`, `Tracked`, `AbandonedIsDeleted`; two writers of one pathname, an upload, two executors | holds (accepted files that were claimed excepted) |
| `objects_replay` | `ReplaySurvivesCrash` | violated: finding 2 |
| `purge` | `TypeOK`, `KeptCasesAreWhole`, `ImplementsRecoverableDeletion`, `DeletedObjectsLeave`; two cases of one e-mail, one deleted twice, two executors, two faults | holds |
| `purge_never` | `DueDeletionsEnd`; the same without faults | violated: finding 3 |
| `outreach` | `TypeOK`, `EmailedOnceUnlessReleased`, `RecordedIsSent`, `OneOpenSend`, `QueuedIsSettled`; two requests, two invocations, other candidates' sends in front or not | holds |
| `index` | `TypeOK`, `PurgedStaysOut`, `SteadyStayActive`, `IndexConverges`; two workers, two candidates, a change, a fault | holds |

A property of a passing run can be broken: `PROJECT.json` "mutants" names, for each, a change of one
definition, of the kind a bug would be, under which TLC finds it violated. The mutated forms stand
before the definitions, marked "Mutant".

### Bounds, and why they are enough

* `JobQueue`: two jobs of two kinds are needed for priority, the reserved build and a batch of two;
  two workers for takeover; `MaxAttempts = 2` gives a first, a last and an exhausted attempt;
  `MaxEpoch = 2` lets controls go off and on again. With two workers the crash of one is the same as
  one that stops taking steps until its lease expired, so `queue_safety` has no `Crash`;
  `queue_liveness` has two. The theorems have any number.
* `FirstResponse`: two replies for a race between them, each in two deliveries at once; two roles, so
  that a reply is answered in part; the second candidate is the one a recruiter may name by mistake.
  The first reply is placed by the intake, the second may lack its candidate, its roles or both. One
  case is opened directly. Recruiters ask for a classification while there are fewer than two jobs.
  The safety properties were also checked with three, every case opened directly and either reply
  of an unknown sender (8.1 million states).
* `PairWorkflow`: `MaxVersion = 3` allows every sequence of two decisions after the first;
  `MaxJobs = 2` a preparation and the one that replaces it; `MaxAttempts = 2` a retry. A pair whose
  version reached the bound takes no further decision. `GenerationsEnd` exempts a pair that is
  stopped by the bound: `RecoverExpired` may have to advance the version. The safety properties
  were also checked with `MaxVersion = 4` (3.0 million states). The violation runs need less.
* `NotificationOutbox`: two announcements, one of the pair and one not, or both; two executions; two
  claims of a row, so that it is retried once; one deletion and a restoration.
* `PrivateObjects`: one pathname with two writers, since pathnames share nothing; one upload; two
  executors; three claims of a row, so that a claim can fail, be taken over, and end.
* `CasePurge`: two cases of one e-mail, one of which has an e-mail of its own and is deleted,
  restored and deleted again; two executors; two tokens of a deletion, one for the claim that holds
  and one for an executor that lost it; two faults, which are a lease that runs out under its
  executor, a step that fails or an executor that dies. The number of claims has no bound, so a purge
  that starts over for ever is a behaviour of the model. `purge_never` has no faults: it fails even then.
* `CandidateIndex`: two candidates are two pages, so that a job may stop between them, one moves in
  front of the other, and one is left behind; one may be purged; two workers; one change of the
  list and one fault, which is a failure, a crash, a lost job or a lost lease; two names of cycles,
  one in use and one to begin. The proofs of section 4 have no such bounds.
* `Outreach`: two requests for the hold one puts on the other; two invocations; late hand-offs of
  one of them; two Gmail messages about a request, one more than there may be. The candidate's own
  requests are fewer than the ten results of a tick; other candidates' are in `passed`.

Symmetry is used for the workers of `queue_safety` only. `FirstResponse`, `PairWorkflow`,
`NotificationOutbox`, `PrivateObjects`, `CasePurge` and `Outreach` may come to rest (no version or claim
left, every row sent or delivered, every reply settled, nobody deleting), so their runs do not check
deadlock; those of `JobQueue` and `CandidateIndex`, whose workers go on for ever, do.

### Fairness

* `JobQueue!Fairness`: leases expire and retries become due (clock, weak); a worker's cycle goes on
  (`runWorkerLoop` catches everything and loops, weak); a statement that began ends (weak); a
  handler ends (strong, because checkpoints may disable and enable its end; `runClaimedJob` races the
  handler against a deadline and the abort signal of a lost heartbeat). Crashes, control changes and
  commands have none.
* `FirstResponse!Fairness`: a queued classification is begun or fails (weak); one whose attempts go on
  is settled or fails (strong, since a retry disables the end of an attempt, and attempts are
  bounded). It assumes that no worker dies in the last attempt (see finding 1). Nobody has to
  deliver an e-mail, bind, dismiss or correct.
* `PairWorkflow!Fairness`: an execution goes on or loses its lease; deadlines pass; every tick runs
  the recovery (`scheduleTick` enqueues it). Nobody has to claim a preparation, decide or reply.
* `NotificationOutbox!Fairness`: leases and retry times pass, an execution that began goes on, and
  `deliver_notification` is queued again every five minutes (strong fairness of `Claim`, because
  another execution's open transaction may disable it again and again).
* `PrivateObjects!Fairness`: leases and ages pass; the executor's cron runs every six hours and
  claims the oldest rows first, so a row that may be claimed is; an execution that began goes on,
  fails or dies. The last claim the bound allows ends well, because the code may try for ever and the
  model may not. Nobody has to write or upload.
* `CasePurge!Fairness`: leases and windows pass (weak), an execution that began goes on, fails or dies
  (weak), and a row that may be claimed again and again is claimed (strong, since the claims of the
  other executor disable it), but only while there are at most `BatchLimit` deletions (`Reached`): a
  batch takes the five that are due longest, those of the case lane never leave, and beyond five the
  others starve. Nobody has to delete or restore. `DeletedObjectsLeave` says `[]<>`: what is doomed is
  found deleted again and again, although its row never ends.
* `CandidateIndex!Fairness`: the hourly tick queues a job, workers go on or take a job, a lease
  nobody renews ends. Faults and changes are bounded and have none.
* `Outreach!Fairness`: an invocation that holds the lock goes on or dies and then its lock expires;
  of the ticks that reach the candidate some find the lock free and some are not refused their save
  (strong fairness of `Reconcile` and `Settle`). `Reconcile` is disabled while `passed` holds and
  `Crowd` has no fairness, so that ticks reach the candidate is not assumed: it is the premise of
  `QueuedIsSettled`.

### Findings

1. A preparation whose last attempt fails before it has a generation leaves the pair in Preparing
   with no job, no generation and no review; the documentation says failures go to Needs Review.
   A worker that dies in the last attempt has the same effect by another way: the row stays
   `running`, nobody may claim or end it, and Generate resume answers "already being prepared"
   from then on (`002_guards_and_leases.sql:672`). `FailuresGoToReview` fails for both.
2. A source event's pathname is reserved, its writer stops, and 48 hours later the routine lane
   leaves the reservation `purged`: from then on every delivery of that e-mail is refused, while a
   test and a comment call these writes replayable after a crash.
3. The purge of a case never ends. With all migrations applied `finalize_case_purge` rolls back every
   time, after the objects of the case were deleted (section 2, `CasePurge`), while
   `003_case_retention.sql:36-38` says that the pair may be physically removed after the recovery window
   and its tombstone remains. The pair, its reviews and the candidate's index row stay; the row
   of the deletion is claimed at every cycle, and the five that are due longest take every batch, so
   that the others are not purged at all. The executor's unit test mocks the database.

## 4. Proofs

TLC checks the instances above. TLAPS proves, for every set of cases, jobs, workers, announcements,
requests and people, and for every value of the bounds, all the safety properties that the passing
runs check:

| Module | Theorems |
| --- | --- |
| `JobQueueProofs` | `TypeCorrect`, `LedgerHolds` (`Spec => []LedgerMatchesJobs`), `FencedWrites` (`Spec => WritesAreFenced`), `Refinement` (`Spec => ImplementsFencedTask`) |
| `FirstResponseProofs` | `TypeCorrect`, `FirstResponseOwns` (`Spec => OwnersCreate`), `AnnouncedOnceHolds`, `UnresolvedIsShownHolds`, `ClaimsLeadOnHolds` |
| `PairWorkflowProofs` | `TypeCorrect`, `TablesAgreeHolds`, `DeletedCaseIsRestorableHolds`, `PublishesWhatWasAskedHolds`, `WorkersDecideNothingHolds`, `ProvenStaysProvenHolds` |
| `NotificationOutboxProofs` | `TypeCorrect`, `PostedOnce` (`Spec => []AtMostOnePost`), `SilentAfterDeletion` (`Spec => NoPostAboutDeletedCase`) |
| `PrivateObjectsProofs` | `TypeCorrect`, `TrackedHolds`, `OwnedIsStoredHolds` (when deletes end in time) |
| `CasePurgeProofs` | `TypeCorrect`, `KeptCasesAreWholeHolds`, `Refinement` (`Spec => ImplementsRecoverableDeletion`) |
| `CandidateIndexProofs` | `TypeCorrect`, `PurgedStaysOutHolds`, `SteadyStayActiveHolds` |
| `OutreachProofs` | `TypeCorrect`, `EmailedOnce` (`Spec => []EmailedOnceUnlessReleased`), `RecordedWasSent`, `OneSendIsOpen` |

Each module has a theorem `Invariant` (or `InductiveInvariant`), `Spec => []IInv`, from which the
others follow. TLC checked every `IInv` on the instance of the run before it was proved.

Assumptions: those the modules state about their constants (sets are sets of the right kind, bounds
are natural numbers, `NoWorker` is no worker, there are finitely many people). TLC evaluates them
in every run. `PairWorkflow!BoundsAssumption` asks for at least one job and a version of 2, because
`Init` has rows that need them. `OwnedIsStoredHolds` has the hypothesis `~SlowDeletes`, the timing
assumption of section 2: without it the property is false, and `Tracked` is proved without it. It says
nothing of an accepted file that was claimed in quarantine, which may be gone.

**JobQueue.** `WritesAreFenced` is not inductive: `EndApply` checks nothing, it relies on what
`BeginApply` checked some steps before. `IInv` says what an open transaction may rely on:
`TransactionOwnsRow` (the row it locked is still the row it checked), `ApplyUnderControls` (the
controls it read still hold), `BatchReady` (a worker that runs has a claim), `TokensCountAttempts`
(tokens are attempts, plus one burnt by a cancellation; it bounds tokens, so `TypeOK` needs it).
Each step either leaves the locked rows alone because its guard says so, or belongs to the worker
that holds them. The refinement needs one more fact, that a job that was never claimed has token 0,
and then every action maps to one of `FencedTask` or to a stutter.
The ledger is a second invariant, `LedgersTell`, on top of `IInv`: the i-th attempt of a job has token
i, there are as many as the row counts, and only the last may be open, while the row is running or
was cancelled. `LedgerMatchesJobs` asks for less but cannot be carried through a claim alone: to
know which attempt a claim closes, one has to know where each token stands.

**NotificationOutbox.** `AtMostOnePost` is not inductive either: nothing in a row says it was posted.
`IInv` adds `WaitingNotPosted` (a row that waits was not posted), `OwnerNotPosted` (an execution that
still owns its row has not posted it unless it knows, or cannot know), `LockedRowIsOwned` (the row
lock of a delivery protects the fence it checked) and `SendingIsVisible` (no row about a deleted case
is in sending). One lemma covers every step that touches rows only, one every step that moves an
execution, one every step that lets a row go.

**CandidateIndex.** That `Finalize` spares the steady cannot be seen in the state in which it runs:
whoever read the pages may have done so hours and several workers ago. `IInv` says where each steady
candidate is to be met. `CheckpointOnCourse`: he is suppressed, or has the stamp of the checkpoint's
cycle, or stands behind its offset. `WorkersOnCourse`: the same of the worker that leased the cursor
last, at each of its steps (`Expects`: before the page is read, while it is written, after it).
Whoever lost the cursor may hold anything, since every step of his that matters asks for it.
`OpenUpsertKnows`: while an upsert has a candidate's lock, what it read of the suppressions is true.
The rest is about lists: nobody stands in one twice, taking one out keeps the others in order, and
neither `Touch` nor `Drop` moves a steady candidate to a smaller offset (`TouchList`, `DropList`).

**CasePurge.** An executor that lost its lease goes on deleting what it planned, and nobody stops it.
So `IInv` says of every object in any plan, and of every one that is missing, that no case will ever
need it (`PlansAreExpendable`, `StoreIsWhole`). A case is `Doomed` when a pending deletion of it has
closed its window; nothing undooms it, because `Restore` asks for an open window and for the pending
deletion, of which there is one (`OneDeletion`), and because the release of a failed purge changes the
state of the row and not its window. For the refinement, three actions move a case (`SoftDelete`,
`Restore`, `WindowCloses`) and map to the three moves; every other leaves the phases alone, and what it
takes from the store it takes from doomed cases (`LoseRefines`). `NoEarlyWindow` (a deletion nobody
asked for has an open window) is needed for a case that is deleted again.

**PrivateObjects.** The row of an object and the object change in different steps. `LeasesLast`: a
writer that renewed keeps its lease until it has put the object or somebody else committed the row.
`RemovedIsGone`: an executor that still holds its claim after a delete finds the object gone.
`CommittedIsBound`, `CompletedHasSupplement` and `PurgedWasOld` tie the tables to each other and to
ages, and `InTime` is the only part that needs deletes to end before their claim. For files there is
a second invariant, `Quarantine`, on top of `IInv`: executors work on old rows that were claimed
(`PurgersAreLate`), an upload was completed before it aged (`CompletedWasFresh`), so nobody deletes the
file of a supplement before it is claimed itself (`QuarantinedIsStored`).

**Outreach.** Nothing in the stored row says that an e-mail left. `OneChannel` says where it can be: in
the channel its claim names and in no other, without a claim in none. `RowsTell` says what a row of
the Mailroom proves, `ClaimsNameChannel` which states each channel has. `SendersKnow` carries what
a sender read under the lock from one of its steps to the next (`Knows`), and that no other request
has an open send (`Alone`), until its save. `Crowd` and `passed` touch none of this.

**FirstResponse.** The argument follows the claims: a delivery is granted them (`DeliveriesKnow`), they
are bound when the reply is recorded (`BoundIsRecorded`) and taken away by the classification that
closes the reply. `ReadIsClaimed`: between its two transactions a classification keeps the claims on
what it read, although commands and other attempts run. `IntakeClaims`: a reply no recruiter bound has
claims for the candidate of its envelope only, and for every role left to answer. `OnePerRole` is the
unique index that makes a claim of a role the only one of its reply, the one behind the second defect
of section 2.

**PairWorkflow.** Only the version ties a build to the pair. `JobsKnow` and `GensKnow` say what a
version stands for: a job or a generation of the current version was asked for with the decisions that
still hold, because every decision advances the version. `OwnGenerations` and `BuildsAreOpen` follow
an execution to its promotion. `OnePerAttempt` is needed for the types: generations are bounded
because there is an injection from them to attempts of jobs. `ProvenIsCalm`, `ManifestTells`,
`NothingBefore` and `ResumeIsGenerated` say what each stage keeps for the next. An earlier form of
`Promote` had a CASE with overlapping arms, so its result was undetermined where two of them held;
TLC takes the first, and a step of the proof failed there. The arms are disjoint now.

Only model-checked: the liveness properties `NoJobWaitsForever`, `RepliesAreSettled`, `GenerationsEnd`,
`NoNoteIsForgotten`, `AbandonedIsDeleted`, `DeletedObjectsLeave`, `IndexConverges` and
`QueuedIsSettled`, and that the three findings happen. Liveness under fairness and ENABLED, induction
over data and RECURSIVE operators are beyond the prover; no module here has a RECURSIVE operator.

## 5. Plan

Done: `JobQueue` and `CasePurge` with their abstract specifications, `PairWorkflow`, `FirstResponse`,
`NotificationOutbox`, `PrivateObjects`, `CandidateIndex` and `Outreach`; the proofs of all their safety
properties and of both refinements. Left, in this order:

1. One abstract specification of a message that cannot be taken back (asked for, on its way, sent or
   given up), implemented by `NotificationOutbox` and by `Outreach`; the jobs of `PairWorkflow` and
   `FirstResponse` as instances of `FencedTask`.
2. `WorkerSchedule`: recurring jobs of higher priority and builds in one queue. To state: a build is
   eventually claimed, which the reserved claim is for.
3. Idempotency of commands.
4. The sources that are read in one job: an abstract sequence of events that none skips or records
   twice.
5. `BackgroundPause`, an owned record with compare-and-delete and readers that fail closed
   (`README.md:37`, `api/_lib/paraform-background-pause.mjs`).

## 6. Not modelled

The schedule of recurring jobs, the table of commands and the sources other than the candidate list
are next (section 5). The classifier, the models, the collector and the renderer turn text into text:
their answers are nondeterministic inputs. Sessions, parsing, presentation and pages keep no state
of the protocols. The rest of ParaAI and the other tools are systems of their own, by far the larger
part of the repository's lines; a faithful model of them would be another project, so the
models cover a small share of the repository, and of the parts they name the protocol.
