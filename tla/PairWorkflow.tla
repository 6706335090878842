---------------------------- MODULE PairWorkflow ----------------------------
(***************************************************************************)
(* One candidate-role pair of Submissions V2 and everything that may change *)
(* it: candidate replies, recruiters, the role index, submission proofs,    *)
(* case deletion, and the jobs that prepare its resume                      *)
(* (api/submissions-v2/_lib/repository.mjs, resume/pipeline.mjs,            *)
(* resume/pipeline-store.mjs, submissions-v2-worker/worker-handlers.mjs).   *)
(*                                                                          *)
(* Each action is one transaction: it locks the pair, compares its version  *)
(* and commits.  A worker's transaction also asserts the fence of its job;  *)
(* that only the newest execution of a running job passes it is what        *)
(* JobQueue shows, so a job here has at most one execution.  The runtime    *)
(* controls stay on.  A recruiter's command carries the version the         *)
(* recruiter saw and is refused when it is not the current one: that        *)
(* refusal changes nothing and is not an action.                            *)
(***************************************************************************)
EXTENDS Naturals, Sequences

CONSTANTS
  MaxAttempts,   \* max_attempts of a preparation job
  MaxVersion,    \* bound: state_version of the pair
  MaxJobs        \* bound: preparation jobs of the pair

ASSUME BoundsAssumption ==
  /\ MaxAttempts \in Nat \ {0}
  /\ MaxVersion \in Nat \ {0, 1}
  /\ MaxJobs \in Nat \ {0}

VARIABLES
  pair,        \* the row of candidate_role_pairs; version 0: no row yet
  roleActive,  \* role_index.active of the pair's role
  reviews,     \* reasons of the open review_items of the pair
  jobs,        \* its prepare_resume jobs, each with its current execution
  gens,        \* its resume_generations, each with its artifact set
  rechecks,    \* its queued recheck_pair jobs
  manifest     \* the recovery manifest of its case deletion, or NoManifest

vars == <<pair, roleActive, reviews, jobs, gens, rechecks, manifest>>

Intents == {"unknown", "unclear", "interested", "not_interested"}
Workflows == {"none", "preparing_resume", "interested", "needs_review", "not_interested"}
ResumeBlockers == {"original_resume_missing", "preparation_failed"}
HumanDecisions == {"reply_unclear"}
Reasons == ResumeBlockers \cup HumanDecisions \cup
           {"role_unclear", "role_unavailable", "classification_failed"}
Triggers == {"initial", "retry", "regenerate"}
Versions == 0 .. MaxVersion
GenIds == 1 .. MaxJobs * MaxAttempts + 1
Copies == {"none", "current", "superseded", "deleted"}

NoManifest == [version |-> 0, copies |-> <<>>]

\* What the people and the role index decided about the pair, apart from its proof.
Decision(p) == [intent |-> p.intent, role |-> p.role, badFit |-> p.badFit,
                marked |-> p.marked, resume |-> p.resume]

Decisions == [intent : Intents, role : {"unknown", "active", "unavailable"},
              badFit : BOOLEAN, marked : BOOLEAN, resume : {0} \cup GenIds]

TypeOK ==
  /\ pair \in [intent : Intents, workflow : Workflows, version : Versions,
               resume : {0} \cup GenIds, submission : {"none", "opened", "proven"},
               hidden : BOOLEAN, role : {"unknown", "active", "unavailable"},
               badFit : BOOLEAN, marked : BOOLEAN]
  /\ roleActive \in BOOLEAN
  /\ reviews \subseteq Reasons
  /\ Len(jobs) <= MaxJobs
  /\ jobs \in Seq([state : {"queued", "running", "succeeded", "failed", "cancelled"},
                   live : BOOLEAN, pc : {"none", "start", "build", "again", "done", "over"},
                   gen : {0} \cup GenIds, attempts : 0 .. MaxAttempts,
                   trigger : Triggers, expected : Versions, asked : Decisions])
  /\ Len(gens) <= MaxJobs * MaxAttempts + 1
  /\ gens \in Seq([status : {"active", "succeeded", "failed", "cancelled"},
                   expected : Versions, trigger : Triggers, prior : {0} \cup GenIds,
                   late : BOOLEAN, copy : Copies])
  /\ rechecks \subseteq [target : {"resume", "role"}, expected : Versions]
  /\ manifest \in [version : Versions, copies : Seq(Copies)]

-----------------------------------------------------------------------------
(* Reading the tables *)

Exists == pair.version > 0
Visible == Exists /\ ~pair.hidden

ActiveGenerations == {g \in DOMAIN gens : gens[g].status = "active"}
PendingJobs == {j \in DOMAIN jobs : jobs[j].state \in {"queued", "running"}}
UnderWay == ActiveGenerations /= {} \/ PendingJobs /= {}

HasReadyResume == pair.resume /= 0 /\ gens[pair.resume].copy = "current"

\* The check regenerate and startResumeGeneration share.
Regeneratable ==
  /\ pair.intent = "interested"
  /\ pair.resume /= 0
  /\ \/ pair.workflow = "interested"
     \/ (pair.workflow = "needs_review" /\ pair.submission = "proven")

\* Mutant: the version of the pair is not compared.
AtAnyVersion(g) == TRUE

\* The pair is still what it was when the generation g was started.
AtExpected(g) == pair.version = gens[g].expected

\* A committed change of the row: the version advances by exactly one.
Change(p) ==
  /\ pair.version < MaxVersion
  /\ pair' = [p EXCEPT !.version = pair.version + 1]

NewJob(p, trigger, expected) ==
  [state |-> "queued", live |-> FALSE, pc |-> "none", gen |-> 0, attempts |-> 0,
   trigger |-> trigger, expected |-> expected, asked |-> Decision(p)]

\* enqueue of a preparation job for the row p at a version.
Queue(p, trigger, expected) ==
  /\ Len(jobs) < MaxJobs
  /\ jobs' = Append(jobs, NewJob(p, trigger, expected))

Closed(row, status) == [row EXCEPT !.status = status]

CancelGenerations ==
  [g \in DOMAIN gens |-> IF gens[g].status = "active" THEN Closed(gens[g], "cancelled") ELSE gens[g]]

CancelJobs ==
  [j \in DOMAIN jobs |->
     IF j \in PendingJobs
     THEN [jobs[j] EXCEPT !.state = "cancelled", !.live = FALSE, !.pc = "none"] ELSE jobs[j]]

\* Mutant: the current artifact is not looked at.
ReadyAnyway(p) == [p EXCEPT !.workflow = "interested"]

\* The row with no review left: ready, or to be prepared.
Prepared(p) == [p EXCEPT !.workflow = IF HasReadyResume THEN "interested" ELSE "preparing_resume"]

-----------------------------------------------------------------------------
NoPair ==
  [intent |-> "unknown", workflow |-> "none", version |-> 0, resume |-> 0,
   submission |-> "none", hidden |-> FALSE, role |-> "unknown",
   badFit |-> FALSE, marked |-> FALSE]

\* A row of the kind recoverExpiredResumeGenerations returns to Interested: a
\* Review was resolved as Interested while a promoted resume was current, which
\* queued a refresh.  No action below makes one any more.
RefreshedPair ==
  [NoPair EXCEPT !.intent = "interested", !.workflow = "preparing_resume", !.version = 1,
                 !.resume = 1, !.role = "active"]

\* A pair whose resume was published and which a recruiter then marked as
\* submitted; versions are only compared, and count from the published row.
MarkedPair ==
  [RefreshedPair EXCEPT !.workflow = "interested", !.version = 2,
                        !.submission = "opened", !.marked = TRUE]

PromotedGeneration ==
  [status |-> "succeeded", expected |-> 0, trigger |-> "initial", prior |-> 0,
   late |-> FALSE, copy |-> "current"]

Init ==
  /\ \/ pair = NoPair /\ jobs = <<>> /\ gens = <<>>
     \/ /\ pair = RefreshedPair
        /\ jobs = <<NewJob(RefreshedPair, "retry", 1)>>
        /\ gens = <<PromotedGeneration>>
     \/ pair = MarkedPair /\ jobs = <<>> /\ gens = <<PromotedGeneration>>
  /\ roleActive \in BOOLEAN
  /\ reviews = {}
  /\ rechecks = {}
  /\ manifest = NoManifest

RoleState == IF roleActive THEN "active" ELSE "unavailable"

\* The workflow a classified reply leads to: an interested reply about a role
\* that is gone waits in Needs Review.
Labelled(label) ==
  LET shown == IF label = "interested" /\ ~roleActive THEN "needs_review" ELSE label
  IN [pair EXCEPT !.intent = IF label = "needs_review" THEN "unclear" ELSE label,
                  !.workflow = IF shown = "interested" THEN "preparing_resume" ELSE shown,
                  !.role = RoleState]

\* The review item a label leaves, with the reason the classifier gave.
ReviewOf(label, reason) ==
  CASE label = "interested" /\ ~roleActive -> {"role_unavailable"}
    [] label = "needs_review" -> {reason}
    [] OTHER -> {}

Preparing(p) == p.workflow = "preparing_resume"

\* applyClassifiedSignal: the first reply about the pair creates it.
Classify(label, reason) ==
  LET p == Labelled(label)
  IN /\ ~Exists
     /\ Change(p)
     /\ reviews' = ReviewOf(label, reason)
     /\ IF Preparing(p) THEN Queue(p, "initial", 1) ELSE UNCHANGED jobs
     /\ UNCHANGED <<roleActive, gens, rechecks, manifest>>

\* routeClassificationFailure.
ClassificationFails ==
  /\ ~Exists
  /\ Change([pair EXCEPT !.intent = "unclear", !.workflow = "needs_review"])
  /\ reviews' = {"classification_failed"}
  /\ UNCHANGED <<roleActive, jobs, gens, rechecks, manifest>>

\* applyClassifiedSignal after a retry of the failed classification.  A review
\* opened meanwhile makes the deferred constraint assert_pair_review_consistency
\* refuse the commit, unless the pair stays in Needs Review.
ClassificationRecovers(label, reason) ==
  LET p == Labelled(label)
      left == (reviews \cup ReviewOf(label, reason)) \ {"classification_failed"}
  IN /\ Visible
     /\ pair.workflow = "needs_review" /\ pair.intent = "unclear"
     /\ "classification_failed" \in reviews
     /\ ReviewOf(label, reason) \cap reviews = {}
     /\ p.workflow = "needs_review" \/ left = {}
     /\ Change(p)
     /\ reviews' = left
     /\ IF Preparing(p) THEN Queue(p, "initial", pair.version + 1) ELSE UNCHANGED jobs
     /\ UNCHANGED <<roleActive, gens, rechecks, manifest>>

\* addCandidate with no row yet.
AddCandidate ==
  LET p == [pair EXCEPT !.intent = "interested", !.workflow = "preparing_resume", !.role = "active"]
  IN /\ ~Exists
     /\ roleActive
     /\ Change(p)
     /\ Queue(p, "initial", 1)
     /\ UNCHANGED <<roleActive, reviews, gens, rechecks, manifest>>

-----------------------------------------------------------------------------
(* Recruiters *)

\* Mutant: a deleted case is prepared as well.
RearmDeleted ==
  /\ pair.intent \in {"interested", "unclear"}
  /\ ~HasReadyResume
  /\ ~UnderWay
  /\ reviews \subseteq ResumeBlockers

\* rearmResumePreparation, behind Generate resume and a repeated addCandidate.
MayRearm ==
  /\ ~pair.hidden
  /\ pair.intent \in {"interested", "unclear"}
  /\ ~HasReadyResume
  /\ ~UnderWay
  /\ reviews \subseteq ResumeBlockers

Rearm ==
  LET p == [pair EXCEPT !.intent = "interested", !.workflow = "preparing_resume"]
  IN /\ Exists
     /\ MayRearm
     /\ Change(p)
     /\ reviews' = {}
     /\ Queue(p, "retry", pair.version + 1)
     /\ UNCHANGED <<roleActive, gens, rechecks, manifest>>

\* Mutant: a proven submission can.
CorrectableAnyway == Visible

\* A proven submission cannot be reclassified.
Correctable == Visible /\ pair.submission /= "proven"

\* transition: a recruiter moves the pair to a destination.
Reclassify(destination) ==
  LET p == IF destination = "interested" THEN Prepared([pair EXCEPT !.intent = "interested"])
           ELSE [pair EXCEPT !.workflow = destination,
                   !.intent = IF destination = "needs_review" THEN "unclear" ELSE destination]
  IN /\ Correctable
     /\ Change(p)
     /\ reviews' = IF destination = "needs_review" THEN reviews \cup {"reply_unclear"} ELSE {}
     /\ IF Preparing(p) THEN Queue(p, "retry", pair.version + 1) ELSE UNCHANGED jobs
     /\ UNCHANGED <<roleActive, gens, rechecks, manifest>>

Destinations == {"interested", "needs_review", "not_interested"}

Correct == \E destination \in Destinations : Reclassify(destination)

\* resolve_review: only decisions a person may take; to keep the review changes nothing.
ResolveReview ==
  /\ pair.workflow = "needs_review"
  /\ reviews /= {}
  /\ reviews \subseteq HumanDecisions \cup {"role_unclear"}
  /\ "role_unclear" \in reviews => roleActive
  /\ \E destination \in {"interested", "not_interested"} : Reclassify(destination)

\* enqueuePairAction: retry, recheck of the original resume, recheck of the role.
RetryPreparation ==
  /\ Visible
  /\ pair.intent = "interested" /\ pair.workflow = "needs_review"
  /\ reviews /= {} /\ reviews \subseteq ResumeBlockers
  /\ Queue(pair, "retry", pair.version)
  /\ UNCHANGED <<pair, roleActive, reviews, gens, rechecks, manifest>>

RequestRecheck(target) ==
  /\ Visible
  /\ pair.workflow = "needs_review"
  /\ \/ /\ target = "resume" /\ pair.intent = "interested"
        /\ reviews = {"original_resume_missing"}
     \/ /\ target = "role" /\ pair.intent /= "not_interested"
        /\ "role_unavailable" \in reviews
  /\ rechecks' = rechecks \cup {[target |-> target, expected |-> pair.version]}
  /\ UNCHANGED <<pair, roleActive, reviews, jobs, gens, manifest>>

Regenerate ==
  /\ Visible
  /\ Regeneratable
  /\ ~UnderWay
  /\ Queue(pair, "regenerate", pair.version)
  /\ UNCHANGED <<pair, roleActive, reviews, gens, rechecks, manifest>>

\* The commands that change the pair's own row and nothing else.
Mark(p) ==
  /\ Visible
  /\ Change(p)
  /\ UNCHANGED <<roleActive, reviews, jobs, gens, rechecks, manifest>>

OpenSubmit ==
  /\ pair.submission = "none" /\ pair.workflow = "interested"
  /\ HasReadyResume /\ roleActive
  /\ Mark([pair EXCEPT !.submission = "opened"])

MarkSubmitted ==
  /\ pair.submission /= "proven" /\ pair.workflow = "interested" /\ ~pair.marked
  /\ Mark([pair EXCEPT !.submission = "opened", !.marked = TRUE])

UnmarkSubmitted ==
  /\ pair.submission /= "proven" /\ pair.marked
  /\ Mark([pair EXCEPT !.marked = FALSE])

MarkBadFit ==
  /\ pair.submission /= "proven" /\ ~pair.marked /\ ~pair.badFit
  /\ pair.workflow \in {"interested", "preparing_resume"}
  /\ Mark([pair EXCEPT !.badFit = TRUE])

ClearBadFit ==
  /\ pair.badFit
  /\ Mark([pair EXCEPT !.badFit = FALSE])

\* softDeleteCase: the manifest was prepared before and is compared with the
\* tables under their locks, so it is what the tables say now.
SoftDelete ==
  /\ Visible
  /\ Change([pair EXCEPT !.hidden = TRUE])
  /\ manifest' = [version |-> pair.version, copies |-> [g \in DOMAIN gens |-> gens[g].copy]]
  /\ gens' = [g \in DOMAIN gens |->
       LET row == CancelGenerations[g]
       IN IF row.copy = "none" THEN row ELSE [row EXCEPT !.copy = "deleted"]]
  /\ jobs' = CancelJobs
  /\ rechecks' = {}
  /\ UNCHANGED <<roleActive, reviews>>

\* What restoreCase demands of the tables before it gives the case back.
Restorable ==
  /\ pair.version = manifest.version + 1
  /\ \A g \in DOMAIN manifest.copies :
       manifest.copies[g] \in {"current", "superseded"} => gens[g].copy = "deleted"

RestoreCase ==
  LET p == [pair EXCEPT !.hidden = FALSE]
  IN /\ pair.hidden
     /\ Restorable
     /\ Change(p)
     /\ gens' = [g \in DOMAIN gens |->
          IF g \in DOMAIN manifest.copies
          THEN [gens[g] EXCEPT !.copy = manifest.copies[g]] ELSE gens[g]]
     /\ manifest' = NoManifest
     /\ IF Preparing(p) THEN Queue(p, "retry", pair.version + 1) ELSE UNCHANGED jobs
     /\ UNCHANGED <<roleActive, reviews, rechecks>>

-----------------------------------------------------------------------------
(* The role index, the rechecks and the proofs *)

\* upsertRoleIndex read the role; the row of a hidden pair is left alone.
IndexRole(active) ==
  LET role == IF active THEN "active" ELSE "unavailable"
      away == ~active /\ pair.intent = "interested" /\ pair.submission /= "proven"
      back == /\ active /\ pair.intent = "interested" /\ pair.submission /= "proven"
              /\ pair.workflow = "needs_review" /\ "role_unavailable" \in reviews
      left == reviews \ {"role_unavailable"}
      told == [pair EXCEPT !.role = role]
  IN /\ roleActive' = active
     /\ \/ /\ \/ ~Visible
              \/ (pair.role = role /\ ~(away /\ pair.workflow /= "needs_review"))
           /\ UNCHANGED <<pair, reviews, jobs, gens, rechecks>>
        \/ /\ Visible
           /\ pair.role /= role \/ pair.workflow /= "needs_review"
           /\ away
           /\ Change([told EXCEPT !.workflow = "needs_review"])
           /\ reviews' = reviews \cup {"role_unavailable"}
           /\ jobs' = CancelJobs
           /\ gens' = CancelGenerations
           /\ rechecks' = {}
        \/ /\ Visible /\ pair.role /= role
           /\ back
           /\ reviews' = left
           /\ Change(IF left = {} THEN Prepared(told) ELSE told)
           /\ IF left = {} /\ ~HasReadyResume
              THEN Queue(told, "retry", pair.version + 1) ELSE UNCHANGED jobs
           /\ UNCHANGED <<gens, rechecks>>
        \/ /\ Visible /\ pair.role /= role
           /\ ~away /\ ~back
           /\ Change(told)
           /\ UNCHANGED <<reviews, jobs, gens, rechecks>>
     /\ UNCHANGED manifest

\* applyRoleRecheck with what a fresh read said of the role.
RecheckRole(r, active) ==
  LET told == [pair EXCEPT !.role = IF active THEN "active" ELSE "unavailable"]
      rest == reviews \ {"role_unavailable"}
      left == IF pair.intent /= "interested" /\ rest = {} THEN {"reply_unclear"} ELSE rest
      ready == active /\ pair.intent = "interested" /\ left = {}
  IN /\ r.target = "role"
     /\ Visible
     /\ pair.version = r.expected
     /\ pair.workflow = "needs_review" /\ "role_unavailable" \in reviews
     /\ roleActive' = active
     /\ reviews' = IF active THEN left ELSE reviews
     /\ Change(IF ready THEN Prepared(told) ELSE told)
     /\ IF ready /\ ~HasReadyResume
        THEN Queue(told, "retry", pair.version + 1) ELSE UNCHANGED jobs
     /\ rechecks' = rechecks \ {r}
     /\ UNCHANGED <<gens, manifest>>

\* resumeAfterRecheck: the candidate's original resume was found.
RecheckResume(r) ==
  LET left == reviews \ {"original_resume_missing"}
      p == [pair EXCEPT !.intent = "interested", !.workflow = "preparing_resume"]
  IN /\ r.target = "resume"
     /\ Visible
     /\ pair.version = r.expected
     /\ pair.workflow = "needs_review"
     /\ reviews' = left
     /\ IF left /= {} THEN UNCHANGED <<pair, jobs>>
        ELSE Change(p) /\ Queue(p, "retry", pair.version + 1)
     /\ rechecks' = rechecks \ {r}
     /\ UNCHANGED <<roleActive, gens, manifest>>

\* A recheck finds the resume still missing, or the pair no longer as expected.
DropRecheck(r) ==
  /\ rechecks' = rechecks \ {r}
  /\ UNCHANGED <<pair, roleActive, reviews, jobs, gens, manifest>>

\* applySubmissionProof: while a resume is prepared the version stays, so that
\* the preparation goes on.
ProveSubmission ==
  LET p == [pair EXCEPT !.submission = "proven"]
  IN /\ Visible
     /\ pair.submission /= "proven"
     /\ pair.workflow \in {"preparing_resume", "interested", "needs_review"}
     /\ pair.intent \in {"interested", "unclear"}
     /\ IF Preparing(pair) \/ ActiveGenerations /= {} THEN pair' = p ELSE Change(p)
     /\ reviews' = IF pair.workflow = "needs_review" THEN {} ELSE reviews
     /\ UNCHANGED <<roleActive, jobs, gens, rechecks, manifest>>

-----------------------------------------------------------------------------
(* The preparation jobs: claim, start a generation, build, publish or fail *)

Running(j, pc) == jobs[j].state = "running" /\ jobs[j].live /\ jobs[j].pc = pc

At(j, pc) == [jobs EXCEPT ![j].pc = pc]

\* The job row after fail_job or complete_job.
Ended(j, state) ==
  [jobs EXCEPT ![j].state = state, ![j].live = FALSE, ![j].pc = "none"]

\* fail_job with a retryable error.
Retried(j) == Ended(j, IF jobs[j].attempts < MaxAttempts THEN "queued" ELSE "failed")

\* Mutant: one attempt too many.
ClaimOnceMore(j) ==
  /\ jobs[j].attempts <= MaxAttempts
  /\ jobs[j].state \in {"queued", "running"} /\ ~jobs[j].live
  /\ jobs' = [jobs EXCEPT ![j].state = "running", ![j].live = TRUE, ![j].pc = "start",
                          ![j].gen = 0, ![j].attempts = jobs[j].attempts + 1]
  /\ UNCHANGED <<pair, roleActive, reviews, gens, rechecks, manifest>>

\* claim_jobs, of a queued job or of one whose worker is gone.
Claim(j) ==
  /\ jobs[j].attempts < MaxAttempts
  /\ jobs[j].state \in {"queued", "running"} /\ ~jobs[j].live
  /\ jobs' = [jobs EXCEPT ![j].state = "running", ![j].live = TRUE, ![j].pc = "start",
                          ![j].gen = 0, ![j].attempts = jobs[j].attempts + 1]
  /\ UNCHANGED <<pair, roleActive, reviews, gens, rechecks, manifest>>

\* The worker died, or stopped renewing its lease.
LeaseExpires(j) ==
  /\ jobs[j].live
  /\ jobs' = [jobs EXCEPT ![j].live = FALSE]
  /\ UNCHANGED <<pair, roleActive, reviews, gens, rechecks, manifest>>

\* The pair still matches what the job was queued for.
Eligible(trigger) ==
  CASE trigger = "initial" -> pair.intent = "interested" /\ Preparing(pair)
    [] trigger = "regenerate" -> Regeneratable
    [] trigger = "retry" ->
         /\ pair.intent = "interested"
         /\ \/ Preparing(pair)
            \/ /\ pair.workflow = "needs_review"
               /\ reviews /= {} /\ reviews \subseteq ResumeBlockers

\* startResumeGeneration; every attempt has its own idempotency key, and the
\* table takes one active generation per pair.
StartGeneration(j) ==
  /\ Running(j, "start")
  /\ Visible
  /\ pair.version = jobs[j].expected
  /\ Eligible(jobs[j].trigger)
  /\ ActiveGenerations = {}
  /\ gens' = Append(gens, [status |-> "active", expected |-> pair.version,
                           trigger |-> jobs[j].trigger, prior |-> pair.resume,
                           late |-> FALSE, copy |-> "none"])
  /\ jobs' = [jobs EXCEPT ![j].pc = "build", ![j].gen = Len(gens) + 1]
  /\ UNCHANGED <<pair, roleActive, reviews, rechecks, manifest>>

\* No generation: the attempt is repeated; after the last one, or an error that
\* is not retryable, the failure cannot be routed and the job fails.
StartFails(j) ==
  /\ Running(j, "start")
  /\ jobs' \in {Retried(j), Ended(j, "failed")}
  /\ UNCHANGED <<pair, roleActive, reviews, gens, rechecks, manifest>>

\* assertGenerationFence, behind every write of a build.
GenerationFence(j) ==
  gens[jobs[j].gen].status = "active" /\ Visible /\ AtExpected(jobs[j].gen)

\* lockPair at the version of the generation.
MayPublish(j) ==
  gens[jobs[j].gen].status /= "succeeded" /\ Visible /\ AtExpected(jobs[j].gen)

\* promoteResumeArtifacts; a retry resolves the blockers of the resume and
\* gives up when another review is open.
Promote(j) ==
  LET g == jobs[j].gen
      retry == gens[g].trigger = "retry"
  IN /\ Running(j, "build")
     /\ MayPublish(j)
     /\ retry => reviews \subseteq ResumeBlockers
     /\ reviews' = IF retry THEN reviews \ ResumeBlockers ELSE reviews
     /\ Change([pair EXCEPT !.intent = "interested", !.workflow = "interested", !.resume = g])
     /\ gens' = [h \in DOMAIN gens |->
          CASE h = g -> [Closed(gens[h], "succeeded") EXCEPT !.copy = "current"]
            [] h /= g /\ gens[h].copy = "current" -> [gens[h] EXCEPT !.copy = "superseded"]
            [] OTHER -> gens[h]]
     /\ jobs' = At(j, "done")
     /\ UNCHANGED <<roleActive, rechecks, manifest>>

\* A retryable failure: abandonGenerationForRetry closes the generation when its
\* fence still holds, and the job is queued again.
AbandonGeneration(j) ==
  /\ Running(j, "build")
  /\ jobs[j].attempts < MaxAttempts
  /\ gens' = IF GenerationFence(j)
             THEN [gens EXCEPT ![jobs[j].gen] = Closed(gens[jobs[j].gen], "failed")]
             ELSE gens
  /\ jobs' = At(j, "again")
  /\ UNCHANGED <<pair, roleActive, reviews, rechecks, manifest>>

Requeue(j) ==
  /\ Running(j, "again")
  /\ jobs' = Retried(j)
  /\ UNCHANGED <<pair, roleActive, reviews, gens, rechecks, manifest>>

\* A failure for good, of a generation that has a resume to fall back to.
FallsBack(g) == gens[g].trigger = "regenerate" \/ gens[g].prior /= 0

FailRegeneration(j) ==
  LET g == jobs[j].gen
  IN /\ Running(j, "build")
     /\ FallsBack(g) /\ gens[g].status /= "succeeded"
     /\ gens' = [gens EXCEPT ![g] = Closed(gens[g], "failed")]
     /\ jobs' = At(j, "done")
     /\ UNCHANGED <<pair, roleActive, reviews, rechecks, manifest>>

\* ... and of one that has none: the pair goes to Needs Review.
FailInitialGeneration(j, reason) ==
  LET g == jobs[j].gen
  IN /\ Running(j, "build")
     /\ ~FallsBack(g)
     /\ AtExpected(g)
     /\ Change([pair EXCEPT !.intent = "interested", !.workflow = "needs_review"])
     /\ reviews' = reviews \cup {reason}
     /\ gens' = [gens EXCEPT ![g] = Closed(gens[g], "failed")]
     /\ jobs' = At(j, "done")
     /\ UNCHANGED <<roleActive, rechecks, manifest>>

\* The pair changed under the build: nothing is routed.
FailStale(j) ==
  LET g == jobs[j].gen
  IN /\ Running(j, "build")
     /\ ~FallsBack(g)
     /\ ~AtExpected(g)
     /\ jobs' = At(j, "over")
     /\ UNCHANGED <<pair, roleActive, reviews, gens, rechecks, manifest>>

\* complete_job after a publication or a routed failure, fail_job otherwise.
EndJob(j) ==
  /\ \/ Running(j, "done") /\ jobs' = Ended(j, "succeeded")
     \/ Running(j, "over") /\ jobs' = Ended(j, "failed")
  /\ UNCHANGED <<pair, roleActive, reviews, gens, rechecks, manifest>>

-----------------------------------------------------------------------------
(* recoverExpiredResumeGenerations, in every tick of a worker *)

DeadlinePasses(g) ==
  /\ gens[g].status = "active" /\ ~gens[g].late
  /\ gens' = [gens EXCEPT ![g].late = TRUE]
  /\ UNCHANGED <<pair, roleActive, reviews, jobs, rechecks, manifest>>

\* A resume is still current and every refresh of it has ended.
RecoverReady ==
  /\ Visible
  /\ pair.intent = "interested" /\ Preparing(pair)
  /\ HasReadyResume
  /\ reviews = {}
  /\ ~UnderWay
  /\ Change([pair EXCEPT !.workflow = "interested"])
  /\ UNCHANGED <<roleActive, reviews, jobs, gens, rechecks, manifest>>

\* Mutant: the lease of a running job is not looked at.
RunningAtAll == \E j \in DOMAIN jobs : jobs[j].state = "running"

\* A worker holds a live lease on a preparation job of the pair.
Building == \E j \in DOMAIN jobs : jobs[j].state = "running" /\ jobs[j].live

\* A generation nobody builds any more ran out of time.
RecoverExpired(g) ==
  LET routed == /\ Visible
                /\ gens[g].prior = 0
                /\ pair.intent = "interested" /\ Preparing(pair)
                /\ AtExpected(g)
  IN /\ gens[g].status = "active" /\ gens[g].late
     /\ ~Building
     /\ gens' = [gens EXCEPT ![g] = Closed(gens[g], "failed")]
     /\ IF routed THEN Change([pair EXCEPT !.workflow = "needs_review"]) ELSE UNCHANGED pair
     /\ reviews' = IF routed /\ pair.submission /= "proven"
                   THEN reviews \cup {"preparation_failed"} ELSE reviews
     /\ UNCHANGED <<roleActive, jobs, rechecks, manifest>>

-----------------------------------------------------------------------------
Replies ==
  \/ \E label \in Destinations, reason \in {"reply_unclear", "role_unclear"} :
       Classify(label, reason) \/ ClassificationRecovers(label, reason)
  \/ ClassificationFails

Recruiter ==
  \/ AddCandidate \/ Rearm \/ Correct \/ ResolveReview \/ RetryPreparation \/ Regenerate
  \/ \E target \in {"resume", "role"} : RequestRecheck(target)
  \/ OpenSubmit \/ MarkSubmitted \/ UnmarkSubmitted \/ MarkBadFit \/ ClearBadFit
  \/ SoftDelete \/ RestoreCase

Sources ==
  \/ \E active \in BOOLEAN : IndexRole(active)
  \/ \E r \in rechecks :
       \/ \E active \in BOOLEAN : RecheckRole(r, active)
       \/ RecheckResume(r)
       \/ DropRecheck(r)
  \/ ProveSubmission

Clock ==
  \/ \E j \in DOMAIN jobs : LeaseExpires(j)
  \/ \E g \in DOMAIN gens : DeadlinePasses(g)

\* How an execution that has a generation ends it.
Conclude(j) ==
  \/ Promote(j) \/ AbandonGeneration(j) \/ FailRegeneration(j) \/ FailStale(j)
  \/ \E reason \in ResumeBlockers : FailInitialGeneration(j, reason)

Prepare(j) ==
  \/ Claim(j) \/ StartGeneration(j) \/ StartFails(j) \/ Conclude(j) \/ Requeue(j) \/ EndJob(j)

Recover == RecoverReady \/ \E g \in DOMAIN gens : RecoverExpired(g)

Worker == Recover \/ \E j \in DOMAIN jobs : Prepare(j)

Next == Replies \/ Recruiter \/ Sources \/ Clock \/ Worker

Spec == Init /\ [][Next]_vars

\* An execution goes on or loses its lease, time passes, and every tick of a
\* worker runs the recovery.  Nobody has to claim a job or answer a review.
Execution(j) ==
  /\ j \in DOMAIN jobs
  /\ \/ StartGeneration(j) \/ StartFails(j) \/ Conclude(j) \/ Requeue(j) \/ EndJob(j)
     \/ LeaseExpires(j)

Fairness ==
  /\ \A j \in 1 .. MaxJobs : WF_vars(Execution(j))
  /\ \A g \in GenIds : /\ WF_vars(g \in DOMAIN gens /\ DeadlinePasses(g))
                       /\ WF_vars(g \in DOMAIN gens /\ RecoverExpired(g))

FairSpec == Spec /\ Fairness

-----------------------------------------------------------------------------
(* What must hold *)

\* The deferred constraints assert_pair_review_consistency and
\* assert_pair_artifact_set never have to refuse a commit: outside Needs Review
\* nothing is open, in Needs Review something is (unless the submission is
\* proven), and a visible Interested pair has the one current resume.
TablesAgree ==
  /\ pair.workflow /= "needs_review" => reviews = {}
  /\ Exists /\ pair.workflow = "needs_review" /\ pair.submission /= "proven" => reviews /= {}
  /\ Visible /\ pair.workflow = "interested" => HasReadyResume
  /\ \A g, h \in DOMAIN gens : gens[g].copy = "current" /\ gens[h].copy = "current" => g = h

\* A deleted case can be given back during its whole recovery window: no
\* command, job or index run touches what its manifest describes.
DeletedCaseIsRestorable ==
  pair.hidden => Restorable /\ ~UnderWay /\ rechecks = {}

\* A resume is published by a live build of an open generation, and nobody took
\* a decision about the pair since its preparation was asked for.
PublishesWhatWasAsked ==
  [][\A j \in DOMAIN jobs :
       pair'.resume /= pair.resume /\ jobs[j].gen = pair'.resume =>
         /\ gens[jobs[j].gen].status = "active"
         /\ Decision(pair) = jobs[j].asked]_vars

\* What workers do by themselves never changes what the candidate or a
\* recruiter said: not the intent, not a mark, not a proof, not a negative.
WorkersDecideNothing ==
  [][Worker => /\ pair'.intent = pair.intent
               /\ pair'.submission = pair.submission
               /\ \/ pair' = pair
                  \/ pair.workflow \in {"preparing_resume", "interested", "needs_review"}]_vars

\* A proven submission is history: it stays proven, and its pair moves only
\* along the lifecycle a resume may still go through.
ProvenStaysProven ==
  [][pair.submission = "proven" =>
       /\ pair'.submission = "proven"
       /\ pair'.intent /= "not_interested"
       /\ pair.workflow = "interested" => pair'.workflow = "interested"]_vars

\* Whatever happens to its pair and to its worker, a generation does not stay
\* active for ever, so that the pair can be prepared again.
GenerationsEnd ==
  \A g \in GenIds :
    g \in ActiveGenerations ~> (g \notin ActiveGenerations \/ pair.version = MaxVersion)

-----------------------------------------------------------------------------
(* What the repository says of itself and the code does not keep *)

\* SUBMISSIONS-V2-IMPLEMENTATION.md:37: "classifier failures, or preparation
\* failures go to Needs Review": when a pair is still to be prepared and has no
\* resume, some preparation of it goes on: a build, or a job that a worker has or
\* may still take.
FailuresGoToReview ==
  Visible /\ Preparing(pair) /\ ~HasReadyResume =>
    \/ ActiveGenerations /= {}
    \/ \E j \in PendingJobs : jobs[j].live \/ jobs[j].attempts < MaxAttempts
=============================================================================
