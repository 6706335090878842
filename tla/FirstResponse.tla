---------------------------- MODULE FirstResponse ----------------------------
(***************************************************************************)
(* How the replies of candidates become candidate-role pairs: the intake of *)
(* e-mails, the claims on first responses, the classification jobs, and     *)
(* what recruiters do with replies nobody could place                       *)
(* (api/submissions-v2/_lib/service.mjs, api/submissions-v2/_lib/           *)
(* repository.mjs, migrations 010 and 011).                                 *)
(*                                                                          *)
(* Each action is one transaction, or the reads before one.  The same       *)
(* e-mail is delivered by the push route and again by three reconciling     *)
(* jobs, so two deliveries of it may be under way.  A classification job    *)
(* has one execution that can write (JobQueue), and reads the reply in one  *)
(* transaction and applies the answer in another.  Machine messages and     *)
(* malformed events are recorded and end there: the messages here are       *)
(* replies.  Controls stay on, and no case is purged (CasePurge).           *)
(***************************************************************************)
EXTENDS Naturals, Sequences

CONSTANTS
  Candidates,
  Roles,
  Messages,
  Deliveries,  \* requests or jobs that may deliver e-mails at the same time
  Matches,     \* what the candidate index may answer about a message: one, or none
  Readings,    \* the sets of offered roles the intake may read in a message
  Direct,      \* a recruiter's addition or a change of a curated list
  Unknown,     \* no candidate
  Added,       \* bound: the cases that are opened without a reply
  MaxJobs      \* bound: recruiters ask for a classification while there are fewer

ASSUME MessagesAssumption ==
  /\ Matches \in [Messages -> SUBSET (Candidates \cup {Unknown})]
  /\ Readings \in [Messages -> SUBSET SUBSET Roles]
  /\ Direct \notin Messages
  /\ Unknown \notin Candidates
  /\ Added \subseteq Candidates \X Roles
  /\ MaxJobs \in Nat

VARIABLES
  signal,    \* source_events, each with its offered roles and its open reviews
  delivery,  \* the executions of intakeMasterInbox
  claims,    \* first_response_claims
  pair,      \* candidate_role_pairs, with the event that created each
  jobs,      \* the classify_email_reply jobs, in the order they were queued
  news       \* the submission_added rows of notification_outbox

vars == <<signal, delivery, claims, pair, jobs, news>>

Cases == Candidates \X Roles
Events == Messages \cup {Direct}
Reasons == {"candidate", "role", "failed"}
States == {"absent", "ready", "needs_candidate", "needs_role", "quarantined",
           "resolved", "ignored_later"}
Stages == {"none", "unclear", "hidden", "settled"}

TypeOK ==
  /\ signal \in [Messages -> [state : States, cand : Candidates \cup {Unknown},
                              offered : SUBSET Roles, reviews : SUBSET Reasons]]
  /\ delivery \in [Deliveries ->
       [pc : {"idle", "claim", "record"}, msg : Events, to : States,
        cand : Candidates \cup {Unknown}, offered : SUBSET Roles]]
  /\ claims \subseteq [case : Cases, event : Events, state : {"pending", "bound", "released"}]
  /\ \A c \in Cases : \A k, l \in claims :
       k.case = c /\ l.case = c /\ k.state /= "released" /\ l.state /= "released" => k = l
  /\ pair \in [Cases -> [stage : Stages, first : Events]]
  /\ jobs \in Seq([msg : Messages, cand : Candidates \cup {Unknown}, scope : SUBSET Roles,
                   pc : {"queued", "classify", "done", "failed"}, read : SUBSET Roles])
  /\ news \in [lineage : SUBSET Messages, about : [Messages -> SUBSET Cases], own : SUBSET Cases]

-----------------------------------------------------------------------------
(* Reading the tables *)

Exists(c) == pair[c].stage /= "none"

Of(candidate, roles) == {candidate} \X roles

Active(c) == {k \in claims : k.case = c /\ k.state /= "released"}

\* Mutant: without the index on active claims.
MayClaimAgain(c, e) == \A k \in claims : ~(e /= Direct /\ k.event = e /\ k.case[2] = c[2])

\* The two unique indexes of first_response_claims: one active claim of a case,
\* one claim of a role by an event, released or not.
MayClaim(c, e) ==
  /\ Active(c) = {}
  /\ \A k \in claims : ~(e /= Direct /\ k.event = e /\ k.case[2] = c[2])

\* reserveFirstResponse, for several cases of one candidate.
Reserved(cases, e) ==
  claims \cup {[case |-> c, event |-> e, state |-> "pending"] :
               c \in {x \in cases : MayClaim(x, e)}}

\* Mutant: the active claim is read, but not whose it is.
GrantedToAny(cases, e) == cases

Granted(cases, e) ==
  {c \in cases : MayClaim(c, e) \/ \E k \in Active(c) : k.event = e}

Bound(rows, cases, e) ==
  {IF k.case \in cases /\ k.event = e /\ k.state = "pending"
   THEN [k EXCEPT !.state = "bound"] ELSE k : k \in rows}

Closed(m) == signal[m].state \in {"resolved", "ignored_later"}

\* Mutant: the reply keeps its state when no role was applied.
AfterSomething(m, applied, to) == IF applied = {} THEN signal[m].state ELSE to

\* The state of a reply that was classified or routed.
After(m, applied, to) == IF applied = {} THEN "ignored_later" ELSE to

\* Cases that a message opened (pair_signal_links, signal_role_decisions).
Opened(m) == {c \in Cases : Exists(c) /\ pair[c].first = m}

\* A pair that waits for the classification of m to be repeated.
Recoverable(m, c) == pair[c].stage = "unclear" /\ pair[c].first = m

Job(m, candidate, scope) ==
  [msg |-> m, cand |-> candidate, scope |-> scope, pc |-> "queued", read |-> {}]

Candidate(j) == IF jobs[j].cand /= Unknown THEN jobs[j].cand ELSE signal[jobs[j].msg].cand

Idle == [pc |-> "idle", msg |-> Direct, to |-> "absent", cand |-> Unknown, offered |-> {}]

Init ==
  /\ signal = [m \in Messages |-> [state |-> "absent", cand |-> Unknown, offered |-> {}, reviews |-> {}]]
  /\ delivery = [d \in Deliveries |-> Idle]
  /\ claims = {}
  /\ pair = [c \in Cases |-> [stage |-> "none", first |-> Direct]]
  /\ jobs = <<>>
  /\ news = [lineage |-> {}, about |-> [m \in Messages |-> {}], own |-> {}]

-----------------------------------------------------------------------------
(* Announcements *)

\* queueSignalAdmission: one row per reply, however many reviews it gets.
TellOfReply(m) == news' = [news EXCEPT !.lineage = @ \cup {m}]

\* Mutant: the case that takes over the row of the reply gets a row of its own, too.
TellOfCasesTwice(m, opened) ==
  \/ opened = {} /\ UNCHANGED news
  \/ /\ opened /= {} /\ m \in news.lineage /\ news.about[m] = {}
     /\ \E heir \in opened :
          news' = [news EXCEPT !.about[m] = {heir}, !.own = @ \cup opened]
  \/ /\ ~(m \in news.lineage /\ news.about[m] = {})
     /\ opened /= {}
     /\ news' = [news EXCEPT !.own = @ \cup opened]

\* queuePairAdmission: the row of the reply becomes the row of the first case it
\* opens, if it has one without a case; every other case gets a row of its own.
TellOfCases(m, opened) ==
  \/ opened = {} /\ UNCHANGED news
  \/ /\ opened /= {} /\ m \in news.lineage /\ news.about[m] = {}
     /\ \E heir \in opened :
          news' = [news EXCEPT !.about[m] = {heir}, !.own = @ \cup (opened \ {heir})]
  \/ /\ ~(m \in news.lineage /\ news.about[m] = {})
     /\ opened /= {}
     /\ news' = [news EXCEPT !.own = @ \cup opened]

-----------------------------------------------------------------------------
(* intakeMasterInbox *)

\* The reads of an intake: no row of the message yet, who sent it, what it offers.
Receive(d, m) ==
  /\ delivery[d].pc = "idle"
  /\ signal[m].state = "absent"
  /\ \E candidate \in Matches[m], offered \in Readings[m] :
       LET to == IF offered = {} THEN "needs_role"
                 ELSE IF candidate = Unknown THEN "needs_candidate" ELSE "ready"
       IN delivery' = [delivery EXCEPT ![d] =
            [pc |-> IF to = "ready" THEN "claim" ELSE "record", msg |-> m, to |-> to,
             cand |-> candidate, offered |-> offered]]
  /\ UNCHANGED <<signal, claims, pair, jobs, news>>

\* claimEmailFirstResponse: roles answered before are dropped, and a reply that
\* is left with none of them is not recorded at all.
ClaimRoles(d) ==
  LET new == {c \in Of(delivery[d].cand, delivery[d].offered) : ~Exists(c)}
      granted == Granted(new, delivery[d].msg)
  IN /\ delivery[d].pc = "claim"
     /\ claims' = Reserved(new, delivery[d].msg)
     /\ delivery' = [delivery EXCEPT ![d] =
          IF granted = {} THEN Idle
          ELSE [@ EXCEPT !.pc = "record", !.offered = {c[2] : c \in granted}]]
     /\ UNCHANGED <<signal, pair, jobs, news>>

\* Mutant: a reply whose sender is unknown gets the review about the candidate.
ReviewOfSender(e) ==
  CASE e.to = "ready" -> {}
    [] e.to /= "ready" /\ e.cand = Unknown -> {"candidate"}
    [] OTHER -> {"role"}

\* The review that a recorded reply opens.
ReviewOf(e) ==
  CASE e.to = "needs_candidate" -> {"candidate"}
    [] e.to = "needs_role" -> {"role"}
    [] OTHER -> {}

\* recordEmailSource of a message that has no row.
Record(d) ==
  LET m == delivery[d].msg
      cases == Of(delivery[d].cand, delivery[d].offered)
  IN /\ delivery[d].pc = "record"
     /\ signal[m].state = "absent"
     /\ signal' = [signal EXCEPT ![m] =
          [state |-> delivery[d].to, cand |-> delivery[d].cand,
           offered |-> delivery[d].offered, reviews |-> ReviewOf(delivery[d])]]
     /\ IF delivery[d].to = "ready"
        THEN /\ cases \subseteq Granted(cases, m)
             /\ claims' = Bound(claims, cases, m)
             /\ jobs' = Append(jobs, Job(m, Unknown, {}))
             /\ UNCHANGED news
        ELSE TellOfReply(m) /\ UNCHANGED <<claims, jobs>>
     /\ delivery' = [delivery EXCEPT ![d] = Idle]
     /\ UNCHANGED pair

\* The message has a row by now, or the delivery fails or dies on the way.
Leave(d) ==
  /\ delivery[d].pc /= "idle"
  /\ delivery' = [delivery EXCEPT ![d] = Idle]
  /\ UNCHANGED <<signal, claims, pair, jobs, news>>

-----------------------------------------------------------------------------
(* classify_email_reply *)

\* sourceForClassification: the roles the reply still holds a claim on.
Eligible(m, candidate, scope) ==
  {r \in signal[m].offered :
     /\ scope = {} \/ r \in scope
     /\ [case |-> <<candidate, r>>, event |-> m, state |-> "bound"] \in claims
     /\ ~Exists(<<candidate, r>>) \/ Recoverable(m, <<candidate, r>>)}

Begin(j) ==
  LET m == jobs[j].msg
      roles == Eligible(m, Candidate(j), jobs[j].scope)
  IN /\ jobs[j].pc = "queued"
     /\ \/ /\ Closed(m)
           /\ jobs' = [jobs EXCEPT ![j].pc = "done"]
           /\ UNCHANGED signal
        \/ /\ ~Closed(m) /\ Candidate(j) /= Unknown /\ roles = {}
           /\ jobs' = [jobs EXCEPT ![j].pc = "done"]
           /\ signal' = [signal EXCEPT ![m].state = "ignored_later"]
        \/ /\ ~Closed(m) /\ Candidate(j) /= Unknown /\ roles /= {}
           /\ jobs' = [jobs EXCEPT ![j].pc = "classify", ![j].read = roles]
           /\ UNCHANGED signal
     /\ UNCHANGED <<delivery, claims, pair, news>>

\* Mutant: the claims on roles the reply does not mention are kept.
WithoutRefused(m, decided, applied) ==
  {IF k.event = m /\ k.state = "bound" /\ k.case[2] \in decided \ applied
   THEN [k EXCEPT !.state = "released"] ELSE k : k \in claims}

\* The claims on roles that were not applied are released: another reply may
\* answer for them.
Without(m, decided, applied) ==
  {IF k.event = m /\ k.state = "bound" /\ k.case[2] \notin applied
   THEN [k EXCEPT !.state = "released"] ELSE k : k \in claims}

\* applyClassifiedSignal: the classifier decided some of the roles it was given.
Apply(j, decided) ==
  LET m == jobs[j].msg
      at(r) == <<Candidate(j), r>>
      created == {r \in decided : ~Exists(at(r))}
      applied == created \cup {r \in decided : Recoverable(m, at(r))}
  IN /\ jobs[j].pc = "classify"
     /\ ~Closed(m)
     /\ pair' = [c \in Cases |->
          CASE c \in Of(Candidate(j), created) -> [stage |-> "settled", first |-> m]
            [] c \in Of(Candidate(j), applied \ created) -> [pair[c] EXCEPT !.stage = "settled"]
            [] OTHER -> pair[c]]
     /\ claims' = Without(m, decided, applied)
     /\ signal' = [signal EXCEPT ![m].state = After(m, applied, "resolved"),
                                 ![m].reviews = {}]
     /\ TellOfCases(m, Of(Candidate(j), created))
     /\ jobs' = [jobs EXCEPT ![j].pc = "done", ![j].read = {}]
     /\ UNCHANGED delivery

\* routeClassificationFailure: the candidate is the one the intake found.
Route(j) ==
  LET m == jobs[j].msg
      opened == {c \in Of(signal[m].cand, signal[m].offered) : ~Exists(c)}
  IN /\ jobs[j].pc = "classify"
     /\ ~Closed(m) /\ signal[m].state /= "quarantined"
     /\ IF signal[m].cand /= Unknown
        THEN /\ pair' = [c \in Cases |->
                  IF c \in opened THEN [stage |-> "unclear", first |-> m] ELSE pair[c]]
             /\ signal' = [signal EXCEPT ![m].state = After(m, opened, "quarantined")]
             /\ TellOfCases(m, opened)
        ELSE /\ signal' = [signal EXCEPT ![m].state = "quarantined",
                                         ![m].reviews = @ \cup {"failed"}]
             /\ TellOfReply(m)
             /\ UNCHANGED pair
     /\ jobs' = [jobs EXCEPT ![j].pc = "done", ![j].read = {}]
     /\ UNCHANGED <<delivery, claims>>

\* Both transactions find the reply dealt with by another job.
Skip(j) ==
  /\ jobs[j].pc = "classify"
  /\ Closed(jobs[j].msg) \/ signal[jobs[j].msg].state = "quarantined"
  /\ jobs' = [jobs EXCEPT ![j].pc = "done", ![j].read = {}]
  /\ UNCHANGED <<signal, delivery, claims, pair, news>>

\* A transient error, a deadline or a lost lease: the job is claimed again.
Retry(j) ==
  /\ jobs[j].pc = "classify"
  /\ jobs' = [jobs EXCEPT ![j].pc = "queued", ![j].read = {}]
  /\ UNCHANGED <<signal, delivery, claims, pair, news>>

\* The last attempt fails: no candidate, an object that cannot be read, a
\* candidate who left the index.
Fail(j) ==
  /\ jobs[j].pc \in {"queued", "classify"}
  /\ jobs' = [jobs EXCEPT ![j].pc = "failed", ![j].read = {}]
  /\ UNCHANGED <<signal, delivery, claims, pair, news>>

-----------------------------------------------------------------------------
(* Recruiters *)

\* enqueueSignalAction: only an open classifier failure can be retried.
RetryClassification(m) ==
  /\ Len(jobs) < MaxJobs
  /\ signal[m].state = "quarantined"
  /\ \/ "failed" \in signal[m].reviews
     \/ \E c \in Opened(m) : pair[c].stage \in {"unclear", "hidden"}
  /\ jobs' = Append(jobs, Job(m, Unknown, {}))
  /\ UNCHANGED <<signal, delivery, claims, pair, news>>

\* The reviews that bindUnresolvedSignal settles, by the state of the reply.
Allowed(m) ==
  CASE signal[m].state = "needs_candidate" -> {"candidate"}
    [] signal[m].state = "needs_role" -> {"role"}
    [] signal[m].state = "quarantined" -> {"failed"}
    [] OTHER -> {}

\* bindUnresolvedSignal: the reply is from that candidate, about these roles.
\* When all of them were answered before the reply is closed, otherwise they are
\* claimed and classified; the review stays open until then.
Bind(m, candidate, chosen) ==
  LET offered == IF signal[m].state = "needs_role"
                 THEN signal[m].offered \cup chosen ELSE signal[m].offered
      cases == Of(candidate, chosen)
  IN /\ Allowed(m) \cap signal[m].reviews /= {}
     /\ Opened(m) = {}
     /\ chosen /= {} /\ chosen \subseteq offered
     /\ \/ /\ \A c \in cases : Exists(c)
           /\ signal' = [signal EXCEPT ![m].state = "ignored_later", ![m].offered = offered,
                                       ![m].reviews = @ \ Allowed(m)]
           /\ UNCHANGED <<claims, jobs>>
        \/ /\ Len(jobs) < MaxJobs
           /\ \A c \in cases : ~Exists(c)
           /\ cases \subseteq Granted(cases, m)
           /\ claims' = Bound(Reserved(cases, m), cases, m)
           /\ signal' = [signal EXCEPT ![m].state = "ready", ![m].offered = offered]
           /\ jobs' = Append(jobs, Job(m, candidate, chosen))
     /\ UNCHANGED <<delivery, pair, news>>

\* dismissUnresolvedSignal: no candidate and no role are at work on the reply.
Dismiss(m) ==
  /\ signal[m].state \in {"needs_candidate", "needs_role", "quarantined"}
  /\ signal[m].reviews /= {}
  /\ \A j \in DOMAIN jobs : jobs[j].msg = m => jobs[j].pc \in {"done", "failed"}
  /\ \A k \in claims : k.event = m => k.state = "released"
  /\ Opened(m) = {}
  /\ signal' = [signal EXCEPT ![m].state = "ignored_later", ![m].reviews = {}]
  /\ UNCHANGED <<delivery, claims, pair, jobs, news>>

\* A pair opened without a reply, by an event of its own.
OpenDirectly(c) ==
  /\ ~Exists(c)
  /\ Active(c) = {}
  /\ claims' = Bound(Reserved({c}, Direct), {c}, Direct)
  /\ pair' = [pair EXCEPT ![c] = [stage |-> "settled", first |-> Direct]]
  /\ news' = [news EXCEPT !.own = @ \cup {c}]
  /\ UNCHANGED <<signal, delivery, jobs>>

\* addCandidate: refused while an earlier response is still being processed.
AddCandidate(c) == OpenDirectly(c)

\* applyCuratedObservations: a status that turned into an answer.
ObserveCurated(c) == OpenDirectly(c)

\* transition: a recruiter decides what the classifier could not.
Correct(c) ==
  /\ pair[c].stage = "unclear"
  /\ pair' = [pair EXCEPT ![c].stage = "settled"]
  /\ UNCHANGED <<signal, delivery, claims, jobs, news>>

\* softDeleteCase and restoreCase, as far as a repeated classification can tell.
Hide(c) ==
  /\ pair[c].stage = "unclear"
  /\ pair' = [pair EXCEPT ![c].stage = "hidden"]
  /\ UNCHANGED <<signal, delivery, claims, jobs, news>>

Restore(c) ==
  /\ pair[c].stage = "hidden"
  /\ pair' = [pair EXCEPT ![c].stage = "unclear"]
  /\ UNCHANGED <<signal, delivery, claims, jobs, news>>

-----------------------------------------------------------------------------
Intake ==
  \/ \E d \in Deliveries, m \in Messages : Receive(d, m)
  \/ \E d \in Deliveries : ClaimRoles(d) \/ Record(d) \/ Leave(d)

Settle(j) ==
  \/ \E decided \in (SUBSET jobs[j].read) \ {{}} : Apply(j, decided)
  \/ Route(j)
  \/ Skip(j)

Classify(j) == Begin(j) \/ Settle(j) \/ Retry(j) \/ Fail(j)

Recruit ==
  \/ \E m \in Messages : RetryClassification(m) \/ Dismiss(m)
  \/ \E m \in Messages, c \in Candidates, chosen \in SUBSET Roles : Bind(m, c, chosen)
  \/ \E c \in Added : AddCandidate(c) \/ ObserveCurated(c)
  \/ \E c \in Cases : Correct(c) \/ Hide(c) \/ Restore(c)

Next == Intake \/ (\E j \in DOMAIN jobs : Classify(j)) \/ Recruit

\* The worker takes every job until its attempts are used up, and the last of
\* them ends the job (JobQueue says when).  Nobody has to deliver or decide.
Fairness ==
  \A j \in 1 .. MaxJobs + 2 :
    /\ WF_vars(j \in DOMAIN jobs /\ (Begin(j) \/ Fail(j)))
    /\ SF_vars(j \in DOMAIN jobs /\ (Settle(j) \/ Fail(j)))

Spec == Init /\ [][Next]_vars /\ Fairness

-----------------------------------------------------------------------------
(* Properties *)

HandBound(m) == \E j \in DOMAIN jobs : jobs[j].msg = m /\ jobs[j].cand /= Unknown

\* "The first candidate response owns this candidate-role pair forever"
\* (repository.mjs:1556): a case is opened only by the event that holds the
\* claim on it, however deliveries, classifications, bindings and additions
\* interleave.  The classifier failing on a reply that a recruiter bound is left
\* out: routeClassificationFailure opens the cases of the candidate the intake
\* had found, not of the one the recruiter named.
OwnersCreate ==
  [][\A c \in Cases : ~Exists(c) /\ Exists(c)' =>
       LET e == pair'[c].first
       IN \/ [case |-> c, event |-> e, state |-> "bound"] \in claims'
          \/ e /= Direct /\ HandBound(e) /\ signal'[e].state = "quarantined"]_vars

\* queueSignalAdmission and queuePairAdmission: every case is announced by
\* exactly one row, its own or the one of the reply that opened it.
AnnouncedOnce ==
  \A c \in Cases :
    LET by == {m \in Messages : c \in news.about[m]}
    IN /\ Exists(c) <=> (c \in news.own \/ by /= {})
       /\ ~(c \in news.own /\ by /= {})
       /\ by \subseteq {pair[c].first}

\* A reply that nobody could place is on the Review page: as the review that
\* bindUnresolvedSignal asks for, or as a case that it opened.
UnresolvedIsShown ==
  \A m \in Messages :
    Allowed(m) \subseteq signal[m].reviews
      \/ (signal[m].state = "quarantined" /\ Opened(m) /= {})

\* A claim keeps every other reply from its case, so a claim without a case
\* belongs to a reply that is still to be classified.  When a recruiter named the
\* candidate and the classifier failed, the claim waits for the next binding, and
\* a reply that is closed then leaves it behind: by a binding to cases that exist,
\* or because the cases of the candidate in the envelope do.
ClaimsLeadOn ==
  \A k \in claims : k.state = "bound" /\ ~Exists(k.case) =>
    \/ signal[k.event].state = "ready"
    \/ HandBound(k.event) /\ signal[k.event].state \in {"quarantined", "ignored_later"}

\* A reply that is ready is classified or routed, unless the job last queued for
\* it fails: nothing routes a classification that ends with another error than
\* the classifier's own.
RepliesAreSettled ==
  \A m \in Messages :
    signal[m].state = "ready" ~>
      \/ signal[m].state /= "ready"
      \/ \E j \in DOMAIN jobs :
           /\ jobs[j].msg = m /\ jobs[j].pc = "failed"
           /\ \A i \in DOMAIN jobs : jobs[i].msg = m => i <= j
=============================================================================
