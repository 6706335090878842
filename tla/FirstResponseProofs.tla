------------------------- MODULE FirstResponseProofs -------------------------
(***************************************************************************)
(* What is proved of FirstResponse, for any candidates, roles and replies,  *)
(* any answers of the candidate index and of the offer reader, and any      *)
(* number of deliveries: the first candidate response owns its case, every  *)
(* case is announced once, and nothing that waits for a person is hidden.   *)
(*                                                                          *)
(* The argument follows the claims.  A claim is found by a delivery of the  *)
(* reply, bound when the reply is recorded, and taken away only by the      *)
(* classification that closes the reply, so whoever has read a role of an   *)
(* open reply still holds the claim on it (ReadIsClaimed).  A reply that no *)
(* recruiter bound has claims for the candidate in its envelope only, and   *)
(* for every role that was left unanswered (IntakeClaims).                  *)
(***************************************************************************)
EXTENDS FirstResponse, SequenceTheorems, TLAPS

Claim == [case : Cases, event : Events, state : {"pending", "bound", "released"}]

JobRow == [msg : Messages, cand : Candidates \cup {Unknown}, scope : SUBSET Roles,
           pc : {"queued", "classify", "done", "failed"}, read : SUBSET Roles]

DeliveryRow == [pc : {"idle", "claim", "record"}, msg : Events, to : States,
                cand : Candidates \cup {Unknown}, offered : SUBSET Roles]

SignalRow == [state : States, cand : Candidates \cup {Unknown},
              offered : SUBSET Roles, reviews : SUBSET Reasons]

BoundBy(m, c) == [case |-> c, event |-> m, state |-> "bound"] \in claims

\* The two unique indexes.
OnePerCase(rows) ==
  \A k, l \in rows :
    k.case = l.case /\ k.state /= "released" /\ l.state /= "released" => k = l
OnePerRole(rows) ==
  \A k, l \in rows :
    k.event = l.event /\ k.event /= Direct /\ k.case[2] = l.case[2] => k = l

\* A pair that was opened without a reply was opened in the transaction of its claim.
DirectClaimsHaveCases == \A k \in claims : k.event = Direct => Exists(k.case)

\* Claims are bound in the transaction that makes their reply ready.
BoundIsRecorded ==
  \A k \in claims : k.event /= Direct /\ k.state = "bound" =>
    signal[k.event].state \in {"ready", "quarantined", "resolved", "ignored_later"}

\* What a delivery carries from one transaction to the next.  The claims it was
\* granted are there as long as nobody else recorded the reply.
DeliveriesKnow ==
  \A d \in Deliveries : delivery[d].pc /= "idle" =>
    /\ delivery[d].msg \in Messages
    /\ delivery[d].to \in {"ready", "needs_candidate", "needs_role"}
    /\ delivery[d].pc = "claim" => delivery[d].to = "ready"
    /\ delivery[d].to = "ready" => delivery[d].cand \in Candidates
    /\ delivery[d].pc = "record" /\ delivery[d].to = "ready"
         /\ signal[delivery[d].msg].state = "absent" =>
         \A c \in Of(delivery[d].cand, delivery[d].offered) :
           \E k \in claims : k.case = c /\ k.event = delivery[d].msg /\ k.state /= "released"

JobsAreRecorded ==
  \A j \in DOMAIN jobs :
    /\ signal[jobs[j].msg].state \in {"ready", "quarantined", "resolved", "ignored_later"}
    /\ jobs[j].cand = Unknown => jobs[j].scope = {}

\* Between its two transactions a classification keeps the claims on what it read.
ReadIsClaimed ==
  \A j \in DOMAIN jobs : jobs[j].pc = "classify" /\ ~Closed(jobs[j].msg) =>
    \A r \in jobs[j].read : BoundBy(jobs[j].msg, <<Candidate(j), r>>)

\* A reply that no recruiter bound: its claims are on cases of the candidate in
\* its envelope, and while it is ready they cover what is left to answer.
IntakeClaims ==
  \A m \in Messages : ~HandBound(m) =>
    /\ \A k \in claims : k.event = m /\ k.state = "bound" =>
         k.case \in Of(signal[m].cand, signal[m].offered)
    /\ signal[m].state = "ready" =>
         /\ signal[m].cand \in Candidates
         /\ \A c \in Of(signal[m].cand, signal[m].offered) : Exists(c) \/ BoundBy(m, c)

IInv ==
  /\ TypeOK
  /\ OnePerRole(claims)
  /\ DirectClaimsHaveCases
  /\ BoundIsRecorded
  /\ DeliveriesKnow
  /\ JobsAreRecorded
  /\ ReadIsClaimed
  /\ IntakeClaims
  /\ AnnouncedOnce
  /\ UnresolvedIsShown
  /\ ClaimsLeadOn
-----------------------------------------------------------------------------
(* Types *)

\* The type invariant by its parts, in the names used below.
LEMMA Types ==
  ASSUME TypeOK
  PROVE  /\ signal \in [Messages -> SignalRow]
         /\ delivery \in [Deliveries -> DeliveryRow]
         /\ claims \subseteq Claim /\ OnePerCase(claims)
         /\ pair \in [Cases -> [stage : Stages, first : Events]]
         /\ jobs \in Seq(JobRow)
         /\ news \in [lineage : SUBSET Messages, about : [Messages -> SUBSET Cases],
                     own : SUBSET Cases]
BY DEF TypeOK, SignalRow, DeliveryRow, Claim, OnePerCase, JobRow

\* The same for the next state.
LEMMA TypesNext ==
  ASSUME (signal \in [Messages -> SignalRow])',
         (delivery \in [Deliveries -> DeliveryRow])',
         (claims \subseteq Claim /\ OnePerCase(claims))',
         (pair \in [Cases -> [stage : Stages, first : Events]])',
         (jobs \in Seq(JobRow))',
         (news \in [lineage : SUBSET Messages, about : [Messages -> SUBSET Cases],
                    own : SUBSET Cases])'
  PROVE  TypeOK'
BY DEF TypeOK, SignalRow, DeliveryRow, Claim, OnePerCase, JobRow

\* The initial states satisfy the invariant.
LEMMA InitIInv == Init => IInv
<1> SUFFICES ASSUME Init PROVE IInv
  OBVIOUS
<1>1. jobs = <<>> /\ DOMAIN jobs = {} /\ jobs \in Seq(JobRow)
  BY EmptySeq DEF Init
<1>2. TypeOK
  BY <1>1 DEF Init, TypeOK, Idle, States, Stages, Events, JobRow
<1>3. DeliveriesKnow /\ JobsAreRecorded /\ ReadIsClaimed
  BY <1>1 DEF Init, DeliveriesKnow, JobsAreRecorded, ReadIsClaimed, Idle
<1>4. OnePerRole(claims) /\ DirectClaimsHaveCases /\ BoundIsRecorded /\ ClaimsLeadOn
  BY DEF Init, OnePerRole, DirectClaimsHaveCases, BoundIsRecorded, ClaimsLeadOn
<1>5. IntakeClaims
  BY DEF Init, IntakeClaims
<1>6. AnnouncedOnce
  BY DEF Init, AnnouncedOnce, Exists
<1>7. UnresolvedIsShown
  BY DEF Init, UnresolvedIsShown, Allowed
<1> QED
  BY <1>2, <1>3, <1>4, <1>5, <1>6, <1>7 DEF IInv

-----------------------------------------------------------------------------
(* What the operators on the claims do *)

\* reserveFirstResponse adds pending claims, one of a case and one of a role.
LEMMA ReservedClaims ==
  ASSUME claims \subseteq Claim, OnePerCase(claims), OnePerRole(claims),
         NEW who \in Candidates, NEW roles \in SUBSET Roles,
         NEW cases \in SUBSET Of(who, roles), NEW e \in Events
  PROVE  /\ Reserved(cases, e) \subseteq Claim
         /\ OnePerCase(Reserved(cases, e)) /\ OnePerRole(Reserved(cases, e))
         /\ claims \subseteq Reserved(cases, e)
         /\ \A k \in Reserved(cases, e) : k \notin claims =>
              k.case \in cases /\ k.event = e /\ k.state = "pending"
         /\ \A c \in cases : MayClaim(c, e) =>
              [case |-> c, event |-> e, state |-> "pending"] \in Reserved(cases, e)
<1> DEFINE New == {[case |-> c, event |-> e, state |-> "pending"] :
                   c \in {x \in cases : MayClaim(x, e)}}
<1>1. Reserved(cases, e) = claims \cup New
  BY DEF Reserved
<1>2. \A k \in New : /\ k \in Claim /\ k.case \in cases /\ k.event = e /\ k.state = "pending"
                      /\ MayClaim(k.case, e)
  BY DEF Claim, Of, Cases
<1>3. \A k, l \in New : k.case = l.case => k = l
  OBVIOUS
<1>4. \A k, l \in New : k.case[2] = l.case[2] => k = l
  BY <1>2, <1>3 DEF Of
<1>5. \A k \in claims, l \in New : k.case = l.case => k.state = "released"
  BY <1>2 DEF MayClaim, Active
<1>6. \A k \in claims, l \in New :
        ~(k.event = l.event /\ k.event /= Direct /\ k.case[2] = l.case[2])
  BY <1>2 DEF MayClaim
<1>7. \A c \in cases : MayClaim(c, e) =>
        [case |-> c, event |-> e, state |-> "pending"] \in New
  OBVIOUS
<1> HIDE DEF New
<1>8. OnePerCase(Reserved(cases, e))
  BY <1>1, <1>2, <1>3, <1>5 DEF OnePerCase
<1>9. OnePerRole(Reserved(cases, e))
  BY <1>1, <1>2, <1>4, <1>6 DEF OnePerRole
<1> QED
  BY <1>1, <1>2, <1>7, <1>8, <1>9

\* Binding turns the pending claims of an event on these cases into bound ones.
LEMMA BoundClaims ==
  ASSUME NEW rows \in SUBSET Claim, OnePerCase(rows), OnePerRole(rows),
         NEW cases \in SUBSET Cases, NEW e \in Events
  PROVE  /\ Bound(rows, cases, e) \subseteq Claim
         /\ OnePerCase(Bound(rows, cases, e)) /\ OnePerRole(Bound(rows, cases, e))
         /\ \A k \in Bound(rows, cases, e) : k \notin rows =>
              k.case \in cases /\ k.event = e /\ k.state = "bound"
         /\ \A k \in rows : k.state = "bound" \/ k.event /= e => k \in Bound(rows, cases, e)
         /\ \A k \in rows : k.case \in cases /\ k.event = e /\ k.state /= "released" =>
              [case |-> k.case, event |-> e, state |-> "bound"] \in Bound(rows, cases, e)
<1> DEFINE b(k) == IF k.case \in cases /\ k.event = e /\ k.state = "pending"
                   THEN [k EXCEPT !.state = "bound"] ELSE k
<1>1. Bound(rows, cases, e) = {b(k) : k \in rows}
  BY DEF Bound
<1>2. \A k \in rows :
        /\ b(k) \in Claim /\ b(k).case = k.case /\ b(k).event = k.event
        /\ b(k).state = "released" <=> k.state = "released"
        /\ b(k) = k \/ (k.case \in cases /\ k.event = e /\ b(k).state = "bound")
        /\ k.state = "bound" \/ k.event /= e => b(k) = k
        /\ k.case \in cases /\ k.event = e /\ k.state /= "released" =>
             b(k) = [case |-> k.case, event |-> e, state |-> "bound"]
  BY DEF Claim
<1> HIDE DEF b
<1>3. OnePerCase({b(k) : k \in rows})
  BY <1>2 DEF OnePerCase
<1>4. OnePerRole({b(k) : k \in rows})
  BY <1>2 DEF OnePerRole
<1> QED
  BY <1>1, <1>2, <1>3, <1>4

\* applyClassifiedSignal releases what the reply held on roles it did not apply.
LEMMA ClaimsWithout ==
  ASSUME claims \subseteq Claim, OnePerCase(claims), OnePerRole(claims),
         NEW m \in Messages, NEW decided, NEW applied
  PROVE  /\ Without(m, decided, applied) \subseteq Claim
         /\ OnePerCase(Without(m, decided, applied))
         /\ OnePerRole(Without(m, decided, applied))
         /\ \A k \in Without(m, decided, applied) : \E l \in claims :
              /\ k.case = l.case /\ k.event = l.event
              /\ k.state /= "released" => k = l
              /\ k.event = m /\ k.state = "bound" => k.case[2] \in applied
         /\ \A k \in claims : k.event /= m \/ k.case[2] \in applied =>
              k \in Without(m, decided, applied)
<1> DEFINE w(k) == IF k.event = m /\ k.state = "bound" /\ k.case[2] \notin applied
                   THEN [k EXCEPT !.state = "released"] ELSE k
<1>1. Without(m, decided, applied) = {w(k) : k \in claims}
  BY DEF Without
<1>2. \A k \in claims :
        /\ w(k) \in Claim /\ w(k).case = k.case /\ w(k).event = k.event
        /\ w(k).state /= "released" => w(k) = k
        /\ w(k).event = m /\ w(k).state = "bound" => k.case[2] \in applied
        /\ k.event /= m \/ k.case[2] \in applied => w(k) = k
  BY DEF Claim
<1> HIDE DEF w
<1>3. OnePerCase({w(k) : k \in claims})
  BY <1>2 DEF OnePerCase
<1>4. OnePerRole({w(k) : k \in claims})
  BY <1>2 DEF OnePerRole
<1> QED
  BY <1>1, <1>2, <1>3, <1>4

-----------------------------------------------------------------------------
(* The jobs *)

\* Every job has a row, about a reply.
LEMMA JobRows ==
  ASSUME TypeOK
  PROVE  \A j \in DOMAIN jobs : jobs[j] \in JobRow /\ jobs[j].msg \in Messages
<1>1. jobs \in Seq(JobRow)
  BY Types
<1>2. \A j \in DOMAIN jobs : jobs[j] \in JobRow
  BY <1>1, LenProperties, ElementOfSeq
<1> QED
  BY <1>2 DEF JobRow

\* A job changes its place and what it has read, never what it is about.
LEMMA JobChanges ==
  ASSUME TypeOK, NEW j \in DOMAIN jobs, NEW row \in JobRow,
         row.msg = jobs[j].msg, row.cand = jobs[j].cand, row.scope = jobs[j].scope,
         jobs' = [jobs EXCEPT ![j] = row]
  PROVE  /\ jobs' \in Seq(JobRow) /\ DOMAIN jobs' = DOMAIN jobs
         /\ \A i \in DOMAIN jobs : /\ jobs[i] \in JobRow
                                   /\ jobs'[i] = IF i = j THEN row ELSE jobs[i]
                                   /\ jobs'[i].msg = jobs[i].msg /\ jobs'[i].cand = jobs[i].cand
                                   /\ jobs'[i].scope = jobs[i].scope
         /\ \A m : HandBound(m)' <=> HandBound(m)
<1>1. jobs \in Seq(JobRow)
  BY Types
<1>2. DOMAIN jobs = 1 .. Len(jobs) /\ \A i \in DOMAIN jobs : jobs[i] \in JobRow
  BY <1>1, LenProperties, ElementOfSeq
<1>3. jobs' \in Seq(JobRow) /\ Len(jobs') = Len(jobs)
      /\ \A i \in DOMAIN jobs : jobs'[i] = IF i = j THEN row ELSE jobs[i]
  BY <1>1, <1>2, ExceptSeq
<1>4. DOMAIN jobs' = DOMAIN jobs
  BY <1>2, <1>3, LenProperties
<1>5. \A i \in DOMAIN jobs : /\ jobs'[i].msg = jobs[i].msg /\ jobs'[i].cand = jobs[i].cand
                             /\ jobs'[i].scope = jobs[i].scope
  BY <1>3
<1>6. ASSUME NEW m PROVE HandBound(m)' <=> HandBound(m)
  BY <1>4, <1>5 DEF HandBound
<1> QED
  BY <1>2, <1>3, <1>4, <1>5, <1>6

\* A job is queued behind the others.
LEMMA JobIsQueued ==
  ASSUME TypeOK, NEW row \in JobRow, jobs' = Append(jobs, row)
  PROVE  /\ jobs' \in Seq(JobRow)
         /\ DOMAIN jobs \subseteq DOMAIN jobs'
         /\ \E n \in DOMAIN jobs' : n \notin DOMAIN jobs /\ jobs'[n] = row
         /\ \A i \in DOMAIN jobs' : IF i \in DOMAIN jobs THEN jobs'[i] = jobs[i]
                                    ELSE jobs'[i] = row
         /\ \A m : HandBound(m)' <=> HandBound(m) \/ (row.msg = m /\ row.cand /= Unknown)
<1>1. jobs \in Seq(JobRow)
  BY Types
<1>2. jobs' \in Seq(JobRow) /\ Len(jobs') = Len(jobs) + 1 /\ jobs'[Len(jobs) + 1] = row
      /\ \A i \in 1 .. Len(jobs) : jobs'[i] = jobs[i]
  BY <1>1, AppendProperties
<1>3. Len(jobs) \in Nat /\ DOMAIN jobs = 1 .. Len(jobs) /\ DOMAIN jobs' = 1 .. Len(jobs')
  BY <1>1, <1>2, LenProperties
<1>4. DOMAIN jobs' = DOMAIN jobs \cup {Len(jobs) + 1} /\ Len(jobs) + 1 \notin DOMAIN jobs
  BY <1>2, <1>3
<1>5. \A i \in DOMAIN jobs : jobs'[i] = jobs[i]
  BY <1>2, <1>3
<1>6. ASSUME NEW m
      PROVE  HandBound(m)' <=> HandBound(m) \/ (row.msg = m /\ row.cand /= Unknown)
  BY <1>2, <1>4, <1>5 DEF HandBound
<1> QED
  BY <1>2, <1>4, <1>5, <1>6

\* The row of a new job.
LEMMA JobType ==
  ASSUME NEW m \in Messages, NEW candidate \in Candidates \cup {Unknown},
         NEW scope \in SUBSET Roles
  PROVE  /\ Job(m, candidate, scope) \in JobRow
         /\ Job(m, candidate, scope).msg = m /\ Job(m, candidate, scope).cand = candidate
         /\ Job(m, candidate, scope).scope = scope /\ Job(m, candidate, scope).pc = "queued"
BY DEF Job, JobRow

\* A step of a job that leaves the tables alone, having read roles the reply has
\* claims on.
LEMMA JobStepKeepsIInv ==
  ASSUME IInv, NEW j \in DOMAIN jobs, NEW row \in JobRow,
         row.msg = jobs[j].msg, row.cand = jobs[j].cand, row.scope = jobs[j].scope,
         jobs' = [jobs EXCEPT ![j] = row],
         row.pc = "classify" => \A r \in row.read : BoundBy(row.msg, <<Candidate(j), r>>),
         UNCHANGED <<signal, delivery, claims, pair, news>>
  PROVE  IInv'
<1> USE DEF IInv
<1>1. /\ jobs' \in Seq(JobRow) /\ DOMAIN jobs' = DOMAIN jobs
      /\ \A i \in DOMAIN jobs : /\ jobs'[i] = IF i = j THEN row ELSE jobs[i]
                                /\ jobs'[i].msg = jobs[i].msg /\ jobs'[i].cand = jobs[i].cand
                                /\ jobs'[i].scope = jobs[i].scope
      /\ \A m : HandBound(m)' <=> HandBound(m)
  BY JobChanges
<1>2. TypeOK'
  BY <1>1, Types, TypesNext DEF OnePerCase, IInv
<1>3. OnePerRole(claims)' /\ DirectClaimsHaveCases' /\ BoundIsRecorded' /\ DeliveriesKnow'
  BY DEF OnePerRole, DirectClaimsHaveCases, BoundIsRecorded, DeliveriesKnow, Exists
<1>4. JobsAreRecorded'
  BY <1>1 DEF JobsAreRecorded
<1>5. ReadIsClaimed'
  <2> SUFFICES ASSUME NEW i \in DOMAIN jobs, jobs'[i].pc = "classify", ~Closed(jobs[i].msg),
                      NEW r \in jobs'[i].read
               PROVE  BoundBy(jobs[i].msg, <<Candidate(i), r>>)
    BY <1>1 DEF ReadIsClaimed, BoundBy, Candidate, Closed
  <2>1. CASE i = j
    BY <2>1, <1>1
  <2>2. CASE i /= j
    BY <2>2, <1>1 DEF ReadIsClaimed, Closed
  <2> QED
    BY <2>1, <2>2
<1>6. IntakeClaims'
  BY <1>1 DEF IntakeClaims, BoundBy, Exists
<1>7. AnnouncedOnce' /\ UnresolvedIsShown'
  BY DEF AnnouncedOnce, UnresolvedIsShown, Exists, Allowed, Opened
<1>8. ClaimsLeadOn'
  BY <1>1 DEF ClaimsLeadOn, Exists
<1> QED
  BY <1>2, <1>3, <1>4, <1>5, <1>6, <1>7, <1>8

\* Skip, Retry and Fail only move the job.
LEMMA SkipRetryFailKeepIInv ==
  ASSUME IInv, NEW j \in DOMAIN jobs, Skip(j) \/ Retry(j) \/ Fail(j)
  PROVE  IInv'
<1>1. jobs[j] \in JobRow
  BY Types, LenProperties, ElementOfSeq DEF IInv
<1>2. PICK pc \in {"queued", "done", "failed"} :
        jobs' = [jobs EXCEPT ![j].pc = pc, ![j].read = {}]
  BY DEF Skip, Retry, Fail
<1>3. PICK row : row = [jobs[j] EXCEPT !.pc = pc, !.read = {}]
  OBVIOUS
<1>4. row \in JobRow /\ row.msg = jobs[j].msg /\ row.cand = jobs[j].cand
      /\ row.scope = jobs[j].scope /\ row.pc = pc
  BY <1>1, <1>3 DEF JobRow
<1>5. jobs' = [jobs EXCEPT ![j] = row]
  BY <1>2, <1>3
<1>6. UNCHANGED <<signal, delivery, claims, pair, news>>
  BY DEF Skip, Retry, Fail
<1> QED
  BY <1>4, <1>5, <1>6, JobStepKeepsIInv

\* The reviews to expect of a reply, by its state.
LEMMA ReviewsOfState ==
  ASSUME NEW m
  PROVE  /\ signal[m].state = "needs_candidate" => Allowed(m) = {"candidate"}
         /\ signal[m].state = "needs_role" => Allowed(m) = {"role"}
         /\ signal[m].state = "quarantined" => Allowed(m) = {"failed"}
         /\ signal[m].state \notin {"needs_candidate", "needs_role", "quarantined"} => Allowed(m) = {}
<1>1. CASE signal[m].state = "needs_candidate"
  BY <1>1 DEF Allowed
<1>2. CASE signal[m].state = "needs_role"
  BY <1>2 DEF Allowed
<1>3. CASE signal[m].state = "quarantined"
  BY <1>3 DEF Allowed
<1>4. CASE signal[m].state \notin {"needs_candidate", "needs_role", "quarantined"}
  BY <1>4 DEF Allowed
<1> QED
  BY <1>1, <1>2, <1>3, <1>4

\* The same for the state after a step.
LEMMA ReviewsOfNextState ==
  ASSUME NEW m
  PROVE  /\ signal'[m].state = "needs_candidate" => Allowed(m)' = {"candidate"}
         /\ signal'[m].state = "needs_role" => Allowed(m)' = {"role"}
         /\ signal'[m].state = "quarantined" => Allowed(m)' = {"failed"}
         /\ signal'[m].state \notin {"needs_candidate", "needs_role", "quarantined"} => Allowed(m)' = {}
<1>1. CASE signal'[m].state = "needs_candidate"
  BY <1>1 DEF Allowed
<1>2. CASE signal'[m].state = "needs_role"
  BY <1>2 DEF Allowed
<1>3. CASE signal'[m].state = "quarantined"
  BY <1>3 DEF Allowed
<1>4. CASE signal'[m].state \notin {"needs_candidate", "needs_role", "quarantined"}
  BY <1>4 DEF Allowed
<1> QED
  BY <1>1, <1>2, <1>3, <1>4

\* A reply keeps what it shows when its state and its reviews stay.
LEMMA SameIsShown ==
  ASSUME NEW m, UNCHANGED <<signal[m].state, signal[m].reviews>>, Opened(m) \subseteq Opened(m)',
         Allowed(m) \subseteq signal[m].reviews
           \/ (signal[m].state = "quarantined" /\ Opened(m) /= {})
  PROVE  Allowed(m)' \subseteq signal'[m].reviews
           \/ (signal'[m].state = "quarantined" /\ Opened(m)' /= {})
<1>1. Allowed(m)' = Allowed(m)
  BY ReviewsOfState, ReviewsOfNextState
<1> QED
  BY <1>1

-----------------------------------------------------------------------------
(* The deliveries *)

\* A step of a delivery that leaves the tables alone, and what it has to know.
LEMMA DeliveryStepKeepsIInv ==
  ASSUME IInv, NEW d \in Deliveries, NEW row \in DeliveryRow,
         delivery' = [delivery EXCEPT ![d] = row],
         row.pc /= "idle" =>
           /\ row.msg \in Messages
           /\ row.to \in {"ready", "needs_candidate", "needs_role"}
           /\ row.pc = (IF row.to = "ready" THEN "claim" ELSE "record")
           /\ row.to = "ready" => row.cand \in Candidates,
         UNCHANGED <<signal, claims, pair, jobs, news>>
  PROVE  IInv'
<1> USE DEF IInv
<1>1. delivery' \in [Deliveries -> DeliveryRow]
      /\ \A x \in Deliveries : delivery'[x] = IF x = d THEN row ELSE delivery[x]
  BY Types
<1>2. TypeOK'
  BY <1>1, Types, TypesNext DEF OnePerCase
<1>3. DeliveriesKnow'
  BY <1>1 DEF DeliveriesKnow
<1>4. OnePerRole(claims)' /\ DirectClaimsHaveCases' /\ BoundIsRecorded' /\ JobsAreRecorded'
  BY DEF OnePerRole, DirectClaimsHaveCases, BoundIsRecorded, JobsAreRecorded, Exists
<1>5. ReadIsClaimed' /\ IntakeClaims' /\ ClaimsLeadOn'
  BY DEF ReadIsClaimed, IntakeClaims, ClaimsLeadOn, BoundBy, Exists, HandBound, Candidate, Closed
<1>6. AnnouncedOnce' /\ UnresolvedIsShown'
  BY DEF AnnouncedOnce, UnresolvedIsShown, Exists, Allowed, Opened
<1> QED
  BY <1>2, <1>3, <1>4, <1>5, <1>6

\* A delivery that is not under way has no rows in hand.
LEMMA IdleType == Idle \in DeliveryRow /\ Idle.pc = "idle"
BY DEF Idle, DeliveryRow, Events, States

\* A delivery that finds no row of the reply goes on with what it has read.
LEMMA ReceiveKeepsIInv ==
  ASSUME IInv, NEW d \in Deliveries, NEW m \in Messages, Receive(d, m)
  PROVE  IInv'
<1>1. PICK candidate \in Matches[m], offered \in Readings[m],
           to \in {"needs_role", "needs_candidate", "ready"} :
        /\ to = IF offered = {} THEN "needs_role"
                ELSE IF candidate = Unknown THEN "needs_candidate" ELSE "ready"
        /\ delivery' = [delivery EXCEPT ![d] =
             [pc |-> IF to = "ready" THEN "claim" ELSE "record", msg |-> m, to |-> to,
              cand |-> candidate, offered |-> offered]]
  BY DEF Receive
<1>2. PICK row : row = [pc |-> IF to = "ready" THEN "claim" ELSE "record", msg |-> m, to |-> to,
                        cand |-> candidate, offered |-> offered]
  OBVIOUS
<1>3. candidate \in Candidates \cup {Unknown} /\ offered \in SUBSET Roles
  BY MessagesAssumption
<1>4. to \in {"ready", "needs_candidate", "needs_role"} /\ (to = "ready" => candidate \in Candidates)
  BY <1>1, <1>3
<1>5. /\ row \in DeliveryRow /\ row.msg \in Messages /\ row.to = to
      /\ row.pc = (IF row.to = "ready" THEN "claim" ELSE "record")
      /\ row.to = "ready" => row.cand \in Candidates
  <2>1. (IF to = "ready" THEN "claim" ELSE "record") \in {"idle", "claim", "record"}
        /\ m \in Events /\ to \in States
    BY <1>4 DEF Events, States
  <2> QED
    BY <2>1, <1>2, <1>3, <1>4 DEF DeliveryRow
<1>6. delivery' = [delivery EXCEPT ![d] = row] /\ UNCHANGED <<signal, claims, pair, jobs, news>>
  BY <1>1, <1>2 DEF Receive
<1> QED
  BY <1>4, <1>5, <1>6, DeliveryStepKeepsIInv

\* A delivery that ends before its reply was recorded leaves the claims it took.
LEMMA LeaveKeepsIInv ==
  ASSUME IInv, NEW d \in Deliveries, Leave(d)
  PROVE  IInv'
BY IdleType, DeliveryStepKeepsIInv DEF Leave

\* The claims a delivery takes are pending, and cover the roles it goes on with.
LEMMA ClaimRolesKeepsIInv ==
  ASSUME IInv, NEW d \in Deliveries, ClaimRoles(d)
  PROVE  IInv'
<1> USE DEF IInv
<1>0. PICK m, who, new, granted, roles :
        /\ m = delivery[d].msg /\ who = delivery[d].cand /\ roles = delivery[d].offered
        /\ new = {c \in Of(who, roles) : ~Exists(c)}
        /\ granted = Granted(new, m)
  OBVIOUS
<1>1. /\ delivery[d].pc = "claim" /\ delivery[d] \in DeliveryRow /\ m \in Messages
      /\ who \in Candidates /\ roles \in SUBSET Roles /\ delivery[d].to = "ready"
  BY <1>0, Types DEF ClaimRoles, DeliveriesKnow, DeliveryRow
<1>2. claims' = Reserved(new, m) /\ UNCHANGED <<signal, pair, jobs, news>>
  BY <1>0 DEF ClaimRoles
<1>3. claims \subseteq Claim /\ OnePerCase(claims) /\ OnePerRole(claims)
      /\ new \in SUBSET Of(who, roles) /\ m \in Events
  BY <1>0, <1>1, Types DEF Events
<1>4. /\ claims' \subseteq Claim /\ OnePerCase(claims') /\ OnePerRole(claims')
      /\ claims \subseteq claims'
      /\ \A k \in claims' : k \notin claims =>
           k.case \in new /\ k.event = m /\ k.state = "pending"
      /\ \A c \in new : MayClaim(c, m) =>
           [case |-> c, event |-> m, state |-> "pending"] \in claims'
  BY <1>1, <1>2, <1>3, ReservedClaims
<1>5. PICK row : /\ row = IF granted = {} THEN Idle
                          ELSE [delivery[d] EXCEPT !.pc = "record", !.offered = {c[2] : c \in granted}]
                 /\ delivery' = [delivery EXCEPT ![d] = row]
  BY <1>0 DEF ClaimRoles
<1>6. granted \subseteq new /\ \A c \in granted : c = <<who, c[2]>> /\ c[2] \in Roles
  BY <1>0, <1>1 DEF Granted, Of
<1>7. /\ row \in DeliveryRow
      /\ row.pc /= "idle" => /\ row.pc = "record" /\ row.msg = m /\ row.to = "ready" /\ row.cand = who
                             /\ row.offered = {c[2] : c \in granted}
  <2>1. CASE granted = {}
    BY <2>1, <1>5, IdleType
  <2>2. CASE granted /= {}
    <3>1. row = [delivery[d] EXCEPT !.pc = "record", !.offered = {c[2] : c \in granted}]
      BY <2>2, <1>5
    <3>2. {c[2] : c \in granted} \in SUBSET Roles
      BY <1>6
    <3> QED
      BY <3>1, <3>2, <1>0, <1>1 DEF DeliveryRow
  <2> QED
    BY <2>1, <2>2
<1>8. /\ delivery' \in [Deliveries -> DeliveryRow]
      /\ \A x \in Deliveries : delivery'[x] = IF x = d THEN row ELSE delivery[x]
  BY <1>5, <1>7, Types
<1>9. TypeOK'
  BY <1>2, <1>4, <1>8, Types, TypesNext
<1>10. DirectClaimsHaveCases'
  BY <1>1, <1>2, <1>4, MessagesAssumption DEF DirectClaimsHaveCases, Exists
<1>11. BoundIsRecorded' /\ ClaimsLeadOn'
  BY <1>2, <1>4 DEF BoundIsRecorded, ClaimsLeadOn, Exists, HandBound
<1>12. JobsAreRecorded' /\ AnnouncedOnce' /\ UnresolvedIsShown'
  BY <1>2 DEF JobsAreRecorded, AnnouncedOnce, UnresolvedIsShown, Exists, Allowed, Opened
<1>13. ReadIsClaimed' /\ IntakeClaims'
  BY <1>2, <1>4 DEF ReadIsClaimed, IntakeClaims, BoundBy, Exists, HandBound, Candidate, Closed
<1>14. \A c \in granted : \E k \in claims' : k.case = c /\ k.event = m /\ k.state /= "released"
  <2> SUFFICES ASSUME NEW c \in granted
               PROVE  \E k \in claims' : k.case = c /\ k.event = m /\ k.state /= "released"
    OBVIOUS
  <2>1. CASE MayClaim(c, m)
    BY <2>1, <1>4, <1>6
  <2>2. CASE \E k \in Active(c) : k.event = m
    BY <2>2, <1>4 DEF Active
  <2> QED
    BY <2>1, <2>2, <1>0 DEF Granted
<1>15. DeliveriesKnow'
  <2> SUFFICES ASSUME NEW x \in Deliveries, delivery'[x].pc /= "idle"
               PROVE  /\ delivery'[x].msg \in Messages
                      /\ delivery'[x].to \in {"ready", "needs_candidate", "needs_role"}
                      /\ delivery'[x].pc = "claim" => delivery'[x].to = "ready"
                      /\ delivery'[x].to = "ready" => delivery'[x].cand \in Candidates
                      /\ delivery'[x].pc = "record" /\ delivery'[x].to = "ready"
                           /\ signal[delivery'[x].msg].state = "absent" =>
                           \A c \in Of(delivery'[x].cand, delivery'[x].offered) :
                             \E k \in claims' : /\ k.case = c /\ k.event = delivery'[x].msg
                                                /\ k.state /= "released"
    BY <1>2 DEF DeliveriesKnow
  <2>1. CASE x = d
    <3>1. row.pc /= "idle" /\ delivery'[x] = row
      BY <2>1, <1>8
    <3>2. \A c \in Of(who, row.offered) : c \in granted
      BY <3>1, <1>6, <1>7 DEF Of
    <3> QED
      BY <3>1, <3>2, <1>1, <1>7, <1>14
  <2>2. CASE x /= d
    BY <2>2, <1>4, <1>8 DEF DeliveriesKnow
  <2> QED
    BY <2>1, <2>2
<1> QED
  BY <1>4, <1>9, <1>10, <1>11, <1>12, <1>13, <1>15

\* A reply that is recorded has the claims that its delivery took, or a review.
LEMMA RecordKeepsIInv ==
  ASSUME IInv, NEW d \in Deliveries, Record(d)
  PROVE  IInv'
<1> USE DEF IInv
<1>0. PICK m, to, who, roles, cases, row :
        /\ m = delivery[d].msg /\ to = delivery[d].to
        /\ who = delivery[d].cand /\ roles = delivery[d].offered /\ cases = Of(who, roles)
        /\ row = [state |-> to, cand |-> who, offered |-> roles, reviews |-> ReviewOf(delivery[d])]
  OBVIOUS
<1>1. /\ delivery[d].pc = "record" /\ delivery[d] \in DeliveryRow /\ m \in Messages
      /\ who \in Candidates \cup {Unknown} /\ roles \in SUBSET Roles
      /\ to \in {"ready", "needs_candidate", "needs_role"}
      /\ to = "ready" => who \in Candidates
      /\ signal[m].state = "absent"
  BY <1>0, Types DEF Record, DeliveriesKnow, DeliveryRow
<1>2. /\ signal' = [signal EXCEPT ![m] = row]
      /\ delivery' = [delivery EXCEPT ![d] = Idle]
      /\ pair' = pair
  BY <1>0 DEF Record
<1>3. /\ ReviewOf(delivery[d]) \in SUBSET Reasons
      /\ to = "needs_candidate" => ReviewOf(delivery[d]) = {"candidate"}
      /\ to = "needs_role" => ReviewOf(delivery[d]) = {"role"}
  BY <1>0, <1>1 DEF ReviewOf, Reasons
<1>4. row \in SignalRow
  BY <1>0, <1>1, <1>3 DEF SignalRow, States
<1>5. /\ signal' \in [Messages -> SignalRow]
      /\ \A x \in Messages : signal'[x] = IF x = m THEN row ELSE signal[x]
  BY <1>1, <1>2, <1>4, Types
<1>6. /\ delivery' \in [Deliveries -> DeliveryRow]
      /\ \A x \in Deliveries : delivery'[x] = IF x = d THEN Idle ELSE delivery[x]
  BY <1>2, IdleType, Types
<1>7. /\ \A j \in DOMAIN jobs : jobs[j].msg /= m
      /\ \A k \in claims : ~(k.event = m /\ k.state = "bound")
      /\ ~HandBound(m)
  BY <1>1, MessagesAssumption DEF JobsAreRecorded, BoundIsRecorded, HandBound
<1>8. /\ \A j \in DOMAIN jobs : jobs[j] \in JobRow
      /\ claims \subseteq Claim /\ OnePerCase(claims)
      /\ pair' \in [Cases -> [stage : Stages, first : Events]]
      /\ \A c \in Cases : Exists(c)' <=> Exists(c)
      /\ \A x : Opened(x)' = Opened(x)
  BY <1>2, Types, LenProperties, ElementOfSeq DEF Exists, Opened
<1>9. UnresolvedIsShown'
  <2> SUFFICES ASSUME NEW x \in Messages
               PROVE  Allowed(x)' \subseteq signal'[x].reviews
                      \/ (signal'[x].state = "quarantined" /\ Opened(x) /= {})
    BY <1>8 DEF UnresolvedIsShown
  <2>1. CASE x = m
    <3>1. signal'[x].state = to /\ signal'[x].reviews = ReviewOf(delivery[d])
      BY <2>1, <1>0, <1>5
    <3> QED
      BY <3>1, <1>1, <1>3, ReviewsOfNextState
  <2>2. CASE x /= m
    <3>1. signal'[x] = signal[x] /\ Opened(x)' = Opened(x)
      BY <2>2, <1>5, <1>8
    <3> QED
      BY <3>1, SameIsShown DEF UnresolvedIsShown
  <2> QED
    BY <2>1, <2>2
<1>10. CASE to = "ready"
  <2>1. /\ cases \subseteq Granted(cases, m)
        /\ claims' = Bound(claims, cases, m)
        /\ jobs' = Append(jobs, Job(m, Unknown, {}))
        /\ news' = news
    BY <1>0, <1>10 DEF Record
  <2>2. cases \in SUBSET Cases /\ m \in Events
    BY <1>0, <1>1, <1>10 DEF Of, Cases, Events
  <2>3. /\ claims' \subseteq Claim /\ OnePerCase(claims') /\ OnePerRole(claims')
        /\ \A k \in claims' : k \notin claims =>
             k.case \in cases /\ k.event = m /\ k.state = "bound"
        /\ \A k \in claims : k.state = "bound" \/ k.event /= m => k \in claims'
        /\ \A k \in claims : k.case \in cases /\ k.event = m /\ k.state /= "released" =>
             [case |-> k.case, event |-> m, state |-> "bound"] \in claims'
    BY <2>1, <2>2, <1>8, BoundClaims
  <2>4. \A c \in cases : BoundBy(m, c)'
    <3> SUFFICES ASSUME NEW c \in cases
                 PROVE  [case |-> c, event |-> m, state |-> "bound"] \in claims'
      BY DEF BoundBy
    <3>1. \E k \in claims : k.case = c /\ k.event = m /\ k.state /= "released"
      BY <1>0, <1>1, <1>10 DEF DeliveriesKnow
    <3> QED
      BY <3>1, <2>3
  <2>5. PICK job : job = Job(m, Unknown, {})
    OBVIOUS
  <2>6. job \in JobRow /\ job.msg = m /\ job.cand = Unknown /\ job.scope = {} /\ job.pc = "queued"
    BY <2>5, <1>1, JobType
  <2>7. /\ jobs' \in Seq(JobRow)
        /\ \A i \in DOMAIN jobs' : IF i \in DOMAIN jobs THEN jobs'[i] = jobs[i] ELSE jobs'[i] = job
        /\ \A x : HandBound(x)' <=> HandBound(x)
    <3>1. jobs' = Append(jobs, job)
      BY <2>1, <2>5
    <3> QED
      BY <3>1, <2>6, JobIsQueued
  <2>8. TypeOK'
    BY <2>1, <2>3, <2>7, <1>5, <1>6, <1>8, Types, TypesNext
  <2>9. DirectClaimsHaveCases'
    BY <2>3, <1>1, <1>8, MessagesAssumption DEF DirectClaimsHaveCases, Claim
  <2>10. BoundIsRecorded'
    BY <2>3, <1>0, <1>5, <1>10 DEF BoundIsRecorded, Claim, Events
  <2>11. DeliveriesKnow'
    <3> SUFFICES ASSUME NEW x \in Deliveries, delivery'[x].pc /= "idle"
                 PROVE  /\ delivery'[x].msg \in Messages
                        /\ delivery'[x].to \in {"ready", "needs_candidate", "needs_role"}
                        /\ delivery'[x].pc = "claim" => delivery'[x].to = "ready"
                        /\ delivery'[x].to = "ready" => delivery'[x].cand \in Candidates
                        /\ delivery'[x].pc = "record" /\ delivery'[x].to = "ready"
                             /\ signal'[delivery'[x].msg].state = "absent" =>
                             \A c \in Of(delivery'[x].cand, delivery'[x].offered) :
                               \E k \in claims' : /\ k.case = c /\ k.event = delivery'[x].msg
                                                  /\ k.state /= "released"
      BY DEF DeliveriesKnow
    <3>1. delivery'[x] = delivery[x]
      BY <1>6, IdleType
    <3>2. delivery[x].msg \in Messages /\ (signal'[delivery[x].msg].state = "absent" =>
            delivery[x].msg /= m /\ signal[delivery[x].msg].state = "absent")
      BY <3>1, <1>0, <1>5, <1>10 DEF DeliveriesKnow
    <3> QED
      BY <3>1, <3>2, <2>3 DEF DeliveriesKnow
  <2>12. JobsAreRecorded'
    BY <2>6, <2>7, <1>0, <1>5, <1>7, <1>8, <1>10 DEF JobsAreRecorded, JobRow
  <2>13. ReadIsClaimed'
    <3> SUFFICES ASSUME NEW i \in DOMAIN jobs', jobs'[i].pc = "classify",
                        ~Closed(jobs[i].msg)', NEW r \in jobs'[i].read
                 PROVE  BoundBy(jobs[i].msg, <<Candidate(i), r>>)'
      BY DEF ReadIsClaimed
    <3>1. i \in DOMAIN jobs /\ jobs'[i] = jobs[i]
      BY <2>6, <2>7
    <3>2. jobs[i].msg \in Messages /\ signal'[jobs[i].msg] = signal[jobs[i].msg]
      BY <3>1, <1>5, <1>7, <1>8 DEF JobRow
    <3>3. Candidate(i)' = Candidate(i) /\ (Closed(jobs[i].msg) => Closed(jobs[i].msg)')
      BY <3>1, <3>2 DEF Candidate, Closed
    <3>4. BoundBy(jobs[i].msg, <<Candidate(i), r>>)
      BY <3>1, <3>3 DEF ReadIsClaimed
    <3> QED
      BY <3>1, <3>3, <3>4, <2>3 DEF BoundBy
  <2>14. IntakeClaims'
    <3> SUFFICES ASSUME NEW x \in Messages, ~HandBound(x)
                 PROVE  /\ \A k \in claims' : k.event = x /\ k.state = "bound" =>
                             k.case \in Of(signal'[x].cand, signal'[x].offered)
                        /\ signal'[x].state = "ready" =>
                             /\ signal'[x].cand \in Candidates
                             /\ \A c \in Of(signal'[x].cand, signal'[x].offered) :
                                  Exists(c)' \/ BoundBy(x, c)'
      BY <2>7 DEF IntakeClaims
    <3>1. CASE x = m
      <4>1. signal'[x].cand = who /\ signal'[x].offered = roles
        BY <3>1, <1>0, <1>5
      <4> QED
        BY <4>1, <3>1, <2>3, <2>4, <1>0, <1>1, <1>7, <1>10
    <3>2. CASE x /= m
      <4>1. signal'[x] = signal[x]
        BY <3>2, <1>5
      <4>2. \A c : Exists(c) \/ BoundBy(x, c) => Exists(c)' \/ BoundBy(x, c)'
        BY <2>3, <1>2 DEF BoundBy, Exists
      <4> QED
        BY <4>1, <4>2, <3>2, <2>3 DEF IntakeClaims
    <3> QED
      BY <3>1, <3>2
  <2>15. AnnouncedOnce'
    BY <2>1, <1>2 DEF AnnouncedOnce, Exists
  <2>16. ClaimsLeadOn'
    <3> SUFFICES ASSUME NEW k \in claims', k.state = "bound", ~Exists(k.case)
                 PROVE  \/ signal'[k.event].state = "ready"
                        \/ HandBound(k.event) /\ signal'[k.event].state \in {"quarantined", "ignored_later"}
      BY <2>3, <2>7, <1>8 DEF ClaimsLeadOn, Claim
    <3>1. CASE k \in claims
      <4>1. k.event \in Messages
        BY <3>1, <1>8 DEF DirectClaimsHaveCases, Claim, Events
      <4> QED
        BY <4>1, <3>1, <1>5, <1>7 DEF ClaimsLeadOn
    <3>2. CASE k \notin claims
      BY <3>2, <2>3, <1>0, <1>1, <1>5, <1>10
    <3> QED
      BY <3>1, <3>2
  <2> QED
    BY <2>3, <2>8, <2>9, <2>10, <2>11, <2>12, <2>13, <2>14, <2>15, <2>16, <1>9
<1>11. CASE to /= "ready"
  <2>1. TellOfReply(m) /\ claims' = claims /\ jobs' = jobs
    BY <1>0, <1>11 DEF Record
  <2>2. /\ news' \in [lineage : SUBSET Messages, about : [Messages -> SUBSET Cases], own : SUBSET Cases]
        /\ news'.about = news.about /\ news'.own = news.own
    <3>1. news \in [lineage : SUBSET Messages, about : [Messages -> SUBSET Cases], own : SUBSET Cases]
      BY Types
    <3>2. news' = [news EXCEPT !.lineage = news.lineage \cup {m}]
      BY <2>1 DEF TellOfReply
    <3> QED
      BY <3>1, <3>2, <1>1
  <2>3. TypeOK'
    BY <2>1, <2>2, <1>5, <1>6, <1>8, Types, TypesNext
  <2>4. OnePerRole(claims)' /\ DirectClaimsHaveCases'
    BY <2>1, <1>2 DEF OnePerRole, DirectClaimsHaveCases, Exists
  <2>5. BoundIsRecorded' /\ ClaimsLeadOn'
    <3>1. \A k \in claims : k.state = "bound" /\ k.event /= Direct =>
            k.event \in Messages /\ k.event /= m /\ signal'[k.event] = signal[k.event]
      BY <1>5, <1>7, <1>8 DEF Claim, Events
    <3>2. BoundIsRecorded'
      BY <3>1, <2>1 DEF BoundIsRecorded
    <3>3. \A k \in claims : ~Exists(k.case)' => k.event /= Direct /\ ~Exists(k.case)
      BY <1>2 DEF DirectClaimsHaveCases, Exists
    <3>4. ClaimsLeadOn'
      BY <3>1, <3>3, <2>1 DEF ClaimsLeadOn, HandBound
    <3> QED
      BY <3>2, <3>4
  <2>6. DeliveriesKnow'
    <3>1. \A x \in Deliveries : delivery'[x].pc /= "idle" => delivery'[x] = delivery[x]
      BY <1>6, IdleType
    <3>2. \A x \in Messages : signal'[x].state = "absent" => signal[x].state = "absent"
      BY <1>1, <1>5
    <3> QED
      BY <3>1, <3>2, <2>1 DEF DeliveriesKnow
  <2>7. \A j \in DOMAIN jobs : signal'[jobs[j].msg] = signal[jobs[j].msg]
    BY <1>5, <1>7, <1>8 DEF JobRow
  <2>8. JobsAreRecorded' /\ ReadIsClaimed'
    BY <2>1, <2>7 DEF JobsAreRecorded, ReadIsClaimed, BoundBy, Candidate, Closed
  <2>9. IntakeClaims'
    <3>1. \A x \in Messages : x /= m => signal'[x] = signal[x]
      BY <1>5
    <3>2. signal'[m].state /= "ready" /\ \A k \in claims : ~(k.event = m /\ k.state = "bound")
      BY <1>0, <1>1, <1>5, <1>7, <1>11
    <3> QED
      BY <3>1, <3>2, <2>1, <1>2 DEF IntakeClaims, BoundBy, Exists, HandBound
  <2>10. AnnouncedOnce'
    BY <2>2, <1>2 DEF AnnouncedOnce, Exists
  <2> QED
    BY <2>3, <2>4, <2>5, <2>6, <2>8, <2>9, <2>10, <1>9
<1> QED
  BY <1>10, <1>11

-----------------------------------------------------------------------------
(* The classification jobs *)

\* A recruiter asks for a classification to be repeated: a job is queued.
LEMMA RetryClassificationKeepsIInv ==
  ASSUME IInv, NEW m \in Messages, RetryClassification(m)
  PROVE  IInv'
<1> USE DEF IInv
<1>1. /\ signal[m].state = "quarantined"
      /\ jobs' = Append(jobs, Job(m, Unknown, {}))
      /\ UNCHANGED <<signal, delivery, claims, pair, news>>
  BY DEF RetryClassification
<1>2. PICK job : job = Job(m, Unknown, {})
  OBVIOUS
<1>3. job \in JobRow /\ job.msg = m /\ job.cand = Unknown /\ job.scope = {} /\ job.pc = "queued"
  BY <1>2, JobType
<1>4. /\ jobs' \in Seq(JobRow)
      /\ \A i \in DOMAIN jobs' : IF i \in DOMAIN jobs THEN jobs'[i] = jobs[i] ELSE jobs'[i] = job
      /\ \A x : HandBound(x)' <=> HandBound(x)
  BY <1>1, <1>2, <1>3, JobIsQueued
<1>5. TypeOK'
  BY <1>1, <1>4, Types, TypesNext DEF OnePerCase
<1>6. OnePerRole(claims)' /\ DirectClaimsHaveCases' /\ BoundIsRecorded' /\ DeliveriesKnow'
  BY <1>1 DEF OnePerRole, DirectClaimsHaveCases, BoundIsRecorded, DeliveriesKnow, Exists
<1>7. JobsAreRecorded'
  BY <1>1, <1>3, <1>4 DEF JobsAreRecorded
<1>8. ReadIsClaimed'
  BY <1>1, <1>3, <1>4 DEF ReadIsClaimed, BoundBy, Candidate, Closed
<1>9. IntakeClaims' /\ ClaimsLeadOn'
  BY <1>1, <1>4 DEF IntakeClaims, ClaimsLeadOn, BoundBy, Exists
<1>10. AnnouncedOnce' /\ UnresolvedIsShown'
  BY <1>1 DEF AnnouncedOnce, UnresolvedIsShown, Exists, Allowed, Opened
<1> QED
  BY <1>5, <1>6, <1>7, <1>8, <1>9, <1>10

\* A reply may be closed when a recruiter bound it or its bound claims have cases.
LEMMA ClosingKeepsIInv ==
  ASSUME IInv, NEW m \in Messages, NEW row \in SignalRow,
         signal' = [signal EXCEPT ![m] = row],
         row.state = "ignored_later", row.cand = signal[m].cand,
         signal[m].offered \subseteq row.offered,
         signal[m].state /= "absent",
         \A k \in claims : k.event = m /\ k.state = "bound" /\ ~Exists(k.case) => HandBound(m),
         jobs' \in Seq(JobRow), DOMAIN jobs' = DOMAIN jobs,
         \A i \in DOMAIN jobs : /\ jobs'[i].msg = jobs[i].msg /\ jobs'[i].cand = jobs[i].cand
                                /\ jobs'[i].scope = jobs[i].scope
                                /\ jobs'[i].pc = "classify" => jobs'[i] = jobs[i],
         \A x : HandBound(x)' <=> HandBound(x),
         UNCHANGED <<delivery, claims, pair, news>>
  PROVE  IInv'
<1> USE DEF IInv
<1>1. /\ signal' \in [Messages -> SignalRow]
      /\ \A x \in Messages : signal'[x] = IF x = m THEN row ELSE signal[x]
  BY Types
<1>a. claims \subseteq Claim /\ \A j \in DOMAIN jobs : jobs[j].msg \in Messages
  BY Types, JobRows
<1>2. TypeOK'
  BY <1>1, Types, TypesNext DEF OnePerCase
<1>3. OnePerRole(claims)' /\ DirectClaimsHaveCases'
  BY DEF OnePerRole, DirectClaimsHaveCases, Exists
<1>4. BoundIsRecorded'
  BY <1>1, <1>a DEF BoundIsRecorded, Claim, Events
<1>5. DeliveriesKnow'
  <2>1. \A x \in Messages : signal'[x].state = "absent" => signal[x].state = "absent"
    BY <1>1
  <2> QED
    BY <2>1 DEF DeliveriesKnow
<1>6. JobsAreRecorded'
  BY <1>1, <1>a DEF JobsAreRecorded
<1>7. \A x \in Messages : /\ signal'[x].cand = signal[x].cand
                          /\ signal'[x].state \notin {"resolved", "ignored_later"} =>
                               signal[x].state \notin {"resolved", "ignored_later"}
  BY <1>1
<1>8. ReadIsClaimed'
  BY <1>1, <1>a, <1>7 DEF ReadIsClaimed, BoundBy, Candidate, Closed
<1>9. IntakeClaims'
  <2> SUFFICES ASSUME NEW x \in Messages, ~HandBound(x)
               PROVE  /\ \A k \in claims : k.event = x /\ k.state = "bound" =>
                           k.case \in Of(signal'[x].cand, signal'[x].offered)
                      /\ signal'[x].state = "ready" =>
                           /\ signal'[x].cand \in Candidates
                           /\ \A c \in Of(signal'[x].cand, signal'[x].offered) :
                                Exists(c) \/ BoundBy(x, c)
    BY DEF IntakeClaims, BoundBy, Exists
  <2>1. CASE x = m
    <3>1. signal'[m].state = "ignored_later" /\ signal'[m].cand = signal[m].cand
          /\ signal[m].offered \subseteq signal'[m].offered
      BY <1>1
    <3>2. Of(signal[m].cand, signal[m].offered) \subseteq Of(signal'[m].cand, signal'[m].offered)
      BY <3>1 DEF Of
    <3> QED
      BY <3>1, <3>2, <2>1 DEF IntakeClaims
  <2>2. CASE x /= m
    BY <2>2, <1>1 DEF IntakeClaims
  <2> QED
    BY <2>1, <2>2
<1>10. AnnouncedOnce'
  BY DEF AnnouncedOnce, Exists
<1>11. UnresolvedIsShown'
  <2> SUFFICES ASSUME NEW x \in Messages
               PROVE  Allowed(x)' \subseteq signal'[x].reviews
                      \/ (signal'[x].state = "quarantined" /\ Opened(x)' /= {})
    BY DEF UnresolvedIsShown
  <2>1. CASE x = m
    BY <2>1, <1>1, ReviewsOfNextState
  <2>2. CASE x /= m
    <3>1. signal'[x] = signal[x] /\ Opened(x)' = Opened(x)
      BY <2>2, <1>1 DEF Opened, Exists
    <3> QED
      BY <3>1, SameIsShown DEF UnresolvedIsShown
  <2> QED
    BY <2>1, <2>2
<1>12. ClaimsLeadOn'
  <2> SUFFICES ASSUME NEW k \in claims, k.state = "bound", ~Exists(k.case)
               PROVE  \/ signal'[k.event].state = "ready"
                      \/ HandBound(k.event) /\ signal'[k.event].state \in {"quarantined", "ignored_later"}
    BY DEF ClaimsLeadOn, Exists
  <2>1. k.event \in Messages
    BY <1>a DEF DirectClaimsHaveCases, Claim, Events
  <2>2. CASE k.event = m
    BY <2>2, <1>1
  <2>3. CASE k.event /= m
    BY <2>1, <2>3, <1>1 DEF ClaimsLeadOn
  <2> QED
    BY <2>2, <2>3
<1> QED
  BY <1>2, <1>3, <1>4, <1>5, <1>6, <1>8, <1>9, <1>10, <1>11, <1>12

\* A job that starts reads roles that the reply has claims on.  When there are
\* none, every case the reply could have opened is there.
LEMMA BeginKeepsIInv ==
  ASSUME IInv, NEW j \in DOMAIN jobs, Begin(j)
  PROVE  IInv'
<1> USE DEF IInv
<1>0. PICK m, who, roles : m = jobs[j].msg /\ who = Candidate(j)
                           /\ roles = Eligible(m, who, jobs[j].scope)
  OBVIOUS
<1>1. jobs[j] \in JobRow /\ m \in Messages /\ signal[m] \in SignalRow
  BY <1>0, Types, JobRows
<1>2. UNCHANGED <<delivery, claims, pair, news>>
  BY DEF Begin
<1>3. roles \subseteq signal[m].offered /\ \A r \in roles : BoundBy(m, <<who, r>>)
  BY <1>0 DEF Eligible, BoundBy
<1>4. CASE jobs' = [jobs EXCEPT ![j].pc = "done"] /\ UNCHANGED signal
  <2>1. PICK row : row = [jobs[j] EXCEPT !.pc = "done"]
    OBVIOUS
  <2>2. row \in JobRow /\ row.msg = jobs[j].msg /\ row.cand = jobs[j].cand
        /\ row.scope = jobs[j].scope /\ row.pc = "done"
    BY <2>1, <1>1 DEF JobRow
  <2>3. jobs' = [jobs EXCEPT ![j] = row]
    BY <2>1, <1>4
  <2> QED
    BY <2>2, <2>3, <1>2, <1>4, JobStepKeepsIInv
<1>5. CASE jobs' = [jobs EXCEPT ![j].pc = "classify", ![j].read = roles] /\ UNCHANGED signal
  <2>1. PICK row : row = [jobs[j] EXCEPT !.pc = "classify", !.read = roles]
    OBVIOUS
  <2>2. roles \in SUBSET Roles
    BY <1>1, <1>3 DEF SignalRow
  <2>3. row \in JobRow /\ row.msg = jobs[j].msg /\ row.cand = jobs[j].cand
        /\ row.scope = jobs[j].scope /\ row.read = roles
    BY <2>1, <2>2, <1>1 DEF JobRow
  <2>4. jobs' = [jobs EXCEPT ![j] = row]
    BY <2>1, <1>5
  <2>5. \A r \in row.read : BoundBy(row.msg, <<Candidate(j), r>>)
    BY <2>3, <1>0, <1>3
  <2> QED
    BY <2>3, <2>4, <2>5, <1>2, <1>5, JobStepKeepsIInv
<1>6. CASE /\ roles = {} /\ ~Closed(m)
           /\ jobs' = [jobs EXCEPT ![j].pc = "done"]
           /\ signal' = [signal EXCEPT ![m].state = "ignored_later"]
  <2>1. PICK row : row = [jobs[j] EXCEPT !.pc = "done"]
    OBVIOUS
  <2>2. row \in JobRow /\ row.msg = jobs[j].msg /\ row.cand = jobs[j].cand
        /\ row.scope = jobs[j].scope /\ row.pc = "done"
    BY <2>1, <1>1 DEF JobRow
  <2>3. jobs' = [jobs EXCEPT ![j] = row]
    BY <2>1, <1>6
  <2>4. /\ jobs' \in Seq(JobRow) /\ DOMAIN jobs' = DOMAIN jobs
        /\ \A i \in DOMAIN jobs : /\ jobs'[i] = IF i = j THEN row ELSE jobs[i]
                                  /\ jobs'[i].msg = jobs[i].msg /\ jobs'[i].cand = jobs[i].cand
                                  /\ jobs'[i].scope = jobs[i].scope
        /\ \A x : HandBound(x)' <=> HandBound(x)
    BY <2>2, <2>3, JobChanges
  <2>5. PICK new : new = [signal[m] EXCEPT !.state = "ignored_later"]
    OBVIOUS
  <2>6. new \in SignalRow /\ new.state = "ignored_later" /\ new.cand = signal[m].cand
        /\ new.offered = signal[m].offered
    BY <2>5, <1>1 DEF SignalRow, States
  <2>7. signal' = [signal EXCEPT ![m] = new]
    BY <2>5, <1>6
  <2>8. ASSUME NEW k \in claims, k.event = m, k.state = "bound", ~Exists(k.case), ~HandBound(m)
        PROVE  FALSE
    <3>1. jobs[j].cand = Unknown
      BY <2>8, <1>0 DEF HandBound
    <3>2. jobs[j].scope = {} /\ who = signal[m].cand
      BY <3>1, <1>0 DEF JobsAreRecorded, Candidate
    <3>3. k.case \in Of(who, signal[m].offered)
      BY <2>8, <3>2, <1>1 DEF IntakeClaims
    <3>4. PICK r \in signal[m].offered : k.case = <<who, r>>
      BY <3>3 DEF Of
    <3>5. k = [case |-> <<who, r>>, event |-> m, state |-> "bound"]
      BY <2>8, <3>4, Types DEF Claim
    <3>6. r \in roles
      BY <2>8, <3>2, <3>4, <3>5, <1>0 DEF Eligible
    <3> QED
      BY <3>6, <1>6
  <2>9. signal[m].state /= "absent"
    BY <1>0 DEF JobsAreRecorded
  <2> QED
    BY <2>2, <2>4, <2>6, <2>7, <2>8, <2>9, <1>1, <1>2, ClosingKeepsIInv
<1> QED
  BY <1>0, <1>4, <1>5, <1>6 DEF Begin

-----------------------------------------------------------------------------
(* The recruiters *)

\* Nothing is bound to a reply that is dismissed.
LEMMA DismissKeepsIInv ==
  ASSUME IInv, NEW m \in Messages, Dismiss(m)
  PROVE  IInv'
<1> USE DEF IInv
<1>1. signal[m] \in SignalRow
  BY Types
<1>2. PICK row : row = [signal[m] EXCEPT !.state = "ignored_later", !.reviews = {}]
  OBVIOUS
<1>3. row \in SignalRow /\ row.state = "ignored_later" /\ row.cand = signal[m].cand
      /\ row.offered = signal[m].offered
  BY <1>1, <1>2 DEF SignalRow, States
<1>4. signal' = [signal EXCEPT ![m] = row] /\ UNCHANGED <<delivery, claims, pair, jobs, news>>
      /\ signal[m].state /= "absent" /\ \A k \in claims : k.event = m => k.state = "released"
  BY <1>2 DEF Dismiss
<1>5. /\ jobs' \in Seq(JobRow)
      /\ \A x : HandBound(x)' <=> HandBound(x)
  BY <1>4, Types DEF HandBound
<1> QED
  BY <1>3, <1>4, <1>5, ClosingKeepsIInv

\* A recruiter closes a reply whose cases exist, or claims them and queues a job
\* that is about the candidate he named.
LEMMA BindKeepsIInv ==
  ASSUME IInv, NEW m \in Messages, NEW candidate \in Candidates, NEW chosen \in SUBSET Roles,
         Bind(m, candidate, chosen)
  PROVE  IInv'
<1> USE DEF IInv
<1>0. PICK offered, cases :
        /\ offered = IF signal[m].state = "needs_role"
                     THEN signal[m].offered \cup chosen ELSE signal[m].offered
        /\ cases = Of(candidate, chosen)
  OBVIOUS
<1>1. signal[m] \in SignalRow /\ signal \in [Messages -> SignalRow]
  BY Types
<1>2. /\ offered \in SUBSET Roles /\ signal[m].offered \subseteq offered
      /\ cases \in SUBSET Of(candidate, chosen) /\ cases \in SUBSET Cases
  BY <1>0, <1>1 DEF SignalRow, Of, Cases
<1>3. signal[m].state \in {"needs_candidate", "needs_role", "quarantined"}
  BY ReviewsOfState DEF Bind
<1>4. UNCHANGED <<delivery, pair, news>>
  BY DEF Bind
<1>5. CASE /\ signal' = [signal EXCEPT ![m].state = "ignored_later", ![m].offered = offered,
                                       ![m].reviews = @ \ Allowed(m)]
           /\ UNCHANGED <<claims, jobs>>
  <2>1. PICK row : row = [signal[m] EXCEPT !.state = "ignored_later", !.offered = offered,
                                           !.reviews = signal[m].reviews \ Allowed(m)]
    OBVIOUS
  <2>2. row \in SignalRow /\ row.state = "ignored_later" /\ row.cand = signal[m].cand
        /\ row.offered = offered
    BY <1>1, <1>2, <2>1 DEF SignalRow, States
  <2>3. signal' = [signal EXCEPT ![m] = row]
    BY <1>1, <1>5, <2>1
  <2>4. \A k \in claims : k.event = m /\ k.state = "bound" /\ ~Exists(k.case) => HandBound(m)
    BY <1>3 DEF ClaimsLeadOn
  <2>5. jobs' \in Seq(JobRow) /\ \A x : HandBound(x)' <=> HandBound(x)
    BY <1>5, Types DEF HandBound
  <2> QED
    BY <1>2, <1>3, <1>4, <1>5, <2>2, <2>3, <2>4, <2>5, ClosingKeepsIInv
<1>6. CASE /\ claims' = Bound(Reserved(cases, m), cases, m)
           /\ signal' = [signal EXCEPT ![m].state = "ready", ![m].offered = offered]
           /\ jobs' = Append(jobs, Job(m, candidate, chosen))
  <2>1. PICK row, job, found :
          /\ row = [signal[m] EXCEPT !.state = "ready", !.offered = offered]
          /\ job = Job(m, candidate, chosen)
          /\ found = Reserved(cases, m)
    OBVIOUS
  <2>2. row \in SignalRow /\ row.state = "ready" /\ row.cand = signal[m].cand
    BY <1>1, <1>2, <2>1 DEF SignalRow, States
  <2>3. /\ signal' \in [Messages -> SignalRow]
        /\ \A x \in Messages : signal'[x] = IF x = m THEN row ELSE signal[x]
    <3>1. signal' = [signal EXCEPT ![m] = row]
      BY <1>1, <1>6, <2>1
    <3> QED
      BY <1>1, <2>2, <3>1
  <2>4. job \in JobRow /\ job.msg = m /\ job.cand /= Unknown /\ job.pc = "queued"
    BY <2>1, JobType, MessagesAssumption
  <2>5. /\ jobs' \in Seq(JobRow)
        /\ \A i \in DOMAIN jobs' : IF i \in DOMAIN jobs THEN jobs'[i] = jobs[i] ELSE jobs'[i] = job
        /\ \A x : HandBound(x)' <=> HandBound(x) \/ x = m
    <3>1. jobs' = Append(jobs, job)
      BY <1>6, <2>1
    <3> QED
      BY <2>4, <3>1, JobIsQueued
  <2>6. claims \subseteq Claim /\ OnePerCase(claims) /\ m \in Events /\ m /= Direct
    BY Types, MessagesAssumption DEF Events
  <2>7. /\ found \in SUBSET Claim /\ OnePerCase(found) /\ OnePerRole(found) /\ claims \subseteq found
        /\ \A k \in found : k \notin claims => k.event = m /\ k.state = "pending"
    BY <1>2, <2>1, <2>6, ReservedClaims
  <2>8. /\ claims' \subseteq Claim /\ OnePerCase(claims') /\ OnePerRole(claims')
        /\ \A k \in claims' : k \notin found => k.event = m
        /\ \A k \in found : k.state = "bound" \/ k.event /= m => k \in claims'
    <3>1. claims' = Bound(found, cases, m)
      BY <1>6, <2>1
    <3>2. /\ Bound(found, cases, m) \subseteq Claim
          /\ OnePerCase(Bound(found, cases, m)) /\ OnePerRole(Bound(found, cases, m))
          /\ \A k \in Bound(found, cases, m) : k \notin found =>
               k.case \in cases /\ k.event = m /\ k.state = "bound"
          /\ \A k \in found : k.state = "bound" \/ k.event /= m => k \in Bound(found, cases, m)
      <4>1. /\ found \in SUBSET Claim /\ OnePerCase(found) /\ OnePerRole(found)
            /\ cases \in SUBSET Cases /\ m \in Events
        BY <1>2, <2>6, <2>7
      <4> HIDE DEF IInv
      <4> QED
        BY <4>1, BoundClaims
    <3> QED
      BY <3>1, <3>2
  <2>9. /\ \A k \in claims' : k \in claims \/ k.event = m
        /\ \A k \in claims : k.state = "bound" \/ k.event /= m => k \in claims'
    BY <2>7, <2>8
  <2>10. TypeOK'
    BY <1>4, <2>3, <2>5, <2>8, Types, TypesNext
  <2>11. DirectClaimsHaveCases' /\ BoundIsRecorded'
    <3>1. DirectClaimsHaveCases'
      BY <1>4, <2>6, <2>9 DEF DirectClaimsHaveCases, Exists
    <3>2. BoundIsRecorded'
      BY <2>2, <2>3, <2>8, <2>9 DEF BoundIsRecorded, Claim, Events
    <3> QED
      BY <3>1, <3>2
  <2>12. DeliveriesKnow'
    <3>1. \A x \in Messages : signal'[x].state = "absent" => signal[x].state = "absent" /\ x /= m
      BY <2>2, <2>3
    <3> QED
      BY <1>4, <2>9, <3>1 DEF DeliveriesKnow
  <2>13. JobsAreRecorded'
    BY <2>2, <2>3, <2>4, <2>5, JobRows DEF JobsAreRecorded
  <2>14. ReadIsClaimed'
    <3>1. \A x \in Messages : /\ signal'[x].cand = signal[x].cand
                              /\ signal[x].state \in {"resolved", "ignored_later"} =>
                                   signal'[x].state \in {"resolved", "ignored_later"}
      BY <1>3, <2>2, <2>3
    <3> SUFFICES ASSUME NEW i \in DOMAIN jobs, jobs'[i] = jobs[i], jobs[i].pc = "classify",
                        ~Closed(jobs[i].msg)', NEW r \in jobs[i].read
                 PROVE  BoundBy(jobs[i].msg, <<Candidate(i), r>>)'
      BY <2>4, <2>5 DEF ReadIsClaimed
    <3>2. jobs[i].msg \in Messages
      BY JobRows
    <3>3. Candidate(i)' = Candidate(i) /\ ~Closed(jobs[i].msg)
      BY <3>1, <3>2 DEF Candidate, Closed
    <3> QED
      BY <2>9, <3>3 DEF ReadIsClaimed, BoundBy
  <2>15. IntakeClaims'
    BY <1>4, <2>3, <2>5, <2>9 DEF IntakeClaims, BoundBy, Exists
  <2>16. AnnouncedOnce'
    BY <1>4 DEF AnnouncedOnce, Exists
  <2>17. UnresolvedIsShown'
    <3> SUFFICES ASSUME NEW x \in Messages
                 PROVE  Allowed(x)' \subseteq signal'[x].reviews
                        \/ (signal'[x].state = "quarantined" /\ Opened(x)' /= {})
      BY DEF UnresolvedIsShown
    <3>1. CASE x = m
      BY <2>2, <2>3, <3>1, ReviewsOfNextState
    <3>2. CASE x /= m
      <4>1. signal'[x] = signal[x] /\ Opened(x)' = Opened(x)
        BY <1>4, <2>3, <3>2 DEF Opened, Exists
      <4> QED
        BY <4>1, SameIsShown DEF UnresolvedIsShown
    <3> QED
      BY <3>1, <3>2
  <2>18. ClaimsLeadOn'
    <3> SUFFICES ASSUME NEW k \in claims', k.state = "bound", ~Exists(k.case)
                 PROVE  \/ signal'[k.event].state = "ready"
                        \/ HandBound(k.event) /\ signal'[k.event].state \in {"quarantined", "ignored_later"}
      BY <1>4, <2>5 DEF ClaimsLeadOn, Exists
    <3>1. CASE k.event = m
      BY <2>2, <2>3, <3>1
    <3>2. CASE k.event /= m
      <4>1. k \in claims /\ k.event \in Messages
        BY <2>6, <2>9, <3>2 DEF DirectClaimsHaveCases, Claim, Events
      <4> QED
        BY <2>3, <3>2, <4>1 DEF ClaimsLeadOn
    <3> QED
      BY <3>1, <3>2
  <2> QED
    BY <2>8, <2>10, <2>11, <2>12, <2>13, <2>14, <2>15, <2>16, <2>17, <2>18
<1> QED
  BY <1>0, <1>5, <1>6 DEF Bind

\* A recruiter's decision about a case changes neither who opened it nor whether
\* it is there.
LEMMA DecisionKeepsIInv ==
  ASSUME IInv, NEW c \in Cases, Correct(c) \/ Hide(c) \/ Restore(c)
  PROVE  IInv'
<1> USE DEF IInv
<1>1. PICK stage \in {"unclear", "hidden", "settled"} : pair' = [pair EXCEPT ![c].stage = stage]
  BY DEF Correct, Hide, Restore
<1>2. Exists(c) /\ UNCHANGED <<signal, delivery, claims, jobs, news>>
  BY DEF Correct, Hide, Restore, Exists
<1>3. pair \in [Cases -> [stage : Stages, first : Events]]
  BY Types
<1>4. /\ pair' \in [Cases -> [stage : Stages, first : Events]]
      /\ \A x \in Cases : pair'[x].first = pair[x].first
      /\ \A x \in Cases : Exists(x)' <=> Exists(x)
  BY <1>1, <1>2, <1>3 DEF Stages, Exists
<1>5. TypeOK'
  BY <1>2, <1>4, Types, TypesNext DEF OnePerCase
<1>6. \A k \in claims : k.case \in Cases
  BY Types DEF Claim
<1>7. OnePerRole(claims)' /\ DirectClaimsHaveCases' /\ BoundIsRecorded' /\ DeliveriesKnow'
  BY <1>2, <1>4, <1>6 DEF OnePerRole, DirectClaimsHaveCases, BoundIsRecorded, DeliveriesKnow
<1>8. JobsAreRecorded' /\ ReadIsClaimed'
  BY <1>2 DEF JobsAreRecorded, ReadIsClaimed, BoundBy, Candidate, Closed
<1>9. ClaimsLeadOn'
  BY <1>2, <1>4, <1>6 DEF ClaimsLeadOn, HandBound
<1>10. IntakeClaims'
  <2> SUFFICES ASSUME NEW m \in Messages, ~HandBound(m)
               PROVE  /\ \A k \in claims : k.event = m /\ k.state = "bound" =>
                           k.case \in Of(signal[m].cand, signal[m].offered)
                      /\ signal[m].state = "ready" =>
                           /\ signal[m].cand \in Candidates
                           /\ \A x \in Of(signal[m].cand, signal[m].offered) :
                                Exists(x)' \/ BoundBy(m, x)
    BY <1>2 DEF IntakeClaims, HandBound, BoundBy
  <2>1. signal[m] \in SignalRow
    BY Types
  <2>2. signal[m].cand \in Candidates => Of(signal[m].cand, signal[m].offered) \subseteq Cases
    BY <2>1 DEF Of, Cases, SignalRow
  <2> QED
    BY <2>2, <1>4 DEF IntakeClaims
<1>11. AnnouncedOnce'
  BY <1>2, <1>4 DEF AnnouncedOnce
<1>12. \A m : Opened(m)' = Opened(m)
  BY <1>4 DEF Opened
<1>13. UnresolvedIsShown'
  BY <1>2, <1>12, SameIsShown DEF UnresolvedIsShown
<1> QED
  BY <1>2, <1>5, <1>7, <1>8, <1>9, <1>10, <1>11, <1>13

\* Several cases may be opened at once: what the tables of pairs and of news say
\* of them still agrees.
LEMMA TellOfCasesTells ==
  ASSUME TypeOK, AnnouncedOnce, NEW m \in Messages, NEW opened \in SUBSET Cases,
         \A c \in opened : ~Exists(c),
         TellOfCases(m, opened),
         \A c \in Cases : Exists(c)' <=> Exists(c) \/ c \in opened,
         \A c \in opened : pair'[c].first = m,
         \A c \in Cases : Exists(c) => pair'[c].first = pair[c].first
  PROVE  /\ news' \in [lineage : SUBSET Messages, about : [Messages -> SUBSET Cases], own : SUBSET Cases]
         /\ AnnouncedOnce'
<1>1. /\ news \in [lineage : SUBSET Messages, about : [Messages -> SUBSET Cases], own : SUBSET Cases]
      /\ news.about \in [Messages -> SUBSET Cases] /\ news.own \in SUBSET Cases
  BY Types
<1>2. \A c \in opened : c \notin news.own /\ \A x \in Messages : c \notin news.about[x]
  BY DEF AnnouncedOnce
<1>3. CASE news' = news /\ opened = {}
  <2>1. \A c \in Cases : Exists(c)' <=> Exists(c)
    BY <1>3
  <2> QED
    BY <1>1, <1>3, <2>1 DEF AnnouncedOnce
<1>4. CASE news' = [news EXCEPT !.own = @ \cup opened]
  <2>1. /\ news' \in [lineage : SUBSET Messages, about : [Messages -> SUBSET Cases], own : SUBSET Cases]
        /\ news'.about = news.about /\ news'.own = news.own \cup opened
    BY <1>1, <1>4
  <2> SUFFICES ASSUME NEW c \in Cases, NEW by, by = {x \in Messages : c \in news.about[x]}
               PROVE  /\ Exists(c)' <=> (c \in news'.own \/ by /= {})
                      /\ ~(c \in news'.own /\ by /= {})
                      /\ by \subseteq {pair'[c].first}
    BY <2>1 DEF AnnouncedOnce
  <2>2. /\ Exists(c) <=> (c \in news.own \/ by /= {})
        /\ ~(c \in news.own /\ by /= {})
        /\ by \subseteq {pair[c].first}
    BY DEF AnnouncedOnce
  <2>3. c \in opened => by = {}
    BY <1>2
  <2> QED
    BY <2>1, <2>2, <2>3
<1>5. CASE \E heir \in opened :
             /\ news.about[m] = {}
             /\ news' = [news EXCEPT !.about[m] = {heir}, !.own = @ \cup (opened \ {heir})]
  <2>1. PICK heir \in opened :
          /\ news.about[m] = {}
          /\ news' = [news EXCEPT !.about[m] = {heir}, !.own = @ \cup (opened \ {heir})]
    BY <1>5
  <2>2. PICK about : about = [news.about EXCEPT ![m] = {heir}]
    OBVIOUS
  <2>3. about \in [Messages -> SUBSET Cases]
        /\ \A x \in Messages : about[x] = IF x = m THEN {heir} ELSE news.about[x]
    BY <1>1, <2>2
  <2>4. /\ news' \in [lineage : SUBSET Messages, about : [Messages -> SUBSET Cases], own : SUBSET Cases]
        /\ news'.about = about /\ news'.own = news.own \cup (opened \ {heir})
    <3>1. news' = [news EXCEPT !.about = about, !.own = news.own \cup (opened \ {heir})]
      BY <1>1, <2>1, <2>2
    <3> QED
      BY <1>1, <2>3, <3>1
  <2> SUFFICES ASSUME NEW c \in Cases, NEW then, then = {x \in Messages : c \in news'.about[x]}
               PROVE  /\ Exists(c)' <=> (c \in news'.own \/ then /= {})
                      /\ ~(c \in news'.own /\ then /= {})
                      /\ then \subseteq {pair'[c].first}
    BY <2>4 DEF AnnouncedOnce
  <2> PICK by : by = {x \in Messages : c \in news.about[x]}
    OBVIOUS
  <2>5. /\ Exists(c) <=> (c \in news.own \/ by /= {})
        /\ ~(c \in news.own /\ by /= {})
        /\ by \subseteq {pair[c].first}
    BY DEF AnnouncedOnce
  <2>6. c \in opened => by = {} /\ c \notin news.own
    BY <1>2
  <2>7. then = IF c = heir THEN {m} ELSE by
    <3>1. CASE c = heir
      BY <2>3, <2>4, <2>6, <3>1
    <3>2. CASE c /= heir
      <4>1. \A x \in Messages : c \in news'.about[x] <=> c \in news.about[x]
        BY <2>1, <2>3, <2>4, <3>2
      <4> QED
        BY <4>1, <3>2
    <3> QED
      BY <3>1, <3>2
  <2>8. CASE c = heir
    BY <2>4, <2>6, <2>7, <2>8
  <2>9. CASE c /= heir /\ c \in opened
    BY <2>4, <2>6, <2>7, <2>9
  <2>10. CASE c \notin opened
    BY <2>4, <2>5, <2>7, <2>10
  <2> QED
    BY <2>8, <2>9, <2>10
<1> QED
  BY <1>3, <1>4, <1>5 DEF TellOfCases

\* A case without a reply is opened in the transaction that claims and binds it.
LEMMA OpenDirectlyKeepsIInv ==
  ASSUME IInv, NEW c \in Cases, OpenDirectly(c)
  PROVE  IInv' /\ BoundBy(Direct, c)' /\ pair'[c].first = Direct
               /\ \A x \in Cases : Exists(x)' <=> Exists(x) \/ x = c
<1> USE DEF IInv
<1>1. /\ ~Exists(c) /\ Active(c) = {}
      /\ claims' = Bound(Reserved({c}, Direct), {c}, Direct)
      /\ pair' = [pair EXCEPT ![c] = [stage |-> "settled", first |-> Direct]]
      /\ news' = [news EXCEPT !.own = @ \cup {c}]
      /\ UNCHANGED <<signal, delivery, jobs>>
  BY DEF OpenDirectly
<1>2. PICK found : found = Reserved({c}, Direct)
  OBVIOUS
<1>3. /\ claims \subseteq Claim /\ OnePerCase(claims) /\ Direct \in Events /\ Direct \notin Messages
      /\ c[1] \in Candidates /\ {c[2]} \in SUBSET Roles /\ {c} \in SUBSET Of(c[1], {c[2]})
      /\ {c} \in SUBSET Cases
  BY Types, MessagesAssumption DEF Events, Cases, Of
<1>4. /\ found \in SUBSET Claim /\ OnePerCase(found) /\ OnePerRole(found) /\ claims \subseteq found
      /\ \A k \in found : k \notin claims => k.case = c /\ k.event = Direct /\ k.state = "pending"
      /\ [case |-> c, event |-> Direct, state |-> "pending"] \in found
  <2>1. MayClaim(c, Direct)
    BY <1>1 DEF MayClaim
  <2> HIDE DEF IInv
  <2>2. OnePerRole(claims)
    BY DEF IInv
  <2> QED
    BY <1>2, <1>3, <2>1, <2>2, ReservedClaims
<1>5. /\ claims' \subseteq Claim /\ OnePerCase(claims') /\ OnePerRole(claims')
      /\ \A k \in claims' : k \notin found => k.case = c /\ k.event = Direct /\ k.state = "bound"
      /\ \A k \in found : k.event /= Direct => k \in claims'
      /\ [case |-> c, event |-> Direct, state |-> "bound"] \in claims'
  <2>1. claims' = Bound(found, {c}, Direct)
    BY <1>1, <1>2
  <2> HIDE DEF IInv
  <2>2. /\ Bound(found, {c}, Direct) \subseteq Claim
        /\ OnePerCase(Bound(found, {c}, Direct)) /\ OnePerRole(Bound(found, {c}, Direct))
        /\ \A k \in Bound(found, {c}, Direct) : k \notin found =>
             k.case \in {c} /\ k.event = Direct /\ k.state = "bound"
        /\ \A k \in found : k.state = "bound" \/ k.event /= Direct => k \in Bound(found, {c}, Direct)
        /\ \A k \in found : k.case \in {c} /\ k.event = Direct /\ k.state /= "released" =>
             [case |-> k.case, event |-> Direct, state |-> "bound"] \in Bound(found, {c}, Direct)
    BY <1>3, <1>4, BoundClaims
  <2> QED
    BY <1>4, <2>1, <2>2
<1>6. /\ \A k \in claims' : k \in claims \/ (k.case = c /\ k.event = Direct)
      /\ \A k \in claims : k.event /= Direct => k \in claims'
  BY <1>4, <1>5
<1>7. /\ pair' \in [Cases -> [stage : Stages, first : Events]]
      /\ pair'[c].first = Direct
      /\ \A x \in Cases : x /= c => pair'[x] = pair[x]
      /\ \A x \in Cases : Exists(x)' <=> Exists(x) \/ x = c
  <2>1. pair \in [Cases -> [stage : Stages, first : Events]]
    BY Types
  <2>2. [stage |-> "settled", first |-> Direct] \in [stage : Stages, first : Events]
    BY <1>3 DEF Stages
  <2> QED
    BY <1>1, <2>1, <2>2 DEF Exists
<1>8. /\ news' \in [lineage : SUBSET Messages, about : [Messages -> SUBSET Cases], own : SUBSET Cases]
      /\ news'.about = news.about /\ news'.own = news.own \cup {c}
  <2>1. news \in [lineage : SUBSET Messages, about : [Messages -> SUBSET Cases], own : SUBSET Cases]
    BY Types
  <2> QED
    BY <1>1, <2>1
<1>9. TypeOK'
  BY <1>1, <1>5, <1>7, <1>8, Types, TypesNext
<1>10. DirectClaimsHaveCases' /\ BoundIsRecorded'
  BY <1>1, <1>3, <1>5, <1>6, <1>7 DEF DirectClaimsHaveCases, BoundIsRecorded, Claim
<1>11. DeliveriesKnow'
  <2>1. \A x \in Deliveries : delivery[x].pc /= "idle" => delivery[x].msg /= Direct
    BY <1>3 DEF DeliveriesKnow
  <2>2. \A k \in claims : k.event /= Direct => k \in claims'
    BY <1>6
  <2>3. ASSUME NEW x \in Deliveries, delivery[x].pc = "record", delivery[x].to = "ready",
               signal[delivery[x].msg].state = "absent",
               NEW q \in Of(delivery[x].cand, delivery[x].offered)
        PROVE  \E k \in claims' : k.case = q /\ k.event = delivery[x].msg /\ k.state /= "released"
    <3>1. PICK k \in claims : k.case = q /\ k.event = delivery[x].msg /\ k.state /= "released"
      BY <2>3 DEF DeliveriesKnow
    <3> QED
      BY <2>1, <2>2, <2>3, <3>1
  <2> QED
    BY <1>1, <2>3 DEF DeliveriesKnow
<1>12. JobsAreRecorded'
  BY <1>1 DEF JobsAreRecorded
<1>13. ReadIsClaimed'
  BY <1>1, <1>3, <1>6, JobRows DEF ReadIsClaimed, BoundBy, Candidate, Closed
<1>14. IntakeClaims'
  <2> SUFFICES ASSUME NEW m \in Messages, ~HandBound(m)
               PROVE  /\ \A k \in claims' : k.event = m /\ k.state = "bound" =>
                           k.case \in Of(signal[m].cand, signal[m].offered)
                      /\ signal[m].state = "ready" =>
                           /\ signal[m].cand \in Candidates
                           /\ \A x \in Of(signal[m].cand, signal[m].offered) :
                                Exists(x)' \/ BoundBy(m, x)'
    BY <1>1 DEF IntakeClaims, HandBound
  <2>1. signal[m] \in SignalRow
    BY Types
  <2>2. signal[m].cand \in Candidates => Of(signal[m].cand, signal[m].offered) \subseteq Cases
    BY <2>1 DEF Of, Cases, SignalRow
  <2>3. m /= Direct /\ \A x \in Cases : Exists(x) \/ BoundBy(m, x) => Exists(x)' \/ BoundBy(m, x)'
    BY <1>3, <1>6, <1>7 DEF BoundBy
  <2> QED
    BY <2>2, <2>3, <1>6 DEF IntakeClaims
<1>15. AnnouncedOnce'
  <2> HIDE DEF IInv
  <2> SUFFICES ASSUME NEW x \in Cases, NEW by, by = {m \in Messages : x \in news'.about[m]}
               PROVE  /\ Exists(x)' <=> (x \in news'.own \/ by /= {})
                      /\ ~(x \in news'.own /\ by /= {})
                      /\ by \subseteq {pair'[x].first}
    BY DEF AnnouncedOnce
  <2>1. /\ Exists(x) <=> (x \in news.own \/ by /= {})
        /\ ~(x \in news.own /\ by /= {})
        /\ by \subseteq {pair[x].first}
    BY <1>8 DEF AnnouncedOnce, IInv
  <2> QED
    BY <2>1, <1>1, <1>7, <1>8
<1>16. UnresolvedIsShown'
  <2>1. \A m : Opened(m) \subseteq Opened(m)'
    BY <1>1, <1>7 DEF Opened
  <2> QED
    BY <2>1, <1>1, SameIsShown DEF UnresolvedIsShown
<1>17. ClaimsLeadOn'
  <2> SUFFICES ASSUME NEW k \in claims', k.state = "bound", ~Exists(k.case)'
               PROVE  \/ signal[k.event].state = "ready"
                      \/ HandBound(k.event) /\ signal[k.event].state \in {"quarantined", "ignored_later"}
    BY <1>1 DEF ClaimsLeadOn, HandBound
  <2>1. k.case \in Cases
    BY <1>5 DEF Claim
  <2>2. k \in claims /\ ~Exists(k.case)
    BY <2>1, <1>6, <1>7
  <2> QED
    BY <2>2 DEF ClaimsLeadOn
<1>18. BoundBy(Direct, c)'
  BY <1>5 DEF BoundBy
<1> QED
  BY <1>5, <1>7, <1>9, <1>10, <1>11, <1>12, <1>13, <1>14, <1>15, <1>16, <1>17, <1>18

-----------------------------------------------------------------------------
(* The end of a classification *)

\* The job is done; all other jobs, and what every job is about, stay.
LEMMA JobIsDone ==
  ASSUME TypeOK, NEW j \in DOMAIN jobs,
         jobs' = [jobs EXCEPT ![j].pc = "done", ![j].read = {}]
  PROVE  /\ jobs' \in Seq(JobRow) /\ DOMAIN jobs' = DOMAIN jobs
         /\ \A i \in DOMAIN jobs : /\ jobs'[i].msg = jobs[i].msg /\ jobs'[i].cand = jobs[i].cand
                                   /\ jobs'[i].scope = jobs[i].scope
                                   /\ jobs'[i].pc = "classify" => i /= j /\ jobs'[i] = jobs[i]
         /\ \A m : HandBound(m)' <=> HandBound(m)
<1>1. jobs[j] \in JobRow
  BY JobRows
<1>2. PICK row : row = [jobs[j] EXCEPT !.pc = "done", !.read = {}]
  OBVIOUS
<1>3. row \in JobRow /\ row.msg = jobs[j].msg /\ row.cand = jobs[j].cand
      /\ row.scope = jobs[j].scope /\ row.pc = "done"
  BY <1>1, <1>2 DEF JobRow
<1>4. jobs' = [jobs EXCEPT ![j] = row]
  BY <1>2
<1>5. /\ jobs' \in Seq(JobRow) /\ DOMAIN jobs' = DOMAIN jobs
      /\ \A i \in DOMAIN jobs : /\ jobs'[i] = IF i = j THEN row ELSE jobs[i]
                                /\ jobs'[i].msg = jobs[i].msg /\ jobs'[i].cand = jobs[i].cand
                                /\ jobs'[i].scope = jobs[i].scope
      /\ \A m : HandBound(m)' <=> HandBound(m)
  BY <1>3, <1>4, JobChanges
<1> QED
  BY <1>3, <1>5

\* A classification opens cases the reply holds the claims on, and closes it.
LEMMA ApplyKeepsIInv ==
  ASSUME IInv, NEW j \in DOMAIN jobs, NEW decided \in SUBSET jobs[j].read, decided /= {},
         Apply(j, decided)
  PROVE  /\ IInv'
         /\ \A c \in Cases : ~Exists(c) /\ Exists(c)' => BoundBy(pair[c].first, c)'
<1> USE DEF IInv
<1>0. PICK m, who, created, applied, opened :
        /\ m = jobs[j].msg /\ who = Candidate(j)
        /\ created = {r \in decided : ~Exists(<<who, r>>)}
        /\ applied = created \cup {r \in decided : Recoverable(m, <<who, r>>)}
        /\ opened = Of(who, created)
  OBVIOUS
<1>1. /\ jobs[j] \in JobRow /\ m \in Messages /\ m \in Events /\ m /= Direct
      /\ signal \in [Messages -> SignalRow] /\ signal[m] \in SignalRow
      /\ pair \in [Cases -> [stage : Stages, first : Events]]
      /\ claims \subseteq Claim /\ OnePerCase(claims)
  BY <1>0, Types, JobRows, MessagesAssumption DEF Events
<1>2. /\ jobs[j].pc = "classify" /\ ~Closed(m)
      /\ pair' = [c \in Cases |->
           CASE c \in opened -> [stage |-> "settled", first |-> m]
             [] c \in Of(who, applied \ created) -> [pair[c] EXCEPT !.stage = "settled"]
             [] OTHER -> pair[c]]
      /\ claims' = Without(m, decided, applied)
      /\ signal' = [signal EXCEPT ![m].state = After(m, applied, "resolved"), ![m].reviews = {}]
      /\ TellOfCases(m, opened)
      /\ jobs' = [jobs EXCEPT ![j].pc = "done", ![j].read = {}]
      /\ delivery' = delivery
  BY <1>0 DEF Apply
<1>3. \A r \in decided : BoundBy(m, <<who, r>>)
  BY <1>0, <1>2 DEF ReadIsClaimed
<1>4. who \in Candidates /\ decided \subseteq Roles
  BY <1>0, <1>1, <1>3 DEF BoundBy, Claim, Cases, JobRow
<1>5. /\ opened \in SUBSET Cases /\ applied \subseteq decided /\ created \subseteq applied
      /\ \A c \in opened : ~Exists(c)
      /\ \A c \in Of(who, applied \ created) : Exists(c)
  BY <1>0, <1>4 DEF Of, Cases, Recoverable, Exists
<1>6. /\ pair' \in [Cases -> [stage : Stages, first : Events]]
      /\ \A c \in Cases : Exists(c)' <=> Exists(c) \/ c \in opened
      /\ \A c \in opened : pair'[c].first = m
      /\ \A c \in Cases : Exists(c) => pair'[c].first = pair[c].first
  <2> SUFFICES ASSUME NEW c \in Cases
               PROVE  /\ pair'[c] \in [stage : Stages, first : Events]
                      /\ pair'[c].stage /= "none" <=> Exists(c) \/ c \in opened
                      /\ c \in opened => pair'[c].first = m
                      /\ Exists(c) => pair'[c].first = pair[c].first
    BY <1>2, <1>5 DEF Exists
  <2>1. CASE c \in opened
    <3>0. c \notin Of(who, applied \ created)
      BY <1>5, <2>1
    <3>1. pair'[c] = [stage |-> "settled", first |-> m]
      BY <1>2, <2>1, <3>0
    <3> QED
      BY <1>1, <1>5, <2>1, <3>1 DEF Stages
  <2>2. CASE c \notin opened /\ c \in Of(who, applied \ created)
    <3>1. pair'[c] = [pair[c] EXCEPT !.stage = "settled"]
      BY <1>2, <2>2
    <3>2. pair[c] \in [stage : Stages, first : Events]
      BY <1>1
    <3> QED
      BY <1>5, <2>2, <3>1, <3>2 DEF Stages
  <2>3. CASE c \notin opened /\ c \notin Of(who, applied \ created)
    <3>1. pair'[c] = pair[c]
      BY <1>2, <2>3
    <3> QED
      BY <1>1, <2>3, <3>1 DEF Exists
  <2> QED
    BY <2>1, <2>2, <2>3
<1>7. /\ claims' \subseteq Claim /\ OnePerCase(claims') /\ OnePerRole(claims')
      /\ \A k \in claims' : \E l \in claims :
           /\ k.case = l.case /\ k.event = l.event
           /\ k.state /= "released" => k = l
           /\ k.event = m /\ k.state = "bound" => k.case[2] \in applied
      /\ \A k \in claims : k.event /= m \/ k.case[2] \in applied => k \in claims'
  BY <1>1, <1>2, ClaimsWithout
<1>8. PICK row : row = [signal[m] EXCEPT !.state = After(m, applied, "resolved"), !.reviews = {}]
  OBVIOUS
<1>9. /\ row \in SignalRow /\ row.state \in {"resolved", "ignored_later"}
      /\ row.cand = signal[m].cand /\ row.offered = signal[m].offered
  <2>1. After(m, applied, "resolved") \in {"resolved", "ignored_later"}
    BY DEF After
  <2> QED
    BY <1>1, <1>8, <2>1 DEF SignalRow, States
<1>10. /\ signal' \in [Messages -> SignalRow]
       /\ \A x \in Messages : signal'[x] = IF x = m THEN row ELSE signal[x]
  <2>1. signal' = [signal EXCEPT ![m] = row]
    BY <1>1, <1>2, <1>8
  <2> QED
    BY <1>1, <1>9, <2>1
<1>11. /\ jobs' \in Seq(JobRow) /\ DOMAIN jobs' = DOMAIN jobs
       /\ \A i \in DOMAIN jobs : /\ jobs'[i].msg = jobs[i].msg /\ jobs'[i].cand = jobs[i].cand
                                 /\ jobs'[i].scope = jobs[i].scope
                                 /\ jobs'[i].pc = "classify" => i /= j /\ jobs'[i] = jobs[i]
       /\ \A x : HandBound(x)' <=> HandBound(x)
  BY <1>2, JobIsDone
<1>12. /\ news' \in [lineage : SUBSET Messages, about : [Messages -> SUBSET Cases], own : SUBSET Cases]
       /\ AnnouncedOnce'
  <2>1. TypeOK /\ AnnouncedOnce
    OBVIOUS
  <2> HIDE DEF IInv
  <2> QED
    BY <2>1, <1>1, <1>2, <1>5, <1>6, TellOfCasesTells
<1>13. TypeOK'
  BY <1>2, <1>6, <1>7, <1>10, <1>11, <1>12, Types, TypesNext
<1>14. DirectClaimsHaveCases'
  <2> SUFFICES ASSUME NEW k \in claims', k.event = Direct PROVE Exists(k.case)'
    BY DEF DirectClaimsHaveCases
  <2>1. \E l \in claims : k.case = l.case /\ k.event = l.event
    BY <1>7
  <2>2. Exists(k.case) /\ k.case \in Cases
    BY <1>7, <2>1 DEF DirectClaimsHaveCases, Claim
  <2> QED
    BY <1>6, <2>2
<1>15. BoundIsRecorded'
  <2> SUFFICES ASSUME NEW k \in claims', k.event /= Direct, k.state = "bound"
               PROVE  signal'[k.event].state \in {"ready", "quarantined", "resolved", "ignored_later"}
    BY DEF BoundIsRecorded
  <2>1. k \in claims /\ k.event \in Messages
    BY <1>7 DEF Claim, Events
  <2> QED
    BY <1>9, <1>10, <2>1 DEF BoundIsRecorded
<1>16. DeliveriesKnow'
  <2>1. \A x \in Messages : signal'[x].state = "absent" => signal[x].state = "absent" /\ x /= m
    BY <1>9, <1>10
  <2>2. ASSUME NEW x \in Deliveries, delivery[x].pc = "record", delivery[x].to = "ready",
               signal'[delivery[x].msg].state = "absent",
               NEW q \in Of(delivery[x].cand, delivery[x].offered)
        PROVE  \E k \in claims' : k.case = q /\ k.event = delivery[x].msg /\ k.state /= "released"
    <3>1. signal[delivery[x].msg].state = "absent" /\ delivery[x].msg /= m
      BY <2>1, <2>2 DEF DeliveriesKnow
    <3>2. PICK k \in claims : k.case = q /\ k.event = delivery[x].msg /\ k.state /= "released"
      BY <2>2, <3>1 DEF DeliveriesKnow
    <3> QED
      BY <1>7, <3>1, <3>2
  <2>3. \A x \in Deliveries : delivery'[x] = delivery[x]
    BY <1>2
  <2> QED
    BY <2>2, <2>3 DEF DeliveriesKnow
<1>17. JobsAreRecorded'
  BY <1>9, <1>10, <1>11, JobRows DEF JobsAreRecorded
<1>18. ReadIsClaimed'
  <2> SUFFICES ASSUME NEW i \in DOMAIN jobs, jobs'[i] = jobs[i], jobs[i].pc = "classify",
                      ~Closed(jobs[i].msg)', NEW r \in jobs[i].read
               PROVE  BoundBy(jobs[i].msg, <<Candidate(i), r>>)'
    BY <1>11 DEF ReadIsClaimed
  <2>1. jobs[i].msg \in Messages /\ jobs[i].msg /= m
    BY <1>9, <1>10, JobRows DEF Closed
  <2>2. Candidate(i)' = Candidate(i) /\ ~Closed(jobs[i].msg)
    BY <1>10, <2>1 DEF Candidate, Closed
  <2>3. BoundBy(jobs[i].msg, <<Candidate(i), r>>)
    BY <2>2 DEF ReadIsClaimed
  <2> QED
    BY <1>7, <2>1, <2>2, <2>3 DEF BoundBy
<1>19. IntakeClaims'
  <2> SUFFICES ASSUME NEW x \in Messages, ~HandBound(x)
               PROVE  /\ \A k \in claims' : k.event = x /\ k.state = "bound" =>
                           k.case \in Of(signal'[x].cand, signal'[x].offered)
                      /\ signal'[x].state = "ready" =>
                           /\ signal'[x].cand \in Candidates
                           /\ \A c \in Of(signal'[x].cand, signal'[x].offered) :
                                Exists(c)' \/ BoundBy(x, c)'
    BY <1>11 DEF IntakeClaims
  <2>1. \A k \in claims' : k.state = "bound" => k \in claims
    BY <1>7
  <2>2. CASE x = m
    BY <1>9, <1>10, <2>1, <2>2 DEF IntakeClaims
  <2>3. CASE x /= m
    <3>1. signal'[x] = signal[x] /\ signal[x] \in SignalRow
      BY <1>1, <1>10, <2>3
    <3>2. signal[x].cand \in Candidates => Of(signal[x].cand, signal[x].offered) \subseteq Cases
      BY <3>1 DEF Of, Cases, SignalRow
    <3>3. \A c \in Cases : Exists(c) \/ BoundBy(x, c) => Exists(c)' \/ BoundBy(x, c)'
      BY <1>6, <1>7, <2>3 DEF BoundBy
    <3> QED
      BY <2>1, <3>1, <3>2, <3>3 DEF IntakeClaims
  <2> QED
    BY <2>2, <2>3
<1>20. \A x : Opened(x) \subseteq Opened(x)'
  BY <1>6 DEF Opened
<1>21. UnresolvedIsShown'
  <2> SUFFICES ASSUME NEW x \in Messages
               PROVE  Allowed(x)' \subseteq signal'[x].reviews
                      \/ (signal'[x].state = "quarantined" /\ Opened(x)' /= {})
    BY DEF UnresolvedIsShown
  <2>1. CASE x = m
    BY <1>9, <1>10, <2>1, ReviewsOfNextState
  <2>2. CASE x /= m
    <3>1. signal'[x] = signal[x] /\ Opened(x) \subseteq Opened(x)'
      BY <1>10, <1>20, <2>2
    <3> QED
      BY <3>1, SameIsShown DEF UnresolvedIsShown
  <2> QED
    BY <2>1, <2>2
<1>22. ClaimsLeadOn'
  <2> SUFFICES ASSUME NEW k \in claims', k.state = "bound", ~Exists(k.case)'
               PROVE  \/ signal'[k.event].state = "ready"
                      \/ HandBound(k.event) /\ signal'[k.event].state \in {"quarantined", "ignored_later"}
    BY <1>11 DEF ClaimsLeadOn
  <2>1. k \in claims /\ k.case \in Cases /\ k.event \in Events
    BY <1>7 DEF Claim
  <2>2. ~Exists(k.case) /\ k.case \notin opened
    BY <1>6, <2>1
  <2>3. k.event \in Messages
    BY <2>1, <2>2 DEF DirectClaimsHaveCases, Events
  <2>4. k.event /= m
    <3> SUFFICES ASSUME k.event = m PROVE FALSE
      OBVIOUS
    <3>1. k.case[2] \in applied
      BY <1>7
    <3>2. PICK l \in claims : l = [case |-> <<who, k.case[2]>>, event |-> m, state |-> "bound"]
      BY <1>3, <1>5, <3>1 DEF BoundBy
    <3>3. l = k
      BY <1>1, <2>1, <3>2 DEF OnePerRole
    <3>4. k.case = <<who, k.case[2]>>
      BY <3>2, <3>3
    <3>5. k.case \in opened \/ k.case \in Of(who, applied \ created)
      BY <1>0, <3>1, <3>4 DEF Of
    <3> QED
      BY <1>5, <2>2, <3>5
  <2> QED
    BY <1>10, <2>1, <2>2, <2>3, <2>4 DEF ClaimsLeadOn
<1>23. \A c \in Cases : ~Exists(c) /\ Exists(c)' => BoundBy(pair[c].first, c)'
  <2> SUFFICES ASSUME NEW c \in Cases, c \in opened PROVE BoundBy(m, c)'
    <3>1. \A c \in Cases : ~Exists(c) /\ Exists(c)' => c \in opened /\ pair'[c].first = m
      BY <1>6
    <3> QED
      BY <3>1 DEF BoundBy
  <2>1. PICK r \in created : c = <<who, r>>
    BY <1>0 DEF Of
  <2>2. [case |-> <<who, r>>, event |-> m, state |-> "bound"] \in claims
    BY <1>3, <1>5, <2>1 DEF BoundBy
  <2> QED
    BY <1>5, <1>7, <2>1, <2>2 DEF BoundBy
<1> QED
  BY <1>7, <1>13, <1>14, <1>15, <1>16, <1>17, <1>18, <1>19, <1>12, <1>21, <1>22, <1>23

\* A classification that failed quarantines the reply, with a review or with the
\* cases that it had claimed.
LEMMA RouteKeepsIInv ==
  ASSUME IInv, NEW j \in DOMAIN jobs, Route(j)
  PROVE  /\ IInv'
         /\ \A c \in Cases : ~Exists(c) /\ Exists(c)' =>
              \/ BoundBy(pair[c].first, c)'
              \/ /\ pair'[c].first /= Direct /\ HandBound(pair'[c].first)
                 /\ signal'[pair'[c].first].state = "quarantined"
<1> USE DEF IInv
<1>0. PICK m, who, opened :
        /\ m = jobs[j].msg /\ who = signal[m].cand
        /\ opened = IF who = Unknown THEN {} ELSE {c \in Of(who, signal[m].offered) : ~Exists(c)}
  OBVIOUS
<1>1. /\ jobs[j] \in JobRow /\ m \in Messages /\ m \in Events /\ m /= Direct
      /\ signal \in [Messages -> SignalRow] /\ signal[m] \in SignalRow
      /\ pair \in [Cases -> [stage : Stages, first : Events]]
      /\ claims \subseteq Claim /\ OnePerCase(claims)
      /\ news \in [lineage : SUBSET Messages, about : [Messages -> SUBSET Cases], own : SUBSET Cases]
  BY <1>0, Types, JobRows, MessagesAssumption DEF Events
<1>2. /\ signal[m].state = "ready"
      /\ jobs' = [jobs EXCEPT ![j].pc = "done", ![j].read = {}]
      /\ UNCHANGED <<delivery, claims>>
  BY <1>0 DEF Route, JobsAreRecorded, Closed
<1>3. opened \in SUBSET Cases /\ \A c \in opened : ~Exists(c)
  BY <1>0, <1>1 DEF Of, Cases, SignalRow
<1>4. /\ jobs' \in Seq(JobRow) /\ DOMAIN jobs' = DOMAIN jobs
      /\ \A i \in DOMAIN jobs : /\ jobs'[i].msg = jobs[i].msg /\ jobs'[i].cand = jobs[i].cand
                                /\ jobs'[i].scope = jobs[i].scope
                                /\ jobs'[i].pc = "classify" => i /= j /\ jobs'[i] = jobs[i]
      /\ \A x : HandBound(x)' <=> HandBound(x)
  BY <1>2, JobIsDone
<1>5. \E row \in SignalRow :
        /\ signal' = [signal EXCEPT ![m] = row]
        /\ row.cand = signal[m].cand /\ row.offered = signal[m].offered
        /\ \/ row.state = "ignored_later" /\ opened = {} /\ who /= Unknown
           \/ row.state = "quarantined" /\ opened /= {} /\ who /= Unknown
           \/ row.state = "quarantined" /\ "failed" \in row.reviews /\ who = Unknown
  <2>1. CASE who /= Unknown
    <3>1. PICK row : row = [signal[m] EXCEPT !.state = After(m, opened, "quarantined")]
      OBVIOUS
    <3>2. /\ After(m, opened, "quarantined") \in {"quarantined", "ignored_later"}
          /\ opened = {} <=> After(m, opened, "quarantined") = "ignored_later"
      BY DEF After
    <3>3. /\ row \in SignalRow /\ row.state = After(m, opened, "quarantined")
          /\ row.cand = signal[m].cand /\ row.offered = signal[m].offered
      BY <1>1, <3>1, <3>2 DEF SignalRow, States
    <3>4. signal' = [signal EXCEPT ![m] = row]
      BY <1>0, <2>1, <3>1 DEF Route
    <3> QED
      BY <2>1, <3>2, <3>3, <3>4
  <2>2. CASE who = Unknown
    <3>1. PICK row : row = [signal[m] EXCEPT !.state = "quarantined",
                                             !.reviews = signal[m].reviews \cup {"failed"}]
      OBVIOUS
    <3>2. /\ row \in SignalRow /\ row.state = "quarantined" /\ "failed" \in row.reviews
          /\ row.cand = signal[m].cand /\ row.offered = signal[m].offered
      BY <1>1, <3>1 DEF SignalRow, States, Reasons
    <3>3. signal' = [signal EXCEPT ![m] = row]
      BY <1>0, <1>1, <2>2, <3>1 DEF Route
    <3> QED
      BY <2>2, <3>2, <3>3
  <2> QED
    BY <2>1, <2>2
<1>6. PICK row \in SignalRow :
        /\ signal' = [signal EXCEPT ![m] = row]
        /\ row.cand = signal[m].cand /\ row.offered = signal[m].offered
        /\ \/ row.state = "ignored_later" /\ opened = {} /\ who /= Unknown
           \/ row.state = "quarantined" /\ opened /= {} /\ who /= Unknown
           \/ row.state = "quarantined" /\ "failed" \in row.reviews /\ who = Unknown
  BY <1>5
<1>7. /\ signal' \in [Messages -> SignalRow]
      /\ \A x \in Messages : signal'[x] = IF x = m THEN row ELSE signal[x]
  BY <1>1, <1>6
<1>8. /\ pair' \in [Cases -> [stage : Stages, first : Events]]
      /\ \A c \in Cases : Exists(c)' <=> Exists(c) \/ c \in opened
      /\ \A c \in opened : pair'[c].first = m
      /\ \A c \in Cases : Exists(c) => pair'[c].first = pair[c].first
  <2>1. CASE who /= Unknown
    <3>1. pair' = [c \in Cases |-> IF c \in opened THEN [stage |-> "unclear", first |-> m] ELSE pair[c]]
      BY <1>0, <2>1 DEF Route
    <3>2. [stage |-> "unclear", first |-> m] \in [stage : Stages, first : Events]
      BY <1>1 DEF Stages
    <3> QED
      BY <1>1, <1>3, <3>1, <3>2 DEF Exists
  <2>2. CASE who = Unknown
    <3>1. pair' = pair /\ opened = {}
      BY <1>0, <2>2 DEF Route
    <3> QED
      BY <1>1, <3>1 DEF Exists
  <2> QED
    BY <2>1, <2>2
<1>9. /\ news' \in [lineage : SUBSET Messages, about : [Messages -> SUBSET Cases], own : SUBSET Cases]
      /\ AnnouncedOnce'
  <2>1. CASE who /= Unknown
    <3>1. TellOfCases(m, opened)
      BY <1>0, <2>1 DEF Route
    <3>2. TypeOK /\ AnnouncedOnce
      OBVIOUS
    <3> HIDE DEF IInv
    <3> QED
      BY <1>1, <1>3, <1>8, <3>1, <3>2, TellOfCasesTells
  <2>2. CASE who = Unknown
    <3>1. pair' = pair /\ news' = [news EXCEPT !.lineage = news.lineage \cup {m}]
      BY <1>0, <2>2 DEF Route, TellOfReply
    <3>2. /\ news' \in [lineage : SUBSET Messages, about : [Messages -> SUBSET Cases], own : SUBSET Cases]
          /\ news'.about = news.about /\ news'.own = news.own
      BY <1>1, <3>1
    <3> QED
      BY <3>1, <3>2 DEF AnnouncedOnce, Exists
  <2> QED
    BY <2>1, <2>2
<1>10. TypeOK'
  BY <1>2, <1>4, <1>7, <1>8, <1>9, Types, TypesNext DEF OnePerCase
<1>11. OnePerRole(claims)' /\ DirectClaimsHaveCases'
  BY <1>1, <1>2, <1>8 DEF OnePerRole, DirectClaimsHaveCases, Claim
<1>12. BoundIsRecorded'
  BY <1>1, <1>2, <1>6, <1>7 DEF BoundIsRecorded, Claim, Events
<1>13. DeliveriesKnow'
  <2>1. \A x \in Messages : signal'[x].state = "absent" => signal[x].state = "absent"
    BY <1>6, <1>7
  <2> QED
    BY <1>2, <2>1 DEF DeliveriesKnow
<1>14. JobsAreRecorded'
  BY <1>6, <1>7, <1>4, JobRows DEF JobsAreRecorded
<1>15. ReadIsClaimed'
  <2> SUFFICES ASSUME NEW i \in DOMAIN jobs, jobs'[i] = jobs[i], jobs[i].pc = "classify",
                      ~Closed(jobs[i].msg)', NEW r \in jobs[i].read
               PROVE  BoundBy(jobs[i].msg, <<Candidate(i), r>>)'
    BY <1>4 DEF ReadIsClaimed
  <2>1. jobs[i].msg \in Messages /\ signal'[jobs[i].msg].cand = signal[jobs[i].msg].cand
    BY <1>6, <1>7, JobRows
  <2>2. Candidate(i)' = Candidate(i) /\ ~Closed(jobs[i].msg)
    BY <1>2, <1>7, <2>1 DEF Candidate, Closed
  <2> QED
    BY <1>2, <2>2 DEF ReadIsClaimed, BoundBy
<1>16. IntakeClaims'
  <2> SUFFICES ASSUME NEW x \in Messages, ~HandBound(x)
               PROVE  /\ \A k \in claims : k.event = x /\ k.state = "bound" =>
                           k.case \in Of(signal'[x].cand, signal'[x].offered)
                      /\ signal'[x].state = "ready" =>
                           /\ signal'[x].cand \in Candidates
                           /\ \A c \in Of(signal'[x].cand, signal'[x].offered) :
                                Exists(c)' \/ BoundBy(x, c)'
    BY <1>2, <1>4 DEF IntakeClaims
  <2>1. CASE x = m
    BY <1>6, <1>7, <2>1 DEF IntakeClaims
  <2>2. CASE x /= m
    <3>1. signal'[x] = signal[x] /\ signal[x] \in SignalRow
      BY <1>1, <1>7, <2>2
    <3>2. signal[x].cand \in Candidates => Of(signal[x].cand, signal[x].offered) \subseteq Cases
      BY <3>1 DEF Of, Cases, SignalRow
    <3>3. \A c \in Cases : Exists(c) \/ BoundBy(x, c) => Exists(c)' \/ BoundBy(x, c)'
      BY <1>2, <1>8 DEF BoundBy
    <3> QED
      BY <3>1, <3>2, <3>3 DEF IntakeClaims
  <2> QED
    BY <2>1, <2>2
<1>17. /\ \A x : Opened(x) \subseteq Opened(x)'
       /\ opened \subseteq Opened(m)'
  BY <1>3, <1>8 DEF Opened
<1>18. UnresolvedIsShown'
  <2> SUFFICES ASSUME NEW x \in Messages
               PROVE  Allowed(x)' \subseteq signal'[x].reviews
                      \/ (signal'[x].state = "quarantined" /\ Opened(x)' /= {})
    BY DEF UnresolvedIsShown
  <2>1. CASE x = m
    <3>1. signal'[x] = row
      BY <1>7, <2>1
    <3>2. CASE row.state = "ignored_later"
      BY <3>1, <3>2, ReviewsOfNextState
    <3>3. CASE row.state = "quarantined" /\ opened /= {}
      BY <1>17, <2>1, <3>1, <3>3
    <3>4. CASE row.state = "quarantined" /\ "failed" \in row.reviews
      BY <3>1, <3>4, ReviewsOfNextState
    <3> QED
      BY <1>6, <3>2, <3>3, <3>4
  <2>2. CASE x /= m
    <3>1. signal'[x] = signal[x] /\ Opened(x) \subseteq Opened(x)'
      BY <1>7, <1>17, <2>2
    <3> QED
      BY <3>1, SameIsShown DEF UnresolvedIsShown
  <2> QED
    BY <2>1, <2>2
<1>19. \A c \in Of(who, signal[m].offered) : ~HandBound(m) => Exists(c)' \/ (~Exists(c) /\ c \in opened)
  BY <1>0, <1>1, <1>2, <1>3, <1>8, MessagesAssumption DEF IntakeClaims, Of, Cases, SignalRow
<1>20. ClaimsLeadOn'
  <2> SUFFICES ASSUME NEW k \in claims, k.state = "bound", ~Exists(k.case)'
               PROVE  \/ signal'[k.event].state = "ready"
                      \/ HandBound(k.event) /\ signal'[k.event].state \in {"quarantined", "ignored_later"}
    BY <1>2, <1>4 DEF ClaimsLeadOn
  <2>1. k.case \in Cases /\ ~Exists(k.case) /\ k.case \notin opened
    BY <1>1, <1>8 DEF Claim
  <2>2. k.event \in Messages
    BY <1>1, <2>1 DEF DirectClaimsHaveCases, Claim, Events
  <2>3. CASE k.event = m
    <3>1. HandBound(m)
      BY <1>1, <2>1, <2>3, <1>0, <1>19 DEF IntakeClaims
    <3> QED
      BY <1>6, <1>7, <2>3, <3>1
  <2>4. CASE k.event /= m
    BY <1>7, <2>1, <2>2, <2>4 DEF ClaimsLeadOn
  <2> QED
    BY <2>3, <2>4
<1>21. \A c \in opened : BoundBy(m, c)' \/ (HandBound(m) /\ signal'[m].state = "quarantined")
  <2> SUFFICES ASSUME NEW c \in opened, ~HandBound(m) PROVE BoundBy(m, c)
    <3>1. opened /= {} => signal'[m].state = "quarantined"
      BY <1>1, <1>6, <1>7
    <3> QED
      BY <1>2, <3>1 DEF BoundBy
  <2>1. c \in Of(signal[m].cand, signal[m].offered) /\ ~Exists(c)
    BY <1>0
  <2> QED
    BY <1>1, <1>2, <2>1 DEF IntakeClaims
<1>22. \A c \in Cases : ~Exists(c) /\ Exists(c)' =>
         \/ BoundBy(pair[c].first, c)'
         \/ /\ pair'[c].first /= Direct /\ HandBound(pair'[c].first)
            /\ signal'[pair'[c].first].state = "quarantined"
  <2>1. \A c \in Cases : ~Exists(c) /\ Exists(c)' => c \in opened /\ pair'[c].first = m
    BY <1>8
  <2> QED
    BY <1>1, <1>21, <2>1 DEF BoundBy
<1> QED
  BY <1>10, <1>11, <1>12, <1>13, <1>14, <1>15, <1>16, <1>9, <1>18, <1>20, <1>22

-----------------------------------------------------------------------------
(* The theorems *)

\* Whoever opens a case in a step.
Owned(c) ==
  \/ BoundBy(pair[c].first, c)'
  \/ /\ pair'[c].first /= Direct /\ HandBound(pair'[c].first)
     /\ signal'[pair'[c].first].state = "quarantined"

\* Only a classification, its failure and an addition open cases.
LEMMA OpensNothing ==
  ASSUME UNCHANGED pair \/ \E c \in Cases, stage \in Stages :
           pair[c].stage /= "none" /\ pair' = [pair EXCEPT ![c].stage = stage],
         TypeOK
  PROVE  \A c \in Cases : ~(~Exists(c) /\ Exists(c)')
<1>1. pair \in [Cases -> [stage : Stages, first : Events]]
  BY Types
<1> QED
  BY <1>1 DEF Exists

\* Every step keeps the invariant, and what it opens has an owner.
LEMMA StepKeepsIInv ==
  ASSUME IInv, [Next]_vars
  PROVE  IInv' /\ \A c \in Cases : ~Exists(c) /\ Exists(c)' => Owned(c)
<1>0. TypeOK
  BY DEF IInv
<1>1. ASSUME NEW d \in Deliveries, NEW m \in Messages, Receive(d, m)
      PROVE  IInv' /\ UNCHANGED pair
  BY <1>1, ReceiveKeepsIInv DEF Receive
<1>2. ASSUME NEW d \in Deliveries, ClaimRoles(d) \/ Record(d) \/ Leave(d)
      PROVE  IInv' /\ UNCHANGED pair
  <2>1. CASE ClaimRoles(d)
    BY <2>1, ClaimRolesKeepsIInv DEF ClaimRoles
  <2>2. CASE Record(d)
    BY <2>2, RecordKeepsIInv DEF Record
  <2>3. CASE Leave(d)
    BY <2>3, LeaveKeepsIInv DEF Leave
  <2> QED
    BY <1>2, <2>1, <2>2, <2>3
<1>3. ASSUME NEW j \in DOMAIN jobs, Begin(j) \/ Skip(j) \/ Retry(j) \/ Fail(j)
      PROVE  IInv' /\ UNCHANGED pair
  <2>1. CASE Begin(j)
    BY <2>1, BeginKeepsIInv DEF Begin
  <2>2. CASE Skip(j) \/ Retry(j) \/ Fail(j)
    BY <2>2, SkipRetryFailKeepIInv DEF Skip, Retry, Fail
  <2> QED
    BY <1>3, <2>1, <2>2
<1>4. ASSUME NEW j \in DOMAIN jobs, NEW decided \in (SUBSET jobs[j].read) \ {{}}, Apply(j, decided)
      PROVE  IInv' /\ \A c \in Cases : ~Exists(c) /\ Exists(c)' => Owned(c)
  BY <1>4, ApplyKeepsIInv DEF Owned
<1>5. ASSUME NEW j \in DOMAIN jobs, Route(j)
      PROVE  IInv' /\ \A c \in Cases : ~Exists(c) /\ Exists(c)' => Owned(c)
  BY <1>5, RouteKeepsIInv DEF Owned
<1>6. ASSUME NEW m \in Messages, RetryClassification(m) \/ Dismiss(m)
      PROVE  IInv' /\ UNCHANGED pair
  <2>1. CASE RetryClassification(m)
    BY <2>1, RetryClassificationKeepsIInv DEF RetryClassification
  <2>2. CASE Dismiss(m)
    BY <2>2, DismissKeepsIInv DEF Dismiss
  <2> QED
    BY <1>6, <2>1, <2>2
<1>7. ASSUME NEW m \in Messages, NEW candidate \in Candidates, NEW chosen \in SUBSET Roles,
             Bind(m, candidate, chosen)
      PROVE  IInv' /\ UNCHANGED pair
  BY <1>7, BindKeepsIInv DEF Bind
<1>8. ASSUME NEW c \in Added, AddCandidate(c) \/ ObserveCurated(c)
      PROVE  IInv' /\ \A x \in Cases : ~Exists(x) /\ Exists(x)' => Owned(x)
  <2>1. c \in Cases /\ OpenDirectly(c)
    BY <1>8, MessagesAssumption DEF Cases, AddCandidate, ObserveCurated
  <2>2. /\ IInv' /\ BoundBy(Direct, c)' /\ pair'[c].first = Direct
        /\ \A x \in Cases : Exists(x)' <=> Exists(x) \/ x = c
    BY <2>1, OpenDirectlyKeepsIInv
  <2>3. Owned(c)
    BY <2>2 DEF Owned, BoundBy
  <2> QED
    BY <2>2, <2>3
<1>9. ASSUME NEW c \in Cases, Correct(c) \/ Hide(c) \/ Restore(c)
      PROVE  /\ IInv'
             /\ \E stage \in Stages : pair[c].stage /= "none" /\ pair' = [pair EXCEPT ![c].stage = stage]
  <2>1. \E stage \in Stages : pair[c].stage /= "none" /\ pair' = [pair EXCEPT ![c].stage = stage]
    BY <1>9 DEF Correct, Hide, Restore, Stages
  <2> QED
    BY <1>9, <2>1, DecisionKeepsIInv
<1>10. ASSUME UNCHANGED vars
       PROVE  IInv' /\ UNCHANGED pair
  <2>1. UNCHANGED <<signal, delivery, claims, pair, jobs, news>>
    BY <1>10 DEF vars
  <2>2. TypeOK' /\ OnePerRole(claims)' /\ DirectClaimsHaveCases' /\ BoundIsRecorded' /\ DeliveriesKnow'
    BY <2>1 DEF IInv, TypeOK, OnePerRole, DirectClaimsHaveCases, BoundIsRecorded, DeliveriesKnow, Exists
  <2>3. JobsAreRecorded' /\ ReadIsClaimed' /\ IntakeClaims' /\ ClaimsLeadOn'
    BY <2>1 DEF IInv, JobsAreRecorded, ReadIsClaimed, IntakeClaims, ClaimsLeadOn, BoundBy, Exists,
                HandBound, Candidate, Closed
  <2>4. AnnouncedOnce' /\ UnresolvedIsShown'
    BY <2>1 DEF IInv, AnnouncedOnce, UnresolvedIsShown, Exists, Allowed, Opened
  <2> QED
    BY <2>1, <2>2, <2>3, <2>4 DEF IInv
<1>11. UNCHANGED pair => \A c \in Cases : ~(~Exists(c) /\ Exists(c)')
  BY <1>0, OpensNothing
<1>12. CASE Intake
  BY <1>12, <1>1, <1>2, <1>11 DEF Intake
<1>13. CASE \E j \in DOMAIN jobs : Classify(j)
  BY <1>13, <1>3, <1>4, <1>5, <1>11 DEF Classify, Settle
<1>14. CASE Recruit
  <2>1. CASE \E m \in Messages : RetryClassification(m) \/ Dismiss(m)
    BY <2>1, <1>6, <1>11
  <2>2. CASE \E m \in Messages, c \in Candidates, chosen \in SUBSET Roles : Bind(m, c, chosen)
    BY <2>2, <1>7, <1>11
  <2>3. CASE \E c \in Added : AddCandidate(c) \/ ObserveCurated(c)
    BY <2>3, <1>8
  <2>4. CASE \E c \in Cases : Correct(c) \/ Hide(c) \/ Restore(c)
    <3>1. PICK c \in Cases : Correct(c) \/ Hide(c) \/ Restore(c)
      BY <2>4
    <3> QED
      BY <3>1, <1>0, <1>9, OpensNothing
  <2> QED
    BY <1>14, <2>1, <2>2, <2>3, <2>4 DEF Recruit
<1> QED
  BY <1>10, <1>11, <1>12, <1>13, <1>14 DEF Next

\* The invariant holds in every state.
THEOREM Invariant == Spec => []IInv
<1>1. IInv /\ [Next]_vars => IInv'
  BY StepKeepsIInv
<1> QED
  BY <1>1, InitIInv, PTL DEF Spec

\* Every row keeps its type, and a case has at most one claim that is active
\* (the unique index of first_response_claims): reserveFirstResponse and
\* bindFirstResponse never break it.
THEOREM TypeCorrect == Spec => []TypeOK
<1>1. IInv => TypeOK
  BY DEF IInv
<1> QED
  BY <1>1, Invariant, PTL

\* "The first candidate response owns this candidate-role pair forever"
\* (repository.mjs:1556): applyClassifiedSignal, routeClassificationFailure and
\* addCandidate open a case only for the event that holds the claim on it.
THEOREM FirstResponseOwns == Spec => OwnersCreate
<1>1. ASSUME IInv, [Next]_vars, NEW c \in Cases, ~Exists(c), Exists(c)', NEW e, e = pair'[c].first
      PROVE  \/ [case |-> c, event |-> e, state |-> "bound"] \in claims'
             \/ e /= Direct /\ HandBound(e) /\ signal'[e].state = "quarantined"
  <2>1. Owned(c)
    BY <1>1, StepKeepsIInv
  <2> QED
    BY <1>1, <2>1 DEF Owned, BoundBy
<1>2. IInv /\ [Next]_vars =>
        [\A c \in Cases : ~Exists(c) /\ Exists(c)' =>
           LET e == pair'[c].first
           IN \/ [case |-> c, event |-> e, state |-> "bound"] \in claims'
              \/ e /= Direct /\ HandBound(e) /\ signal'[e].state = "quarantined"]_vars
  BY <1>1
<1> QED
  BY <1>2, Invariant, PTL DEF Spec, OwnersCreate

\* A case is announced by exactly one row of the outbox, its own or the one of
\* the reply that opened it (queueSignalAdmission, queuePairAdmission).
THEOREM AnnouncedOnceHolds == Spec => []AnnouncedOnce
<1>1. IInv => AnnouncedOnce
  BY DEF IInv
<1> QED
  BY <1>1, Invariant, PTL

\* A reply that waits for a person is on the Review page, whatever deliveries,
\* classifications and recruiters did in the meantime.
THEOREM UnresolvedIsShownHolds == Spec => []UnresolvedIsShown
<1>1. IInv => UnresolvedIsShown
  BY DEF IInv
<1> QED
  BY <1>1, Invariant, PTL

\* A bound claim without a case belongs to a reply that is still to be classified
\* (Without releases the others), or that a recruiter had bound by hand.
THEOREM ClaimsLeadOnHolds == Spec => []ClaimsLeadOn
<1>1. IInv => ClaimsLeadOn
  BY DEF IInv
<1> QED
  BY <1>1, Invariant, PTL
=============================================================================
