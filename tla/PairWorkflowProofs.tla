------------------------- MODULE PairWorkflowProofs -------------------------
(***************************************************************************)
(* What is proved of PairWorkflow, for any number of attempts, jobs and     *)
(* versions: the tables agree and a deleted case can be given back; what is *)
(* published is what was asked for; workers decide nothing; what is proven  *)
(* stays proven.                                                            *)
(*                                                                          *)
(* Nothing but the version ties a build to the pair it was started for.     *)
(* The invariant says what a version stands for: a job or a generation of   *)
(* the current version was asked for with the decisions that still hold,    *)
(* and every decision advances the version.                                 *)
(***************************************************************************)
EXTENDS PairWorkflow, FiniteSetTheorems, TLAPS

PairRow == [intent : Intents, workflow : Workflows, version : Versions,
            resume : {0} \cup GenIds, submission : {"none", "opened", "proven"},
            hidden : BOOLEAN, role : {"unknown", "active", "unavailable"},
            badFit : BOOLEAN, marked : BOOLEAN]

JobRow == [state : {"queued", "running", "succeeded", "failed", "cancelled"},
           live : BOOLEAN, pc : {"none", "start", "build", "again", "done", "over"},
           gen : {0} \cup GenIds, attempts : 0 .. MaxAttempts,
           trigger : Triggers, expected : Versions, asked : Decisions]
GenRow == [status : {"active", "succeeded", "failed", "cancelled"},
           expected : Versions, trigger : Triggers, prior : {0} \cup GenIds,
           late : BOOLEAN, copy : Copies]
RecheckRow == [target : {"resume", "role"}, expected : Versions]

\* Before the first reply there is nothing.
NothingBefore ==
  ~Exists => /\ pair = NoPair /\ reviews = {} /\ rechecks = {}
             /\ jobs = <<>> /\ gens = <<>> /\ manifest = NoManifest

\* The resume of a pair is one of its generations.
ResumeIsGenerated == pair.resume = 0 \/ pair.resume \in DOMAIN gens

\* An attempt of a job, or the row an earlier release left.
Attempts == (1 .. MaxJobs) \X (1 .. MaxAttempts)
Slots == {<<0, 0>>} \cup Attempts

\* The attempts that may have started a generation.
Used(s) ==
  \/ s = <<0, 0>>
  \/ /\ s[1] \in DOMAIN jobs
     /\ s[2] <= jobs[s[1]].attempts
     /\ s[2] = jobs[s[1]].attempts => jobs[s[1]].pc /= "start"

\* No two generations were started by the same attempt.
OnePerAttempt ==
  \E slot \in [DOMAIN gens -> Slots] :
    /\ \A g, h \in DOMAIN gens : slot[g] = slot[h] => g = h
    /\ \A g \in DOMAIN gens : Used(slot[g])

\* A job of the current version was asked for with the decisions that hold.
JobsKnow ==
  \A j \in DOMAIN jobs :
    /\ jobs[j].expected <= pair.version
    /\ jobs[j].expected = pair.version => jobs[j].asked = Decision(pair)
    /\ jobs[j].gen /= 0 => jobs[j].gen \in DOMAIN gens
                           /\ gens[jobs[j].gen].expected = jobs[j].expected
    /\ jobs[j].pc \in {"build", "again", "done", "over"} => jobs[j].gen /= 0
    /\ jobs[j].pc /= "none" => jobs[j].attempts > 0

\* Jobs have their own generations.
OwnGenerations ==
  \A i, j \in DOMAIN jobs : jobs[i].gen = jobs[j].gen /\ jobs[i].gen /= 0 => i = j

\* A generation that is built for the current version is open.
BuildsAreOpen ==
  \A j \in DOMAIN jobs : Running(j, "build") /\ AtExpected(jobs[j].gen) =>
    gens[jobs[j].gen].status = "active"

\* At the version of a generation the pair is what it was started for.
GensKnow ==
  \A g \in DOMAIN gens :
    /\ gens[g].expected <= pair.version
    /\ AtExpected(g) =>
         /\ pair.intent = "interested" /\ gens[g].prior = pair.resume
         /\ CASE gens[g].trigger = "initial" -> Preparing(pair)
              [] gens[g].trigger = "regenerate" -> Regeneratable
              [] gens[g].trigger = "retry" ->
                   \/ Preparing(pair)
                   \/ pair.workflow = "needs_review" /\ reviews \subseteq ResumeBlockers

\* What a proven submission still waits for is its resume.
ProvenIsCalm ==
  pair.submission = "proven" =>
    /\ pair.intent \in {"interested", "unclear"}
    /\ pair.workflow \in {"preparing_resume", "interested", "needs_review"}
    /\ reviews \subseteq ResumeBlockers
    /\ pair.resume /= 0 => reviews = {}

\* What a hidden case is given back.
ManifestTells ==
  pair.hidden =>
    /\ Exists
    /\ DOMAIN manifest.copies = DOMAIN gens
    /\ \A g \in DOMAIN gens : gens[g].copy \in {"none", "deleted"}
    /\ pair.workflow = "interested" =>
         pair.resume /= 0 /\ manifest.copies[pair.resume] = "current"
    /\ \A g, h \in DOMAIN gens :
         manifest.copies[g] = "current" /\ manifest.copies[h] = "current" => g = h

IInv ==
  /\ TypeOK
  /\ NothingBefore
  /\ ResumeIsGenerated
  /\ OnePerAttempt
  /\ JobsKnow
  /\ OwnGenerations
  /\ BuildsAreOpen
  /\ GensKnow
  /\ ProvenIsCalm
  /\ ManifestTells
  /\ TablesAgree
  /\ DeletedCaseIsRestorable

-----------------------------------------------------------------------------
(* Sequences and numbers *)

\* A sequence is a function on its indices.
LEMMA SequenceIs ==
  ASSUME NEW S, NEW s \in Seq(S)
  PROVE  s \in [1 .. Len(s) -> S] /\ Len(s) \in Nat /\ DOMAIN s = 1 .. Len(s)
OBVIOUS

\* Such a function is a sequence.
LEMMA SequenceOf ==
  ASSUME NEW S, NEW n \in Nat, NEW f \in [1 .. n -> S]
  PROVE  f \in Seq(S) /\ Len(f) = n /\ DOMAIN f = 1 .. n
OBVIOUS

\* A row is appended and the others stay.
LEMMA AppendIs ==
  ASSUME NEW S, NEW s \in Seq(S), NEW e \in S
  PROVE  /\ Append(s, e) \in Seq(S) /\ Len(Append(s, e)) = Len(s) + 1
         /\ DOMAIN Append(s, e) = 1 .. Len(s) + 1
         /\ \A i \in DOMAIN s : Append(s, e)[i] = s[i]
         /\ Append(s, e)[Len(s) + 1] = e
OBVIOUS

\* Attempts of different jobs, counted one after the other, do not meet.
LEMMA Rounds ==
  ASSUME NEW n \in Nat, NEW i \in Nat, NEW k \in Nat, i < k
  PROVE  i * n + n <= k * n
<1>1. PICK d \in Nat : k = i + 1 + d
  <2>1. k - i - 1 \in Nat /\ k = i + 1 + (k - i - 1)
    OBVIOUS
  <2> QED
    BY <2>1
<1>2. k * n = i * n + n + d * n
  BY <1>1
<1>3. d * n \in Nat /\ i * n \in Nat /\ n \in Nat
  OBVIOUS
<1> QED
  BY <1>2, <1>3

Number(s) == IF s = <<0, 0>> THEN 0 ELSE (s[1] - 1) * MaxAttempts + s[2]

\* Every attempt has a number of its own, up to the most attempts there may be.
LEMMA NumbersDiffer ==
  /\ \A s \in Slots : Number(s) \in 0 .. MaxJobs * MaxAttempts
  /\ \A s, t \in Slots : Number(s) = Number(t) => s = t
<1>1. \A s \in Attempts : /\ s = <<s[1], s[2]>> /\ s[1] \in 1 .. MaxJobs /\ s[2] \in 1 .. MaxAttempts
                          /\ s /= <<0, 0>>
  BY DEF Attempts
<1>2. MaxAttempts \in Nat /\ MaxJobs \in Nat /\ MaxJobs * MaxAttempts \in Nat
  BY BoundsAssumption
<1>3. ASSUME NEW s \in Attempts
      PROVE  /\ Number(s) = (s[1] - 1) * MaxAttempts + s[2]
             /\ (s[1] - 1) * MaxAttempts \in Nat /\ (s[1] - 1) \in Nat
             /\ Number(s) \in 1 .. MaxJobs * MaxAttempts
  <2>1. s[1] - 1 \in Nat /\ s[1] - 1 < MaxJobs
    BY <1>1, <1>2
  <2>2. (s[1] - 1) * MaxAttempts + MaxAttempts <= MaxJobs * MaxAttempts
    BY <1>2, <2>1, Rounds
  <2>3. (s[1] - 1) * MaxAttempts \in Nat
    BY <1>2, <2>1
  <2> QED
    BY <1>1, <1>2, <2>1, <2>2, <2>3 DEF Number
<1>4. ASSUME NEW s \in Attempts, NEW t \in Attempts, s[1] < t[1]
      PROVE  Number(s) < Number(t)
  <2>1. (s[1] - 1) * MaxAttempts + MaxAttempts <= (t[1] - 1) * MaxAttempts
    <3>1. s[1] - 1 \in Nat /\ t[1] - 1 \in Nat /\ s[1] - 1 < t[1] - 1
      BY <1>1, <1>4
    <3> QED
      BY <1>2, <3>1, Rounds
  <2> QED
    BY <1>1, <1>2, <1>3, <2>1
<1>5. ASSUME NEW s \in Attempts, NEW t \in Attempts, Number(s) = Number(t)
      PROVE  s = t
  <2>1. Number(s) \in Int /\ Number(t) \in Int
    BY <1>3
  <2>2. s[1] = t[1]
    BY <1>1, <1>4, <1>5, <2>1
  <2>3. s[2] = t[2]
    BY <1>1, <1>3, <1>5, <2>2
  <2> QED
    BY <1>1, <2>2, <2>3
<1>6. Number(<<0, 0>>) = 0
  BY DEF Number
<1> QED
  BY <1>2, <1>3, <1>5, <1>6 DEF Slots

\* Generations that were started by different attempts are no more than those.
LEMMA FewGenerations ==
  ASSUME NEW n \in Nat, NEW slot \in [1 .. n -> Slots],
         \A g, h \in 1 .. n : slot[g] = slot[h] => g = h
  PROVE  n <= MaxJobs * MaxAttempts + 1
<1> DEFINE all == 0 .. MaxJobs * MaxAttempts
           f == [g \in 1 .. n |-> Number(slot[g])]
<1>1. f \in Injection(1 .. n, all)
  BY NumbersDiffer DEF Injection, IsInjective
<1>2. MaxJobs * MaxAttempts \in Nat
  BY BoundsAssumption
<1>3. IsFiniteSet(all) /\ Cardinality(all) = MaxJobs * MaxAttempts + 1
  BY <1>2, FS_Interval
<1>4. Cardinality(1 .. n) = n
  BY FS_Interval
<1> HIDE DEF all, f
<1>5. Cardinality(1 .. n) <= Cardinality(all)
  BY <1>1, <1>3, FS_Injection
<1> QED
  BY <1>3, <1>4, <1>5

-----------------------------------------------------------------------------
(* Types *)

\* The type invariant by its parts, in the names used below.
LEMMA Types ==
  ASSUME TypeOK
  PROVE  /\ pair \in PairRow /\ pair.version \in Nat /\ pair.version <= MaxVersion
         /\ roleActive \in BOOLEAN /\ reviews \subseteq Reasons
         /\ jobs \in Seq(JobRow) /\ jobs \in [1 .. Len(jobs) -> JobRow] /\ DOMAIN jobs = 1 .. Len(jobs)
         /\ Len(jobs) \in Nat /\ Len(jobs) <= MaxJobs
         /\ gens \in Seq(GenRow) /\ gens \in [1 .. Len(gens) -> GenRow] /\ DOMAIN gens = 1 .. Len(gens)
         /\ Len(gens) \in Nat /\ Len(gens) <= MaxJobs * MaxAttempts + 1
         /\ rechecks \subseteq RecheckRow
         /\ manifest \in [version : Versions, copies : Seq(Copies)]
<1>1. /\ pair \in PairRow /\ jobs \in Seq(JobRow) /\ gens \in Seq(GenRow)
      /\ rechecks \subseteq RecheckRow
  BY DEF TypeOK, PairRow, JobRow, GenRow, RecheckRow
<1>2. pair.version \in Versions
  BY <1>1 DEF PairRow
<1>3. pair.version \in Nat /\ pair.version <= MaxVersion
  BY <1>2, BoundsAssumption DEF Versions
<1> QED
  BY <1>1, <1>3, SequenceIs DEF TypeOK

\* The same for the next state.
LEMMA TypesNext ==
  ASSUME (pair \in PairRow)', (roleActive \in BOOLEAN)', (reviews \subseteq Reasons)',
         (jobs \in Seq(JobRow))', (Len(jobs) <= MaxJobs)',
         (gens \in Seq(GenRow))', (Len(gens) <= MaxJobs * MaxAttempts + 1)',
         (rechecks \subseteq RecheckRow)',
         (manifest \in [version : Versions, copies : Seq(Copies)])'
  PROVE  TypeOK'
BY DEF TypeOK, PairRow, JobRow, GenRow, RecheckRow

\* The fields of a pair, and what was decided about it.
LEMMA PairFields ==
  ASSUME NEW p \in PairRow
  PROVE  /\ p.intent \in Intents /\ p.workflow \in Workflows /\ p.version \in Versions
         /\ p.resume \in {0} \cup GenIds /\ p.submission \in {"none", "opened", "proven"}
         /\ p.hidden \in BOOLEAN /\ p.role \in {"unknown", "active", "unavailable"}
         /\ p.badFit \in BOOLEAN /\ p.marked \in BOOLEAN
         /\ Decision(p) \in Decisions
BY DEF PairRow, Decision, Decisions

\* A change of the row advances its version and keeps the rest of the row.
LEMMA ChangeIs ==
  ASSUME TypeOK, NEW p \in PairRow, Change(p)
  PROVE  /\ pair' \in PairRow /\ pair'.version = pair.version + 1 /\ pair.version < MaxVersion
         /\ pair'.intent = p.intent /\ pair'.workflow = p.workflow /\ pair'.resume = p.resume
         /\ pair'.submission = p.submission /\ pair'.hidden = p.hidden
         /\ Decision(pair') = Decision(p)
<1>1. pair' = [p EXCEPT !.version = pair.version + 1] /\ pair.version < MaxVersion
  BY DEF Change
<1>2. pair.version \in Nat
  BY Types
<1>3. pair.version + 1 \in Versions
  BY <1>1, <1>2, BoundsAssumption DEF Versions
<1> QED
  BY <1>1, <1>3 DEF PairRow, Decision

\* A queued job is a new row.
LEMMA QueueIs ==
  ASSUME TypeOK, NEW p \in PairRow, NEW trigger \in Triggers, NEW expected \in Versions,
         Queue(p, trigger, expected)
  PROVE  /\ jobs' \in Seq(JobRow) /\ Len(jobs') <= MaxJobs /\ DOMAIN jobs' = 1 .. Len(jobs) + 1
         /\ DOMAIN jobs = 1 .. Len(jobs) /\ Len(jobs) \in Nat
         /\ \A j \in DOMAIN jobs : jobs'[j] = jobs[j]
         /\ \A j \in DOMAIN jobs' \ DOMAIN jobs :
              /\ jobs'[j].gen = 0 /\ jobs'[j].pc = "none"
              /\ jobs'[j].expected = expected /\ jobs'[j].asked = Decision(p)
<1>1. PICK row : row = NewJob(p, trigger, expected)
  OBVIOUS
<1>2. Len(jobs) < MaxJobs /\ jobs' = Append(jobs, row)
  BY <1>1 DEF Queue
<1>3. row \in JobRow
  <2>1. 0 \in 0 .. MaxAttempts
    BY BoundsAssumption
  <2> QED
    BY <1>1, <2>1, PairFields DEF NewJob, JobRow
<1>4. /\ jobs' \in Seq(JobRow) /\ Len(jobs') = Len(jobs) + 1 /\ DOMAIN jobs' = 1 .. Len(jobs) + 1
      /\ \A j \in DOMAIN jobs : jobs'[j] = jobs[j]
      /\ jobs'[Len(jobs) + 1] = row /\ DOMAIN jobs = 1 .. Len(jobs) /\ Len(jobs) \in Nat
  BY <1>2, <1>3, Types, AppendIs
<1>5. \A j \in DOMAIN jobs' \ DOMAIN jobs : j = Len(jobs) + 1
  BY <1>4
<1>6. Len(jobs') <= MaxJobs
  BY <1>2, <1>4, BoundsAssumption
<1> QED
  BY <1>1, <1>4, <1>5, <1>6 DEF NewJob

-----------------------------------------------------------------------------
(* What jobs and generations know *)

Busy == {"build", "again", "done", "over"}

\* A step that starts no generation: rows keep what they were made for, and new
\* jobs are made for the pair as it is after the step.
JobsFollow ==
  /\ jobs' \in Seq(JobRow) /\ Len(jobs') <= MaxJobs /\ DOMAIN jobs \subseteq DOMAIN jobs'
  /\ \A j \in DOMAIN jobs :
       /\ jobs'[j].expected = jobs[j].expected /\ jobs'[j].asked = jobs[j].asked
       /\ jobs'[j].gen \in {0, jobs[j].gen}
       /\ jobs'[j].pc \in Busy => jobs'[j].gen = jobs[j].gen /\ jobs[j].pc \in Busy
       /\ \/ /\ jobs'[j].attempts = jobs[j].attempts
             /\ jobs'[j].pc = "start" => jobs[j].pc = "start"
          \/ jobs'[j].attempts = jobs[j].attempts + 1
  /\ \A j \in DOMAIN jobs' \ DOMAIN jobs :
       /\ jobs'[j].gen = 0 /\ jobs'[j].pc = "none"
       /\ jobs'[j].expected = pair'.version /\ jobs'[j].asked = Decision(pair')

GensFollow ==
  /\ gens' \in Seq(GenRow) /\ Len(gens') = Len(gens)
  /\ \A g \in DOMAIN gens : /\ gens'[g].expected = gens[g].expected
                            /\ gens'[g].prior = gens[g].prior
                            /\ gens'[g].trigger = gens[g].trigger

\* The version says that nothing was decided; a proof may have arrived.
PairStays ==
  /\ pair'.version = pair.version /\ Decision(pair') = Decision(pair)
  /\ pair'.workflow = pair.workflow /\ pair'.hidden = pair.hidden
  /\ pair'.submission \in {pair.submission, "proven"}
  /\ reviews' \subseteq reviews
  /\ \A j \in DOMAIN jobs : Running(j, "build")' =>
       Running(j, "build") /\ gens'[jobs[j].gen].status = gens[jobs[j].gen].status

\* The number of generations stays within the attempts.
LEMMA SlotsKept ==
  ASSUME IInv, JobsFollow, GensFollow
  PROVE  OnePerAttempt'
<1>1. PICK slot \in [DOMAIN gens -> Slots] :
        /\ \A g, h \in DOMAIN gens : slot[g] = slot[h] => g = h
        /\ \A g \in DOMAIN gens : Used(slot[g])
  BY DEF IInv, OnePerAttempt
<1>2. DOMAIN gens' = DOMAIN gens
  BY SequenceIs DEF IInv, TypeOK, GensFollow
<1>3. ASSUME NEW s \in Slots, Used(s)
      PROVE  Used(s)'
  <2>1. CASE s = <<0, 0>>
    BY <2>1 DEF Used
  <2>2. CASE s /= <<0, 0>>
    <3>1. /\ s[1] \in DOMAIN jobs /\ s[2] <= jobs[s[1]].attempts
          /\ s[2] = jobs[s[1]].attempts => jobs[s[1]].pc /= "start"
      BY <1>3, <2>2 DEF Used
    <3>2. s[2] \in Nat /\ jobs[s[1]].attempts \in Nat
      <4>1. jobs[s[1]] \in JobRow
        BY <3>1, Types DEF IInv
      <4>2. s \in Attempts
        BY <2>2 DEF Slots
      <4> QED
        BY <4>1, <4>2, BoundsAssumption DEF JobRow, Attempts
    <3> QED
      BY <3>1, <3>2 DEF Used, JobsFollow
  <2> QED
    BY <2>1, <2>2
<1> QED
  BY <1>1, <1>2, <1>3 DEF OnePerAttempt

\* A step that decides advances the version, and what was made for an older
\* version is not asked about any more; a step that decides nothing leaves
\* everything as it was known.
LEMMA KnowledgeKept ==
  ASSUME IInv, pair' \in PairRow, JobsFollow, GensFollow,
         pair'.version = pair.version + 1 \/ PairStays
  PROVE  JobsKnow' /\ OwnGenerations' /\ BuildsAreOpen' /\ GensKnow' /\ OnePerAttempt'
<1>1. /\ pair.version \in Nat /\ DOMAIN gens' = DOMAIN gens
      /\ \A j \in DOMAIN jobs : jobs[j] \in JobRow
      /\ \A g \in DOMAIN gens : gens[g] \in GenRow
  BY Types, SequenceIs DEF IInv, TypeOK, GensFollow
<1>2. /\ \A j \in DOMAIN jobs : jobs[j].expected \in Nat
      /\ \A g \in DOMAIN gens : gens[g].expected \in Nat
  BY <1>1, BoundsAssumption DEF JobRow, GenRow, Versions
<1>3. JobsKnow'
  <2> SUFFICES ASSUME NEW j \in DOMAIN jobs'
               PROVE  /\ jobs'[j].expected <= pair'.version
                      /\ jobs'[j].expected = pair'.version => jobs'[j].asked = Decision(pair')
                      /\ jobs'[j].gen /= 0 => jobs'[j].gen \in DOMAIN gens'
                                              /\ gens'[jobs'[j].gen].expected = jobs'[j].expected
                      /\ jobs'[j].pc \in {"build", "again", "done", "over"} => jobs'[j].gen /= 0
                      /\ jobs'[j].pc /= "none" => jobs'[j].attempts > 0
    BY DEF JobsKnow
  <2>1. CASE j \in DOMAIN jobs
    <3>1. /\ jobs[j].expected <= pair.version
          /\ jobs[j].expected = pair.version => jobs[j].asked = Decision(pair)
          /\ jobs[j].gen /= 0 => jobs[j].gen \in DOMAIN gens
                                 /\ gens[jobs[j].gen].expected = jobs[j].expected
          /\ jobs[j].pc \in Busy => jobs[j].gen /= 0
      BY <2>1 DEF IInv, JobsKnow, Busy
    <3>2. /\ jobs'[j].expected = jobs[j].expected /\ jobs'[j].asked = jobs[j].asked
          /\ jobs'[j].gen \in {0, jobs[j].gen}
          /\ jobs'[j].pc \in Busy => jobs'[j].gen = jobs[j].gen /\ jobs[j].pc \in Busy
      BY <2>1 DEF JobsFollow
    <3>3. /\ jobs[j].expected <= pair'.version
          /\ jobs[j].expected = pair'.version => jobs[j].asked = Decision(pair')
      BY <1>1, <1>2, <2>1, <3>1 DEF PairStays
    <3>4. jobs'[j].gen /= 0 => jobs'[j].gen \in DOMAIN gens'
                                /\ gens'[jobs'[j].gen].expected = jobs'[j].expected
      BY <1>1, <3>1, <3>2 DEF GensFollow
    <3>5. jobs'[j].pc /= "none" => jobs'[j].attempts > 0
      <4>1. jobs[j].attempts \in Nat
        BY <1>1, <2>1, BoundsAssumption DEF JobRow
      <4>2. jobs'[j].pc \in {"none", "start"} \cup Busy
        <5>1. jobs'[j] \in JobRow
          BY <2>1, SequenceIs DEF JobsFollow
        <5> QED
          BY <5>1 DEF JobRow, Busy
      <4>3. jobs[j].pc \in {"start"} \cup Busy => jobs[j].attempts > 0
        BY <2>1 DEF IInv, JobsKnow, Busy
      <4> QED
        BY <2>1, <4>1, <4>2, <4>3 DEF JobsFollow
    <3> QED
      BY <3>1, <3>2, <3>3, <3>4, <3>5 DEF Busy
  <2>2. CASE j \notin DOMAIN jobs
    <3>1. pair'.version \in Nat
      BY <1>1 DEF PairStays
    <3> QED
      BY <2>2, <3>1 DEF JobsFollow
  <2> QED
    BY <2>1, <2>2
<1>4. OwnGenerations'
  BY DEF IInv, OwnGenerations, JobsFollow
<1>5. \A g \in DOMAIN gens : /\ gens'[g].expected <= pair'.version
                             /\ gens'[g].expected = pair'.version => PairStays /\ AtExpected(g)
  <2> SUFFICES ASSUME NEW g \in DOMAIN gens
               PROVE  /\ gens'[g].expected <= pair'.version
                      /\ gens'[g].expected = pair'.version => PairStays /\ AtExpected(g)
    OBVIOUS
  <2>1. gens'[g].expected = gens[g].expected /\ gens[g].expected <= pair.version
    BY DEF IInv, GensKnow, GensFollow
  <2>2. CASE pair'.version = pair.version + 1
    BY <1>1, <1>2, <2>1, <2>2
  <2>3. CASE PairStays
    <3>1. pair'.version = pair.version
      BY <2>3 DEF PairStays
    <3> QED
      BY <2>1, <2>3, <3>1 DEF AtExpected
  <2> QED
    BY <2>2, <2>3
<1>6. BuildsAreOpen'
  <2> SUFFICES ASSUME NEW j \in DOMAIN jobs', Running(j, "build")', AtExpected(jobs[j].gen)'
               PROVE  gens'[jobs'[j].gen].status = "active"
    BY DEF BuildsAreOpen
  <2>1. j \in DOMAIN jobs /\ jobs'[j].pc = "build" /\ jobs'[j].gen = jobs[j].gen
    BY DEF Running, JobsFollow, Busy
  <2>2. jobs[j].gen \in DOMAIN gens
    BY <2>1 DEF JobsFollow, Busy, IInv, JobsKnow
  <2>3. PairStays /\ AtExpected(jobs[j].gen)
    BY <1>5, <2>1, <2>2 DEF AtExpected
  <2> QED
    BY <2>1, <2>3 DEF PairStays, IInv, BuildsAreOpen
<1>7. GensKnow'
  <2> SUFFICES ASSUME NEW g \in DOMAIN gens, gens'[g].expected = pair'.version
               PROVE  /\ pair'.intent = "interested" /\ gens'[g].prior = pair'.resume
                      /\ CASE gens'[g].trigger = "initial" -> Preparing(pair')
                           [] gens'[g].trigger = "regenerate" -> Regeneratable'
                           [] gens'[g].trigger = "retry" ->
                                \/ Preparing(pair')
                                \/ pair'.workflow = "needs_review" /\ reviews' \subseteq ResumeBlockers
    BY <1>1, <1>5 DEF GensKnow, AtExpected
  <2>1. PairStays /\ AtExpected(g)
    BY <1>5
  <2>2. /\ pair.intent = "interested" /\ gens[g].prior = pair.resume
        /\ CASE gens[g].trigger = "initial" -> Preparing(pair)
             [] gens[g].trigger = "regenerate" -> Regeneratable
             [] gens[g].trigger = "retry" ->
                  \/ Preparing(pair)
                  \/ pair.workflow = "needs_review" /\ reviews \subseteq ResumeBlockers
    BY <2>1 DEF IInv, GensKnow
  <2>3. pair'.intent = pair.intent /\ pair'.resume = pair.resume
    BY <2>1 DEF PairStays, Decision
  <2>4. Regeneratable => Regeneratable'
    BY <2>1, <2>3 DEF PairStays, Regeneratable
  <2>5. gens'[g].prior = gens[g].prior /\ gens'[g].trigger = gens[g].trigger
    BY DEF GensFollow
  <2>6. gens[g].trigger \in {"initial", "regenerate", "retry"}
    BY <1>1 DEF GenRow, Triggers
  <2>7. pair'.workflow = pair.workflow /\ reviews' \subseteq reviews
    BY <2>1 DEF PairStays
  <2> QED
    BY <2>2, <2>3, <2>4, <2>5, <2>6, <2>7 DEF Preparing
<1> QED
  BY <1>3, <1>4, <1>6, <1>7, SlotsKept

\* The copies of the artifacts stay as they are.
CopiesStay == \A g \in DOMAIN gens : gens'[g].copy = gens[g].copy

\* Which copies are current, then, stays as it was.
LEMMA CopiesKept ==
  ASSUME IInv, GensFollow, CopiesStay, pair'.resume = pair.resume
  PROVE  /\ HasReadyResume' <=> HasReadyResume
         /\ ResumeIsGenerated'
         /\ (\A g, h \in DOMAIN gens : gens[g].copy = "current" /\ gens[h].copy = "current" => g = h)'
         /\ (Len(gens) <= MaxJobs * MaxAttempts + 1)'
<1>1. DOMAIN gens' = DOMAIN gens
  BY SequenceIs DEF IInv, TypeOK, GensFollow
<1>2. Len(gens') = Len(gens) /\ Len(gens) <= MaxJobs * MaxAttempts + 1
  BY Types DEF IInv, GensFollow
<1> QED
  BY <1>1, <1>2 DEF IInv, ResumeIsGenerated, CopiesStay, HasReadyResume, TablesAgree

\* A step of a case that is there before and after: the tables agree when its
\* new row and its reviews do.
LEMMA VisibleStep ==
  ASSUME IInv, pair' \in PairRow, pair'.version > 0, ~pair'.hidden, pair'.resume = pair.resume,
         pair'.version = pair.version + 1 \/ PairStays,
         JobsFollow, GensFollow, CopiesStay,
         roleActive' \in BOOLEAN, reviews' \subseteq Reasons, rechecks' \subseteq RecheckRow,
         manifest' = manifest,
         pair'.workflow /= "needs_review" => reviews' = {},
         pair'.workflow = "needs_review" /\ pair'.submission /= "proven" => reviews' /= {},
         pair'.workflow = "interested" => HasReadyResume,
         ProvenIsCalm'
  PROVE  IInv'
<1>1. JobsKnow' /\ OwnGenerations' /\ BuildsAreOpen' /\ GensKnow' /\ OnePerAttempt'
  BY KnowledgeKept
<1>2. TypeOK'
  BY CopiesKept, Types, TypesNext DEF IInv, JobsFollow, GensFollow
<1>3. NothingBefore' /\ ResumeIsGenerated'
  BY CopiesKept DEF NothingBefore, Exists
<1>4. ManifestTells' /\ DeletedCaseIsRestorable'
  BY DEF ManifestTells, DeletedCaseIsRestorable
<1>5. TablesAgree'
  BY CopiesKept DEF TablesAgree
<1> QED
  BY <1>1, <1>2, <1>3, <1>4, <1>5 DEF IInv

\* What a step may do that leaves the row of the pair and its reviews alone: a
\* deleted case gets no work by it.
NoWorkWhenHidden ==
  pair.hidden =>
    /\ rechecks' \subseteq rechecks
    /\ \A j \in DOMAIN jobs' : jobs'[j].state \in {"queued", "running"} =>
         j \in DOMAIN jobs /\ jobs[j].state \in {"queued", "running"}
    /\ \A g \in DOMAIN gens' : gens'[g].status = "active" => gens[g].status = "active"

\* A step that decides nothing and publishes nothing.
LEMMA QuietStep ==
  ASSUME IInv, UNCHANGED <<pair, reviews, manifest>>, Exists,
         JobsFollow, GensFollow, CopiesStay, NoWorkWhenHidden,
         roleActive' \in BOOLEAN, rechecks' \subseteq RecheckRow,
         \A j \in DOMAIN jobs : Running(j, "build")' =>
           Running(j, "build") /\ gens'[jobs[j].gen].status = gens[jobs[j].gen].status
  PROVE  IInv'
<1>1. pair' \in PairRow /\ PairStays
  BY Types DEF IInv, PairStays
<1>2. JobsKnow' /\ OwnGenerations' /\ BuildsAreOpen' /\ GensKnow' /\ OnePerAttempt'
  BY <1>1, KnowledgeKept
<1>3. TypeOK'
  BY <1>1, CopiesKept, Types, TypesNext DEF IInv, JobsFollow, GensFollow
<1>4. NothingBefore' /\ ResumeIsGenerated' /\ ProvenIsCalm'
  BY CopiesKept DEF IInv, NothingBefore, Exists, ProvenIsCalm
<1>5. DOMAIN gens' = DOMAIN gens
  BY SequenceIs DEF IInv, TypeOK, GensFollow
<1>6. ManifestTells'
  BY <1>5 DEF IInv, ManifestTells, CopiesStay, Exists
<1>7. TablesAgree'
  BY CopiesKept DEF IInv, TablesAgree, Exists, Visible
<1>8. DeletedCaseIsRestorable'
  <2> SUFFICES ASSUME pair.hidden
               PROVE  Restorable' /\ ~UnderWay' /\ rechecks' = {}
    BY DEF DeletedCaseIsRestorable
  <2>1. Restorable /\ ~UnderWay /\ rechecks = {}
    BY DEF IInv, DeletedCaseIsRestorable
  <2>2. Restorable'
    <3>1. DOMAIN manifest.copies = DOMAIN gens
      BY DEF IInv, ManifestTells
    <3> QED
      BY <2>1, <3>1 DEF Restorable, CopiesStay
  <2>3. ~UnderWay'
    BY <1>5, <2>1 DEF UnderWay, ActiveGenerations, PendingJobs, NoWorkWhenHidden
  <2> QED
    BY <2>1, <2>2, <2>3 DEF NoWorkWhenHidden
<1> QED
  BY <1>2, <1>3, <1>4, <1>6, <1>7, <1>8 DEF IInv

\* Jobs, generations and rechecks belong to a pair.
LEMMA HasRows ==
  ASSUME IInv, jobs /= <<>> \/ gens /= <<>> \/ rechecks /= {}
  PROVE  Exists
BY DEF IInv, NothingBefore

\* The ways in which the jobs go on: they stay.
LEMMA JobsStay ==
  ASSUME IInv, UNCHANGED jobs
  PROVE  JobsFollow
<1>1. jobs \in Seq(JobRow) /\ Len(jobs) <= MaxJobs
  BY Types DEF IInv
<1> QED
  BY <1>1 DEF JobsFollow, Busy

\* One is queued for the pair as it then is.
LEMMA JobQueued ==
  ASSUME IInv, NEW p \in PairRow, NEW trigger \in Triggers, pair'.version \in Versions,
         Queue(p, trigger, pair'.version), Decision(pair') = Decision(p)
  PROVE  JobsFollow
<1>1. /\ jobs' \in Seq(JobRow) /\ Len(jobs') <= MaxJobs /\ DOMAIN jobs' = 1 .. Len(jobs) + 1
      /\ DOMAIN jobs = 1 .. Len(jobs) /\ Len(jobs) \in Nat
      /\ \A j \in DOMAIN jobs : jobs'[j] = jobs[j]
      /\ \A j \in DOMAIN jobs' \ DOMAIN jobs :
           /\ jobs'[j].gen = 0 /\ jobs'[j].pc = "none"
           /\ jobs'[j].expected = pair'.version /\ jobs'[j].asked = Decision(p)
  BY QueueIs DEF IInv
<1>2. DOMAIN jobs \subseteq DOMAIN jobs'
  BY <1>1
<1> QED
  BY <1>1, <1>2 DEF JobsFollow

\* All that are open are cancelled.
LEMMA JobsCancelled ==
  ASSUME IInv, jobs' = CancelJobs
  PROVE  /\ JobsFollow
         /\ \A j \in DOMAIN jobs' : jobs'[j].state \notin {"queued", "running"}
<1>1. /\ jobs \in [1 .. Len(jobs) -> JobRow] /\ DOMAIN jobs = 1 .. Len(jobs)
      /\ Len(jobs) \in Nat /\ Len(jobs) <= MaxJobs
  BY Types DEF IInv
<1>2. DOMAIN jobs' = DOMAIN jobs
  BY DEF CancelJobs
<1>3. ASSUME NEW j \in DOMAIN jobs
      PROVE  /\ jobs'[j] \in JobRow /\ jobs'[j].state \notin {"queued", "running"}
             /\ jobs'[j] = jobs[j] \/ jobs'[j].pc = "none"
             /\ jobs'[j].expected = jobs[j].expected /\ jobs'[j].asked = jobs[j].asked
             /\ jobs'[j].gen = jobs[j].gen /\ jobs'[j].attempts = jobs[j].attempts
  <2>1. jobs[j] \in JobRow
    BY <1>1
  <2>2. CASE j \in PendingJobs
    <3>1. jobs'[j] = [jobs[j] EXCEPT !.state = "cancelled", !.live = FALSE, !.pc = "none"]
      BY <2>2 DEF CancelJobs
    <3> QED
      BY <2>1, <3>1 DEF JobRow
  <2>3. CASE j \notin PendingJobs
    <3>1. jobs'[j] = jobs[j] /\ jobs[j].state \notin {"queued", "running"}
      BY <2>3 DEF CancelJobs, PendingJobs
    <3> QED
      BY <2>1, <3>1
  <2> QED
    BY <2>2, <2>3
<1>4. jobs' \in [1 .. Len(jobs) -> JobRow]
  BY <1>1, <1>2, <1>3 DEF CancelJobs
<1>5. jobs' \in Seq(JobRow) /\ Len(jobs') = Len(jobs)
  BY <1>1, <1>4, SequenceOf
<1> QED
  BY <1>1, <1>2, <1>3, <1>5 DEF JobsFollow, Busy

\* One row of a job is written.
LEMMA JobWritten ==
  ASSUME IInv, NEW j \in DOMAIN jobs, NEW row \in JobRow, jobs' = [jobs EXCEPT ![j] = row],
         row.expected = jobs[j].expected, row.asked = jobs[j].asked, row.gen \in {0, jobs[j].gen},
         row.pc \in Busy => row.gen = jobs[j].gen /\ jobs[j].pc \in Busy,
         \/ row.attempts = jobs[j].attempts /\ (row.pc = "start" => jobs[j].pc = "start")
         \/ row.attempts = jobs[j].attempts + 1
  PROVE  /\ JobsFollow /\ DOMAIN jobs' = DOMAIN jobs /\ jobs'[j] = row
         /\ \A i \in DOMAIN jobs : i /= j => jobs'[i] = jobs[i]
<1>1. /\ jobs \in [1 .. Len(jobs) -> JobRow] /\ DOMAIN jobs = 1 .. Len(jobs)
      /\ Len(jobs) \in Nat /\ Len(jobs) <= MaxJobs
  BY Types DEF IInv
<1>2. /\ jobs' \in [1 .. Len(jobs) -> JobRow] /\ DOMAIN jobs' = DOMAIN jobs /\ jobs'[j] = row
      /\ \A i \in DOMAIN jobs : i /= j => jobs'[i] = jobs[i]
  BY <1>1
<1>3. jobs' \in Seq(JobRow) /\ Len(jobs') = Len(jobs)
  BY <1>1, <1>2, SequenceOf
<1> QED
  BY <1>1, <1>2, <1>3 DEF JobsFollow, Busy

\* The ways in which the generations go on: they stay.
LEMMA GensStay ==
  ASSUME IInv, UNCHANGED gens
  PROVE  GensFollow /\ CopiesStay
BY Types DEF IInv, GensFollow, CopiesStay

\* The open one is cancelled.
LEMMA GensCancelled ==
  ASSUME IInv, gens' = CancelGenerations
  PROVE  /\ GensFollow /\ CopiesStay
         /\ \A g \in DOMAIN gens' : gens'[g].status /= "active"
<1>1. /\ gens \in [1 .. Len(gens) -> GenRow] /\ DOMAIN gens = 1 .. Len(gens) /\ Len(gens) \in Nat
  BY Types DEF IInv
<1>2. DOMAIN gens' = DOMAIN gens
  BY DEF CancelGenerations
<1>3. ASSUME NEW g \in DOMAIN gens
      PROVE  /\ gens'[g] \in GenRow /\ gens'[g].status /= "active" /\ gens'[g].copy = gens[g].copy
             /\ gens'[g].expected = gens[g].expected /\ gens'[g].prior = gens[g].prior
             /\ gens'[g].trigger = gens[g].trigger
  <2>1. gens[g] \in GenRow
    BY <1>1
  <2>2. CASE gens[g].status = "active"
    <3>1. gens'[g] = [gens[g] EXCEPT !.status = "cancelled"]
      BY <2>2 DEF CancelGenerations, Closed
    <3> QED
      BY <2>1, <3>1 DEF GenRow
  <2>3. CASE gens[g].status /= "active"
    <3>1. gens'[g] = gens[g]
      BY <2>3 DEF CancelGenerations
    <3> QED
      BY <2>1, <2>3, <3>1
  <2> QED
    BY <2>2, <2>3
<1>4. gens' \in [1 .. Len(gens) -> GenRow]
  BY <1>1, <1>2, <1>3 DEF CancelGenerations
<1>5. gens' \in Seq(GenRow) /\ Len(gens') = Len(gens)
  BY <1>1, <1>4, SequenceOf
<1> QED
  BY <1>1, <1>2, <1>3, <1>5 DEF GensFollow, CopiesStay

\* One row is written, and not its copy.
LEMMA GenWritten ==
  ASSUME IInv, NEW g \in DOMAIN gens, NEW row \in GenRow, gens' = [gens EXCEPT ![g] = row],
         row.expected = gens[g].expected, row.prior = gens[g].prior,
         row.trigger = gens[g].trigger, row.copy = gens[g].copy
  PROVE  /\ GensFollow /\ CopiesStay /\ DOMAIN gens' = DOMAIN gens /\ gens'[g] = row
         /\ \A h \in DOMAIN gens : h /= g => gens'[h] = gens[h]
<1>1. /\ gens \in [1 .. Len(gens) -> GenRow] /\ DOMAIN gens = 1 .. Len(gens) /\ Len(gens) \in Nat
  BY Types DEF IInv
<1>2. /\ gens' \in [1 .. Len(gens) -> GenRow] /\ DOMAIN gens' = DOMAIN gens /\ gens'[g] = row
      /\ \A h \in DOMAIN gens : h /= g => gens'[h] = gens[h]
  BY <1>1
<1>3. gens' \in Seq(GenRow) /\ Len(gens') = Len(gens)
  BY <1>1, <1>2, SequenceOf
<1> QED
  BY <1>1, <1>2, <1>3 DEF GensFollow, CopiesStay

-----------------------------------------------------------------------------
(* Steps that decide *)

\* A decision about a visible case, or about one there was not.
LEMMA DecidedStep ==
  ASSUME IInv, NEW p \in PairRow, Change(p), ~p.hidden, p.resume = pair.resume,
         JobsFollow, GensFollow, CopiesStay,
         roleActive' \in BOOLEAN, reviews' \subseteq Reasons, rechecks' \subseteq RecheckRow,
         manifest' = manifest,
         p.workflow /= "needs_review" => reviews' = {},
         p.workflow = "needs_review" /\ p.submission /= "proven" => reviews' /= {},
         p.workflow = "interested" => HasReadyResume,
         p.submission = "proven" =>
           /\ p.intent \in {"interested", "unclear"}
           /\ p.workflow \in {"preparing_resume", "interested", "needs_review"}
           /\ reviews' \subseteq ResumeBlockers
           /\ p.resume /= 0 => reviews' = {}
  PROVE  IInv'
<1>1. /\ pair' \in PairRow /\ pair'.version = pair.version + 1
      /\ pair'.intent = p.intent /\ pair'.workflow = p.workflow /\ pair'.resume = p.resume
      /\ pair'.submission = p.submission /\ pair'.hidden = p.hidden
  BY ChangeIs DEF IInv
<1>2. pair'.version > 0
  BY <1>1, Types DEF IInv
<1>3. ProvenIsCalm'
  BY <1>1 DEF ProvenIsCalm
<1> QED
  BY <1>1, <1>2, <1>3, VisibleStep

\* With a decision jobs stay, are cancelled, or one is queued for what was decided.
LEMMA JobsAsked ==
  ASSUME IInv, NEW p \in PairRow, Change(p), NEW q \in PairRow, Decision(q) = Decision(p),
         NEW trigger \in Triggers,
         UNCHANGED jobs \/ Queue(q, trigger, pair.version + 1) \/ jobs' = CancelJobs
  PROVE  JobsFollow
<1>1. /\ pair'.version = pair.version + 1 /\ pair'.version \in Versions
      /\ Decision(pair') = Decision(q)
  BY ChangeIs, PairFields DEF IInv
<1> QED
  BY <1>1, JobsStay, JobQueued, JobsCancelled

\* A pair that is not there has the row of a new one.
LEMMA NewPair ==
  ASSUME IInv, ~Exists
  PROVE  /\ pair \in PairRow /\ pair.version = 0 /\ pair.resume = 0 /\ pair.submission = "none"
         /\ ~pair.hidden
BY Types DEF IInv, NothingBefore, NoPair

\* The row and the reviews a classified reply leads to.
LEMMA LabelledIs ==
  ASSUME IInv, NEW label \in Destinations, NEW reason \in {"reply_unclear", "role_unclear"}
  PROVE  /\ Labelled(label) \in PairRow
         /\ Labelled(label).hidden = pair.hidden /\ Labelled(label).resume = pair.resume
         /\ Labelled(label).submission = pair.submission
         /\ Labelled(label).workflow /= "interested"
         /\ ReviewOf(label, reason) \subseteq Reasons \ {"classification_failed"}
         /\ Labelled(label).workflow = "needs_review" <=> ReviewOf(label, reason) /= {}
<1>1. pair \in PairRow
  BY Types DEF IInv
<1>2. PICK shown : shown = IF label = "interested" /\ ~roleActive THEN "needs_review" ELSE label
  OBVIOUS
<1>3. label \in {"interested", "needs_review", "not_interested"}
  BY DEF Destinations
<1>4. Labelled(label) =
        [pair EXCEPT !.intent = IF label = "needs_review" THEN "unclear" ELSE label,
                     !.workflow = IF shown = "interested" THEN "preparing_resume" ELSE shown,
                     !.role = RoleState]
  BY <1>2 DEF Labelled
<1>5. /\ Labelled(label) \in PairRow
      /\ Labelled(label).hidden = pair.hidden /\ Labelled(label).resume = pair.resume
      /\ Labelled(label).submission = pair.submission
      /\ Labelled(label).workflow = IF shown = "interested" THEN "preparing_resume" ELSE shown
  BY <1>1, <1>2, <1>3, <1>4 DEF PairRow, RoleState, Intents, Workflows
<1>6. ReviewOf(label, reason) = IF label = "interested" /\ ~roleActive THEN {"role_unavailable"}
                                ELSE IF label = "needs_review" THEN {reason} ELSE {}
  BY <1>3 DEF ReviewOf
<1> QED
  BY <1>2, <1>3, <1>5, <1>6 DEF Reasons, HumanDecisions

\* The first reply about the pair creates it.
LEMMA ClassifyKeepsIInv ==
  ASSUME IInv, NEW label \in Destinations, NEW reason \in {"reply_unclear", "role_unclear"},
         Classify(label, reason)
  PROVE  IInv'
<1>1. PICK p : p = Labelled(label)
  OBVIOUS
<1>2. /\ ~Exists /\ Change(p) /\ reviews' = ReviewOf(label, reason)
      /\ Queue(p, "initial", 1) \/ UNCHANGED jobs
      /\ UNCHANGED <<roleActive, gens, rechecks, manifest>>
  BY <1>1 DEF Classify
<1>3. /\ p \in PairRow /\ ~p.hidden /\ p.resume = pair.resume /\ p.submission = "none"
      /\ p.workflow /= "interested" /\ reviews' \subseteq Reasons
      /\ p.workflow = "needs_review" <=> reviews' /= {}
  BY <1>1, <1>2, LabelledIs, NewPair
<1>4. JobsFollow
  <2>1. pair.version + 1 = 1 /\ "initial" \in Triggers
    BY <1>2, NewPair DEF Triggers
  <2> QED
    BY <1>2, <1>3, <2>1, JobsAsked
<1> QED
  BY <1>2, <1>3, <1>4, GensStay, Types, DecidedStep DEF IInv

\* So does a reply that could not be classified.
LEMMA ClassificationFailsKeepsIInv ==
  ASSUME IInv, ClassificationFails
  PROVE  IInv'
<1>1. PICK p : p = [pair EXCEPT !.intent = "unclear", !.workflow = "needs_review"]
  OBVIOUS
<1>2. /\ ~Exists /\ Change(p) /\ reviews' = {"classification_failed"}
      /\ UNCHANGED <<roleActive, jobs, gens, rechecks, manifest>>
  BY <1>1 DEF ClassificationFails
<1>3. /\ p \in PairRow /\ ~p.hidden /\ p.resume = pair.resume /\ p.submission = "none"
      /\ p.workflow = "needs_review"
  BY <1>1, <1>2, NewPair DEF PairRow, Intents, Workflows
<1>4. reviews' \subseteq Reasons /\ reviews' /= {}
  BY <1>2 DEF Reasons
<1> QED
  BY <1>2, <1>3, <1>4, JobsStay, GensStay, Types, DecidedStep DEF IInv

\* A repeated classification settles what the first had left open.
LEMMA ClassificationRecoversKeepsIInv ==
  ASSUME IInv, NEW label \in Destinations, NEW reason \in {"reply_unclear", "role_unclear"},
         ClassificationRecovers(label, reason)
  PROVE  IInv'
<1>1. PICK p, left : /\ p = Labelled(label)
                     /\ left = (reviews \cup ReviewOf(label, reason)) \ {"classification_failed"}
  OBVIOUS
<1>2. /\ Visible /\ "classification_failed" \in reviews
      /\ p.workflow = "needs_review" \/ left = {}
      /\ Change(p) /\ reviews' = left
      /\ Queue(p, "initial", pair.version + 1) \/ UNCHANGED jobs
      /\ UNCHANGED <<roleActive, gens, rechecks, manifest>>
  BY <1>1 DEF ClassificationRecovers
<1>3. pair.submission /= "proven"
  BY <1>2 DEF IInv, ProvenIsCalm, ResumeBlockers
<1>4. /\ p \in PairRow /\ ~p.hidden /\ p.resume = pair.resume /\ p.submission /= "proven"
      /\ p.workflow /= "interested" /\ left \subseteq Reasons
      /\ p.workflow = "needs_review" => left /= {}
  BY <1>1, <1>2, <1>3, LabelledIs, Types DEF IInv, Visible
<1>5. JobsFollow
  BY <1>2, <1>4, JobsAsked DEF Triggers
<1> QED
  BY <1>2, <1>4, <1>5, GensStay, Types, DecidedStep DEF IInv

-----------------------------------------------------------------------------
(* Recruiters *)

\* A candidate is added without a reply.
LEMMA AddCandidateKeepsIInv ==
  ASSUME IInv, AddCandidate
  PROVE  IInv'
<1>1. PICK p : p = [pair EXCEPT !.intent = "interested", !.workflow = "preparing_resume",
                                !.role = "active"]
  OBVIOUS
<1>2. /\ ~Exists /\ Change(p) /\ Queue(p, "initial", 1)
      /\ UNCHANGED <<roleActive, reviews, gens, rechecks, manifest>>
  BY <1>1 DEF AddCandidate
<1>3. /\ p \in PairRow /\ ~p.hidden /\ p.resume = pair.resume /\ p.submission = "none"
      /\ p.workflow = "preparing_resume"
  BY <1>1, <1>2, NewPair DEF PairRow, Intents, Workflows
<1>4. reviews' = {}
  BY <1>2 DEF IInv, NothingBefore
<1>5. JobsFollow
  <2>1. pair.version + 1 = 1 /\ "initial" \in Triggers
    BY <1>2, NewPair DEF Triggers
  <2> QED
    BY <1>2, <1>3, <2>1, JobsAsked
<1> QED
  BY <1>2, <1>3, <1>4, <1>5, GensStay, Types, DecidedStep DEF IInv

\* A preparation that came to nothing is asked for again.
LEMMA RearmKeepsIInv ==
  ASSUME IInv, Rearm
  PROVE  IInv'
<1>1. PICK p : p = [pair EXCEPT !.intent = "interested", !.workflow = "preparing_resume"]
  OBVIOUS
<1>2. /\ ~pair.hidden /\ Change(p) /\ reviews' = {} /\ Queue(p, "retry", pair.version + 1)
      /\ UNCHANGED <<roleActive, gens, rechecks, manifest>>
  BY <1>1 DEF Rearm, MayRearm
<1>3. /\ p \in PairRow /\ ~p.hidden /\ p.resume = pair.resume
      /\ p.workflow = "preparing_resume" /\ p.intent = "interested"
  BY <1>1, <1>2, Types DEF IInv, PairRow, Intents, Workflows
<1>4. JobsFollow
  BY <1>2, <1>3, JobsAsked DEF Triggers
<1> QED
  BY <1>2, <1>3, <1>4, GensStay, Types, DecidedStep DEF IInv

\* A recruiter moves the pair.
LEMMA ReclassifyKeepsIInv ==
  ASSUME IInv, NEW destination \in Destinations, Reclassify(destination)
  PROVE  IInv'
<1>1. PICK p :
        p = IF destination = "interested" THEN Prepared([pair EXCEPT !.intent = "interested"])
            ELSE [pair EXCEPT !.workflow = destination,
                    !.intent = IF destination = "needs_review" THEN "unclear" ELSE destination]
  OBVIOUS
<1>2. /\ Correctable /\ Change(p)
      /\ reviews' = IF destination = "needs_review" THEN reviews \cup {"reply_unclear"} ELSE {}
      /\ Queue(p, "retry", pair.version + 1) \/ UNCHANGED jobs
      /\ UNCHANGED <<roleActive, gens, rechecks, manifest>>
  BY <1>1 DEF Reclassify
<1>3. pair \in PairRow /\ destination \in {"interested", "needs_review", "not_interested"}
  BY Types DEF IInv, Destinations
<1>4. /\ p \in PairRow /\ p.hidden = pair.hidden /\ p.resume = pair.resume
      /\ p.submission = pair.submission
      /\ p.workflow = IF destination = "interested"
                      THEN IF HasReadyResume THEN "interested" ELSE "preparing_resume"
                      ELSE destination
  <2>1. CASE destination = "interested"
    <3>1. PICK q : q = [pair EXCEPT !.intent = "interested"]
      OBVIOUS
    <3>2. q \in PairRow /\ q.hidden = pair.hidden /\ q.resume = pair.resume
          /\ q.submission = pair.submission
      BY <1>3, <3>1 DEF PairRow, Intents
    <3>3. p = [q EXCEPT !.workflow = IF HasReadyResume THEN "interested" ELSE "preparing_resume"]
      BY <1>1, <2>1, <3>1 DEF Prepared
    <3> QED
      BY <2>1, <3>2, <3>3 DEF PairRow, Workflows
  <2>2. CASE destination /= "interested"
    <3>1. p = [pair EXCEPT !.workflow = destination,
                 !.intent = IF destination = "needs_review" THEN "unclear" ELSE destination]
      BY <1>1, <2>2
    <3> QED
      BY <1>3, <2>2, <3>1 DEF PairRow, Workflows, Intents
  <2> QED
    BY <2>1, <2>2
<1>5. ~pair.hidden /\ pair.submission /= "proven"
  BY <1>2 DEF Correctable, Visible
<1>6. JobsFollow
  BY <1>2, <1>4, JobsAsked DEF Triggers
<1>7. reviews' \subseteq Reasons
  BY <1>2, Types DEF IInv, Reasons, HumanDecisions
<1> QED
  BY <1>2, <1>3, <1>4, <1>5, <1>6, <1>7, GensStay, Types, DecidedStep DEF IInv

\* A review that a person may resolve is resolved by such a move.
LEMMA ResolveReviewKeepsIInv ==
  ASSUME IInv, ResolveReview
  PROVE  IInv'
BY ReclassifyKeepsIInv DEF ResolveReview, Destinations

\* A job queued for the pair as it is.
LEMMA AskedKeepsIInv ==
  ASSUME IInv, NEW trigger \in Triggers, Visible, Queue(pair, trigger, pair.version),
         UNCHANGED <<pair, roleActive, reviews, gens, rechecks, manifest>>
  PROVE  IInv'
<1>1. /\ pair \in PairRow /\ pair.version \in Versions /\ roleActive \in BOOLEAN
      /\ rechecks \subseteq RecheckRow /\ Exists /\ ~pair.hidden
  BY Types, PairFields DEF IInv, Visible
<1>2. JobsFollow
  BY <1>1, JobQueued
<1>3. /\ DOMAIN jobs' = 1 .. Len(jobs) + 1 /\ DOMAIN jobs = 1 .. Len(jobs)
      /\ \A j \in DOMAIN jobs : jobs'[j] = jobs[j]
  BY <1>1, QueueIs DEF IInv
<1>4. \A j \in DOMAIN jobs : Running(j, "build")' =>
        Running(j, "build") /\ gens'[jobs[j].gen].status = gens[jobs[j].gen].status
  BY <1>3 DEF Running
<1> QED
  BY <1>1, <1>2, <1>4, GensStay, QuietStep DEF NoWorkWhenHidden

\* Retry preparation is such a request.
LEMMA RetryPreparationKeepsIInv ==
  ASSUME IInv, RetryPreparation
  PROVE  IInv'
BY AskedKeepsIInv DEF RetryPreparation, Triggers

\* Regenerate asks with the resume that is shown.
LEMMA RegenerateKeepsIInv ==
  ASSUME IInv, Regenerate
  PROVE  IInv'
BY AskedKeepsIInv DEF Regenerate, Triggers

\* A step that leaves the jobs and the generations alone runs no build.
LEMMA BuildsStay ==
  ASSUME UNCHANGED <<jobs, gens>>
  PROVE  \A j \in DOMAIN jobs : Running(j, "build")' =>
           Running(j, "build") /\ gens'[jobs[j].gen].status = gens[jobs[j].gen].status
BY DEF Running

\* A recheck is queued for the version the recruiter saw.
LEMMA RequestRecheckKeepsIInv ==
  ASSUME IInv, NEW target \in {"resume", "role"}, RequestRecheck(target)
  PROVE  IInv'
<1>1. /\ Visible /\ rechecks' = rechecks \cup {[target |-> target, expected |-> pair.version]}
      /\ UNCHANGED <<pair, roleActive, reviews, jobs, gens, manifest>>
  BY DEF RequestRecheck
<1>2. /\ pair.version \in Versions /\ roleActive \in BOOLEAN /\ rechecks \subseteq RecheckRow
      /\ Exists /\ ~pair.hidden
  BY <1>1, Types, PairFields DEF IInv, Visible
<1>3. rechecks' \subseteq RecheckRow
  BY <1>1, <1>2 DEF RecheckRow
<1> QED
  BY <1>1, <1>2, <1>3, JobsStay, GensStay, BuildsStay, QuietStep DEF NoWorkWhenHidden

\* A command that changes the pair's own row and neither its place nor a proof.
LEMMA MarkKeepsIInv ==
  ASSUME IInv, NEW p \in PairRow, Mark(p),
         p.intent = pair.intent, p.workflow = pair.workflow, p.resume = pair.resume,
         p.hidden = pair.hidden,
         p.submission = pair.submission \/ (pair.submission /= "proven" /\ p.submission = "opened")
  PROVE  IInv'
<1>1. /\ Exists /\ ~pair.hidden /\ Visible /\ Change(p)
      /\ UNCHANGED <<roleActive, reviews, jobs, gens, rechecks, manifest>>
  BY DEF Mark, Visible
<1>2. /\ pair.workflow /= "needs_review" => reviews = {}
      /\ pair.workflow = "needs_review" /\ pair.submission /= "proven" => reviews /= {}
      /\ pair.workflow = "interested" => HasReadyResume
  BY <1>1 DEF IInv, TablesAgree
<1>3. p.submission = "proven" =>
        /\ p.intent \in {"interested", "unclear"}
        /\ p.workflow \in {"preparing_resume", "interested", "needs_review"}
        /\ reviews \subseteq ResumeBlockers
        /\ p.resume /= 0 => reviews = {}
  BY DEF IInv, ProvenIsCalm
<1> QED
  BY <1>1, <1>2, <1>3, JobsStay, GensStay, Types, DecidedStep DEF IInv

\* The submission page is opened, the submission marked or unmarked, and the
\* fit judged.
LEMMA MarksKeepIInv ==
  ASSUME IInv, OpenSubmit \/ MarkSubmitted \/ UnmarkSubmitted \/ MarkBadFit \/ ClearBadFit
  PROVE  IInv'
<1>1. pair \in PairRow
  BY Types DEF IInv
<1>2. CASE OpenSubmit
  <2> PICK p : p = [pair EXCEPT !.submission = "opened"]
    OBVIOUS
  <2> QED
    BY <1>1, <1>2, MarkKeepsIInv DEF OpenSubmit, PairRow
<1>3. CASE MarkSubmitted
  <2> PICK p : p = [pair EXCEPT !.submission = "opened", !.marked = TRUE]
    OBVIOUS
  <2> QED
    BY <1>1, <1>3, MarkKeepsIInv DEF MarkSubmitted, PairRow
<1>4. CASE UnmarkSubmitted
  <2> PICK p : p = [pair EXCEPT !.marked = FALSE]
    OBVIOUS
  <2> QED
    BY <1>1, <1>4, MarkKeepsIInv DEF UnmarkSubmitted, PairRow
<1>5. CASE MarkBadFit
  <2> PICK p : p = [pair EXCEPT !.badFit = TRUE]
    OBVIOUS
  <2> QED
    BY <1>1, <1>5, MarkKeepsIInv DEF MarkBadFit, PairRow
<1>6. CASE ClearBadFit
  <2> PICK p : p = [pair EXCEPT !.badFit = FALSE]
    OBVIOUS
  <2> QED
    BY <1>1, <1>6, MarkKeepsIInv DEF ClearBadFit, PairRow
<1> QED
  BY <1>2, <1>3, <1>4, <1>5, <1>6

\* A case is deleted: its work is cancelled and its manifest says what it had.
LEMMA SoftDeleteKeepsIInv ==
  ASSUME IInv, SoftDelete
  PROVE  IInv'
<1>1. PICK p : p = [pair EXCEPT !.hidden = TRUE]
  OBVIOUS
<1>2. /\ Visible /\ Change(p) /\ jobs' = CancelJobs /\ rechecks' = {}
      /\ manifest' = [version |-> pair.version, copies |-> [g \in DOMAIN gens |-> gens[g].copy]]
      /\ UNCHANGED <<roleActive, reviews>>
  BY <1>1 DEF SoftDelete
<1>3. /\ pair \in PairRow /\ pair.version \in Versions /\ pair.version \in Nat
      /\ gens \in [1 .. Len(gens) -> GenRow] /\ DOMAIN gens = 1 .. Len(gens) /\ Len(gens) \in Nat
      /\ Len(gens) <= MaxJobs * MaxAttempts + 1
      /\ roleActive \in BOOLEAN /\ reviews \subseteq Reasons
  BY Types, PairFields DEF IInv
<1>4. /\ p \in PairRow /\ p.hidden /\ p.resume = pair.resume /\ p.workflow = pair.workflow
      /\ p.intent = pair.intent /\ p.submission = pair.submission
  BY <1>1, <1>3 DEF PairRow
<1>5. /\ pair' \in PairRow /\ pair'.version = pair.version + 1 /\ pair'.hidden
      /\ pair'.workflow = pair.workflow /\ pair'.resume = pair.resume
      /\ pair'.intent = pair.intent /\ pair'.submission = pair.submission
  BY <1>2, <1>4, ChangeIs DEF IInv
<1>6. DOMAIN gens' = DOMAIN gens
  BY DEF SoftDelete
<1>7. ASSUME NEW g \in DOMAIN gens
      PROVE  /\ gens'[g] \in GenRow /\ gens'[g].status /= "active"
             /\ gens'[g].expected = gens[g].expected /\ gens'[g].prior = gens[g].prior
             /\ gens'[g].trigger = gens[g].trigger
             /\ gens[g].copy = "none" => gens'[g].copy = "none"
             /\ gens[g].copy /= "none" => gens'[g].copy = "deleted"
  <2>1. gens[g] \in GenRow
    BY <1>3
  <2>2. PICK row : row = CancelGenerations[g]
    OBVIOUS
  <2>3. row \in GenRow /\ row.status /= "active" /\ row.expected = gens[g].expected
        /\ row.prior = gens[g].prior /\ row.trigger = gens[g].trigger /\ row.copy = gens[g].copy
    <3>1. CASE gens[g].status = "active"
      <4>1. row = [gens[g] EXCEPT !.status = "cancelled"]
        BY <2>2, <3>1 DEF CancelGenerations, Closed
      <4> QED
        BY <2>1, <4>1 DEF GenRow
    <3>2. CASE gens[g].status /= "active"
      <4>1. row = gens[g]
        BY <2>2, <3>2 DEF CancelGenerations
      <4> QED
        BY <2>1, <3>2, <4>1
    <3> QED
      BY <3>1, <3>2
  <2>4. gens'[g] = IF row.copy = "none" THEN row ELSE [row EXCEPT !.copy = "deleted"]
    BY <2>2 DEF SoftDelete
  <2> QED
    BY <2>3, <2>4 DEF GenRow, Copies
<1>8. gens' \in Seq(GenRow) /\ Len(gens') = Len(gens)
  <2>1. gens' \in [1 .. Len(gens) -> GenRow]
    BY <1>3, <1>6, <1>7 DEF SoftDelete
  <2> QED
    BY <1>3, <2>1, SequenceOf
<1>9. GensFollow
  BY <1>7, <1>8 DEF GensFollow
<1>10. JobsFollow /\ \A j \in DOMAIN jobs' : jobs'[j].state \notin {"queued", "running"}
  BY <1>2, JobsCancelled
<1>11. JobsKnow' /\ OwnGenerations' /\ BuildsAreOpen' /\ GensKnow' /\ OnePerAttempt'
  BY <1>5, <1>9, <1>10, KnowledgeKept
<1>12. /\ manifest'.version = pair.version /\ DOMAIN manifest'.copies = DOMAIN gens
       /\ \A g \in DOMAIN gens : manifest'.copies[g] = gens[g].copy
       /\ manifest' \in [version : Versions, copies : Seq(Copies)]
  <2>1. \A g \in DOMAIN gens : gens[g].copy \in Copies
    BY <1>3 DEF GenRow
  <2>2. [g \in DOMAIN gens |-> gens[g].copy] \in Seq(Copies)
    BY <1>3, <2>1, SequenceOf
  <2> QED
    BY <1>2, <1>3, <2>2
<1>13. TypeOK'
  <2>1. {} \subseteq RecheckRow
    OBVIOUS
  <2>2. jobs' \in Seq(JobRow) /\ Len(jobs') <= MaxJobs
    BY <1>10 DEF JobsFollow
  <2> QED
    BY <1>2, <1>3, <1>5, <1>8, <1>12, <2>1, <2>2, TypesNext
<1>14. NothingBefore' /\ ResumeIsGenerated' /\ ProvenIsCalm'
  BY <1>2, <1>3, <1>5, <1>6 DEF IInv, NothingBefore, Exists, ResumeIsGenerated, ProvenIsCalm
<1>15. pair.workflow = "interested" => /\ pair.resume /= 0 /\ pair.resume \in DOMAIN gens
                                       /\ gens[pair.resume].copy = "current"
  BY <1>2 DEF IInv, TablesAgree, HasReadyResume, ResumeIsGenerated
<1>16. \A g, h \in DOMAIN gens : gens[g].copy = "current" /\ gens[h].copy = "current" => g = h
  BY DEF IInv, TablesAgree
<1>17. ManifestTells'
  <2>1. Exists'
    BY <1>3, <1>5 DEF Exists
  <2> QED
    BY <1>5, <1>6, <1>7, <1>12, <1>15, <1>16, <2>1 DEF ManifestTells
<1>18. TablesAgree'
  <2>1. \A g \in DOMAIN gens : gens'[g].copy /= "current"
    BY <1>7
  <2>2. Exists
    BY <1>2 DEF Visible
  <2> QED
    BY <1>2, <1>5, <1>6, <2>1, <2>2 DEF IInv, TablesAgree, Visible
<1>19. DeletedCaseIsRestorable'
  <2>1. Restorable'
    BY <1>5, <1>7, <1>12 DEF Restorable
  <2>2. ~UnderWay'
    BY <1>6, <1>7, <1>10 DEF UnderWay, ActiveGenerations, PendingJobs
  <2> QED
    BY <1>2, <2>1, <2>2 DEF DeletedCaseIsRestorable
<1> QED
  BY <1>11, <1>13, <1>14, <1>17, <1>18, <1>19 DEF IInv

\* A deleted case is given back with the copies its manifest names.
LEMMA RestoreCaseKeepsIInv ==
  ASSUME IInv, RestoreCase
  PROVE  IInv'
<1>1. PICK p : p = [pair EXCEPT !.hidden = FALSE]
  OBVIOUS
<1>2. /\ pair.hidden /\ Restorable /\ Change(p) /\ manifest' = NoManifest
      /\ Queue(p, "retry", pair.version + 1) \/ UNCHANGED jobs
      /\ UNCHANGED <<roleActive, reviews, rechecks>>
  BY <1>1 DEF RestoreCase
<1>3. /\ pair \in PairRow /\ pair.version \in Nat
      /\ gens \in [1 .. Len(gens) -> GenRow] /\ DOMAIN gens = 1 .. Len(gens) /\ Len(gens) \in Nat
      /\ Len(gens) <= MaxJobs * MaxAttempts + 1
      /\ roleActive \in BOOLEAN /\ reviews \subseteq Reasons /\ rechecks \subseteq RecheckRow
      /\ manifest \in [version : Versions, copies : Seq(Copies)]
  BY Types DEF IInv
<1>4. /\ p \in PairRow /\ ~p.hidden /\ p.resume = pair.resume /\ p.workflow = pair.workflow
      /\ p.intent = pair.intent /\ p.submission = pair.submission
  BY <1>1, <1>3 DEF PairRow
<1>5. /\ pair' \in PairRow /\ pair'.version = pair.version + 1 /\ ~pair'.hidden
      /\ pair'.workflow = pair.workflow /\ pair'.resume = pair.resume
      /\ pair'.intent = pair.intent /\ pair'.submission = pair.submission
  BY <1>2, <1>4, ChangeIs DEF IInv
<1>6. /\ Exists /\ DOMAIN manifest.copies = DOMAIN gens
      /\ pair.workflow = "interested" =>
           pair.resume /= 0 /\ manifest.copies[pair.resume] = "current"
      /\ \A g, h \in DOMAIN gens :
           manifest.copies[g] = "current" /\ manifest.copies[h] = "current" => g = h
  BY <1>2 DEF IInv, ManifestTells
<1>7. DOMAIN gens' = DOMAIN gens
  BY DEF RestoreCase
<1>8. ASSUME NEW g \in DOMAIN gens
      PROVE  /\ gens'[g] \in GenRow /\ gens'[g].copy = manifest.copies[g]
             /\ gens'[g].expected = gens[g].expected /\ gens'[g].prior = gens[g].prior
             /\ gens'[g].trigger = gens[g].trigger
  <2>1. gens[g] \in GenRow
    BY <1>3
  <2>2. manifest.copies[g] \in Copies
    BY <1>3, <1>6
  <2>3. gens'[g] = [gens[g] EXCEPT !.copy = manifest.copies[g]]
    BY <1>6 DEF RestoreCase
  <2> QED
    BY <2>1, <2>2, <2>3 DEF GenRow
<1>9. gens' \in Seq(GenRow) /\ Len(gens') = Len(gens)
  <2>1. gens' \in [1 .. Len(gens) -> GenRow]
    BY <1>3, <1>7, <1>8 DEF RestoreCase
  <2> QED
    BY <1>3, <2>1, SequenceOf
<1>10. GensFollow
  BY <1>8, <1>9 DEF GensFollow
<1>11. JobsFollow
  BY <1>2, <1>4, JobsAsked DEF Triggers
<1>12. JobsKnow' /\ OwnGenerations' /\ BuildsAreOpen' /\ GensKnow' /\ OnePerAttempt'
  BY <1>5, <1>10, <1>11, KnowledgeKept
<1>13. TypeOK'
  <2>1. manifest' \in [version : Versions, copies : Seq(Copies)]
    BY <1>2, BoundsAssumption DEF NoManifest, Versions
  <2>2. jobs' \in Seq(JobRow) /\ Len(jobs') <= MaxJobs
    BY <1>11 DEF JobsFollow
  <2> QED
    BY <1>2, <1>3, <1>5, <1>9, <2>1, <2>2, TypesNext
<1>14. NothingBefore' /\ ResumeIsGenerated' /\ ProvenIsCalm'
  BY <1>2, <1>3, <1>5, <1>7 DEF IInv, NothingBefore, Exists, ResumeIsGenerated, ProvenIsCalm
<1>15. ManifestTells' /\ DeletedCaseIsRestorable'
  BY <1>5 DEF ManifestTells, DeletedCaseIsRestorable
<1>16. TablesAgree'
  <2>1. \A g, h \in DOMAIN gens' :
          gens'[g].copy = "current" /\ gens'[h].copy = "current" => g = h
    BY <1>6, <1>7, <1>8
  <2>2. pair'.workflow = "interested" => HasReadyResume'
    BY <1>5, <1>6, <1>8 DEF IInv, ResumeIsGenerated, HasReadyResume
  <2> QED
    BY <1>2, <1>5, <1>6, <2>1, <2>2 DEF IInv, TablesAgree
<1> QED
  BY <1>12, <1>13, <1>14, <1>15, <1>16 DEF IInv

-----------------------------------------------------------------------------
(* The role index, the rechecks and the proofs *)

\* A prepared row differs in its workflow alone.
LEMMA PreparedIs ==
  ASSUME NEW p \in PairRow
  PROVE  /\ Prepared(p) \in PairRow /\ Decision(Prepared(p)) = Decision(p)
         /\ Prepared(p).hidden = p.hidden /\ Prepared(p).resume = p.resume
         /\ Prepared(p).intent = p.intent /\ Prepared(p).submission = p.submission
         /\ Prepared(p).workflow = IF HasReadyResume THEN "interested" ELSE "preparing_resume"
<1>1. PICK flow : flow = IF HasReadyResume THEN "interested" ELSE "preparing_resume"
  OBVIOUS
<1>2. Prepared(p) = [p EXCEPT !.workflow = flow] /\ flow \in {"interested", "preparing_resume"}
  BY <1>1 DEF Prepared
<1> QED
  BY <1>1, <1>2 DEF PairRow, Workflows, Decision

\* What was read of a role is no decision about anything else.
LEMMA ToldIs ==
  ASSUME IInv, NEW role \in {"active", "unavailable"}, NEW told, told = [pair EXCEPT !.role = role]
  PROVE  /\ told \in PairRow /\ told.hidden = pair.hidden /\ told.resume = pair.resume
         /\ told.intent = pair.intent /\ told.submission = pair.submission
         /\ told.workflow = pair.workflow
<1>1. pair \in PairRow
  BY Types DEF IInv
<1> QED
  BY <1>1 DEF PairRow

\* Nothing but what is known of the role is written.
LEMMA RoleOnlyKeepsIInv ==
  ASSUME IInv, roleActive' \in BOOLEAN, UNCHANGED <<pair, reviews, jobs, gens, rechecks, manifest>>
  PROVE  IInv'
<1>1. TypeOK'
  BY DEF IInv, TypeOK
<1>2. NothingBefore' /\ ResumeIsGenerated' /\ ProvenIsCalm'
  BY DEF IInv, NothingBefore, Exists, ResumeIsGenerated, ProvenIsCalm
<1>3. OnePerAttempt'
  <2>1. \A s : Used(s)' <=> Used(s)
    BY DEF Used
  <2> QED
    BY <2>1 DEF IInv, OnePerAttempt
<1>4. JobsKnow' /\ OwnGenerations'
  BY DEF IInv, JobsKnow, OwnGenerations
<1>5. BuildsAreOpen'
  BY DEF IInv, BuildsAreOpen, Running, AtExpected
<1>6. GensKnow'
  BY DEF IInv, GensKnow, AtExpected, Regeneratable
<1>7. ManifestTells' /\ TablesAgree'
  BY DEF IInv, ManifestTells, TablesAgree, Exists, Visible, HasReadyResume
<1>8. DeletedCaseIsRestorable'
  BY DEF IInv, DeletedCaseIsRestorable, Restorable, UnderWay, ActiveGenerations, PendingJobs
<1> QED
  BY <1>1, <1>2, <1>3, <1>4, <1>5, <1>6, <1>7, <1>8 DEF IInv

\* A visible pair is told of its role and changes in nothing else.
LEMMA ToldKeepsIInv ==
  ASSUME IInv, Visible, NEW told \in PairRow, Change(told), roleActive' \in BOOLEAN,
         told.hidden = pair.hidden, told.resume = pair.resume, told.intent = pair.intent,
         told.submission = pair.submission, told.workflow = pair.workflow,
         UNCHANGED <<reviews, jobs, gens, rechecks, manifest>>
  PROVE  IInv'
<1>1. Exists /\ ~pair.hidden
  BY DEF Visible
<1>2. /\ pair.workflow /= "needs_review" => reviews = {}
      /\ pair.workflow = "needs_review" /\ pair.submission /= "proven" => reviews /= {}
      /\ pair.workflow = "interested" => HasReadyResume
  BY <1>1 DEF IInv, TablesAgree
<1>3. told.submission = "proven" =>
        /\ told.intent \in {"interested", "unclear"}
        /\ told.workflow \in {"preparing_resume", "interested", "needs_review"}
        /\ reviews \subseteq ResumeBlockers
        /\ told.resume /= 0 => reviews = {}
  BY DEF IInv, ProvenIsCalm
<1> QED
  BY <1>1, <1>2, <1>3, JobsStay, GensStay, Types, DecidedStep DEF IInv

\* The role index is read again.
LEMMA IndexRoleKeepsIInv ==
  ASSUME IInv, NEW active \in BOOLEAN, IndexRole(active)
  PROVE  IInv'
<1>1. PICK role : role = IF active THEN "active" ELSE "unavailable"
  OBVIOUS
<1>2. PICK told : told = [pair EXCEPT !.role = role]
  OBVIOUS
<1>3. PICK left : left = reviews \ {"role_unavailable"}
  OBVIOUS
<1>4. role \in {"active", "unavailable"}
  BY <1>1
<1>5. /\ told \in PairRow /\ told.hidden = pair.hidden /\ told.resume = pair.resume
      /\ told.intent = pair.intent /\ told.submission = pair.submission
      /\ told.workflow = pair.workflow
  BY <1>2, <1>4, ToldIs
<1>6. roleActive' \in BOOLEAN /\ manifest' = manifest
  BY DEF IndexRole
<1>7. reviews \subseteq Reasons /\ rechecks \subseteq RecheckRow
  BY Types DEF IInv
<1>8. \/ UNCHANGED <<pair, reviews, jobs, gens, rechecks>>
      \/ /\ Visible /\ pair.submission /= "proven"
         /\ Change([told EXCEPT !.workflow = "needs_review"])
         /\ reviews' = reviews \cup {"role_unavailable"}
         /\ jobs' = CancelJobs /\ gens' = CancelGenerations /\ rechecks' = {}
      \/ /\ Visible /\ pair.submission /= "proven" /\ pair.workflow = "needs_review"
         /\ reviews' = left
         /\ Change(IF left = {} THEN Prepared(told) ELSE told)
         /\ Queue(told, "retry", pair.version + 1) \/ UNCHANGED jobs
         /\ UNCHANGED <<gens, rechecks>>
      \/ Visible /\ Change(told) /\ UNCHANGED <<reviews, jobs, gens, rechecks>>
  BY <1>1, <1>2, <1>3 DEF IndexRole
<1>9. CASE UNCHANGED <<pair, reviews, jobs, gens, rechecks>>
  BY <1>6, <1>9, RoleOnlyKeepsIInv
<1>10. CASE /\ Visible /\ pair.submission /= "proven"
            /\ Change([told EXCEPT !.workflow = "needs_review"])
            /\ reviews' = reviews \cup {"role_unavailable"}
            /\ jobs' = CancelJobs /\ gens' = CancelGenerations /\ rechecks' = {}
  <2>1. PICK p : p = [told EXCEPT !.workflow = "needs_review"]
    OBVIOUS
  <2>2. /\ p \in PairRow /\ ~p.hidden /\ p.resume = pair.resume /\ p.workflow = "needs_review"
        /\ p.submission /= "proven"
    BY <1>5, <1>10, <2>1 DEF PairRow, Workflows, Visible
  <2>3. Change(p)
    BY <1>10, <2>1
  <2>4. JobsFollow
    BY <1>10, <2>2, <2>3, JobsAsked DEF Triggers
  <2>5. GensFollow /\ CopiesStay
    BY <1>10, GensCancelled
  <2>6. reviews' \subseteq Reasons /\ reviews' /= {} /\ rechecks' \subseteq RecheckRow
    BY <1>7, <1>10 DEF Reasons
  <2> QED
    BY <1>6, <2>2, <2>3, <2>4, <2>5, <2>6, DecidedStep
<1>11. CASE /\ Visible /\ pair.submission /= "proven" /\ pair.workflow = "needs_review"
            /\ reviews' = left
            /\ Change(IF left = {} THEN Prepared(told) ELSE told)
            /\ Queue(told, "retry", pair.version + 1) \/ UNCHANGED jobs
            /\ UNCHANGED <<gens, rechecks>>
  <2>1. PICK p : p = IF left = {} THEN Prepared(told) ELSE told
    OBVIOUS
  <2>2. /\ p \in PairRow /\ ~p.hidden /\ p.resume = pair.resume /\ p.submission /= "proven"
        /\ Decision(told) = Decision(p)
        /\ p.workflow = "interested" => HasReadyResume
        /\ p.workflow = "needs_review" <=> left /= {}
    <3>1. ~pair.hidden
      BY <1>11 DEF Visible
    <3>2. CASE left = {}
      BY <1>5, <1>11, <2>1, <3>1, <3>2, PreparedIs
    <3>3. CASE left /= {}
      BY <1>5, <1>11, <2>1, <3>1, <3>3
    <3> QED
      BY <3>2, <3>3
  <2>3. Change(p)
    BY <1>11, <2>1
  <2>4. JobsFollow
    BY <1>5, <1>11, <2>2, <2>3, JobsAsked DEF Triggers
  <2>5. reviews' \subseteq Reasons /\ rechecks' \subseteq RecheckRow
    BY <1>3, <1>7, <1>11
  <2> QED
    BY <1>6, <1>11, <2>2, <2>3, <2>4, <2>5, GensStay, DecidedStep
<1>12. CASE Visible /\ Change(told) /\ UNCHANGED <<reviews, jobs, gens, rechecks>>
  BY <1>5, <1>6, <1>12, ToldKeepsIInv
<1> QED
  BY <1>8, <1>9, <1>10, <1>11, <1>12

\* A fresh read of the role settles its review.
LEMMA RecheckRoleKeepsIInv ==
  ASSUME IInv, NEW r \in rechecks, NEW active \in BOOLEAN, RecheckRole(r, active)
  PROVE  IInv'
<1>1. PICK role : role = IF active THEN "active" ELSE "unavailable"
  OBVIOUS
<1>2. PICK told : told = [pair EXCEPT !.role = role]
  OBVIOUS
<1>3. PICK rest : rest = reviews \ {"role_unavailable"}
  OBVIOUS
<1>4. PICK left : left = IF pair.intent /= "interested" /\ rest = {} THEN {"reply_unclear"} ELSE rest
  OBVIOUS
<1>5. PICK ready : ready = (active /\ pair.intent = "interested" /\ left = {})
  OBVIOUS
<1>6. PICK p : p = IF ready THEN Prepared(told) ELSE told
  OBVIOUS
<1>7. /\ Visible /\ pair.workflow = "needs_review" /\ "role_unavailable" \in reviews
      /\ roleActive' = active /\ reviews' = IF active THEN left ELSE reviews
      /\ Change(p)
      /\ Queue(told, "retry", pair.version + 1) \/ UNCHANGED jobs
      /\ rechecks' = rechecks \ {r} /\ UNCHANGED <<gens, manifest>>
  BY <1>1, <1>2, <1>3, <1>4, <1>5, <1>6 DEF RecheckRole
<1>8. /\ told \in PairRow /\ told.hidden = pair.hidden /\ told.resume = pair.resume
      /\ told.intent = pair.intent /\ told.submission = pair.submission
      /\ told.workflow = pair.workflow
  BY <1>1, <1>2, ToldIs
<1>9. ~pair.hidden /\ pair.submission /= "proven"
  BY <1>7 DEF Visible, IInv, ProvenIsCalm, ResumeBlockers
<1>10. /\ p \in PairRow /\ ~p.hidden /\ p.resume = pair.resume /\ p.submission /= "proven"
       /\ Decision(told) = Decision(p)
       /\ p.workflow = "interested" => HasReadyResume
       /\ p.workflow = "needs_review" <=> ~ready
  <2>1. CASE ready
    BY <1>6, <1>8, <1>9, <2>1, PreparedIs
  <2>2. CASE ~ready
    BY <1>6, <1>7, <1>8, <1>9, <2>2
  <2> QED
    BY <2>1, <2>2
<1>11. /\ reviews' \subseteq Reasons /\ rechecks' \subseteq RecheckRow
       /\ ready <=> reviews' = {}
  <2>1. reviews \subseteq Reasons /\ rechecks \subseteq RecheckRow /\ "reply_unclear" \in Reasons
    BY Types DEF IInv, Reasons, HumanDecisions
  <2> QED
    BY <1>3, <1>4, <1>5, <1>7, <2>1
<1>12. JobsFollow
  BY <1>7, <1>8, <1>10, JobsAsked DEF Triggers
<1> QED
  BY <1>7, <1>10, <1>11, <1>12, GensStay, DecidedStep

\* The original resume was found; other reviews may be left.
LEMMA RecheckResumeKeepsIInv ==
  ASSUME IInv, NEW r \in rechecks, RecheckResume(r)
  PROVE  IInv'
<1>1. PICK left, p : /\ left = reviews \ {"original_resume_missing"}
                     /\ p = [pair EXCEPT !.intent = "interested", !.workflow = "preparing_resume"]
  OBVIOUS
<1>2. /\ Visible /\ pair.workflow = "needs_review" /\ reviews' = left
      /\ IF left /= {} THEN UNCHANGED <<pair, jobs>>
         ELSE Change(p) /\ Queue(p, "retry", pair.version + 1)
      /\ rechecks' = rechecks \ {r} /\ UNCHANGED <<roleActive, gens, manifest>>
  BY <1>1 DEF RecheckResume
<1>3. /\ pair \in PairRow /\ roleActive \in BOOLEAN /\ reviews \subseteq Reasons
      /\ rechecks' \subseteq RecheckRow /\ reviews' \subseteq reviews
      /\ Exists /\ ~pair.hidden
  BY <1>1, <1>2, Types DEF IInv, Visible
<1>4. CASE left = {}
  <2>1. /\ p \in PairRow /\ ~p.hidden /\ p.resume = pair.resume
        /\ p.workflow = "preparing_resume" /\ p.intent = "interested"
    BY <1>1, <1>3 DEF PairRow, Intents, Workflows
  <2>2. Change(p) /\ Queue(p, "retry", pair.version + 1) /\ reviews' = {}
    BY <1>2, <1>4
  <2>3. JobsFollow
    BY <2>1, <2>2, JobsAsked DEF Triggers
  <2> QED
    BY <1>2, <1>3, <2>1, <2>2, <2>3, GensStay, DecidedStep
<1>5. CASE left /= {}
  <2>1. UNCHANGED <<pair, jobs, gens>> /\ reviews' /= {}
    BY <1>2, <1>5
  <2>2. PairStays
    BY <1>3, <2>1, BuildsStay DEF PairStays
  <2>3. ProvenIsCalm'
    BY <1>3, <2>1 DEF IInv, ProvenIsCalm
  <2>4. pair'.version > 0
    BY <1>3, <2>1 DEF Exists
  <2> QED
    BY <1>2, <1>3, <2>1, <2>2, <2>3, <2>4, JobsStay, GensStay, VisibleStep
<1> QED
  BY <1>4, <1>5

\* A recheck that finds nothing is dropped.
LEMMA DropRecheckKeepsIInv ==
  ASSUME IInv, NEW r \in rechecks, DropRecheck(r)
  PROVE  IInv'
<1>1. rechecks' = rechecks \ {r} /\ UNCHANGED <<pair, roleActive, reviews, jobs, gens, manifest>>
  BY DEF DropRecheck
<1>2. Exists /\ roleActive \in BOOLEAN /\ rechecks' \subseteq RecheckRow
  BY <1>1, HasRows, Types DEF IInv
<1> QED
  BY <1>1, <1>2, JobsStay, GensStay, BuildsStay, QuietStep DEF NoWorkWhenHidden

\* A proof arrives; while a resume is prepared the version stays.
LEMMA ProveSubmissionKeepsIInv ==
  ASSUME IInv, ProveSubmission
  PROVE  IInv'
<1>1. PICK p : p = [pair EXCEPT !.submission = "proven"]
  OBVIOUS
<1>2. /\ Visible
      /\ pair.workflow \in {"preparing_resume", "interested", "needs_review"}
      /\ pair.intent \in {"interested", "unclear"}
      /\ pair' = p \/ Change(p)
      /\ reviews' = IF pair.workflow = "needs_review" THEN {} ELSE reviews
      /\ UNCHANGED <<roleActive, jobs, gens, rechecks, manifest>>
  BY <1>1 DEF ProveSubmission
<1>3. /\ pair \in PairRow /\ roleActive \in BOOLEAN /\ rechecks \subseteq RecheckRow
      /\ Exists /\ ~pair.hidden
  BY <1>2, Types DEF IInv, Visible
<1>4. /\ p \in PairRow /\ ~p.hidden /\ p.resume = pair.resume /\ p.workflow = pair.workflow
      /\ p.intent = pair.intent /\ p.submission = "proven" /\ p.version = pair.version
      /\ p.hidden = pair.hidden
      /\ Decision(p) = Decision(pair)
  BY <1>1, <1>3 DEF PairRow, Decision
<1>5. reviews' = {} /\ (pair.workflow = "interested" => HasReadyResume)
  BY <1>2 DEF IInv, TablesAgree
<1>6. CASE Change(p)
  BY <1>2, <1>3, <1>4, <1>5, <1>6, JobsStay, GensStay, DecidedStep
<1>7. CASE pair' = p
  <2>1. PairStays
    <3>1. /\ pair'.version = pair.version /\ Decision(pair') = Decision(pair)
          /\ pair'.workflow = pair.workflow /\ pair'.hidden = pair.hidden
          /\ pair'.submission = "proven"
      BY <1>4, <1>7
    <3>2. reviews' \subseteq reviews
      BY <1>5
    <3>3. UNCHANGED <<jobs, gens>>
      BY <1>2
    <3> QED
      BY <3>1, <3>2, <3>3, BuildsStay DEF PairStays
  <2>2. ProvenIsCalm'
    BY <1>2, <1>4, <1>5, <1>7 DEF ProvenIsCalm
  <2>3. pair'.version > 0
    BY <1>3, <1>4, <1>7 DEF Exists
  <2> QED
    BY <1>2, <1>3, <1>4, <1>5, <1>7, <2>1, <2>2, <2>3, JobsStay, GensStay, VisibleStep
<1> QED
  BY <1>2, <1>6, <1>7

-----------------------------------------------------------------------------
(* The preparation jobs *)

\* The row of one job is written and nothing else; it is not given work back.
LEMMA JobStepKeepsIInv ==
  ASSUME IInv, NEW j \in DOMAIN jobs, NEW row \in JobRow, jobs' = [jobs EXCEPT ![j] = row],
         UNCHANGED <<pair, roleActive, reviews, gens, rechecks, manifest>>,
         row.expected = jobs[j].expected, row.asked = jobs[j].asked, row.gen \in {0, jobs[j].gen},
         row.pc \in Busy => row.gen = jobs[j].gen /\ jobs[j].pc \in Busy,
         \/ row.attempts = jobs[j].attempts /\ (row.pc = "start" => jobs[j].pc = "start")
         \/ row.attempts = jobs[j].attempts + 1,
         row.state \in {"queued", "running"} => jobs[j].state \in {"queued", "running"},
         row.state = "running" /\ row.live /\ row.pc = "build" => Running(j, "build")
  PROVE  IInv'
<1>1. /\ JobsFollow /\ DOMAIN jobs' = DOMAIN jobs /\ jobs'[j] = row
      /\ \A i \in DOMAIN jobs : i /= j => jobs'[i] = jobs[i]
  BY JobWritten
<1>2. Exists /\ roleActive \in BOOLEAN /\ rechecks \subseteq RecheckRow
  BY HasRows, Types DEF IInv
<1>3. ASSUME NEW i \in DOMAIN jobs, Running(i, "build")'
      PROVE  Running(i, "build") /\ gens'[jobs[i].gen].status = gens[jobs[i].gen].status
  BY <1>1, <1>3 DEF Running
<1>4. NoWorkWhenHidden
  BY <1>1 DEF NoWorkWhenHidden
<1> QED
  BY <1>1, <1>2, <1>3, <1>4, GensStay, QuietStep

\* A job is claimed, by a new attempt that has no generation yet.
LEMMA ClaimKeepsIInv ==
  ASSUME IInv, NEW j \in DOMAIN jobs, Claim(j)
  PROVE  IInv'
<1>1. PICK row : row = [jobs[j] EXCEPT !.state = "running", !.live = TRUE, !.pc = "start",
                                       !.gen = 0, !.attempts = jobs[j].attempts + 1]
  OBVIOUS
<1>2. /\ jobs[j].attempts < MaxAttempts /\ jobs[j].state \in {"queued", "running"}
      /\ UNCHANGED <<pair, roleActive, reviews, gens, rechecks, manifest>>
  BY DEF Claim
<1>3. jobs[j] \in JobRow
  BY Types DEF IInv
<1>4. jobs' = [jobs EXCEPT ![j] = row]
  BY <1>1 DEF Claim
<1>5. jobs[j].attempts + 1 \in 0 .. MaxAttempts
  BY <1>2, <1>3, BoundsAssumption DEF JobRow
<1>6. /\ row \in JobRow /\ row.expected = jobs[j].expected /\ row.asked = jobs[j].asked
      /\ row.gen = 0 /\ row.pc = "start" /\ row.attempts = jobs[j].attempts + 1
  BY <1>1, <1>3, <1>5 DEF JobRow
<1> QED
  BY <1>2, <1>4, <1>6, JobStepKeepsIInv DEF Busy

\* A lease runs out.
LEMMA LeaseExpiresKeepsIInv ==
  ASSUME IInv, NEW j \in DOMAIN jobs, LeaseExpires(j)
  PROVE  IInv'
<1>1. PICK row : row = [jobs[j] EXCEPT !.live = FALSE]
  OBVIOUS
<1>2. jobs[j] \in JobRow
  BY Types DEF IInv
<1>3. /\ row \in JobRow /\ row.expected = jobs[j].expected /\ row.asked = jobs[j].asked
      /\ row.gen = jobs[j].gen /\ row.pc = jobs[j].pc /\ row.attempts = jobs[j].attempts
      /\ row.state = jobs[j].state /\ ~row.live
  BY <1>1, <1>2 DEF JobRow
<1>4. /\ jobs' = [jobs EXCEPT ![j] = row]
      /\ UNCHANGED <<pair, roleActive, reviews, gens, rechecks, manifest>>
  BY <1>1 DEF LeaseExpires
<1> QED
  BY <1>3, <1>4, JobStepKeepsIInv

\* An execution ends.
LEMMA EndedKeepsIInv ==
  ASSUME IInv, NEW j \in DOMAIN jobs, jobs[j].state = "running",
         NEW state \in {"queued", "succeeded", "failed"}, jobs' = Ended(j, state),
         UNCHANGED <<pair, roleActive, reviews, gens, rechecks, manifest>>
  PROVE  IInv'
<1>1. PICK row : row = [jobs[j] EXCEPT !.state = state, !.live = FALSE, !.pc = "none"]
  OBVIOUS
<1>2. jobs[j] \in JobRow
  BY Types DEF IInv
<1>3. /\ row \in JobRow /\ row.expected = jobs[j].expected /\ row.asked = jobs[j].asked
      /\ row.gen = jobs[j].gen /\ row.pc = "none" /\ row.attempts = jobs[j].attempts
  BY <1>1, <1>2 DEF JobRow
<1>4. jobs' = [jobs EXCEPT ![j] = row]
  BY <1>1 DEF Ended
<1> QED
  BY <1>3, <1>4, JobStepKeepsIInv DEF Busy

\* An attempt that could not start its generation is repeated or is the last.
LEMMA StartFailsKeepsIInv ==
  ASSUME IInv, NEW j \in DOMAIN jobs, StartFails(j)
  PROVE  IInv'
<1>1. jobs[j].state = "running" /\ UNCHANGED <<pair, roleActive, reviews, gens, rechecks, manifest>>
  BY DEF StartFails, Running
<1>2. \E state \in {"queued", "succeeded", "failed"} : jobs' = Ended(j, state)
  BY DEF StartFails, Retried
<1> QED
  BY <1>1, <1>2, EndedKeepsIInv

\* An attempt that gave up its generation is repeated.
LEMMA RequeueKeepsIInv ==
  ASSUME IInv, NEW j \in DOMAIN jobs, Requeue(j)
  PROVE  IInv'
<1>1. jobs[j].state = "running" /\ UNCHANGED <<pair, roleActive, reviews, gens, rechecks, manifest>>
  BY DEF Requeue, Running
<1>2. \E state \in {"queued", "succeeded", "failed"} : jobs' = Ended(j, state)
  BY DEF Requeue, Retried
<1> QED
  BY <1>1, <1>2, EndedKeepsIInv

\* A job is completed after its build was published or routed.
LEMMA EndJobKeepsIInv ==
  ASSUME IInv, NEW j \in DOMAIN jobs, EndJob(j)
  PROVE  IInv'
<1>1. jobs[j].state = "running" /\ UNCHANGED <<pair, roleActive, reviews, gens, rechecks, manifest>>
  BY DEF EndJob, Running
<1>2. \E state \in {"queued", "succeeded", "failed"} : jobs' = Ended(j, state)
  BY DEF EndJob
<1> QED
  BY <1>1, <1>2, EndedKeepsIInv

\* A job that has work belongs to a case that is not deleted.
LEMMA WorkIsVisible ==
  ASSUME IInv, \/ \E j \in DOMAIN jobs : jobs[j].state \in {"queued", "running"}
               \/ \E g \in DOMAIN gens : gens[g].status = "active"
  PROVE  ~pair.hidden /\ Exists
<1>1. UnderWay
  BY DEF UnderWay, ActiveGenerations, PendingJobs
<1>2. jobs /= <<>> \/ gens /= <<>>
  OBVIOUS
<1> QED
  BY <1>1, <1>2, HasRows DEF IInv, DeletedCaseIsRestorable

\* The generation of a build.
LEMMA BuildIs ==
  ASSUME IInv, NEW j \in DOMAIN jobs, Running(j, "build")
  PROVE  /\ jobs[j].gen \in DOMAIN gens /\ jobs[j].gen /= 0 /\ ~pair.hidden /\ Exists
         /\ gens[jobs[j].gen] \in GenRow /\ jobs[j] \in JobRow
         /\ gens[jobs[j].gen].expected = jobs[j].expected
<1>1. jobs[j].state = "running" /\ jobs[j].pc = "build"
  BY DEF Running
<1>2. /\ jobs[j].gen \in DOMAIN gens /\ jobs[j].gen /= 0
      /\ gens[jobs[j].gen].expected = jobs[j].expected
  BY <1>1 DEF IInv, JobsKnow
<1> QED
  BY <1>1, <1>2, WorkIsVisible, Types DEF IInv

\* A build is over and its generation is closed, or stays what others made it.
LEMMA ConcludeIs ==
  ASSUME IInv, NEW j \in DOMAIN jobs, Running(j, "build"),
         NEW pc \in {"again", "done", "over"}, jobs' = At(j, pc),
         \/ UNCHANGED gens
         \/ gens' = [gens EXCEPT ![jobs[j].gen] = Closed(gens[jobs[j].gen], "failed")]
  PROVE  /\ JobsFollow /\ GensFollow /\ CopiesStay /\ NoWorkWhenHidden
         /\ \A i \in DOMAIN jobs : Running(i, "build")' =>
              Running(i, "build") /\ gens'[jobs[i].gen].status = gens[jobs[i].gen].status
<1>1. PICK row : row = [jobs[j] EXCEPT !.pc = pc]
  OBVIOUS
<1>2. PICK g : g = jobs[j].gen
  OBVIOUS
<1>3. PICK closed : closed = [gens[g] EXCEPT !.status = "failed"]
  OBVIOUS
<1>4. /\ g \in DOMAIN gens /\ g /= 0 /\ gens[g] \in GenRow /\ jobs[j] \in JobRow
      /\ ~pair.hidden /\ jobs[j].pc = "build"
  BY <1>2, BuildIs DEF Running
<1>5. /\ row \in JobRow /\ row.expected = jobs[j].expected /\ row.asked = jobs[j].asked
      /\ row.gen = jobs[j].gen /\ row.attempts = jobs[j].attempts /\ row.pc = pc
  BY <1>1, <1>4 DEF JobRow
<1>6. jobs' = [jobs EXCEPT ![j] = row]
  BY <1>1 DEF At
<1>7. row.pc \in Busy /\ jobs[j].pc \in Busy /\ row.pc /= "start" /\ row.pc /= "build"
  BY <1>4, <1>5 DEF Busy
<1>8. /\ JobsFollow /\ DOMAIN jobs' = DOMAIN jobs /\ jobs'[j] = row
      /\ \A i \in DOMAIN jobs : i /= j => jobs'[i] = jobs[i]
  BY <1>5, <1>6, <1>7, JobWritten
<1>9. /\ closed \in GenRow /\ closed.expected = gens[g].expected /\ closed.prior = gens[g].prior
      /\ closed.trigger = gens[g].trigger /\ closed.copy = gens[g].copy
  BY <1>3, <1>4 DEF GenRow
<1>10. UNCHANGED gens \/ gens' = [gens EXCEPT ![g] = closed]
  BY <1>2, <1>3 DEF Closed
<1>11. /\ GensFollow /\ CopiesStay
       /\ \A h \in DOMAIN gens : h /= g => gens'[h] = gens[h]
  <2>1. CASE UNCHANGED gens
    BY <2>1, GensStay
  <2>2. CASE gens' = [gens EXCEPT ![g] = closed]
    BY <1>4, <1>9, <2>2, GenWritten
  <2> QED
    BY <1>10, <2>1, <2>2
<1>12. ASSUME NEW i \in DOMAIN jobs, Running(i, "build")'
       PROVE  Running(i, "build") /\ gens'[jobs[i].gen].status = gens[jobs[i].gen].status
  <2>1. i /= j /\ Running(i, "build")
    BY <1>7, <1>8, <1>12 DEF Running
  <2>2. jobs[i].gen \in DOMAIN gens /\ jobs[i].gen /= g
    BY <1>2, <1>4, <2>1, BuildIs DEF IInv, OwnGenerations
  <2> QED
    BY <1>11, <2>1, <2>2
<1> QED
  BY <1>4, <1>8, <1>11, <1>12 DEF NoWorkWhenHidden

\* A build that leaves its pair alone is concluded.
LEMMA ConcludeKeepsIInv ==
  ASSUME IInv, NEW j \in DOMAIN jobs, Running(j, "build"),
         NEW pc \in {"again", "done", "over"}, jobs' = At(j, pc),
         \/ UNCHANGED gens
         \/ gens' = [gens EXCEPT ![jobs[j].gen] = Closed(gens[jobs[j].gen], "failed")],
         UNCHANGED <<pair, roleActive, reviews, rechecks, manifest>>
  PROVE  IInv'
<1>1. Exists /\ roleActive \in BOOLEAN /\ rechecks \subseteq RecheckRow
  BY BuildIs, Types DEF IInv
<1> QED
  BY <1>1, ConcludeIs, QuietStep

\* A generation is abandoned and its job repeated.
LEMMA AbandonGenerationKeepsIInv ==
  ASSUME IInv, NEW j \in DOMAIN jobs, AbandonGeneration(j)
  PROVE  IInv'
<1>1. /\ Running(j, "build") /\ jobs' = At(j, "again")
      /\ \/ UNCHANGED gens
         \/ gens' = [gens EXCEPT ![jobs[j].gen] = Closed(gens[jobs[j].gen], "failed")]
      /\ UNCHANGED <<pair, roleActive, reviews, rechecks, manifest>>
  BY DEF AbandonGeneration
<1> QED
  BY <1>1, ConcludeKeepsIInv

\* A refresh fails for good: the resume that is shown stays.
LEMMA FailRegenerationKeepsIInv ==
  ASSUME IInv, NEW j \in DOMAIN jobs, FailRegeneration(j)
  PROVE  IInv'
BY ConcludeKeepsIInv DEF FailRegeneration

\* A build whose pair changed closes nothing.
LEMMA FailStaleKeepsIInv ==
  ASSUME IInv, NEW j \in DOMAIN jobs, FailStale(j)
  PROVE  IInv'
BY ConcludeKeepsIInv DEF FailStale

\* A build without a resume to fall back to is routed to Needs Review.
LEMMA FailInitialGenerationKeepsIInv ==
  ASSUME IInv, NEW j \in DOMAIN jobs, NEW reason \in ResumeBlockers,
         FailInitialGeneration(j, reason)
  PROVE  IInv'
<1>1. PICK p, g : /\ p = [pair EXCEPT !.intent = "interested", !.workflow = "needs_review"]
                  /\ g = jobs[j].gen
  OBVIOUS
<1>2. /\ Running(j, "build") /\ ~FallsBack(g) /\ AtExpected(g) /\ Change(p)
      /\ reviews' = reviews \cup {reason} /\ jobs' = At(j, "done")
      /\ gens' = [gens EXCEPT ![jobs[j].gen] = Closed(gens[jobs[j].gen], "failed")]
      /\ UNCHANGED <<roleActive, rechecks, manifest>>
  BY <1>1 DEF FailInitialGeneration
<1>3. /\ g \in DOMAIN gens /\ ~pair.hidden /\ pair \in PairRow /\ roleActive \in BOOLEAN
      /\ reviews \subseteq Reasons /\ rechecks \subseteq RecheckRow
  BY <1>1, <1>2, BuildIs, Types DEF IInv
<1>4. /\ p \in PairRow /\ ~p.hidden /\ p.resume = pair.resume /\ p.workflow = "needs_review"
      /\ p.intent = "interested" /\ p.submission = pair.submission
  BY <1>1, <1>3 DEF PairRow, Intents, Workflows
<1>5. pair.resume = 0
  BY <1>2, <1>3 DEF FallsBack, IInv, GensKnow
<1>6. /\ reviews' \subseteq Reasons /\ reviews' /= {}
      /\ pair.submission = "proven" => reviews' \subseteq ResumeBlockers
  BY <1>2, <1>3 DEF IInv, ProvenIsCalm, Reasons
<1>7. JobsFollow /\ GensFollow /\ CopiesStay
  BY <1>2, ConcludeIs
<1> QED
  BY <1>2, <1>3, <1>4, <1>5, <1>6, <1>7, DecidedStep

\* A generation gets old.
LEMMA DeadlinePassesKeepsIInv ==
  ASSUME IInv, NEW g \in DOMAIN gens, DeadlinePasses(g)
  PROVE  IInv'
<1>1. PICK row : row = [gens[g] EXCEPT !.late = TRUE]
  OBVIOUS
<1>2. /\ gens[g].status = "active" /\ gens' = [gens EXCEPT ![g] = row]
      /\ UNCHANGED <<pair, roleActive, reviews, jobs, rechecks, manifest>>
  BY <1>1 DEF DeadlinePasses
<1>3. /\ gens[g] \in GenRow /\ roleActive \in BOOLEAN /\ rechecks \subseteq RecheckRow
      /\ Exists /\ ~pair.hidden
  BY <1>2, Types, WorkIsVisible DEF IInv
<1>4. /\ row \in GenRow /\ row.expected = gens[g].expected /\ row.prior = gens[g].prior
      /\ row.trigger = gens[g].trigger /\ row.copy = gens[g].copy /\ row.status = gens[g].status
  BY <1>1, <1>3 DEF GenRow
<1>5. /\ GensFollow /\ CopiesStay
      /\ \A h \in DOMAIN gens : gens'[h].status = gens[h].status
  <2>1. /\ GensFollow /\ CopiesStay /\ gens'[g] = row
        /\ \A h \in DOMAIN gens : h /= g => gens'[h] = gens[h]
    BY <1>2, <1>4, GenWritten
  <2> QED
    BY <1>4, <2>1
<1>6. ASSUME NEW j \in DOMAIN jobs, Running(j, "build")'
      PROVE  Running(j, "build") /\ gens'[jobs[j].gen].status = gens[jobs[j].gen].status
  <2>1. Running(j, "build")
    BY <1>2, <1>6 DEF Running
  <2> QED
    BY <1>5, <2>1, BuildIs
<1> QED
  BY <1>2, <1>3, <1>5, <1>6, JobsStay, QuietStep DEF NoWorkWhenHidden

\* A current resume is shown again once its refresh has ended.
LEMMA RecoverReadyKeepsIInv ==
  ASSUME IInv, RecoverReady
  PROVE  IInv'
<1>1. PICK p : p = [pair EXCEPT !.workflow = "interested"]
  OBVIOUS
<1>2. /\ ~pair.hidden /\ pair.intent = "interested" /\ HasReadyResume /\ reviews = {}
      /\ Change(p) /\ UNCHANGED <<roleActive, reviews, jobs, gens, rechecks, manifest>>
  BY <1>1 DEF RecoverReady, Visible
<1>3. /\ p \in PairRow /\ ~p.hidden /\ p.resume = pair.resume /\ p.workflow = "interested"
      /\ p.intent = "interested"
  BY <1>1, <1>2, Types DEF IInv, PairRow, Workflows
<1> QED
  BY <1>2, <1>3, JobsStay, GensStay, Types, DecidedStep DEF IInv

\* A generation that nobody builds any more is closed, and its pair routed when
\* it still waits for it.
LEMMA RecoverExpiredKeepsIInv ==
  ASSUME IInv, NEW g \in DOMAIN gens, RecoverExpired(g)
  PROVE  IInv'
<1>1. PICK routed : routed = (/\ Visible /\ gens[g].prior = 0
                              /\ pair.intent = "interested" /\ Preparing(pair) /\ AtExpected(g))
  OBVIOUS
<1>2. PICK p : p = [pair EXCEPT !.workflow = "needs_review"]
  OBVIOUS
<1>3. PICK row : row = [gens[g] EXCEPT !.status = "failed"]
  OBVIOUS
<1>4. /\ gens[g].status = "active" /\ ~Building /\ gens' = [gens EXCEPT ![g] = row]
      /\ IF routed THEN Change(p) ELSE UNCHANGED pair
      /\ reviews' = IF routed /\ pair.submission /= "proven"
                    THEN reviews \cup {"preparation_failed"} ELSE reviews
      /\ UNCHANGED <<roleActive, jobs, rechecks, manifest>>
  BY <1>1, <1>2, <1>3 DEF RecoverExpired, Closed
<1>5. /\ gens[g] \in GenRow /\ roleActive \in BOOLEAN /\ rechecks \subseteq RecheckRow
      /\ pair \in PairRow /\ reviews \subseteq Reasons /\ Exists /\ ~pair.hidden
  BY <1>4, Types, WorkIsVisible DEF IInv
<1>6. /\ row \in GenRow /\ row.expected = gens[g].expected /\ row.prior = gens[g].prior
      /\ row.trigger = gens[g].trigger /\ row.copy = gens[g].copy
  BY <1>3, <1>5 DEF GenRow
<1>7. GensFollow /\ CopiesStay
  BY <1>4, <1>6, GenWritten
<1>8. CASE routed
  <2>1. /\ p \in PairRow /\ ~p.hidden /\ p.resume = pair.resume /\ p.workflow = "needs_review"
        /\ p.intent = pair.intent /\ p.submission = pair.submission
    BY <1>2, <1>5 DEF PairRow, Workflows
  <2>2. reviews = {} /\ pair.intent = "interested"
    BY <1>1, <1>8 DEF IInv, TablesAgree, Preparing
  <2>3. /\ reviews' \subseteq Reasons
        /\ pair.submission /= "proven" => reviews' /= {}
        /\ pair.submission = "proven" => reviews' = {}
    BY <1>4, <1>8, <2>2 DEF Reasons, ResumeBlockers
  <2>4. Change(p)
    BY <1>4, <1>8
  <2> QED
    BY <1>4, <1>5, <1>7, <2>1, <2>2, <2>3, <2>4, JobsStay, DecidedStep
<1>9. CASE ~routed
  <2>1. UNCHANGED <<pair, reviews, jobs>>
    BY <1>4, <1>9
  <2>2. \A j \in DOMAIN jobs : ~Running(j, "build")'
    BY <1>4, <2>1 DEF Building, Running
  <2> QED
    BY <1>4, <1>5, <1>7, <2>1, <2>2, JobsStay, QuietStep DEF NoWorkWhenHidden
<1> QED
  BY <1>8, <1>9

\* An attempt starts its one generation, so that there are never more
\* generations than attempts.
LEMMA StartGenerationKeepsIInv ==
  ASSUME IInv, NEW j \in DOMAIN jobs, StartGeneration(j)
  PROVE  IInv'
<1>1. PICK n, new, row :
        /\ n = Len(gens) + 1
        /\ new = [status |-> "active", expected |-> pair.version, trigger |-> jobs[j].trigger,
                  prior |-> pair.resume, late |-> FALSE, copy |-> "none"]
        /\ row = [jobs[j] EXCEPT !.pc = "build", !.gen = n]
  OBVIOUS
<1>2. /\ Running(j, "start") /\ Visible /\ pair.version = jobs[j].expected
      /\ Eligible(jobs[j].trigger)
      /\ gens' = Append(gens, new) /\ jobs' = [jobs EXCEPT ![j] = row]
      /\ UNCHANGED <<pair, roleActive, reviews, rechecks, manifest>>
  BY <1>1 DEF StartGeneration
<1>3. /\ pair \in PairRow /\ pair.version \in Versions /\ pair.version \in Nat
      /\ pair.resume \in {0} \cup GenIds
      /\ jobs \in [1 .. Len(jobs) -> JobRow] /\ DOMAIN jobs = 1 .. Len(jobs) /\ Len(jobs) \in Nat
      /\ Len(jobs) <= MaxJobs /\ jobs[j] \in JobRow
      /\ gens \in Seq(GenRow) /\ DOMAIN gens = 1 .. Len(gens) /\ Len(gens) \in Nat
      /\ Exists /\ ~pair.hidden /\ jobs[j].pc = "start" /\ jobs[j].state = "running"
  BY <1>2, Types, PairFields DEF IInv, Visible, Running
<1>4. new \in GenRow
  BY <1>1, <1>3 DEF GenRow, JobRow, Copies
<1>5. /\ gens' \in Seq(GenRow) /\ Len(gens') = n /\ DOMAIN gens' = 1 .. n /\ gens'[n] = new
      /\ \A g \in DOMAIN gens : gens'[g] = gens[g]
      /\ n \notin DOMAIN gens /\ n \in DOMAIN gens' /\ DOMAIN gens \subseteq DOMAIN gens'
      /\ \A g \in DOMAIN gens' : g = n \/ g \in DOMAIN gens
  <2>1. /\ gens' \in Seq(GenRow) /\ Len(gens') = n /\ DOMAIN gens' = 1 .. n /\ gens'[n] = new
        /\ \A g \in DOMAIN gens : gens'[g] = gens[g]
    <3>1. PICK more : more = Append(gens, new)
      OBVIOUS
    <3>2. /\ more \in Seq(GenRow) /\ Len(more) = Len(gens) + 1 /\ DOMAIN more = 1 .. Len(gens) + 1
          /\ \A g \in DOMAIN gens : more[g] = gens[g]
          /\ more[Len(gens) + 1] = new
      BY <1>3, <1>4, <3>1, AppendIs
    <3>3. gens' = more
      BY <1>2, <3>1
    <3> QED
      BY <1>1, <3>2, <3>3
  <2> QED
    BY <1>1, <1>3, <2>1
<1>6. OnePerAttempt' /\ n <= MaxJobs * MaxAttempts + 1
  <2>1. PICK slot \in [DOMAIN gens -> Slots] :
          /\ \A g, h \in DOMAIN gens : slot[g] = slot[h] => g = h
          /\ \A g \in DOMAIN gens : Used(slot[g])
    BY DEF IInv, OnePerAttempt
  <2>2. PICK own : own = <<j, jobs[j].attempts>>
    OBVIOUS
  <2>3. own \in Attempts /\ own /= <<0, 0>>
    <3>1. j \in 1 .. MaxJobs
      BY <1>3, BoundsAssumption
    <3>2. jobs[j].attempts \in 1 .. MaxAttempts
      <4>1. jobs[j].attempts > 0
        BY <1>3 DEF IInv, JobsKnow
      <4> QED
        BY <1>3, <4>1, BoundsAssumption DEF JobRow
    <3> QED
      BY <2>2, <3>1, <3>2 DEF Attempts
  <2>4. ~Used(own)
    BY <1>3, <2>2, <2>3 DEF Used
  <2>5. row.attempts = jobs[j].attempts /\ row.pc = "build"
    BY <1>1, <1>3 DEF JobRow
  <2>6. /\ DOMAIN jobs' = DOMAIN jobs
        /\ \A i \in DOMAIN jobs : /\ jobs'[i].attempts = jobs[i].attempts
                                  /\ jobs'[i].pc = "start" => jobs[i].pc = "start"
    BY <1>2, <1>3, <2>5
  <2>7. \A s : Used(s) => Used(s)'
    BY <2>6 DEF Used
  <2>8. Used(own)'
    <3>1. own[1] = j /\ own[2] = jobs[j].attempts /\ jobs[j].attempts \in Nat
      BY <1>3, <2>2, BoundsAssumption DEF JobRow
    <3>2. jobs'[j].pc = "build" /\ jobs'[j].attempts = jobs[j].attempts
      BY <1>2, <1>3, <2>5
    <3> QED
      BY <2>6, <3>1, <3>2 DEF Used
  <2>9. PICK next : next = [g \in 1 .. n |-> IF g = n THEN own ELSE slot[g]]
    OBVIOUS
  <2>10. next[n] = own /\ \A g \in DOMAIN gens : next[g] = slot[g]
    BY <1>5, <2>9
  <2>11. next \in [1 .. n -> Slots]
    BY <1>5, <2>3, <2>9 DEF Slots
  <2>12. \A g, h \in 1 .. n : next[g] = next[h] => g = h
    BY <1>5, <2>1, <2>4, <2>10
  <2>13. \A g \in 1 .. n : Used(next[g])'
    BY <1>5, <2>1, <2>7, <2>8, <2>10
  <2>14. n \in Nat
    BY <1>1, <1>3
  <2> QED
    BY <1>5, <2>11, <2>12, <2>13, <2>14, FewGenerations DEF OnePerAttempt
<1>7. n \in GenIds /\ n /= 0
  BY <1>1, <1>3, <1>6, BoundsAssumption DEF GenIds
<1>8. /\ row \in JobRow /\ row.gen = n /\ row.pc = "build" /\ row.state = "running"
      /\ row.expected = pair.version /\ row.asked = jobs[j].asked /\ row.attempts = jobs[j].attempts
  BY <1>1, <1>2, <1>3, <1>7 DEF JobRow
<1>9. /\ jobs' \in Seq(JobRow) /\ Len(jobs') <= MaxJobs /\ DOMAIN jobs' = DOMAIN jobs
      /\ jobs'[j] = row /\ \A i \in DOMAIN jobs : i /= j => jobs'[i] = jobs[i]
  <2>1. jobs' \in [1 .. Len(jobs) -> JobRow]
    BY <1>2, <1>3, <1>8
  <2>2. jobs' \in Seq(JobRow) /\ Len(jobs') = Len(jobs)
    BY <1>3, <2>1, SequenceOf
  <2> QED
    BY <1>2, <1>3, <2>2
<1>10. TypeOK'
  <2>1. /\ roleActive' \in BOOLEAN /\ reviews' \subseteq Reasons /\ rechecks' \subseteq RecheckRow
        /\ manifest' \in [version : Versions, copies : Seq(Copies)] /\ pair' \in PairRow
    BY <1>2, Types DEF IInv
  <2> QED
    BY <1>5, <1>6, <1>9, <2>1, TypesNext
<1>11. JobsKnow'
  <2> SUFFICES ASSUME NEW i \in DOMAIN jobs
               PROVE  /\ jobs'[i].expected <= pair.version
                      /\ jobs'[i].expected = pair.version => jobs'[i].asked = Decision(pair)
                      /\ jobs'[i].gen /= 0 => jobs'[i].gen \in DOMAIN gens'
                                              /\ gens'[jobs'[i].gen].expected = jobs'[i].expected
                      /\ jobs'[i].pc \in {"build", "again", "done", "over"} => jobs'[i].gen /= 0
                      /\ jobs'[i].pc /= "none" => jobs'[i].attempts > 0
    BY <1>2, <1>9 DEF JobsKnow
  <2>1. CASE i = j
    <3>1. jobs[j].asked = Decision(pair) /\ jobs[j].attempts > 0
      BY <1>2, <1>3 DEF IInv, JobsKnow
    <3>2. new.expected = pair.version
      BY <1>1
    <3> QED
      BY <1>3, <1>5, <1>7, <1>8, <1>9, <2>1, <3>1, <3>2
  <2>2. CASE i /= j
    BY <1>5, <1>9, <2>2 DEF IInv, JobsKnow
  <2> QED
    BY <2>1, <2>2
<1>12. OwnGenerations'
  <2>1. \A i \in DOMAIN jobs : i /= j => jobs'[i].gen = jobs[i].gen /\ jobs[i].gen /= n
    BY <1>5, <1>7, <1>9 DEF IInv, JobsKnow
  <2> QED
    BY <1>8, <1>9, <2>1 DEF IInv, OwnGenerations
<1>13. BuildsAreOpen'
  <2> SUFFICES ASSUME NEW i \in DOMAIN jobs, Running(i, "build")', AtExpected(jobs[i].gen)'
               PROVE  gens'[jobs'[i].gen].status = "active"
    BY <1>9 DEF BuildsAreOpen
  <2>1. CASE i = j
    <3>1. new.status = "active"
      BY <1>1
    <3>2. jobs'[i].gen = n
      BY <1>8, <1>9, <2>1
    <3> QED
      BY <1>5, <3>1, <3>2
  <2>2. CASE i /= j
    <3>1. Running(i, "build") /\ jobs'[i] = jobs[i]
      BY <1>9, <2>2 DEF Running
    <3>2. jobs[i].gen \in DOMAIN gens
      BY <3>1, BuildIs
    <3>3. AtExpected(jobs[i].gen)
      BY <1>2, <1>5, <3>1, <3>2 DEF AtExpected
    <3> QED
      BY <1>5, <3>1, <3>2, <3>3 DEF IInv, BuildsAreOpen
  <2> QED
    BY <2>1, <2>2
<1>14. GensKnow'
  <2> SUFFICES ASSUME NEW g \in DOMAIN gens'
               PROVE  /\ gens'[g].expected <= pair.version
                      /\ pair.version = gens'[g].expected =>
                           /\ pair.intent = "interested" /\ gens'[g].prior = pair.resume
                           /\ CASE gens'[g].trigger = "initial" -> Preparing(pair)
                                [] gens'[g].trigger = "regenerate" -> Regeneratable
                                [] gens'[g].trigger = "retry" ->
                                     \/ Preparing(pair)
                                     \/ pair.workflow = "needs_review"
                                        /\ reviews \subseteq ResumeBlockers
    BY <1>2 DEF GensKnow, AtExpected, Regeneratable
  <2>1. CASE g = n
    <3>1. new.expected = pair.version /\ new.prior = pair.resume /\ new.trigger = jobs[j].trigger
      BY <1>1
    <3>2. jobs[j].trigger \in {"initial", "regenerate", "retry"}
      BY <1>3 DEF JobRow, Triggers
    <3>3. pair.intent = "interested"
      BY <1>2, <3>2 DEF Eligible, Regeneratable
    <3>4. /\ gens'[g].expected = pair.version /\ gens'[g].prior = pair.resume
          /\ gens'[g].trigger = jobs[j].trigger
      BY <1>5, <2>1, <3>1
    <3>5. /\ jobs[j].trigger = "initial" => Preparing(pair)
          /\ jobs[j].trigger = "regenerate" => Regeneratable
          /\ jobs[j].trigger = "retry" =>
               Preparing(pair) \/ (pair.workflow = "needs_review" /\ reviews \subseteq ResumeBlockers)
      BY <1>2 DEF Eligible
    <3>6. CASE jobs[j].trigger = "initial"
      BY <1>3, <3>3, <3>4, <3>5, <3>6
    <3>7. CASE jobs[j].trigger = "regenerate"
      BY <1>3, <3>3, <3>4, <3>5, <3>7
    <3>8. CASE jobs[j].trigger = "retry"
      BY <1>3, <3>3, <3>4, <3>5, <3>8
    <3> QED
      BY <3>2, <3>6, <3>7, <3>8
  <2>2. CASE g \in DOMAIN gens
    BY <1>5, <2>2 DEF IInv, GensKnow, AtExpected
  <2> QED
    BY <1>5, <2>1, <2>2
<1>15. NothingBefore' /\ ResumeIsGenerated' /\ ProvenIsCalm'
  BY <1>2, <1>3, <1>5 DEF IInv, NothingBefore, Exists, ResumeIsGenerated, ProvenIsCalm
<1>16. ManifestTells' /\ DeletedCaseIsRestorable'
  BY <1>2, <1>3 DEF ManifestTells, DeletedCaseIsRestorable
<1>17. TablesAgree'
  <2>1. gens'[n].copy = "none"
    BY <1>1, <1>5
  <2>2. HasReadyResume => HasReadyResume'
    BY <1>2, <1>5 DEF IInv, HasReadyResume, ResumeIsGenerated
  <2>3. \A g, h \in DOMAIN gens' :
          gens'[g].copy = "current" /\ gens'[h].copy = "current" => g = h
    BY <1>5, <2>1 DEF IInv, TablesAgree
  <2> QED
    BY <1>2, <2>2, <2>3 DEF IInv, TablesAgree, Exists, Visible
<1> QED
  BY <1>6, <1>10, <1>11, <1>12, <1>13, <1>14, <1>15, <1>16, <1>17 DEF IInv

\* A resume is published: the pair still is what its build was started for.
LEMMA PromoteKeepsIInv ==
  ASSUME IInv, NEW j \in DOMAIN jobs, Promote(j)
  PROVE  IInv'
<1>1. PICK g : g = jobs[j].gen
  OBVIOUS
<1>2. PICK p : p = [pair EXCEPT !.intent = "interested", !.workflow = "interested", !.resume = g]
  OBVIOUS
<1>3. PICK row : row = [jobs[j] EXCEPT !.pc = "done"]
  OBVIOUS
<1>4. /\ Running(j, "build") /\ Visible /\ AtExpected(g) /\ Change(p)
      /\ reviews' = IF gens[g].trigger = "retry" THEN reviews \ ResumeBlockers ELSE reviews
      /\ jobs' = [jobs EXCEPT ![j] = row] /\ UNCHANGED <<roleActive, rechecks, manifest>>
  BY <1>1, <1>2, <1>3 DEF Promote, MayPublish, At
<1>5. /\ g \in DOMAIN gens /\ g /= 0 /\ ~pair.hidden /\ gens[g] \in GenRow /\ jobs[j] \in JobRow
      /\ jobs[j].pc = "build"
  BY <1>1, <1>4, BuildIs DEF Running
<1>6. /\ pair \in PairRow /\ pair.version \in Nat /\ roleActive \in BOOLEAN
      /\ reviews \subseteq Reasons /\ rechecks \subseteq RecheckRow
      /\ manifest \in [version : Versions, copies : Seq(Copies)]
      /\ gens \in [1 .. Len(gens) -> GenRow] /\ DOMAIN gens = 1 .. Len(gens) /\ Len(gens) \in Nat
      /\ Len(gens) <= MaxJobs * MaxAttempts + 1
  BY Types DEF IInv
<1>7. g \in GenIds
  BY <1>5, <1>6, BoundsAssumption DEF GenIds
<1>8. /\ p \in PairRow /\ ~p.hidden /\ p.resume = g /\ p.workflow = "interested"
      /\ p.intent = "interested"
  BY <1>2, <1>5, <1>6, <1>7 DEF PairRow, Intents, Workflows
<1>9. /\ pair' \in PairRow /\ pair'.version = pair.version + 1 /\ ~pair'.hidden
      /\ pair'.resume = g /\ pair'.workflow = "interested" /\ pair'.intent = "interested"
  BY <1>4, <1>8, ChangeIs DEF IInv
<1>10. reviews' = {}
  <2>1. gens[g].trigger \in {"initial", "regenerate", "retry"}
    BY <1>5 DEF GenRow, Triggers
  <2>2. CASE gens[g].trigger = "initial"
    BY <1>4, <1>5, <2>2 DEF IInv, GensKnow, TablesAgree, Preparing
  <2>3. CASE gens[g].trigger = "regenerate"
    <3>1. Regeneratable
      BY <1>4, <1>5, <2>3 DEF IInv, GensKnow
    <3> QED
      BY <1>4, <2>3, <3>1 DEF IInv, Regeneratable, ProvenIsCalm, TablesAgree
  <2>4. CASE gens[g].trigger = "retry"
    BY <1>4, <1>5, <2>4 DEF IInv, GensKnow, TablesAgree, Preparing
  <2> QED
    BY <2>1, <2>2, <2>3, <2>4
<1>11. /\ row \in JobRow /\ row.expected = jobs[j].expected /\ row.asked = jobs[j].asked
       /\ row.gen = jobs[j].gen /\ row.attempts = jobs[j].attempts /\ row.pc = "done"
  BY <1>3, <1>5 DEF JobRow
<1>12. JobsFollow
  <2>1. row.pc \in Busy /\ jobs[j].pc \in Busy /\ row.pc /= "start"
    BY <1>5, <1>11 DEF Busy
  <2> QED
    BY <1>4, <1>11, <2>1, JobWritten
<1>13. DOMAIN gens' = DOMAIN gens
  BY DEF Promote
<1>14. ASSUME NEW h \in DOMAIN gens
       PROVE  /\ gens'[h] \in GenRow /\ gens'[h].expected = gens[h].expected
              /\ gens'[h].prior = gens[h].prior /\ gens'[h].trigger = gens[h].trigger
              /\ gens'[h].copy = "current" <=> h = g
  <2>1. gens[h] \in GenRow
    BY <1>6
  <2>2. CASE h = g
    <3>1. PICK closed : closed = [gens[h] EXCEPT !.status = "succeeded"]
      OBVIOUS
    <3>2. closed \in GenRow /\ closed.expected = gens[h].expected /\ closed.prior = gens[h].prior
          /\ closed.trigger = gens[h].trigger
      BY <2>1, <3>1 DEF GenRow
    <3>3. gens'[h] = [closed EXCEPT !.copy = "current"]
      <4>1. Closed(gens[h], "succeeded") = closed
        BY <3>1 DEF Closed
      <4>2. gens'[h] = [Closed(gens[h], "succeeded") EXCEPT !.copy = "current"]
        BY <1>1, <2>2 DEF Promote
      <4> QED
        BY <4>1, <4>2
    <3> QED
      BY <2>2, <3>2, <3>3 DEF GenRow, Copies
  <2>3. CASE h /= g /\ gens[h].copy = "current"
    <3>1. gens'[h] = [gens[h] EXCEPT !.copy = "superseded"]
      BY <1>1, <2>3 DEF Promote
    <3> QED
      BY <2>1, <2>3, <3>1 DEF GenRow, Copies
  <2>4. CASE h /= g /\ gens[h].copy /= "current"
    <3>1. gens'[h] = gens[h]
      BY <1>1, <2>4 DEF Promote
    <3> QED
      BY <2>1, <2>4, <3>1
  <2> QED
    BY <2>2, <2>3, <2>4
<1>15. gens' \in Seq(GenRow) /\ Len(gens') = Len(gens)
  <2>1. gens' \in [1 .. Len(gens) -> GenRow]
    BY <1>6, <1>13, <1>14 DEF Promote
  <2> QED
    BY <1>6, <2>1, SequenceOf
<1>16. GensFollow
  BY <1>14, <1>15 DEF GensFollow
<1>17. JobsKnow' /\ OwnGenerations' /\ BuildsAreOpen' /\ GensKnow' /\ OnePerAttempt'
  BY <1>9, <1>12, <1>16, KnowledgeKept
<1>18. TypeOK'
  <2>1. jobs' \in Seq(JobRow) /\ Len(jobs') <= MaxJobs /\ reviews' \subseteq Reasons
    BY <1>10, <1>12 DEF JobsFollow
  <2> QED
    BY <1>4, <1>6, <1>9, <1>15, <2>1, TypesNext
<1>19. NothingBefore' /\ ResumeIsGenerated' /\ ProvenIsCalm'
  BY <1>5, <1>6, <1>9, <1>10, <1>13 DEF NothingBefore, Exists, ResumeIsGenerated, ProvenIsCalm
<1>20. ManifestTells' /\ DeletedCaseIsRestorable'
  BY <1>9 DEF ManifestTells, DeletedCaseIsRestorable
<1>21. TablesAgree'
  BY <1>5, <1>9, <1>10, <1>13, <1>14 DEF TablesAgree, HasReadyResume
<1> QED
  BY <1>17, <1>18, <1>19, <1>20, <1>21 DEF IInv

-----------------------------------------------------------------------------
(* The invariant *)

\* A sequence of one row.
LEMMA OneRow ==
  ASSUME NEW S, NEW e \in S
  PROVE  <<e>> \in Seq(S) /\ Len(<<e>>) = 1 /\ DOMAIN <<e>> = 1 .. 1 /\ <<e>>[1] = e
OBVIOUS

\* It holds of a pair that is not there yet, and of both rows an earlier release
\* may have left.
LEMMA InitIInv ==
  ASSUME Init
  PROVE  IInv
<1>1. /\ roleActive \in BOOLEAN /\ reviews = {} /\ rechecks = {} /\ manifest = NoManifest
  BY DEF Init
<1>2. /\ 0 \in Versions /\ 1 \in Versions /\ 2 \in Versions /\ 1 \in GenIds
      /\ MaxJobs * MaxAttempts \in Nat /\ 1 <= MaxJobs /\ 0 <= MaxJobs /\ 0 \in 0 .. MaxAttempts
      /\ 1 <= MaxJobs * MaxAttempts + 1 /\ 0 <= MaxJobs * MaxAttempts + 1
  <2>1. MaxJobs * MaxAttempts \in Nat
    BY BoundsAssumption
  <2> QED
    BY <2>1, BoundsAssumption DEF Versions, GenIds
<1>3. manifest \in [version : Versions, copies : Seq(Copies)]
  BY <1>1, <1>2 DEF NoManifest
<1>4. CASE pair = NoPair /\ jobs = <<>> /\ gens = <<>>
  <2>1. /\ pair \in PairRow /\ pair.version = 0 /\ pair.resume = 0 /\ ~pair.hidden
        /\ pair.submission = "none" /\ pair.workflow = "none"
    BY <1>2, <1>4 DEF NoPair, PairRow, Intents, Workflows
  <2>2. jobs \in Seq(JobRow) /\ Len(jobs) = 0 /\ DOMAIN jobs = {} /\ gens \in Seq(GenRow)
        /\ Len(gens) = 0 /\ DOMAIN gens = {}
    BY <1>4
  <2>3. TypeOK
    BY <1>1, <1>2, <1>3, <2>1, <2>2 DEF TypeOK, PairRow, JobRow, GenRow, RecheckRow
  <2>4. NothingBefore /\ ResumeIsGenerated /\ ProvenIsCalm
    BY <1>1, <1>4, <2>1 DEF NothingBefore, ResumeIsGenerated, ProvenIsCalm
  <2>5. OnePerAttempt
    <3>1. [g \in {} |-> <<0, 0>>] \in [DOMAIN gens -> Slots]
      BY <2>2
    <3> QED
      BY <2>2, <3>1 DEF OnePerAttempt
  <2>6. JobsKnow /\ OwnGenerations /\ BuildsAreOpen /\ GensKnow
    BY <2>2 DEF JobsKnow, OwnGenerations, BuildsAreOpen, GensKnow
  <2>7. ManifestTells /\ TablesAgree /\ DeletedCaseIsRestorable
    BY <1>1, <2>1, <2>2 DEF ManifestTells, TablesAgree, DeletedCaseIsRestorable, Exists, Visible
  <2> QED
    BY <2>3, <2>4, <2>5, <2>6, <2>7 DEF IInv
<1>5. CASE /\ gens = <<PromotedGeneration>>
           /\ \/ pair = RefreshedPair /\ jobs = <<NewJob(RefreshedPair, "retry", 1)>>
              \/ pair = MarkedPair /\ jobs = <<>>
  <2>1. /\ RefreshedPair \in PairRow /\ RefreshedPair.version = 1 /\ RefreshedPair.resume = 1
        /\ ~RefreshedPair.hidden /\ RefreshedPair.submission = "none"
        /\ RefreshedPair.workflow = "preparing_resume"
    <3>1. NoPair \in PairRow /\ NoPair.submission = "none" /\ ~NoPair.hidden
      BY <1>2 DEF NoPair, PairRow, Intents, Workflows
    <3> QED
      BY <1>2, <3>1 DEF RefreshedPair, PairRow, Intents, Workflows
  <2>2. /\ MarkedPair \in PairRow /\ MarkedPair.version = 2 /\ MarkedPair.resume = 1
        /\ ~MarkedPair.hidden /\ MarkedPair.submission = "opened"
        /\ MarkedPair.workflow = "interested"
    BY <1>2, <2>1 DEF MarkedPair, PairRow, Workflows
  <2>3. /\ pair \in PairRow /\ pair.version \in {1, 2} /\ pair.resume = 1 /\ ~pair.hidden
        /\ pair.submission /= "proven" /\ pair.workflow /= "needs_review"
    BY <1>5, <2>1, <2>2
  <2>4. PICK old, job : old = PromotedGeneration /\ job = NewJob(RefreshedPair, "retry", 1)
    OBVIOUS
  <2>5. /\ old \in GenRow /\ old.expected = 0 /\ old.copy = "current" /\ old.status = "succeeded"
    BY <1>2, <2>4 DEF PromotedGeneration, GenRow, Triggers, Copies
  <2>6. /\ job \in JobRow /\ job.gen = 0 /\ job.pc = "none" /\ job.expected = 1
        /\ job.asked = Decision(RefreshedPair)
    BY <1>2, <2>1, <2>4, PairFields DEF NewJob, JobRow, Triggers
  <2>7. gens \in Seq(GenRow) /\ Len(gens) = 1 /\ DOMAIN gens = {1} /\ gens[1] = old
    BY <1>5, <2>4, <2>5, OneRow
  <2>8. /\ jobs \in Seq(JobRow) /\ Len(jobs) \in {0, 1} /\ DOMAIN jobs \subseteq {1}
        /\ \A j \in DOMAIN jobs : jobs[j] = job /\ pair = RefreshedPair
    <3>1. CASE jobs = <<>>
      BY <3>1
    <3>2. CASE jobs = <<job>> /\ pair = RefreshedPair
      BY <2>6, <3>2, OneRow
    <3> QED
      BY <1>5, <2>4, <3>1, <3>2
  <2>9. TypeOK
    BY <1>1, <1>2, <1>3, <2>3, <2>7, <2>8 DEF TypeOK, PairRow, JobRow, GenRow, RecheckRow
  <2>10. NothingBefore /\ ResumeIsGenerated /\ ProvenIsCalm
    BY <2>3, <2>7 DEF NothingBefore, Exists, ResumeIsGenerated, ProvenIsCalm
  <2>11. OnePerAttempt
    <3>1. PICK slot : slot = [g \in {1} |-> <<0, 0>>]
      OBVIOUS
    <3>2. slot \in [DOMAIN gens -> Slots] /\ slot[1] = <<0, 0>>
      BY <2>7, <3>1 DEF Slots
    <3> QED
      BY <2>7, <3>2 DEF OnePerAttempt, Used
  <2>12. JobsKnow
    BY <2>1, <2>6, <2>8 DEF JobsKnow
  <2>13. OwnGenerations /\ BuildsAreOpen
    BY <2>6, <2>8 DEF OwnGenerations, BuildsAreOpen, Running
  <2>14. GensKnow
    <3>1. \A g \in DOMAIN gens : gens[g].expected <= pair.version /\ pair.version /= gens[g].expected
      BY <2>3, <2>5, <2>7
    <3> QED
      BY <3>1 DEF GensKnow, AtExpected
  <2>15. ManifestTells /\ DeletedCaseIsRestorable
    BY <2>3 DEF ManifestTells, DeletedCaseIsRestorable
  <2>16. TablesAgree
    BY <1>1, <2>3, <2>5, <2>7 DEF TablesAgree, HasReadyResume
  <2> QED
    BY <2>9, <2>10, <2>11, <2>12, <2>13, <2>14, <2>15, <2>16 DEF IInv
<1> QED
  BY <1>4, <1>5 DEF Init

\* Every step keeps it.
LEMMA StepKeepsIInv ==
  ASSUME IInv, [Next]_vars
  PROVE  IInv'
<1>1. CASE UNCHANGED vars
  BY <1>1, Types, RoleOnlyKeepsIInv DEF IInv, vars
<1>2. CASE Replies
  BY <1>2, ClassifyKeepsIInv, ClassificationRecoversKeepsIInv, ClassificationFailsKeepsIInv DEF Replies
<1>3. CASE Recruiter
  <2>1. CASE AddCandidate \/ Rearm \/ ResolveReview \/ RetryPreparation \/ Regenerate
    BY <2>1, AddCandidateKeepsIInv, RearmKeepsIInv, ResolveReviewKeepsIInv,
       RetryPreparationKeepsIInv, RegenerateKeepsIInv
  <2>2. CASE Correct
    BY <2>2, ReclassifyKeepsIInv DEF Correct
  <2>3. CASE \E target \in {"resume", "role"} : RequestRecheck(target)
    BY <2>3, RequestRecheckKeepsIInv
  <2>4. CASE OpenSubmit \/ MarkSubmitted \/ UnmarkSubmitted \/ MarkBadFit \/ ClearBadFit
    BY <2>4, MarksKeepIInv
  <2>5. CASE SoftDelete \/ RestoreCase
    BY <2>5, SoftDeleteKeepsIInv, RestoreCaseKeepsIInv
  <2> QED
    BY <1>3, <2>1, <2>2, <2>3, <2>4, <2>5 DEF Recruiter
<1>4. CASE Sources
  BY <1>4, IndexRoleKeepsIInv, RecheckRoleKeepsIInv, RecheckResumeKeepsIInv, DropRecheckKeepsIInv,
     ProveSubmissionKeepsIInv DEF Sources
<1>5. CASE Clock
  BY <1>5, LeaseExpiresKeepsIInv, DeadlinePassesKeepsIInv DEF Clock
<1>6. CASE Worker
  <2>1. CASE Recover
    BY <2>1, RecoverReadyKeepsIInv, RecoverExpiredKeepsIInv DEF Recover
  <2>2. ASSUME NEW j \in DOMAIN jobs, Prepare(j)
        PROVE  IInv'
    <3>1. CASE Conclude(j)
      BY <3>1, PromoteKeepsIInv, AbandonGenerationKeepsIInv, FailRegenerationKeepsIInv,
         FailStaleKeepsIInv, FailInitialGenerationKeepsIInv DEF Conclude
    <3>2. CASE Claim(j) \/ StartGeneration(j) \/ StartFails(j) \/ Requeue(j) \/ EndJob(j)
      BY <3>2, ClaimKeepsIInv, StartGenerationKeepsIInv, StartFailsKeepsIInv, RequeueKeepsIInv,
         EndJobKeepsIInv
    <3> QED
      BY <2>2, <3>1, <3>2 DEF Prepare
  <2> QED
    BY <1>6, <2>1, <2>2 DEF Worker
<1> QED
  BY <1>1, <1>2, <1>3, <1>4, <1>5, <1>6 DEF Next

\* The inductive invariant of the pair: its tables agree, and whatever is under
\* way at its version was asked for with the decisions that hold.
THEOREM Invariant == Spec => []IInv
<1>1. Init => IInv
  BY InitIInv
<1>2. IInv /\ [Next]_vars => IInv'
  BY StepKeepsIInv
<1> QED
  BY <1>1, <1>2, PTL DEF Spec

\* The rows of the tables keep their types, for any number of jobs and attempts:
\* the generations never outnumber the attempts.
THEOREM TypeCorrect == Spec => []TypeOK
<1>1. IInv => TypeOK
  BY DEF IInv
<1> QED
  BY <1>1, Invariant, PTL

\* The deferred constraints of the database never have to refuse a commit.
THEOREM TablesAgreeHolds == Spec => []TablesAgree
<1>1. IInv => TablesAgree
  BY DEF IInv
<1> QED
  BY <1>1, Invariant, PTL

\* A deleted case can be given back during its whole recovery window.
THEOREM DeletedCaseIsRestorableHolds == Spec => []DeletedCaseIsRestorable
<1>1. IInv => DeletedCaseIsRestorable
  BY DEF IInv
<1> QED
  BY <1>1, Invariant, PTL

-----------------------------------------------------------------------------
(* What a step may do to the pair *)

\* What was proven stays so, and a resume that is shown stays shown.
ProofStays ==
  pair.submission = "proven" =>
    pair'.submission = "proven" /\ (pair.workflow = "interested" => pair'.workflow = "interested")

\* No resume is published and what is proven stays.
NothingPublished == pair'.resume = pair.resume /\ ProofStays

\* A changed row does so when its new row does.
LEMMA ChangedRow ==
  ASSUME IInv, NEW p \in PairRow, Change(p), p.resume = pair.resume,
         pair.submission = "proven" =>
           p.submission = "proven" /\ (pair.workflow = "interested" => p.workflow = "interested")
  PROVE  NothingPublished
BY ChangeIs DEF IInv, NothingPublished, ProofStays

\* So does a row that stays.
LEMMA SamePair ==
  ASSUME UNCHANGED pair
  PROVE  NothingPublished
BY DEF NothingPublished, ProofStays

\* Replies make a pair, or settle one whose submission is not proven.
LEMMA RepliesPublishNothing ==
  ASSUME IInv, Replies
  PROVE  NothingPublished
<1>1. ASSUME NEW label \in Destinations, NEW reason \in {"reply_unclear", "role_unclear"},
             Classify(label, reason)
      PROVE  NothingPublished
  BY <1>1, LabelledIs, NewPair, ChangedRow DEF Classify
<1>2. ASSUME NEW label \in Destinations, NEW reason \in {"reply_unclear", "role_unclear"},
             ClassificationRecovers(label, reason)
      PROVE  NothingPublished
  <2>1. pair.submission /= "proven"
    BY <1>2 DEF ClassificationRecovers, IInv, ProvenIsCalm, ResumeBlockers
  <2> QED
    BY <1>2, <2>1, LabelledIs, ChangedRow DEF ClassificationRecovers
<1>3. CASE ClassificationFails
  <2>1. PICK p : p = [pair EXCEPT !.intent = "unclear", !.workflow = "needs_review"]
    OBVIOUS
  <2>2. ~Exists /\ Change(p)
    BY <1>3, <2>1 DEF ClassificationFails
  <2>3. p \in PairRow /\ p.resume = pair.resume /\ pair.submission = "none"
    BY <2>1, <2>2, NewPair DEF PairRow, Intents, Workflows
  <2> QED
    BY <2>2, <2>3, ChangedRow
<1> QED
  BY <1>1, <1>2, <1>3 DEF Replies

\* Recruiters ask for resumes and publish none.
LEMMA ReclassifyPublishesNothing ==
  ASSUME IInv, NEW destination \in Destinations, Reclassify(destination)
  PROVE  NothingPublished
<1>1. pair \in PairRow
  BY Types DEF IInv
<1>2. pair.submission /= "proven"
  BY DEF Reclassify, Correctable
<1>3. CASE destination = "interested"
  <2>1. PICK q : q = [pair EXCEPT !.intent = "interested"]
    OBVIOUS
  <2>2. q \in PairRow /\ q.resume = pair.resume
    BY <1>1, <2>1 DEF PairRow, Intents
  <2>3. Change(Prepared(q))
    BY <1>3, <2>1 DEF Reclassify
  <2> QED
    BY <1>2, <2>2, <2>3, PreparedIs, ChangedRow
<1>4. CASE destination /= "interested"
  <2>1. PICK p : p = [pair EXCEPT !.workflow = destination,
                        !.intent = IF destination = "needs_review" THEN "unclear" ELSE destination]
    OBVIOUS
  <2>2. p \in PairRow /\ p.resume = pair.resume
    BY <1>1, <1>4, <2>1 DEF PairRow, Intents, Workflows, Destinations
  <2>3. Change(p)
    BY <1>4, <2>1 DEF Reclassify
  <2> QED
    BY <1>2, <2>2, <2>3, ChangedRow
<1> QED
  BY <1>3, <1>4

\* What a recruiter asks for is published by a build, never by the command.
LEMMA RecruiterPublishesNothing ==
  ASSUME IInv, Recruiter
  PROVE  NothingPublished
<1>1. pair \in PairRow
  BY Types DEF IInv
<1>2. CASE AddCandidate
  <2>1. PICK p : p = [pair EXCEPT !.intent = "interested", !.workflow = "preparing_resume",
                                  !.role = "active"]
    OBVIOUS
  <2>2. ~Exists /\ Change(p)
    BY <1>2, <2>1 DEF AddCandidate
  <2>3. p \in PairRow /\ p.resume = pair.resume /\ pair.submission = "none"
    BY <2>1, <2>2, NewPair DEF PairRow, Intents, Workflows
  <2> QED
    BY <2>2, <2>3, ChangedRow
<1>3. CASE Rearm
  <2>1. PICK p : p = [pair EXCEPT !.intent = "interested", !.workflow = "preparing_resume"]
    OBVIOUS
  <2>2. Change(p) /\ Visible /\ ~HasReadyResume
    BY <1>3, <2>1 DEF Rearm, MayRearm, Visible
  <2>3. p \in PairRow /\ p.resume = pair.resume /\ p.submission = pair.submission
    BY <1>1, <2>1 DEF PairRow, Intents, Workflows
  <2>4. pair.workflow /= "interested"
    BY <2>2 DEF IInv, TablesAgree
  <2> QED
    BY <2>2, <2>3, <2>4, ChangedRow
<1>4. CASE Correct \/ ResolveReview
  BY <1>4, ReclassifyPublishesNothing DEF Correct, ResolveReview, Destinations
<1>5. CASE RetryPreparation \/ Regenerate \/ \E target \in {"resume", "role"} : RequestRecheck(target)
  BY <1>5, SamePair DEF RetryPreparation, Regenerate, RequestRecheck
<1>6. CASE OpenSubmit
  <2> PICK p : p = [pair EXCEPT !.submission = "opened"]
    OBVIOUS
  <2> QED
    BY <1>1, <1>6, ChangedRow DEF OpenSubmit, Mark, PairRow
<1>7. CASE MarkSubmitted
  <2> PICK p : p = [pair EXCEPT !.submission = "opened", !.marked = TRUE]
    OBVIOUS
  <2> QED
    BY <1>1, <1>7, ChangedRow DEF MarkSubmitted, Mark, PairRow
<1>8. CASE UnmarkSubmitted
  <2> PICK p : p = [pair EXCEPT !.marked = FALSE]
    OBVIOUS
  <2> QED
    BY <1>1, <1>8, ChangedRow DEF UnmarkSubmitted, Mark, PairRow
<1>9. CASE MarkBadFit
  <2> PICK p : p = [pair EXCEPT !.badFit = TRUE]
    OBVIOUS
  <2> QED
    BY <1>1, <1>9, ChangedRow DEF MarkBadFit, Mark, PairRow
<1>10. CASE ClearBadFit
  <2> PICK p : p = [pair EXCEPT !.badFit = FALSE]
    OBVIOUS
  <2> QED
    BY <1>1, <1>10, ChangedRow DEF ClearBadFit, Mark, PairRow
<1>11. CASE SoftDelete
  <2> PICK p : p = [pair EXCEPT !.hidden = TRUE]
    OBVIOUS
  <2> QED
    BY <1>1, <1>11, ChangedRow DEF SoftDelete, PairRow
<1>12. CASE RestoreCase
  <2> PICK p : p = [pair EXCEPT !.hidden = FALSE]
    OBVIOUS
  <2> QED
    BY <1>1, <1>12, ChangedRow DEF RestoreCase, PairRow
<1> QED
  BY <1>2, <1>3, <1>4, <1>5, <1>6, <1>7, <1>8, <1>9, <1>10, <1>11, <1>12 DEF Recruiter

\* Neither do the role index, the rechecks and the proofs.
LEMMA SourcesPublishNothing ==
  ASSUME IInv, Sources
  PROVE  NothingPublished
<1>1. pair \in PairRow
  BY Types DEF IInv
<1>2. ASSUME NEW active \in BOOLEAN, IndexRole(active)
      PROVE  NothingPublished
  <2>1. PICK role : role = IF active THEN "active" ELSE "unavailable"
    OBVIOUS
  <2>2. PICK told : told = [pair EXCEPT !.role = role]
    OBVIOUS
  <2>3. PICK away : away = [told EXCEPT !.workflow = "needs_review"]
    OBVIOUS
  <2>4. /\ told \in PairRow /\ told.resume = pair.resume /\ told.submission = pair.submission
        /\ told.workflow = pair.workflow
    BY <2>1, <2>2, ToldIs
  <2>5. away \in PairRow /\ away.resume = pair.resume
    BY <2>3, <2>4 DEF PairRow, Workflows
  <2>6. \/ UNCHANGED pair
        \/ pair.submission /= "proven" /\ (Change(away) \/ Change(Prepared(told)))
        \/ Change(told)
    BY <1>2, <2>1, <2>2, <2>3 DEF IndexRole
  <2> QED
    BY <2>4, <2>5, <2>6, PreparedIs, ChangedRow, SamePair
<1>3. ASSUME NEW r \in rechecks, NEW active \in BOOLEAN, RecheckRole(r, active)
      PROVE  NothingPublished
  <2>1. PICK role : role = IF active THEN "active" ELSE "unavailable"
    OBVIOUS
  <2>2. PICK told : told = [pair EXCEPT !.role = role]
    OBVIOUS
  <2>3. /\ told \in PairRow /\ told.resume = pair.resume /\ told.submission = pair.submission
        /\ told.workflow = pair.workflow
    BY <2>1, <2>2, ToldIs
  <2>4. pair.workflow = "needs_review" /\ (Change(Prepared(told)) \/ Change(told))
    BY <1>3, <2>1, <2>2 DEF RecheckRole
  <2> QED
    BY <2>3, <2>4, PreparedIs, ChangedRow
<1>4. ASSUME NEW r \in rechecks, RecheckResume(r) \/ DropRecheck(r)
      PROVE  NothingPublished
  <2>1. PICK p : p = [pair EXCEPT !.intent = "interested", !.workflow = "preparing_resume"]
    OBVIOUS
  <2>2. p \in PairRow /\ p.resume = pair.resume /\ p.submission = pair.submission
    BY <1>1, <2>1 DEF PairRow, Intents, Workflows
  <2>3. UNCHANGED pair \/ (pair.workflow = "needs_review" /\ Change(p))
    BY <1>4, <2>1 DEF RecheckResume, DropRecheck
  <2> QED
    BY <2>2, <2>3, ChangedRow, SamePair
<1>5. CASE ProveSubmission
  <2>1. PICK p : p = [pair EXCEPT !.submission = "proven"]
    OBVIOUS
  <2>2. pair.submission /= "proven" /\ (pair' = p \/ Change(p))
    BY <1>5, <2>1 DEF ProveSubmission
  <2>3. p \in PairRow /\ p.resume = pair.resume
    BY <1>1, <2>1 DEF PairRow
  <2>4. CASE pair' = p
    BY <2>2, <2>3, <2>4 DEF NothingPublished, ProofStays
  <2> QED
    BY <2>2, <2>3, <2>4, ChangedRow
<1> QED
  BY <1>2, <1>3, <1>4, <1>5 DEF Sources

\* What a worker may do to the pair.
WorkerMayOnly ==
  /\ pair'.intent = pair.intent /\ pair'.submission = pair.submission
  /\ pair' = pair \/ pair.workflow \in {"preparing_resume", "interested", "needs_review"}
  /\ ProofStays

\* A build of the current version is of a pair that is interested and waits.
LEMMA BuildOfNow ==
  ASSUME IInv, NEW j \in DOMAIN jobs, Running(j, "build"), AtExpected(jobs[j].gen)
  PROVE  /\ pair.intent = "interested" /\ gens[jobs[j].gen].prior = pair.resume
         /\ pair.workflow \in {"preparing_resume", "interested", "needs_review"}
         /\ gens[jobs[j].gen].trigger /= "regenerate" => pair.workflow /= "interested"
         /\ gens[jobs[j].gen].status = "active" /\ jobs[j].asked = Decision(pair)
<1>1. PICK g : g = jobs[j].gen
  OBVIOUS
<1>2. g \in DOMAIN gens /\ gens[g] \in GenRow /\ gens[g].expected = jobs[j].expected
  BY <1>1, BuildIs
<1>3. gens[g].trigger \in {"initial", "regenerate", "retry"}
  BY <1>2 DEF GenRow, Triggers
<1>4. /\ pair.intent = "interested" /\ gens[g].prior = pair.resume
      /\ CASE gens[g].trigger = "initial" -> Preparing(pair)
           [] gens[g].trigger = "regenerate" -> Regeneratable
           [] gens[g].trigger = "retry" ->
                \/ Preparing(pair)
                \/ pair.workflow = "needs_review" /\ reviews \subseteq ResumeBlockers
  BY <1>1, <1>2 DEF IInv, GensKnow
<1>5. /\ gens[g].trigger = "initial" => pair.workflow = "preparing_resume"
      /\ gens[g].trigger = "regenerate" => pair.workflow \in {"interested", "needs_review"}
      /\ gens[g].trigger = "retry" => pair.workflow \in {"preparing_resume", "needs_review"}
  <2>1. CASE gens[g].trigger = "initial"
    BY <1>4, <2>1 DEF Preparing
  <2>2. CASE gens[g].trigger = "regenerate"
    BY <1>4, <2>2 DEF Regeneratable
  <2>3. CASE gens[g].trigger = "retry"
    BY <1>4, <2>3 DEF Preparing
  <2> QED
    BY <1>3, <2>1, <2>2, <2>3
<1>6. gens[g].status = "active" /\ jobs[j].asked = Decision(pair)
  BY <1>1, <1>2 DEF IInv, BuildsAreOpen, JobsKnow, AtExpected
<1> QED
  BY <1>1, <1>3, <1>4, <1>5, <1>6

\* Workers move a pair that waits for them, and publish in one action alone.
LEMMA WorkerMoves ==
  ASSUME IInv, Worker
  PROVE  /\ WorkerMayOnly
         /\ pair'.resume /= pair.resume => \E j \in DOMAIN jobs : Promote(j)
<1>1. pair \in PairRow
  BY Types DEF IInv
<1>2. CASE UNCHANGED pair
  BY <1>2 DEF WorkerMayOnly, ProofStays
<1>3. CASE RecoverReady
  <2>1. PICK p : p = [pair EXCEPT !.workflow = "interested"]
    OBVIOUS
  <2>2. Change(p) /\ pair.workflow = "preparing_resume"
    BY <1>3, <2>1 DEF RecoverReady, Preparing
  <2>3. /\ p \in PairRow /\ p.intent = pair.intent /\ p.submission = pair.submission
        /\ p.resume = pair.resume
    BY <1>1, <2>1 DEF PairRow, Workflows
  <2> QED
    BY <2>2, <2>3, ChangeIs DEF IInv, WorkerMayOnly, ProofStays
<1>4. ASSUME NEW g \in DOMAIN gens, RecoverExpired(g), pair' /= pair
      PROVE  WorkerMayOnly /\ pair'.resume = pair.resume
  <2>1. PICK p : p = [pair EXCEPT !.workflow = "needs_review"]
    OBVIOUS
  <2>2. Change(p) /\ pair.workflow = "preparing_resume"
    BY <1>4, <2>1 DEF RecoverExpired, Preparing
  <2>3. /\ p \in PairRow /\ p.intent = pair.intent /\ p.submission = pair.submission
        /\ p.resume = pair.resume
    BY <1>1, <2>1 DEF PairRow, Workflows
  <2> QED
    BY <2>2, <2>3, ChangeIs DEF IInv, WorkerMayOnly, ProofStays
<1>5. ASSUME NEW j \in DOMAIN jobs, NEW reason \in ResumeBlockers, FailInitialGeneration(j, reason)
      PROVE  WorkerMayOnly /\ pair'.resume = pair.resume
  <2>1. PICK p : p = [pair EXCEPT !.intent = "interested", !.workflow = "needs_review"]
    OBVIOUS
  <2>2. /\ Running(j, "build") /\ AtExpected(jobs[j].gen) /\ ~FallsBack(jobs[j].gen) /\ Change(p)
    BY <1>5, <2>1 DEF FailInitialGeneration
  <2>3. /\ p \in PairRow /\ p.intent = "interested" /\ p.submission = pair.submission
        /\ p.resume = pair.resume
    BY <1>1, <2>1 DEF PairRow, Workflows, Intents
  <2>4. /\ pair.intent = "interested" /\ pair.workflow /= "interested"
        /\ pair.workflow \in {"preparing_resume", "interested", "needs_review"}
    BY <2>2, BuildOfNow DEF FallsBack
  <2> QED
    BY <2>2, <2>3, <2>4, ChangeIs DEF IInv, WorkerMayOnly, ProofStays
<1>6. ASSUME NEW j \in DOMAIN jobs, Promote(j)
      PROVE  WorkerMayOnly
  <2>1. PICK p : p = [pair EXCEPT !.intent = "interested", !.workflow = "interested",
                                  !.resume = jobs[j].gen]
    OBVIOUS
  <2>2. Running(j, "build") /\ AtExpected(jobs[j].gen) /\ Change(p)
    BY <1>6, <2>1 DEF Promote, MayPublish
  <2>3. jobs[j].gen \in GenIds
    BY <2>2, BuildIs, Types, BoundsAssumption DEF IInv, GenIds, JobRow
  <2>4. /\ p \in PairRow /\ p.intent = "interested" /\ p.submission = pair.submission
        /\ p.workflow = "interested"
    BY <1>1, <2>1, <2>3 DEF PairRow, Workflows, Intents
  <2>5. /\ pair.intent = "interested"
        /\ pair.workflow \in {"preparing_resume", "interested", "needs_review"}
    BY <2>2, BuildOfNow
  <2> QED
    BY <2>2, <2>4, <2>5, ChangeIs DEF IInv, WorkerMayOnly, ProofStays
<1>7. ASSUME NEW j \in DOMAIN jobs, Prepare(j)
      PROVE  \/ UNCHANGED pair \/ Promote(j)
             \/ \E reason \in ResumeBlockers : FailInitialGeneration(j, reason)
  BY <1>7 DEF Prepare, Claim, StartGeneration, StartFails, Conclude, Requeue, EndJob,
     AbandonGeneration, FailRegeneration, FailStale
<1> QED
  BY <1>2, <1>3, <1>4, <1>5, <1>6, <1>7 DEF Worker, Recover

\* Every step, then, keeps what is proven, and publishes in one action alone.
LEMMA StepsOfPair ==
  ASSUME IInv, [Next]_vars
  PROVE  ProofStays /\ (pair'.resume /= pair.resume => \E j \in DOMAIN jobs : Promote(j))
<1>1. CASE UNCHANGED vars \/ Clock
  BY <1>1, SamePair DEF vars, Clock, LeaseExpires, DeadlinePasses, NothingPublished
<1>2. CASE Replies \/ Recruiter \/ Sources
  BY <1>2, RepliesPublishNothing, RecruiterPublishesNothing, SourcesPublishNothing DEF NothingPublished
<1>3. CASE Worker
  BY <1>3, WorkerMoves DEF WorkerMayOnly
<1> QED
  BY <1>1, <1>2, <1>3 DEF Next

\* A resume is published by a live build of an open generation, and nobody took
\* a decision about the pair since its preparation was asked for.
THEOREM PublishesWhatWasAskedHolds == Spec => PublishesWhatWasAsked
<1>1. ASSUME IInv, [Next]_vars, NEW j \in DOMAIN jobs, pair'.resume /= pair.resume,
             jobs[j].gen = pair'.resume
      PROVE  gens[jobs[j].gen].status = "active" /\ Decision(pair) = jobs[j].asked
  <2>1. PICK i \in DOMAIN jobs : Promote(i)
    BY <1>1, StepsOfPair
  <2>2. PICK p : p = [pair EXCEPT !.intent = "interested", !.workflow = "interested",
                                  !.resume = jobs[i].gen]
    OBVIOUS
  <2>3. Running(i, "build") /\ AtExpected(jobs[i].gen) /\ Change(p)
    BY <2>1, <2>2 DEF Promote, MayPublish
  <2>4. pair'.resume = jobs[i].gen
    <3>1. pair \in PairRow
      BY <1>1, Types DEF IInv
    <3> QED
      BY <2>2, <2>3, <3>1 DEF Change, PairRow
  <2>5. jobs[i].gen /= 0
    BY <1>1, <2>3, BuildIs
  <2>6. i = j
    BY <1>1, <2>4, <2>5 DEF IInv, OwnGenerations
  <2> QED
    BY <1>1, <2>3, <2>6, BuildOfNow
<1>2. IInv /\ [Next]_vars =>
        [\A j \in DOMAIN jobs :
           pair'.resume /= pair.resume /\ jobs[j].gen = pair'.resume =>
             /\ gens[jobs[j].gen].status = "active"
             /\ Decision(pair) = jobs[j].asked]_vars
  BY <1>1
<1> QED
  BY <1>2, Invariant, PTL DEF Spec, PublishesWhatWasAsked

\* What workers do by themselves never changes what the candidate or a recruiter
\* said.
THEOREM WorkersDecideNothingHolds == Spec => WorkersDecideNothing
<1>1. IInv /\ [Next]_vars =>
        [Worker => /\ pair'.intent = pair.intent
                   /\ pair'.submission = pair.submission
                   /\ \/ pair' = pair
                      \/ pair.workflow \in {"preparing_resume", "interested", "needs_review"}]_vars
  BY WorkerMoves DEF WorkerMayOnly
<1> QED
  BY <1>1, Invariant, PTL DEF Spec, WorkersDecideNothing

\* A proven submission stays proven, and its pair moves only along the lifecycle
\* a resume may still go through.
THEOREM ProvenStaysProvenHolds == Spec => ProvenStaysProven
<1>1. IInv /\ [Next]_vars =>
        [pair.submission = "proven" =>
           /\ pair'.submission = "proven"
           /\ pair'.intent /= "not_interested"
           /\ pair.workflow = "interested" => pair'.workflow = "interested"]_vars
  <2> SUFFICES ASSUME IInv, [Next]_vars, pair.submission = "proven"
               PROVE  /\ pair'.submission = "proven"
                      /\ pair'.intent /= "not_interested"
                      /\ pair.workflow = "interested" => pair'.workflow = "interested"
    OBVIOUS
  <2>1. ProofStays
    BY StepsOfPair
  <2>2. ProvenIsCalm'
    BY StepKeepsIInv DEF IInv
  <2> QED
    BY <2>1, <2>2 DEF ProofStays, ProvenIsCalm
<1> QED
  BY <1>1, Invariant, PTL DEF Spec, ProvenStaysProven
=============================================================================
