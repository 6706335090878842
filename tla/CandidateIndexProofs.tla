------------------------ MODULE CandidateIndexProofs ------------------------
(***************************************************************************)
(* What the candidate index promises, for every finite set of candidates,  *)
(* every number of workers, changes and faults: PurgedStaysOut and         *)
(* SteadyStayActive.  The invariant says who of the steady is still to be  *)
(* met, from the checkpoint and from every step of the worker that leased  *)
(* the cursor last; who runs without a lease may hold anything.            *)
(***************************************************************************)
EXTENDS CandidateIndex, FiniteSetTheorems, SequenceTheorems, TLAPS

\* What the cycle named c needs to know of p to keep him: he has its stamp, or
\* nobody may list him.
Copied(p, c) == p \in suppressed \/ row[p] = c

\* He stands behind the first n, which were read.
Ahead(p, n) == \E i \in DOMAIN list : list[i] = p /\ i > n

\* An open upsert knows whether its candidate is suppressed: nobody purges him
\* while it has his lock.
OpenUpsertKnows ==
  \A w \in Workers : Holding(w) => (worker[w].skip <=> worker[w].page \in suppressed)

\* Whoever continues the checkpoint will still come to everybody steady.
CheckpointOnCourse ==
  cursor.cycle /= NoCycle => \A p \in steady : Copied(p, cursor.cycle) \/ Ahead(p, cursor.at)

\* So will the worker whose cycle this is, at each of its steps.
Expects(w, p) ==
  LET e == worker[w] IN
  \/ Copied(p, e.cycle)
  \/ e.pc = "read" /\ Ahead(p, e.at)
  \/ e.pc \in {"upsert", "write"} /\ (p = e.page \/ (e.next /= 0 /\ Ahead(p, e.next)))
  \/ e.pc = "commit" /\ (e.at = 0 \/ Ahead(p, e.at))
  \/ e.pc = "complete"

\* The worker that leased the cursor last is in the cycle of the checkpoint, or
\* in one that has none yet.
OnCourse(w) ==
  cursor.owner = w /\ worker[w] /= Idle =>
    /\ cursor.cycle \in {NoCycle, worker[w].cycle}
    /\ worker[w].pc = "finalize" => worker[w].at = 0
    /\ \A p \in steady : Expects(w, p)

WorkersOnCourse == \A w \in Workers : OnCourse(w)

IInv ==
  /\ TypeOK
  /\ OpenUpsertKnows
  /\ PurgedStaysOut
  /\ CheckpointOnCourse
  /\ WorkersOnCourse
-----------------------------------------------------------------------------
(* Lists *)

\* What a list is: a sequence of people, nobody twice.
LEMMA ListIsSequence ==
  ASSUME list \in Lists
  PROVE  list \in Seq(People) /\ IsInjective(list) /\ Len(list) \in Offsets
<1>1. PICK n \in Offsets : list \in [1 .. n -> People] /\ IsInjective(list)
  BY DEF Lists
<1>2. IsFiniteSet(People) /\ Cardinality(People) \in Nat
  BY PeopleAssumption, FS_CardinalityType
<1>3. n \in Nat
  BY <1>2 DEF Offsets
<1> QED BY <1>1, <1>3

\* Nobody is listed twice, so that a list is no longer than there are people.
LEMMA SequenceIsList ==
  ASSUME NEW s \in Seq(People), IsInjective(s)
  PROVE  s \in Lists
<1>1. s \in Injection(1 .. Len(s), People) /\ Len(s) \in Nat
  BY DEF Injection
<1>2. Cardinality(1 .. Len(s)) <= Cardinality(People)
  BY <1>1, FS_Injection, PeopleAssumption
<1>3. Cardinality(1 .. Len(s)) = Len(s)
  <2>1. Cardinality(1 .. Len(s)) = IF 1 > Len(s) THEN 0 ELSE Len(s) - 1 + 1
    BY <1>1, FS_Interval
  <2> QED BY <1>1, <2>1
<1>4. Len(s) \in Offsets
  BY <1>1, <1>2, <1>3, PeopleAssumption, FS_CardinalityType DEF Offsets
<1> QED BY <1>1, <1>4 DEF Lists, Injection

\* The list without one of its people: the others stay in their order.
LEMMA WithoutOne ==
  ASSUME NEW s \in Seq(People), NEW k \in DOMAIN s
  PROVE  /\ RemoveAt(s, k) \in Seq(People) /\ Len(RemoveAt(s, k)) = Len(s) - 1
         /\ \A i \in 1 .. Len(s) - 1 : RemoveAt(s, k)[i] = IF i < k THEN s[i] ELSE s[i + 1]
<1> DEFINE a == SubSeq(s, 1, k - 1)
           b == SubSeq(s, k + 1, Len(s))
<1>1. k \in 1 .. Len(s) /\ Len(s) \in Nat /\ \A i \in 1 .. Len(s) : s[i] \in People
  OBVIOUS
<1>2. a \in Seq(People) /\ Len(a) = k - 1 /\ \A i \in 1 .. k - 1 : a[i] = s[i]
  <2>1. \A i \in 1 .. k - 1 : s[i] \in People
    BY <1>1
  <2> QED BY <1>1, <2>1, SubSeqProperties
<1>3. b \in Seq(People) /\ Len(b) = Len(s) - k /\ \A i \in 1 .. Len(s) - k : b[i] = s[k + i]
  <2>1. \A i \in k + 1 .. Len(s) : s[i] \in People
    BY <1>1
  <2>2. k + 1 \in Int /\ Len(s) \in Int
    BY <1>1
  <2>3. /\ b \in Seq(People) /\ Len(b) = IF k + 1 <= Len(s) THEN Len(s) - (k + 1) + 1 ELSE 0
        /\ \A i \in 1 .. Len(s) - (k + 1) + 1 : b[i] = s[(k + 1) + i - 1]
    BY <2>1, <2>2, SubSeqProperties
  <2> QED BY <2>3, <1>1
<1> HIDE DEF a, b
<1> DEFINE c == a \o b
<1>4. /\ c \in Seq(People) /\ Len(c) = Len(a) + Len(b)
      /\ \A i \in 1 .. Len(a) + Len(b) : c[i] = IF i <= Len(a) THEN a[i] ELSE b[i - Len(a)]
  BY <1>2, <1>3, ConcatProperties
<1>5. RemoveAt(s, k) = c
  BY DEF RemoveAt, a, b
<1> HIDE DEF c
<1>6. Len(a) + Len(b) = Len(s) - 1
  BY <1>1, <1>2, <1>3
<1>7. ASSUME NEW i \in 1 .. Len(s) - 1
      PROVE  c[i] = IF i < k THEN s[i] ELSE s[i + 1]
  <2>0. c[i] = IF i <= k - 1 THEN a[i] ELSE b[i - (k - 1)]
    <3>1. i \in 1 .. Len(a) + Len(b) /\ Len(a) = k - 1
      BY <1>2, <1>6
    <3> QED BY <1>4, <3>1
  <2>1. CASE i < k
    <3>1. i \in 1 .. k - 1 /\ i <= k - 1
      BY <1>1, <2>1
    <3> QED BY <1>2, <2>0, <2>1, <3>1
  <2>2. CASE ~(i < k)
    <3>1. i - (k - 1) \in 1 .. Len(s) - k /\ k + (i - (k - 1)) = i + 1 /\ ~(i <= k - 1)
      BY <1>1, <2>2
    <3>2. b[i - (k - 1)] = s[i + 1]
      BY <1>3, <3>1
    <3> QED BY <2>0, <2>2, <3>1, <3>2
  <2> QED BY <2>1, <2>2
<1> QED BY <1>4, <1>5, <1>6, <1>7
-----------------------------------------------------------------------------
(* Types *)

\* TypeOK of the next state, from its conjuncts.
LEMMA TypesNext ==
  ASSUME list' \in Lists,
         row' \in [People -> Cycles \cup {Absent, Inactive, Earlier}],
         suppressed' \subseteq Deleted,
         cursor' \in [cycle : Cycles \cup {NoCycle}, at : Offsets, owner : Workers \cup {Nobody}, live : BOOLEAN],
         cursor'.cycle = NoCycle <=> cursor'.at = 0,
         queue' \subseteq Jobs,
         worker' \in [Workers -> {Idle} \cup Executions],
         \A w \in Workers : worker'[w].pc = "write" => cursor'.owner = w,
         changes' \in 0 .. MaxChanges, faults' \in 0 .. MaxFaults,
         steady' \subseteq Listed'
  PROVE  TypeOK'
BY DEF TypeOK, Holding

\* Offsets are numbers.
LEMMA OffsetsAreNumbers == 0 \in Offsets /\ Offsets \subseteq Nat
BY PeopleAssumption, FS_CardinalityType DEF Offsets

\* Setting fields of an execution leaves an execution with the other fields.
LEMMA SetPc ==
  ASSUME NEW e \in Executions,
         NEW pc \in {"read", "upsert", "write", "finalize", "commit", "complete"}
  PROVE  LET r == [e EXCEPT !.pc = pc]
         IN /\ r \in Executions /\ r.pc = pc /\ r.own = e.own /\ r.job = e.job
            /\ r.cycle = e.cycle /\ r.at = e.at /\ r.page = e.page /\ r.next = e.next /\ r.skip = e.skip
BY DEF Executions

\* Losing the job leaves an execution as it was.
LEMMA SetOwn ==
  ASSUME NEW e \in Executions
  PROVE  LET r == [e EXCEPT !.own = FALSE]
         IN /\ r \in Executions /\ r.pc = e.pc /\ r.job = e.job
            /\ r.cycle = e.cycle /\ r.at = e.at /\ r.page = e.page /\ r.next = e.next /\ r.skip = e.skip
BY DEF Executions

\* Opening the upsert leaves an execution on its page.
LEMMA SetSkip ==
  ASSUME NEW e \in Executions, NEW skip \in BOOLEAN
  PROVE  LET r == [e EXCEPT !.pc = "write", !.skip = skip]
         IN /\ r \in Executions /\ r.pc = "write" /\ (r.skip <=> skip) /\ r.job = e.job
            /\ r.cycle = e.cycle /\ r.at = e.at /\ r.page = e.page /\ r.next = e.next
BY DEF Executions

\* Who is at some step of the handler has an execution, and Idle is none.
LEMMA Executing ==
  ASSUME TypeOK, NEW w \in Workers
  PROVE  /\ worker[w].pc /= "idle" => worker[w] \in Executions
         /\ worker[w].own => worker[w] \in Executions
         /\ worker[w] /= Idle => worker[w] \in Executions
         /\ worker[w] \in Executions =>
              worker[w].pc \in {"read", "upsert", "write", "finalize", "commit", "complete"} /\ worker[w] /= Idle
         /\ Idle.pc = "idle" /\ ~Idle.own
BY DEF TypeOK, Idle, Executions

\* One worker's state changes, the others' do not.
LEMMA Becomes ==
  ASSUME TypeOK, NEW w \in Workers, NEW e \in {Idle} \cup Executions, Become(w, e)
  PROVE  /\ worker' \in [Workers -> {Idle} \cup Executions]
         /\ worker'[w] = e
         /\ \A v \in Workers \ {w} : worker'[v] = worker[v]
BY DEF TypeOK, Become

\* What is queued for a job that did not complete.
LEMMA RetriedTypes ==
  ASSUME TypeOK, NEW w \in Workers, worker[w] \in Executions
  PROVE  Continuations(w) \subseteq Jobs /\ Left(w) \subseteq Jobs
<1>1. worker[w].job \in Jobs /\ worker[w].cycle \in Cycles
  BY DEF Executions
<1>2. [cycle |-> worker[w].cycle, continues |-> TRUE] \in Jobs
  BY <1>1 DEF Jobs
<1> QED BY <1>1, <1>2 DEF Continuations, Left
-----------------------------------------------------------------------------
(* Paraform *)

\* The list without p, and where the others stand in it.
LEMMA Leaving ==
  ASSUME TypeOK, NEW p \in Listed
  PROVE  /\ PlaceOf(p) \in 1 .. Len(list) /\ list[PlaceOf(p)] = p
         /\ list \in Seq(People) /\ IsInjective(list)
         /\ Without(p) \in Seq(People) /\ Len(Without(p)) = Len(list) - 1
         /\ \A i \in 1 .. Len(list) - 1 :
              Without(p)[i] = IF i < PlaceOf(p) THEN list[i] ELSE list[i + 1]
<1>1. list \in Seq(People) /\ IsInjective(list)
  BY ListIsSequence DEF TypeOK
<1>2. PICK i \in DOMAIN list : list[i] = p
  BY DEF Listed, ToSet
<1>3. PlaceOf(p) \in DOMAIN list /\ list[PlaceOf(p)] = p
  BY <1>2 DEF PlaceOf
<1>4. Without(p) = RemoveAt(list, PlaceOf(p))
  BY DEF Without
<1> QED BY <1>1, <1>3, <1>4, WithoutOne

\* Without p the list has him nowhere, and nobody twice.
LEMMA WithoutIsInjective ==
  ASSUME TypeOK, NEW p \in People
  PROVE  /\ Without(p) \in Seq(People) /\ IsInjective(Without(p))
         /\ \A i \in 1 .. Len(Without(p)) : Without(p)[i] /= p
         /\ \A i \in 1 .. Len(list) : list[i] /= p =>
              \E k \in 1 .. Len(Without(p)) : k + 1 >= i /\ Without(p)[k] = list[i]
<1>0. list \in Seq(People) /\ IsInjective(list) /\ Len(list) \in Nat
  BY ListIsSequence DEF TypeOK
<1>a. DOMAIN list = 1 .. Len(list)
  BY <1>0
<1>1. CASE p \notin Listed
  <2>1. Without(p) = list
    BY <1>1 DEF Without
  <2>2. \A i \in 1 .. Len(list) : list[i] /= p
    BY <1>1, <1>a DEF Listed, ToSet
  <2> QED BY <1>0, <2>1, <2>2
<1>2. CASE p \in Listed
  <2> DEFINE k == PlaceOf(p)
             s == Without(p)
  <2>1. /\ k \in 1 .. Len(list) /\ list[k] = p
        /\ s \in Seq(People) /\ Len(s) = Len(list) - 1
        /\ \A i \in 1 .. Len(list) - 1 : s[i] = IF i < k THEN list[i] ELSE list[i + 1]
    BY <1>2, Leaving
  <2> HIDE DEF k, s
  <2>2. DOMAIN s = 1 .. Len(list) - 1
    BY <2>1
  <2>3. \A i, j \in 1 .. Len(list) : list[i] = list[j] => i = j
    BY <1>0, <1>a DEF IsInjective
  <2>4. \A i \in 1 .. Len(list) - 1 : s[i] /= p
    BY <1>0, <2>1, <2>3
  <2>5. ASSUME NEW i \in 1 .. Len(list) - 1, NEW j \in 1 .. Len(list) - 1, s[i] = s[j]
        PROVE  i = j
    BY <1>0, <2>1, <2>3, <2>5
  <2>6. ASSUME NEW i \in 1 .. Len(list), list[i] /= p
        PROVE  \E n \in 1 .. Len(s) : n + 1 >= i /\ s[n] = list[i]
    <3>1. CASE i < k
      <4>1. i \in 1 .. Len(s) /\ s[i] = list[i]
        BY <1>0, <2>1, <3>1
      <4> QED BY <4>1
    <3>2. CASE i > k
      <4>1. i - 1 \in 1 .. Len(s) /\ s[i - 1] = list[(i - 1) + 1]
        BY <1>0, <2>1, <3>2
      <4>2. (i - 1) + 1 = i
        OBVIOUS
      <4> QED BY <4>1, <4>2
    <3> QED BY <2>1, <2>6, <3>1, <3>2
  <2>7. IsInjective(s)
    BY <2>2, <2>5 DEF IsInjective
  <2> QED BY <2>1, <2>4, <2>6, <2>7 DEF s
<1> QED BY <1>1, <1>2

\* Who is put in front leaves nobody less far behind.
LEMMA TouchList ==
  ASSUME TypeOK, NEW p \in People, Touch(p)
  PROVE  /\ list' \in Lists
         /\ \A q \in steady', n \in Nat : Ahead(q, n) => Ahead(q, n)'
<1> DEFINE s == Without(p)
<1>1. /\ s \in Seq(People) /\ IsInjective(s) /\ \A i \in 1 .. Len(s) : s[i] /= p
      /\ \A i \in 1 .. Len(list) : list[i] /= p => \E k \in 1 .. Len(s) : k + 1 >= i /\ s[k] = list[i]
  BY WithoutIsInjective
<1>2. list' = <<p>> \o s
  BY DEF Touch
<1> HIDE DEF s
<1>3. <<p>> \in Seq(People) /\ Len(<<p>>) = 1 /\ <<p>>[1] = p /\ Len(s) \in Nat
  BY <1>1
<1>4. /\ list' \in Seq(People) /\ Len(list') = 1 + Len(s)
      /\ \A i \in 1 .. 1 + Len(s) : list'[i] = IF i <= 1 THEN <<p>>[i] ELSE s[i - 1]
  BY <1>1, <1>2, <1>3, ConcatProperties
<1>5. DOMAIN list' = 1 .. 1 + Len(s) /\ DOMAIN s = 1 .. Len(s)
  BY <1>1, <1>4
<1>6. list'[1] = p /\ \A i \in 2 .. 1 + Len(s) : list'[i] = s[i - 1]
  BY <1>3, <1>4
<1>7. \A i, j \in 1 .. Len(s) : s[i] = s[j] => i = j
  BY <1>1, <1>5 DEF IsInjective
<1>8. ASSUME NEW i \in 1 .. 1 + Len(s), NEW j \in 1 .. 1 + Len(s), list'[i] = list'[j]
      PROVE  i = j
  <2>1. CASE i = 1 /\ j /= 1
    BY <1>1, <1>3, <1>6, <1>8, <2>1
  <2>2. CASE i /= 1 /\ j = 1
    BY <1>1, <1>3, <1>6, <1>8, <2>2
  <2>3. CASE i /= 1 /\ j /= 1
    <3>1. i - 1 \in 1 .. Len(s) /\ j - 1 \in 1 .. Len(s) /\ s[i - 1] = s[j - 1]
      BY <1>3, <1>6, <1>8, <2>3
    <3> QED BY <1>7, <3>1
  <2> QED BY <2>1, <2>2, <2>3
<1>9. list' \in Lists
  <2>1. IsInjective(list')
    BY <1>5, <1>8 DEF IsInjective
  <2> QED BY <1>4, <2>1, SequenceIsList
<1>10. ASSUME NEW q \in steady', NEW n \in Nat, Ahead(q, n)
       PROVE  Ahead(q, n)'
  <2>1. PICK i \in DOMAIN list : list[i] = q /\ i > n
    BY <1>10 DEF Ahead
  <2>2. i \in 1 .. Len(list) /\ q /= p
    BY <2>1, ListIsSequence DEF Touch, TypeOK
  <2>3. PICK k \in 1 .. Len(s) : k + 1 >= i /\ s[k] = q
    BY <1>1, <2>1, <2>2
  <2>4. k + 1 \in DOMAIN list' /\ k + 1 > n /\ k + 1 \in 2 .. 1 + Len(s) /\ (k + 1) - 1 = k
    BY <1>3, <1>5, <2>1, <2>2, <2>3
  <2>5. list'[k + 1] = q
    BY <1>6, <2>3, <2>4
  <2> QED BY <2>4, <2>5 DEF Ahead
<1> QED BY <1>9, <1>10

\* Who stands in front of one who leaves stays where he is.
LEMMA DropList ==
  ASSUME TypeOK, NEW p \in People, Drop(p)
  PROVE  /\ list' \in Lists
         /\ steady' \subseteq Listed'
         /\ \A q \in steady', n \in Nat : Ahead(q, n) => Ahead(q, n)'
<1>1. list' \in Seq(People) /\ IsInjective(list')
  BY WithoutIsInjective DEF Drop
<1>2. /\ PlaceOf(p) \in 1 .. Len(list) /\ list \in Seq(People) /\ IsInjective(list)
      /\ Len(list') = Len(list) - 1
      /\ \A i \in 1 .. Len(list) - 1 : list'[i] = IF i < PlaceOf(p) THEN list[i] ELSE list[i + 1]
  BY Leaving DEF Drop
<1>3. \A i, j \in 1 .. Len(list) : list[i] = list[j] => i = j
  BY <1>2 DEF IsInjective
<1>4. ASSUME NEW q \in steady'
      PROVE  \E i \in 1 .. Len(list) : i \in DOMAIN list' /\ list[i] = q /\ list'[i] = q
  <2>1. PICK i \in 1 .. (PlaceOf(p) - 1) : list[i] = q
    BY DEF Drop
  <2>2. i \in 1 .. Len(list) /\ i \in 1 .. Len(list) - 1 /\ i < PlaceOf(p)
    BY <1>2, <2>1
  <2>3. i \in DOMAIN list' /\ list'[i] = list[i]
    BY <1>1, <1>2, <2>2
  <2> QED BY <2>1, <2>2, <2>3
<1>5. ASSUME NEW q \in steady', NEW n \in Nat, Ahead(q, n)
      PROVE  Ahead(q, n)'
  <2>1. PICK i \in 1 .. Len(list) : i \in DOMAIN list' /\ list[i] = q /\ list'[i] = q
    BY <1>4
  <2>2. PICK k \in DOMAIN list : list[k] = q /\ k > n
    BY <1>5 DEF Ahead
  <2>3. k = i
    BY <1>2, <1>3, <2>1, <2>2
  <2> QED BY <2>1, <2>2, <2>3 DEF Ahead
<1>6. steady' \subseteq Listed'
  BY <1>4 DEF Listed, ToSet
<1> QED BY <1>1, <1>5, <1>6, SequenceIsList

\* The listed are those who stand behind nobody at least.
LEMMA ListedAreAhead ==
  ASSUME TypeOK, NEW p
  PROVE  p \in Listed <=> Ahead(p, 0)
<1>1. DOMAIN list \subseteq Nat \ {0}
  BY ListIsSequence DEF TypeOK
<1> QED BY <1>1 DEF Listed, ToSet, Ahead
-----------------------------------------------------------------------------
(* What keeps everybody on course *)

\* Nobody steady fell back, nor lost the stamp of the cycle c.
Keeps(c) ==
  \A p \in steady' :
    /\ Copied(p, c) => p \in suppressed' \/ row'[p] = c
    /\ \A n \in Nat : Ahead(p, n) => \E i \in DOMAIN list' : list'[i] = p /\ i > n

\* A checkpoint that stays as it is stays on course.
LEMMA CheckpointKept ==
  ASSUME TypeOK, CheckpointOnCourse, steady' \subseteq steady,
         cursor'.cycle = cursor.cycle, cursor'.at = cursor.at,
         cursor.cycle /= NoCycle => Keeps(cursor.cycle)
  PROVE  CheckpointOnCourse'
<1>1. cursor.at \in Nat
  BY OffsetsAreNumbers DEF TypeOK
<1> SUFFICES ASSUME cursor.cycle /= NoCycle, NEW p \in steady'
             PROVE  Copied(p, cursor.cycle)' \/ Ahead(p, cursor.at)'
  BY DEF CheckpointOnCourse
<1> DEFINE c == cursor.cycle
           n == cursor.at
<1>2. Copied(p, c) \/ Ahead(p, n)
  BY DEF CheckpointOnCourse
<1>3. Keeps(c)
  OBVIOUS
<1>4. (Copied(p, c) => (p \in suppressed' \/ row'[p] = c))
      /\ (Ahead(p, n) => \E i \in DOMAIN list' : list'[i] = p /\ i > n)
  BY <1>1, <1>3 DEF Keeps, Copied, Ahead
<1>5. c = cursor'.cycle /\ n = cursor'.at
  OBVIOUS
<1> HIDE DEF c, n
<1> QED BY <1>2, <1>4, <1>5 DEF Copied, Ahead

\* So does a worker that does not move.
LEMMA WorkerKept ==
  ASSUME TypeOK, NEW w \in Workers, OnCourse(w), steady' \subseteq steady,
         worker'[w] = worker[w],
         cursor'.owner = w => cursor.owner = w /\ cursor'.cycle = cursor.cycle
                                /\ (worker[w] /= Idle => Keeps(worker[w].cycle))
  PROVE  OnCourse(w)'
<1> SUFFICES ASSUME cursor'.owner = w, worker[w] /= Idle
             PROVE  /\ cursor'.cycle \in {NoCycle, worker'[w].cycle}
                    /\ worker'[w].pc = "finalize" => worker'[w].at = 0
                    /\ \A p \in steady' : Expects(w, p)'
  BY DEF OnCourse
<1> DEFINE e == worker[w]
<1>1. e \in Executions
  BY Executing
<1>2. e.at \in Nat /\ e.next \in Nat
  BY <1>1, OffsetsAreNumbers DEF Executions
<1>3. Keeps(e.cycle) /\ e = worker'[w]
  OBVIOUS
<1>4. cursor'.cycle \in {NoCycle, e.cycle} /\ (e.pc = "finalize" => e.at = 0)
      /\ \A p \in steady : Expects(w, p)
  BY DEF OnCourse
<1>5. ASSUME NEW p \in steady' PROVE Expects(w, p)'
  <2>1. /\ Copied(p, e.cycle) => (p \in suppressed' \/ row'[p] = e.cycle)
        /\ Ahead(p, e.at) => \E i \in DOMAIN list' : list'[i] = p /\ i > e.at
        /\ Ahead(p, e.next) => \E i \in DOMAIN list' : list'[i] = p /\ i > e.next
    BY <1>2, <1>3 DEF Keeps, Copied, Ahead
  <2>2. \/ Copied(p, e.cycle)
        \/ e.pc = "read" /\ Ahead(p, e.at)
        \/ e.pc \in {"upsert", "write"} /\ (p = e.page \/ (e.next /= 0 /\ Ahead(p, e.next)))
        \/ e.pc = "commit" /\ (e.at = 0 \/ Ahead(p, e.at))
        \/ e.pc = "complete"
    BY <1>4, <1>5 DEF Expects
  <2> HIDE DEF e
  <2> QED BY <1>3, <2>1, <2>2 DEF Expects, Copied, Ahead
<1> QED BY <1>3, <1>4, <1>5

\* A step of somebody else, that keeps every stamp.
LEMMA WorldStep ==
  ASSUME IInv, TypeOK', steady' \subseteq steady, worker' = worker,
         cursor'.cycle = cursor.cycle, cursor'.at = cursor.at, cursor'.owner = cursor.owner,
         \A c : Keeps(c), OpenUpsertKnows', PurgedStaysOut'
  PROVE  IInv'
<1>1. CheckpointOnCourse'
  BY CheckpointKept DEF IInv
<1>2. WorkersOnCourse'
  <2> SUFFICES ASSUME NEW w \in Workers PROVE OnCourse(w)'
    BY DEF WorkersOnCourse
  <2> QED BY WorkerKept DEF IInv, WorkersOnCourse
<1> QED BY <1>1, <1>2 DEF IInv

\* A step of one worker that leaves him on course; keeping the stamps is only
\* asked of a step that does not have the cursor.
LEMMA WorkerStep ==
  ASSUME IInv, TypeOK', NEW w \in Workers, steady' \subseteq steady,
         \A v \in Workers \ {w} : worker'[v] = worker[v],
         cursor'.owner \in {cursor.owner, w, Nobody}, cursor'.cycle = cursor.cycle,
         cursor.owner /= w => \A c : Keeps(c),
         CheckpointOnCourse', OnCourse(w)', OpenUpsertKnows', PurgedStaysOut'
  PROVE  IInv'
<1> SUFFICES ASSUME NEW v \in Workers \ {w} PROVE OnCourse(v)'
  BY DEF IInv, WorkersOnCourse
<1>1. cursor'.owner = v => cursor.owner = v
  BY WorkersAssumption
<1> QED BY <1>1, WorkerKept DEF IInv, WorkersOnCourse

\* Stamps and suppressions that stay, and a list that stays, keep everything.
LEMMA StillKeeps ==
  ASSUME UNCHANGED <<list, row, suppressed>>
  PROVE  \A c : Keeps(c)
BY DEF Keeps, Copied, Ahead

\* No execution that changes opens an upsert.
LEMMA QuietStep ==
  ASSUME IInv, NEW w \in Workers, worker'[w].pc /= "write",
         \A v \in Workers \ {w} : worker'[v] = worker[v], UNCHANGED <<row, suppressed>>
  PROVE  OpenUpsertKnows' /\ PurgedStaysOut'
BY DEF IInv, OpenUpsertKnows, Holding, PurgedStaysOut
-----------------------------------------------------------------------------
(* Steps of the world *)

\* The changes are counted within their bound.
LEMMA ChangeTypes ==
  ASSUME TypeOK, Change
  PROVE  changes' \in 0 .. MaxChanges
BY BoundsAssumption DEF TypeOK, Change

\* So are the faults.
LEMMA FaultTypes ==
  ASSUME TypeOK, Fault
  PROVE  faults' \in 0 .. MaxFaults
BY BoundsAssumption DEF TypeOK, Fault

\* Touch keeps the invariant: whoever is put in front is steady no longer.
LEMMA TouchStep ==
  ASSUME IInv, NEW p \in People, Touch(p)
  PROVE  IInv'
<1>0. TypeOK /\ UNCHANGED <<row, suppressed, cursor, queue, worker, faults>> /\ steady' \subseteq steady
  BY DEF IInv, Touch
<1>1. list' \in Lists /\ \A q \in steady', n \in Nat : Ahead(q, n) => Ahead(q, n)'
  BY <1>0, TouchList
<1>2. steady' \subseteq Listed'
  <2> SUFFICES ASSUME NEW q \in steady' PROVE q \in Listed'
    OBVIOUS
  <2>1. Ahead(q, 0)
    BY <1>0, ListedAreAhead DEF TypeOK
  <2>2. Ahead(q, 0)'
    BY <1>1, <2>1
  <2> QED BY <2>2 DEF Ahead, Listed, ToSet
<1>3. changes' \in 0 .. MaxChanges
  BY <1>0, ChangeTypes DEF Touch
<1>4. TypeOK'
  BY <1>0, <1>1, <1>2, <1>3, TypesNext DEF TypeOK, Holding
<1>5. \A c : Keeps(c)
  BY <1>0, <1>1 DEF Keeps, Copied, Ahead
<1>6. OpenUpsertKnows' /\ PurgedStaysOut'
  BY <1>0 DEF IInv, OpenUpsertKnows, Holding, PurgedStaysOut
<1> QED BY <1>0, <1>4, <1>5, <1>6, WorldStep

\* So does Drop: who stood behind is steady no longer.
LEMMA DropStep ==
  ASSUME IInv, NEW p \in People, Drop(p)
  PROVE  IInv'
<1>0. TypeOK /\ UNCHANGED <<row, suppressed, cursor, queue, worker, faults>> /\ steady' \subseteq steady
  BY DEF IInv, Drop
<1>1. /\ list' \in Lists /\ steady' \subseteq Listed'
      /\ \A q \in steady', n \in Nat : Ahead(q, n) => Ahead(q, n)'
  BY <1>0, DropList
<1>2. changes' \in 0 .. MaxChanges
  BY <1>0, ChangeTypes DEF Drop
<1>3. TypeOK'
  BY <1>0, <1>1, <1>2, TypesNext DEF TypeOK, Holding
<1>4. \A c : Keeps(c)
  BY <1>0, <1>1 DEF Keeps, Copied, Ahead
<1>5. OpenUpsertKnows' /\ PurgedStaysOut'
  BY <1>0 DEF IInv, OpenUpsertKnows, Holding, PurgedStaysOut
<1> QED BY <1>0, <1>3, <1>4, <1>5, WorldStep

\* The purge waits for the lock of its candidate.
LEMMA PurgeStep ==
  ASSUME IInv, NEW p \in Deleted, Purge(p)
  PROVE  IInv'
<1>0. /\ TypeOK /\ UNCHANGED <<list, changes, cursor, queue, worker, faults, steady>>
      /\ p \in People /\ suppressed' = suppressed \cup {p} /\ row' = [row EXCEPT ![p] = Absent]
  BY DeletedAssumption DEF IInv, Purge
<1>1. row' \in [People -> Cycles \cup {Absent, Inactive, Earlier}]
      /\ \A q \in People : row'[q] = IF q = p THEN Absent ELSE row[q]
  BY <1>0 DEF TypeOK
<1>2. TypeOK'
  <2>1. list' \in Lists /\ suppressed' \subseteq Deleted /\ Listed' = Listed
    BY <1>0 DEF TypeOK, Listed
  <2> QED BY <1>0, <1>1, <2>1, TypesNext DEF TypeOK, Holding
<1>3. \A c : Keeps(c)
  <2>1. steady \subseteq People
    BY <1>0, ListIsSequence DEF TypeOK, Listed, ToSet
  <2> QED BY <1>0, <1>1, <2>1 DEF Keeps, Copied, Ahead
<1>4. OpenUpsertKnows'
  BY <1>0 DEF IInv, OpenUpsertKnows, Holding, Purge, LockFree
<1>5. PurgedStaysOut'
  <2>1. suppressed \subseteq People
    BY <1>0, DeletedAssumption DEF TypeOK
  <2> QED BY <1>0, <1>1, <2>1 DEF IInv, PurgedStaysOut
<1> QED BY <1>0, <1>2, <1>3, <1>4, <1>5, WorldStep

\* Tick queues a job.
LEMMA TickStep ==
  ASSUME IInv, Tick
  PROVE  IInv'
<1>0. TypeOK /\ UNCHANGED <<list, changes, row, suppressed, cursor, worker, faults, steady>>
  BY DEF IInv, Tick
<1>1. queue' \subseteq Jobs
  BY <1>0 DEF Tick, TypeOK, Jobs
<1>2. TypeOK'
  BY <1>0, <1>1, TypesNext DEF TypeOK, Holding, Listed
<1>3. OpenUpsertKnows' /\ PurgedStaysOut'
  BY <1>0 DEF IInv, OpenUpsertKnows, Holding, PurgedStaysOut
<1> QED BY <1>0, <1>2, <1>3, StillKeeps, WorldStep

\* The lease runs out, under a worker or after one.
LEMMA LeaseStep ==
  ASSUME IInv, LoseCursor \/ LeaseExpires
  PROVE  IInv'
<1>0. /\ TypeOK /\ UNCHANGED <<list, changes, row, suppressed, queue, worker, steady>>
      /\ cursor' = [cursor EXCEPT !.live = FALSE]
  BY DEF IInv, LoseCursor, LeaseExpires
<1>1. /\ cursor' \in [cycle : Cycles \cup {NoCycle}, at : Offsets, owner : Workers \cup {Nobody}, live : BOOLEAN]
      /\ cursor'.cycle = cursor.cycle /\ cursor'.at = cursor.at /\ cursor'.owner = cursor.owner
  BY <1>0 DEF TypeOK
<1>2. faults' \in 0 .. MaxFaults
  BY <1>0, FaultTypes DEF LoseCursor, LeaseExpires, TypeOK
<1>3. TypeOK'
  BY <1>0, <1>1, <1>2, TypesNext DEF TypeOK, Holding, Listed
<1>4. OpenUpsertKnows' /\ PurgedStaysOut'
  BY <1>0 DEF IInv, OpenUpsertKnows, Holding, PurgedStaysOut
<1> QED BY <1>0, <1>1, <1>3, <1>4, StillKeeps, WorldStep
-----------------------------------------------------------------------------
(* Steps of a worker *)

\* A worker that ends needs nothing of anybody.
LEMMA EndStep ==
  ASSUME IInv, NEW w \in Workers, Become(w, Idle), queue' \subseteq Jobs,
         UNCHANGED <<list, changes, row, suppressed, steady>>,
         faults' \in 0 .. MaxFaults,
         cursor' \in [cycle : Cycles \cup {NoCycle}, at : Offsets, owner : Workers \cup {Nobody}, live : BOOLEAN],
         cursor'.cycle = cursor.cycle, cursor'.at = cursor.at,
         cursor'.owner = cursor.owner \/ (cursor.owner = w /\ cursor'.owner = Nobody)
  PROVE  IInv'
<1>0. TypeOK /\ Idle.pc = "idle"
  BY Executing DEF IInv
<1>1. /\ worker' \in [Workers -> {Idle} \cup Executions] /\ worker'[w] = Idle
      /\ \A v \in Workers \ {w} : worker'[v] = worker[v]
  BY <1>0, Becomes
<1>2. \A v \in Workers : worker'[v].pc = "write" => cursor'.owner = v
  <2> SUFFICES ASSUME NEW v \in Workers, worker'[v].pc = "write" PROVE cursor'.owner = v
    OBVIOUS
  <2>1. v /= w /\ worker[v].pc = "write"
    BY <1>0, <1>1
  <2>2. cursor.owner = v
    BY <1>0, <2>1 DEF TypeOK, Holding
  <2> QED BY <2>1, <2>2
<1>3. TypeOK'
  BY <1>0, <1>1, <1>2, TypesNext DEF TypeOK, Listed
<1>4. OpenUpsertKnows' /\ PurgedStaysOut'
  BY <1>0, <1>1, QuietStep
<1>5. \A c : Keeps(c)
  BY StillKeeps
<1>6. CheckpointOnCourse'
  BY <1>0, <1>5, CheckpointKept DEF IInv
<1>7. OnCourse(w)'
  BY <1>1 DEF OnCourse
<1> QED BY <1>1, <1>3, <1>4, <1>5, <1>6, <1>7, WorkerStep

\* A job that coalesces leaves its worker idle.
LEMMA CoalesceStep ==
  ASSUME IInv, NEW w \in Workers, NEW j \in Jobs, Coalesce(w, j)
  PROVE  IInv'
<1>0. TypeOK /\ queue' \subseteq Jobs
  BY DEF IInv, TypeOK, Coalesce
<1>1. worker' = [worker EXCEPT ![w] = Idle]
  BY <1>0 DEF Coalesce, TypeOK
<1> QED BY <1>0, <1>1, EndStep DEF Coalesce, Become, TypeOK

\* What fail_job puts back are jobs.
LEMMA FailedQueue ==
  ASSUME TypeOK, NEW w \in Workers, Failed(w)
  PROVE  queue' \subseteq Jobs
<1>1. CASE worker[w].own
  <2>1. Left(w) \subseteq Jobs /\ queue \subseteq Jobs
    BY <1>1, Executing, RetriedTypes DEF TypeOK
  <2> QED BY <1>1, <2>1 DEF Failed, Retried
<1>2. CASE ~worker[w].own
  BY <1>2 DEF Failed, TypeOK
<1> QED BY <1>1, <1>2

\* Giving the cursor back leaves the checkpoint where it was.
LEMMA GiveUpStep ==
  ASSUME IInv, NEW w \in Workers, GiveUp(w), faults' \in 0 .. MaxFaults
  PROVE  IInv'
<1>0. TypeOK /\ queue' \subseteq Jobs
  BY FailedQueue DEF IInv, GiveUp
<1>1. /\ cursor' \in [cycle : Cycles \cup {NoCycle}, at : Offsets, owner : Workers \cup {Nobody}, live : BOOLEAN]
      /\ cursor'.cycle = cursor.cycle /\ cursor'.at = cursor.at
      /\ cursor'.owner = cursor.owner \/ (cursor.owner = w /\ cursor'.owner = Nobody)
  BY <1>0 DEF GiveUp, HasCursor, TypeOK
<1> QED BY <1>0, <1>1, EndStep DEF GiveUp, Failed

\* A fence or a failure ends the job.
LEMMA LoseStep ==
  ASSUME IInv, NEW w \in Workers, Lose(w) \/ Fail(w)
  PROVE  IInv'
<1>1. GiveUp(w) /\ faults' \in 0 .. MaxFaults
  BY FaultTypes DEF Lose, Fail, IInv, TypeOK
<1> QED BY <1>1, GiveUpStep

\* So does a crash, which leaves the cursor leased.
LEMMA CrashStep ==
  ASSUME IInv, NEW w \in Workers, Crash(w)
  PROVE  IInv'
<1>1. queue' \subseteq Jobs /\ faults' \in 0 .. MaxFaults
  BY FailedQueue, FaultTypes DEF IInv, Crash
<1> QED BY <1>1, EndStep DEF Crash, Failed, IInv, TypeOK

\* The end of a job may queue its continuation.
LEMMA CompleteStep ==
  ASSUME IInv, NEW w \in Workers, Complete(w)
  PROVE  IInv'
<1>0. TypeOK
  BY DEF IInv
<1>1. worker[w] \in Executions
  BY <1>0, Executing DEF Complete
<1>2. queue' \subseteq Jobs
  BY <1>0, <1>1, RetriedTypes DEF Complete, TypeOK
<1> QED BY <1>0, <1>2, EndStep DEF Complete, TypeOK
-----------------------------------------------------------------------------
\* A worker goes on in the handler; nothing but its own state changes.
LEMMA GoStep ==
  ASSUME IInv, NEW w \in Workers, NEW e \in Executions, Become(w, e), queue' \subseteq Jobs,
         UNCHANGED <<list, changes, row, suppressed, cursor, steady>>,
         faults' \in 0 .. MaxFaults,
         e.pc = "write" => cursor.owner = w /\ (e.skip <=> e.page \in suppressed),
         OnCourse(w)'
  PROVE  IInv'
<1>0. TypeOK
  BY DEF IInv
<1>1. /\ worker' \in [Workers -> {Idle} \cup Executions] /\ worker'[w] = e
      /\ \A v \in Workers \ {w} : worker'[v] = worker[v]
  BY <1>0, Becomes
<1>2. \A v \in Workers : worker'[v].pc = "write" => cursor'.owner = v
  BY <1>0, <1>1 DEF TypeOK, Holding
<1>3. TypeOK'
  BY <1>0, <1>1, <1>2, TypesNext DEF TypeOK, Listed
<1>4. OpenUpsertKnows' /\ PurgedStaysOut'
  BY <1>1 DEF IInv, OpenUpsertKnows, Holding, PurgedStaysOut
<1>5. \A c : Keeps(c)
  BY StillKeeps
<1>6. CheckpointOnCourse'
  BY <1>0, <1>5, CheckpointKept DEF IInv
<1> QED BY <1>1, <1>3, <1>4, <1>5, <1>6, WorkerStep

\* The next page has whoever stands at the next offset.
LEMMA ReadStep ==
  ASSUME IInv, NEW w \in Workers, Read(w)
  PROVE  IInv'
<1> DEFINE d == worker[w]
           n == d.at + 1
           page == IF n <= Len(list) THEN list[n] ELSE Nobody
           next == IF n < Len(list) THEN n ELSE 0
<1>0. TypeOK /\ d \in Executions /\ d.pc = "read" /\ d.at \in Nat
  <2>1. TypeOK /\ d \in Executions
    BY Executing DEF IInv, Read
  <2> QED BY <2>1, OffsetsAreNumbers DEF Read, Executions
<1>1. list \in Seq(People) /\ Len(list) \in Offsets
  BY <1>0, ListIsSequence DEF TypeOK
<1>2. page \in People \cup {Nobody} /\ next \in Offsets
  <2>1. n <= Len(list) => list[n] \in People
    BY <1>0, <1>1
  <2>2. n < Len(list) => n \in Offsets
    BY <1>0, <1>1, PeopleAssumption, FS_CardinalityType DEF Offsets
  <2> QED BY <2>1, <2>2, OffsetsAreNumbers
<1>a. /\ \A i \in 1 .. Len(list) : i > d.at => (page = list[i] \/ (next /= 0 /\ i > next))
      /\ Become(w, [d EXCEPT !.pc = "upsert", !.page = page, !.next = next])
      /\ UNCHANGED <<list, changes, row, suppressed, cursor, queue, faults, steady>>
  BY <1>0, <1>1 DEF Read
<1> HIDE DEF page, next, d
<1> DEFINE e == [d EXCEPT !.pc = "upsert", !.page = page, !.next = next]
<1>3. /\ e \in Executions /\ e.pc = "upsert" /\ e.cycle = d.cycle
      /\ e.at = d.at /\ e.page = page /\ e.next = next
  <2>1. d \in Executions /\ page \in People \cup {Nobody} /\ next \in Offsets
    BY <1>0, <1>2
  <2> QED BY <2>1 DEF Executions
<1>4. Become(w, e) /\ UNCHANGED <<list, changes, row, suppressed, cursor, queue, faults, steady>>
  BY <1>a
<1> HIDE DEF e
<1>5. OnCourse(w)'
  <2>1. worker'[w] = e
    BY <1>0, <1>3, <1>4, Becomes
  <2> SUFFICES ASSUME cursor.owner = w
               PROVE  cursor.cycle \in {NoCycle, d.cycle} /\ \A p \in steady : Expects(w, p)'
    BY <1>3, <1>4, <2>1 DEF OnCourse
  <2>2. cursor.cycle \in {NoCycle, d.cycle} /\ \A p \in steady : Expects(w, p)
    BY <1>0, Executing DEF IInv, WorkersOnCourse, OnCourse, d
  <2>3. ASSUME NEW p \in steady PROVE Expects(w, p)'
    <3>1. Copied(p, d.cycle) \/ Ahead(p, d.at)
      BY <1>0, <2>2 DEF Expects, d
    <3>2. CASE Copied(p, d.cycle)
      BY <1>3, <1>4, <2>1, <3>2 DEF Expects, Copied
    <3>3. CASE Ahead(p, d.at)
      <4>1. PICK i \in 1 .. Len(list) : list[i] = p /\ i > d.at
        BY <1>1, <3>3 DEF Ahead
      <4>2. CASE page = p
        BY <1>3, <2>1, <4>2 DEF Expects
      <4>3. CASE next /= 0 /\ i > next
        <5>1. \E k \in DOMAIN list' : list'[k] = p /\ k > worker'[w].next
          BY <1>1, <1>3, <1>4, <2>1, <4>1, <4>3
        <5> QED BY <1>3, <2>1, <4>3, <5>1 DEF Expects, Ahead
      <4> QED BY <1>a, <4>1, <4>2, <4>3
    <3> QED BY <3>1, <3>2, <3>3
  <2> QED BY <2>2, <2>3
<1> QED BY <1>0, <1>3, <1>4, <1>5, GoStep DEF TypeOK

\* Under the candidate's lock the worker learns whether he is suppressed.
LEMMA OpenUpsertStep ==
  ASSUME IInv, NEW w \in Workers, OpenUpsert(w)
  PROVE  IInv'
<1> DEFINE d == worker[w]
           skip == d.page \in suppressed
           e == [d EXCEPT !.pc = "write", !.skip = skip]
<1>0. TypeOK /\ d \in Executions /\ d.pc = "upsert" /\ cursor.owner = w
  BY Executing DEF IInv, OpenUpsert, Fenced, HasCursor
<1>1. /\ e \in Executions /\ e.pc = "write" /\ (e.skip <=> d.page \in suppressed)
      /\ e.cycle = d.cycle /\ e.at = d.at /\ e.page = d.page /\ e.next = d.next
  <2>1. skip \in BOOLEAN
    OBVIOUS
  <2> HIDE DEF skip, d
  <2>2. e \in Executions /\ e.pc = "write" /\ (e.skip <=> skip) /\ e.cycle = d.cycle
        /\ e.at = d.at /\ e.page = d.page /\ e.next = d.next
    BY <1>0, <2>1, SetSkip
  <2> QED BY <2>2 DEF skip
<1>2. Become(w, e) /\ UNCHANGED <<list, changes, row, suppressed, cursor, queue, faults, steady>>
  BY DEF OpenUpsert
<1>3. worker'[w] = e
  BY <1>0, <1>1, <1>2, Becomes
<1>4. OnCourse(w)
  BY DEF IInv, WorkersOnCourse
<1> HIDE DEF e
<1>5. OnCourse(w)'
  BY <1>0, <1>1, <1>2, <1>3, <1>4, Executing DEF OnCourse, Expects, Copied, Ahead
<1> QED BY <1>0, <1>1, <1>2, <1>5, GoStep DEF TypeOK

\* Losing the job changes no part of the course.
LEMMA LoseJobStep ==
  ASSUME IInv, NEW w \in Workers, LoseJob(w)
  PROVE  IInv'
<1> DEFINE d == worker[w]
           e == [d EXCEPT !.own = FALSE]
<1>0. TypeOK /\ d \in Executions /\ d.pc /= "write"
  BY Executing DEF IInv, LoseJob, Holding
<1>1. /\ e \in Executions /\ e.pc = d.pc /\ e.cycle = d.cycle
      /\ e.at = d.at /\ e.page = d.page /\ e.next = d.next
  BY <1>0, SetOwn
<1>2. /\ Become(w, e) /\ UNCHANGED <<list, changes, row, suppressed, cursor, steady>>
      /\ queue' \subseteq Jobs /\ faults' \in 0 .. MaxFaults
  BY <1>0, RetriedTypes, FaultTypes DEF LoseJob, Retried, TypeOK
<1>3. worker'[w] = e
  BY <1>0, <1>1, <1>2, Becomes
<1>4. OnCourse(w)
  BY DEF IInv, WorkersOnCourse
<1> HIDE DEF e
<1>5. OnCourse(w)'
  BY <1>0, <1>1, <1>2, <1>3, <1>4, Executing DEF OnCourse, Expects, Copied, Ahead
<1> QED BY <1>0, <1>1, <1>2, <1>5, GoStep
-----------------------------------------------------------------------------
\* Whoever takes the cursor leaves nobody else on a course, and has all of the
\* list before him, or what the checkpoint left.
LEMMA TakeStep ==
  ASSUME IInv, NEW w \in Workers, NEW j \in Jobs, Take(w, j)
  PROVE  IInv'
<1>0. /\ TypeOK /\ UNCHANGED <<list, changes, suppressed, faults>>
      /\ cursor' = [cursor EXCEPT !.owner = w, !.live = TRUE]
      /\ \A v \in Workers : worker[v].pc /= "write"
  BY DEF IInv, Take, CursorFree, Holding
<1>1. /\ cursor' \in [cycle : Cycles \cup {NoCycle}, at : Offsets, owner : Workers \cup {Nobody}, live : BOOLEAN]
      /\ cursor'.cycle = cursor.cycle /\ cursor'.at = cursor.at /\ cursor'.owner = w
  BY <1>0 DEF TypeOK
<1>2. \/ cursor.cycle /= NoCycle /\ UNCHANGED <<row, steady>>
      \/ /\ cursor.cycle = NoCycle /\ steady' = Listed
         /\ \/ UNCHANGED row
            \/ row' = [p \in People |-> IF row[p] \in Cycles \ InUse THEN Earlier ELSE row[p]]
  BY DEF Take
<1>3. \E job \in Jobs, c \in Cycles :
        /\ Begin(w, job, c)
        /\ cursor.cycle \in {NoCycle, c}
  <2>1. CASE cursor.cycle /= NoCycle /\ Begin(w, j, cursor.cycle)
    <3>1. cursor.cycle \in Cycles
      BY <1>0, <2>1 DEF TypeOK
    <3> QED BY <2>1, <3>1
  <2>2. CASE cursor.cycle = NoCycle /\ j /= Hourly /\ Begin(w, j, j.cycle)
    <3>1. j.cycle \in Cycles
      BY <2>2 DEF Jobs
    <3> QED BY <2>2, <3>1
  <2>3. CASE cursor.cycle = NoCycle /\ Cycles \ InUse /= {}
             /\ LET c == CHOOSE c \in Cycles : c \notin InUse
                IN Begin(w, [cycle |-> c, continues |-> FALSE], c)
    <3> DEFINE c == CHOOSE c \in Cycles : c \notin InUse
    <3>1. c \in Cycles
      BY <2>3
    <3>2. [cycle |-> c, continues |-> FALSE] \in Jobs
      BY <3>1 DEF Jobs
    <3> QED BY <2>3, <3>1, <3>2
  <2> QED BY <2>1, <2>2, <2>3 DEF Take
<1>4. PICK job \in Jobs, c \in Cycles : Begin(w, job, c) /\ cursor.cycle \in {NoCycle, c}
  BY <1>3
<1> DEFINE e == [pc |-> "read", own |-> TRUE, job |-> job, cycle |-> c, at |-> cursor.at,
                 page |-> Nobody, next |-> 0, skip |-> FALSE]
<1>5. e \in Executions /\ e.pc = "read" /\ e.cycle = c /\ e.at = cursor.at
  BY <1>0, OffsetsAreNumbers DEF TypeOK, Executions
<1>6. Become(w, e)
  BY <1>4 DEF Begin
<1> HIDE DEF e
<1>7. /\ worker' \in [Workers -> {Idle} \cup Executions] /\ worker'[w] = e
      /\ \A v \in Workers \ {w} : worker'[v] = worker[v]
  BY <1>0, <1>5, <1>6, Becomes
<1>8. \A v \in Workers : worker'[v].pc /= "write"
  BY <1>0, <1>5, <1>7
<1>9. TypeOK'
  <2>1. row' \in [People -> Cycles \cup {Absent, Inactive, Earlier}]
    BY <1>0, <1>2 DEF TypeOK
  <2>2. queue' \subseteq Jobs /\ list' \in Lists /\ Listed' = Listed
    BY <1>0 DEF TypeOK, Take, Listed
  <2>3. steady' \subseteq Listed
    BY <1>0, <1>2 DEF TypeOK
  <2> QED BY <1>0, <1>1, <1>7, <1>8, <2>1, <2>2, <2>3, TypesNext DEF TypeOK
<1>10. OpenUpsertKnows'
  BY <1>8 DEF OpenUpsertKnows, Holding
<1>11. PurgedStaysOut'
  <2>1. Absent \notin Cycles /\ suppressed \subseteq People
    BY <1>0, CyclesAssumption, DeletedAssumption DEF TypeOK
  <2> QED BY <1>0, <1>2, <2>1 DEF IInv, PurgedStaysOut
<1>12. CheckpointOnCourse'
  <2> SUFFICES ASSUME cursor.cycle /= NoCycle PROVE CheckpointOnCourse'
    BY <1>1 DEF CheckpointOnCourse
  <2> QED BY <1>0, <1>1, <1>2, StillKeeps, CheckpointKept DEF IInv
<1>13. ASSUME NEW p \in steady'
       PROVE  p \in suppressed' \/ row'[p] = c \/ \E i \in DOMAIN list' : list'[i] = p /\ i > cursor'.at
  <2>1. CASE cursor.cycle = NoCycle
    <3>1. cursor.at = 0 /\ p \in Listed
      BY <1>0, <1>2, <1>13, <2>1 DEF TypeOK
    <3>2. Ahead(p, 0)
      BY <1>0, <3>1, ListedAreAhead
    <3> QED BY <1>0, <1>1, <3>1, <3>2 DEF Ahead
  <2>2. CASE cursor.cycle /= NoCycle
    <3>1. cursor'.cycle = c
      BY <1>1, <1>4, <2>2
    <3> QED BY <1>1, <1>12, <1>13, <2>2, <3>1 DEF CheckpointOnCourse, Copied, Ahead
  <2> QED BY <2>1, <2>2
<1>14. WorkersOnCourse'
  <2>1. OnCourse(w)'
    <3>1. \A p \in steady' : Expects(w, p)'
      BY <1>1, <1>5, <1>7, <1>13 DEF Expects, Copied, Ahead
    <3> QED BY <1>1, <1>4, <1>5, <1>7, <3>1 DEF OnCourse
  <2>2. ASSUME NEW v \in Workers \ {w} PROVE OnCourse(v)'
    BY <1>1 DEF OnCourse
  <2> QED BY <2>1, <2>2 DEF WorkersOnCourse
<1> QED BY <1>9, <1>10, <1>11, <1>12, <1>14 DEF IInv

\* The checkpoint goes where its worker stands, and nobody has the cursor.
LEMMA CommitCursorStep ==
  ASSUME IInv, NEW w \in Workers, CommitCursor(w)
  PROVE  IInv'
<1> DEFINE d == worker[w]
           e == [d EXCEPT !.pc = "complete"]
<1>0. /\ TypeOK /\ d \in Executions /\ d.pc = "commit" /\ cursor.owner = w
      /\ UNCHANGED <<list, changes, row, suppressed, queue, faults>>
      /\ cursor' = IF d.at = 0 THEN Free ELSE [Free EXCEPT !.cycle = d.cycle, !.at = d.at]
      /\ steady' = IF d.at = 0 THEN {} ELSE steady
      /\ Become(w, e)
  BY Executing DEF IInv, CommitCursor, HasCursor, NextCheckpoint, Goto
<1>1. e \in Executions /\ e.pc = "complete"
  BY <1>0, SetPc
<1> HIDE DEF e
<1>2. /\ worker' \in [Workers -> {Idle} \cup Executions] /\ worker'[w] = e
      /\ \A v \in Workers \ {w} : worker'[v] = worker[v]
  BY <1>0, <1>1, Becomes
<1>3. d.cycle \in Cycles /\ d.at \in Offsets /\ NoCycle \notin Cycles
  BY <1>0, CyclesAssumption DEF Executions
<1> HIDE DEF d
<1>4. /\ cursor' \in [cycle : Cycles \cup {NoCycle}, at : Offsets, owner : Workers \cup {Nobody}, live : BOOLEAN]
      /\ cursor'.cycle = (IF d.at = 0 THEN NoCycle ELSE d.cycle) /\ cursor'.at = d.at
      /\ cursor'.owner = Nobody
  BY <1>0, <1>3, OffsetsAreNumbers DEF Free
<1>5. \A v \in Workers : worker'[v].pc /= "write"
  <2> SUFFICES ASSUME NEW v \in Workers, worker'[v].pc = "write" PROVE FALSE
    OBVIOUS
  <2>1. v /= w
    BY <1>1, <1>2
  <2>2. cursor.owner = v
    BY <1>0, <1>2, <2>1 DEF TypeOK, Holding
  <2> QED BY <1>0, <2>1, <2>2
<1>6. TypeOK'
  <2>1. list' \in Lists /\ Listed' = Listed /\ steady' \subseteq Listed
    BY <1>0 DEF TypeOK, Listed
  <2>2. cursor'.cycle = NoCycle <=> cursor'.at = 0
    BY <1>3, <1>4
  <2> QED BY <1>0, <1>2, <1>4, <1>5, <2>1, <2>2, TypesNext DEF TypeOK
<1>7. OpenUpsertKnows'
  BY <1>5 DEF OpenUpsertKnows, Holding
<1>8. PurgedStaysOut'
  BY <1>0 DEF IInv, PurgedStaysOut
<1>9. CheckpointOnCourse'
  <2> SUFFICES ASSUME d.at /= 0, NEW p \in steady
               PROVE  Copied(p, d.cycle) \/ Ahead(p, d.at)
    BY <1>0, <1>4 DEF CheckpointOnCourse, Copied, Ahead
  <2>1. Expects(w, p)
    BY <1>0, Executing DEF IInv, WorkersOnCourse, OnCourse, d
  <2> QED BY <1>0, <2>1 DEF Expects, d
<1>10. WorkersOnCourse'
  BY <1>4, WorkersAssumption DEF WorkersOnCourse, OnCourse
<1> QED BY <1>6, <1>7, <1>8, <1>9, <1>10 DEF IInv
-----------------------------------------------------------------------------
\* The one on the page gets the stamp, or is suppressed; the others expected
\* stand behind the next offset.
LEMMA CommitUpsertStep ==
  ASSUME IInv, NEW w \in Workers, CommitUpsert(w)
  PROVE  IInv'
<1> DEFINE d == worker[w]
<1>0. /\ TypeOK /\ d \in Executions /\ d.pc = "write" /\ cursor.owner = w
      /\ (d.skip <=> d.page \in suppressed)
      /\ UNCHANGED <<list, changes, suppressed, cursor, queue, faults, steady>>
      /\ row' = [p \in People |-> IF p = d.page /\ ~d.skip THEN d.cycle ELSE row[p]]
  <2>1. TypeOK /\ d.pc = "write" /\ cursor.owner = w /\ (d.skip <=> d.page \in suppressed)
    BY DEF IInv, CommitUpsert, Holding, TypeOK, OpenUpsertKnows
  <2> QED BY <2>1, Executing DEF CommitUpsert
<1>1. PICK pc \in IF d.next = 0 THEN {"finalize"} ELSE {"read", "commit"} :
        Become(w, [d EXCEPT !.pc = pc, !.at = d.next, !.page = Nobody, !.next = 0, !.skip = FALSE])
  BY DEF CommitUpsert
<1> DEFINE e == [d EXCEPT !.pc = pc, !.at = d.next, !.page = Nobody, !.next = 0, !.skip = FALSE]
<1>2. d.next \in Offsets /\ d.cycle \in Cycles
  BY <1>0 DEF Executions
<1>3. /\ e \in Executions /\ e.pc = pc /\ e.cycle = d.cycle /\ e.at = d.next
      /\ pc \in {"finalize", "read", "commit"} /\ (pc = "finalize" <=> d.next = 0)
  <2>1. pc \in {"finalize", "read", "commit"} /\ (pc = "finalize" <=> d.next = 0)
    BY <1>1
  <2>2. d \in Executions /\ d.next \in Offsets /\ 0 \in Offsets
    BY <1>0, <1>2, OffsetsAreNumbers
  <2> QED BY <2>1, <2>2 DEF Executions
<1> HIDE DEF e
<1>4. /\ worker' \in [Workers -> {Idle} \cup Executions] /\ worker'[w] = e
      /\ \A v \in Workers \ {w} : worker'[v] = worker[v]
  BY <1>0, <1>1, <1>3, Becomes DEF e
<1>5. OnCourse(w)
  BY DEF IInv, WorkersOnCourse
<1>6. cursor.cycle \in {NoCycle, d.cycle} /\ \A p \in steady : Expects(w, p)
  BY <1>0, <1>5, Executing DEF OnCourse
<1> HIDE DEF d
<1>7. row' \in [People -> Cycles \cup {Absent, Inactive, Earlier}]
      /\ \A p \in People : row'[p] = IF p = d.page /\ ~d.skip THEN d.cycle ELSE row[p]
  BY <1>0, <1>2 DEF TypeOK
<1>8. TypeOK'
  <2>1. \A v \in Workers : worker'[v].pc = "write" => cursor'.owner = v
    BY <1>0, <1>3, <1>4 DEF TypeOK, Holding
  <2>2. list' \in Lists /\ Listed' = Listed
    BY <1>0 DEF TypeOK, Listed
  <2> QED BY <1>0, <1>4, <1>7, <2>1, <2>2, TypesNext DEF TypeOK
<1>9. OpenUpsertKnows'
  BY <1>0, <1>3, <1>4 DEF IInv, OpenUpsertKnows, Holding
<1>10. PurgedStaysOut'
  <2>1. suppressed \subseteq People
    BY <1>0, DeletedAssumption DEF TypeOK
  <2> QED BY <1>0, <1>7, <2>1 DEF IInv, PurgedStaysOut
<1>11. steady \subseteq People
  BY <1>0, ListIsSequence DEF TypeOK, Listed, ToSet
<1>12. Keeps(d.cycle)
  BY <1>0, <1>7, <1>11 DEF Keeps, Copied, Ahead
<1>13. CheckpointOnCourse'
  BY <1>0, <1>6, <1>12, CheckpointKept DEF IInv
<1>14. ASSUME NEW p \in steady PROVE Expects(w, p)'
  <2>1. Copied(p, d.cycle) \/ p = d.page \/ (d.next /= 0 /\ Ahead(p, d.next))
    BY <1>0, <1>6 DEF Expects, d
  <2>2. CASE Copied(p, d.cycle) \/ p = d.page
    <3>1. p \in suppressed \/ row'[p] = d.cycle
      BY <1>0, <1>7, <1>11, <2>2 DEF Copied
    <3> QED BY <1>0, <1>3, <1>4, <3>1 DEF Expects, Copied
  <2>3. CASE d.next /= 0 /\ Ahead(p, d.next)
    <3>1. \E i \in DOMAIN list' : list'[i] = p /\ i > worker'[w].at
      BY <1>0, <1>3, <1>4, <2>3 DEF Ahead
    <3> QED BY <1>3, <1>4, <2>3, <3>1 DEF Expects, Ahead
  <2> QED BY <2>1, <2>2, <2>3
<1>15. OnCourse(w)'
  BY <1>0, <1>3, <1>4, <1>6, <1>14 DEF OnCourse
<1> QED BY <1>0, <1>4, <1>8, <1>9, <1>10, <1>13, <1>15, WorkerStep

\* Who has the cycle's stamp stays, and all of the steady have it.
LEMMA FinalizeStep ==
  ASSUME IInv, NEW w \in Workers, Finalize(w)
  PROVE  IInv' /\ \A p \in steady \ suppressed : row'[p] = worker[w].cycle /\ worker[w].cycle \in Cycles
<1> DEFINE d == worker[w]
           e == [d EXCEPT !.pc = "commit"]
<1>0. /\ TypeOK /\ d \in Executions /\ d.pc = "finalize" /\ cursor.owner = w
      /\ UNCHANGED <<list, changes, suppressed, cursor, queue, faults, steady>>
      /\ row' = [p \in People |-> IF Active(p) /\ row[p] /= d.cycle THEN Inactive ELSE row[p]]
      /\ Become(w, e)
  BY Executing DEF IInv, Finalize, Fenced, HasCursor, Goto
<1>1. e \in Executions /\ e.pc = "commit" /\ e.at = d.at /\ e.cycle = d.cycle /\ d.cycle \in Cycles
  BY <1>0, SetPc DEF Executions
<1> HIDE DEF e
<1>2. /\ worker' \in [Workers -> {Idle} \cup Executions] /\ worker'[w] = e
      /\ \A v \in Workers \ {w} : worker'[v] = worker[v]
  BY <1>0, <1>1, Becomes
<1>3. OnCourse(w)
  BY DEF IInv, WorkersOnCourse
<1>4. cursor.cycle \in {NoCycle, d.cycle} /\ d.at = 0 /\ \A p \in steady : Copied(p, d.cycle)
  BY <1>0, <1>3, Executing DEF OnCourse, Expects
<1> HIDE DEF d
<1>5. row' \in [People -> Cycles \cup {Absent, Inactive, Earlier}]
      /\ \A p \in People : row'[p] = row[p] \/ (Active(p) /\ row[p] /= d.cycle)
  BY <1>0 DEF TypeOK
<1>6. TypeOK'
  <2>1. \A v \in Workers : worker'[v].pc = "write" => cursor'.owner = v
    BY <1>0, <1>1, <1>2 DEF TypeOK, Holding
  <2>2. list' \in Lists /\ Listed' = Listed
    BY <1>0 DEF TypeOK, Listed
  <2> QED BY <1>0, <1>2, <1>5, <2>1, <2>2, TypesNext DEF TypeOK
<1>7. OpenUpsertKnows'
  BY <1>0, <1>1, <1>2 DEF IInv, OpenUpsertKnows, Holding
<1>8. PurgedStaysOut'
  <2>1. suppressed \subseteq People
    BY <1>0, DeletedAssumption DEF TypeOK
  <2> QED BY <1>0, <1>5, <2>1 DEF IInv, PurgedStaysOut, Active
<1>9. steady \subseteq People
  BY <1>0, ListIsSequence DEF TypeOK, Listed, ToSet
<1>10. Keeps(d.cycle)
  BY <1>0, <1>5, <1>9 DEF Keeps, Copied, Ahead
<1>11. CheckpointOnCourse'
  BY <1>0, <1>4, <1>10, CheckpointKept DEF IInv
<1>12. OnCourse(w)'
  BY <1>0, <1>1, <1>2, <1>4 DEF OnCourse, Expects
<1>13. \A p \in steady \ suppressed : row'[p] = d.cycle
  BY <1>4, <1>5, <1>9 DEF Copied
<1>14. IInv'
  BY <1>0, <1>2, <1>6, <1>7, <1>8, <1>11, <1>12, WorkerStep
<1> QED BY <1>1, <1>13, <1>14 DEF d
-----------------------------------------------------------------------------
(* The theorems *)

\* Nobody is steady and nobody works at the beginning.
LEMMA InitIInv ==
  ASSUME Init
  PROVE  IInv
<1>1. TypeOK
  <2>1. cursor \in [cycle : Cycles \cup {NoCycle}, at : Offsets, owner : Workers \cup {Nobody}, live : BOOLEAN]
    BY OffsetsAreNumbers DEF Init, Free
  <2>2. \A w \in Workers : worker[w].pc /= "write"
    BY DEF Init, Idle
  <2> QED BY <2>1, <2>2, BoundsAssumption DEF Init, TypeOK, Free, Holding
<1>2. OpenUpsertKnows /\ PurgedStaysOut /\ CheckpointOnCourse /\ WorkersOnCourse
  BY DEF Init, Free, Idle, OpenUpsertKnows, Holding, PurgedStaysOut, CheckpointOnCourse,
         WorkersOnCourse, OnCourse
<1> QED BY <1>1, <1>2 DEF IInv

\* Every step keeps the invariant.
LEMMA NextIInv ==
  ASSUME IInv, [Next]_vars
  PROVE  IInv'
<1>1. ASSUME NEW p \in People, Touch(p) PROVE IInv'
  BY <1>1, TouchStep
<1>2. ASSUME NEW p \in People, Drop(p) PROVE IInv'
  BY <1>2, DropStep
<1>3. ASSUME NEW p \in Deleted, Purge(p) PROVE IInv'
  BY <1>3, PurgeStep
<1>4. ASSUME Tick PROVE IInv'
  BY <1>4, TickStep
<1>5. ASSUME LoseCursor \/ LeaseExpires PROVE IInv'
  BY <1>5, LeaseStep
<1>6. ASSUME NEW w \in Workers, Work(w) PROVE IInv'
  <2>1. ASSUME NEW j \in Jobs, Take(w, j) PROVE IInv'
    BY <2>1, TakeStep
  <2>2. ASSUME NEW j \in Jobs, Coalesce(w, j) PROVE IInv'
    BY <2>2, CoalesceStep
  <2>3. ASSUME Step(w) PROVE IInv'
    BY <2>3, ReadStep, OpenUpsertStep, CommitUpsertStep, FinalizeStep, CommitCursorStep,
       CompleteStep, LoseStep DEF Step
  <2> QED BY <1>6, <2>1, <2>2, <2>3 DEF Work
<1>7. ASSUME NEW w \in Workers, Fail(w) \/ Crash(w) \/ LoseJob(w) PROVE IInv'
  BY <1>7, LoseStep, CrashStep, LoseJobStep
<1>8. CASE UNCHANGED vars
  <2>1. UNCHANGED <<list, row, suppressed, cursor, queue, worker, changes, faults, steady>>
    BY <1>8 DEF vars
  <2>2. TypeOK /\ TypeOK'
    BY <2>1, TypesNext DEF IInv, TypeOK, Holding, Listed
  <2>3. OpenUpsertKnows' /\ PurgedStaysOut'
    BY <2>1 DEF IInv, OpenUpsertKnows, Holding, PurgedStaysOut
  <2> QED BY <2>1, <2>2, <2>3, StillKeeps, WorldStep
<1> QED BY <1>1, <1>2, <1>3, <1>4, <1>5, <1>6, <1>7, <1>8 DEF Next, Paraform

\* The inductive invariant holds in every behaviour.
THEOREM Invariant == Spec => []IInv
<1>1. Init => IInv
  BY InitIInv
<1>2. IInv /\ [Next]_vars => IInv'
  BY NextIInv
<1> QED BY <1>1, <1>2, PTL DEF Spec

\* Every state is of the types of TypeOK, and while an upsert's transaction is
\* open its worker has the cursor.
THEOREM TypeCorrect == Spec => []TypeOK
<1>1. IInv => TypeOK
  BY DEF IInv
<1> QED BY <1>1, Invariant, PTL

\* The index never has a row for a purged candidate.
THEOREM PurgedStaysOutHolds == Spec => []PurgedStaysOut
<1>1. IInv => PurgedStaysOut
  BY DEF IInv
<1> QED BY <1>1, Invariant, PTL

\* Who takes a row out of the index is a cycle that ends, and it has stamped
\* everybody steady.
LEMMA SteadyStep ==
  ASSUME IInv, [Next]_vars, NEW p \in steady, Active(p), p \notin suppressed'
  PROVE  row'[p] /= Inactive
<1>0. /\ p \in People /\ row[p] /= Inactive /\ Inactive \notin Cycles /\ TypeOK
      /\ row \in [People -> Cycles \cup {Absent, Inactive, Earlier}]
  <2>1. TypeOK
    BY DEF IInv
  <2> QED BY <2>1, ListIsSequence, CyclesAssumption DEF TypeOK, Listed, ToSet, Active
<1>1. CASE row' = row
  BY <1>0, <1>1
<1>2. ASSUME NEW q \in Deleted, Purge(q) PROVE row'[p] /= Inactive
  BY <1>0, <1>2 DEF Purge, Inactive, Absent
<1>3. ASSUME NEW w \in Workers, NEW j \in Jobs, Take(w, j) PROVE row'[p] /= Inactive
  BY <1>0, <1>3 DEF Take, Inactive, Earlier
<1>4. ASSUME NEW w \in Workers, CommitUpsert(w) PROVE row'[p] /= Inactive
  <2>1. worker[w].cycle \in Cycles
    BY <1>0, <1>4, Executing DEF CommitUpsert, Holding, Executions
  <2> QED BY <1>0, <1>4, <2>1 DEF CommitUpsert
<1>5. ASSUME NEW w \in Workers, Finalize(w) PROVE row'[p] /= Inactive
  <2>1. p \notin suppressed
    BY <1>5 DEF Finalize
  <2> QED BY <1>0, <1>5, <2>1, FinalizeStep
<1> QED
  BY <1>1, <1>2, <1>3, <1>4, <1>5
  DEF Next, Paraform, Touch, Drop, Tick, Work, Step, Coalesce, Read, OpenUpsert, CommitCursor,
      Complete, Lose, Fail, GiveUp, Crash, LoseJob, LoseCursor, LeaseExpires, vars

\* No cycle deactivates a candidate who was listed since it began, did not
\* change, and had nobody leave in front of him.
THEOREM SteadyStayActiveHolds == Spec => SteadyStayActive
<1>1. IInv /\ [Next]_vars
        => [\A p \in steady : Active(p) /\ p \notin suppressed' => row'[p] /= Inactive]_vars
  BY SteadyStep
<1> QED BY <1>1, Invariant, PTL DEF Spec, SteadyStayActive
====
