--------------------------- MODULE CasePurgeProofs ---------------------------
(***************************************************************************)
(* What the purge of cases promises, for all cases, e-mails and executors:  *)
(* KeptCasesAreWhole.  An executor that lost its lease goes on deleting the *)
(* objects of its plan, so the invariant says of every planned object, and  *)
(* of every one that is gone, that no case will ever need it again: such a  *)
(* case is doomed, and stays so, whatever state its row is put back to.     *)
(* From the invariant it follows that the module implements                 *)
(* RecoverableDeletion: a recruiter sees a deletion that can be taken back  *)
(* whole or not at all.                                                     *)
(***************************************************************************)
EXTENDS CasePurge, TLAPS

\* The deletion cannot be taken back any more, or it was.
Over(d) ==
  \/ Doomed(d[1])
  \/ deletion[d].state \in {"restored", "manifest_purging", "manifest_purged"}

\* What may be deleted from the blob store.
Expendable(k) ==
  /\ \A c \in Cases : k = OfCase(c) => Doomed(c)
  /\ \A s \in Sources : k = Body(s) => \A c \in Cases : <<c, s>> \in Links => Doomed(c)
  /\ \A d \in Deletions : k = Manifest(d) => Over(d)

\* A case is hidden by one deletion at a time.
OneDeletion ==
  \A c \in Cases :
    /\ \A n, m \in Numbers(c) : Pending(<<c, n>>) /\ Pending(<<c, m>>) => n = m
    /\ case[c] = "visible" => \A n \in Numbers(c) : ~Pending(<<c, n>>)

\* Every object that is missing can be spared; the manifests of deletions that
\* never were are not missing.
StoreIsWhole ==
  /\ \A c \in Cases : OfCase(c) \in store \/ Doomed(c)
  /\ \A s \in Sources : \/ Body(s) \in store
                        \/ \A c \in Cases : <<c, s>> \in Links => Doomed(c)
  /\ \A d \in Deletions : \/ Manifest(d) \in store
                          \/ deletion[d].state = "absent"
                          \/ Over(d)

\* Who claimed a deletion works on one that is over, lease or not, and plans
\* only what can be spared.
PlansAreExpendable ==
  \A e \in Executors : executor[e] /= Idle =>
    /\ executor[e].lane = "case" => Doomed(executor[e].deletion[1])
    /\ executor[e].lane = "manifest" => ~Pending(executor[e].deletion)
    /\ deletion[executor[e].deletion].state /= "absent"
    /\ \A k \in executor[e].keys : Expendable(k)

IInv ==
  /\ TypeOK
  /\ OneDeletion
  /\ StoreIsWhole
  /\ PlansAreExpendable
-----------------------------------------------------------------------------
(* Types *)

Row == [state : States, due : BOOLEAN, owner : Executors \cup {NoExecutor},
        live : BOOLEAN, token : 0 .. MaxToken]

Work == [pc : {"claimed", "deleting", "failing"}, lane : DOMAIN Lanes,
         deletion : Deletions, token : 1 .. MaxToken, keys : SUBSET Objects]

\* A row has a lease exactly while it is claimed, and is claimed when it is due.
Leased(row) ==
  /\ row.state \in Claimed <=> row.owner /= NoExecutor
  /\ row.live => row.owner /= NoExecutor
  /\ row.state \in Claimed => row.due

\* TypeOK, in terms of the rows and of the work of the executors.
LEMMA Types ==
  TypeOK <=> /\ case \in [Cases -> {"visible", "hidden"}]
             /\ deletion \in [Deletions -> Row] /\ \A d \in Deletions : Leased(deletion[d])
             /\ store \subseteq Objects
             /\ executor \in [Executors -> {Idle} \cup Work]
             /\ faults \in 0 .. MaxFaults
BY DEF TypeOK, Row, Leased, Work

\* The same of the next state.
LEMMA TypesNext ==
  ASSUME case' \in [Cases -> {"visible", "hidden"}],
         deletion' \in [Deletions -> Row], \A d \in Deletions : Leased(deletion'[d]),
         store' \subseteq Objects,
         executor' \in [Executors -> {Idle} \cup Work],
         faults' \in 0 .. MaxFaults
  PROVE  TypeOK'
BY DEF TypeOK, Row, Leased, Work

\* A row that is not claimed has the token 0.
LEMMA NoToken == 0 \in 0 .. MaxToken
BY BoundsAssumption

\* What goes wrong is counted up to the bound.
LEMMA FaultsAreBounded ==
  ASSUME TypeOK, UNCHANGED faults \/ Fault PROVE faults' \in 0 .. MaxFaults
BY BoundsAssumption DEF TypeOK, Fault

\* A deletion is a case and a number.
LEMMA DeletionsAre ==
  /\ \A c \in Cases : \A n \in Numbers(c) : <<c, n>> \in Deletions
  /\ \A d \in Deletions : d[1] \in Cases /\ d[2] \in Numbers(d[1]) /\ d = <<d[1], d[2]>>
BY DEF Deletions, Numbers

\* Objects of different kinds differ.
LEMMA ObjectsDiffer ==
  /\ \A c, x : OfCase(c) = OfCase(x) => c = x
  /\ \A s, x : Body(s) = Body(x) => s = x
  /\ \A d, x : Manifest(d) = Manifest(x) => d = x
  /\ \A c, d, s : OfCase(c) /= Manifest(d) /\ OfCase(c) /= Body(s) /\ Manifest(d) /= Body(s)
BY DEF OfCase, Body, Manifest

\* The two lanes.
LEMMA LanesAre ==
  /\ DOMAIN Lanes = {"case", "manifest"}
  /\ Lanes["case"].from = "soft_deleted" /\ Lanes["case"].claimed = "purging"
  /\ Lanes["manifest"].from = "restored" /\ Lanes["manifest"].claimed = "manifest_purging"
BY DEF Lanes

\* Nothing was deleted yet, so that nothing is missing.
LEMMA InitIInv == Init => IInv
<1> SUFFICES ASSUME Init PROVE IInv
  OBVIOUS
<1>1. Absent \in Row /\ Leased(Absent) /\ Absent.state = "absent"
  BY ExecutorsAssumption, BoundsAssumption DEF Absent, Row, States, Leased, Claimed
<1>2. /\ \A c \in Cases : case[c] = "visible" /\ OfCase(c) \in store
      /\ \A s \in Sources : Body(s) \in store
      /\ \A d \in Deletions : deletion[d] = Absent /\ Manifest(d) \notin store
      /\ \A e \in Executors : executor[e] = Idle
  BY ObjectsDiffer DEF Init
<1>3. TypeOK
  BY <1>1, BoundsAssumption, Types DEF Init, Objects
<1>4. OneDeletion
  BY <1>1, <1>2, DeletionsAre DEF OneDeletion, Pending
<1>5. StoreIsWhole
  BY <1>1, <1>2 DEF StoreIsWhole
<1>6. PlansAreExpendable
  BY <1>2 DEF PlansAreExpendable
<1> QED
  BY <1>3, <1>4, <1>5, <1>6 DEF IInv

-----------------------------------------------------------------------------
(* What no step takes back *)

\* A step that brings no deletion back whose window has closed.
Irrevocable ==
  \A d \in Deletions :
    /\ Pending(d) /\ deletion[d].due => Pending(d)' /\ deletion'[d].due
    /\ deletion[d].state \in {"restored", "manifest_purging", "manifest_purged"} =>
         deletion'[d].state \in {"restored", "manifest_purging", "manifest_purged"}

\* What was doomed, over or expendable stays so.
LEMMA DoomStays ==
  ASSUME Irrevocable
  PROVE  /\ \A c \in Cases : Doomed(c) => Doomed(c)'
         /\ \A d \in Deletions : Over(d) => Over(d)'
         /\ \A k : Expendable(k) => Expendable(k)'
<1>1. ASSUME NEW c \in Cases, Doomed(c) PROVE Doomed(c)'
  <2>1. PICK n \in Numbers(c) : Pending(<<c, n>>) /\ deletion[<<c, n>>].due
    BY <1>1 DEF Doomed
  <2>2. Pending(<<c, n>>)' /\ deletion'[<<c, n>>].due
    BY <2>1, DeletionsAre DEF Irrevocable
  <2> QED
    BY <2>2 DEF Doomed, Numbers
<1>2. ASSUME NEW d \in Deletions, Over(d) PROVE Over(d)'
  BY <1>1, <1>2, DeletionsAre DEF Over, Irrevocable
<1>3. ASSUME NEW k, Expendable(k) PROVE Expendable(k)'
  BY <1>1, <1>2, <1>3 DEF Expendable
<1> QED
  BY <1>1, <1>2, <1>3

\* A visible case is not doomed, nor is one that may be restored.
LEMMA KeptIsNotDoomed ==
  ASSUME IInv, NEW c \in Cases
  PROVE  /\ case[c] = "visible" => ~Doomed(c)
         /\ \A n \in Numbers(c) : Recoverable(<<c, n>>) => ~Doomed(c) /\ ~Over(<<c, n>>)
<1>1. case[c] = "visible" => ~Doomed(c)
  BY DEF IInv, OneDeletion, Doomed
<1>2. ASSUME NEW n \in Numbers(c), Recoverable(<<c, n>>) PROVE ~Doomed(c)
  BY <1>2 DEF IInv, OneDeletion, Doomed, Recoverable, Pending
<1> QED
  BY <1>1, <1>2 DEF Over, Recoverable
-----------------------------------------------------------------------------
(* The steps of the executors and of the clock *)

\* What PlansAreExpendable says of one executor's work.
SoundWork(w) ==
  /\ w.lane = "case" => Doomed(w.deletion[1])
  /\ w.lane = "manifest" => ~Pending(w.deletion)
  /\ deletion[w.deletion].state /= "absent"
  /\ \A k \in w.keys : Expendable(k)

\* The work that an executor has is sound.
LEMMA OldWorkIsSound ==
  ASSUME IInv, NEW e \in Executors, executor[e] /= Idle
  PROVE  SoundWork(executor[e])
BY DEF IInv, PlansAreExpendable, SoundWork

\* A step that leaves the cases alone, deletes only what can be spared, and keeps
\* who is pending, keeps the invariant.
LEMMA LaneStep ==
  ASSUME IInv, TypeOK', UNCHANGED case, store' \subseteq store,
         \A k \in store \ store' : Expendable(k),
         \A d \in Deletions :
           /\ Pending(d)' <=> Pending(d)
           /\ Pending(d) /\ deletion[d].due => deletion'[d].due
           /\ deletion'[d].state = "absent" <=> deletion[d].state = "absent",
         \A e \in Executors : executor'[e] = Idle \/ SoundWork(executor'[e])
  PROVE  IInv'
<1>0. \A d \in Deletions : deletion[d].state \in States /\ deletion'[d].state \in States
  BY DEF IInv, TypeOK
<1>1. Irrevocable
  BY <1>0 DEF Irrevocable, States, Claimed, Pending
<1>2. /\ \A c \in Cases : Doomed(c) => Doomed(c)'
      /\ \A d \in Deletions : Over(d) => Over(d)'
      /\ \A k : Expendable(k) => Expendable(k)'
  BY <1>1, DoomStays
<1>3. OneDeletion'
  BY <1>0, DeletionsAre DEF IInv, OneDeletion, Numbers
<1>4. StoreIsWhole'
  <2>1. ASSUME NEW c \in Cases PROVE OfCase(c) \in store' \/ Doomed(c)'
    BY <1>2 DEF IInv, StoreIsWhole, Expendable
  <2>2. ASSUME NEW s \in Sources
        PROVE  Body(s) \in store' \/ \A c \in Cases : <<c, s>> \in Links => Doomed(c)'
    BY <1>2 DEF IInv, StoreIsWhole, Expendable
  <2>3. ASSUME NEW d \in Deletions
        PROVE  Manifest(d) \in store' \/ deletion'[d].state = "absent" \/ Over(d)'
    BY <1>2 DEF IInv, StoreIsWhole, Expendable
  <2> QED
    BY <2>1, <2>2, <2>3 DEF StoreIsWhole
<1>5. \A e \in Executors :
        executor'[e] /= Idle =>
          executor'[e].deletion \in Deletions /\ executor'[e].deletion[1] \in Cases
  BY DeletionsAre DEF TypeOK
<1>6. PlansAreExpendable'
  <2> SUFFICES ASSUME NEW e \in Executors, (executor[e] /= Idle)'
               PROVE  (/\ executor[e].lane = "case" => Doomed(executor[e].deletion[1])
                       /\ executor[e].lane = "manifest" => ~Pending(executor[e].deletion)
                       /\ deletion[executor[e].deletion].state /= "absent"
                       /\ \A k \in executor[e].keys : Expendable(k))'
    BY DEF PlansAreExpendable
  <2>1. SoundWork(executor'[e])
    OBVIOUS
  <2>2. PICK c \in Cases, d \in Deletions : c = executor'[e].deletion[1] /\ d = executor'[e].deletion
    BY <1>5
  <2>3. executor'[e].lane = "case" => Doomed(c)'
    BY <1>2, <2>1, <2>2 DEF SoundWork
  <2>4. (executor[e].lane = "case" => Doomed(executor[e].deletion[1]))'
    BY <2>2, <2>3 DEF Doomed, Numbers
  <2>5. (executor[e].lane = "manifest" => ~Pending(executor[e].deletion))'
    BY <2>1, <2>2 DEF SoundWork, Pending
  <2>6. (deletion[executor[e].deletion].state /= "absent")'
    BY <2>1, <2>2 DEF SoundWork
  <2>7. (\A k \in executor[e].keys : Expendable(k))'
    BY <1>2, <2>1 DEF SoundWork
  <2> QED
    BY <2>4, <2>5, <2>6, <2>7
<1> QED
  BY <1>3, <1>4, <1>6 DEF IInv

\* An executor that goes idle leaves the others to their work.
LEMMA StopKeepsWork ==
  ASSUME IInv, NEW e \in Executors,
         executor' = [executor EXCEPT ![e] = Idle]
  PROVE  /\ executor' \in [Executors -> {Idle} \cup Work]
         /\ \A x \in Executors : executor'[x] = Idle \/ SoundWork(executor'[x])
<1>1. executor \in [Executors -> {Idle} \cup Work]
  BY Types DEF IInv
<1>2. \A x \in Executors : executor'[x] = IF x = e THEN Idle ELSE executor[x]
  BY <1>1
<1> QED
  BY <1>1, <1>2, OldWorkIsSound

\* An executor that takes up sound work leaves the others to theirs.
LEMMA WorkKeepsWork ==
  ASSUME IInv, NEW e \in Executors, NEW w \in Work, SoundWork(w),
         executor' = [executor EXCEPT ![e] = w]
  PROVE  /\ executor' \in [Executors -> {Idle} \cup Work]
         /\ \A x \in Executors : executor'[x] = Idle \/ SoundWork(executor'[x])
<1>1. executor \in [Executors -> {Idle} \cup Work]
  BY Types DEF IInv
<1>2. \A x \in Executors : executor'[x] = IF x = e THEN w ELSE executor[x]
  BY <1>1
<1> QED
  BY <1>1, <1>2, OldWorkIsSound

\* Whoever claims a deletion of the case lane finds its case doomed.
LEMMA ClaimKeepsIInv ==
  ASSUME IInv, NEW e \in Executors, NEW lane \in DOMAIN Lanes, NEW d \in Deletions,
         Claim(e, lane, d)
  PROVE  IInv'
<1> DEFINE token == CHOOSE t \in Unused(d) : TRUE
           claimed == Lanes[lane].claimed
           row == [deletion[d] EXCEPT !.state = claimed, !.owner = e, !.live = TRUE, !.token = token]
           w == [pc |-> "claimed", lane |-> lane, deletion |-> d, token |-> token, keys |-> {}]
<1>0. /\ deletion \in [Deletions -> Row] /\ \A x \in Deletions : Leased(deletion[x])
      /\ deletion[d] \in Row
  BY Types DEF IInv
<1>1. /\ Claimable(lane, d) /\ Unused(d) /= {}
      /\ deletion' = [deletion EXCEPT ![d].state = claimed, ![d].owner = e,
                                      ![d].live = TRUE, ![d].token = token]
      /\ executor' = [executor EXCEPT ![e] = w]
      /\ UNCHANGED <<case, store, faults>>
  BY DEF Claim
<1>2. deletion' = [deletion EXCEPT ![d] = row]
  BY <1>0, <1>1
<1>3. token \in 1 .. MaxToken /\ token \in 0 .. MaxToken
  <2>1. token \in Unused(d)
    BY <1>1
  <2>2. Unused(d) \subseteq 1 .. MaxToken
    BY DEF Unused
  <2> QED
    BY <2>1, <2>2, BoundsAssumption
<1>4. claimed \in States /\ claimed \in Claimed
  BY LanesAre DEF States, Claimed
<1>5. row \in Row /\ row.state = claimed /\ row.due = deletion[d].due /\ row.owner = e
  <2> HIDE DEF token, claimed
  <2> QED
    BY <1>0, <1>3, <1>4 DEF Row
<1>6. Leased(row)
  BY <1>1, <1>4, <1>5, ExecutorsAssumption DEF Leased, Claimable
<1> HIDE DEF row
<1>7. deletion' \in [Deletions -> Row] /\ \A x \in Deletions : Leased(deletion'[x])
  BY <1>0, <1>2, <1>5, <1>6
<1>8. /\ deletion[d].due
      /\ lane = "case" => deletion[d].state \in {"soft_deleted", "purging"} /\ claimed = "purging"
      /\ lane = "manifest" =>
           deletion[d].state \in {"restored", "manifest_purging"} /\ claimed = "manifest_purging"
      /\ lane \in {"case", "manifest"}
  BY <1>1, LanesAre DEF Claimable
<1>9. w \in Work
  BY <1>3 DEF Work
<1>10. SoundWork(w)
  BY <1>8, DeletionsAre DEF SoundWork, Doomed, Pending
<1>11. /\ executor' \in [Executors -> {Idle} \cup Work]
       /\ \A x \in Executors : executor'[x] = Idle \/ SoundWork(executor'[x])
  BY <1>1, <1>9, <1>10, WorkKeepsWork
<1>12. TypeOK'
  BY <1>1, <1>7, <1>11, Types, TypesNext DEF IInv
<1>13. \A x \in Deletions :
         /\ Pending(x)' <=> Pending(x)
         /\ Pending(x) /\ deletion[x].due => deletion'[x].due
         /\ deletion'[x].state = "absent" <=> deletion[x].state = "absent"
  BY <1>0, <1>2, <1>5, <1>8 DEF Pending
<1> QED
  BY <1>1, <1>11, <1>12, <1>13, LaneStep

\* An executor at work has work.
LEMMA AtWork ==
  ASSUME IInv, NEW e \in Executors, executor[e] /= Idle
  PROVE  /\ executor[e] \in Work /\ executor[e].deletion \in Deletions
         /\ executor[e].deletion[1] \in Cases
         /\ deletion[executor[e].deletion] \in Row /\ Leased(deletion[executor[e].deletion])
BY Types, DeletionsAre DEF IInv, Work

\* The rows, when no row changes.
LEMMA SameRows ==
  ASSUME IInv, UNCHANGED deletion
  PROVE  /\ deletion' \in [Deletions -> Row] /\ \A d \in Deletions : Leased(deletion'[d])
         /\ \A d \in Deletions :
              /\ Pending(d)' <=> Pending(d)
              /\ Pending(d) /\ deletion[d].due => deletion'[d].due
              /\ deletion'[d].state = "absent" <=> deletion[d].state = "absent"
BY Types DEF IInv, Pending

\* What is planned can be spared.
LEMMA PlannedIsSound ==
  ASSUME IInv, NEW e \in Executors, executor[e].pc = "claimed", Holds(e),
         NEW w, w = [executor[e] EXCEPT !.pc = "deleting",
                                        !.keys = Planned(executor[e].lane, executor[e].deletion)]
  PROVE  w \in Work /\ SoundWork(w)
<1> DEFINE d == executor[e].deletion
           lane == executor[e].lane
           c == d[1]
           keys == Planned(lane, d)
<1>1. executor[e] \in Work /\ d \in Deletions /\ c \in Cases /\ SoundWork(executor[e])
  BY AtWork, OldWorkIsSound DEF Idle
<1>2. lane \in {"case", "manifest"} /\ d = <<c, d[2]>> /\ d[2] \in Numbers(c)
  BY <1>1, LanesAre, DeletionsAre DEF Work
<1>3. CASE lane = "manifest"
  <2>1. keys = {Manifest(d)}
    BY <1>3 DEF Planned
  <2>2. deletion[d].state = "manifest_purging"
    BY <1>3, LanesAre DEF Holds, Owns
  <2>3. Expendable(Manifest(d))
    BY <2>2, ObjectsDiffer DEF Expendable, Over
  <2>4. Manifest(d) \in Objects
    BY <1>1 DEF Objects
  <2>5. w \in Work /\ w.lane = lane /\ w.deletion = d /\ w.keys = keys
    BY <1>1, <2>1, <2>4 DEF Work
  <2> HIDE DEF keys, d
  <2>6. SoundWork(w)
    BY <1>1, <1>3, <2>1, <2>2, <2>3, <2>5 DEF SoundWork, Pending, d
  <2> QED
    BY <2>5, <2>6
<1>4. CASE lane = "case"
  <2> DEFINE history == {n \in 1 .. MaxDeletions[c] :
                           deletion[<<c, n>>].state \notin {"absent", "manifest_purged"}}
  <2>1. keys = {OfCase(c)} \cup {Body(s) : s \in Deletable(c)} \cup {Manifest(<<c, n>>) : n \in history}
    BY <1>4 DEF Planned
  <2>2. Doomed(c)
    BY <1>1, <1>4 DEF SoundWork
  <2>3. Expendable(OfCase(c))
    BY <2>2, ObjectsDiffer DEF Expendable
  <2>4. ASSUME NEW s \in Deletable(c) PROVE Expendable(Body(s)) /\ Body(s) \in Objects
    <3>1. s \in Sources
      BY DEF Deletable
    <3>2. \A x \in Cases : <<x, s>> \in Links => Doomed(x)
      BY <2>2 DEF Deletable
    <3>3. \A x \in Sources : Body(s) = Body(x) => x = s
      BY ObjectsDiffer
    <3> QED
      BY <3>1, <3>2, <3>3, ObjectsDiffer DEF Expendable, Objects
  <2>5. ASSUME NEW n \in history PROVE Expendable(Manifest(<<c, n>>)) /\ Manifest(<<c, n>>) \in Objects
    <3>1. <<c, n>> \in Deletions
      BY <1>1, DeletionsAre DEF Numbers
    <3>2. Over(<<c, n>>)
      BY <2>2 DEF Over
    <3>3. \A x \in Deletions : Manifest(<<c, n>>) = Manifest(x) => x = <<c, n>>
      BY ObjectsDiffer
    <3> QED
      BY <3>1, <3>2, <3>3, ObjectsDiffer DEF Expendable, Objects
  <2>6. OfCase(c) \in Objects
    BY <1>1 DEF Objects
  <2>7. keys \subseteq Objects /\ \A k \in keys : Expendable(k)
    BY <2>1, <2>3, <2>4, <2>5, <2>6
  <2>8. w \in Work /\ w.lane = lane /\ w.deletion = d /\ w.keys = keys
    <3> HIDE DEF keys
    <3> QED
      BY <1>1, <2>7 DEF Work, keys
  <2> HIDE DEF keys, c, d, lane
  <2>9. SoundWork(w)
    BY <1>1, <1>4, <2>2, <2>7, <2>8 DEF SoundWork, c, d
  <2> QED
    BY <2>8, <2>9
<1> QED
  BY <1>2, <1>3, <1>4

\* The fence is asked for the plan; a plan is one of its executor's work.
LEMMA PlanKeepsIInv ==
  ASSUME IInv, NEW e \in Executors, Plan(e)
  PROVE  IInv'
<1> DEFINE w == [executor[e] EXCEPT !.pc = "deleting",
                                    !.keys = Planned(executor[e].lane, executor[e].deletion)]
<1>1. executor[e].pc = "claimed" /\ Holds(e) /\ UNCHANGED <<case, deletion, store, faults>>
  BY DEF Plan
<1>2. executor' = [executor EXCEPT ![e] = w]
  BY Types DEF Plan, IInv
<1>3. w \in Work /\ SoundWork(w)
  BY <1>1, PlannedIsSound
<1> HIDE DEF w
<1>4. /\ executor' \in [Executors -> {Idle} \cup Work]
      /\ \A x \in Executors : executor'[x] = Idle \/ SoundWork(executor'[x])
  BY <1>1, <1>2, <1>3, WorkKeepsWork
<1>5. TypeOK'
  BY <1>1, <1>4, SameRows, Types, TypesNext DEF IInv
<1> QED
  BY <1>1, <1>4, <1>5, SameRows, LaneStep

\* What is deleted was planned, by an executor that may have lost its lease.
LEMMA RemoveKeepsIInv ==
  ASSUME IInv, NEW e \in Executors, Remove(e)
  PROVE  IInv'
<1>1. PICK k \in executor[e].keys :
        /\ executor[e].pc = "deleting" /\ store' = store \ {k}
        /\ executor' = [executor EXCEPT ![e].keys = @ \ {k}]
        /\ UNCHANGED <<case, deletion, faults>>
  BY DEF Remove, FirstKey
<1> DEFINE w == [executor[e] EXCEPT !.keys = @ \ {k}]
<1>2. executor[e] \in Work /\ SoundWork(executor[e])
  BY <1>1, AtWork, OldWorkIsSound DEF Idle
<1>3. executor' = [executor EXCEPT ![e] = w]
  BY <1>1, Types DEF IInv
<1>4. /\ w \in Work /\ w.lane = executor[e].lane /\ w.deletion = executor[e].deletion
      /\ w.pc = executor[e].pc /\ w.keys = executor[e].keys \ {k}
  BY <1>2 DEF Work
<1> HIDE DEF w
<1>5. SoundWork(w)
  BY <1>1, <1>2, <1>4 DEF SoundWork
<1>6. /\ executor' \in [Executors -> {Idle} \cup Work]
      /\ \A x \in Executors : executor'[x] = Idle \/ SoundWork(executor'[x])
  BY <1>1, <1>3, <1>4, <1>5, WorkKeepsWork
<1>7. TypeOK'
  BY <1>1, <1>6, SameRows, Types, TypesNext DEF IInv
<1>8. \A x \in store \ store' : Expendable(x)
  BY <1>1, <1>2 DEF SoundWork
<1> QED
  BY <1>1, <1>6, <1>7, <1>8, SameRows, LaneStep

\* An executor that fails, as it does at the end of every purge of a case, or dies.
LEMMA StopKeepsIInv ==
  ASSUME IInv, NEW e \in Executors, FinalizeCase(e) \/ Fails(e) \/ Crash(e)
  PROVE  IInv'
<1>0. faults' \in 0 .. MaxFaults
  BY FaultsAreBounded DEF FinalizeCase, Fails, Crash, IInv
<1>1. CASE FinalizeCase(e) \/ Fails(e)
  <2> DEFINE w == [executor[e] EXCEPT !.pc = "failing"]
  <2>1. executor[e].pc \in {"claimed", "deleting"} /\ UNCHANGED <<case, deletion, store>>
    BY <1>1 DEF FinalizeCase, Fails
  <2>2. executor[e] \in Work /\ SoundWork(executor[e])
    BY <2>1, AtWork, OldWorkIsSound DEF Idle
  <2>3. executor' = [executor EXCEPT ![e] = w]
    BY <1>1, Types DEF IInv, FinalizeCase, Fails
  <2>4. /\ w \in Work /\ w.lane = executor[e].lane /\ w.deletion = executor[e].deletion
        /\ w.pc = "failing" /\ w.keys = executor[e].keys
    BY <2>2 DEF Work
  <2> HIDE DEF w
  <2>5. SoundWork(w)
    BY <2>2, <2>4 DEF SoundWork
  <2>6. /\ executor' \in [Executors -> {Idle} \cup Work]
        /\ \A x \in Executors : executor'[x] = Idle \/ SoundWork(executor'[x])
    BY <2>1, <2>3, <2>4, <2>5, WorkKeepsWork
  <2>7. TypeOK'
    BY <1>0, <2>1, <2>6, SameRows, Types, TypesNext DEF IInv
  <2> QED
    BY <2>1, <2>6, <2>7, SameRows, LaneStep
<1>2. CASE Crash(e)
  <2>1. executor' = [executor EXCEPT ![e] = Idle] /\ UNCHANGED <<case, deletion, store>>
    BY <1>2 DEF Crash
  <2>2. /\ executor' \in [Executors -> {Idle} \cup Work]
        /\ \A x \in Executors : executor'[x] = Idle \/ SoundWork(executor'[x])
    BY <2>1, StopKeepsWork
  <2>3. TypeOK'
    BY <1>0, <2>1, <2>2, SameRows, Types, TypesNext DEF IInv
  <2> QED
    BY <2>1, <2>2, <2>3, SameRows, LaneStep
<1> QED
  BY <1>1, <1>2

\* One row changes: it stays pending or not, and is due if it was; the others stay.
LEMMA RowStep ==
  ASSUME IInv, NEW d \in Deletions, NEW row \in Row, Leased(row),
         deletion' = [deletion EXCEPT ![d] = row], UNCHANGED <<case, store>>,
         faults' \in 0 .. MaxFaults,
         executor' \in [Executors -> {Idle} \cup Work],
         \A x \in Executors : executor'[x] = Idle \/ SoundWork(executor'[x]),
         row.state \in {"soft_deleted", "purging"} <=> Pending(d),
         Pending(d) /\ deletion[d].due => row.due,
         row.state = "absent" <=> deletion[d].state = "absent"
  PROVE  IInv'
<1>1. /\ deletion \in [Deletions -> Row] /\ \A x \in Deletions : Leased(deletion[x])
  BY Types DEF IInv
<1>2. \A x \in Deletions : deletion'[x] = IF x = d THEN row ELSE deletion[x]
  BY <1>1
<1>3. deletion' \in [Deletions -> Row] /\ \A x \in Deletions : Leased(deletion'[x])
  BY <1>1, <1>2
<1>4. TypeOK'
  BY <1>3, Types, TypesNext DEF IInv
<1>5. \A x \in Deletions :
        /\ Pending(x)' <=> Pending(x)
        /\ Pending(x) /\ deletion[x].due => deletion'[x].due
        /\ deletion'[x].state = "absent" <=> deletion[x].state = "absent"
  BY <1>1, <1>2 DEF Pending
<1> QED
  BY <1>4, <1>5, LaneStep

\* The row goes back where it was claimed from, if it is still this claim's.
LEMMA ReleaseKeepsIInv ==
  ASSUME IInv, NEW e \in Executors, Release(e)
  PROVE  IInv'
<1> DEFINE d == executor[e].deletion
           from == Lanes[executor[e].lane].from
           row == [deletion[d] EXCEPT !.state = from, !.owner = NoExecutor, !.live = FALSE, !.token = 0]
<1>1. executor[e] /= Idle /\ executor' = [executor EXCEPT ![e] = Idle]
      /\ UNCHANGED <<case, store, faults>>
  BY DEF Release, Idle
<1>2. /\ executor' \in [Executors -> {Idle} \cup Work]
      /\ \A x \in Executors : executor'[x] = Idle \/ SoundWork(executor'[x])
  BY <1>1, StopKeepsWork
<1>3. executor[e] \in Work /\ d \in Deletions /\ deletion[d] \in Row /\ Leased(deletion[d])
  BY <1>1, AtWork
<1>4. CASE ~Owns(e)
  <2>1. UNCHANGED deletion
    BY <1>4 DEF Release
  <2>2. TypeOK'
    BY <1>1, <1>2, <2>1, SameRows, Types, TypesNext DEF IInv
  <2> QED
    BY <1>1, <1>2, <2>1, <2>2, SameRows, LaneStep
<1>5. CASE Owns(e)
  <2>1. deletion' = [deletion EXCEPT ![d] = row]
    BY <1>3, <1>5, Types DEF Release, GivenUp, IInv
  <2>2. \/ from = "soft_deleted" /\ deletion[d].state = "purging"
        \/ from = "restored" /\ deletion[d].state = "manifest_purging"
    BY <1>3, <1>5, LanesAre DEF Owns, Work
  <2>3. from \in States
    BY <2>2 DEF States
  <2>4. row \in Row /\ row.state = from /\ row.due = deletion[d].due /\ row.owner = NoExecutor /\ ~row.live
    <3> HIDE DEF from
    <3> QED
      BY <1>3, <2>3, NoToken DEF Row
  <2> HIDE DEF row
  <2>5. Leased(row)
    BY <2>2, <2>4 DEF Leased, Claimed
  <2> QED
    BY <1>1, <1>2, <1>3, <2>1, <2>2, <2>4, <2>5, FaultsAreBounded, RowStep DEF Pending, IInv
<1> QED
  BY <1>4, <1>5

\* The manifest lane ends a deletion that was taken back, its manifest deleted.
LEMMA FinalizeManifestKeepsIInv ==
  ASSUME IInv, NEW e \in Executors, FinalizeManifest(e)
  PROVE  IInv'
<1> DEFINE d == executor[e].deletion
           row == [deletion[d] EXCEPT !.state = "manifest_purged", !.owner = NoExecutor, !.live = FALSE,
                                  !.token = 0]
<1>1. /\ executor[e].pc = "deleting" /\ executor[e].lane = "manifest" /\ Holds(e)
      /\ executor' = [executor EXCEPT ![e] = Idle] /\ UNCHANGED <<case, store, faults>>
  BY DEF FinalizeManifest
<1>2. executor[e] \in Work /\ d \in Deletions /\ deletion[d] \in Row
  BY <1>1, AtWork DEF Idle
<1>3. /\ executor' \in [Executors -> {Idle} \cup Work]
      /\ \A x \in Executors : executor'[x] = Idle \/ SoundWork(executor'[x])
  BY <1>1, StopKeepsWork
<1>4. deletion' = [deletion EXCEPT ![d] = row]
  BY <1>2, Types DEF FinalizeManifest, GivenUp, IInv
<1>5. deletion[d].state = "manifest_purging"
  BY <1>1, LanesAre DEF Holds, Owns
<1>6. /\ row \in Row /\ row.state = "manifest_purged" /\ row.due = deletion[d].due
      /\ row.owner = NoExecutor /\ ~row.live
  BY <1>2, NoToken DEF Row, States
<1> HIDE DEF row
<1>7. Leased(row)
  BY <1>6 DEF Leased, Claimed
<1> QED
  BY <1>1, <1>2, <1>3, <1>4, <1>5, <1>6, <1>7, FaultsAreBounded, RowStep DEF Pending, IInv

\* The clock.
LEMMA ClockKeepsIInv ==
  ASSUME IInv, NEW d \in Deletions, WindowCloses(d[1], d[2]) \/ LeaseExpires(d)
  PROVE  IInv'
<1>0. /\ d = <<d[1], d[2]>> /\ deletion \in [Deletions -> Row]
      /\ deletion[d] \in Row /\ Leased(deletion[d])
      /\ executor \in [Executors -> {Idle} \cup Work]
  BY DeletionsAre, Types DEF IInv
<1>1. UNCHANGED <<case, store, executor>>
  BY DEF WindowCloses, LeaseExpires
<1>f. faults' \in 0 .. MaxFaults
  BY FaultsAreBounded DEF WindowCloses, LeaseExpires, IInv
<1>2. /\ executor' \in [Executors -> {Idle} \cup Work]
      /\ \A x \in Executors : executor'[x] = Idle \/ SoundWork(executor'[x])
  BY <1>0, <1>1, OldWorkIsSound
<1>3. CASE WindowCloses(d[1], d[2])
  <2> DEFINE row == [deletion[d] EXCEPT !.due = TRUE]
  <2>1. deletion' = [deletion EXCEPT ![d] = row]
    BY <1>0, <1>3 DEF WindowCloses
  <2>2. /\ row \in Row /\ row.state = deletion[d].state /\ row.due
        /\ row.owner = deletion[d].owner /\ row.live = deletion[d].live
    BY <1>0 DEF Row
  <2> HIDE DEF row
  <2>3. Leased(row)
    BY <1>0, <2>2 DEF Leased
  <2> QED
    BY <1>0, <1>1, <1>f, <1>2, <2>1, <2>2, <2>3, RowStep DEF Pending
<1>4. CASE LeaseExpires(d)
  <2> DEFINE row == [deletion[d] EXCEPT !.live = FALSE]
  <2>1. deletion' = [deletion EXCEPT ![d] = row]
    BY <1>0, <1>4 DEF LeaseExpires
  <2>2. /\ row \in Row /\ row.state = deletion[d].state /\ row.due = deletion[d].due
        /\ row.owner = deletion[d].owner /\ ~row.live
    BY <1>0 DEF Row
  <2> HIDE DEF row
  <2>3. Leased(row)
    BY <1>0, <2>2 DEF Leased
  <2> QED
    BY <1>0, <1>1, <1>f, <1>2, <2>1, <2>2, <2>3, RowStep DEF Pending
<1> QED
  BY <1>3, <1>4
-----------------------------------------------------------------------------
(* The steps that hide and show a case *)

\* The executors keep to what can be spared when nothing is taken back and no
\* deletion of theirs becomes pending.
LEMMA PlansStayExpendable ==
  ASSUME IInv, Irrevocable,
         \A e \in Executors : executor'[e] = Idle \/ executor'[e] = executor[e],
         \A d \in Deletions : deletion[d].state /= "absent" =>
           deletion'[d].state /= "absent" /\ (~Pending(d) => ~Pending(d)')
  PROVE  PlansAreExpendable'
<1> SUFFICES ASSUME NEW e \in Executors, (executor[e] /= Idle)'
             PROVE  (/\ executor[e].lane = "case" => Doomed(executor[e].deletion[1])
                     /\ executor[e].lane = "manifest" => ~Pending(executor[e].deletion)
                     /\ deletion[executor[e].deletion].state /= "absent"
                     /\ \A k \in executor[e].keys : Expendable(k))'
  BY DEF PlansAreExpendable
<1>1. executor'[e] = executor[e] /\ executor[e] /= Idle
  OBVIOUS
<1>2. PICK c \in Cases, d \in Deletions : c = executor[e].deletion[1] /\ d = executor[e].deletion
  BY <1>1, AtWork
<1>3. executor[e].lane = "case" => Doomed(c)'
  BY <1>1, <1>2, DoomStays DEF IInv, PlansAreExpendable
<1>4. (executor[e].lane = "case" => Doomed(executor[e].deletion[1]))'
  BY <1>1, <1>2, <1>3 DEF Doomed, Numbers
<1>5. (executor[e].lane = "manifest" => ~Pending(executor[e].deletion))'
  BY <1>1, <1>2 DEF IInv, PlansAreExpendable, Pending
<1>6. (deletion[executor[e].deletion].state /= "absent")'
  BY <1>1, <1>2 DEF IInv, PlansAreExpendable
<1>7. (\A k \in executor[e].keys : Expendable(k))'
  BY <1>1, DoomStays DEF IInv, PlansAreExpendable
<1> QED
  BY <1>4, <1>5, <1>6, <1>7

\* Only a visible case is deleted, and nobody has plans for one.
LEMMA SoftDeleteKeepsIInv ==
  ASSUME IInv, NEW c \in Cases, NEW n \in Numbers(c), SoftDelete(c, n)
  PROVE  IInv'
<1> DEFINE d == <<c, n>>
           row == [deletion[d] EXCEPT !.state = "soft_deleted"]
<1>0. /\ d \in Deletions /\ case \in [Cases -> {"visible", "hidden"}]
      /\ deletion \in [Deletions -> Row] /\ deletion[d] \in Row
      /\ \A x \in Deletions : Leased(deletion[x])
      /\ executor \in [Executors -> {Idle} \cup Work]
  BY DeletionsAre, Types DEF IInv
<1>1. /\ case[c] = "visible" /\ deletion[d].state = "absent"
      /\ case' = [case EXCEPT ![c] = "hidden"]
      /\ store' = store \cup {Manifest(d)} /\ UNCHANGED <<executor, faults>>
  BY DEF SoftDelete
<1>2. deletion' = [deletion EXCEPT ![d] = row]
  BY <1>0 DEF SoftDelete
<1>3. /\ row \in Row /\ row.state = "soft_deleted" /\ row.due = deletion[d].due
      /\ row.owner = deletion[d].owner /\ row.live = deletion[d].live
  BY <1>0 DEF Row, States
<1> HIDE DEF row
<1>4. Leased(row)
  BY <1>0, <1>1, <1>3 DEF Leased, Claimed
<1>5. \A x \in Deletions : deletion'[x] = IF x = d THEN row ELSE deletion[x]
  BY <1>0, <1>2
<1>6. \A x \in Cases : case'[x] = IF x = c THEN "hidden" ELSE case[x]
  BY <1>0, <1>1
<1>7. TypeOK'
  <2>1. deletion' \in [Deletions -> Row] /\ \A x \in Deletions : Leased(deletion'[x])
    BY <1>0, <1>2, <1>3, <1>4, <1>5
  <2>2. Manifest(d) \in Objects
    BY <1>0 DEF Objects
  <2> QED
    BY <1>0, <1>1, <2>1, <2>2, Types, TypesNext DEF IInv
<1>8. ~Doomed(c)
  BY <1>1, KeptIsNotDoomed
<1>9. Irrevocable
  BY <1>0, <1>1, <1>3, <1>5, <1>6 DEF Irrevocable, Pending
<1>10. OneDeletion'
  <2>1. \A x \in Cases : \A m \in Numbers(x) :
          /\ <<x, m>> \in Deletions /\ (<<x, m>> = d <=> x = c /\ m = n)
    BY DeletionsAre
  <2>2. \A m \in Numbers(c) : ~Pending(<<c, m>>)
    BY <1>1 DEF IInv, OneDeletion
  <2> QED
    BY <1>1, <1>3, <1>5, <1>6, <2>1, <2>2 DEF IInv, OneDeletion, Pending, Numbers
<1>11. StoreIsWhole'
  <2>1. /\ \A x \in Cases : Doomed(x) => Doomed(x)'
        /\ \A x \in Deletions : Over(x) => Over(x)'
    BY <1>9, DoomStays
  <2>2. \A x \in Deletions :
          Manifest(x) \in store' \/ deletion'[x].state = "absent" \/ Over(x)'
    BY <1>1, <1>5, <2>1 DEF IInv, StoreIsWhole
  <2> QED
    BY <1>1, <2>1, <2>2 DEF IInv, StoreIsWhole
<1>12. PlansAreExpendable'
  BY <1>1, <1>3, <1>5, <1>9, PlansStayExpendable DEF Pending
<1> QED
  BY <1>7, <1>10, <1>11, <1>12 DEF IInv

\* Only a case whose window is open is taken back.
LEMMA RestoreKeepsIInv ==
  ASSUME IInv, NEW d \in Deletions, Restore(d)
  PROVE  IInv'
<1> DEFINE c == d[1]
           row == [deletion[d] EXCEPT !.state = "restored"]
<1>0. /\ c \in Cases /\ d = <<c, d[2]>> /\ d[2] \in Numbers(c)
      /\ case \in [Cases -> {"visible", "hidden"}]
      /\ deletion \in [Deletions -> Row] /\ deletion[d] \in Row
      /\ \A x \in Deletions : Leased(deletion[x])
      /\ executor \in [Executors -> {Idle} \cup Work]
  BY DeletionsAre, Types DEF IInv
<1>1. /\ case[c] = "hidden" /\ deletion[d].state = "soft_deleted" /\ ~deletion[d].due
      /\ case' = [case EXCEPT ![c] = "visible"] /\ UNCHANGED <<store, executor, faults>>
  BY DEF Restore, Recoverable
<1>2. deletion' = [deletion EXCEPT ![d] = row]
  BY <1>0 DEF Restore
<1>3. /\ row \in Row /\ row.state = "restored" /\ row.due = deletion[d].due
      /\ row.owner = deletion[d].owner /\ row.live = deletion[d].live
  BY <1>0 DEF Row, States
<1> HIDE DEF row
<1>4. Leased(row)
  BY <1>0, <1>1, <1>3 DEF Leased, Claimed
<1>5. \A x \in Deletions : deletion'[x] = IF x = d THEN row ELSE deletion[x]
  BY <1>0, <1>2
<1>6. \A x \in Cases : case'[x] = IF x = c THEN "visible" ELSE case[x]
  BY <1>0, <1>1
<1>7. TypeOK'
  <2>1. deletion' \in [Deletions -> Row] /\ \A x \in Deletions : Leased(deletion'[x])
    BY <1>0, <1>2, <1>3, <1>4, <1>5
  <2> QED
    BY <1>0, <1>1, <2>1, Types, TypesNext DEF IInv
<1>8. Irrevocable
  BY <1>0, <1>1, <1>3, <1>5, <1>6 DEF Irrevocable, Pending
<1>9. OneDeletion'
  <2>1. \A x \in Cases : \A m \in Numbers(x) :
          /\ <<x, m>> \in Deletions /\ (<<x, m>> = d <=> x = c /\ m = d[2])
    BY <1>0, DeletionsAre
  <2>2. \A m \in Numbers(c) : m /= d[2] => ~Pending(<<c, m>>)
    BY <1>0, <1>1 DEF IInv, OneDeletion, Pending
  <2> HIDE DEF c
  <2> QED
    BY <1>0, <1>1, <1>3, <1>5, <1>6, <2>1, <2>2 DEF IInv, OneDeletion, Pending, Numbers
<1>10. StoreIsWhole'
  <2>1. /\ \A x \in Cases : Doomed(x) => Doomed(x)'
        /\ \A x \in Deletions : Over(x) => Over(x)'
    BY <1>8, DoomStays
  <2>2. \A x \in Deletions :
          Manifest(x) \in store' \/ deletion'[x].state = "absent" \/ Over(x)'
    BY <1>1, <1>3, <1>5, <2>1 DEF IInv, StoreIsWhole, Over
  <2> QED
    BY <1>1, <2>1, <2>2 DEF IInv, StoreIsWhole
<1>11. PlansAreExpendable'
  BY <1>1, <1>3, <1>5, <1>8, PlansStayExpendable DEF Pending
<1> QED
  BY <1>7, <1>9, <1>10, <1>11 DEF IInv
-----------------------------------------------------------------------------
(* The results *)

\* Every step keeps the invariant.
LEMMA NextKeepsIInv == IInv /\ [Next]_vars => IInv'
<1> SUFFICES ASSUME IInv, [Next]_vars PROVE IInv'
  OBVIOUS
<1>1. CASE UNCHANGED vars
  <2>1. UNCHANGED <<case, deletion, store, executor, faults>>
    BY <1>1 DEF vars
  <2>2. TypeOK'
    BY <2>1, Types, TypesNext DEF IInv
  <2>3. \A x \in Executors : executor'[x] = Idle \/ SoundWork(executor'[x])
    BY <2>1, OldWorkIsSound
  <2> QED
    BY <2>1, <2>2, <2>3, SameRows, LaneStep
<1>2. ASSUME NEW c \in Cases, NEW n \in 1 .. MaxDeletions[c], SoftDelete(c, n) \/ WindowCloses(c, n)
      PROVE  IInv'
  <2>1. n \in Numbers(c) /\ <<c, n>> \in Deletions /\ <<c, n>>[1] = c /\ <<c, n>>[2] = n
    BY DeletionsAre DEF Numbers
  <2> QED
    BY <1>2, <2>1, SoftDeleteKeepsIInv, ClockKeepsIInv
<1>3. ASSUME NEW d \in Deletions, Restore(d) \/ LeaseExpires(d) PROVE IInv'
  BY <1>3, RestoreKeepsIInv, ClockKeepsIInv
<1>4. ASSUME NEW d \in Deletions, NEW e \in Executors, NEW lane \in DOMAIN Lanes, Claim(e, lane, d)
      PROVE  IInv'
  BY <1>4, ClaimKeepsIInv
<1>5. ASSUME NEW e \in Executors,
             \/ Plan(e) \/ Remove(e) \/ FinalizeManifest(e) \/ FinalizeCase(e)
             \/ Fails(e) \/ Release(e) \/ Crash(e)
      PROVE  IInv'
  BY <1>5, PlanKeepsIInv, RemoveKeepsIInv, FinalizeManifestKeepsIInv, StopKeepsIInv, ReleaseKeepsIInv
<1> QED
  BY <1>1, <1>2, <1>3, <1>4, <1>5 DEF Next

\* Nothing is missing, or will be missing, that a case may still need.
THEOREM Invariant == Spec => []IInv
BY InitIInv, NextKeepsIInv, PTL DEF Spec

\* Rows, leases and executors have their types, and a row has a purge lease
\* exactly while it is claimed (case_deletions_purge_lease_check).
THEOREM TypeCorrect == Spec => []TypeOK
<1>1. IInv => TypeOK
  BY DEF IInv
<1> QED
  BY <1>1, Invariant, PTL

\* A case that is visible or may still be restored has its objects, the bodies of
\* its e-mails, and the manifest that restores it, for all executors and however
\* the cases share their e-mails.
THEOREM KeptCasesAreWholeHolds == Spec => []KeptCasesAreWhole
<1>1. IInv => KeptCasesAreWhole
  <2> SUFFICES ASSUME IInv, NEW c \in Cases,
                      case[c] = "visible" \/ \E n \in 1 .. MaxDeletions[c] : Recoverable(<<c, n>>)
               PROVE  /\ OfCase(c) \in store
                      /\ \A s \in Sources : <<c, s>> \in Links => Body(s) \in store
                      /\ \A n \in 1 .. MaxDeletions[c] :
                           Recoverable(<<c, n>>) => Manifest(<<c, n>>) \in store
    BY DEF KeptCasesAreWhole
  <2>1. ~Doomed(c)
    BY KeptIsNotDoomed DEF Numbers
  <2>2. \A n \in 1 .. MaxDeletions[c] :
          Recoverable(<<c, n>>) => ~Over(<<c, n>>) /\ deletion[<<c, n>>].state /= "absent"
                                   /\ <<c, n>> \in Deletions
    BY KeptIsNotDoomed, DeletionsAre DEF Numbers, Recoverable
  <2> QED
    BY <2>1, <2>2 DEF IInv, StoreIsWhole
<1> QED
  BY <1>1, Invariant, PTL

-----------------------------------------------------------------------------
(* The purge implements RecoverableDeletion *)

\* The window of a deletion nobody asked for has not closed.
NoEarlyWindow == \A d \in Deletions : deletion[d].state = "absent" => ~deletion[d].due

\* softDeleteCase inserts a row with an open window; only the clock closes it.
LEMMA NoEarlyWindowStep == IInv /\ NoEarlyWindow /\ [Next]_vars => NoEarlyWindow'
<1> SUFFICES ASSUME IInv, NoEarlyWindow, [Next]_vars,
                    NEW d \in Deletions, deletion'[d].state = "absent"
             PROVE  deletion[d].state = "absent" /\ deletion'[d].due = deletion[d].due
  BY DEF NoEarlyWindow
<1> DEFINE Same == deletion[d].state = "absent" /\ deletion'[d].due = deletion[d].due
<1>0. deletion \in [Deletions -> Row] /\ deletion[d] \in Row
  BY Types DEF IInv
<1>1. ASSUME NEW c \in Cases, NEW n \in 1 .. MaxDeletions[c], SoftDelete(c, n) \/ WindowCloses(c, n)
      PROVE  Same
  BY <1>0, <1>1 DEF SoftDelete, WindowCloses, Row
<1>2. ASSUME NEW x \in Deletions, Restore(x) \/ LeaseExpires(x) PROVE Same
  BY <1>0, <1>2 DEF Restore, LeaseExpires, Row
<1>3. ASSUME NEW x \in Deletions, NEW e \in Executors, NEW lane \in DOMAIN Lanes, Claim(e, lane, x)
      PROVE  Same
  BY <1>0, <1>3, LanesAre DEF Claim, Row
<1>4. ASSUME NEW e \in Executors, Plan(e) \/ Remove(e) \/ FinalizeCase(e) \/ Fails(e) \/ Crash(e)
      PROVE  Same
  BY <1>4 DEF Plan, Remove, FinalizeCase, Fails, Crash
<1>5. ASSUME NEW e \in Executors, Release(e) PROVE Same
  <2>1. executor[e].lane \in DOMAIN Lanes
    BY <1>5, AtWork DEF Release, Idle, Work
  <2> QED
    BY <1>0, <1>5, <2>1, LanesAre DEF Release, GivenUp, Row
<1>6. ASSUME NEW e \in Executors, FinalizeManifest(e) PROVE Same
  BY <1>0, <1>6 DEF FinalizeManifest, GivenUp, Row
<1>7. CASE UNCHANGED vars
  BY <1>7 DEF vars
<1> QED
  BY <1>1, <1>2, <1>3, <1>4, <1>5, <1>6, <1>7 DEF Next

\* The window of a deletion closes only after it was asked for.
LEMMA NoEarlyWindowHolds == Spec => []NoEarlyWindow
<1>1. Init => NoEarlyWindow
  BY DEF Init, NoEarlyWindow, Absent
<1> QED
  BY <1>1, NoEarlyWindowStep, Invariant, PTL DEF Spec

\* Nothing is missing of a case that is not doomed.
LEMMA NotDoomedIsWhole ==
  ASSUME IInv, NEW c \in Cases, ~Doomed(c) PROVE Whole(c)
<1>1. OfCase(c) \in store
  BY DEF IInv, StoreIsWhole
<1>2. \A s \in Sources : <<c, s>> \in Links => Body(s) \in store
  BY DEF IInv, StoreIsWhole
<1>3. ASSUME NEW n \in Numbers(c), Pending(<<c, n>>) PROVE Manifest(<<c, n>>) \in store
  <2>1. <<c, n>> \in Deletions /\ <<c, n>>[1] = c
    BY DeletionsAre
  <2>2. ~Over(<<c, n>>) /\ deletion[<<c, n>>].state /= "absent"
    BY <1>3, <2>1 DEF Over, Pending
  <2> QED
    BY <2>1, <2>2 DEF IInv, StoreIsWhole
<1> QED
  BY <1>1, <1>2, <1>3 DEF Whole

\* This in a form that can be carried to the next state.
OthersAreWhole == \A c \in Cases : ~Doomed(c) => Whole(c)

\* NotDoomedIsWhole, in the next state.
LEMMA OthersStayWhole == IInv' => OthersAreWhole'
<1>1. IInv => OthersAreWhole
  BY NotDoomedIsWhole DEF OthersAreWhole
<1> QED
  BY <1>1, PTL

\* A step that moves no case: some doomed cases may have lost something.
LEMMA LoseRefines ==
  ASSUME IInv, IInv', \A c \in Cases : Phase(c)' = Phase(c),
         \A c \in Cases : Whole(c)' => Whole(c)
  PROVE  [Promise!Next]_(Promise!vars)
<1> DEFINE ph == [c \in Cases |-> Phase(c)]
           wh == {c \in Cases : Whole(c)}
           lost == {c \in Cases : Whole(c) /\ ~Whole(c)'}
<1>1. ASSUME NEW c \in lost PROVE ph[c] = "doomed"
  <2>1. c \in Cases /\ Whole(c) /\ ~Whole(c)'
    OBVIOUS
  <2>2. Doomed(c)'
    BY <2>1, OthersStayWhole DEF OthersAreWhole
  <2>3. Phase(c)' = "doomed"
    BY <2>2 DEF Phase
  <2> QED
    BY <2>1, <2>3
<1>2. ph' = ph
  OBVIOUS
<1>3. wh' = wh \ lost
  OBVIOUS
<1>4. lost \in SUBSET Cases
  OBVIOUS
<1>5. Promise!Lose(lost)
  BY <1>1, <1>2, <1>3 DEF Promise!Lose
<1> QED
  BY <1>4, <1>5 DEF Promise!Next

\* A step that moves one case, and of which no case lost anything.
LEMMA MoveRefines ==
  ASSUME NEW c \in Cases, NEW from, NEW to, Phase(c) = from, Phase(c)' = to,
         \A x \in Cases \ {c} : Phase(x)' = Phase(x),
         \A x \in Cases : Whole(x)' <=> Whole(x)
  PROVE  Promise!Move(c, from, to)
<1> DEFINE ph == [x \in Cases |-> Phase(x)]
           wh == {x \in Cases : Whole(x)}
<1>1. ph[c] = from /\ ph' = [ph EXCEPT ![c] = to]
  OBVIOUS
<1>2. wh' = wh
  OBVIOUS
<1> QED
  BY <1>1, <1>2 DEF Promise!Move

\* The step keeps which deletions are pending and whose window has closed.
SameWindows ==
  \A d \in Deletions : (Pending(d)' <=> Pending(d)) /\ deletion'[d].due = deletion[d].due

\* A step that keeps them, and adds nothing to the store, moves no case.
LEMMA LaneRefines ==
  ASSUME IInv, IInv', UNCHANGED case, store' \subseteq store,
         SameWindows
  PROVE  [Promise!Next]_(Promise!vars)
<1>1. ASSUME NEW c \in Cases PROVE Doomed(c)' <=> Doomed(c)
  BY DeletionsAre DEF Doomed, SameWindows
<1>2. \A c \in Cases : Phase(c)' = Phase(c)
  BY <1>1 DEF Phase
<1>3. \A c \in Cases : Whole(c)' => Whole(c)
  BY DeletionsAre DEF Whole, SameWindows
<1> QED
  BY <1>2, <1>3, LoseRefines

\* A claim of a deletion that is pending leaves it pending.
LEMMA ClaimKeepsWindows ==
  ASSUME IInv, NEW e \in Executors, NEW lane \in DOMAIN Lanes, NEW d \in Deletions, Claim(e, lane, d)
  PROVE  UNCHANGED <<case, store>> /\ SameWindows
<1>0. deletion \in [Deletions -> Row]
  BY Types DEF IInv
<1>1. UNCHANGED <<case, store>>
  BY DEF Claim
<1>2. /\ deletion'[d].state = Lanes[lane].claimed /\ deletion'[d].due = deletion[d].due
      /\ \A x \in Deletions \ {d} : deletion'[x] = deletion[x]
  BY <1>0 DEF Claim, Row
<1>3. Pending(d)' <=> Pending(d)
  BY <1>2, LanesAre DEF Claim, Claimable, Pending
<1>4. ASSUME NEW x \in Deletions PROVE (Pending(x)' <=> Pending(x)) /\ deletion'[x].due = deletion[x].due
  BY <1>2, <1>3 DEF Pending
<1> QED
  BY <1>1, <1>4 DEF SameWindows

\* Executors at work change no row.
LEMMA WorkKeepsWindows ==
  ASSUME IInv, NEW e \in Executors, Plan(e) \/ Remove(e) \/ FinalizeCase(e) \/ Fails(e) \/ Crash(e)
  PROVE  /\ UNCHANGED case /\ store' \subseteq store
         /\ SameWindows
<1>0. deletion \in [Deletions -> Row]
  BY Types DEF IInv
<1>1. UNCHANGED <<case, deletion>> /\ store' \subseteq store
  BY DEF Plan, Remove, FinalizeCase, Fails, Crash
<1> QED
  BY <1>1 DEF Pending, SameWindows

\* A released deletion is pending as before.
LEMMA ReleaseKeepsWindows ==
  ASSUME IInv, NEW e \in Executors, Release(e)
  PROVE  UNCHANGED <<case, store>> /\ SameWindows
<1>0. deletion \in [Deletions -> Row]
  BY Types DEF IInv
<1>1. UNCHANGED <<case, store>> /\ executor[e] /= Idle
  BY DEF Release, Idle
<1>2. PICK mine \in Deletions, own \in DOMAIN Lanes :
        mine = executor[e].deletion /\ own = executor[e].lane
  BY <1>1, AtWork DEF Work
<1>3. CASE Owns(e)
  <2>1. /\ deletion'[mine].state = Lanes[own].from /\ deletion'[mine].due = deletion[mine].due
        /\ \A x \in Deletions \ {mine} : deletion'[x] = deletion[x]
    BY <1>0, <1>2, <1>3 DEF Release, GivenUp, Row
  <2>2. Pending(mine)' <=> Pending(mine)
    BY <1>2, <1>3, <2>1, LanesAre DEF Owns, Pending
  <2>3. ASSUME NEW x \in Deletions PROVE (Pending(x)' <=> Pending(x)) /\ deletion'[x].due = deletion[x].due
    BY <2>1, <2>2 DEF Pending
  <2> QED
    BY <1>1, <2>3 DEF SameWindows
<1>4. CASE ~Owns(e)
  BY <1>1, <1>4 DEF Release, Pending, SameWindows
<1> QED
  BY <1>3, <1>4

\* The manifest lane ends no deletion that is pending.
LEMMA ManifestKeepsWindows ==
  ASSUME IInv, NEW e \in Executors, FinalizeManifest(e)
  PROVE  UNCHANGED <<case, store>> /\ SameWindows
<1>0. deletion \in [Deletions -> Row]
  BY Types DEF IInv
<1>1. UNCHANGED <<case, store>> /\ executor[e] /= Idle /\ executor[e].lane = "manifest" /\ Owns(e)
  BY DEF FinalizeManifest, Idle, Holds
<1>2. PICK mine \in Deletions : mine = executor[e].deletion
  BY <1>1, AtWork
<1>3. /\ deletion'[mine].state = "manifest_purged" /\ deletion'[mine].due = deletion[mine].due
      /\ \A x \in Deletions \ {mine} : deletion'[x] = deletion[x]
  BY <1>0, <1>2 DEF FinalizeManifest, GivenUp, Row
<1>4. Pending(mine)' <=> Pending(mine)
  BY <1>1, <1>2, <1>3, LanesAre DEF Owns, Pending
<1>5. ASSUME NEW x \in Deletions PROVE (Pending(x)' <=> Pending(x)) /\ deletion'[x].due = deletion[x].due
  BY <1>3, <1>4 DEF Pending
<1> QED
  BY <1>1, <1>5 DEF SameWindows

\* A lease ends.
LEMMA LeaseKeepsWindows ==
  ASSUME IInv, NEW d \in Deletions, LeaseExpires(d)
  PROVE  UNCHANGED <<case, store>> /\ SameWindows
<1>0. deletion \in [Deletions -> Row]
  BY Types DEF IInv
<1>1. /\ deletion'[d].state = deletion[d].state /\ deletion'[d].due = deletion[d].due
      /\ \A x \in Deletions \ {d} : deletion'[x] = deletion[x]
  BY <1>0 DEF LeaseExpires, Row
<1>2. ASSUME NEW x \in Deletions PROVE (Pending(x)' <=> Pending(x)) /\ deletion'[x].due = deletion[x].due
  BY <1>1 DEF Pending
<1> QED
  BY <1>2 DEF LeaseExpires, SameWindows

\* Claims, plans, removals, releases, the manifest lane and the leases.
LEMMA ExecutorRefines ==
  ASSUME IInv, IInv',
         \/ \E e \in Executors, lane \in DOMAIN Lanes, d \in Deletions : Claim(e, lane, d)
         \/ \E e \in Executors : Plan(e) \/ Remove(e) \/ FinalizeCase(e) \/ Fails(e) \/ Crash(e)
         \/ \E e \in Executors : Release(e)
         \/ \E e \in Executors : FinalizeManifest(e)
         \/ \E d \in Deletions : LeaseExpires(d)
  PROVE  [Promise!Next]_(Promise!vars)
<1>1. UNCHANGED case /\ store' \subseteq store /\ SameWindows
  BY ClaimKeepsWindows, WorkKeepsWindows, ReleaseKeepsWindows, ManifestKeepsWindows,
     LeaseKeepsWindows
<1> QED
  BY <1>1, LaneRefines

\* A case is hidden: its window is open, and its manifest is stored with it.
LEMMA SoftDeleteRefines ==
  ASSUME IInv, IInv', NoEarlyWindow, NEW c \in Cases, NEW n \in Numbers(c), SoftDelete(c, n)
  PROVE  Promise!Hide(c)
<1>0. /\ case \in [Cases -> {"visible", "hidden"}] /\ deletion \in [Deletions -> Row]
      /\ <<c, n>> \in Deletions
  BY Types, DeletionsAre DEF IInv
<1>1. /\ case[c] = "visible" /\ case'[c] = "hidden"
      /\ \A x \in Cases \ {c} : case'[x] = case[x]
      /\ store' = store \cup {Manifest(<<c, n>>)}
      /\ deletion[<<c, n>>].state = "absent"
  BY <1>0 DEF SoftDelete
<1>2. /\ deletion'[<<c, n>>].state = "soft_deleted"
      /\ deletion'[<<c, n>>].due = deletion[<<c, n>>].due
      /\ \A d \in Deletions \ {<<c, n>>} : deletion'[d] = deletion[d]
  BY <1>0 DEF SoftDelete, Row
<1>3. ~Doomed(c)
  BY <1>1, KeptIsNotDoomed
<1>4. ~Doomed(c)'
  <2>1. Pending(<<c, n>>)' /\ ~deletion'[<<c, n>>].due
    BY <1>0, <1>1, <1>2 DEF Pending, NoEarlyWindow
  <2>2. \A m \in Numbers(c) : Pending(<<c, m>>)' => m = n
    BY <2>1 DEF IInv, OneDeletion, Numbers
  <2> QED
    BY <1>1, <2>1, <2>2 DEF Doomed, Numbers
<1>5. Phase(c) = "kept" /\ Phase(c)' = "hidden"
  BY <1>1, <1>3, <1>4 DEF Phase
<1>6. ASSUME NEW x \in Cases \ {c}
      PROVE  Phase(x)' = Phase(x) /\ (Whole(x)' <=> Whole(x))
  <2>1. \A m \in Numbers(x) : deletion'[<<x, m>>] = deletion[<<x, m>>]
    BY <1>2, DeletionsAre
  <2>2. Doomed(x)' <=> Doomed(x)
    BY <1>1, <2>1 DEF Doomed, Pending, Numbers
  <2>3. \A m \in Numbers(x) : Manifest(<<x, m>>) /= Manifest(<<c, n>>)
    BY ObjectsDiffer
  <2>4. Whole(x)' <=> Whole(x)
    <3>1. OfCase(x) \in store' <=> OfCase(x) \in store
      BY <1>1, ObjectsDiffer
    <3>2. \A s \in Sources : Body(s) \in store' <=> Body(s) \in store
      BY <1>1, ObjectsDiffer
    <3>3. \A m \in Numbers(x) : Manifest(<<x, m>>) \in store' <=> Manifest(<<x, m>>) \in store
      BY <1>1, <2>3
    <3>4. \A m \in Numbers(x) : Pending(<<x, m>>)' <=> Pending(<<x, m>>)
      BY <2>1 DEF Pending
    <3> QED
      BY <1>1, <3>1, <3>2, <3>3, <3>4 DEF Whole, Numbers
  <2> QED
    BY <1>1, <2>2, <2>4 DEF Phase
<1>7. Whole(c)' /\ Whole(c)
  BY <1>3, <1>4, NotDoomedIsWhole, OthersStayWhole DEF OthersAreWhole
<1> QED
  BY <1>5, <1>6, <1>7, MoveRefines DEF Promise!Hide

\* A case is given back: nothing of it is missing.
LEMMA RestoreRefines ==
  ASSUME IInv, IInv', NEW d \in Deletions, Restore(d)
  PROVE  \E c \in Cases : Promise!GiveBack(c)
<1>c. PICK c \in Cases : \E n \in Numbers(c) : d = <<c, n>>
  BY DeletionsAre
<1>0. PICK n \in Numbers(c) : d = <<c, n>>
  BY <1>c
<1>1. /\ case[c] = "hidden" /\ case'[c] = "visible" /\ UNCHANGED store
      /\ \A x \in Cases \ {c} : case'[x] = case[x]
      /\ Recoverable(<<c, n>>)
      /\ \A x \in Deletions \ {d} : deletion'[x] = deletion[x]
  BY <1>0, Types DEF Restore, IInv
<1>2. ~Doomed(c)
  BY <1>1, KeptIsNotDoomed
<1>3. ~Doomed(c)'
  BY <1>1 DEF IInv, OneDeletion, Doomed, Numbers
<1>4. Phase(c) = "hidden" /\ Phase(c)' = "kept"
  BY <1>1, <1>2, <1>3 DEF Phase
<1>5. ASSUME NEW x \in Cases \ {c}
      PROVE  Phase(x)' = Phase(x) /\ (Whole(x)' <=> Whole(x))
  <2>1. \A m \in Numbers(x) : deletion'[<<x, m>>] = deletion[<<x, m>>]
    BY <1>0, <1>1, DeletionsAre
  <2>2. Doomed(x)' <=> Doomed(x)
    BY <1>1, <2>1 DEF Doomed, Pending, Numbers
  <2>3. Whole(x)' <=> Whole(x)
    BY <1>1, <2>1 DEF Whole, Pending, Numbers
  <2> QED
    BY <1>1, <2>2, <2>3 DEF Phase
<1>6. Whole(c)' /\ Whole(c)
  BY <1>2, <1>3, NotDoomedIsWhole, OthersStayWhole DEF OthersAreWhole
<1>7. Promise!Move(c, "hidden", "kept")
  BY <1>4, <1>5, <1>6, MoveRefines
<1> QED
  BY <1>6, <1>7 DEF Promise!GiveBack

\* The window of a deletion closes on its case, unless the deletion was taken back.
LEMMA WindowRefines ==
  ASSUME IInv, IInv', NEW c \in Cases, NEW n \in Numbers(c), WindowCloses(c, n)
  PROVE  [Promise!Next]_(Promise!vars)
<1>0. <<c, n>> \in Deletions /\ deletion \in [Deletions -> Row]
  BY Types, DeletionsAre DEF IInv
<1>1. /\ UNCHANGED <<case, store>> /\ ~deletion[<<c, n>>].due
      /\ deletion'[<<c, n>>].state = deletion[<<c, n>>].state /\ deletion'[<<c, n>>].due
      /\ \A d \in Deletions \ {<<c, n>>} : deletion'[d] = deletion[d]
  BY <1>0 DEF WindowCloses, Row
<1>2. \A x \in Cases : \A m \in Numbers(x) : Pending(<<x, m>>)' <=> Pending(<<x, m>>)
  BY <1>1, DeletionsAre DEF Pending
<1>3. \A x \in Cases : Whole(x)' <=> Whole(x)
  BY <1>1, <1>2 DEF Whole, Numbers
<1>4. ASSUME NEW x \in Cases \ {c} PROVE Phase(x)' = Phase(x)
  <2>1. \A m \in Numbers(x) : deletion'[<<x, m>>] = deletion[<<x, m>>]
    BY <1>1, DeletionsAre
  <2>2. Doomed(x)' <=> Doomed(x)
    BY <1>1, <2>1 DEF Doomed, Pending, Numbers
  <2> QED
    BY <1>1, <2>2 DEF Phase
<1>5. CASE Pending(<<c, n>>)
  <2>1. \A m \in Numbers(c) : Pending(<<c, m>>) => m = n
    BY <1>5 DEF IInv, OneDeletion
  <2>2. case[c] = "hidden"
    BY <1>5, Types DEF IInv, OneDeletion, Pending
  <2>3. ~Doomed(c)
    BY <1>1, <2>1, <2>2 DEF Doomed
  <2>4. Doomed(c)'
    BY <1>2, <1>5, <1>1 DEF Doomed, Numbers
  <2>5. Phase(c) = "hidden" /\ Phase(c)' = "doomed"
    BY <1>1, <2>2, <2>3, <2>4 DEF Phase
  <2>6. Promise!CloseWindow(c)
    BY <1>3, <1>4, <2>5, MoveRefines DEF Promise!CloseWindow
  <2> QED
    BY <2>6 DEF Promise!Next
<1>6. CASE ~Pending(<<c, n>>)
  <2>1. \A m \in Numbers(c) : Pending(<<c, m>>) => deletion'[<<c, m>>] = deletion[<<c, m>>]
    BY <1>1, <1>6, DeletionsAre
  <2>2. Doomed(c)' <=> Doomed(c)
    BY <1>1, <1>2, <2>1 DEF Doomed, Numbers
  <2>3. Phase(c)' = Phase(c)
    BY <1>1, <2>2 DEF Phase
  <2> QED
    BY <1>3, <1>4, <2>3, LoseRefines
<1> QED
  BY <1>5, <1>6

\* Every step of the purge is a step of the promise or none.
LEMMA NextRefines ==
  IInv /\ IInv' /\ NoEarlyWindow /\ [Next]_vars => [Promise!Next]_(Promise!vars)
<1> SUFFICES ASSUME IInv, IInv', NoEarlyWindow, [Next]_vars
             PROVE  [Promise!Next]_(Promise!vars)
  OBVIOUS
<1>1. CASE UNCHANGED vars
  <2>1. UNCHANGED <<case, deletion, store>>
    BY <1>1 DEF vars
  <2>2. SameWindows
    BY <2>1 DEF SameWindows, Pending
  <2> QED
    BY <2>1, <2>2, LaneRefines
<1>2. ASSUME NEW c \in Cases, NEW n \in 1 .. MaxDeletions[c], SoftDelete(c, n)
      PROVE  [Promise!Next]_(Promise!vars)
  BY <1>2, SoftDeleteRefines DEF Promise!Next, Numbers
<1>3. ASSUME NEW c \in Cases, NEW n \in 1 .. MaxDeletions[c], WindowCloses(c, n)
      PROVE  [Promise!Next]_(Promise!vars)
  BY <1>3, WindowRefines DEF Numbers
<1>4. ASSUME NEW d \in Deletions, Restore(d) PROVE [Promise!Next]_(Promise!vars)
  BY <1>4, RestoreRefines DEF Promise!Next
<1>5. ASSUME \/ \E e \in Executors, lane \in DOMAIN Lanes, d \in Deletions : Claim(e, lane, d)
             \/ \E e \in Executors : Plan(e) \/ Remove(e) \/ FinalizeCase(e) \/ Fails(e) \/ Crash(e)
             \/ \E e \in Executors : Release(e)
             \/ \E e \in Executors : FinalizeManifest(e)
             \/ \E d \in Deletions : LeaseExpires(d)
      PROVE  [Promise!Next]_(Promise!vars)
  BY <1>5, ExecutorRefines
<1> QED
  BY <1>1, <1>2, <1>3, <1>4, <1>5 DEF Next

\* The deletion of a case is what RecoverableDeletion promises, for any cases,
\* any sharing of e-mails and any executors: recoverable and whole until the
\* window closes, and never back afterwards, though a purge that fails puts it back
\* in the state it was recoverable in (restoreCase, claim_case_purges,
\* release_case_purge).
THEOREM Refinement == Spec => ImplementsRecoverableDeletion
<1>1. Init => Promise!Init
  <2> SUFFICES ASSUME Init PROVE Promise!Init
    OBVIOUS
  <2>1. IInv
    BY InitIInv
  <2>2. ASSUME NEW c \in Cases PROVE Phase(c) = "kept" /\ Whole(c)
    <3>1. case[c] = "visible"
      BY DEF Init
    <3>2. ~Doomed(c)
      BY <2>1, <3>1, KeptIsNotDoomed
    <3> QED
      BY <2>1, <3>1, <3>2, NotDoomedIsWhole DEF Phase
  <2> QED
    BY <2>2 DEF Promise!Init
<1> QED
  BY <1>1, NextRefines, Invariant, NoEarlyWindowHolds, PTL
     DEF Spec, ImplementsRecoverableDeletion, Promise!Spec
=============================================================================
