------------------------ MODULE NotificationOutboxProofs ------------------------
(***************************************************************************)
(* Proofs about NotificationOutbox for every set of announcements and of   *)
(* executions, however often rows are claimed and the case is deleted.     *)
(* The inductive invariant says what an execution knows of its row as long *)
(* as the row is still its own, and that only rows nobody posted wait.     *)
(***************************************************************************)
EXTENDS NotificationOutbox, TLAPS

\* A row that is waiting, or not written yet, was never posted; a row that is
\* done was, once.
WaitingNotPosted ==
  \A n \in Notes : /\ posts[n] \in {0, 1}
                   /\ row[n].state \in {"absent", "pending", "failed"} => posts[n] = 0
                   /\ row[n].state = "sent" => posts[n] = 1

\* An execution that still has its row did not post it unless Slack accepted or
\* left it open.
OwnerNotPosted ==
  \A w \in Workers :
    /\ worker[w].pc \in {"claimed", "read", "pair", "post", "refused"} /\ Owns(w)
         => posts[worker[w].note] = 0
    /\ worker[w].pc = "accepted" => posts[worker[w].note] = 1

\* The row lock of an open delivery protects the fence it checked.
LockedRowIsOwned == \A w \in Workers : worker[w].pc \in {"post", "accepted"} => Owns(w)

\* Nothing is being sent about a deleted case.
SendingIsVisible == \A n \in Notes : row[n].state = "sending" /\ row[n].bound => ~hidden

IInv == TypeOK /\ WaitingNotPosted /\ OwnerNotPosted /\ LockedRowIsOwned /\ SendingIsVisible

Row == [state : States, owner : Workers \cup {NoWorker},
        lease : {"none", "live", "expired"}, token : Tokens,
        due : BOOLEAN, bound : BOOLEAN, hold : Holds]

Execution == [pc : Phases, note : Notes, token : Tokens, knows : BOOLEAN]

\* The fields of a row that go together.
Leased(r) == /\ r.state = "sending" <=> r.owner /= NoWorker
             /\ r.state = "sending" <=> r.lease /= "none"

\* The types of the variables, one fact each (TypeOK spelled out).
LEMMA Types ==
  TypeOK <=> /\ row \in [Notes -> Row]
             /\ \A n \in Notes : Leased(row[n])
             /\ hidden \in BOOLEAN
             /\ worker \in [Workers -> Execution]
             /\ posts \in [Notes -> Nat]
             /\ deletions \in 0 .. MaxDeletions
BY DEF TypeOK, Row, Execution, Leased

\* The same after a step.
LEMMA TypesNext ==
  ASSUME row' \in [Notes -> Row], \A n \in Notes : Leased(row'[n]), hidden' \in BOOLEAN,
         worker' \in [Workers -> Execution], posts' \in [Notes -> Nat],
         deletions' \in 0 .. MaxDeletions
  PROVE  TypeOK'
BY DEF TypeOK, Row, Execution, Leased

\* At the start nothing was posted and nobody is at work.
LEMMA InitIInv == Init => IInv
<1> SUFFICES ASSUME Init PROVE IInv
  OBVIOUS
<1> USE BoundsAssumption, WorkersAssumption
<1>1. PICK o \in Notes :
        worker = [w \in Workers |-> [pc |-> "idle", note |-> o, token |-> 0, knows |-> FALSE]]
  BY DEF Init
<1>2. \A n \in Notes : \E b \in BOOLEAN :
        row[n] = [state |-> "absent", owner |-> NoWorker, lease |-> "none", token |-> 0,
                  due |-> FALSE, bound |-> b, hold |-> "none"]
  BY DEF Init
<1>3. row \in [Notes -> Row] /\ \A n \in Notes : Leased(row[n])
  <2>1. \A n \in Notes : row[n] \in Row /\ Leased(row[n])
    <3> SUFFICES ASSUME NEW n \in Notes PROVE row[n] \in Row /\ Leased(row[n])
      OBVIOUS
    <3>1. PICK b \in BOOLEAN :
            row[n] = [state |-> "absent", owner |-> NoWorker, lease |-> "none", token |-> 0,
                      due |-> FALSE, bound |-> b, hold |-> "none"]
      BY <1>2
    <3>2. row[n] \in Row
      BY <3>1 DEF Row, States, Holds, Tokens
    <3>3. Leased(row[n])
      BY <3>1 DEF Leased
    <3> QED
      BY <3>2, <3>3
  <2>2. \E D : row \in [Notes -> D]
    BY DEF Init
  <2> QED
    BY <2>1, <2>2
<1>4. worker \in [Workers -> Execution]
  BY <1>1 DEF Execution, Phases, Tokens
<1>5. TypeOK
  <2>1. posts \in [Notes -> Nat] /\ deletions \in 0 .. MaxDeletions
    BY DEF Init
  <2>2. hidden \in BOOLEAN
    BY Zenon DEF Init
  <2> QED
    BY <1>3, <1>4, <2>1, <2>2, Types
<1> QED
  BY <1>1, <1>2, <1>5 DEF Init, IInv, WaitingNotPosted, OwnerNotPosted, LockedRowIsOwned,
                          SendingIsVisible

-----------------------------------------------------------------------------
(* What the helpers return *)

\* A row that is let go: typed, without owner, its token and case untouched.
LEMMA FreedRow ==
  ASSUME NEW r \in Row, NEW state \in States \ {"sending"}, NEW hold \in Holds
  PROVE  LET freed == Freed(r, state, hold)
         IN /\ freed \in Row /\ Leased(freed)
            /\ freed.state = state /\ freed.token = r.token /\ freed.bound = r.bound
<1> DEFINE freed == Freed(r, state, hold)
<1>1. freed \in Row
  BY DEF Freed, Row
<1>2. /\ freed.state = state /\ freed.token = r.token /\ freed.bound = r.bound
      /\ freed.owner = NoWorker /\ freed.lease = "none"
  BY DEF Freed, Row
<1>3. Leased(freed)
  BY <1>2 DEF Leased
<1> QED
  BY <1>1, <1>2, <1>3

\* Rows with a flag set.
LEMMA FlaggedRow ==
  ASSUME NEW r \in Row, NEW b \in BOOLEAN, NEW state \in States
  PROVE  /\ [r EXCEPT !.due = b] \in Row /\ [r EXCEPT !.bound = b] \in Row
         /\ [r EXCEPT !.state = state, !.due = b] \in Row
BY DEF Row

\* A sweep leaves a row as it is, or puts a row aside for a person.
LEMMA SweptRow ==
  ASSUME TypeOK, NEW n \in Notes
  PROVE  /\ Swept(n) \in Row /\ Leased(Swept(n)) /\ Swept(n).bound = row[n].bound
         /\ \/ Swept(n) = row[n]
            \/ Swept(n).state = "held" /\ (Stale(n) \/ row[n].state \in {"pending", "failed"})
<1>1. row[n] \in Row /\ Leased(row[n])
  BY Types
<1>2. "unknown" \in Holds /\ "retired" \in Holds /\ "held" \in States \ {"sending"}
  BY DEF Holds, States
<1>3. Freed(row[n], "held", "unknown") \in Row /\ Leased(Freed(row[n], "held", "unknown"))
      /\ Freed(row[n], "held", "unknown").bound = row[n].bound
      /\ Freed(row[n], "held", "unknown").state = "held"
  BY <1>1, <1>2, FreedRow
<1>4. Freed(row[n], "held", "retired") \in Row /\ Leased(Freed(row[n], "held", "retired"))
      /\ Freed(row[n], "held", "retired").bound = row[n].bound
      /\ Freed(row[n], "held", "retired").state = "held"
  BY <1>1, <1>2, FreedRow
<1>5. CASE Stale(n)
  BY <1>3, <1>5 DEF Swept, Unconfirmed, Stale
<1>6. CASE ~Stale(n) /\ n \in Retired /\ row[n].state \in {"pending", "failed"}
  BY <1>4, <1>6 DEF Swept
<1>7. CASE ~Stale(n) /\ ~(n \in Retired /\ row[n].state \in {"pending", "failed"})
  BY <1>1, <1>7 DEF Swept
<1> QED
  BY <1>5, <1>6, <1>7

-----------------------------------------------------------------------------
(* The steps that touch rows only *)

\* A step that changes rows keeps the invariant when each changed row stays
\* typed, waits only if it did, is not sent or newly sending, and is not the
\* row of an open delivery.
LEMMA RowStep ==
  ASSUME IInv, row' \in [Notes -> Row], hidden' \in BOOLEAN, UNCHANGED <<worker, posts>>,
         deletions' \in 0 .. MaxDeletions,
         \A n \in Notes :
           /\ Leased(row'[n])
           /\ row'[n].state \in {"pending", "failed"} =>
                row[n].state \in {"absent", "pending", "failed"}
           /\ row'[n].state = "absent" => row[n].state = "absent"
           /\ row'[n].state = "sent" => row[n].state = "sent"
           /\ row'[n].state = "sending" =>
                /\ row[n].state = "sending"
                /\ row'[n].owner = row[n].owner /\ row'[n].token = row[n].token
                /\ row'[n].bound => ~hidden'
           /\ RowLocked(n) => row'[n].state = "sending"
  PROVE  IInv'
<1>1. TypeOK'
  BY Types, TypesNext DEF IInv
<1>2. \A w \in Workers : worker[w].note \in Notes
  BY Types DEF IInv, Execution
<1>3. \A w \in Workers : Owns(w)' => Owns(w)
  BY <1>2 DEF Owns
<1>4. WaitingNotPosted'
  BY DEF IInv, WaitingNotPosted
<1>5. OwnerNotPosted'
  BY <1>3 DEF IInv, OwnerNotPosted
<1>6. LockedRowIsOwned'
  BY <1>2 DEF IInv, LockedRowIsOwned, Owns, RowLocked
<1>7. SendingIsVisible'
  BY DEF SendingIsVisible
<1> QED
  BY <1>1, <1>4, <1>5, <1>6, <1>7 DEF IInv

\* An open delivery has its row.
LEMMA LockedRow ==
  ASSUME IInv, NEW n \in Notes, RowLocked(n)
  PROVE  row[n].state = "sending"
BY DEF IInv, LockedRowIsOwned, RowLocked, Owns

\* The case, the announcements and the clock.
LEMMA OutsideKeepsIInv == IInv /\ (Case \/ Clock) => IInv'
<1> SUFFICES ASSUME IInv, Case \/ Clock PROVE IInv'
  OBVIOUS
<1>0. /\ row \in [Notes -> Row] /\ \A n \in Notes : Leased(row[n])
      /\ hidden \in BOOLEAN /\ deletions \in 0 .. MaxDeletions
  BY Types DEF IInv
<1>1. ASSUME NEW n \in Notes, Admit(n) PROVE IInv'
  <2>1. PICK state \in {"pending", "held"} :
          /\ row[n].state = "absent" /\ row' = [row EXCEPT ![n].state = state, ![n].due = TRUE]
          /\ UNCHANGED <<hidden, worker, posts, deletions>>
    BY <1>1 DEF Admit
  <2>2. row'[n] = [row[n] EXCEPT !.state = state, !.due = TRUE]
        /\ \A m \in Notes \ {n} : row'[m] = row[m]
    BY <1>0, <2>1
  <2>f. [row[n] EXCEPT !.state = state, !.due = TRUE] \in Row
    BY <1>0, FlaggedRow DEF States
  <2>3. row'[n] \in Row /\ Leased(row'[n]) /\ row'[n].state = state
    <3>1. row'[n].state = state /\ row'[n].owner = row[n].owner /\ row'[n].lease = row[n].lease
      BY <1>0, <2>2 DEF Row
    <3>2. Leased(row'[n])
      BY <1>0, <2>1, <3>1 DEF Leased
    <3> QED
      BY <2>2, <2>f, <3>1, <3>2
  <2>4. row' \in [Notes -> Row]
    BY <1>0, <2>1, <2>2, <2>3
  <2>5. ~RowLocked(n)
    BY <2>1, LockedRow
  <2> QED
    BY <1>0, <2>1, <2>2, <2>3, <2>4, <2>5, LockedRow, RowStep DEF IInv, SendingIsVisible
<1>2. ASSUME NEW n \in Notes, Bind(n) PROVE IInv'
  <2>1. ~hidden /\ row' = [row EXCEPT ![n].bound = TRUE]
        /\ UNCHANGED <<hidden, worker, posts, deletions>>
    BY <1>2 DEF Bind
  <2>2. row'[n] = [row[n] EXCEPT !.bound = TRUE] /\ \A m \in Notes \ {n} : row'[m] = row[m]
    BY <1>0, <2>1
  <2>f. [row[n] EXCEPT !.bound = TRUE] \in Row
    BY <1>0, FlaggedRow DEF States
  <2>3. row'[n] \in Row /\ Leased(row'[n]) /\ row'[n].state = row[n].state
        /\ row'[n].owner = row[n].owner /\ row'[n].token = row[n].token
    <3>1. row'[n].state = row[n].state /\ row'[n].owner = row[n].owner
          /\ row'[n].token = row[n].token /\ row'[n].lease = row[n].lease
      BY <1>0, <2>2 DEF Row
    <3>2. Leased(row'[n])
      BY <1>0, <3>1 DEF Leased
    <3> QED
      BY <2>2, <2>f, <3>1, <3>2
  <2>4. row' \in [Notes -> Row]
    BY <1>0, <2>1, <2>2, <2>3
  <2> QED
    BY <1>0, <2>1, <2>2, <2>3, <2>4, LockedRow, RowStep DEF IInv, SendingIsVisible
<1>3. CASE SoftDelete
  <2> DEFINE put(n) == Freed(row[n], "held", "deleted")
             hit(n) == row[n].bound /\ row[n].state \in {"pending", "failed", "sending"}
  <2>1. /\ hidden' = TRUE /\ deletions' \in 0 .. MaxDeletions /\ UNCHANGED <<worker, posts>>
        /\ \A n \in Notes : ~(row[n].bound /\ RowLocked(n))
        /\ row' = [n \in Notes |-> IF hit(n) THEN put(n) ELSE row[n]]
    BY <1>0, <1>3, BoundsAssumption DEF SoftDelete
  <2>2. \A n \in Notes : put(n) \in Row /\ Leased(put(n)) /\ put(n).state = "held"
    <3> SUFFICES ASSUME NEW n \in Notes
                 PROVE  put(n) \in Row /\ Leased(put(n)) /\ put(n).state = "held"
      OBVIOUS
    <3>1. row[n] \in Row
      BY <1>0
    <3>2. "held" \in States \ {"sending"} /\ "deleted" \in Holds
      BY DEF States, Holds
    <3> QED
      BY <3>1, <3>2, FreedRow
  <2>3. row' \in [Notes -> Row] /\ \A n \in Notes : Leased(row'[n])
    BY <1>0, <2>1, <2>2
  <2>4. \A n \in Notes : \/ row'[n] = row[n] /\ ~hit(n)
                         \/ row'[n].state = "held" /\ ~RowLocked(n)
    BY <2>1, <2>2
  <2>5. \A n \in Notes : row'[n].state = "sending" => row'[n] = row[n] /\ ~row[n].bound
    BY <2>4
  <2> QED
    BY <2>1, <2>3, <2>4, <2>5, LockedRow, RowStep
<1>4. CASE RestoreCase
  BY <1>0, <1>4, LockedRow, RowStep DEF RestoreCase
<1>5. ASSUME NEW n \in Notes, LeaseExpires(n) PROVE IInv'
  <2>1. row[n].lease = "live" /\ row' = [row EXCEPT ![n].lease = "expired"]
        /\ UNCHANGED <<hidden, worker, posts, deletions>>
    BY <1>5 DEF LeaseExpires
  <2>2. row'[n] = [row[n] EXCEPT !.lease = "expired"] /\ \A m \in Notes \ {n} : row'[m] = row[m]
    BY <1>0, <2>1
  <2>3. row'[n] \in Row /\ Leased(row'[n]) /\ row'[n].state = row[n].state
        /\ row'[n].owner = row[n].owner /\ row'[n].token = row[n].token
        /\ row'[n].bound = row[n].bound
    BY <1>0, <2>1, <2>2 DEF Row, Leased
  <2>4. row' \in [Notes -> Row]
    BY <1>0, <2>1, <2>2, <2>3
  <2> QED
    BY <1>0, <2>1, <2>2, <2>3, <2>4, LockedRow, RowStep DEF IInv, SendingIsVisible
<1>6. ASSUME NEW n \in Notes, BecomesDue(n) PROVE IInv'
  <2>1. row' = [row EXCEPT ![n].due = TRUE] /\ UNCHANGED <<hidden, worker, posts, deletions>>
    BY <1>6 DEF BecomesDue
  <2>2. row'[n] = [row[n] EXCEPT !.due = TRUE] /\ \A m \in Notes \ {n} : row'[m] = row[m]
    BY <1>0, <2>1
  <2>f. [row[n] EXCEPT !.due = TRUE] \in Row
    BY <1>0, FlaggedRow DEF States
  <2>3. row'[n] \in Row /\ Leased(row'[n]) /\ row'[n].state = row[n].state
        /\ row'[n].owner = row[n].owner /\ row'[n].token = row[n].token
        /\ row'[n].bound = row[n].bound
    <3>1. row'[n].state = row[n].state /\ row'[n].owner = row[n].owner
          /\ row'[n].token = row[n].token /\ row'[n].lease = row[n].lease
          /\ row'[n].bound = row[n].bound
      BY <1>0, <2>2 DEF Row
    <3>2. Leased(row'[n])
      BY <1>0, <3>1 DEF Leased
    <3> QED
      BY <2>2, <2>f, <3>1, <3>2
  <2>4. row' \in [Notes -> Row]
    BY <1>0, <2>1, <2>2, <2>3
  <2> QED
    BY <1>0, <2>1, <2>2, <2>3, <2>4, LockedRow, RowStep DEF IInv, SendingIsVisible
<1> QED
  BY <1>1, <1>2, <1>3, <1>4, <1>5, <1>6 DEF Case, Clock

-----------------------------------------------------------------------------
(* The steps of an execution *)

\* What a step of an execution does to the others: nothing.
LEMMA AtEffect ==
  ASSUME TypeOK, NEW w \in Workers, NEW pc \in Phases, At(w, pc)
  PROVE  /\ worker' \in [Workers -> Execution]
         /\ worker'[w].pc = pc
         /\ worker'[w].note = worker[w].note /\ worker'[w].token = worker[w].token
         /\ \A v \in Workers \ {w} : worker'[v] = worker[v]
<1>1. worker \in [Workers -> Execution] /\ worker[w] \in Execution
  BY Types
<1>2. worker' = [worker EXCEPT ![w] = [worker[w] EXCEPT !.pc = pc]]
  BY DEF At
<1>3. [worker[w] EXCEPT !.pc = pc] \in Execution
  BY <1>1 DEF Execution
<1>4. worker'[w] = [worker[w] EXCEPT !.pc = pc] /\ \A v \in Workers \ {w} : worker'[v] = worker[v]
  BY <1>1, <1>2
<1>5. worker'[w].pc = pc
  BY <1>1, <1>4 DEF Execution
<1>6. worker'[w].note = worker[w].note /\ worker'[w].token = worker[w].token
  BY <1>1, <1>4 DEF Execution
<1> QED
  BY <1>1, <1>2, <1>3, <1>4, <1>5, <1>6

\* An execution moves on without writing: it may only go where its fence, if
\* the place needs one, is checked.
LEMMA MoveStep ==
  ASSUME IInv, UNCHANGED <<row, hidden, posts, deletions>>, NEW w \in Workers,
         worker' \in [Workers -> Execution],
         worker'[w].note = worker[w].note, worker'[w].token = worker[w].token,
         \A v \in Workers \ {w} : worker'[v] = worker[v],
         worker'[w].pc \in {"idle", "unknown"} \/
           ( /\ worker'[w].pc \in {"read", "pair", "post", "refused"}
             /\ worker[w].pc \in {"claimed", "read", "pair", "post"}
             /\ worker'[w].pc = "post" => Owns(w) )
  PROVE  IInv'
<1>1. TypeOK'
  BY Types, TypesNext DEF IInv
<1>2. \A v \in Workers : Owns(v)' <=> Owns(v)
  BY DEF Owns
<1>3. WaitingNotPosted' /\ SendingIsVisible'
  BY DEF IInv, WaitingNotPosted, SendingIsVisible
<1>4. OwnerNotPosted'
  <2> SUFFICES ASSUME NEW v \in Workers
               PROVE  /\ worker'[v].pc \in {"claimed", "read", "pair", "post", "refused"} /\ Owns(v)'
                           => posts[worker'[v].note] = 0
                      /\ worker'[v].pc = "accepted" => posts[worker'[v].note] = 1
    BY DEF OwnerNotPosted
  <2>1. CASE v = w
    BY <1>2, <2>1 DEF IInv, OwnerNotPosted
  <2>2. CASE v /= w
    BY <1>2, <2>2 DEF IInv, OwnerNotPosted
  <2> QED
    BY <2>1, <2>2
<1>5. LockedRowIsOwned'
  BY <1>2 DEF IInv, LockedRowIsOwned
<1> QED
  BY <1>1, <1>3, <1>4, <1>5 DEF IInv

\* An execution writes its row and ends: what it lets go is put aside, waits if
\* it was not posted, or is sent if it was.
LEMMA LetGoStep ==
  ASSUME IInv, UNCHANGED <<hidden, posts, deletions>>, NEW w \in Workers, Owns(w),
         NEW r \in Row, Leased(r),
         \/ r.state = "held"
         \/ r.state = "failed" /\ worker[w].pc \in {"claimed", "read", "pair", "post", "refused"}
         \/ r.state = "sent" /\ worker[w].pc = "accepted",
         row' = [row EXCEPT ![worker[w].note] = r], At(w, "idle")
  PROVE  IInv'
<1> DEFINE n == worker[w].note
<1>0. /\ row \in [Notes -> Row] /\ n \in Notes /\ posts \in [Notes -> Nat]
      /\ \A v \in Workers : worker[v].note \in Notes
      /\ \A m \in Notes : Leased(row[m])
  BY Types DEF IInv, Execution
<1>1. /\ worker' \in [Workers -> Execution] /\ worker'[w].pc = "idle"
      /\ \A v \in Workers \ {w} : worker'[v] = worker[v]
  BY AtEffect DEF IInv, Phases
<1>2. row'[n] = r /\ \A m \in Notes \ {n} : row'[m] = row[m]
  BY <1>0
<1>3. TypeOK'
  <2>1. row' \in [Notes -> Row] /\ \A m \in Notes : Leased(row'[m])
    BY <1>0, <1>2
  <2> QED
    BY <1>1, <2>1, Types, TypesNext DEF IInv
<1>4. r.state /= "sending"
  OBVIOUS
<1>5. \A v \in Workers : v /= w => (Owns(v)' => Owns(v))
  BY <1>0, <1>1, <1>2, <1>4 DEF Owns
<1>6. \A v \in Workers : v /= w /\ Owns(v) => worker[v].note /= n
  BY DEF Owns
<1>7. WaitingNotPosted'
  <2>1. r.state = "failed" => posts[n] = 0
    BY DEF IInv, OwnerNotPosted
  <2>2. r.state = "sent" => posts[n] = 1
    BY DEF IInv, OwnerNotPosted
  <2> SUFFICES ASSUME NEW m \in Notes
               PROVE  /\ posts[m] \in {0, 1}
                      /\ row'[m].state \in {"absent", "pending", "failed"} => posts[m] = 0
                      /\ row'[m].state = "sent" => posts[m] = 1
    BY DEF WaitingNotPosted
  <2>3. CASE m = n
    BY <1>2, <2>1, <2>2, <2>3 DEF IInv, WaitingNotPosted
  <2>4. CASE m /= n
    BY <1>2, <2>4 DEF IInv, WaitingNotPosted
  <2> QED
    BY <2>3, <2>4
<1>8. OwnerNotPosted'
  <2> SUFFICES ASSUME NEW v \in Workers
               PROVE  /\ worker'[v].pc \in {"claimed", "read", "pair", "post", "refused"} /\ Owns(v)'
                           => posts[worker'[v].note] = 0
                      /\ worker'[v].pc = "accepted" => posts[worker'[v].note] = 1
    BY DEF OwnerNotPosted
  <2>1. CASE v = w
    BY <1>1, <2>1
  <2>2. CASE v /= w
    BY <1>1, <1>5, <2>2 DEF IInv, OwnerNotPosted
  <2> QED
    BY <2>1, <2>2
<1>9. LockedRowIsOwned'
  <2> SUFFICES ASSUME NEW v \in Workers, worker'[v].pc \in {"post", "accepted"} PROVE Owns(v)'
    BY DEF LockedRowIsOwned
  <2>1. v /= w /\ worker'[v] = worker[v] /\ Owns(v)
    BY <1>1 DEF IInv, LockedRowIsOwned
  <2>2. row'[worker[v].note] = row[worker[v].note]
    BY <1>0, <1>2, <1>6, <2>1
  <2> QED
    BY <2>1, <2>2 DEF Owns
<1>10. SendingIsVisible'
  BY <1>2, <1>4 DEF IInv, SendingIsVisible
<1> QED
  BY <1>3, <1>7, <1>8, <1>9, <1>10 DEF IInv

\* settleNotification after a delivery that did not happen, or may have happened.
LEMMA SettleStep ==
  ASSUME IInv, NEW w \in Workers,
         \/ Hold(w)
         \/ Retry(w) /\ worker[w].pc \in {"claimed", "read", "pair", "post", "refused"}
  PROVE  IInv'
<1> DEFINE n == worker[w].note
           failed == [Freed(row[n], "failed", "none") EXCEPT !.due = FALSE]
<1>1. row[n] \in Row /\ \A v \in Workers : worker[v].note \in Notes
  BY Types DEF IInv, Execution
<1>2. Unconfirmed(row[n]) \in Row /\ Leased(Unconfirmed(row[n]))
      /\ Unconfirmed(row[n]).state = "held"
  BY <1>1, FreedRow DEF Unconfirmed, States, Holds
<1>3. failed \in Row /\ Leased(failed) /\ failed.state = "failed"
  <2>1. Freed(row[n], "failed", "none") \in Row /\ Leased(Freed(row[n], "failed", "none"))
        /\ Freed(row[n], "failed", "none").state = "failed"
    BY <1>1, FreedRow DEF States, Holds
  <2>2. failed \in Row
    BY <2>1, FlaggedRow DEF States
  <2>3. failed.state = "failed" /\ failed.owner = Freed(row[n], "failed", "none").owner
        /\ failed.lease = Freed(row[n], "failed", "none").lease
    BY <2>1 DEF Row
  <2>4. Leased(failed)
    BY <2>1, <2>3 DEF Leased
  <2> QED
    BY <2>2, <2>3, <2>4
<1>4. UNCHANGED <<hidden, posts, deletions>> /\ At(w, "idle")
  BY DEF Hold, Retry, Settle
<1>5. CASE ~Owns(w)
  <2>1. row' = row
    BY <1>5 DEF Hold, Retry, Settle
  <2> QED
    BY <1>4, <2>1, AtEffect, MoveStep DEF IInv, Phases
<1>6. CASE Owns(w) /\ Hold(w)
  <2>1. row' = [row EXCEPT ![n] = Unconfirmed(row[n])]
    BY <1>6 DEF Hold, Settle
  <2> QED
    BY <1>2, <1>4, <1>6, <2>1, LetGoStep
<1>7. CASE Owns(w) /\ Retry(w) /\ worker[w].pc \in {"claimed", "read", "pair", "post", "refused"}
  <2>1. row' = [row EXCEPT ![n] = failed]
    BY <1>7 DEF Retry, Settle
  <2> QED
    BY <1>3, <1>4, <1>7, <2>1, LetGoStep
<1> QED
  BY <1>5, <1>6, <1>7

\* Slack accepts a message: the row was not posted, and is not that of a
\* deleted case.
LEMMA AcceptStep ==
  ASSUME IInv, NEW w \in Workers, Accept(w)
  PROVE  /\ IInv'
         /\ LET n == worker[w].note
            IN posts' = [posts EXCEPT ![n] = posts[n] + 1] /\ ~(row[n].bound /\ hidden)
<1> DEFINE n == worker[w].note
<1>0. /\ row \in [Notes -> Row] /\ n \in Notes /\ posts \in [Notes -> Nat]
      /\ \A v \in Workers : worker[v].note \in Notes
  BY Types DEF IInv, Execution
<1>1. PICK pc \in {"accepted", "unknown"} : At(w, pc)
  BY DEF Accept
<1>2. /\ worker' \in [Workers -> Execution] /\ worker'[w].pc = pc
      /\ worker'[w].note = n /\ worker'[w].token = worker[w].token
      /\ \A v \in Workers \ {w} : worker'[v] = worker[v]
  BY <1>1, AtEffect DEF IInv, Phases
<1>3. worker[w].pc = "post" /\ UNCHANGED <<row, hidden, deletions>>
      /\ posts' = [posts EXCEPT ![n] = posts[n] + 1]
  BY DEF Accept
<1>4. Owns(w) /\ posts[n] = 0 /\ row[n].state = "sending"
  BY <1>3 DEF IInv, LockedRowIsOwned, OwnerNotPosted, Owns
<1>5. posts'[n] = 1 /\ posts' \in [Notes -> Nat] /\ \A m \in Notes \ {n} : posts'[m] = posts[m]
  BY <1>0, <1>3, <1>4
<1>6. TypeOK'
  BY <1>2, <1>3, <1>5, Types, TypesNext DEF IInv
<1>7. \A v \in Workers : /\ Owns(v)' <=> Owns(v)
                         /\ v /= w /\ Owns(v) => worker[v].note /= n
  BY <1>2, <1>3, <1>4 DEF Owns
<1>8. WaitingNotPosted'
  BY <1>3, <1>4, <1>5 DEF IInv, WaitingNotPosted
<1>9. OwnerNotPosted'
  <2> SUFFICES ASSUME NEW v \in Workers
               PROVE  /\ worker'[v].pc \in {"claimed", "read", "pair", "post", "refused"} /\ Owns(v)'
                           => posts'[worker'[v].note] = 0
                      /\ worker'[v].pc = "accepted" => posts'[worker'[v].note] = 1
    BY DEF OwnerNotPosted
  <2>1. CASE v = w
    BY <1>2, <1>5, <2>1
  <2>2. CASE v /= w
    <3>1. worker'[v] = worker[v] /\ (Owns(v) => posts'[worker[v].note] = posts[worker[v].note])
      BY <1>0, <1>2, <1>5, <1>7, <2>2
    <3>2. worker[v].pc = "accepted" => Owns(v)
      BY DEF IInv, LockedRowIsOwned
    <3> QED
      BY <1>7, <3>1, <3>2 DEF IInv, OwnerNotPosted
  <2> QED
    BY <2>1, <2>2
<1>10. LockedRowIsOwned'
  <2> SUFFICES ASSUME NEW v \in Workers, worker'[v].pc \in {"post", "accepted"} PROVE Owns(v)'
    BY DEF LockedRowIsOwned
  <2>1. CASE v = w
    BY <1>4, <1>7, <2>1
  <2>2. CASE v /= w
    BY <1>2, <1>7, <2>2 DEF IInv, LockedRowIsOwned
  <2> QED
    BY <2>1, <2>2
<1>11. SendingIsVisible'
  BY <1>3 DEF IInv, SendingIsVisible
<1>12. ~(row[n].bound /\ hidden)
  BY <1>0, <1>4 DEF IInv, SendingIsVisible
<1> QED
  BY <1>3, <1>6, <1>8, <1>9, <1>10, <1>11, <1>12 DEF IInv

\* Delivering a row that was claimed, from any point to any other.
LEMMA DeliverKeepsIInv ==
  ASSUME IInv, NEW w \in Workers, Deliver(w) \/ Crash(w)
  PROVE  IInv'
<1> DEFINE n == worker[w].note
<1>0. /\ row[n] \in Row /\ n \in Notes /\ worker \in [Workers -> Execution] /\ TypeOK
      /\ worker[w] \in Execution
  BY Types DEF IInv, Execution
<1>1. CASE NotStarted(w) \/ DeliveryFails(w) \/ SettleRefused(w) \/ SettleUnknown(w)
  BY <1>1, SettleStep DEF NotStarted, DeliveryFails, SettleRefused, SettleUnknown
<1>2. CASE ReadNotification(w)
  <2> DEFINE e == [worker[w] EXCEPT !.pc = IF Owns(w) THEN "read" ELSE "idle",
                                    !.knows = Owns(w) /\ row[n].bound]
  <2>1. worker' = [worker EXCEPT ![w] = e] /\ UNCHANGED <<row, hidden, posts, deletions>>
        /\ worker[w].pc = "claimed"
    BY <1>2 DEF ReadNotification
  <2>2. (Owns(w) /\ row[n].bound) \in BOOLEAN
    BY Zenon
  <2>3. e \in Execution
    BY <1>0, <2>2 DEF Execution, Phases
  <2>4. e.pc \in {"read", "idle"} /\ e.note = n /\ e.token = worker[w].token
    BY <1>0 DEF Execution
  <2>5. worker' \in [Workers -> Execution] /\ worker'[w] = e
        /\ \A v \in Workers \ {w} : worker'[v] = worker[v]
    BY <1>0, <2>1, <2>3
  <2> QED
    BY <2>1, <2>4, <2>5, MoveStep
<1>3. CASE LockPair(w)
  <2>1. CASE worker[w].knows /\ hidden
    <3>1. UNCHANGED <<hidden, posts, deletions>> /\ At(w, "idle")
          /\ row' = IF Owns(w) THEN [row EXCEPT ![n] = Freed(row[n], "held", "deleted")] ELSE row
      BY <1>3, <2>1 DEF LockPair
    <3>2. Freed(row[n], "held", "deleted") \in Row /\ Leased(Freed(row[n], "held", "deleted"))
          /\ Freed(row[n], "held", "deleted").state = "held"
      BY <1>0, FreedRow DEF States, Holds
    <3>3. CASE Owns(w)
      BY <3>1, <3>2, <3>3, LetGoStep
    <3>4. CASE ~Owns(w)
      <4>1. row' = row
        BY <3>1, <3>4
      <4> QED
        BY <1>0, <3>1, <4>1, AtEffect, MoveStep DEF Phases
    <3> QED
      BY <3>3, <3>4
  <2>2. CASE ~(worker[w].knows /\ hidden)
    <3>1. UNCHANGED <<row, hidden, posts, deletions>> /\ At(w, "pair") /\ worker[w].pc = "read"
      BY <1>3, <2>2 DEF LockPair
    <3> QED
      BY <1>0, <3>1, AtEffect, MoveStep DEF Phases
  <2> QED
    BY <2>1, <2>2
<1>4. CASE LockRow(w)
  <2>1. /\ UNCHANGED <<row, hidden, posts, deletions>> /\ worker[w].pc = "pair"
        /\ \/ Owns(w) /\ At(w, "post")
           \/ At(w, "idle")
    BY <1>4 DEF LockRow
  <2> QED
    BY <1>0, <2>1, AtEffect, MoveStep DEF Phases
<1>5. CASE Accept(w)
  BY <1>5, AcceptStep
<1>6. CASE Refuse(w)
  <2>1. /\ UNCHANGED <<row, hidden, posts, deletions>> /\ worker[w].pc = "post"
        /\ \E pc \in {"refused", "unknown"} : At(w, pc)
    BY <1>6 DEF Refuse
  <2> QED
    BY <1>0, <2>1, AtEffect, MoveStep DEF Phases
<1>7. CASE CommitSent(w)
  <2>1. Freed(row[n], "sent", "none") \in Row /\ Leased(Freed(row[n], "sent", "none"))
        /\ Freed(row[n], "sent", "none").state = "sent"
    BY <1>0, FreedRow DEF States, Holds
  <2>2. /\ worker[w].pc = "accepted" /\ Owns(w) /\ UNCHANGED <<hidden, posts, deletions>>
        /\ row' = [row EXCEPT ![n] = Freed(row[n], "sent", "none")] /\ At(w, "idle")
    BY <1>7 DEF CommitSent
  <2> QED
    BY <2>1, <2>2, LetGoStep
<1>8. CASE Crash(w)
  <2>1. UNCHANGED <<row, hidden, posts, deletions>> /\ At(w, "idle")
    BY <1>8 DEF Crash
  <2> QED
    BY <1>0, <2>1, AtEffect, MoveStep DEF Phases
<1> QED
  BY <1>1, <1>2, <1>3, <1>4, <1>5, <1>6, <1>7, <1>8 DEF Deliver

\* Claiming: the sweep leaves open deliveries alone, and the claimed row waited.
LEMMA ClaimKeepsIInv ==
  ASSUME IInv, NEW w \in Workers, Claim(w)
  PROVE  IInv'
<1>0. /\ row \in [Notes -> Row] /\ \A n \in Notes : Leased(row[n])
      /\ worker \in [Workers -> Execution] /\ hidden \in BOOLEAN
      /\ posts \in [Notes -> Nat] /\ deletions \in 0 .. MaxDeletions /\ TypeOK
      /\ \A v \in Workers : worker[v].note \in Notes
  BY Types DEF IInv, Execution
<1>1. \A n \in Notes : /\ Swept(n) \in Row /\ Leased(Swept(n))
                       /\ \/ Swept(n) = row[n]
                          \/ /\ Swept(n).state = "held"
                             /\ Stale(n) \/ row[n].state \in {"pending", "failed"}
  BY <1>0, SweptRow
<1>2. \A n \in Notes : MayClaim(w) /\ RowLocked(n) => Swept(n) = row[n] /\ row[n].state = "sending"
  BY <1>1, LockedRow DEF MayClaim
<1>3. CASE ClaimNothing(w)
  <2>1. /\ row' = [n \in Notes |-> Swept(n)] /\ UNCHANGED <<hidden, worker, posts, deletions>>
        /\ MayClaim(w)
    BY <1>3 DEF ClaimNothing
  <2>2. row' \in [Notes -> Row] /\ \A n \in Notes : row'[n] = Swept(n)
    BY <1>1, <2>1
  <2> QED
    BY <1>0, <1>1, <1>2, <2>1, <2>2, RowStep DEF IInv, SendingIsVisible
<1>4. ASSUME NEW n \in Notes, MayClaim(w), Due(n), row[n].token < MaxToken,
             row' = [m \in Notes |->
               IF m = n THEN [row[n] EXCEPT !.state = "sending", !.owner = w, !.lease = "live",
                                            !.token = row[n].token + 1, !.hold = "none"]
                        ELSE Swept(m)],
             worker' = [worker EXCEPT ![w] =
               [pc |-> "claimed", note |-> n, token |-> row[n].token + 1, knows |-> FALSE]],
             UNCHANGED <<hidden, posts, deletions>>
      PROVE  IInv'
  <2> DEFINE r == [row[n] EXCEPT !.state = "sending", !.owner = w, !.lease = "live",
                                 !.token = row[n].token + 1, !.hold = "none"]
             e == [pc |-> "claimed", note |-> n, token |-> row[n].token + 1, knows |-> FALSE]
  <2>1. row[n].token + 1 \in Tokens
    BY <1>0, <1>4, BoundsAssumption DEF Row, Tokens
  <2>2. r \in Row /\ r.state = "sending" /\ r.owner = w /\ r.lease = "live"
        /\ r.bound = row[n].bound
    <3>1. row[n] \in Row
      BY <1>0
    <3>2. r \in Row
      BY <2>1, <3>1 DEF Row, States, Holds
    <3>3. r.state = "sending" /\ r.owner = w /\ r.lease = "live"
      BY <3>1 DEF Row
    <3>4. r.bound = row[n].bound
      BY <3>1 DEF Row
    <3> QED
      BY <3>2, <3>3, <3>4
  <2>3. Leased(r)
    BY <2>2, WorkersAssumption DEF Leased
  <2>4. row' \in [Notes -> Row] /\ row'[n] = r /\ \A m \in Notes \ {n} : row'[m] = Swept(m)
    BY <1>1, <1>4, <2>2
  <2>5. e \in Execution
    BY <2>1 DEF Execution, Phases
  <2>6. worker' \in [Workers -> Execution] /\ worker'[w] = e
        /\ \A v \in Workers \ {w} : worker'[v] = worker[v]
    BY <1>0, <1>4, <2>5
  <2>7. row[n].state \in {"pending", "failed"} /\ (row[n].bound => ~hidden) /\ posts[n] = 0
    BY <1>4 DEF Due, IInv, WaitingNotPosted
  <2>8. TypeOK'
    BY <1>0, <1>1, <1>4, <2>3, <2>4, <2>6, TypesNext
  <2>9. WaitingNotPosted'
    BY <1>1, <1>4, <2>2, <2>4 DEF IInv, WaitingNotPosted
  <2>10. \A v \in Workers \ {w} : Owns(v)' => Owns(v)
    <3> SUFFICES ASSUME NEW v \in Workers \ {w}, Owns(v)' PROVE Owns(v)
      OBVIOUS
    <3>1. worker[v].note /= n
      <4> HIDE DEF r
      <4>1. row'[n].owner = w /\ worker'[v] = worker[v]
        BY <2>2, <2>4, <2>6
      <4> QED
        BY <4>1 DEF Owns
    <3> QED
      BY <1>0, <1>1, <2>4, <2>6, <3>1 DEF Owns
  <2>11. OwnerNotPosted'
    <3> SUFFICES ASSUME NEW v \in Workers
                 PROVE  /\ worker'[v].pc \in {"claimed", "read", "pair", "post", "refused"} /\ Owns(v)'
                             => posts[worker'[v].note] = 0
                        /\ worker'[v].pc = "accepted" => posts[worker'[v].note] = 1
      BY <1>4 DEF OwnerNotPosted
    <3>1. CASE v = w
      BY <2>6, <2>7, <3>1
    <3>2. CASE v /= w
      BY <2>6, <2>10, <3>2 DEF IInv, OwnerNotPosted
    <3> QED
      BY <3>1, <3>2
  <2>12. LockedRowIsOwned'
    <3> SUFFICES ASSUME NEW v \in Workers, worker'[v].pc \in {"post", "accepted"} PROVE Owns(v)'
      BY DEF LockedRowIsOwned
    <3>1. v /= w /\ worker'[v] = worker[v] /\ Owns(v) /\ RowLocked(worker[v].note)
      BY <2>6 DEF IInv, LockedRowIsOwned, RowLocked
    <3>2. row'[worker[v].note] = row[worker[v].note]
      BY <1>0, <1>2, <1>4, <2>4, <2>7, <3>1
    <3> QED
      BY <3>1, <3>2 DEF Owns
  <2>13. SendingIsVisible'
    <3> SUFFICES ASSUME NEW m \in Notes, row'[m].state = "sending", row'[m].bound PROVE ~hidden
      BY <1>4 DEF SendingIsVisible
    <3>1. CASE m = n
      BY <2>2, <2>4, <2>7, <3>1
    <3>2. CASE m /= n
      BY <1>1, <2>4, <3>2 DEF IInv, SendingIsVisible
    <3> QED
      BY <3>1, <3>2
  <2> QED
    BY <2>8, <2>9, <2>11, <2>12, <2>13 DEF IInv
<1> QED
  BY <1>3, <1>4 DEF Claim, ClaimNotification

\* Every action keeps the invariant.
LEMMA NextKeepsIInv == IInv /\ [Next]_vars => IInv'
<1> SUFFICES ASSUME IInv, [Next]_vars PROVE IInv'
  OBVIOUS
<1>1. CASE Case \/ Clock
  BY <1>1, OutsideKeepsIInv
<1>2. ASSUME NEW w \in Workers, Claim(w) \/ Deliver(w) \/ Crash(w) PROVE IInv'
  BY <1>2, ClaimKeepsIInv, DeliverKeepsIInv
<1>3. CASE UNCHANGED vars
  <2>1. TypeOK'
    BY <1>3, Types, TypesNext DEF IInv, vars
  <2>2. \A w \in Workers : Owns(w)' <=> Owns(w)
    BY <1>3 DEF vars, Owns
  <2> QED
    BY <1>3, <2>1, <2>2 DEF IInv, vars, WaitingNotPosted, OwnerNotPosted, LockedRowIsOwned,
                            SendingIsVisible
<1> QED
  BY <1>1, <1>2, <1>3 DEF Next

\* The inductive invariant holds in every behaviour.
THEOREM InductiveInvariant == Spec => []IInv
BY InitIInv, NextKeepsIInv, PTL DEF Spec

\* Rows and executions have their types, and a row has a lease and an owner
\* exactly while it is being sent (notification_outbox_lease_check).
THEOREM TypeCorrect == Spec => []TypeOK
<1>1. IInv => TypeOK
  BY DEF IInv
<1> QED
  BY <1>1, InductiveInvariant, PTL

\* Slack is told of an admission at most once, however many executions of
\* deliver_notification try and wherever they die, and a row that says "sent" was posted.
THEOREM PostedOnce == Spec => []AtMostOnePost
<1>1. IInv => AtMostOnePost
  <2> SUFFICES ASSUME IInv, NEW n \in Notes
               PROVE  posts[n] <= 1 /\ (row[n].state = "sent" => posts[n] = 1)
    BY DEF AtMostOnePost
  <2>1. posts[n] \in {0, 1} /\ (row[n].state = "sent" => posts[n] = 1)
    BY DEF IInv, WaitingNotPosted
  <2> QED
    BY <2>1
<1> QED
  BY <1>1, InductiveInvariant, PTL

\* What a step adds to Slack, it adds about a case that is not deleted.
LEMMA PostIsVisible ==
  IInv /\ [Next]_vars =>
    [\A n \in Notes : posts'[n] /= posts[n] => ~(row[n].bound /\ hidden)]_vars
<1> SUFFICES ASSUME IInv, Next, NEW n \in Notes, posts'[n] /= posts[n]
             PROVE  ~(row[n].bound /\ hidden)
  BY DEF vars
<1>1. posts \in [Notes -> Nat]
  BY Types DEF IInv
<1>2. PICK w \in Workers : Accept(w)
  BY DEF Next, Case, Clock, Claim, Deliver, Admit, Bind, SoftDelete, RestoreCase, LeaseExpires,
         BecomesDue, ClaimNotification, ClaimNothing, NotStarted, DeliveryFails,
         ReadNotification, LockPair, LockRow, Refuse, CommitSent, SettleRefused, SettleUnknown,
         Crash, Retry, Hold, Settle
<1>3. posts' = [posts EXCEPT ![worker[w].note] = posts[worker[w].note] + 1]
      /\ ~(row[worker[w].note].bound /\ hidden)
  BY <1>2, AcceptStep
<1>4. n = worker[w].note
  BY <1>1, <1>3
<1> QED
  BY <1>3, <1>4

\* Nothing is posted about a case after softDeleteCase committed.
THEOREM SilentAfterDeletion == Spec => NoPostAboutDeletedCase
BY InductiveInvariant, PostIsVisible, PTL DEF Spec, NoPostAboutDeletedCase
=============================================================================
