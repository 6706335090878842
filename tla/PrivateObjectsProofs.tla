------------------------ MODULE PrivateObjectsProofs ------------------------
(***************************************************************************)
(* What is proved of PrivateObjects, for any pathnames, writers and         *)
(* executors and any number of claims: what a pipeline write committed is   *)
(* never deleted, as long as a delete ends before its claim runs out, nor   *)
(* is an accepted upload that no executor claimed in quarantine; and no     *)
(* object is left without a row that leads to it, however long a delete     *)
(* takes.                                                                   *)
(*                                                                          *)
(* The row of an object and the object change in different steps, so the    *)
(* invariant says for every step of a writer or an executor what it may     *)
(* rely on when it comes back: a writer that renewed its lease keeps it     *)
(* until it has put the object or somebody else committed the row           *)
(* (LeasesLast), and an executor that still holds its claim after a delete  *)
(* finds the object gone (RemovedIsGone).                                   *)
(***************************************************************************)
EXTENDS PrivateObjects, TLAPS

WriterRow == {IdleWriter} \cup [pc : {"reserved", "renewed", "stored"}, key : Keys, token : Nat]
PurgerRow == {IdlePurger} \cup [pc : {"claimed", "removed", "failing"}, item : Items, token : Tokens]
CleanRow == [owner : Purgers \cup {NoPurger}, token : Tokens, stale : BOOLEAN]
WriteRow == [owned : BOOLEAN, live : BOOLEAN, token : Nat]

\* The states a row of each table goes through.
Lifecycles ==
  /\ \A k \in Keys : state[Private(k)] \in {"absent", "pending", "cleanup", "committed", "purged"}
  /\ \A f \in Files : state[Upload(f)] \in {"absent", "pending", "cleanup", "completed", "purged"}
  /\ \A f \in Files : state[Supplement(f)] \in {"absent", "pending", "cleanup", "accepted", "purged"}

\* The owner row and the commit of its reservation are one transaction.
CommittedIsBound == \A k \in Keys : state[Private(k)] = "committed" <=> k \in bound

\* So are the completion of an upload and its supplement.
CompletedHasSupplement ==
  \A f \in Files : state[Upload(f)] = "completed" <=> state[Supplement(f)] /= "absent"

\* Executors take only what is old.
PurgedWasOld == \A i \in Items : state[i] \in {"cleanup", "purged"} => age[i] = 2

\* A writer that renewed has its lease until the object is put, unless the row
\* was committed meanwhile.
LeasesLast ==
  \A w \in Writers : writer[w].pc = "renewed" =>
    write[writer[w].key].live \/ writer[w].key \in bound

\* A writer's token is never ahead of its row.
TokensBehind ==
  \A w \in Writers : writer[w].pc /= "idle" => writer[w].token <= write[writer[w].key].token

\* Nobody put an object back under an executor that has yet to record its delete.
RemovedIsGone ==
  \A p \in Purgers : purger[p].pc = "removed" /\ Holds(p) => purger[p].item[2] \notin store

\* What a pipeline write committed is there.
BoundIsStored == bound \subseteq store

\* When deletes end in time, an executor that is about to delete still has its
\* claim, and what the holder of a reservation has put is there.
InTime ==
  ~SlowDeletes =>
    /\ \A p \in Purgers : purger[p].pc = "claimed" => Holds(p) /\ ~clean[purger[p].item].stale
    /\ \A w \in Writers :
         /\ writer[w].pc = "stored"
         /\ state[Private(writer[w].key)] = "pending"
         /\ write[writer[w].key].owned
         /\ write[writer[w].key].token = writer[w].token
         => writer[w].key \in store
    /\ BoundIsStored

IInv ==
  /\ TypeOK
  /\ Lifecycles
  /\ CommittedIsBound
  /\ CompletedHasSupplement
  /\ PurgedWasOld
  /\ LeasesLast
  /\ TokensBehind
  /\ RemovedIsGone
  /\ Tracked
  /\ InTime

-----------------------------------------------------------------------------
(* Types *)

\* The type invariant by its parts, in the names used below.
LEMMA Types ==
  ASSUME TypeOK
  PROVE  /\ state \in [Items -> States] /\ age \in [Items -> 0 .. 2]
         /\ clean \in [Items -> CleanRow] /\ write \in [Keys -> WriteRow]
         /\ \A i \in Items : state[i] = "cleanup" <=> clean[i].owner /= NoPurger
         /\ \A k \in Keys : /\ write[k].live => write[k].owned
                            /\ write[k].owned => state[Private(k)] = "pending"
         /\ bound \subseteq Keys /\ store \subseteq Keys \cup Files
         /\ writer \in [Writers -> WriterRow] /\ purger \in [Purgers -> PurgerRow]
BY DEF TypeOK, CleanRow, WriteRow, WriterRow, PurgerRow

\* The same for the next state.
LEMMA TypesNext ==
  ASSUME (state \in [Items -> States])', (age \in [Items -> 0 .. 2])',
         (clean \in [Items -> CleanRow])', (write \in [Keys -> WriteRow])',
         (\A i \in Items : state[i] = "cleanup" <=> clean[i].owner /= NoPurger)',
         (\A k \in Keys : /\ write[k].live => write[k].owned
                          /\ write[k].owned => state[Private(k)] = "pending")',
         (bound \subseteq Keys)', (store \subseteq Keys \cup Files)',
         (writer \in [Writers -> WriterRow])', (purger \in [Purgers -> PurgerRow])'
  PROVE  TypeOK'
BY DEF TypeOK, CleanRow, WriteRow, WriterRow, PurgerRow

\* Rows of different tables, or of different pathnames, are different.
LEMMA ItemsDiffer ==
  /\ \A k \in Keys : Private(k) \in Items /\ Private(k)[2] = k
  /\ \A f \in Files : Upload(f) \in Items /\ Supplement(f) \in Items
                      /\ Upload(f)[2] = f /\ Supplement(f)[2] = f
  /\ \A k, l \in Keys : Private(k) = Private(l) <=> k = l
  /\ \A f, g \in Files : Upload(f) = Upload(g) <=> f = g
  /\ \A f, g \in Files : Supplement(f) = Supplement(g) <=> f = g
  /\ \A k \in Keys, f \in Files : Private(k) /= Upload(f) /\ Private(k) /= Supplement(f)
  /\ \A f, g \in Files : Upload(f) /= Supplement(g)
  /\ \A i \in Items : \/ \E k \in Keys : i = Private(k)
                      \/ \E f \in Files : i = Upload(f)
                      \/ \E f \in Files : i = Supplement(f)
BY DEF Items, PrivateItems, UploadItems, SupplementItems, Private, Upload, Supplement

\* What a writer and an executor that are under way are about.
LEMMA Rows ==
  ASSUME TypeOK
  PROVE  /\ \A w \in Writers : writer[w].pc /= "idle" =>
              writer[w].key \in Keys /\ writer[w].token \in Nat
         /\ \A p \in Purgers : purger[p].pc /= "idle" =>
              /\ purger[p].item \in Items /\ purger[p].token \in Tokens
              /\ purger[p] \in [pc : {"claimed", "removed", "failing"}, item : Items, token : Tokens]
         /\ \A w \in Writers : writer[w].pc \in {"idle", "reserved", "renewed", "stored"}
         /\ \A p \in Purgers : purger[p].pc \in {"idle", "claimed", "removed", "failing"}
<1>1. writer \in [Writers -> WriterRow] /\ purger \in [Purgers -> PurgerRow]
  BY Types
<1>2. IdleWriter.pc = "idle" /\ IdlePurger.pc = "idle"
  BY DEF IdleWriter, IdlePurger
<1>3. \A w \in Writers : writer[w].pc /= "idle" =>
        writer[w] \in [pc : {"reserved", "renewed", "stored"}, key : Keys, token : Nat]
  BY <1>1, <1>2 DEF WriterRow
<1>4. \A p \in Purgers : purger[p].pc /= "idle" =>
        purger[p] \in [pc : {"claimed", "removed", "failing"}, item : Items, token : Tokens]
  BY <1>1, <1>2 DEF PurgerRow
<1> QED
  BY <1>3, <1>4

\* The initial states satisfy the invariant.
LEMMA InitIInv == Init => IInv
<1> SUFFICES ASSUME Init PROVE IInv
  OBVIOUS
<1>1. TypeOK
  <2>1. 0 \in Tokens /\ 0 \in 0 .. 2
    BY BoundAssumption DEF Tokens
  <2> QED
    BY <2>1, PurgersAssumption, ItemsDiffer DEF Init, TypeOK, States, NoWrite
<1>2. Lifecycles /\ CommittedIsBound /\ CompletedHasSupplement /\ PurgedWasOld
  BY ItemsDiffer DEF Init, Lifecycles, CommittedIsBound, CompletedHasSupplement, PurgedWasOld
<1>3. LeasesLast /\ TokensBehind /\ RemovedIsGone /\ Tracked
  BY DEF Init, LeasesLast, TokensBehind, RemovedIsGone, Tracked, IdleWriter, IdlePurger
<1>4. InTime
  BY DEF Init, InTime, BoundIsStored, IdleWriter, IdlePurger
<1> QED
  BY <1>1, <1>2, <1>3, <1>4 DEF IInv

-----------------------------------------------------------------------------
(* Steps that touch no row *)

\* A writer that gives up leaves rows and objects as they were.
LEMMA WriterForgets ==
  ASSUME IInv, NEW w \in Writers, Abandon(w)
  PROVE  IInv'
<1> USE DEF IInv
<1>1. /\ writer' = [writer EXCEPT ![w] = IdleWriter]
      /\ UNCHANGED <<state, age, clean, write, bound, store, purger>>
  BY DEF Abandon, rows
<1>2. /\ writer' \in [Writers -> WriterRow]
      /\ \A x \in Writers : writer'[x] = IF x = w THEN IdleWriter ELSE writer[x]
  BY <1>1, Types DEF WriterRow
<1>3. TypeOK'
  BY <1>1, <1>2, Types, TypesNext
<1>4. \A x \in Writers : writer'[x].pc /= "idle" => writer'[x] = writer[x]
  BY <1>2 DEF IdleWriter
<1>5. Lifecycles' /\ CommittedIsBound' /\ CompletedHasSupplement' /\ PurgedWasOld'
  BY <1>1 DEF Lifecycles, CommittedIsBound, CompletedHasSupplement, PurgedWasOld
<1>6. LeasesLast' /\ TokensBehind' /\ InTime'
  BY <1>1, <1>4 DEF LeasesLast, TokensBehind, InTime, BoundIsStored, Holds
<1>7. RemovedIsGone' /\ Tracked'
  BY <1>1 DEF RemovedIsGone, Tracked, Holds
<1> QED
  BY <1>3, <1>5, <1>6, <1>7

\* An executor that fails or dies leaves rows and objects as they were.
LEMMA PurgerForgets ==
  ASSUME IInv, NEW p \in Purgers, FinalizeFails(p) \/ Crash(p)
  PROVE  IInv'
<1> USE DEF IInv
<1>1. PICK row : /\ purger' = [purger EXCEPT ![p] = row]
                 /\ row \in PurgerRow /\ row.pc \in {"idle", "failing"}
  <2>1. CASE FinalizeFails(p)
    <3>1. PICK row : row = [purger[p] EXCEPT !.pc = "failing"]
      OBVIOUS
    <3>2. purger[p].pc /= "idle" /\ purger' = [purger EXCEPT ![p] = row]
      BY <2>1, <3>1 DEF FinalizeFails
    <3>3. row \in PurgerRow /\ row.pc = "failing"
      BY <3>1, <3>2, Rows DEF PurgerRow
    <3> QED
      BY <3>2, <3>3
  <2>2. CASE Crash(p)
    <3>1. IdlePurger \in PurgerRow /\ IdlePurger.pc = "idle"
      BY DEF PurgerRow, IdlePurger
    <3> QED
      BY <2>2, <3>1 DEF Crash
  <2> QED
    BY <2>1, <2>2
<1>2. UNCHANGED <<state, age, clean, write, bound, store, writer>>
  BY DEF FinalizeFails, Crash, rows
<1>3. /\ purger' \in [Purgers -> PurgerRow]
      /\ \A q \in Purgers : purger'[q] = IF q = p THEN row ELSE purger[q]
  BY <1>1, Types
<1>4. TypeOK'
  BY <1>2, <1>3, Types, TypesNext
<1>5. \A q \in Purgers : purger'[q].pc \in {"claimed", "removed"} => purger'[q] = purger[q]
  BY <1>1, <1>3
<1>6. Lifecycles' /\ CommittedIsBound' /\ CompletedHasSupplement' /\ PurgedWasOld'
  BY <1>2 DEF Lifecycles, CommittedIsBound, CompletedHasSupplement, PurgedWasOld
<1>7. LeasesLast' /\ TokensBehind' /\ Tracked'
  BY <1>2 DEF LeasesLast, TokensBehind, Tracked
<1>8. RemovedIsGone' /\ InTime'
  BY <1>2, <1>5 DEF RemovedIsGone, InTime, BoundIsStored, Holds
<1> QED
  BY <1>4, <1>6, <1>7, <1>8

-----------------------------------------------------------------------------
(* Pipeline writes *)

\* A reservation gives a new token to a row that has no writer.
LEMMA ReserveKeepsIInv ==
  ASSUME IInv, NEW w \in Writers, NEW k \in Keys, Reserve(w, k)
  PROVE  IInv'
<1> USE DEF IInv
<1>0. PICK i, lost, token, row :
        /\ i = Private(k) /\ lost = (state[i] = "pending" /\ ~write[k].owned)
        /\ token = IF state[i] = "absent" \/ lost THEN write[k].token + 1 ELSE write[k].token
        /\ row = [pc |-> "reserved", key |-> k, token |-> token]
  OBVIOUS
<1>1. /\ state \in [Items -> States] /\ write \in [Keys -> WriteRow] /\ write[k] \in WriteRow
      /\ writer \in [Writers -> WriterRow] /\ i \in Items /\ write[k].token \in Nat
      /\ clean \in [Items -> CleanRow]
  BY <1>0, Types, ItemsDiffer DEF WriteRow
<1>2. /\ state' = [state EXCEPT ![i] = IF @ = "absent" THEN "pending" ELSE @]
      /\ write' = IF state[i] = "absent" \/ lost
                  THEN [write EXCEPT ![k] = [owned |-> TRUE, live |-> TRUE, token |-> token]]
                  ELSE write
      /\ writer' = [writer EXCEPT ![w] = row]
      /\ state[i] \in {"absent", "pending", "committed"} /\ k \notin bound
      /\ UNCHANGED <<age, clean, bound, store, purger>>
  BY <1>0 DEF Reserve
<1>3. /\ state' \in [Items -> States]
      /\ state'[i] = IF state[i] = "absent" THEN "pending" ELSE state[i]
      /\ \A x \in Items : x /= i => state'[x] = state[x]
  BY <1>1, <1>2 DEF States
<1>4. token \in Nat /\ write[k].token <= token
  BY <1>0, <1>1
<1>5. /\ write' \in [Keys -> WriteRow]
      /\ \A l \in Keys : l /= k => write'[l] = write[l]
      /\ write'[k].token = token
      /\ write'[k] = write[k] \/ (write'[k].owned /\ write'[k].live /\ ~write[k].live
                                  /\ state'[i] = "pending" /\ token = write[k].token + 1)
  <2>1. CASE state[i] = "absent" \/ lost
    <3>1. write' = [write EXCEPT ![k] = [owned |-> TRUE, live |-> TRUE, token |-> token]]
      BY <1>2, <2>1
    <3>2. [owned |-> TRUE, live |-> TRUE, token |-> token] \in WriteRow
      BY <1>4 DEF WriteRow
    <3>3. ~write[k].live /\ state'[i] = "pending" /\ token = write[k].token + 1
      BY <2>1, <1>0, <1>3, Types
    <3> QED
      BY <1>1, <3>1, <3>2, <3>3
  <2>2. CASE ~(state[i] = "absent" \/ lost)
    BY <1>0, <1>1, <1>2, <2>2
  <2> QED
    BY <2>1, <2>2
<1>6. /\ writer' \in [Writers -> WriterRow]
      /\ \A x \in Writers : writer'[x] = IF x = w THEN row ELSE writer[x]
  <2>1. row \in WriterRow
    BY <1>0, <1>4 DEF WriterRow
  <2> QED
    BY <1>1, <1>2, <2>1
<1>7. TypeOK'
  <2>1. (\A x \in Items : state[x] = "cleanup" <=> clean[x].owner /= NoPurger)'
    BY <1>1, <1>2, <1>3, Types
  <2>2. (\A l \in Keys : /\ write[l].live => write[l].owned
                         /\ write[l].owned => state[Private(l)] = "pending")'
    <3> SUFFICES ASSUME NEW l \in Keys
                 PROVE  /\ write'[l].live => write'[l].owned
                        /\ write'[l].owned => state'[Private(l)] = "pending"
      OBVIOUS
    <3>1. CASE l = k
      BY <1>0, <1>3, <1>5, <3>1, Types
    <3>2. CASE l /= k
      BY <1>0, <1>3, <1>5, <3>2, Types, ItemsDiffer
    <3> QED
      BY <3>1, <3>2
  <2> QED
    BY <1>2, <1>3, <1>5, <1>6, <2>1, <2>2, Types, TypesNext
<1>8. Lifecycles' /\ CommittedIsBound' /\ CompletedHasSupplement' /\ PurgedWasOld'
  <2>1. Lifecycles' /\ CommittedIsBound'
    BY <1>0, <1>2, <1>3, ItemsDiffer DEF Lifecycles, CommittedIsBound
  <2>2. CompletedHasSupplement' /\ PurgedWasOld'
    BY <1>0, <1>2, <1>3, ItemsDiffer DEF CompletedHasSupplement, PurgedWasOld
  <2> QED
    BY <2>1, <2>2
<1>9. \A x \in Writers : x /= w => writer'[x] = writer[x]
  BY <1>6
<1>10. LeasesLast'
  BY <1>0, <1>2, <1>5, <1>6, <1>9, Rows DEF LeasesLast
<1>11. TokensBehind'
  <2> SUFFICES ASSUME NEW x \in Writers, writer'[x].pc /= "idle"
               PROVE  writer'[x].token <= write'[writer'[x].key].token
    BY DEF TokensBehind
  <2>1. CASE x = w
    BY <1>0, <1>4, <1>5, <1>6, <2>1
  <2>2. CASE x /= w
    <3>1. writer'[x] = writer[x] /\ writer[x].token \in Nat /\ writer[x].key \in Keys
          /\ writer[x].token <= write[writer[x].key].token
      BY <1>9, <2>2, Rows DEF TokensBehind
    <3>2. CASE writer[x].key = k
      BY <1>1, <1>4, <1>5, <3>1, <3>2
    <3>3. CASE writer[x].key /= k
      BY <1>5, <3>1, <3>3
    <3> QED
      BY <3>2, <3>3
  <2> QED
    BY <2>1, <2>2
<1>12. RemovedIsGone'
  BY <1>2, <1>3, Rows DEF RemovedIsGone, Holds
<1>13. Tracked'
  BY <1>0, <1>2, <1>3, ItemsDiffer DEF Tracked
<1>14. InTime'
  <2> SUFFICES ASSUME ~SlowDeletes PROVE InTime'
    BY DEF InTime
  <2>1. (\A p \in Purgers : purger[p].pc = "claimed" => Holds(p) /\ ~clean[purger[p].item].stale)'
    BY <1>2, <1>3, Rows DEF InTime, Holds
  <2>2. ASSUME NEW x \in Writers, writer'[x].pc = "stored",
               state'[Private(writer'[x].key)] = "pending",
               write'[writer'[x].key].owned,
               write'[writer'[x].key].token = writer'[x].token
        PROVE  writer'[x].key \in store
    <3>1. x /= w /\ writer'[x] = writer[x]
      BY <1>0, <1>6, <2>2
    <3>2. writer[x].key \in Keys /\ writer[x].token \in Nat
          /\ writer[x].token <= write[writer[x].key].token
      BY <2>2, <3>1, Rows DEF TokensBehind
    <3>3. write'[writer[x].key] = write[writer[x].key]
      <4>1. CASE writer[x].key = k
        BY <1>1, <1>5, <2>2, <3>1, <3>2, <4>1
      <4>2. CASE writer[x].key /= k
        BY <1>5, <3>2, <4>2
      <4> QED
        BY <4>1, <4>2
    <3>4. state[Private(writer[x].key)] = "pending"
      BY <2>2, <3>1, <3>2, <3>3, Types
    <3> QED
      BY <2>2, <3>1, <3>3, <3>4 DEF InTime
  <2>3. BoundIsStored'
    BY <1>2 DEF InTime, BoundIsStored
  <2> QED
    BY <1>2, <2>1, <2>2, <2>3 DEF InTime
<1> QED
  BY <1>7, <1>8, <1>10, <1>11, <1>12, <1>13, <1>14

\* A renewed lease holds until the object is put.
LEMMA RenewKeepsIInv ==
  ASSUME IInv, NEW w \in Writers, Renew(w)
  PROVE  IInv'
<1> USE DEF IInv
<1>0. PICK k, row, lease : /\ k = writer[w].key
                           /\ row = [writer[w] EXCEPT !.pc = "renewed"]
                           /\ lease = [write[k] EXCEPT !.live = TRUE]
  OBVIOUS
<1>1. /\ writer[w].pc = "reserved" /\ state[Private(k)] = "pending" /\ write[k].owned
      /\ write' = [write EXCEPT ![k] = lease]
      /\ writer' = [writer EXCEPT ![w] = row]
      /\ UNCHANGED <<state, age, clean, bound, store, purger>>
  BY <1>0 DEF Renew, MayRenew, Moves
<1>2. k \in Keys /\ writer[w] \in [pc : {"reserved", "renewed", "stored"}, key : Keys, token : Nat]
  <2>1. writer[w] \in WriterRow /\ writer[w] /= IdleWriter
    BY <1>1, Types DEF IdleWriter
  <2> QED
    BY <1>0, <2>1 DEF WriterRow
<1>3. row \in WriterRow /\ row.pc = "renewed" /\ row.key = k /\ row.token = writer[w].token
  BY <1>0, <1>2 DEF WriterRow
<1>4. lease \in WriteRow /\ lease.live /\ lease.owned = write[k].owned /\ lease.token = write[k].token
  <2>1. write[k] \in WriteRow
    BY <1>2, Types
  <2> QED
    BY <1>0, <2>1 DEF WriteRow
<1>5. /\ writer' \in [Writers -> WriterRow]
      /\ \A x \in Writers : writer'[x] = IF x = w THEN row ELSE writer[x]
  BY <1>1, <1>3, Types
<1>6. /\ write' \in [Keys -> WriteRow]
      /\ \A l \in Keys : /\ write'[l].token = write[l].token /\ write'[l].owned = write[l].owned
                         /\ write[l].live => write'[l].live
                         /\ l /= k => write'[l] = write[l]
      /\ write'[k].live
  BY <1>1, <1>2, <1>4, Types
<1>7. TypeOK'
  <2>1. (\A l \in Keys : /\ write[l].live => write[l].owned
                         /\ write[l].owned => state[Private(l)] = "pending")'
    BY <1>1, <1>2, <1>6, Types
  <2> QED
    BY <1>1, <1>5, <1>6, <2>1, Types, TypesNext
<1>8. Lifecycles' /\ CommittedIsBound' /\ CompletedHasSupplement' /\ PurgedWasOld'
  BY <1>1 DEF Lifecycles, CommittedIsBound, CompletedHasSupplement, PurgedWasOld
<1>9. RemovedIsGone' /\ Tracked'
  BY <1>1 DEF RemovedIsGone, Tracked, Holds
<1>10. \A x \in Writers : writer'[x].pc /= "idle" =>
         /\ writer[x].pc /= "idle" /\ writer'[x].key = writer[x].key /\ writer[x].key \in Keys
         /\ writer'[x].token = writer[x].token
         /\ x /= w => writer'[x] = writer[x]
  BY <1>0, <1>1, <1>2, <1>3, <1>5, Rows
<1>13. LeasesLast'
  BY <1>0, <1>1, <1>5, <1>6, <1>10 DEF LeasesLast
<1>14. TokensBehind'
  BY <1>6, <1>10 DEF TokensBehind
<1>11. \A x \in Writers : writer'[x].pc = "stored" => writer'[x] = writer[x] /\ writer[x].key \in Keys
  BY <1>3, <1>5, Rows
<1>12. InTime'
  BY <1>1, <1>6, <1>11 DEF InTime, BoundIsStored, Holds
<1> QED
  BY <1>7, <1>8, <1>9, <1>12, <1>13, <1>14

\* A row that is purged, or being purged, has no writer that is about to put.
LEMMA NoLatePut ==
  ASSUME IInv, NEW w \in Writers, writer[w].pc = "renewed"
  PROVE  /\ writer[w].key \in Keys
         /\ writer[w].key \in bound \/ state[Private(writer[w].key)] = "pending"
         /\ state[Private(writer[w].key)] /= "cleanup"
BY Rows, Types DEF IInv, LeasesLast, CommittedIsBound

\* The object is put under a lease, so its row is still there.
LEMMA PutKeepsIInv ==
  ASSUME IInv, NEW w \in Writers, Put(w)
  PROVE  IInv'
<1> USE DEF IInv
<1>0. PICK k, row : k = writer[w].key /\ row = [writer[w] EXCEPT !.pc = "stored"]
  OBVIOUS
<1>1. /\ writer[w].pc = "renewed"
      /\ store' = store \cup {k}
      /\ writer' = [writer EXCEPT ![w] = row]
      /\ UNCHANGED <<state, age, clean, write, bound, purger>>
  BY <1>0 DEF Put, Moves, rows
<1>2. k \in Keys /\ writer[w] \in [pc : {"reserved", "renewed", "stored"}, key : Keys, token : Nat]
  <2>1. writer[w] \in WriterRow /\ writer[w] /= IdleWriter
    BY <1>1, Types DEF IdleWriter
  <2> QED
    BY <1>0, <2>1 DEF WriterRow
<1>3. row \in WriterRow /\ row.pc = "stored" /\ row.key = k /\ row.token = writer[w].token
  BY <1>0, <1>2 DEF WriterRow
<1>4. /\ writer' \in [Writers -> WriterRow]
      /\ \A x \in Writers : writer'[x] = IF x = w THEN row ELSE writer[x]
  BY <1>1, <1>3, Types
<1>5. TypeOK'
  BY <1>1, <1>2, <1>4, Types, TypesNext
<1>6. Lifecycles' /\ CommittedIsBound' /\ CompletedHasSupplement' /\ PurgedWasOld'
  BY <1>1 DEF Lifecycles, CommittedIsBound, CompletedHasSupplement, PurgedWasOld
<1>7. LeasesLast' /\ TokensBehind'
  <2>1. \A x \in Writers : /\ writer'[x].key = writer[x].key /\ writer'[x].token = writer[x].token
                           /\ writer'[x].pc = "renewed" => writer[x].pc = "renewed"
                           /\ writer'[x].pc /= "idle" => writer[x].pc /= "idle"
    BY <1>0, <1>1, <1>3, <1>4
  <2> QED
    BY <1>1, <2>1 DEF LeasesLast, TokensBehind
<1>8. (k \in bound \/ state[Private(k)] = "pending") /\ state[Private(k)] /= "cleanup"
  BY <1>0, <1>1, NoLatePut
<1>9. RemovedIsGone'
  <2> SUFFICES ASSUME NEW p \in Purgers, purger[p].pc = "removed", Holds(p)
               PROVE  purger[p].item[2] \notin store'
    BY <1>1 DEF RemovedIsGone, Holds
  <2>1. purger[p].item \in Items /\ state[purger[p].item] = "cleanup"
    BY Rows DEF Holds
  <2>2. purger[p].item[2] /= k
    BY <1>2, <1>8, <2>1, ItemsDiffer, PathsAssumption
  <2> QED
    BY <1>1, <2>2 DEF RemovedIsGone
<1>10. Tracked'
  BY <1>1, <1>2, <1>8, PathsAssumption DEF Tracked
<1>11. InTime'
  BY <1>0, <1>1, <1>3, <1>4 DEF InTime, BoundIsStored, Holds
<1> QED
  BY <1>5, <1>6, <1>7, <1>9, <1>10, <1>11

\* A commit binds an object that is stored.
LEMMA CommitKeepsIInv ==
  ASSUME IInv, NEW w \in Writers, Commit(w)
  PROVE  IInv'
<1> USE DEF IInv
<1>0. PICK k, i, lease : k = writer[w].key /\ i = Private(k)
                         /\ lease = [write[k] EXCEPT !.owned = FALSE, !.live = FALSE]
  OBVIOUS
<1>1. /\ writer[w].pc = "stored" /\ Committable(w)
      /\ state' = [state EXCEPT ![i] = "committed"]
      /\ write' = [write EXCEPT ![k] = lease]
      /\ bound' = bound \cup {k}
      /\ writer' = [writer EXCEPT ![w] = IdleWriter]
      /\ UNCHANGED <<age, clean, store, purger>>
  BY <1>0 DEF Commit
<1>2. /\ k \in Keys /\ i \in Items /\ write[k] \in WriteRow
      /\ state \in [Items -> States] /\ write \in [Keys -> WriteRow]
  BY <1>0, <1>1, Rows, Types, ItemsDiffer
<1>3. /\ state' \in [Items -> States] /\ state'[i] = "committed"
      /\ \A x \in Items : x /= i => state'[x] = state[x]
  BY <1>1, <1>2 DEF States
<1>4. lease \in WriteRow /\ ~lease.live /\ ~lease.owned /\ lease.token = write[k].token
  BY <1>0, <1>2 DEF WriteRow
<1>5. /\ write' \in [Keys -> WriteRow] /\ write'[k] = lease
      /\ \A l \in Keys : l /= k => write'[l] = write[l]
      /\ \A l \in Keys : write'[l].token = write[l].token
  BY <1>1, <1>2, <1>4
<1>6. /\ writer' \in [Writers -> WriterRow]
      /\ \A x \in Writers : writer'[x] = IF x = w THEN IdleWriter ELSE writer[x]
      /\ \A x \in Writers : writer'[x].pc /= "idle" => writer'[x] = writer[x]
  <2>1. IdleWriter \in WriterRow /\ IdleWriter.pc = "idle"
    BY DEF WriterRow, IdleWriter
  <2> QED
    BY <1>1, <2>1, Types
<1>7. state[i] \in {"committed", "pending"}
  BY <1>0, <1>1 DEF Committable
<1>8. TypeOK'
  <2>1. (\A x \in Items : state[x] = "cleanup" <=> clean[x].owner /= NoPurger)'
    BY <1>1, <1>2, <1>3, <1>7, Types
  <2>2. (\A l \in Keys : /\ write[l].live => write[l].owned
                         /\ write[l].owned => state[Private(l)] = "pending")'
    <3> SUFFICES ASSUME NEW l \in Keys
                 PROVE  /\ write'[l].live => write'[l].owned
                        /\ write'[l].owned => state'[Private(l)] = "pending"
      OBVIOUS
    <3>1. CASE l = k
      BY <1>4, <1>5, <3>1
    <3>2. CASE l /= k
      <4>1. Private(l) \in Items /\ Private(l) /= i
        BY <1>0, <1>2, <3>2, ItemsDiffer
      <4>2. state'[Private(l)] = state[Private(l)] /\ write'[l] = write[l]
        BY <1>3, <1>5, <3>2, <4>1
      <4> QED
        BY <4>2, Types
    <3> QED
      BY <3>1, <3>2
  <2> QED
    BY <1>1, <1>2, <1>3, <1>5, <1>6, <2>1, <2>2, Types, TypesNext
<1>9. Lifecycles' /\ CommittedIsBound'
  BY <1>0, <1>1, <1>2, <1>3, ItemsDiffer DEF Lifecycles, CommittedIsBound
<1>10. CompletedHasSupplement' /\ PurgedWasOld'
  BY <1>0, <1>1, <1>2, <1>3, ItemsDiffer DEF CompletedHasSupplement, PurgedWasOld
<1>11. LeasesLast' /\ TokensBehind'
  BY <1>1, <1>5, <1>6, Rows DEF LeasesLast, TokensBehind
<1>12. \A p \in Purgers : purger[p].pc /= "idle" => (Holds(p)' <=> Holds(p))
  BY <1>1, <1>2, <1>3, <1>7, Rows DEF Holds
<1>13. RemovedIsGone'
  BY <1>1, <1>12 DEF RemovedIsGone
<1>14. Tracked'
  BY <1>0, <1>1, <1>2, <1>3, ItemsDiffer DEF Tracked
<1>15. InTime'
  <2> SUFFICES ASSUME ~SlowDeletes PROVE InTime'
    BY DEF InTime
  <2>1. k \in store
    <3>1. CASE state[i] = "committed"
      BY <1>0, <1>2, <3>1 DEF CommittedIsBound, InTime, BoundIsStored
    <3>2. CASE state[i] = "pending" /\ write[k].token = writer[w].token /\ write[k].live
      BY <1>0, <1>1, <1>2, <3>2, Types DEF InTime
    <3> QED
      BY <1>0, <1>1, <3>1, <3>2 DEF Committable
  <2>2. (\A p \in Purgers : purger[p].pc = "claimed" => Holds(p) /\ ~clean[purger[p].item].stale)'
    BY <1>1, <1>12 DEF InTime
  <2>3. ASSUME NEW x \in Writers, writer'[x].pc = "stored",
               state'[Private(writer'[x].key)] = "pending",
               write'[writer'[x].key].owned,
               write'[writer'[x].key].token = writer'[x].token
        PROVE  writer'[x].key \in store'
    <3>1. writer'[x] = writer[x] /\ writer[x].key \in Keys
      BY <1>6, <2>3, Rows
    <3>2. writer[x].key /= k
      BY <1>4, <1>5, <2>3, <3>1
    <3>3. state[Private(writer[x].key)] = "pending" /\ write'[writer[x].key] = write[writer[x].key]
      BY <1>0, <1>3, <1>5, <2>3, <3>1, <3>2, ItemsDiffer
    <3> QED
      BY <1>1, <2>3, <3>1, <3>3 DEF InTime
  <2>4. BoundIsStored'
    BY <1>1, <2>1 DEF InTime, BoundIsStored
  <2> QED
    BY <2>2, <2>3, <2>4 DEF InTime
<1> QED
  BY <1>8, <1>9, <1>10, <1>11, <1>13, <1>14, <1>15

-----------------------------------------------------------------------------
(* Uploads *)

\* Steps of an upload that no executor is about, and the parts of the invariant
\* they leave alone.
LEMMA UploadSteps ==
  ASSUME IInv, (state \in [Items -> States])',
         \A k \in Keys : state'[Private(k)] = state[Private(k)],
         \A i \in Items : /\ state'[i] = "cleanup" <=> state[i] = "cleanup"
                          /\ state'[i] = "purged" <=> state[i] = "purged",
         UNCHANGED <<age, clean, write, bound, store, writer, purger>>
  PROVE  /\ TypeOK' /\ CommittedIsBound' /\ PurgedWasOld' /\ LeasesLast' /\ TokensBehind'
         /\ RemovedIsGone' /\ InTime'
<1> USE DEF IInv
<1>1. TypeOK'
  <2>1. (\A i \in Items : state[i] = "cleanup" <=> clean[i].owner /= NoPurger)'
    BY Types
  <2>2. (\A k \in Keys : /\ write[k].live => write[k].owned
                         /\ write[k].owned => state[Private(k)] = "pending")'
    BY Types
  <2> QED
    BY <2>1, <2>2, Types, TypesNext
<1>2. CommittedIsBound' /\ PurgedWasOld' /\ LeasesLast' /\ TokensBehind'
  BY DEF CommittedIsBound, PurgedWasOld, LeasesLast, TokensBehind
<1>3. \A p \in Purgers : purger[p].pc /= "idle" => (Holds(p)' <=> Holds(p))
  BY Rows DEF Holds
<1>4. RemovedIsGone'
  BY <1>3 DEF RemovedIsGone
<1>5. InTime'
  <2> SUFFICES ASSUME ~SlowDeletes PROVE InTime'
    BY DEF InTime
  <2>1. (\A p \in Purgers : purger[p].pc = "claimed" => Holds(p) /\ ~clean[purger[p].item].stale)'
    BY <1>3 DEF InTime
  <2>2. ASSUME NEW x \in Writers, writer[x].pc = "stored",
               state'[Private(writer[x].key)] = "pending",
               write[writer[x].key].owned, write[writer[x].key].token = writer[x].token
        PROVE  writer[x].key \in store
    BY <2>2, Rows DEF InTime
  <2> QED
    BY <2>1, <2>2 DEF InTime, BoundIsStored
<1> QED
  BY <1>1, <1>2, <1>4, <1>5

\* A reservation, a completed upload with its supplement, a supplement that is
\* taken out of quarantine.
LEMMA UploadKeepsIInv ==
  ASSUME IInv, NEW f \in Files, ReserveUpload(f) \/ AddSupplement(f) \/ Accept(f)
  PROVE  IInv'
<1> USE DEF IInv
<1>1. PICK u, s : u = Upload(f) /\ s = Supplement(f)
  OBVIOUS
<1>2. u \in Items /\ s \in Items /\ u /= s /\ state \in [Items -> States]
  BY <1>1, Types, ItemsDiffer
<1>3. UNCHANGED <<age, clean, write, bound, store, writer, purger>>
  BY DEF ReserveUpload, AddSupplement, Accept
<1>4. /\ state' \in [Items -> States]
      /\ \A i \in Items : i \notin {u, s} => state'[i] = state[i]
      /\ \/ state[u] = "absent" /\ state'[u] = "pending" /\ state'[s] = state[s]
         \/ state[u] = "pending" /\ state'[u] = "completed" /\ state'[s] = "pending"
         \/ state[s] = "pending" /\ state'[s] = "accepted" /\ state'[u] = state[u]
  <2>1. CASE ReserveUpload(f)
    BY <1>1, <1>2, <2>1 DEF ReserveUpload, States
  <2>2. CASE AddSupplement(f)
    BY <1>1, <1>2, <2>2 DEF AddSupplement, States
  <2>3. CASE Accept(f)
    BY <1>1, <1>2, <2>3 DEF Accept, States
  <2> QED
    BY <2>1, <2>2, <2>3
<1>5. state[u] = "pending" => state[s] = "absent"
  BY <1>1 DEF CompletedHasSupplement
<1>6. \A k \in Keys : state'[Private(k)] = state[Private(k)]
  BY <1>1, <1>4, ItemsDiffer
<1>7. \A i \in Items : /\ state'[i] = "cleanup" <=> state[i] = "cleanup"
                       /\ state'[i] = "purged" <=> state[i] = "purged"
  BY <1>4, <1>5
<1>8. \A g \in Files : g /= f => state'[Upload(g)] = state[Upload(g)]
                                 /\ state'[Supplement(g)] = state[Supplement(g)]
  BY <1>1, <1>4, ItemsDiffer
<1>9. Lifecycles' /\ CompletedHasSupplement'
  BY <1>1, <1>4, <1>5, <1>6, <1>8 DEF Lifecycles, CompletedHasSupplement
<1>10. Tracked'
  BY <1>1, <1>3, <1>4, <1>6, <1>8 DEF Tracked
<1>11. /\ TypeOK' /\ CommittedIsBound' /\ PurgedWasOld' /\ LeasesLast' /\ TokensBehind'
       /\ RemovedIsGone' /\ InTime'
  BY <1>3, <1>4, <1>6, <1>7, UploadSteps
<1> QED
  BY <1>9, <1>10, <1>11

\* A presigned URL is used while no executor may look at the row.
LEMMA BrowserPutKeepsIInv ==
  ASSUME IInv, NEW f \in Files, BrowserPut(f)
  PROVE  IInv'
<1> USE DEF IInv
<1>1. /\ state[Upload(f)] /= "absent" /\ age[Upload(f)] < 2 /\ age[Supplement(f)] = 0
      /\ store' = store \cup {f}
      /\ UNCHANGED <<state, age, clean, write, bound, writer, purger>>
  BY DEF BrowserPut, rows
<1>2. state[Upload(f)] \in {"pending", "completed"}
  BY <1>1, ItemsDiffer DEF Lifecycles, PurgedWasOld
<1>3. state[Supplement(f)] \in {"absent", "pending", "accepted"}
  BY <1>1, ItemsDiffer DEF Lifecycles, PurgedWasOld
<1>4. TypeOK'
  BY <1>1, Types, TypesNext
<1>5. Lifecycles' /\ CommittedIsBound' /\ CompletedHasSupplement' /\ PurgedWasOld'
  BY <1>1 DEF Lifecycles, CommittedIsBound, CompletedHasSupplement, PurgedWasOld
<1>6. LeasesLast' /\ TokensBehind'
  BY <1>1 DEF LeasesLast, TokensBehind
<1>7. RemovedIsGone'
  <2> SUFFICES ASSUME NEW p \in Purgers, purger[p].pc = "removed", Holds(p)
               PROVE  purger[p].item[2] \notin store'
    BY <1>1 DEF RemovedIsGone, Holds
  <2>1. purger[p].item \in Items /\ state[purger[p].item] = "cleanup"
    BY Rows DEF Holds
  <2>2. purger[p].item[2] /= f
    BY <1>2, <1>3, <2>1, ItemsDiffer, PathsAssumption
  <2> QED
    BY <1>1, <2>2 DEF RemovedIsGone
<1>8. Tracked'
  <2>1. state[Upload(f)] = "pending" \/ state[Supplement(f)] \in {"pending", "accepted"}
    BY <1>2, <1>3 DEF CompletedHasSupplement
  <2> QED
    BY <1>1, <2>1, PathsAssumption DEF Tracked
<1>9. InTime'
  BY <1>1 DEF InTime, BoundIsStored, Holds
<1> QED
  BY <1>4, <1>5, <1>6, <1>7, <1>8, <1>9

-----------------------------------------------------------------------------
(* The routine lane of the purge executor *)

\* A claim is taken of a row that no writer and no other executor relies on.
LEMMA ClaimKeepsIInv ==
  ASSUME IInv, NEW p \in Purgers, NEW i \in Items, Claim(p, i)
  PROVE  IInv'
<1> USE DEF IInv
<1>0. PICK claim, row : /\ claim = [owner |-> p, token |-> clean[i].token + 1, stale |-> FALSE]
                        /\ row = [pc |-> "claimed", item |-> i, token |-> clean[i].token + 1]
  OBVIOUS
<1>1. /\ purger[p].pc = "idle" /\ Due(i) /\ clean[i].token < MaxToken
      /\ state' = [state EXCEPT ![i] = "cleanup"]
      /\ clean' = [clean EXCEPT ![i] = claim]
      /\ write' = [k \in Keys |-> IF i = Private(k)
                                  THEN [write[k] EXCEPT !.owned = FALSE, !.live = FALSE]
                                  ELSE write[k]]
      /\ purger' = [purger EXCEPT ![p] = row]
      /\ UNCHANGED <<age, bound, store, writer>>
  BY <1>0 DEF Claim
<1>2. /\ state \in [Items -> States] /\ clean \in [Items -> CleanRow]
      /\ write \in [Keys -> WriteRow] /\ purger \in [Purgers -> PurgerRow]
  BY Types
<1>3. /\ claim \in CleanRow /\ claim.owner = p /\ ~claim.stale /\ p /= NoPurger
      /\ row \in PurgerRow /\ row.pc = "claimed" /\ row.item = i /\ row.token = claim.token
  <2>1. clean[i] \in CleanRow
    BY <1>2
  <2>2. clean[i].token \in Tokens
    BY <2>1 DEF CleanRow
  <2>3. \A n \in Tokens : n < MaxToken => n + 1 \in Tokens
    BY BoundAssumption DEF Tokens
  <2>4. clean[i].token < MaxToken
    BY <1>1
  <2>5. clean[i].token + 1 \in Tokens
    BY <2>2, <2>3, <2>4
  <2> QED
    BY <1>0, <2>5, PurgersAssumption DEF CleanRow, PurgerRow
<1>4. /\ state[i] \in {"pending", "cleanup"}
      /\ state[i] = "pending" => age[i] = 2
      /\ state[i] = "cleanup" => clean[i].stale
      /\ \A k \in Keys : i = Private(k) => k \notin bound /\ ~write[k].live
  BY <1>1 DEF Due
<1>5. /\ state' \in [Items -> States] /\ state'[i] = "cleanup"
      /\ \A x \in Items : x /= i => state'[x] = state[x]
  BY <1>1, <1>2 DEF States
<1>6. /\ clean' \in [Items -> CleanRow] /\ clean'[i] = claim
      /\ \A x \in Items : x /= i => clean'[x] = clean[x]
  BY <1>1, <1>2, <1>3
<1>7. /\ write' \in [Keys -> WriteRow]
      /\ \A k \in Keys : /\ write'[k].token = write[k].token
                         /\ i /= Private(k) => write'[k] = write[k]
                         /\ i = Private(k) => ~write'[k].owned /\ ~write'[k].live
  BY <1>1, <1>2 DEF WriteRow
<1>8. /\ purger' \in [Purgers -> PurgerRow]
      /\ \A q \in Purgers : purger'[q] = IF q = p THEN row ELSE purger[q]
  BY <1>1, <1>2, <1>3
<1>9. TypeOK'
  <2>1. (\A x \in Items : state[x] = "cleanup" <=> clean[x].owner /= NoPurger)'
    BY <1>3, <1>5, <1>6, Types
  <2>2. (\A k \in Keys : /\ write[k].live => write[k].owned
                         /\ write[k].owned => state[Private(k)] = "pending")'
    <3> SUFFICES ASSUME NEW k \in Keys
                 PROVE  /\ write'[k].live => write'[k].owned
                        /\ write'[k].owned => state'[Private(k)] = "pending"
      OBVIOUS
    <3>1. CASE i = Private(k)
      BY <1>7, <3>1
    <3>2. CASE i /= Private(k)
      <4>1. state'[Private(k)] = state[Private(k)] /\ write'[k] = write[k]
        BY <1>5, <1>7, <3>2, ItemsDiffer
      <4> QED
        BY <4>1, Types
    <3> QED
      BY <3>1, <3>2
  <2> QED
    BY <1>1, <1>5, <1>6, <1>7, <1>8, <2>1, <2>2, Types, TypesNext
<1>10. Lifecycles'
  BY <1>5, ItemsDiffer DEF Lifecycles
<1>11. CommittedIsBound' /\ CompletedHasSupplement'
  BY <1>1, <1>4, <1>5, ItemsDiffer DEF CommittedIsBound, CompletedHasSupplement
<1>12. PurgedWasOld'
  BY <1>1, <1>4, <1>5 DEF PurgedWasOld
<1>13. LeasesLast' /\ TokensBehind'
  <2>1. writer' = writer /\ bound' = bound
    BY <1>1
  <2>2. ASSUME NEW x \in Writers, writer[x].pc = "renewed"
        PROVE  write'[writer[x].key].live \/ writer[x].key \in bound
    <3>1. writer[x].key \in Keys /\ (write[writer[x].key].live \/ writer[x].key \in bound)
      BY <2>2, Rows DEF LeasesLast
    <3> QED
      BY <1>4, <1>7, <3>1
  <2>3. ASSUME NEW x \in Writers, writer[x].pc /= "idle"
        PROVE  writer[x].token <= write'[writer[x].key].token
    BY <1>7, <2>3, Rows DEF TokensBehind
  <2> QED
    BY <2>1, <2>2, <2>3 DEF LeasesLast, TokensBehind
<1>14. RemovedIsGone'
  <2> SUFFICES ASSUME NEW q \in Purgers, purger'[q].pc = "removed", Holds(q)'
               PROVE  purger'[q].item[2] \notin store'
    BY DEF RemovedIsGone
  <2>1. q /= p /\ purger'[q] = purger[q] /\ purger[q].item \in Items
    BY <1>3, <1>8, Rows
  <2>2. purger[q].item /= i
    BY <1>3, <1>6, <2>1 DEF Holds
  <2>3. Holds(q)
    BY <1>5, <1>6, <2>1, <2>2 DEF Holds
  <2>4. purger[q].pc = "removed" /\ store' = store
    BY <1>1, <2>1
  <2>5. purger[q].item[2] \notin store
    BY <2>3, <2>4 DEF RemovedIsGone
  <2> QED
    BY <2>1, <2>4, <2>5
<1>15. Tracked'
  BY <1>1, <1>4, <1>5, ItemsDiffer DEF Tracked
<1>16. InTime'
  <2> SUFFICES ASSUME ~SlowDeletes PROVE InTime'
    BY DEF InTime
  <2>1. ASSUME NEW q \in Purgers, purger'[q].pc = "claimed"
        PROVE  Holds(q)' /\ ~clean'[purger'[q].item].stale
    <3>1. CASE q = p
      BY <1>3, <1>5, <1>6, <1>8, <3>1 DEF Holds
    <3>2. CASE q /= p
      <4>1. purger'[q] = purger[q] /\ purger[q].item \in Items
        BY <1>8, <2>1, <3>2, Rows
      <4>2. Holds(q) /\ ~clean[purger[q].item].stale
        BY <2>1, <4>1 DEF InTime
      <4>3. purger[q].item /= i
        BY <1>4, <4>2 DEF Holds
      <4> QED
        BY <1>5, <1>6, <4>1, <4>2, <4>3 DEF Holds
    <3> QED
      BY <3>1, <3>2
  <2>2. ASSUME NEW x \in Writers, writer[x].pc = "stored",
               state'[Private(writer[x].key)] = "pending",
               write'[writer[x].key].owned, write'[writer[x].key].token = writer[x].token
        PROVE  writer[x].key \in store
    <3>1. writer[x].key \in Keys
      BY <2>2, Rows
    <3>2. i /= Private(writer[x].key)
      BY <1>7, <2>2, <3>1
    <3>3. state[Private(writer[x].key)] = "pending" /\ write'[writer[x].key] = write[writer[x].key]
      BY <1>5, <1>7, <2>2, <3>1, <3>2, ItemsDiffer
    <3> QED
      BY <2>2, <3>3 DEF InTime
  <2> QED
    BY <1>1, <2>1, <2>2 DEF InTime, BoundIsStored
<1> QED
  BY <1>9, <1>10, <1>11, <1>12, <1>13, <1>14, <1>15, <1>16

\* A delete, answered or not: when its claim still stands, the row is in cleanup
\* and so has neither an owner nor a writer that relies on the object.
LEMMA RemoveKeepsIInv ==
  ASSUME IInv, NEW p \in Purgers, Remove(p) \/ RemoveFails(p)
  PROVE  IInv'
<1> USE DEF IInv
<1>1. PICK pc, row : /\ row = [purger[p] EXCEPT !.pc = pc]
                     /\ purger' = [purger EXCEPT ![p] = row]
                     /\ store' \in {store, store \ {purger[p].item[2]}}
                     /\ \/ pc = "failing"
                        \/ pc = "removed" /\ store' = store \ {purger[p].item[2]}
  <2>1. CASE Remove(p)
    BY <2>1 DEF Remove
  <2>2. CASE RemoveFails(p)
    BY <2>2 DEF RemoveFails
  <2> QED
    BY <2>1, <2>2
<1>2. purger[p].pc = "claimed" /\ UNCHANGED <<state, age, clean, write, bound, writer>>
  BY DEF Remove, RemoveFails, rows
<1>3. PICK i : i = purger[p].item /\ i \in Items
  BY <1>2, Rows
<1>4. row \in PurgerRow /\ row.pc = pc /\ row.item = i /\ row.token = purger[p].token
  BY <1>1, <1>2, <1>3, Rows DEF PurgerRow
<1>5. /\ purger' \in [Purgers -> PurgerRow]
      /\ \A q \in Purgers : purger'[q] = IF q = p THEN row ELSE purger[q]
  BY <1>1, <1>4, Types
<1>6. store' \subseteq store
  BY <1>1
<1>7. TypeOK'
  BY <1>2, <1>5, <1>6, Types, TypesNext
<1>8. Lifecycles' /\ CommittedIsBound' /\ CompletedHasSupplement' /\ PurgedWasOld'
  BY <1>2 DEF Lifecycles, CommittedIsBound, CompletedHasSupplement, PurgedWasOld
<1>9. LeasesLast' /\ TokensBehind' /\ Tracked'
  BY <1>2, <1>6 DEF LeasesLast, TokensBehind, Tracked
<1>10. RemovedIsGone'
  <2> SUFFICES ASSUME NEW q \in Purgers, purger'[q].pc = "removed", Holds(q)'
               PROVE  purger'[q].item[2] \notin store'
    BY DEF RemovedIsGone
  <2>1. CASE q = p
    BY <1>1, <1>3, <1>4, <1>5, <2>1
  <2>2. CASE q /= p
    BY <1>2, <1>5, <1>6, <2>2 DEF RemovedIsGone, Holds
  <2> QED
    BY <2>1, <2>2
<1>11. InTime'
  <2> SUFFICES ASSUME ~SlowDeletes PROVE InTime'
    BY DEF InTime
  <2>1. ASSUME NEW q \in Purgers, purger'[q].pc = "claimed"
        PROVE  Holds(q)' /\ ~clean'[purger'[q].item].stale
    BY <1>1, <1>2, <1>4, <1>5, <2>1 DEF InTime, Holds
  <2>2. state[i] = "cleanup"
    BY <1>2, <1>3 DEF InTime, Holds
  <2>3. ASSUME NEW k \in Keys, k \in store, k \in bound \/ state[Private(k)] = "pending"
        PROVE  k \in store'
    <3>1. i /= Private(k)
      BY <2>2, <2>3 DEF CommittedIsBound
    <3>2. i[2] /= k
      BY <1>3, <3>1, ItemsDiffer, PathsAssumption
    <3> QED
      BY <1>1, <1>3, <2>3, <3>2
  <2>4. ASSUME NEW x \in Writers, writer[x].pc = "stored",
               state[Private(writer[x].key)] = "pending",
               write[writer[x].key].owned, write[writer[x].key].token = writer[x].token
        PROVE  writer[x].key \in store'
    BY <2>3, <2>4, Rows DEF InTime
  <2>5. BoundIsStored'
    BY <1>2, <2>3, Types DEF InTime, BoundIsStored
  <2> QED
    BY <1>2, <2>1, <2>4, <2>5 DEF InTime
<1> QED
  BY <1>7, <1>8, <1>9, <1>10, <1>11

\* The end of a claim that still stands: the row is purged, when the object is
\* gone, or goes back to pending.
LEMMA EndOfClaim ==
  ASSUME IInv, NEW p \in Purgers, Holds(p), purger[p].pc \in {"removed", "failing"},
         NEW i, i = purger[p].item, NEW new \in {"pending", "purged"},
         new = "purged" => i[2] \notin store,
         NEW row \in CleanRow, row.owner = NoPurger,
         state' = [state EXCEPT ![i] = new], clean' = [clean EXCEPT ![i] = row],
         purger' = [purger EXCEPT ![p] = IdlePurger],
         UNCHANGED <<age, write, bound, store, writer>>
  PROVE  IInv'
<1> USE DEF IInv
<1>1. i \in Items /\ state[i] = "cleanup" /\ clean[i].owner = p
  BY Rows DEF Holds
<1>2. /\ state' \in [Items -> States] /\ state'[i] = new
      /\ \A x \in Items : x /= i => state'[x] = state[x]
  BY <1>1, Types DEF States
<1>3. /\ clean' \in [Items -> CleanRow] /\ clean'[i] = row
      /\ \A x \in Items : x /= i => clean'[x] = clean[x]
  BY <1>1, Types
<1>4. /\ purger' \in [Purgers -> PurgerRow]
      /\ \A q \in Purgers : purger'[q].pc /= "idle" => q /= p /\ purger'[q] = purger[q]
  <2>1. IdlePurger \in PurgerRow /\ IdlePurger.pc = "idle"
    BY DEF PurgerRow, IdlePurger
  <2> QED
    BY <2>1, Types
<1>5. TypeOK'
  <2>1. (\A x \in Items : state[x] = "cleanup" <=> clean[x].owner /= NoPurger)'
    BY <1>2, <1>3, Types
  <2>2. (\A k \in Keys : /\ write[k].live => write[k].owned
                         /\ write[k].owned => state[Private(k)] = "pending")'
    BY <1>1, <1>2, Types, ItemsDiffer
  <2> QED
    BY <1>2, <1>3, <1>4, <2>1, <2>2, Types, TypesNext
<1>6. Lifecycles'
  BY <1>2, ItemsDiffer DEF Lifecycles
<1>7. CommittedIsBound' /\ CompletedHasSupplement'
  BY <1>1, <1>2, ItemsDiffer DEF CommittedIsBound, CompletedHasSupplement
<1>8. PurgedWasOld'
  BY <1>1, <1>2 DEF PurgedWasOld
<1>9. LeasesLast' /\ TokensBehind'
  BY DEF LeasesLast, TokensBehind
<1>10. \A q \in Purgers : purger'[q].pc /= "idle" => (Holds(q)' => Holds(q) /\ purger[q].item /= i)
  <2> SUFFICES ASSUME NEW q \in Purgers, purger'[q].pc /= "idle", Holds(q)'
               PROVE  Holds(q) /\ purger[q].item /= i
    OBVIOUS
  <2>1. q /= p /\ purger'[q] = purger[q] /\ purger[q].item \in Items
    BY <1>4, Rows
  <2>2. purger[q].item /= i
    BY <1>3, <2>1, PurgersAssumption DEF Holds
  <2> QED
    BY <1>2, <1>3, <2>1, <2>2 DEF Holds
<1>11. RemovedIsGone'
  BY <1>4, <1>10 DEF RemovedIsGone
<1>12. Tracked'
  BY <1>1, <1>2, ItemsDiffer DEF Tracked
<1>13. InTime'
  <2> SUFFICES ASSUME ~SlowDeletes PROVE InTime'
    BY DEF InTime
  <2>1. ASSUME NEW q \in Purgers, purger'[q].pc = "claimed"
        PROVE  Holds(q)' /\ ~clean'[purger'[q].item].stale
    <3>1. q /= p /\ purger'[q] = purger[q] /\ purger[q].item \in Items
      BY <1>4, <2>1, Rows
    <3>2. Holds(q) /\ ~clean[purger[q].item].stale
      BY <2>1, <3>1 DEF InTime
    <3>3. purger[q].item /= i
      BY <1>1, <3>1, <3>2 DEF Holds
    <3> QED
      BY <1>2, <1>3, <3>1, <3>2, <3>3 DEF Holds
  <2>2. ASSUME NEW x \in Writers, writer[x].pc = "stored",
               state'[Private(writer[x].key)] = "pending",
               write[writer[x].key].owned, write[writer[x].key].token = writer[x].token
        PROVE  writer[x].key \in store
    BY <2>2, Rows, Types DEF InTime
  <2> QED
    BY <2>1, <2>2 DEF InTime, BoundIsStored
<1> QED
  BY <1>5, <1>6, <1>7, <1>8, <1>9, <1>11, <1>12, <1>13

\* The row is purged only after its object is gone.
LEMMA FinalizeKeepsIInv ==
  ASSUME IInv, NEW p \in Purgers, Finalize(p)
  PROVE  IInv'
<1>1. PICK i, row : i = purger[p].item /\ row = [clean[i] EXCEPT !.owner = NoPurger]
  OBVIOUS
<1>2. /\ purger[p].pc = "removed" /\ Holds(p)
      /\ state' = [state EXCEPT ![i] = "purged"] /\ clean' = [clean EXCEPT ![i] = row]
      /\ purger' = [purger EXCEPT ![p] = IdlePurger]
      /\ UNCHANGED <<age, write, bound, store, writer>>
  BY <1>1 DEF Finalize
<1>3. i[2] \notin store
  BY <1>1, <1>2 DEF IInv, RemovedIsGone
<1>4. clean[i] \in CleanRow
  BY <1>1, <1>2, Types, Rows DEF IInv
<1>5. row \in CleanRow /\ row.owner = NoPurger
  BY <1>1, <1>4 DEF CleanRow
<1> QED
  BY <1>1, <1>2, <1>3, <1>5, EndOfClaim

\* An executor whose claim was lost leaves the row alone.
LEMMA ReleaseKeepsIInv ==
  ASSUME IInv, NEW p \in Purgers, Release(p)
  PROVE  IInv'
<1>1. CASE Holds(p)
  <2>1. PICK i, row : /\ i = purger[p].item
                      /\ row = [clean[i] EXCEPT !.owner = NoPurger, !.stale = FALSE]
    OBVIOUS
  <2>2. /\ purger[p].pc = "failing"
        /\ state' = [state EXCEPT ![i] = "pending"] /\ clean' = [clean EXCEPT ![i] = row]
        /\ purger' = [purger EXCEPT ![p] = IdlePurger]
        /\ UNCHANGED <<age, write, bound, store, writer>>
    BY <1>1, <2>1 DEF Release
  <2>3. clean[i] \in CleanRow
    BY <2>1, <2>2, Types, Rows DEF IInv
  <2>4. row \in CleanRow /\ row.owner = NoPurger
    BY <2>1, <2>3 DEF CleanRow
  <2> QED
    BY <1>1, <2>1, <2>2, <2>4, EndOfClaim
<1>2. CASE ~Holds(p)
  BY <1>2, PurgerForgets DEF Release, Crash, rows
<1> QED
  BY <1>1, <1>2

-----------------------------------------------------------------------------
(* Time *)

\* A lease does not run out under a writer that renewed it.
LEMMA LeaseExpiresKeepsIInv ==
  ASSUME IInv, NEW k \in Keys, LeaseExpires(k)
  PROVE  IInv'
<1> USE DEF IInv
<1>0. PICK lease : lease = [write[k] EXCEPT !.live = FALSE]
  OBVIOUS
<1>1. /\ \A w \in Writers : writer[w].key = k => writer[w].pc /= "renewed"
      /\ write' = [write EXCEPT ![k] = lease]
      /\ UNCHANGED <<state, age, clean, bound, store, writer, purger>>
  BY <1>0 DEF LeaseExpires
<1>2. lease \in WriteRow /\ ~lease.live /\ lease.owned = write[k].owned /\ lease.token = write[k].token
  <2>1. write[k] \in WriteRow
    BY Types
  <2> QED
    BY <1>0, <2>1 DEF WriteRow
<1>3. /\ write' \in [Keys -> WriteRow]
      /\ \A l \in Keys : /\ write'[l].token = write[l].token /\ write'[l].owned = write[l].owned
                         /\ write'[l].live => write[l].live
                         /\ l /= k => write'[l] = write[l]
  BY <1>1, <1>2, Types
<1>4. TypeOK'
  <2>1. (\A l \in Keys : /\ write[l].live => write[l].owned
                         /\ write[l].owned => state[Private(l)] = "pending")'
    BY <1>1, <1>3, Types
  <2> QED
    BY <1>1, <1>3, <2>1, Types, TypesNext
<1>5. Lifecycles' /\ CommittedIsBound' /\ CompletedHasSupplement' /\ PurgedWasOld'
  BY <1>1 DEF Lifecycles, CommittedIsBound, CompletedHasSupplement, PurgedWasOld
<1>6. RemovedIsGone' /\ Tracked'
  BY <1>1 DEF RemovedIsGone, Tracked, Holds
<1>7. LeasesLast'
  BY <1>1, <1>3, Rows DEF LeasesLast
<1>8. TokensBehind'
  BY <1>1, <1>3, Rows DEF TokensBehind
<1>9. InTime'
  <2>1. \A x \in Writers : writer[x].pc = "stored" => writer[x].key \in Keys
    BY Rows
  <2> QED
    BY <1>1, <1>3, <2>1 DEF InTime, BoundIsStored, Holds
<1> QED
  BY <1>4, <1>5, <1>6, <1>7, <1>8, <1>9

\* Only a pending row ages.
LEMMA AgesKeepsIInv ==
  ASSUME IInv, NEW i \in Items, Ages(i)
  PROVE  IInv'
<1> USE DEF IInv
<1>1. /\ state[i] = "pending" /\ age[i] < 2
      /\ age' = [age EXCEPT ![i] = IF i \in UploadItems THEN @ + 1 ELSE 2]
      /\ UNCHANGED <<state, clean, write, bound, store, writer, purger>>
  BY DEF Ages
<1>2. age[i] + 1 \in 0 .. 2
  BY <1>1, Types
<1>3. age' \in [Items -> 0 .. 2] /\ \A x \in Items : x /= i => age'[x] = age[x]
  BY <1>1, <1>2, Types
<1>4. TypeOK'
  BY <1>1, <1>3, Types, TypesNext
<1>5. Lifecycles' /\ CommittedIsBound' /\ CompletedHasSupplement'
  BY <1>1 DEF Lifecycles, CommittedIsBound, CompletedHasSupplement
<1>6. PurgedWasOld'
  BY <1>1, <1>3 DEF PurgedWasOld
<1>7. LeasesLast' /\ TokensBehind' /\ RemovedIsGone' /\ Tracked' /\ InTime'
  BY <1>1 DEF LeasesLast, TokensBehind, RemovedIsGone, Tracked, InTime, BoundIsStored, Holds
<1> QED
  BY <1>4, <1>5, <1>6, <1>7

\* When deletes end in time, no claim runs out under one.
LEMMA ClaimRunsOutKeepsIInv ==
  ASSUME IInv, NEW i \in Items, ClaimRunsOut(i)
  PROVE  IInv'
<1> USE DEF IInv
<1>0. PICK row : row = [clean[i] EXCEPT !.stale = TRUE]
  OBVIOUS
<1>1. /\ clean' = [clean EXCEPT ![i] = row]
      /\ SlowDeletes \/ \A p \in Purgers : purger[p].item = i => purger[p].pc /= "claimed"
      /\ UNCHANGED <<state, age, write, bound, store, writer, purger>>
  BY <1>0 DEF ClaimRunsOut
<1>2. clean[i] \in CleanRow
  BY Types
<1>3. row \in CleanRow /\ row.owner = clean[i].owner /\ row.token = clean[i].token
  BY <1>0, <1>2 DEF CleanRow
<1>4. /\ clean' \in [Items -> CleanRow]
      /\ \A x \in Items : /\ clean'[x].owner = clean[x].owner /\ clean'[x].token = clean[x].token
                          /\ x /= i => clean'[x] = clean[x]
  BY <1>1, <1>3, Types
<1>5. TypeOK'
  <2>1. (\A x \in Items : state[x] = "cleanup" <=> clean[x].owner /= NoPurger)'
    BY <1>1, <1>4, Types
  <2> QED
    BY <1>1, <1>4, <2>1, Types, TypesNext
<1>6. Lifecycles' /\ CommittedIsBound' /\ CompletedHasSupplement' /\ PurgedWasOld'
  BY <1>1 DEF Lifecycles, CommittedIsBound, CompletedHasSupplement, PurgedWasOld
<1>7. LeasesLast' /\ TokensBehind' /\ Tracked'
  BY <1>1 DEF LeasesLast, TokensBehind, Tracked
<1>8. \A p \in Purgers : purger[p].pc /= "idle" => (Holds(p)' <=> Holds(p))
  BY <1>1, <1>4, Rows DEF Holds
<1>9. RemovedIsGone'
  BY <1>1, <1>8 DEF RemovedIsGone
<1>10. InTime'
  <2> SUFFICES ASSUME ~SlowDeletes PROVE InTime'
    BY DEF InTime
  <2>1. ASSUME NEW p \in Purgers, purger[p].pc = "claimed"
        PROVE  Holds(p)' /\ ~clean'[purger[p].item].stale
    <3>1. purger[p].item /= i /\ purger[p].item \in Items
      BY <1>1, <2>1, Rows
    <3> QED
      BY <1>4, <1>8, <2>1, <3>1 DEF InTime
  <2> QED
    BY <1>1, <2>1 DEF InTime, BoundIsStored
<1> QED
  BY <1>5, <1>6, <1>7, <1>9, <1>10

-----------------------------------------------------------------------------
(* Files in quarantine *)

\* An upload is completed before it expires, and does not age any more.
CompletedWasFresh == \A f \in Files : state[Upload(f)] = "completed" => age[Upload(f)] = 0

\* An executor is about a row that is old and was claimed.
PurgersAreLate ==
  \A p \in Purgers : purger[p].pc /= "idle" =>
    age[purger[p].item] = 2 /\ clean[purger[p].item].token >= 1

\* The file of a supplement nobody claimed is there.
QuarantinedIsStored ==
  \A f \in Files :
    state[Supplement(f)] /= "absent" /\ clean[Supplement(f)].token = 0 => f \in store

Quarantine == CompletedWasFresh /\ PurgersAreLate /\ QuarantinedIsStored

\* There are no rows and no executors.
LEMMA InitQuarantine == Init => Quarantine
BY ItemsDiffer DEF Init, Quarantine, CompletedWasFresh, PurgersAreLate, QuarantinedIsStored,
                   IdlePurger

\* Rows grow older, claims are counted up, and a row that ages is pending.
LEMMA RowsGrow ==
  ASSUME IInv, [Next]_vars
  PROVE  \A i \in Items : /\ age[i] = 2 => age'[i] = 2
                          /\ age'[i] = age[i] \/ state[i] = "pending"
                          /\ clean[i].token \in Nat /\ clean'[i].token \in Nat
                          /\ clean[i].token <= clean'[i].token
<1> USE DEF IInv
<1>1. \A i \in Items : clean[i].token \in Nat /\ clean[i] \in CleanRow
  BY Types, BoundAssumption DEF CleanRow, Tokens
<1>2. /\ clean \in [Items -> CleanRow] /\ age \in [Items -> 0 .. 2]
      /\ \A p \in Purgers : purger[p].pc /= "idle" => purger[p].item \in Items
  BY Types, Rows
<1>3. CASE UNCHANGED <<age, clean>>
  BY <1>1, <1>3
<1>4. ASSUME NEW p \in Purgers, NEW i \in Items, Claim(p, i)
      PROVE  /\ \A x \in Items : x /= i => clean'[x] = clean[x]
             /\ clean'[i].token = clean[i].token + 1 /\ UNCHANGED age
  BY <1>2, <1>4 DEF Claim
<1>5. ASSUME NEW p \in Purgers, Finalize(p) \/ Release(p)
      PROVE  UNCHANGED age /\ \A x \in Items : clean'[x].token = clean[x].token
  <2>1. \A x \in Items : \A row \in CleanRow : [row EXCEPT !.owner = NoPurger].token = row.token
    BY DEF CleanRow
  <2>2. \A row \in CleanRow : [row EXCEPT !.owner = NoPurger, !.stale = FALSE].token = row.token
    BY DEF CleanRow
  <2>3. CASE Finalize(p)
    <3>1. purger[p].item \in Items
      BY <1>2, <2>3 DEF Finalize
    <3>2. clean' = [clean EXCEPT ![purger[p].item] = [clean[purger[p].item] EXCEPT !.owner = NoPurger]]
      BY <1>2, <2>3, <3>1 DEF Finalize
    <3> QED
      BY <1>1, <1>2, <2>1, <2>3, <3>1, <3>2 DEF Finalize
  <2>4. CASE Release(p)
    <3>1. purger[p].item \in Items
      BY <1>2, <2>4 DEF Release
    <3>2. \/ UNCHANGED clean
          \/ clean' = [clean EXCEPT ![purger[p].item] =
                         [clean[purger[p].item] EXCEPT !.owner = NoPurger, !.stale = FALSE]]
      BY <1>2, <2>4, <3>1 DEF Release
    <3> QED
      BY <1>1, <1>2, <2>2, <2>4, <3>1, <3>2 DEF Release
  <2> QED
    BY <1>5, <2>3, <2>4
<1>6. ASSUME NEW i \in Items, Ages(i)
      PROVE  /\ UNCHANGED clean /\ state[i] = "pending" /\ age[i] /= 2
             /\ \A x \in Items : x /= i => age'[x] = age[x]
  BY <1>2, <1>6 DEF Ages
<1>7. ASSUME NEW i \in Items, ClaimRunsOut(i)
      PROVE  UNCHANGED age /\ \A x \in Items : clean'[x].token = clean[x].token
  <2>1. \A row \in CleanRow : [row EXCEPT !.stale = TRUE].token = row.token
    BY DEF CleanRow
  <2> QED
    BY <1>1, <1>2, <1>7, <2>1 DEF ClaimRunsOut
<1>8. \/ UNCHANGED <<age, clean>>
      \/ \E p \in Purgers : Finalize(p) \/ Release(p) \/ \E i \in Items : Claim(p, i)
      \/ \E i \in Items : Ages(i) \/ ClaimRunsOut(i)
  BY DEF Next, vars, rows, Reserve, Renew, Put, Commit, Abandon, ReserveUpload, BrowserPut,
         AddSupplement, Accept, Remove, RemoveFails, FinalizeFails, Crash, LeaseExpires
<1> QED
  BY <1>1, <1>3, <1>4, <1>5, <1>6, <1>7, <1>8

\* An executor at work goes on with its row, or has just claimed it.
LEMMA PurgersGoOn ==
  ASSUME IInv, [Next]_vars, NEW p \in Purgers, purger'[p].pc /= "idle"
  PROVE  \/ purger[p].pc /= "idle" /\ purger'[p].item = purger[p].item
         \/ \E i \in Items : /\ Claim(p, i) /\ purger'[p].item = i
<1> USE DEF IInv
<1>1. purger \in [Purgers -> PurgerRow] /\ IdlePurger.pc = "idle"
  BY Types DEF IdlePurger
<1>2. \/ UNCHANGED purger
      \/ \E q \in Purgers : \/ \E i \in Items : Claim(q, i)
                            \/ Remove(q) \/ RemoveFails(q) \/ FinalizeFails(q)
                            \/ Finalize(q) \/ Release(q) \/ Crash(q)
  BY DEF Next, vars, Reserve, Renew, Put, Commit, Abandon, ReserveUpload, BrowserPut,
         AddSupplement, Accept, LeaseExpires, Ages, ClaimRunsOut
<1>3. ASSUME NEW q \in Purgers, NEW i \in Items, Claim(q, i)
      PROVE  purger'[p] = purger[p] \/ (q = p /\ purger'[p].item = i)
  BY <1>1, <1>3 DEF Claim
<1>4. ASSUME NEW q \in Purgers, Remove(q) \/ RemoveFails(q) \/ FinalizeFails(q)
      PROVE  purger'[p] = purger[p]
             \/ (purger[p].pc /= "idle" /\ purger'[p].item = purger[p].item)
  <2>1. purger[q].pc /= "idle"
    BY <1>4 DEF Remove, RemoveFails, FinalizeFails
  <2>2. /\ purger[q] \in [pc : {"claimed", "removed", "failing"}, item : Items, token : Tokens]
        /\ purger' = [purger EXCEPT ![q] = [purger[q] EXCEPT !.pc = "removed"]]
           \/ purger' = [purger EXCEPT ![q] = [purger[q] EXCEPT !.pc = "failing"]]
    BY <1>1, <1>4, <2>1, Rows DEF Remove, RemoveFails, FinalizeFails
  <2> QED
    BY <1>1, <2>1, <2>2
<1>5. ASSUME NEW q \in Purgers, Finalize(q) \/ Release(q) \/ Crash(q)
      PROVE  purger'[p] = purger[p]
  BY <1>1, <1>5 DEF Finalize, Release, Crash
<1> QED
  BY <1>2, <1>3, <1>4, <1>5

\* An upload is completed while it is fresh, with its file there; no other step
\* completes one or brings a supplement in.
LEMMA UploadsGo ==
  ASSUME IInv, [Next]_vars, NEW f \in Files
  PROVE  /\ state'[Upload(f)] = "completed" =>
              state[Upload(f)] = "completed" \/ (age[Upload(f)] = 0 /\ UNCHANGED age)
         /\ state'[Supplement(f)] /= "absent" =>
              state[Supplement(f)] /= "absent" \/ (f \in store /\ UNCHANGED store)
<1> USE DEF IInv
<1>1. /\ state \in [Items -> States] /\ Upload(f) \in Items /\ Supplement(f) \in Items
      /\ \A g \in Files : Upload(g) \in Items /\ Supplement(g) \in Items
      /\ \A k \in Keys : Private(k) \in Items /\ Private(k) /= Upload(f) /\ Private(k) /= Supplement(f)
  BY Types, ItemsDiffer
<1>2. CASE UNCHANGED state
  BY <1>2
<1>3. ASSUME NEW w \in Writers, Commit(w) \/ \E k \in Keys : Reserve(w, k)
      PROVE  state'[Upload(f)] = state[Upload(f)] /\ state'[Supplement(f)] = state[Supplement(f)]
  <2>1. CASE Commit(w)
    <3>1. writer[w].key \in Keys
      BY <2>1, Rows DEF Commit
    <3> QED
      BY <1>1, <2>1, <3>1 DEF Commit
  <2>2. ASSUME NEW k \in Keys, Reserve(w, k)
        PROVE  state'[Upload(f)] = state[Upload(f)] /\ state'[Supplement(f)] = state[Supplement(f)]
    BY <1>1, <2>2 DEF Reserve
  <2> QED
    BY <1>3, <2>1, <2>2
<1>4. ASSUME NEW g \in Files, ReserveUpload(g) \/ AddSupplement(g) \/ Accept(g)
      PROVE  /\ state'[Upload(f)] = "completed" =>
                  state[Upload(f)] = "completed" \/ (age[Upload(f)] = 0 /\ UNCHANGED age)
             /\ state'[Supplement(f)] /= "absent" =>
                  state[Supplement(f)] /= "absent" \/ (f \in store /\ UNCHANGED store)
  <2>1. /\ Upload(g) = Upload(f) <=> g = f
        /\ Supplement(g) = Supplement(f) <=> g = f
        /\ Upload(g) /= Supplement(f) /\ Supplement(g) /= Upload(f)
    BY ItemsDiffer
  <2>2. CASE ReserveUpload(g)
    BY <1>1, <2>1, <2>2 DEF ReserveUpload
  <2>3. CASE AddSupplement(g)
    BY <1>1, <2>1, <2>3 DEF AddSupplement
  <2>4. CASE Accept(g)
    BY <1>1, <2>1, <2>4 DEF Accept
  <2> QED
    BY <1>4, <2>2, <2>3, <2>4
<1>5. ASSUME NEW i \in Items, state[i] \in {"pending", "cleanup"},
             NEW new \in {"pending", "cleanup", "purged"}, state' = [state EXCEPT ![i] = new]
      PROVE  /\ state'[Upload(f)] = "completed" => state[Upload(f)] = "completed"
             /\ state'[Supplement(f)] /= "absent" => state[Supplement(f)] /= "absent"
  BY <1>1, <1>5
<1>6. ASSUME NEW p \in Purgers, \/ \E i \in Items : Claim(p, i)
                                \/ Finalize(p) \/ (Release(p) /\ ~UNCHANGED state)
      PROVE  \E i \in Items : \E new \in {"pending", "cleanup", "purged"} :
               state[i] \in {"pending", "cleanup"} /\ state' = [state EXCEPT ![i] = new]
  <2>1. ASSUME NEW i \in Items, Claim(p, i)
        PROVE  state[i] \in {"pending", "cleanup"} /\ state' = [state EXCEPT ![i] = "cleanup"]
    BY <2>1 DEF Claim, Due
  <2>2. CASE Finalize(p)
    <3>1. purger[p].item \in Items
      BY <2>2, Rows DEF Finalize
    <3> QED
      BY <2>2, <3>1 DEF Finalize, Holds
  <2>3. CASE (Release(p) /\ ~UNCHANGED state)
    <3>1. purger[p].item \in Items
      BY <2>3, Rows DEF Release
    <3> QED
      BY <2>3, <3>1 DEF Release, Holds
  <2> QED
    BY <1>6, <2>1, <2>2, <2>3
<1>7. \/ UNCHANGED state
      \/ \E w \in Writers : Commit(w) \/ \E k \in Keys : Reserve(w, k)
      \/ \E g \in Files : ReserveUpload(g) \/ AddSupplement(g) \/ Accept(g)
      \/ \E p \in Purgers : \/ \E i \in Items : Claim(p, i)
                            \/ Finalize(p) \/ (Release(p) /\ ~UNCHANGED state)
  BY DEF Next, vars, rows, Renew, Put, Abandon, BrowserPut, Remove, RemoveFails, FinalizeFails,
         Crash, LeaseExpires, Ages, ClaimRunsOut
<1> QED
  BY <1>2, <1>3, <1>4, <1>5, <1>6, <1>7

\* Only an executor takes an object away, the one of its row.
LEMMA ObjectsStay ==
  ASSUME IInv, [Next]_vars, NEW x \in store
  PROVE  x \in store' \/ \E p \in Purgers : purger[p].pc /= "idle" /\ purger[p].item[2] = x
<1>1. CASE store \subseteq store'
  BY <1>1
<1>2. ASSUME NEW p \in Purgers, Remove(p) \/ RemoveFails(p)
      PROVE  x \in store' \/ (purger[p].pc /= "idle" /\ purger[p].item[2] = x)
  BY <1>2 DEF Remove, RemoveFails
<1>3. store \subseteq store' \/ \E p \in Purgers : Remove(p) \/ RemoveFails(p)
  BY DEF Next, vars, rows, Reserve, Renew, Put, Commit, Abandon, ReserveUpload, BrowserPut,
         AddSupplement, Accept, Claim, Finalize, FinalizeFails, Release, Crash, LeaseExpires, Ages,
         ClaimRunsOut
<1> QED
  BY <1>1, <1>2, <1>3

\* An executor that is about to delete a file in quarantine was late for the
\* upload and has claimed the supplement.
LEMMA StepKeepsQuarantine == IInv /\ Quarantine /\ [Next]_vars => Quarantine'
<1> SUFFICES ASSUME IInv, Quarantine, [Next]_vars PROVE Quarantine'
  OBVIOUS
<1> USE DEF Quarantine
<1>1. CompletedWasFresh'
  <2> SUFFICES ASSUME NEW f \in Files, state'[Upload(f)] = "completed"
               PROVE  age'[Upload(f)] = 0
    BY DEF CompletedWasFresh
  <2>1. Upload(f) \in Items
    BY ItemsDiffer
  <2>2. CASE state[Upload(f)] = "completed"
    BY <2>1, <2>2, RowsGrow DEF CompletedWasFresh
  <2> QED
    BY <2>2, UploadsGo
<1>2. PurgersAreLate'
  <2> SUFFICES ASSUME NEW p \in Purgers, purger'[p].pc /= "idle"
               PROVE  age'[purger'[p].item] = 2 /\ clean'[purger'[p].item].token >= 1
    BY DEF PurgersAreLate
  <2>1. CASE purger[p].pc /= "idle" /\ purger'[p].item = purger[p].item
    <3>1. purger[p].item \in Items /\ age[purger[p].item] = 2 /\ clean[purger[p].item].token >= 1
      BY <2>1, Rows DEF IInv, PurgersAreLate
    <3> QED
      BY <2>1, <3>1, RowsGrow
  <2>2. ASSUME NEW i \in Items, Claim(p, i), purger'[p].item = i
        PROVE  age'[i] = 2 /\ clean'[i].token >= 1
    <3>1. age[i] = 2 /\ age' = age
      BY <2>2 DEF Claim, Due, IInv, PurgedWasOld
    <3>2. clean \in [Items -> CleanRow] /\ clean[i].token \in Nat
      BY Types, RowsGrow DEF IInv
    <3>3. clean'[i].token = clean[i].token + 1
      BY <2>2, <3>2 DEF Claim
    <3> QED
      BY <3>1, <3>2, <3>3
  <2> QED
    BY <2>1, <2>2, PurgersGoOn
<1>3. QuarantinedIsStored'
  <2> SUFFICES ASSUME NEW f \in Files, state'[Supplement(f)] /= "absent",
                      clean'[Supplement(f)].token = 0
               PROVE  f \in store'
    BY DEF QuarantinedIsStored
  <2>1. Supplement(f) \in Items /\ Upload(f) \in Items
    BY ItemsDiffer
  <2>2. CASE state[Supplement(f)] = "absent"
    BY <2>2, UploadsGo
  <2>3. CASE state[Supplement(f)] /= "absent"
    <3>1. clean[Supplement(f)].token = 0
      BY <2>1, RowsGrow
    <3>2. f \in store
      BY <2>3, <3>1 DEF QuarantinedIsStored
    <3>3. age[Upload(f)] = 0
      BY <2>3 DEF CompletedWasFresh, CompletedHasSupplement, IInv
    <3>4. ASSUME NEW p \in Purgers, purger[p].pc /= "idle", purger[p].item[2] = f
          PROVE  FALSE
      <4>1. purger[p].item \in Items
        BY <3>4, Rows DEF IInv
      <4>2. purger[p].item \in {Upload(f), Supplement(f)}
        BY <3>4, <4>1, ItemsDiffer, PathsAssumption
      <4>3. age[purger[p].item] = 2 /\ clean[purger[p].item].token >= 1
        BY <3>4 DEF PurgersAreLate
      <4> QED
        BY <3>1, <3>3, <4>2, <4>3
    <3> QED
      BY <3>2, <3>4, ObjectsStay
  <2> QED
    BY <2>2, <2>3
<1> QED
  BY <1>1, <1>2, <1>3

-----------------------------------------------------------------------------
(* The theorems *)

\* Every step keeps the invariant.
LEMMA StepKeepsIInv == IInv /\ [Next]_vars => IInv'
<1> SUFFICES ASSUME IInv, [Next]_vars PROVE IInv'
  OBVIOUS
<1>1. ASSUME NEW w \in Writers,
             \/ \E k \in Keys : Reserve(w, k)
             \/ Renew(w) \/ Put(w) \/ Commit(w) \/ Abandon(w)
      PROVE  IInv'
  BY <1>1, ReserveKeepsIInv, RenewKeepsIInv, PutKeepsIInv, CommitKeepsIInv, WriterForgets
<1>2. ASSUME NEW f \in Files, ReserveUpload(f) \/ BrowserPut(f) \/ AddSupplement(f) \/ Accept(f)
      PROVE  IInv'
  BY <1>2, UploadKeepsIInv, BrowserPutKeepsIInv
<1>3. ASSUME NEW p \in Purgers,
             \/ \E i \in Items : Claim(p, i)
             \/ Remove(p) \/ RemoveFails(p) \/ Finalize(p) \/ FinalizeFails(p)
             \/ Release(p) \/ Crash(p)
      PROVE  IInv'
  BY <1>3, ClaimKeepsIInv, RemoveKeepsIInv, FinalizeKeepsIInv, ReleaseKeepsIInv, PurgerForgets
<1>4. ASSUME NEW k \in Keys, LeaseExpires(k)
      PROVE  IInv'
  BY <1>4, LeaseExpiresKeepsIInv
<1>5. ASSUME NEW i \in Items, Ages(i) \/ ClaimRunsOut(i)
      PROVE  IInv'
  BY <1>5, AgesKeepsIInv, ClaimRunsOutKeepsIInv
<1>6. CASE UNCHANGED vars
  BY <1>6 DEF vars, IInv, TypeOK, Lifecycles, CommittedIsBound, CompletedHasSupplement,
              PurgedWasOld, LeasesLast, TokensBehind, RemovedIsGone, Tracked, InTime,
              BoundIsStored, Holds
<1> QED
  BY <1>1, <1>2, <1>3, <1>4, <1>5, <1>6 DEF Next

\* The inductive invariant holds in every reachable state.
THEOREM Invariant == Spec => []IInv
BY InitIInv, StepKeepsIInv, PTL DEF Spec

\* The rows, leases, writers and executors are what their types say, and the
\* check constraints of the tables hold.
THEOREM TypeCorrect == Spec => []TypeOK
<1>1. IInv => TypeOK
  BY DEF IInv
<1> QED
  BY <1>1, Invariant, PTL

\* Every stored object has an owner or a row that leads an executor to it,
\* however long deletes take (the put fence of putPrivateObject and the where
\* clause of claim_routine_object_purges).
THEOREM TrackedHolds == Spec => []Tracked
<1>1. IInv => Tracked
  BY DEF IInv
<1> QED
  BY <1>1, Invariant, PTL

\* Files in quarantine are there until somebody claims them.
LEMMA QuarantineHolds == Spec => []Quarantine
<1>1. IInv /\ IInv' /\ Quarantine /\ [Next]_vars => Quarantine'
  BY StepKeepsQuarantine
<1> QED
  BY <1>1, InitQuarantine, Invariant, PTL DEF Spec

\* What a pipeline write committed is there when every delete ends before its claim
\* runs out; the file of an accepted upload is there unless an executor claimed it
\* in quarantine before (finalize_routine_object_purge, recordEmailSource, regenerate).
THEOREM OwnedIsStoredHolds == ~SlowDeletes => (Spec => []OwnedIsStored)
<1>1. ~SlowDeletes /\ IInv /\ Quarantine => OwnedIsStored
  BY DEF IInv, InTime, BoundIsStored, Quarantine, QuarantinedIsStored, OwnedIsStored
<1> SUFFICES ASSUME ~SlowDeletes PROVE Spec => []OwnedIsStored
  OBVIOUS
<1>2. IInv /\ Quarantine => OwnedIsStored
  BY <1>1
<1> QED
  BY <1>2, Invariant, QuarantineHolds, PTL
=============================================================================
