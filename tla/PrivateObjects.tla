--------------------------- MODULE PrivateObjects ---------------------------
(***************************************************************************)
(* Private objects of Submissions V2: a database row and a blob that no    *)
(* transaction covers together.  A pipeline write reserves its pathname,   *)
(* renews a write lease, puts the object and commits the reservation with  *)
(* the row that refers to it (repository.mjs reservePrivateObject,         *)
(* renewPrivateObjectWrite, recordEmailSource).  A recruiter's upload has  *)
(* a reservation, then a quarantined supplement that regenerate accepts.   *)
(* The isolated purge executor (purge.mjs, 011_isolated_routine_object_    *)
(* purge.sql) claims what nobody came back for, deletes the object, then   *)
(* records that it did.  Writers and executors stop anywhere.              *)
(*                                                                         *)
(* Pathnames are derived from what is written, so two writers of one       *)
(* pathname write the same bytes, under the same reservation id.  Time is  *)
(* what the where clauses ask of it: a lease is live or not, a row is      *)
(* fresh, expired, or old enough to be purged.                             *)
(***************************************************************************)
EXTENDS Naturals

CONSTANTS
  Keys,       \* pathnames of pipeline writes
  Files,      \* pathnames of uploads
  Writers,    \* executions of a pipeline write
  Purgers,    \* purge executors
  MaxToken,   \* bound: claims of a row by executors
  SlowDeletes \* whether a delete may take longer than the 15 minutes of a claim

NoPurger == "none"

ASSUME PurgersAssumption == NoPurger \notin Purgers
ASSUME PathsAssumption == Keys \cap Files = {}
ASSUME BoundAssumption == MaxToken \in Nat /\ SlowDeletes \in BOOLEAN

VARIABLES
  state,  \* state of each row; "absent": not inserted
  age,    \* 0 fresh, 1 past expires_at, 2 old enough for the executor
  clean,  \* cleanup_owner, cleanup_fencing_token, and whether the claim ran out
  write,  \* write_owner, write_lease_expires_at, write_fencing_token
  bound,  \* pathnames whose owner row was inserted (private_object_bindings.owner_id)
  store,  \* objects in the private blob store
  writer, \* where each pipeline write is
  purger  \* what each executor is doing, to which row

vars == <<state, age, clean, write, bound, store, writer, purger>>

(* The three kinds of row the executor's routine lane works on. *)
Private(k) == <<"private_object_reservation", k>>
Upload(f) == <<"upload_reservation", f>>
Supplement(f) == <<"quarantined_supplement", f>>

PrivateItems == {Private(k) : k \in Keys}
UploadItems == {Upload(f) : f \in Files}
SupplementItems == {Supplement(f) : f \in Files}
Items == PrivateItems \cup UploadItems \cup SupplementItems

States == {"absent", "pending", "cleanup", "committed", "completed", "accepted", "purged"}
Tokens == 0 .. MaxToken
NoWrite == [owned |-> FALSE, live |-> FALSE, token |-> 0]

NoPath == "none"
IdleWriter == [pc |-> "idle", key |-> NoPath, token |-> 0]
IdlePurger == [pc |-> "idle", item |-> <<"none", NoPath>>, token |-> 0]

\* A row has a cleanup owner exactly while it is in cleanup, and a write owner
\* only while it is pending (the check constraints of the tables).
TypeOK ==
  /\ state \in [Items -> States]
  /\ age \in [Items -> 0 .. 2]
  /\ clean \in [Items -> [owner : Purgers \cup {NoPurger}, token : Tokens, stale : BOOLEAN]]
  /\ \A i \in Items : state[i] = "cleanup" <=> clean[i].owner /= NoPurger
  /\ write \in [Keys -> [owned : BOOLEAN, live : BOOLEAN, token : Nat]]
  /\ \A k \in Keys : /\ write[k].live => write[k].owned
                     /\ write[k].owned => state[Private(k)] = "pending"
  /\ bound \subseteq Keys
  /\ store \subseteq Keys \cup Files
  /\ writer \in [Writers -> {IdleWriter} \cup [pc : {"reserved", "renewed", "stored"},
                                               key : Keys, token : Nat]]
  /\ purger \in [Purgers -> {IdlePurger} \cup [pc : {"claimed", "removed", "failing"},
                                               item : Items, token : Tokens]]

Init ==
  /\ state = [i \in Items |-> "absent"]
  /\ age = [i \in Items |-> 0]
  /\ clean = [i \in Items |-> [owner |-> NoPurger, token |-> 0, stale |-> FALSE]]
  /\ write = [k \in Keys |-> NoWrite]
  /\ bound = {}
  /\ store = {}
  /\ writer = [w \in Writers |-> IdleWriter]
  /\ purger = [p \in Purgers |-> IdlePurger]

rows == <<state, age, clean, write, bound>>
-----------------------------------------------------------------------------
(* Pipeline writes *)

Moves(w, pc) == writer' = [writer EXCEPT ![w].pc = pc]

\* The row of a new pathname is inserted with a write lease; a pending row that
\* lost its writer to a cleanup is taken over; any other pending or committed
\* row is returned as it is, to a writer that has the same reservation id.
Reserve(w, k) ==
  LET i == Private(k)
      lost == state[i] = "pending" /\ ~write[k].owned
      token == IF state[i] = "absent" \/ lost THEN write[k].token + 1 ELSE write[k].token
  IN /\ writer[w].pc = "idle"
     /\ k \notin bound
     /\ state[i] \in {"absent", "pending", "committed"}
     /\ state' = [state EXCEPT ![i] = IF @ = "absent" THEN "pending" ELSE @]
     /\ write' = IF state[i] = "absent" \/ lost
                 THEN [write EXCEPT ![k] = [owned |-> TRUE, live |-> TRUE, token |-> token]]
                 ELSE write
     /\ writer' = [writer EXCEPT ![w] = [pc |-> "reserved", key |-> k, token |-> token]]
     /\ UNCHANGED <<age, clean, bound, store, purger>>

\* Mutant: the renewal gives a lease to a row without a writer.
MayRenewAlone(w) ==
  LET k == writer[w].key
  IN state[Private(k)] = "pending" /\ write[k].token = writer[w].token

\* The update would leave a lease without a writer when a cleanup took the row
\* from this writer: the table's check refuses that.
MayRenew(w) ==
  LET k == writer[w].key
  IN state[Private(k)] = "pending" /\ write[k].token = writer[w].token /\ write[k].owned

Renew(w) ==
  LET k == writer[w].key
  IN /\ writer[w].pc = "reserved"
     /\ MayRenew(w)
     /\ write' = [write EXCEPT ![k].live = TRUE]
     /\ Moves(w, "renewed")
     /\ UNCHANGED <<state, age, clean, bound, store, purger>>

\* putPrivateObject writes the object, or adopts the same bytes.
Put(w) ==
  /\ writer[w].pc = "renewed"
  /\ store' = store \cup {writer[w].key}
  /\ Moves(w, "stored")
  /\ UNCHANGED <<rows, purger>>

\* Mutant: the row is committed whatever became of it.
CommittableUnfenced(w) == state[Private(writer[w].key)] /= "absent"

\* The where clause of every commit of a reservation.
Committable(w) ==
  LET k == writer[w].key
  IN \/ state[Private(k)] = "committed"
     \/ state[Private(k)] = "pending" /\ write[k].token = writer[w].token /\ write[k].live

\* The owner row and the commit of its reservation, in one transaction.
Commit(w) ==
  LET k == writer[w].key
  IN /\ writer[w].pc = "stored"
     /\ Committable(w)
     /\ state' = [state EXCEPT ![Private(k)] = "committed"]
     /\ write' = [write EXCEPT ![k].owned = FALSE, ![k].live = FALSE]
     /\ bound' = bound \cup {k}
     /\ writer' = [writer EXCEPT ![w] = IdleWriter]
     /\ UNCHANGED <<age, clean, store, purger>>

\* The write ends early: a fence was lost, the put failed, the controls went
\* off before recordEmailSource, or the process died.
Abandon(w) ==
  /\ writer[w].pc /= "idle"
  /\ writer' = [writer EXCEPT ![w] = IdleWriter]
  /\ UNCHANGED <<rows, store, purger>>
-----------------------------------------------------------------------------
(* Uploads *)

ReserveUpload(f) ==
  /\ state[Upload(f)] = "absent"
  /\ state' = [state EXCEPT ![Upload(f)] = "pending"]
  /\ UNCHANGED <<age, clean, write, bound, store, writer, purger>>

\* The browser uses its presigned URL, which is valid for minutes: maybe a
\* little after the reservation expired, never a day later.
BrowserPut(f) ==
  /\ state[Upload(f)] /= "absent" /\ age[Upload(f)] < 2 /\ age[Supplement(f)] = 0
  /\ store' = store \cup {f}
  /\ UNCHANGED <<rows, writer, purger>>

\* completeUpload reads the object, then the transaction inserts the supplement.
AddSupplement(f) ==
  /\ f \in store
  /\ state[Upload(f)] = "pending" /\ age[Upload(f)] = 0
  /\ state' = [state EXCEPT ![Upload(f)] = "completed", ![Supplement(f)] = "pending"]
  /\ UNCHANGED <<age, clean, write, bound, store, writer, purger>>

\* regenerate takes the file out of quarantine; it does not ask for the object.
Accept(f) ==
  /\ state[Supplement(f)] = "pending"
  /\ state' = [state EXCEPT ![Supplement(f)] = "accepted"]
  /\ UNCHANGED <<age, clean, write, bound, store, writer, purger>>
-----------------------------------------------------------------------------
(* The routine lane of the purge executor *)

\* Mutant: the executor does not look at the write lease.
DueUnderWrite(i) ==
  /\ \A k \in Keys : i = Private(k) => k \notin bound
  /\ \/ state[i] = "pending" /\ age[i] = 2
     \/ state[i] = "cleanup" /\ clean[i].stale

\* Mutant: a claim that ran out is not taken over.
DueOnce(i) ==
  /\ \A k \in Keys : i = Private(k) => k \notin bound /\ ~write[k].live
  /\ state[i] = "pending" /\ age[i] = 2

\* claim_routine_object_purges: a pending row, old enough, under no live write
\* lease and without an owner, or one whose claim is 15 minutes old.
Due(i) ==
  /\ \A k \in Keys : i = Private(k) => k \notin bound /\ ~write[k].live
  /\ \/ state[i] = "pending" /\ age[i] = 2
     \/ state[i] = "cleanup" /\ clean[i].stale

Claim(p, i) ==
  /\ purger[p].pc = "idle"
  /\ Due(i) /\ clean[i].token < MaxToken
  /\ state' = [state EXCEPT ![i] = "cleanup"]
  /\ clean' = [clean EXCEPT ![i] = [owner |-> p, token |-> @.token + 1, stale |-> FALSE]]
  /\ write' = [k \in Keys |-> IF i = Private(k)
                              THEN [write[k] EXCEPT !.owned = FALSE, !.live = FALSE]
                              ELSE write[k]]
  /\ purger' = [purger EXCEPT ![p] = [pc |-> "claimed", item |-> i,
                                      token |-> clean[i].token + 1]]
  /\ UNCHANGED <<age, bound, store, writer>>

\* The where clause of finalize and release.
Holds(p) ==
  LET i == purger[p].item
  IN state[i] = "cleanup" /\ clean[i].owner = p /\ clean[i].token = purger[p].token

\* The bound on claims: the last one ends well.
MayFail(p) == clean[purger[p].item].token < MaxToken

\* purge.mjs asks nothing of the database before it deletes.
Remove(p) ==
  /\ purger[p].pc = "claimed"
  /\ store' = store \ {purger[p].item[2]}
  /\ purger' = [purger EXCEPT ![p].pc = "removed"]
  /\ UNCHANGED <<rows, writer>>

\* The delete is answered with an error, whether it happened or not.
RemoveFails(p) ==
  /\ purger[p].pc = "claimed" /\ MayFail(p)
  /\ store' \in {store, store \ {purger[p].item[2]}}
  /\ purger' = [purger EXCEPT ![p].pc = "failing"]
  /\ UNCHANGED <<rows, writer>>

Finalize(p) ==
  /\ purger[p].pc = "removed"
  /\ Holds(p)
  /\ state' = [state EXCEPT ![purger[p].item] = "purged"]
  /\ clean' = [clean EXCEPT ![purger[p].item].owner = NoPurger]
  /\ purger' = [purger EXCEPT ![p] = IdlePurger]
  /\ UNCHANGED <<age, write, bound, store, writer>>

\* The fence is lost, or the database does not answer.
FinalizeFails(p) ==
  /\ purger[p].pc = "removed" /\ (Holds(p) => MayFail(p))
  /\ purger' = [purger EXCEPT ![p].pc = "failing"]
  /\ UNCHANGED <<rows, store, writer>>

\* Whatever failed, the row goes back to pending.
Release(p) ==
  /\ purger[p].pc = "failing"
  /\ IF Holds(p)
     THEN /\ state' = [state EXCEPT ![purger[p].item] = "pending"]
          /\ clean' = [clean EXCEPT ![purger[p].item].owner = NoPurger,
                                    ![purger[p].item].stale = FALSE]
     ELSE UNCHANGED <<state, clean>>
  /\ purger' = [purger EXCEPT ![p] = IdlePurger]
  /\ UNCHANGED <<age, write, bound, store, writer>>

\* The executor dies, or its release fails and is ignored.
Crash(p) ==
  /\ purger[p].pc /= "idle" /\ (Holds(p) => MayFail(p))
  /\ purger' = [purger EXCEPT ![p] = IdlePurger]
  /\ UNCHANGED <<rows, store, writer>>
-----------------------------------------------------------------------------
(* Time *)

\* The lease is 15 minutes; a put lasts one: the capability of the worker and
\* the request of the API end long before.
LeaseExpires(k) ==
  /\ write[k].live
  /\ \A w \in Writers : writer[w].key = k => writer[w].pc /= "renewed"
  /\ write' = [write EXCEPT ![k].live = FALSE]
  /\ UNCHANGED <<state, age, clean, bound, store, writer, purger>>

\* A reservation expires, and 24 hours later it may be purged; a supplement
\* may be purged 24 hours after it was added.
Ages(i) ==
  /\ state[i] = "pending" /\ age[i] < 2
  /\ age' = [age EXCEPT ![i] = IF i \in UploadItems THEN @ + 1 ELSE 2]
  /\ UNCHANGED <<state, clean, write, bound, store, writer, purger>>

\* Fifteen minutes after the claim.
ClaimRunsOut(i) ==
  /\ state[i] = "cleanup" /\ ~clean[i].stale /\ clean[i].token < MaxToken
  /\ \/ SlowDeletes
     \/ \A p \in Purgers : purger[p].item = i => purger[p].pc /= "claimed"
  /\ clean' = [clean EXCEPT ![i].stale = TRUE]
  /\ UNCHANGED <<state, age, write, bound, store, writer, purger>>

Next ==
  \/ \E w \in Writers : \/ \E k \in Keys : Reserve(w, k)
                        \/ Renew(w) \/ Put(w) \/ Commit(w) \/ Abandon(w)
  \/ \E f \in Files : ReserveUpload(f) \/ BrowserPut(f) \/ AddSupplement(f) \/ Accept(f)
  \/ \E p \in Purgers : \/ \E i \in Items : Claim(p, i)
                        \/ Remove(p) \/ RemoveFails(p) \/ Finalize(p) \/ FinalizeFails(p)
                        \/ Release(p) \/ Crash(p)
  \/ \E k \in Keys : LeaseExpires(k)
  \/ \E i \in Items : Ages(i) \/ ClaimRunsOut(i)

Spec == Init /\ [][Next]_vars

\* Time passes; executors run their cycle every six hours and claim the oldest
\* row first; the last claim the bound allows ends well.  Nobody has to write.
Fairness ==
  /\ \A k \in Keys : WF_vars(LeaseExpires(k))
  /\ \A i \in Items : /\ WF_vars(Ages(i)) /\ WF_vars(ClaimRunsOut(i))
                      /\ WF_vars(\E p \in Purgers : Claim(p, i))
  /\ \A p \in Purgers : WF_vars(Remove(p) \/ RemoveFails(p) \/ Finalize(p)
                                \/ FinalizeFails(p) \/ Release(p) \/ Crash(p))

FairSpec == Spec /\ Fairness
-----------------------------------------------------------------------------
(* Properties *)

\* No executor deletes what a pipeline write committed, however its claim, its
\* delete and its release interleave with the writers (assuming a delete ends
\* before its claim runs out), nor the file of an accepted upload that no executor
\* claimed in quarantine.  One that was claimed may be gone: a release puts the
\* supplement back to pending after its file was deleted (011:903-909), and
\* regenerate, which accepts it, asks the row and not the store.
OwnedIsStored ==
  /\ bound \subseteq store
  /\ \A f \in Files :
       state[Supplement(f)] = "accepted" /\ clean[Supplement(f)].token = 0 => f \in store

\* No object is lost: as long as it is stored, it has an owner or a row some
\* executor will come back to.  A put that lands after its reservation was
\* purged would be kept for ever and never be found again.
Tracked ==
  /\ \A k \in Keys \cap store : k \in bound \/ state[Private(k)] \in {"pending", "cleanup"}
  /\ \A f \in Files \cap store :
       \/ state[Upload(f)] \in {"pending", "cleanup"}
       \/ state[Supplement(f)] \in {"pending", "cleanup", "accepted"}

Owned(x) == x \in bound \/ (x \in Files /\ state[Supplement(x)] = "accepted")
BeingWritten(x) == \E w \in Writers : writer[w].key = x /\ writer[w].pc /= "idle"

\* An object nobody owns is deleted in the end, though executors die, fail and
\* hand over, unless somebody keeps writing it.
AbandonedIsDeleted ==
  \A x \in Keys \cup Files :
    <>[](x \in store /\ ~Owned(x)) => []<>BeingWritten(x)

\* test/submissions-v2-api-service.test.mjs:279 "Master Inbox private-object
\* replay survives a crash after Blob write and before source commit": a
\* pathname that has no owner yet may still get one.
ReplaySurvivesCrash == \A k \in Keys : k \notin bound => state[Private(k)] /= "purged"
=============================================================================
