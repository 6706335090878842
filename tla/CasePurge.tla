------------------------------ MODULE CasePurge ------------------------------
(***************************************************************************)
(* Deletion of a candidate-role case, its recovery within 30 days, and its  *)
(* physical purge: softDeleteCase and restoreCase of repository.mjs, and    *)
(* the first two lanes of the isolated executor (purge.mjs over             *)
(* 005_isolated_case_purge.sql and 009_resilience_and_redemption.sql).      *)
(*                                                                          *)
(* A purge is a transaction that plans, deletions in the blob store one     *)
(* after another, and a transaction that finalizes.  Once all migrations    *)
(* are applied the one that finalizes a case never commits (FinalizeCase):  *)
(* the deletion goes back to soft_deleted with its objects gone, and is     *)
(* claimed again for ever.  The lane of the restored manifests commits.     *)
(*                                                                          *)
(* A case shares the e-mail it came from with the other roles of that       *)
(* e-mail.  It has one object here, for its artifacts, uploads and          *)
(* checkpoints; a deletion has its recovery manifest and an e-mail its      *)
(* body.  An executor claims a batch and works it off one by one: here it   *)
(* claims one deletion, and its lease may run out at any time.              *)
(***************************************************************************)
EXTENDS Naturals, FiniteSets

CONSTANTS
  Cases, Sources, \* candidate-role pairs, source e-mails
  Links,          \* which case refers to which e-mail: pair_signal_links and its like
  Executors,      \* purge executors
  MaxDeletions,   \* bound: deletions of each case
  MaxToken,       \* bound: claims of one deletion that are told apart
  MaxFaults       \* bound: leases that run out, steps that fail, executors that die

NoExecutor == "none"

ASSUME LinksAssumption == Links \subseteq Cases \X Sources
ASSUME ExecutorsAssumption == NoExecutor \notin Executors
ASSUME BoundsAssumption == /\ MaxDeletions \in [Cases -> Nat]
                           /\ MaxToken \in Nat /\ MaxFaults \in Nat

VARIABLES
  case,     \* "visible" or "hidden" (case_hidden_at)
  deletion, \* rows of case_deletions
  store,    \* the private blob store
  executor, \* what each executor is doing
  faults    \* how often a lease ran out, a step failed or an executor died

vars == <<case, deletion, store, executor, faults>>

Deletions == UNION {{c} \X (1 .. MaxDeletions[c]) : c \in Cases}

OfCase(c) == <<"case", c>>
Manifest(d) == <<"manifest", d>>
Body(s) == <<"body", s>>

Objects == {OfCase(c) : c \in Cases} \cup {Manifest(d) : d \in Deletions}
             \cup {Body(s) : s \in Sources}

\* What each lane claims, what a row is while claimed, and what it becomes.
Lanes == [case |-> [from |-> "soft_deleted", claimed |-> "purging"],
          manifest |-> [from |-> "restored", claimed |-> "manifest_purging"]]

Claimed == {"purging", "manifest_purging"}
States == {"absent", "soft_deleted", "restored", "manifest_purged"} \cup Claimed

Absent == [state |-> "absent", due |-> FALSE, owner |-> NoExecutor, live |-> FALSE, token |-> 0]
Idle == [pc |-> "idle"]

\* A row has a purge lease exactly while it is claimed, and no row is claimed
\* within its recovery window (case_deletions_purge_lease_check).
TypeOK ==
  /\ case \in [Cases -> {"visible", "hidden"}]
  /\ deletion \in [Deletions -> [state : States, due : BOOLEAN, owner : Executors \cup {NoExecutor},
                                 live : BOOLEAN, token : 0 .. MaxToken]]
  /\ \A d \in Deletions :
       LET row == deletion[d]
       IN /\ row.state \in Claimed <=> row.owner /= NoExecutor
          /\ row.live => row.owner /= NoExecutor
          /\ row.state \in Claimed => row.due
  /\ store \subseteq Objects
  /\ faults \in 0 .. MaxFaults
  /\ executor \in [Executors -> {Idle} \cup
                       [pc : {"claimed", "deleting", "failing"}, lane : DOMAIN Lanes,
                        deletion : Deletions, token : 1 .. MaxToken, keys : SUBSET Objects]]

Init ==
  /\ case = [c \in Cases |-> "visible"]
  /\ deletion = [d \in Deletions |-> Absent]
  /\ store = {OfCase(c) : c \in Cases} \cup {Body(s) : s \in Sources}
  /\ executor = [e \in Executors |-> Idle]
  /\ faults = 0
-----------------------------------------------------------------------------
(* The API *)

\* The manifest is stored, then the deletion committed.
SoftDelete(c, n) ==
  /\ case[c] = "visible"
  /\ deletion[<<c, n>>].state = "absent"
  /\ \A m \in 1 .. (n - 1) : deletion[<<c, m>>].state /= "absent"
  /\ case' = [case EXCEPT ![c] = "hidden"]
  /\ deletion' = [deletion EXCEPT ![<<c, n>>].state = "soft_deleted"]
  /\ store' = store \cup {Manifest(<<c, n>>)}
  /\ UNCHANGED <<executor, faults>>

\* Mutant: a deletion may be taken back as long as nobody purges it.
RecoverableLate(d) == deletion[d].state = "soft_deleted"

Recoverable(d) == deletion[d].state = "soft_deleted" /\ ~deletion[d].due

Restore(d) ==
  /\ case[d[1]] = "hidden" /\ Recoverable(d) /\ Manifest(d) \in store
  /\ case' = [case EXCEPT ![d[1]] = "visible"]
  /\ deletion' = [deletion EXCEPT ![d].state = "restored"]
  /\ UNCHANGED <<store, executor, faults>>
-----------------------------------------------------------------------------
(* The executor *)

\* Mutant: a claim whose lease ran out is not taken over.
ClaimableOnce(lane, d) == deletion[d].due /\ deletion[d].state = Lanes[lane].from

\* Mutant: the window is not asked about.
ClaimableEarly(lane, d) == deletion[d].state = Lanes[lane].from

\* claim_case_purges and claim_restored_manifest_purges.
Claimable(lane, d) ==
  /\ deletion[d].due
  /\ \/ deletion[d].state = Lanes[lane].from
     \/ deletion[d].state = Lanes[lane].claimed /\ ~deletion[d].live

\* Tokens are counted up; here one is free again once nobody works under it, and
\* a row that is not claimed has none.
Unused(d) ==
  {t \in 1 .. MaxToken :
     \A e \in Executors : executor[e] /= Idle /\ executor[e].deletion = d => executor[e].token /= t}

Claim(e, lane, d) ==
  /\ executor[e] = Idle
  /\ Claimable(lane, d) /\ Unused(d) /= {}
  /\ LET token == CHOOSE t \in Unused(d) : TRUE
     IN /\ deletion' = [deletion EXCEPT ![d].state = Lanes[lane].claimed, ![d].owner = e,
                                          ![d].live = TRUE, ![d].token = token]
        /\ executor' = [executor EXCEPT ![e] = [pc |-> "claimed", lane |-> lane, deletion |-> d,
                                                token |-> token, keys |-> {}]]
  /\ UNCHANGED <<case, store, faults>>

\* The deletions once nobody claims d any longer.
GivenUp(d, state) ==
  [deletion EXCEPT ![d].state = state, ![d].owner = NoExecutor, ![d].live = FALSE, ![d].token = 0]

\* The where clause of every later call; plan and finalize ask for the lease too.
Owns(e) ==
  LET row == deletion[executor[e].deletion]
  IN /\ row.state = Lanes[executor[e].lane].claimed
     /\ row.owner = e /\ row.token = executor[e].token

Holds(e) == Owns(e) /\ deletion[executor[e].deletion].live

\* Mutant: an e-mail goes with the first of its cases.
DeletableUnshared(c) == {s \in Sources : <<c, s>> \in Links}

\* The e-mails no other case refers to.
Deletable(c) ==
  {s \in Sources : <<c, s>> \in Links /\ \A other \in Cases \ {c} : <<other, s>> \notin Links}

\* case_purge_plan and restored_manifest_purge_plan.
Planned(lane, d) ==
  LET c == d[1]
      history == {n \in 1 .. MaxDeletions[c] :
                    deletion[<<c, n>>].state \notin {"absent", "manifest_purged"}}
  IN IF lane = "manifest" THEN {Manifest(d)}
     ELSE {OfCase(c)} \cup {Body(s) : s \in Deletable(c)} \cup {Manifest(<<c, n>>) : n \in history}

Plan(e) ==
  /\ executor[e].pc = "claimed"
  /\ Holds(e)
  /\ executor' = [executor EXCEPT ![e].pc = "deleting",
                                  ![e].keys = Planned(executor[e].lane, executor[e].deletion)]
  /\ UNCHANGED <<case, deletion, store, faults>>

FirstKey(e) == CHOOSE k \in executor[e].keys : TRUE

\* One object after another, in the order of the plan.
Remove(e) ==
  /\ executor[e].pc = "deleting" /\ executor[e].keys /= {}
  /\ store' = store \ {FirstKey(e)}
  /\ executor' = [executor EXCEPT ![e].keys = @ \ {FirstKey(e)}]
  /\ UNCHANGED <<case, deletion, faults>>

FinalizeManifest(e) ==
  /\ executor[e].pc = "deleting" /\ executor[e].keys = {} /\ executor[e].lane = "manifest"
  /\ Holds(e)
  /\ deletion' = GivenUp(executor[e].deletion, "manifest_purged")
  /\ executor' = [executor EXCEPT ![e] = Idle]
  /\ UNCHANGED <<case, store, faults>>

\* finalize_case_purge never commits.  Without the claim its fence refuses it;
\* with the claim it deletes the pair, which sets the pair_id of the pair's
\* deletions null (003:44), and the trigger on case_deletions refuses any change
\* of pair_id (011:463): the transaction rolls back and the executor is told so.
FinalizeCase(e) ==
  /\ executor[e].pc = "deleting" /\ executor[e].keys = {} /\ executor[e].lane = "case"
  /\ executor' = [executor EXCEPT ![e].pc = "failing"]
  /\ UNCHANGED <<case, deletion, store, faults>>

\* What may go wrong goes wrong MaxFaults times at most.
Fault == faults < MaxFaults /\ faults' = faults + 1

\* The claim is lost, or a delete or a transaction fails.
Fails(e) ==
  /\ executor[e].pc \in {"claimed", "deleting"}
  /\ IF Holds(e) THEN Fault ELSE UNCHANGED faults
  /\ executor' = [executor EXCEPT ![e].pc = "failing"]
  /\ UNCHANGED <<case, deletion, store>>

\* release_case_purge: the row of this claim, its lease live or not.
Release(e) ==
  /\ executor[e].pc = "failing"
  /\ IF Owns(e)
     THEN deletion' = GivenUp(executor[e].deletion, Lanes[executor[e].lane].from)
     ELSE UNCHANGED deletion
  /\ executor' = [executor EXCEPT ![e] = Idle]
  /\ UNCHANGED <<case, store, faults>>

\* The executor dies, or its release fails and is ignored.
Crash(e) ==
  /\ executor[e] /= Idle /\ Fault
  /\ executor' = [executor EXCEPT ![e] = Idle]
  /\ UNCHANGED <<case, deletion, store>>
-----------------------------------------------------------------------------
(* Time *)

\* Deletions of a case expire in the order they were requested.
WindowCloses(c, n) ==
  /\ deletion[<<c, n>>].state /= "absent" /\ ~deletion[<<c, n>>].due
  /\ \A m \in 1 .. (n - 1) : deletion[<<c, m>>].due
  /\ deletion' = [deletion EXCEPT ![<<c, n>>].due = TRUE]
  /\ UNCHANGED <<case, store, executor, faults>>

\* The lease of an executor at work, or of one that died.
LeaseExpires(d) ==
  /\ deletion[d].live
  /\ IF \E e \in Executors : executor[e] /= Idle /\ executor[e].deletion = d /\ Owns(e)
     THEN Fault ELSE UNCHANGED faults
  /\ deletion' = [deletion EXCEPT ![d].live = FALSE]
  /\ UNCHANGED <<case, store, executor>>

Next ==
  \/ \E c \in Cases : \E n \in 1 .. MaxDeletions[c] : SoftDelete(c, n) \/ WindowCloses(c, n)
  \/ \E d \in Deletions : \/ Restore(d) \/ LeaseExpires(d)
                          \/ \E e \in Executors, lane \in DOMAIN Lanes : Claim(e, lane, d)
  \/ \E e \in Executors : \/ Plan(e) \/ Remove(e) \/ FinalizeManifest(e) \/ FinalizeCase(e)
                          \/ Fails(e) \/ Release(e) \/ Crash(e)

Spec == Init /\ [][Next]_vars

\* A batch takes the limit (5) rows of its lane that are due longest.  Those of
\* the case lane never leave it, so beyond five the others are never reached.
BatchLimit == 5
Reached == IF Cardinality(Deletions) <= BatchLimit THEN Deletions ELSE {}

\* Time passes, an executor goes on or dies, and every batch takes the due rows it
\* reaches.  Nobody has to delete or restore.
Fairness ==
  /\ \A c \in Cases : \A n \in 1 .. MaxDeletions[c] : WF_vars(WindowCloses(c, n))
  /\ \A d \in Deletions : WF_vars(LeaseExpires(d))
  /\ \A e \in Executors : WF_vars(\/ Plan(e) \/ Remove(e) \/ FinalizeManifest(e) \/ FinalizeCase(e)
                                   \/ Fails(e) \/ Release(e) \/ Crash(e))
  /\ \A d \in Reached : SF_vars(\E e \in Executors, lane \in DOMAIN Lanes : Claim(e, lane, d))

FairSpec == Spec /\ Fairness
-----------------------------------------------------------------------------
(* Properties *)

\* A case that is visible, or may still be restored, has everything it refers
\* to: its objects, the bodies of its e-mails, and the manifest that restores
\* it, whatever executors do to the other cases of those e-mails.
KeptCasesAreWhole ==
  \A c \in Cases :
    LET recoverable == {n \in 1 .. MaxDeletions[c] : Recoverable(<<c, n>>)}
    IN case[c] = "visible" \/ recoverable /= {} =>
         /\ OfCase(c) \in store
         /\ \A s \in Sources : <<c, s>> \in Links => Body(s) \in store
         /\ \A n \in recoverable : Manifest(<<c, n>>) \in store

Numbers(c) == 1 .. MaxDeletions[c]

\* A deletion was asked for and neither taken back nor carried out.
Pending(d) == deletion[d].state \in {"soft_deleted", "purging"}

\* The window of its deletion has closed on the case.
Doomed(c) == \E n \in Numbers(c) : Pending(<<c, n>>) /\ deletion[<<c, n>>].due

Phase(c) == IF Doomed(c) THEN "doomed" ELSE IF case[c] = "hidden" THEN "hidden" ELSE "kept"

Whole(c) ==
  /\ OfCase(c) \in store
  /\ \A s \in Sources : <<c, s>> \in Links => Body(s) \in store
  /\ \A n \in Numbers(c) : Pending(<<c, n>>) => Manifest(<<c, n>>) \in store

\* To a recruiter a deletion is the promise of RecoverableDeletion, though a
\* purge that cannot finalize puts a case without its objects back in the state
\* in which it was recoverable (softDeleteCase, restoreCase, release_case_purge).
Promise == INSTANCE RecoverableDeletion WITH
  phase <- [c \in Cases |-> Phase(c)],
  whole <- {c \in Cases : Whole(c)}

ImplementsRecoverableDeletion == Promise!Spec

\* The objects only this case needs.
Private(c) == {OfCase(c)} \cup {Body(s) : s \in Deletable(c)}
                \cup {Manifest(<<c, n>>) : n \in Numbers(c)}

\* Though its finalization always fails, what a deletion promised to delete is
\* deleted, by whichever executor gets through; and the manifest of a deletion
\* that was taken back is deleted and its row closed once its window has closed.
DeletedObjectsLeave ==
  []<>(/\ \A c \in Cases : Doomed(c) => Private(c) \cap store = {}
       /\ \A d \in Deletions : deletion[d].due =>
            /\ deletion[d].state \notin {"restored", "manifest_purging"}
            /\ deletion[d].state = "manifest_purged" => Manifest(d) \notin store)

\* 003_case_retention.sql:36 "The sensitive pair may be physically removed by the
\* separately isolated purge role after recovery expires while its non-PII
\* tombstone remains": a deletion that is due is carried out, and ends.
DueDeletionsEnd == \A d \in Deletions : Pending(d) /\ deletion[d].due ~> ~Pending(d)
=============================================================================
