-------------------------- MODULE NotificationOutbox --------------------------
(***************************************************************************)
(* The notification outbox of Submissions V2: the announcements to Slack   *)
(* that replies queue, the executions of deliver_notification that post    *)
(* them (worker-handlers.mjs, repository.mjs claimNotifications,           *)
(* settleNotification, deliverNotification) and the deletion of the case   *)
(* they are about.                                                         *)
(*                                                                         *)
(* deliverNotification posts inside its transaction, so its statements are *)
(* separate actions: it reads the row, locks the pair, locks the row,      *)
(* posts, commits.  Every statement may fail and every process may die.    *)
(* Slack is modelled by what the code learns of a post: accepted, refused, *)
(* or unknown, in which case it was accepted or not.                       *)
(***************************************************************************)
EXTENDS Naturals

CONSTANTS
  Notes,       \* rows of submissions_v2.notification_outbox, by dedupe_key
  Retired,     \* those of a kind that is no longer delivered
  Workers,     \* executions of deliver_notification, one after the other
  MaxToken,    \* bound: claims of a row
  MaxDeletions \* bound: deletions of the case

NoWorker == "none"

ASSUME RetiredAssumption == Retired \subseteq Notes
ASSUME WorkersAssumption == NoWorker \notin Workers
ASSUME BoundsAssumption == MaxToken \in Nat /\ MaxDeletions \in Nat

VARIABLES
  row,       \* the table; "absent": not inserted yet
  hidden,    \* case_hidden_at of the pair the bound rows are about
  worker,    \* what each execution is doing, with which row
  posts,     \* messages Slack accepted, by row
  deletions  \* how often the case was deleted

vars == <<row, hidden, worker, posts, deletions>>

States == {"absent", "pending", "sending", "sent", "failed", "held"}
Holds == {"none", "retired", "unknown", "deleted"}
Tokens == 0 .. MaxToken
Phases == {"idle", "claimed", "read", "pair", "post", "accepted", "refused", "unknown"}

\* The lease of a row is there exactly while it is being sent
\* (notification_outbox_lease_check).
TypeOK ==
  /\ row \in [Notes -> [state : States, owner : Workers \cup {NoWorker},
                        lease : {"none", "live", "expired"}, token : Tokens,
                        due : BOOLEAN, bound : BOOLEAN, hold : Holds]]
  /\ \A n \in Notes : /\ row[n].state = "sending" <=> row[n].owner /= NoWorker
                      /\ row[n].state = "sending" <=> row[n].lease /= "none"
  /\ hidden \in BOOLEAN
  /\ worker \in [Workers -> [pc : Phases, note : Notes, token : Tokens, knows : BOOLEAN]]
  /\ posts \in [Notes -> Nat]
  /\ deletions \in 0 .. MaxDeletions

-----------------------------------------------------------------------------
(* Locks and rows *)

\* Mutant: the row is read again without FOR UPDATE.
RowNeverLocked(n) == FALSE

\* Open transactions of deliverNotification that hold the pair, or the row.
PairLocked == \E w \in Workers : worker[w].pc \in {"pair", "post", "accepted"} /\ worker[w].knows
RowLocked(n) == \E w \in Workers : worker[w].pc \in {"post", "accepted"} /\ worker[w].note = n

\* The where clause of every write of an execution.
Owns(w) ==
  LET r == row[worker[w].note]
  IN r.state = "sending" /\ r.owner = w /\ r.token = worker[w].token

\* Mutant: the lease stays behind.
StateOnly(r, state, hold) == [r EXCEPT !.state = state, !.hold = hold]

\* The row leaves "sending", or never gets there.
Freed(r, state, hold) ==
  [r EXCEPT !.state = state, !.hold = hold, !.owner = NoWorker, !.lease = "none"]

\* Mutant: a post of unknown outcome is tried again.
TriedAgain(r) == [Freed(r, "failed", "none") EXCEPT !.due = FALSE]

\* A delivery that may have happened: held for a person, "to prevent a duplicate".
Unconfirmed(r) == Freed(r, "held", "unknown")

At(w, pc) == worker' = [worker EXCEPT ![w].pc = pc]

Init ==
  /\ row \in [Notes -> {[state |-> "absent", owner |-> NoWorker, lease |-> "none", token |-> 0,
                         due |-> FALSE, bound |-> b, hold |-> "none"] : b \in BOOLEAN}]
  /\ hidden = FALSE
  /\ worker \in {[w \in Workers |-> [pc |-> "idle", note |-> n, token |-> 0, knows |-> FALSE]] :
                   n \in Notes}
  /\ posts = [n \in Notes |-> 0]
  /\ deletions = 0

-----------------------------------------------------------------------------
(* Who fills the outbox, and the case *)

\* queueSignalAdmission and queuePairAdmission: a reply announces itself, once,
\* unless it was in Monitor before there were announcements.
Admit(n) ==
  /\ row[n].state = "absent"
  /\ row[n].bound => ~hidden
  /\ \E state \in {"pending", "held"} :
       row' = [row EXCEPT ![n].state = state, ![n].due = TRUE]
  /\ UNCHANGED <<hidden, worker, posts, deletions>>

\* queuePairAdmission finds the announcement of the reply the pair came from.
Bind(n) ==
  /\ row[n].state /= "absent" /\ ~row[n].bound
  /\ ~RowLocked(n) /\ ~hidden
  /\ row' = [row EXCEPT ![n].bound = TRUE]
  /\ UNCHANGED <<hidden, worker, posts, deletions>>

\* softDeleteCase takes the pair, then the rows.
SoftDelete ==
  /\ ~hidden /\ deletions < MaxDeletions
  /\ ~PairLocked
  /\ ~\E n \in Notes : row[n].bound /\ RowLocked(n)
  /\ hidden' = TRUE
  /\ deletions' = deletions + 1
  /\ row' = [n \in Notes |->
       IF row[n].bound /\ row[n].state \in {"pending", "failed", "sending"}
       THEN Freed(row[n], "held", "deleted") ELSE row[n]]
  /\ UNCHANGED <<worker, posts>>

\* restoreCase leaves the outbox alone.
RestoreCase ==
  /\ hidden
  /\ hidden' = FALSE
  /\ UNCHANGED <<row, worker, posts, deletions>>

LeaseExpires(n) ==
  /\ row[n].lease = "live"
  /\ row' = [row EXCEPT ![n].lease = "expired"]
  /\ UNCHANGED <<hidden, worker, posts, deletions>>

\* next_attempt_at passes.
BecomesDue(n) ==
  /\ row[n].state = "failed" /\ ~row[n].due
  /\ row' = [row EXCEPT ![n].due = TRUE]
  /\ UNCHANGED <<hidden, worker, posts, deletions>>

-----------------------------------------------------------------------------
(* deliver_notification *)

\* Mutant: nobody looks after a delivery whose worker died.
NeverStale(n) == FALSE

Stale(n) == row[n].state = "sending" /\ row[n].lease = "expired"

Due(n) ==
  /\ n \notin Retired
  /\ row[n].state \in {"pending", "failed"} /\ row[n].due
  /\ row[n].bound => ~hidden

\* claimNotifications sweeps the table and takes one due row; the sweep waits
\* for the rows of open deliveries.
Swept(n) ==
  CASE Stale(n) -> Unconfirmed(row[n])
    [] n \in Retired /\ row[n].state \in {"pending", "failed"} -> Freed(row[n], "held", "retired")
    [] OTHER -> row[n]

MayClaim(w) ==
  /\ worker[w].pc = "idle"
  /\ ~\E n \in Notes : Stale(n) /\ RowLocked(n)

ClaimNotification(w) ==
  /\ MayClaim(w)
  /\ \E n \in Notes :
       /\ Due(n) /\ row[n].token < MaxToken
       /\ row' = [m \in Notes |->
            IF m = n THEN [row[n] EXCEPT !.state = "sending", !.owner = w, !.lease = "live",
                                         !.token = row[n].token + 1, !.hold = "none"]
                     ELSE Swept(m)]
       /\ worker' = [worker EXCEPT ![w] =
            [pc |-> "claimed", note |-> n, token |-> row[n].token + 1, knows |-> FALSE]]
  /\ UNCHANGED <<hidden, posts, deletions>>

ClaimNothing(w) ==
  /\ MayClaim(w)
  /\ ~\E n \in Notes : Due(n)
  /\ row' = [n \in Notes |-> Swept(n)]
  /\ row' /= row
  /\ UNCHANGED <<hidden, worker, posts, deletions>>

\* settleNotification, when the row is still this execution's.
Settle(w, r) ==
  /\ row' = IF Owns(w) THEN [row EXCEPT ![worker[w].note] = r] ELSE row
  /\ At(w, "idle")
  /\ UNCHANGED <<hidden, posts, deletions>>

Retry(w) == Settle(w, [Freed(row[worker[w].note], "failed", "none") EXCEPT !.due = FALSE])
Hold(w) == Settle(w, Unconfirmed(row[worker[w].note]))

\* The checkpoint before the post lost the job's fence: nothing was started.
NotStarted(w) == worker[w].pc = "claimed" /\ Retry(w)

\* A statement of deliverNotification fails before the post, or its own fence
\* is lost: the handler does not know that and holds the row.
DeliveryFails(w) == worker[w].pc \in {"claimed", "read", "pair", "post"} /\ Hold(w)

\* deliverNotification reads its row without a lock ...
ReadNotification(w) ==
  /\ worker[w].pc = "claimed"
  /\ worker' = [worker EXCEPT ![w].pc = IF Owns(w) THEN "read" ELSE "idle",
                              ![w].knows = Owns(w) /\ row[worker[w].note].bound]
  /\ UNCHANGED <<row, hidden, posts, deletions>>

\* ... locks the pair it read, unless there is none ...
LockPair(w) ==
  /\ worker[w].pc = "read"
  /\ IF worker[w].knows /\ hidden
     THEN /\ row' = IF Owns(w) THEN [row EXCEPT ![worker[w].note] =
                                       Freed(row[worker[w].note], "held", "deleted")] ELSE row
          /\ At(w, "idle")
     ELSE UNCHANGED row /\ At(w, "pair")
  /\ UNCHANGED <<hidden, posts, deletions>>

\* ... and then the row.
LockRow(w) ==
  /\ worker[w].pc = "pair"
  /\ At(w, IF Owns(w) THEN "post" ELSE "idle")
  /\ UNCHANGED <<row, hidden, posts, deletions>>

\* postSafeNotification: Slack accepts the message, with or without a receipt ...
Accept(w) ==
  /\ worker[w].pc = "post"
  /\ posts' = [posts EXCEPT ![worker[w].note] = posts[worker[w].note] + 1]
  /\ \E pc \in {"accepted", "unknown"} : At(w, pc)
  /\ UNCHANGED <<row, hidden, deletions>>

\* ... or does not.
Refuse(w) ==
  /\ worker[w].pc = "post"
  /\ \E pc \in {"refused", "unknown"} : At(w, pc)
  /\ UNCHANGED <<row, hidden, posts, deletions>>

CommitSent(w) ==
  /\ worker[w].pc = "accepted"
  /\ Owns(w)
  /\ row' = [row EXCEPT ![worker[w].note] = Freed(row[worker[w].note], "sent", "none")]
  /\ At(w, "idle")
  /\ UNCHANGED <<hidden, posts, deletions>>

\* The transaction of the post is rolled back: refused, unknown, or not committed.
SettleRefused(w) == worker[w].pc = "refused" /\ Retry(w)
SettleUnknown(w) == worker[w].pc \in {"accepted", "unknown"} /\ Hold(w)

Crash(w) ==
  /\ worker[w].pc /= "idle"
  /\ At(w, "idle")
  /\ UNCHANGED <<row, hidden, posts, deletions>>

-----------------------------------------------------------------------------
Case == SoftDelete \/ RestoreCase \/ \E n \in Notes : Admit(n) \/ Bind(n)

Clock == \E n \in Notes : LeaseExpires(n) \/ BecomesDue(n)

Claim(w) == ClaimNotification(w) \/ ClaimNothing(w)

Deliver(w) ==
  \/ NotStarted(w) \/ DeliveryFails(w) \/ ReadNotification(w) \/ LockPair(w) \/ LockRow(w)
  \/ Accept(w) \/ Refuse(w) \/ CommitSent(w) \/ SettleRefused(w) \/ SettleUnknown(w)

Next == Case \/ Clock \/ \E w \in Workers : Claim(w) \/ Deliver(w) \/ Crash(w)

Spec == Init /\ [][Next]_vars

\* Leases run out, an execution that began ends, and a tick queues another one
\* every five minutes.
Fairness ==
  /\ \A n \in Notes : WF_vars(LeaseExpires(n)) /\ WF_vars(BecomesDue(n))
  /\ \A w \in Workers : WF_vars(Deliver(w)) /\ SF_vars(Claim(w))

FairSpec == Spec /\ Fairness

-----------------------------------------------------------------------------
(* What must hold *)

\* Slack is told of an admission at most once, whoever dies wherever, and a row
\* that says "sent" was posted.
AtMostOnePost ==
  \A n \in Notes : posts[n] <= 1 /\ (row[n].state = "sent" => posts[n] = 1)

\* Nothing is posted about a case after its deletion committed.
NoPostAboutDeletedCase ==
  [][\A n \in Notes : posts'[n] /= posts[n] => ~(row[n].bound /\ hidden)]_vars

\* A delivery that began comes to an end although its worker died: no row is
\* being sent for ever, and an admission that may be claimed does not wait for ever.
NoNoteIsForgotten ==
  \A n \in Notes :
    /\ []<>(row[n].state /= "sending")
    /\ []<>(~Due(n) \/ row[n].token = MaxToken)
=============================================================================
