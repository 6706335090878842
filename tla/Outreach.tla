------------------------------- MODULE Outreach -------------------------------
(***************************************************************************)
(* How ParaAI e-mails a candidate about interview requests: the send path   *)
(* processMatchRequest of api/paraai/_lib/outreach.mjs with its lock and    *)
(* revisions (outreach-store.mjs), its deliveries (outreach-mailroom.mjs,   *)
(* outreach-gmail.mjs) and the reconciliation of queued sends.              *)
(*                                                                          *)
(* One candidate: one row in the store with a record per request, one lock. *)
(* An e-mail leaves through Gmail, which finds what it sent by a marker, or *)
(* through the Mailroom, a queue that accepts one row per request.  Nobody  *)
(* can take an e-mail back, and any answer may be lost.                     *)
(***************************************************************************)
EXTENDS Naturals

CONSTANTS
  Requests, \* interview requests of the candidate
  Senders,  \* function invocations that send or reconcile
  Late,     \* requests of which a hand-off may arrive after its caller gave up
  MaxPosts  \* bound: Gmail messages about one request

Nobody == "nobody"
Gone == "gone"

ASSUME LateAssumption == Late \subseteq Requests
ASSUME SendersAssumption == {Nobody, Gone} \cap Senders = {}
ASSUME BoundsAssumption == MaxPosts \in Nat

VARIABLES
  out,     \* the outbox of the stored state: one record per request
  matched, \* requests with a sentAt in the stored state
  lock,    \* who holds the candidate's lock; Gone is a dead process
  sender,  \* what each invocation is doing
  room,    \* the rows of the Mailroom
  flying,  \* hand-offs on their way whose caller no longer waits
  posts,   \* history: the e-mails that left
  passed,  \* whether the next tick ends before it reaches this candidate
  excused  \* history: requests released while a hand-off of them was flying

store == <<out, matched>>
mail == <<room, flying, posts, excused>>
world == <<mail, passed>>
vars == <<out, matched, lock, sender, room, flying, posts, passed, excused>>

Channels == {"gmail", "mailroom"}

NoRecord == [status |-> "none", transport |-> "none", claimAge |-> "none", queueAge |-> "none"]
Idle == [pc |-> "idle"]

Init ==
  /\ out = [r \in Requests |-> NoRecord]
  /\ matched = {}
  /\ lock = Nobody
  /\ sender = [s \in Senders |-> Idle]
  /\ room = [r \in Requests |-> "none"]
  /\ flying = {}
  /\ posts = [r \in Requests |-> [c \in Channels |-> 0]]
  /\ passed \in BOOLEAN
  /\ excused = {}

-----------------------------------------------------------------------------
(* Reading a record. *)

\* A claim of the Mailroom path, to be finished there.
PriorMailroom(record) ==
  record.transport = "mailroom" /\ record.status \in {"claimed", "queued", "uncertain"}

\* Mutant: an uncertain delivery counts as none.
ReconcileOnlyClaims(record) == record.status = "claimed"

\* A claim whose delivery may only be looked for, never made again.
ReconcileOnly(record) == record.status \in {"claimed", "uncertain"}

\* The hold a Mailroom send puts on the candidate's other requests.
Open(record) ==
  /\ record.transport = "mailroom" /\ record.status \in {"queued", "claimed"}
  /\ (IF record.queueAge = "none" THEN record.claimAge ELSE record.queueAge) # "lapsed"

\* Old enough, by its claimedAt, that no hand-off of it should be on its way.
Settled(record) == record.status = "claimed" /\ record.claimAge # "new"

(* Writing the store.  saveOutreachState refuses a revision that is not the *)
(* current one: others save without the lock (reviewHeldOutreach, what it   *)
(* learned of a reply), so any save may be refused, and that ends the work. *)

At(s, pc) == sender[s].pc = pc
Request(s) == sender[s].request
Record(s) == out[Request(s)]
Row(s) == room[Request(s)]
Goto(s, pc) == sender' = [sender EXCEPT ![s].pc = pc]

\* The finally block: the lock goes if it is still this sender's.
Stop(s) ==
  /\ sender' = [sender EXCEPT ![s] = Idle]
  /\ lock' = IF lock = s THEN Nobody ELSE lock

Put(s, record) == out' = [out EXCEPT ![Request(s)] = record]

\* The last save of an invocation.
LastPut(s, record) == (Put(s, record) \/ UNCHANGED out) /\ Stop(s)

Uncertain(s, transport) ==
  LastPut(s, [Record(s) EXCEPT !.status = "uncertain", !.transport = transport])

Released(s) == [Record(s) EXCEPT !.status = "released"]

\* The Mailroom said that it holds no row; whether one is about to arrive?
Excuse(s) ==
  excused' = IF <<Request(s), "mailroom">> \in flying THEN excused \cup {Request(s)} ELSE excused

\* The age of a queue entry starts with its first answer and is kept.
Queued(s) ==
  [Record(s) EXCEPT !.status = "queued", !.queueAge = IF @ = "none" THEN "new" ELSE @]

-----------------------------------------------------------------------------
(* Up to the claim. *)

\* Mutant: a request does not wait for its siblings.
CanStartAlone(r) == r \notin matched

CanStart(r) == r \notin matched /\ \A q \in Requests \ {r} : ~Open(out[q])

Work(pc, r) == [pc |-> pc, request |-> r]

\* processMatchRequest under the lock, with the state it reads.  A request
\* that was delivered, or that waits for another one, is left alone.
Start(s, r) ==
  /\ At(s, "idle") /\ lock = Nobody /\ CanStart(r)
  /\ lock' = s /\ passed' = FALSE
  /\ sender' = [sender EXCEPT ![s] = Work("loaded", r)]
  /\ UNCHANGED <<store, mail>>

\* No address, a candidate who declined, a digest that cannot be written, a
\* lane to wait for, a refused save: nothing new is claimed, nothing is sent.
GiveUp(s) ==
  /\ sender[s].pc \in {"loaded", "laned", "laneless", "unclaim"}
  /\ Stop(s)
  /\ UNCHANGED <<store, world>>

\* Whether the lane carries this e-mail is asked for a request that may use it.
ReadLane(s) ==
  /\ At(s, "loaded")
  /\ \/ (PriorMailroom(Record(s)) \/ ~ReconcileOnly(Record(s))) /\ Goto(s, "laned")
     \/ Goto(s, "laneless")
  /\ UNCHANGED <<store, lock, world>>

\* A claim whose lane is not ready is given up if it is settled and the
\* Mailroom holds nothing of it; else it waits.
AskUnclaimed(s) ==
  /\ At(s, "laneless") /\ PriorMailroom(Record(s))
  /\ Settled(Record(s)) /\ Row(s) = "none"
  /\ Goto(s, "unclaim") /\ Excuse(s)
  /\ UNCHANGED <<store, lock, room, flying, posts, passed>>

Unclaim(s) ==
  /\ At(s, "unclaim")
  /\ Put(s, Released(s)) /\ Goto(s, "laneless")
  /\ UNCHANGED <<matched, lock, world>>

\* A Mailroom claim is finished in the Mailroom and a Gmail one in Gmail.  A
\* new e-mail takes the lane that is ready, or the conversation it continues.
Routes(s) ==
  IF At(s, "laned")
  THEN IF PriorMailroom(Record(s)) THEN {"mailroom"} ELSE Channels
  ELSE IF PriorMailroom(Record(s)) THEN {} ELSE {"gmail"}

\* claimedAt is written once and kept by every later claim.
Claimed(record, route) ==
  [record EXCEPT !.status = "claimed", !.transport = route,
                 !.claimAge = IF @ = "none" THEN "new" ELSE @]

\* The claim is saved before anything is handed over.
Claim(s) ==
  /\ sender[s].pc \in {"laned", "laneless"}
  /\ \E route \in Routes(s) :
       /\ Goto(s, CASE route = "mailroom" -> "status"
                    [] route = "gmail" /\ ReconcileOnly(Record(s)) -> "find"
                    [] OTHER -> "search")
       /\ Put(s, Claimed(Record(s), route))
  /\ UNCHANGED <<matched, lock, world>>

-----------------------------------------------------------------------------
(* Through the Mailroom: deliverViaMailroomOutreach, mailroomDeliveryFailure. *)

\* Mutant: every hand-off has a key of its own.
AcceptedAgain(row) == "waiting"

Accepted(row) == IF row = "none" THEN "waiting" ELSE row

\* A failure says nothing of the e-mail: the claim stays, and the key of the
\* row makes the retry safe.
Retry(s) == Stop(s) /\ UNCHANGED out

\* The row was parked for a person, who must find out whether it left.
Parked(s) == Row(s) = "parked" /\ Uncertain(s, "mailroom")

AskStatus(s) ==
  /\ At(s, "status")
  /\ \/ Row(s) = "sent" /\ Goto(s, "deliver") /\ UNCHANGED <<out, lock>>
     \/ Parked(s)
     \/ Row(s) = "waiting" /\ Goto(s, "poll") /\ UNCHANGED <<out, lock>>
     \/ Row(s) = "none" /\ Goto(s, "enqueue") /\ UNCHANGED <<out, lock>>
     \/ Retry(s)
  /\ UNCHANGED <<matched, world>>

\* The hand-off is answered, or its answer is lost, or it never arrives.
Enqueue(s) ==
  /\ At(s, "enqueue")
  /\ \/ /\ room' = [room EXCEPT ![Request(s)] = Accepted(@)]
        /\ Goto(s, "poll") \/ Goto(s, "check")
     \/ UNCHANGED room /\ Goto(s, "check")
  /\ UNCHANGED <<store, lock, flying, posts, passed, excused>>

\* The lane is off, or does not take this recipient.
EnqueueRefused(s) ==
  /\ At(s, "enqueue")
  /\ Goto(s, "refused")
  /\ UNCHANGED <<store, lock, world>>

\* The caller gives up and the hand-off is still on its way.
EnqueueLate(s) ==
  /\ At(s, "enqueue") /\ Request(s) \in Late
  /\ flying' = flying \cup {<<Request(s), "mailroom">>}
  /\ Goto(s, "check")
  /\ UNCHANGED <<store, lock, room, posts, passed, excused>>

\* The status decides what a failed hand-off was: a refusal is believed when
\* there is no row.
CheckRow(s) ==
  /\ At(s, "check") \/ At(s, "refused")
  /\ \/ Row(s) # "none" /\ Goto(s, "poll") /\ UNCHANGED <<out, lock, excused>>
     \/ At(s, "refused") /\ Row(s) = "none" /\ Goto(s, "release") /\ Excuse(s) /\ UNCHANGED <<out, lock>>
     \/ Retry(s) /\ UNCHANGED excused
  /\ UNCHANGED <<matched, room, flying, posts, passed>>

Release(s) ==
  /\ At(s, "release")
  /\ LastPut(s, Released(s))
  /\ UNCHANGED <<matched, world>>

\* Mutant: an accepted row counts as an e-mail that left.
PollAccepted(s) ==
  /\ At(s, "poll")
  /\ Goto(s, "deliver")
  /\ UNCHANGED <<store, lock, world>>

\* The row is asked a few times; still waiting, it is left to a later tick.
Poll(s) ==
  /\ At(s, "poll")
  /\ \/ Row(s) = "sent" /\ Goto(s, "deliver") /\ UNCHANGED <<out, lock>>
     \/ Parked(s)
     \/ LastPut(s, Queued(s))
  /\ UNCHANGED <<matched, world>>

-----------------------------------------------------------------------------
(* Through Gmail: deliverMessage.  The search for the action's marker may   *)
(* miss a message that was just accepted, or fail.                          *)

\* Before a first attempt; a miss allows the e-mail, a failure does not.
Search(s) ==
  /\ At(s, "search")
  /\ \/ posts[Request(s)]["gmail"] > 0 /\ Goto(s, "deliver") /\ UNCHANGED <<out, lock>>
     \/ Goto(s, "post") /\ UNCHANGED <<out, lock>>
     \/ Uncertain(s, "gmail")
  /\ UNCHANGED <<matched, world>>

\* Accepted, accepted with the answer lost, or not accepted.
PostGmail(s) ==
  /\ At(s, "post")
  /\ \/ /\ posts[Request(s)]["gmail"] < MaxPosts
        /\ posts' = [posts EXCEPT ![Request(s)]["gmail"] = @ + 1]
        /\ Goto(s, "deliver") \/ Goto(s, "find")
     \/ UNCHANGED posts /\ Goto(s, "find")
  /\ UNCHANGED <<store, lock, room, flying, passed, excused>>

PostGmailLate(s) ==
  /\ At(s, "post") /\ Request(s) \in Late
  /\ flying' = flying \cup {<<Request(s), "gmail">>}
  /\ Goto(s, "find")
  /\ UNCHANGED <<store, lock, room, posts, passed, excused>>

\* For an earlier claim, and after an answer that was no acceptance.
Find(s) ==
  /\ At(s, "find")
  /\ \/ posts[Request(s)]["gmail"] > 0 /\ Goto(s, "deliver") /\ UNCHANGED <<out, lock>>
     \/ Uncertain(s, "gmail")
  /\ UNCHANGED <<matched, world>>

-----------------------------------------------------------------------------
(* The record of a delivery, and the reconciliation of queued sends. *)

\* planDeliveredMatch; a save that meets another revision leaves the claim.
Deliver(s) ==
  /\ At(s, "deliver")
  /\ \/ /\ Put(s, [Record(s) EXCEPT !.status = "delivered"])
        /\ matched' = matched \cup {Request(s)}
     \/ UNCHANGED store
  /\ Stop(s)
  /\ UNCHANGED world

\* Mutant: parked rows are not looked at.
TerminalSent(row) == row = "sent"

Terminal(row) == row \in {"sent", "parked"}

\* reconcileQueuedMailroomMatches: the status first, then the lock, then the
\* state again.
Reconcile(s, r) ==
  /\ ~passed
  /\ At(s, "idle") /\ lock = Nobody /\ Terminal(room[r])
  /\ out[r].status = "queued" /\ out[r].transport = "mailroom"
  /\ lock' = s
  /\ sender' = [sender EXCEPT ![s] = Work(IF room[r] = "sent" THEN "deliver" ELSE "park", r)]
  /\ UNCHANGED <<store, world>>

Park(s) ==
  /\ At(s, "park")
  /\ Uncertain(s, "mailroom")
  /\ UNCHANGED <<matched, world>>

\* A tick looks at ten queued sends, those that still wait among them, in the
\* order in which 500 candidates were last saved: others come before this one or
\* do not.  A lane that is paused or cools down reaches nobody.  It is asked only
\* while nobody works on the candidate, and does not vary else.
Crowd ==
  /\ lock = Nobody /\ passed' = ~passed
  /\ UNCHANGED <<store, lock, sender, mail>>

-----------------------------------------------------------------------------
(* What happens around a sender. *)

\* The function is killed at its limit, or dies; its lock stays.
Crash(s) ==
  /\ ~At(s, "idle")
  /\ sender' = [sender EXCEPT ![s] = Idle]
  /\ lock' = IF lock = s THEN Gone ELSE lock
  /\ UNCHANGED <<store, world>>

\* A lock lives 150 seconds and a function 120: it expires on the dead only.
LockExpires == lock = Gone /\ lock' = Nobody /\ UNCHANGED <<store, sender, world>>

\* The Mailroom sends a waiting row, or parks it and does not know.
Dispatch(r) ==
  /\ room[r] = "waiting"
  /\ \E end \in {"sent", "parked"}, left \in 0 .. 1 :
       /\ end = "sent" => left = 1
       /\ room' = [room EXCEPT ![r] = end]
       /\ posts' = [posts EXCEPT ![r]["mailroom"] = @ + left]
  /\ UNCHANGED <<store, lock, sender, flying, passed, excused>>

Land(r, c) ==
  /\ <<r, c>> \in flying
  /\ flying' = flying \ {<<r, c>>}
  /\ \/ UNCHANGED <<room, posts>>
     \/ c = "mailroom" /\ room' = [room EXCEPT ![r] = Accepted(@)] /\ UNCHANGED posts
     \/ /\ c = "gmail" /\ posts[r][c] < MaxPosts
        /\ posts' = [posts EXCEPT ![r][c] = @ + 1] /\ UNCHANGED room
  /\ UNCHANGED <<store, lock, sender, passed, excused>>

HandingOff(s, r) == sender[s].pc \in {"status", "enqueue"} /\ Request(s) = r

\* Two minutes after a claim its hand-off has been made and has arrived.
ClaimAges(r) ==
  /\ out[r].claimAge = "new" /\ out[r].status # "delivered"
  /\ <<r, "mailroom">> \notin flying /\ \A s \in Senders : ~HandingOff(s, r)
  /\ out' = [out EXCEPT ![r].claimAge = "old"]
  /\ UNCHANGED <<matched, lock, sender, world>>

\* Twelve hours after it was queued, or claimed, it holds back no other.
HoldLapses(r) ==
  /\ Open(out[r]) /\ out[r].claimAge = "old"
  /\ \A s \in Senders : At(s, "idle")
  /\ out' = [out EXCEPT ![r] = IF @.queueAge = "new" THEN [@ EXCEPT !.queueAge = "lapsed"]
                               ELSE [@ EXCEPT !.claimAge = "lapsed"]]
  /\ UNCHANGED <<matched, lock, sender, world>>

-----------------------------------------------------------------------------
SenderStep(s) ==
  \/ GiveUp(s) \/ ReadLane(s) \/ AskUnclaimed(s) \/ Unclaim(s) \/ Claim(s)
  \/ AskStatus(s) \/ Enqueue(s) \/ EnqueueRefused(s) \/ EnqueueLate(s) \/ CheckRow(s)
  \/ Release(s) \/ Poll(s) \/ Search(s) \/ PostGmail(s) \/ PostGmailLate(s) \/ Find(s)
  \/ Deliver(s) \/ Park(s)

Next ==
  \/ \E s \in Senders, r \in Requests : Start(s, r) \/ Reconcile(s, r)
  \/ \E s \in Senders : SenderStep(s) \/ Crash(s)
  \/ \E r \in Requests : Dispatch(r) \/ ClaimAges(r) \/ HoldLapses(r)
  \/ \E r \in Requests, c \in Channels : Land(r, c)
  \/ LockExpires \/ Crowd

Spec == Init /\ [][Next]_vars

\* A tick whose save of a queued send is not refused.
Settle(r) == (\E s \in Senders : Park(s) \/ Deliver(s)) /\ out'[r] # out[r]

\* The invocation that holds the lock moves on or dies, and a dead one's lock
\* expires.  Of the ticks that reach the candidate some find the lock free, and
\* some save without being refused.  That ticks reach him is not assumed.
FairSpec ==
  /\ Spec
  /\ WF_vars(LockExpires)
  /\ WF_vars(\E s \in Senders : SenderStep(s))
  /\ \A r \in Requests : SF_vars(\E s \in Senders : Reconcile(s, r)) /\ SF_vars(Settle(r))

-----------------------------------------------------------------------------
(* Properties. *)

Emails(r) == posts[r]["gmail"] + posts[r]["mailroom"]

Ages == {"none", "new", "old", "lapsed"}
Records == [status : {"none", "claimed", "queued", "uncertain", "released", "delivered"},
            transport : {"none"} \cup Channels, claimAge : Ages, queueAge : Ages]
Working == [pc : {"loaded", "laned", "laneless", "unclaim", "status", "enqueue", "check", "refused",
                  "release", "poll", "search", "post", "find", "deliver", "park"},
            request : Requests]

\* The types of the state; the Mailroom sends one e-mail about a request, however
\* often it is handed over, and only the holder of the lock is at work.
TypeOK ==
  /\ out \in [Requests -> Records] /\ matched \subseteq Requests
  /\ lock \in Senders \cup {Nobody, Gone}
  /\ sender \in [Senders -> Working \cup {Idle}]
  /\ \A s \in Senders : At(s, "idle") <=> lock # s
  /\ room \in [Requests -> {"none", "waiting", "sent", "parked"}]
  /\ flying \subseteq Requests \X Channels
  /\ posts \in [Requests -> [Channels -> Nat]]
  /\ \A r \in Requests : posts[r]["gmail"] <= MaxPosts /\ posts[r]["mailroom"] <= 1
  /\ passed \in BOOLEAN /\ excused \subseteq Requests

\* A candidate gets one e-mail about a request, whatever answers are lost,
\* whoever dies and however often the route is chosen again (processMatchRequest,
\* deliverMessage's reconcileOnly), unless a claim was released while a hand-off
\* of it was still on its way.
EmailedOnceUnlessReleased == \A r \in Requests \ excused : Emails(r) <= 1

\* A request the store calls sent has been e-mailed (planDeliveredMatch is only
\* reached from a message that was found or a row that was sent), so nothing is
\* marked reached out in Paraform that nobody wrote to.
RecordedIsSent == \A r \in matched : Emails(r) > 0

\* While one request's Mailroom send is open and fresh no other request of the
\* candidate opens one (openMailroomMatch), so two roles never start two
\* conversations.
OneOpenSend == \A r, q \in Requests : Open(out[r]) /\ Open(out[q]) => r = q

\* A queued send whose row was sent or parked is settled by some tick
\* (reconcileQueuedMailroomMatches), although ticks die and other writers save,
\* provided that from some time on the ticks reach the candidate.  Nothing in the
\* code sees to that: ten sends that go on waiting hide all older ones.
QueuedIsSettled ==
  <>[]~passed =>
    \A r \in Requests :
      (out[r].status = "queued" /\ room[r] \in {"sent", "parked"}) ~> out[r].status # "queued"
=============================================================================
