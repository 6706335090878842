--------------------------- MODULE OutreachProofs ---------------------------
(***************************************************************************)
(* What the sending of outreach promises, for all requests and senders:    *)
(* EmailedOnceUnlessReleased, RecordedIsSent and OneOpenSend.  A stored     *)
(* claim names the channel its e-mail takes; the invariant says that the   *)
(* other channel has seen nothing of the request, that a request without a *)
(* claim is in neither, and what each step of a sender relies on.          *)
(***************************************************************************)
EXTENDS Outreach, TLAPS

\* Nothing of the request is in a channel, or on its way there.
NotInMailroom(r) == room[r] = "none" /\ <<r, "mailroom">> \notin flying
NotInGmail(r) == posts[r]["gmail"] = 0 /\ <<r, "gmail">> \notin flying

\* What the row of the Mailroom says of its e-mail.
RowsTell ==
  \A r \in Requests :
    /\ room[r] \in {"none", "waiting"} => posts[r]["mailroom"] = 0
    /\ room[r] = "sent" => posts[r]["mailroom"] = 1

\* A claim names its channel; only the Mailroom queues; what is delivered is
\* recorded as sent.
ClaimsNameChannel ==
  \A r \in Requests :
    /\ out[r].status \in {"claimed", "uncertain"} => out[r].transport \in Channels
    /\ out[r].status = "queued" => out[r].transport = "mailroom"
    /\ out[r].status = "delivered" => r \in matched

\* A request is in the channel its claim names, and without a claim in none; at
\* most one Gmail message of it left or is on its way.
OneChannel ==
  \A r \in Requests \ excused :
    /\ out[r].status \in {"none", "released"} => NotInMailroom(r) /\ NotInGmail(r)
    /\ out[r].transport = "mailroom" => NotInGmail(r)
    /\ out[r].transport = "gmail" => NotInMailroom(r)
    /\ out[r].transport = "none" => NotInMailroom(r) /\ NotInGmail(r)
    /\ posts[r]["gmail"] <= 1
    /\ posts[r]["gmail"] = 1 => <<r, "gmail">> \notin flying

\* What a sender at a step knows of its request.
Knows(pc, r) ==
  /\ pc \in {"loaded", "laned", "laneless", "unclaim"} => r \notin matched
  /\ pc = "laned" => PriorMailroom(out[r]) \/ ~ReconcileOnly(out[r])
  /\ pc \in {"unclaim", "status", "enqueue", "check", "refused", "release", "poll", "park"} =>
       PriorMailroom(out[r])
  /\ pc \in {"search", "post", "find"} => out[r].status = "claimed" /\ out[r].transport = "gmail"
  /\ pc \in {"unclaim", "release"} => r \in excused \/ NotInMailroom(r)
  /\ pc \in {"search", "post"} => r \in excused \/ NotInGmail(r)
  /\ pc = "deliver" => Emails(r) > 0

\* It also knows that no other request has an open send, unless it only settles one.
Alone(pc, r) ==
  pc \notin {"deliver", "park"} => \A q \in Requests \ {r} : ~Open(out[q])

SendersKnow ==
  \A s \in Senders : ~At(s, "idle") => /\ Knows(sender[s].pc, sender[s].request)
                                       /\ Alone(sender[s].pc, sender[s].request)

IInv ==
  /\ TypeOK
  /\ RowsTell
  /\ ClaimsNameChannel
  /\ OneChannel
  /\ SendersKnow
  /\ RecordedIsSent
  /\ OneOpenSend
-----------------------------------------------------------------------------
(* Types *)

Steps == {"loaded", "laned", "laneless", "unclaim", "status", "enqueue", "check", "refused",
          "release", "poll", "search", "post", "find", "deliver", "park"}

\* A sender at work has a step and a request.
LEMMA WorkingIs ==
  /\ Working = [pc : Steps, request : Requests]
  /\ \A w \in Working : w.pc \in Steps /\ w.pc /= "idle" /\ w.request \in Requests /\ w /= Idle
  /\ Idle.pc = "idle"
BY DEF Working, Steps, Idle

\* TypeOK of the next state, from its conjuncts.
LEMMA TypesNext ==
  ASSUME out' \in [Requests -> Records], matched' \subseteq Requests,
         lock' \in Senders \cup {Nobody, Gone}, sender' \in [Senders -> Working \cup {Idle}],
         \A s \in Senders : sender'[s].pc = "idle" <=> lock' /= s,
         room' \in [Requests -> {"none", "waiting", "sent", "parked"}],
         flying' \subseteq Requests \X Channels, posts' \in [Requests -> [Channels -> Nat]],
         \A r \in Requests : posts'[r]["gmail"] <= MaxPosts /\ posts'[r]["mailroom"] <= 1,
         excused' \subseteq Requests, passed' \in BOOLEAN
  PROVE  TypeOK'
BY DEF TypeOK, At

\* The types of the tables and of the counters.
LEMMA Types ==
  ASSUME TypeOK
  PROVE  /\ out \in [Requests -> Records] /\ matched \subseteq Requests
         /\ lock \in Senders \cup {Nobody, Gone}
         /\ sender \in [Senders -> Working \cup {Idle}]
         /\ room \in [Requests -> {"none", "waiting", "sent", "parked"}]
         /\ flying \subseteq Requests \X Channels
         /\ posts \in [Requests -> [Channels -> Nat]] /\ excused \subseteq Requests
         /\ passed \in BOOLEAN
         /\ \A r \in Requests : /\ posts[r]["gmail"] \in Nat /\ posts[r]["mailroom"] \in Nat
                                /\ posts[r]["gmail"] <= MaxPosts /\ posts[r]["mailroom"] <= 1
         /\ \A s \in Senders : sender[s].pc = "idle" <=> lock /= s
BY DEF TypeOK, At, Channels

\* Only the holder of the lock is at work.
LEMMA OthersIdle ==
  ASSUME TypeOK, NEW s \in Senders, sender[s].pc /= "idle"
  PROVE  /\ lock = s /\ sender[s] \in Working /\ sender[s].pc \in Steps
         /\ sender[s].request \in Requests
         /\ \A x \in Senders : x /= s => sender[x].pc = "idle"
BY Types, WorkingIs

\* A sender that stops leaves nobody at work.
LEMMA StopStops ==
  ASSUME TypeOK, NEW s \in Senders, sender[s].pc /= "idle",
         sender' = [sender EXCEPT ![s] = Idle], lock' \in {Nobody, Gone}
  PROVE  /\ sender' \in [Senders -> Working \cup {Idle}] /\ lock' \in Senders \cup {Nobody, Gone}
         /\ \A x \in Senders : sender'[x].pc = "idle" <=> lock' /= x
         /\ \A x \in Senders : sender'[x].pc = "idle"
<1>1. sender \in [Senders -> Working \cup {Idle}] /\ \A x \in Senders : x /= s => sender[x].pc = "idle"
  BY Types, OthersIdle
<1>2. \A x \in Senders : sender'[x] = IF x = s THEN Idle ELSE sender[x]
  BY <1>1
<1>3. \A x \in Senders : lock' /= x
  BY SendersAssumption
<1> QED
  BY <1>1, <1>2, <1>3, WorkingIs

\* A sender that goes on is still the only one at work, on the same request.
LEMMA GotoGoes ==
  ASSUME TypeOK, NEW s \in Senders, sender[s].pc /= "idle", NEW pc \in Steps, Goto(s, pc),
         UNCHANGED lock
  PROVE  /\ sender' \in [Senders -> Working \cup {Idle}] /\ lock' \in Senders \cup {Nobody, Gone}
         /\ \A x \in Senders : sender'[x].pc = "idle" <=> lock' /= x
         /\ \A x \in Senders : x /= s => sender'[x].pc = "idle"
         /\ sender'[s].pc = pc /\ sender'[s].request = sender[s].request
<1>1. /\ sender \in [Senders -> Working \cup {Idle}] /\ sender[s] \in Working /\ lock = s
      /\ \A x \in Senders : x /= s => sender[x].pc = "idle"
      /\ \A x \in Senders : sender[x].pc = "idle" <=> lock /= x
  BY Types, OthersIdle
<1> DEFINE w == [sender[s] EXCEPT !.pc = pc]
<1>2. sender' = [sender EXCEPT ![s] = w]
  BY <1>1 DEF Goto
<1>3. w \in Working /\ w.pc = pc /\ w.request = sender[s].request
  BY <1>1, WorkingIs
<1> HIDE DEF w
<1>4. \A x \in Senders : sender'[x] = IF x = s THEN w ELSE sender[x]
  BY <1>1, <1>2
<1> QED
  BY <1>1, <1>2, <1>3, <1>4, WorkingIs, Types

\* Nothing was claimed and nothing was sent.
LEMMA InitIInv == Init => IInv
<1> SUFFICES ASSUME Init PROVE IInv
  OBVIOUS
<1>1. /\ \A r \in Requests : out[r] = NoRecord /\ room[r] = "none"
      /\ \A r \in Requests : posts[r]["gmail"] = 0 /\ posts[r]["mailroom"] = 0
      /\ \A s \in Senders : sender[s] = Idle /\ lock /= s
      /\ flying = {} /\ matched = {} /\ excused = {}
  BY SendersAssumption DEF Init, Channels
<1>2. NoRecord \in Records /\ NoRecord.status = "none" /\ NoRecord.transport = "none"
  BY DEF NoRecord, Records, Ages
<1>3. TypeOK
  BY <1>1, <1>2, BoundsAssumption, WorkingIs DEF Init, TypeOK, At
<1>4. RowsTell /\ ClaimsNameChannel /\ RecordedIsSent
  BY <1>1, <1>2 DEF RowsTell, ClaimsNameChannel, RecordedIsSent
<1>5. OneChannel
  <2>1. \A r \in Requests : NotInMailroom(r) /\ NotInGmail(r)
    BY <1>1 DEF NotInMailroom, NotInGmail
  <2>3. ASSUME NEW r \in Requests PROVE posts[r]["gmail"] <= 1 /\ posts[r]["gmail"] /= 1
    <3>1. posts[r]["gmail"] = 0
      BY <1>1
    <3> QED
      BY <3>1, SMT
  <2> QED
    BY <2>1, <2>3 DEF OneChannel
<1>6. SendersKnow
  BY <1>1 DEF SendersKnow, At, Idle
<1>7. OneOpenSend
  BY <1>1, <1>2 DEF OneOpenSend, Open
<1> QED
  BY <1>3, <1>4, <1>5, <1>6, <1>7 DEF IInv
-----------------------------------------------------------------------------
(* What a record may become *)

\* The record does not contradict what the channels have seen of its request.
Fits(r, record) ==
  /\ record.status \in {"claimed", "uncertain"} => record.transport \in Channels
  /\ record.status = "queued" => record.transport = "mailroom"
  /\ \/ r \in excused
     \/ /\ record.status \in {"none", "released"} => NotInMailroom(r) /\ NotInGmail(r)
        /\ record.transport = "mailroom" => NotInGmail(r)
        /\ record.transport = "gmail" => NotInMailroom(r)
        /\ record.transport = "none" => NotInMailroom(r) /\ NotInGmail(r)

\* The part of the invariant that no sender's step is in.
Tables ==
  /\ RowsTell /\ ClaimsNameChannel /\ OneChannel /\ RecordedIsSent /\ OneOpenSend

\* Every record fits.
LEMMA RecordsFit ==
  ASSUME IInv, NEW r \in Requests
  PROVE  out[r] \in Records /\ Fits(r, out[r])
BY Types DEF IInv, ClaimsNameChannel, OneChannel, Fits

\* A record that fits, that is open only when no other is, keeps the tables.
LEMMA PutKeepsTables ==
  ASSUME IInv, NEW r \in Requests, NEW record \in Records,
         out' = [out EXCEPT ![r] = record], Fits(r, record),
         record.status = "delivered" => r \in matched',
         matched \subseteq matched', matched' \subseteq matched \cup {r},
         r \in matched' => Emails(r) > 0,
         Open(record) => \A q \in Requests \ {r} : ~Open(out[q]),
         UNCHANGED world
  PROVE  Tables' /\ out' \in [Requests -> Records] /\ matched' \subseteq Requests
<1>1. /\ out \in [Requests -> Records] /\ UNCHANGED <<room, flying, posts, excused, passed>>
      /\ matched \subseteq Requests
  BY Types DEF IInv, world, mail
<1>2. \A q \in Requests : out'[q] = IF q = r THEN record ELSE out[q]
  BY <1>1
<1>3. RowsTell'
  BY <1>1 DEF IInv, RowsTell
<1>4. ClaimsNameChannel'
  BY <1>2 DEF IInv, ClaimsNameChannel, Fits
<1>5. OneChannel'
  <2>1. \A q : NotInMailroom(q)' <=> NotInMailroom(q)
    BY <1>1 DEF NotInMailroom
  <2>2. \A q : NotInGmail(q)' <=> NotInGmail(q)
    BY <1>1 DEF NotInGmail
  <2> QED
    BY <1>1, <1>2, <2>1, <2>2 DEF IInv, OneChannel, Fits
<1>6. RecordedIsSent'
  <2>1. \A q : Emails(q)' = Emails(q)
    BY <1>1 DEF Emails
  <2> QED
    BY <2>1 DEF IInv, RecordedIsSent
<1>7. OneOpenSend'
  <2>1. \A q \in Requests : Open(out'[q]) => Open(out[q]) \/ q = r
    BY <1>2
  <2>2. out'[r] = record
    BY <1>2
  <2>3. \A p, q \in Requests : Open(out'[p]) /\ Open(out'[q]) => p = q
    BY <1>2, <2>1, <2>2 DEF IInv, OneOpenSend
  <2> QED
    BY <2>3 DEF OneOpenSend, Open
<1> QED
  BY <1>1, <1>2, <1>3, <1>4, <1>5, <1>6, <1>7 DEF Tables
-----------------------------------------------------------------------------
(* Steps of a sender *)

\* A sender that stops, its record written or not.
LEMMA StopKeepsIInv ==
  ASSUME IInv, NEW s \in Senders, sender[s].pc /= "idle",
         sender' = [sender EXCEPT ![s] = Idle], lock' \in {Nobody, Gone},
         NEW r \in Requests, NEW record \in Records,
         out' = [out EXCEPT ![r] = record], Fits(r, record),
         record.status = "delivered" => r \in matched',
         matched \subseteq matched', matched' \subseteq matched \cup {r},
         r \in matched' => Emails(r) > 0,
         Open(record) => \A q \in Requests \ {r} : ~Open(out[q]),
         UNCHANGED world
  PROVE  IInv'
<1>1. Tables' /\ out' \in [Requests -> Records] /\ matched' \subseteq Requests
  BY PutKeepsTables
<1>2. /\ sender' \in [Senders -> Working \cup {Idle}] /\ lock' \in Senders \cup {Nobody, Gone}
      /\ \A x \in Senders : sender'[x].pc = "idle" <=> lock' /= x
      /\ \A x \in Senders : sender'[x].pc = "idle"
  BY StopStops DEF IInv
<1>3. TypeOK'
  BY <1>1, <1>2, Types, TypesNext DEF IInv, world, mail
<1>4. SendersKnow'
  BY <1>2 DEF SendersKnow, At
<1> QED
  BY <1>1, <1>3, <1>4 DEF IInv, Tables

\* A sender that goes on and knows what its next step relies on.
LEMMA GotoKeepsIInv ==
  ASSUME IInv, NEW s \in Senders, sender[s].pc /= "idle", NEW pc \in Steps, Goto(s, pc),
         UNCHANGED lock, NEW r, r = sender[s].request, Tables',
         out' \in [Requests -> Records], matched' \subseteq Requests,
         room' \in [Requests -> {"none", "waiting", "sent", "parked"}],
         flying' \subseteq Requests \X Channels, posts' \in [Requests -> [Channels -> Nat]],
         \A q \in Requests : posts'[q]["gmail"] <= MaxPosts /\ posts'[q]["mailroom"] <= 1,
         excused' \subseteq Requests, passed' \in BOOLEAN,
         Knows(pc, r)', Alone(pc, r)'
  PROVE  IInv'
<1>1. /\ sender' \in [Senders -> Working \cup {Idle}] /\ lock' \in Senders \cup {Nobody, Gone}
      /\ \A x \in Senders : sender'[x].pc = "idle" <=> lock' /= x
      /\ \A x \in Senders : x /= s => sender'[x].pc = "idle"
      /\ sender'[s].pc = pc /\ sender'[s].request = r
  BY GotoGoes DEF IInv
<1>2. TypeOK'
  BY <1>1, TypesNext
<1>3. SendersKnow'
  <2> SUFFICES ASSUME NEW x \in Senders, (~At(x, "idle"))'
               PROVE  (Knows(sender[x].pc, sender[x].request) /\ Alone(sender[x].pc, sender[x].request))'
    BY DEF SendersKnow
  <2>1. x = s
    BY <1>1 DEF At
  <2>2. (Knows(sender[s].pc, sender[s].request))'
    BY <1>1 DEF Knows
  <2>3. (Alone(sender[s].pc, sender[s].request))'
    BY <1>1 DEF Alone
  <2> QED
    BY <2>1, <2>2, <2>3
<1> QED
  BY <1>2, <1>3 DEF IInv, Tables

\* What a sender at work knows.
LEMMA SenderKnows ==
  ASSUME IInv, NEW s \in Senders, sender[s].pc /= "idle", NEW r, r = sender[s].request
  PROVE  /\ r \in Requests /\ sender[s].pc \in Steps
         /\ Knows(sender[s].pc, r) /\ Alone(sender[s].pc, r)
         /\ out[r] \in Records /\ Fits(r, out[r])
BY OthersIdle, RecordsFit DEF IInv, SendersKnow, At

\* Nothing is changed but the step.
LEMMA QuietGotoKeepsIInv ==
  ASSUME IInv, NEW s \in Senders, sender[s].pc /= "idle", NEW pc \in Steps, Goto(s, pc),
         UNCHANGED <<lock, store, world>>, NEW r, r = sender[s].request,
         Knows(pc, r), Alone(pc, r)
  PROVE  IInv'
<1>1. UNCHANGED <<lock, out, matched, room, flying, posts, excused, passed>>
  BY DEF store, world, mail
<1>2. Tables'
  BY <1>1 DEF IInv, Tables, RowsTell, ClaimsNameChannel, OneChannel, NotInMailroom, NotInGmail,
              RecordedIsSent, Emails, OneOpenSend, Open
<1>3. Knows(pc, r)'
  BY <1>1 DEF Knows, PriorMailroom, ReconcileOnly, NotInMailroom, NotInGmail, Emails
<1>4. Alone(pc, r)'
  BY <1>1 DEF Alone, Open
<1> QED
  BY <1>1, <1>2, <1>3, <1>4, Types, GotoKeepsIInv DEF IInv

\* Nothing is changed and the sender stops.
LEMMA QuietStopKeepsIInv ==
  ASSUME IInv, NEW s \in Senders, sender[s].pc /= "idle",
         sender' = [sender EXCEPT ![s] = Idle], lock' \in {Nobody, Gone},
         UNCHANGED <<store, world>>
  PROVE  IInv'
<1> DEFINE r == sender[s].request
<1>1. /\ r \in Requests /\ out[r] \in Records /\ Fits(r, out[r]) /\ out \in [Requests -> Records]
      /\ UNCHANGED <<out, matched>>
  BY SenderKnows, Types DEF IInv, store
<1>2. out' = [out EXCEPT ![r] = out[r]]
  BY <1>1
<1>3. out[r].status = "delivered" => r \in matched'
  BY <1>1 DEF IInv, ClaimsNameChannel
<1>4. r \in matched' => Emails(r) > 0
  BY <1>1 DEF IInv, RecordedIsSent
<1>5. Open(out[r]) => \A q \in Requests \ {r} : ~Open(out[q])
  BY <1>1 DEF IInv, OneOpenSend
<1> HIDE DEF r
<1> QED
  BY <1>1, <1>2, <1>3, <1>4, <1>5, StopKeepsIInv

\* Stop of a sender at work gives the lock back.
LEMMA StopIs ==
  ASSUME IInv, NEW s \in Senders, sender[s].pc /= "idle", Stop(s)
  PROVE  sender' = [sender EXCEPT ![s] = Idle] /\ lock' \in {Nobody, Gone}
BY OthersIdle DEF Stop, IInv

\* A sender starts, or takes a queued send up, when nobody is at work.
LEMMA WorkKeepsIInv ==
  ASSUME IInv, NEW s \in Senders, NEW r \in Requests, NEW pc \in Steps, lock = Nobody,
         lock' = s, sender' = [sender EXCEPT ![s] = Work(pc, r)], UNCHANGED <<store, mail>>,
         passed' \in BOOLEAN,
         Knows(pc, r), Alone(pc, r)
  PROVE  IInv'
<1>1. UNCHANGED <<out, matched, room, flying, posts, excused>>
  BY DEF store, mail
<1>2. Tables'
  BY <1>1 DEF IInv, Tables, RowsTell, ClaimsNameChannel, OneChannel, NotInMailroom, NotInGmail,
              RecordedIsSent, Emails, OneOpenSend, Open
<1>3. /\ sender \in [Senders -> Working \cup {Idle}]
      /\ \A x \in Senders : sender[x].pc = "idle"
  <2>1. \A x \in Senders : x /= Nobody
    BY SendersAssumption
  <2> QED
    BY <2>1, Types DEF IInv
<1>4. Work(pc, r) \in Working /\ Work(pc, r).pc = pc /\ Work(pc, r).request = r /\ pc /= "idle"
  BY WorkingIs DEF Work, Steps
<1>5. \A x \in Senders : sender'[x] = IF x = s THEN Work(pc, r) ELSE sender[x]
  BY <1>3
<1>6. /\ sender' \in [Senders -> Working \cup {Idle}]
      /\ \A x \in Senders : sender'[x].pc = "idle" <=> lock' /= x
  BY <1>3, <1>4, <1>5
<1>7. TypeOK'
  BY <1>1, <1>6, Types, TypesNext DEF IInv
<1>8. Knows(pc, r)'
  BY <1>1 DEF Knows, PriorMailroom, ReconcileOnly, NotInMailroom, NotInGmail, Emails
<1>9. Alone(pc, r)'
  BY <1>1 DEF Alone, Open
<1>10. SendersKnow'
  <2> SUFFICES ASSUME NEW x \in Senders, (~At(x, "idle"))'
               PROVE  (Knows(sender[x].pc, sender[x].request) /\ Alone(sender[x].pc, sender[x].request))'
    BY DEF SendersKnow
  <2>1. x = s
    BY <1>3, <1>5 DEF At
  <2>2. sender'[s].pc = pc /\ sender'[s].request = r
    BY <1>4, <1>5
  <2>3. (Knows(sender[s].pc, sender[s].request))'
    BY <1>8, <2>2 DEF Knows
  <2>4. (Alone(sender[s].pc, sender[s].request))'
    BY <1>9, <2>2 DEF Alone
  <2> QED
    BY <2>1, <2>3, <2>4
<1> QED
  BY <1>2, <1>7, <1>10 DEF IInv, Tables

\* The last save of a sender, refused or not.
LEMMA LastPutKeepsIInv ==
  ASSUME IInv, NEW s \in Senders, sender[s].pc /= "idle", NEW r, r = sender[s].request,
         NEW record \in Records, LastPut(s, record), UNCHANGED <<matched, world>>,
         Fits(r, record), record.status /= "delivered",
         Open(record) => \A q \in Requests \ {r} : ~Open(out[q])
  PROVE  IInv'
<1>1. sender' = [sender EXCEPT ![s] = Idle] /\ lock' \in {Nobody, Gone}
  BY StopIs DEF LastPut
<1>2. r \in Requests
  BY SenderKnows
<1>3. CASE UNCHANGED out
  BY <1>1, <1>3, QuietStopKeepsIInv DEF store
<1>4. CASE Put(s, record)
  <2>1. out' = [out EXCEPT ![r] = record]
    BY <1>4 DEF Put, Request
  <2>2. r \in matched' => Emails(r) > 0
    BY <1>2 DEF IInv, RecordedIsSent
  <2> QED
    BY <1>1, <1>2, <2>1, <2>2, StopKeepsIInv
<1> QED
  BY <1>3, <1>4 DEF LastPut

\* A delivery that a person has to look into keeps its channel.
LEMMA UncertainKeepsIInv ==
  ASSUME IInv, NEW s \in Senders, sender[s].pc /= "idle", NEW r, r = sender[s].request,
         NEW c \in Channels, out[r].transport = c, out[r].status \notin {"none", "released"},
         Uncertain(s, c), UNCHANGED <<matched, world>>
  PROVE  IInv'
<1> DEFINE record == [out[r] EXCEPT !.status = "uncertain", !.transport = c]
<1>1. out[r] \in Records /\ Fits(r, out[r])
  BY SenderKnows
<1>2. record \in Records /\ record.status = "uncertain" /\ record.transport = c
  BY <1>1 DEF Records, Channels
<1>3. LastPut(s, record)
  BY DEF Uncertain, Record, Request
<1> HIDE DEF record
<1>4. Fits(r, record)
  BY <1>1, <1>2 DEF Fits
<1>5. ~Open(record)
  BY <1>2 DEF Open
<1> QED
  BY <1>2, <1>3, <1>4, <1>5, LastPutKeepsIInv

\* An invocation begins with nothing open: it holds the lock and no claim yet.
LEMMA StartKeepsIInv ==
  ASSUME IInv, NEW s \in Senders, NEW r \in Requests, Start(s, r) \/ Reconcile(s, r)
  PROVE  IInv'
<1>1. CASE Start(s, r)
  <2>1. /\ lock = Nobody /\ lock' = s /\ sender' = [sender EXCEPT ![s] = Work("loaded", r)]
        /\ UNCHANGED <<store, mail>> /\ passed' \in BOOLEAN /\ CanStart(r) /\ "loaded" \in Steps
    BY <1>1 DEF Start, Steps
  <2>2. Knows("loaded", r)
    BY <2>1 DEF Knows, CanStart
  <2>3. Alone("loaded", r)
    BY <2>1 DEF Alone, CanStart
  <2> QED
    BY <2>1, <2>2, <2>3, WorkKeepsIInv
<1>2. CASE Reconcile(s, r)
  <2>1. /\ lock = Nobody /\ lock' = s /\ UNCHANGED <<store, mail>> /\ passed' \in BOOLEAN
        /\ out[r].status = "queued" /\ out[r].transport = "mailroom"
        /\ \/ room[r] = "sent" /\ sender' = [sender EXCEPT ![s] = Work("deliver", r)]
           \/ sender' = [sender EXCEPT ![s] = Work("park", r)]
        /\ "deliver" \in Steps /\ "park" \in Steps
    BY <1>2, Types DEF IInv, Reconcile, Terminal, Steps, world
  <2>2. room[r] = "sent" => Knows("deliver", r)
    <3>1. room[r] = "sent" => posts[r]["gmail"] \in Nat /\ posts[r]["mailroom"] = 1
      BY Types DEF IInv, RowsTell
    <3>2. room[r] = "sent" => Emails(r) > 0
      BY <3>1 DEF Emails
    <3> QED
      BY <3>2 DEF Knows
  <2>3. Knows("park", r)
    BY <2>1 DEF Knows, PriorMailroom
  <2>4. Alone("deliver", r) /\ Alone("park", r)
    BY DEF Alone
  <2> QED
    BY <2>1, <2>2, <2>3, <2>4, WorkKeepsIInv
<1> QED
  BY <1>1, <1>2

\* A sender that gives up or dies: what it stored stays, and so does a dead one's lock.
LEMMA GiveUpKeepsIInv ==
  ASSUME IInv, NEW s \in Senders, GiveUp(s) \/ Crash(s)
  PROVE  IInv'
<1>1. sender[s].pc /= "idle" /\ UNCHANGED <<store, world>>
  BY DEF GiveUp, Crash, At
<1>2. sender' = [sender EXCEPT ![s] = Idle] /\ lock' \in {Nobody, Gone}
  <2>1. lock = s
    BY <1>1, OthersIdle DEF IInv
  <2> QED
    BY <2>1 DEF GiveUp, Crash, Stop
<1> QED
  BY <1>1, <1>2, QuietStopKeepsIInv

\* Whether the lane carries the e-mail is asked before anything is claimed.
LEMMA ReadLaneKeepsIInv ==
  ASSUME IInv, NEW s \in Senders, ReadLane(s)
  PROVE  IInv'
<1> DEFINE r == sender[s].request
<1>1. /\ sender[s].pc = "loaded" /\ UNCHANGED <<lock, store, world>>
      /\ \/ (PriorMailroom(out[r]) \/ ~ReconcileOnly(out[r])) /\ Goto(s, "laned")
         \/ Goto(s, "laneless")
  BY DEF ReadLane, At, Record, Request
<1>2. sender[s].pc /= "idle" /\ Knows("loaded", r) /\ Alone("loaded", r)
  BY <1>1, SenderKnows
<1>3. "laned" \in Steps /\ "laneless" \in Steps
  BY DEF Steps
<1>4. Alone("laned", r) /\ Alone("laneless", r)
  BY <1>2 DEF Alone
<1>5. Knows("laneless", r)
  BY <1>2 DEF Knows
<1>6. PriorMailroom(out[r]) \/ ~ReconcileOnly(out[r]) => Knows("laned", r)
  BY <1>2 DEF Knows
<1> HIDE DEF r
<1> QED
  BY <1>1, <1>2, <1>3, <1>4, <1>5, <1>6, QuietGotoKeepsIInv DEF r

\* More requests are excused: the tables promise less.
LEMMA ExcuseKeepsTables ==
  ASSUME IInv, UNCHANGED <<out, matched, room, flying, posts>>, excused \subseteq excused'
  PROVE  Tables'
BY DEF IInv, Tables, RowsTell, ClaimsNameChannel, OneChannel, NotInMailroom, NotInGmail,
       RecordedIsSent, Emails, OneOpenSend, Open

\* The Mailroom holds no row, and either nothing of the request is on its way
\* there, or the request is excused.
LEMMA ExcusedGotoKeepsIInv ==
  ASSUME IInv, NEW s \in Senders, sender[s].pc /= "idle", NEW r, r = sender[s].request,
         NEW pc \in {"unclaim", "release"}, Goto(s, pc), Excuse(s), room[r] = "none",
         UNCHANGED <<out, matched, lock, room, flying, posts, passed>>,
         PriorMailroom(out[r]), Alone(sender[s].pc, r), sender[s].pc \notin {"deliver", "park"},
         pc = "unclaim" => r \notin matched
  PROVE  IInv'
<1>1. r \in Requests
  BY SenderKnows
<1>2. /\ excused \subseteq excused' /\ excused' \subseteq Requests
      /\ <<r, "mailroom">> \in flying => r \in excused'
  BY <1>1, Types DEF Excuse, Request, IInv
<1>3. Tables'
  BY <1>2, ExcuseKeepsTables
<1>4. Knows(pc, r)'
  BY <1>2 DEF Knows, PriorMailroom, NotInMailroom
<1>5. Alone(pc, r)'
  BY DEF Alone, Open
<1>6. pc \in Steps
  BY DEF Steps
<1> QED
  BY <1>2, <1>3, <1>4, <1>5, <1>6, Types, GotoKeepsIInv DEF IInv

\* The question whether the Mailroom has a row for a request without a claim.
LEMMA AskUnclaimedKeepsIInv ==
  ASSUME IInv, NEW s \in Senders, AskUnclaimed(s)
  PROVE  IInv'
<1> DEFINE r == sender[s].request
<1>1. /\ sender[s].pc = "laneless" /\ PriorMailroom(out[r]) /\ room[r] = "none"
      /\ Goto(s, "unclaim") /\ Excuse(s) /\ UNCHANGED <<out, matched, lock, room, flying, posts, passed>>
  BY DEF AskUnclaimed, At, Record, Row, Request, store
<1>2. sender[s].pc /= "idle" /\ Knows("laneless", r) /\ Alone("laneless", r)
  BY <1>1, SenderKnows
<1>3. r \notin matched
  BY <1>2 DEF Knows
<1> QED
  BY <1>1, <1>2, <1>3, ExcusedGotoKeepsIInv

\* A sender writes the record of its request and goes on.
LEMMA PutGotoKeepsIInv ==
  ASSUME IInv, NEW s \in Senders, sender[s].pc /= "idle", NEW r, r = sender[s].request,
         NEW record \in Records, NEW pc \in Steps, Put(s, record), Goto(s, pc),
         UNCHANGED <<matched, lock, world>>, Fits(r, record), record.status /= "delivered",
         \A q \in Requests \ {r} : ~Open(out[q]), out'[r] = record => Knows(pc, r)'
  PROVE  IInv'
<1>1. r \in Requests /\ out \in [Requests -> Records]
      /\ UNCHANGED <<room, flying, posts, excused, passed>>
  BY SenderKnows, Types DEF IInv, world, mail
<1>2. out' = [out EXCEPT ![r] = record]
  BY DEF Put, Request
<1>3. r \in matched' => Emails(r) > 0
  BY <1>1 DEF IInv, RecordedIsSent
<1>4. Tables' /\ out' \in [Requests -> Records] /\ matched' \subseteq Requests
  BY <1>1, <1>2, <1>3, PutKeepsTables
<1>5. out'[r] = record /\ \A q \in Requests \ {r} : out'[q] = out[q]
  BY <1>1, <1>2
<1>6. Alone(pc, r)'
  BY <1>5 DEF Alone, Open
<1> QED
  BY <1>1, <1>4, <1>5, <1>6, Types, GotoKeepsIInv DEF IInv

\* A claim whose lane is not ready is given up.
LEMMA UnclaimKeepsIInv ==
  ASSUME IInv, NEW s \in Senders, Unclaim(s)
  PROVE  IInv'
<1> PICK r : r = sender[s].request
  OBVIOUS
<1> PICK record : record = [out[r] EXCEPT !.status = "released"]
  OBVIOUS
<1>1. /\ sender[s].pc = "unclaim" /\ Put(s, record) /\ Goto(s, "laneless")
      /\ UNCHANGED <<matched, lock, world>>
  BY DEF Unclaim, At, Released, Record, Request
<1>2. /\ sender[s].pc /= "idle" /\ r \in Requests /\ Knows("unclaim", r) /\ Alone("unclaim", r)
      /\ out[r] \in Records /\ Fits(r, out[r])
  BY <1>1, SenderKnows
<1>3. /\ record \in Records /\ record.status = "released" /\ record.transport = out[r].transport
  BY <1>2 DEF Records
<1>4. /\ r \notin matched /\ out[r].transport = "mailroom"
      /\ r \in excused \/ NotInMailroom(r)
      /\ \A q \in Requests \ {r} : ~Open(out[q])
  BY <1>2 DEF Knows, Alone, PriorMailroom
<1>5. Fits(r, record)
  BY <1>2, <1>3, <1>4 DEF Fits
<1>6. Knows("laneless", r)'
  BY <1>1, <1>4 DEF Knows
<1>7. "laneless" \in Steps
  BY DEF Steps
<1> QED
  BY <1>1, <1>2, <1>3, <1>4, <1>5, <1>6, <1>7, PutGotoKeepsIInv

\* A claim keeps the channel of an earlier one; a new one takes a channel while
\* the request is in none.
LEMMA ClaimKeepsIInv ==
  ASSUME IInv, NEW s \in Senders, Claim(s)
  PROVE  IInv'
<1> PICK r : r = sender[s].request
  OBVIOUS
<1>1. PICK route \in Routes(s) :
        /\ Goto(s, CASE route = "mailroom" -> "status"
                     [] route = "gmail" /\ ReconcileOnly(Record(s)) -> "find"
                     [] OTHER -> "search")
        /\ Put(s, Claimed(Record(s), route))
  BY DEF Claim
<1>2. sender[s].pc \in {"laned", "laneless"} /\ UNCHANGED <<matched, lock, world>>
  BY DEF Claim
<1>3. /\ sender[s].pc /= "idle" /\ r \in Requests
      /\ Knows(sender[s].pc, r) /\ Alone(sender[s].pc, r)
      /\ out[r] \in Records /\ Fits(r, out[r])
  BY <1>2, SenderKnows
<1> PICK record : record = Claimed(out[r], route)
  OBVIOUS
<1> PICK pc : pc = CASE route = "mailroom" -> "status"
                     [] route = "gmail" /\ ReconcileOnly(out[r]) -> "find"
                     [] OTHER -> "search"
  OBVIOUS
<1>4. Put(s, record) /\ Goto(s, pc)
  BY <1>1 DEF Record, Request
<1>5. /\ \A q \in Requests \ {r} : ~Open(out[q])
      /\ r \notin matched
      /\ sender[s].pc = "laned" => PriorMailroom(out[r]) \/ ~ReconcileOnly(out[r])
  BY <1>2, <1>3 DEF Alone, Knows
<1>6. /\ route \in Channels
      /\ PriorMailroom(out[r]) => route = "mailroom"
      /\ ~PriorMailroom(out[r]) /\ ReconcileOnly(out[r]) => route = "gmail"
  BY <1>2, <1>5 DEF Routes, At, Record, Request, Channels
<1>7. record \in Records /\ record.status = "claimed" /\ record.transport = route
  <2>1. PICK age : age = IF out[r].claimAge = "none" THEN "new" ELSE out[r].claimAge
    OBVIOUS
  <2>2. out[r].claimAge \in Ages
    BY <1>3 DEF Records
  <2>3. age \in Ages
    BY <2>1, <2>2 DEF Ages
  <2>4. record = [out[r] EXCEPT !.status = "claimed", !.transport = route, !.claimAge = age]
    BY <2>1 DEF Claimed
  <2> QED
    BY <1>3, <1>6, <2>3, <2>4 DEF Records, Channels
<1>8. \/ PriorMailroom(out[r]) /\ out[r].transport = route
      \/ ReconcileOnly(out[r]) /\ out[r].transport = route
      \/ out[r].status \in {"none", "released"} /\ ~ReconcileOnly(out[r])
  <2>1. out[r].status /= "delivered"
    BY <1>3, <1>5 DEF IInv, ClaimsNameChannel
  <2>2. CASE PriorMailroom(out[r])
    BY <1>6, <2>2 DEF PriorMailroom
  <2>3. CASE ~PriorMailroom(out[r]) /\ ReconcileOnly(out[r])
    BY <1>3, <1>6, <2>3 DEF PriorMailroom, ReconcileOnly, Fits, Channels
  <2>4. CASE ~PriorMailroom(out[r]) /\ ~ReconcileOnly(out[r])
    BY <1>3, <2>1, <2>4 DEF PriorMailroom, ReconcileOnly, Fits, Records
  <2> QED
    BY <2>2, <2>3, <2>4
<1>9. out[r].transport = route \/ r \in excused \/ (NotInMailroom(r) /\ NotInGmail(r))
  BY <1>3, <1>8 DEF Fits
<1>10. Fits(r, record)
  BY <1>3, <1>6, <1>7, <1>9 DEF Fits, Channels
<1>11. pc \in Steps
  BY DEF Steps
<1>12. UNCHANGED <<room, flying, posts, excused, passed>>
  BY <1>2 DEF world, mail
<1>13. route = "gmail" /\ ~ReconcileOnly(out[r]) => r \in excused \/ NotInGmail(r)
  BY <1>3, <1>8, <1>6 DEF Fits, PriorMailroom
<1>14. /\ pc = "status" => route = "mailroom"
       /\ pc \in {"find", "search"} => route = "gmail"
       /\ pc = "search" => ~ReconcileOnly(out[r])
       /\ pc \in {"status", "find", "search"}
  BY <1>6 DEF Channels
<1>15. ASSUME out'[r] = record PROVE Knows(pc, r)'
  <2>1. NotInGmail(r)' <=> NotInGmail(r)
    BY <1>12 DEF NotInGmail
  <2>2. pc = "status" => PriorMailroom(out'[r])
    BY <1>7, <1>14, <1>15 DEF PriorMailroom
  <2>3. pc \in {"search", "find"} => out'[r].status = "claimed" /\ out'[r].transport = "gmail"
    BY <1>7, <1>14, <1>15
  <2>4. pc = "search" => r \in excused' \/ NotInGmail(r)'
    BY <1>12, <1>13, <1>14, <2>1
  <2> QED
    BY <1>14, <2>2, <2>3, <2>4 DEF Knows
<1> QED
  BY <1>2, <1>3, <1>4, <1>5, <1>7, <1>10, <1>11, <1>15, PutGotoKeepsIInv
-----------------------------------------------------------------------------
(* Through the Mailroom *)

\* A row that was sent is an e-mail.
LEMMA SentIsEmail ==
  ASSUME IInv, NEW r \in Requests, room[r] = "sent" \/ posts[r]["gmail"] > 0
  PROVE  Emails(r) > 0
<1>1. posts[r]["gmail"] \in Nat /\ posts[r]["mailroom"] \in Nat
  BY Types DEF IInv
<1>2. CASE room[r] = "sent"
  <2>1. posts[r]["mailroom"] = 1
    BY <1>2 DEF IInv, RowsTell
  <2> QED
    BY <1>1, <2>1 DEF Emails
<1>3. CASE posts[r]["gmail"] > 0
  BY <1>1, <1>3 DEF Emails
<1> QED
  BY <1>2, <1>3

\* The steps of a Mailroom send that change nothing but the step, or that stop.
LEMMA MailroomMoves ==
  ASSUME IInv, NEW s \in Senders, NEW r, r = sender[s].request,
         sender[s].pc \in {"status", "enqueue", "check", "refused", "poll"},
         UNCHANGED <<matched, world>>,
         \/ Parked(s)
         \/ Retry(s)
         \/ UNCHANGED <<out, lock>> /\ room[r] = "sent" /\ Goto(s, "deliver")
         \/ UNCHANGED <<out, lock>> /\ \E pc \in {"poll", "enqueue", "check", "refused"} : Goto(s, pc)
  PROVE  IInv'
<1>1. /\ sender[s].pc /= "idle" /\ r \in Requests /\ PriorMailroom(out[r])
      /\ \A q \in Requests \ {r} : ~Open(out[q])
  <2>1. sender[s].pc /= "idle"
    OBVIOUS
  <2> QED
    BY <2>1, SenderKnows DEF Knows, Alone
<1>2. CASE Parked(s)
  <2>1. Uncertain(s, "mailroom") /\ "mailroom" \in Channels
    BY <1>2 DEF Parked, Channels
  <2>2. out[r].transport = "mailroom" /\ out[r].status \notin {"none", "released"}
    BY <1>1 DEF PriorMailroom
  <2> QED
    BY <1>1, <2>1, <2>2, UncertainKeepsIInv
<1>3. CASE Retry(s)
  BY <1>1, <1>3, StopIs, QuietStopKeepsIInv DEF Retry, store
<1>4. CASE UNCHANGED <<out, lock>> /\ room[r] = "sent" /\ Goto(s, "deliver")
  <2>1. Knows("deliver", r)
    BY <1>1, <1>4, SentIsEmail DEF Knows
  <2>2. Alone("deliver", r) /\ "deliver" \in Steps
    BY DEF Alone, Steps
  <2> QED
    BY <1>1, <1>4, <2>1, <2>2, QuietGotoKeepsIInv DEF store
<1>5. ASSUME UNCHANGED <<out, lock>>, NEW pc \in {"poll", "enqueue", "check", "refused"}, Goto(s, pc)
      PROVE  IInv'
  <2>1. Knows(pc, r) /\ Alone(pc, r) /\ pc \in Steps
    BY <1>1 DEF Knows, Alone, Steps
  <2> QED
    BY <1>1, <1>5, <2>1, QuietGotoKeepsIInv DEF store
<1> QED
  BY <1>2, <1>3, <1>4, <1>5

\* The question what became of a claimed hand-off.
LEMMA AskStatusKeepsIInv ==
  ASSUME IInv, NEW s \in Senders, AskStatus(s) \/ EnqueueRefused(s)
  PROVE  IInv'
<1>1. CASE AskStatus(s)
  <2>1. sender[s].pc = "status" /\ UNCHANGED <<matched, world>>
    BY <1>1 DEF AskStatus, At
  <2> QED
    BY <1>1, <2>1, MailroomMoves DEF AskStatus, Row, Request
<1>2. CASE EnqueueRefused(s)
  <2>1. /\ sender[s].pc = "enqueue" /\ UNCHANGED <<matched, world, out, lock>>
        /\ Goto(s, "refused")
    BY <1>2 DEF EnqueueRefused, At, store
  <2> QED
    BY <2>1, MailroomMoves
<1> QED
  BY <1>1, <1>2

\* A hand-off arrives at most in the Mailroom, where the claim is, and makes
\* nothing of a row that is there.
LEMMA EnqueueKeepsIInv ==
  ASSUME IInv, NEW s \in Senders, Enqueue(s) \/ EnqueueLate(s)
  PROVE  IInv'
<1> PICK r : r = sender[s].request
  OBVIOUS
<1>1. /\ sender[s].pc = "enqueue" /\ UNCHANGED <<out, matched, lock, posts, excused, passed>>
      /\ \E pc \in {"poll", "check"} : Goto(s, pc)
      /\ \/ UNCHANGED <<room, flying>>
         \/ UNCHANGED flying /\ room' = [room EXCEPT ![r] = Accepted(@)]
         \/ UNCHANGED room /\ flying' = flying \cup {<<r, "mailroom">>}
  BY DEF Enqueue, EnqueueLate, At, Request, store
<1>2. PICK pc \in {"poll", "check"} : Goto(s, pc)
  BY <1>1
<1>3. /\ sender[s].pc /= "idle" /\ r \in Requests /\ PriorMailroom(out[r])
      /\ \A q \in Requests \ {r} : ~Open(out[q])
  BY <1>1, SenderKnows DEF Knows, Alone
<1>4. room \in [Requests -> {"none", "waiting", "sent", "parked"}] /\ flying \subseteq Requests \X Channels
  BY Types DEF IInv
<1>5. /\ room' \in [Requests -> {"none", "waiting", "sent", "parked"}]
      /\ \A q \in Requests : room'[q] = room[q] \/ (q = r /\ room[q] = "none" /\ room'[q] = "waiting")
  BY <1>1, <1>3, <1>4 DEF Accepted
<1>6. flying' \subseteq Requests \X Channels /\ flying' \subseteq flying \cup {<<r, "mailroom">>}
  BY <1>1, <1>3, <1>4 DEF Channels
<1>7. RowsTell'
  BY <1>1, <1>5 DEF IInv, RowsTell
<1>8. OneChannel'
  <2>1. \A q : NotInGmail(q) => NotInGmail(q)'
    BY <1>1, <1>6 DEF NotInGmail
  <2>2. \A q \in Requests : q /= r => (NotInMailroom(q) => NotInMailroom(q)')
    BY <1>5, <1>6 DEF NotInMailroom
  <2>3. out[r].transport = "mailroom" /\ out[r].status \notin {"none", "released"}
    BY <1>3 DEF PriorMailroom
  <2>4. \A q : <<q, "gmail">> \notin flying => <<q, "gmail">> \notin flying'
    BY <1>6
  <2> QED
    BY <1>1, <2>1, <2>2, <2>3, <2>4 DEF IInv, OneChannel
<1>9. ClaimsNameChannel' /\ RecordedIsSent' /\ OneOpenSend'
  BY <1>1 DEF IInv, ClaimsNameChannel, RecordedIsSent, Emails, OneOpenSend, Open
<1>10. Knows(pc, r)'
  BY <1>1, <1>3 DEF Knows, PriorMailroom
<1>11. Alone(pc, r)'
  BY <1>1, <1>3 DEF Alone, Open
<1>12. pc \in Steps
  BY DEF Steps
<1> QED
  BY <1>1, <1>2, <1>3, <1>5, <1>6, <1>7, <1>8, <1>9, <1>10, <1>11, <1>12, Types, GotoKeepsIInv
     DEF IInv, Tables

\* The question whether the Mailroom has a row before a claim is released.
LEMMA CheckRowKeepsIInv ==
  ASSUME IInv, NEW s \in Senders, CheckRow(s)
  PROVE  IInv'
<1> PICK r : r = sender[s].request
  OBVIOUS
<1>1. sender[s].pc \in {"check", "refused"} /\ UNCHANGED <<matched, room, flying, posts, passed>>
  BY DEF CheckRow, At
<1>2. CASE UNCHANGED excused /\ ((UNCHANGED <<out, lock>> /\ Goto(s, "poll")) \/ Retry(s))
  <2>1. UNCHANGED <<matched, world>>
    BY <1>1, <1>2 DEF world, mail
  <2> QED
    BY <1>1, <1>2, <2>1, MailroomMoves
<1>3. CASE /\ At(s, "refused") /\ Row(s) = "none" /\ Goto(s, "release") /\ Excuse(s)
           /\ UNCHANGED <<out, lock>>
  <2>1. sender[s].pc = "refused" /\ room[r] = "none"
    BY <1>3 DEF At, Row, Request
  <2>2. PriorMailroom(out[r]) /\ Alone("refused", r)
    BY <2>1, SenderKnows DEF Knows
  <2> QED
    BY <1>1, <1>3, <2>1, <2>2, ExcusedGotoKeepsIInv
<1> QED
  BY <1>2, <1>3 DEF CheckRow

\* A refused hand-off releases its claim, which no row and no hand-off contradicts.
LEMMA ReleaseKeepsIInv ==
  ASSUME IInv, NEW s \in Senders, Release(s)
  PROVE  IInv'
<1> PICK r : r = sender[s].request
  OBVIOUS
<1> PICK record : record = [out[r] EXCEPT !.status = "released"]
  OBVIOUS
<1>1. /\ sender[s].pc = "release" /\ LastPut(s, record) /\ UNCHANGED <<matched, world>>
  BY DEF Release, At, Released, Record, Request
<1>2. /\ sender[s].pc /= "idle" /\ r \in Requests /\ Knows("release", r)
      /\ out[r] \in Records /\ Fits(r, out[r])
  BY <1>1, SenderKnows
<1>3. record \in Records /\ record.status = "released" /\ record.transport = out[r].transport
  BY <1>2 DEF Records
<1>4. out[r].transport = "mailroom" /\ (r \in excused \/ NotInMailroom(r))
  BY <1>2 DEF Knows, PriorMailroom
<1>5. Fits(r, record)
  BY <1>2, <1>3, <1>4 DEF Fits
<1>6. ~Open(record)
  BY <1>3 DEF Open
<1> QED
  BY <1>1, <1>2, <1>3, <1>5, <1>6, LastPutKeepsIInv

\* A row that still waits is left to a later tick, as a queued send.
LEMMA PollKeepsIInv ==
  ASSUME IInv, NEW s \in Senders, Poll(s)
  PROVE  IInv'
<1> PICK r : r = sender[s].request
  OBVIOUS
<1>1. sender[s].pc = "poll" /\ UNCHANGED <<matched, world>>
  BY DEF Poll, At
<1>2. CASE (Row(s) = "sent" /\ Goto(s, "deliver") /\ UNCHANGED <<out, lock>>) \/ Parked(s)
  BY <1>1, <1>2, MailroomMoves DEF Row, Request
<1>3. CASE LastPut(s, Queued(s))
  <2> PICK record : record = [out[r] EXCEPT !.status = "queued",
                                            !.queueAge = IF @ = "none" THEN "new" ELSE @]
    OBVIOUS
  <2>1. LastPut(s, record)
    BY <1>3 DEF Queued, Record, Request
  <2>2. /\ sender[s].pc /= "idle" /\ r \in Requests /\ Knows("poll", r) /\ Alone("poll", r)
        /\ out[r] \in Records /\ Fits(r, out[r])
    BY <1>1, SenderKnows
  <2>3. record \in Records /\ record.status = "queued" /\ record.transport = out[r].transport
    BY <2>2 DEF Records, Ages
  <2>4. out[r].transport = "mailroom" /\ \A q \in Requests \ {r} : ~Open(out[q])
    BY <2>2 DEF Knows, Alone, PriorMailroom
  <2>5. Fits(r, record)
    BY <2>2, <2>3, <2>4 DEF Fits
  <2> QED
    BY <1>1, <2>1, <2>2, <2>3, <2>4, <2>5, LastPutKeepsIInv
<1> QED
  BY <1>2, <1>3 DEF Poll

\* A parked row is left to a person.
LEMMA ParkKeepsIInv ==
  ASSUME IInv, NEW s \in Senders, Park(s)
  PROVE  IInv'
<1> PICK r : r = sender[s].request
  OBVIOUS
<1>1. sender[s].pc = "park" /\ UNCHANGED <<matched, world>> /\ Uncertain(s, "mailroom")
  BY DEF Park, At
<1>2. Knows("park", r) /\ "mailroom" \in Channels
  BY <1>1, SenderKnows DEF Channels
<1>3. out[r].transport = "mailroom" /\ out[r].status \notin {"none", "released"}
  BY <1>2 DEF Knows, PriorMailroom
<1> QED
  BY <1>1, <1>2, <1>3, UncertainKeepsIInv
-----------------------------------------------------------------------------
(* Through Gmail, and the record of a delivery *)

\* A search finds the e-mail, allows one while none left, or leaves the
\* question to a person.
LEMMA SearchKeepsIInv ==
  ASSUME IInv, NEW s \in Senders, Search(s) \/ Find(s)
  PROVE  IInv'
<1> PICK r : r = sender[s].request
  OBVIOUS
<1>1. /\ sender[s].pc \in {"search", "find"} /\ UNCHANGED <<matched, world>>
      /\ \/ posts[r]["gmail"] > 0 /\ Goto(s, "deliver") /\ UNCHANGED <<out, lock>>
         \/ sender[s].pc = "search" /\ Goto(s, "post") /\ UNCHANGED <<out, lock>>
         \/ Uncertain(s, "gmail")
  BY DEF Search, Find, At, Request
<1>2. sender[s].pc /= "idle"
  BY <1>1
<1>3. /\ r \in Requests /\ Knows(sender[s].pc, r) /\ Alone(sender[s].pc, r)
  BY <1>2, SenderKnows
<1>4. CASE posts[r]["gmail"] > 0 /\ Goto(s, "deliver") /\ UNCHANGED <<out, lock>>
  <2>1. Knows("deliver", r)
    BY <1>3, <1>4, SentIsEmail DEF Knows
  <2>2. Alone("deliver", r) /\ "deliver" \in Steps
    BY DEF Alone, Steps
  <2> QED
    BY <1>1, <1>2, <1>4, <2>1, <2>2, QuietGotoKeepsIInv DEF store
<1>5. CASE sender[s].pc = "search" /\ Goto(s, "post") /\ UNCHANGED <<out, lock>>
  <2>1. Knows("post", r)
    BY <1>3, <1>5 DEF Knows
  <2>2. Alone("post", r) /\ "post" \in Steps
    BY <1>3, <1>5 DEF Alone, Steps
  <2> QED
    BY <1>1, <1>2, <1>5, <2>1, <2>2, QuietGotoKeepsIInv DEF store
<1>6. CASE Uncertain(s, "gmail")
  <2>1. out[r].transport = "gmail" /\ out[r].status = "claimed" /\ "gmail" \in Channels
    BY <1>1, <1>3 DEF Knows, Channels
  <2> QED
    BY <1>1, <1>2, <1>6, <2>1, UncertainKeepsIInv
<1> QED
  BY <1>1, <1>4, <1>5, <1>6

\* An e-mail leaves through Gmail, or may still leave, when none did before.
LEMMA PostGmailKeepsIInv ==
  ASSUME IInv, NEW s \in Senders, PostGmail(s) \/ PostGmailLate(s)
  PROVE  IInv'
<1> PICK r : r = sender[s].request
  OBVIOUS
<1>1. sender[s].pc = "post" /\ UNCHANGED <<out, matched, lock, room, excused, passed>>
  BY DEF PostGmail, PostGmailLate, At, store
<1>2. PICK pc \in {"deliver", "find"} :
        /\ Goto(s, pc)
        /\ \/ UNCHANGED <<posts, flying>> /\ pc = "find"
           \/ /\ UNCHANGED flying /\ posts[r]["gmail"] < MaxPosts
              /\ posts' = [posts EXCEPT ![r]["gmail"] = @ + 1]
           \/ UNCHANGED posts /\ flying' = flying \cup {<<r, "gmail">>} /\ pc = "find"
  BY DEF PostGmail, PostGmailLate, Request
<1>3. /\ sender[s].pc /= "idle" /\ r \in Requests /\ Knows("post", r) /\ Alone("post", r)
  BY <1>1, SenderKnows
<1>4. /\ out[r].status = "claimed" /\ out[r].transport = "gmail"
      /\ r \in excused \/ NotInGmail(r)
      /\ \A q \in Requests \ {r} : ~Open(out[q])
  BY <1>3 DEF Knows, Alone
<1>5. /\ posts \in [Requests -> [Channels -> Nat]] /\ flying \subseteq Requests \X Channels
      /\ \A q \in Requests : /\ posts[q]["gmail"] \in Nat /\ posts[q]["mailroom"] \in Nat
                             /\ posts[q]["gmail"] <= MaxPosts /\ posts[q]["mailroom"] <= 1
  BY Types DEF IInv
<1>6. /\ posts' \in [Requests -> [Channels -> Nat]]
      /\ \A q \in Requests : posts'[q]["mailroom"] = posts[q]["mailroom"]
      /\ \A q \in Requests : q /= r => posts'[q]["gmail"] = posts[q]["gmail"]
      /\ \/ posts'[r]["gmail"] = posts[r]["gmail"]
         \/ /\ posts'[r]["gmail"] = posts[r]["gmail"] + 1 /\ posts[r]["gmail"] < MaxPosts
            /\ UNCHANGED flying
  <2>1. CASE UNCHANGED posts
    BY <1>5, <2>1
  <2>2. CASE /\ UNCHANGED flying /\ posts[r]["gmail"] < MaxPosts
             /\ posts' = [posts EXCEPT ![r]["gmail"] = @ + 1]
    BY <1>3, <1>5, <2>2 DEF Channels
  <2> QED
    BY <1>2, <2>1, <2>2
<1>7. \A q \in Requests : posts'[q]["gmail"] <= MaxPosts /\ posts'[q]["mailroom"] <= 1
  BY <1>3, <1>5, <1>6, BoundsAssumption
<1>8. /\ flying' \subseteq Requests \X Channels
      /\ \A q \in Requests : <<q, "mailroom">> \in flying' => <<q, "mailroom">> \in flying
      /\ \A q \in Requests : q /= r => (<<q, "gmail">> \in flying' => <<q, "gmail">> \in flying)
      /\ posts'[r]["gmail"] /= posts[r]["gmail"] => UNCHANGED flying
  BY <1>2, <1>3, <1>5 DEF Channels
<1>9. RowsTell'
  BY <1>1, <1>6 DEF IInv, RowsTell
<1>10. OneChannel'
  <2>1. \A q \in Requests : NotInMailroom(q) => NotInMailroom(q)'
    BY <1>1, <1>8 DEF NotInMailroom
  <2>2. \A q \in Requests : q /= r /\ NotInGmail(q) => NotInGmail(q)'
    BY <1>6, <1>8 DEF NotInGmail
  <2>3. ASSUME NEW q \in Requests \ excused, q /= r
        PROVE  /\ posts'[q]["gmail"] <= 1
               /\ posts'[q]["gmail"] = 1 => <<q, "gmail">> \notin flying'
    BY <1>6, <1>8, <2>3 DEF IInv, OneChannel
  <2>4. r \notin excused => /\ posts'[r]["gmail"] <= 1
                            /\ posts'[r]["gmail"] = 1 => <<r, "gmail">> \notin flying'
    <3>1. r \notin excused => posts[r]["gmail"] = 0 /\ <<r, "gmail">> \notin flying
      BY <1>4 DEF NotInGmail
    <3>2. CASE posts'[r]["gmail"] = posts[r]["gmail"]
      BY <3>1, <3>2
    <3>3. CASE posts'[r]["gmail"] = posts[r]["gmail"] + 1 /\ UNCHANGED flying
      BY <1>5, <3>1, <3>3
    <3> QED
      BY <1>6, <3>2, <3>3
  <2> QED
    BY <1>1, <1>4, <2>1, <2>2, <2>3, <2>4 DEF IInv, OneChannel
<1>11. \A q \in Requests : Emails(q) > 0 => Emails(q)' > 0
  <2> SUFFICES ASSUME NEW q \in Requests, Emails(q) > 0 PROVE Emails(q)' > 0
    OBVIOUS
  <2>1. posts[q]["gmail"] \in Nat /\ posts[q]["mailroom"] \in Nat
    BY <1>5
  <2>2. posts'[q]["mailroom"] = posts[q]["mailroom"]
        /\ (posts'[q]["gmail"] = posts[q]["gmail"] \/ posts'[q]["gmail"] = posts[q]["gmail"] + 1)
    BY <1>6
  <2> QED
    BY <2>1, <2>2 DEF Emails
<1>12. RecordedIsSent'
  BY <1>1, <1>11, Types DEF IInv, RecordedIsSent
<1>13. ClaimsNameChannel' /\ OneOpenSend'
  BY <1>1 DEF IInv, ClaimsNameChannel, OneOpenSend, Open
<1>14. pc = "deliver" => Emails(r)' > 0
  <2> SUFFICES ASSUME pc = "deliver" PROVE Emails(r)' > 0
    OBVIOUS
  <2>1. posts'[r]["gmail"] = posts[r]["gmail"] + 1
    BY <1>2, <1>3, <1>5 DEF Channels
  <2> QED
    BY <1>3, <1>5, <1>6, <2>1 DEF Emails
<1>15. Knows(pc, r)'
  BY <1>1, <1>4, <1>14 DEF Knows
<1>16. Alone(pc, r)'
  BY <1>1, <1>4 DEF Alone, Open
<1>17. pc \in Steps
  BY DEF Steps
<1> QED
  BY <1>1, <1>2, <1>3, <1>6, <1>7, <1>8, <1>9, <1>10, <1>12, <1>13, <1>15, <1>16, <1>17, Types,
     GotoKeepsIInv DEF IInv, Tables

\* Only what left is recorded as sent.
LEMMA DeliverKeepsIInv ==
  ASSUME IInv, NEW s \in Senders, Deliver(s)
  PROVE  IInv'
<1> PICK r : r = sender[s].request
  OBVIOUS
<1> PICK record : record = [out[r] EXCEPT !.status = "delivered"]
  OBVIOUS
<1>1. /\ sender[s].pc = "deliver" /\ Stop(s) /\ UNCHANGED world
      /\ \/ Put(s, record) /\ matched' = matched \cup {r}
         \/ UNCHANGED store
  BY DEF Deliver, At, Record, Request
<1>2. sender[s].pc /= "idle" /\ sender' = [sender EXCEPT ![s] = Idle] /\ lock' \in {Nobody, Gone}
  BY <1>1, StopIs
<1>3. r \in Requests /\ Knows("deliver", r) /\ out[r] \in Records /\ Fits(r, out[r])
  BY <1>1, <1>2, SenderKnows
<1>4. CASE UNCHANGED store
  BY <1>1, <1>2, <1>4, QuietStopKeepsIInv
<1>5. CASE Put(s, record) /\ matched' = matched \cup {r}
  <2>1. record \in Records /\ record.status = "delivered" /\ record.transport = out[r].transport
    BY <1>3 DEF Records
  <2>2. Fits(r, record)
    BY <1>3, <2>1 DEF Fits
  <2>3. ~Open(record) /\ Emails(r) > 0
    BY <1>3, <2>1 DEF Open, Knows
  <2>4. out' = [out EXCEPT ![r] = record]
    BY <1>5 DEF Put, Request
  <2>5. /\ r \in matched' /\ matched \subseteq matched' /\ matched' \subseteq matched \cup {r}
    BY <1>5
  <2> QED
    BY <1>1, <1>2, <1>3, <2>1, <2>2, <2>3, <2>4, <2>5, StopKeepsIInv
<1> QED
  BY <1>1, <1>4, <1>5
-----------------------------------------------------------------------------
(* What happens around a sender *)

\* A step of the channels, or of time, under the feet of the one at work.
LEMMA OutsideKeepsIInv ==
  ASSUME IInv, UNCHANGED <<sender, matched, excused>>, TypeOK',
         RowsTell', ClaimsNameChannel', OneChannel',
         \A r \in Requests :
           /\ PriorMailroom(out'[r]) <=> PriorMailroom(out[r])
           /\ out'[r].status = out[r].status /\ out'[r].transport = out[r].transport
           /\ Open(out'[r]) => Open(out[r])
           /\ NotInMailroom(r) => NotInMailroom(r)'
           /\ NotInGmail(r) => NotInGmail(r)'
           /\ Emails(r) > 0 => Emails(r)' > 0
  PROVE  IInv'
<1>1. RecordedIsSent'
  BY Types DEF IInv, RecordedIsSent
<1>2. OneOpenSend'
  <2>1. \A r, q \in Requests : Open(out'[r]) /\ Open(out'[q]) => r = q
    BY DEF IInv, OneOpenSend
  <2> QED
    BY <2>1 DEF OneOpenSend, Open
<1>3. SendersKnow'
  <2> SUFFICES ASSUME NEW x \in Senders, (~At(x, "idle"))'
               PROVE  (Knows(sender[x].pc, sender[x].request) /\ Alone(sender[x].pc, sender[x].request))'
    BY DEF SendersKnow
  <2> PICK r, pc : r = sender[x].request /\ pc = sender[x].pc
    OBVIOUS
  <2>1. r \in Requests /\ Knows(pc, r) /\ Alone(pc, r)
    BY SenderKnows DEF At
  <2>2. ReconcileOnly(out'[r]) <=> ReconcileOnly(out[r])
    BY <2>1 DEF ReconcileOnly
  <2>3. Knows(pc, r)'
    BY <2>1, <2>2 DEF Knows, PriorMailroom, ReconcileOnly
  <2>4. Alone(pc, r)'
    <3>1. pc \notin {"deliver", "park"} => \A q \in Requests \ {r} : ~Open(out'[q])
      BY <2>1 DEF Alone
    <3> QED
      BY <3>1 DEF Alone, Open
  <2>5. sender'[x].pc = pc /\ sender'[x].request = r
    OBVIOUS
  <2>6. (Knows(sender[x].pc, sender[x].request))'
    BY <2>3, <2>5 DEF Knows
  <2>7. (Alone(sender[x].pc, sender[x].request))'
    BY <2>4, <2>5 DEF Alone
  <2> QED
    BY <2>6, <2>7
<1> QED
  BY <1>1, <1>2, <1>3 DEF IInv

\* The Mailroom sends a row once, or parks it.
LEMMA DispatchKeepsIInv ==
  ASSUME IInv, NEW r \in Requests, Dispatch(r)
  PROVE  IInv'
<1>1. PICK end \in {"sent", "parked"}, left \in 0 .. 1 :
        /\ room[r] = "waiting" /\ (end = "sent" => left = 1)
        /\ room' = [room EXCEPT ![r] = end] /\ posts' = [posts EXCEPT ![r]["mailroom"] = @ + left]
        /\ UNCHANGED <<out, matched, lock, sender, flying, excused, passed>>
  BY DEF Dispatch, store
<1>2. /\ room \in [Requests -> {"none", "waiting", "sent", "parked"}]
      /\ posts \in [Requests -> [Channels -> Nat]]
      /\ \A q \in Requests : /\ posts[q]["gmail"] \in Nat /\ posts[q]["mailroom"] \in Nat
                             /\ posts[q]["gmail"] <= MaxPosts /\ posts[q]["mailroom"] <= 1
  BY Types DEF IInv
<1>3. posts[r]["mailroom"] = 0
  BY <1>1 DEF IInv, RowsTell
<1>4. /\ posts' \in [Requests -> [Channels -> Nat]]
      /\ \A q \in Requests : posts'[q]["gmail"] = posts[q]["gmail"]
      /\ \A q \in Requests : q /= r => posts'[q]["mailroom"] = posts[q]["mailroom"]
      /\ posts'[r]["mailroom"] = left
  BY <1>1, <1>2, <1>3 DEF Channels
<1>5. /\ room' \in [Requests -> {"none", "waiting", "sent", "parked"}]
      /\ \A q \in Requests : room'[q] = IF q = r THEN end ELSE room[q]
  BY <1>1, <1>2
<1>6. \A q \in Requests : posts'[q]["gmail"] <= MaxPosts /\ posts'[q]["mailroom"] <= 1
  BY <1>2, <1>4
<1>7. TypeOK'
  BY <1>1, <1>4, <1>5, <1>6, Types, TypesNext DEF IInv
<1>8. RowsTell'
  BY <1>1, <1>4, <1>5 DEF IInv, RowsTell
<1>9. ClaimsNameChannel'
  BY <1>1 DEF IInv, ClaimsNameChannel
<1>10. \A q \in Requests : /\ NotInMailroom(q) => NotInMailroom(q)'
                           /\ NotInGmail(q) => NotInGmail(q)'
  BY <1>1, <1>4, <1>5 DEF NotInMailroom, NotInGmail
<1>11. OneChannel'
  BY <1>1, <1>4, <1>10 DEF IInv, OneChannel
<1>12. \A q \in Requests : Emails(q) > 0 => Emails(q)' > 0
  <2> SUFFICES ASSUME NEW q \in Requests, Emails(q) > 0 PROVE Emails(q)' > 0
    OBVIOUS
  <2>1. /\ posts[q]["gmail"] \in Nat /\ posts[q]["mailroom"] \in Nat
        /\ posts'[q]["gmail"] = posts[q]["gmail"] /\ posts'[q]["mailroom"] \in Nat
        /\ q /= r => posts'[q]["mailroom"] = posts[q]["mailroom"]
        /\ q = r => posts[q]["mailroom"] = 0
    BY <1>2, <1>3, <1>4
  <2> QED
    BY <2>1 DEF Emails
<1> QED
  BY <1>1, <1>7, <1>8, <1>9, <1>10, <1>11, <1>12, OutsideKeepsIInv

\* A hand-off nobody waits for arrives in its channel, or not at all.
LEMMA LandKeepsIInv ==
  ASSUME IInv, NEW r \in Requests, NEW c \in Channels, Land(r, c)
  PROVE  IInv'
<1>1. /\ <<r, c>> \in flying /\ flying' = flying \ {<<r, c>>}
      /\ UNCHANGED <<out, matched, lock, sender, excused, passed>>
      /\ \/ UNCHANGED <<room, posts>>
         \/ c = "mailroom" /\ room' = [room EXCEPT ![r] = Accepted(@)] /\ UNCHANGED posts
         \/ /\ c = "gmail" /\ posts[r]["gmail"] < MaxPosts
            /\ posts' = [posts EXCEPT ![r]["gmail"] = @ + 1] /\ UNCHANGED room
  BY DEF Land, store
<1>2. /\ room \in [Requests -> {"none", "waiting", "sent", "parked"}]
      /\ posts \in [Requests -> [Channels -> Nat]] /\ flying \subseteq Requests \X Channels
      /\ \A q \in Requests : /\ posts[q]["gmail"] \in Nat /\ posts[q]["mailroom"] \in Nat
                             /\ posts[q]["gmail"] <= MaxPosts /\ posts[q]["mailroom"] <= 1
  BY Types DEF IInv
<1>3. /\ posts' \in [Requests -> [Channels -> Nat]]
      /\ \A q \in Requests : posts'[q]["mailroom"] = posts[q]["mailroom"]
      /\ \A q \in Requests : \/ posts'[q]["gmail"] = posts[q]["gmail"]
                             \/ /\ q = r /\ c = "gmail" /\ posts[q]["gmail"] < MaxPosts
                                /\ posts'[q]["gmail"] = posts[q]["gmail"] + 1
  <2>1. CASE UNCHANGED posts
    BY <1>2, <2>1
  <2>2. CASE /\ c = "gmail" /\ posts[r]["gmail"] < MaxPosts
             /\ posts' = [posts EXCEPT ![r]["gmail"] = @ + 1]
    BY <1>2, <2>2 DEF Channels
  <2> QED
    BY <1>1, <2>1, <2>2
<1>4. /\ room' \in [Requests -> {"none", "waiting", "sent", "parked"}]
      /\ \A q \in Requests :
           room'[q] = room[q] \/ (q = r /\ c = "mailroom" /\ room[q] = "none" /\ room'[q] = "waiting")
  BY <1>1, <1>2 DEF Accepted
<1>5. \A q \in Requests : posts'[q]["gmail"] <= MaxPosts /\ posts'[q]["mailroom"] <= 1
  BY <1>2, <1>3, BoundsAssumption
<1>6. TypeOK'
  BY <1>1, <1>2, <1>3, <1>4, <1>5, Types, TypesNext DEF IInv
<1>7. RowsTell'
  BY <1>3, <1>4 DEF IInv, RowsTell
<1>8. ClaimsNameChannel'
  BY <1>1 DEF IInv, ClaimsNameChannel
<1>9. \A q \in Requests : /\ NotInMailroom(q) => NotInMailroom(q)'
                          /\ NotInGmail(q) => NotInGmail(q)'
  BY <1>1, <1>3, <1>4 DEF NotInMailroom, NotInGmail
<1>10. \A q \in Requests \ excused : /\ posts'[q]["gmail"] <= 1
                                     /\ posts'[q]["gmail"] = 1 => <<q, "gmail">> \notin flying'
  <2> SUFFICES ASSUME NEW q \in Requests \ excused
               PROVE  /\ posts'[q]["gmail"] <= 1
                      /\ posts'[q]["gmail"] = 1 => <<q, "gmail">> \notin flying'
    OBVIOUS
  <2>1. /\ posts[q]["gmail"] <= 1 /\ posts[q]["gmail"] \in Nat
        /\ posts[q]["gmail"] = 1 => <<q, "gmail">> \notin flying
    BY <1>2 DEF IInv, OneChannel
  <2>2. CASE posts'[q]["gmail"] = posts[q]["gmail"]
    BY <1>1, <2>1, <2>2
  <2>3. CASE q = r /\ c = "gmail" /\ posts'[q]["gmail"] = posts[q]["gmail"] + 1
    <3>1. <<q, "gmail">> \in flying /\ <<q, "gmail">> \notin flying'
      BY <1>1, <2>3
    <3>2. posts[q]["gmail"] = 0
      BY <2>1, <3>1
    <3> QED
      BY <2>3, <3>1, <3>2
  <2> QED
    BY <1>3, <2>2, <2>3
<1>11. OneChannel'
  BY <1>1, <1>9, <1>10 DEF IInv, OneChannel
<1>12. \A q \in Requests : Emails(q) > 0 => Emails(q)' > 0
  <2> SUFFICES ASSUME NEW q \in Requests, Emails(q) > 0 PROVE Emails(q)' > 0
    OBVIOUS
  <2>1. /\ posts[q]["gmail"] \in Nat /\ posts[q]["mailroom"] \in Nat
        /\ posts'[q]["mailroom"] = posts[q]["mailroom"]
        /\ (posts'[q]["gmail"] = posts[q]["gmail"] \/ posts'[q]["gmail"] = posts[q]["gmail"] + 1)
    BY <1>2, <1>3
  <2> QED
    BY <2>1 DEF Emails
<1> QED
  BY <1>1, <1>6, <1>7, <1>8, <1>9, <1>11, <1>12, OutsideKeepsIInv

\* Claims age, holds lapse, a dead sender's lock expires, others come before the
\* candidate: nothing becomes open.
LEMMA TimeKeepsIInv ==
  ASSUME IInv, LockExpires \/ Crowd \/ \E r \in Requests : ClaimAges(r) \/ HoldLapses(r)
  PROVE  IInv'
<1>1. UNCHANGED <<sender, matched, room, flying, posts, excused>> /\ passed' \in BOOLEAN
  <2>1. UNCHANGED passed \/ passed' = ~passed
    BY DEF LockExpires, Crowd, ClaimAges, HoldLapses, world
  <2>2. passed' \in BOOLEAN
    BY <2>1, Types DEF IInv
  <2> QED
    BY <2>2 DEF LockExpires, Crowd, ClaimAges, HoldLapses, store, world, mail
<1>2. /\ out \in [Requests -> Records] /\ lock' \in Senders \cup {Nobody, Gone}
      /\ \A s \in Senders : sender'[s].pc = "idle" <=> lock' /= s
  <2>1. lock' = lock \/ (lock = Gone /\ lock' = Nobody)
    BY DEF LockExpires, Crowd, ClaimAges, HoldLapses
  <2>2. \A s \in Senders : s /= Gone /\ s /= Nobody
    BY SendersAssumption
  <2> QED
    BY <1>1, <2>1, <2>2, Types DEF IInv
<1>3. /\ out' \in [Requests -> Records]
      /\ \A q \in Requests : /\ out'[q].status = out[q].status /\ out'[q].transport = out[q].transport
                             /\ Open(out'[q]) => Open(out[q])
  <2>1. CASE LockExpires \/ Crowd
    BY <1>2, <2>1 DEF LockExpires, Crowd, store
  <2>2. ASSUME NEW r \in Requests, ClaimAges(r) \/ HoldLapses(r),
               NEW record \in Records, out' = [out EXCEPT ![r] = record],
               record.status = out[r].status, record.transport = out[r].transport,
               Open(record) => Open(out[r])
        PROVE  /\ out' \in [Requests -> Records]
               /\ \A q \in Requests : /\ out'[q].status = out[q].status
                                      /\ out'[q].transport = out[q].transport
                                      /\ Open(out'[q]) => Open(out[q])
    BY <1>2, <2>2
  <2>3. ASSUME NEW r \in Requests, ClaimAges(r)
        PROVE  \E record \in Records :
                 /\ out' = [out EXCEPT ![r] = record] /\ record.status = out[r].status
                 /\ record.transport = out[r].transport /\ (Open(record) => Open(out[r]))
    <3> DEFINE record == [out[r] EXCEPT !.claimAge = "old"]
    <3>1. out' = [out EXCEPT ![r] = record] /\ out[r].claimAge = "new"
      BY <1>2, <2>3 DEF ClaimAges
    <3>2. out[r] \in Records
      BY <1>2
    <3>3. /\ record \in Records /\ record.status = out[r].status
          /\ record.transport = out[r].transport /\ record.claimAge = "old"
          /\ record.queueAge = out[r].queueAge
      BY <3>2 DEF Records, Ages
    <3>4. Open(record) => Open(out[r])
      BY <3>1, <3>3 DEF Open
    <3> QED
      BY <3>1, <3>3, <3>4
  <2>4. ASSUME NEW r \in Requests, HoldLapses(r)
        PROVE  \E record \in Records :
                 /\ out' = [out EXCEPT ![r] = record] /\ record.status = out[r].status
                 /\ record.transport = out[r].transport /\ (Open(record) => Open(out[r]))
    <3> DEFINE record == IF out[r].queueAge = "new" THEN [out[r] EXCEPT !.queueAge = "lapsed"]
                         ELSE [out[r] EXCEPT !.claimAge = "lapsed"]
    <3>1. out' = [out EXCEPT ![r] = record] /\ Open(out[r])
      BY <1>2, <2>4 DEF HoldLapses
    <3>2. out[r] \in Records
      BY <1>2
    <3>3. record \in Records /\ record.status = out[r].status /\ record.transport = out[r].transport
      BY <3>2 DEF Records, Ages
    <3> QED
      BY <3>1, <3>3
  <2> QED
    BY <2>1, <2>2, <2>3, <2>4
<1>4. TypeOK'
  BY <1>1, <1>2, <1>3, Types, TypesNext DEF IInv
<1>5. \A q \in Requests : /\ NotInMailroom(q)' <=> NotInMailroom(q)
                          /\ NotInGmail(q)' <=> NotInGmail(q)
                          /\ Emails(q)' = Emails(q)
  BY <1>1 DEF NotInMailroom, NotInGmail, Emails
<1>6. RowsTell' /\ ClaimsNameChannel'
  BY <1>1, <1>3 DEF IInv, RowsTell, ClaimsNameChannel
<1>7. OneChannel'
  BY <1>1, <1>3, <1>5 DEF IInv, OneChannel
<1>8. \A q \in Requests : PriorMailroom(out'[q]) <=> PriorMailroom(out[q])
  BY <1>3 DEF PriorMailroom
<1> QED
  BY <1>1, <1>3, <1>4, <1>5, <1>6, <1>7, <1>8, OutsideKeepsIInv
-----------------------------------------------------------------------------
(* The results *)

\* Every step keeps the invariant.
LEMMA NextKeepsIInv == IInv /\ [Next]_vars => IInv'
<1> SUFFICES ASSUME IInv, [Next]_vars PROVE IInv'
  OBVIOUS
<1>1. CASE UNCHANGED vars
  <2>1. UNCHANGED <<out, matched, lock, sender, room, flying, posts, excused, passed>>
    BY <1>1 DEF vars
  <2>2. TypeOK'
    BY <2>1, Types, TypesNext DEF IInv
  <2>3. RowsTell' /\ ClaimsNameChannel' /\ OneChannel'
    BY <2>1 DEF IInv, RowsTell, ClaimsNameChannel, OneChannel, NotInMailroom, NotInGmail
  <2>4. \A q \in Requests : /\ NotInMailroom(q)' <=> NotInMailroom(q)
                            /\ NotInGmail(q)' <=> NotInGmail(q)
                            /\ Emails(q)' = Emails(q)
    BY <2>1 DEF NotInMailroom, NotInGmail, Emails
  <2> QED
    BY <2>1, <2>2, <2>3, <2>4, OutsideKeepsIInv
<1>2. ASSUME NEW s \in Senders, NEW r \in Requests, Start(s, r) \/ Reconcile(s, r) PROVE IInv'
  BY <1>2, StartKeepsIInv
<1>3. ASSUME NEW s \in Senders, SenderStep(s) \/ Crash(s) PROVE IInv'
  BY <1>3, GiveUpKeepsIInv, ReadLaneKeepsIInv, AskUnclaimedKeepsIInv, UnclaimKeepsIInv,
     ClaimKeepsIInv, AskStatusKeepsIInv, EnqueueKeepsIInv, CheckRowKeepsIInv, ReleaseKeepsIInv,
     PollKeepsIInv, SearchKeepsIInv, PostGmailKeepsIInv, DeliverKeepsIInv, ParkKeepsIInv
     DEF SenderStep
<1>4. ASSUME NEW r \in Requests, Dispatch(r) PROVE IInv'
  BY <1>4, DispatchKeepsIInv
<1>5. ASSUME NEW r \in Requests, NEW c \in Channels, Land(r, c) PROVE IInv'
  BY <1>5, LandKeepsIInv
<1> QED
  BY <1>1, <1>2, <1>3, <1>4, <1>5, TimeKeepsIInv DEF Next

\* A claim names the channel its e-mail takes, and the other has seen nothing of it.
THEOREM Invariant == Spec => []IInv
BY InitIInv, NextKeepsIInv, PTL DEF Spec

\* Records and senders have their types, only the holder of the lock is at work,
\* and the Mailroom sends one e-mail about a request.
THEOREM TypeCorrect == Spec => []TypeOK
<1>1. IInv => TypeOK
  BY DEF IInv
<1> QED
  BY <1>1, Invariant, PTL

\* One e-mail about a request, for any number of requests and senders, unless a
\* claim was released while a hand-off of it was on its way (processMatchRequest).
THEOREM EmailedOnce == Spec => []EmailedOnceUnlessReleased
<1>1. IInv => EmailedOnceUnlessReleased
  <2> SUFFICES ASSUME IInv, NEW r \in Requests \ excused PROVE Emails(r) <= 1
    BY DEF EmailedOnceUnlessReleased
  <2>1. /\ posts[r]["gmail"] \in Nat /\ posts[r]["mailroom"] \in Nat /\ posts[r]["mailroom"] <= 1
        /\ out[r] \in Records /\ posts[r]["gmail"] <= 1
    BY Types DEF IInv, OneChannel
  <2>2. CASE NotInGmail(r)
    BY <2>1, <2>2 DEF NotInGmail, Emails
  <2>3. CASE NotInMailroom(r)
    <3>1. posts[r]["mailroom"] = 0
      BY <2>3 DEF IInv, RowsTell, NotInMailroom
    <3> QED
      BY <2>1, <3>1 DEF Emails
  <2>4. NotInGmail(r) \/ NotInMailroom(r)
    BY <2>1 DEF IInv, OneChannel, Records, Channels
  <2> QED
    BY <2>2, <2>3, <2>4
<1> QED
  BY <1>1, Invariant, PTL

\* Nothing is recorded as sent that did not leave (planDeliveredMatch).
THEOREM RecordedWasSent == Spec => []RecordedIsSent
<1>1. IInv => RecordedIsSent
  BY DEF IInv
<1> QED
  BY <1>1, Invariant, PTL

\* Two requests of a candidate never have an open Mailroom send at the same time
\* (openMailroomMatch).
THEOREM OneSendIsOpen == Spec => []OneOpenSend
<1>1. IInv => OneOpenSend
  BY DEF IInv
<1> QED
  BY <1>1, Invariant, PTL
=============================================================================
