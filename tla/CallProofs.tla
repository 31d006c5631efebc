----------------------------- MODULE CallProofs -----------------------------
(***************************************************************************)
(* Calls: proof that both legs of a call agree, and that only a line in a  *)
(* call is charged for, on a board without trunk faults where no line      *)
(* begins a call before its last is over.                                  *)
(***************************************************************************)
EXTENDS LegProofs

\* The kind of call of a line that has none.
NoCall == ""

Msg(d, e) == [line |-> d, ev |-> e]

\* m stands somewhere before n.
Precedes(s, m, n) == \E i, j \in DOMAIN s : i < j /\ s[i] = m /\ s[j] = n

\* In the queue an event a of line d stands before its event b.
Ahead(d, a, b) == Precedes(queue, Msg(d, a), Msg(d, b))

\* The connection of line d ends before the line is next made to ring.
Ends(d) == {m \in Msgs : m.line = d /\ m.ev \in FeeEnds}
EndsFirst(d) == Sooner(queue, Ends(d), Msg(d, "RINGING"))

-----------------------------------------------------------------------------
(* The invariant of a line *)

LoggingIn(x) == sock[x] \in {"connecting", "login"}
Busy(x)      == "busy" \in ch[x].reserved
CallLegs     == {"FwdPlay", "RcvLvTel", "RcvUlTel", "RcvTalk"}
OnCall       == {"talking", "pending"}
FeeQueued(x) == \E e \in FeeEnds : Queued(x, e)

\* No trunk fault; and what the object's class, state and kind of call say of each other.
Sound(x) ==
  /\ board[x] # "down" /\ ~Queued(x, "UNAVAIL") /\ ~Queued(x, "RESET")
  /\ ch[x].st \notin {"bkFree", "ResetPcm"}
  /\ ch[x].st = "bkIdle" => ch[x].timer = "off"
  /\ ch[x].cls = "dialer" => ch[x].kind = "CAHK"
  /\ sock[x] = "login" /\ asked[x] = "CAHK" => ch[x].kind = "CAHK"
  /\ ch[x].st = "seiConfm" => ch[x].cls = "base" /\ ch[x].kind # "CAHK" /\ board[x] # "picked"
  /\ ch[x].st \in Releasing => sock[x] = "none"
  /\ ch[x].st = "WaitDial" => ch[x].cls # "base"
  /\ ch[x].st = "FeeLogin" /\ ch[x].cls = "base" => Busy(x)
  /\ ch[x].st = "rcvMFsig" => ~LoggingIn(x)

\* A dialled leg is off hook until it is released.  A caller's leg has a link only in
\* RcvTalk, and any other linked leg is a dialled one.
Linking(x) ==
  /\ ch[x].kind = "CAHK" /\ ch[x].st \notin Releasing =>
       board[x] \in OffHookStates /\ ~Queued(x, "STANDBY") /\ ~Queued(x, "RINGING")
  /\ ch[x].cls = "talk" /\ ch[x].task # None => ch[x].st = "RcvTalk"
  /\ ch[x].cls # "talk" /\ ch[x].task # None => ch[x].kind = "CAHK" /\ ch[x].st \notin Releasing
  /\ ch[x].kind = "CAHK" /\ ch[x].st \notin Releasing /\ ch[x].task = None => Queued(x, "PENDING")

\* While a STANDBY waits the line is on hook, or picked up by mistake for a call that is
\* over; nothing of a next call is behind it.
Closing(x) ==
  /\ Queued(x, "STANDBY") => board[x] \in {"standby", "picked"}
  /\ \A e \in {"RINGING", "TALKING", "#", "*", "PENDING", "RxPhoNum"} : ~Ahead(x, "STANDBY", e)
  /\ Queued(x, "STANDBY") /\ board[x] = "picked" => ch[x].st = "rcvMFsig"
  /\ ch[x].st \notin Releasing /\ (ch[x].st = "rcvMFsig" \/ Queued(x, "RINGING"))
       => ~Ahead(x, "STANDBY", "STANDBY")

\* A line that talks is not on hook, and one that is charged for talks.
InCall(x) ==
  /\ ch[x].st \notin Releasing /\ Queued(x, "TALKING") => board[x] \in OnCall
  /\ ch[x].st \in CallLegs => board[x] \in OnCall
  /\ sock[x] = "talk" => ch[x].st \in CallLegs \/ (ch[x].st = "ExitPlay" /\ board[x] \in OnCall)

\* A call that comes in finds nothing of an answered one.
Coming(x) ==
  /\ board[x] = "incoming" =>
       /\ ch[x].st \in {"bkIdle", "seiConfm", "FeeLogin"} /\ ~playing[x]
       /\ \A e \in {"PlayEnd", "#", "*", "TALKING", "RINGING", "PICKUPED"} : ~Queued(x, e)
       /\ LoggingIn(x) => ~FeeQueued(x) /\ ~Queued(x, "FeeConn")
       /\ ~Ahead(x, "FeeConn", "FeeConn")
  /\ board[x] = "ringing" => ch[x].st \in {"FeeLogin", "ExitPlay"}
  /\ Queued(x, "RxPhoNum") => ch[x].st = "bkIdle"
  /\ \A e \in Events : ~Ahead(x, e, "RxPhoNum")
  /\ ch[x].st = "seiConfm"
     \/ (ch[x].st = "bkIdle" /\ (Queued(x, "PENDING") \/ Queued(x, "RxPhoNum")))
       => sock[x] = "none" /\ ~FeeQueued(x) /\ ~Queued(x, "FeeConn")

\* What may still come for a line that logs in, or may have to do so again.
Login(x) ==
  /\ ch[x].st = "FeeLogin" /\ ~Busy(x) /\ sock[x] = "none" => FeeQueued(x)
  /\ ch[x].st \in {"bkIdle", "seiConfm"} => ~Queued(x, "RINGING")
  /\ ch[x].cls # "dialer" /\ (ch[x].st \in {"bkIdle", "seiConfm", "FeeLogin"} \/ LoggingIn(x))
       => ~Queued(x, "TALKING") /\ board[x] \notin {"talking", "dialing"}
  /\ ch[x].cls = "base" /\ LoggingIn(x) =>
       /\ ~Queued(x, "RINGING")
       /\ ch[x].kind # NoCall => ch[x].st # "ExitPlay" /\ ~FeeQueued(x)
  /\ (ch[x].st = "FeeLogin" /\ ~Busy(x)) \/ (ch[x].cls = "talk" /\ LoggingIn(x)) =>
       \A e \in {"FeeConn", "PlayEnd", "#", "*", "TALKING", "PICKUPED", "RxPhoNum"} :
         ~Ahead(x, e, "RINGING")
  /\ ch[x].cls # "base" /\ LoggingIn(x) => board[x] # "picked"
  /\ ch[x].cls = "talk" /\ LoggingIn(x) =>
       ch[x].st = "ExitPlay" \/ (ch[x].st = "FeeLogin" /\ EndsFirst(x))

\* A line that was picked up to dial, or by mistake.
Picked(x) ==
  /\ board[x] = "picked" =>
       /\ ch[x].st = "bkIdle" => ~LoggingIn(x)
       /\ ch[x].st = "bkIdle" /\ ch[x].kind = NoCall => ~Queued(x, "PENDING") /\ ~Queued(x, "RxPhoNum")
       /\ ch[x].kind = NoCall /\ sock[x] = "login" => asked[x] = NoCall
       /\ ch[x].kind = NoCall /\ ch[x].st = "FeeLogin" => ch[x].cls = "base"
       /\ ch[x].kind # NoCall /\ ch[x].st = "FeeLogin" =>
            ~playing[x] /\ \A e \in {"PlayEnd", "#", "*", "PICKUPED"} : ~Queued(x, e)
  /\ ch[x].st = "bkIdle" /\ (ch[x].kind # NoCall \/ ch[x].task # None) =>
       /\ board[x] = "picked" /\ sock[x] = "none" /\ ~playing[x]
       /\ Queued(x, "PICKUPED")
       /\ \A e \in Events : ~Ahead(x, e, "PICKUPED")
       /\ \A e \in Events : Queued(x, e) => e \in {"PICKUPED", "PENDING"}

\* A line that logs in without a connection and a timer has an event to come; the one that
\* was picked up has not, and logs in when it is told so.
Guarded(x) ==
  /\ ch[x].st = "seiConfm" => ~Busy(x)
  /\ ch[x].st = "FeeLogin" /\ sock[x] = "none" =>
       /\ Queued(x, "FeeConn") => FeeQueued(x)
       /\ ch[x].timer = "off" => FeeQueued(x) \/ Queued(x, "TIMEOUT")
  /\ Queued(x, "PICKUPED") =>
       /\ ch[x].st \notin {"seiConfm", "FeeLogin", "WaitDial"} /\ ~LoggingIn(x)
       /\ ~Ahead(x, "PICKUPED", "FeeConn") /\ ~Ahead(x, "PICKUPED", "PICKUPED")
  /\ ch[x].st = "rcvMFsig" => board[x] # "standby"
  /\ ch[x].st = "bkIdle" =>
       ~Ahead(x, "PENDING", "PICKUPED") /\ ~Ahead(x, "RxPhoNum", "PICKUPED")

LineInv(x) == /\ Sound(x) /\ Linking(x) /\ Closing(x) /\ InCall(x)
              /\ Coming(x) /\ Login(x) /\ Picked(x) /\ Guarded(x)

\* A dialled leg belongs to a caller's leg that waits or talks.
Paired(x) ==
  LET p == ch[x].task IN
  ch[x].kind = "CAHK" /\ ch[x].st \notin Releasing /\ p # None =>
    ch[p].cls = "talk" /\ ch[p].st = "RcvTalk"
Mutual(x) ==
  LET p == ch[x].task IN
  p # None => /\ p # x /\ ch[p].task = x
              /\ ch[x].cls = "talk" <=> ch[p].cls # "talk"

CallInv == /\ LegInv
           /\ stalePick => overlap
           /\ Faults = 0 => budget.faults = 0
           /\ Faults = 0 /\ ~overlap => \A x \in Lines : LineInv(x) /\ Paired(x) /\ Mutual(x)

-----------------------------------------------------------------------------
(* The event queue *)

\* What stands in an order in s \o t does so in s or in t, or lies across the two.
LEMMA PrecedesConcat ==
  ASSUME NEW s \in Seq(Msgs), NEW t \in Seq(Msgs), NEW m, NEW n, Precedes(s \o t, m, n)
  PROVE  Precedes(s, m, n) \/ (Has(s, m) /\ Has(t, n)) \/ Precedes(t, m, n)
<1>1. PICK i \in DOMAIN (s \o t), j \in DOMAIN (s \o t) :
        i < j /\ (s \o t)[i] = m /\ (s \o t)[j] = n
  BY DEF Precedes
<1>2. CASE j <= Len(s)
  <2>1. i \in DOMAIN s /\ j \in DOMAIN s /\ s[i] = m /\ s[j] = n
    BY <1>1, <1>2
  <2> QED BY <1>1, <2>1 DEF Precedes
<1>3. CASE j > Len(s)
  <2>1. j - Len(s) \in DOMAIN t /\ t[j - Len(s)] = n
    BY <1>1, <1>3
  <2>2. CASE i <= Len(s)
    <3>1. i \in DOMAIN s /\ s[i] = m
      BY <1>1, <2>2
    <3> QED BY <2>1, <3>1 DEF Has
  <2>3. CASE i > Len(s)
    <3>1. i - Len(s) \in DOMAIN t /\ t[i - Len(s)] = m /\ i - Len(s) < j - Len(s)
      BY <1>1, <2>3
    <3> QED BY <2>1, <3>1 DEF Precedes
  <2> QED BY <2>2, <2>3
<1> QED BY <1>2, <1>3

\* What the tail orders, the queue orders.
LEMMA PrecedesTail ==
  ASSUME NEW s \in Seq(Msgs), s # <<>>, NEW m, NEW n, Precedes(Tail(s), m, n)
  PROVE  Precedes(s, m, n)
<1>1. PICK i \in DOMAIN Tail(s), j \in DOMAIN Tail(s) :
        i < j /\ Tail(s)[i] = m /\ Tail(s)[j] = n
  BY DEF Precedes
<1>2. /\ i + 1 \in DOMAIN s /\ s[i + 1] = m
      /\ j + 1 \in DOMAIN s /\ s[j + 1] = n /\ i + 1 < j + 1
  BY <1>1
<1> QED BY <1>2 DEF Precedes

\* What is ordered is there.
LEMMA PrecedesHas ==
  ASSUME NEW s, NEW m, NEW n, Precedes(s, m, n)
  PROVE  Has(s, m) /\ Has(s, n)
BY DEF Precedes, Has

\* Channel's Queued, in terms of messages.
LEMMA QueuedHas == \A d, e : Queued(d, e) <=> Has(queue, Msg(d, e))
BY DEF Queued, Has, Msg

\* Two events of a line of which one is ahead of the other are both queued.
LEMMA AheadQueued == \A d, f, g : Ahead(d, f, g) => Queued(d, f) /\ Queued(d, g)
BY PrecedesHas, QueuedHas DEF Ahead

\* What is left after a poll was behind what was polled, and the other way round.
LEMMA HeadPrecedes ==
  ASSUME NEW s \in Seq(Msgs), s # <<>>, NEW n
  PROVE  Has(Tail(s), n) <=> Precedes(s, Head(s), n)
<1>1. ASSUME Has(Tail(s), n) PROVE Precedes(s, Head(s), n)
  <2>1. PICK i \in DOMAIN Tail(s) : Tail(s)[i] = n
    BY <1>1 DEF Has
  <2>2. 1 \in DOMAIN s /\ s[1] = Head(s) /\ i + 1 \in DOMAIN s /\ s[i + 1] = n /\ 1 < i + 1
    BY <2>1
  <2> QED BY <2>2 DEF Precedes
<1>2. ASSUME Precedes(s, Head(s), n) PROVE Has(Tail(s), n)
  <2>1. PICK i \in DOMAIN s, j \in DOMAIN s : i < j /\ s[i] = Head(s) /\ s[j] = n
    BY <1>2 DEF Precedes
  <2>2. j - 1 \in DOMAIN Tail(s) /\ Tail(s)[j - 1] = n
    BY <2>1
  <2> QED BY <2>2 DEF Has
<1> QED BY <1>1, <1>2

\* A message that is in the queue is polled next, or stays.
LEMMA HeadOrTail ==
  ASSUME NEW s \in Seq(Msgs), s # <<>>, NEW m
  PROVE  Has(s, m) <=> m = Head(s) \/ Has(Tail(s), m)
<1>1. 1 \in DOMAIN s /\ s[1] = Head(s)
  OBVIOUS
<1>2. Has(s, Head(s))
  BY <1>1 DEF Has
<1> QED BY <1>2, HasTail, TailHas

\* An m that is there with no n is before any n.
LEMMA SoonerAlone ==
  ASSUME NEW s \in Seq(Msgs), NEW A, NEW m \in A, NEW n, Has(s, m), ~Has(s, n)
  PROVE  Sooner(s, A, n)
<1>1. PICK j \in DOMAIN s : s[j] = m
  BY DEF Has
<1>2. \A i \in 1 .. j - 1 : i \in DOMAIN s
  BY <1>1
<1> QED BY <1>1, <1>2 DEF Sooner, Has

-----------------------------------------------------------------------------
(* A step as one line sees it in the queue.  An event that is not posted is   *)
(* called "none".                                                             *)

Sent(d, e) == PostIf(e # "none", d, e)

\* t holds the events a and b of line x, in this order, and no other of this line.
Brings(t, x, a, b) ==
  /\ t \in Seq(Msgs)
  /\ \A f : Has(t, Msg(x, f)) <=> (f = a \/ f = b) /\ f # "none"
  /\ \A f, g : Precedes(t, Msg(x, f), Msg(x, g)) => f = a /\ g = b /\ a # "none" /\ b # "none"

\* Nothing of the line is polled, and it gets a and b.
Gets(x, a, b) ==
  /\ \A f : Queued(x, f)' <=> Queued(x, f) \/ ((f = a \/ f = b) /\ f # "none")
  /\ \A f, g : Ahead(x, f, g)' =>
       \/ Ahead(x, f, g)
       \/ Queued(x, f) /\ (g = a \/ g = b) /\ g # "none"
       \/ f = a /\ g = b /\ a # "none" /\ b # "none"
  /\ EndsFirst(x) => EndsFirst(x)'

\* The event e of the line is polled, and it gets a and b.
Polls(x, e, a, b) ==
  /\ \A f : Queued(x, f) <=> f = e \/ Ahead(x, e, f)
  /\ \A f : Queued(x, f)' <=> Ahead(x, e, f) \/ ((f = a \/ f = b) /\ f # "none")
  /\ \A f, g : Ahead(x, f, g)' =>
       \/ Ahead(x, f, g) /\ Ahead(x, e, f) /\ Ahead(x, e, g)
       \/ Ahead(x, e, f) /\ (g = a \/ g = b) /\ g # "none"
       \/ f = a /\ g = b /\ a # "none" /\ b # "none"
  /\ EndsFirst(x) => e # "RINGING" /\ (e \in FeeEnds \/ EndsFirst(x)')
  /\ (\E f \in FeeEnds : Ahead(x, e, f)) /\ ~Ahead(x, e, "RINGING") => EndsFirst(x)'

\* QueuedHas, of the next state.
LEMMA QueuedHasNext == \A d, e : Queued(d, e)' <=> Has(queue', Msg(d, e))
BY DEF Queued, Has, Msg

\* A step that polls nothing of line x and posts t, as line x sees it.
LEMMA GetsView ==
  ASSUME TypeOK, NEW x, NEW a, NEW b, NEW q, Left(q),
         q = queue \/ Head(queue).line # x,
         NEW t, Brings(t, x, a, b), queue' = q \o t
  PROVE  Gets(x, a, b)
<1>1. queue \in Seq(Msgs) /\ q \in Seq(Msgs) /\ t \in Seq(Msgs)
  BY LeftTyped DEF Brings
<1>2. ASSUME NEW f PROVE Has(q, Msg(x, f)) <=> Has(queue, Msg(x, f))
  <2>1. CASE q = queue
    BY <2>1
  <2>2. CASE q # queue
    <3>1. queue # <<>> /\ q = Tail(queue) /\ Head(queue).line # x
      BY <2>2 DEF Left
    <3>2. Head(queue) # Msg(x, f)
      BY <3>1 DEF Msg
    <3> QED BY <1>1, <3>1, <3>2, HeadOrTail
  <2> QED BY <2>1, <2>2
<1>3. ASSUME NEW f, NEW g, Precedes(q, Msg(x, f), Msg(x, g)) PROVE Ahead(x, f, g)
  BY <1>1, <1>3, PrecedesTail DEF Left, Ahead
<1>4. \A f : Queued(x, f)' <=> Queued(x, f) \/ ((f = a \/ f = b) /\ f # "none")
  <2> SUFFICES ASSUME NEW f
               PROVE  Has(queue', Msg(x, f)) <=> Has(queue, Msg(x, f)) \/ Has(t, Msg(x, f))
    BY QueuedHas, QueuedHasNext DEF Brings
  <2> QED BY <1>1, <1>2, HasConcat, HasAdded, HasSplit
<1>5. ASSUME NEW f, NEW g, Ahead(x, f, g)'
      PROVE  \/ Ahead(x, f, g)
             \/ Queued(x, f) /\ (g = a \/ g = b) /\ g # "none"
             \/ f = a /\ g = b /\ a # "none" /\ b # "none"
  <2>1. Precedes(q \o t, Msg(x, f), Msg(x, g))
    BY <1>5 DEF Ahead, Msg
  <2>2. \/ Precedes(q, Msg(x, f), Msg(x, g))
        \/ Has(q, Msg(x, f)) /\ Has(t, Msg(x, g))
        \/ Precedes(t, Msg(x, f), Msg(x, g))
    BY <1>1, <2>1, PrecedesConcat
  <2> QED BY <1>2, <1>3, <2>2, QueuedHas DEF Brings
<1>6. ASSUME EndsFirst(x) PROVE EndsFirst(x)'
  <2>1. Sooner(queue, Ends(x), Msg(x, "RINGING"))
    BY <1>6 DEF EndsFirst
  <2>2. Sooner(q, Ends(x), Msg(x, "RINGING"))
    <3>1. CASE q = queue
      BY <2>1, <3>1
    <3>2. CASE q # queue
      <4>1. queue # <<>> /\ q = Tail(queue) /\ Head(queue) \notin Ends(x)
        BY <3>2 DEF Left, Ends
      <4> QED BY <1>1, <2>1, <4>1, SoonerTail
    <3> QED BY <3>1, <3>2
  <2>3. Sooner(q \o t, Ends(x), Msg(x, "RINGING"))
    BY <1>1, <2>2, SoonerConcat
  <2> QED BY <2>3 DEF EndsFirst, Ends, Msg
<1> QED BY <1>4, <1>5, <1>6 DEF Gets

\* A step that polls the event e of line x and posts t, as line x sees it.
LEMMA PollsView ==
  ASSUME TypeOK, queue # <<>>, NEW x \in Lines, NEW e, Head(queue) = Msg(x, e),
         NEW a, NEW b, NEW t, Brings(t, x, a, b), queue' = Tail(queue) \o t
  PROVE  Polls(x, e, a, b)
<1> DEFINE q == Tail(queue)
<1>1. queue \in Seq(Msgs) /\ q \in Seq(Msgs) /\ t \in Seq(Msgs) /\ queue' = q \o t
  <2>1. queue \in Seq(Msgs) /\ t \in Seq(Msgs)
    BY Typed DEF Brings
  <2> QED BY <2>1
<1>2. \A f : Has(q, Msg(x, f)) <=> Ahead(x, e, f)
  BY <1>1, HeadPrecedes DEF Ahead
<1>3. \A f : Queued(x, f) <=> f = e \/ Ahead(x, e, f)
  <2> SUFFICES ASSUME NEW f PROVE Has(queue, Msg(x, f)) <=> f = e \/ Has(q, Msg(x, f))
    BY <1>2, QueuedHas
  <2>1. Msg(x, f) = Msg(x, e) <=> f = e
    BY DEF Msg
  <2> QED BY <1>1, <2>1, HeadOrTail
<1> HIDE DEF q
<1>4. \A f : Queued(x, f)' <=> Ahead(x, e, f) \/ ((f = a \/ f = b) /\ f # "none")
  <2> SUFFICES ASSUME NEW f
               PROVE  Has(queue', Msg(x, f)) <=> Has(q, Msg(x, f)) \/ Has(t, Msg(x, f))
    BY <1>2, QueuedHasNext DEF Brings
  <2> QED BY <1>1, HasConcat, HasAdded, HasSplit
<1>5. ASSUME NEW f, NEW g, Ahead(x, f, g)'
      PROVE  \/ Ahead(x, f, g) /\ Ahead(x, e, f) /\ Ahead(x, e, g)
             \/ Ahead(x, e, f) /\ (g = a \/ g = b) /\ g # "none"
             \/ f = a /\ g = b /\ a # "none" /\ b # "none"
  <2>1. Precedes(q \o t, Msg(x, f), Msg(x, g))
    BY <1>1, <1>5 DEF Ahead, Msg
  <2>2. \/ Precedes(q, Msg(x, f), Msg(x, g))
        \/ Has(q, Msg(x, f)) /\ Has(t, Msg(x, g))
        \/ Precedes(t, Msg(x, f), Msg(x, g))
    BY <1>1, <2>1, PrecedesConcat
  <2>3. CASE Precedes(q, Msg(x, f), Msg(x, g))
    <3>1. Has(q, Msg(x, f)) /\ Has(q, Msg(x, g))
      BY <2>3, PrecedesHas
    <3>2. Ahead(x, f, g)
      BY <1>1, <2>3, PrecedesTail DEF Ahead, q
    <3> QED BY <1>2, <3>1, <3>2
  <2>4. CASE Has(q, Msg(x, f)) /\ Has(t, Msg(x, g))
    BY <1>2, <2>4 DEF Brings
  <2>5. CASE Precedes(t, Msg(x, f), Msg(x, g))
    BY <2>5 DEF Brings
  <2> QED BY <2>2, <2>3, <2>4, <2>5
<1>6. ASSUME Sooner(q, Ends(x), Msg(x, "RINGING")) PROVE EndsFirst(x)'
  <2>1. Sooner(q \o t, Ends(x), Msg(x, "RINGING"))
    BY <1>1, <1>6, SoonerConcat
  <2> QED BY <1>1, <2>1 DEF EndsFirst, Ends, Msg
<1>7. ASSUME EndsFirst(x) PROVE e # "RINGING" /\ (e \in FeeEnds \/ EndsFirst(x)')
  <2>1. Sooner(queue, Ends(x), Msg(x, "RINGING"))
    BY <1>7 DEF EndsFirst
  <2>2. CASE e \in FeeEnds
    BY <2>2 DEF FeeEnds
  <2>3. CASE e \notin FeeEnds
    <3>1. Head(queue) \notin Ends(x)
      BY <2>3 DEF Ends, Msg
    <3>2. Sooner(q, Ends(x), Msg(x, "RINGING")) /\ Head(queue) # Msg(x, "RINGING")
      BY <1>1, <2>1, <3>1, SoonerTail DEF q
    <3> QED BY <1>6, <3>2
  <2> QED BY <2>2, <2>3
<1>8. ASSUME NEW f \in FeeEnds, Ahead(x, e, f), ~Ahead(x, e, "RINGING")
      PROVE  EndsFirst(x)'
  <2>1. Has(q, Msg(x, f)) /\ ~Has(q, Msg(x, "RINGING"))
    BY <1>2, <1>8
  <2>2. Msg(x, f) \in Ends(x)
    BY DEF Ends, Msg, Msgs, Events
  <2> QED BY <1>1, <1>6, <2>1, <2>2, SoonerAlone
<1> QED BY <1>3, <1>4, <1>5, <1>7, <1>8 DEF Polls

-----------------------------------------------------------------------------
(* A line is released *)

\* HangUp puts the line on hook; if it was not, a STANDBY will come.
LEMMA HangsLine ==
  ASSUME NEW c \in Lines, LineInv(c), NEW e \in Events, NEW a \in {"none", "FeeDisc"}, NEW b,
         b = IF board[c] = "standby" THEN "none" ELSE "STANDBY",
         ch'[c].cls = ch[c].cls, ch'[c].kind = ch[c].kind, ch'[c].st = "bkOffHk",
         ch'[c].task = None, sock'[c] = "none", board'[c] = "standby",
         Polls(c, e, a, b)
  PROVE  LineInv(c)'
<1>1. Sound(c)'
  BY SMTT(30) DEF LineInv, Sound, Polls, Releasing, LoggingIn, Busy
<1>2. Linking(c)'
  BY DEF LineInv, Linking, Releasing
<1>3. Closing(c)'
  BY DEF LineInv, Closing, Coming, Polls, Releasing
<1>4. InCall(c)'
  BY DEF InCall, Releasing, CallLegs
<1>5. Coming(c)'
  <2>1. ~Queued(c, "RxPhoNum")'
    BY DEF LineInv, Coming, Polls
  <2>2. \A f \in Events : ~Ahead(c, f, "RxPhoNum")'
    BY DEF LineInv, Coming, Polls
  <2> QED BY <2>1, <2>2 DEF Coming
<1>6. Login(c)'
  BY DEF Login, LoggingIn
<1>7. Picked(c)'
  BY DEF Picked
<1>8. Guarded(c)'
  BY DEF LineInv, Guarded, Polls, LoggingIn
<1> QED BY <1>1, <1>2, <1>3, <1>4, <1>5, <1>6, <1>7, <1>8 DEF LineInv

\* No kind of call is no kind.
LEMMA NoCallKind == NoCall \notin {"CATK", "CAHK", "CABK"}
BY Zenon DEF NoCall

\* A new object takes the line's place.
LEMMA IdlesLine ==
  ASSUME NEW c \in Lines, LineInv(c), NEW e \in Events,
         e = "STANDBY" \/ (ch[c].st = "bkIdle" /\ e \notin {"PENDING", "RxPhoNum", "PICKUPED"}),
         ch[c].st = "bkIdle" => ch[c].cls = "base",
         ch'[c].cls = "base", ch'[c].kind = NoCall, ch'[c].st = "bkIdle",
         ch'[c].task = None, ch'[c].timer = "off",
         sock'[c] = sock[c], asked'[c] = asked[c], board'[c] = board[c], playing'[c] = playing[c],
         Polls(c, e, "none", "none")
  PROVE  LineInv(c)'
<1>1. Sound(c)'
  BY DEF LineInv, Sound, Linking, Picked, Polls, Releasing
<1>2. Linking(c)'
  BY NoCallKind DEF Linking
<1>3. Closing(c)'
  BY DEF LineInv, Closing, Polls, Releasing
<1>4. InCall(c)'
  BY DEF LineInv, Closing, InCall, Polls, CallLegs, OnCall
<1>5. Coming(c)'
  BY DEF LineInv, Closing, Coming, Polls, LoggingIn, FeeQueued
<1>6. Login(c)'
  BY DEF LineInv, Closing, Login, Polls
<1>7. Picked(c)'
  BY DEF LineInv, Sound, Closing, Picked, Polls, LoggingIn
<1>8. Guarded(c)'
  BY DEF LineInv, Closing, Guarded, Polls, LoggingIn
<1> QED BY <1>1, <1>2, <1>3, <1>4, <1>5, <1>6, <1>7, <1>8 DEF LineInv

\* A call comes in, and waits for its number.
LEMMA ConfirmsLine ==
  ASSUME NEW c \in Lines, LineInv(c), NEW e \in Events,
         ch[c].cls = "base",
         \/ ch[c].st = "bkIdle" /\ e \in {"PENDING", "RxPhoNum"}
         \/ ch[c].st = "seiConfm" /\ e # "STANDBY",
         ch'[c].cls = ch[c].cls, ch'[c].kind = ch[c].kind, ch'[c].task = ch[c].task, ch'[c].st = "seiConfm", ~Busy(c)',
         sock'[c] = sock[c], asked'[c] = asked[c], board'[c] = board[c], playing'[c] = playing[c],
         Polls(c, e, "none", "none")
  PROVE  LineInv(c)'
<1>1. Sound(c)'
  BY NoCallKind DEF LineInv, Sound, Picked, Polls, Releasing
<1>2. Linking(c)'
  BY NoCallKind DEF LineInv, Sound, Linking, Picked, Polls
<1>3. Closing(c)'
  BY DEF LineInv, Closing, Polls, Releasing
<1>4. InCall(c)'
  BY DEF LineInv, InCall, Polls, Releasing, CallLegs
<1>5. Coming(c)'
  BY DEF LineInv, Coming, Polls, FeeQueued
<1>6. Login(c)'
  BY DEF LineInv, Login, Polls, LoggingIn, FeeQueued
<1>7. Picked(c)'
  BY DEF LineInv, Picked
<1>8. Guarded(c)'
  BY DEF LineInv, Guarded, Polls
<1> QED BY <1>1, <1>2, <1>3, <1>4, <1>5, <1>6, <1>7, <1>8 DEF LineInv

\* A call that came in asks the billing server.
LEMMA AsksLine ==
  ASSUME NEW c \in Lines, LineInv(c), NEW e \in Events,
         ch[c].st = "seiConfm", e = "TIMEOUT",
         ch'[c].cls = ch[c].cls, ch'[c].kind = "CATK", ch'[c].task = ch[c].task,
         ch'[c].st = "FeeLogin", Busy(c)', Busy(c) \/ ch'[c].timer = "on", sock'[c] \in {sock[c], "connecting"},
         asked'[c] = asked[c], board'[c] = board[c], playing'[c] = playing[c],
         Polls(c, e, "none", "none")
  PROVE  LineInv(c)'
<1>1. Sound(c)'
  BY DEF LineInv, Sound, Polls, Releasing
<1>2. Linking(c)'
  BY DEF LineInv, Sound, Linking
<1>3. Closing(c)'
  BY DEF LineInv, Closing, Polls, Releasing
<1>4. InCall(c)'
  BY DEF LineInv, InCall, Polls, Releasing, CallLegs
<1>5. Coming(c)'
  BY DEF LineInv, Coming, Polls, FeeQueued
<1>6. Login(c)'
  BY DEF LineInv, Sound, Coming, Login, Polls, FeeQueued
<1>7. Picked(c)'
  BY DEF LineInv, Sound, Picked
<1>8. Guarded(c)'
  BY DEF LineInv, Coming, Guarded, Polls
<1> QED BY <1>1, <1>2, <1>3, <1>4, <1>5, <1>6, <1>7, <1>8 DEF LineInv

\* A line picked up to dial asks the billing server.
LEMMA PicksLine ==
  ASSUME NEW c \in Lines, LineInv(c), NEW e \in Events,
         ch[c].st = "bkIdle", ch[c].cls = "base", e = "PICKUPED",
         ch'[c].cls = ch[c].cls, ch'[c].kind = ch[c].kind, ch'[c].task = ch[c].task,
         ch'[c].st = "FeeLogin", Busy(c)', ch'[c].timer = "on",
         sock'[c] = sock[c] \/ (sock[c] = "none" /\ sock'[c] = "connecting"),
         asked'[c] = asked[c], board'[c] = board[c], playing'[c] = playing[c],
         Polls(c, e, "none", "none")
  PROVE  LineInv(c)'
<1>1. Sound(c)'
  BY DEF LineInv, Sound, Polls, Releasing
<1>2. Linking(c)'
  BY DEF LineInv, Linking, Polls, Releasing
<1>3. Closing(c)'
  BY DEF LineInv, Closing, Polls, Releasing
<1>4. InCall(c)'
  BY DEF LineInv, InCall, Polls, Releasing, CallLegs
<1>5. Coming(c)'
  BY DEF LineInv, Coming, Polls
<1>6. Login(c)'
  BY SMTT(30) DEF LineInv, Login, Picked, Polls, FeeQueued, Events, FeeEnds
<1>7. Picked(c)'
  BY DEF LineInv, Picked, Polls, Events
<1>8. Guarded(c)'
  BY DEF LineInv, Guarded, Polls
<1> QED BY <1>1, <1>2, <1>3, <1>4, <1>5, <1>6, <1>7, <1>8 DEF LineInv

\* A line that asks the server goes on, or asks again.
LEMMA AsksAgainLine ==
  ASSUME NEW c \in Lines, LineInv(c), NEW e \in Events,
         ch[c].st = "FeeLogin",
         e \in {"PICKUPED", "TALKING", "RxPhoNum", "PlayEnd", "#", "*"},
         ch'[c].cls = ch[c].cls, ch'[c].kind = ch[c].kind, ch'[c].task = ch[c].task,
         ch'[c].st = "FeeLogin", Busy(c)', ch'[c].timer = IF Busy(c) THEN ch[c].timer ELSE "on",
         \/ sock'[c] = sock[c]
         \/ ~Busy(c) /\ sock[c] = "none" /\ sock'[c] \in {"none", "connecting"},
         asked'[c] = asked[c], board'[c] = board[c], playing'[c] = playing[c],
         Polls(c, e, "none", "none")
  PROVE  LineInv(c)'
<1>1. Sound(c)'
  BY DEF LineInv, Sound, Polls, Releasing
<1>2. Linking(c)'
  BY DEF LineInv, Linking, Polls
<1>3. Closing(c)'
  BY DEF LineInv, Closing, Polls
<1>4. InCall(c)'
  BY DEF LineInv, InCall, Polls
<1>5. Coming(c)'
  BY DEF LineInv, Coming, Polls
<1>6. Login(c)'
  BY SMTT(30) DEF LineInv, Sound, InCall, Coming, Login, Picked, Polls, Releasing,
     LoggingIn, FeeQueued, OnCall, FeeEnds
<1>7. Picked(c)'
  BY DEF LineInv, Picked, Polls
<1>8. Guarded(c)'
  BY DEF LineInv, Guarded, Polls, FeeQueued, FeeEnds
<1> QED BY <1>1, <1>2, <1>3, <1>4, <1>5, <1>6, <1>7, <1>8 DEF LineInv

\* The server has bound the call: the line is made to ring.
LEMMA RingsLine ==
  ASSUME NEW c \in Lines, LineInv(c), NEW e \in Events,
         ch[c].st = "FeeLogin", ch[c].cls \in {"base", "talk"}, e = "FeeConn",
         ch[c].cls = "talk" => board[c] # "picked",
         ch'[c].cls = ch[c].cls, ch'[c].kind = ch[c].kind, ch'[c].task = ch[c].task,
         ch'[c].st = "FeeLogin", Busy(c)', Busy(c) \/ ch'[c].timer = "on",
         \/ sock'[c] = sock[c]
         \/ ~Busy(c) /\ sock[c] = "none" /\ sock'[c] \in {"none", "connecting"},
         board'[c] = IF board[c] = "incoming" THEN "ringing" ELSE board[c],
         asked'[c] = asked[c], playing'[c] = playing[c],
         NEW b, b = IF board[c] = "incoming" THEN "RINGING" ELSE "none",
         Polls(c, e, b, "none")
  PROVE  LineInv(c)'
<1>1. Sound(c)'
  BY DEF LineInv, Sound, Polls, Releasing
<1>2. Linking(c)'
  BY DEF LineInv, Linking, Polls, OffHookStates
<1>3. Closing(c)'
  BY DEF LineInv, Closing, Polls
<1>4. InCall(c)'
  BY DEF LineInv, InCall, Polls, OnCall
<1>5. Coming(c)'
  BY DEF LineInv, Coming, Polls
<1>6. Login(c)'
  BY SMTT(30) DEF LineInv, Sound, Coming, Login, Polls, LoggingIn, FeeQueued, FeeEnds
<1>7. Picked(c)'
  BY DEF LineInv, Picked, Polls
<1>8. Guarded(c)'
  BY DEF LineInv, Guarded, Polls, FeeQueued, FeeEnds
<1> QED BY <1>1, <1>2, <1>3, <1>4, <1>5, <1>6, <1>7, <1>8 DEF LineInv

\* The server has bound the leg: it dials.
LEMMA DialsLine ==
  ASSUME NEW c \in Lines, LineInv(c), NEW e \in Events,
         ch[c].st = "FeeLogin", e = "FeeConn",
         ch[c].cls = "dialer" \/ (ch[c].cls = "talk" /\ board[c] = "picked"),
         ch'[c].cls = ch[c].cls, ch'[c].kind = ch[c].kind, ch'[c].task = ch[c].task,
         ch'[c].st = "WaitDial", sock'[c] = sock[c],
         board'[c] = IF board[c] = "picked" THEN "dialing" ELSE board[c],
         asked'[c] = asked[c], playing'[c] = playing[c],
         Polls(c, e, "none", "none")
  PROVE  LineInv(c)'
<1>1. Sound(c)'
  BY DEF LineInv, Sound, Polls, Releasing
<1>2. Linking(c)'
  BY DEF LineInv, Linking, Polls, Releasing, OffHookStates
<1>3. Closing(c)'
  BY DEF LineInv, Closing, Polls, Releasing
<1>4. InCall(c)'
  BY DEF LineInv, InCall, Polls, Releasing, CallLegs, OnCall
<1>5. Coming(c)'
  BY SMTT(30) DEF LineInv, Sound, Linking, Coming, Polls, Releasing, OffHookStates
<1>6. Login(c)'
  BY DEF LineInv, Login, LoggingIn
<1>7. Picked(c)'
  BY DEF Picked
<1>8. Guarded(c)'
  BY DEF LineInv, Guarded, Polls
<1> QED BY <1>1, <1>2, <1>3, <1>4, <1>5, <1>6, <1>7, <1>8 DEF LineInv

\* The server has refused the call: the caller is told.
LEMMA RefusedLine ==
  ASSUME NEW c \in Lines, LineInv(c), NEW e \in Events,
         ch[c].st = "FeeLogin", e \in {"FeeNoPay", "FeeCallBack"},
         ch'[c].cls = ch[c].cls, ch'[c].kind = ch[c].kind, ch'[c].task = ch[c].task,
         ch'[c].st = "ExitPlay", sock'[c] = sock[c],
         board'[c] = IF board[c] = "incoming" THEN "ringing" ELSE board[c],
         asked'[c] = asked[c],
         NEW b, b = IF board[c] = "incoming" THEN "RINGING" ELSE "none",
         Polls(c, e, b, "none")
  PROVE  LineInv(c)'
<1>1. Sound(c)'
  BY DEF LineInv, Sound, Polls, Releasing
<1>2. Linking(c)'
  BY DEF LineInv, Linking, Polls, Releasing, OffHookStates
<1>3. Closing(c)'
  BY DEF LineInv, Closing, Polls, Releasing
<1>4. InCall(c)'
  BY DEF LineInv, InCall, Polls, Releasing, CallLegs, OnCall
<1>5. Coming(c)'
  BY DEF LineInv, Coming, Polls
<1>6. Login(c)'
  BY SMTT(30) DEF LineInv, Coming, Login, Polls, LoggingIn, FeeQueued, FeeEnds
<1>7. Picked(c)'
  BY DEF LineInv, Picked
<1>8. Guarded(c)'
  BY DEF LineInv, Guarded, Polls
<1> QED BY <1>1, <1>2, <1>3, <1>4, <1>5, <1>6, <1>7, <1>8 DEF LineInv

\* The line rings and is picked up, or is not answered yet.
LEMMA AnswersLine ==
  ASSUME NEW c \in Lines, LineInv(c), NEW e \in Events,
         \/ ch[c].st = "FeeLogin" /\ e = "RINGING"
         \/ ch[c].st = "rcvMFsig" /\ e \notin {"TALKING", "STANDBY", "PENDING"},
         ch[c].cls \in {"base", "talk", "dialer"},
         ch'[c].cls = ch[c].cls, ch'[c].kind = ch[c].kind, ch'[c].task = ch[c].task,
         ch'[c].st = "rcvMFsig", sock'[c] = sock[c],
         board'[c] = CASE board[c] = "ringing" -> "talking" [] board[c] = "standby" -> "picked"
                       [] OTHER -> board[c],
         asked'[c] = asked[c], playing'[c] = playing[c],
         NEW b, b = CASE board[c] = "ringing" \/ (ch[c].cls = "talk" /\ board[c] = "talking") -> "TALKING"
                    [] board[c] = "standby" -> "PICKUPED" [] OTHER -> "none",
         Polls(c, e, b, "none")
  PROVE  LineInv(c)'
<1>1. Sound(c)'
  BY SMTT(30) DEF LineInv, Sound, Linking, Login, Polls, Releasing, LoggingIn
<1>2. Linking(c)'
  BY DEF LineInv, Linking, Polls, Releasing, OffHookStates
<1>3. Closing(c)'
  BY DEF LineInv, Closing, Polls, Releasing
<1>4. InCall(c)'
  BY DEF LineInv, InCall, Polls, Releasing, CallLegs, OnCall
<1>5. Coming(c)'
  BY DEF LineInv, Coming, Polls
<1>6. Login(c)'
  BY <1>1 DEF Sound, Login
<1>7. Picked(c)'
  BY <1>1 DEF Sound, Picked, LoggingIn
<1>8. Guarded(c)'
  BY SMTT(30) DEF LineInv, Sound, Linking, Login, Guarded, Polls, LoggingIn
<1> QED BY <1>1, <1>2, <1>3, <1>4, <1>5, <1>6, <1>7, <1>8 DEF LineInv

\* The line talks, and the billing starts.
LEMMA TalksLine ==
  ASSUME NEW c \in Lines, LineInv(c), NEW e \in Events,
         ch[c].st \in {"rcvMFsig", "WaitDial"}, e = "TALKING",
         ch'[c].cls = ch[c].cls, ch'[c].kind = ch[c].kind, ch'[c].task = ch[c].task,
         ch'[c].st = IF ch[c].cls = "talk" THEN "FwdPlay" ELSE "RcvTalk",
         sock'[c] = IF sock[c] = "bound" THEN "talk" ELSE sock[c],
         asked'[c] = asked[c], board'[c] = board[c],
         Polls(c, e, "none", "none")
  PROVE  LineInv(c)'
<1>1. Sound(c)'
  BY DEF LineInv, Sound, Polls, Releasing
<1>2. Linking(c)'
  BY DEF LineInv, Linking, Polls, Releasing
<1>3. Closing(c)'
  BY DEF LineInv, Closing, InCall, Polls, Releasing, OnCall
<1>4. InCall(c)'
  BY DEF LineInv, InCall, Polls, Releasing, CallLegs
<1>5. Coming(c)'
  BY DEF LineInv, Coming, Polls
<1>6. Login(c)'
  BY DEF LineInv, Login, Polls, LoggingIn
<1>7. Picked(c)'
  BY DEF LineInv, Picked
<1>8. Guarded(c)'
  BY DEF LineInv, Guarded, Polls, LoggingIn
<1> QED BY <1>1, <1>2, <1>3, <1>4, <1>5, <1>6, <1>7, <1>8 DEF LineInv

\* A call goes on.
LEMMA CallLine ==
  ASSUME NEW c \in Lines, LineInv(c), NEW e \in Events,
         ch[c].st \in CallLegs, e # "STANDBY", ch[c].cls # "talk" => e # "PENDING",
         ch[c].cls = "talk" => ch[c].kind # "CAHK",
         ch'[c].cls = ch[c].cls, ch'[c].kind = ch[c].kind, ch'[c].st \in CallLegs,
         ch[c].cls # "talk" => ch'[c].task = ch[c].task,
         ch[c].cls = "talk" /\ ch'[c].task # None => ch'[c].st = "RcvTalk",
         sock'[c] = sock[c] \/ (sock[c] = "bound" /\ sock'[c] = "talk"),
         asked'[c] = asked[c], board'[c] = board[c],
         NEW a \in {"none", "TALKING", "#"}, a # "none" => ch[c].cls = "talk", Polls(c, e, a, "none")
  PROVE  LineInv(c)'
<1>1. Sound(c)'
  BY DEF LineInv, Sound, Polls, Releasing, CallLegs
<1>2. Linking(c)'
  BY DEF LineInv, Linking, Polls, Releasing, CallLegs
<1>3. Closing(c)'
  BY DEF LineInv, Closing, InCall, Polls, OnCall
<1>4. InCall(c)'
  BY DEF LineInv, InCall
<1>5. Coming(c)'
  BY DEF LineInv, Coming, Polls, CallLegs
<1>6. Login(c)'
  BY DEF LineInv, Login, Polls, LoggingIn, FeeQueued, CallLegs
<1>7. Picked(c)'
  BY DEF LineInv, Picked, CallLegs
<1>8. Guarded(c)'
  BY DEF LineInv, Guarded, Polls, LoggingIn, CallLegs
<1> QED BY <1>1, <1>2, <1>3, <1>4, <1>5, <1>6, <1>7, <1>8 DEF LineInv

\* A line that dials, or plays a prompt to its end, goes on.
LEMMA WaitsLine ==
  ASSUME NEW c \in Lines, LineInv(c), NEW e \in Events,
         \/ ch[c].st = "WaitDial" /\ e \notin {"TALKING", "STANDBY", "PENDING"} /\ ch'[c].st = "WaitDial"
         \/ ch[c].st = "ExitPlay" /\ e \notin {"STANDBY", "PENDING"} /\ ch'[c].st = "ExitPlay"
         \/ ch[c].st \in CallLegs /\ ch[c].cls = "talk" /\ ch[c].st # "RcvTalk" /\ e # "STANDBY" /\ ch'[c].st = "ExitPlay",
         ch[c].cls = "talk" => ch[c].kind # "CAHK",
         ch'[c].cls = ch[c].cls, ch'[c].kind = ch[c].kind, ch'[c].task = ch[c].task,
         sock'[c] = sock[c], asked'[c] = asked[c], board'[c] = board[c],
         playing'[c] = playing[c] \/ ch[c].st # "ExitPlay",
         Polls(c, e, "none", "none")
  PROVE  LineInv(c)'
<1>1. Sound(c)'
  BY DEF LineInv, Sound, Polls, Releasing
<1>2. Linking(c)'
  BY DEF LineInv, Linking, Polls
<1>3. Closing(c)'
  BY DEF LineInv, Closing, Polls, Releasing, CallLegs
<1>4. InCall(c)'
  BY DEF LineInv, InCall, Polls
<1>5. Coming(c)'
  BY DEF LineInv, Coming, Polls, CallLegs
<1>6. Login(c)'
  BY DEF LineInv, Login, Polls, LoggingIn, FeeQueued
<1>7. Picked(c)'
  BY DEF LineInv, Picked
<1>8. Guarded(c)'
  BY DEF LineInv, Guarded, Polls, LoggingIn
<1> QED BY <1>1, <1>2, <1>3, <1>4, <1>5, <1>6, <1>7, <1>8 DEF LineInv

\* Nothing happens to the line, or its timer runs out.
LEMMA SameLine ==
  ASSUME NEW c \in Lines, LineInv(c),
         ch'[c].cls = ch[c].cls, ch'[c].kind = ch[c].kind, ch'[c].st = ch[c].st,
         ch'[c].task = ch[c].task, ch'[c].reserved = ch[c].reserved,
         ch'[c].timer = "off" <=> ch[c].timer = "off",
         sock'[c] = sock[c], asked'[c] = asked[c], board'[c] = board[c], playing'[c] = playing[c],
         Gets(c, "none", "none")
  PROVE  LineInv(c)'
<1>1. Sound(c)'
  BY DEF LineInv, Sound, Gets, LoggingIn, Busy
<1>2. Linking(c)'
  BY DEF LineInv, Linking, Gets
<1>3. Closing(c)'
  BY DEF LineInv, Closing, Gets
<1>4. InCall(c)'
  BY DEF LineInv, InCall, Gets
<1>5. Coming(c)'
  BY DEF LineInv, Coming, Gets, LoggingIn, FeeQueued
<1>6. Login(c)'
  BY DEF LineInv, Login, Gets, LoggingIn, Busy, FeeQueued
<1>7. Picked(c)'
  BY DEF LineInv, Picked, Gets, LoggingIn
<1>8. Guarded(c)'
  BY DEF LineInv, Guarded, Gets, LoggingIn, Busy, FeeQueued
<1> QED BY <1>1, <1>2, <1>3, <1>4, <1>5, <1>6, <1>7, <1>8 DEF LineInv

\* The line's socket has brought nothing, or has connected.
LEMMA VisitedLine ==
  ASSUME NEW c \in Lines, LineInv(c),
         ch'[c].cls = ch[c].cls, ch'[c].kind = ch[c].kind, ch'[c].st = ch[c].st,
         ch'[c].task = ch[c].task, ch'[c].reserved = ch[c].reserved,
         ch'[c].timer = IF ch[c].timer = "due" THEN "off" ELSE ch[c].timer,
         \/ sock'[c] = sock[c] /\ asked'[c] = asked[c]
         \/ sock[c] = "connecting" /\ sock'[c] = "login" /\ asked'[c] = ch[c].kind,
         board'[c] = board[c], playing'[c] = playing[c],
         NEW a, a = IF ch[c].timer = "due" THEN "TIMEOUT" ELSE "none",
         Gets(c, a, "none")
  PROVE  LineInv(c)'
<1>1. Sound(c)'
  BY DEF LineInv, Sound, Gets, LoggingIn, Busy
<1>2. Linking(c)'
  BY DEF LineInv, Linking, Gets
<1>3. Closing(c)'
  BY DEF LineInv, Closing, Gets
<1>4. InCall(c)'
  BY DEF LineInv, InCall, Gets
<1>5. Coming(c)'
  BY DEF LineInv, Coming, Gets, LoggingIn, FeeQueued, FeeEnds
<1>6. Login(c)'
  BY SMTT(30) DEF LineInv, Login, Gets, LoggingIn, Busy, FeeQueued, FeeEnds
<1>7. Picked(c)'
  BY DEF LineInv, Sound, Picked, Gets, LoggingIn
<1>8. Guarded(c)'
  BY DEF LineInv, Guarded, Gets, LoggingIn, Busy, FeeQueued
<1> QED BY <1>1, <1>2, <1>3, <1>4, <1>5, <1>6, <1>7, <1>8 DEF LineInv

\* The line's connection is lost, or the server refuses or ends the call.
LEMMA EndedLine ==
  ASSUME NEW c \in Lines, LineInv(c),
         ch'[c].cls = ch[c].cls, ch'[c].kind = ch[c].kind, ch'[c].st = ch[c].st,
         ch'[c].task = ch[c].task, ch'[c].reserved = ch[c].reserved,
         ch'[c].timer = IF ch[c].timer = "due" THEN "off" ELSE ch[c].timer,
         ch[c].cls = "talk" => ch[c].kind # "CAHK",
         sock[c] # "none", sock'[c] = "none", asked'[c] = asked[c],
         board'[c] = board[c], playing'[c] = playing[c],
         NEW a, a = IF ch[c].timer = "due" THEN "TIMEOUT" ELSE "none",
         NEW b \in FeeEnds,
         Gets(c, a, b)
  PROVE  LineInv(c)'
<1>1. Sound(c)'
  BY DEF LineInv, Sound, Gets, LoggingIn, Busy, FeeEnds
<1>2. Linking(c)'
  BY DEF LineInv, Linking, Gets, FeeEnds
<1>3. Closing(c)'
  BY DEF LineInv, Closing, Gets, FeeEnds
<1>4. InCall(c)'
  BY DEF LineInv, InCall, Gets, FeeEnds
<1>5. Coming(c)'
  BY DEF LineInv, Coming, Gets, LoggingIn, FeeEnds
<1>6. Login(c)'
  BY SMTT(30) DEF LineInv, Login, Gets, LoggingIn, Busy, FeeQueued, FeeEnds
<1>7. Picked(c)'
  BY DEF LineInv, Picked, Gets, LoggingIn, FeeEnds
<1>8. Guarded(c)'
  BY SMTT(30) DEF LineInv, Guarded, Gets, LoggingIn, Busy, FeeQueued, FeeEnds
<1> QED BY <1>1, <1>2, <1>3, <1>4, <1>5, <1>6, <1>7, <1>8 DEF LineInv

\* The profiles name no service for the call.
LEMMA NoServiceLine ==
  ASSUME NEW c \in Lines, LineInv(c),
         ch'[c].cls = ch[c].cls, ch'[c].kind = ch[c].kind, ch'[c].st = ch[c].st,
         ch'[c].task = ch[c].task, ch'[c].reserved = ch[c].reserved,
         ch'[c].timer = IF ch[c].timer = "due" THEN "off" ELSE ch[c].timer,
         sock[c] = "login", sock'[c] = "bound", asked'[c] = asked[c], asked[c] # NoCall,
         board'[c] = board[c], playing'[c] = playing[c],
         NEW a, a = IF ch[c].timer = "due" THEN "TIMEOUT" ELSE "none",
         Gets(c, a, "FeeDisc")
  PROVE  LineInv(c)'
<1>1. Sound(c)'
  BY DEF LineInv, Sound, Gets, LoggingIn, Busy
<1>2. Linking(c)'
  BY DEF LineInv, Linking, Gets
<1>3. Closing(c)'
  BY DEF LineInv, Closing, Gets
<1>4. InCall(c)'
  BY DEF LineInv, InCall, Gets
<1>5. Coming(c)'
  BY DEF LineInv, Coming, Gets, LoggingIn
<1>6. Login(c)'
  BY DEF LineInv, Login, Gets, LoggingIn, Busy
<1>7. Picked(c)'
  BY DEF LineInv, Picked, Gets
<1>8. Guarded(c)'
  BY DEF LineInv, Guarded, Gets, LoggingIn, Busy
<1> QED BY <1>1, <1>2, <1>3, <1>4, <1>5, <1>6, <1>7, <1>8 DEF LineInv

\* An object of the service's class takes the line's place.
LEMMA BoundLine ==
  ASSUME NEW c \in Lines, LineInv(c),
         ch'[c].cls = ServiceOf(asked[c]), ch'[c].kind = ch[c].kind, ch'[c].st = "FeeLogin",
         ch'[c].task = ch[c].task, ch'[c].reserved = {},
         ch[c].cls \in {"base", "talk", "dialer"}, ch[c].st \in States,
         ch[c].cls = "talk" => ch[c].kind # "CAHK" /\ asked[c] # "CAHK",
         ch[c].kind = "CAHK" => asked[c] = "CAHK",
         sock[c] = "login", sock'[c] = "bound", asked'[c] = asked[c], asked[c] # NoCall,
         board'[c] = board[c], playing'[c] = playing[c],
         NEW a, a = IF ch[c].timer = "due" THEN "TIMEOUT" ELSE "none",
         Gets(c, a, "FeeConn")
  PROVE  LineInv(c)'
<1>1. Sound(c)'
  BY DEF LineInv, Sound, Gets, Releasing, ServiceOf
<1>2. Linking(c)'
  BY SMTT(30) DEF LineInv, Sound, Linking, Login, Gets, Releasing, LoggingIn, ServiceOf
<1>3. Closing(c)'
  BY DEF LineInv, Sound, Closing, Gets, LoggingIn
<1>4. InCall(c)'
  BY DEF LineInv, Sound, InCall, Gets, CallLegs
<1>5. Coming(c)'
  BY DEF LineInv, Coming, Gets, LoggingIn
<1>6. Login(c)'
  BY AheadQueued, SMTT(30) DEF LineInv, Sound, Linking, Login, Gets, LoggingIn, ServiceOf
<1>7. Picked(c)'
  <2>1. ch[c].st \in {"FeeLogin", "ExitPlay"} \/ board[c] # "picked"
    BY DEF LineInv, Sound, InCall, Picked, Login, LoggingIn, CallLegs, OnCall, Releasing, States
  <2>2. ASSUME board[c] = "picked" PROVE ch[c].kind # NoCall /\ ch[c].st = "FeeLogin"
    BY <2>1, <2>2 DEF LineInv, Login, Picked, LoggingIn
  <2>3. ASSUME board[c] = "picked", NEW f \in {"PlayEnd", "#", "*", "PICKUPED"} PROVE ~Queued(c, f)' /\ ~playing[c]
    BY <2>2, <2>3, SMTT(30) DEF LineInv, Picked, Gets
  <2> QED BY <2>2, <2>3, SMTT(30) DEF Picked, LoggingIn
<1>8. Guarded(c)'
  BY DEF LineInv, Guarded, Gets, LoggingIn
<1> QED BY <1>1, <1>2, <1>3, <1>4, <1>5, <1>6, <1>7, <1>8 DEF LineInv

\* A call comes in on a line whose last call is over.
LEMMA ArrivesLine ==
  ASSUME NEW c \in Lines, LineInv(c),
         ch[c].st = "bkIdle", ch[c].cls = "base", sock[c] = "none", ~playing[c], \A f : ~Queued(c, f),
         \A f, g : ~Ahead(c, f, g),
         ch'[c].cls = ch[c].cls, ch'[c].kind = ch[c].kind, ch'[c].st = ch[c].st,
         ch'[c].task = ch[c].task, ch'[c].reserved = ch[c].reserved,
         ch'[c].timer = ch[c].timer,
         sock'[c] = sock[c], asked'[c] = asked[c],
         board[c] = "standby", board'[c] = "incoming", playing'[c] = playing[c],
         NEW a \in {"PENDING", "RxPhoNum"}, Gets(c, a, "none")
  PROVE  LineInv(c)'
<1>1. Sound(c)'
  BY DEF LineInv, Sound, Gets
<1>2. Linking(c)'
  BY DEF LineInv, Linking, OffHookStates
<1>3. Closing(c)'
  BY DEF Closing, Gets
<1>4. InCall(c)'
  BY DEF InCall, Gets, CallLegs
<1>5. Coming(c)'
  BY DEF Coming, Gets, FeeQueued, FeeEnds
<1>6. Login(c)'
  BY DEF Login, Gets, LoggingIn
<1>7. Picked(c)'
  BY DEF LineInv, Picked
<1>8. Guarded(c)'
  BY DEF Guarded, Gets
<1> QED BY <1>1, <1>2, <1>3, <1>4, <1>5, <1>6, <1>7, <1>8 DEF LineInv

\* The caller goes before he is answered.
LEMMA GivesUpLine ==
  ASSUME NEW c \in Lines, LineInv(c),
         ch'[c].cls = ch[c].cls, ch'[c].kind = ch[c].kind, ch'[c].st = ch[c].st,
         ch'[c].task = ch[c].task, ch'[c].reserved = ch[c].reserved,
         ch'[c].timer = ch[c].timer,
         sock'[c] = sock[c], asked'[c] = asked[c],
         board[c] \in {"incoming", "ringing"}, board'[c] = "standby", playing'[c] = playing[c],
         Gets(c, "STANDBY", "none")
  PROVE  LineInv(c)'
<1>1. Sound(c)'
  BY DEF LineInv, Sound, Gets, LoggingIn, Busy
<1>2. Linking(c)'
  BY DEF LineInv, Linking, OffHookStates
<1>3. Closing(c)'
  BY DEF LineInv, Closing, Gets
<1>4. InCall(c)'
  BY DEF LineInv, InCall, Gets, OnCall
<1>5. Coming(c)'
  BY DEF LineInv, Coming, Gets, FeeQueued, FeeEnds
<1>6. Login(c)'
  BY SMTT(30) DEF LineInv, Login, Gets, LoggingIn, Busy, FeeQueued, FeeEnds
<1>7. Picked(c)'
  BY DEF LineInv, Picked
<1>8. Guarded(c)'
  BY SMTT(30) DEF LineInv, Coming, Guarded, Gets, LoggingIn, Busy, FeeQueued
<1> QED BY <1>1, <1>2, <1>3, <1>4, <1>5, <1>6, <1>7, <1>8 DEF LineInv

\* The other side hangs up.
LEMMA FarHangsLine ==
  ASSUME NEW c \in Lines, LineInv(c),
         ch'[c].cls = ch[c].cls, ch'[c].kind = ch[c].kind, ch'[c].st = ch[c].st,
         ch'[c].task = ch[c].task, ch'[c].reserved = ch[c].reserved,
         ch[c].st = "bkIdle" /\ board[c] # "standby" =>
           \E f \in {"PENDING", "RxPhoNum", "PICKUPED"} : Queued(c, f),
         ch'[c].timer = ch[c].timer,
         sock'[c] = sock[c], asked'[c] = asked[c],
         board[c] \in {"incoming", "ringing", "dialing", "talking"}, board'[c] = "pending", playing'[c] = playing[c],
         Gets(c, "PENDING", "none")
  PROVE  LineInv(c)'
<1>1. Sound(c)'
  BY DEF LineInv, Sound, Gets, LoggingIn, Busy
<1>2. Linking(c)'
  BY DEF LineInv, Linking, Gets, OffHookStates
<1>3. Closing(c)'
  BY DEF LineInv, Closing, Gets
<1>4. InCall(c)'
  BY DEF LineInv, InCall, OnCall
<1>5. Coming(c)'
  BY SMTT(30) DEF LineInv, Sound, Linking, Coming, Login, Picked, Gets, Releasing,
     FeeQueued, FeeEnds
<1>6. Login(c)'
  BY SMTT(30) DEF LineInv, Login, Gets, LoggingIn, Busy, FeeQueued, FeeEnds
<1>7. Picked(c)'
  BY DEF LineInv, Picked
<1>8. Guarded(c)'
  BY DEF LineInv, Guarded, Gets, LoggingIn, Busy, FeeQueued
<1> QED BY <1>1, <1>2, <1>3, <1>4, <1>5, <1>6, <1>7, <1>8 DEF LineInv

\* The number dialled answers.
LEMMA AnsweredLine ==
  ASSUME NEW c \in Lines, LineInv(c),
         ch'[c].cls = ch[c].cls, ch'[c].kind = ch[c].kind, ch'[c].st = ch[c].st,
         ch'[c].task = ch[c].task, ch'[c].reserved = ch[c].reserved,
         ch'[c].timer = ch[c].timer,
         sock'[c] = sock[c], asked'[c] = asked[c],
         board[c] = "dialing", board'[c] = "talking", playing'[c] = playing[c],
         Gets(c, "TALKING", "none")
  PROVE  LineInv(c)'
<1>1. Sound(c)'
  BY DEF LineInv, Sound, Gets, LoggingIn, Busy
<1>2. Linking(c)'
  BY DEF LineInv, Linking, Gets, OffHookStates
<1>3. Closing(c)'
  BY DEF LineInv, Closing, Gets
<1>4. InCall(c)'
  BY DEF LineInv, InCall, OnCall
<1>5. Coming(c)'
  BY DEF LineInv, Coming, Gets, FeeQueued, FeeEnds
<1>6. Login(c)'
  BY DEF LineInv, Login, Gets, LoggingIn, Busy, FeeQueued
<1>7. Picked(c)'
  BY DEF LineInv, Picked
<1>8. Guarded(c)'
  BY DEF LineInv, Guarded, Gets, LoggingIn, Busy, FeeQueued
<1> QED BY <1>1, <1>2, <1>3, <1>4, <1>5, <1>6, <1>7, <1>8 DEF LineInv

\* A key is pressed.
LEMMA KeyedLine ==
  ASSUME NEW c \in Lines, LineInv(c),
         ch'[c].cls = ch[c].cls, ch'[c].kind = ch[c].kind, ch'[c].st = ch[c].st,
         ch'[c].task = ch[c].task, ch'[c].reserved = ch[c].reserved,
         ch'[c].timer = ch[c].timer,
         sock'[c] = sock[c], asked'[c] = asked[c],
         board[c] = "talking", board'[c] = board[c], playing'[c] = playing[c],
         NEW a \in {"#", "*"}, Gets(c, a, "none")
  PROVE  LineInv(c)'
<1>1. Sound(c)'
  BY DEF LineInv, Sound, Gets, LoggingIn, Busy
<1>2. Linking(c)'
  BY DEF LineInv, Linking, Gets
<1>3. Closing(c)'
  BY DEF LineInv, Closing, Gets
<1>4. InCall(c)'
  BY DEF LineInv, InCall, Gets
<1>5. Coming(c)'
  BY DEF LineInv, Coming, Gets, FeeQueued, FeeEnds
<1>6. Login(c)'
  BY DEF LineInv, Login, Gets, LoggingIn, Busy, FeeQueued
<1>7. Picked(c)'
  BY DEF LineInv, Picked
<1>8. Guarded(c)'
  BY DEF LineInv, Guarded, Gets, LoggingIn, Busy, FeeQueued
<1> QED BY <1>1, <1>2, <1>3, <1>4, <1>5, <1>6, <1>7, <1>8 DEF LineInv

\* The prompt has ended.
LEMMA PlayedLine ==
  ASSUME NEW c \in Lines, LineInv(c),
         ch'[c].cls = ch[c].cls, ch'[c].kind = ch[c].kind, ch'[c].st = ch[c].st,
         ch'[c].task = ch[c].task, ch'[c].reserved = ch[c].reserved,
         ch'[c].timer = ch[c].timer,
         sock'[c] = sock[c], asked'[c] = asked[c],
         playing[c], board'[c] = board[c], ~playing'[c],
         Gets(c, "PlayEnd", "none")
  PROVE  LineInv(c)'
<1>1. Sound(c)'
  BY DEF LineInv, Sound, Gets, LoggingIn, Busy
<1>2. Linking(c)'
  BY DEF LineInv, Linking, Gets
<1>3. Closing(c)'
  BY DEF LineInv, Closing, Gets
<1>4. InCall(c)'
  BY DEF LineInv, InCall, Gets
<1>5. Coming(c)'
  BY DEF LineInv, Coming, Gets, FeeQueued, FeeEnds
<1>6. Login(c)'
  BY SMTT(30) DEF LineInv, Login, Gets, LoggingIn, Busy, FeeQueued, FeeEnds
<1>7. Picked(c)'
  BY DEF LineInv, Picked, Gets, LoggingIn
<1>8. Guarded(c)'
  BY DEF LineInv, Guarded, Gets, LoggingIn, Busy, FeeQueued
<1> QED BY <1>1, <1>2, <1>3, <1>4, <1>5, <1>6, <1>7, <1>8 DEF LineInv

\* A line whose last call is over is taken for an outgoing call.
LEMMA SeizedLine ==
  ASSUME NEW c \in Lines, LineInv(c),
         ch[c].st = "bkIdle", ch[c].cls = "base", sock[c] = "none", ~playing[c], \A f : ~Queued(c, f),
         \A f, g : ~Ahead(c, f, g),
         board[c] = "standby", board'[c] = "picked",
         ch'[c].cls = ch[c].cls, ch'[c].kind \in {"CAHK", "CABK"}, ch'[c].st = ch[c].st,
         ch'[c].task # None => ch'[c].kind = "CAHK",
         ch'[c].kind = "CAHK" => ch'[c].task # None,
         ch'[c].reserved = ch[c].reserved, ch'[c].timer = ch[c].timer,
         sock'[c] = sock[c], asked'[c] = asked[c], playing'[c] = playing[c],
         Gets(c, "PICKUPED", "none")
  PROVE  LineInv(c)'
<1>1. Sound(c)'
  BY DEF LineInv, Sound, Gets
<1>2. Linking(c)'
  BY DEF Linking, Gets, Releasing, OffHookStates
<1>3. Closing(c)'
  BY DEF Closing, Gets
<1>4. InCall(c)'
  BY DEF InCall, Gets, CallLegs
<1>5. Coming(c)'
  BY DEF Coming, Gets
<1>6. Login(c)'
  BY DEF Login, Gets, LoggingIn
<1>7. Picked(c)'
  BY DEF Picked, Gets, LoggingIn
<1>8. Guarded(c)'
  BY DEF Guarded, Gets, LoggingIn
<1> QED BY <1>1, <1>2, <1>3, <1>4, <1>5, <1>6, <1>7, <1>8 DEF LineInv

\* The caller's leg hears of the leg that dials for him.
LEMMA CallerToldLine ==
  ASSUME NEW c \in Lines, LineInv(c),
         ch[c].cls = "talk", ch[c].kind # "CAHK", ch[c].st = "RcvTalk",
         ch'[c].cls = ch[c].cls, ch'[c].kind = ch[c].kind, ch'[c].st = ch[c].st,
         ch'[c].task \in {ch[c].task, None},
         sock'[c] = sock[c], asked'[c] = asked[c], board'[c] = board[c], playing'[c] = playing[c],
         NEW a, NEW b, {a, b} \subseteq {"none", "TALKING", "PENDING"}, Gets(c, a, b)
  PROVE  LineInv(c)'
<1>1. Sound(c)'
  BY DEF LineInv, Sound, Gets
<1>2. Linking(c)'
  BY DEF Linking
<1>3. Closing(c)'
  BY DEF LineInv, Closing, InCall, Gets, CallLegs, OnCall
<1>4. InCall(c)'
  BY DEF LineInv, InCall, CallLegs
<1>5. Coming(c)'
  BY DEF LineInv, Coming, Gets
<1>6. Login(c)'
  BY DEF LineInv, Login, LoggingIn
<1>7. Picked(c)'
  BY DEF LineInv, Picked
<1>8. Guarded(c)'
  BY DEF LineInv, Guarded, Gets, LoggingIn
<1> QED BY <1>1, <1>2, <1>3, <1>4, <1>5, <1>6, <1>7, <1>8 DEF LineInv

\* The leg that was dialled hears that the caller's has gone.
LEMMA LegToldLine ==
  ASSUME NEW c \in Lines, LineInv(c),
         ch[c].cls # "talk", ch[c].task # None,
         ch'[c].cls = ch[c].cls, ch'[c].kind = ch[c].kind, ch'[c].st = ch[c].st,
         ch'[c].task = None, ch'[c].reserved = ch[c].reserved, ch'[c].timer = ch[c].timer,
         sock'[c] = sock[c], asked'[c] = asked[c], board'[c] = board[c], playing'[c] = playing[c],
         Gets(c, "PENDING", "none")
  PROVE  LineInv(c)'
<1>1. Sound(c)'
  BY DEF LineInv, Sound, Gets, LoggingIn, Busy
<1>2. Linking(c)'
  BY DEF LineInv, Linking, Gets
<1>3. Closing(c)'
  BY DEF LineInv, Linking, Closing, Gets
<1>4. InCall(c)'
  BY DEF LineInv, InCall, Gets
<1>5. Coming(c)'
  BY SMTT(30) DEF LineInv, Coming, Picked, Gets, LoggingIn, FeeQueued, Events, FeeEnds
<1>6. Login(c)'
  BY SMTT(30) DEF LineInv, Login, Gets, LoggingIn, Busy, FeeQueued, FeeEnds
<1>7. Picked(c)'
  BY NoCallKind DEF LineInv, Linking, Picked, Gets, LoggingIn
<1>8. Guarded(c)'
  BY DEF LineInv, Guarded, Gets, LoggingIn, Busy, FeeQueued
<1> QED BY <1>1, <1>2, <1>3, <1>4, <1>5, <1>6, <1>7, <1>8 DEF LineInv

-----------------------------------------------------------------------------
(* What a step posts, as one line sees it *)

\* What is empty brings nothing.
LEMMA BringsNothing == \A x : Brings(<<>>, x, "none", "none")
BY DEF Brings, Has, Precedes

\* An event that is posted is brought to the line it is posted for.
LEMMA BringsPost ==
  ASSUME NEW b \in BOOLEAN, NEW d \in Lines \cup {None}, NEW e \in Events, NEW x \in Lines
  PROVE  Brings(PostIf(b, d, e), x, IF b /\ d = x THEN e ELSE "none", "none")
<1>1. "none" \notin Events /\ x # None
  BY DEF Events, ChStates, FeeEnds, Lines, None
<1>2. CASE ~b \/ d = None
  <2>1. PostIf(b, d, e) = <<>>
    BY <1>2 DEF PostIf, Post
  <2> QED BY <1>1, <1>2, <2>1, BringsNothing
<1>3. CASE b /\ d # None
  <2>1. Msg(d, e) \in Msgs
    BY <1>3 DEF Msg, Msgs
  <2>2. PostIf(b, d, e) = <<Msg(d, e)>> /\ <<Msg(d, e)>> \in Seq(Msgs)
    BY <1>3, <2>1 DEF PostIf, Post, Msg
  <2>3. \A f : Msg(x, f) = Msg(d, e) <=> x = d /\ f = e
    BY DEF Msg
  <2> DEFINE m == Msg(d, e)
  <2>4. DOMAIN <<m>> = {1} /\ <<m>>[1] = m
    OBVIOUS
  <2>5. \A n : Has(<<m>>, n) <=> n = m
    BY <2>4 DEF Has
  <2>6. \A n, k : ~Precedes(<<m>>, n, k)
    BY <2>4 DEF Precedes
  <2> HIDE DEF m
  <2>7. \A f : Has(<<m>>, Msg(x, f)) <=> x = d /\ f = e
    BY <2>3, <2>5 DEF m
  <2>8. /\ PostIf(b, d, e) = <<m>> /\ <<m>> \in Seq(Msgs) /\ e # "none"
    BY <1>1, <2>2 DEF m
  <2>9. CASE x = d
    BY <1>3, <2>6, <2>7, <2>8, <2>9 DEF Brings
  <2>10. CASE x # d
    BY <1>3, <2>6, <2>7, <2>8, <2>10 DEF Brings
  <2> QED BY <2>9, <2>10
<1> QED BY <1>2, <1>3

\* What posts one event and then another brings both, in this order.
LEMMA BringsBoth ==
  ASSUME NEW x, NEW s, NEW t, NEW a, NEW b, Brings(s, x, a, "none"), Brings(t, x, b, "none")
  PROVE  Brings(s \o t, x, a, b)
<1>1. s \in Seq(Msgs) /\ t \in Seq(Msgs) /\ s \o t \in Seq(Msgs)
  BY DEF Brings
<1>2. ASSUME NEW f PROVE Has(s \o t, Msg(x, f)) <=> (f = a \/ f = b) /\ f # "none"
  <2>1. Has(s \o t, Msg(x, f)) <=> Has(s, Msg(x, f)) \/ Has(t, Msg(x, f))
    BY <1>1, HasConcat, HasAdded, HasSplit
  <2> QED BY <2>1 DEF Brings
<1>3. ASSUME NEW f, NEW g, Precedes(s \o t, Msg(x, f), Msg(x, g))
      PROVE  f = a /\ g = b /\ a # "none" /\ b # "none"
  BY <1>1, <1>3, PrecedesConcat DEF Brings
<1> QED BY <1>1, <1>2, <1>3 DEF Brings

\* What is posted for other lines may stand before or behind.
LEMMA BringsSilent ==
  ASSUME NEW x, NEW s, NEW t, NEW a, NEW b, Brings(s, x, "none", "none"), Brings(t, x, a, b)
  PROVE  Brings(s \o t, x, a, b) /\ Brings(t \o s, x, a, b)
<1>1. s \in Seq(Msgs) /\ t \in Seq(Msgs) /\ s \o t \in Seq(Msgs) /\ t \o s \in Seq(Msgs)
  BY DEF Brings
<1>2. ASSUME NEW f
      PROVE  /\ Has(s \o t, Msg(x, f)) <=> Has(t, Msg(x, f))
             /\ Has(t \o s, Msg(x, f)) <=> Has(t, Msg(x, f))
  BY <1>1, HasConcat, HasAdded, HasSplit DEF Brings
<1>3. ASSUME NEW f, NEW g
      PROVE  /\ Precedes(s \o t, Msg(x, f), Msg(x, g)) => Precedes(t, Msg(x, f), Msg(x, g))
             /\ Precedes(t \o s, Msg(x, f), Msg(x, g)) => Precedes(t, Msg(x, f), Msg(x, g))
  BY <1>1, PrecedesConcat DEF Brings
<1> QED BY <1>1, <1>2, <1>3 DEF Brings

\* One event has no order.
LEMMA BringsLate ==
  ASSUME NEW x, NEW t, NEW b, Brings(t, x, "none", b)
  PROVE  Brings(t, x, b, "none")
BY DEF Brings

\* Nothing in u is for a line other than c.
OnlyFor(u, c) == \A x \in Lines \ {c} : Brings(u, x, "none", "none")

\* What is empty, what is posted for c, and two such after each other are only for c.
LEMMA OnlyForNothing == \A c : OnlyFor(<<>>, c)
BY BringsNothing DEF OnlyFor

LEMMA OnlyForPost ==
  ASSUME NEW c \in Lines, NEW e \in Events, NEW b \in BOOLEAN
  PROVE  /\ OnlyFor(PostIf(b, c, e), c)
         /\ b => Brings(PostIf(b, c, e), c, e, "none")
         /\ ~b => Brings(PostIf(b, c, e), c, "none", "none")
BY BringsPost DEF OnlyFor

LEMMA OnlyForBoth ==
  ASSUME NEW c, NEW s, NEW t, OnlyFor(s, c), OnlyFor(t, c)
  PROVE  OnlyFor(s \o t, c)
BY BringsSilent DEF OnlyFor

-----------------------------------------------------------------------------
(* A poll, seen from the line that is polled *)

\* Line c is polled its event e.
Turn(c, e) ==
  /\ TypeOK /\ queue # <<>> /\ c \in Lines /\ e \in Events /\ Head(queue) = Msg(c, e)
  /\ asked' = asked
  /\ LineInv(c) /\ Classed(c) /\ Dialled(c) /\ ch[c].task # c

\* Nothing but the queue changes for line x.
Still(x) ==
  /\ ch'[x] = ch[x] /\ sock'[x] = sock[x] /\ board'[x] = board[x]
  /\ playing'[x] = playing[x]

\* The line that is polled keeps its link; or the link is undone on both sides and the
\* other leg is told.
Keeping(c) ==
  /\ \A x \in Lines \ {c} : Still(x)
  /\ ch'[c].task = ch[c].task
  /\ ch[c].task # None => /\ ch'[c].cls = ch[c].cls /\ ch'[c].kind = ch[c].kind
                          /\ ch[c].cls = "talk" => ch'[c].st = "RcvTalk"
  /\ \E u : queue' = Rest \o u /\ OnlyFor(u, c)
Cutting(c) ==
  /\ \A x \in Lines \ {c} :
       /\ sock'[x] = sock[x] /\ board'[x] = board[x] /\ playing'[x] = playing[x]
       /\ ch'[x] = IF x = ch[c].task THEN [ch[x] EXCEPT !.task = None] ELSE ch[x]
  /\ ch'[c].task = None
  /\ \E u : queue' = Rest \o u \o Notice(c) /\ OnlyFor(u, c)

Good(c) == LineInv(c)' /\ (Keeping(c) \/ Cutting(c))

\* What a handler may suppose when it is called.
LEMMA TurnTyped ==
  ASSUME NEW c, NEW e, Turn(c, e)
  PROVE  /\ TypeOK /\ queue # <<>> /\ c \in Lines /\ e \in Events
         /\ ch[c] \in Objects /\ asked' = asked /\ LineInv(c)
         /\ Head(queue).line = c /\ Head(queue).ev = e
         /\ Rest \in Seq(Msgs) /\ Queued(c, e)
<1>1. TypeOK /\ queue # <<>> /\ c \in Lines /\ Head(queue) = Msg(c, e)
  BY DEF Turn
<1>2. Head(queue).line = c /\ Head(queue).ev = e
  BY <1>1 DEF Msg
<1>3. queue \in Seq(Msgs) /\ ch[c] \in Objects
  BY <1>1, Typed
<1>4. Queued(c, e)
  BY <1>1, <1>3, HeadOrTail, QueuedHas
<1> QED BY <1>1, <1>2, <1>3, <1>4, RestTyped DEF Turn

\* What the line finds in the queue when the handler has posted u.
LEMMA TurnPolls ==
  ASSUME NEW c, NEW e, Turn(c, e), NEW u, NEW a, NEW b, Brings(u, c, a, b),
         queue' = Rest \o u
  PROVE  Polls(c, e, a, b)
<1>1. TypeOK /\ queue # <<>> /\ c \in Lines /\ Head(queue) = Msg(c, e) /\ u \in Seq(Msgs)
  BY DEF Turn, Brings
<1>2. Brings(Forwarded, c, "none", "none")
  <2> DEFINE p == ch[c].task
             f == ch[c].cls = "dialer" /\ ch[c].st = "WaitDial" /\ e \in ChStates
  <2>1. Forwarded = PostIf(f, p, e)
    BY TurnTyped DEF Forwarded
  <2>2. p \in Lines \cup {None} /\ p # c
    BY TurnTyped DEF Turn, Objects
  <2>3. e \in Events /\ f \in BOOLEAN
    BY TurnTyped
  <2> HIDE DEF f, p
  <2> QED BY <1>1, <2>1, <2>2, <2>3, BringsPost
<1>3. Brings(Forwarded \o u, c, a, b)
  BY <1>2, BringsSilent
<1>4. queue' = Tail(queue) \o (Forwarded \o u)
  BY <1>1, PollQueue
<1> QED BY <1>1, <1>3, <1>4, PollsView

\* A handler that posts nothing.
LEMMA TurnRest ==
  ASSUME NEW c, NEW e, Turn(c, e), queue' = Rest
  PROVE  /\ Polls(c, e, "none", "none")
         /\ \E u : queue' = Rest \o u /\ OnlyFor(u, c)
<1>1. Rest = Rest \o <<>>
  BY TurnTyped
<1> QED BY <1>1, BringsNothing, OnlyForNothing, TurnPolls

\* KillLinker: the line's object becomes r, and loses its link.
LEMMA TurnCuts ==
  ASSUME NEW c, NEW e, Turn(c, e), NEW r \in Objects, ch' = Unlinked(c, r),
         \A x \in Lines \ {c} : sock'[x] = sock[x] /\ board'[x] = board[x]
                                 /\ playing'[x] = playing[x],
         NEW u, NEW a, NEW b, queue' = Rest \o u \o Notice(c),
         OnlyFor(u, c), Brings(u, c, a, b)
  PROVE  /\ Cutting(c) /\ Polls(c, e, a, b)
         /\ ch'[c].cls = r.cls /\ ch'[c].kind = r.kind /\ ch'[c].st = r.st
         /\ ch'[c].task = None
<1>1. c \in Lines
  BY TurnTyped
<1>2. ch'[c] = [r EXCEPT !.task = None]
  BY <1>1 DEF Unlinked
<1>3. ch'[c].cls = r.cls /\ ch'[c].kind = r.kind /\ ch'[c].st = r.st /\ ch'[c].task = None
  BY <1>2 DEF Objects
<1>4. Cutting(c)
  <2>1. ASSUME NEW x \in Lines \ {c}
        PROVE  ch'[x] = IF x = ch[c].task THEN [ch[x] EXCEPT !.task = None] ELSE ch[x]
    BY <1>1 DEF Unlinked
  <2> QED BY <1>3, <2>1 DEF Cutting
<1>5. Brings(Notice(c), c, "none", "none")
  <2> DEFINE k == ch[c].cls \in Services
  <2>1. ch[c].task \in Lines \cup {None} /\ ch[c].task # c
    BY TurnTyped DEF Turn, Objects
  <2>2. k \in BOOLEAN /\ "PENDING" \in Events /\ Notice(c) = PostIf(k, ch[c].task, "PENDING")
    BY DEF Events, ChStates, Notice
  <2> HIDE DEF k
  <2> QED BY <1>1, <2>1, <2>2, BringsPost
<1>6. Polls(c, e, a, b)
  <2>1. u \in Seq(Msgs) /\ Notice(c) \in Seq(Msgs) /\ Rest \in Seq(Msgs)
    BY <1>5, TurnTyped DEF Brings
  <2>2. queue' = Rest \o (u \o Notice(c))
    BY <2>1, Associates
  <2> QED BY <1>5, <2>2, BringsSilent, TurnPolls
<1> QED BY <1>3, <1>4, <1>6

-----------------------------------------------------------------------------
(* What the handlers do with the line that is polled *)

\* What no event that is polled is, and what none does to a line with a link.
LEMMA TurnSound ==
  ASSUME NEW c, NEW e, Turn(c, e)
  PROVE  /\ e \notin {"UNAVAIL", "RESET"} /\ board[c] # "down"
         /\ ch[c].st \notin {"bkFree", "ResetPcm"}
         /\ ch[c].cls \in {"base", "talk", "dialer"} /\ ch[c].st \in States
         /\ ch[c].cls = "talk" => ch[c].kind # "CAHK"
         /\ ch[c].cls = "talk" /\ ch[c].task # None => ch[c].st = "RcvTalk"
<1>1. ch[c].cls \in {"base", "talk", "dialer"} /\ ch[c].st \in States
  BY TurnTyped DEF Objects, Services
<1>2. /\ e \notin {"UNAVAIL", "RESET"} /\ board[c] # "down"
      /\ ch[c].st \notin {"bkFree", "ResetPcm"}
  BY TurnTyped DEF LineInv, Sound
<1> QED BY <1>1, <1>2, TurnTyped DEF Turn, LineInv, Linking, Dialled

\* Disconnect and StopChan.
LEMMA HangGood ==
  ASSUME NEW c, NEW e, Turn(c, e), NEW fee \in BOOLEAN, HangUp(c, "bkOffHk", fee)
  PROVE  Good(c)
<1> DEFINE r == [ch[c] EXCEPT !.st = "bkOffHk", !.reserved = {}, !.timer = "off"]
           v == PostIf(fee, c, "FeeDisc")
           w == PostIf(~OnHook(c), c, "STANDBY")
           d == IF OnHook(c) THEN board[c] ELSE "standby"
           a == IF fee THEN "FeeDisc" ELSE "none"
           b == IF board[c] = "standby" THEN "none" ELSE "STANDBY"
<1>1. /\ r \in Objects /\ r.cls = ch[c].cls /\ r.kind = ch[c].kind /\ r.st = "bkOffHk"
      /\ c \in Lines
  <2>1. ch[c] \in Objects /\ c \in Lines
    BY TurnTyped
  <2> QED BY <2>1 DEF Objects, States
<1>2. /\ ch' = Unlinked(c, r)
      /\ \A x \in Lines \ {c} : sock'[x] = sock[x] /\ board'[x] = board[x]
                                /\ playing'[x] = playing[x]
      /\ sock'[c] = "none" /\ board'[c] = d
      /\ queue' = Rest \o v \o w \o Notice(c)
  BY TurnTyped, Typed DEF HangUp
<1>3. (OnHook(c) <=> board[c] = "standby") /\ OnHook(c) \in BOOLEAN /\ d = "standby"
  BY TurnSound DEF OnHook
<1>4. "FeeDisc" \in Events /\ "STANDBY" \in Events
  BY DEF Events, FeeEnds, ChStates
<1>5. OnlyFor(v, c) /\ Brings(v, c, a, "none")
  BY <1>1, <1>4, OnlyForPost
<1>6. OnlyFor(w, c) /\ Brings(w, c, b, "none")
  BY <1>1, <1>3, <1>4, OnlyForPost
<1>7. LineInv(c) /\ Rest \in Seq(Msgs) /\ v \in Seq(Msgs) /\ w \in Seq(Msgs)
  BY <1>5, <1>6, TurnTyped DEF Brings
<1>8. a \in {"none", "FeeDisc"} /\ b = IF board[c] = "standby" THEN "none" ELSE "STANDBY"
  OBVIOUS
<1> HIDE DEF r, v, w, d, a, b
<1>9. OnlyFor(v \o w, c) /\ Brings(v \o w, c, a, b) /\ queue' = Rest \o (v \o w) \o Notice(c)
  BY <1>2, <1>5, <1>6, <1>7, OnlyForBoth, BringsBoth, Associates
<1>10. /\ Cutting(c) /\ Polls(c, e, a, b)
       /\ ch'[c].cls = ch[c].cls /\ ch'[c].kind = ch[c].kind /\ ch'[c].st = "bkOffHk"
       /\ ch'[c].task = None
  BY <1>1, <1>2, <1>9, TurnCuts
<1>11. LineInv(c)'
  BY <1>1, <1>2, <1>3, <1>7, <1>8, <1>10, TurnTyped, HangsLine
<1> QED BY <1>10, <1>11 DEF Good

\* The line's object changes and nothing else does.
LEMMA BecomeKeeps ==
  ASSUME NEW c, NEW e, Turn(c, e), NEW r, Become(c, r), r.task = ch[c].task,
         ch[c].task # None => /\ r.cls = ch[c].cls /\ r.kind = ch[c].kind
                              /\ ch[c].cls = "talk" => r.st = "RcvTalk"
  PROVE  /\ Keeping(c) /\ Polls(c, e, "none", "none")
         /\ ch'[c] = r /\ sock'[c] = sock[c] /\ board'[c] = board[c]
         /\ playing'[c] = playing[c] /\ asked'[c] = asked[c]
<1>1. /\ ch' = [ch EXCEPT ![c] = r] /\ queue' = Rest
      /\ sock' = sock /\ board' = board /\ playing' = playing
  BY DEF Become
<1>2. ch'[c] = r /\ asked'[c] = asked[c] /\ \A x \in Lines \ {c} : Still(x)
  BY <1>1, TurnTyped, Typed DEF Still
<1>3. Polls(c, e, "none", "none") /\ \E u : queue' = Rest \o u /\ OnlyFor(u, c)
  BY <1>1, TurnRest
<1> QED BY <1>1, <1>2, <1>3 DEF Keeping

\* bkIdle_init.  A line that becomes idle has no link.
LEMMA IdleGood ==
  ASSUME NEW c, NEW e, Turn(c, e), bkIdle_init(c),
         e = "STANDBY" \/ (ch[c].st = "bkIdle" /\ e \notin {"PENDING", "RxPhoNum", "PICKUPED"})
  PROVE  Good(c)
<1> DEFINE r == [NewObject EXCEPT !.closing = ch[c].lib]
<1>1. /\ r.cls = "base" /\ r.kind = NoCall /\ r.st = "bkIdle" /\ r.task = None
      /\ r.timer = "off"
  BY Zenon DEF NewObject, NoCall
<1>2. ch[c].task = None
  <2>1. LineInv(c) /\ Queued(c, e) /\ e \in Events /\ Classed(c)
    BY TurnTyped DEF Turn
  <2>2. CASE e = "STANDBY"
    BY <2>1, <2>2 DEF LineInv, Linking, Closing, InCall, CallLegs, OnCall
  <2>3. CASE ch[c].st = "bkIdle" /\ e \notin {"PENDING", "RxPhoNum", "PICKUPED"}
    BY <2>1, <2>3 DEF LineInv, Picked
  <2> QED BY <2>2, <2>3
<1>3. Become(c, r)
  BY DEF bkIdle_init
<1> HIDE DEF r
<1>4. /\ Keeping(c) /\ Polls(c, e, "none", "none")
      /\ ch'[c] = r /\ sock'[c] = sock[c] /\ board'[c] = board[c]
      /\ playing'[c] = playing[c] /\ asked'[c] = asked[c]
  BY <1>1, <1>2, <1>3, BecomeKeeps
<1>5. LineInv(c) /\ c \in Lines /\ e \in Events /\ (ch[c].st = "bkIdle" => ch[c].cls = "base")
  BY TurnTyped DEF Turn, Classed
<1>6. LineInv(c)'
  BY <1>1, <1>4, <1>5, IdlesLine
<1> QED BY <1>4, <1>6 DEF Good

\* ChkDTSignal: what a state without a rule of its own for e does.
LEMMA SignalGood ==
  ASSUME NEW c, NEW e, Turn(c, e),
         \/ e \in {"UNAVAIL", "RESET"}
         \/ e = "STANDBY" /\ bkIdle_init(c)
         \/ OffHook(c, "bkOffHk")
         \/ Good(c)
  PROVE  Good(c)
BY TurnSound, IdleGood, HangGood DEF OffHook

\* seiConfm_init.
LEMMA ConfirmGood ==
  ASSUME NEW c, NEW e, Turn(c, e), seiConfm_init(c), ch[c].cls = "base",
         \/ ch[c].st = "bkIdle" /\ e \in {"PENDING", "RxPhoNum"}
         \/ ch[c].st = "seiConfm" /\ e # "STANDBY"
  PROVE  Good(c)
<1> DEFINE r == [ch[c] EXCEPT !.st = "seiConfm", !.reserved = {}, !.timer = "on"]
<1>1. /\ r.cls = ch[c].cls /\ r.kind = ch[c].kind /\ r.st = "seiConfm" /\ r.task = ch[c].task
      /\ "busy" \notin r.reserved
  BY TurnTyped DEF Objects
<1>2. Become(c, r)
  BY DEF seiConfm_init
<1> HIDE DEF r
<1>3. /\ Keeping(c) /\ Polls(c, e, "none", "none")
      /\ ch'[c] = r /\ sock'[c] = sock[c] /\ board'[c] = board[c]
      /\ playing'[c] = playing[c] /\ asked'[c] = asked[c]
  BY <1>1, <1>2, BecomeKeeps
<1>4. LineInv(c) /\ c \in Lines /\ e \in Events
  BY TurnTyped
<1>5. LineInv(c)'
  BY <1>1, <1>3, <1>4, ConfirmsLine DEF Busy
<1> QED BY <1>3, <1>5 DEF Good

\* FeeLogin_init, as far as the object and the socket go.
LEMMA LoginKeeps ==
  ASSUME NEW c, NEW e, Turn(c, e), NEW r \in Objects, LoginAs(c, r), r.task = ch[c].task,
         r.cls = ch[c].cls, ch[c].task # None => r.kind = ch[c].kind, ch[c].st # "RcvTalk",
         \A x \in Lines \ {c} : board'[x] = board[x], playing' = playing,
         NEW u, queue' = Rest \o u, OnlyFor(u, c)
  PROVE  /\ Keeping(c)
         /\ ch'[c].cls = ch[c].cls /\ ch'[c].kind = r.kind /\ ch'[c].st = "FeeLogin"
         /\ ch'[c].task = ch[c].task /\ Busy(c)'
         /\ ch'[c].timer = IF "busy" \in r.reserved THEN r.timer ELSE "on"
         /\ \/ sock'[c] = sock[c]
            \/ /\ "busy" \notin r.reserved /\ sock[c] = "none"
               /\ sock'[c] \in {"none", "connecting"}
         /\ playing'[c] = playing[c] /\ asked'[c] = asked[c]
<1> DEFINE t == IF "busy" \in r.reserved THEN r.timer ELSE "on"
           q == [r EXCEPT !.st = "FeeLogin", !.reserved = @ \cup {"busy"}, !.timer = t]
<1>1. /\ q.cls = r.cls /\ q.kind = r.kind /\ q.st = "FeeLogin" /\ q.task = r.task
      /\ "busy" \in q.reserved /\ q.timer = t
  BY DEF Objects
<1>2. ch' = [ch EXCEPT ![c] = q]
  BY DEF LoginAs, Objects
<1>3. PICK s : /\ sock' = [sock EXCEPT ![c] = s]
               /\ \/ s = sock[c]
                  \/ "busy" \notin r.reserved /\ sock[c] = "none" /\ s \in {"none", "connecting"}
  BY TurnTyped, Typed DEF LoginAs
<1> HIDE DEF q
<1>4. /\ ch'[c] = q /\ sock'[c] = s /\ playing'[c] = playing[c] /\ asked'[c] = asked[c]
      /\ \A x \in Lines \ {c} : Still(x)
  BY <1>2, <1>3, TurnTyped, Typed DEF Still
<1>5. Keeping(c)
  BY <1>1, <1>4, TurnSound DEF Keeping
<1> QED BY <1>1, <1>3, <1>4, <1>5 DEF Busy

\* FeeLogin_init.
LEMMA FeeLoginKeeps ==
  ASSUME NEW c, NEW e, Turn(c, e), NEW r \in Objects, FeeLogin_init(c, r), r.task = ch[c].task,
         r.cls = ch[c].cls, ch[c].task # None => r.kind = ch[c].kind, ch[c].st # "RcvTalk"
  PROVE  /\ Keeping(c) /\ Polls(c, e, "none", "none")
         /\ ch'[c].cls = ch[c].cls /\ ch'[c].kind = r.kind /\ ch'[c].st = "FeeLogin"
         /\ ch'[c].task = ch[c].task /\ Busy(c)'
         /\ ch'[c].timer = IF "busy" \in r.reserved THEN r.timer ELSE "on"
         /\ \/ sock'[c] = sock[c]
            \/ /\ "busy" \notin r.reserved /\ sock[c] = "none"
               /\ sock'[c] \in {"none", "connecting"}
         /\ board'[c] = board[c] /\ playing'[c] = playing[c] /\ asked'[c] = asked[c]
<1>1. LoginAs(c, r) /\ playing' = playing /\ queue' = Rest /\ board' = board
  BY DEF FeeLogin_init
<1>2. PICK u : queue' = Rest \o u /\ OnlyFor(u, c)
  BY <1>1, TurnRest
<1> QED BY <1>1, <1>2, LoginKeeps, TurnRest

\* CChannel::bkIdle.
LEMMA bkIdleGood ==
  ASSUME NEW c, NEW e, Turn(c, e), bkIdle(c, e)
  PROVE  Good(c)
<1>1. ch[c].st = "bkIdle" /\ ch[c].cls = "base" /\ LineInv(c) /\ c \in Lines /\ e \in Events
  BY TurnTyped DEF bkIdle, Turn, Classed
<1>2. CASE e \in {"PENDING", "RxPhoNum"}
  <2>1. seiConfm_init(c) \/ OffHook(c, "bkOffHk")
    BY <1>2, SettingsAssumption DEF bkIdle, FeeEnds
  <2> QED BY <1>1, <1>2, <2>1, ConfirmGood, HangGood DEF OffHook
<1>3. CASE e = "PICKUPED"
  <2> DEFINE r == [ch[c] EXCEPT !.reserved = {}]
  <2>1. /\ r \in Objects /\ r.cls = ch[c].cls /\ r.kind = ch[c].kind /\ r.task = ch[c].task
        /\ r.reserved = {}
    <3>1. ch[c] \in Objects
      BY TurnTyped
    <3> QED BY <3>1 DEF Objects
  <2>2. FeeLogin_init(c, r)
    BY <1>3 DEF bkIdle, FeeEnds
  <2> HIDE DEF r
  <2>3. /\ Keeping(c) /\ Polls(c, e, "none", "none")
        /\ ch'[c].cls = ch[c].cls /\ ch'[c].kind = ch[c].kind /\ ch'[c].st = "FeeLogin"
        /\ ch'[c].task = ch[c].task /\ Busy(c)' /\ ch'[c].timer = "on"
        /\ sock'[c] = sock[c] \/ (sock[c] = "none" /\ sock'[c] = "connecting")
        /\ board'[c] = board[c] /\ playing'[c] = playing[c] /\ asked'[c] = asked[c]
    BY <1>1, <2>1, <2>2, FeeLoginKeeps
  <2>4. LineInv(c)'
    BY <1>1, <1>3, <2>3, PicksLine
  <2> QED BY <2>3, <2>4 DEF Good
<1>4. CASE e \notin {"PENDING", "RxPhoNum", "PICKUPED"}
  <2>1. e \notin {"UNAVAIL", "RESET"}
    BY TurnSound
  <2>2. bkIdle_init(c)
    BY <1>4, <2>1 DEF bkIdle, ChkDTSignal
  <2> QED BY <1>1, <1>4, <2>2, IdleGood
<1> QED BY <1>2, <1>3, <1>4

\* CChannel::seiConfm.
LEMMA seiConfmGood ==
  ASSUME NEW c, NEW e, Turn(c, e), seiConfm(c, e)
  PROVE  Good(c)
<1>1. ch[c].st = "seiConfm" /\ LineInv(c) /\ c \in Lines /\ e \in Events
  BY TurnTyped DEF seiConfm
<1>2. ch[c].cls = "base" /\ ch[c].task = None
  BY <1>1 DEF LineInv, Sound, Linking
<1>3. CASE e = "TIMEOUT"
  <2> DEFINE r == [ch[c] EXCEPT !.kind = "CATK"]
  <2>1. /\ r \in Objects /\ r.cls = ch[c].cls /\ r.kind = "CATK" /\ r.task = ch[c].task
        /\ r.reserved = ch[c].reserved
    <3>1. ch[c] \in Objects
      BY TurnTyped
    <3> QED BY <3>1 DEF Objects, Kinds
  <2>2. FeeLogin_init(c, r)
    BY <1>3 DEF seiConfm
  <2> HIDE DEF r
  <2>3. /\ Keeping(c) /\ Polls(c, e, "none", "none")
        /\ ch'[c].cls = ch[c].cls /\ ch'[c].kind = "CATK" /\ ch'[c].st = "FeeLogin"
        /\ ch'[c].task = ch[c].task /\ Busy(c)' /\ (Busy(c) \/ ch'[c].timer = "on")
        /\ sock'[c] \in {sock[c], "connecting"}
        /\ board'[c] = board[c] /\ playing'[c] = playing[c] /\ asked'[c] = asked[c]
    BY <1>1, <1>2, <2>1, <2>2, FeeLoginKeeps DEF Busy
  <2>4. LineInv(c)'
    BY <1>1, <1>3, <2>3, AsksLine
  <2> QED BY <2>3, <2>4 DEF Good
<1>4. CASE e = "PENDING"
  <2>1. seiConfm_init(c)
    BY <1>4 DEF seiConfm
  <2> QED BY <1>1, <1>2, <1>4, <2>1, ConfirmGood
<1>5. CASE e \notin {"TIMEOUT", "PENDING"}
  <2>1. ChkDTSignal(c, e, seiConfm_init(c))
    BY <1>5 DEF seiConfm
  <2>2. e # "STANDBY" /\ seiConfm_init(c) => Good(c)
    BY <1>1, <1>2, ConfirmGood
  <2> QED BY <1>5, <2>1, <2>2, SignalGood DEF ChkDTSignal
<1> QED BY <1>3, <1>4, <1>5

\* The S_FEE_Connected branch of FeeLogin: the line rings, or dials.
LEMMA FeeConnectedGood ==
  ASSUME NEW c, NEW e, Turn(c, e), ch[c].st = "FeeLogin", e = "FeeConn", FeeConnected(c)
  PROVE  Good(c)
<1>1. /\ LineInv(c) /\ c \in Lines /\ e \in Events /\ ch[c] \in Objects
      /\ ch[c].cls \in {"base", "talk", "dialer"}
  BY TurnTyped, TurnSound
<1>2. CASE ch[c].cls = "dialer" \/ (ch[c].cls = "talk" /\ board[c] = "picked")
  <2>1. WaitDial_init(c)
    BY <1>2 DEF FeeConnected
  <2>2. PICK local \in Prefixes :
          ch' = [ch EXCEPT ![c].st = "WaitDial", ![c].reserved = {"busy"},
                           ![c].timer = IF local THEN "off" ELSE "on"]
    BY <2>1 DEF WaitDial_init
  <2> DEFINE t == IF local THEN "off" ELSE "on"
             r == [ch[c] EXCEPT !.st = "WaitDial", !.reserved = {"busy"}, !.timer = t]
  <2>3. r.cls = ch[c].cls /\ r.kind = ch[c].kind /\ r.task = ch[c].task /\ r.st = "WaitDial"
    BY <1>1 DEF Objects
  <2>4. ch'[c] = r /\ \A x \in Lines \ {c} : ch'[x] = ch[x]
    BY <1>1, <2>2, TurnTyped, Typed DEF Objects
  <2> HIDE DEF r
  <2>5. /\ sock' = sock /\ playing' = playing /\ queue' = Rest
        /\ board'[c] = IF board[c] = "picked" THEN "dialing" ELSE board[c]
        /\ \A x \in Lines \ {c} : board'[x] = board[x]
    BY <1>1, <2>1, TurnTyped, Typed DEF WaitDial_init
  <2>6. \A x \in Lines \ {c} : Still(x)
    BY <2>4, <2>5 DEF Still
  <2>7. Polls(c, e, "none", "none") /\ \E u : queue' = Rest \o u /\ OnlyFor(u, c)
    BY <2>5, TurnRest
  <2>8. Keeping(c)
    BY <2>3, <2>4, <2>6, <2>7, TurnSound DEF Keeping
  <2>9. LineInv(c)'
    BY <1>1, <1>2, <2>3, <2>4, <2>5, <2>7, TurnTyped, DialsLine
  <2> QED BY <2>8, <2>9 DEF Good
<1>3. CASE ~(ch[c].cls = "dialer" \/ (ch[c].cls = "talk" /\ board[c] = "picked"))
  <2> DEFINE r == [ch[c] EXCEPT !.timer = "off"]
             b == IF board[c] = "incoming" THEN "RINGING" ELSE "none"
             v == PostIf(ch[c].cls = "talk" /\ board[c] = "talking", c, "RINGING")
  <2>1. /\ r \in Objects /\ r.cls = ch[c].cls /\ r.kind = ch[c].kind /\ r.task = ch[c].task
        /\ r.reserved = ch[c].reserved
    BY <1>1 DEF Objects
  <2>2. LoginAs(c, r) /\ SetKB(c) /\ queue' = Rest \o v \o Ringing(c) /\ playing' = playing
    BY <1>3 DEF FeeConnected
  <2>3. v = <<>>
    <3>1. ~(ch[c].cls = "talk" /\ board[c] = "talking")
      BY <1>1 DEF LineInv, Login
    <3> QED BY <3>1 DEF PostIf
  <2>4. OnlyFor(Ringing(c), c) /\ Brings(Ringing(c), c, b, "none")
    BY <1>1, OnlyForPost DEF Ringing, Rings, Events, ChStates
  <2>5. queue' = Rest \o Ringing(c)
    BY <2>2, <2>3, TurnTyped
  <2>6. /\ board'[c] = IF board[c] = "incoming" THEN "ringing" ELSE board[c]
        /\ \A x \in Lines \ {c} : board'[x] = board[x]
    BY <1>1, <2>2, TurnTyped, Typed DEF SetKB, Rings
  <2> HIDE DEF r, v
  <2>7. /\ Keeping(c)
        /\ ch'[c].cls = ch[c].cls /\ ch'[c].kind = ch[c].kind /\ ch'[c].st = "FeeLogin"
        /\ ch'[c].task = ch[c].task /\ Busy(c)' /\ (Busy(c) \/ ch'[c].timer = "on")
        /\ \/ sock'[c] = sock[c]
           \/ ~Busy(c) /\ sock[c] = "none" /\ sock'[c] \in {"none", "connecting"}
        /\ playing'[c] = playing[c] /\ asked'[c] = asked[c]
    <3>1. /\ Keeping(c)
          /\ ch'[c].cls = ch[c].cls /\ ch'[c].kind = r.kind /\ ch'[c].st = "FeeLogin"
          /\ ch'[c].task = ch[c].task /\ Busy(c)'
          /\ ch'[c].timer = IF "busy" \in r.reserved THEN r.timer ELSE "on"
          /\ \/ sock'[c] = sock[c]
             \/ /\ "busy" \notin r.reserved /\ sock[c] = "none"
                /\ sock'[c] \in {"none", "connecting"}
          /\ playing'[c] = playing[c] /\ asked'[c] = asked[c]
      BY <2>1, <2>2, <2>4, <2>5, <2>6, LoginKeeps
    <3>2. Busy(c) <=> "busy" \in r.reserved
      BY <2>1 DEF Busy
    <3> QED BY <2>1, <3>1, <3>2
  <2>8. Polls(c, e, b, "none")
    BY <2>4, <2>5, TurnPolls
  <2>9. LineInv(c)'
    BY <1>1, <1>3, <2>6, <2>7, <2>8, RingsLine
  <2> QED BY <2>7, <2>9 DEF Good
<1> QED BY <1>2, <1>3

\* The branches of FeeLogin for a refused call.
LEMMA FeeRefusedGood ==
  ASSUME NEW c, NEW e, Turn(c, e), ch[c].st = "FeeLogin", e \in {"FeeNoPay", "FeeCallBack"},
         NEW code, FeeRefused(c, code)
  PROVE  Good(c)
<1> DEFINE r == [ch[c] EXCEPT !.st = "ExitPlay", !.timer = "off", !.exit = code]
           q == [r EXCEPT !.reserved = {"busy"}]
           b == IF board[c] = "incoming" THEN "RINGING" ELSE "none"
<1>1. LineInv(c) /\ c \in Lines /\ e \in Events /\ ch[c] \in Objects
  BY TurnTyped
<1>2. q.cls = ch[c].cls /\ q.kind = ch[c].kind /\ q.task = ch[c].task /\ q.st = "ExitPlay"
  BY <1>1 DEF Objects
<1>3. ch'[c] = q /\ \A x \in Lines \ {c} : ch'[x] = ch[x] /\ playing'[x] = playing[x]
  BY <1>1, TurnTyped, Typed DEF FeeRefused, Prompt
<1> HIDE DEF q
<1>4. sock' = sock /\ queue' = Rest \o Ringing(c)
  BY DEF FeeRefused
<1>5. /\ board'[c] = IF board[c] = "incoming" THEN "ringing" ELSE board[c]
      /\ \A x \in Lines \ {c} : board'[x] = board[x]
  BY <1>1, TurnTyped, Typed DEF FeeRefused, SetKB, Rings
<1>6. OnlyFor(Ringing(c), c) /\ Brings(Ringing(c), c, b, "none")
  BY <1>1, OnlyForPost DEF Ringing, Rings, Events, ChStates
<1>7. Polls(c, e, b, "none")
  BY <1>4, <1>6, TurnPolls
<1>8. Keeping(c)
  <2>1. \A x \in Lines \ {c} : Still(x)
    BY <1>3, <1>4, <1>5 DEF Still
  <2> QED BY <1>2, <1>3, <1>4, <1>6, <2>1, TurnSound DEF Keeping
<1>9. LineInv(c)'
  BY <1>1, <1>2, <1>3, <1>4, <1>5, <1>7, TurnTyped, RefusedLine
<1> QED BY <1>8, <1>9 DEF Good

\* rcvMFsig_init.
LEMMA AnswerGood ==
  ASSUME NEW c, NEW e, Turn(c, e), rcvMFsig_init(c),
         \/ ch[c].st = "FeeLogin" /\ e = "RINGING"
         \/ ch[c].st = "rcvMFsig" /\ e \notin {"TALKING", "STANDBY", "PENDING"}
  PROVE  Good(c)
<1> DEFINE t == IF ch[c].st = "FeeLogin" THEN "off" ELSE ch[c].timer
           r == [ch[c] EXCEPT !.st = "rcvMFsig", !.reserved = {}, !.timer = t]
           b == CASE board[c] = "ringing" \/ (ch[c].cls = "talk" /\ board[c] = "talking") -> "TALKING"
                  [] board[c] = "standby" -> "PICKUPED" [] OTHER -> "none"
           u == PostIf(b # "none", c, b)
<1>1. LineInv(c) /\ c \in Lines /\ e \in Events /\ ch[c] \in Objects
  BY TurnTyped
<1>2. r.cls = ch[c].cls /\ r.kind = ch[c].kind /\ r.task = ch[c].task /\ r.st = "rcvMFsig"
  BY <1>1 DEF Objects
<1>3. ch'[c] = r /\ \A x \in Lines \ {c} : ch'[x] = ch[x]
  <2>1. ch' = [ch EXCEPT ![c] = r]
    BY DEF rcvMFsig_init
  <2> HIDE DEF r
  <2> QED BY <1>1, <2>1, TurnTyped, Typed
<1> HIDE DEF r
<1>4. sock' = sock /\ playing' = playing
  BY DEF rcvMFsig_init
<1>5. /\ board'[c] = CASE board[c] = "ringing" -> "talking" [] board[c] = "standby" -> "picked"
                       [] OTHER -> board[c]
      /\ \A x \in Lines \ {c} : board'[x] = board[x]
  BY <1>1, TurnTyped, Typed DEF rcvMFsig_init
<1>6. queue' = Rest \o u
  <2>1. Rest = Rest \o <<>>
    BY TurnTyped
  <2>2. CASE b = "TALKING"
    BY <2>2 DEF rcvMFsig_init, PostIf
  <2>3. CASE b = "PICKUPED"
    BY <2>3 DEF rcvMFsig_init, PostIf
  <2>4. CASE b = "none"
    BY <2>1, <2>4 DEF rcvMFsig_init, PostIf
  <2> QED BY <2>2, <2>3, <2>4
<1>7. OnlyFor(u, c) /\ Brings(u, c, b, "none")
  <2>1. CASE b = "none"
    BY <2>1, BringsNothing, OnlyForNothing DEF PostIf
  <2>2. CASE b # "none"
    <3>1. b \in Events
      BY <2>2 DEF Events, ChStates
    <3> HIDE DEF b
    <3> QED BY <1>1, <2>2, <3>1, OnlyForPost
  <2> QED BY <2>1, <2>2
<1> HIDE DEF u
<1>8. Polls(c, e, b, "none")
  BY <1>6, <1>7, TurnPolls
<1>9. Keeping(c)
  <2>1. \A x \in Lines \ {c} : Still(x)
    BY <1>3, <1>4, <1>5 DEF Still
  <2> QED BY <1>2, <1>3, <1>6, <1>7, <2>1, TurnSound DEF Keeping
<1>10. LineInv(c)'
  BY <1>1, <1>2, <1>3, <1>4, <1>5, <1>8, TurnTyped, TurnSound, AnswersLine
<1> QED BY <1>9, <1>10 DEF Good

\* CChannel::FeeLogin.
LEMMA FeeLoginGood ==
  ASSUME NEW c, NEW e, Turn(c, e), FeeLogin(c, e)
  PROVE  Good(c)
<1>1. ch[c].st = "FeeLogin" /\ LineInv(c) /\ c \in Lines /\ e \in Events /\ ch[c] \in Objects
  BY TurnTyped DEF FeeLogin
<1>2. CASE e \in {"RINGING", "FeeConn", "FeeNoPay", "FeeCallBack", "TIMEOUT"}
  BY <1>1, <1>2, AnswerGood, FeeConnectedGood, FeeRefusedGood, HangGood DEF FeeLogin
<1>3. CASE e \notin {"RINGING", "FeeConn", "FeeNoPay", "FeeCallBack", "TIMEOUT"}
  <2>1. ChkDTSignal(c, e, FeeLogin_init(c, ch[c]))
    BY <1>3 DEF FeeLogin
  <2>2. ASSUME FeeLogin_init(c, ch[c]), e \notin {"UNAVAIL", "RESET", "STANDBY", "PENDING", "FeeDisc"}
        PROVE  Good(c)
    <3>1. /\ Keeping(c) /\ Polls(c, e, "none", "none")
          /\ ch'[c].cls = ch[c].cls /\ ch'[c].kind = ch[c].kind /\ ch'[c].st = "FeeLogin"
          /\ ch'[c].task = ch[c].task /\ Busy(c)'
          /\ ch'[c].timer = IF Busy(c) THEN ch[c].timer ELSE "on"
          /\ \/ sock'[c] = sock[c]
             \/ ~Busy(c) /\ sock[c] = "none" /\ sock'[c] \in {"none", "connecting"}
          /\ board'[c] = board[c] /\ playing'[c] = playing[c] /\ asked'[c] = asked[c]
      BY <1>1, <2>2, FeeLoginKeeps DEF Busy
    <3>2. e \in {"PICKUPED", "TALKING", "RxPhoNum", "PlayEnd", "#", "*"}
      BY <1>1, <1>3, <2>2 DEF Events, ChStates, FeeEnds
    <3>3. LineInv(c)'
      BY <1>1, <3>1, <3>2, AsksAgainLine
    <3> QED BY <3>1, <3>3 DEF Good
  <2> QED BY <2>1, <2>2, SignalGood DEF ChkDTSignal, FeeEnds
<1> QED BY <1>2, <1>3

\* A call goes on, and the caller's leg posts a to itself.
LEMMA CallGood ==
  ASSUME NEW c, NEW e, Turn(c, e), ch[c].st \in CallLegs, e # "STANDBY",
         ch[c].cls # "talk" => e # "PENDING",
         ch'[c].cls = ch[c].cls, ch'[c].kind = ch[c].kind, ch'[c].st \in CallLegs,
         ch'[c].task = ch[c].task,
         ch[c].cls = "talk" /\ ch[c].task # None => ch'[c].st = "RcvTalk",
         sock'[c] = sock[c] \/ (sock[c] = "bound" /\ sock'[c] = "talk"),
         board'[c] = board[c], \A x \in Lines \ {c} : Still(x),
         NEW a \in {"none", "TALKING", "#"}, a # "none" => ch[c].cls = "talk",
         queue' = Rest \o PostIf(a # "none", c, a)
  PROVE  Good(c)
<1> DEFINE u == PostIf(a # "none", c, a)
<1>1. LineInv(c) /\ c \in Lines /\ e \in Events /\ asked'[c] = asked[c]
  BY TurnTyped
<1>2. OnlyFor(u, c) /\ Brings(u, c, a, "none")
  <2>1. CASE a = "none"
    BY <2>1, BringsNothing, OnlyForNothing DEF PostIf
  <2>2. CASE a # "none"
    <3>1. a \in Events
      BY <2>2 DEF Events, ChStates
    <3> QED BY <1>1, <2>2, <3>1, OnlyForPost
  <2> QED BY <2>1, <2>2
<1>3. queue' = Rest \o u
  OBVIOUS
<1> HIDE DEF u
<1>4. Polls(c, e, a, "none")
  BY <1>2, <1>3, TurnPolls
<1>5. Keeping(c)
  BY <1>2, <1>3 DEF Keeping
<1>6. LineInv(c)'
  BY <1>1, <1>4, TurnSound, CallLine
<1> QED BY <1>5, <1>6 DEF Good

\* The caller's leg goes on without an event of its own.
LEMMA QuietCallGood ==
  ASSUME NEW c, NEW e, Turn(c, e), ch[c].st \in CallLegs, e # "STANDBY",
         ch[c].cls # "talk" => e # "PENDING",
         ch'[c].cls = ch[c].cls, ch'[c].kind = ch[c].kind, ch'[c].st \in CallLegs,
         ch'[c].task = ch[c].task,
         ch[c].cls = "talk" /\ ch[c].task # None => ch'[c].st = "RcvTalk",
         sock'[c] = sock[c] \/ (sock[c] = "bound" /\ sock'[c] = "talk"),
         board'[c] = board[c], \A x \in Lines \ {c} : Still(x), queue' = Rest
  PROVE  Good(c)
<1>1. queue' = Rest \o PostIf("none" # "none", c, "none")
  BY TurnTyped DEF PostIf
<1> HIDE DEF Good
<1> QED BY <1>1, CallGood

\* A line that dials, plays a prompt to its end or is in a call takes no notice.
LEMMA StayGood ==
  ASSUME NEW c, NEW e, Turn(c, e), Stay(c), e \notin {"STANDBY", "PENDING"},
         ch[c].st \in {"WaitDial", "ExitPlay"} \cup CallLegs,
         ch[c].st = "WaitDial" => e # "TALKING"
  PROVE  Good(c)
<1>1. LineInv(c) /\ c \in Lines /\ e \in Events
  BY TurnTyped
<1>2. /\ Keeping(c) /\ Polls(c, e, "none", "none")
      /\ ch'[c] = ch[c] /\ sock'[c] = sock[c] /\ board'[c] = board[c]
      /\ playing'[c] = playing[c] /\ asked'[c] = asked[c]
  BY BecomeKeeps, TurnSound DEF Stay
<1>3. CASE ch[c].st \in CallLegs
  <2>1. ch[c].cls = "talk" /\ ch[c].task # None => ch[c].st = "RcvTalk"
    BY TurnSound
  <2>2. LineInv(c)'
    BY <1>1, <1>2, <1>3, <2>1, TurnSound, CallLine
  <2> QED BY <1>2, <2>2 DEF Good
<1>4. CASE ch[c].st \in {"WaitDial", "ExitPlay"}
  <2>1. LineInv(c)'
    BY <1>1, <1>2, <1>4, TurnSound, WaitsLine
  <2> QED BY <1>2, <2>1 DEF Good
<1> QED BY <1>3, <1>4

\* RcvTalk_init of each class.
LEMMA TalkGood ==
  ASSUME NEW c, NEW e, Turn(c, e), RcvTalk_init(c),
         \/ ch[c].st \in {"rcvMFsig", "WaitDial"} /\ e = "TALKING"
         \/ ch[c].st = "RcvTalk" /\ ch[c].cls = "base" /\ e \notin {"STANDBY", "PENDING"}
  PROVE  Good(c)
<1> DEFINE s == IF ch[c].cls = "talk" THEN "FwdPlay" ELSE "RcvTalk"
           v == IF ch[c].cls = "base" THEN {} ELSE {"busy"}
           t == IF ch[c].st = "WaitDial" THEN "off" ELSE ch[c].timer
           r == [ch[c] EXCEPT !.st = s, !.reserved = v, !.timer = t]
<1>1. LineInv(c) /\ c \in Lines /\ e \in Events /\ ch[c] \in Objects /\ asked'[c] = asked[c]
  BY TurnTyped
<1>2. r.cls = ch[c].cls /\ r.kind = ch[c].kind /\ r.task = ch[c].task /\ r.st = s
  BY <1>1 DEF Objects
<1>3. ch' = [ch EXCEPT ![c] = r]
  BY DEF RcvTalk_init
<1> HIDE DEF r
<1>4. ch'[c] = r /\ \A x \in Lines \ {c} : ch'[x] = ch[x]
  BY <1>1, <1>3, TurnTyped, Typed
<1>5. /\ queue' = Rest /\ board' = board
      /\ sock'[c] = IF sock[c] = "bound" THEN "talk" ELSE sock[c]
      /\ \A x \in Lines \ {c} : sock'[x] = sock[x] /\ playing'[x] = playing[x]
  BY <1>1, TurnTyped, Typed DEF RcvTalk_init, Billed
<1>6. \A x \in Lines \ {c} : Still(x)
  BY <1>4, <1>5 DEF Still
<1>7. CASE ch[c].st \in {"rcvMFsig", "WaitDial"} /\ e = "TALKING"
  <2>1. Polls(c, e, "none", "none") /\ \E u : queue' = Rest \o u /\ OnlyFor(u, c)
    BY <1>5, TurnRest
  <2>2. Keeping(c)
    BY <1>2, <1>4, <1>6, <1>7, <2>1, TurnSound DEF Keeping
  <2>3. LineInv(c)'
    BY <1>1, <1>2, <1>4, <1>5, <1>7, <2>1, TalksLine
  <2> QED BY <2>2, <2>3 DEF Good
<1>8. CASE ch[c].st = "RcvTalk" /\ ch[c].cls = "base" /\ e \notin {"STANDBY", "PENDING"}
  BY <1>1, <1>2, <1>4, <1>5, <1>6, <1>8, QuietCallGood DEF CallLegs
<1> QED BY <1>7, <1>8

\* CChannel::rcvMFsig.
LEMMA rcvMFsigGood ==
  ASSUME NEW c, NEW e, Turn(c, e), rcvMFsig(c, e)
  PROVE  Good(c)
<1>1. ch[c].st = "rcvMFsig"
  BY DEF rcvMFsig
<1>2. CASE e = "TALKING"
  BY <1>1, <1>2, TalkGood DEF rcvMFsig
<1>3. CASE e # "TALKING"
  <2>1. ChkDTSignal(c, e, rcvMFsig_init(c))
    BY <1>3 DEF rcvMFsig
  <2>2. e \notin {"STANDBY", "PENDING"} /\ rcvMFsig_init(c) => Good(c)
    BY <1>1, <1>3, AnswerGood
  <2> QED BY <2>1, <2>2, SignalGood DEF ChkDTSignal, FeeEnds
<1> QED BY <1>2, <1>3

\* WaitDial of every class.
LEMMA WaitDialGood ==
  ASSUME NEW c, NEW e, Turn(c, e), WaitDial(c, e)
  PROVE  Good(c)
<1>1. ch[c].st = "WaitDial"
  BY DEF WaitDial
<1>2. CASE e \in {"TIMEOUT", "TALKING"}
  BY <1>1, <1>2, TalkGood, HangGood DEF WaitDial, OffHook
<1>3. CASE e \notin {"TIMEOUT", "TALKING"}
  <2>1. ChkDTSignal(c, e, Stay(c))
    BY <1>3 DEF WaitDial
  <2>2. e \notin {"STANDBY", "PENDING"} /\ Stay(c) => Good(c)
    BY <1>1, <1>3, StayGood
  <2> QED BY <2>1, <2>2, SignalGood DEF ChkDTSignal, FeeEnds
<1> QED BY <1>2, <1>3

\* CChannel::ExitPlay.
LEMMA ExitPlayGood ==
  ASSUME NEW c, NEW e, Turn(c, e), ExitPlay(c, e)
  PROVE  Good(c)
<1>1. ch[c].st = "ExitPlay"
  BY DEF ExitPlay
<1>2. CASE e = "PlayEnd"
  BY <1>1, <1>2, HangGood DEF ExitPlay, OffHook
<1>3. CASE e # "PlayEnd"
  <2>1. ChkDTSignal(c, e, Stay(c))
    BY <1>3 DEF ExitPlay
  <2>2. e \notin {"STANDBY", "PENDING"} /\ Stay(c) => Good(c)
    BY <1>1, StayGood
  <2> QED BY <2>1, <2>2, SignalGood DEF ChkDTSignal, FeeEnds
<1> QED BY <1>2, <1>3

\* bkOffHk; no line is in the states that follow a fault.
LEMMA ReleaseGood ==
  ASSUME NEW c, NEW e, Turn(c, e), bkOffHk(c, e) \/ bkFree(c, e) \/ ResetPcm(c, e)
  PROVE  Good(c)
<1>1. bkOffHk(c, e)
  BY TurnSound DEF bkFree, ResetPcm
<1>2. ChkDTSignal(c, e, OffHook(c, "bkOffHk"))
  BY <1>1 DEF bkOffHk
<1> QED BY <1>2, SignalGood DEF ChkDTSignal, FeeEnds

\* RcvLvTel_init: the caller is asked for the number he wants.
LEMMA AskedGood ==
  ASSUME NEW c, NEW e, Turn(c, e), ch[c].st \in {"FwdPlay", "RcvLvTel"}, e # "STANDBY",
         ch[c].cls = "talk", RcvLvTel_init(c)
  PROVE  Good(c)
<1> DEFINE r == [ch[c] EXCEPT !.st = "RcvLvTel"]
           q == [r EXCEPT !.reserved = {"busy"}]
<1>1. c \in Lines /\ ch[c] \in Objects
  BY TurnTyped
<1>2. q.cls = ch[c].cls /\ q.kind = ch[c].kind /\ q.task = ch[c].task /\ q.st = "RcvLvTel"
  BY <1>1 DEF Objects
<1>3. ch' = [ch EXCEPT ![c] = q] /\ playing' = [playing EXCEPT ![c] = TRUE]
      /\ sock' = sock /\ board' = board /\ queue' = Rest
  BY DEF RcvLvTel_init, Prompt
<1> HIDE DEF q
<1>4. ch'[c] = q /\ \A x \in Lines \ {c} : Still(x)
  BY <1>1, <1>3, TurnTyped, Typed DEF Still
<1>5. ch[c].task = None
  BY TurnSound
<1> QED BY <1>2, <1>3, <1>4, <1>5, QuietCallGood DEF CallLegs

\* CTalkChannel::FwdPlay and RcvLvTel.
LEMMA KeypadGood ==
  ASSUME NEW c, NEW e, Turn(c, e), FwdPlay(c, e) \/ RcvLvTel(c, e)
  PROVE  Good(c)
<1>1. /\ ch[c].st \in {"FwdPlay", "RcvLvTel"} /\ ch[c].cls = "talk" /\ ch[c].task = None
      /\ c \in Lines /\ ch[c] \in Objects
  BY TurnSound, TurnTyped DEF FwdPlay, RcvLvTel, Turn, Classed, Keypad
<1>2. e \notin {"STANDBY", "PENDING"} /\ Stay(c) => Good(c)
  BY <1>1, StayGood DEF CallLegs
<1>3. e # "STANDBY" /\ RcvLvTel_init(c) => Good(c)
  BY <1>1, AskedGood
<1>4. CASE FwdPlay(c, e)
  <2>1. CASE e = "PlayEnd"
    BY <1>3, <1>4, <2>1 DEF FwdPlay
  <2>2. CASE e # "PlayEnd"
    <3>1. ChkDTSignal(c, e, Stay(c))
      BY <1>4, <2>2 DEF FwdPlay
    <3> QED BY <1>2, <3>1, SignalGood DEF ChkDTSignal, FeeEnds
  <2> QED BY <2>1, <2>2
<1>5. CASE RcvLvTel(c, e)
  <2> DEFINE got == ch[c].reserved \cup (IF e = "PlayEnd" THEN {"played"} ELSE {})
                                   \cup (IF e = "#" THEN {"keyed"} ELSE {})
             r == [ch[c] EXCEPT !.reserved = got]
             q == [ch[c] EXCEPT !.st = "RcvUlTel", !.reserved = {"busy", "played"}]
  <2>1. CASE e = "*"
    BY <1>3, <1>5, <2>1 DEF RcvLvTel
  <2>2. ASSUME ch' = [ch EXCEPT ![c].st = "RcvUlTel", ![c].reserved = {"busy", "played"}],
               queue' = Rest \o Post(c, "#"), UNCHANGED <<sock, board, playing>>, e # "STANDBY"
        PROVE  Good(c)
    <3>1. q.cls = ch[c].cls /\ q.kind = ch[c].kind /\ q.task = ch[c].task /\ q.st = "RcvUlTel"
      BY <1>1 DEF Objects
    <3>2. ch'[c] = q /\ \A x \in Lines \ {c} : Still(x)
      <4>1. ch'[c] = q /\ \A x \in Lines \ {c} : ch'[x] = ch[x]
        BY <1>1, <2>2, TurnTyped, Typed
      <4> HIDE DEF q
      <4> QED BY <2>2, <4>1 DEF Still
    <3> HIDE DEF q
    <3>3. queue' = Rest \o PostIf("#" # "none", c, "#") /\ "#" # "none"
      BY <2>2 DEF PostIf
    <3>4. sock' = sock /\ board' = board
      BY <2>2
    <3> QED BY <1>1, <2>2, <3>1, <3>2, <3>3, <3>4, CallGood DEF CallLegs
  <2>3. ASSUME Become(c, r), e # "STANDBY" PROVE Good(c)
    <3>1. r.cls = ch[c].cls /\ r.kind = ch[c].kind /\ r.task = ch[c].task /\ r.st = ch[c].st
      BY <1>1 DEF Objects
    <3>2. ch' = [ch EXCEPT ![c] = r] /\ queue' = Rest
          /\ sock' = sock /\ board' = board /\ playing' = playing
      BY <2>3 DEF Become
    <3> HIDE DEF r
    <3>3. ch'[c] = r /\ \A x \in Lines \ {c} : Still(x)
      BY <1>1, <3>2, TurnTyped, Typed DEF Still
    <3> QED BY <1>1, <2>3, <3>1, <3>2, <3>3, QuietCallGood DEF CallLegs
  <2>4. CASE e = "STANDBY"
    <3>1. LineInv(c) /\ Queued(c, e)
      BY TurnTyped
    <3> QED BY <1>1, <2>4, <3>1 DEF LineInv, Closing, InCall, CallLegs, OnCall
  <2>5. CASE e \notin {"*", "STANDBY"}
    <3>1. \/ /\ ch' = [ch EXCEPT ![c].st = "RcvUlTel", ![c].reserved = {"busy", "played"}]
             /\ queue' = Rest \o Post(c, "#") /\ UNCHANGED <<sock, board, playing>>
          \/ ChkDTSignal(c, e, Become(c, r))
      BY <1>5, <2>5 DEF RcvLvTel
    <3> HIDE DEF r
    <3> QED BY <2>2, <2>3, <2>5, <3>1, SignalGood DEF ChkDTSignal, FeeEnds
  <2> QED BY <2>1, <2>4, <2>5
<1> QED BY <1>4, <1>5

\* RcvTalk of every class: the caller's leg goes back to the keypad when the other leg has
\* gone or he presses "*".
LEMMA RcvTalkGood ==
  ASSUME NEW c, NEW e, Turn(c, e), RcvTalk(c, e)
  PROVE  Good(c)
<1>1. ch[c].st = "RcvTalk" /\ LineInv(c) /\ c \in Lines /\ e \in Events /\ ch[c] \in Objects
  BY TurnTyped DEF RcvTalk
<1>2. CASE ch[c].cls = "talk" /\ (ch[c].task = None \/ e = "*")
  <2> DEFINE r == [ch[c] EXCEPT !.st = "RcvLvTel", !.reserved = {"busy"}]
             k == ch[c].task = None /\ e = "PENDING"
             a == IF k THEN "TALKING" ELSE "none"
             u == PostIf(k, c, "TALKING")
  <2>1. r \in Objects /\ r.cls = ch[c].cls /\ r.kind = ch[c].kind /\ r.st = "RcvLvTel"
    BY <1>1 DEF Objects, States
  <2>2. ch' = Unlinked(c, r) /\ playing' = [playing EXCEPT ![c] = TRUE]
        /\ sock' = sock /\ board' = board /\ queue' = Rest \o u \o Notice(c)
    BY <1>2 DEF RcvTalk
  <2>3. \A x \in Lines \ {c} : playing'[x] = playing[x]
    BY <1>1, <2>2, TurnTyped, Typed
  <2>4. OnlyFor(u, c) /\ Brings(u, c, a, "none")
    BY <1>1, OnlyForPost DEF Events, ChStates
  <2>5. a \in {"none", "TALKING", "#"}
    OBVIOUS
  <2> HIDE DEF r, a, u
  <2>6. /\ Cutting(c) /\ Polls(c, e, a, "none")
        /\ ch'[c].cls = ch[c].cls /\ ch'[c].kind = ch[c].kind /\ ch'[c].st = "RcvLvTel"
        /\ ch'[c].task = None
    BY <2>1, <2>2, <2>3, <2>4, TurnCuts
  <2>7. e # "STANDBY"
    BY <1>1, TurnTyped DEF LineInv, Closing, InCall, CallLegs, OnCall
  <2>8. LineInv(c)'
    BY <1>1, <1>2, <2>2, <2>5, <2>6, <2>7, TurnTyped, TurnSound, CallLine DEF CallLegs
  <2> QED BY <2>6, <2>8 DEF Good
<1>3. CASE ~(ch[c].cls = "talk" /\ (ch[c].task = None \/ e = "*"))
  <2>1. ChkDTSignal(c, e, IF ch[c].cls = "base" THEN RcvTalk_init(c) ELSE Stay(c))
    BY <1>3 DEF RcvTalk
  <2>2. e \notin {"STANDBY", "PENDING"} /\ ((RcvTalk_init(c) /\ ch[c].cls = "base") \/ Stay(c)) => Good(c)
    BY <1>1, TalkGood, StayGood DEF CallLegs
  <2>3. CASE ch[c].cls = "base"
    BY <2>1, <2>2, <2>3, SignalGood DEF ChkDTSignal, FeeEnds
  <2>4. CASE ch[c].cls # "base"
    BY <2>1, <2>2, <2>4, SignalGood DEF ChkDTSignal, FeeEnds
  <2> QED BY <2>3, <2>4
<1> QED BY <1>2, <1>3

\* CTalkChannel::RcvUlTel, when it takes no line.
LEMMA RcvUlTelGood ==
  ASSUME NEW c, NEW e, Turn(c, e), RcvUlTel(c, e)
  PROVE  \/ Good(c) /\ overlap' = overlap
         \/ ch[c].cls = "talk" /\ ch[c].st = "RcvUlTel" /\ \E d \in Lines : CallOut(c, d)
<1>1. /\ ch[c].st = "RcvUlTel" /\ ch[c].cls = "talk" /\ ch[c].task = None
      /\ LineInv(c) /\ c \in Lines /\ e \in Events /\ ch[c] \in Objects /\ Queued(c, e)
  BY TurnSound, TurnTyped DEF RcvUlTel, Turn, Classed, Keypad
<1>2. CASE e = "#" /\ NoLine(c)
  <2> DEFINE r == [ch[c] EXCEPT !.st = "ExitPlay", !.exit = "BUSY"]
             q == [r EXCEPT !.reserved = {"busy"}]
  <2>1. q.cls = ch[c].cls /\ q.kind = ch[c].kind /\ q.task = ch[c].task /\ q.st = "ExitPlay"
    BY <1>1 DEF Objects
  <2>2. ch' = [ch EXCEPT ![c] = q] /\ playing' = [playing EXCEPT ![c] = TRUE]
        /\ sock' = sock /\ board' = board /\ queue' = Rest /\ overlap' = overlap
    BY <1>2 DEF NoLine, Prompt
  <2> HIDE DEF q
  <2>3. ch'[c] = q /\ \A x \in Lines \ {c} : Still(x)
    BY <1>1, <2>2, TurnTyped, Typed DEF Still
  <2>4. Polls(c, e, "none", "none") /\ \E u : queue' = Rest \o u /\ OnlyFor(u, c)
    BY <2>2, TurnRest
  <2>5. Keeping(c)
    BY <1>1, <2>1, <2>3, <2>4 DEF Keeping
  <2>6. LineInv(c)'
    BY <1>1, <1>2, <2>1, <2>2, <2>3, <2>4, TurnTyped, TurnSound, WaitsLine DEF CallLegs
  <2> QED BY <2>2, <2>5, <2>6 DEF Good
<1>3. CASE e # "#"
  <2>1. ChkDTSignal(c, e, Stay(c)) /\ overlap' = overlap
    BY <1>3 DEF RcvUlTel
  <2>2. e \notin {"STANDBY", "PENDING"} /\ Stay(c) => Good(c)
    BY <1>1, StayGood DEF CallLegs
  <2>3. Good(c)
    BY <2>1, <2>2, SignalGood DEF ChkDTSignal, FeeEnds
  <2> QED BY <2>1, <2>3
<1>4. CASE e = "#" /\ ~NoLine(c)
  BY <1>1, <1>4 DEF RcvUlTel
<1> QED BY <1>2, <1>3, <1>4

\* Every handler.
LEMMA HandleGood ==
  ASSUME NEW c, NEW e, Turn(c, e), Handle(c, e)
  PROVE  \/ Good(c) /\ overlap' = overlap
         \/ ch[c].cls = "talk" /\ ch[c].st = "RcvUlTel" /\ \E d \in Lines : CallOut(c, d)
<1>1. CASE RcvUlTel(c, e)
  BY <1>1, RcvUlTelGood
<1>2. CASE ~RcvUlTel(c, e)
  <2>1. Good(c)
    BY <1>2, bkIdleGood, seiConfmGood, FeeLoginGood, rcvMFsigGood, RcvTalkGood, WaitDialGood,
       ExitPlayGood, ReleaseGood, KeypadGood DEF Handle
  <2>2. overlap' = overlap
    BY <1>2 DEF Handle, bkIdle, bkOffHk, bkFree, ResetPcm, seiConfm, FeeLogin, rcvMFsig,
       RcvTalk, WaitDial, ExitPlay, FwdPlay, RcvLvTel
  <2> QED BY <2>1, <2>2
<1> QED BY <1>1, <1>2

-----------------------------------------------------------------------------
(* The lines that are not polled *)

\* What holds of every line while no two calls overlap.
AllLines == \A x \in Lines : LineInv(x) /\ Paired(x) /\ Mutual(x) /\ Classed(x) /\ Dialled(x)

\* The types of an object and its link.
LEMMA ObjectTyped ==
  ASSUME TypeOK, NEW x \in Lines
  PROVE  /\ ch[x] \in Objects /\ x # None
         /\ ch[x].task \in Lines \cup {None} /\ ch[x].cls \in {"base"} \cup Services
<1>1. ch[x] \in Objects /\ x # None
  BY Typed DEF Lines, None
<1> QED BY <1>1 DEF Objects

\* What a line that is not polled finds in the queue: what the dialler passes on, if it is
\* his caller's, and what the handler has posted for it.
LEMMA AsideGets ==
  ASSUME NEW c, NEW e, Turn(c, e), NEW x \in Lines, x # c,
         NEW u, NEW a, Brings(u, x, a, "none"), queue' = Rest \o u
  PROVE  IF ch[c].cls = "dialer" /\ ch[c].st = "WaitDial" /\ e \in ChStates /\ ch[c].task = x
         THEN Gets(x, e, a) ELSE Gets(x, a, "none")
<1> DEFINE f == ch[c].cls = "dialer" /\ ch[c].st = "WaitDial" /\ e \in ChStates
           b == IF f /\ ch[c].task = x THEN e ELSE "none"
<1>1. /\ TypeOK /\ queue # <<>> /\ Head(queue).line # x /\ e \in Events /\ u \in Seq(Msgs)
      /\ ch[c].task \in Lines \cup {None}
  BY TurnTyped DEF Brings, Objects
<1>2. Forwarded = PostIf(f, ch[c].task, e) /\ f \in BOOLEAN
  BY TurnTyped DEF Forwarded
<1> HIDE DEF f
<1>3. Brings(Forwarded, x, b, "none")
  BY <1>1, <1>2, BringsPost
<1>4. /\ Left(Tail(queue)) /\ queue' = Tail(queue) \o (Forwarded \o u)
  BY <1>1, PollQueue
<1>5. CASE b = "none"
  <2>1. Brings(Forwarded \o u, x, a, "none")
    BY <1>3, <1>5, BringsSilent
  <2>2. Gets(x, a, "none")
    BY <1>1, <1>4, <2>1, GetsView
  <2>3. "none" \notin Events
    BY DEF Events, ChStates, FeeEnds
  <2> QED BY <1>1, <1>5, <2>2, <2>3 DEF f
<1>6. CASE b # "none"
  <2>1. Brings(Forwarded \o u, x, b, a)
    BY <1>3, BringsBoth
  <2>2. Gets(x, b, a)
    BY <1>1, <1>4, <2>1, GetsView
  <2> QED BY <1>6, <2>2 DEF f
<1> QED BY <1>5, <1>6

\* What the dialler may pass on.
LEMMA PassedOn ==
  ASSUME NEW c, NEW e, Turn(c, e), Paired(c), ch[c].cls = "dialer", ch[c].st = "WaitDial",
         ch[c].task # None
  PROVE  /\ e \in ChStates => e \in {"TALKING", "PENDING"}
         /\ ch[ch[c].task].cls = "talk" /\ ch[ch[c].task].st = "RcvTalk"
<1>1. LineInv(c) /\ Queued(c, e)
  BY TurnTyped
<1>2. ch[c].kind = "CAHK" /\ ch[c].st \notin Releasing
  BY <1>1 DEF LineInv, Sound, Releasing
<1>3. e \notin {"STANDBY", "RINGING", "PICKUPED", "UNAVAIL", "RESET"}
  BY <1>1, <1>2, TurnSound DEF LineInv, Linking, Guarded
<1> QED BY <1>2, <1>3 DEF Paired, ChStates

\* A line for which nothing changes but the queue.
LEMMA StillLine ==
  ASSUME NEW x \in Lines, LineInv(x), Still(x), asked' = asked, Gets(x, "none", "none")
  PROVE  LineInv(x)'
BY SameLine DEF Still

\* The line that is polled keeps its link.
LEMMA KeepingOthers ==
  ASSUME NEW c, NEW e, Turn(c, e), AllLines, Keeping(c), NEW x \in Lines, x # c
  PROVE  LineInv(x)'
<1>1. PICK u : queue' = Rest \o u /\ OnlyFor(u, c)
  BY DEF Keeping
<1>2. /\ Still(x) /\ LineInv(x) /\ Paired(c) /\ Mutual(x) /\ Dialled(x) /\ asked' = asked
      /\ Brings(u, x, "none", "none") /\ c \in Lines /\ x # None
  BY <1>1, TurnTyped DEF Keeping, AllLines, OnlyFor, Lines, None
<1>3. CASE ch[c].cls = "dialer" /\ ch[c].st = "WaitDial" /\ e \in ChStates /\ ch[c].task = x
  <2>1. Gets(x, e, "none")
    BY <1>1, <1>2, <1>3, AsideGets
  <2>2. /\ e \in {"TALKING", "PENDING"}
        /\ ch[x].cls = "talk" /\ ch[x].st = "RcvTalk" /\ ch[x].kind # "CAHK"
    BY <1>2, <1>3, PassedOn DEF Dialled
  <2> QED BY <1>2, <2>1, <2>2, CallerToldLine DEF Still
<1>4. CASE ~(ch[c].cls = "dialer" /\ ch[c].st = "WaitDial" /\ e \in ChStates /\ ch[c].task = x)
  <2>1. Gets(x, "none", "none")
    BY <1>1, <1>2, <1>4, AsideGets
  <2> QED BY <1>2, <2>1, StillLine
<1> QED BY <1>3, <1>4

\* The link is undone on both sides.
LEMMA CuttingOthers ==
  ASSUME NEW c, NEW e, Turn(c, e), AllLines, Cutting(c), NEW x \in Lines, x # c
  PROVE  LineInv(x)'
<1> DEFINE k == ch[c].cls \in Services
           a == IF k /\ ch[c].task = x THEN "PENDING" ELSE "none"
<1>1. PICK u : queue' = Rest \o u \o Notice(c) /\ OnlyFor(u, c)
  BY DEF Cutting
<1>2. /\ LineInv(x) /\ LineInv(c) /\ Paired(c) /\ Mutual(c) /\ Dialled(x) /\ asked' = asked
      /\ Brings(u, x, "none", "none") /\ c \in Lines /\ x # None /\ ch[x] \in Objects
      /\ ch[c].task \in Lines \cup {None} /\ ch[c].cls \in {"base"} \cup Services
  <2>1. TypeOK /\ c \in Lines /\ asked' = asked
    BY TurnTyped
  <2> QED BY <1>1, <2>1, ObjectTyped DEF AllLines, OnlyFor
<1>3. Brings(Notice(c), x, a, "none")
  <2>1. k \in BOOLEAN /\ "PENDING" \in Events /\ Notice(c) = PostIf(k, ch[c].task, "PENDING")
    BY DEF Events, ChStates, Notice
  <2> HIDE DEF k
  <2> QED BY <1>2, <2>1, BringsPost
<1>4. Brings(u \o Notice(c), x, a, "none") /\ queue' = Rest \o (u \o Notice(c))
  <2>1. u \in Seq(Msgs) /\ Notice(c) \in Seq(Msgs) /\ Rest \in Seq(Msgs)
    BY <1>2, <1>3, TurnTyped DEF Brings
  <2> QED BY <1>1, <1>2, <1>3, <2>1, BringsSilent, Associates
<1>5. IF ch[c].cls = "dialer" /\ ch[c].st = "WaitDial" /\ e \in ChStates /\ ch[c].task = x
      THEN Gets(x, e, a) ELSE Gets(x, a, "none")
  BY <1>2, <1>4, AsideGets
<1>6. /\ sock'[x] = sock[x] /\ board'[x] = board[x] /\ playing'[x] = playing[x]
      /\ ch'[x] = IF x = ch[c].task THEN [ch[x] EXCEPT !.task = None] ELSE ch[x]
  BY DEF Cutting
<1>7. CASE x # ch[c].task
  <2>1. Gets(x, "none", "none") /\ Still(x)
    BY <1>5, <1>6, <1>7 DEF Still
  <2> QED BY <1>2, <2>1, StillLine
<1>8. CASE x = ch[c].task
  <2>1. /\ ch'[x].cls = ch[x].cls /\ ch'[x].kind = ch[x].kind /\ ch'[x].st = ch[x].st
        /\ ch'[x].task = None /\ ch'[x].reserved = ch[x].reserved
        /\ ch'[x].timer = ch[x].timer /\ asked'[x] = asked[x]
    BY <1>2, <1>6, <1>8 DEF Objects
  <2>2. ch[x].task = c /\ c # None /\ (ch[c].cls = "talk" <=> ch[x].cls # "talk")
    BY <1>2, <1>8 DEF Mutual, Lines, None
  <2>3. CASE ch[c].cls = "talk"
    <3>1. Gets(x, "PENDING", "none")
      BY <1>5, <1>8, <2>3 DEF Services
    <3> QED BY <1>2, <1>6, <2>1, <2>2, <2>3, <3>1, LegToldLine
  <2>4. CASE ch[c].cls # "talk"
    <3>1. ch[c].kind = "CAHK" /\ ch[c].st \notin Releasing
      BY <1>2, <1>8, <2>4 DEF LineInv, Linking
    <3>2. ch[x].cls = "talk" /\ ch[x].st = "RcvTalk" /\ ch[x].kind # "CAHK"
      BY <1>2, <1>8, <3>1 DEF Paired, Dialled
    <3>3. a \in {"none", "PENDING"}
      OBVIOUS
    <3> HIDE DEF a
    <3>4. CASE ch[c].cls = "dialer" /\ ch[c].st = "WaitDial" /\ e \in ChStates
      <4>1. e \in {"TALKING", "PENDING"}
        BY <1>2, <1>8, <3>4, PassedOn
      <4>2. Gets(x, e, a)
        BY <1>5, <1>8, <3>4
      <4> QED BY <1>2, <1>6, <2>1, <3>2, <3>3, <4>1, <4>2, CallerToldLine
    <3>5. CASE ~(ch[c].cls = "dialer" /\ ch[c].st = "WaitDial" /\ e \in ChStates)
      <4>1. Gets(x, a, "none")
        BY <1>5, <3>5
      <4> QED BY <1>2, <1>6, <2>1, <3>2, <3>3, <4>1, CallerToldLine
    <3> QED BY <3>4, <3>5
  <2> QED BY <2>3, <2>4
<1> QED BY <1>7, <1>8

\* The links are mutual still, and dialled legs belong to callers' legs.
LEMMA GoodLinks ==
  ASSUME NEW c, NEW e, Turn(c, e), AllLines, Keeping(c) \/ Cutting(c), NEW x \in Lines
  PROVE  Paired(x)' /\ Mutual(x)'
<1>1. /\ \A y \in Lines : /\ LineInv(y) /\ Paired(y) /\ Mutual(y) /\ Dialled(y)
                          /\ ch[y].task \in Lines \cup {None} /\ y # None /\ ch[y] \in Objects
      /\ c \in Lines
  <2>1. TypeOK /\ c \in Lines
    BY TurnTyped
  <2> QED BY <2>1, ObjectTyped DEF AllLines
<1>2. CASE Keeping(c)
  <2>1. /\ \A y \in Lines \ {c} : ch'[y] = ch[y]
        /\ ch'[c].task = ch[c].task
        /\ ch[c].task # None => /\ ch'[c].cls = ch[c].cls /\ ch'[c].kind = ch[c].kind
                                /\ ch[c].cls = "talk" => ch'[c].st = "RcvTalk"
    BY <1>2 DEF Keeping, Still
  <2>2. \A y \in Lines : ch'[y].task = ch[y].task
    BY <2>1
  <2>3. \A y \in Lines : ch[y].task # None =>
          /\ ch'[y].cls = ch[y].cls /\ ch'[y].kind = ch[y].kind
          /\ ch[y].cls = "talk" => ch'[y].st = "RcvTalk"
    BY <1>1, <2>1 DEF LineInv, Linking
  <2>4. Mutual(x)'
    BY <1>1, <2>2, <2>3 DEF Mutual
  <2>5. Paired(x)'
    <3> SUFFICES ASSUME ch'[x].kind = "CAHK", ch'[x].task # None
                 PROVE  ch'[ch'[x].task].cls = "talk" /\ ch'[ch'[x].task].st = "RcvTalk"
      BY DEF Paired
    <3>1. ch[x].kind = "CAHK" /\ ch[x].task # None /\ ch[x].cls # "talk"
      BY <1>1, <2>2, <2>3 DEF Dialled
    <3>2. ch[x].st \notin Releasing
      BY <1>1, <3>1 DEF LineInv, Linking
    <3>3. ch[ch[x].task].cls = "talk" /\ ch[ch[x].task].task = x /\ ch[x].task \in Lines
      BY <1>1, <3>1, <3>2 DEF Paired, Mutual
    <3> QED BY <1>1, <2>2, <2>3, <3>3
  <2> QED BY <2>4, <2>5
<1>3. CASE Cutting(c)
  <2>1. \A y \in Lines \ {c} : ch'[y] = IF y = ch[c].task THEN [ch[y] EXCEPT !.task = None] ELSE ch[y]
    BY <1>3 DEF Cutting
  <2>2. ch'[c].task = None
    BY <1>3 DEF Cutting
  <2>3. SUFFICES ASSUME ch'[x].task # None PROVE Paired(x)' /\ Mutual(x)'
    BY DEF Paired, Mutual
  <2>4. x # c /\ x # ch[c].task /\ ch'[x] = ch[x]
    <3>1. x # c
      BY <2>2, <2>3
    <3>2. [ch[x] EXCEPT !.task = None].task = None
      BY <1>1 DEF Objects
    <3> QED BY <2>1, <2>3, <3>1, <3>2
  <2> DEFINE p == ch[x].task
  <2>5. p \in Lines /\ p # x /\ ch[p].task = x /\ (ch[x].cls = "talk" <=> ch[p].cls # "talk")
    BY <1>1, <2>3, <2>4 DEF Mutual
  <2>6. p # c /\ p # ch[c].task
    BY <1>1, <2>4, <2>5 DEF Mutual
  <2>7. ch'[p] = ch[p]
    BY <2>1, <2>5, <2>6
  <2>8. Paired(x)
    BY <1>1
  <2> HIDE DEF p
  <2>9. ch'[x].task = p /\ ch[x].task = p
    BY <2>4 DEF p
  <2> QED BY <2>4, <2>5, <2>7, <2>8, <2>9 DEF Paired, Mutual
<1> QED BY <1>2, <1>3

-----------------------------------------------------------------------------
(* A line is taken for a caller *)

\* A line that may be taken and whose last call is over.
LEMMA TakenOver ==
  ASSUME TypeOK, NEW d \in Lines, ~Overlaps(d)
  PROVE  /\ ch[d].st = "bkIdle" /\ sock[d] = "none" /\ ~playing[d]
         /\ \A f : ~Queued(d, f)
         /\ \A f, g : ~Ahead(d, f, g)
<1>1. ch[d].st = "bkIdle" /\ sock[d] = "none" /\ ~playing[d] /\ ~Pending(d)
  BY DEF Overlaps, Leftover
<1>2. ASSUME NEW f PROVE ~Queued(d, f)
  BY <1>1 DEF Queued, Pending
<1> QED BY <1>1, <1>2, AheadQueued

\* What CallOut does, line by line, when the line it takes is not the caller's own.
LEMMA CallOutParts ==
  ASSUME NEW c, NEW e, Turn(c, e), ch[c].task = None, ch[c].cls = "talk",
         NEW d \in Lines, d # c, CallOut(c, d)
  PROVE  /\ ch'[c].cls = ch[c].cls /\ ch'[c].kind = ch[c].kind /\ ch'[c].st = "RcvTalk"
         /\ ch'[c].task = d
         /\ ch'[d].cls = ch[d].cls /\ ch'[d].kind = "CAHK" /\ ch'[d].st = ch[d].st
         /\ ch'[d].task = c /\ ch'[d].reserved = ch[d].reserved /\ ch'[d].timer = ch[d].timer
         /\ sock'[c] = IF sock[c] = "bound" THEN "talk" ELSE sock[c]
         /\ board[d] = "standby" /\ board'[d] = "picked"
         /\ \A x \in Lines \ {c} : sock'[x] = sock[x]
         /\ \A x \in Lines \ {d} : board'[x] = board[x]
         /\ \A x \in Lines \ {c, d} : ch'[x] = ch[x]
         /\ playing' = playing
         /\ queue' = Rest \o Post(d, "PICKUPED")
<1> DEFINE r == [ch[c] EXCEPT !.st = "RcvTalk", !.reserved = {"busy"}, !.timer = "on"]
<1>1. TypeOK /\ c \in Lines /\ ch[c] \in Objects /\ ch[d] \in Objects /\ d # None
      /\ Rest \in Seq(Msgs)
  BY TurnTyped, ObjectTyped
<1>2. r \in Objects /\ r.cls = ch[c].cls /\ r.kind = ch[c].kind /\ r.st = "RcvTalk"
  BY <1>1 DEF Objects, States
<1>3. ch' = Linked(c, d, r)
  BY DEF CallOut
<1> HIDE DEF r
<1>4. \A x \in Lines : Unlinked(c, r)[x] = IF x = c THEN [r EXCEPT !.task = None] ELSE ch[x]
  BY <1>1, ObjectTyped DEF Unlinked
<1>5. ch'[c] = [r EXCEPT !.task = d] /\ ch'[d] = [ch[d] EXCEPT !.task = c, !.kind = "CAHK"]
      /\ \A x \in Lines \ {c, d} : ch'[x] = ch[x]
  <2>1. DOMAIN Unlinked(c, r) = Lines
    BY DEF Unlinked
  <2>2. Unlinked(c, r)[c] = [r EXCEPT !.task = None] /\ Unlinked(c, r)[d] = ch[d]
    BY <1>1, <1>4
  <2>3. ch'[c] = [Unlinked(c, r)[c] EXCEPT !.task = d]
    BY <1>1, <1>3, <2>1 DEF Linked
  <2>4. ch'[d] = [[Unlinked(c, r)[d] EXCEPT !.task = c] EXCEPT !.kind = "CAHK"]
    BY <1>1, <1>3, <2>1 DEF Linked
  <2>5. \A x \in Lines \ {c, d} : ch'[x] = Unlinked(c, r)[x]
    BY <1>3, <2>1 DEF Linked
  <2>6. [[r EXCEPT !.task = None] EXCEPT !.task = d] = [r EXCEPT !.task = d]
    BY <1>2 DEF Objects
  <2>7. [[ch[d] EXCEPT !.task = c] EXCEPT !.kind = "CAHK"]
          = [ch[d] EXCEPT !.task = c, !.kind = "CAHK"]
    BY <1>1 DEF Objects
  <2> QED BY <1>4, <2>2, <2>3, <2>4, <2>5, <2>6, <2>7
<1>6. ch'[c].cls = r.cls /\ ch'[c].kind = r.kind /\ ch'[c].st = r.st /\ ch'[c].task = d
  BY <1>2, <1>5 DEF Objects
<1>7. /\ ch'[d].cls = ch[d].cls /\ ch'[d].kind = "CAHK" /\ ch'[d].st = ch[d].st
      /\ ch'[d].task = c /\ ch'[d].reserved = ch[d].reserved /\ ch'[d].timer = ch[d].timer
  BY <1>1, <1>5 DEF Objects
<1>8. /\ sock' = [sock EXCEPT ![c] = IF @ = "bound" THEN "talk" ELSE @]
      /\ board[d] = "standby" /\ board' = [board EXCEPT ![d] = "picked"]
      /\ playing' = playing
  BY DEF CallOut, Billed, Seize, Eligible
<1>9. /\ sock \in [Lines -> Socks] /\ board \in [Lines -> Boards]
  BY <1>1, Typed
<1>10. /\ sock'[c] = (IF sock[c] = "bound" THEN "talk" ELSE sock[c])
       /\ board'[d] = "picked"
       /\ \A x \in Lines \ {c} : sock'[x] = sock[x]
       /\ \A x \in Lines \ {d} : board'[x] = board[x]
  BY <1>1, <1>8, <1>9
<1>11. queue' = Rest \o Post(d, "PICKUPED")
  <2>1. Notice(c) = <<>>
    BY DEF Notice, PostIf, Post
  <2>2. Rest \o Post(d, "PICKUPED") \in Seq(Msgs)
    BY <1>1, PostTyped, ConcatTyped DEF Events, ChStates
  <2> QED BY <2>1, <2>2 DEF CallOut
<1> QED BY <1>2, <1>5, <1>6, <1>7, <1>8, <1>10, <1>11

\* The invariant when a caller's leg takes a line: what it says of every line, and of the
\* link that is made.
LEMMA CallOutHolds ==
  ASSUME NEW c, NEW e, Turn(c, e), AllLines, ch[c].cls = "talk", ch[c].st = "RcvUlTel",
         NEW d \in Lines, CallOut(c, d), ~Overlaps(d), NEW x \in Lines
  PROVE  LineInv(x)' /\ Paired(x)' /\ Mutual(x)'
<1>1. /\ TypeOK /\ c \in Lines /\ e \in Events /\ asked' = asked /\ Queued(c, e)
      /\ \A y \in Lines : /\ LineInv(y) /\ Paired(y) /\ Mutual(y) /\ Classed(y) /\ Dialled(y)
                          /\ ch[y].task \in Lines \cup {None} /\ y # None
  <2>1. TypeOK /\ c \in Lines /\ e \in Events /\ asked' = asked /\ Queued(c, e)
    BY TurnTyped
  <2> QED BY <2>1, ObjectTyped DEF AllLines
<1>2. /\ ch[d].st = "bkIdle" /\ sock[d] = "none" /\ ~playing[d] /\ ch[d].cls = "base"
      /\ \A f : ~Queued(d, f)
      /\ \A f, g : ~Ahead(d, f, g)
  BY <1>1, TakenOver DEF Classed
<1>3. d # c
  BY <1>2
<1>4. ch[c].task = None
  BY TurnSound
<1>5. /\ ch'[c].cls = ch[c].cls /\ ch'[c].kind = ch[c].kind /\ ch'[c].st = "RcvTalk"
      /\ ch'[c].task = d
      /\ ch'[d].cls = ch[d].cls /\ ch'[d].kind = "CAHK" /\ ch'[d].st = ch[d].st
      /\ ch'[d].task = c /\ ch'[d].reserved = ch[d].reserved /\ ch'[d].timer = ch[d].timer
      /\ sock'[c] = IF sock[c] = "bound" THEN "talk" ELSE sock[c]
      /\ board[d] = "standby" /\ board'[d] = "picked"
      /\ \A y \in Lines \ {c} : sock'[y] = sock[y]
      /\ \A y \in Lines \ {d} : board'[y] = board[y]
      /\ \A y \in Lines \ {c, d} : ch'[y] = ch[y]
      /\ playing' = playing
      /\ queue' = Rest \o Post(d, "PICKUPED")
  BY <1>3, <1>4, CallOutParts
<1>6. Post(d, "PICKUPED") = PostIf(TRUE, d, "PICKUPED")
  BY DEF PostIf
<1>7. \A y \in Lines : Brings(Post(d, "PICKUPED"), y, IF d = y THEN "PICKUPED" ELSE "none", "none")
  BY <1>6, BringsPost DEF Events, ChStates
<1>8. ASSUME NEW y \in Lines, y # c
      PROVE  Gets(y, IF d = y THEN "PICKUPED" ELSE "none", "none")
  <2> DEFINE u == Post(d, "PICKUPED")
             a == IF d = y THEN "PICKUPED" ELSE "none"
  <2>1. Brings(u, y, a, "none") /\ queue' = Rest \o u
    BY <1>5, <1>7
  <2> HIDE DEF u, a
  <2>2. Gets(y, a, "none")
    BY <1>8, <2>1, AsideGets
  <2> QED BY <2>2 DEF a
<1>9. LineInv(c)'
  <2>1. Polls(c, e, "none", "none")
    BY <1>1, <1>3, <1>5, <1>7, TurnPolls
  <2>2. e # "STANDBY"
    BY <1>1 DEF LineInv, Closing, InCall, CallLegs, OnCall
  <2>3. ch[c].kind # "CAHK"
    BY <1>1 DEF Dialled
  <2>4. ch[c].st \in CallLegs /\ ch'[c].st \in CallLegs /\ board'[c] = board[c] /\ asked'[c] = asked[c]
    BY <1>1, <1>3, <1>5 DEF CallLegs
  <2> QED BY <1>1, <1>5, <2>1, <2>2, <2>3, <2>4, CallLine
<1>10. LineInv(d)'
  <2>1. Gets(d, "PICKUPED", "none")
    BY <1>3, <1>8
  <2> QED BY <1>1, <1>2, <1>3, <1>5, <2>1, SeizedLine
<1>11. ASSUME x \notin {c, d} PROVE LineInv(x)'
  <2>1. Gets(x, "none", "none") /\ Still(x)
    BY <1>5, <1>8, <1>11 DEF Still
  <2> QED BY <1>1, <2>1, StillLine
<1>12. ASSUME x \notin {c, d}, ch'[x].task # None PROVE Paired(x)' /\ Mutual(x)'
  <2> DEFINE p == ch[x].task
  <2>1. ch'[x] = ch[x] /\ p # None
    BY <1>5, <1>12
  <2>2. p \in Lines /\ p # x /\ ch[p].task = x /\ (ch[x].cls = "talk" <=> ch[p].cls # "talk")
    BY <1>1, <2>1 DEF Mutual
  <2>3. ch[d].task = None
    BY <1>1, <1>2, <1>5 DEF LineInv, Picked
  <2>4. p # c /\ p # d
    BY <1>1, <1>4, <2>2, <2>3
  <2>5. ch'[p] = ch[p]
    BY <1>5, <2>2, <2>4
  <2>6. Paired(x)
    BY <1>1
  <2> HIDE DEF p
  <2>7. ch'[x].task = p /\ ch[x].task = p
    BY <2>1 DEF p
  <2> QED BY <2>1, <2>2, <2>5, <2>6, <2>7 DEF Paired, Mutual
<1>13. Paired(x)' /\ Mutual(x)'
  <2>1. CASE x = c
    <3>1. ch'[c].kind # "CAHK"
      BY <1>1, <1>5 DEF Dialled
    <3> QED BY <1>2, <1>3, <1>5, <2>1, <3>1 DEF Paired, Mutual
  <2>2. CASE x = d
    BY <1>2, <1>3, <1>5, <2>2 DEF Paired, Mutual
  <2>3. CASE x \notin {c, d}
    BY <1>12, <2>3 DEF Paired, Mutual
  <2> QED BY <2>1, <2>2, <2>3
<1> QED BY <1>9, <1>10, <1>11, <1>13

\* RunPolling.
LEMMA PollHolds ==
  ASSUME TypeOK, AllLines, RunPolling, ~overlap', NEW x \in Lines
  PROVE  LineInv(x)' /\ Paired(x)' /\ Mutual(x)'
<1>1. queue # <<>> /\ asked' = asked /\ Handle(Head(queue).line, Head(queue).ev)
  BY DEF RunPolling
<1>2. PICK c \in Lines, e \in Events : c = Head(queue).line /\ e = Head(queue).ev
  BY <1>1, RestTyped DEF Msgs
<1>3. Head(queue) = Msg(c, e) /\ Handle(c, e)
  BY <1>1, <1>2, RestTyped DEF Msgs, Msg
<1>4. Turn(c, e)
  <2>1. ch[c].task # c
    BY <1>2, ObjectTyped DEF AllLines, Mutual
  <2> QED BY <1>1, <1>2, <1>3, <2>1 DEF Turn, AllLines
<1>5. CASE Good(c)
  <2>1. Paired(x)' /\ Mutual(x)'
    BY <1>4, <1>5, GoodLinks DEF Good
  <2>2. LineInv(x)'
    <3>1. CASE x = c
      BY <1>5, <3>1 DEF Good
    <3>2. CASE x # c
      BY <1>4, <1>5, <3>2, KeepingOthers, CuttingOthers DEF Good
    <3> QED BY <3>1, <3>2
  <2> QED BY <2>1, <2>2
<1>6. CASE ch[c].cls = "talk" /\ ch[c].st = "RcvUlTel" /\ \E d \in Lines : CallOut(c, d)
  <2>1. PICK d \in Lines : CallOut(c, d)
    BY <1>6
  <2>2. ~Overlaps(d)
    BY <2>1 DEF CallOut, Seize
  <2> QED BY <1>4, <1>6, <2>1, <2>2, CallOutHolds
<1> QED BY <1>3, <1>4, <1>5, <1>6, HandleGood

-----------------------------------------------------------------------------
(* The line's visit, the call back and the outside *)

\* What a step that polls nothing brings a line.
LEMMA NewGets ==
  ASSUME TypeOK, NEW x, NEW t, NEW a, NEW b, Brings(t, x, a, b), queue' = queue \o t
  PROVE  Gets(x, a, b)
BY GetsView DEF Left

\* Steps that leave every link alone.
LEMMA SameLinks ==
  ASSUME TypeOK, AllLines,
         \A y \in Lines : /\ ch'[y].task = ch[y].task
                          /\ ch'[y].kind = ch[y].kind
                          /\ ch[y].task # None => (ch'[y].cls = "talk" <=> ch[y].cls = "talk")
                          /\ ch[y].cls = "talk" /\ ch[y].st = "RcvTalk" =>
                               ch'[y].cls = "talk" /\ ch'[y].st = "RcvTalk",
         \A y \in Lines : ch'[y].kind = "CAHK" /\ ch'[y].st \notin Releasing
                            => ch[y].st \notin Releasing,
         NEW x \in Lines
  PROVE  Paired(x)' /\ Mutual(x)'
<1>1. /\ \A y \in Lines : Paired(y) /\ Mutual(y)
      /\ ch[x].task \in Lines \cup {None}
  BY ObjectTyped DEF AllLines
<1>2. Mutual(x)'
  <2>1. ch[x].task # None => ch[ch[x].task].task # None
    BY <1>1, ObjectTyped DEF Mutual
  <2> QED BY <1>1, <2>1 DEF Mutual
<1>3. Paired(x)'
  BY <1>1 DEF Paired
<1> QED BY <1>2, <1>3

\* Another line than the one that is visited, or to which something comes from outside.
LEMMA OtherLine ==
  ASSUME TypeOK, NEW x \in Lines, LineInv(x), Still(x), asked'[x] = asked[x],
         NEW t, Brings(t, x, "none", "none"), queue' = queue \o t
  PROVE  LineInv(x)'
<1>1. Gets(x, "none", "none")
  BY NewGets
<1> QED BY <1>1, SameLine DEF Still

\* What a visit posts.
LEMMA VisitBrings ==
  ASSUME TypeOK, NEW c \in Lines, NEW b \in BOOLEAN, NEW e \in Events,
         NEW a, a = IF ch[c].timer = "due" THEN "TIMEOUT" ELSE "none"
  PROVE  LET t == Expired(c) \o PostIf(b, c, e) IN
         /\ t \in Seq(Msgs)
         /\ Brings(t, c, a, IF b THEN e ELSE "none")
         /\ \A x \in Lines \ {c} : Brings(t, x, "none", "none")
<1> DEFINE k == ch[c].timer = "due"
<1>1. Expired(c) = PostIf(k, c, "TIMEOUT") /\ "TIMEOUT" \in Events
  BY DEF Expired, Events
<1> HIDE DEF k
<1>2. \A x \in Lines : /\ Brings(Expired(c), x, IF k /\ c = x THEN "TIMEOUT" ELSE "none", "none")
                       /\ Brings(PostIf(b, c, e), x, IF b /\ c = x THEN e ELSE "none", "none")
  <2>1. k \in BOOLEAN
    BY DEF k
  <2> QED BY <1>1, <2>1, BringsPost
<1>3. /\ Brings(Expired(c), c, a, "none")
      /\ Brings(PostIf(b, c, e), c, IF b THEN e ELSE "none", "none")
  <2>1. a = IF k THEN "TIMEOUT" ELSE "none"
    BY DEF k
  <2> QED BY <1>2, <2>1
<1>4. \A x \in Lines \ {c} : /\ Brings(Expired(c), x, "none", "none")
                             /\ Brings(PostIf(b, c, e), x, "none", "none")
  BY <1>2
<1> DEFINE s == Expired(c)
           t == PostIf(b, c, e)
           d == IF b THEN e ELSE "none"
<1> HIDE DEF s, t, d
<1>5. Brings(s \o t, c, a, d) /\ \A x \in Lines \ {c} : Brings(s \o t, x, "none", "none")
  BY <1>3, <1>4, BringsBoth DEF s, t, d
<1>6. s \o t \in Seq(Msgs)
  BY <1>5 DEF Brings
<1> QED BY <1>5, <1>6 DEF s, t, d

\* What a visit of RunChannel posts: the expired timer, then the end of the login.
LEMMA VisitPosts ==
  ASSUME TypeOK, NEW c \in Lines, NEW e \in Events
  PROVE  queue \o Expired(c) \o Post(c, e) = queue \o (Expired(c) \o PostIf(TRUE, c, e))
<1>1. queue \in Seq(Msgs) /\ Expired(c) \in Seq(Msgs) /\ Post(c, e) \in Seq(Msgs)
  BY FreedTyped, PostTyped, Typed
<1>2. PostIf(TRUE, c, e) = Post(c, e)
  BY DEF PostIf
<1>3. \A y, z \in Seq(Msgs) : queue \o (y \o z) = (queue \o y) \o z
  BY <1>1, Associates
<1> QED BY <1>1, <1>2, <1>3, Zenon

\* What a visit leaves of the line's object.
LEMMA FreedLine ==
  ASSUME TypeOK, NEW c \in Lines
  PROVE  LET r == Freed(c) IN
         /\ r.cls = ch[c].cls /\ r.kind = ch[c].kind /\ r.st = ch[c].st
         /\ r.task = ch[c].task /\ r.reserved = ch[c].reserved
         /\ r.timer = IF ch[c].timer = "due" THEN "off" ELSE ch[c].timer
<1> DEFINE t == IF ch[c].timer = "due" THEN "off" ELSE ch[c].timer
           r == [ch[c] EXCEPT !.closing = "none", !.timer = t]
<1>1. ch[c] \in Objects
  BY Typed
<1>2. Freed(c) = r
  BY <1>1 DEF Freed, Objects
<1>3. /\ r.cls = ch[c].cls /\ r.kind = ch[c].kind /\ r.st = ch[c].st
      /\ r.task = ch[c].task /\ r.reserved = ch[c].reserved /\ r.timer = t
  BY <1>1 DEF Objects
<1> QED BY <1>2, <1>3

\* The line's own part in a visit.
LEMMA VisitHolds ==
  ASSUME TypeOK, AllLines, NEW c \in Lines, OnRun(c)
  PROVE  LineInv(c)' /\ \E t : /\ queue' = queue \o t
                               /\ \A x \in Lines \ {c} : Brings(t, x, "none", "none")
<1> DEFINE a == IF ch[c].timer = "due" THEN "TIMEOUT" ELSE "none"
<1>1. /\ LineInv(c) /\ Dialled(c) /\ board' = board /\ playing' = playing
      /\ Expired(c) \in Seq(Msgs)
      /\ ch \in [Lines -> Objects] /\ sock \in [Lines -> Socks]
  BY Typed, FreedTyped DEF AllLines, OnRun, Quiet, Connected, Dropped, Refused, Bound, NoService, AtLine
<1>2. CASE ~Bound(c)
  <2>1. ch' = [ch EXCEPT ![c] = Freed(c)]
    BY <1>2 DEF OnRun, Quiet, Connected, Dropped, Refused, NoService
  <2>2. ch'[c] = Freed(c)
    BY <1>1, <2>1
  <2>3. /\ ch'[c].cls = ch[c].cls /\ ch'[c].kind = ch[c].kind /\ ch'[c].st = ch[c].st
        /\ ch'[c].task = ch[c].task /\ ch'[c].reserved = ch[c].reserved
        /\ ch'[c].timer = IF ch[c].timer = "due" THEN "off" ELSE ch[c].timer
    BY <2>2, FreedLine
  <2>4. CASE Quiet(c) \/ Connected(c)
    <3>1. queue' = queue \o (Expired(c) \o PostIf(FALSE, c, "FeeDisc"))
      <4>1. queue' = queue \o Expired(c) /\ Expired(c) \o <<>> = Expired(c)
        BY <1>1, <2>4 DEF Quiet, Connected
      <4> QED BY <4>1 DEF PostIf
    <3> DEFINE t == Expired(c) \o PostIf(FALSE, c, "FeeDisc")
    <3>2. Brings(t, c, a, "none") /\ \A x \in Lines \ {c} : Brings(t, x, "none", "none")
      BY VisitBrings DEF Events, FeeEnds
    <3> HIDE DEF t
    <3>3. queue' = queue \o t
      BY <3>1 DEF t
    <3> HIDE DEF a
    <3>4. Gets(c, a, "none")
      BY <3>2, <3>3, NewGets
    <3>5. \/ sock'[c] = sock[c] /\ asked'[c] = asked[c]
          \/ sock[c] = "connecting" /\ sock'[c] = "login" /\ asked'[c] = ch[c].kind
      BY <1>1, <2>4 DEF Quiet, Connected, TypeOK
    <3>6. board'[c] = board[c] /\ playing'[c] = playing[c]
      BY <1>1
    <3>7. LineInv(c)'
      BY <1>1, <2>3, <3>4, <3>5, <3>6, VisitedLine DEF a
    <3> QED BY <3>2, <3>3, <3>7
  <2>5. CASE Dropped(c) \/ Refused(c) \/ NoService(c)
    <3>1. PICK b \in FeeEnds :
            /\ queue' = queue \o Expired(c) \o Post(c, b)
            /\ NoService(c) => b = "FeeDisc"
      BY <2>5 DEF Dropped, Refused, NoService, FeeEnds
    <3> DEFINE t == Expired(c) \o PostIf(TRUE, c, b)
    <3>2. queue' = queue \o t
      BY <3>1, VisitPosts DEF Events
    <3>3. Brings(t, c, a, b) /\ \A x \in Lines \ {c} : Brings(t, x, "none", "none")
      BY VisitBrings DEF Events
    <3> HIDE DEF t, a
    <3>4. Gets(c, a, b)
      BY <3>2, <3>3, NewGets
    <3>5. asked'[c] = asked[c] /\ board'[c] = board[c] /\ playing'[c] = playing[c]
      BY <1>1, <2>5 DEF Dropped, Refused, NoService
    <3>6. CASE Dropped(c) \/ Refused(c)
      <4>1. sock[c] # "none" /\ sock'[c] = "none"
        BY <1>1, <3>6 DEF Dropped, Refused
      <4>2. LineInv(c)'
        BY <1>1, <2>3, <3>4, <3>5, <4>1, EndedLine DEF a, Dialled
      <4> QED BY <3>2, <3>3, <4>2
    <3>7. CASE NoService(c)
      <4>1. sock[c] = "login" /\ sock'[c] = "bound"
        BY <1>1, <3>7 DEF NoService
      <4>2. asked[c] # NoCall
        BY <3>7, Zenon DEF NoService, NoCall
      <4>3. Gets(c, a, "FeeDisc")
        BY <3>1, <3>4, <3>7
      <4>4. LineInv(c)'
        BY <1>1, <2>3, <3>5, <4>1, <4>2, <4>3, NoServiceLine DEF a
      <4> QED BY <3>2, <3>3, <4>4
    <3> QED BY <2>5, <3>6, <3>7
  <2> QED BY <1>2, <2>4, <2>5 DEF OnRun
<1>3. CASE Bound(c)
  <2>1. /\ ch'[c].cls = ServiceOf(asked[c]) /\ ch'[c].kind = ch[c].kind /\ ch'[c].st = "FeeLogin"
        /\ ch'[c].task = ch[c].task /\ ch'[c].reserved = {}
        /\ sock[c] = "login" /\ sock'[c] = "bound" /\ asked' = asked
    BY <1>1, <1>3 DEF Bound, NewObject
  <2>2. asked[c] # NoCall
    BY <1>3, Zenon DEF Bound, NoCall
  <2> DEFINE t == Expired(c) \o PostIf(TRUE, c, "FeeConn")
  <2>3. queue' = queue \o t
    BY <1>3, VisitPosts DEF Bound, Events
  <2>4. Brings(t, c, a, "FeeConn") /\ \A x \in Lines \ {c} : Brings(t, x, "none", "none")
    BY VisitBrings DEF Events
  <2> HIDE DEF t, a
  <2>5. Gets(c, a, "FeeConn")
    BY <2>3, <2>4, NewGets
  <2>6. /\ ch[c].cls \in {"base", "talk", "dialer"} /\ ch[c].st \in States
        /\ board'[c] = board[c] /\ playing'[c] = playing[c] /\ asked'[c] = asked[c]
    BY <1>1, <2>1 DEF Objects, Services
  <2>7. /\ ch[c].cls = "talk" => ch[c].kind # "CAHK" /\ asked[c] # "CAHK"
        /\ ch[c].kind = "CAHK" => asked[c] = "CAHK"
    BY <1>1, <2>1 DEF Dialled
  <2>8. LineInv(c)'
    BY <1>1, <2>1, <2>2, <2>5, <2>6, <2>7, BoundLine DEF a
  <2> QED BY <2>3, <2>4, <2>8
<1> QED BY <1>2, <1>3

\* CChannel::OnRun.
LEMMA OnRunHolds ==
  ASSUME TypeOK, AllLines, NEW c \in Lines, OnRun(c), NEW x \in Lines
  PROVE  LineInv(x)' /\ Paired(x)' /\ Mutual(x)'
<1>1. /\ board' = board /\ playing' = playing /\ \A y \in Lines : LineInv(y) /\ Dialled(y)
      /\ \A y \in Lines \ {c} : ch'[y] = ch[y] /\ sock'[y] = sock[y] /\ asked'[y] = asked[y]
  BY Typed DEF AllLines, OnRun, Quiet, Connected, Dropped, Refused, Bound, NoService, AtLine, TypeOK
<1>2. LineInv(x)'
  <2>1. CASE x = c
    BY <2>1, VisitHolds
  <2>2. CASE x # c
    BY <1>1, <2>2, VisitHolds, OtherLine DEF Still
  <2> QED BY <2>1, <2>2
<1>3. /\ ch'[c].task = ch[c].task /\ ch'[c].kind = ch[c].kind
      /\ ch[c].task # None => (ch'[c].cls = "talk" <=> ch[c].cls = "talk")
      /\ ch[c].cls = "talk" /\ ch[c].st = "RcvTalk" => ch'[c].cls = "talk" /\ ch'[c].st = "RcvTalk"
      /\ ch[c].st \in Releasing => ch'[c].st \in Releasing
  <2>1. CASE ~Bound(c)
    <3>1. ch'[c] = Freed(c)
      BY <2>1, Typed DEF OnRun, Quiet, Connected, Dropped, Refused, NoService
    <3> QED BY <3>1, FreedLine
  <2>2. CASE Bound(c)
    <3>1. /\ ch'[c].cls = ServiceOf(asked[c]) /\ ch'[c].st = "FeeLogin"
          /\ ch'[c].task = ch[c].task /\ ch'[c].kind = ch[c].kind /\ sock[c] = "login"
      BY <2>2, Typed DEF Bound, NewObject
    <3>2. ch[c].st \notin Releasing
      BY <1>1, <3>1 DEF LineInv, Sound
    <3>3. ch[c].cls = "talk" => ch[c].task = None /\ ch[c].st # "RcvTalk"
      BY <1>1, <3>1 DEF LineInv, Login, Linking, LoggingIn
    <3>4. ch[c].cls # "talk" /\ ch[c].task # None => asked[c] = "CAHK"
      BY <1>1, <3>1 DEF LineInv, Linking, Dialled
    <3> QED BY <3>1, <3>2, <3>3, <3>4 DEF ServiceOf
  <2> QED BY <2>1, <2>2
<1>4. Paired(x)' /\ Mutual(x)'
  <2>1. \A y \in Lines : /\ ch'[y].task = ch[y].task
                         /\ ch'[y].kind = ch[y].kind
                         /\ ch[y].task # None => (ch'[y].cls = "talk" <=> ch[y].cls = "talk")
                         /\ ch[y].cls = "talk" /\ ch[y].st = "RcvTalk" =>
                              ch'[y].cls = "talk" /\ ch'[y].st = "RcvTalk"
                         /\ ch'[y].kind = "CAHK" /\ ch'[y].st \notin Releasing
                              => ch[y].st \notin Releasing
    BY <1>1, <1>3
  <2> QED BY <2>1, SameLinks
<1> QED BY <1>2, <1>4

\* An event comes to a line from outside.
LEMMA PostedGets ==
  ASSUME TypeOK, NEW c \in Lines, NEW e \in Events, queue' = queue \o Post(c, e)
  PROVE  /\ Gets(c, e, "none")
         /\ \A x \in Lines \ {c} : Gets(x, "none", "none")
<1>1. PostIf(TRUE, c, e) = Post(c, e)
  BY DEF PostIf
<1>2. \A x \in Lines : Brings(Post(c, e), x, IF c = x THEN e ELSE "none", "none")
  BY <1>1, BringsPost
<1>3. \A x \in Lines : Gets(x, IF c = x THEN e ELSE "none", "none")
  <2> DEFINE t == Post(c, e)
  <2>1. queue' = queue \o t
    OBVIOUS
  <2>2. \A x \in Lines : Brings(t, x, IF c = x THEN e ELSE "none", "none")
    BY <1>2
  <2> HIDE DEF t
  <2> SUFFICES ASSUME NEW x \in Lines PROVE Gets(x, IF c = x THEN e ELSE "none", "none")
    OBVIOUS
  <2> QED BY <2>1, <2>2, NewGets
<1> QED BY <1>3

\* The voice board, the telephone network and the people on the phones.
LEMMA OutsideHolds ==
  ASSUME TypeOK, AllLines, NEW c \in Lines, Outside(c), Moves(c), budget["faults"] = 0, ~overlap',
         NEW x \in Lines
  PROVE  LineInv(x)' /\ Paired(x)' /\ Mutual(x)'
<1>1. /\ \A y \in Lines : LineInv(y) /\ Classed(y) /\ Paired(y) /\ Mutual(y)
      /\ ch \in [Lines -> Objects] /\ board \in [Lines -> Boards] /\ playing \in [Lines -> BOOLEAN]
  BY Typed DEF AllLines
<1>2. CASE Tick(c)
  <2>1. /\ ch' = [ch EXCEPT ![c].timer = "due"] /\ ch[c].timer = "on"
        /\ sock' = sock /\ asked' = asked /\ board' = board /\ playing' = playing
        /\ queue' = queue
    BY <1>2 DEF Tick
  <2>2. /\ ch'[x].cls = ch[x].cls /\ ch'[x].kind = ch[x].kind /\ ch'[x].st = ch[x].st
        /\ ch'[x].task = ch[x].task /\ ch'[x].reserved = ch[x].reserved
        /\ ch'[x].timer = "off" <=> ch[x].timer = "off"
    <3>1. \A y \in Lines \ {c} : ch'[y] = ch[y]
      BY <1>1, <2>1
    <3>2. ch'[c] = [ch[c] EXCEPT !.timer = "due"] /\ ch[c] \in Objects
      BY <1>1, <2>1
    <3>3. /\ ch'[c].cls = ch[c].cls /\ ch'[c].kind = ch[c].kind /\ ch'[c].st = ch[c].st
          /\ ch'[c].task = ch[c].task /\ ch'[c].reserved = ch[c].reserved
          /\ ch'[c].timer = "due"
      BY <3>2 DEF Objects
    <3> QED BY <2>1, <3>1, <3>3
  <2>3. queue' = queue \o <<>>
    BY <2>1, Typed
  <2>4. Gets(x, "none", "none")
    BY <2>3, BringsNothing, NewGets
  <2>5. LineInv(x)'
    BY <1>1, <2>1, <2>2, <2>4, SameLine
  <2>6. \A y \in Lines : /\ ch'[y].cls = ch[y].cls /\ ch'[y].kind = ch[y].kind
                         /\ ch'[y].st = ch[y].st /\ ch'[y].task = ch[y].task
    <3> SUFFICES ASSUME NEW y \in Lines
                 PROVE  /\ ch'[y].cls = ch[y].cls /\ ch'[y].kind = ch[y].kind
                        /\ ch'[y].st = ch[y].st /\ ch'[y].task = ch[y].task
      OBVIOUS
    <3>1. \A r \in Objects : LET z == [r EXCEPT !.timer = "due"] IN
            z.cls = r.cls /\ z.kind = r.kind /\ z.st = r.st /\ z.task = r.task
      BY DEF Objects
    <3> QED BY <1>1, <2>1, <3>1
  <2> QED BY <2>5, <2>6, SameLinks
<1>3. CASE ~Tick(c)
  <2>1. /\ ch' = ch /\ sock' = sock /\ asked' = asked
        /\ \A y \in Lines \ {c} : board'[y] = board[y] /\ playing'[y] = playing[y]
    BY <1>1, <1>3 DEF Outside, Arrive, GiveUp, FarHangup, Answer, Key, PlayEnd, Fault, Restore,
       BoardTo, Inside
  <2>2. Paired(x)' /\ Mutual(x)'
    BY <1>1, <2>1 DEF Paired, Mutual
  <2>3. PICK e \in Events : queue' = queue \o Post(c, e)
    BY <1>3 DEF Outside, Arrive, GiveUp, FarHangup, Answer, Key, PlayEnd, Fault, Restore, BoardTo,
       Events, ChStates
  <2>4. CASE x # c
    <3>1. Gets(x, "none", "none")
      BY <2>3, <2>4, PostedGets
    <3>2. Still(x) /\ asked'[x] = asked[x]
      BY <2>1, <2>4 DEF Still
    <3> QED BY <1>1, <2>2, <3>1, <3>2, SameLine DEF Still
  <2>5. LineInv(c)'
    <3>1. /\ LineInv(c) /\ ch'[c] = ch[c] /\ sock'[c] = sock[c] /\ asked'[c] = asked[c]
          /\ board[c] # "down"
      BY <1>1, <2>1 DEF LineInv, Sound
    <3>2. ~Fault(c) /\ ~Restore(c)
      BY <3>1 DEF Fault, Restore, Spend
    <3>3. CASE Arrive(c)
      <4>1. PICK a \in {"PENDING", "RxPhoNum"} :
              board' = [board EXCEPT ![c] = "incoming"] /\ queue' = queue \o Post(c, a)
        BY <3>3 DEF Arrive, BoardTo
      <4>2. board[c] = "standby" /\ board'[c] = "incoming" /\ playing' = playing
        BY <1>1, <3>3, <4>1 DEF Arrive
      <4>3. ~Overlaps(c)
        BY <3>3 DEF Arrive
      <4>4. Gets(c, a, "none")
        BY <4>1, PostedGets DEF Events, ChStates
      <4>5. ch[c].cls = "base"
        BY <1>1, <4>3, TakenOver DEF Classed
      <4> QED BY <3>1, <4>2, <4>3, <4>4, <4>5, TakenOver, ArrivesLine
    <3>4. CASE GiveUp(c)
      <4>1. /\ board[c] \in {"incoming", "ringing"} /\ board'[c] = "standby" /\ playing' = playing
            /\ queue' = queue \o Post(c, "STANDBY")
        BY <1>1, <3>4 DEF GiveUp, BoardTo
      <4>2. Gets(c, "STANDBY", "none")
        BY <4>1, PostedGets DEF Events, ChStates
      <4> QED BY <3>1, <4>1, <4>2, GivesUpLine
    <3>5. CASE FarHangup(c)
      <4>1. /\ board[c] \in {"incoming", "ringing", "dialing", "talking"}
            /\ board'[c] = "pending" /\ playing' = playing
            /\ queue' = queue \o Post(c, "PENDING")
        BY <1>1, <3>5 DEF FarHangup, BoardTo
      <4>2. Gets(c, "PENDING", "none")
        BY <4>1, PostedGets DEF Events, ChStates
      <4>3. ch[c].st = "bkIdle" /\ board[c] # "standby" =>
              \E f \in {"PENDING", "RxPhoNum", "PICKUPED"} : Queued(c, f)
        <5> SUFFICES ASSUME ch[c].st = "bkIdle", board[c] # "standby"
                     PROVE  \E f \in {"PENDING", "RxPhoNum", "PICKUPED"} : Queued(c, f)
          OBVIOUS
        <5>1. PICK m \in Movers(c) : Has(queue, m)
          BY DEF Moves
        <5>2. m = Msg(c, m.ev) /\ m.ev \in Moving
          BY DEF Movers, Msgs, Msg
        <5>3. Queued(c, m.ev)
          BY <5>1, <5>2, QueuedHas
        <5> QED BY <3>1, <5>2, <5>3 DEF LineInv, Sound, Moving, Resetting
      <4> QED BY <3>1, <4>1, <4>2, <4>3, FarHangsLine
    <3>6. CASE Answer(c)
      <4>1. /\ board[c] = "dialing" /\ board'[c] = "talking" /\ playing' = playing
            /\ queue' = queue \o Post(c, "TALKING")
        BY <1>1, <3>6 DEF Answer, BoardTo
      <4>2. Gets(c, "TALKING", "none")
        BY <4>1, PostedGets DEF Events, ChStates
      <4> QED BY <3>1, <4>1, <4>2, AnsweredLine
    <3>7. CASE Key(c)
      <4>1. PICK a \in {"#", "*"} : queue' = queue \o Post(c, a)
        BY <3>7 DEF Key, BoardTo
      <4>2. board[c] = "talking" /\ board'[c] = board[c] /\ playing' = playing
        BY <1>1, <3>7 DEF Key, BoardTo
      <4>3. Gets(c, a, "none")
        BY <4>1, PostedGets DEF Events
      <4> QED BY <3>1, <4>2, <4>3, KeyedLine
    <3>8. CASE PlayEnd(c)
      <4>1. /\ playing[c] /\ ~playing'[c] /\ board'[c] = board[c]
            /\ queue' = queue \o Post(c, "PlayEnd")
        BY <1>1, <3>8 DEF PlayEnd, BoardTo
      <4>2. Gets(c, "PlayEnd", "none")
        BY <4>1, PostedGets DEF Events
      <4> QED BY <3>1, <4>1, <4>2, PlayedLine
    <3> QED BY <1>3, <3>2, <3>3, <3>4, <3>5, <3>6, <3>7, <3>8 DEF Outside
  <2> QED BY <2>2, <2>4, <2>5
<1> QED BY <1>2, <1>3

\* CTraffic's thread takes a line for a call back.
LEMMA CallBackHolds ==
  ASSUME TypeOK, AllLines, NEW d \in Lines, CallBack(d), ~overlap', NEW x \in Lines
  PROVE  LineInv(x)' /\ Paired(x)' /\ Mutual(x)'
<1>1. /\ \A y \in Lines : /\ LineInv(y) /\ Classed(y) /\ Paired(y) /\ Mutual(y)
                          /\ ch[y].task \in Lines \cup {None} /\ y # None
      /\ ch \in [Lines -> Objects] /\ board \in [Lines -> Boards]
  BY Typed, ObjectTyped DEF AllLines
<1>2. /\ ch' = [ch EXCEPT ![d].kind = "CABK"] /\ queue' = queue \o Post(d, "PICKUPED")
      /\ board[d] = "standby" /\ board' = [board EXCEPT ![d] = "picked"]
      /\ sock' = sock /\ asked' = asked /\ playing' = playing /\ ~Overlaps(d)
  BY DEF CallBack, Seize, Eligible
<1>3. /\ ch[d].st = "bkIdle" /\ sock[d] = "none" /\ ~playing[d] /\ ch[d].cls = "base"
      /\ \A f : ~Queued(d, f)
      /\ \A f, g : ~Ahead(d, f, g)
  BY <1>1, <1>2, TakenOver DEF Classed
<1>4. ch[d].task = None
  BY <1>1, <1>2, <1>3 DEF LineInv, Picked
<1>5. /\ ch'[d].cls = ch[d].cls /\ ch'[d].kind = "CABK" /\ ch'[d].st = ch[d].st
      /\ ch'[d].task = None /\ ch'[d].reserved = ch[d].reserved /\ ch'[d].timer = ch[d].timer
  <2>1. ch'[d] = [ch[d] EXCEPT !.kind = "CABK"] /\ ch[d] \in Objects
    BY <1>1, <1>2
  <2> QED BY <1>4, <2>1 DEF Objects
<1>6. /\ board'[d] = "picked"
      /\ \A y \in Lines \ {d} : ch'[y] = ch[y] /\ board'[y] = board[y]
  BY <1>1, <1>2
<1>7. /\ Gets(d, "PICKUPED", "none")
      /\ \A y \in Lines \ {d} : Gets(y, "none", "none")
  BY <1>2, PostedGets DEF Events, ChStates
<1>8. LineInv(x)'
  <2>1. CASE x = d
    <3>1. sock'[d] = sock[d] /\ asked'[d] = asked[d] /\ playing'[d] = playing[d]
      BY <1>2
    <3> QED BY <1>1, <1>2, <1>3, <1>5, <1>6, <1>7, <2>1, <3>1, SeizedLine
  <2>2. CASE x # d
    <3>1. Still(x) /\ asked'[x] = asked[x]
      BY <1>2, <1>6, <2>2 DEF Still
    <3> QED BY <1>1, <1>7, <2>2, <3>1, SameLine DEF Still
  <2> QED BY <2>1, <2>2
<1>9. Paired(x)' /\ Mutual(x)'
  <2>1. CASE x = d
    BY <1>5, <2>1 DEF Paired, Mutual
  <2>2. CASE x # d /\ ch[x].task = None
    BY <1>6, <2>2 DEF Paired, Mutual
  <2>3. CASE x # d /\ ch[x].task # None
    <3>1. ch[x].task \in Lines \ {d}
      BY <1>1, <1>4, <2>3 DEF Mutual
    <3>2. ch'[ch[x].task] = ch[ch[x].task] /\ ch'[x] = ch[x]
      BY <1>6, <2>3, <3>1
    <3> QED BY <1>1, <3>2 DEF Paired, Mutual
  <2> QED BY <2>1, <2>2, <2>3
<1> QED BY <1>8, <1>9

-----------------------------------------------------------------------------
(* The invariant *)

\* Initially every line is idle and on hook, and no fault of the trunk is to come unless
\* there may be one.
LEMMA InitCall == Init => CallInv
<1> SUFFICES ASSUME Init PROVE CallInv
  OBVIOUS
<1>1. LegInv
  BY InitLeg
<1>2. stalePick => overlap
  BY Zenon DEF Init
<1>3. Faults = 0 => budget.faults = 0
  BY DEF Init, Budget
<1>4. ASSUME NEW x \in Lines PROVE LineInv(x) /\ Paired(x) /\ Mutual(x)
  <2>1. /\ ch[x].st = "bkIdle" /\ ch[x].cls = "base" /\ ch[x].task = None
        /\ ch[x].timer = "off" /\ sock[x] = "none" /\ board[x] = "standby" /\ ~playing[x]
    BY DEF Init, NewObject
  <2>2. ch[x].kind = NoCall
    <3>1. ch = [c \in Lines |-> NewObject]
      BY Zenon DEF Init
    <3>2. ch[x] = NewObject
      BY <3>1
    <3>3. NewObject.kind = NoCall
      BY Zenon DEF NewObject, NoCall
    <3> QED BY <3>2, <3>3
  <2>3. \A f : ~Queued(x, f)
    <3>1. queue = <<>>
      BY Zenon DEF Init
    <3> QED BY <3>1 DEF Queued
  <2>4. \A f, g : ~Ahead(x, f, g)
    BY <2>3, AheadQueued
  <2>5. Sound(x) /\ Linking(x) /\ Closing(x) /\ InCall(x)
    BY <2>1, <2>2, <2>3, <2>4, NoCallKind DEF Sound, Linking, Closing, InCall, Releasing, CallLegs
  <2>6. Coming(x) /\ Login(x) /\ Picked(x) /\ Guarded(x)
    BY <2>1, <2>2, <2>3, <2>4 DEF Coming, Login, Picked, Guarded, LoggingIn, FeeQueued, FeeEnds
  <2> QED BY <2>1, <2>5, <2>6 DEF LineInv, Paired, Mutual
<1> QED BY <1>1, <1>2, <1>3, <1>4 DEF CallInv

\* Every step preserves it.
LEMMA NextCall == CallInv /\ [Next]_vars => CallInv'
<1> SUFFICES ASSUME CallInv, [Next]_vars PROVE CallInv'
  OBVIOUS
<1>1. LegInv' /\ LegInv /\ TypeOK
  BY NextLeg DEF CallInv, LegInv
<1>2. (stalePick => overlap)' /\ (overlap => overlap')
  <2>1. \/ stalePick' = stalePick /\ overlap' = overlap
        \/ \E d \in Lines : /\ stalePick' = stalePick \/ stalePick' = (stalePick \/ Leftover(d))
                            /\ overlap' = (overlap \/ Overlaps(d))
    <3>1. CASE RunPolling
      BY <3>1, Zenon DEF RunPolling, Handle, bkIdle, bkOffHk, bkFree, ResetPcm, seiConfm, FeeLogin,
         rcvMFsig, RcvTalk, WaitDial, ExitPlay, FwdPlay, RcvLvTel, RcvUlTel, NoLine, CallOut, Seize
    <3>2. CASE NoEvent \/ UNCHANGED vars
      BY <3>2 DEF NoEvent, vars
    <3>3. ASSUME NEW c \in Lines, OnRun(c) PROVE stalePick' = stalePick /\ overlap' = overlap
      BY <1>1, <3>3 DEF OnRun, Quiet, Connected, Dropped, Refused, Bound, NoService, AtLine
    <3>4. ASSUME NEW c \in Lines, CallBack(c)
          PROVE  stalePick' = (stalePick \/ Leftover(c)) /\ overlap' = (overlap \/ Overlaps(c))
      BY <3>4, Zenon DEF CallBack, Seize
    <3>5. ASSUME NEW c \in Lines, Outside(c)
          PROVE  /\ stalePick' = stalePick
                 /\ overlap' = overlap \/ overlap' = (overlap \/ Overlaps(c))
      BY <3>5, Zenon DEF Outside, Arrive, GiveUp, FarHangup, Answer, Key, PlayEnd, Fault, Restore,
         Tick, BoardTo, Inside
    <3> QED BY <3>1, <3>2, <3>3, <3>4, <3>5, Zenon DEF Next
  <2>2. stalePick => overlap
    BY DEF CallInv
  <2>3. ASSUME NEW d \in Lines, stalePick' = (stalePick \/ Leftover(d)),
               overlap' = (overlap \/ Overlaps(d))
        PROVE  (stalePick' => overlap') /\ (overlap => overlap')
    BY <2>2, <2>3, Zenon DEF Overlaps
  <2>4. ASSUME NEW d \in Lines, stalePick' = stalePick, overlap' = (overlap \/ Overlaps(d))
        PROVE  (stalePick' => overlap') /\ (overlap => overlap')
    BY <2>2, <2>4, Zenon
  <2>5. CASE stalePick' = stalePick /\ overlap' = overlap
    BY <2>2, <2>5, Zenon
  <2>6. (stalePick => overlap)' <=> (stalePick' => overlap')
    OBVIOUS
  <2> QED BY <2>1, <2>3, <2>4, <2>5, <2>6, Zenon
<1>3. (Faults = 0 => budget.faults = 0)'
  <2>1. budget' = budget \/ \E k \in {"calls", "keys", "faults", "refusals"} : Spend(k)
    BY DEF Next, NoEvent, RunPolling, OnRun, Quiet, Connected, Dropped, Refused, Bound, NoService,
       CallBack, Outside, Arrive, GiveUp, FarHangup, Answer, Key, PlayEnd, Fault, Restore, Tick, vars
  <2>2. budget \in [{"calls", "keys", "faults", "refusals"} -> Nat]
    BY <1>1 DEF TypeOK
  <2> QED BY <2>1, <2>2 DEF CallInv, Spend
<1>4. ASSUME Faults = 0, ~overlap', NEW x \in Lines
      PROVE  LineInv(x)' /\ Paired(x)' /\ Mutual(x)'
  <2>1. ~overlap
    BY <1>2, <1>4, Zenon
  <2>2. AllLines /\ \A y \in Lines : Moves(y)
    <3>1. ~stalePick
      BY <2>1, Zenon DEF CallInv
    <3> QED BY <1>1, <1>4, <2>1, <3>1 DEF CallInv, LegInv, Clean, AllLines
  <2>3. CASE RunPolling
    BY <1>1, <1>4, <2>2, <2>3, PollHolds
  <2>4. ASSUME NEW c \in Lines, OnRun(c) PROVE LineInv(x)' /\ Paired(x)' /\ Mutual(x)'
    BY <1>1, <2>2, <2>4, OnRunHolds
  <2>5. ASSUME NEW c \in Lines, CallBack(c) PROVE LineInv(x)' /\ Paired(x)' /\ Mutual(x)'
    BY <1>1, <1>4, <2>2, <2>5, CallBackHolds
  <2>6. ASSUME NEW c \in Lines, Outside(c) PROVE LineInv(x)' /\ Paired(x)' /\ Mutual(x)'
    BY <1>1, <1>4, <2>2, <2>6, OutsideHolds DEF CallInv
  <2>7. CASE NoEvent \/ UNCHANGED vars
    <3>1. /\ ch' = ch /\ sock' = sock /\ asked' = asked /\ board' = board
          /\ playing' = playing /\ queue' = queue
      BY <2>7 DEF NoEvent, vars
    <3>2. queue' = queue \o <<>>
      BY <1>1, <3>1, Typed
    <3>3. LineInv(x)'
      BY <1>1, <2>2, <3>1, <3>2, BringsNothing, OtherLine DEF AllLines, Still
    <3> QED BY <2>2, <3>1, <3>3 DEF AllLines, Paired, Mutual
  <2> QED BY <2>3, <2>4, <2>5, <2>6, <2>7 DEF Next
<1> QED BY <1>1, <1>2, <1>3, <1>4 DEF CallInv

\* The invariant holds from the start and through every step.
LEMMA CallsHold == Spec => []CallInv
BY InitCall, NextCall, PTL DEF Spec

\* The billing server charges for a line only while a caller, or the leg dialled for him, is
\* in a call on it: RcvTalk_init, which starts the billing, finds the line in a call, and
\* every way out of the call but the last prompt closes the connection.
THEOREM ChargedOnlyInCall == Spec => []BilledOnlyInCall
<1>1. ASSUME CallInv, Faults = 0, ~overlap, NEW c \in Lines, sock[c] = "talk"
      PROVE  ch[c].st \in {"FwdPlay", "RcvLvTel", "RcvUlTel", "RcvTalk", "ExitPlay"}
  BY <1>1 DEF CallInv, LineInv, InCall, CallLegs
<1>2. CallInv => BilledOnlyInCall
  BY <1>1 DEF BilledOnlyInCall
<1> QED BY <1>2, CallsHold, PTL

\* SetLinker and KillLinker keep the links mutual, on a board without faults of the trunk
\* on which no line begins a call before its last is over.
THEOREM LinksStayMutual == Spec => [](Faults = 0 /\ ~overlap => LinksMutual)
<1>1. CallInv => (Faults = 0 /\ ~overlap => LinksMutual)
  BY DEF CallInv, Mutual, LinksMutual
<1> QED BY <1>1, CallsHold, PTL

\* On such a board a leg dialled for a caller belongs to a caller's leg that waits or talks,
\* or the PENDING that will release it is in the queue: no leg dials, talks and costs on
\* its own.
THEOREM LegsStayTogether == Spec => [](Faults = 0 /\ ~overlap => LegsAgree)
<1>1. ASSUME CallInv, Faults = 0, ~overlap, NEW c \in Lines, ch[c].kind = "CAHK",
             ch[c].st \notin Releasing
      PROVE  \/ ch[c].task # None /\ ch[ch[c].task].cls = "talk" /\ ch[ch[c].task].st = "RcvTalk"
             \/ ch[c].task = None /\ Queued(c, "PENDING")
  BY <1>1 DEF CallInv, LineInv, Linking, Paired
<1>2. CallInv => (Faults = 0 /\ ~overlap => LegsAgree)
  BY <1>1 DEF LegsAgree
<1> QED BY <1>2, CallsHold, PTL

\* On such a board a line in FeeLogin that has neither a timer nor a connection has an event
\* in the queue that will take it out: the timer of FeeLogin_init is stopped only by an answer
\* of the server, and no answer to a past login is left when the next begins.
THEOREM LoginStaysGuarded == Spec => [](Faults = 0 /\ ~overlap => LoginGuarded)
<1>1. ASSUME CallInv, Faults = 0, ~overlap, NEW c \in Lines, ch[c].st = "FeeLogin",
             ch[c].timer = "off", sock[c] = "none"
      PROVE  Pending(c)
  <2>1. PICK e : Queued(c, e)
    BY <1>1 DEF CallInv, LineInv, Guarded, FeeQueued
  <2> QED BY <2>1 DEF Queued, Pending
<1>2. CallInv => (Faults = 0 /\ ~overlap => LoginGuarded)
  BY <1>1 DEF LoginGuarded
<1> QED BY <1>2, CallsHold, PTL

=============================================================================
