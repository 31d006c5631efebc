------------------------------ MODULE LegProofs ------------------------------
(***************************************************************************)
(* Lines that are idle and lines that are ordered to dial: proof that the  *)
(* order to dial is not lost, and that no line is left off hook with       *)
(* nothing to come for it, on a board whose lines are only picked when     *)
(* their last call is over.                                                *)
(***************************************************************************)
EXTENDS ChannelProofs

Standby(d)   == [line |-> d, ev |-> "STANDBY"]
Order(d)     == [line |-> d, ev |-> "PICKUPED"]
Resetting    == {"UNAVAIL", "RESET"}
Moving       == {"PENDING", "RxPhoNum", "PICKUPED"} \cup Resetting
Resets(d)    == {m \in Msgs : m.line = d /\ m.ev \in Resetting}
Movers(d)    == {m \in Msgs : m.line = d /\ m.ev \in Moving}

\* One of A is in the queue before any m, and behind every m.
Sooner(s, A, m) == \E j \in DOMAIN s : s[j] \in A /\ \A i \in 1 .. j - 1 : s[i] # m
Behind(s, m, A) == \A i \in DOMAIN s : s[i] = m =>
                     \E j \in DOMAIN s : j > i /\ s[j] \in A

Keypad == {"FwdPlay", "RcvLvTel", "RcvUlTel"}
OffHookStates == {"picked", "dialing", "talking", "pending"}

\* The classes of the objects whose state says so.
Classed(d) == /\ ch[d].st = "bkIdle" => ch[d].cls = "base"
              /\ ch[d].st \in Keypad => ch[d].cls = "talk"

Ordered(d) == ch[d].st = "bkIdle" /\ ch[d].task # None => Queued(d, "PICKUPED")

\* A line ordered to dial asks for the dialler, and a caller's leg never does.
Dialled(d) ==
  /\ ch[d].kind = "CAHK" /\ sock[d] = "login" => asked[d] = "CAHK"
  /\ ch[d].cls = "talk" => /\ ch[d].kind # "CAHK"
                           /\ sock[d] = "login" => asked[d] # "CAHK"

\* A leg that is linked before it talks for itself is off hook, and no STANDBY comes to it
\* but behind a fault of the trunk, which releases it.
Leg(d) ==
  ch[d].cls # "talk" /\ ch[d].task # None =>
    \/ board[d] \in OffHookStates /\ ~Queued(d, "STANDBY")
    \/ Sooner(queue, Resets(d), Standby(d))

\* Behind a STANDBY comes what has taken the line off hook since.
Wakes(d) == board[d] = "standby" \/ Behind(queue, Standby(d), Movers(d))

Moves(d) == ch[d].st = "bkIdle" /\ board[d] # "standby" =>
              \E m \in Movers(d) : Has(queue, m)

Clean(d) == Dialled(d) /\ Leg(d) /\ Wakes(d) /\ Moves(d)

LegInv == /\ TypeOK
          /\ \A d \in Lines : Classed(d) /\ Ordered(d)
          /\ ~stalePick => \A d \in Lines : Clean(d)

-----------------------------------------------------------------------------
(* The event queue *)

\* What is in a queue that was added to was there or was added.
LEMMA HasSplit ==
  ASSUME NEW s \in Seq(Msgs), NEW t \in Seq(Msgs), NEW m, Has(s \o t, m)
  PROVE  Has(s, m) \/ Has(t, m)
<1>1. PICK i \in DOMAIN (s \o t) : (s \o t)[i] = m
  BY DEF Has
<1>2. CASE i <= Len(s)
  BY <1>1, <1>2 DEF Has
<1>3. CASE i > Len(s)
  <2>1. i - Len(s) \in DOMAIN t /\ t[i - Len(s)] = m
    BY <1>1, <1>3
  <2> QED BY <2>1 DEF Has
<1> QED BY <1>1, <1>2, <1>3

LEMMA Associates ==
  ASSUME NEW x \in Seq(Msgs), NEW y \in Seq(Msgs), NEW z \in Seq(Msgs)
  PROVE  x \o (y \o z) = (x \o y) \o z
OBVIOUS

\* What was added is there.
LEMMA HasAdded ==
  ASSUME NEW s \in Seq(Msgs), NEW t \in Seq(Msgs), NEW m, Has(t, m)
  PROVE  Has(s \o t, m)
<1>1. PICK i \in DOMAIN t : t[i] = m
  BY DEF Has
<1>2. Len(s) + i \in DOMAIN (s \o t) /\ (s \o t)[Len(s) + i] = m
  BY <1>1
<1> QED BY <1>2 DEF Has

\* A poll brings nothing.
LEMMA TailHas ==
  ASSUME NEW s \in Seq(Msgs), s # <<>>, NEW m, Has(Tail(s), m)
  PROVE  Has(s, m)
<1>1. PICK i \in DOMAIN Tail(s) : Tail(s)[i] = m
  BY DEF Has
<1>2. i + 1 \in DOMAIN s /\ s[i + 1] = m
  BY <1>1
<1> QED BY <1>2 DEF Has

\* Being before any m is kept by what is added.
LEMMA SoonerConcat ==
  ASSUME NEW s \in Seq(Msgs), NEW t \in Seq(Msgs), NEW A, NEW m, Sooner(s, A, m)
  PROVE  Sooner(s \o t, A, m)
<1>1. PICK j \in DOMAIN s : s[j] \in A /\ \A i \in 1 .. j - 1 : s[i] # m
  BY DEF Sooner
<1>2. j \in DOMAIN (s \o t) /\ (s \o t)[j] = s[j]
  BY <1>1
<1>3. \A i \in 1 .. j - 1 : (s \o t)[i] = s[i]
  BY <1>1
<1> QED BY <1>1, <1>2, <1>3 DEF Sooner

\* One of A that is added to a queue without m is before any m.
LEMMA SoonerAdded ==
  ASSUME NEW s \in Seq(Msgs), NEW A, NEW m, NEW x \in Msgs, x \in A, ~Has(s, m)
  PROVE  Sooner(s \o <<x>>, A, m)
<1>1. Len(s) + 1 \in DOMAIN (s \o <<x>>) /\ (s \o <<x>>)[Len(s) + 1] = x
  OBVIOUS
<1>2. \A i \in 1 .. Len(s) : (s \o <<x>>)[i] = s[i] /\ s[i] # m
  BY DEF Has
<1> DEFINE w == s \o <<x>>
           n == Len(s) + 1
<1>3. n \in DOMAIN w /\ w[n] \in A
  BY <1>1
<1>4. n - 1 = Len(s)
  OBVIOUS
<1>5. \A i \in 1 .. n - 1 : w[i] # m
  BY <1>2, <1>4
<1> HIDE DEF w, n
<1>6. Sooner(w, A, m)
  BY <1>3, <1>5 DEF Sooner
<1> QED BY <1>6 DEF w

\* A poll of anything but A keeps it.
LEMMA SoonerTail ==
  ASSUME NEW s \in Seq(Msgs), s # <<>>, NEW A, NEW m, Sooner(s, A, m), Head(s) \notin A
  PROVE  Sooner(Tail(s), A, m) /\ Head(s) # m
<1>1. PICK j \in DOMAIN s : s[j] \in A /\ \A i \in 1 .. j - 1 : s[i] # m
  BY DEF Sooner
<1>2. j # 1 /\ j - 1 \in DOMAIN Tail(s) /\ Tail(s)[j - 1] = s[j]
  BY <1>1
<1>3. \A i \in 1 .. (j - 1) - 1 : Tail(s)[i] = s[i + 1] /\ s[i + 1] # m
  BY <1>1, <1>2
<1>4. Head(s) # m
  BY <1>1, <1>2
<1> QED BY <1>1, <1>2, <1>3, <1>4 DEF Sooner

\* What stands behind every m does so when no m is added.
LEMMA BehindConcat ==
  ASSUME NEW s \in Seq(Msgs), NEW t \in Seq(Msgs), NEW A, NEW m, Behind(s, m, A),
         ~Has(t, m)
  PROVE  Behind(s \o t, m, A)
<1> SUFFICES ASSUME NEW i \in DOMAIN (s \o t), (s \o t)[i] = m
             PROVE  \E j \in DOMAIN (s \o t) : j > i /\ (s \o t)[j] \in A
  BY DEF Behind
<1>1. CASE i <= Len(s)
  <2>1. i \in DOMAIN s /\ s[i] = m
    BY <1>1
  <2>2. PICK j \in DOMAIN s : j > i /\ s[j] \in A
    BY <2>1 DEF Behind
  <2>3. j \in DOMAIN (s \o t) /\ (s \o t)[j] = s[j]
    BY <2>2
  <2> QED BY <2>2, <2>3
<1>2. CASE i > Len(s)
  <2>1. i - Len(s) \in DOMAIN t /\ t[i - Len(s)] = m
    BY <1>2
  <2> QED BY <2>1 DEF Has
<1> QED BY <1>1, <1>2

\* What is added comes behind everything there was.
LEMMA BehindAdded ==
  ASSUME NEW s \in Seq(Msgs), NEW t \in Seq(Msgs), NEW A, NEW m, NEW x \in A, Has(t, x),
         ~Has(t, m)
  PROVE  Behind(s \o t, m, A)
<1> SUFFICES ASSUME NEW i \in DOMAIN (s \o t), (s \o t)[i] = m
             PROVE  \E j \in DOMAIN (s \o t) : j > i /\ (s \o t)[j] \in A
  BY DEF Behind
<1>1. i <= Len(s)
  <2>1. CASE i > Len(s)
    <3>1. i - Len(s) \in DOMAIN t /\ t[i - Len(s)] = m
      BY <2>1
    <3> QED BY <3>1 DEF Has
  <2> QED BY <2>1
<1>2. PICK k \in DOMAIN t : t[k] = x
  BY DEF Has
<1>3. /\ Len(s) + k \in DOMAIN (s \o t) /\ Len(s) + k > i
      /\ (s \o t)[Len(s) + k] = x
  BY <1>1, <1>2
<1> QED BY <1>3

\* A poll keeps it.
LEMMA BehindTail ==
  ASSUME NEW s \in Seq(Msgs), s # <<>>, NEW A, NEW m, Behind(s, m, A)
  PROVE  /\ Behind(Tail(s), m, A)
         /\ Head(s) = m => \E x \in A : Has(Tail(s), x)
<1>1. ASSUME NEW i \in DOMAIN s, s[i] = m
      PROVE  \E j \in DOMAIN Tail(s) : j > i - 1 /\ Tail(s)[j] \in A
  <2>1. PICK j \in DOMAIN s : j > i /\ s[j] \in A
    BY <1>1 DEF Behind
  <2>2. j - 1 \in DOMAIN Tail(s) /\ Tail(s)[j - 1] = s[j] /\ j - 1 > i - 1
    BY <2>1
  <2> QED BY <2>1, <2>2
<1>2. Behind(Tail(s), m, A)
  <2> SUFFICES ASSUME NEW i \in DOMAIN Tail(s), Tail(s)[i] = m
               PROVE  \E j \in DOMAIN Tail(s) : j > i /\ Tail(s)[j] \in A
    BY DEF Behind
  <2>1. i + 1 \in DOMAIN s /\ s[i + 1] = m /\ (i + 1) - 1 = i
    OBVIOUS
  <2> QED BY <1>1, <2>1
<1>3. Head(s) = m => \E x \in A : Has(Tail(s), x)
  <2>1. 1 \in DOMAIN s /\ s[1] = Head(s)
    OBVIOUS
  <2> QED BY <1>1, <2>1 DEF Has
<1> QED BY <1>2, <1>3

-----------------------------------------------------------------------------
(* What a step leaves of the queue and adds to it *)

\* q is left of the queue and t is added.  A STANDBY is only posted for a line that is
\* on hook, and whatever takes a line off hook posts something to move it.
Adds(q, t) ==
  /\ t \in Seq(Msgs) /\ queue' = q \o t
  /\ \A x \in Lines : /\ Has(t, Standby(x)) => board'[x] = "standby"
                      /\ board[x] = "standby" /\ board'[x] # "standby"
                           => \E m \in Movers(x) : Has(t, m)

Left(q) == q = queue \/ (queue # <<>> /\ q = Tail(queue))

LEMMA LeftTyped ==
  ASSUME TypeOK, NEW q, Left(q)
  PROVE  queue \in Seq(Msgs) /\ q \in Seq(Msgs)
BY Typed DEF Left

\* What is in the queue and is not polled is kept.
LEMMA HasKept ==
  ASSUME TypeOK, NEW q, NEW t \in Seq(Msgs), Left(q), queue' = q \o t, NEW m,
         Has(queue, m), q = queue \/ Head(queue) # m
  PROVE  Has(queue', m)
<1>1. Has(q, m)
  BY HasTail, LeftTyped DEF Left
<1> QED BY <1>1, HasConcat, LeftTyped

\* Nothing is in the queue that was not there or added.
LEMMA HasOnly ==
  ASSUME TypeOK, NEW q, NEW t \in Seq(Msgs), Left(q), queue' = q \o t, NEW m,
         ~Has(queue, m), ~Has(t, m)
  PROVE  ~Has(queue', m)
<1>1. ~Has(q, m)
  BY TailHas, LeftTyped DEF Left
<1> QED BY <1>1, HasSplit, LeftTyped

\* Whatever the step, what has taken a line off hook comes behind its STANDBY.
LEMMA WakesStep ==
  ASSUME TypeOK, NEW x \in Lines, Wakes(x), NEW q, NEW t, Left(q), Adds(q, t)
  PROVE  Wakes(x)'
<1> SUFFICES ASSUME board'[x] # "standby" PROVE Behind(queue', Standby(x), Movers(x))
  BY DEF Wakes, Movers, Standby
<1>1. t \in Seq(Msgs) /\ queue' = q \o t /\ ~Has(t, Standby(x))
  BY DEF Adds
<1>2. CASE board[x] = "standby"
  <2>1. PICK m \in Movers(x) : Has(t, m)
    BY <1>2 DEF Adds
  <2> QED BY <1>1, <2>1, BehindAdded, LeftTyped
<1>3. CASE board[x] # "standby"
  <2>1. Behind(queue, Standby(x), Movers(x))
    BY <1>3 DEF Wakes
  <2>2. Behind(q, Standby(x), Movers(x))
    BY <2>1, BehindTail, LeftTyped DEF Left
  <2> QED BY <1>1, <2>2, BehindConcat, LeftTyped
<1> QED BY <1>2, <1>3

\* A line that was idle is off hook with something to come, unless that was polled.
LEMMA MovesStep ==
  ASSUME TypeOK, NEW x \in Lines, Moves(x), NEW q, NEW t, Left(q), Adds(q, t),
         ch'[x].st = "bkIdle" => ch[x].st = "bkIdle",
         q = queue \/ Head(queue) \notin Movers(x)
  PROVE  Moves(x)'
<1> SUFFICES ASSUME ch'[x].st = "bkIdle", board'[x] # "standby"
             PROVE  \E m \in Movers(x) : Has(queue', m)
  BY DEF Moves, Movers
<1>1. t \in Seq(Msgs) /\ queue' = q \o t
  BY DEF Adds
<1>2. CASE board[x] = "standby"
  BY <1>1, <1>2, HasAdded, LeftTyped DEF Adds
<1>3. CASE board[x] # "standby"
  <2>1. PICK m \in Movers(x) : Has(queue, m)
    BY <1>3 DEF Moves
  <2> QED BY <1>1, <2>1, HasKept
<1> QED BY <1>2, <1>3

\* The order to dial is kept, unless it is polled.
LEMMA OrderedStep ==
  ASSUME TypeOK, NEW x \in Lines, Ordered(x), NEW q, NEW t \in Seq(Msgs), Left(q),
         queue' = q \o t,
         ch'[x].st = "bkIdle" /\ ch'[x].task # None
           => ch[x].st = "bkIdle" /\ ch[x].task # None,
         q = queue \/ Head(queue) # Order(x)
  PROVE  Ordered(x)'
<1> SUFFICES ASSUME ch'[x].st = "bkIdle", ch'[x].task # None PROVE Has(queue', Order(x))
  BY DEF Ordered, Queued, Has, Order
<1>1. Has(queue, Order(x))
  BY DEF Ordered, Queued, Has, Order
<1> QED BY <1>1, HasKept

\* A leg that stays off hook, or has a fault before it that was not polled.
LEMMA LegStep ==
  ASSUME TypeOK, NEW x \in Lines, Leg(x), NEW q, NEW t, Left(q), Adds(q, t),
         ch'[x].cls # "talk" /\ ch'[x].task # None
           => ch[x].cls # "talk" /\ ch[x].task # None,
         board[x] \in OffHookStates => board'[x] \in OffHookStates,
         q = queue \/ Head(queue) \notin Resets(x)
  PROVE  Leg(x)'
<1> SUFFICES ASSUME ch'[x].cls # "talk", ch'[x].task # None
             PROVE  \/ board'[x] \in OffHookStates /\ ~Has(queue', Standby(x))
                    \/ Sooner(queue', Resets(x), Standby(x))
  BY DEF Leg, Queued, Has, Standby, Resets
<1>1. t \in Seq(Msgs) /\ queue' = q \o t
  BY DEF Adds
<1>2. CASE board[x] \in OffHookStates /\ ~Queued(x, "STANDBY")
  <2>1. ~Has(queue, Standby(x))
    BY <1>2 DEF Queued, Has, Standby
  <2>2. ~Has(t, Standby(x))
    BY <1>2 DEF Adds, OffHookStates
  <2> QED BY <1>1, <1>2, <2>1, <2>2, HasOnly
<1>3. CASE Sooner(queue, Resets(x), Standby(x))
  <2>1. Sooner(q, Resets(x), Standby(x))
    <3>1. CASE q = queue
      BY <1>3, <3>1
    <3>2. CASE q # queue
      <4>1. queue # <<>> /\ q = Tail(queue) /\ Head(queue) \notin Resets(x)
        BY <3>2 DEF Left
      <4>2. queue \in Seq(Msgs)
        BY LeftTyped
      <4> QED BY <1>3, <4>1, <4>2, SoonerTail
    <3> QED BY <3>1, <3>2
  <2> QED BY <1>1, <2>1, SoonerConcat, LeftTyped
<1> QED BY <1>2, <1>3 DEF Leg

\* No STANDBY of a leg that is linked is polled, so a dialler passes none on.
LEMMA NoneForwarded ==
  ASSUME TypeOK, queue # <<>>, \A d \in Lines : Leg(d), NEW x \in Lines
  PROVE  ~Has(Forwarded, Standby(x))
<1> DEFINE c == Head(queue).line
           e == Head(queue).ev
<1>1. queue \in Seq(Msgs) /\ Head(queue) \in Msgs
  BY RestTyped, Typed
<1>2. c \in Lines
  BY <1>1 DEF Msgs
<1>3. CASE e = "STANDBY" /\ ch[c].cls = "dialer" /\ ch[c].task # None
  <2>1. Head(queue) = Standby(c)
    BY <1>1, <1>3 DEF Msgs, Standby
  <2>2. 1 \in DOMAIN queue /\ queue[1] = Standby(c)
    BY <1>1, <2>1
  <2>3. Queued(c, "STANDBY")
    BY <2>2 DEF Queued, Standby
  <2>4. Head(queue) \notin Resets(c)
    BY <1>3 DEF Resets, Resetting
  <2>5. ~Sooner(queue, Resets(c), Standby(c))
    BY <1>1, <2>1, <2>4, SoonerTail
  <2> QED BY <1>2, <1>3, <2>3, <2>5 DEF Leg
<1>4. CASE ~(e = "STANDBY" /\ ch[c].cls = "dialer" /\ ch[c].task # None)
  <2>1. \A m : ~Has(<<>>, m)
    BY DEF Has
  <2>2. Forwarded = <<>> \/ Forwarded = <<[line |-> ch[c].task, ev |-> e]>>
    BY DEF Forwarded, PostIf, Post
  <2>3. Forwarded # <<>> => e # "STANDBY"
    BY <1>4 DEF Forwarded, PostIf, Post
  <2>4. ASSUME Has(Forwarded, Standby(x)) PROVE FALSE
    <3>1. Forwarded = <<[line |-> ch[c].task, ev |-> e]>> /\ e # "STANDBY"
      BY <2>1, <2>2, <2>3, <2>4
    <3> QED BY <2>4, <3>1 DEF Has, Standby
  <2> QED BY <2>4
<1> QED BY <1>3, <1>4

-----------------------------------------------------------------------------
(* The steps that poll nothing *)

\* What becomes of line x when its object keeps its class, state, link and kind of
\* call and its connection does not come to log in.
Keeps(x) == /\ ch'[x].cls = ch[x].cls /\ ch'[x].st = ch[x].st
            /\ ch'[x].task = ch[x].task
            /\ ch'[x].kind = ch[x].kind \/ ch'[x].kind = "CABK"
            /\ sock'[x] = "login" => \/ sock[x] = "login" /\ asked'[x] = asked[x]
                                     \/ asked'[x] = ch[x].kind /\ ch'[x].kind = ch[x].kind

LEMMA KeepsFace ==
  ASSUME NEW x \in Lines, Keeps(x)
  PROVE  /\ Classed(x) => Classed(x)'
         /\ Dialled(x) => Dialled(x)'
BY DEF Keeps, Classed, Dialled

\* A step that adds to the queue and keeps the lines, none of them coming on hook.
LEMMA KeepsLine ==
  ASSUME LegInv, NEW x \in Lines, Keeps(x), NEW t, Adds(queue, t)
  PROVE  /\ Classed(x)' /\ Ordered(x)'
         /\ ~stalePick => /\ Dialled(x)' /\ Wakes(x)' /\ Moves(x)'
                          /\ (board[x] \in OffHookStates => board'[x] \in OffHookStates)
                               => Leg(x)'
<1>1. TypeOK /\ Classed(x) /\ Ordered(x) /\ Left(queue)
  BY DEF LegInv, Left
<1>2. t \in Seq(Msgs) /\ queue' = queue \o t
  BY DEF Adds
<1>3. Classed(x)'
  BY <1>1, KeepsFace
<1>4. Ordered(x)'
  BY <1>1, <1>2, OrderedStep DEF Keeps
<1>5. ASSUME ~stalePick
      PROVE  /\ Dialled(x)' /\ Wakes(x)' /\ Moves(x)'
             /\ (board[x] \in OffHookStates => board'[x] \in OffHookStates) => Leg(x)'
  <2>1. Dialled(x) /\ Leg(x) /\ Wakes(x) /\ Moves(x)
    BY <1>5 DEF LegInv, Clean
  <2>2. Dialled(x)'
    BY <2>1, KeepsFace
  <2>3. Wakes(x)'
    BY <1>1, <2>1, WakesStep
  <2>4. Moves(x)'
    BY <1>1, <2>1, MovesStep DEF Keeps
  <2>5. (board[x] \in OffHookStates => board'[x] \in OffHookStates) => Leg(x)'
    BY <1>1, <2>1, LegStep DEF Keeps
  <2> QED BY <2>2, <2>3, <2>4, <2>5
<1> QED BY <1>3, <1>4, <1>5

\* One event that takes no line off hook.
LEMMA AddsOne ==
  ASSUME TypeOK, NEW c \in Lines, NEW e \in Events, queue' = queue \o Post(c, e),
         e = "STANDBY" => board'[c] = "standby",
         \A x \in Lines : board[x] = "standby" /\ board'[x] # "standby"
                            => x = c /\ e \in Moving
  PROVE  Adds(queue, Post(c, e)) /\ Post(c, e) = <<[line |-> c, ev |-> e]>>
<1> DEFINE m == [line |-> c, ev |-> e]
<1>1. Post(c, e) = <<m>>
  BY DEF Post, Lines, None
<1>2. m \in Msgs /\ m.line = c /\ m.ev = e
  BY DEF Msgs
<1> HIDE DEF m
<1>3. \A y : Has(<<m>>, y) <=> y = m
  BY DEF Has
<1>4. ASSUME NEW x \in Lines, Has(<<m>>, Standby(x)) PROVE board'[x] = "standby"
  <2>1. Standby(x) = m
    BY <1>3, <1>4
  <2>2. x = c /\ e = "STANDBY"
    BY <1>2, <2>1 DEF Standby
  <2> QED BY <2>2
<1>5. ASSUME NEW x \in Lines, board[x] = "standby", board'[x] # "standby"
      PROVE  \E y \in Movers(x) : Has(<<m>>, y)
  <2>1. m \in Movers(x)
    BY <1>2, <1>5 DEF Movers
  <2> QED BY <1>3, <2>1
<1> QED BY <1>1, <1>2, <1>4, <1>5 DEF Adds, m

\* The events that a visit posts leave the board alone.
LEMMA AddsVisit ==
  ASSUME TypeOK, NEW c \in Lines, board' = board, NEW t \in Seq(Msgs),
         queue' = queue \o t, \A x \in Lines : ~Has(t, Standby(x))
  PROVE  Adds(queue, t)
BY DEF Adds

\* What a visit adds: an expired timer, and an event of the connection.
LEMMA VisitAdds ==
  ASSUME TypeOK, NEW c \in Lines, OnRun(c)
  PROVE  \E t : Adds(queue, t)
<1>1. board' = board
  BY DEF OnRun, Quiet, Connected, Dropped, Refused, Bound, NoService, AtLine
<1>2. \/ queue' = queue \o Expired(c)
      \/ \E e \in FeeEnds \cup {"FeeConn"} : queue' = queue \o Expired(c) \o Post(c, e)
  BY DEF OnRun, Quiet, Connected, Dropped, Refused, Bound, NoService, FeeEnds
<1>3. queue \in Seq(Msgs) /\ Expired(c) \in Seq(Msgs)
  BY FreedTyped, Typed
<1>4. \A x \in Lines : ~Has(Expired(c), Standby(x))
  <2>1. Expired(c) = <<>> \/ Expired(c) = <<[line |-> c, ev |-> "TIMEOUT"]>>
    BY DEF Expired, PostIf, Post
  <2> QED BY <2>1 DEF Has, Standby
<1>5. CASE queue' = queue \o Expired(c)
  BY <1>1, <1>3, <1>4, <1>5, AddsVisit
<1>6. ASSUME NEW e \in FeeEnds \cup {"FeeConn"}, queue' = queue \o Expired(c) \o Post(c, e)
      PROVE  \E t : Adds(queue, t)
  <2>1. e \in Events /\ e # "STANDBY"
    BY DEF FeeEnds, Events
  <2>2. Post(c, e) \in Seq(Msgs)
    BY <2>1, PostTyped
  <2>3. \A x \in Lines : ~Has(Post(c, e), Standby(x))
    <3>1. Post(c, e) = <<>> \/ Post(c, e) = <<[line |-> c, ev |-> e]>>
      BY DEF Post
    <3> QED BY <2>1, <3>1 DEF Has, Standby
  <2> DEFINE t == Expired(c) \o Post(c, e)
  <2>4. t \in Seq(Msgs) /\ queue' = queue \o t
    BY <1>3, <1>6, <2>2
  <2>5. \A x \in Lines : ~Has(t, Standby(x))
    BY <1>3, <1>4, <2>2, <2>3, HasSplit
  <2> HIDE DEF t
  <2> QED BY <1>1, <2>4, <2>5, AddsVisit
<1> QED BY <1>2, <1>5, <1>6

\* The timer and the DLL are no part of the link either.
LEMMA FreedLink ==
  ASSUME TypeOK, NEW c \in Lines
  PROVE  Freed(c).task = ch[c].task /\ Freed(c).kind = ch[c].kind
BY Typed DEF Freed, Objects

\* A visit.  A line that is ordered to dial gets the dialler.
LEMMA OnRunLeg ==
  ASSUME LegInv, NEW c \in Lines, OnRun(c), NEW x \in Lines
  PROVE  /\ Classed(x)' /\ Ordered(x)'
         /\ ~stalePick => Clean(x)'
<1>1. TypeOK /\ board' = board
  BY DEF LegInv, OnRun, Quiet, Connected, Dropped, Refused, Bound, NoService, AtLine
<1>2. PICK t : Adds(queue, t)
  BY <1>1, VisitAdds
<1>3. CASE x # c \/ ~Bound(c)
  <2>1. Keeps(x)
    <3>1. CASE x # c
      <4>1. ch'[x] = ch[x] /\ sock'[x] = sock[x] /\ asked'[x] = asked[x]
        BY <1>1, <3>1, Typed DEF OnRun, Quiet, Connected, Dropped, Refused, Bound,
           NoService, TypeOK
      <4> QED BY <4>1 DEF Keeps
    <3>2. CASE x = c /\ (Quiet(c) \/ Dropped(c) \/ Refused(c) \/ NoService(c))
      <4>1. ch'[c] = Freed(c) /\ asked' = asked /\ (sock'[c] = "login" => sock[c] = "login")
        BY <1>1, <3>2, Typed DEF Quiet, Dropped, Refused, NoService
      <4> QED BY <1>1, <3>2, <4>1, FreedSame, FreedLink DEF Keeps
    <3>3. CASE x = c /\ Connected(c)
      <4>1. ch'[c] = Freed(c) /\ asked'[c] = ch[c].kind
        BY <1>1, <3>3, Typed DEF Connected, TypeOK
      <4> QED BY <1>1, <3>3, <4>1, FreedSame, FreedLink DEF Keeps
    <3> QED BY <1>3, <3>1, <3>2, <3>3 DEF OnRun
  <2> QED BY <1>1, <1>2, <2>1, KeepsLine DEF Clean
<1>4. CASE x = c /\ Bound(c)
  <2>1. /\ ch'[c].cls = ServiceOf(asked[c]) /\ ch'[c].st = "FeeLogin"
        /\ ch'[c].task = ch[c].task /\ ch'[c].kind = ch[c].kind
        /\ sock[c] = "login" /\ sock'[c] = "bound"
    BY <1>1, <1>4, Typed DEF Bound, NewObject
  <2>2. Classed(x)' /\ Ordered(x)'
    BY <1>4, <2>1 DEF Classed, Ordered, Keypad
  <2>3. ASSUME ~stalePick PROVE Clean(x)'
    <3>1. Dialled(x) /\ Leg(x) /\ Wakes(x) /\ Moves(x) /\ Left(queue)
      BY <2>3 DEF LegInv, Clean, Left
    <3>2. Dialled(x)'
      BY <1>4, <2>1, <3>1 DEF Dialled, ServiceOf
    <3>3. ch'[x].cls # "talk" => ch[x].cls # "talk"
      BY <1>4, <2>1, <3>1 DEF Dialled, ServiceOf
    <3>4. Leg(x)'
      BY <1>1, <1>2, <1>4, <2>1, <3>1, <3>3, LegStep
    <3>5. Wakes(x)' /\ Moves(x)'
      BY <1>1, <1>2, <1>4, <2>1, <3>1, WakesStep, MovesStep
    <3> QED BY <3>2, <3>4, <3>5 DEF Clean
  <2> QED BY <2>2, <2>3
<1> QED BY <1>3, <1>4

\* A fault of the trunk comes before any STANDBY that is still to be posted.
LEMMA FaultLeg ==
  ASSUME LegInv, ~stalePick, NEW c \in Lines, Fault(c)
  PROVE  Leg(c)'
<1>1. TypeOK /\ Leg(c) /\ queue \in Seq(Msgs)
  BY Typed DEF LegInv, Clean
<1>2. PICK e \in Resetting : queue' = queue \o Post(c, e) /\ ch' = ch
  BY DEF Fault, BoardTo, Inside, Resetting
<1> DEFINE m == [line |-> c, ev |-> e]
<1>3. Post(c, e) = <<m>>
  BY DEF Post, Lines, None
<1>4. m \in Msgs /\ m \in Resets(c)
  BY DEF Msgs, Resets, Resetting, Events, ChStates
<1> HIDE DEF m
<1>5. CASE Sooner(queue, Resets(c), Standby(c))
  <2>1. queue' = queue \o <<m>> /\ <<m>> \in Seq(Msgs)
    BY <1>2, <1>3, <1>4
  <2>2. Sooner(queue \o <<m>>, Resets(c), Standby(c))
    BY <1>1, <1>5, <2>1, SoonerConcat
  <2> QED BY <2>1, <2>2 DEF Leg, Resets, Standby
<1>6. CASE ~Queued(c, "STANDBY")
  <2>1. ~Has(queue, Standby(c))
    BY <1>6 DEF Queued, Has, Standby
  <2>2. Sooner(queue', Resets(c), Standby(c))
    BY <1>1, <1>2, <1>3, <1>4, <2>1, SoonerAdded
  <2> QED BY <2>2 DEF Leg, Resets, Standby
<1>7. CASE ch[c].cls = "talk" \/ ch[c].task = None
  BY <1>2, <1>7 DEF Leg
<1> QED BY <1>1, <1>5, <1>6, <1>7 DEF Leg

\* The voice board, the telephone network and the people on the phones.
LEMMA OutsideLeg ==
  ASSUME LegInv, NEW c \in Lines, Outside(c), NEW x \in Lines
  PROVE  /\ Classed(x)' /\ Ordered(x)'
         /\ ~stalePick => Clean(x)'
<1>1. TypeOK
  BY DEF LegInv
<1>2. CASE Tick(c)
  <2>1. Keeps(x)
    <3>1. \A y \in Objects : \A k :
            LET z == [y EXCEPT !.timer = k] IN
            z.cls = y.cls /\ z.st = y.st /\ z.task = y.task /\ z.kind = y.kind
      BY DEF Objects
    <3>2. /\ ch'[x].cls = ch[x].cls /\ ch'[x].st = ch[x].st
          /\ ch'[x].task = ch[x].task /\ ch'[x].kind = ch[x].kind
      BY <1>1, <1>2, <3>1, Typed DEF Tick
    <3> QED BY <1>2, <3>2 DEF Tick, Keeps
  <2>2. Adds(queue, <<>>)
    <3>1. queue' = queue \o <<>> /\ board' = board /\ <<>> \in Seq(Msgs)
      BY <1>1, <1>2, Typed DEF Tick
    <3> QED BY <3>1 DEF Adds, Has
  <2>3. board' = board
    BY <1>2 DEF Tick
  <2> QED BY <2>1, <2>2, <2>3, KeepsLine DEF Clean
<1>3. CASE ~Tick(c)
  <2>1. /\ ch' = ch /\ sock' = sock /\ asked' = asked /\ stalePick' = stalePick
        /\ \A y \in Lines \ {c} : board'[y] = board[y]
    BY <1>1, <1>3, Typed DEF Outside, Arrive, GiveUp, FarHangup, Answer, Key, PlayEnd, Fault,
       Restore, BoardTo, Inside
  <2>2. Keeps(x)
    BY <2>1 DEF Keeps
  <2>3. PICK e \in Events :
          /\ queue' = queue \o Post(c, e)
          /\ e = "STANDBY" => board'[c] = "standby"
          /\ board[c] = "standby" /\ board'[c] # "standby" => e \in Moving
          /\ board[c] \in OffHookStates /\ ~Fault(c) => board'[c] \in OffHookStates
    <3>1. board \in [Lines -> Boards]
      BY <1>1, Typed
    <3>2. CASE Arrive(c)
      BY <3>1, <3>2 DEF Arrive, BoardTo, Events, ChStates, Moving, OffHookStates
    <3>3. CASE GiveUp(c) \/ Restore(c)
      BY <3>1, <3>3 DEF GiveUp, Restore, BoardTo, Events, ChStates, OffHookStates
    <3>4. CASE FarHangup(c) \/ Answer(c)
      BY <3>1, <3>4 DEF FarHangup, Answer, BoardTo, Events, ChStates, OffHookStates
    <3>5. CASE Key(c) \/ PlayEnd(c)
      BY <3>1, <3>5 DEF Key, PlayEnd, BoardTo, Events, OffHookStates
    <3>6. CASE Fault(c)
      BY <3>1, <3>6 DEF Fault, BoardTo, Events, ChStates, Moving, Resetting
    <3> QED BY <1>3, <3>2, <3>3, <3>4, <3>5, <3>6 DEF Outside
  <2>4. Adds(queue, Post(c, e))
    BY <1>1, <2>1, <2>3, AddsOne
  <2>5. CASE x = c /\ Fault(c)
    BY <2>2, <2>4, <2>5, KeepsLine, FaultLeg DEF Clean
  <2>6. CASE x # c \/ ~Fault(c)
    <3>1. board[x] \in OffHookStates => board'[x] \in OffHookStates
      BY <2>1, <2>3, <2>6
    <3> QED BY <2>2, <2>4, <3>1, KeepsLine DEF Clean
  <2> QED BY <2>5, <2>6
<1> QED BY <1>2, <1>3

\* A call back: CTraffic's thread takes a line and orders it to dial.
LEMMA CallBackLeg ==
  ASSUME LegInv, NEW d \in Lines, CallBack(d), NEW x \in Lines
  PROVE  /\ Classed(x)' /\ Ordered(x)'
         /\ ~stalePick => Clean(x)'
<1>1. TypeOK
  BY DEF LegInv
<1>2. /\ board[d] = "standby" /\ board' = [board EXCEPT ![d] = "picked"]
      /\ sock' = sock /\ asked' = asked
      /\ queue' = queue \o Post(d, "PICKUPED")
  BY DEF CallBack, Seize, Eligible
<1>3. Adds(queue, Post(d, "PICKUPED"))
  BY <1>1, <1>2, AddsOne, Typed DEF Events, ChStates, Moving
<1>4. Keeps(x)
  <2>1. \A y \in Objects :
          LET z == [y EXCEPT !.kind = "CABK"] IN
          z.cls = y.cls /\ z.st = y.st /\ z.task = y.task /\ z.kind = "CABK"
    BY DEF Objects
  <2> QED BY <1>1, <1>2, <2>1, Typed DEF CallBack, Keeps
<1>5. board[x] \in OffHookStates => board'[x] \in OffHookStates
  BY <1>1, <1>2, Typed DEF OffHookStates
<1> QED BY <1>3, <1>4, <1>5, KeepsLine DEF Clean

-----------------------------------------------------------------------------
(* What a handler does with its line: it releases it, makes it idle, or goes on *)

\* Events without a STANDBY.
Mild(t) == t \in Seq(Msgs) /\ \A i \in DOMAIN t : t[i].ev # "STANDBY"

LEMMA MildHas ==
  ASSUME NEW t, Mild(t), NEW x
  PROVE  ~Has(t, Standby(x))
BY DEF Mild, Has, Standby

LEMMA MildPost ==
  ASSUME NEW b, NEW c \in Lines \cup {None}, NEW e \in Events, e # "STANDBY"
  PROVE  Mild(Post(c, e)) /\ Mild(PostIf(b, c, e)) /\ Mild(<<>>)
<1>1. Post(c, e) \in Seq(Msgs)
  BY PostTyped
<1>2. Post(c, e) = <<>> \/ Post(c, e) = <<[line |-> c, ev |-> e]>>
  BY DEF Post
<1>3. Mild(<<>>)
  BY DEF Mild
<1>4. Mild(Post(c, e))
  BY <1>1, <1>2 DEF Mild
<1> QED BY <1>3, <1>4 DEF PostIf

LEMMA MildConcat ==
  ASSUME NEW s, NEW t, Mild(s), Mild(t)
  PROVE  Mild(s \o t)
<1>1. s \in Seq(Msgs) /\ t \in Seq(Msgs)
  BY DEF Mild
<1>2. s \o t \in Seq(Msgs)
  BY <1>1
<1>3. ASSUME NEW i \in DOMAIN (s \o t) PROVE (s \o t)[i].ev # "STANDBY"
  <2>1. CASE i <= Len(s)
    <3>1. i \in DOMAIN s /\ (s \o t)[i] = s[i]
      BY <1>1, <2>1
    <3> QED BY <3>1 DEF Mild
  <2>2. CASE i > Len(s)
    <3>1. i - Len(s) \in DOMAIN t /\ (s \o t)[i] = t[i - Len(s)]
      BY <1>1, <2>2
    <3> QED BY <3>1 DEF Mild
  <2> QED BY <2>1, <2>2
<1> QED BY <1>2, <1>3 DEF Mild

\* The other lines: only their link may go.
Apart(x) ==
  /\ ch'[x].cls = ch[x].cls /\ ch'[x].st = ch[x].st /\ ch'[x].kind = ch[x].kind
  /\ ch'[x].task \in {ch[x].task, None}
  /\ sock'[x] = sock[x] /\ board'[x] = board[x]
Beside(c) == \A x \in Lines \ {c} : Apart(x)

Leaves(c) ==
  /\ Beside(c)
  /\ ch'[c].cls = ch[c].cls /\ ch'[c].kind = ch[c].kind
  /\ ch'[c].st \in Releasing /\ ch'[c].task = None /\ sock'[c] = "none"
  /\ board'[c] = IF OnHook(c) THEN board[c] ELSE "standby"
  /\ \E t \in Seq(Msgs) : /\ queue' = Rest \o t
                          /\ \A x : Has(t, Standby(x)) => x = c /\ ~OnHook(c)

Idles(c) ==
  /\ Beside(c)
  /\ ch'[c] = [NewObject EXCEPT !.closing = ch[c].lib]
  /\ sock' = sock /\ board' = board /\ queue' = Rest

GoesOn(c) ==
  /\ Beside(c)
  /\ ch'[c].cls = ch[c].cls /\ ch'[c].kind \in {ch[c].kind, "CATK"}
  /\ ch'[c].st # "bkIdle" /\ (ch'[c].st \in Keypad => ch[c].cls = "talk")
  /\ ch[c].cls # "talk" => ch'[c].task = ch[c].task
  /\ sock'[c] = "login" => sock[c] = "login"
  /\ board[c] \in OffHookStates => board'[c] \in OffHookStates
  /\ \E t : /\ Mild(t) /\ queue' = Rest \o t
            /\ board[c] = "standby" /\ board'[c] # "standby" => Has(t, Order(c))

\* KillLinker leaves the other objects what they are, but for the link.
LEMMA UnlinkedBeside ==
  ASSUME TypeOK, NEW c \in Lines, NEW r \in Objects, ch' = Unlinked(c, r)
  PROVE  /\ \A x \in Lines \ {c} :
              /\ ch'[x].cls = ch[x].cls /\ ch'[x].st = ch[x].st
              /\ ch'[x].kind = ch[x].kind /\ ch'[x].task \in {ch[x].task, None}
         /\ ch'[c].cls = r.cls /\ ch'[c].st = r.st /\ ch'[c].kind = r.kind
         /\ ch'[c].task = None
<1>1. \A y \in Objects :
        LET z == [y EXCEPT !.task = None] IN
        z.cls = y.cls /\ z.st = y.st /\ z.kind = y.kind /\ z.task = None
  BY DEF Objects
<1> QED BY <1>1, Typed DEF Unlinked

\* Disconnect and StopChan.
LEMMA HangUpLeaves ==
  ASSUME TypeOK, queue # <<>>, NEW c \in Lines, NEW s \in Releasing,
         NEW fee \in BOOLEAN, HangUp(c, s, fee)
  PROVE  Leaves(c)
<1> DEFINE r == [ch[c] EXCEPT !.st = s, !.reserved = {}, !.timer = "off"]
           u == PostIf(fee, c, "FeeDisc")
           v == PostIf(~OnHook(c), c, "STANDBY")
           w == Notice(c)
<1>1. ch[c] \in Objects
  BY Typed
<1>2. r \in Objects /\ r.cls = ch[c].cls /\ r.st = s /\ r.kind = ch[c].kind
  BY <1>1 DEF Objects, Releasing, States
<1>3. ch' = Unlinked(c, r)
  BY DEF HangUp
<1> HIDE DEF r
<1>4. Beside(c)
  <2>1. \A x \in Lines \ {c} : sock'[x] = sock[x] /\ board'[x] = board[x]
    BY Typed DEF HangUp
  <2> QED BY <1>2, <1>3, <2>1, UnlinkedBeside DEF Beside, Apart
<1>5. /\ ch'[c].cls = ch[c].cls /\ ch'[c].kind = ch[c].kind
      /\ ch'[c].st \in Releasing /\ ch'[c].task = None /\ sock'[c] = "none"
      /\ board'[c] = IF OnHook(c) THEN board[c] ELSE "standby"
  BY <1>2, <1>3, UnlinkedBeside, Typed DEF HangUp
<1>6. Mild(u) /\ Mild(w)
  <2>1. ch[c].task \in Lines \cup {None}
    BY <1>1 DEF Objects
  <2> QED BY <2>1, MildPost DEF Notice, Events, FeeEnds, ChStates
<1>7. v \in Seq(Msgs) /\ \A x : Has(v, Standby(x)) => x = c /\ ~OnHook(c)
  <2>1. v \in Seq(Msgs)
    BY PostIfTyped DEF Events, ChStates
  <2>2. v = <<>> \/ (~OnHook(c) /\ v = <<Standby(c)>>)
    BY DEF PostIf, Post, Standby
  <2>3. ASSUME NEW x, Has(v, Standby(x)) PROVE x = c /\ ~OnHook(c)
    <3>1. ~OnHook(c) /\ v = <<Standby(c)>>
      BY <2>2, <2>3 DEF Has
    <3>2. Standby(x) = Standby(c)
      BY <2>3, <3>1 DEF Has
    <3> QED BY <3>1, <3>2 DEF Standby
  <2> QED BY <2>1, <2>3
<1>8. queue' = Rest \o u \o v \o w
  BY DEF HangUp
<1>9. Rest \in Seq(Msgs) /\ u \in Seq(Msgs) /\ w \in Seq(Msgs)
  BY <1>6, RestTyped DEF Mild
<1> HIDE DEF u, v, w
<1> DEFINE t == (u \o v) \o w
<1>10. t \in Seq(Msgs) /\ queue' = Rest \o t
  <2>1. u \o v \in Seq(Msgs) /\ t \in Seq(Msgs)
    BY <1>7, <1>9
  <2>2. Rest \o t = (Rest \o (u \o v)) \o w
    <3> DEFINE uv == u \o v
    <3>1. uv \in Seq(Msgs) /\ t = uv \o w
      BY <2>1
    <3> HIDE DEF uv, t
    <3>2. Rest \o t = (Rest \o uv) \o w
      BY <1>9, <3>1, Associates
    <3> QED BY <3>2 DEF uv
  <2>3. Rest \o (u \o v) = (Rest \o u) \o v
    BY <1>7, <1>9, Associates
  <2> QED BY <1>8, <2>1, <2>2, <2>3
<1>11. \A x : Has(t, Standby(x)) => x = c /\ ~OnHook(c)
  <2>1. ASSUME NEW x, Has(t, Standby(x)) PROVE Has(v, Standby(x))
    <3>1. u \o v \in Seq(Msgs)
      BY <1>7, <1>9
    <3>2. Has(u \o v, Standby(x)) \/ Has(w, Standby(x))
      BY <1>9, <2>1, <3>1, HasSplit
    <3>3. ~Has(w, Standby(x)) /\ ~Has(u, Standby(x))
      BY <1>6, MildHas
    <3> QED BY <1>7, <1>9, <3>2, <3>3, HasSplit
  <2> QED BY <1>7, <2>1
<1> HIDE DEF t
<1> QED BY <1>4, <1>5, <1>10, <1>11 DEF Leaves

\* A handler that changes its own line only and posts no STANDBY.
LEMMA OwnGoesOn ==
  ASSUME TypeOK, queue # <<>>, NEW c \in Lines, NEW r \in Objects,
         ch' = [ch EXCEPT ![c] = r],
         r.cls = ch[c].cls, r.task = ch[c].task, r.kind \in {ch[c].kind, "CATK"},
         r.st # "bkIdle", r.st \in Keypad => ch[c].cls = "talk",
         NEW s, sock' = sock \/ sock' = [sock EXCEPT ![c] = s],
         sock'[c] = "login" => sock[c] = "login",
         NEW b, board' = board \/ board' = [board EXCEPT ![c] = b],
         board[c] \in OffHookStates => board'[c] \in OffHookStates,
         NEW t, Mild(t), queue' = Rest \o t,
         board[c] = "standby" /\ board'[c] # "standby" => Has(t, Order(c))
  PROVE  GoesOn(c)
<1>1. ch'[c] = r /\ \A x \in Lines \ {c} : ch'[x] = ch[x]
  BY Typed
<1>2. \A x \in Lines \ {c} : sock'[x] = sock[x] /\ board'[x] = board[x]
  BY Typed
<1>3. Beside(c)
  BY <1>1, <1>2 DEF Beside, Apart
<1> QED BY <1>1, <1>3 DEF GoesOn

\* The same when it posts nothing and leaves the board alone.
LEMMA SilentGoesOn ==
  ASSUME TypeOK, queue # <<>>, NEW c \in Lines, NEW r \in Objects,
         ch' = [ch EXCEPT ![c] = r],
         r.cls = ch[c].cls, r.task = ch[c].task, r.kind \in {ch[c].kind, "CATK"},
         r.st # "bkIdle", r.st \in Keypad => ch[c].cls = "talk",
         NEW s, sock' = sock \/ sock' = [sock EXCEPT ![c] = s],
         sock'[c] = "login" => sock[c] = "login",
         board' = board, queue' = Rest
  PROVE  GoesOn(c)
<1>1. Mild(<<>>) /\ queue' = Rest \o <<>>
  BY RestTyped DEF Mild
<1> QED BY <1>1, OwnGoesOn

\* The face of an object that a handler is to keep.
SameLeg(r, c) == /\ r.cls = ch[c].cls /\ r.task = ch[c].task
                 /\ r.kind \in {ch[c].kind, "CATK"}

LEMMA BecomeGoesOn ==
  ASSUME TypeOK, queue # <<>>, NEW c \in Lines, NEW r \in Objects, Become(c, r),
         SameLeg(r, c), r.st # "bkIdle", r.st \in Keypad => ch[c].cls = "talk"
  PROVE  GoesOn(c)
BY SilentGoesOn DEF Become, SameLeg

LEMMA StayGoesOn ==
  ASSUME TypeOK, queue # <<>>, NEW c \in Lines, Classed(c), Stay(c),
         ch[c].st # "bkIdle"
  PROVE  GoesOn(c)
<1>1. ch[c] \in Objects
  BY Typed
<1> QED BY <1>1, BecomeGoesOn DEF Stay, SameLeg, Classed

\* bkIdle_init.
LEMMA IdleIdles ==
  ASSUME TypeOK, NEW c \in Lines, bkIdle_init(c)
  PROVE  Idles(c)
BY Typed DEF bkIdle_init, Become, Idles, Beside, Apart

\* seiConfm_init.
LEMMA SeiConfmInitGoesOn ==
  ASSUME TypeOK, queue # <<>>, NEW c \in Lines, seiConfm_init(c)
  PROVE  GoesOn(c)
<1> DEFINE r == [ch[c] EXCEPT !.st = "seiConfm", !.reserved = {}, !.timer = "on"]
<1>1. ch[c] \in Objects
  BY Typed
<1>2. r \in Objects /\ SameLeg(r, c) /\ r.st = "seiConfm"
  BY <1>1 DEF Objects, States, SameLeg
<1>3. Become(c, r)
  BY DEF seiConfm_init
<1> HIDE DEF r
<1> QED BY <1>2, <1>3, BecomeGoesOn DEF Keypad

\* FeeLogin_init, and the login of a call that is already bound.
LEMMA LoginGoesOn ==
  ASSUME TypeOK, queue # <<>>, NEW c \in Lines, NEW r \in Objects, LoginAs(c, r),
         SameLeg(r, c),
         NEW b, board' = board \/ board' = [board EXCEPT ![c] = b],
         board[c] \in OffHookStates => board'[c] \in OffHookStates,
         board[c] = "standby" => board'[c] = "standby",
         NEW t, Mild(t), queue' = Rest \o t
  PROVE  GoesOn(c)
<1> DEFINE w == IF "busy" \in r.reserved THEN r.timer ELSE "on"
           q == [r EXCEPT !.st = "FeeLogin", !.reserved = @ \cup {"busy"}, !.timer = w]
<1>1. ch' = [ch EXCEPT ![c] = q]
  BY DEF LoginAs, Objects
<1>2. q \in Objects /\ q.st = "FeeLogin"
  BY DEF Objects, States
<1>3. q.cls = ch[c].cls /\ q.task = ch[c].task /\ q.kind \in {ch[c].kind, "CATK"}
  BY DEF Objects, SameLeg
<1> HIDE DEF q
<1>4. CASE sock' = sock
  BY <1>1, <1>2, <1>3, <1>4, OwnGoesOn DEF Keypad
<1>5. ASSUME NEW s \in {"none", "connecting"}, sock' = [sock EXCEPT ![c] = s]
      PROVE  GoesOn(c)
  <2>1. sock'[c] # "login"
    BY <1>5, Typed
  <2> QED BY <1>1, <1>2, <1>3, <1>5, <2>1, OwnGoesOn DEF Keypad
<1> QED BY <1>4, <1>5 DEF LoginAs

LEMMA FeeLoginInitGoesOn ==
  ASSUME TypeOK, queue # <<>>, NEW c \in Lines, NEW r \in Objects,
         FeeLogin_init(c, r), SameLeg(r, c)
  PROVE  GoesOn(c)
<1>1. Mild(<<>>) /\ queue' = Rest \o <<>>
  BY RestTyped DEF Mild, FeeLogin_init
<1> QED BY <1>1, LoginGoesOn DEF FeeLogin_init

\* rcvMFsig_init: a line that is picked up is told so.
LEMMA RcvMFsigInitGoesOn ==
  ASSUME TypeOK, queue # <<>>, NEW c \in Lines, rcvMFsig_init(c)
  PROVE  GoesOn(c)
<1> DEFINE w == IF ch[c].st = "FeeLogin" THEN "off" ELSE ch[c].timer
           r == [ch[c] EXCEPT !.st = "rcvMFsig", !.reserved = {}, !.timer = w]
<1>1. ch[c] \in Objects
  BY Typed
<1>2. r \in Objects /\ SameLeg(r, c) /\ r.st = "rcvMFsig"
  BY <1>1 DEF Objects, States, SameLeg
<1>3. ch' = [ch EXCEPT ![c] = r] /\ sock' = sock
  BY <1>1 DEF rcvMFsig_init, Objects
<1> HIDE DEF r
<1>4. /\ Mild(Post(c, "TALKING")) /\ Mild(Post(c, "PICKUPED")) /\ Mild(<<>>)
      /\ Has(Post(c, "PICKUPED"), Order(c))
      /\ Rest = Rest \o <<>>
  <2>1. Post(c, "PICKUPED") = <<Order(c)>>
    BY DEF Post, Order, Lines, None
  <2>2. Has(<<Order(c)>>, Order(c))
    BY DEF Has
  <2>3. Rest = Rest \o <<>>
    BY RestTyped
  <2>4. {"TALKING", "PICKUPED"} \subseteq Events
    BY DEF Events, ChStates
  <2>5. Mild(Post(c, "TALKING")) /\ Mild(Post(c, "PICKUPED")) /\ Mild(<<>>)
    BY <2>4, MildPost
  <2> QED BY <2>1, <2>2, <2>3, <2>5
<1>5. CASE board' = board
  <2>1. PICK t : Mild(t) /\ queue' = Rest \o t
    BY <1>4 DEF rcvMFsig_init
  <2> QED BY <1>2, <1>3, <1>5, <2>1, OwnGoesOn DEF Keypad, SameLeg
<1>6. CASE board[c] = "ringing" /\ board' = [board EXCEPT ![c] = "talking"]
           /\ queue' = Rest \o Post(c, "TALKING")
  <2>1. board'[c] = "talking"
    BY <1>6, Typed
  <2> QED BY <1>2, <1>3, <1>4, <1>6, <2>1, OwnGoesOn DEF Keypad, SameLeg, OffHookStates
<1>7. CASE board[c] = "standby" /\ board' = [board EXCEPT ![c] = "picked"]
           /\ queue' = Rest \o Post(c, "PICKUPED")
  BY <1>2, <1>3, <1>4, <1>7, OwnGoesOn DEF Keypad, SameLeg, OffHookStates
<1> QED BY <1>5, <1>6, <1>7 DEF rcvMFsig_init

\* WaitDial_init.
LEMMA WaitDialInitGoesOn ==
  ASSUME TypeOK, queue # <<>>, NEW c \in Lines, WaitDial_init(c)
  PROVE  GoesOn(c)
<1>1. PICK local \in Prefixes :
        ch' = [ch EXCEPT ![c].st = "WaitDial", ![c].reserved = {"busy"},
                         ![c].timer = IF local THEN "off" ELSE "on"]
  BY DEF WaitDial_init
<1> DEFINE w == IF local THEN "off" ELSE "on"
           r == [ch[c] EXCEPT !.st = "WaitDial", !.reserved = {"busy"}, !.timer = w]
           b == IF board[c] = "picked" THEN "dialing" ELSE board[c]
<1>2. ch[c] \in Objects
  BY Typed
<1>3. r \in Objects /\ SameLeg(r, c) /\ r.st = "WaitDial"
  BY <1>2 DEF Objects, States, SameLeg
<1>4. ch' = [ch EXCEPT ![c] = r]
  BY <1>1, <1>2, Typed DEF Objects
<1> HIDE DEF r
<1>5. board' = [board EXCEPT ![c] = b] /\ board'[c] = b /\ sock' = sock
  BY Typed DEF WaitDial_init
<1>6. Mild(<<>>) /\ queue' = Rest \o <<>>
  BY RestTyped DEF Mild, WaitDial_init
<1> QED BY <1>3, <1>4, <1>5, <1>6, OwnGoesOn DEF Keypad, SameLeg, OffHookStates

\* A line that is in a call of its own class.
LEMMA RcvTalkInitGoesOn ==
  ASSUME TypeOK, queue # <<>>, NEW c \in Lines, RcvTalk_init(c)
  PROVE  GoesOn(c)
<1> DEFINE talk == ch[c].cls = "talk"
           s == IF talk THEN "FwdPlay" ELSE "RcvTalk"
           v == IF ch[c].cls = "base" THEN {} ELSE {"busy"}
           w == IF ch[c].st = "WaitDial" THEN "off" ELSE ch[c].timer
           r == [ch[c] EXCEPT !.st = s, !.reserved = v, !.timer = w]
           b == IF sock[c] = "bound" THEN "talk" ELSE sock[c]
<1>1. ch[c] \in Objects
  BY Typed
<1>2. r \in Objects /\ SameLeg(r, c) /\ r.st = s
  <2>1. s \in States /\ v \in SUBSET {"busy", "played", "keyed"}
        /\ w \in {"off", "on", "due"}
    BY <1>1 DEF States, Objects
  <2> HIDE DEF s, v, w
  <2> QED BY <1>1, <2>1 DEF Objects, SameLeg
<1>3. s # "bkIdle" /\ (s \in Keypad => ch[c].cls = "talk")
  BY DEF Keypad
<1>4. ch' = [ch EXCEPT ![c] = r] /\ board' = board /\ queue' = Rest
  BY DEF RcvTalk_init
<1>5. sock' = [sock EXCEPT ![c] = b] /\ (sock'[c] = "login" => sock[c] = "login")
  BY Typed DEF RcvTalk_init, Billed
<1> HIDE DEF r, s, b
<1> QED BY <1>2, <1>3, <1>4, <1>5, SilentGoesOn DEF SameLeg

\* A state that plays a prompt.
LEMMA PromptGoesOn ==
  ASSUME TypeOK, queue # <<>>, NEW c \in Lines, NEW r \in Objects, Prompt(c, r),
         SameLeg(r, c), r.st # "bkIdle", r.st \in Keypad => ch[c].cls = "talk",
         sock' = sock,
         NEW b, board' = board \/ board' = [board EXCEPT ![c] = b],
         board[c] \in OffHookStates => board'[c] \in OffHookStates,
         board[c] = "standby" => board'[c] = "standby",
         NEW t, Mild(t), queue' = Rest \o t
  PROVE  GoesOn(c)
<1> DEFINE q == [r EXCEPT !.reserved = {"busy"}]
<1>1. q \in Objects /\ SameLeg(q, c) /\ q.st = r.st
  BY DEF Objects, SameLeg
<1>2. ch' = [ch EXCEPT ![c] = q]
  BY DEF Prompt
<1> HIDE DEF q
<1> QED BY <1>1, <1>2, OwnGoesOn DEF SameLeg

\* The same on a line that stays as it is.
LEMMA QuietPromptGoesOn ==
  ASSUME TypeOK, queue # <<>>, NEW c \in Lines, NEW r \in Objects, Prompt(c, r),
         SameLeg(r, c), r.st # "bkIdle", r.st \in Keypad => ch[c].cls = "talk",
         sock' = sock, board' = board, queue' = Rest
  PROVE  GoesOn(c)
<1>1. Mild(<<>>) /\ queue' = Rest \o <<>>
  BY RestTyped DEF Mild
<1> QED BY <1>1, PromptGoesOn

\* SsmSetKB makes a call ring that waits, and changes nothing else.
LEMMA SetKBRings ==
  ASSUME TypeOK, NEW c \in Lines, SetKB(c)
  PROVE  /\ \E b : board' = [board EXCEPT ![c] = b]
         /\ board[c] \in OffHookStates => board'[c] \in OffHookStates
         /\ board[c] = "standby" => board'[c] = "standby"
         /\ Mild(Ringing(c))
<1>1. PICK b : board' = [board EXCEPT ![c] = b] /\ b = IF Rings(c) THEN "ringing" ELSE board[c]
  BY DEF SetKB
<1>2. "RINGING" \in Events
  BY DEF Events, ChStates
<1>3. Mild(Ringing(c))
  BY <1>2, MildPost DEF Ringing
<1>4. board'[c] = b
  BY <1>1, Typed
<1> QED BY <1>1, <1>3, <1>4 DEF Rings, OffHookStates

\* The signals that ChkDTSignal itself acts on.
LEMMA SignalOutcome ==
  ASSUME TypeOK, queue # <<>>, NEW c \in Lines,
         OffHook(c, "bkFree") \/ OffHook(c, "ResetPcm") \/ OffHook(c, "bkOffHk")
  PROVE  Leaves(c)
<1>1. PICK s \in Releasing : OffHook(c, s)
  BY DEF Releasing
<1> QED BY <1>1, HangUpLeaves DEF OffHook

-----------------------------------------------------------------------------
(* What the handlers do with an event *)

\* A line that is idle after a poll has had its STANDBY, or has had no event that
\* moves it; a leg that is not a caller's goes on for no fault and no STANDBY.
Own(c, e) ==
  /\ stalePick' = stalePick
  /\ \/ Leaves(c)
     \/ Idles(c) /\ (e = "STANDBY" \/ (ch[c].st = "bkIdle" /\ e \notin Moving))
     \/ GoesOn(c) /\ (ch[c].cls = "talk" \/ e \notin Resetting \cup {"STANDBY"})

\* CChannel::bkIdle.
LEMMA bkIdleOwn ==
  ASSUME TypeOK, queue # <<>>, NEW c \in Lines, NEW e, bkIdle(c, e)
  PROVE  Own(c, e)
<1> DEFINE r == [ch[c] EXCEPT !.reserved = {}]
<1>1. ch[c] \in Objects
  BY Typed
<1>2. r \in Objects /\ SameLeg(r, c)
  BY <1>1 DEF Objects, SameLeg
<1>3. FeeLogin_init(c, r) => GoesOn(c)
  BY <1>2, FeeLoginInitGoesOn
<1>4. seiConfm_init(c) => GoesOn(c)
  BY SeiConfmInitGoesOn
<1>5. \A s \in Releasing : OffHook(c, s) => Leaves(c)
  BY HangUpLeaves DEF OffHook
<1>6. bkIdle_init(c) => Idles(c)
  BY IdleIdles
<1>7. ch[c].st = "bkIdle" /\ stalePick' = stalePick
  BY DEF bkIdle
<1> HIDE DEF r
<1>8. CASE e \in {"PENDING", "RxPhoNum"}
  <2>1. seiConfm_init(c) \/ OffHook(c, "bkOffHk")
    BY <1>8, SettingsAssumption DEF bkIdle, FeeEnds
  <2>2. GoesOn(c) \/ Leaves(c)
    BY <1>4, <1>5, <2>1 DEF Releasing
  <2> QED BY <1>7, <1>8, <2>2 DEF Own, Resetting
<1>9. CASE e = "PICKUPED"
  <2>1. FeeLogin_init(c, r)
    <3>1. FeeLogin_init(c, [ch[c] EXCEPT !.reserved = {}])
      BY <1>9 DEF bkIdle, FeeEnds
    <3> QED BY <3>1 DEF r
  <2> QED BY <1>3, <1>7, <1>9, <2>1 DEF Own, Resetting
<1>10. CASE e \notin {"PENDING", "RxPhoNum", "PICKUPED"}
  <2>1. CASE e \in {"UNAVAIL", "RESET"}
    BY <1>5, <1>7, <2>1 DEF bkIdle, ChkDTSignal, FeeEnds, Own, Releasing
  <2>2. CASE e \notin {"UNAVAIL", "RESET"}
    <3>1. bkIdle_init(c)
      BY <1>10, <2>2 DEF bkIdle, ChkDTSignal
    <3>2. e \notin Moving
      BY <1>10, <2>2 DEF Moving, Resetting
    <3> QED BY <1>6, <1>7, <3>1, <3>2 DEF Own
  <2> QED BY <2>1, <2>2
<1> QED BY <1>8, <1>9, <1>10

\* ChkDTSignal in any other state, whose own rule has the line go on.
LEMMA SignalOwn ==
  ASSUME TypeOK, queue # <<>>, NEW c \in Lines, NEW e,
         \/ e \in Resetting \cup FeeEnds \cup {"PENDING"}
            /\ \E s \in Releasing : OffHook(c, s)
         \/ e = "STANDBY" /\ bkIdle_init(c)
         \/ e \notin Resetting \cup {"STANDBY"} /\ GoesOn(c),
         stalePick' = stalePick
  PROVE  Own(c, e)
BY HangUpLeaves, IdleIdles DEF OffHook, Own

\* CChannel::seiConfm.
LEMMA seiConfmOwn ==
  ASSUME TypeOK, queue # <<>>, NEW c \in Lines, NEW e, seiConfm(c, e)
  PROVE  Own(c, e)
<1> DEFINE q == [ch[c] EXCEPT !.kind = "CATK"]
<1>1. ch[c] \in Objects
  BY Typed
<1>2. q \in Objects /\ SameLeg(q, c)
  BY <1>1 DEF Objects, Kinds, SameLeg
<1>3. FeeLogin_init(c, q) => GoesOn(c)
  BY <1>2, FeeLoginInitGoesOn
<1>4. seiConfm_init(c) => GoesOn(c)
  BY SeiConfmInitGoesOn
<1> HIDE DEF q
<1>5. CASE e = "TIMEOUT"
  <2>1. FeeLogin_init(c, q)
    BY <1>5 DEF seiConfm, q
  <2> QED BY <1>3, <1>5, <2>1, SignalOwn DEF seiConfm, Resetting
<1>6. CASE e # "TIMEOUT"
  BY <1>4, <1>6, SignalOwn DEF seiConfm, ChkDTSignal, Resetting, Releasing
<1> QED BY <1>5, <1>6

\* The S_FEE_Connected branch of FeeLogin.
LEMMA FeeConnectedGoesOn ==
  ASSUME TypeOK, queue # <<>>, NEW c \in Lines, FeeConnected(c)
  PROVE  GoesOn(c)
<1> DEFINE r == [ch[c] EXCEPT !.timer = "off"]
           u == PostIf(ch[c].cls = "talk" /\ board[c] = "talking", c, "RINGING")
<1>1. CASE WaitDial_init(c)
  BY <1>1, WaitDialInitGoesOn
<1>2. CASE LoginAs(c, r) /\ SetKB(c) /\ queue' = Rest \o u \o Ringing(c)
  <2>1. ch[c] \in Objects
    BY Typed
  <2>2. r \in Objects /\ SameLeg(r, c)
    BY <2>1 DEF Objects, SameLeg
  <2>3. "RINGING" \in Events
    BY DEF Events, ChStates
  <2>4. Mild(u)
    BY <2>3, MildPost
  <2> HIDE DEF r, u
  <2>5. Mild(Ringing(c)) /\ Mild(u \o Ringing(c))
    BY <1>2, <2>4, SetKBRings, MildConcat
  <2>6. queue' = Rest \o (u \o Ringing(c))
    BY <1>2, <2>4, <2>5, RestTyped, Associates DEF Mild
  <2>7. PICK b : board' = [board EXCEPT ![c] = b]
    BY <1>2, SetKBRings
  <2> QED BY <1>2, <2>2, <2>5, <2>6, <2>7, SetKBRings, LoginGoesOn
<1> QED BY <1>1, <1>2 DEF FeeConnected

\* The branches of FeeLogin for a refused call.
LEMMA FeeRefusedGoesOn ==
  ASSUME TypeOK, queue # <<>>, NEW c \in Lines, NEW code \in {"NOPAY", "CALLBACK"},
         FeeRefused(c, code)
  PROVE  GoesOn(c)
<1> DEFINE r == [ch[c] EXCEPT !.st = "ExitPlay", !.timer = "off", !.exit = code]
<1>1. ch[c] \in Objects
  BY Typed
<1>2. r \in Objects /\ SameLeg(r, c) /\ r.st = "ExitPlay"
  BY <1>1 DEF Objects, States, SameLeg
<1>3. Prompt(c, r) /\ SetKB(c) /\ queue' = Rest \o Ringing(c) /\ sock' = sock
  BY DEF FeeRefused
<1> HIDE DEF r
<1>4. PICK b : board' = [board EXCEPT ![c] = b]
  BY <1>3, SetKBRings
<1>5. Mild(Ringing(c))
  BY <1>3, SetKBRings
<1> QED BY <1>2, <1>3, <1>4, <1>5, SetKBRings, PromptGoesOn DEF Keypad

\* CChannel::FeeLogin.
LEMMA FeeLoginOwn ==
  ASSUME TypeOK, queue # <<>>, NEW c \in Lines, NEW e, FeeLogin(c, e)
  PROVE  Own(c, e)
<1>1. ch[c] \in Objects /\ SameLeg(ch[c], c) /\ stalePick' = stalePick
  BY Typed DEF SameLeg, FeeLogin
<1>2. FeeLogin_init(c, ch[c]) => GoesOn(c)
  BY <1>1, FeeLoginInitGoesOn
<1>3. rcvMFsig_init(c) \/ FeeConnected(c) => GoesOn(c)
  BY RcvMFsigInitGoesOn, FeeConnectedGoesOn
<1>4. FeeRefused(c, "NOPAY") \/ FeeRefused(c, "CALLBACK") => GoesOn(c)
  BY FeeRefusedGoesOn
<1>5. HangUp(c, "bkOffHk", FALSE) => Leaves(c)
  BY HangUpLeaves DEF Releasing
<1>6. CASE e = "TIMEOUT"
  BY <1>1, <1>5, <1>6 DEF FeeLogin, Own
<1>7. CASE e \in {"RINGING", "FeeConn", "FeeNoPay", "FeeCallBack"}
  <2>1. GoesOn(c)
    BY <1>3, <1>4, <1>7 DEF FeeLogin
  <2> QED BY <1>1, <1>7, <2>1 DEF Own, Resetting
<1>8. CASE e \notin {"TIMEOUT", "RINGING", "FeeConn", "FeeNoPay", "FeeCallBack"}
  <2>1. ChkDTSignal(c, e, FeeLogin_init(c, ch[c]))
    BY <1>8 DEF FeeLogin
  <2> QED BY <1>1, <1>2, <2>1, SignalOwn DEF ChkDTSignal, Resetting, Releasing
<1> QED BY <1>6, <1>7, <1>8

\* CChannel::rcvMFsig.
LEMMA rcvMFsigOwn ==
  ASSUME TypeOK, queue # <<>>, NEW c \in Lines, NEW e, rcvMFsig(c, e)
  PROVE  Own(c, e)
<1>1. RcvTalk_init(c) \/ rcvMFsig_init(c) => GoesOn(c)
  BY RcvTalkInitGoesOn, RcvMFsigInitGoesOn
<1> QED BY <1>1, SignalOwn DEF rcvMFsig, ChkDTSignal, Resetting, Releasing

\* WaitDial of every class.
LEMMA WaitDialOwn ==
  ASSUME TypeOK, queue # <<>>, NEW c \in Lines, Classed(c), NEW e, WaitDial(c, e)
  PROVE  Own(c, e)
<1>1. RcvTalk_init(c) \/ Stay(c) => GoesOn(c)
  BY RcvTalkInitGoesOn, StayGoesOn DEF WaitDial
<1>2. CASE e = "TIMEOUT"
  <2>1. Leaves(c) /\ stalePick' = stalePick
    BY <1>2, HangUpLeaves DEF WaitDial, OffHook, Releasing
  <2> QED BY <2>1 DEF Own
<1>3. CASE e # "TIMEOUT"
  BY <1>1, <1>3, SignalOwn DEF WaitDial, ChkDTSignal, Resetting, Releasing
<1> QED BY <1>2, <1>3

\* CChannel::ExitPlay.
LEMMA ExitPlayOwn ==
  ASSUME TypeOK, queue # <<>>, NEW c \in Lines, Classed(c), NEW e, ExitPlay(c, e)
  PROVE  Own(c, e)
<1>1. Stay(c) => GoesOn(c)
  BY StayGoesOn DEF ExitPlay
<1>2. CASE e = "PlayEnd"
  <2>1. Leaves(c) /\ stalePick' = stalePick
    BY <1>2, HangUpLeaves DEF ExitPlay, OffHook, Releasing
  <2> QED BY <2>1 DEF Own
<1>3. CASE e # "PlayEnd"
  BY <1>1, <1>3, SignalOwn DEF ExitPlay, ChkDTSignal, Resetting, Releasing
<1> QED BY <1>2, <1>3

\* bkOffHk, bkFree and ResetPcm.
LEMMA ReleaseOwn ==
  ASSUME TypeOK, queue # <<>>, NEW c \in Lines, NEW e,
         bkOffHk(c, e) \/ bkFree(c, e) \/ ResetPcm(c, e)
  PROVE  Own(c, e)
<1>1. \/ \E s \in Releasing : OffHook(c, s)
      \/ e = "STANDBY" /\ bkIdle_init(c)
  BY DEF bkOffHk, bkFree, ResetPcm, ChkDTSignal, Releasing
<1>2. stalePick' = stalePick
  BY DEF bkOffHk, bkFree, ResetPcm
<1> QED BY <1>1, <1>2, HangUpLeaves, IdleIdles DEF OffHook, Own

\* A caller whose leg goes back to the keypad: KillLinker takes the other leg's link.
LEMMA BackGoesOn ==
  ASSUME TypeOK, queue # <<>>, NEW c \in Lines, ch[c].cls = "talk",
         NEW r \in Objects, SameLeg([r EXCEPT !.task = ch[c].task], c),
         r.st = "RcvLvTel", ch' = Unlinked(c, r), sock' = sock, board' = board,
         NEW b, queue' = Rest \o PostIf(b, c, "TALKING") \o Notice(c)
  PROVE  GoesOn(c)
<1> DEFINE u == PostIf(b, c, "TALKING")
<1>1. r.cls = ch[c].cls /\ r.kind \in {ch[c].kind, "CATK"}
  BY DEF SameLeg, Objects
<1>2. Beside(c)
  BY UnlinkedBeside DEF Beside, Apart
<1>3. {"TALKING", "PENDING"} \subseteq Events /\ ch[c].task \in Lines \cup {None}
  BY Typed DEF Events, ChStates, Objects
<1>4. Mild(u) /\ Mild(Notice(c))
  BY <1>3, MildPost DEF Notice
<1> HIDE DEF u
<1>5. Mild(u \o Notice(c)) /\ queue' = Rest \o (u \o Notice(c))
  <2>1. queue' = (Rest \o u) \o Notice(c)
    BY DEF u
  <2>2. Rest \in Seq(Msgs) /\ u \in Seq(Msgs) /\ Notice(c) \in Seq(Msgs)
    BY <1>4, RestTyped DEF Mild
  <2>3. Rest \o (u \o Notice(c)) = (Rest \o u) \o Notice(c)
    BY <2>2, Associates
  <2> QED BY <1>4, <2>1, <2>3, MildConcat
<1> QED BY <1>1, <1>2, <1>5, UnlinkedBeside DEF GoesOn, Keypad

\* RcvTalk of every class.
LEMMA RcvTalkOwn ==
  ASSUME TypeOK, queue # <<>>, NEW c \in Lines, Classed(c), NEW e, RcvTalk(c, e)
  PROVE  Own(c, e)
<1> DEFINE back == [ch[c] EXCEPT !.st = "RcvLvTel", !.reserved = {"busy"}]
<1>1. CASE ch[c].cls = "talk" /\ (ch[c].task = None \/ e = "*")
  <2>1. ch[c] \in Objects
    BY Typed
  <2>2. back \in Objects /\ SameLeg([back EXCEPT !.task = ch[c].task], c)
        /\ back.st = "RcvLvTel"
    BY <2>1 DEF Objects, States, SameLeg
  <2>3. ch' = Unlinked(c, back) /\ sock' = sock /\ board' = board
    BY <1>1 DEF RcvTalk
  <2> HIDE DEF back
  <2>4. queue' = Rest \o PostIf(ch[c].task = None /\ e = "PENDING", c, "TALKING")
                      \o Notice(c)
    BY <1>1 DEF RcvTalk
  <2>5. GoesOn(c)
    BY <1>1, <2>2, <2>3, <2>4, BackGoesOn
  <2> QED BY <1>1, <2>5 DEF Own, RcvTalk
<1>2. CASE ~(ch[c].cls = "talk" /\ (ch[c].task = None \/ e = "*"))
  <2>1. RcvTalk_init(c) \/ Stay(c) => GoesOn(c)
    BY RcvTalkInitGoesOn, StayGoesOn DEF RcvTalk
  <2> QED BY <1>2, <2>1, SignalOwn DEF RcvTalk, ChkDTSignal, Resetting, Releasing
<1> QED BY <1>1, <1>2

\* CTalkChannel::FwdPlay and RcvLvTel.
LEMMA KeypadOwn ==
  ASSUME TypeOK, queue # <<>>, NEW c \in Lines, Classed(c), NEW e,
         FwdPlay(c, e) \/ RcvLvTel(c, e)
  PROVE  Own(c, e)
<1> DEFINE got == ch[c].reserved \cup (IF e = "PlayEnd" THEN {"played"} ELSE {})
                                 \cup (IF e = "#" THEN {"keyed"} ELSE {})
           r == [ch[c] EXCEPT !.st = "RcvLvTel"]
           g == [ch[c] EXCEPT !.reserved = got]
           q == [ch[c] EXCEPT !.st = "RcvUlTel", !.reserved = {"busy", "played"}]
<1>1. ch[c] \in Objects /\ ch[c].cls = "talk" /\ ch[c].st \in {"FwdPlay", "RcvLvTel"}
      /\ stalePick' = stalePick
  BY Typed DEF FwdPlay, RcvLvTel, Classed, Keypad
<1>2. r \in Objects /\ SameLeg(r, c) /\ r.st = "RcvLvTel"
  BY <1>1 DEF Objects, States, SameLeg
<1>3. g \in Objects /\ SameLeg(g, c) /\ g.st = ch[c].st
  <2>1. got \in SUBSET {"busy", "played", "keyed"}
    BY <1>1 DEF Objects
  <2> HIDE DEF got
  <2> QED BY <1>1, <2>1 DEF Objects, SameLeg
<1>4. q \in Objects /\ SameLeg(q, c) /\ q.st = "RcvUlTel"
  BY <1>1 DEF Objects, States, SameLeg
<1>5. RcvLvTel_init(c) => GoesOn(c)
  <2>1. RcvLvTel_init(c) => Prompt(c, r) /\ queue' = Rest /\ sock' = sock /\ board' = board
    BY DEF RcvLvTel_init
  <2> HIDE DEF r
  <2> QED BY <1>1, <1>2, <2>1, QuietPromptGoesOn
<1>6. Stay(c) => GoesOn(c)
  BY <1>1, StayGoesOn
<1>7. Become(c, g) => GoesOn(c)
  <2> HIDE DEF g
  <2> QED BY <1>1, <1>3, BecomeGoesOn
<1>8. ASSUME ch' = [ch EXCEPT ![c].st = "RcvUlTel", ![c].reserved = {"busy", "played"}],
             queue' = Rest \o Post(c, "#"), sock' = sock, board' = board
      PROVE  GoesOn(c)
  <2>1. ch' = [ch EXCEPT ![c] = q]
    BY <1>1, <1>8, Typed DEF Objects
  <2>2. "#" \in Events
    BY DEF Events
  <2>3. Mild(Post(c, "#"))
    BY <2>2, MildPost
  <2> HIDE DEF q
  <2> QED BY <1>1, <1>4, <1>8, <2>1, <2>3, OwnGoesOn DEF SameLeg
<1>9. CASE FwdPlay(c, e)
  BY <1>1, <1>5, <1>6, <1>9, SignalOwn DEF FwdPlay, ChkDTSignal, Own, Resetting, Releasing
<1>10. CASE RcvLvTel(c, e)
  <2>1. CASE e = "*"
    <3>1. RcvLvTel_init(c)
      BY <1>10, <2>1 DEF RcvLvTel
    <3> QED BY <1>1, <1>5, <3>1 DEF Own
  <2>2. CASE e # "*" /\ {"played", "keyed"} \subseteq got
    <3>1. GoesOn(c)
      BY <1>8, <1>10, <2>2 DEF RcvLvTel
    <3> QED BY <1>1, <3>1 DEF Own
  <2>3. CASE e # "*" /\ ~({"played", "keyed"} \subseteq got)
    <3>1. ChkDTSignal(c, e, Become(c, g))
      BY <1>10, <2>3 DEF RcvLvTel
    <3> HIDE DEF g
    <3> QED BY <1>1, <1>7, <3>1, SignalOwn DEF ChkDTSignal, Resetting, Releasing
  <2> QED BY <2>1, <2>2, <2>3
<1> QED BY <1>9, <1>10

\* A caller for whom line d is taken.
CallsOut(c, d) ==
  /\ \A x \in Lines \ {c, d} : Apart(x)
  /\ ch'[c].cls = ch[c].cls /\ ch'[c].st = "RcvTalk"
  /\ ch'[d].cls = ch[d].cls /\ ch'[d].kind = "CAHK"
  /\ c # d => /\ ch'[c].kind = ch[c].kind
              /\ ch'[d].st = ch[d].st /\ sock'[d] = sock[d]
  /\ sock'[c] = "login" => sock[c] = "login"
  /\ board[d] = "standby" /\ board' = [board EXCEPT ![d] = "picked"]
  /\ stalePick' = (stalePick \/ Leftover(d))
  /\ \E t : Mild(t) /\ Has(t, Order(d)) /\ queue' = Rest \o t

LEMMA CallOutOutcome ==
  ASSUME TypeOK, queue # <<>>, NEW c \in Lines, NEW d \in Lines, CallOut(c, d)
  PROVE  CallsOut(c, d)
<1> DEFINE r == [ch[c] EXCEPT !.st = "RcvTalk", !.reserved = {"busy"}, !.timer = "on"]
           u == Unlinked(c, r)
           b == IF sock[c] = "bound" THEN "talk" ELSE sock[c]
<1>1. r \in Objects /\ r.cls = ch[c].cls /\ r.st = "RcvTalk" /\ r.kind = ch[c].kind
  <2>1. ch[c] \in Objects
    BY Typed
  <2> QED BY <2>1 DEF Objects, States
<1>2. ch' = [u EXCEPT ![c].task = d, ![d].task = c, ![d].kind = "CAHK"]
  BY DEF CallOut, Linked
<1> HIDE DEF r
<1>3. u \in [Lines -> Objects]
  <2>1. \A x \in Objects : [x EXCEPT !.task = None] \in Objects
    BY DEF Objects
  <2> QED BY <1>1, <2>1, Typed DEF Unlinked
<1>4. /\ u[c].cls = ch[c].cls /\ u[c].st = "RcvTalk" /\ u[c].kind = ch[c].kind
      /\ \A x \in Lines \ {c} :
           /\ u[x].cls = ch[x].cls /\ u[x].st = ch[x].st /\ u[x].kind = ch[x].kind
           /\ u[x].task \in {ch[x].task, None}
  <2>1. \A y \in Objects :
          LET z == [y EXCEPT !.task = None] IN
          z.cls = y.cls /\ z.st = y.st /\ z.kind = y.kind /\ z.task = None
    BY DEF Objects
  <2> QED BY <1>1, <2>1, Typed DEF Unlinked
<1> HIDE DEF u
<1>5. /\ \A x \in Lines : ch'[x].cls = u[x].cls /\ ch'[x].st = u[x].st
      /\ \A x \in Lines \ {d} : ch'[x].kind = u[x].kind
      /\ \A x \in Lines \ {c, d} : ch'[x].task = u[x].task
      /\ ch'[d].kind = "CAHK"
  <2>1. \A x \in Objects : \A k :
          /\ [x EXCEPT !.task = k].cls = x.cls /\ [x EXCEPT !.task = k].st = x.st
          /\ [x EXCEPT !.task = k].kind = x.kind
          /\ [x EXCEPT !.kind = k].cls = x.cls /\ [x EXCEPT !.kind = k].st = x.st
          /\ [x EXCEPT !.kind = k].task = x.task /\ [x EXCEPT !.kind = k].kind = k
    BY DEF Objects
  <2>2. PICK g1 : g1 = [u EXCEPT ![c].task = d]
    OBVIOUS
  <2>3. PICK g2 : g2 = [g1 EXCEPT ![d].task = c]
    OBVIOUS
  <2>4. ch' = [g2 EXCEPT ![d].kind = "CAHK"]
    BY <1>2, <2>2, <2>3
  <2>5. g1 \in [Lines -> Objects] /\ g2 \in [Lines -> Objects]
    BY <1>3, <2>2, <2>3, TaskKeeps
  <2>6. \A x \in Lines : /\ g1[x].cls = u[x].cls /\ g1[x].st = u[x].st
                         /\ g1[x].kind = u[x].kind /\ (x # c => g1[x].task = u[x].task)
    BY <1>3, <2>1, <2>2
  <2>7. \A x \in Lines : /\ g2[x].cls = g1[x].cls /\ g2[x].st = g1[x].st
                         /\ g2[x].kind = g1[x].kind /\ (x # d => g2[x].task = g1[x].task)
    BY <2>1, <2>3, <2>5
  <2>8. \A x \in Lines : /\ ch'[x].cls = g2[x].cls /\ ch'[x].st = g2[x].st
                         /\ (x # d => ch'[x].kind = g2[x].kind /\ ch'[x].task = g2[x].task)
    BY <2>1, <2>4, <2>5
  <2>9. ch'[d].kind = "CAHK"
    BY <2>1, <2>4, <2>5
  <2> QED BY <2>6, <2>7, <2>8, <2>9
<1>6. sock' = [sock EXCEPT ![c] = b]
  BY DEF CallOut, Billed
<1>7. sock'[c] = "login" => sock[c] = "login"
  BY <1>6, Typed
<1>8. /\ board[d] = "standby" /\ board' = [board EXCEPT ![d] = "picked"]
      /\ stalePick' = (stalePick \/ Leftover(d))
  BY DEF CallOut, Seize, Eligible
<1>9. \A x \in Lines \ {c, d} : Apart(x)
  <2>1. \A x \in Lines \ {c, d} : sock'[x] = sock[x] /\ board'[x] = board[x]
    BY <1>6, <1>8, Typed
  <2> QED BY <1>4, <1>5, <2>1 DEF Apart
<1>10. c # d => sock'[d] = sock[d]
  BY <1>6, Typed
<1>11. \E t : Mild(t) /\ Has(t, Order(d)) /\ queue' = Rest \o t
  <2> DEFINE v == Post(d, "PICKUPED")
             t == v \o Notice(c)
  <2>1. {"PICKUPED", "PENDING"} \subseteq Events /\ ch[c].task \in Lines \cup {None}
    BY Typed DEF Events, ChStates, Objects
  <2>2. Mild(v) /\ Mild(Notice(c))
    BY <2>1, MildPost DEF Notice
  <2>3. v = <<Order(d)>>
    BY DEF Post, Order, Lines, None
  <2>4. Has(v, Order(d))
    BY <2>3 DEF Has
  <2>5. queue' = (Rest \o v) \o Notice(c)
    BY DEF CallOut
  <2> HIDE DEF v
  <2>6. v \in Seq(Msgs) /\ Notice(c) \in Seq(Msgs) /\ Rest \in Seq(Msgs)
    BY <2>2, RestTyped DEF Mild
  <2>7. queue' = Rest \o t
    BY <2>5, <2>6, Associates
  <2>8. Mild(t) /\ Has(t, Order(d))
    BY <2>2, <2>4, <2>6, MildConcat, HasConcat
  <2> QED BY <2>7, <2>8
<1>12. ch'[d].cls = ch[d].cls /\ (c # d => ch'[d].st = ch[d].st)
  BY <1>4, <1>5
<1>13. ch'[c].cls = ch[c].cls /\ ch'[c].st = "RcvTalk"
       /\ (c # d => ch'[c].kind = ch[c].kind)
  BY <1>4, <1>5
<1> QED BY <1>5, <1>7, <1>8, <1>9, <1>10, <1>11, <1>12, <1>13 DEF CallsOut

\* No line is free: the caller hears that all are busy.
LEMMA NoLineGoesOn ==
  ASSUME TypeOK, queue # <<>>, NEW c \in Lines, NoLine(c)
  PROVE  GoesOn(c)
<1> DEFINE r == [ch[c] EXCEPT !.st = "ExitPlay", !.exit = "BUSY"]
<1>1. ch[c] \in Objects
  BY Typed
<1>2. r \in Objects /\ SameLeg(r, c) /\ r.st = "ExitPlay"
  BY <1>1 DEF Objects, States, SameLeg
<1>3. Prompt(c, r) /\ sock' = sock /\ board' = board /\ queue' = Rest
  BY DEF NoLine
<1> HIDE DEF r
<1> QED BY <1>2, <1>3, QuietPromptGoesOn DEF Keypad

\* CTalkChannel::RcvUlTel.
LEMMA RcvUlTelOutcome ==
  ASSUME TypeOK, queue # <<>>, NEW c \in Lines, Classed(c), NEW e, RcvUlTel(c, e)
  PROVE  ch[c].cls = "talk" /\ (Own(c, e) \/ \E d \in Lines : CallsOut(c, d))
<1>1. ch[c].cls = "talk" /\ ch[c].st = "RcvUlTel"
  BY DEF RcvUlTel, Classed, Keypad
<1>2. CASE e = "#"
  <2>1. CASE NoLine(c)
    <3>1. GoesOn(c) /\ stalePick' = stalePick
      BY <2>1, NoLineGoesOn DEF NoLine
    <3> QED BY <1>1, <3>1 DEF Own
  <2>2. CASE \E d \in Lines : CallOut(c, d)
    BY <1>1, <2>2, CallOutOutcome
  <2> QED BY <1>2, <2>1, <2>2 DEF RcvUlTel
<1>3. CASE e # "#"
  <2>1. Stay(c) => GoesOn(c)
    BY <1>1, StayGoesOn
  <2>2. ChkDTSignal(c, e, Stay(c)) /\ stalePick' = stalePick
    BY <1>3 DEF RcvUlTel
  <2> QED BY <1>1, <2>1, <2>2, SignalOwn DEF ChkDTSignal, Resetting, Releasing
<1> QED BY <1>2, <1>3

\* Every handler.
LEMMA HandleOutcome ==
  ASSUME TypeOK, queue # <<>>, NEW c \in Lines, Classed(c), NEW e, Handle(c, e)
  PROVE  Own(c, e) \/ (ch[c].cls = "talk" /\ \E d \in Lines : CallsOut(c, d))
<1>1. CASE RcvUlTel(c, e)
  BY <1>1, RcvUlTelOutcome
<1>2. CASE ~RcvUlTel(c, e)
  BY <1>2, bkIdleOwn, seiConfmOwn, FeeLoginOwn, rcvMFsigOwn, RcvTalkOwn, WaitDialOwn,
     ExitPlayOwn, ReleaseOwn, KeypadOwn DEF Handle
<1> QED BY <1>1, <1>2

-----------------------------------------------------------------------------
(* The poll *)

\* What a handler posts comes behind what the dialler has passed on.
LEMMA PollQueue ==
  ASSUME TypeOK, queue # <<>>, NEW t \in Seq(Msgs), queue' = Rest \o t
  PROVE  /\ Left(Tail(queue)) /\ Forwarded \o t \in Seq(Msgs)
         /\ queue' = Tail(queue) \o (Forwarded \o t)
<1>1. Tail(queue) \in Seq(Msgs) /\ Forwarded \in Seq(Msgs)
  BY ForwardedTyped, Typed
<1>2. Rest \o t = Tail(queue) \o (Forwarded \o t)
  BY <1>1, Associates DEF Rest
<1> QED BY <1>1, <1>2 DEF Left

LEMMA PollAdds ==
  ASSUME TypeOK, queue # <<>>, \A x \in Lines : Leg(x),
         NEW t \in Seq(Msgs), queue' = Rest \o t,
         \A x \in Lines : Has(t, Standby(x)) => board'[x] = "standby",
         \A x \in Lines : board[x] = "standby" /\ board'[x] # "standby"
                            => \E m \in Movers(x) : Has(t, m)
  PROVE  Adds(Tail(queue), Forwarded \o t)
<1>1. Forwarded \in Seq(Msgs) /\ Forwarded \o t \in Seq(Msgs)
      /\ queue' = Tail(queue) \o (Forwarded \o t)
  BY PollQueue, ForwardedTyped
<1>2. ASSUME NEW x \in Lines, Has(Forwarded \o t, Standby(x)) PROVE board'[x] = "standby"
  BY <1>1, <1>2, HasSplit, NoneForwarded
<1>3. ASSUME NEW x \in Lines, board[x] = "standby", board'[x] # "standby"
      PROVE  \E m \in Movers(x) : Has(Forwarded \o t, m)
  BY <1>1, <1>3, HasAdded
<1> QED BY <1>1, <1>2, <1>3 DEF Adds

\* A line that is not polled keeps what it has, but for its link.
LEMMA ApartLeg ==
  ASSUME LegInv, queue # <<>>, asked' = asked, NEW x \in Lines, Head(queue).line # x,
         Apart(x), NEW t \in Seq(Msgs), queue' = Rest \o t
  PROVE  /\ Classed(x)' /\ Ordered(x)'
         /\ ~stalePick /\ Adds(Tail(queue), Forwarded \o t) => Clean(x)'
<1>1. TypeOK /\ Classed(x) /\ Ordered(x)
  BY DEF LegInv
<1>2. Left(Tail(queue)) /\ Forwarded \o t \in Seq(Msgs)
      /\ queue' = Tail(queue) \o (Forwarded \o t)
  BY <1>1, PollQueue
<1>3. Head(queue) # Order(x) /\ Head(queue) \notin Movers(x) \cup Resets(x)
  BY DEF Order, Movers, Resets
<1>4. Classed(x)'
  BY <1>1 DEF Apart, Classed
<1>5. Ordered(x)'
  <2>1. ch'[x].st = "bkIdle" /\ ch'[x].task # None
           => ch[x].st = "bkIdle" /\ ch[x].task # None
    BY DEF Apart
  <2> QED BY <1>1, <1>2, <1>3, <2>1, OrderedStep
<1>6. ASSUME ~stalePick, Adds(Tail(queue), Forwarded \o t) PROVE Clean(x)'
  <2>1. Dialled(x) /\ Leg(x) /\ Wakes(x) /\ Moves(x)
    BY <1>6 DEF LegInv, Clean
  <2>2. Dialled(x)'
    BY <2>1 DEF Dialled, Apart
  <2>3. Leg(x)'
    <3>1. /\ ch'[x].cls # "talk" /\ ch'[x].task # None
               => ch[x].cls # "talk" /\ ch[x].task # None
          /\ board[x] \in OffHookStates => board'[x] \in OffHookStates
      BY DEF Apart
    <3> QED BY <1>1, <1>2, <1>3, <1>6, <2>1, <3>1, LegStep
  <2>4. Wakes(x)'
    BY <1>1, <1>2, <1>6, <2>1, WakesStep
  <2>5. Moves(x)'
    <3>1. ch'[x].st = "bkIdle" => ch[x].st = "bkIdle"
      BY DEF Apart
    <3> QED BY <1>1, <1>2, <1>3, <1>6, <2>1, <3>1, MovesStep
  <2> QED BY <2>2, <2>3, <2>4, <2>5 DEF Clean
<1> QED BY <1>4, <1>5, <1>6

\* A line that is released has no link left.
LEMMA LeavesLeg ==
  ASSUME LegInv, queue # <<>>, asked' = asked, NEW c \in Lines, Head(queue).line = c,
         Leaves(c), NEW x \in Lines
  PROVE  /\ Classed(x)' /\ Ordered(x)'
         /\ ~stalePick => Clean(x)'
<1>1. TypeOK
  BY DEF LegInv
<1>2. PICK t \in Seq(Msgs) : /\ queue' = Rest \o t
                             /\ \A y : Has(t, Standby(y)) => y = c /\ ~OnHook(c)
  BY DEF Leaves
<1>3. ~stalePick => Adds(Tail(queue), Forwarded \o t)
  <2>1. \A y \in Lines : Has(t, Standby(y)) => board'[y] = "standby"
    BY <1>2 DEF Leaves
  <2>2. \A y \in Lines : board[y] = "standby" => board'[y] = "standby"
    BY DEF Leaves, Beside, Apart, OnHook
  <2> QED BY <1>1, <1>2, <2>1, <2>2, PollAdds DEF LegInv, Clean
<1>4. CASE x # c
  <2>1. Apart(x)
    BY <1>4 DEF Leaves, Beside
  <2> QED BY <1>2, <1>3, <1>4, <2>1, ApartLeg
<1>5. CASE x = c
  <2>1. ch'[c].st \in Releasing /\ ch'[c].task = None /\ sock'[c] = "none"
        /\ ch'[c].cls = ch[c].cls /\ ch'[c].kind = ch[c].kind
    BY DEF Leaves
  <2>2. Classed(x)' /\ Ordered(x)'
    BY <1>5, <2>1 DEF Classed, Ordered, Releasing, Keypad
  <2>3. ASSUME ~stalePick PROVE Clean(x)'
    <3>1. Dialled(c) /\ Wakes(c)
      BY <2>3 DEF LegInv, Clean
    <3>2. Dialled(x)' /\ Leg(x)' /\ Moves(x)'
      BY <1>5, <2>1, <3>1 DEF Dialled, Leg, Moves, Releasing
    <3>3. Wakes(x)'
      BY <1>1, <1>2, <1>3, <1>5, <2>3, <3>1, PollQueue, WakesStep
    <3> QED BY <3>2, <3>3 DEF Clean
  <2> QED BY <2>2, <2>3
<1> QED BY <1>4, <1>5

\* A line is idle again: if it is off hook, what has taken it there is to come.
LEMMA IdlesLeg ==
  ASSUME LegInv, queue # <<>>, asked' = asked, NEW c \in Lines, Head(queue).line = c,
         Idles(c), \/ Head(queue).ev = "STANDBY"
                   \/ ch[c].st = "bkIdle" /\ Head(queue).ev \notin Moving,
         NEW x \in Lines
  PROVE  /\ Classed(x)' /\ Ordered(x)'
         /\ ~stalePick => Clean(x)'
<1>1. TypeOK
  BY DEF LegInv
<1> DEFINE t == <<>>
<1>2. t \in Seq(Msgs) /\ \A y : ~Has(t, y)
  BY DEF Has
<1>3. queue' = Rest \o t
  BY <1>1, RestTyped DEF Idles
<1> HIDE DEF t
<1>4. ~stalePick => Adds(Tail(queue), Forwarded \o t)
  <2>1. \A y \in Lines : board'[y] = board[y]
    BY DEF Idles
  <2> QED BY <1>1, <1>2, <1>3, <2>1, PollAdds DEF LegInv, Clean
<1>5. CASE x # c
  <2>1. Apart(x)
    BY <1>5 DEF Idles, Beside
  <2> QED BY <1>2, <1>3, <1>4, <1>5, <2>1, ApartLeg
<1>6. CASE x = c
  <2>1. /\ ch'[c].st = "bkIdle" /\ ch'[c].task = None /\ ch'[c].cls = "base"
        /\ ch'[c].kind = ""
    BY DEF Idles, NewObject
  <2>2. Classed(x)' /\ Ordered(x)'
    BY <1>6, <2>1 DEF Classed, Ordered, Keypad
  <2>3. ASSUME ~stalePick PROVE Clean(x)'
    <3>1. Wakes(c) /\ Moves(c)
      BY <2>3 DEF LegInv, Clean
    <3>2. Dialled(x)' /\ Leg(x)'
      BY <1>6, <2>1 DEF Dialled, Leg
    <3>3. Wakes(x)'
      BY <1>1, <1>2, <1>3, <1>4, <1>6, <2>3, <3>1, PollQueue, WakesStep
    <3>4. Moves(c)'
      <4>1. CASE Head(queue).ev = "STANDBY" /\ board[c] # "standby"
        <5>1. queue \in Seq(Msgs) /\ Head(queue) \in Msgs
          BY <1>1, Typed, RestTyped
        <5>2. Head(queue) = Standby(c)
          BY <4>1, <5>1 DEF Msgs, Standby
        <5>3. Behind(queue, Standby(c), Movers(c))
          BY <3>1, <4>1 DEF Wakes
        <5>4. PICK m \in Movers(c) : Has(Tail(queue), m)
          BY <5>1, <5>2, <5>3, BehindTail
        <5>5. /\ queue' = Tail(queue) \o (Forwarded \o t)
              /\ Forwarded \o t \in Seq(Msgs)
          BY <1>1, <1>2, <1>3, PollQueue
        <5>6. Tail(queue) \in Seq(Msgs)
          BY <5>1
        <5>7. Has(queue', m)
          BY <5>4, <5>5, <5>6, HasConcat
        <5> QED BY <5>7 DEF Moves, Movers
      <4>2. CASE board[c] = "standby"
        BY <4>2 DEF Moves, Idles
      <4>3. CASE ch[c].st = "bkIdle" /\ Head(queue).ev \notin Moving
        <5>1. Head(queue) \notin Movers(c)
          BY <4>3 DEF Movers
        <5> QED BY <1>1, <1>2, <1>3, <1>4, <2>3, <3>1, <4>3, <5>1, PollQueue, MovesStep
      <4> QED BY <4>1, <4>2, <4>3
    <3> QED BY <1>6, <3>2, <3>3, <3>4 DEF Clean
  <2> QED BY <2>2, <2>3
<1> QED BY <1>5, <1>6

\* A line goes on in its call, or comes to one.
LEMMA GoesOnLeg ==
  ASSUME LegInv, queue # <<>>, asked' = asked, NEW c \in Lines, Head(queue).line = c,
         GoesOn(c), ch[c].cls = "talk" \/ Head(queue).ev \notin Resetting \cup {"STANDBY"},
         NEW x \in Lines
  PROVE  /\ Classed(x)' /\ Ordered(x)'
         /\ ~stalePick => Clean(x)'
<1>1. TypeOK
  BY DEF LegInv
<1>2. PICK t : /\ Mild(t) /\ queue' = Rest \o t
               /\ board[c] = "standby" /\ board'[c] # "standby" => Has(t, Order(c))
  BY DEF GoesOn
<1>3. t \in Seq(Msgs)
  BY <1>2 DEF Mild
<1>4. ~stalePick => Adds(Tail(queue), Forwarded \o t)
  <2>1. \A y \in Lines : ~Has(t, Standby(y))
    BY <1>2, MildHas
  <2>2. \A y \in Lines : board[y] = "standby" /\ board'[y] # "standby"
                            => y = c /\ Has(t, Order(c))
    BY <1>2 DEF GoesOn, Beside, Apart
  <2>3. Order(c) \in Movers(c)
    BY DEF Order, Movers, Moving, Msgs, Events, ChStates
  <2>4. \A y \in Lines : board[y] = "standby" /\ board'[y] # "standby"
                            => \E m \in Movers(y) : Has(t, m)
    BY <2>2, <2>3
  <2> QED BY <1>1, <1>2, <1>3, <2>1, <2>4, PollAdds DEF LegInv, Clean
<1>5. CASE x # c
  <2>1. Apart(x)
    BY <1>5 DEF GoesOn, Beside
  <2> QED BY <1>2, <1>3, <1>4, <1>5, <2>1, ApartLeg
<1>6. CASE x = c
  <2>1. /\ ch'[c].cls = ch[c].cls /\ ch'[c].kind \in {ch[c].kind, "CATK"}
        /\ ch'[c].st # "bkIdle" /\ (ch'[c].st \in Keypad => ch[c].cls = "talk")
        /\ ch[c].cls # "talk" => ch'[c].task = ch[c].task
        /\ sock'[c] = "login" => sock[c] = "login"
        /\ board[c] \in OffHookStates => board'[c] \in OffHookStates
    BY DEF GoesOn
  <2>2. Classed(x)' /\ Ordered(x)'
    BY <1>6, <2>1 DEF Classed, Ordered
  <2>3. ASSUME ~stalePick PROVE Clean(x)'
    <3>1. Dialled(c) /\ Leg(c) /\ Wakes(c)
      BY <2>3 DEF LegInv, Clean
    <3>2. Dialled(x)'
      BY <1>6, <2>1, <3>1 DEF Dialled
    <3>3. Moves(x)'
      BY <1>6, <2>1 DEF Moves
    <3>4. Wakes(x)'
      BY <1>1, <1>2, <1>3, <1>4, <1>6, <2>3, <3>1, PollQueue, WakesStep
    <3>5. Leg(c)'
      <4>1. CASE ch[c].cls = "talk"
        BY <2>1, <4>1 DEF Leg
      <4>2. CASE ch[c].cls # "talk"
        <5>1. Head(queue) \notin Resets(c)
          BY <4>2 DEF Resets
        <5> QED BY <1>1, <1>2, <1>3, <1>4, <2>1, <2>3, <3>1, <4>2, <5>1, PollQueue, LegStep
      <4> QED BY <4>1, <4>2
    <3> QED BY <1>6, <3>2, <3>3, <3>4, <3>5 DEF Clean
  <2> QED BY <2>2, <2>3
<1> QED BY <1>5, <1>6

\* A line without an event has no STANDBY, nor gets one from a poll.
LEMMA NoneLeft ==
  ASSUME TypeOK, queue # <<>>, NEW d \in Lines, ~Pending(d), \A y \in Lines : Leg(y),
         NEW t, Mild(t), queue' = Rest \o t
  PROVE  ~Has(queue', Standby(d))
<1>1. t \in Seq(Msgs)
  BY DEF Mild
<1>2. /\ Left(Tail(queue)) /\ Forwarded \o t \in Seq(Msgs)
      /\ queue' = Tail(queue) \o (Forwarded \o t)
  BY <1>1, PollQueue
<1>3. ~Has(Forwarded \o t, Standby(d))
  BY <1>1, MildHas, NoneForwarded, ForwardedTyped, HasSplit
<1>4. ~Has(queue, Standby(d))
  <2>1. ASSUME Has(queue, Standby(d)) PROVE FALSE
    <3>1. PICK i \in DOMAIN queue : queue[i] = Standby(d)
      BY <2>1 DEF Has
    <3>2. queue[i].line = d
      BY <3>1 DEF Standby
    <3> QED BY <3>2 DEF Pending
  <2> QED BY <2>1
<1> QED BY <1>2, <1>3, <1>4, HasOnly

\* A line is taken for a caller and ordered to dial.
LEMMA CallsOutLeg ==
  ASSUME LegInv, queue # <<>>, asked' = asked, NEW c \in Lines, Head(queue).line = c,
         NEW d \in Lines, CallsOut(c, d), ch[c].cls = "talk", NEW x \in Lines
  PROVE  /\ Classed(x)' /\ Ordered(x)'
         /\ ~stalePick' => Clean(x)'
<1>1. TypeOK
  BY DEF LegInv
<1>2. PICK t : Mild(t) /\ Has(t, Order(d)) /\ queue' = Rest \o t
  BY DEF CallsOut
<1>3. t \in Seq(Msgs)
  BY <1>2 DEF Mild
<1>4. /\ Left(Tail(queue)) /\ Forwarded \o t \in Seq(Msgs)
      /\ queue' = Tail(queue) \o (Forwarded \o t)
  BY <1>1, <1>2, <1>3, PollQueue
<1>5. /\ board' = [board EXCEPT ![d] = "picked"] /\ board'[d] = "picked"
      /\ \A y \in Lines \ {d} : board'[y] = board[y]
  BY <1>1, Typed DEF CallsOut
<1>6. ~stalePick => Adds(Tail(queue), Forwarded \o t)
  <2>1. \A y \in Lines : ~Has(t, Standby(y))
    BY <1>2, MildHas
  <2>2. Order(d) \in Movers(d)
    BY DEF Order, Movers, Moving, Msgs, Events, ChStates
  <2>3. \A y \in Lines : board[y] = "standby" /\ board'[y] # "standby"
                            => \E m \in Movers(y) : Has(t, m)
    BY <1>2, <1>5, <2>2
  <2> QED BY <1>1, <1>2, <1>3, <2>1, <2>3, PollAdds DEF LegInv, Clean
<1>7. ~stalePick' => ~stalePick /\ ~Leftover(d)
  BY DEF CallsOut
<1>8. ~stalePick' => c # d
  <2>1. queue \in Seq(Msgs)
    BY <1>1, Typed
  <2>2. 1 \in DOMAIN queue /\ queue[1].line = c
    BY <2>1
  <2>3. Pending(c)
    BY <2>2 DEF Pending
  <2> QED BY <1>7, <2>3 DEF Leftover
<1>9. CASE x \notin {c, d}
  <2>1. Apart(x)
    BY <1>9 DEF CallsOut
  <2> QED BY <1>2, <1>3, <1>6, <1>7, <1>9, <2>1, ApartLeg
<1>10. CASE x = c
  <2>1. ch'[c].cls = ch[c].cls /\ ch'[c].st = "RcvTalk"
        /\ (sock'[c] = "login" => sock[c] = "login")
    BY DEF CallsOut
  <2>2. Classed(x)' /\ Ordered(x)'
    BY <1>10, <2>1 DEF Classed, Ordered, Keypad
  <2>3. ASSUME ~stalePick' PROVE Clean(x)'
    <3>1. Dialled(c) /\ Wakes(c) /\ ~stalePick
      BY <1>7, <2>3 DEF LegInv, Clean
    <3>2. ch'[c].kind = ch[c].kind
      BY <1>8, <2>3 DEF CallsOut
    <3>3. Dialled(x)' /\ Leg(x)' /\ Moves(x)'
      BY <1>10, <2>1, <3>1, <3>2 DEF Dialled, Leg, Moves
    <3>4. Wakes(x)'
      BY <1>1, <1>4, <1>6, <1>10, <3>1, WakesStep
    <3> QED BY <3>3, <3>4 DEF Clean
  <2> QED BY <2>2, <2>3
<1>11. CASE x = d /\ c # d
  <2>1. /\ ch'[d].cls = ch[d].cls /\ ch'[d].kind = "CAHK" /\ ch'[d].st = ch[d].st
        /\ sock'[d] = sock[d]
    BY <1>11 DEF CallsOut
  <2>2. Classed(x)'
    BY <1>11, <2>1 DEF LegInv, Classed
  <2>3. Ordered(x)'
    <3>1. Has(Forwarded \o t, Order(d))
      BY <1>1, <1>2, <1>3, HasAdded, ForwardedTyped
    <3>2. Tail(queue) \in Seq(Msgs)
      BY <1>1, <1>4, LeftTyped
    <3>3. Has(queue', Order(d))
      BY <1>4, <3>1, <3>2, HasAdded
    <3> QED BY <1>11, <3>3 DEF Ordered, Queued, Has, Order
  <2>4. ASSUME ~stalePick' PROVE Clean(x)'
    <3>1. /\ ch[d].st = "bkIdle" /\ sock[d] = "none" /\ ~Pending(d) /\ ~stalePick
      BY <1>7, <2>4 DEF Leftover
    <3>2. ch[d].cls = "base" /\ Wakes(d) /\ Moves(d)
      BY <3>1 DEF LegInv, Clean, Classed
    <3>3. Dialled(x)'
      BY <1>11, <2>1, <3>1, <3>2 DEF Dialled
    <3>4. Leg(x)'
      <4>1. ~Has(queue', Standby(d))
        BY <1>1, <1>2, <3>1, NoneLeft DEF LegInv, Clean
      <4> QED BY <1>5, <1>11, <4>1 DEF Leg, OffHookStates, Queued, Has, Standby
    <3>5. Wakes(x)'
      BY <1>1, <1>4, <1>6, <1>11, <3>1, <3>2, WakesStep
    <3>6. Moves(x)'
      <4>1. Head(queue) \notin Movers(d)
        BY <1>11 DEF Movers
      <4> QED BY <1>1, <1>4, <1>6, <1>11, <2>1, <3>1, <3>2, <4>1, MovesStep
    <3> QED BY <3>3, <3>4, <3>5, <3>6 DEF Clean
  <2> QED BY <2>2, <2>3, <2>4
<1> QED BY <1>9, <1>10, <1>11

\* RunPolling.
LEMMA PollLeg ==
  ASSUME LegInv, RunPolling, NEW x \in Lines
  PROVE  /\ Classed(x)' /\ Ordered(x)'
         /\ ~stalePick' => Clean(x)'
<1> DEFINE c == Head(queue).line
           e == Head(queue).ev
<1>1. TypeOK /\ queue # <<>> /\ asked' = asked /\ Handle(c, e)
  BY DEF LegInv, RunPolling
<1>2. c \in Lines
  BY <1>1, RestTyped DEF Msgs
<1>3. Classed(c)
  BY <1>2 DEF LegInv
<1>4. CASE Own(c, e)
  <2>1. stalePick' = stalePick
    BY <1>4 DEF Own
  <2>2. CASE Leaves(c)
    BY <1>1, <1>2, <2>1, <2>2, LeavesLeg
  <2>3. CASE Idles(c) /\ (e = "STANDBY" \/ (ch[c].st = "bkIdle" /\ e \notin Moving))
    BY <1>1, <1>2, <2>1, <2>3, IdlesLeg
  <2>4. CASE GoesOn(c) /\ (ch[c].cls = "talk" \/ e \notin Resetting \cup {"STANDBY"})
    BY <1>1, <1>2, <2>1, <2>4, GoesOnLeg
  <2> QED BY <1>4, <2>2, <2>3, <2>4 DEF Own
<1>5. CASE ch[c].cls = "talk" /\ \E d \in Lines : CallsOut(c, d)
  BY <1>1, <1>2, <1>5, CallsOutLeg
<1> QED BY <1>1, <1>2, <1>3, <1>4, <1>5, HandleOutcome

-----------------------------------------------------------------------------
(* The invariant *)

\* Initially every line is idle and on hook.
LEMMA InitLeg == Init => LegInv
<1> SUFFICES ASSUME Init PROVE \A d \in Lines : Classed(d) /\ Ordered(d) /\ Clean(d)
  BY InitTyped DEF LegInv
<1> SUFFICES ASSUME NEW d \in Lines PROVE Classed(d) /\ Ordered(d) /\ Clean(d)
  OBVIOUS
<1>1. /\ ch[d].st = "bkIdle" /\ ch[d].cls = "base" /\ ch[d].kind = "" /\ ch[d].task = None
      /\ board[d] = "standby"
  BY DEF Init, NewObject
<1>2. Classed(d) /\ Ordered(d)
  BY <1>1 DEF Classed, Ordered, Keypad
<1>3. Dialled(d) /\ Leg(d) /\ Wakes(d) /\ Moves(d)
  BY <1>1 DEF Dialled, Leg, Wakes, Moves
<1> QED BY <1>2, <1>3 DEF Clean

\* Every step preserves it.
LEMMA NextLeg == LegInv /\ [Next]_vars => LegInv'
<1> SUFFICES ASSUME LegInv, [Next]_vars PROVE LegInv'
  OBVIOUS
<1>1. TypeOK'
  BY NextTyped DEF LegInv
<1> SUFFICES ASSUME NEW x \in Lines
             PROVE  Classed(x)' /\ Ordered(x)' /\ (~stalePick' => Clean(x)')
  BY <1>1 DEF LegInv
<1>2. CASE RunPolling
  BY <1>2, PollLeg
<1>3. ASSUME NEW c \in Lines, OnRun(c)
      PROVE  Classed(x)' /\ Ordered(x)' /\ (~stalePick' => Clean(x)')
  <2>1. stalePick' = stalePick
    BY <1>3 DEF OnRun, Quiet, Connected, Dropped, Refused, Bound, NoService, AtLine
  <2> QED BY <1>3, <2>1, OnRunLeg
<1>4. ASSUME NEW c \in Lines, CallBack(c)
      PROVE  Classed(x)' /\ Ordered(x)' /\ (~stalePick' => Clean(x)')
  <2>1. ~stalePick' => ~stalePick
    BY <1>4 DEF CallBack, Seize
  <2> QED BY <1>4, <2>1, CallBackLeg
<1>5. ASSUME NEW c \in Lines, Outside(c)
      PROVE  Classed(x)' /\ Ordered(x)' /\ (~stalePick' => Clean(x)')
  <2>1. stalePick' = stalePick
    BY <1>5 DEF Outside, Arrive, GiveUp, FarHangup, Answer, Key, PlayEnd, Fault, Restore,
       Tick, BoardTo, Inside
  <2> QED BY <1>5, <2>1, OutsideLeg
<1>6. CASE NoEvent \/ UNCHANGED vars
  <2>1. /\ ch' = ch /\ sock' = sock /\ asked' = asked /\ board' = board /\ queue' = queue
        /\ stalePick' = stalePick
    BY <1>6 DEF NoEvent, vars
  <2>2. Classed(x) /\ Ordered(x) /\ (~stalePick => Dialled(x) /\ Leg(x) /\ Wakes(x) /\ Moves(x))
    BY DEF LegInv, Clean
  <2>3. Classed(x)' /\ Ordered(x)'
    BY <2>1, <2>2 DEF Classed, Ordered, Queued
  <2>4. ~stalePick' => Dialled(x)' /\ Leg(x)' /\ Wakes(x)' /\ Moves(x)'
    BY <2>1, <2>2 DEF Dialled, Leg, Wakes, Moves, Queued
  <2> QED BY <2>3, <2>4 DEF Clean
<1> QED BY <1>2, <1>3, <1>4, <1>5, <1>6 DEF Next

\* LegInv holds in every behaviour.
LEMMA LegsHold == Spec => []LegInv
BY InitLeg, NextLeg, PTL DEF Spec

\* The PICKUPED that CallOut posts for the line it takes is in the queue as long as
\* that line's object idles with its link, whenever the line was taken: neither a late
\* event of its last call nor a fault of the trunk consumes the order.
THEOREM OrderReachesLine == Spec => []OrderedLineWillDial
<1>1. LegInv => OrderedLineWillDial
  BY DEF LegInv, Ordered, OrderedLineWillDial
<1> QED BY <1>1, LegsHold, PTL

\* On a board whose lines are only taken when their last call is over, no line is left
\* off hook while its object idles with no event to come: bkIdle_init after a STANDBY
\* loses nothing, since what took the line off hook again stands behind that STANDBY.
THEOREM OffHookMoves == Spec => []OffHookLineMoves
<1>1. ASSUME LegInv, ~stalePick, NEW d \in Lines, ch[d].st = "bkIdle",
             board[d] # "standby"
      PROVE  Pending(d)
  <2>1. PICK m \in Movers(d) : Has(queue, m)
    BY <1>1 DEF LegInv, Clean, Moves
  <2>2. m.line = d
    BY <2>1 DEF Movers
  <2> QED BY <2>1, <2>2 DEF Has, Pending
<1>2. LegInv => OffHookLineMoves
  BY <1>1 DEF OffHookLineMoves
<1> QED BY <1>2, LegsHold, PTL
=============================================================================
