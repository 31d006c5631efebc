----------------------------- MODULE EventProofs -----------------------------
(***************************************************************************)
(* The event service for any number of threads, blocks and events, and any *)
(* width of the clock: its types, the one place of each block, and that it *)
(* implements Alarm.                                                       *)
(***************************************************************************)
EXTENDS EventService, TLAPS

-----------------------------------------------------------------------------
(* Sequences: what RemoveAt and Add do *)

LEMMA WithoutSeq ==
  ASSUME NEW S, NEW s \in Seq(S), NEW i \in DOMAIN s
  PROVE  /\ Without(s, i) \in Seq(S)
         /\ Len(Without(s, i)) = Len(s) - 1
         /\ DOMAIN Without(s, i) = 1 .. Len(s) - 1
         /\ \A j \in 1 .. Len(s) - 1 : Without(s, i)[j] = IF j < i THEN s[j] ELSE s[j + 1]
<1>1. Len(s) \in Nat \ {0} /\ DOMAIN s = 1 .. Len(s)
  OBVIOUS
<1>2. \A j \in 1 .. Len(s) - 1 : (IF j < i THEN s[j] ELSE s[j + 1]) \in S
  BY <1>1
<1>3. Without(s, i) \in [1 .. Len(s) - 1 -> S]
  BY <1>1, <1>2 DEF Without
<1>4. Len(s) - 1 \in Nat
  BY <1>1
<1>5. Without(s, i) \in Seq(S) /\ Len(Without(s, i)) = Len(s) - 1
  BY <1>3, <1>4
<1> QED BY <1>3, <1>5 DEF Without

LEMMA WithoutElements ==
  ASSUME NEW S, NEW s \in Seq(S), NEW i \in DOMAIN s, Injective(s)
  PROVE  /\ Elements(Without(s, i)) = Elements(s) \ {s[i]}
         /\ Injective(Without(s, i))
         /\ s[i] \in Elements(s)
<1> DEFINE w == Without(s, i)
<1>1. /\ w \in Seq(S) /\ DOMAIN w = 1 .. Len(s) - 1
      /\ \A j \in 1 .. Len(s) - 1 : w[j] = IF j < i THEN s[j] ELSE s[j + 1]
  BY WithoutSeq
<1>2. DOMAIN s = 1 .. Len(s) /\ Len(s) \in Nat /\ i \in 1 .. Len(s)
  OBVIOUS
<1>3. \A j \in DOMAIN s, k \in DOMAIN s : s[j] = s[k] => j = k
  BY DEF Injective
<1> HIDE DEF w
<1>4. Elements(w) \subseteq Elements(s) \ {s[i]}
  <2> SUFFICES ASSUME NEW j \in DOMAIN w PROVE w[j] \in Elements(s) \ {s[i]}
    BY DEF Elements
  <2>1. CASE j < i
    BY <2>1, <1>1, <1>2, <1>3 DEF Elements
  <2>2. CASE ~ (j < i)
    <3>1. j + 1 \in DOMAIN s /\ j + 1 # i /\ w[j] = s[j + 1]
      BY <2>2, <1>1, <1>2
    <3> QED BY <3>1, <1>2, <1>3 DEF Elements
  <2> QED BY <2>1, <2>2
<1>5. Elements(s) \ {s[i]} \subseteq Elements(w)
  <2> SUFFICES ASSUME NEW j \in DOMAIN s, j # i PROVE s[j] \in Elements(w)
    BY DEF Elements
  <2>1. CASE j < i
    BY <2>1, <1>1, <1>2 DEF Elements
  <2>2. CASE j > i
    <3>1. j - 1 \in DOMAIN w /\ ~ (j - 1 < i) /\ j - 1 + 1 = j
      BY <2>2, <1>1, <1>2
    <3>2. w[j - 1] = s[j]
      BY <3>1, <1>1
    <3> QED BY <3>1, <3>2 DEF Elements
  <2> QED BY <2>1, <2>2, <1>2
<1>6. Injective(w)
  <2> SUFFICES ASSUME NEW j \in DOMAIN w, NEW k \in DOMAIN w, w[j] = w[k] PROVE j = k
    BY DEF Injective
  <2>1. /\ w[j] = s[IF j < i THEN j ELSE j + 1]
        /\ w[k] = s[IF k < i THEN k ELSE k + 1]
    BY <1>1
  <2>2. /\ (IF j < i THEN j ELSE j + 1) \in DOMAIN s
        /\ (IF k < i THEN k ELSE k + 1) \in DOMAIN s
    BY <1>1, <1>2
  <2>3. (IF j < i THEN j ELSE j + 1) = (IF k < i THEN k ELSE k + 1)
    BY <2>1, <2>2, <1>3
  <2> QED BY <2>3, <1>1, <1>2
<1> QED BY <1>4, <1>5, <1>6 DEF w, Elements

LEMMA AppendElements ==
  ASSUME NEW S, NEW s \in Seq(S), NEW b \in S, Injective(s), b \notin Elements(s)
  PROVE  /\ Append(s, b) \in Seq(S)
         /\ Elements(Append(s, b)) = Elements(s) \union {b}
         /\ Injective(Append(s, b))
<1> DEFINE a == Append(s, b)
<1>1. /\ a \in Seq(S) /\ DOMAIN a = 1 .. Len(s) + 1 /\ DOMAIN s = 1 .. Len(s)
      /\ Len(s) \in Nat /\ a[Len(s) + 1] = b /\ \A j \in 1 .. Len(s) : a[j] = s[j]
  OBVIOUS
<1> HIDE DEF a
<1>2. Elements(a) \subseteq Elements(s) \union {b}
  <2> SUFFICES ASSUME NEW j \in DOMAIN a PROVE a[j] \in Elements(s) \union {b}
    BY DEF Elements
  <2>1. j = Len(s) + 1 \/ j \in 1 .. Len(s)
    BY <1>1
  <2> QED BY <2>1, <1>1 DEF Elements
<1>3. Elements(s) \subseteq Elements(a)
  <2> SUFFICES ASSUME NEW j \in DOMAIN s PROVE s[j] \in Elements(a)
    BY DEF Elements
  <2>1. j \in DOMAIN a /\ a[j] = s[j]
    BY <1>1
  <2> QED BY <2>1 DEF Elements
<1>4. b \in Elements(a)
  <2>1. Len(s) + 1 \in DOMAIN a
    BY <1>1
  <2> QED BY <2>1, <1>1 DEF Elements
<1>5. Injective(a)
  <2> SUFFICES ASSUME NEW j \in DOMAIN a, NEW k \in DOMAIN a, a[j] = a[k] PROVE j = k
    BY DEF Injective
  <2>1. \A m \in 1 .. Len(s) : a[m] = s[m] /\ a[m] \in Elements(s) /\ a[m] # b
    BY <1>1 DEF Elements
  <2>2. CASE j \in 1 .. Len(s) /\ k \in 1 .. Len(s)
    BY <2>2, <2>1, <1>1 DEF Injective
  <2>3. CASE j = Len(s) + 1 \/ k = Len(s) + 1
    BY <2>3, <2>1, <1>1
  <2> QED BY <2>2, <2>3, <1>1
<1> QED BY <1>1, <1>2, <1>3, <1>4, <1>5 DEF a

LEMMA NoElements == Elements(<<>>) = {} /\ Injective(<<>>)
BY DEF Elements, Injective

-----------------------------------------------------------------------------
(* Type correctness *)

LEMMA TypeInit == Init => TypeOK
<1> SUFFICES ASSUME Init PROVE TypeOK
  OBVIOUS
<1>1. Threads # {} /\ Nil \notin Blocks
  BY ThreadAssumption, BlockAssumption DEF Threads
<1>2. active \in Seq(Blocks) /\ release \in Seq(Blocks)
  BY DEF Init
<1>3. memory \in [Blocks -> EventBlock \union {Nil}]
  BY DEF Init
<1>4. /\ hand \in [Threads -> [at : {"idle", "get", "stop", "taken", "call"},
                               block : Blocks \union {Nil}, why : {"none", "timeout", "ended"}]]
      /\ \A t \in Threads : (hand[t].block # Nil) <=> (hand[t].at \in {"taken", "call"})
  BY DEF Init, Idle
<1>5. calls \in [Events -> Nat]
  BY DEF Init
<1> QED BY <1>2, <1>3, <1>4, <1>5, ClockAssumption, BoundAssumption DEF Init, TypeOK

\* What a thread has in its hand keeps its type when one thread takes something new.
LEMMA HandType ==
  ASSUME TypeOK, NEW t \in Threads, NEW r,
         r \in [at : {"idle", "get", "stop", "taken", "call"},
                block : Blocks \union {Nil}, why : {"none", "timeout", "ended"}],
         (r.block # Nil) <=> (r.at \in {"taken", "call"}),
         hand' = [hand EXCEPT ![t] = r]
  PROVE  /\ hand' \in [Threads -> [at : {"idle", "get", "stop", "taken", "call"},
                                   block : Blocks \union {Nil},
                                   why : {"none", "timeout", "ended"}]]
         /\ \A u \in Threads : (hand'[u].block # Nil) <=> (hand'[u].at \in {"taken", "call"})
<1>1. \A u \in Threads : hand'[u] = IF u = t THEN r ELSE hand[u]
  BY DEF TypeOK
<1> QED BY <1>1 DEF TypeOK

LEMMA MainIsThread == Main \in Threads /\ Service \in Threads /\ Callers \subseteq Threads
BY ThreadAssumption DEF Threads

LEMMA IdleType ==
  /\ Idle \in [at : {"idle", "get", "stop", "taken", "call"},
               block : Blocks \union {Nil}, why : {"none", "timeout", "ended"}]
  /\ (Idle.block # Nil) <=> (Idle.at \in {"taken", "call"})
BY DEF Idle

\* Spending one of a bound.
LEMMA BudgetType ==
  ASSUME TypeOK,
         \/ budget.resets > 0 /\ budget' = [budget EXCEPT !.resets = @ - 1]
         \/ budget.throws > 0 /\ budget' = [budget EXCEPT !.throws = @ - 1]
         \/ budget.stops > 0 /\ budget' = [budget EXCEPT !.stops = @ - 1]
  PROVE  budget' \in [resets : 0 .. Resets, throws : 0 .. Throws, stops : 0 .. Stops]
<1>1. /\ budget.resets \in 0 .. Resets /\ budget.throws \in 0 .. Throws
      /\ budget.stops \in 0 .. Stops
  BY DEF TypeOK
<1>2. /\ budget'.resets \in 0 .. Resets /\ budget'.throws \in 0 .. Throws
      /\ budget'.stops \in 0 .. Stops
  <2>1. /\ budget.resets > 0 => budget.resets - 1 \in 0 .. Resets
        /\ budget.throws > 0 => budget.throws - 1 \in 0 .. Throws
        /\ budget.stops > 0 => budget.stops - 1 \in 0 .. Stops
    BY <1>1, BoundAssumption
  <2>2. CASE budget.resets > 0 /\ budget' = [budget EXCEPT !.resets = @ - 1]
    <3>1. /\ budget'.resets = budget.resets - 1 /\ budget'.throws = budget.throws
          /\ budget'.stops = budget.stops
      BY <2>2 DEF TypeOK
    <3> QED BY <1>1, <2>1, <2>2, <3>1
  <2>3. CASE budget.throws > 0 /\ budget' = [budget EXCEPT !.throws = @ - 1]
    <3>1. /\ budget'.resets = budget.resets /\ budget'.throws = budget.throws - 1
          /\ budget'.stops = budget.stops
      BY <2>3 DEF TypeOK
    <3> QED BY <1>1, <2>1, <2>3, <3>1
  <2>4. CASE budget.stops > 0 /\ budget' = [budget EXCEPT !.stops = @ - 1]
    <3>1. /\ budget'.resets = budget.resets /\ budget'.throws = budget.throws
          /\ budget'.stops = budget.stops - 1
      BY <2>4 DEF TypeOK
    <3> QED BY <1>1, <2>1, <2>4, <3>1
  <2> QED BY <2>2, <2>3, <2>4
<1>3. budget' = [resets |-> budget'.resets, throws |-> budget'.throws, stops |-> budget'.stops]
  BY DEF TypeOK
<1> QED BY <1>2, <1>3

\* What AddEvent puts into memory.
LEMMA AddedBlock ==
  ASSUME TypeOK, NEW t \in Threads, AddEvent(t)
  PROVE  \E b \in Blocks, e \in EventBlock :
           /\ NewBlock(b)
           /\ memory' = [memory EXCEPT ![b] = e]
           /\ active' = Append(active, b)
           /\ e.event = made + 1
           /\ \E d \in Delays : e.stamp = Stamp(d) /\ e.due = now + d
<1>1. PICK b \in Blocks, key \in Keys, proc \in BOOLEAN, d \in Delays :
        /\ NewBlock(b)
        /\ memory' = [memory EXCEPT ![b] = [key |-> key, proc |-> proc, event |-> made + 1,
                                            stamp |-> Stamp(d), due |-> now + d]]
        /\ active' = Append(active, b)
  BY DEF AddEvent
<1>2. d \in Nat /\ now \in Nat /\ made + 1 \in Events
  BY ClockAssumption, BoundAssumption DEF AddEvent, TypeOK, Events
<1>3. Stamp(d) \in 0 .. Wrap - 1
  BY <1>2, ClockAssumption DEF Stamp, GetTickCount
<1> DEFINE e == [key |-> key, proc |-> proc, event |-> made + 1,
                 stamp |-> Stamp(d), due |-> now + d]
<1>4. e \in EventBlock
  BY <1>2, <1>3 DEF EventBlock
<1>5. e.event = made + 1 /\ e.stamp = Stamp(d) /\ e.due = now + d
  OBVIOUS
<1> QED BY <1>1, <1>4, <1>5

LEMMA TypeAdd ==
  ASSUME TypeOK, NEW t \in Threads, AddEvent(t) PROVE TypeOK'
<1>1. PICK b \in Blocks, e \in EventBlock :
        /\ NewBlock(b)
        /\ memory' = [memory EXCEPT ![b] = e]
        /\ active' = Append(active, b)
  BY AddedBlock
<1>2. made' \in 0 .. MaxEvents
  BY BoundAssumption DEF AddEvent, TypeOK
<1>3. memory' \in [Blocks -> EventBlock \union {Nil}]
  BY <1>1 DEF TypeOK
<1>4. release' \in Seq(Blocks)
  <2>1. CASE release # <<>>
    <3>1. Len(release) \in DOMAIN release /\ release' = Without(release, Len(release))
      BY <1>1, <2>1 DEF NewBlock, TypeOK
    <3> QED BY <3>1, WithoutSeq DEF TypeOK
  <2>2. CASE release = <<>>
    BY <2>2, <1>1 DEF NewBlock, TypeOK
  <2> QED BY <2>1, <2>2
<1>5. active' \in Seq(Blocks)
  BY <1>1 DEF TypeOK
<1> QED BY <1>2, <1>3, <1>4, <1>5 DEF TypeOK, AddEvent

LEMMA TypeRemove ==
  ASSUME TypeOK, NEW t \in Threads, RemoveEvent(t) PROVE TypeOK'
<1>1. PICK i \in DOMAIN active : /\ release' = Append(release, active[i])
                                 /\ active' = Without(active, i)
  BY DEF RemoveEvent
<1>2. active' \in Seq(Blocks) /\ release' \in Seq(Blocks)
  BY <1>1, WithoutSeq DEF TypeOK
<1> QED BY <1>2 DEF TypeOK, RemoveEvent

\* A thread that takes an active event.
LEMMA TypeTake ==
  ASSUME TypeOK, NEW t \in Threads, NEW i \in DOMAIN active, NEW why \in {"timeout", "ended"},
         active' = Without(active, i),
         hand' = [hand EXCEPT ![t] = [at |-> "taken", block |-> active[i], why |-> why]]
  PROVE  /\ active' \in Seq(Blocks)
         /\ hand' \in [Threads -> [at : {"idle", "get", "stop", "taken", "call"},
                                   block : Blocks \union {Nil},
                                   why : {"none", "timeout", "ended"}]]
         /\ \A u \in Threads : (hand'[u].block # Nil) <=> (hand'[u].at \in {"taken", "call"})
<1>1. active[i] \in Blocks /\ active[i] # Nil
  BY BlockAssumption DEF TypeOK
<1>2. active' \in Seq(Blocks)
  BY WithoutSeq DEF TypeOK
<1> DEFINE r == [at |-> "taken", block |-> active[i], why |-> why]
<1>3. /\ r \in [at : {"idle", "get", "stop", "taken", "call"},
                block : Blocks \union {Nil}, why : {"none", "timeout", "ended"}]
      /\ (r.block # Nil) <=> (r.at \in {"taken", "call"})
  BY <1>1
<1> HIDE DEF r
<1>4. hand' = [hand EXCEPT ![t] = r]
  BY DEF r
<1> QED BY <1>2, <1>3, <1>4, HandType

LEMMA TypeReset ==
  ASSUME TypeOK, NEW t \in Threads, ResetEvent(t) PROVE TypeOK'
<1>1. PICK i \in DOMAIN active :
        /\ active' = Without(active, i)
        /\ hand' = [hand EXCEPT ![t] = [at |-> "taken", block |-> active[i], why |-> "ended"]]
  BY DEF ResetEvent
<1>2. budget' \in [resets : 0 .. Resets, throws : 0 .. Throws, stops : 0 .. Stops]
  BY BudgetType DEF ResetEvent
<1> QED BY <1>1, <1>2, TypeTake DEF TypeOK, ResetEvent

LEMMA TypeGet ==
  ASSUME TypeOK, GetEventBlock PROVE TypeOK'
<1>1. CASE \E i \in DOMAIN active :
             /\ active' = Without(active, i)
             /\ hand' = [hand EXCEPT ![Service] = [at |-> "taken", block |-> active[i],
                                                   why |-> "timeout"]]
  <2>1. PICK i \in DOMAIN active :
          /\ active' = Without(active, i)
          /\ hand' = [hand EXCEPT ![Service] = [at |-> "taken", block |-> active[i],
                                                why |-> "timeout"]]
    BY <1>1
  <2> QED BY <2>1, TypeTake, MainIsThread DEF TypeOK, GetEventBlock
<1>2. CASE hand' = [hand EXCEPT ![Service] = Idle] /\ active' = active
  BY <1>2, HandType, IdleType, MainIsThread DEF TypeOK, GetEventBlock
<1> QED BY <1>1, <1>2 DEF GetEventBlock

LEMMA TypeHandle ==
  ASSUME TypeOK, NEW t \in Threads, Handle(t) PROVE TypeOK'
<1>1. CASE Call(t)
  <2>1. PICK e : calls' = [calls EXCEPT ![e] = @ + 1]
    BY <1>1 DEF Call
  <2>2. calls' \in [Events -> Nat]
    <3>1. \A x \in Events : calls'[x] = IF x = e THEN calls[x] + 1 ELSE calls[x]
      BY <2>1 DEF TypeOK
    <3>2. \A x \in Events : calls'[x] \in Nat
      <4> SUFFICES ASSUME NEW x \in Events PROVE calls'[x] \in Nat
        OBVIOUS
      <4>1. calls[x] \in Nat /\ calls[x] + 1 \in Nat
        BY DEF TypeOK
      <4>2. CASE x = e
        BY <3>1, <4>1, <4>2
      <4>3. CASE x # e
        BY <3>1, <4>1, <4>3
      <4> QED BY <4>2, <4>3
    <3>3. calls' = [x \in Events |-> calls'[x]]
      BY <2>1 DEF TypeOK
    <3> QED BY <3>2, <3>3
  <2> DEFINE r == [hand[t] EXCEPT !.at = "call"]
  <2>3. /\ r \in [at : {"idle", "get", "stop", "taken", "call"},
                  block : Blocks \union {Nil}, why : {"none", "timeout", "ended"}]
        /\ (r.block # Nil) <=> (r.at \in {"taken", "call"})
    BY <1>1 DEF Call, TypeOK
  <2>4. hand' = [hand EXCEPT ![t] = r]
    BY <1>1 DEF Call
  <2> QED BY <2>2, <2>3, <2>4, <1>1, HandType DEF TypeOK, Call
<1>2. CASE CallNone(t)
  BY <1>2, HandType, IdleType DEF TypeOK, CallNone, Done, Leave
<1>3. CASE Return(t)
  <2>1. hand[t].block \in Blocks
    BY <1>3 DEF TypeOK, Return
  <2>2. release' \in Seq(Blocks)
    BY <2>1, <1>3 DEF TypeOK, Return
  <2> QED BY <1>3, <2>2, HandType, IdleType DEF TypeOK, Return, Done, Leave
<1>4. CASE Throw(t)
  <2>1. hand[t].block \in Blocks
    BY <1>4 DEF TypeOK, Throw
  <2>2. budget' \in [resets : 0 .. Resets, throws : 0 .. Throws, stops : 0 .. Stops]
    BY <1>4, BudgetType DEF Throw
  <2> QED BY <1>4, <2>1, <2>2, HandType, IdleType DEF TypeOK, Throw, Done, Leave
<1> QED BY <1>1, <1>2, <1>3, <1>4 DEF Handle

LEMMA TypeClean ==
  ASSUME TypeOK, CleanEvent
  PROVE  /\ active' \in Seq(Blocks) /\ release' \in Seq(Blocks)
         /\ memory' \in [Blocks -> EventBlock \union {Nil}]
BY DEF TypeOK, CleanEvent

LEMMA TypeService ==
  ASSUME TypeOK, Loop \/ StartService \/ StopService \/ Stopped \/ Tick PROVE TypeOK'
<1>1. CASE Loop
  <2>1. CASE running.flag
    <3> DEFINE r == [hand[Service] EXCEPT !.at = "get"]
    <3>1. /\ r \in [at : {"idle", "get", "stop", "taken", "call"},
                    block : Blocks \union {Nil}, why : {"none", "timeout", "ended"}]
          /\ (r.block # Nil) <=> (r.at \in {"taken", "call"})
      BY <1>1, MainIsThread DEF Loop, TypeOK
    <3>2. hand' = [hand EXCEPT ![Service] = r]
      BY <1>1, <2>1 DEF Loop
    <3> QED BY <1>1, <2>1, <3>1, <3>2, HandType, MainIsThread DEF Loop, TypeOK
  <2>2. CASE ~ running.flag
    BY <1>1, <2>2 DEF Loop, TypeOK
  <2> QED BY <2>1, <2>2
<1>2. CASE StartService
  BY <1>2 DEF StartService, TypeOK
<1>3. CASE StopService
  <2>0. budget' \in [resets : 0 .. Resets, throws : 0 .. Throws, stops : 0 .. Stops]
    BY <1>3, BudgetType DEF StopService
  <2>1. CASE running.thread = "running"
    <3> DEFINE r == [hand[Main] EXCEPT !.at = "stop"]
    <3>1. /\ r \in [at : {"idle", "get", "stop", "taken", "call"},
                    block : Blocks \union {Nil}, why : {"none", "timeout", "ended"}]
          /\ (r.block # Nil) <=> (r.at \in {"taken", "call"})
      BY <1>3, MainIsThread DEF StopService, TypeOK
    <3>2. hand' = [hand EXCEPT ![Main] = r]
      BY <1>3, <2>1 DEF StopService
    <3>3. running' \in [flag : BOOLEAN, thread : {"none", "running", "ended"}]
      BY <1>3, <2>1 DEF StopService, TypeOK
    <3> QED BY <1>3, <2>0, <2>1, <3>1, <3>2, <3>3, HandType, MainIsThread DEF StopService, TypeOK
  <2>2. CASE running.thread # "running"
    BY <1>3, <2>0, <2>2, TypeClean DEF StopService, TypeOK
  <2> QED BY <2>1, <2>2
<1>4. CASE Stopped
  <2>1. running' \in [flag : BOOLEAN, thread : {"none", "running", "ended"}]
    BY <1>4 DEF Stopped, TypeOK
  <2> QED BY <1>4, <2>1, TypeClean, HandType, IdleType, MainIsThread DEF Stopped, Done, TypeOK
<1>5. CASE Tick
  BY <1>5, ClockAssumption DEF Tick, TypeOK
<1> QED BY <1>1, <1>2, <1>3, <1>4, <1>5

LEMMA TypeStep == ASSUME TypeOK, [Next]_vars PROVE TypeOK'
<1>1. CASE \E t \in Threads : Ask(t)
  BY <1>1, TypeAdd, TypeRemove, TypeReset DEF Ask
<1>2. CASE \E t \in Threads : Handle(t)
  BY <1>2, TypeHandle
<1>3. CASE GetEventBlock
  BY <1>3, TypeGet
<1>4. CASE Loop \/ StartService \/ StopService \/ Stopped \/ Tick
  BY <1>4, TypeService
<1>5. CASE UNCHANGED vars
  BY <1>5 DEF vars, TypeOK
<1> QED BY <1>1, <1>2, <1>3, <1>4, <1>5 DEF Next

\* The state always has the shape the code gives it: a thread has a block in its hand
\* exactly while it is in OnEventBlock.
THEOREM TypeCorrect == Spec => []TypeOK
<1>1. Init => TypeOK
  BY TypeInit
<1>2. TypeOK /\ [Next]_vars => TypeOK'
  BY TypeStep
<1> QED BY <1>1, <1>2, PTL DEF Spec

-----------------------------------------------------------------------------
(* Each block is in one place *)

\* No two threads have the same block.
Alone == \A t, u \in Threads : hand[t].block = hand[u].block /\ hand[t].block # Nil => t = u

Allocated == {b \in Blocks : memory[b] # Nil}

\* What the threads have after one of them took block b.
LEMMA HandsTake ==
  ASSUME TypeOK, NEW t \in Threads, hand[t].block = Nil, Alone,
         NEW b \in Blocks, b \notin Hands, NEW why,
         hand' = [hand EXCEPT ![t] = [at |-> "taken", block |-> b, why |-> why]]
  PROVE  Hands' = Hands \union {b} /\ Alone'
<1>1. \A u \in Threads : hand'[u].block = IF u = t THEN b ELSE hand[u].block
  BY DEF TypeOK
<1>2. b # Nil
  BY BlockAssumption
<1>3. \A u \in Threads : u # t => hand[u].block # b
  BY <1>2 DEF Hands
<1>4. Hands' = Hands \union {b}
  BY <1>1, <1>2 DEF Hands
<1>5. Alone'
  BY <1>1, <1>3 DEF Alone
<1> QED BY <1>4, <1>5

\* And after one of them gave its block away.
LEMMA HandsDone ==
  ASSUME TypeOK, NEW t \in Threads, Alone, hand' = [hand EXCEPT ![t] = Idle]
  PROVE  Hands' = Hands \ {hand[t].block} /\ Alone'
<1>1. \A u \in Threads : hand'[u].block = IF u = t THEN Nil ELSE hand[u].block
  BY DEF TypeOK, Idle
<1>2. Hands' = Hands \ {hand[t].block}
  BY <1>1 DEF Hands, Alone
<1>3. Alone'
  BY <1>1 DEF Alone
<1> QED BY <1>2, <1>3

LEMMA HandsSame ==
  ASSUME TypeOK, Alone, \A u \in Threads : hand'[u].block = hand[u].block
  PROVE  Hands' = Hands /\ Alone'
BY DEF Hands, Alone

\* OnePlace by the sets of blocks in each place.
LEMMA Places ==
  OnePlace <=>
    /\ Injective(active) /\ Injective(release) /\ Alone
    /\ Elements(active) \intersect (Elements(release) \union Hands \union lost) = {}
    /\ Elements(release) \intersect (Hands \union lost) = {}
    /\ Hands \intersect lost = {}
    /\ Allocated = Elements(active) \union Elements(release) \union Hands \union lost
BY DEF OnePlace, Alone, Allocated

LEMMA PlacesNext ==
  OnePlace' <=>
    /\ Injective(active') /\ Injective(release') /\ Alone'
    /\ Elements(active') \intersect (Elements(release') \union Hands' \union lost') = {}
    /\ Elements(release') \intersect (Hands' \union lost') = {}
    /\ Hands' \intersect lost' = {}
    /\ Allocated' = Elements(active') \union Elements(release') \union Hands' \union lost'
BY DEF OnePlace, Alone, Allocated

LEMMA PlacesInit == Init => OnePlace
<1> SUFFICES ASSUME Init PROVE OnePlace
  OBVIOUS
<1>1. Hands = {} /\ Alone
  BY DEF Init, Idle, Hands, Alone
<1>2. Allocated = {}
  BY DEF Init, Allocated
<1>3. lost = {} /\ active = <<>> /\ release = <<>>
  BY DEF Init
<1> QED BY <1>1, <1>2, <1>3, NoElements, Places

LEMMA PlacesAdd ==
  ASSUME TypeOK, OnePlace, NEW t \in Threads, AddEvent(t) PROVE OnePlace'
<1>1. PICK b \in Blocks, e \in EventBlock :
        /\ NewBlock(b)
        /\ memory' = [memory EXCEPT ![b] = e]
        /\ active' = Append(active, b)
  BY AddedBlock
<1>2. hand' = hand /\ lost' = lost
  BY DEF AddEvent
<1>3. Hands' = Hands /\ Alone'
  BY <1>2, HandsSame, Places
<1>4. Allocated' = Allocated \union {b}
  BY <1>1, BlockAssumption DEF Allocated, TypeOK
<1>5. /\ Elements(release') = Elements(release) \ {b} /\ Injective(release')
      /\ b \notin Elements(active) \union Hands \union lost
  <2>1. CASE release # <<>>
    <3>1. /\ Len(release) \in DOMAIN release /\ release' = Without(release, Len(release))
          /\ b = release[Len(release)]
      BY <1>1, <2>1 DEF NewBlock, TypeOK
    <3>2. /\ Elements(release') = Elements(release) \ {b} /\ Injective(release')
          /\ b \in Elements(release)
      BY <3>1, WithoutElements, Places DEF TypeOK
    <3> QED BY <3>2, Places
  <2>2. CASE release = <<>>
    <3>1. release' = release /\ memory[b] = Nil
      BY <2>2, <1>1 DEF NewBlock
    <3>2. b \notin Allocated
      BY <3>1 DEF Allocated
    <3> QED BY <3>1, <3>2, Places
  <2> QED BY <2>1, <2>2
<1>6. Elements(active') = Elements(active) \union {b} /\ Injective(active')
  BY <1>1, <1>5, AppendElements, Places DEF TypeOK
<1> QED BY <1>2, <1>3, <1>4, <1>5, <1>6, Places, PlacesNext

LEMMA PlacesRemove ==
  ASSUME TypeOK, OnePlace, NEW t \in Threads, RemoveEvent(t) PROVE OnePlace'
<1>1. PICK i \in DOMAIN active : /\ release' = Append(release, active[i])
                                 /\ active' = Without(active, i)
  BY DEF RemoveEvent
<1> DEFINE b == active[i]
<1>2. b \in Blocks
  BY DEF TypeOK
<1>3. /\ Elements(active') = Elements(active) \ {b} /\ Injective(active')
      /\ b \in Elements(active)
  BY <1>1, WithoutElements, Places DEF TypeOK
<1>4. Elements(release') = Elements(release) \union {b} /\ Injective(release')
  BY <1>1, <1>2, <1>3, AppendElements, Places DEF TypeOK
<1>5. Hands' = Hands /\ Alone' /\ lost' = lost /\ Allocated' = Allocated
  BY HandsSame, Places DEF RemoveEvent, Allocated
<1> HIDE DEF b
<1> QED BY <1>3, <1>4, <1>5, Places, PlacesNext

\* A thread takes an active block.
LEMMA PlacesTake ==
  ASSUME TypeOK, OnePlace, NEW t \in Threads, hand[t].block = Nil,
         NEW i \in DOMAIN active, NEW why,
         active' = Without(active, i),
         hand' = [hand EXCEPT ![t] = [at |-> "taken", block |-> active[i], why |-> why]],
         UNCHANGED <<release, memory, lost>>
  PROVE  OnePlace'
<1> DEFINE b == active[i]
<1>1. b \in Blocks
  BY DEF TypeOK
<1>2. /\ Elements(active') = Elements(active) \ {b} /\ Injective(active')
      /\ b \in Elements(active)
  BY WithoutElements, Places DEF TypeOK
<1>3. b \notin Hands
  BY <1>2, Places
<1>4. Hands' = Hands \union {b} /\ Alone'
  BY <1>1, <1>3, HandsTake, Places
<1>5. Allocated' = Allocated
  BY DEF Allocated
<1> HIDE DEF b
<1> QED BY <1>2, <1>3, <1>4, <1>5, Places, PlacesNext

LEMMA PlacesReset ==
  ASSUME TypeOK, OnePlace, NEW t \in Threads, ResetEvent(t) PROVE OnePlace'
<1>1. PICK i \in DOMAIN active :
        /\ active' = Without(active, i)
        /\ hand' = [hand EXCEPT ![t] = [at |-> "taken", block |-> active[i], why |-> "ended"]]
  BY DEF ResetEvent
<1>2. hand[t].block = Nil
  BY DEF ResetEvent, TypeOK
<1> QED BY <1>1, <1>2, PlacesTake DEF ResetEvent

LEMMA PlacesGet ==
  ASSUME TypeOK, OnePlace, GetEventBlock PROVE OnePlace'
<1>1. hand[Service].block = Nil /\ Service \in Threads
  BY MainIsThread DEF GetEventBlock, TypeOK
<1>2. CASE \E i \in DOMAIN active :
             /\ active' = Without(active, i)
             /\ hand' = [hand EXCEPT ![Service] = [at |-> "taken", block |-> active[i],
                                                   why |-> "timeout"]]
  <2>1. PICK i \in DOMAIN active :
          /\ active' = Without(active, i)
          /\ hand' = [hand EXCEPT ![Service] = [at |-> "taken", block |-> active[i],
                                                why |-> "timeout"]]
    BY <1>2
  <2> QED BY <1>1, <2>1, PlacesTake DEF GetEventBlock
<1>3. CASE hand' = [hand EXCEPT ![Service] = Idle] /\ active' = active
  <2>1. Hands' = Hands /\ Alone'
    BY <1>1, <1>3, HandsDone, Places DEF Hands
  <2> QED BY <1>3, <2>1, Places, PlacesNext DEF GetEventBlock, Allocated
<1> QED BY <1>2, <1>3 DEF GetEventBlock

LEMMA PlacesHandle ==
  ASSUME TypeOK, OnePlace, NEW t \in Threads, Handle(t) PROVE OnePlace'
<1> DEFINE b == hand[t].block
<1>1. CASE Call(t)
  <2>1. \A u \in Threads : hand'[u].block = hand[u].block
    BY <1>1 DEF Call, TypeOK
  <2> QED BY <1>1, <2>1, HandsSame, Places, PlacesNext DEF Call, Allocated
<1>2. ASSUME hand[t].at \in {"taken", "call"}, Done(t) PROVE /\ b \in Blocks /\ b \in Hands
                                                             /\ Hands' = Hands \ {b} /\ Alone'
  <2>1. b \in Blocks /\ b # Nil
    BY <1>2 DEF TypeOK
  <2> QED BY <1>2, <2>1, HandsDone, Places DEF Done, Hands
<1>3. CASE CallNone(t) \/ Throw(t)
  <2>1. /\ hand[t].at \in {"taken", "call"} /\ Done(t) /\ lost' = lost \union {b}
        /\ UNCHANGED <<active, release, memory>>
    BY <1>3 DEF CallNone, Throw
  <2>2. /\ b \in Blocks /\ b \in Hands /\ Hands' = Hands \ {b} /\ Alone'
    BY <1>2, <2>1
  <2>3. Allocated' = Allocated
    BY <2>1 DEF Allocated
  <2> HIDE DEF b
  <2> QED BY <2>1, <2>2, <2>3, Places, PlacesNext
<1>4. CASE Return(t)
  <2>1. /\ hand[t].at \in {"taken", "call"} /\ Done(t) /\ release' = Append(release, b)
        /\ UNCHANGED <<active, memory, lost>>
    BY <1>4 DEF Return
  <2>2. /\ b \in Blocks /\ b \in Hands /\ Hands' = Hands \ {b} /\ Alone'
    BY <1>2, <2>1
  <2>3. Allocated' = Allocated
    BY <2>1 DEF Allocated
  <2> HIDE DEF b
  <2>4. Elements(release') = Elements(release) \union {b} /\ Injective(release')
    BY <2>1, <2>2, AppendElements, Places DEF TypeOK
  <2> QED BY <2>1, <2>2, <2>3, <2>4, Places, PlacesNext
<1> QED BY <1>1, <1>3, <1>4 DEF Handle

\* CleanEvent: what is left is in hand or lost.
LEMMA PlacesClean ==
  ASSUME TypeOK, OnePlace, CleanEvent, lost' = lost, Hands' = Hands, Alone' PROVE OnePlace'
<1>1. Elements(active') = {} /\ Elements(release') = {}
      /\ Injective(active') /\ Injective(release')
  BY NoElements DEF CleanEvent
<1>2. Allocated' = Allocated \ (Elements(active) \union Elements(release))
  BY DEF CleanEvent, Allocated
<1> QED BY <1>1, <1>2, Places, PlacesNext

LEMMA PlacesService ==
  ASSUME TypeOK, OnePlace, Loop \/ StartService \/ StopService \/ Stopped \/ Tick
  PROVE  OnePlace'
<1>1. ASSUME NEW t \in Threads, NEW at, hand' = [hand EXCEPT ![t].at = at]
      PROVE  \A u \in Threads : hand'[u].block = hand[u].block
  BY <1>1 DEF TypeOK
<1>2. CASE Loop
  <2>1. \A u \in Threads : hand'[u].block = hand[u].block
    BY <1>1, <1>2, MainIsThread DEF Loop
  <2> QED BY <1>2, <2>1, HandsSame, Places, PlacesNext DEF Loop, Allocated
<1>3. CASE StartService \/ Tick
  <2>1. UNCHANGED <<active, release, memory, hand, lost>>
    BY <1>3 DEF StartService, Tick
  <2> QED BY <2>1, HandsSame, Places, PlacesNext DEF Allocated
<1>4. CASE StopService
  <2>1. CASE running.thread = "running"
    <3>1. \A u \in Threads : hand'[u].block = hand[u].block
      BY <1>1, <1>4, <2>1, MainIsThread DEF StopService
    <3> QED BY <1>4, <2>1, <3>1, HandsSame, Places, PlacesNext DEF StopService, Allocated
  <2>2. CASE running.thread # "running"
    <3>1. hand' = hand /\ CleanEvent /\ lost' = lost
      BY <1>4, <2>2 DEF StopService
    <3> QED BY <3>1, HandsSame, PlacesClean, Places
  <2> QED BY <2>1, <2>2
<1>5. CASE Stopped
  <2>1. hand[Main].block = Nil /\ Main \in Threads
    BY <1>5, MainIsThread DEF Stopped, TypeOK
  <2>2. Hands' = Hands /\ Alone'
    BY <1>5, <2>1, HandsDone, Places DEF Stopped, Done, Hands
  <2> QED BY <1>5, <2>2, PlacesClean DEF Stopped
<1> QED BY <1>2, <1>3, <1>4, <1>5

LEMMA PlacesStep == ASSUME TypeOK, OnePlace, [Next]_vars PROVE OnePlace'
<1>1. CASE \E t \in Threads : Ask(t)
  BY <1>1, PlacesAdd, PlacesRemove, PlacesReset DEF Ask
<1>2. CASE \E t \in Threads : Handle(t)
  BY <1>2, PlacesHandle
<1>3. CASE GetEventBlock
  BY <1>3, PlacesGet
<1>4. CASE Loop \/ StartService \/ StopService \/ Stopped \/ Tick
  BY <1>4, PlacesService
<1>5. CASE UNCHANGED vars
  <2>1. UNCHANGED <<active, release, memory, hand, lost>>
    BY <1>5 DEF vars
  <2> QED BY <2>1, HandsSame, Places, PlacesNext DEF Allocated
<1> QED BY <1>1, <1>2, <1>3, <1>4, <1>5 DEF Next

\* A block of memory never is in two places, nor in none: no event is taken twice, no
\* block is reused or deleted while a thread is at its procedure.
THEOREM BlocksInOnePlace == Spec => []OnePlace
<1>1. Init => TypeOK /\ OnePlace
  BY TypeInit, PlacesInit
<1>2. (TypeOK /\ OnePlace) /\ [Next]_vars => (TypeOK /\ OnePlace)'
  BY TypeStep, PlacesStep
<1> QED BY <1>1, <1>2, PTL DEF Spec

-----------------------------------------------------------------------------
(* The events in memory, by number *)

\* The events in memory are different, none is of the future, their stamps are their
\* times, and the active ones are in the order they were set.
Numbered ==
  /\ \A b, c \in Allocated : memory[b].event = memory[c].event => b = c
  /\ \A b \in Allocated : memory[b].event <= made /\ memory[b].stamp = memory[b].due % Wrap
  /\ \A i, j \in DOMAIN active : i < j => memory[active[i]].event < memory[active[j]].event

\* What is in memory has the type of a block, and so has what is in an array or a hand.
LEMMA InMemory ==
  ASSUME TypeOK, OnePlace
  PROVE  /\ \A b \in Allocated : b \in Blocks /\ memory[b] \in EventBlock
         /\ Elements(active) \subseteq Allocated /\ Elements(release) \subseteq Allocated
         /\ Hands \subseteq Allocated
         /\ \A i \in DOMAIN active : active[i] \in Elements(active)
<1>1. \A b \in Allocated : b \in Blocks /\ memory[b] \in EventBlock
  BY DEF Allocated, TypeOK
<1>2. \A i \in DOMAIN active : active[i] \in Elements(active)
  BY DEF Elements
<1> QED BY <1>1, <1>2, Places

\* A remainder below w is the remainder.
LEMMA Remainder ==
  ASSUME NEW w \in Nat \ {0}, NEW k \in Int, NEW r \in 0 .. w - 1
  PROVE  (w * k + r) % w = r
<1> DEFINE y == w * k + r
           q == y \div w
           s == y % w
<1>1. y \in Int /\ q \in Int /\ s \in 0 .. w - 1 /\ y = w * q + s
  OBVIOUS
<1>2. w * k + r = w * q + s
  BY <1>1
<1> HIDE DEF y, q, s
<1>3. w * k \in Int /\ w * q \in Int
  BY <1>1
<1>4. ASSUME NEW i \in Int, NEW j \in Int, i < j PROVE w * i + w <= w * j
  <2>1. w * (j - i) >= w
    <3>1. j - i >= 1 /\ j - i \in Nat
      BY <1>4
    <3> QED BY <3>1
  <2>2. w * (j - i) = w * j - w * i
    OBVIOUS
  <2>3. w * j \in Int /\ w * i \in Int
    OBVIOUS
  <2> QED BY <2>1, <2>2, <2>3
<1>5. ~ (k < q) /\ ~ (q < k)
  BY <1>1, <1>2, <1>3, <1>4
<1>6. k = q
  BY <1>1, <1>5
<1>7. s = r
  BY <1>1, <1>2, <1>3, <1>6
<1> QED BY <1>7 DEF s, y

\* The stamp of an event wanted after d is its time by the count.
LEMMA StampIsDue ==
  ASSUME NEW n \in Nat, NEW d \in Nat, NEW w \in Nat \ {0}
  PROVE  (d + (n % w)) % w = (n + d) % w
<1> DEFINE m == n % w
           q == n \div w
           x == d + m
           p == x \div w
           r == x % w
<1>1. /\ m \in 0 .. w - 1 /\ q \in Int /\ n = w * q + m
      /\ x \in Int /\ p \in Int /\ r \in 0 .. w - 1 /\ x = w * p + r
  OBVIOUS
<1>2. x = d + m /\ r = x % w
  OBVIOUS
<1>6. m = n % w
  OBVIOUS
<1> HIDE DEF m, q, x, p, r
<1>3. w * (p + q) = w * p + w * q /\ w * p \in Int /\ w * q \in Int
  BY <1>1
<1>4. n + d = w * (p + q) + r
  <2>1. n + d = (w * q) + (d + m)
    BY <1>1, <1>3
  <2>2. d + m = (w * p) + r
    BY <1>1, <1>2
  <2>3. r \in Int /\ d + m \in Int
    BY <1>1
  <2> QED BY <1>3, <2>1, <2>2, <2>3
<1>5. (w * (p + q) + r) % w = r
  BY <1>1, Remainder
<1> QED BY <1>2, <1>4, <1>5, <1>6

\* Of two times whose counts are in the wrong order, a wrap lies between.
LEMMA CountsWrap ==
  ASSUME NEW a \in Nat, NEW b \in Nat, NEW w \in Nat \ {0}, a % w <= b % w, b < a
  PROVE  b \div w < a \div w
<1>1. /\ a \div w \in Int /\ b \div w \in Int /\ a % w \in Int /\ b % w \in Int
      /\ a = w * (a \div w) + (a % w) /\ b = w * (b \div w) + (b % w)
  OBVIOUS
<1>2. ASSUME NEW p \in Int, NEW q \in Int, q <= p PROVE w * q <= w * p
  BY <1>2
<1>3. SUFFICES ASSUME ~ (b \div w < a \div w) PROVE FALSE
  OBVIOUS
<1>4. w * (a \div w) <= w * (b \div w)
  BY <1>1, <1>2, <1>3
<1>5. w * (a \div w) \in Int /\ w * (b \div w) \in Int
  BY <1>1
<1> QED BY <1>1, <1>4, <1>5

LEMMA NumberedInit == Init => Numbered
BY DEF Init, Numbered, Allocated

LEMMA NumberedAdd ==
  ASSUME TypeOK, OnePlace, Numbered, NEW t \in Threads, AddEvent(t) PROVE Numbered'
<1>1. PICK b \in Blocks, e \in EventBlock :
        /\ NewBlock(b)
        /\ memory' = [memory EXCEPT ![b] = e]
        /\ active' = Append(active, b)
        /\ e.event = made + 1
        /\ \E d \in Delays : e.stamp = Stamp(d) /\ e.due = now + d
  BY AddedBlock
<1>2. made' = made + 1 /\ made \in Nat
  BY BoundAssumption DEF AddEvent, TypeOK
<1>3. e.stamp = e.due % Wrap
  <2>1. PICK d \in Delays : e.stamp = Stamp(d) /\ e.due = now + d
    BY <1>1
  <2>2. d \in Nat /\ now \in Nat /\ Wrap \in Nat \ {0}
    BY ClockAssumption DEF TypeOK
  <2> QED BY <2>1, <2>2, StampIsDue DEF Stamp, GetTickCount
<1>4. b \notin Elements(active)
  <2>1. CASE release # <<>>
    <3>1. Len(release) \in DOMAIN release /\ b = release[Len(release)]
      BY <1>1, <2>1 DEF NewBlock, TypeOK
    <3>2. b \in Elements(release)
      BY <3>1 DEF Elements
    <3> QED BY <3>2, Places
  <2>2. CASE release = <<>>
    <3>1. b \notin Allocated
      BY <2>2, <1>1 DEF NewBlock, Allocated
    <3> QED BY <3>1, Places
  <2> QED BY <2>1, <2>2
<1>5. /\ Allocated' \subseteq Allocated \union {b}
      /\ memory'[b] = e /\ \A c \in Blocks \ {b} : memory'[c] = memory[c]
  BY <1>1 DEF Allocated, TypeOK
<1>6. \A c \in Allocated : /\ memory[c].event \in Nat /\ memory[c].event <= made
                           /\ c \in Blocks
  BY InMemory DEF Numbered, EventBlock, Events
<1>7. \A c \in Allocated' : c # b => c \in Allocated /\ memory'[c] = memory[c]
  BY <1>5, <1>6
<1>8. \A c, d \in Allocated' : memory'[c].event = memory'[d].event => c = d
  <2> SUFFICES ASSUME NEW c \in Allocated', NEW d \in Allocated',
                      memory'[c].event = memory'[d].event
               PROVE  c = d
    OBVIOUS
  <2>1. \A x \in Allocated : memory[x].event # made + 1
    BY <1>2, <1>6
  <2>2. CASE c # b /\ d # b
    BY <2>2, <1>7 DEF Numbered
  <2>3. CASE c = b /\ d # b
    BY <2>3, <2>1, <1>1, <1>5, <1>7
  <2>4. CASE c # b /\ d = b
    BY <2>4, <2>1, <1>1, <1>5, <1>7
  <2> QED BY <2>2, <2>3, <2>4
<1>9. \A c \in Allocated' : memory'[c].event <= made' /\ memory'[c].stamp = memory'[c].due % Wrap
  <2> SUFFICES ASSUME NEW c \in Allocated'
               PROVE  memory'[c].event <= made' /\ memory'[c].stamp = memory'[c].due % Wrap
    OBVIOUS
  <2>1. CASE c = b
    BY <2>1, <1>1, <1>2, <1>3, <1>5
  <2>2. CASE c # b
    BY <2>2, <1>2, <1>6, <1>7 DEF Numbered
  <2> QED BY <2>1, <2>2
<1>10. \A i, j \in DOMAIN active' : i < j => memory'[active'[i]].event < memory'[active'[j]].event
  <2> SUFFICES ASSUME NEW i \in DOMAIN active', NEW j \in DOMAIN active', i < j
               PROVE  memory'[active'[i]].event < memory'[active'[j]].event
    OBVIOUS
  <2>1. /\ DOMAIN active' = 1 .. Len(active) + 1 /\ Len(active) \in Nat
        /\ DOMAIN active = 1 .. Len(active)
        /\ \A k \in DOMAIN active : active'[k] = active[k]
        /\ active'[Len(active) + 1] = b
    BY <1>1 DEF TypeOK
  <2>2. i \in DOMAIN active
    BY <2>1
  <2>3. \A k \in DOMAIN active : /\ active'[k] \in Allocated /\ active'[k] # b
                                 /\ memory'[active'[k]] = memory[active[k]]
    BY <2>1, <1>4, <1>5, <1>6, InMemory
  <2>4. CASE j \in DOMAIN active
    BY <2>2, <2>3, <2>4 DEF Numbered
  <2>5. CASE j = Len(active) + 1
    <3>1. memory'[active'[i]].event \in Nat /\ memory'[active'[i]].event <= made
      BY <2>1, <2>2, <2>3, <1>6
    <3>2. memory'[active'[j]].event = made + 1
      BY <2>1, <2>5, <1>1, <1>5
    <3> QED BY <3>1, <3>2, <1>2
  <2> QED BY <2>1, <2>4, <2>5
<1> QED BY <1>8, <1>9, <1>10 DEF Numbered

\* An event leaves the active ones.
LEMMA NumberedFewer ==
  ASSUME TypeOK, OnePlace, Numbered, NEW i \in DOMAIN active,
         active' = Without(active, i), memory' = memory, made' = made
  PROVE  Numbered'
<1>1. Allocated' = Allocated
  BY DEF Allocated
<1>2. \A j, k \in DOMAIN active' : j < k => memory'[active'[j]].event < memory'[active'[k]].event
  <2> SUFFICES ASSUME NEW j \in DOMAIN active', NEW k \in DOMAIN active', j < k
               PROVE  memory'[active'[j]].event < memory'[active'[k]].event
    OBVIOUS
  <2>1. /\ DOMAIN active' = 1 .. Len(active) - 1
        /\ \A m \in 1 .. Len(active) - 1 :
             active'[m] = IF m < i THEN active[m] ELSE active[m + 1]
        /\ DOMAIN active = 1 .. Len(active) /\ Len(active) \in Nat
    <3>1. active \in Seq(Blocks)
      BY DEF TypeOK
    <3>2. /\ DOMAIN Without(active, i) = 1 .. Len(active) - 1
          /\ \A m \in 1 .. Len(active) - 1 :
               Without(active, i)[m] = IF m < i THEN active[m] ELSE active[m + 1]
      BY <3>1, WithoutSeq
    <3>3. DOMAIN active = 1 .. Len(active) /\ Len(active) \in Nat
      BY <3>1
    <3> HIDE DEF Without
    <3> QED BY <3>2, <3>3
  <2> DEFINE p == IF j < i THEN j ELSE j + 1
             q == IF k < i THEN k ELSE k + 1
  <2>2. /\ p \in DOMAIN active /\ q \in DOMAIN active /\ p < q
        /\ active'[j] = active[p] /\ active'[k] = active[q]
    BY <2>1
  <2> QED BY <2>2 DEF Numbered
<1> QED BY <1>1, <1>2 DEF Numbered

LEMMA NumberedClean ==
  ASSUME TypeOK, Numbered, CleanEvent, made' = made PROVE Numbered'
<1>1. \A b \in Allocated' : b \in Allocated /\ memory'[b] = memory[b]
  BY DEF CleanEvent, Allocated
<1>2. DOMAIN active' = {}
  BY DEF CleanEvent
<1> QED BY <1>1, <1>2 DEF Numbered

LEMMA NumberedSame ==
  ASSUME Numbered, UNCHANGED <<active, memory, made>> PROVE Numbered'
BY DEF Numbered, Allocated

LEMMA NumberedStep ==
  ASSUME TypeOK, OnePlace, Numbered, [Next]_vars PROVE Numbered'
<1>1. CASE \E t \in Threads : AddEvent(t)
  BY <1>1, NumberedAdd
<1>2. CASE \E t \in Threads : RemoveEvent(t) \/ ResetEvent(t)
  BY <1>2, NumberedFewer DEF RemoveEvent, ResetEvent
<1>3. CASE GetEventBlock
  BY <1>3, NumberedFewer, NumberedSame DEF GetEventBlock
<1>4. CASE StopService \/ Stopped
  <2>1. UNCHANGED <<active, memory, made>> \/ (CleanEvent /\ made' = made)
    BY <1>4 DEF StopService, Stopped
  <2> QED BY <2>1, NumberedClean, NumberedSame
<1>5. CASE (\E t \in Threads : Handle(t)) \/ Loop \/ StartService \/ Tick \/ UNCHANGED vars
  <2>1. UNCHANGED <<active, memory, made>>
    BY <1>5 DEF Handle, Call, CallNone, Return, Throw, Loop, StartService, Tick, vars
  <2> QED BY <2>1, NumberedSame
<1> QED BY <1>1, <1>2, <1>3, <1>4, <1>5 DEF Next, Ask

-----------------------------------------------------------------------------
(* The service implements Alarm *)

Waiting == {EventIn(b) : b \in Elements(active)}
Ringing == {[of |-> EventIn(hand[t].block), why |-> hand[t].why] : t \in Taken}

\* The mapped state of Alarm.
LEMMA Mapped ==
  /\ Alarms!Spec <=> Alarms!Init /\ [][Alarms!Next]_<<now, made, Waiting, Ringing, calls>>
  /\ Alarms!Init <=> /\ now = 0 /\ made = 0 /\ Waiting = {} /\ Ringing = {}
                     /\ calls = [e \in Events |-> 0]
BY DEF Alarms!Spec, Alarms!Init, Waiting, Ringing

LEMMA PromiseInit == Init => Alarms!Init
<1> SUFFICES ASSUME Init PROVE Alarms!Init
  OBVIOUS
<1>1. Elements(active) = {} /\ Taken = {}
  BY DEF Init, Idle, Taken, Elements
<1>2. Waiting = {} /\ Ringing = {}
  BY <1>1 DEF Waiting, Ringing
<1> QED BY <1>2, Mapped DEF Init

\* Two active blocks hold different events.
LEMMA Different ==
  ASSUME TypeOK, OnePlace, Numbered,
         NEW b \in Allocated, NEW c \in Allocated, EventIn(b) = EventIn(c)
  PROVE  b = c
BY DEF EventIn, Numbered

\* Blocks that keep what they hold hold the same event.
LEMMA SameRinging ==
  ASSUME TypeOK, UNCHANGED hand, \A b \in Hands : memory'[b] = memory[b]
  PROVE  Ringing' = Ringing
<1>1. \A t \in Taken : hand[t].block \in Hands
  BY DEF Taken, Hands, TypeOK
<1>2. Taken' = Taken
  BY DEF Taken
<1>3. \A t \in Taken : EventIn(hand[t].block)' = EventIn(hand[t].block)
  BY <1>1 DEF EventIn
<1> QED BY <1>2, <1>3 DEF Ringing

LEMMA PromiseAdd ==
  ASSUME TypeOK, OnePlace, NEW t \in Threads, AddEvent(t) PROVE Alarms!Set
<1>1. PICK b \in Blocks, e \in EventBlock :
        /\ NewBlock(b)
        /\ memory' = [memory EXCEPT ![b] = e]
        /\ active' = Append(active, b)
        /\ e.event = made + 1
        /\ \E d \in Delays : e.stamp = Stamp(d) /\ e.due = now + d
  BY AddedBlock
<1>2. OnePlace' /\ TypeOK'
  BY PlacesAdd, TypeAdd
<1>3. b \notin Elements(active) \union Hands
  <2>1. CASE release # <<>>
    <3>1. Len(release) \in DOMAIN release /\ b = release[Len(release)]
      BY <1>1, <2>1 DEF NewBlock, TypeOK
    <3>2. b \in Elements(release)
      BY <3>1 DEF Elements
    <3> QED BY <3>2, Places
  <2>2. CASE release = <<>>
    <3>1. b \notin Allocated
      BY <2>2, <1>1 DEF NewBlock, Allocated
    <3> QED BY <3>1, Places
  <2> QED BY <2>1, <2>2
<1>4. Elements(active') = Elements(active) \union {b}
  BY <1>1, <1>3, AppendElements, Places DEF TypeOK
<1>5. \A c \in Blocks : memory'[c] = IF c = b THEN e ELSE memory[c]
  BY <1>1 DEF TypeOK
<1>6. Elements(active) \subseteq Blocks
  BY DEF Elements, TypeOK
<1>7. \A c \in Elements(active) : EventIn(c)' = EventIn(c)
  BY <1>3, <1>5, <1>6 DEF EventIn
<1>8. EventIn(b)' = [event |-> made + 1, due |-> e.due, call |-> e.proc]
  BY <1>1, <1>5 DEF EventIn
<1>9. Waiting' = Waiting \union {[event |-> made + 1, due |-> e.due, call |-> e.proc]}
  BY <1>4, <1>7, <1>8 DEF Waiting
<1>10. Ringing' = Ringing
  <2>1. Hands \subseteq Blocks
    BY DEF Hands, TypeOK
  <2>2. \A c \in Hands : memory'[c] = memory[c]
    BY <2>1, <1>3, <1>5
  <2> QED BY <2>2, SameRinging DEF AddEvent
<1>11. /\ made' = made + 1 /\ UNCHANGED <<now, calls>>
       /\ e.proc \in BOOLEAN /\ \E d \in 0 .. Wrap - 1 : e.due = now + d
  BY <1>1, ClockAssumption DEF AddEvent, EventBlock
<1> QED BY <1>9, <1>10, <1>11 DEF Alarms!Set, Waiting, Ringing

\* Events are dropped.
LEMMA PromiseCancel ==
  ASSUME TypeOK, OnePlace, UNCHANGED <<now, made, calls>>,
         Elements(active') \subseteq Elements(active),
         \A b \in Elements(active') : memory'[b] = memory[b],
         Ringing' = Ringing
  PROVE  Alarms!Cancel
<1>1. Waiting' \subseteq Waiting
  BY DEF Waiting, EventIn
<1> QED BY <1>1 DEF Alarms!Cancel, Waiting, Ringing

LEMMA PromiseRemove ==
  ASSUME TypeOK, OnePlace, NEW t \in Threads, RemoveEvent(t) PROVE Alarms!Cancel
<1>1. PICK i \in DOMAIN active : active' = Without(active, i)
  BY DEF RemoveEvent
<1>2. Elements(active') \subseteq Elements(active)
  BY <1>1, WithoutElements, Places DEF TypeOK
<1>3. Ringing' = Ringing
  BY SameRinging DEF RemoveEvent
<1> QED BY <1>2, <1>3, PromiseCancel DEF RemoveEvent

\* CleanEvent, when Main has no block in hand before or after.
LEMMA PromiseClean ==
  ASSUME TypeOK, OnePlace, CleanEvent, UNCHANGED <<now, made, calls>>,
         Taken' = Taken, \A t \in Taken : hand'[t] = hand[t]
  PROVE  Alarms!Cancel
<1>1. Elements(active') = {}
  BY NoElements DEF CleanEvent
<1>2. \A t \in Taken : /\ hand[t].block \in Hands /\ hand[t].block \in Blocks
  BY DEF Taken, Hands, TypeOK
<1>3. \A t \in Taken : memory'[hand[t].block] = memory[hand[t].block]
  BY <1>2, Places DEF CleanEvent
<1>4. Ringing' = Ringing
  BY <1>3 DEF Ringing, EventIn
<1> QED BY <1>1, <1>4, PromiseCancel

\* A thread takes an event.
LEMMA PromiseTake ==
  ASSUME TypeOK, OnePlace, Numbered, NEW t \in Threads, hand[t].at # "taken",
         NEW i \in DOMAIN active, NEW why \in {"timeout", "ended"},
         active' = Without(active, i),
         hand' = [hand EXCEPT ![t] = [at |-> "taken", block |-> active[i], why |-> why]],
         why = "timeout" => Alarms!Timeout(EventIn(active[i])),
         UNCHANGED <<memory, now, made, calls>>
  PROVE  Alarms!Take
<1> DEFINE b == active[i]
<1>1. /\ Elements(active') = Elements(active) \ {b} /\ b \in Elements(active)
  BY WithoutElements, Places DEF TypeOK
<1>2. \A c \in Elements(active) : EventIn(c) = EventIn(b) => c = b
  BY <1>1, Different, InMemory
<1>3. \A c : EventIn(c)' = EventIn(c)
  BY DEF EventIn
<1>4. Waiting' = Waiting \ {EventIn(b)} /\ EventIn(b) \in Waiting
  BY <1>1, <1>2, <1>3 DEF Waiting
<1>5. /\ Taken' = Taken \union {t} /\ t \notin Taken
      /\ \A u \in Taken : hand'[u] = hand[u]
      /\ hand'[t].block = b /\ hand'[t].why = why
  BY DEF Taken, TypeOK
<1>6. Ringing' = Ringing \union {[of |-> EventIn(b), why |-> why]}
  BY <1>3, <1>5 DEF Ringing
<1> HIDE DEF b
<1>7. why = "timeout" => Alarms!Timeout(EventIn(b))
  BY DEF b
<1> QED BY <1>4, <1>6, <1>7 DEF Alarms!Take, Waiting, Ringing

\* The first event whose stamp is not above the count is due, and the older ones are
\* not, unless the clock has wrapped.
LEMMA FirstIsDue ==
  ASSUME TypeOK, OnePlace, Numbered, NEW i \in DOMAIN active, FirstExpired(i)
  PROVE  Alarms!Timeout(EventIn(active[i]))
<1>1. now \in Nat /\ Wrap \in Nat \ {0}
  BY ClockAssumption DEF TypeOK
<1>2. \A j \in DOMAIN active : /\ active[j] \in Allocated
                               /\ memory[active[j]].due \in Nat
                               /\ memory[active[j]].stamp = memory[active[j]].due % Wrap
                               /\ memory[active[j]].event \in Nat
  BY InMemory DEF Numbered, EventBlock, Events
<1> DEFINE due(j) == memory[active[j]].due
<1>3. now >= due(i) \/ now \div Wrap < due(i) \div Wrap
  <2>1. due(i) % Wrap <= now % Wrap
    <3>1. ~ (now % Wrap < due(i) % Wrap)
      BY <1>2 DEF FirstExpired, Expired, GetTickCount
    <3>2. now % Wrap \in Int /\ due(i) % Wrap \in Int
      BY <1>1, <1>2
    <3> QED BY <3>1, <3>2
  <2>2. CASE now < due(i)
    <3>1. ~ (now % Wrap < due(i) % Wrap)
      BY <1>2 DEF FirstExpired, Expired, GetTickCount
    <3> QED BY <2>1, <2>2, <1>1, <1>2, CountsWrap
  <2>3. CASE ~ (now < due(i))
    BY <2>3, <1>1, <1>2
  <2> QED BY <2>2, <2>3
<1>4. ASSUME NEW j \in DOMAIN active, memory[active[j]].event < memory[active[i]].event
      PROVE  now < due(j) \/ due(j) \div Wrap < now \div Wrap
  <2>1. i \in 1 .. Len(active) /\ j \in 1 .. Len(active) /\ Len(active) \in Nat
    BY DEF TypeOK
  <2>2. ~ (i < j) /\ i # j
    BY <1>2, <1>4 DEF Numbered
  <2>3. j \in 1 .. i - 1
    BY <2>1, <2>2
  <2>4. now % Wrap < due(j) % Wrap
    BY <1>2, <2>3 DEF FirstExpired, Expired, GetTickCount
  <2>5. now % Wrap \in Int /\ due(j) % Wrap \in Int
    BY <1>1, <1>2
  <2>6. CASE due(j) < now
    BY <2>4, <2>5, <2>6, <1>1, <1>2, CountsWrap
  <2>7. CASE ~ (due(j) < now)
    BY <2>4, <2>5, <2>7, <1>1, <1>2
  <2> QED BY <2>6, <2>7
<1>5. \A w \in Waiting : \E j \in DOMAIN active : w = EventIn(active[j])
  BY DEF Waiting, Elements
<1>6. \A j \in DOMAIN active : /\ EventIn(active[j]).event = memory[active[j]].event
                               /\ EventIn(active[j]).due = due(j)
  BY DEF EventIn
<1>7. \A w \in Waiting : w.event < EventIn(active[i]).event
                           => now < w.due \/ w.due \div Wrap < now \div Wrap
  BY <1>4, <1>5, <1>6
<1> QED BY <1>3, <1>6, <1>7 DEF Alarms!Timeout, Alarms!Wrapped, Waiting

LEMMA PromiseGet ==
  ASSUME TypeOK, OnePlace, Numbered, GetEventBlock
  PROVE  Alarms!Take \/ UNCHANGED <<now, made, Waiting, Ringing, calls>>
<1>1. Service \in Threads /\ hand[Service].at = "get"
  BY MainIsThread DEF GetEventBlock
<1>2. CASE \E i \in DOMAIN active :
             /\ FirstExpired(i)
             /\ active' = Without(active, i)
             /\ hand' = [hand EXCEPT ![Service] = [at |-> "taken", block |-> active[i],
                                                   why |-> "timeout"]]
  <2>1. PICK i \in DOMAIN active :
          /\ FirstExpired(i)
          /\ active' = Without(active, i)
          /\ hand' = [hand EXCEPT ![Service] = [at |-> "taken", block |-> active[i],
                                                why |-> "timeout"]]
    BY <1>2
  <2>2. Alarms!Timeout(EventIn(active[i]))
    BY <2>1, FirstIsDue
  <2>3. UNCHANGED <<memory, now, made, calls>>
    BY DEF GetEventBlock
  <2> QED BY <1>1, <2>1, <2>2, <2>3, PromiseTake
<1>3. CASE hand' = [hand EXCEPT ![Service] = Idle] /\ active' = active
  <2>1. Taken' = Taken /\ \A t \in Taken : hand'[t] = hand[t]
    BY <1>1, <1>3 DEF Taken, TypeOK, Idle
  <2>2. UNCHANGED <<active, memory, now, made, calls>>
    BY <1>3 DEF GetEventBlock
  <2> QED BY <2>1, <2>2 DEF Waiting, Ringing, EventIn
<1> QED BY <1>2, <1>3 DEF GetEventBlock

LEMMA PromiseReset ==
  ASSUME TypeOK, OnePlace, Numbered, NEW t \in Threads, ResetEvent(t) PROVE Alarms!Take
<1>1. PICK i \in DOMAIN active :
        /\ active' = Without(active, i)
        /\ hand' = [hand EXCEPT ![t] = [at |-> "taken", block |-> active[i], why |-> "ended"]]
  BY DEF ResetEvent
<1>2. hand[t].at # "taken" /\ UNCHANGED <<memory, now, made, calls>>
  BY DEF ResetEvent
<1> QED BY <1>1, <1>2, PromiseTake

\* A thread calls the procedure of its event, or finds none.
LEMMA PromiseCall ==
  ASSUME TypeOK, OnePlace, Numbered, NEW t \in Threads, Call(t) \/ CallNone(t)
  PROVE  Alarms!Call
<1> DEFINE b == hand[t].block
           r == [of |-> EventIn(b), why |-> hand[t].why]
<1>1. t \in Taken
  BY DEF Call, CallNone, Taken
<1>2. \A u \in Taken : hand[u].block \in Hands /\ hand[u].block # Nil
  BY DEF Taken, Hands, TypeOK
<1>3. \A u \in Taken : EventIn(hand[u].block) = EventIn(b) => u = t
  <2> SUFFICES ASSUME NEW u \in Taken, EventIn(hand[u].block) = EventIn(b) PROVE u = t
    OBVIOUS
  <2>1. hand[u].block \in Allocated /\ hand[t].block \in Allocated
    BY <1>1, <1>2, InMemory
  <2>2. hand[u].block = hand[t].block
    BY <2>1, Different
  <2>3. Alone /\ u \in Threads
    BY Places DEF Taken
  <2> QED BY <1>2, <2>2, <2>3 DEF Alone
<1>4. Taken' = Taken \ {t} /\ \A u \in Taken \ {t} : hand'[u] = hand[u]
  BY DEF Call, CallNone, Done, Idle, Taken, TypeOK
<1>5. \A c : EventIn(c)' = EventIn(c)
  BY DEF EventIn, Call, CallNone
<1>6. Ringing' = Ringing \ {r} /\ r \in Ringing
  BY <1>1, <1>3, <1>4, <1>5 DEF Ringing
<1>7. Waiting' = Waiting /\ UNCHANGED <<now, made>>
  BY <1>5 DEF Waiting, Call, CallNone
<1>8. calls' = IF r.of.call THEN [calls EXCEPT ![r.of.event] = @ + 1] ELSE calls
  BY DEF Call, CallNone, EventIn
<1> HIDE DEF r
<1> QED BY <1>6, <1>7, <1>8 DEF Alarms!Call, Waiting, Ringing

\* A thread does something else than to take or call an event.
LEMMA SameTaken ==
  ASSUME TypeOK, NEW t \in Threads, NEW r, hand[t].at # "taken", r.at # "taken",
         hand' = [hand EXCEPT ![t] = r]
  PROVE  Taken' = Taken /\ \A u \in Taken : hand'[u] = hand[u]
<1>1. \A u \in Threads : hand'[u] = IF u = t THEN r ELSE hand[u]
  BY DEF TypeOK
<1> QED BY <1>1 DEF Taken

LEMMA PromiseKeptByStep ==
  ASSUME TypeOK, OnePlace, Numbered, [Next]_vars
  PROVE  [Alarms!Next]_<<now, made, Waiting, Ringing, calls>>
<1>1. ASSUME UNCHANGED <<active, memory, now, made, calls>>, Taken' = Taken,
             \A t \in Taken : hand'[t] = hand[t]
      PROVE  UNCHANGED <<now, made, Waiting, Ringing, calls>>
  BY <1>1 DEF Waiting, Ringing, EventIn
<1>2. CASE \E t \in Threads : Ask(t)
  BY <1>2, PromiseAdd, PromiseRemove, PromiseReset DEF Ask, Alarms!Next
<1>3. CASE \E t \in Threads : Call(t) \/ CallNone(t)
  BY <1>3, PromiseCall DEF Alarms!Next
<1>4. CASE \E t \in Threads : Return(t) \/ Throw(t)
  <2>1. PICK t \in Threads : Return(t) \/ Throw(t)
    BY <1>4
  <2>2. Taken' = Taken /\ \A u \in Taken : hand'[u] = hand[u]
    BY <2>1, SameTaken DEF Return, Throw, Done, Idle
  <2>3. UNCHANGED <<active, memory, now, made, calls>>
    BY <2>1 DEF Return, Throw
  <2> QED BY <1>1, <2>2, <2>3
<1>5. CASE GetEventBlock
  BY <1>5, PromiseGet DEF Alarms!Next
<1>6. CASE Loop
  <2>1. Taken' = Taken /\ \A u \in Taken : hand'[u] = hand[u]
    <3> DEFINE r == [hand[Service] EXCEPT !.at = "get"]
    <3>1. r.at # "taken" /\ Service \in Threads /\ hand[Service].at # "taken"
      BY <1>6, MainIsThread DEF Loop, TypeOK
    <3>2. hand' = hand \/ hand' = [hand EXCEPT ![Service] = r]
      BY <1>6 DEF Loop
    <3> HIDE DEF r
    <3> QED BY <3>1, <3>2, SameTaken DEF Taken
  <2> QED BY <1>1, <1>6, <2>1 DEF Loop
<1>7. CASE StartService
  BY <1>1, <1>7 DEF StartService, Taken
<1>8. CASE StopService
  <2>1. Taken' = Taken /\ \A u \in Taken : hand'[u] = hand[u]
    BY <1>8, MainIsThread DEF StopService, Taken, TypeOK
  <2>2. UNCHANGED <<now, made, calls>> /\ (CleanEvent \/ UNCHANGED <<active, memory>>)
    BY <1>8 DEF StopService
  <2> QED BY <1>1, <2>1, <2>2, PromiseClean DEF Alarms!Next
<1>9. CASE Stopped
  <2>1. Taken' = Taken /\ \A u \in Taken : hand'[u] = hand[u]
    BY <1>9, MainIsThread DEF Stopped, Done, Idle, Taken, TypeOK
  <2>2. UNCHANGED <<now, made, calls>> /\ CleanEvent
    BY <1>9 DEF Stopped
  <2> QED BY <2>1, <2>2, PromiseClean DEF Alarms!Next
<1>10. CASE Tick
  <2>1. now' > now /\ UNCHANGED <<active, memory, hand, made, calls>>
    BY <1>10, ClockAssumption DEF Tick, TypeOK
  <2>2. Waiting' = Waiting /\ Ringing' = Ringing
    BY <2>1 DEF Waiting, Ringing, EventIn, Taken
  <2> QED BY <2>1, <2>2 DEF Alarms!Next, Alarms!Tick, Waiting, Ringing
<1>11. CASE UNCHANGED vars
  BY <1>1, <1>11 DEF vars, Taken
<1> QED BY <1>2, <1>3, <1>4, <1>5, <1>6, <1>7, <1>8, <1>9, <1>10, <1>11 DEF Next, Handle

\* The service keeps what Alarm promises: an event is taken once, in its turn, never
\* when it was cancelled, and called at most once.
THEOREM PromiseKept == Spec => KeepsPromise
<1>1. Init => TypeOK /\ OnePlace /\ Numbered /\ Alarms!Init
  BY TypeInit, PlacesInit, NumberedInit, PromiseInit
<1>2. (TypeOK /\ OnePlace /\ Numbered) /\ [Next]_vars => (TypeOK /\ OnePlace /\ Numbered)'
  BY TypeStep, PlacesStep, NumberedStep
<1>3. (TypeOK /\ OnePlace /\ Numbered) /\ [Next]_vars
        => [Alarms!Next]_<<now, made, Waiting, Ringing, calls>>
  BY PromiseKeptByStep
<1>4. Spec => Alarms!Init /\ [][Alarms!Next]_<<now, made, Waiting, Ringing, calls>>
  BY <1>1, <1>2, <1>3, PTL DEF Spec
<1> QED BY <1>4, Mapped DEF KeepsPromise

=============================================================================
