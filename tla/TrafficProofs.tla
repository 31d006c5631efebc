---------------------------- MODULE TrafficProofs ----------------------------
(***************************************************************************)
(* CTraffic's thread for any number of callers and lines: what it reads    *)
(* without the lock still holds when it has the lock, because AddUsrBack   *)
(* is done with an entry before the entry is due.                          *)
(***************************************************************************)
EXTENDS Traffic, FiniteSetTheorems, TLAPS

\* The types that the argument needs.
Types ==
  /\ now \in Nat
  /\ adder \in [at : {"out", "link", "fill"}, key : Nat,
                req : Requests \union {None}, lag : Nat]
  /\ DOMAIN backs \subseteq Nat
  /\ todo \subseteq DOMAIN backs
  /\ at = "dial" => lock = "traffic"

\* AddUsrBack works under the lock of CNetwork on one entry at a time, and since its
\* entry became due after Interval no more than Lag has passed.
Adding ==
  adder.at # "out" => /\ lock = "network" /\ adder.req \in Requests
                      /\ adder.lag <= Lag
                      /\ adder.key + adder.lag >= now + Interval

\* Only the entry that AddUsrBack is at is empty.
Empty ==
  /\ adder.at = "link" => adder.key \notin DOMAIN backs
  /\ adder.at = "fill" => adder.key \in DOMAIN backs /\ backs[adder.key] = None
  /\ \A t \in DOMAIN backs : backs[t] \in Requests \/ (adder.at = "fill" /\ adder.key = t)

Fresh ==
  at \in {"lock", "dial"} => /\ got.req \in Requests /\ got.key \in Nat
                             /\ got.key \in DOMAIN backs /\ backs[got.key] = got.req

IInv == Types /\ Adding /\ Empty /\ Fresh

LEMMA FreshHolds == IInv => ReadHolds
BY NoneAssumption DEF IInv, Fresh, ReadHolds

LEMMA FreshInit == Init => IInv
BY DEF Init, IInv, Types, Adding, Empty, Fresh, NoAdder

LEMMA Nats == Interval \in Nat /\ Lag \in Nat /\ MaxTime \in Nat /\ Times \subseteq Nat
BY NatAssumption DEF Times

\* Steps that change neither the map, nor its writer, nor what was read.
LEMMA FreshApart ==
  ASSUME IInv, UNCHANGED <<now, OfBacks, lock, OfThread>>
  PROVE  IInv'
BY DEF IInv, Types, Adding, Empty, Fresh, OfBacks, OfThread

LEMMA FreshNetwork ==
  ASSUME IInv, NetworkThread PROVE IInv'
<1>1. CASE NetworkLock
  BY <1>1 DEF NetworkLock, IInv, Types, Adding, Empty, Fresh, OfBacks, OfThread
<1>2. CASE NetworkUnlock
  BY <1>2 DEF NetworkUnlock, NoAdder, IInv, Types, Adding, Empty, Fresh, OfBacks, OfThread
<1>3. CASE AddUsrBack
  <2>1. PICK r \in Requests, key \in Times :
          /\ FreeKey(key)
          /\ adder' = [at |-> "link", key |-> key, req |-> r, lag |-> 0]
    BY <1>3 DEF AddUsrBack
  <2>2. /\ key \in Nat /\ key >= now + Interval /\ key \notin DOMAIN backs
        /\ lock = "network" /\ adder.at = "out"
        /\ UNCHANGED <<now, backs, lock, OfThread>>
    BY <1>3, <2>1, Nats DEF AddUsrBack, FreeKey
  <2>3. Types' /\ Fresh'
    BY <2>1, <2>2 DEF IInv, Types, Fresh, OfThread
  <2>4. Adding'
    BY <2>1, <2>2, Nats DEF IInv, Types, Adding
  <2>5. Empty'
    BY <2>1, <2>2 DEF IInv, Empty
  <2> QED BY <2>3, <2>4, <2>5 DEF IInv
<1>4. ASSUME NEW req, backs' = With(adder.key, req)
      PROVE  /\ DOMAIN backs' = DOMAIN backs \union {adder.key}
             /\ backs'[adder.key] = req
             /\ \A t \in DOMAIN backs \ {adder.key} : backs'[t] = backs[t]
  BY <1>4 DEF With
<1>5. CASE Link
  <2>1. /\ adder.at = "link" /\ backs' = With(adder.key, None)
        /\ todo' \subseteq todo \union {adder.key}
        /\ adder' = [adder EXCEPT !.at = "fill"]
        /\ UNCHANGED <<now, lock, at, got>>
    BY <1>5 DEF Link
  <2>2. /\ adder'.at = "fill" /\ adder'.key = adder.key /\ adder'.req = adder.req
        /\ adder'.lag = adder.lag
    BY <2>1 DEF IInv, Types
  <2>3. /\ adder.key \in Nat /\ adder.key \notin DOMAIN backs
        /\ \A t \in DOMAIN backs : backs[t] \in Requests
    BY <2>1 DEF IInv, Types, Empty
  <2>4. /\ DOMAIN backs' = DOMAIN backs \union {adder.key}
        /\ backs'[adder.key] = None
        /\ \A t \in DOMAIN backs : backs'[t] = backs[t]
    BY <2>1, <2>3, <1>4
  <2>5. Types'
    BY <2>1, <2>3, <2>4 DEF IInv, Types
  <2>6. Adding'
    BY <2>1, <2>2 DEF IInv, Adding
  <2>7. Empty'
    BY <2>2, <2>3, <2>4 DEF Empty
  <2>8. Fresh'
    BY <2>1, <2>4 DEF IInv, Fresh
  <2> QED BY <2>5, <2>6, <2>7, <2>8 DEF IInv
<1>6. CASE Fill
  <2>1. /\ adder.at = "fill" /\ backs' = With(adder.key, adder.req)
        /\ adder' = NoAdder
        /\ UNCHANGED <<now, lock, at, got, todo>>
    BY <1>6 DEF Fill, OfThread
  <2>2. /\ adder.key \in DOMAIN backs /\ backs[adder.key] = None
        /\ adder.req \in Requests
    BY <2>1 DEF IInv, Empty, Adding
  <2>3. /\ DOMAIN backs' = DOMAIN backs
        /\ backs'[adder.key] = adder.req
        /\ \A t \in DOMAIN backs \ {adder.key} : backs'[t] = backs[t]
    BY <2>1, <2>2, <1>4
  <2>4. adder'.at = "out" /\ adder' \in [at : {"out", "link", "fill"}, key : Nat,
                                         req : Requests \union {None}, lag : Nat]
    BY <2>1 DEF NoAdder
  <2>5. Types' /\ Adding'
    BY <2>1, <2>3, <2>4 DEF IInv, Types, Adding
  <2>6. Empty'
    BY <2>1, <2>2, <2>3, <2>4 DEF IInv, Empty
  <2>7. Fresh'
    BY <2>1, <2>2, <2>3, NoneAssumption DEF IInv, Fresh
  <2> QED BY <2>5, <2>6, <2>7 DEF IInv
<1> QED BY <1>1, <1>2, <1>3, <1>5, <1>6 DEF NetworkThread

LEMMA FreshUsrBack ==
  ASSUME IInv, UsrBack PROVE IInv'
<1>1. CASE Wakeup
  BY <1>1 DEF Wakeup, IInv, Types, Adding, Empty, Fresh, OfBacks
<1>2. CASE Read
  <2>1. PICK key \in todo :
          /\ todo' = todo \ {key}
          /\ IF key > now THEN UNCHANGED <<at, got>>
             ELSE at' = "lock" /\ got' = [key |-> key, req |-> backs[key]]
    BY <1>2 DEF Read
  <2>2. UNCHANGED <<now, backs, adder, lock>> /\ at = "scan"
    BY <1>2 DEF Read, OfBacks
  <2>3. key \in DOMAIN backs /\ key \in Nat
    BY DEF IInv, Types
  <2>4. CASE key > now
    BY <2>1, <2>2, <2>4 DEF IInv, Types, Adding, Empty, Fresh
  <2>5. CASE ~ (key > now)
    <3>1. backs[key] \in Requests
      <4>1. adder.at = "fill" => adder.key > now
        <5> SUFFICES ASSUME adder.at = "fill" PROVE adder.key > now
          OBVIOUS
        <5>1. adder.lag <= Lag /\ adder.key + adder.lag >= now + Interval
          BY DEF IInv, Adding
        <5>2. adder.lag \in Nat /\ adder.key \in Nat /\ now \in Nat
          BY DEF IInv, Types
        <5> QED BY <5>1, <5>2, LagAssumption, Nats
      <4> QED BY <4>1, <2>3, <2>5 DEF IInv, Empty
    <3> QED BY <3>1, <2>1, <2>2, <2>3, <2>5 DEF IInv, Types, Adding, Empty, Fresh
  <2> QED BY <2>4, <2>5
<1>3. CASE ReadAll
  BY <1>3 DEF ReadAll, IInv, Types, Adding, Empty, Fresh, OfBacks
<1>4. CASE Lock
  BY <1>4 DEF Lock, IInv, Types, Adding, Empty, Fresh, OfBacks
<1>5. CASE GiveUp
  BY <1>5 DEF GiveUp, IInv, Types, Adding, Empty, Fresh, OfBacks
<1>6. CASE Dial
  <2>1. /\ lock = "traffic" /\ adder.at = "out"
    BY <1>6 DEF Dial, IInv, Types, Adding
  <2>2. /\ backs' = Removed(got.key) /\ todo' = {} /\ at' = "meeting"
        /\ UNCHANGED <<now, adder>>
    BY <1>6 DEF Dial
  <2>3. /\ DOMAIN backs' = DOMAIN backs \ {got.key}
        /\ \A t \in DOMAIN backs' : backs'[t] = backs[t]
    BY <2>2 DEF Removed
  <2> QED BY <2>1, <2>2, <2>3 DEF IInv, Types, Adding, Empty, Fresh
<1>7. CASE DialNone
  <2>1. /\ lock = "traffic" /\ adder.at = "out"
    BY <1>7 DEF DialNone, IInv, Types, Adding
  <2> QED BY <1>7, <2>1 DEF DialNone, IInv, Types, Adding, Empty, Fresh, OfBacks
<1> QED BY <1>1, <1>2, <1>3, <1>4, <1>5, <1>6, <1>7 DEF UsrBack

LEMMA FreshMeeting ==
  ASSUME IInv, Meeting PROVE IInv'
<1>1. /\ UNCHANGED <<now, OfBacks, lock, todo, got>>
      /\ at \in {"meeting", "row"} /\ at' \in {"meeting", "row", "wait"}
  BY DEF Meeting, Requery, LastRow, CallMember, NoLine, UpdateThrows, ReadThrows, TakeLine,
         OfThread, OfMeeting
<1> QED BY <1>1 DEF IInv, Types, Adding, Empty, Fresh, OfBacks

LEMMA FreshTick ==
  ASSUME IInv, Tick PROVE IInv'
<1>1. /\ now' = now + 1 /\ (adder # NoAdder => adder.lag < Lag)
      /\ adder' = IF adder = NoAdder THEN adder ELSE [adder EXCEPT !.lag = @ + 1]
      /\ UNCHANGED <<backs, lock, at, todo, got>>
  BY DEF Tick, OfThread
<1>2. /\ adder'.at = adder.at /\ adder'.key = adder.key /\ adder'.req = adder.req
      /\ adder'.lag = (IF adder = NoAdder THEN adder.lag ELSE adder.lag + 1)
  BY <1>1 DEF IInv, Types
<1>3. Types'
  BY <1>1 DEF IInv, Types
<1>4. Adding'
  <2> SUFFICES ASSUME adder'.at # "out" PROVE Adding'
    BY DEF Adding
  <2>1. adder # NoAdder /\ adder'.lag = adder.lag + 1
    BY <1>2 DEF NoAdder
  <2>2. adder.lag \in Nat /\ adder.key \in Nat /\ now \in Nat
    BY DEF IInv, Types
  <2>3. adder'.lag <= Lag /\ adder'.key + adder'.lag >= now' + Interval
    BY <1>1, <1>2, <2>1, <2>2, Nats DEF IInv, Adding
  <2> QED BY <1>1, <1>2, <2>3 DEF IInv, Adding
<1>5. Empty' /\ Fresh'
  BY <1>1, <1>2 DEF IInv, Empty, Fresh
<1> QED BY <1>3, <1>4, <1>5 DEF IInv

LEMMA FreshStep == ASSUME IInv, [Next]_vars PROVE IInv'
<1>1. CASE NetworkThread
  BY <1>1, FreshNetwork
<1>2. CASE UsrBack
  BY <1>2, FreshUsrBack
<1>3. CASE Meeting
  BY <1>3, FreshMeeting
<1>4. CASE Tick
  BY <1>4, FreshTick
<1>5. CASE Seize \/ HangUp \/ UNCHANGED vars
  BY <1>5, FreshApart DEF Seize, HangUp, vars, OfBacks, OfThread
<1> QED BY <1>1, <1>2, <1>3, <1>4, <1>5 DEF Next

\* What CTraffic's thread has read without the lock is what it finds when it has the
\* lock, and it never is an entry that AddUsrBack has not written yet.
THEOREM ReadingIsSafe == Spec => []ReadHolds
<1>1. Init => IInv
  BY FreshInit
<1>2. IInv /\ [Next]_vars => IInv'
  BY FreshStep
<1>3. IInv => ReadHolds
  BY FreshHolds
<1> QED BY <1>1, <1>2, <1>3, PTL DEF Spec

-----------------------------------------------------------------------------
(* The types, and the rows of a meeting *)

\* The record set holds members, none of them twice, who were not called yet: a round
\* that ends in the middle leaves the rest of a query that is still true.
Rows ==
  /\ rows \in Seq(Members)
  /\ \A i, j \in 1 .. Len(rows) : rows[i] = rows[j] => i = j
  /\ \A i \in 1 .. Len(rows) : state[rows[i]] = "0"

\* Nothing is left over of an entry once AddUsrBack is out of it.
Out == adder.at = "out" => adder = NoAdder

TInv == TypeOK /\ Rows /\ Out

\* SetToSeq of a finite set is a sequence of its elements, each of them once.
LEMMA OnceEach ==
  ASSUME NEW S, IsFiniteSet(S)
  PROVE  /\ SetToSeq(S) \in Seq(S)
         /\ \A i, j \in 1 .. Len(SetToSeq(S)) : SetToSeq(S)[i] = SetToSeq(S)[j] => i = j
<1> DEFINE n == Cardinality(S)
           q == SetToSeq(S)
<1>1. n \in Nat /\ ExistsBijection(1 .. n, S)
  BY FS_CardinalityType
<1>2. PICK f : f \in Bijection(1 .. n, S)
  BY <1>1 DEF ExistsBijection
<1>3. f \in [1 .. n -> S] /\ IsInjective(f)
  BY <1>2 DEF Bijection, Injection, IsInjective
<1>4. q \in [1 .. n -> S] /\ IsInjective(q)
  BY <1>3 DEF SetToSeq
<1>5. q \in Seq(S) /\ Len(q) = n
  BY <1>1, <1>4
<1> QED BY <1>4, <1>5 DEF IsInjective

\* A row is taken from the record set: what is left is as it was.
LEMMA RestOfRows ==
  ASSUME Rows, rows # <<>>
  PROVE  /\ Head(rows) \in Members /\ state[Head(rows)] = "0"
         /\ Tail(rows) \in Seq(Members)
         /\ \A i \in 1 .. Len(Tail(rows)) : /\ i + 1 \in 1 .. Len(rows)
                                            /\ Tail(rows)[i] = rows[i + 1]
                                            /\ rows[i + 1] # Head(rows)
         /\ \A i, j \in 1 .. Len(Tail(rows)) : Tail(rows)[i] = Tail(rows)[j] => i = j
<1>1. /\ rows \in Seq(Members) /\ Len(rows) \in Nat /\ Len(rows) > 0
      /\ Head(rows) = rows[1] /\ 1 \in 1 .. Len(rows)
  BY DEF Rows
<1>2. /\ Tail(rows) \in Seq(Members) /\ Len(Tail(rows)) = Len(rows) - 1
      /\ \A i \in 1 .. Len(Tail(rows)) : Tail(rows)[i] = rows[i + 1]
  BY <1>1
<1>3. \A i \in 1 .. Len(Tail(rows)) : i + 1 \in 1 .. Len(rows) /\ i + 1 # 1
  BY <1>1, <1>2
<1>4. \A i \in 1 .. Len(Tail(rows)) : rows[i + 1] # rows[1]
  BY <1>1, <1>3 DEF Rows
<1>5. \A i, j \in 1 .. Len(Tail(rows)) : Tail(rows)[i] = Tail(rows)[j] => i = j
  <2> SUFFICES ASSUME NEW i \in 1 .. Len(Tail(rows)), NEW j \in 1 .. Len(Tail(rows)),
                      Tail(rows)[i] = Tail(rows)[j]
               PROVE  i = j
    OBVIOUS
  <2>1. rows[i + 1] = rows[j + 1]
    BY <1>2
  <2>2. i + 1 = j + 1
    BY <2>1, <1>3 DEF Rows
  <2> QED BY <2>2, <1>1, <1>2
<1> QED BY <1>1, <1>2, <1>3, <1>4, <1>5 DEF Rows

\* A counter of a function is counted up.
LEMMA CountUp ==
  ASSUME NEW S, NEW f \in [S -> Nat], NEW x
  PROVE  /\ [f EXCEPT ![x] = @ + 1] \in [S -> Nat]
         /\ \A y \in S : [f EXCEPT ![x] = @ + 1][y] = (IF y = x THEN f[y] + 1 ELSE f[y])
<1> DEFINE g == [f EXCEPT ![x] = @ + 1]
<1>1. DOMAIN g = S /\ \A y \in S : g[y] = (IF y = x THEN f[y] + 1 ELSE f[y])
  OBVIOUS
<1>2. \A y \in S : g[y] \in Nat
  BY <1>1
<1>3. g = [y \in S |-> g[y]]
  OBVIOUS
<1> QED BY <1>1, <1>2, <1>3

\* Whether or not PagerLibrary calls the member, it adds one to what it was asked.
LEMMA PagerCounts ==
  ASSUME TypeOK, Rows, rows # <<>>, PagerLibrary(Head(rows))
  PROVE  /\ rung' \in [Requests \union Members -> Nat]
         /\ missed' \in [Members -> 0 .. Missing]
         /\ \A r \in Requests : rung'[r] = rung[r]
         /\ \A m \in Members : rung'[m] + missed'[m]
                             = rung[m] + missed[m] + (IF m = Head(rows) THEN 1 ELSE 0)
<1> DEFINE h == Head(rows)
<1>1. /\ h \in Members /\ Missing \in Nat
      /\ rung \in [Requests \union Members -> Nat] /\ missed \in [Members -> 0 .. Missing]
  BY RestOfRows, NatAssumption DEF TypeOK
<1>2. CASE rung' = [rung EXCEPT ![h] = @ + 1] /\ UNCHANGED missed
  <2>1. rung' \in [Requests \union Members -> Nat]
    BY <1>1, <1>2, CountUp
  <2>2. \A p \in Requests \union Members :
          rung'[p] = (IF p = h THEN rung[p] + 1 ELSE rung[p])
    BY <1>1, <1>2
  <2>3. \A m \in Members : rung[m] \in Nat /\ missed[m] \in Nat
    BY <1>1
  <2> QED BY <1>1, <1>2, <2>1, <2>2, <2>3, RowsAssumption
<1>3. CASE missed[h] < Missing /\ missed' = [missed EXCEPT ![h] = @ + 1] /\ UNCHANGED rung
  <2>1. missed' \in [Members -> 0 .. Missing]
    BY <1>1, <1>3
  <2>2. \A m \in Members : missed'[m] = (IF m = h THEN missed[m] + 1 ELSE missed[m])
    BY <1>1, <1>3
  <2>3. \A m \in Members : rung[m] \in Nat /\ missed[m] \in Nat
    BY <1>1
  <2> QED BY <1>1, <1>3, <2>1, <2>2, <2>3
<1> QED BY <1>2, <1>3 DEF PagerLibrary

LEMMA TypeInit == Init => TInv
<1> SUFFICES ASSUME Init PROVE TInv
  OBVIOUS
<1>1. TypeOK
  BY NatAssumption DEF Init, TypeOK, NoAdder, Nothing, Times
<1>2. Rows /\ Out
  BY DEF Init, Rows, Out, NoAdder
<1> QED BY <1>1, <1>2 DEF TInv

LEMMA TypeNetwork ==
  ASSUME TInv, IInv, NetworkThread PROVE TInv'
<1> USE DEF OfBacks, OfThread, OfMeeting
<1>1. UNCHANGED <<now, idle, at, got, state, rows, missed, faults, rung, budget>>
  BY DEF NetworkThread, NetworkLock, NetworkUnlock, AddUsrBack, Link, Fill
<1>2. Rows'
  BY <1>1 DEF TInv, Rows
<1>3. CASE NetworkLock \/ NetworkUnlock
  BY <1>1, <1>2, <1>3 DEF NetworkLock, NetworkUnlock, TInv, TypeOK, Out
<1>4. CASE AddUsrBack
  <2>1. PICK r \in Requests \ asked, key \in Times :
          /\ adder' = [at |-> "link", key |-> key, req |-> r, lag |-> 0]
          /\ asked' = asked \union {r}
    BY <1>4 DEF AddUsrBack
  <2>2. adder' \in [at : {"out", "link", "fill"}, key : Times,
                    req : Requests \union {None}, lag : 0 .. Lag] /\ adder'.at # "out"
    BY <2>1, Nats
  <2>3. UNCHANGED <<backs, lock, todo>>
    BY <1>4 DEF AddUsrBack
  <2> QED BY <1>1, <1>2, <2>1, <2>2, <2>3 DEF TInv, TypeOK, Out
<1>5. CASE Link
  <2>1. /\ backs' = With(adder.key, None) /\ adder' = [adder EXCEPT !.at = "fill"]
        /\ todo' \subseteq todo \union {adder.key} /\ UNCHANGED <<asked, lock>>
    BY <1>5 DEF Link
  <2>2. /\ adder' \in [at : {"out", "link", "fill"}, key : Times,
                       req : Requests \union {None}, lag : 0 .. Lag]
        /\ adder'.at # "out" /\ adder.key \in Times
    BY <2>1 DEF TInv, TypeOK
  <2>3. /\ DOMAIN backs' = DOMAIN backs \union {adder.key}
        /\ \A t \in DOMAIN backs' : backs'[t] = (IF t = adder.key THEN None ELSE backs[t])
    BY <2>1 DEF With
  <2> QED BY <1>1, <1>2, <2>1, <2>2, <2>3 DEF TInv, TypeOK, Out
<1>6. CASE Fill
  <2>1. /\ backs' = With(adder.key, adder.req) /\ adder' = NoAdder
        /\ UNCHANGED <<asked, lock, todo>>
    BY <1>6 DEF Fill
  <2>2. /\ adder' \in [at : {"out", "link", "fill"}, key : Times,
                       req : Requests \union {None}, lag : 0 .. Lag]
        /\ adder.req \in Requests \union {None} /\ adder.key \in Times
    BY <2>1, NatAssumption DEF TInv, TypeOK, NoAdder, Times
  <2>3. /\ DOMAIN backs' = DOMAIN backs \union {adder.key}
        /\ \A t \in DOMAIN backs' : backs'[t] = (IF t = adder.key THEN adder.req ELSE backs[t])
    BY <2>1 DEF With
  <2> QED BY <1>1, <1>2, <2>1, <2>2, <2>3 DEF TInv, TypeOK, Out
<1> QED BY <1>3, <1>4, <1>5, <1>6 DEF NetworkThread

LEMMA TypeUsrBack ==
  ASSUME TInv, IInv, UsrBack PROVE TInv'
<1> USE DEF OfBacks, OfThread, OfMeeting
<1>1. UNCHANGED <<now, asked, adder, state, rows, missed, faults>>
  BY DEF UsrBack, Wakeup, Read, ReadAll, Lock, GiveUp, Dial, DialNone
<1>2. Rows' /\ Out'
  BY <1>1 DEF TInv, Rows, Out
<1>3. Nothing \in [key : Times, req : Requests \union {None}]
  BY NatAssumption DEF Nothing, Times
<1>4. CASE Wakeup \/ ReadAll \/ Lock
  BY <1>2, <1>4 DEF Wakeup, ReadAll, Lock, TInv, TypeOK
<1>5. CASE Read
  <2>1. PICK key \in todo :
          /\ todo' = todo \ {key}
          /\ IF key > now THEN UNCHANGED <<at, got>>
             ELSE at' = "lock" /\ got' = [key |-> key, req |-> backs[key]]
    BY <1>5 DEF Read
  <2>2. key \in Times /\ backs[key] \in Requests \union {None}
    BY DEF TInv, TypeOK
  <2>3. got' \in [key : Times, req : Requests \union {None}] /\ at' \in {"scan", "lock"}
    BY <1>5, <2>1, <2>2 DEF TInv, TypeOK, Read
  <2>4. UNCHANGED <<backs, lock, idle, rung, budget>> /\ at = "scan"
    BY <1>5 DEF Read
  <2> QED BY <1>1, <1>2, <2>1, <2>3, <2>4 DEF TInv, TypeOK
<1>6. CASE GiveUp
  <2>1. /\ budget.slow > 0 /\ budget' = [budget EXCEPT !.slow = @ - 1]
        /\ at = "lock" /\ at' = "meeting" /\ todo' = {} /\ got' = Nothing
        /\ UNCHANGED <<backs, lock, idle, rung>>
    BY <1>6 DEF GiveUp
  <2>2. budget' \in [slow : 0 .. Slow, seizes : 0 .. Seizes, faults : 0 .. Faults]
    BY <2>1, NatAssumption DEF TInv, TypeOK
  <2> QED BY <1>1, <1>2, <1>3, <2>1, <2>2 DEF TInv, TypeOK
<1>7. CASE Dial
  <2>1. /\ backs' = Removed(got.key) /\ rung' = [rung EXCEPT ![got.req] = @ + 1]
        /\ at' = "meeting" /\ lock' = "free" /\ todo' = {} /\ got' = Nothing
        /\ idle' \subseteq idle /\ UNCHANGED budget
    BY <1>7 DEF Dial
  <2>2. DOMAIN backs' \subseteq DOMAIN backs /\ \A t \in DOMAIN backs' : backs'[t] = backs[t]
    BY <2>1 DEF Removed
  <2>3. rung' \in [Requests \union Members -> Nat]
    BY <2>1, CountUp DEF TInv, TypeOK
  <2> QED BY <1>1, <1>2, <1>3, <2>1, <2>2, <2>3 DEF TInv, TypeOK
<1>8. CASE DialNone
  BY <1>2, <1>3, <1>8 DEF DialNone, TInv, TypeOK
<1> QED BY <1>4, <1>5, <1>6, <1>7, <1>8 DEF UsrBack

LEMMA TypeMeeting ==
  ASSUME TInv, Meeting PROVE TInv'
<1> USE DEF OfBacks, OfThread, OfMeeting
<1>1. UNCHANGED <<now, backs, asked, adder, lock, todo, got>>
  BY DEF Meeting, Requery, LastRow, CallMember, NoLine, UpdateThrows, ReadThrows
<1>2. Out'
  BY <1>1 DEF TInv, Out
<1>3. CASE Requery
  <2> DEFINE S == {m \in Members : state[m] = "0"}
  <2>1. /\ SetToSeq(S) \in Seq(S)
        /\ \A i, j \in 1 .. Len(SetToSeq(S)) : SetToSeq(S)[i] = SetToSeq(S)[j] => i = j
    BY OnceEach, FS_Subset, RowsAssumption
  <2>2. Rows'
    <3>1. CASE rows # <<>>
      BY <1>3, <3>1 DEF Requery, TInv, Rows
    <3>2. CASE rows = <<>>
      <4>1. rows' = SetToSeq(S) /\ UNCHANGED state
        BY <1>3, <3>2 DEF Requery
      <4>2. rows' \in Seq(S)
        BY <4>1, <2>1
      <4>3. rows' \in Seq(Members) /\ \A i \in 1 .. Len(rows') : rows'[i] \in S
        BY <4>2
      <4> QED BY <2>1, <4>1, <4>3 DEF Rows
    <3> QED BY <3>1, <3>2
  <2>3. UNCHANGED <<idle, state, missed, faults, rung, budget>> /\ at = "meeting" /\ at' = "row"
    BY <1>3 DEF Requery
  <2>4. \A i \in DOMAIN rows' : rows'[i] \in Members
    BY <2>2 DEF Rows
  <2> QED BY <1>1, <1>2, <2>2, <2>3, <2>4 DEF TInv, TypeOK
<1>4. CASE LastRow
  BY <1>1, <1>2, <1>4 DEF LastRow, TInv, TypeOK, Rows
<1>5. ASSUME rows # <<>>, rows' = Tail(rows),
             state' \in {state, [state EXCEPT ![Head(rows)] = "1"]}
      PROVE  Rows' /\ \A i \in DOMAIN rows' : rows'[i] \in Members
  <2>1. Rows
    BY DEF TInv
  <2>2. /\ Head(rows) \in Members
        /\ rows' \in Seq(Members)
        /\ \A i \in 1 .. Len(rows') : /\ i + 1 \in 1 .. Len(rows)
                                      /\ rows'[i] = rows[i + 1] /\ rows[i + 1] # Head(rows)
        /\ \A i, j \in 1 .. Len(rows') : rows'[i] = rows'[j] => i = j
    BY <1>5, <2>1, RestOfRows
  <2>3. \A i \in 1 .. Len(rows') : rows'[i] \in Members
    BY <2>2
  <2>4. \A i \in 1 .. Len(rows') : state'[rows'[i]] = "0"
    <3> SUFFICES ASSUME NEW i \in 1 .. Len(rows') PROVE state'[rows'[i]] = "0"
      OBVIOUS
    <3>1. state[rows[i + 1]] = "0" /\ rows'[i] # Head(rows) /\ rows'[i] = rows[i + 1]
      BY <2>1, <2>2 DEF Rows
    <3>2. state \in [Members -> {"0", "1"}]
      BY DEF TInv, TypeOK
    <3> QED BY <1>5, <2>2, <2>3, <3>1, <3>2
  <2> QED BY <2>2, <2>3, <2>4 DEF Rows
<1>6. CASE CallMember
  <2>1. Rows' /\ \A i \in DOMAIN rows' : rows'[i] \in Members
    BY <1>5, <1>6 DEF CallMember, TakeLine
  <2>2. /\ idle' \subseteq idle /\ UNCHANGED <<at, faults, budget>>
        /\ PagerLibrary(Head(rows)) /\ state' = [state EXCEPT ![Head(rows)] = "1"]
    BY <1>6 DEF CallMember, TakeLine
  <2>3. /\ rung' \in [Requests \union Members -> Nat] /\ missed' \in [Members -> 0 .. Missing]
        /\ state' \in [Members -> {"0", "1"}]
    BY <1>6, <2>2, PagerCounts DEF CallMember, TakeLine, TInv, TypeOK
  <2> QED BY <1>1, <1>2, <2>1, <2>2, <2>3 DEF TInv, TypeOK
<1>7. CASE NoLine
  <2>1. Rows' /\ \A i \in DOMAIN rows' : rows'[i] \in Members
    BY <1>5, <1>7 DEF NoLine
  <2> QED BY <1>1, <1>2, <1>7, <2>1 DEF NoLine, TInv, TypeOK
<1>8. CASE UpdateThrows
  <2>1. /\ idle' \subseteq idle /\ at = "row" /\ at' = "wait" /\ UNCHANGED <<state, rows>>
        /\ rows # <<>> /\ PagerLibrary(Head(rows))
        /\ faults' = [faults EXCEPT ![Head(rows)] = @ + 1]
        /\ budget.faults > 0 /\ budget' = [budget EXCEPT !.faults = @ - 1]
    BY <1>8 DEF UpdateThrows, TakeLine
  <2>2. /\ rung' \in [Requests \union Members -> Nat] /\ missed' \in [Members -> 0 .. Missing]
        /\ faults' \in [Members -> Nat]
    BY <2>1, PagerCounts, CountUp DEF TInv, TypeOK
  <2>3. budget' \in [slow : 0 .. Slow, seizes : 0 .. Seizes, faults : 0 .. Faults]
    <3>1. budget \in [slow : 0 .. Slow, seizes : 0 .. Seizes, faults : 0 .. Faults]
      BY DEF TInv, TypeOK
    <3>2. budget.faults > 0 /\ budget' = [budget EXCEPT !.faults = @ - 1]
      BY <2>1
    <3> QED BY <3>1, <3>2, NatAssumption
  <2>4. Rows'
    BY <2>1 DEF TInv, Rows
  <2> QED BY <1>1, <1>2, <2>1, <2>2, <2>3, <2>4 DEF TInv, TypeOK
<1>9. CASE ReadThrows
  <2>1. /\ idle' \subseteq idle /\ at \in {"meeting", "row"} /\ at' = "wait"
        /\ UNCHANGED <<state, rows, missed, faults, rung>>
        /\ budget.faults > 0 /\ budget' = [budget EXCEPT !.faults = @ - 1]
    BY <1>9 DEF ReadThrows, TakeLine
  <2>2. budget' \in [slow : 0 .. Slow, seizes : 0 .. Seizes, faults : 0 .. Faults]
    <3>1. budget \in [slow : 0 .. Slow, seizes : 0 .. Seizes, faults : 0 .. Faults]
      BY DEF TInv, TypeOK
    <3>2. budget.faults > 0 /\ budget' = [budget EXCEPT !.faults = @ - 1]
      BY <2>1
    <3> QED BY <3>1, <3>2, NatAssumption
  <2>3. Rows'
    BY <2>1 DEF TInv, Rows
  <2> QED BY <1>1, <1>2, <2>1, <2>2, <2>3 DEF TInv, TypeOK
<1> QED BY <1>3, <1>4, <1>6, <1>7, <1>8, <1>9 DEF Meeting

LEMMA TypeRest ==
  ASSUME TInv, Seize \/ HangUp \/ Tick \/ UNCHANGED vars PROVE TInv'
<1> USE DEF OfBacks, OfThread, OfMeeting
<1>1. UNCHANGED <<backs, asked, lock, at, todo, got, state, rows, missed, faults, rung>>
  BY DEF Seize, HangUp, Tick, vars
<1>2. Rows'
  BY <1>1 DEF TInv, Rows
<1>3. CASE Seize
  <2>1. /\ idle' \subseteq idle /\ UNCHANGED <<now, adder>>
        /\ budget.seizes > 0 /\ budget' = [budget EXCEPT !.seizes = @ - 1]
    BY <1>3 DEF Seize
  <2>2. budget' \in [slow : 0 .. Slow, seizes : 0 .. Seizes, faults : 0 .. Faults]
    BY <2>1, NatAssumption DEF TInv, TypeOK
  <2> QED BY <1>1, <1>2, <2>1, <2>2 DEF TInv, TypeOK, Out
<1>4. CASE HangUp
  BY <1>1, <1>2, <1>4 DEF HangUp, TInv, TypeOK, Out
<1>5. CASE Tick
  <2>1. /\ now < MaxTime /\ now' = now + 1 /\ UNCHANGED <<idle, budget>>
        /\ adder # NoAdder => adder.lag < Lag
        /\ adder' = IF adder = NoAdder THEN adder ELSE [adder EXCEPT !.lag = @ + 1]
    BY <1>5 DEF Tick
  <2>2. now' \in Times
    BY <2>1, Nats DEF TInv, TypeOK, Times
  <2>3. adder' \in [at : {"out", "link", "fill"}, key : Times,
                    req : Requests \union {None}, lag : 0 .. Lag]
    BY <2>1, Nats DEF TInv, TypeOK
  <2>4. Out'
    BY <2>1 DEF TInv, TypeOK, Out
  <2> QED BY <1>1, <1>2, <2>1, <2>2, <2>3, <2>4 DEF TInv, TypeOK
<1>6. CASE UNCHANGED vars
  BY <1>2, <1>6 DEF vars, TInv, TypeOK, Out
<1> QED BY <1>3, <1>4, <1>5, <1>6

LEMMA TypeStep == ASSUME TInv, IInv, [Next]_vars PROVE TInv'
BY TypeNetwork, TypeUsrBack, TypeMeeting, TypeRest DEF Next

\* Every variable of both threads keeps its type.
THEOREM TrafficTypes == Spec => []TypeOK
<1>1. Init => TInv /\ IInv
  BY TypeInit, FreshInit
<1>2. TInv /\ IInv /\ [Next]_vars => (TInv /\ IInv)'
  BY TypeStep, FreshStep
<1>3. TInv => TypeOK
  BY DEF TInv
<1> QED BY <1>1, <1>2, <1>3, PTL DEF Spec

-----------------------------------------------------------------------------
(* The members of a meeting *)

LEMMA CalledInit == Init => CalledOnce
BY NoneAssumption DEF Init, CalledOnce

\* What any step does to the rows and the calls of a member.
LEMMA CalledStep ==
  ASSUME TInv, IInv, CalledOnce, [Next]_vars PROVE CalledOnce'
<1> USE DEF OfBacks, OfThread, OfMeeting
<1>0. /\ rung \in [Requests \union Members -> Nat] /\ missed \in [Members -> 0 .. Missing]
      /\ faults \in [Members -> Nat] /\ state \in [Members -> {"0", "1"}]
  BY DEF TInv, TypeOK
<1>1. CASE Dial
  <2>1. got.req \in Requests /\ got.req \notin Members
    BY <1>1, RowsAssumption DEF Dial, IInv, Fresh
  <2>2. rung' = [rung EXCEPT ![got.req] = @ + 1] /\ UNCHANGED <<state, missed, faults>>
    BY <1>1 DEF Dial
  <2>3. \A m \in Members : rung'[m] = rung[m]
    BY <2>1, <2>2, <1>0
  <2> QED BY <2>2, <2>3 DEF CalledOnce
<1>2. CASE CallMember
  <2>1. /\ PagerLibrary(Head(rows)) /\ rows # <<>> /\ UNCHANGED faults
        /\ state' = [state EXCEPT ![Head(rows)] = "1"]
    BY <1>2 DEF CallMember, TakeLine
  <2>2. Head(rows) \in Members /\ state[Head(rows)] = "0"
    BY <2>1, RestOfRows DEF TInv
  <2>3. \A m \in Members : state'[m] = (IF m = Head(rows) THEN "1" ELSE state[m])
    BY <2>1, <1>0
  <2>4. \A m \in Members : rung'[m] + missed'[m]
                            = rung[m] + missed[m] + (IF m = Head(rows) THEN 1 ELSE 0)
    BY <2>1, PagerCounts DEF TInv
  <2> QED BY <2>1, <2>2, <2>3, <2>4, <1>0 DEF CalledOnce
<1>3. CASE UpdateThrows
  <2>1. /\ PagerLibrary(Head(rows)) /\ rows # <<>> /\ UNCHANGED state
        /\ faults' = [faults EXCEPT ![Head(rows)] = @ + 1]
    BY <1>3 DEF UpdateThrows, TakeLine
  <2>2. \A m \in Members : faults'[m] = (IF m = Head(rows) THEN faults[m] + 1 ELSE faults[m])
    BY <2>1, <1>0
  <2>3. \A m \in Members : rung'[m] + missed'[m]
                            = rung[m] + missed[m] + (IF m = Head(rows) THEN 1 ELSE 0)
    BY <2>1, PagerCounts DEF TInv
  <2> QED BY <2>1, <2>2, <2>3, <1>0 DEF CalledOnce
<1>4. ASSUME UNCHANGED <<rung, state, missed, faults>> PROVE CalledOnce'
  BY <1>4 DEF CalledOnce
<1>5. CASE NetworkThread
  BY <1>4, <1>5 DEF NetworkThread, NetworkLock, NetworkUnlock, AddUsrBack, Link, Fill
<1>6. CASE Wakeup \/ Read \/ ReadAll \/ Lock \/ GiveUp \/ DialNone
  BY <1>4, <1>6 DEF Wakeup, Read, ReadAll, Lock, GiveUp, DialNone
<1>7. CASE Requery \/ LastRow \/ NoLine \/ ReadThrows
  BY <1>4, <1>7 DEF Requery, LastRow, NoLine, ReadThrows
<1>8. CASE Seize \/ HangUp \/ Tick \/ UNCHANGED vars
  BY <1>4, <1>8 DEF Seize, HangUp, Tick, vars
<1> QED BY <1>1, <1>2, <1>3, <1>5, <1>6, <1>7, <1>8 DEF Next, UsrBack, Meeting

\* PagerLibrary is asked to call a member again only when the update of his row has
\* failed, and a row is marked only when it was asked, however the rounds of CTraffic's
\* thread end, whatever their record set still holds and whether or not the plug-in is
\* there.
THEOREM MemberCalledOnce == Spec => []CalledOnce
<1>1. Init => TInv /\ IInv /\ CalledOnce
  BY TypeInit, FreshInit, CalledInit
<1>2. TInv /\ IInv /\ CalledOnce /\ [Next]_vars => (TInv /\ IInv /\ CalledOnce)'
  BY TypeStep, FreshStep, CalledStep
<1> QED BY <1>1, <1>2, PTL DEF Spec

-----------------------------------------------------------------------------
(* The callers who are owed a call *)

\* The keys a caller's entries have.
Keys(r) == {t \in DOMAIN backs : backs[t] = r}

\* AddUsrBack's caller, if it is r.
Added(r) == IF adder.req = r THEN 1 ELSE 0

LEMMA OwedIs ==
  OwedOnce <=> \A r \in Requests :
                 rung[r] + Cardinality(Keys(r)) + Added(r) = IF r \in asked THEN 1 ELSE 0
BY DEF OwedOnce, Keys, Added

\* The map is finite: its keys are times.
LEMMA KeysFinite ==
  ASSUME TInv, NEW r
  PROVE  IsFiniteSet(Keys(r)) /\ Cardinality(Keys(r)) \in Nat
<1>1. Keys(r) \in SUBSET (0 .. MaxTime)
  BY DEF TInv, TypeOK, Keys, Times
<1>2. MaxTime \in Int /\ 0 \in Int
  BY Nats
<1>3. IsFiniteSet(0 .. MaxTime)
  BY <1>2, FS_Interval
<1> QED BY <1>1, <1>3, FS_Subset, FS_CardinalityType

\* A step that leaves what a caller is owed and what he got as it was.
LEMMA OwedSame ==
  ASSUME OwedOnce, asked' = asked, \A r \in Requests : rung'[r] = rung[r],
         \A r \in Requests : Keys(r)' = Keys(r), \A r \in Requests : Added(r)' = Added(r)
  PROVE  OwedOnce'
<1> SUFFICES ASSUME NEW r \in Requests
             PROVE  rung'[r] + Cardinality(Keys(r)') + Added(r)'
                      = IF r \in asked' THEN 1 ELSE 0
  BY DEF OwedOnce, Keys, Added
<1> QED BY OwedIs

LEMMA OwedInit == Init => OwedOnce
<1> SUFFICES ASSUME Init, NEW r \in Requests
             PROVE  rung[r] + Cardinality(Keys(r)) + Added(r) = IF r \in asked THEN 1 ELSE 0
  BY OwedIs
<1>1. Keys(r) = {} /\ Added(r) = 0 /\ rung[r] = 0 /\ asked = {}
  BY NoneAssumption DEF Init, Keys, Added, NoAdder
<1> QED BY <1>1, FS_EmptySet

LEMMA OwedAdd ==
  ASSUME TInv, IInv, OwedOnce, AddUsrBack PROVE OwedOnce'
<1>1. PICK r \in Requests \ asked, key \in Times :
        /\ adder' = [at |-> "link", key |-> key, req |-> r, lag |-> 0]
        /\ asked' = asked \union {r}
  BY DEF AddUsrBack
<1>2. UNCHANGED <<backs, rung>> /\ adder = NoAdder
  BY DEF AddUsrBack, TInv, Out
<1>3. \A q \in Requests : Added(q) = 0 /\ Added(q)' = (IF q = r THEN 1 ELSE 0)
  BY <1>1, <1>2, NoneAssumption DEF Added, NoAdder
<1>4. \A q \in Requests : Keys(q)' = Keys(q)
  BY <1>2 DEF Keys
<1> SUFFICES ASSUME NEW q \in Requests
             PROVE  rung'[q] + Cardinality(Keys(q)') + Added(q)'
                      = IF q \in asked' THEN 1 ELSE 0
  BY DEF OwedOnce, Keys, Added
<1>5. rung[q] \in Nat /\ Cardinality(Keys(q)) \in Nat
  BY KeysFinite DEF TInv, TypeOK
<1>6. rung[q] + Cardinality(Keys(q)) + Added(q) = IF q \in asked THEN 1 ELSE 0
  BY OwedIs
<1> QED BY <1>1, <1>2, <1>3, <1>4, <1>5, <1>6

LEMMA OwedLink ==
  ASSUME TInv, IInv, OwedOnce, Link PROVE OwedOnce'
<1>1. /\ backs' = With(adder.key, None) /\ adder.key \notin DOMAIN backs
      /\ adder' = [adder EXCEPT !.at = "fill"] /\ UNCHANGED <<asked, rung>>
  BY DEF Link, IInv, Empty, OfMeeting
<1>2. \A r \in Requests : Keys(r)' = Keys(r)
  BY <1>1, NoneAssumption DEF Keys, With
<1>3. \A r \in Requests : Added(r)' = Added(r)
  BY <1>1 DEF Added, TInv, TypeOK
<1> QED BY <1>1, <1>2, <1>3, OwedSame

LEMMA OwedFill ==
  ASSUME TInv, IInv, OwedOnce, Fill PROVE OwedOnce'
<1>1. /\ backs' = With(adder.key, adder.req) /\ adder' = NoAdder
      /\ UNCHANGED <<asked, rung>>
      /\ adder.key \in DOMAIN backs /\ backs[adder.key] = None /\ adder.req \in Requests
  BY DEF Fill, IInv, Empty, Adding
<1> SUFFICES ASSUME NEW q \in Requests
             PROVE  rung'[q] + Cardinality(Keys(q)') + Added(q)'
                      = IF q \in asked' THEN 1 ELSE 0
  BY DEF OwedOnce, Keys, Added
<1>2. rung[q] + Cardinality(Keys(q)) + Added(q) = IF q \in asked THEN 1 ELSE 0
  BY OwedIs
<1>3. rung[q] \in Nat /\ Cardinality(Keys(q)) \in Nat /\ IsFiniteSet(Keys(q))
  BY KeysFinite DEF TInv, TypeOK
<1>4. Added(q)' = 0
  BY <1>1, NoneAssumption DEF Added, NoAdder
<1>5. CASE q = adder.req
  <2>1. Keys(q)' = Keys(q) \union {adder.key} /\ adder.key \notin Keys(q)
    BY <1>1, <1>5, NoneAssumption DEF Keys, With
  <2>2. Cardinality(Keys(q)') = Cardinality(Keys(q)) + 1
    BY <2>1, <1>3, FS_AddElement
  <2>3. Added(q) = 1
    BY <1>5 DEF Added
  <2> QED BY <1>1, <1>2, <1>3, <1>4, <2>2, <2>3
<1>6. CASE q # adder.req
  <2>1. Keys(q)' = Keys(q)
    BY <1>1, <1>6, NoneAssumption DEF Keys, With
  <2>2. Added(q) = 0
    BY <1>6 DEF Added
  <2> QED BY <1>1, <1>2, <1>3, <1>4, <2>1, <2>2
<1> QED BY <1>5, <1>6

LEMMA OwedDial ==
  ASSUME TInv, IInv, OwedOnce, Dial PROVE OwedOnce'
<1>1. /\ backs' = Removed(got.key) /\ rung' = [rung EXCEPT ![got.req] = @ + 1]
      /\ UNCHANGED <<asked, adder>>
      /\ got.req \in Requests /\ got.key \in DOMAIN backs /\ backs[got.key] = got.req
  BY DEF Dial, IInv, Fresh
<1> SUFFICES ASSUME NEW q \in Requests
             PROVE  rung'[q] + Cardinality(Keys(q)') + Added(q)'
                      = IF q \in asked' THEN 1 ELSE 0
  BY DEF OwedOnce, Keys, Added
<1>2. rung[q] + Cardinality(Keys(q)) + Added(q) = IF q \in asked THEN 1 ELSE 0
  BY OwedIs
<1>3. rung[q] \in Nat /\ Cardinality(Keys(q)) \in Nat /\ IsFiniteSet(Keys(q))
  BY KeysFinite DEF TInv, TypeOK
<1>4. Added(q)' = Added(q) /\ Added(q) \in Nat
  BY <1>1 DEF Added
<1>5. rung'[q] = (IF q = got.req THEN rung[q] + 1 ELSE rung[q])
  BY <1>1 DEF TInv, TypeOK
<1>6. CASE q = got.req
  <2>1. Keys(q)' = Keys(q) \ {got.key} /\ got.key \in Keys(q)
    BY <1>1, <1>6 DEF Keys, Removed
  <2>2. Cardinality(Keys(q)') = Cardinality(Keys(q)) - 1
    BY <2>1, <1>3, FS_RemoveElement
  <2> QED BY <1>1, <1>2, <1>3, <1>4, <1>5, <1>6, <2>2
<1>7. CASE q # got.req
  <2>1. Keys(q)' = Keys(q)
    BY <1>1, <1>7 DEF Keys, Removed
  <2> QED BY <1>1, <1>2, <1>3, <1>4, <1>5, <1>7, <2>1
<1> QED BY <1>6, <1>7

LEMMA OwedStep ==
  ASSUME TInv, IInv, OwedOnce, [Next]_vars PROVE OwedOnce'
<1> USE DEF OfBacks, OfThread, OfMeeting
<1>1. CASE CallMember \/ UpdateThrows
  <2>1. UNCHANGED <<backs, asked, adder>> /\ rows # <<>> /\ PagerLibrary(Head(rows))
    BY <1>1 DEF CallMember, UpdateThrows, TakeLine
  <2>2. \A r \in Requests : rung'[r] = rung[r]
    BY <2>1, PagerCounts DEF TInv
  <2> QED BY <2>1, <2>2, OwedSame DEF Keys, Added
<1>2. ASSUME UNCHANGED <<backs, asked, rung>>, adder'.req = adder.req PROVE OwedOnce'
  BY <1>2, OwedSame DEF Keys, Added
<1>3. CASE NetworkLock \/ NetworkUnlock
  BY <1>2, <1>3 DEF NetworkLock, NetworkUnlock
<1>4. CASE Wakeup \/ Read \/ ReadAll \/ Lock \/ GiveUp \/ DialNone
  BY <1>2, <1>4 DEF Wakeup, Read, ReadAll, Lock, GiveUp, DialNone
<1>5. CASE Requery \/ LastRow \/ NoLine \/ ReadThrows
  BY <1>2, <1>5 DEF Requery, LastRow, NoLine, ReadThrows
<1>6. CASE Seize \/ HangUp \/ UNCHANGED vars
  BY <1>2, <1>6 DEF Seize, HangUp, vars
<1>7. CASE Tick
  <2>1. /\ UNCHANGED <<backs, asked, rung>>
        /\ adder' = IF adder = NoAdder THEN adder ELSE [adder EXCEPT !.lag = @ + 1]
    BY <1>7 DEF Tick
  <2>2. adder'.req = adder.req
    BY <2>1 DEF TInv, TypeOK
  <2> QED BY <1>2, <2>1, <2>2
<1> QED BY <1>1, <1>3, <1>4, <1>5, <1>6, <1>7, OwedAdd, OwedLink, OwedFill, OwedDial
        DEF Next, NetworkThread, UsrBack, Meeting

\* Who is owed a call back is in the map exactly once, or about to be, until he is
\* called, and is called once: two callers never share a key, and none is lost.
THEOREM CallerOwedOnce == Spec => []OwedOnce
<1>1. Init => TInv /\ IInv /\ OwedOnce
  BY TypeInit, FreshInit, OwedInit
<1>2. TInv /\ IInv /\ OwedOnce /\ [Next]_vars => (TInv /\ IInv /\ OwedOnce)'
  BY TypeStep, FreshStep, OwedStep
<1> QED BY <1>1, <1>2, PTL DEF Spec
=============================================================================
