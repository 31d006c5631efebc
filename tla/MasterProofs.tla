---------------------------- MODULE MasterProofs -----------------------------
(***************************************************************************)
(* xmaster for any number of connections, users and calls: nothing is      *)
(* billed without a tariff and a record, and no two channels bill to one   *)
(* record.                                                                 *)
(***************************************************************************)
EXTENDS Master, SequenceTheorems, TLAPS

\* A channel whose BIND was accepted, or whose number at least was found.
Paying(k) == k.fee \in Tariffs /\ k.rec # 0

\* Who may bill, now or with what it has yet to read.
Talks(in) == \E i \in DOMAIN in : in[i] = Talk
Entitled(k, what, in) == k.conn \/ k.nav \/ what = "bound" \/ Talks(in)

\* A line talks only once its BIND was accepted; from then on the channel has a tariff
\* and a record, whatever else it is sent.
Bought == \A c \in Conns : Entitled(chan[c], client[c], inbox[c]) => Paying(chan[c])

\* A record is one channel's, whether or not it bills at the moment.
Own == \A c, d \in Conns : c # d /\ chan[c].rec # 0 => chan[c].rec # chan[d].rec

\* A round visits those in the list.
Visits == \A i \in DOMAIN todo : todo[i] \in Listed

MInv == TypeOK /\ Bought /\ Own /\ Visits

-----------------------------------------------------------------------------
(* What a visit works on *)

Rows   == [usr : Users, exp : Int, saved : Int]
Purses == [Users -> [pre : Int, bal : Int]]
States == {"none", "new", "bound", "refused", "gone"}

Worlds == [k : Channels, in : Seq(Packets), closed : BOOLEAN, client : States,
           purse : Purses, recs : Seq(Rows), thrown : BOOLEAN]

\* What a visit to c may come to.
Sound(c, w) ==
  /\ w \in Worlds
  /\ Entitled(w.k, w.client, w.in) => Paying(w.k)
  /\ Len(recs) <= Len(w.recs) /\ w.k.rec <= Len(w.recs)
  /\ w.k.rec = chan[c].rec \/ w.k.rec > Len(recs)

LEMMA Constants ==
  /\ None \notin Users /\ Known \subseteq Users /\ AgeCap \in Nat /\ Lag \in Nat
  /\ NoTariff \notin Tariffs /\ Binds \subseteq BindPackets
  /\ NoFee \in Int /\ Never \in Int /\ Never < 0
BY MasterAssumption, BindsAssumption DEF NoTariff, Tariffs, NoFee, Never

LEMMA CostIsInt ==
  ASSUME NEW t \in Tariffs, NEW n \in Int PROVE CalcExpense(t, n) \in Int
<1>1. /\ t.rule \in Int /\ t.rule > 0 /\ t.fee \in Int /\ t.fixed \in Int
  BY DEF Tariffs
<1>2. (n + t.rule - 1) \div t.rule \in Int
  BY <1>1
<1> QED BY <1>1, <1>2 DEF CalcExpense

LEMMA PurseKept ==
  ASSUME NEW p \in Purses, NEW u \in Users, NEW x \in Int
  PROVE  WriteUserInfo(p, u, x) \in Purses
<1>1. /\ p[u] \in [pre : Int, bal : Int]
      /\ [p[u] EXCEPT !.pre = @ - x] \in [pre : Int, bal : Int]
      /\ [pre |-> 0, bal |-> p[u].bal - (x - p[u].pre)] \in [pre : Int, bal : Int]
      /\ [p[u] EXCEPT !.bal = @ - x] \in [pre : Int, bal : Int]
  BY DEF Purses
<1>2. \A row \in [pre : Int, bal : Int] : [p EXCEPT ![u] = row] \in Purses
  BY DEF Purses
<1> QED BY <1>1, <1>2 DEF WriteUserInfo

LEMMA PricedRow ==
  ASSUME NEW r \in Rows, NEW x \in Int, NEW save \in BOOLEAN
  PROVE  Priced(r, x, save) \in Rows
BY DEF Priced, Rows

LEMMA WorldSound ==
  ASSUME MInv, NEW c \in Conns PROVE Sound(c, World(c))
BY DEF MInv, TypeOK, Bought, Sound, World, Worlds, Rows, Purses, States

\* A record is in the table once the channel has one.
LEMMA InTable ==
  ASSUME NEW c \in Conns, NEW w, Sound(c, w), w.k.rec # 0
  PROVE  w.k.rec \in DOMAIN w.recs /\ w.recs[w.k.rec] \in Rows
<1>1. w.k.rec \in Nat /\ w.recs \in Seq(Rows) /\ w.k.rec <= Len(w.recs)
  BY DEF Sound, Worlds, Channels
<1> QED BY <1>1

\* Sound is kept by what changes the purse and the records in place.
LEMMA SoundMoney ==
  ASSUME NEW c \in Conns, NEW w, Sound(c, w), NEW v \in Worlds,
         v.k = w.k, v.in = w.in, v.client = w.client, Len(v.recs) = Len(w.recs)
  PROVE  Sound(c, v)
BY DEF Sound

LEMMA WrittenSound ==
  ASSUME NEW c \in Conns, NEW w, Sound(c, w), Paying(w.k),
         NEW price \in Int, NEW save \in BOOLEAN, NEW fault \in BOOLEAN
  PROVE  /\ Sound(c, WriteExpense(w, price, save, fault))
         /\ WriteExpense(w, price, save, fault).k = w.k
         /\ WriteExpense(w, price, save, fault).client = w.client
<1> DEFINE i    == w.k.rec
           due  == price - Spent(w)
           thr  == due # 0 /\ (fault \/ w.k.usr = None)
           rows == [w.recs EXCEPT ![i] = Priced(@, price, save)]
           cash == IF due = 0 \/ thr THEN w.purse ELSE WriteUserInfo(w.purse, w.k.usr, due)
           v    == WriteExpense(w, price, save, fault)
<1>1. w \in Worlds /\ i \in DOMAIN w.recs /\ w.recs[i] \in Rows
  BY InTable DEF Sound, Paying
<1>2. v = [w EXCEPT !.recs = rows, !.purse = cash, !.thrown = thr]
  BY <1>1 DEF WriteExpense, Worlds
<1>3. due \in Int /\ thr \in BOOLEAN
  BY <1>1 DEF Spent, Rows
<1>4. cash \in Purses
  <2>1. w.purse \in Purses /\ (due # 0 /\ ~ thr => w.k.usr \in Users)
    BY <1>1 DEF Worlds, Channels
  <2> HIDE DEF due, thr
  <2> QED BY <1>3, <2>1, PurseKept
<1>5. rows \in Seq(Rows) /\ Len(rows) = Len(w.recs)
  <2>1. Priced(w.recs[i], price, save) \in Rows
    BY <1>1, PricedRow
  <2>2. w.recs \in Seq(Rows) /\ i \in 1 .. Len(w.recs)
    BY <1>1 DEF Worlds
  <2>3. rows = [w.recs EXCEPT ![i] = Priced(w.recs[i], price, save)]
    OBVIOUS
  <2> QED BY <2>1, <2>2, <2>3, ExceptSeq
<1> HIDE DEF i, due, thr, rows, cash
<1>6. /\ v \in Worlds
      /\ v.k = w.k /\ v.in = w.in /\ v.client = w.client /\ Len(v.recs) = Len(w.recs)
  BY <1>1, <1>2, <1>3, <1>4, <1>5 DEF Worlds
<1> QED BY <1>6, SoundMoney

LEMMA CompletedSound ==
  ASSUME NEW c \in Conns, NEW w, Sound(c, w), Navigated(w.k), NEW fault \in BOOLEAN
  PROVE  Sound(c, CompleteTask(w, fault))
<1> DEFINE n     == NLength(w.k)
           price == IF n < ShortFree THEN 0 ELSE CalcExpense(w.k.fee, n)
           done  == WriteExpense(w, price, TRUE, fault)
           v     == [done EXCEPT !.k.nav = FALSE, !.k.paid = Never]
<1>1. Paying(w.k) /\ w \in Worlds
  BY DEF Sound, Navigated, Entitled
<1>2. n \in Int
  BY <1>1, Constants DEF Worlds, Channels, NLength
<1>3. price \in Int
  BY <1>1, <1>2, CostIsInt DEF Paying
<1>4. Sound(c, done) /\ done.k = w.k
  BY <1>1, <1>3, WrittenSound
<1>5. CompleteTask(w, fault) = IF done.thrown THEN done ELSE v
  BY DEF CompleteTask
<1> HIDE DEF done
<1>6. Sound(c, v)
  <2>1. v = [done EXCEPT !.k = [done.k EXCEPT !.nav = FALSE, !.paid = Never]]
    BY <1>4 DEF Sound, Worlds, Channels
  <2>2. [done.k EXCEPT !.nav = FALSE, !.paid = Never] \in Channels
    BY <1>4 DEF Sound, Worlds, Channels
  <2>3. /\ v \in Worlds /\ v.in = done.in /\ v.client = done.client /\ v.recs = done.recs
        /\ v.k.rec = done.k.rec /\ v.k.fee = done.k.fee
    BY <1>4, <2>1, <2>2 DEF Sound, Worlds, Channels
  <2> QED BY <1>1, <1>4, <2>3 DEF Sound, Paying
<1> QED BY <1>4, <1>5, <1>6

-----------------------------------------------------------------------------
(* How a visit ends *)

Limits == /\ up \in BOOLEAN /\ lag \in 0 .. Lag
          /\ budget \in [{"accepts", "sends", "faults", "crashes", "stops"} -> Nat]

\* The rest of a sequence without repetitions has none.
LEMMA RestOnce ==
  ASSUME NEW S, NEW s \in Seq(S), IsInjective(s), s # <<>>
  PROVE  /\ Tail(s) \in Seq(S) /\ IsInjective(Tail(s))
         /\ \A i \in DOMAIN Tail(s) : /\ i + 1 \in DOMAIN s /\ Tail(s)[i] = s[i + 1]
                                      /\ Tail(s)[i] # Head(s)
         /\ 1 \in DOMAIN s /\ Head(s) = s[1] /\ Head(s) \in S
BY DEF IsInjective

\* Remove takes one out and leaves the others.
LEMMA WithoutOne ==
  ASSUME NEW S, NEW s \in Seq(S), IsInjective(s), NEW k \in DOMAIN s
  PROVE  LET r == Without(s, s[k]) IN
         /\ r \in Seq(S) /\ IsInjective(r)
         /\ \A i \in DOMAIN s : s[i] # s[k] => \E j \in DOMAIN r : r[j] = s[i]
         /\ \A j \in DOMAIN r : r[j] # s[k] /\ \E i \in DOMAIN s : r[j] = s[i]
<1> DEFINE r == Without(s, s[k])
<1>1. (CHOOSE i \in DOMAIN s : s[i] = s[k]) = k
  BY DEF IsInjective
<1>2. r = SubSeq(s, 1, k - 1) \o SubSeq(s, k + 1, Len(s))
  BY <1>1 DEF Without, RemoveAt
<1>3. k \in 1 .. Len(s) /\ Len(s) \in Nat
  OBVIOUS
<1>4. /\ r \in Seq(S) /\ Len(r) = Len(s) - 1
      /\ \A j \in 1 .. Len(s) - 1 : r[j] = IF j < k THEN s[j] ELSE s[j + 1]
  <2> DEFINE a == SubSeq(s, 1, k - 1)
             b == SubSeq(s, k + 1, Len(s))
  <2>1. /\ a \in Seq(S) /\ Len(a) = k - 1
        /\ \A j \in 1 .. k - 1 : a[j] = s[j]
    BY <1>3
  <2>2. /\ b \in Seq(S) /\ Len(b) = Len(s) - k
        /\ \A j \in 1 .. Len(s) - k : b[j] = s[k + j]
    BY <1>3
  <2> HIDE DEF a, b
  <2>3. /\ a \o b \in Seq(S) /\ Len(a \o b) = Len(a) + Len(b)
        /\ \A j \in 1 .. Len(a) + Len(b) :
             (a \o b)[j] = IF j <= Len(a) THEN a[j] ELSE b[j - Len(a)]
    BY <2>1, <2>2, ConcatProperties
  <2>4. r = a \o b
    BY <1>2 DEF a, b
  <2> HIDE DEF r
  <2>5. Len(r) = Len(s) - 1 /\ r \in Seq(S)
    BY <1>3, <2>1, <2>2, <2>3, <2>4
  <2>6. ASSUME NEW j \in 1 .. Len(s) - 1 PROVE r[j] = IF j < k THEN s[j] ELSE s[j + 1]
    <3>1. r[j] = IF j <= k - 1 THEN a[j] ELSE b[j - (k - 1)]
      <4>1. j \in 1 .. Len(a) + Len(b) /\ Len(a) = k - 1
        BY <1>3, <2>1, <2>2
      <4> QED BY <2>3, <2>4, <4>1
    <3>2. CASE j < k
      BY <1>3, <2>1, <3>1, <3>2
    <3>3. CASE ~ (j < k)
      <4>1. j - (k - 1) \in 1 .. Len(s) - k /\ k + (j - (k - 1)) = j + 1
        BY <1>3, <3>3
      <4> QED BY <1>3, <2>2, <3>1, <3>3, <4>1
    <3> QED BY <3>2, <3>3
  <2> QED BY <2>5, <2>6
<1> HIDE DEF r
<1>5. IsInjective(r)
  <2>1. SUFFICES ASSUME NEW i \in DOMAIN r, NEW j \in DOMAIN r, r[i] = r[j] PROVE i = j
    BY DEF IsInjective
  <2>2. /\ i \in 1 .. Len(s) - 1 /\ j \in 1 .. Len(s) - 1
        /\ \A m, n \in 1 .. Len(s) : s[m] = s[n] => m = n
    BY <1>4 DEF IsInjective
  <2> DEFINE p == IF i < k THEN i ELSE i + 1
             q == IF j < k THEN j ELSE j + 1
  <2>3. p \in 1 .. Len(s) /\ q \in 1 .. Len(s)
    BY <1>3, <2>2
  <2>4. s[p] = r[i] /\ s[q] = r[j]
    BY <1>4, <2>2
  <2>5. p = q
    <3> HIDE DEF p, q
    <3> QED BY <2>1, <2>2, <2>3, <2>4
  <2> QED BY <1>3, <2>2, <2>5
<1>6. ASSUME NEW i \in DOMAIN s, s[i] # s[k] PROVE \E j \in DOMAIN r : r[j] = s[i]
  <2>1. CASE i < k
    BY <1>3, <1>4, <1>6, <2>1
  <2>2. CASE i > k
    <3>1. i - 1 \in DOMAIN r /\ r[i - 1] = s[i]
      BY <1>3, <1>4, <1>6, <2>2
    <3> QED BY <3>1
  <2> QED BY <1>6, <2>1, <2>2
<1>7. ASSUME NEW j \in DOMAIN r PROVE r[j] # s[k] /\ \E i \in DOMAIN s : r[j] = s[i]
  BY <1>3, <1>4, <1>7 DEF IsInjective
<1> QED BY <1>4, <1>5, <1>6, <1>7 DEF r


\* The channel visited goes back to the list as w says.
LEMMA KeepStep ==
  ASSUME MInv, NEW c \in Conns, NEW w, Sound(c, w), Limits', todo # <<>>,
         NEW next \in {<<>>, Tail(todo)}, Keep(c, w, next)
  PROVE  MInv'
<1>1. /\ w \in Worlds /\ w.k \in Channels /\ w.in \in Seq(Packets) /\ w.closed \in BOOLEAN
      /\ w.client \in States /\ w.purse \in Purses /\ w.recs \in Seq(Rows)
  BY DEF Sound, Worlds
<1>2. /\ chan' = [chan EXCEPT ![c] = w.k] /\ inbox' = [inbox EXCEPT ![c] = w.in]
      /\ closed' = [closed EXCEPT ![c] = w.closed]
      /\ client' = [client EXCEPT ![c] = w.client]
      /\ todo' = next /\ purse' = w.purse /\ recs' = w.recs /\ list' = list /\ party' = party
  BY DEF Keep
<1>3. /\ todo \in Seq(Conns) /\ IsInjective(todo) /\ Len(recs) \in Nat
      /\ chan \in [Conns -> Channels] /\ \A d \in Conns : chan[d].rec \in Nat
      /\ \A d \in Conns : chan[d].rec <= Len(recs)
  BY DEF MInv, TypeOK, Channels
<1>4. /\ w.k.rec \in Nat /\ Len(w.recs) \in Nat
      /\ Len(recs) <= Len(w.recs) /\ w.k.rec <= Len(w.recs)
  BY <1>1 DEF Sound, Channels
<1>5. todo' \in Seq(Conns) /\ IsInjective(todo') /\ Visits'
  <2>1. CASE next = <<>>
    BY <1>2, <2>1 DEF IsInjective, Visits
  <2>2. CASE next = Tail(todo)
    <3>1. \A i \in DOMAIN Tail(todo) : Tail(todo)[i] \in Listed
      BY <1>3, RestOnce DEF MInv, Visits
    <3> QED BY <1>2, <1>3, <2>2, <3>1, RestOnce DEF Visits, Listed
  <2> QED BY <2>1, <2>2
<1>6. \A d \in Conns : chan'[d] = IF d = c THEN w.k ELSE chan[d]
  BY <1>2, <1>3
<1>7. TypeOK'
  <2>1. \A d \in Conns : chan'[d].rec <= Len(recs')
    BY <1>2, <1>3, <1>4, <1>6
  <2>2. /\ chan' \in [Conns -> Channels] /\ inbox' \in [Conns -> Seq(Packets)]
        /\ client' \in [Conns -> States] /\ closed' \in [Conns -> BOOLEAN]
    BY <1>1, <1>2 DEF MInv, TypeOK, States
  <2>3. /\ list' \in Seq(Conns) /\ IsInjective(list') /\ party' \in [Conns -> Users \union {None}]
        /\ purse' \in Purses /\ recs' \in Seq(Rows)
    BY <1>1, <1>2 DEF MInv, TypeOK
  <2> QED BY <1>5, <2>1, <2>2, <2>3 DEF TypeOK, Limits, States, Purses, Rows
<1>8. Bought'
  <2>1. \A d \in Conns : /\ client'[d] = IF d = c THEN w.client ELSE client[d]
                         /\ inbox'[d] = IF d = c THEN w.in ELSE inbox[d]
    BY <1>2 DEF MInv, TypeOK
  <2>2. Entitled(w.k, w.client, w.in) => Paying(w.k)
    BY DEF Sound
  <2> QED BY <1>6, <2>1, <2>2 DEF MInv, Bought
<1>9. Own'
  <2>1. \A d \in Conns : d # c /\ w.k.rec # 0 => w.k.rec # chan[d].rec
    BY <1>3, <1>4 DEF Sound, MInv, Own
  <2> QED BY <1>6, <2>1 DEF MInv, Own
<1> QED BY <1>5, <1>7, <1>8, <1>9 DEF MInv

\* The object is deleted.
LEMMA DeleteStep ==
  ASSUME MInv, NEW c \in Conns, NEW w, Sound(c, w), Limits', todo # <<>>, c = Head(todo),
         NEW next \in {<<>>, Tail(todo)}, Delete(c, w, next)
  PROVE  MInv'
<1>1. w \in Worlds /\ w.purse \in Purses /\ w.recs \in Seq(Rows) /\ Len(w.recs) \in Nat
  BY DEF Sound, Worlds
<1>2. /\ chan' = [chan EXCEPT ![c] = NewChannel] /\ inbox' = [inbox EXCEPT ![c] = <<>>]
      /\ closed' = [closed EXCEPT ![c] = FALSE] /\ client' = [client EXCEPT ![c] = "none"]
      /\ party' = [party EXCEPT ![c] = None]
      /\ todo' = next /\ purse' = w.purse /\ recs' = w.recs /\ list' = Without(list, c)
  BY DEF Delete
<1>3. /\ todo \in Seq(Conns) /\ IsInjective(todo) /\ list \in Seq(Conns) /\ IsInjective(list)
      /\ Len(recs) \in Nat
      /\ chan \in [Conns -> Channels] /\ \A d \in Conns : chan[d].rec \in Nat
      /\ \A d \in Conns : chan[d].rec <= Len(recs)
  BY <1>1 DEF MInv, TypeOK, Channels
<1>4. PICK k \in DOMAIN list : list[k] = c
  BY <1>3, RestOnce DEF MInv, Visits, Listed
<1>5. /\ list' \in Seq(Conns) /\ IsInjective(list')
      /\ \A i \in DOMAIN list : list[i] # c => \E j \in DOMAIN list' : list'[j] = list[i]
  BY <1>2, <1>3, <1>4, WithoutOne
<1>6. todo' \in Seq(Conns) /\ IsInjective(todo') /\ Visits'
  <2>1. CASE next = <<>>
    BY <1>2, <2>1 DEF IsInjective, Visits
  <2>2. CASE next = Tail(todo)
    <3>1. \A i \in DOMAIN Tail(todo) : Tail(todo)[i] \in Listed /\ Tail(todo)[i] # c
      BY <1>3, RestOnce DEF MInv, Visits
    <3>2. \A d \in Listed : d # c => d \in Listed'
      BY <1>5 DEF Listed
    <3>3. Tail(todo) \in Seq(Conns) /\ IsInjective(Tail(todo))
      BY <1>3, RestOnce
    <3> QED BY <1>2, <2>2, <3>1, <3>2, <3>3 DEF Visits
  <2> QED BY <2>1, <2>2
<1>7. NewChannel \in Channels /\ NewChannel.rec = 0 /\ ~ NewChannel.conn /\ ~ NewChannel.nav
  BY Constants DEF NewChannel, Channels
<1>8. \A d \in Conns : chan'[d] = IF d = c THEN NewChannel ELSE chan[d]
  BY <1>2, <1>3
<1>9. TypeOK'
  <2>1. \A d \in Conns : chan'[d].rec <= Len(recs')
    BY <1>1, <1>2, <1>3, <1>7, <1>8 DEF Sound
  <2>2. /\ chan' \in [Conns -> Channels] /\ inbox' \in [Conns -> Seq(Packets)]
        /\ client' \in [Conns -> States] /\ closed' \in [Conns -> BOOLEAN]
        /\ party' \in [Conns -> Users \union {None}]
    BY <1>2, <1>7 DEF MInv, TypeOK, States
  <2>3. purse' \in Purses /\ recs' \in Seq(Rows)
    BY <1>1, <1>2
  <2> QED BY <1>5, <1>6, <2>1, <2>2, <2>3 DEF TypeOK, Limits, States, Purses, Rows
<1>10. Bought'
  <2>1. \A d \in Conns : /\ client'[d] = IF d = c THEN "none" ELSE client[d]
                         /\ inbox'[d] = IF d = c THEN <<>> ELSE inbox[d]
    BY <1>2 DEF MInv, TypeOK
  <2> QED BY <1>7, <1>8, <2>1 DEF MInv, Bought, Entitled, Talks
<1>11. Own'
  BY <1>7, <1>8 DEF MInv, Own
<1> QED BY <1>6, <1>9, <1>10, <1>11 DEF MInv


\* The thread visits c; the bounds are kept.
At(c) == c \in Conns /\ todo # <<>> /\ c = Head(todo) /\ Limits'

LEMMA DisconnectStep ==
  ASSUME MInv, NEW c, At(c), NEW w, Sound(c, w), NEW fault \in BOOLEAN,
         NEW next \in {<<>>, Tail(todo)}, Disconnect(c, w, next, fault)
  PROVE  MInv'
<1> DEFINE done == IF Navigated(w.k) THEN CompleteTask(w, fault) ELSE w
<1>1. Sound(c, done)
  BY CompletedSound DEF At
<1>2. IF done.thrown THEN Keep(c, done, <<>>) ELSE Delete(c, done, next)
  BY DEF Disconnect
<1> HIDE DEF done
<1> QED BY <1>1, <1>2, KeepStep, DeleteStep DEF At

\* What happens to the channel alone, and to what the client knows.
LEMMA ToldSound ==
  ASSUME NEW c \in Conns, NEW w, Sound(c, w), NEW state \in States,
         state = "bound" => Paying(w.k)
  PROVE  Sound(c, Told(w, state)) /\ Told(w, state).k = w.k
<1> DEFINE v == Told(w, state)
<1>1. w \in Worlds
  BY DEF Sound
<1>2. /\ v \in Worlds /\ v.k = w.k /\ v.in = w.in /\ v.recs = w.recs
      /\ v.client = w.client \/ v.client = state
  BY <1>1 DEF Worlds, Told
<1> HIDE DEF v
<1>3. Sound(c, v)
  BY <1>1, <1>2 DEF Sound, Entitled
<1> QED BY <1>2, <1>3 DEF v

LEMMA ChannelSound ==
  ASSUME NEW c \in Conns, NEW w, Sound(c, w), NEW k \in Channels, k.rec = w.k.rec,
         Paying(w.k) => Paying(k), k.conn \/ k.nav => w.k.conn \/ w.k.nav \/ Paying(k)
  PROVE  Sound(c, [w EXCEPT !.k = k]) /\ [w EXCEPT !.k = k].k = k
<1> DEFINE v == [w EXCEPT !.k = k]
<1>1. w \in Worlds
  BY DEF Sound
<1>2. v \in Worlds /\ v.k = k /\ v.in = w.in /\ v.recs = w.recs /\ v.client = w.client
  BY <1>1 DEF Worlds
<1> HIDE DEF v
<1>3. Sound(c, v)
  BY <1>1, <1>2 DEF Sound, Entitled
<1> QED BY <1>2, <1>3 DEF v

LEMMA SteppedSound ==
  ASSUME NEW c \in Conns, NEW w, Sound(c, w), Paying(w.k)
  PROVE  /\ Sound(c, Stepped(w)) /\ Paying(Stepped(w).k)
         /\ Stepped(w).k.rec = w.k.rec /\ Stepped(w).recs = w.recs
         /\ Stepped(w).k.fee = w.k.fee
<1> DEFINE n == IF w.k.paid = Never THEN 0 ELSE w.k.paid + w.k.fee.rule
           k == [w.k EXCEPT !.paid = n]
<1>1. w \in Worlds /\ w.k \in Channels /\ w.k.fee.rule \in Nat
  BY DEF Sound, Worlds, Paying, Tariffs
<1>2. n \in Nat
  BY <1>1 DEF Channels
<1>3. k \in Channels /\ k.rec = w.k.rec /\ k.fee = w.k.fee /\ k.conn = w.k.conn /\ k.nav = w.k.nav
  <2> HIDE DEF n
  <2> QED BY <1>1, <1>2 DEF Channels
<1>4. Stepped(w) = [w EXCEPT !.k = k]
  BY <1>1 DEF Stepped, Worlds, Channels
<1>5. Paying(k)
  BY <1>3 DEF Paying
<1>6. [w EXCEPT !.k = k].recs = w.recs
  BY <1>1 DEF Worlds
<1> HIDE DEF k
<1>7. Sound(c, [w EXCEPT !.k = k]) /\ [w EXCEPT !.k = k].k = k
  BY <1>3, <1>5, ChannelSound
<1> QED BY <1>3, <1>4, <1>5, <1>6, <1>7

LEMMA ChargedSound ==
  ASSUME NEW c \in Conns, NEW w, Sound(c, w), Paying(w.k), NEW fault \in BOOLEAN
  PROVE  Sound(c, Charged(w, fault))
<1> DEFINE price == CalcExpense(w.k.fee, NLength(w.k) + 1)
<1>1. w.k.fee \in Tariffs /\ NLength(w.k) + 1 \in Int
  BY Constants DEF Sound, Worlds, Paying, Channels, NLength
<1>2. price \in Int
  BY <1>1, CostIsInt
<1>3. Sound(c, Stepped(w)) /\ Paying(Stepped(w).k)
  BY SteppedSound
<1>4. Charged(w, fault) = WriteExpense(Stepped(w), price, FALSE, fault)
  BY DEF Charged
<1> HIDE DEF price
<1> QED BY <1>2, <1>3, <1>4, WrittenSound

LEMMA OnTimeStep ==
  ASSUME MInv, NEW c, At(c), NEW w, Sound(c, w), NEW fault \in BOOLEAN, OnTime(c, w, fault)
  PROVE  MInv'
<1>1. CASE Late(w.k)
  <2>1. Sound(c, Told(w, "refused"))
    BY ToldSound DEF At, States
  <2> QED BY <1>1, <2>1, DisconnectStep DEF OnTime
<1>2. CASE ~ Late(w.k) /\ ~ (Navigated(w.k) /\ Due(w.k))
  BY <1>2, KeepStep DEF OnTime, At
<1>3. CASE ~ Late(w.k) /\ Navigated(w.k) /\ Due(w.k)
  <2>1. Paying(w.k)
    BY <1>3 DEF Sound, Entitled, Navigated
  <2>2. Sound(c, Stepped(w))
    BY <2>1, SteppedSound DEF At
  <2>3. Sound(c, Told(Stepped(w), "refused"))
    BY <2>2, ToldSound DEF At, States
  <2>4. Sound(c, Charged(w, fault))
    BY <2>1, ChargedSound DEF At
  <2>5. CASE w.k.usr = None
    BY <1>3, <2>2, <2>5, KeepStep DEF OnTime, At
  <2>6. CASE w.k.usr # None /\ ~ CanPay(w)
    BY <1>3, <2>3, <2>6, DisconnectStep DEF OnTime
  <2>7. CASE w.k.usr # None /\ CanPay(w)
    BY <1>3, <2>4, <2>7, KeepStep DEF OnTime, At
  <2> QED BY <2>5, <2>6, <2>7
<1> QED BY <1>1, <1>2, <1>3


-----------------------------------------------------------------------------
(* Packets *)

LEMMA PacketKinds ==
  /\ \A p \in Binds : p.cmd = "bind" /\ p # Talk /\ p \in BindPackets
  /\ Talk.cmd = "talk" /\ Bye.cmd = "bye" /\ Talk # Bye
<1>1. \A p \in Binds : p.cmd = "bind" /\ p \in BindPackets
  BY Constants DEF BindPackets
<1>2. Talk.cmd = "talk" /\ Bye.cmd = "bye"
  BY DEF Talk, Bye
<1> QED BY <1>1, <1>2

LEMMA UserFound ==
  ASSUME NEW u \in Users \union {None} PROVE Lookup(u) \in Users \union {None}
BY DEF Lookup

LEMMA AnnouncedSound ==
  ASSUME NEW c \in Conns, NEW w, Sound(c, w), NEW p \in BindPackets
  PROVE  Sound(c, Announced(w, p))
<1> DEFINE k == [w.k EXCEPT !.usr = Lookup(p.remote)]
<1>1. w \in Worlds /\ w.k \in Channels /\ Lookup(p.remote) \in Users \union {None}
  BY UserFound DEF Sound, Worlds, BindPackets
<1>2. k \in Channels /\ k.rec = w.k.rec /\ k.fee = w.k.fee /\ k.conn = w.k.conn /\ k.nav = w.k.nav
  BY <1>1 DEF Channels
<1>3. [w EXCEPT !.k.usr = Lookup(p.remote)] = [w EXCEPT !.k = k]
  BY <1>1 DEF Worlds
<1> HIDE DEF k
<1>4. Sound(c, [w EXCEPT !.k = k])
  BY <1>2, ChannelSound DEF Paying
<1> QED BY <1>3, <1>4 DEF Announced

\* With a tariff the channel has it, and the row of who pays, if there is one.
LEMMA LookedUpSound ==
  ASSUME NEW c \in Conns, NEW w, Sound(c, w), NEW p \in BindPackets
  PROVE  /\ Sound(c, LookedUp(w, p))
         /\ p.fee # NoTariff => LookedUp(w, p).k.fee \in Tariffs
<1>1. w \in Worlds /\ w.k \in Channels /\ Payer(p) \in Users \union {None}
      /\ p.remote \in Users
  BY DEF Sound, Worlds, BindPackets, Payer
<1>2. CASE p.fee = NoTariff
  <2> DEFINE k == [w.k EXCEPT !.usr = Lookup(p.remote)]
  <2>1. k \in Channels /\ k.rec = w.k.rec /\ k.fee = w.k.fee /\ k.conn = w.k.conn /\ k.nav = w.k.nav
    BY <1>1, UserFound DEF Channels
  <2>2. LookedUp(w, p) = IF p.kind = "CATK" THEN [w EXCEPT !.k = k] ELSE w
    BY <1>1, <1>2 DEF LookedUp, Worlds
  <2> HIDE DEF k
  <2>3. Sound(c, [w EXCEPT !.k = k])
    BY <2>1, ChannelSound DEF Paying
  <2> QED BY <1>2, <2>2, <2>3
<1>3. CASE p.fee # NoTariff
  <2> DEFINE k == [w.k EXCEPT !.usr = Lookup(Payer(p)), !.fee = p.fee]
  <2>1. p.fee \in Tariffs
    BY <1>3 DEF BindPackets
  <2>2. k \in Channels /\ k.rec = w.k.rec /\ k.fee = p.fee /\ k.conn = w.k.conn /\ k.nav = w.k.nav
    BY <1>1, <2>1, UserFound DEF Channels
  <2>3. LookedUp(w, p) = [w EXCEPT !.k = k]
    BY <1>1, <1>3 DEF LookedUp, Worlds
  <2> HIDE DEF k
  <2>4. Sound(c, [w EXCEPT !.k = k]) /\ [w EXCEPT !.k = k].k = k
    BY <2>1, <2>2, ChannelSound DEF Paying
  <2> QED BY <2>1, <2>2, <2>3, <2>4
<1> QED BY <1>2, <1>3

\* The record is a new one, which no other channel has.
LEMMA AddedSound ==
  ASSUME NEW c \in Conns, NEW w, Sound(c, w), w.k.usr \in Users, w.k.fee \in Tariffs
  PROVE  Sound(c, AddExpense(w)) /\ Paying(AddExpense(w).k)
<1> DEFINE row == [usr |-> w.k.usr, exp |-> NoFee, saved |-> NoFee]
           k   == [w.k EXCEPT !.rec = Len(w.recs) + 1]
           v   == [w EXCEPT !.recs = Append(w.recs, row), !.k = k]
<1>1. w \in Worlds /\ w.k \in Channels /\ w.recs \in Seq(Rows) /\ row \in Rows
  BY Constants DEF Sound, Worlds, Rows
<1>2. k \in Channels /\ k.rec = Len(w.recs) + 1 /\ k.fee = w.k.fee /\ Len(w.recs) \in Nat
  BY <1>1 DEF Channels
<1>3. Append(w.recs, row) \in Seq(Rows) /\ Len(Append(w.recs, row)) = Len(w.recs) + 1
  <2> HIDE DEF row
  <2> QED BY <1>1
<1>4. AddExpense(w) = v
  BY <1>1 DEF AddExpense, Worlds, Channels
<1> HIDE DEF row, k
<1>5. v \in Worlds /\ v.k = k /\ Len(v.recs) = Len(w.recs) + 1
  BY <1>1, <1>2, <1>3 DEF Worlds
<1>6. Len(recs) <= Len(w.recs) /\ Paying(k)
  BY <1>2 DEF Sound, Paying
<1> HIDE DEF v
<1>7. Sound(c, v)
  BY <1>2, <1>5, <1>6 DEF Sound
<1> QED BY <1>4, <1>5, <1>6, <1>7


LEMMA AcceptedSound ==
  ASSUME NEW c \in Conns, NEW w, Sound(c, w), Paying(w.k)
  PROVE  Sound(c, Accepted(w))
<1> DEFINE k == [w.k EXCEPT !.conn = TRUE, !.age = 0]
<1>1. w \in Worlds /\ w.k \in Channels /\ 0 \in 0 .. AgeCap
  BY Constants DEF Sound, Worlds
<1>2. k \in Channels /\ k.rec = w.k.rec /\ k.fee = w.k.fee
  BY <1>1 DEF Channels
<1>3. [w EXCEPT !.k.conn = TRUE, !.k.age = 0] = [w EXCEPT !.k = k]
  BY <1>1 DEF Worlds
<1> HIDE DEF k
<1>4. Paying(k)
  BY <1>2 DEF Paying
<1>5. Sound(c, [w EXCEPT !.k = k]) /\ [w EXCEPT !.k = k].k = k
  BY <1>2, <1>4, ChannelSound
<1> QED BY <1>3, <1>4, <1>5, ToldSound DEF Accepted, States

LEMMA BindStep ==
  ASSUME MInv, NEW c, At(c), NEW w0, Sound(c, w0), NEW p \in Binds, NEW fault \in BOOLEAN,
         OnBindPacket(c, w0, p, fault)
  PROVE  MInv'
<1> DEFINE w1 == Announced(w0, p)
           w2 == IF Navigated(w1.k) THEN CompleteTask(w1, fault) ELSE w1
           w3 == LookedUp(w2, p)
           w4 == AddExpense(w3)
<1>1. c \in Conns /\ p \in BindPackets /\ "refused" \in States
  BY PacketKinds DEF At, States
<1>2. Sound(c, w1)
  BY <1>1, AnnouncedSound
<1>3. IF Navigated(w1.k) /\ ~ Direct(p) THEN OnTime(c, w1, fault)
      ELSE IF w2.thrown THEN Keep(c, w2, <<>>)
      ELSE IF p.fee = NoTariff \/ w3.k.usr = None THEN Refuse(c, w3)
      ELSE IF MustWait(w3, p) \/ NoPay(w3) THEN Refuse(c, w3)
      ELSE IF p.remote \in Denied THEN Refuse(c, w4)
      ELSE OnTime(c, Accepted(w4), fault)
  BY DEF OnBindPacket
<1> HIDE DEF w1
<1>4. Sound(c, w2)
  BY <1>1, <1>2, CompletedSound
<1> HIDE DEF w2
<1>5. Sound(c, w3) /\ (p.fee # NoTariff => w3.k.fee \in Tariffs)
  BY <1>1, <1>4, LookedUpSound
<1> HIDE DEF w3
<1>6. p.fee # NoTariff /\ w3.k.usr # None => Sound(c, w4) /\ Paying(w4.k)
  <2>1. w3.k.usr \in Users \union {None}
    BY <1>5 DEF Sound, Worlds, Channels
  <2> QED BY <1>1, <1>5, <2>1, AddedSound
<1> HIDE DEF w4
<1>7. ASSUME NEW w, Sound(c, w), Refuse(c, w) PROVE MInv'
  <2>1. Sound(c, Told(w, "refused"))
    BY <1>1, <1>7, ToldSound
  <2> QED BY <1>7, <2>1, KeepStep DEF Refuse, At
<1>8. CASE Navigated(w1.k) /\ ~ Direct(p)
  BY <1>2, <1>3, <1>8, OnTimeStep
<1>9. CASE ~ (Navigated(w1.k) /\ ~ Direct(p)) /\ w2.thrown
  BY <1>3, <1>4, <1>9, KeepStep DEF At
<1>10. CASE ~ (Navigated(w1.k) /\ ~ Direct(p)) /\ ~ w2.thrown
            /\ (p.fee = NoTariff \/ w3.k.usr = None \/ MustWait(w3, p) \/ NoPay(w3))
  BY <1>3, <1>5, <1>7, <1>10
<1>11. CASE /\ ~ (Navigated(w1.k) /\ ~ Direct(p)) /\ ~ w2.thrown
            /\ ~ (p.fee = NoTariff \/ w3.k.usr = None \/ MustWait(w3, p) \/ NoPay(w3))
  <2>1. Sound(c, w4) /\ Sound(c, Accepted(w4))
    BY <1>1, <1>6, <1>11, AcceptedSound
  <2> QED BY <1>3, <1>7, <1>11, <2>1, OnTimeStep
<1> QED BY <1>8, <1>9, <1>10, <1>11

LEMMA TalkStep ==
  ASSUME MInv, NEW c, At(c), NEW w, Sound(c, w), Paying(w.k), NEW fault \in BOOLEAN,
         OnTalkPacket(c, w, fault)
  PROVE  MInv'
<1>1. CASE Navigated(w.k)
  BY <1>1, OnTimeStep DEF OnTalkPacket
<1>2. CASE ~ Navigated(w.k)
  <2> DEFINE k == [w.k EXCEPT !.nav = TRUE, !.conn = TRUE, !.paid = Never, !.age = 0]
  <2>1. w \in Worlds /\ w.k \in Channels /\ c \in Conns /\ 0 \in 0 .. AgeCap
    BY Constants DEF Sound, Worlds, At
  <2>2. k \in Channels /\ k.rec = w.k.rec /\ k.fee = w.k.fee
    BY <2>1 DEF Channels
  <2>3. OnTime(c, [w EXCEPT !.k = k], fault)
    <3>1. [w EXCEPT !.k.nav = TRUE, !.k.conn = TRUE, !.k.paid = Never, !.k.age = 0]
            = [w EXCEPT !.k = k]
      BY <2>1 DEF Worlds
    <3> QED BY <1>2, <3>1 DEF OnTalkPacket
  <2> HIDE DEF k
  <2>4. Paying(k)
    BY <2>2 DEF Paying
  <2>5. Sound(c, [w EXCEPT !.k = k])
    BY <2>1, <2>2, <2>4, ChannelSound
  <2> QED BY <2>3, <2>5, OnTimeStep
<1> QED BY <1>1, <1>2

\* A packet leaves the others as they were.
LEMMA ReadSound ==
  ASSUME MInv, NEW c \in Conns, inbox[c] # <<>>
  PROVE  LET w == [World(c) EXCEPT !.in = Tail(@)] IN
         Sound(c, w) /\ (Head(inbox[c]) = Talk => Paying(w.k)) /\ Head(inbox[c]) \in Packets
<1> DEFINE w == [World(c) EXCEPT !.in = Tail(@)]
<1>1. /\ World(c) \in Worlds /\ Sound(c, World(c)) /\ inbox[c] \in Seq(Packets)
      /\ World(c).in = inbox[c] /\ World(c).k = chan[c]
  BY WorldSound DEF Sound, World, MInv, TypeOK
<1>2. /\ Tail(inbox[c]) \in Seq(Packets) /\ Head(inbox[c]) \in Packets
      /\ 1 \in DOMAIN inbox[c] /\ Head(inbox[c]) = inbox[c][1]
      /\ \A i \in DOMAIN Tail(inbox[c]) : i + 1 \in DOMAIN inbox[c]
                                          /\ Tail(inbox[c])[i] = inbox[c][i + 1]
  BY <1>1
<1>3. /\ w \in Worlds /\ w.k = World(c).k /\ w.client = World(c).client
      /\ w.recs = World(c).recs /\ w.in = Tail(inbox[c])
  BY <1>1, <1>2 DEF Worlds
<1>4. Talks(Tail(inbox[c])) => Talks(inbox[c])
  BY <1>2 DEF Talks
<1>5. Head(inbox[c]) = Talk => Talks(inbox[c])
  BY <1>2 DEF Talks
<1> HIDE DEF w
<1>6. Talks(inbox[c]) => Paying(chan[c])
  BY DEF MInv, Bought, Entitled
<1>7. Sound(c, w)
  BY <1>1, <1>3, <1>4 DEF Sound, Entitled
<1> QED BY <1>1, <1>2, <1>3, <1>5, <1>6, <1>7 DEF w


-----------------------------------------------------------------------------
(* The thread *)

LEMMA SpendKeeps ==
  ASSUME TypeOK, NEW what \in {"accepts", "sends", "faults", "crashes", "stops"}, Spend(what)
  PROVE  budget' \in [{"accepts", "sends", "faults", "crashes", "stops"} -> Nat]
<1>1. budget[what] \in Nat /\ budget[what] > 0 /\ budget' = [budget EXCEPT ![what] = budget[what] - 1]
  BY DEF TypeOK, Spend
<1>2. budget[what] - 1 \in Nat
  BY <1>1
<1> QED BY <1>1, <1>2 DEF TypeOK

LEMMA LimitsHold == MInv => Limits
BY DEF MInv, TypeOK, Limits

LEMMA Chosen ==
  ASSUME MInv, todo # <<>>, NEW c, c = Head(todo) PROVE c \in Conns
BY DEF MInv, TypeOK

LEMMA VisitStep ==
  ASSUME MInv, NEW c \in Conns, Visit(c) PROVE MInv'
<1>1. PICK fault \in BOOLEAN :
        /\ IF fault THEN Spend("faults") ELSE UNCHANGED budget
        /\ HungUp(c, fault) \/ Read(c, fault) \/ Quiet(c, fault)
  BY DEF Visit
<1>2. budget' \in [{"accepts", "sends", "faults", "crashes", "stops"} -> Nat]
  BY <1>1, SpendKeeps, LimitsHold DEF Limits, MInv
<1>3. At(c)
  BY <1>2, LimitsHold DEF Visit, At, Limits
<1>4. CASE HungUp(c, fault)
  <2> DEFINE w == [World(c) EXCEPT !.closed = TRUE]
  <2>1. Sound(c, w)
    <3>1. World(c) \in Worlds /\ Sound(c, World(c))
      BY WorldSound DEF Sound
    <3>2. /\ w \in Worlds /\ w.k = World(c).k /\ w.in = World(c).in
          /\ w.client = World(c).client /\ w.recs = World(c).recs
      BY <3>1 DEF Worlds
    <3> HIDE DEF w
    <3> QED BY <3>1, <3>2, SoundMoney
  <2>2. Disconnect(c, w, <<>>, fault)
    BY <1>4 DEF HungUp
  <2> HIDE DEF w
  <2> QED BY <1>3, <2>1, <2>2, DisconnectStep
<1>5. CASE Read(c, fault)
  <2> DEFINE p == Head(inbox[c])
             w == [World(c) EXCEPT !.in = Tail(@)]
  <2>1. Sound(c, w) /\ (p = Talk => Paying(w.k)) /\ p \in Packets
    BY <1>5, ReadSound DEF Read
  <2>2. /\ p.cmd = "bind" => OnBindPacket(c, w, p, fault)
        /\ p.cmd = "talk" => OnTalkPacket(c, w, fault)
        /\ p.cmd = "bye"  => Disconnect(c, w, <<>>, fault)
    BY <1>5 DEF Read
  <2> HIDE DEF p, w
  <2>3. CASE p \in Binds
    <3>1. OnBindPacket(c, w, p, fault)
      BY <2>2, <2>3, PacketKinds
    <3> QED BY <1>3, <2>1, <2>3, <3>1, BindStep
  <2>4. CASE p = Talk
    <3>1. OnTalkPacket(c, w, fault)
      BY <2>2, <2>4, PacketKinds
    <3> QED BY <1>3, <2>1, <2>4, <3>1, TalkStep
  <2>5. CASE p = Bye
    <3>1. Disconnect(c, w, <<>>, fault)
      BY <2>2, <2>5, PacketKinds
    <3> QED BY <1>3, <2>1, <3>1, DisconnectStep
  <2> QED BY <2>1, <2>3, <2>4, <2>5 DEF Packets
<1>6. CASE Quiet(c, fault)
  BY <1>3, <1>6, WorldSound, OnTimeStep DEF Quiet
<1> QED BY <1>1, <1>4, <1>5, <1>6

LEMMA ClearStep ==
  ASSUME MInv, NEW c \in Conns, Clear(c) PROVE MInv'
<1>1. At(c) /\ Disconnect(c, World(c), Tail(todo), FALSE)
  BY LimitsHold DEF Clear, At, Limits
<1> QED BY <1>1, WorldSound, DisconnectStep

LEMMA WakeStep ==
  ASSUME MInv, Wake PROVE MInv'
<1>1. /\ list' = list \/ \E c \in Conns \ Listed : list' = <<c>> \o list
      /\ todo' = list' /\ lag' = 0
      /\ UNCHANGED <<chan, inbox, client, party, closed, purse, recs, up, budget>>
  BY DEF Wake
<1>2. list' \in Seq(Conns) /\ IsInjective(list')
  <2>1. list \in Seq(Conns) /\ IsInjective(list)
    BY DEF MInv, TypeOK
  <2>2. ASSUME NEW c \in Conns \ Listed
        PROVE  <<c>> \o list \in Seq(Conns) /\ IsInjective(<<c>> \o list)
    <3> DEFINE l == <<c>> \o list
    <3>1. <<c>> \in Seq(Conns) /\ Len(<<c>>) = 1 /\ <<c>>[1] = c
      OBVIOUS
    <3>2. /\ l \in Seq(Conns) /\ Len(l) = Len(list) + 1
          /\ \A i \in 1 .. Len(list) + 1 : l[i] = IF i <= 1 THEN c ELSE list[i - 1]
      BY <2>1, <3>1, ConcatProperties
    <3>3. \A i, j \in 1 .. Len(list) : list[i] # c /\ (list[i] = list[j] => i = j)
      BY <2>1, <2>2 DEF IsInjective, Listed
    <3> HIDE DEF l
    <3>4. IsInjective(l)
      <4>1. SUFFICES ASSUME NEW i \in DOMAIN l, NEW j \in DOMAIN l, l[i] = l[j] PROVE i = j
        BY DEF IsInjective
      <4>2. i \in 1 .. Len(list) + 1 /\ j \in 1 .. Len(list) + 1 /\ Len(list) \in Nat
        BY <2>1, <3>2
      <4>3. \A k \in 2 .. Len(list) + 1 :
              k - 1 \in 1 .. Len(list) /\ l[k] = list[k - 1] /\ l[k] # c
        <5> TAKE k \in 2 .. Len(list) + 1
        <5>1. k - 1 \in 1 .. Len(list) /\ k \in 1 .. Len(list) + 1 /\ ~ (k <= 1)
          BY <4>2
        <5>2. l[k] = list[k - 1]
          BY <3>2, <5>1
        <5> QED BY <3>3, <5>1, <5>2
      <4>4. l[1] = c
        BY <3>2, <4>2
      <4>5. CASE i = 1 \/ j = 1
        BY <4>1, <4>2, <4>3, <4>4, <4>5
      <4>6. CASE i # 1 /\ j # 1
        <5>1. i \in 2 .. Len(list) + 1 /\ j \in 2 .. Len(list) + 1
          BY <4>2, <4>6
        <5>2. list[i - 1] = list[j - 1] /\ i - 1 \in 1 .. Len(list) /\ j - 1 \in 1 .. Len(list)
          BY <4>1, <4>3, <5>1
        <5>3. i - 1 = j - 1
          BY <3>3, <5>2
        <5> QED BY <4>2, <5>3
      <4> QED BY <4>5, <4>6
    <3> QED BY <3>2, <3>4 DEF l
  <2> QED BY <1>1, <2>1, <2>2
<1>3. TypeOK' /\ Visits'
  BY <1>1, <1>2, Constants DEF MInv, TypeOK, Visits, Listed
<1>4. Bought' /\ Own'
  BY <1>1 DEF MInv, Bought, Own
<1> QED BY <1>3, <1>4 DEF MInv

LEMMA TickStep ==
  ASSUME MInv, Tick PROVE MInv'
<1>1. /\ lag' = (IF up THEN lag + 1 ELSE lag) /\ (up => lag < Lag)
      /\ chan' = [c \in Conns |-> IF c \in Listed /\ chan[c].age < AgeCap
                                  THEN [chan[c] EXCEPT !.age = @ + 1] ELSE chan[c]]
      /\ UNCHANGED <<list, todo, inbox, client, party, closed, purse, recs, up, budget>>
  BY DEF Tick
<1>2. lag' \in 0 .. Lag
  BY <1>1, Constants DEF MInv, TypeOK
<1>3. ASSUME NEW c \in Conns
      PROVE  /\ chan'[c] \in Channels /\ chan'[c].rec = chan[c].rec /\ chan'[c].fee = chan[c].fee
             /\ chan'[c].conn = chan[c].conn /\ chan'[c].nav = chan[c].nav
  <2>1. chan[c] \in Channels
    BY DEF MInv, TypeOK
  <2>2. CASE chan[c].age < AgeCap /\ c \in Listed
    <3>1. chan[c].age + 1 \in 0 .. AgeCap
      BY <2>1, <2>2, Constants DEF Channels
    <3>2. chan'[c] = [chan[c] EXCEPT !.age = chan[c].age + 1]
      BY <1>1, <2>2
    <3> QED BY <2>1, <3>1, <3>2 DEF Channels
  <2>3. CASE ~ (chan[c].age < AgeCap /\ c \in Listed)
    BY <1>1, <2>1, <2>3
  <2> QED BY <2>2, <2>3
<1>4. chan' \in [Conns -> Channels]
  BY <1>1, <1>3
<1>5. TypeOK'
  BY <1>1, <1>2, <1>3, <1>4 DEF MInv, TypeOK
<1>6. Bought' /\ Own' /\ Visits'
  BY <1>1, <1>3 DEF MInv, Bought, Own, Visits, Entitled, Paying, Listed
<1> QED BY <1>5, <1>6 DEF MInv


LEMMA StopStep ==
  ASSUME MInv, Stop PROVE MInv'
<1>1. /\ up' = FALSE /\ todo' = list
      /\ client' = [c \in Conns |-> IF c \in Listed THEN client[c] ELSE "none"]
      /\ inbox'  = [c \in Conns |-> IF c \in Listed THEN inbox[c] ELSE <<>>]
      /\ party'  = [c \in Conns |-> IF c \in Listed THEN party[c] ELSE None]
      /\ UNCHANGED <<list, chan, closed, purse, recs, lag>>
  BY DEF Stop
<1>2. budget' \in [{"accepts", "sends", "faults", "crashes", "stops"} -> Nat]
  BY SpendKeeps DEF MInv, Stop
<1>3. TypeOK'
  <2>1. /\ inbox' \in [Conns -> Seq(Packets)] /\ party' \in [Conns -> Users \cup {None}]
        /\ client' \in [Conns -> States]
    BY <1>1 DEF MInv, TypeOK, States
  <2>2. todo' \in Seq(Conns) /\ IsInjective(todo') /\ IsInjective(list')
    BY <1>1 DEF MInv, TypeOK
  <2> QED BY <1>1, <1>2, <2>1, <2>2 DEF MInv, TypeOK, States
<1>4. Visits' /\ Own'
  BY <1>1 DEF MInv, Own, Visits, Listed
<1>5. Bought'
  BY <1>1 DEF MInv, Bought, Entitled, Talks
<1> QED BY <1>3, <1>4, <1>5 DEF MInv

LEMMA ConnectStep ==
  ASSUME MInv, Connect PROVE MInv'
<1>1. /\ up' = TRUE /\ lag' = 0
      /\ UNCHANGED <<list, todo, chan, inbox, client, party, closed, purse, recs, budget>>
  BY DEF Connect
<1>2. TypeOK'
  BY <1>1, Constants DEF MInv, TypeOK
<1> QED BY <1>1, <1>2 DEF MInv, Bought, Own, Visits, Listed

LEMMA NewIsChannel ==
  NewChannel \in Channels /\ NewChannel.rec = 0 /\ ~ NewChannel.conn /\ ~ NewChannel.nav
BY Constants DEF NewChannel, Channels

\* Nobody is connected: whatever the table is, nothing is billed to it.
LEMMA EmptyHolds ==
  ASSUME list' = <<>>, todo' = <<>>, chan' = [c \in Conns |-> NewChannel],
         inbox' = [c \in Conns |-> <<>>], client' = [c \in Conns |-> "none"],
         party' = [c \in Conns |-> None], closed' = [c \in Conns |-> FALSE],
         recs' \in Seq(Rows), purse' \in Purses, Limits'
  PROVE  MInv'
<1>1. \A c \in Conns : chan'[c].rec = 0 /\ ~ chan'[c].conn /\ ~ chan'[c].nav
  BY NewIsChannel
<1>2. Bought' /\ Own' /\ Visits'
  BY <1>1 DEF Bought, Own, Visits, Entitled, Talks
<1>3. TypeOK'
  <2>1. chan' \in [Conns -> Channels]
    BY NewIsChannel
  <2>2. \A c \in Conns : chan'[c].rec <= Len(recs')
    BY <1>1
  <2>3. IsInjective(list') /\ IsInjective(todo')
    BY DEF IsInjective
  <2> QED BY <2>1, <2>2, <2>3 DEF TypeOK, Limits, Rows, Purses
<1> QED BY <1>2, <1>3 DEF MInv

LEMMA CrashStep ==
  ASSUME MInv, Crash PROVE MInv'
<1>1. /\ list' = <<>> /\ todo' = <<>> /\ chan' = [c \in Conns |-> NewChannel]
      /\ inbox' = [c \in Conns |-> <<>>] /\ client' = [c \in Conns |-> "none"]
      /\ party' = [c \in Conns |-> None] /\ closed' = [c \in Conns |-> FALSE]
      /\ up' = TRUE /\ lag' = 0 /\ purse' = purse
      /\ recs' = [i \in DOMAIN recs |-> [recs[i] EXCEPT !.exp = recs[i].saved]]
  BY DEF Crash
<1>2. budget' \in [{"accepts", "sends", "faults", "crashes", "stops"} -> Nat]
  BY SpendKeeps DEF MInv, Crash
<1>3. recs' \in Seq(Rows)
  <2>1. recs \in Seq(Rows) /\ DOMAIN recs = 1 .. Len(recs) /\ Len(recs) \in Nat
    BY DEF MInv, TypeOK, Rows
  <2>2. ASSUME NEW i \in 1 .. Len(recs) PROVE [recs[i] EXCEPT !.exp = recs[i].saved] \in Rows
    <3>1. recs[i] \in Rows
      BY <2>1
    <3> QED BY <3>1 DEF Rows
  <2> QED BY <1>1, <2>1, <2>2
<1>4. purse' \in Purses /\ Limits'
  BY <1>1, <1>2, Constants DEF MInv, TypeOK, Purses, Limits
<1> QED BY <1>1, <1>3, <1>4, EmptyHolds

-----------------------------------------------------------------------------
(* The lines of Xcenter *)

LEMMA CallStep ==
  ASSUME MInv, NEW c \in Conns, NEW p \in Binds, Call(c, p) PROVE MInv'
<1>1. /\ client' = [client EXCEPT ![c] = "new"] /\ party' = [party EXCEPT ![c] = p.remote]
      /\ inbox' = [inbox EXCEPT ![c] = Append(inbox[c], p)]
      /\ UNCHANGED <<list, todo, chan, closed, purse, recs, up, lag>>
  BY DEF Call, Post
<1>2. budget' \in [{"accepts", "sends", "faults", "crashes", "stops"} -> Nat]
  BY SpendKeeps DEF MInv, Call
<1>3. p \in Packets /\ p.remote \in Users /\ p # Talk /\ inbox[c] \in Seq(Packets)
  BY PacketKinds DEF Packets, BindPackets, MInv, TypeOK
<1>4. TypeOK'
  <2>1. /\ inbox' \in [Conns -> Seq(Packets)] /\ party' \in [Conns -> Users \cup {None}]
        /\ client' \in [Conns -> States]
    BY <1>1, <1>3 DEF MInv, TypeOK, States
  <2> QED BY <1>1, <1>2, <2>1 DEF MInv, TypeOK, States
<1>5. Bought'
  <2>1. Talks(Append(inbox[c], p)) => Talks(inbox[c])
    BY <1>3 DEF Talks
  <2>2. \A d \in Conns : /\ inbox'[d] = IF d = c THEN Append(inbox[c], p) ELSE inbox[d]
                         /\ client'[d] = IF d = c THEN "new" ELSE client[d]
                         /\ chan'[d] = chan[d]
    BY <1>1 DEF MInv, TypeOK
  <2> QED BY <2>1, <2>2 DEF MInv, Bought, Entitled
<1>6. Own' /\ Visits'
  BY <1>1 DEF MInv, Own, Visits, Listed
<1> QED BY <1>4, <1>5, <1>6 DEF MInv

LEMMA SendStep ==
  ASSUME MInv, NEW c \in Conns, NEW p \in Binds \cup {Talk}, Send(c, p) PROVE MInv'
<1>1. /\ inbox' = [inbox EXCEPT ![c] = Append(inbox[c], p)] /\ client[c] = "bound"
      /\ UNCHANGED <<list, todo, chan, client, party, closed, purse, recs, up, lag>>
  BY DEF Send, Post
<1>2. budget' \in [{"accepts", "sends", "faults", "crashes", "stops"} -> Nat]
  BY SpendKeeps DEF MInv, Send
<1>3. p \in Packets /\ inbox[c] \in Seq(Packets)
  BY DEF Packets, MInv, TypeOK
<1>4. TypeOK'
  <2>1. Append(inbox[c], p) \in Seq(Packets)
    BY <1>3
  <2>2. inbox' \in [Conns -> Seq(Packets)]
    BY <1>1, <2>1 DEF MInv, TypeOK
  <2> QED BY <1>1, <1>2, <2>2 DEF MInv, TypeOK
<1>5. Bought'
  <2>1. \A d \in Conns \ {c} : inbox'[d] = inbox[d]
    BY <1>1 DEF MInv, TypeOK
  <2>2. Paying(chan[c])
    BY <1>1 DEF MInv, Bought, Entitled
  <2> QED BY <1>1, <2>1, <2>2 DEF MInv, Bought, Entitled
<1>6. Own' /\ Visits'
  BY <1>1 DEF MInv, Own, Visits, Listed
<1> QED BY <1>4, <1>5, <1>6 DEF MInv

LEMMA LeaveStep ==
  ASSUME MInv, NEW c \in Conns, Leave(c) PROVE MInv'
<1>1. /\ client' = [client EXCEPT ![c] = "gone"]
      /\ inbox' = IF client[c] = "bound"
                  THEN [inbox EXCEPT ![c] = Append(inbox[c], Bye)] ELSE inbox
      /\ UNCHANGED <<list, todo, chan, party, closed, purse, recs, up, lag, budget>>
  BY DEF Leave, Post
<1>2. Bye \in Packets /\ inbox[c] \in Seq(Packets)
  BY DEF Packets, MInv, TypeOK
<1>3. TypeOK'
  BY <1>1, <1>2 DEF MInv, TypeOK
<1>4. Bought'
  <2>1. Talks(Append(inbox[c], Bye)) => Talks(inbox[c])
    BY <1>2, PacketKinds DEF Talks
  <2>2. \A d \in Conns : /\ Talks(inbox'[d]) => Talks(inbox[d])
                         /\ client'[d] = "bound" => client[d] = "bound"
    BY <1>1, <2>1 DEF MInv, TypeOK
  <2> QED BY <1>1, <2>2 DEF MInv, Bought, Entitled
<1>5. Own' /\ Visits'
  BY <1>1 DEF MInv, Own, Visits, Listed
<1> QED BY <1>3, <1>4, <1>5 DEF MInv

-----------------------------------------------------------------------------
(* The specification *)

LEMMA MasterInit == Init => MInv
<1> SUFFICES ASSUME Init PROVE MInv
  OBVIOUS
<1>1. /\ list = <<>> /\ todo = <<>> /\ chan = [c \in Conns |-> NewChannel]
      /\ inbox = [c \in Conns |-> <<>>] /\ client = [c \in Conns |-> "none"]
      /\ party = [c \in Conns |-> None] /\ closed = [c \in Conns |-> FALSE]
      /\ recs = <<>> /\ up = TRUE /\ lag = 0
  BY DEF Init
<1>2. purse \in Purses
  BY MasterAssumption DEF Init, Purses
<1>3. Limits
  BY <1>1, MasterAssumption DEF Init, Limits
<1>4. \A c \in Conns : chan[c].rec = 0 /\ ~ chan[c].conn /\ ~ chan[c].nav
  BY <1>1, NewIsChannel
<1>5. Bought /\ Own /\ Visits
  BY <1>1, <1>4 DEF Bought, Own, Visits, Entitled, Talks
<1>6. TypeOK
  <2>1. chan \in [Conns -> Channels]
    BY <1>1, NewIsChannel
  <2>2. \A c \in Conns : chan[c].rec <= Len(recs)
    BY <1>1, <1>4
  <2>3. IsInjective(list) /\ IsInjective(todo)
    BY <1>1 DEF IsInjective
  <2> QED BY <1>1, <1>2, <1>3, <2>1, <2>2, <2>3 DEF TypeOK, Limits, Purses
<1> QED BY <1>5, <1>6 DEF MInv

LEMMA MasterStep == MInv /\ [Next]_vars => MInv'
<1> SUFFICES ASSUME MInv, [Next]_vars PROVE MInv'
  OBVIOUS
<1>1. CASE Wake \/ Tick \/ Stop \/ Connect \/ Crash
  BY <1>1, WakeStep, TickStep, StopStep, ConnectStep, CrashStep
<1>2. ASSUME NEW c \in Conns, Visit(c) \/ Clear(c) PROVE MInv'
  BY <1>2, VisitStep, ClearStep
<1>3. ASSUME NEW c \in Conns, Client(c) PROVE MInv'
  BY <1>3, CallStep, SendStep, LeaveStep DEF Client
<1>4. CASE UNCHANGED vars
  BY <1>4 DEF vars, MInv, TypeOK, Bought, Own, Visits, Listed
<1> QED BY <1>1, <1>2, <1>3, <1>4 DEF Next

\* Every state of xmaster is of its types, and the lists of channels hold nobody twice,
\* for any number of connections, users and calls.
THEOREM MasterTypes == Spec => []TypeOK
<1>1. MInv => TypeOK
  BY DEF MInv
<1> QED BY <1>1, MasterInit, MasterStep, PTL DEF Spec

\* No channel bills without a tariff and a record, and no two to the same record:
\* the record is a new one each time, and a line talks only after its BIND was accepted.
THEOREM BillsOwnRecord == Spec => []Billable
<1>1. MInv => Billable
  <2> SUFFICES ASSUME MInv PROVE Billable
    OBVIOUS
  <2>1. SUFFICES ASSUME NEW c \in Listed, Navigated(chan[c])
                 PROVE  /\ chan[c].fee \in Tariffs /\ chan[c].rec \in DOMAIN recs
                        /\ \A d \in Listed \ {c} : chan[d].rec # chan[c].rec
    BY DEF Billable
  <2>2. Listed \subseteq Conns
    BY DEF Listed, MInv, TypeOK
  <2>3. Paying(chan[c])
    BY <2>1, <2>2 DEF MInv, Bought, Entitled, Navigated
  <2>4. chan[c].rec \in Nat /\ chan[c].rec <= Len(recs) /\ recs \in Seq(Rows)
    BY <2>1, <2>2 DEF MInv, TypeOK, Channels, Rows
  <2>5. chan[c].rec \in DOMAIN recs
    BY <2>3, <2>4 DEF Paying
  <2> QED BY <2>1, <2>2, <2>3, <2>5 DEF MInv, Own, Paying
<1> QED BY <1>1, MasterInit, MasterStep, PTL DEF Spec

=============================================================================
