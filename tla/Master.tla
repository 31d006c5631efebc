------------------------------- MODULE Master --------------------------------
(***************************************************************************)
(* xmaster, the server that bills the calls.  Every line of Xcenter that   *)
(* has a call keeps one connection to it and sends BIND (who calls what),  *)
(* TALK (the billing starts) and BYE.  A service that takes its caller to  *)
(* another paid service sends BIND and TALK again on the same connection.  *)
(*                                                                         *)
(* One thread serves them all: CNetwork::OnRun wakes at least once a       *)
(* second, accepts one connection and lets every channel of the list run,  *)
(* newest first, until one of them says FALSE, which ends the round.  The  *)
(* users' money and the records of their calls are in the database.        *)
(***************************************************************************)
EXTENDS Integers, Sequences, FiniteSets, SequencesExt

CONSTANTS
  Conns,       \* connections (CChannel objects)
  Users,       \* owners of telephone numbers
  Known,       \* users ChkUserState finds (or adds) in the database
  Denied,      \* users on the BlackList of the profiles
  Promised,    \* users with fee code 8888, who are to be called back
  Binds,       \* BIND packets the lines of Xcenter may send
  Advance, Credit,     \* xpreBala and xBalance of each user at the start
  ShortFree, MaxLength, MaxReadyOut,   \* Settings, in seconds
  BindOut,     \* the 15 seconds of CTransfer::OnRun
  Lag,         \* the longest the thread is away, in seconds
  AgeCap,      \* bound: ages are not told apart beyond it
  Accepts, Sends, Faults, Crashes, Stops       \* bounds

None == "none"

ASSUME MasterAssumption ==
  /\ None \notin Users /\ Known \subseteq Users
  /\ Advance \in [Users -> Nat] /\ Credit \in [Users -> Nat]
  /\ {ShortFree, MaxLength, MaxReadyOut, BindOut, Lag, AgeCap, Accepts, Sends,
      Faults, Crashes, Stops} \subseteq Nat

\* xfeetable: xFeeRule seconds cost xFeeValue, xFixedFee caps the price of a call,
\* xcallback marks a number whose callers may be called back instead.
Tariffs  == [rule : Nat \ {0}, fee : Nat, fixed : Nat, callback : BOOLEAN]
NoTariff == [rule |-> 0, fee |-> 0, fixed |-> 0, callback |-> FALSE]

\* The BIND packet: FeeNumber (None when empty), RemoteId, the user behind LocalId,
\* CallType, and the row of xfeetable LocalId finds, by itself or with a '#' (hash).
BindPackets == [cmd : {"bind"}, payer : Users \cup {None}, remote : Users,
                local : Users \cup {None}, kind : {"CATK", "CAHK", "CABK"},
                fee : Tariffs \cup {NoTariff}, hash : BOOLEAN]

ASSUME BindsAssumption == Binds \subseteq BindPackets

Talk == [cmd |-> "talk"]
Bye  == [cmd |-> "bye"]
Packets == Binds \cup {Talk, Bye}

NoFee == 0 - 1        \* xExpense is NULL
Never == 0 - 1        \* m_tNavigated is 0

Channels == [ conn : BOOLEAN,               \* m_bConnected
              nav  : BOOLEAN,               \* m_bNavigated
              age  : 0 .. AgeCap,           \* whole seconds since m_tConnected
              paid : Nat \cup {Never},      \* m_tNavigated, after m_tConnected - 1 s
              usr  : Users \cup {None},     \* m_pRecordusr
              fee  : Tariffs \cup {NoTariff},  \* m_pRecordfee
              rec  : Nat ]                  \* m_pRecordset: index in recs, 0 for NULL

NewChannel == [ conn |-> FALSE, nav |-> FALSE, age |-> 0, paid |-> Never,
                usr |-> None, fee |-> NoTariff, rec |-> 0 ]

VARIABLES
  list,      \* m_pList
  todo,      \* what a round, or Clear, has yet to visit of the list
  chan,      \* the channel of each connection in the list
  inbox,     \* packets the client of the connection has sent
  client,    \* what the client knows: "none", "new", "bound", "refused", or "gone"
  party,     \* the client's RemoteId: it stays while the connection does
  closed,    \* FD_CLOSE was reported, which happens once
  purse,     \* xuser_info: xpreBala and xBalance of each user
  recs,      \* XuserDetail: user, xExpense in the recordset, and as it was saved
  up,        \* CNetwork::m_bConnected, and its thread
  lag,       \* seconds since the thread last woke
  budget     \* what may still happen, a bound

vars == <<list, todo, chan, inbox, client, party, closed, purse, recs, up, lag,
          budget>>

\* Types.  The ones the code could break: a channel's record is one of the table,
\* and nobody is in the list, or yet to be visited, twice.
TypeOK ==
  /\ list   \in Seq(Conns)
  /\ todo   \in Seq(Conns)
  /\ chan   \in [Conns -> Channels]
  /\ inbox  \in [Conns -> Seq(Packets)]
  /\ client \in [Conns -> {"none", "new", "bound", "refused", "gone"}]
  /\ party  \in [Conns -> Users \cup {None}]
  /\ closed \in [Conns -> BOOLEAN]
  /\ purse  \in [Users -> [pre : Int, bal : Int]]
  /\ recs   \in Seq([usr : Users, exp : Int, saved : Int])
  /\ up     \in BOOLEAN
  /\ lag    \in 0 .. Lag
  /\ budget \in [{"accepts", "sends", "faults", "crashes", "stops"} -> Nat]
  /\ \A c \in Conns : chan[c].rec <= Len(recs)
  /\ IsInjective(list) /\ IsInjective(todo)

Init ==
  /\ list   = <<>>
  /\ todo   = <<>>
  /\ chan   = [c \in Conns |-> NewChannel]
  /\ inbox  = [c \in Conns |-> <<>>]
  /\ client = [c \in Conns |-> "none"]
  /\ party  = [c \in Conns |-> None]
  /\ closed = [c \in Conns |-> FALSE]
  /\ purse  = [u \in Users |-> [pre |-> Advance[u], bal |-> Credit[u]]]
  /\ recs   = <<>>
  /\ up     = TRUE
  /\ lag    = 0
  /\ budget = [accepts |-> Accepts, sends |-> Sends, faults |-> Faults,
               crashes |-> Crashes, stops |-> Stops]

-----------------------------------------------------------------------------
(* The database and the prices *)

Listed == {list[i] : i \in DOMAIN list}
Spend(what) == budget[what] > 0 /\ budget' = [budget EXCEPT ![what] = @ - 1]
Lookup(u) == IF u \in Known THEN u ELSE None                  \* ChkUserState
CalcUserBlance(p, u) == p[u].pre + p[u].bal

\* CalcExpense and InfFixedFee: every unit begun costs fee, up to the fixed fee.
CalcExpense(t, n) ==
  LET units == (n + t.rule - 1) \div t.rule IN
  IF units * t.fee > t.fixed THEN t.fixed ELSE units * t.fee

\* WriteUserInfo: the advance payment is used up first.  An amount given back
\* (x < 0) finds its way to an advance payment only.
WriteUserInfo(p, u, x) ==
  LET pre == p[u].pre
      row == IF pre > 0 /\ pre >= x THEN [p[u] EXCEPT !.pre = @ - x]
             ELSE IF pre > 0 THEN [pre |-> 0, bal |-> p[u].bal - (x - pre)]
             ELSE IF x > 0 THEN [p[u] EXCEPT !.bal = @ - x]
             ELSE p[u]
  IN [p EXCEPT ![u] = row]

Navigated(k) == k.conn /\ k.nav                               \* IsNavigated
NLength(k) == k.age + 1

\* What a visit to a channel works on: the channel, its socket and its client, the
\* users, the records, and whether the database has thrown an exception, which
\* nobody catches before RunNeighbour.
World(c) == [k |-> chan[c], in |-> inbox[c], closed |-> closed[c],
             client |-> client[c], purse |-> purse, recs |-> recs, thrown |-> FALSE]

Spent(w) == IF w.recs[w.k.rec].exp = NoFee THEN 0 ELSE w.recs[w.k.rec].exp

\* xExpense of the record, written to the database if save.
Priced(r, price, save) ==
  [r EXCEPT !.exp = price, !.saved = IF save THEN price ELSE @]

\* Mutant: the whole price is taken each time, not what it has risen by.
WriteExpense_Whole(w, price, save, fault) ==
  [w EXCEPT !.recs[w.k.rec] = Priced(@, price, save),
            !.purse = IF price = 0 THEN @ ELSE WriteUserInfo(@, w.k.usr, price)]

\* WriteExpense once it may: the record, then the user.  Without a row for the
\* user, or with the database away (fault), the second half is left out.
WriteExpense(w, price, save, fault) ==
  LET due    == price - Spent(w)
      thrown == due # 0 /\ (fault \/ w.k.usr = None)
  IN [w EXCEPT !.recs[w.k.rec] = Priced(@, price, save),
               !.purse = IF due = 0 \/ thrown THEN @
                         ELSE WriteUserInfo(@, w.k.usr, due),
               !.thrown = thrown]

CompleteTask(w, fault) ==
  LET n     == NLength(w.k)
      price == IF n < ShortFree THEN 0 ELSE CalcExpense(w.k.fee, n)
      done  == WriteExpense(w, price, TRUE, fault)
  IN IF done.thrown THEN done
     ELSE [done EXCEPT !.k.nav = FALSE, !.k.paid = Never]

-----------------------------------------------------------------------------
(* How a visit to a channel ends *)

\* The channel stays in the list; the round goes on (next) or ends (<<>>).
Keep(c, w, next) ==
  /\ chan'   = [chan EXCEPT ![c] = w.k]
  /\ inbox'  = [inbox EXCEPT ![c] = w.in]
  /\ closed' = [closed EXCEPT ![c] = w.closed]
  /\ client' = [client EXCEPT ![c] = w.client]
  /\ todo'   = next
  /\ purse'  = w.purse /\ recs' = w.recs
  /\ UNCHANGED <<list, party>>

\* CNetwork::Remove
Without(s, c) == RemoveAt(s, CHOOSE i \in DOMAIN s : s[i] = c)

\* The object is deleted and its socket closed; another connection may come.
Delete(c, w, next) ==
  /\ list'   = Without(list, c)
  /\ chan'   = [chan EXCEPT ![c] = NewChannel]
  /\ inbox'  = [inbox EXCEPT ![c] = <<>>]
  /\ closed' = [closed EXCEPT ![c] = FALSE]
  /\ client' = [client EXCEPT ![c] = "none"]
  /\ party'  = [party EXCEPT ![c] = None]
  /\ todo'   = next
  /\ purse'  = w.purse /\ recs' = w.recs

\* CChannel::Disconnect: the task is completed and the object deleted; an exception
\* of the database leaves the object in the list.
Disconnect(c, w, next, fault) ==
  LET done == IF Navigated(w.k) THEN CompleteTask(w, fault) ELSE w IN
  IF done.thrown THEN Keep(c, done, <<>>) ELSE Delete(c, done, next)

-----------------------------------------------------------------------------
(* OnNavigated and the rest of OnRun, after the socket *)

\* The unit a running call has come to is charged ahead of it.
Stepped(w) == [w EXCEPT !.k.paid = IF @ = Never THEN 0 ELSE @ + w.k.fee.rule]
Charged(w, fault) ==
  WriteExpense(Stepped(w), CalcExpense(w.k.fee, NLength(w.k) + 1), FALSE, fault)

Due(k) == /\ NLength(k) >= ShortFree
          /\ k.paid = Never \/ NLength(k) >= k.paid + k.fee.rule

\* Mutant: the user's balance is not looked at while the call goes on.
CanPay_Ever(w) == TRUE
CanPay(w) == CalcExpense(w.k.fee, NLength(w.k) + 1) - Spent(w)
               <= CalcUserBlance(w.purse, w.k.usr)

\* Mutant: a connection that was bound once is never too late.
Late_Bound(k) == \/ ~ k.conn /\ k.age >= BindOut
                 \/ Navigated(k) /\ NLength(k) >= ShortFree /\ NLength(k) >= MaxLength

Late(k) == \/ ~ k.conn /\ k.age >= BindOut
           \/ ~ Navigated(k) /\ k.age >= MaxReadyOut
           \/ Navigated(k) /\ NLength(k) >= ShortFree /\ NLength(k) >= MaxLength

Told(w, state) == [w EXCEPT !.client = IF @ = "gone" THEN @ ELSE state]

OnTime(c, w, fault) ==
  IF Late(w.k) THEN Disconnect(c, Told(w, "refused"), <<>>, fault)
  ELSE IF ~ (Navigated(w.k) /\ Due(w.k)) THEN Keep(c, w, Tail(todo))
  ELSE IF w.k.usr = None THEN Keep(c, Stepped(w), <<>>)      \* CalcUserBlance throws
  ELSE IF ~ CanPay(w) THEN Disconnect(c, Told(Stepped(w), "refused"), <<>>, fault)
  ELSE LET done == Charged(w, fault) IN
       Keep(c, done, IF done.thrown THEN <<>> ELSE Tail(todo))

-----------------------------------------------------------------------------
(* Packets *)

\* The owner of the number that pays: LocalId dials out, RemoteId calls in.
Payer(p) == IF p.payer # None THEN p.payer
            ELSE IF p.kind = "CAHK" THEN p.local ELSE p.remote

\* ReadFeeEntry finds LocalId without a '#' appended.
Direct(p) == p.fee # NoTariff /\ ~ p.hash

\* Before anything else, a caller who does not pay himself is made known: from here
\* on the channel holds his row.
Announced(w, p) ==
  IF p.kind = "CATK" /\ p.payer # None THEN [w EXCEPT !.k.usr = Lookup(p.remote)] ELSE w

\* The rows the channel holds after both look-ups, the one with '#' included.
LookedUp(w, p) ==
  LET u == Lookup(Payer(p)) IN
  IF p.fee = NoTariff
    THEN IF p.kind = "CATK" THEN [w EXCEPT !.k.usr = Lookup(p.remote)] ELSE w
    ELSE [w EXCEPT !.k.usr = u, !.k.fee = p.fee]

\* ReadUsrState: the caller is to be called back, or cannot pay what is not free.
MustWait(w, p) == /\ p.fee.callback /\ p.kind = "CATK" /\ w.k.rec = 0
                  /\ w.k.usr \in Promised
NoPay(w) == LET x == CalcExpense(w.k.fee, ShortFree + 1) IN
            x > 0 /\ x > CalcUserBlance(w.purse, w.k.usr)

\* Mutants: the record gets no user; a user's calls go to one record.
AddExpense_Nobody(w) ==
  [w EXCEPT !.recs = Append(@, [usr |-> None, exp |-> NoFee, saved |-> NoFee]),
            !.k.rec = Len(w.recs) + 1]
AddExpense_Shared(w) ==
  LET own == {i \in DOMAIN w.recs : w.recs[i].usr = w.k.usr} IN
  IF own # {} THEN [w EXCEPT !.k.rec = CHOOSE i \in own : TRUE]
  ELSE [w EXCEPT !.recs = Append(@, [usr |-> w.k.usr, exp |-> NoFee, saved |-> NoFee]),
                 !.k.rec = Len(w.recs) + 1]

AddExpense(w) == [w EXCEPT !.recs = Append(@, [usr |-> w.k.usr, exp |-> NoFee,
                                               saved |-> NoFee]),
                           !.k.rec = Len(w.recs) + 1]

\* An ERR packet and FALSE: the connection stays, the round ends.
Refuse(c, w) == Keep(c, Told(w, "refused"), <<>>)

Accepted(w) == Told([w EXCEPT !.k.conn = TRUE, !.k.age = 0], "bound")

\* OnBindPacket.  A task that runs is completed as soon as the new number is found.
OnBindPacket(c, w0, p, fault) ==
  LET w1   == Announced(w0, p)
      w2   == IF Navigated(w1.k) THEN CompleteTask(w1, fault) ELSE w1
      w3   == LookedUp(w2, p)
      w4   == AddExpense(w3)
  IN IF Navigated(w1.k) /\ ~ Direct(p) THEN OnTime(c, w1, fault)       \* no answer
     ELSE IF w2.thrown THEN Keep(c, w2, <<>>)
     ELSE IF p.fee = NoTariff \/ w3.k.usr = None THEN Refuse(c, w3)        \* NoUser
     ELSE IF MustWait(w3, p) \/ NoPay(w3) THEN Refuse(c, w3)
     ELSE IF p.remote \in Denied THEN Refuse(c, w4)
     ELSE OnTime(c, Accepted(w4), fault)

\* OnTalkPacket and OnHandshake: the time of the call starts anew.
OnTalkPacket(c, w, fault) ==
  IF Navigated(w.k) THEN OnTime(c, w, fault)
  ELSE OnTime(c, [w EXCEPT !.k.nav = TRUE, !.k.conn = TRUE, !.k.paid = Never,
                           !.k.age = 0], fault)

-----------------------------------------------------------------------------
(* The thread *)

\* AcceptNeighbour takes one connection, then a round begins.
Wake ==
  LET backlog == {c \in Conns : client[c] # "none" /\ c \notin Listed} IN
  /\ up /\ todo = <<>>
  /\ lag' = 0
  /\ IF backlog = {} THEN list' = list
     ELSE \E c \in backlog : list' = <<c>> \o list
  /\ todo' = list'
  /\ UNCHANGED <<chan, inbox, client, party, closed, purse, recs, up, budget>>

\* FD_CLOSE comes first, whatever is still to be read.
HungUp(c, fault) ==
  /\ client[c] = "gone" /\ ~ closed[c]
  /\ Disconnect(c, [World(c) EXCEPT !.closed = TRUE], <<>>, fault)

\* OnRead: one packet in a visit.
Read(c, fault) ==
  LET p == Head(inbox[c])
      w == [World(c) EXCEPT !.in = Tail(@)]
  IN /\ inbox[c] # <<>>
     /\ CASE p.cmd = "bind" -> OnBindPacket(c, w, p, fault)
          [] p.cmd = "talk" -> OnTalkPacket(c, w, fault)
          [] p.cmd = "bye"  -> Disconnect(c, w, <<>>, fault)

Quiet(c, fault) ==
  /\ inbox[c] = <<>> /\ (client[c] = "gone" => closed[c])
  /\ OnTime(c, World(c), fault)

Visit(c) ==
  /\ up /\ todo # <<>> /\ c = Head(todo)
  /\ \E fault \in BOOLEAN :
       /\ IF fault THEN Spend("faults") ELSE UNCHANGED budget
       /\ HungUp(c, fault) \/ Read(c, fault) \/ Quiet(c, fault)
  /\ UNCHANGED <<up, lag>>

\* CNetwork::Disconnect, once StopThread has seen the thread end: the listening
\* socket is closed and Clear goes through the list.
Stop ==
  /\ up /\ todo = <<>> /\ Spend("stops")
  /\ up' = FALSE /\ todo' = list
  /\ client' = [c \in Conns |-> IF c \in Listed THEN client[c] ELSE "none"]
  /\ inbox'  = [c \in Conns |-> IF c \in Listed THEN inbox[c] ELSE <<>>]
  /\ party'  = [c \in Conns |-> IF c \in Listed THEN party[c] ELSE None]
  /\ UNCHANGED <<list, chan, closed, purse, recs, lag>>

Clear(c) ==
  /\ ~ up /\ todo # <<>> /\ c = Head(todo)
  /\ Disconnect(c, World(c), Tail(todo), FALSE)
  /\ UNCHANGED <<up, lag, budget>>

Connect ==
  /\ ~ up /\ todo = <<>>
  /\ up' = TRUE /\ lag' = 0
  /\ UNCHANGED <<list, todo, chan, inbox, client, party, closed, purse, recs, budget>>

\* The process dies and is started again: what was not saved of a record is lost.
Crash ==
  /\ Spend("crashes")
  /\ list' = <<>> /\ todo' = <<>> /\ up' = TRUE /\ lag' = 0
  /\ chan'   = [c \in Conns |-> NewChannel]
  /\ inbox'  = [c \in Conns |-> <<>>]
  /\ client' = [c \in Conns |-> "none"]
  /\ party'  = [c \in Conns |-> None]
  /\ closed' = [c \in Conns |-> FALSE]
  /\ recs'   = [i \in DOMAIN recs |-> [recs[i] EXCEPT !.exp = recs[i].saved]]
  /\ UNCHANGED purse

\* A second.  Rounds are short: time passes between them.
Tick ==
  /\ todo = <<>> /\ list # <<>> /\ (up => lag < Lag)
  /\ lag' = IF up THEN lag + 1 ELSE lag
  /\ chan' = [c \in Conns |-> IF c \in Listed /\ chan[c].age < AgeCap
                              THEN [chan[c] EXCEPT !.age = @ + 1] ELSE chan[c]]
  /\ UNCHANGED <<list, todo, inbox, client, party, closed, purse, recs, up, budget>>

-----------------------------------------------------------------------------
(* The lines of Xcenter *)

Post(c, p) == inbox' = [inbox EXCEPT ![c] = Append(@, p)]

\* A line opens a connection: it sends BIND at once.
Call(c, p) ==
  /\ up /\ client[c] = "none" /\ Spend("accepts")
  /\ client' = [client EXCEPT ![c] = "new"]
  /\ party'  = [party EXCEPT ![c] = p.remote]
  /\ Post(c, p)
  /\ UNCHANGED <<list, todo, chan, closed, purse, recs, up, lag>>

\* Once it is bound it may talk, or go on to another paid service.
Send(c, p) ==
  /\ client[c] = "bound" /\ Spend("sends")
  /\ p.cmd = "bind" => p.remote = party[c]
  /\ Post(c, p)
  /\ UNCHANGED <<list, todo, chan, client, party, closed, purse, recs, up, lag>>

\* It says BYE if it is bound, and closes the connection.
Leave(c) ==
  /\ client[c] \in {"new", "bound", "refused"}
  /\ client' = [client EXCEPT ![c] = "gone"]
  /\ IF client[c] = "bound" THEN Post(c, Bye) ELSE UNCHANGED inbox
  /\ UNCHANGED <<list, todo, chan, party, closed, purse, recs, up, lag, budget>>

Client(c) == \/ \E p \in Binds : Call(c, p)
             \/ \E p \in Binds \cup {Talk} : Send(c, p)
             \/ Leave(c)

Next == \/ Wake \/ Tick \/ Stop \/ Connect \/ Crash
        \/ \E c \in Conns : Visit(c) \/ Clear(c) \/ Client(c)

Spec == Init /\ [][Next]_vars

\* The thread always wakes and always finishes a round, and time does not stand
\* still however often it wakes.
Fairness == /\ WF_vars(Wake) /\ WF_vars(\E c \in Conns : Visit(c))
            /\ WF_vars(\E c \in Conns : Clear(c)) /\ SF_vars(Tick)
FairSpec == Spec /\ Fairness

-----------------------------------------------------------------------------
(* Properties *)

Cost(x) == IF x = NoFee THEN 0 ELSE x
Costs(u) == [i \in DOMAIN recs |-> IF recs[i].usr = u THEN Cost(recs[i].exp) ELSE 0]
Bill(u) == SumFunction(Costs(u))
Taken(u) == Advance[u] + Credit[u] - CalcUserBlance(purse, u)

\* What was taken from a user is what his records say, to the last unit, however his
\* calls overlap, move on to other services, are cut off, talk on after a refusal or
\* end with the server; a user without an advance payment left may have lost what was
\* given back.  After a crash the records are as they were last saved.
Conserved ==
  budget.crashes = Crashes =>
    \A u \in Users : /\ Taken(u) >= Bill(u)
                     /\ purse[u].pre > 0 => Taken(u) = Bill(u)

\* A channel that bills has a tariff to bill by, a record to bill to, and it is the
\* only one that bills to it.
Billable ==
  \A c \in Listed : Navigated(chan[c]) =>
    /\ chan[c].fee \in Tariffs /\ chan[c].rec \in DOMAIN recs
    /\ \A d \in Listed \ {c} : chan[d].rec # chan[c].rec

\* xmaster keeps what Account promises: its records are the bills, the two balances
\* of a user together his credit.  A unit is charged only if it can be paid, at the
\* moment it is charged, though the user's other calls charge too and the user's row,
\* the record and the channel are three objects.  After a crash a bill is what was
\* saved of it, whether or not the money has been taken.
OpenBill(i) == \E c \in Listed : Navigated(chan[c]) /\ chan[c].rec = i
Accounts ==
  INSTANCE Account WITH
    Payers <- Users, Start <- [u \in Users |-> Advance[u] + Credit[u]],
    credit <- [u \in Users |-> CalcUserBlance(purse, u)],
    bills  <- [i \in DOMAIN recs |-> [user |-> recs[i].usr, amount |-> Cost(recs[i].exp),
                                      kept |-> Cost(recs[i].saved),
                                      open |-> OpenBill(i)]]
KeepsAccount == Accounts!Spec

\* Every connection ends: a silent one is dropped, a call has its longest length, and
\* neither a refused BIND nor an exception of the database keeps those behind from it.
ConnectionEnds == \A c \in Conns : (c \in Listed) ~> (c \notin Listed)

=============================================================================
