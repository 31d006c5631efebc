---------------------------- MODULE ChannelProofs ----------------------------
(***************************************************************************)
(* Proofs about Channel for every board, every bound and every setting:    *)
(* types, the plug-in DLLs, and the billing of the dialled leg.            *)
(***************************************************************************)
EXTENDS Channel, TLAPS

Msgs == [line : Lines, ev : Events]
Socks == {"none", "connecting", "login", "bound", "talk"}
Boards == {"standby", "incoming", "ringing", "picked", "dialing", "talking",
           "pending", "down"}

\* The part of TypeOK a handler can disturb, but for the call backs.
Polled ==
  /\ ch      \in [Lines -> Objects]
  /\ sock    \in [Lines -> Socks]
  /\ board   \in [Lines -> Boards]
  /\ playing \in [Lines -> BOOLEAN]
  /\ queue   \in Seq(Msgs)

\* What a handler may do to the DLLs that line d's object names: nothing, or
\* leave the line to a new object that has only the old one's DLL to unload.
Kept(d) ==
  \/ /\ ch'[d].cls = ch[d].cls
     /\ ch'[d].lib = ch[d].lib
     /\ ch'[d].closing = ch[d].closing
  \/ ch'[d] = [NewObject EXCEPT !.closing = ch[d].lib]

HandledWell == Polled' /\ \A d \in Lines : Kept(d)

\* The parts of TypeOK in the names used below.
LEMMA Typed ==
  ASSUME TypeOK
  PROVE  /\ ch \in [Lines -> Objects]
         /\ sock \in [Lines -> Socks]
         /\ board \in [Lines -> Boards]
         /\ playing \in [Lines -> BOOLEAN]
         /\ queue \in Seq(Msgs)
BY DEF TypeOK, Socks, Boards, Msgs

\* A posted event is a message for the queue; one for line -1 is thrown away.
LEMMA PostTyped ==
  ASSUME NEW c \in Lines \cup {None}, NEW e \in Events
  PROVE  Post(c, e) \in Seq(Msgs)
<1>1. CASE c = None
  BY <1>1 DEF Post
<1>2. CASE c # None
  <2>1. [line |-> c, ev |-> e] \in Msgs
    BY <1>2 DEF Msgs
  <2> QED BY <1>2, <2>1 DEF Post
<1> QED BY <1>1, <1>2

\* The same when it is posted on a condition.
LEMMA PostIfTyped ==
  ASSUME NEW b, NEW c \in Lines \cup {None}, b => c \in Lines \cup {None},
         NEW e, b => e \in Events
  PROVE  PostIf(b, c, e) \in Seq(Msgs)
BY PostTyped DEF PostIf

\* Events put behind others still form a queue.
LEMMA ConcatTyped == \A x, y \in Seq(Msgs) : x \o y \in Seq(Msgs)
OBVIOUS

\* What a handler finds left of the queue, forwarded events included.
LEMMA RestTyped ==
  ASSUME TypeOK, queue # <<>>
  PROVE  /\ Head(queue) \in Msgs
         /\ Rest \in Seq(Msgs)
<1>1. queue \in Seq(Msgs)
  BY DEF TypeOK, Msgs
<1>2. Head(queue) \in Msgs /\ Tail(queue) \in Seq(Msgs)
  BY <1>1
<1>3. Forwarded \in Seq(Msgs)
  <2> DEFINE c == Head(queue).line
             e == Head(queue).ev
  <2>1. c \in Lines /\ ch[c].task \in Lines \cup {None}
    BY <1>2 DEF Msgs, TypeOK, Objects
  <2>2. e \in ChStates => e \in Events
    BY DEF Events
  <2> QED BY <2>1, <2>2, PostIfTyped DEF Forwarded
<1> QED BY <1>2, <1>3 DEF Rest

\* A handler that only changes its own object.
LEMMA BecomeWell ==
  ASSUME TypeOK, queue # <<>>, NEW c \in Lines, NEW r \in Objects, Become(c, r),
         \/ r.cls = ch[c].cls /\ r.lib = ch[c].lib /\ r.closing = ch[c].closing
         \/ r = [NewObject EXCEPT !.closing = ch[c].lib]
  PROVE  HandledWell
<1>1. Polled'
  BY RestTyped, Typed DEF Become, Polled
<1>2. \A d \in Lines : Kept(d)
  BY Typed DEF Become, Kept
<1> QED BY <1>1, <1>2 DEF HandledWell

\* bkIdle_init: the new object inherits the old one's DLL as the one to unload.
LEMMA IdleWell ==
  ASSUME TypeOK, queue # <<>>, NEW c \in Lines, bkIdle_init(c)
  PROVE  HandledWell
<1>1. [NewObject EXCEPT !.closing = ch[c].lib] \in Objects
  BY DEF NewObject, Objects, TypeOK, States, Kinds, Services
<1> QED BY <1>1, BecomeWell DEF bkIdle_init

\* KillLinker posts to a line of the board or to none.
LEMMA NoticeTyped ==
  ASSUME TypeOK, NEW c \in Lines
  PROVE  Notice(c) \in Seq(Msgs)
<1>1. ch[c].task \in Lines \cup {None}
  BY DEF TypeOK, Objects
<1> QED BY <1>1, PostIfTyped DEF Notice, Events, ChStates

\* KillLinker leaves the DLLs of both legs alone.
LEMMA UnlinkedWell ==
  ASSUME TypeOK, NEW c \in Lines, NEW r \in Objects, ch' = Unlinked(c, r),
         r.cls = ch[c].cls /\ r.lib = ch[c].lib /\ r.closing = ch[c].closing
  PROVE  /\ ch' \in [Lines -> Objects]
         /\ \A d \in Lines : Kept(d)
<1>1. \A x \in Objects : /\ [x EXCEPT !.task = None] \in Objects
                         /\ [x EXCEPT !.task = None].cls = x.cls
                         /\ [x EXCEPT !.task = None].lib = x.lib
                         /\ [x EXCEPT !.task = None].closing = x.closing
  BY DEF Objects
<1> QED BY <1>1 DEF Unlinked, Kept, TypeOK

\* Disconnect and StopChan.
LEMMA HangUpWell ==
  ASSUME TypeOK, queue # <<>>, NEW c \in Lines, NEW s \in States,
         NEW fee \in BOOLEAN, HangUp(c, s, fee)
  PROVE  HandledWell
<1> DEFINE r == [ch[c] EXCEPT !.st = s, !.reserved = {}, !.timer = "off"]
<1>1. /\ r \in Objects
      /\ r.cls = ch[c].cls /\ r.lib = ch[c].lib /\ r.closing = ch[c].closing
  <2>1. ch[c] \in Objects
    BY DEF TypeOK
  <2> QED BY <2>1 DEF Objects
<1>2. ch' \in [Lines -> Objects] /\ \A d \in Lines : Kept(d)
  BY <1>1, UnlinkedWell DEF HangUp
<1>3. queue' \in Seq(Msgs)
  <2>1. PostIf(fee, c, "FeeDisc") \in Seq(Msgs)
    BY PostIfTyped DEF Events, FeeEnds
  <2>2. PostIf(~OnHook(c), c, "STANDBY") \in Seq(Msgs)
    BY PostIfTyped DEF Events, ChStates
  <2> QED BY <2>1, <2>2, RestTyped, NoticeTyped DEF HangUp
<1>4. /\ sock' \in [Lines -> Socks]
      /\ board' \in [Lines -> Boards]
      /\ playing' \in [Lines -> BOOLEAN]
  BY Typed DEF HangUp, Socks, Boards
<1> QED BY <1>2, <1>3, <1>4 DEF HandledWell, Polled

\* The same as the release paths use it.
LEMMA OffHookWell ==
  ASSUME TypeOK, queue # <<>>, NEW c \in Lines, NEW s \in States, OffHook(c, s)
  PROVE  HandledWell
BY HangUpWell DEF OffHook

\* The signals that ChkDTSignal itself acts on.
LEMMA SignalWell ==
  ASSUME TypeOK, queue # <<>>, NEW c \in Lines,
         \/ OffHook(c, "bkFree") \/ OffHook(c, "ResetPcm") \/ OffHook(c, "bkOffHk")
         \/ bkIdle_init(c)
  PROVE  HandledWell
BY OffHookWell, IdleWell DEF States

\* An update of a line's object that leaves its class and DLLs alone.
LEMMA OwnUpdate ==
  ASSUME TypeOK, NEW c \in Lines, NEW r \in Objects, ch' = [ch EXCEPT ![c] = r],
         r.cls = ch[c].cls /\ r.lib = ch[c].lib /\ r.closing = ch[c].closing
  PROVE  /\ ch' \in [Lines -> Objects]
         /\ \A d \in Lines : Kept(d)
BY DEF TypeOK, Kept

\* FeeLogin_init, as far as the object and the socket go.
LEMMA LoginAsWell ==
  ASSUME TypeOK, NEW c \in Lines, NEW r \in Objects, LoginAs(c, r),
         r.cls = ch[c].cls /\ r.lib = ch[c].lib /\ r.closing = ch[c].closing
  PROVE  /\ ch' \in [Lines -> Objects]
         /\ \A d \in Lines : Kept(d)
         /\ sock' \in [Lines -> Socks]
<1> DEFINE t == IF "busy" \in r.reserved THEN r.timer ELSE "on"
           q == [r EXCEPT !.st = "FeeLogin", !.reserved = @ \cup {"busy"},
                          !.timer = t]
<1>1. /\ q \in Objects
      /\ q.cls = r.cls /\ q.lib = r.lib /\ q.closing = r.closing
  BY DEF Objects, States
<1>2. ch' = [ch EXCEPT ![c] = q]
  BY DEF LoginAs, Objects
<1>3. sock' \in [Lines -> Socks]
  BY Typed DEF LoginAs, Socks
<1> QED BY <1>1, <1>2, <1>3, OwnUpdate

\* FeeLogin_init.
LEMMA FeeLoginInitWell ==
  ASSUME TypeOK, queue # <<>>, NEW c \in Lines, NEW r \in Objects,
         FeeLogin_init(c, r),
         r.cls = ch[c].cls /\ r.lib = ch[c].lib /\ r.closing = ch[c].closing
  PROVE  HandledWell
<1>1. /\ ch' \in [Lines -> Objects]
      /\ \A d \in Lines : Kept(d)
      /\ sock' \in [Lines -> Socks]
  BY LoginAsWell DEF FeeLogin_init
<1> QED BY <1>1, RestTyped, Typed DEF FeeLogin_init, HandledWell, Polled

\* A state that plays a prompt.
LEMMA PromptWell ==
  ASSUME TypeOK, NEW c \in Lines, NEW r \in Objects, Prompt(c, r),
         r.cls = ch[c].cls /\ r.lib = ch[c].lib /\ r.closing = ch[c].closing
  PROVE  /\ ch' \in [Lines -> Objects]
         /\ \A d \in Lines : Kept(d)
         /\ playing' \in [Lines -> BOOLEAN]
<1> DEFINE q == [r EXCEPT !.reserved = {"busy"}]
<1>1. /\ q \in Objects
      /\ q.cls = r.cls /\ q.lib = r.lib /\ q.closing = r.closing
  BY DEF Objects
<1>2. ch' = [ch EXCEPT ![c] = q] /\ playing' \in [Lines -> BOOLEAN]
  BY Typed DEF Prompt
<1> QED BY <1>1, <1>2, OwnUpdate

\* SsmSetKB(1).
LEMMA SetKBTyped ==
  ASSUME TypeOK, NEW c \in Lines, SetKB(c)
  PROVE  /\ board' \in [Lines -> Boards]
         /\ Ringing(c) \in Seq(Msgs)
<1>1. Ringing(c) \in Seq(Msgs)
  BY PostIfTyped DEF Ringing, Events, ChStates
<1> QED BY <1>1, Typed DEF SetKB, Boards

\* rcvMFsig_init.
LEMMA RcvMFsigInitWell ==
  ASSUME TypeOK, queue # <<>>, NEW c \in Lines, rcvMFsig_init(c)
  PROVE  HandledWell
<1> DEFINE t == IF ch[c].st = "FeeLogin" THEN "off" ELSE ch[c].timer
           r == [ch[c] EXCEPT !.st = "rcvMFsig", !.reserved = {}, !.timer = t]
<1>1. /\ r \in Objects
      /\ r.cls = ch[c].cls /\ r.lib = ch[c].lib /\ r.closing = ch[c].closing
  <2>1. ch[c] \in Objects
    BY DEF TypeOK
  <2> QED BY <2>1 DEF Objects, States
<1>2. ch' = [ch EXCEPT ![c] = r]
  <2>1. ch[c] \in Objects
    BY DEF TypeOK
  <2> QED BY <2>1 DEF rcvMFsig_init, Objects
<1>3. /\ Rest \in Seq(Msgs)
      /\ Post(c, "TALKING") \in Seq(Msgs) /\ Post(c, "PICKUPED") \in Seq(Msgs)
  BY RestTyped, PostTyped DEF Events, ChStates
<1>4. /\ queue' \in Seq(Msgs)
      /\ board' \in [Lines -> Boards]
  <2>1. \/ queue' = Rest
        \/ queue' = Rest \o Post(c, "TALKING")
        \/ queue' = Rest \o Post(c, "PICKUPED")
    BY DEF rcvMFsig_init
  <2>2. \/ board' = board
        \/ board' = [board EXCEPT ![c] = "talking"]
        \/ board' = [board EXCEPT ![c] = "picked"]
    BY DEF rcvMFsig_init
  <2>3. queue' \in Seq(Msgs)
    BY <1>3, <2>1, ConcatTyped
  <2> QED BY <2>2, <2>3, Typed DEF Boards
<1> HIDE DEF r
<1>5. ch' \in [Lines -> Objects] /\ \A d \in Lines : Kept(d)
  BY <1>1, <1>2, OwnUpdate
<1> QED BY <1>4, <1>5, Typed DEF rcvMFsig_init, HandledWell, Polled

\* WaitDial_init.
LEMMA WaitDialInitWell ==
  ASSUME TypeOK, queue # <<>>, NEW c \in Lines, WaitDial_init(c)
  PROVE  HandledWell
<1>1. PICK local \in Prefixes :
        ch' = [ch EXCEPT ![c].st = "WaitDial", ![c].reserved = {"busy"},
                         ![c].timer = IF local THEN "off" ELSE "on"]
  BY DEF WaitDial_init
<1> DEFINE t == IF local THEN "off" ELSE "on"
           r == [ch[c] EXCEPT !.st = "WaitDial", !.reserved = {"busy"}, !.timer = t]
<1>2. ch[c] \in Objects
  BY DEF TypeOK
<1>3. /\ r \in Objects
      /\ r.cls = ch[c].cls /\ r.lib = ch[c].lib /\ r.closing = ch[c].closing
  BY <1>2 DEF Objects, States
<1>4. ch' = [ch EXCEPT ![c] = r]
  BY <1>1, <1>2 DEF Objects, TypeOK
<1>5. board' \in [Lines -> Boards]
  BY Typed DEF WaitDial_init, Boards
<1> HIDE DEF r
<1>6. ch' \in [Lines -> Objects] /\ \A d \in Lines : Kept(d)
  BY <1>3, <1>4, OwnUpdate
<1> QED BY <1>5, <1>6, RestTyped, Typed DEF WaitDial_init, HandledWell, Polled

\* The TalkPacket leaves a socket in one of its five states.
LEMMA BilledTyped ==
  ASSUME TypeOK, NEW c \in Lines, Billed(c)
  PROVE  sock' \in [Lines -> Socks]
BY Typed DEF Billed, Socks

\* RcvTalk_init of every class.
LEMMA RcvTalkInitWell ==
  ASSUME TypeOK, queue # <<>>, NEW c \in Lines, RcvTalk_init(c)
  PROVE  HandledWell
<1> DEFINE talk == ch[c].cls = "talk"
           s == IF talk THEN "FwdPlay" ELSE "RcvTalk"
           v == IF ch[c].cls = "base" THEN {} ELSE {"busy"}
           t == IF ch[c].st = "WaitDial" THEN "off" ELSE ch[c].timer
           r == [ch[c] EXCEPT !.st = s, !.reserved = v, !.timer = t]
<1>1. ch[c] \in Objects
  BY DEF TypeOK
<1>2. /\ r \in Objects
      /\ r.cls = ch[c].cls /\ r.lib = ch[c].lib /\ r.closing = ch[c].closing
  <2>1. /\ s \in States /\ v \in SUBSET {"busy", "played", "keyed"}
        /\ t \in {"off", "on", "due"}
    BY <1>1 DEF Objects, States
  <2> HIDE DEF s, v, t
  <2> QED BY <1>1, <2>1 DEF Objects
<1>3. ch' = [ch EXCEPT ![c] = r]
  BY DEF RcvTalk_init
<1>4. playing' \in [Lines -> BOOLEAN]
  BY Typed DEF RcvTalk_init
<1> HIDE DEF r
<1>5. ch' \in [Lines -> Objects] /\ \A d \in Lines : Kept(d)
  BY <1>2, <1>3, OwnUpdate
<1>6. /\ sock' \in [Lines -> Socks]
      /\ queue' \in Seq(Msgs) /\ board' = board
  BY BilledTyped, RestTyped DEF RcvTalk_init
<1> QED BY <1>4, <1>5, <1>6, Typed DEF HandledWell, Polled

\* RcvLvTel_init.
LEMMA RcvLvTelInitWell ==
  ASSUME TypeOK, queue # <<>>, NEW c \in Lines, RcvLvTel_init(c)
  PROVE  HandledWell
<1> DEFINE r == [ch[c] EXCEPT !.st = "RcvLvTel"]
<1>1. ch[c] \in Objects
  BY DEF TypeOK
<1>2. /\ r \in Objects
      /\ r.cls = ch[c].cls /\ r.lib = ch[c].lib /\ r.closing = ch[c].closing
  BY <1>1 DEF Objects, States
<1> HIDE DEF r
<1>3. /\ ch' \in [Lines -> Objects] /\ \A d \in Lines : Kept(d)
      /\ playing' \in [Lines -> BOOLEAN]
  BY <1>2, PromptWell DEF RcvLvTel_init, r
<1> QED BY <1>3, RestTyped, Typed DEF RcvLvTel_init, HandledWell, Polled

\* An event that is ignored.
LEMMA StayWell ==
  ASSUME TypeOK, queue # <<>>, NEW c \in Lines, Stay(c)
  PROVE  HandledWell
BY BecomeWell, Typed DEF Stay

\* seiConfm_init.
LEMMA SeiConfmInitWell ==
  ASSUME TypeOK, queue # <<>>, NEW c \in Lines, seiConfm_init(c)
  PROVE  HandledWell
<1> DEFINE r == [ch[c] EXCEPT !.st = "seiConfm", !.reserved = {}, !.timer = "on"]
<1>1. ch[c] \in Objects
  BY Typed
<1>2. /\ r \in Objects
      /\ r.cls = ch[c].cls /\ r.lib = ch[c].lib /\ r.closing = ch[c].closing
  BY <1>1 DEF Objects, States
<1> QED BY <1>2, BecomeWell DEF seiConfm_init

-----------------------------------------------------------------------------

\* The handlers, one lemma each: types and DLLs are kept.
LEMMA bkIdleWell ==
  ASSUME TypeOK, queue # <<>>, NEW c \in Lines, NEW e, bkIdle(c, e)
  PROVE  HandledWell
<1> DEFINE r == [ch[c] EXCEPT !.reserved = {}]
<1>1. ch[c] \in Objects
  BY Typed
<1>2. /\ r \in Objects
      /\ r.cls = ch[c].cls /\ r.lib = ch[c].lib /\ r.closing = ch[c].closing
  BY <1>1 DEF Objects
<1>3. FeeLogin_init(c, r) => HandledWell
  BY <1>2, FeeLoginInitWell
<1> QED BY <1>3, SeiConfmInitWell, SignalWell DEF bkIdle, ChkDTSignal

\* CChannel::seiConfm.
LEMMA seiConfmWell ==
  ASSUME TypeOK, queue # <<>>, NEW c \in Lines, NEW e, seiConfm(c, e)
  PROVE  HandledWell
<1> DEFINE r == [ch[c] EXCEPT !.kind = "CATK"]
<1>1. ch[c] \in Objects
  BY Typed
<1>2. /\ r \in Objects
      /\ r.cls = ch[c].cls /\ r.lib = ch[c].lib /\ r.closing = ch[c].closing
  BY <1>1 DEF Objects, Kinds
<1>3. FeeLogin_init(c, r) => HandledWell
  BY <1>2, FeeLoginInitWell
<1> QED BY <1>3, SeiConfmInitWell, SignalWell DEF seiConfm, ChkDTSignal

\* The S_FEE_Connected branch of FeeLogin in each class.
LEMMA FeeConnectedWell ==
  ASSUME TypeOK, queue # <<>>, NEW c \in Lines, FeeConnected(c)
  PROVE  HandledWell
<1> DEFINE r == [ch[c] EXCEPT !.timer = "off"]
           b == ch[c].cls = "talk" /\ board[c] = "talking"
<1>1. CASE WaitDial_init(c)
  BY <1>1, WaitDialInitWell
<1>2. CASE /\ LoginAs(c, r) /\ SetKB(c) /\ UNCHANGED playing
           /\ queue' = Rest \o PostIf(b, c, "RINGING") \o Ringing(c)
  <2>1. ch[c] \in Objects
    BY Typed
  <2>2. /\ r \in Objects
        /\ r.cls = ch[c].cls /\ r.lib = ch[c].lib /\ r.closing = ch[c].closing
    BY <2>1 DEF Objects
  <2>3. /\ ch' \in [Lines -> Objects]
        /\ \A d \in Lines : Kept(d)
        /\ sock' \in [Lines -> Socks]
    BY <1>2, <2>2, LoginAsWell
  <2>4. PostIf(b, c, "RINGING") \in Seq(Msgs)
    BY PostIfTyped DEF Events, ChStates
  <2>5. board' \in [Lines -> Boards] /\ queue' \in Seq(Msgs)
    BY <1>2, <2>4, SetKBTyped, RestTyped, ConcatTyped
  <2> QED BY <1>2, <2>3, <2>5, Typed DEF HandledWell, Polled
<1> QED BY <1>1, <1>2 DEF FeeConnected

\* The branches of FeeLogin for a refused call.
LEMMA FeeRefusedWell ==
  ASSUME TypeOK, queue # <<>>, NEW c \in Lines, NEW code \in {"NOPAY", "CALLBACK"},
         FeeRefused(c, code)
  PROVE  HandledWell
<1> DEFINE r == [ch[c] EXCEPT !.st = "ExitPlay", !.timer = "off", !.exit = code]
<1>1. ch[c] \in Objects
  BY Typed
<1>2. /\ r \in Objects
      /\ r.cls = ch[c].cls /\ r.lib = ch[c].lib /\ r.closing = ch[c].closing
  BY <1>1 DEF Objects, States
<1>3. /\ ch' \in [Lines -> Objects] /\ \A d \in Lines : Kept(d)
      /\ playing' \in [Lines -> BOOLEAN]
  BY <1>2, PromptWell DEF FeeRefused
<1>4. board' \in [Lines -> Boards] /\ queue' \in Seq(Msgs)
  BY SetKBTyped, RestTyped, ConcatTyped DEF FeeRefused
<1> QED BY <1>3, <1>4, Typed DEF FeeRefused, HandledWell, Polled

\* CChannel::FeeLogin.
LEMMA FeeLoginWell ==
  ASSUME TypeOK, queue # <<>>, NEW c \in Lines, NEW e, FeeLogin(c, e)
  PROVE  HandledWell
<1>1. FeeLogin_init(c, ch[c]) => HandledWell
  BY FeeLoginInitWell, Typed
<1>2. HangUp(c, "bkOffHk", FALSE) => HandledWell
  BY HangUpWell DEF States
<1> QED BY <1>1, <1>2, RcvMFsigInitWell, FeeConnectedWell, FeeRefusedWell, SignalWell
        DEF FeeLogin, ChkDTSignal

\* CChannel::rcvMFsig.
LEMMA rcvMFsigWell ==
  ASSUME TypeOK, queue # <<>>, NEW c \in Lines, NEW e, rcvMFsig(c, e)
  PROVE  HandledWell
BY RcvTalkInitWell, RcvMFsigInitWell, SignalWell DEF rcvMFsig, ChkDTSignal

\* CTalkChannel::FwdPlay.
LEMMA FwdPlayWell ==
  ASSUME TypeOK, queue # <<>>, NEW c \in Lines, NEW e, FwdPlay(c, e)
  PROVE  HandledWell
BY RcvLvTelInitWell, StayWell, SignalWell DEF FwdPlay, ChkDTSignal

\* CTalkChannel::RcvLvTel.
LEMMA RcvLvTelWell ==
  ASSUME TypeOK, queue # <<>>, NEW c \in Lines, NEW e, RcvLvTel(c, e)
  PROVE  HandledWell
<1> DEFINE got == ch[c].reserved \cup (IF e = "PlayEnd" THEN {"played"} ELSE {})
                                 \cup (IF e = "#" THEN {"keyed"} ELSE {})
           r == [ch[c] EXCEPT !.reserved = got]
           q == [ch[c] EXCEPT !.st = "RcvUlTel", !.reserved = {"busy", "played"}]
<1>1. ch[c] \in Objects
  BY Typed
<1>2. /\ r \in Objects
      /\ r.cls = ch[c].cls /\ r.lib = ch[c].lib /\ r.closing = ch[c].closing
  <2>1. got \in SUBSET {"busy", "played", "keyed"}
    BY <1>1 DEF Objects
  <2> HIDE DEF got
  <2> QED BY <1>1, <2>1 DEF Objects
<1>3. /\ q \in Objects
      /\ q.cls = ch[c].cls /\ q.lib = ch[c].lib /\ q.closing = ch[c].closing
  BY <1>1 DEF Objects, States
<1>4. Become(c, r) => HandledWell
  BY <1>2, BecomeWell
<1>5. CASE /\ ch' = [ch EXCEPT ![c].st = "RcvUlTel",
                               ![c].reserved = {"busy", "played"}]
           /\ queue' = Rest \o Post(c, "#")
           /\ UNCHANGED <<sock, board, playing>>
  <2>1. ch' = [ch EXCEPT ![c] = q]
    BY <1>1, <1>5, Typed DEF Objects
  <2>2. queue' \in Seq(Msgs)
    BY <1>5, PostTyped, RestTyped, ConcatTyped DEF Events
  <2> HIDE DEF q
  <2>3. ch' \in [Lines -> Objects] /\ \A d \in Lines : Kept(d)
    BY <1>3, <2>1, OwnUpdate
  <2> QED BY <1>5, <2>2, <2>3, Typed DEF HandledWell, Polled
<1> HIDE DEF r
<1> QED BY <1>4, <1>5, RcvLvTelInitWell, SignalWell DEF RcvLvTel, ChkDTSignal, r

\* f and g name the same DLLs on every line.
SameDlls(f, g) ==
  \A x \in Lines : f[x].cls = g[x].cls /\ f[x].lib = g[x].lib
                                       /\ f[x].closing = g[x].closing

\* One EXCEPT on the board's objects, for the link of two lines below.
LEMMA OneKeeps ==
  ASSUME NEW f \in [Lines -> Objects], NEW c \in Lines, NEW r \in Objects,
         r.cls = f[c].cls /\ r.lib = f[c].lib /\ r.closing = f[c].closing
  PROVE  /\ [f EXCEPT ![c] = r] \in [Lines -> Objects]
         /\ SameDlls([f EXCEPT ![c] = r], f)
BY DEF SameDlls

\* A new task disturbs neither types nor DLLs.
LEMMA TaskKeeps ==
  ASSUME NEW f \in [Lines -> Objects], NEW c \in Lines, NEW d \in Lines
  PROVE  /\ [f EXCEPT ![c].task = d] \in [Lines -> Objects]
         /\ SameDlls([f EXCEPT ![c].task = d], f)
<1>1. \A x \in Objects :
        LET r == [x EXCEPT !.task = d]
        IN  r \in Objects /\ r.cls = x.cls /\ r.lib = x.lib /\ r.closing = x.closing
  BY DEF Objects
<1>2. [f EXCEPT ![c].task = d] = [f EXCEPT ![c] = [f[c] EXCEPT !.task = d]]
  OBVIOUS
<1> QED BY <1>1, <1>2, OneKeeps

\* Nor does a new call type.
LEMMA KindKeeps ==
  ASSUME NEW f \in [Lines -> Objects], NEW c \in Lines, NEW k \in Kinds
  PROVE  /\ [f EXCEPT ![c].kind = k] \in [Lines -> Objects]
         /\ SameDlls([f EXCEPT ![c].kind = k], f)
<1>1. \A x \in Objects :
        LET r == [x EXCEPT !.kind = k]
        IN  r \in Objects /\ r.cls = x.cls /\ r.lib = x.lib /\ r.closing = x.closing
  BY DEF Objects
<1>2. [f EXCEPT ![c].kind = k] = [f EXCEPT ![c] = [f[c] EXCEPT !.kind = k]]
  OBVIOUS
<1> QED BY <1>1, <1>2, OneKeeps

\* SetLinker.
LEMMA LinkKeeps ==
  ASSUME NEW f \in [Lines -> Objects], NEW c \in Lines, NEW d \in Lines
  PROVE  LET g == [f EXCEPT ![c].task = d, ![d].task = c, ![d].kind = "CAHK"]
         IN  g \in [Lines -> Objects] /\ SameDlls(g, f)
<1>1. PICK g1 : g1 = [f EXCEPT ![c].task = d]
  OBVIOUS
<1>2. g1 \in [Lines -> Objects] /\ SameDlls(g1, f)
  BY <1>1, TaskKeeps
<1>3. PICK g2 : g2 = [g1 EXCEPT ![d].task = c]
  OBVIOUS
<1>4. g2 \in [Lines -> Objects] /\ SameDlls(g2, g1)
  BY <1>2, <1>3, TaskKeeps
<1>5. PICK g3 : g3 = [g2 EXCEPT ![d].kind = "CAHK"]
  OBVIOUS
<1>6. g3 \in [Lines -> Objects] /\ SameDlls(g3, g2)
  BY <1>4, <1>5, KindKeeps DEF Kinds
<1>7. g3 = [f EXCEPT ![c].task = d, ![d].task = c, ![d].kind = "CAHK"]
  BY <1>1, <1>3, <1>5
<1>8. SameDlls(g3, f)
  BY <1>2, <1>4, <1>6 DEF SameDlls
<1> QED BY <1>6, <1>7, <1>8

\* RcvUlWord_cmplt when a line is free.
LEMMA CallOutWell ==
  ASSUME TypeOK, queue # <<>>, NEW c \in Lines, NEW d \in Lines, CallOut(c, d)
  PROVE  HandledWell
<1> DEFINE r == [ch[c] EXCEPT !.st = "RcvTalk", !.reserved = {"busy"},
                              !.timer = "on"]
           u == Unlinked(c, r)
<1>1. ch[c] \in Objects
  BY Typed
<1>2. /\ r \in Objects
      /\ r.cls = ch[c].cls /\ r.lib = ch[c].lib /\ r.closing = ch[c].closing
  BY <1>1 DEF Objects, States
<1>3. ch' = [u EXCEPT ![c].task = d, ![d].task = c, ![d].kind = "CAHK"]
  BY DEF CallOut, Linked
<1> HIDE DEF r
<1>4. /\ u \in [Lines -> Objects]
      /\ \A x \in Lines : /\ u[x].cls = ch[x].cls
                          /\ u[x].lib = ch[x].lib
                          /\ u[x].closing = ch[x].closing
  <2>1. \A x \in Objects : /\ [x EXCEPT !.task = None] \in Objects
                           /\ [x EXCEPT !.task = None].cls = x.cls
                           /\ [x EXCEPT !.task = None].lib = x.lib
                           /\ [x EXCEPT !.task = None].closing = x.closing
    BY DEF Objects
  <2> QED BY <1>2, <2>1, Typed DEF Unlinked
<1> HIDE DEF u
<1>5. ch' \in [Lines -> Objects] /\ \A x \in Lines : Kept(x)
  <2>1. PICK g : g = [u EXCEPT ![c].task = d, ![d].task = c, ![d].kind = "CAHK"]
    OBVIOUS
  <2>2. g \in [Lines -> Objects] /\ SameDlls(g, u)
    BY <1>4, <2>1, LinkKeeps
  <2>3. ch' = g
    BY <1>3, <2>1
  <2> QED BY <1>4, <2>2, <2>3 DEF SameDlls, Kept
<1>6. queue' \in Seq(Msgs)
  <2>1. Post(d, "PICKUPED") \in Seq(Msgs)
    BY PostTyped DEF Events, ChStates
  <2> QED BY <2>1, RestTyped, NoticeTyped, ConcatTyped DEF CallOut
<1>7. sock' \in [Lines -> Socks] /\ board' \in [Lines -> Boards]
  BY BilledTyped, Typed DEF CallOut, Seize, Boards
<1> QED BY <1>5, <1>6, <1>7, Typed DEF CallOut, HandledWell, Polled

\* RcvUlWord_cmplt when none is.
LEMMA NoLineWell ==
  ASSUME TypeOK, queue # <<>>, NEW c \in Lines, NoLine(c)
  PROVE  HandledWell
<1> DEFINE r == [ch[c] EXCEPT !.st = "ExitPlay", !.exit = "BUSY"]
<1>1. ch[c] \in Objects
  BY Typed
<1>2. /\ r \in Objects
      /\ r.cls = ch[c].cls /\ r.lib = ch[c].lib /\ r.closing = ch[c].closing
  BY <1>1 DEF Objects, States
<1>3. /\ ch' \in [Lines -> Objects] /\ \A d \in Lines : Kept(d)
      /\ playing' \in [Lines -> BOOLEAN]
  BY <1>2, PromptWell DEF NoLine
<1> QED BY <1>3, RestTyped, Typed DEF NoLine, HandledWell, Polled

\* CTalkChannel::RcvUlTel.
LEMMA RcvUlTelWell ==
  ASSUME TypeOK, queue # <<>>, NEW c \in Lines, NEW e, RcvUlTel(c, e)
  PROVE  HandledWell
BY NoLineWell, CallOutWell, StayWell, SignalWell DEF RcvUlTel, ChkDTSignal

\* RcvTalk of every class.
LEMMA RcvTalkWell ==
  ASSUME TypeOK, queue # <<>>, NEW c \in Lines, NEW e, RcvTalk(c, e)
  PROVE  HandledWell
<1> DEFINE back == [ch[c] EXCEPT !.st = "RcvLvTel", !.reserved = {"busy"}]
           b == ch[c].task = None /\ e = "PENDING"
<1>1. ch[c] \in Objects
  BY Typed
<1>2. /\ back \in Objects
      /\ back.cls = ch[c].cls /\ back.lib = ch[c].lib
      /\ back.closing = ch[c].closing
  BY <1>1 DEF Objects, States
<1>3. CASE /\ ch' = Unlinked(c, back)
           /\ playing' = [playing EXCEPT ![c] = TRUE]
           /\ queue' = Rest \o PostIf(b, c, "TALKING") \o Notice(c)
           /\ UNCHANGED <<sock, board>>
  <2>1. ch' \in [Lines -> Objects] /\ \A d \in Lines : Kept(d)
    BY <1>2, <1>3, UnlinkedWell
  <2>2. PostIf(b, c, "TALKING") \in Seq(Msgs)
    BY PostIfTyped DEF Events, ChStates
  <2>3. queue' \in Seq(Msgs)
    BY <1>3, <2>2, RestTyped, NoticeTyped, ConcatTyped
  <2> QED BY <1>3, <2>1, <2>3, Typed DEF HandledWell, Polled
<1> QED BY <1>3, RcvTalkInitWell, StayWell, SignalWell DEF RcvTalk, ChkDTSignal

\* WaitDial of every class.
LEMMA WaitDialWell ==
  ASSUME TypeOK, queue # <<>>, NEW c \in Lines, NEW e, WaitDial(c, e)
  PROVE  HandledWell
BY RcvTalkInitWell, StayWell, SignalWell DEF WaitDial, ChkDTSignal

\* CChannel::ExitPlay.
LEMMA ExitPlayWell ==
  ASSUME TypeOK, queue # <<>>, NEW c \in Lines, NEW e, ExitPlay(c, e)
  PROVE  HandledWell
BY StayWell, SignalWell DEF ExitPlay, ChkDTSignal

\* bkOffHk, bkFree and ResetPcm.
LEMMA ReleaseWell ==
  ASSUME TypeOK, queue # <<>>, NEW c \in Lines, NEW e,
         bkOffHk(c, e) \/ bkFree(c, e) \/ ResetPcm(c, e)
  PROVE  HandledWell
BY SignalWell DEF bkOffHk, bkFree, ResetPcm, ChkDTSignal

\* Every handler keeps the types, and touches no DLL but to leave it to the
\* successor of the line's object.
LEMMA HandleWell ==
  ASSUME TypeOK, queue # <<>>, NEW c \in Lines, NEW e, Handle(c, e)
  PROVE  HandledWell
BY bkIdleWell, seiConfmWell, FeeLoginWell, rcvMFsigWell, FwdPlayWell, RcvLvTelWell,
   RcvUlTelWell, RcvTalkWell, WaitDialWell, ExitPlayWell, ReleaseWell DEF Handle

\* Handlers only ever add to the call backs owed.
LEMMA HandleCounts ==
  ASSUME TypeOK, NEW c \in Lines, NEW e, Handle(c, e)
  PROVE  backs' \in Nat /\ stalePick' \in BOOLEAN /\ overlap' \in BOOLEAN
<1>1. backs \in Nat /\ stalePick \in BOOLEAN /\ overlap \in BOOLEAN
  BY DEF TypeOK
<1>2. backs' = backs \/ backs' = backs + 1
  BY DEF Handle, bkIdle, bkOffHk, bkFree, ResetPcm, seiConfm, FeeLogin, rcvMFsig,
         RcvTalk, WaitDial, ExitPlay, FwdPlay, RcvLvTel, RcvUlTel
<1>3. \/ stalePick' = stalePick
      \/ \E d \in Lines : stalePick' = (stalePick \/ Leftover(d))
  BY DEF Handle, bkIdle, bkOffHk, bkFree, ResetPcm, seiConfm, FeeLogin, rcvMFsig,
         RcvTalk, WaitDial, ExitPlay, FwdPlay, RcvLvTel, RcvUlTel, NoLine, CallOut,
         Seize
<1>4. \/ overlap' = overlap
      \/ \E d \in Lines : overlap' = (overlap \/ Overlaps(d))
  BY DEF Handle, bkIdle, bkOffHk, bkFree, ResetPcm, seiConfm, FeeLogin, rcvMFsig,
         RcvTalk, WaitDial, ExitPlay, FwdPlay, RcvLvTel, RcvUlTel, NoLine, CallOut,
         Seize
<1>5. backs' \in Nat
  BY <1>1, <1>2
<1>6. stalePick' \in BOOLEAN
  BY <1>1, <1>3, Zenon
<1>7. overlap' \in BOOLEAN
  BY <1>1, <1>4, Zenon
<1> QED BY <1>5, <1>6, <1>7

-----------------------------------------------------------------------------
(* Type correctness *)

\* Initially every variable has its type.
LEMMA InitTyped == Init => TypeOK
<1> SUFFICES ASSUME Init PROVE TypeOK
  OBVIOUS
<1>1. NewObject \in Objects
  BY DEF NewObject, Objects, States, Kinds, Services
<1>2. ch \in [Lines -> Objects]
  <2>1. ch = [c \in Lines |-> NewObject]
    BY DEF Init
  <2> QED BY <1>1, <2>1
<1>3. refs \in [Lines -> [Services -> Int]]
  <2>1. refs = [c \in Lines |-> [s \in Services |-> 0]]
    BY DEF Init
  <2>2. [s \in Services |-> 0] \in [Services -> Int]
    OBVIOUS
  <2> QED BY <2>1, <2>2
<1>4. budget \in [{"calls", "keys", "faults", "refusals"} -> Nat]
  <2>1. budget = Budget
    BY DEF Init
  <2>2. Calls \in Nat /\ Keys \in Nat /\ Faults \in Nat /\ Refusals \in Nat
    BY SettingsAssumption
  <2> QED BY <2>1, <2>2 DEF Budget
<1>5. turn \in 0 .. NLines /\ backs \in Nat
  <2>1. turn = 0 /\ backs = 0 /\ NLines \in Nat
    BY LinesAssumption DEF Init
  <2> QED BY <2>1
<1>6. /\ sock = [c \in Lines |-> "none"] /\ asked = [c \in Lines |-> ""]
      /\ board = [c \in Lines |-> "standby"] /\ playing = [c \in Lines |-> FALSE]
      /\ stalePick = FALSE /\ overlap = FALSE
  BY DEF Init
<1>7. /\ sock \in [Lines -> Socks] /\ board \in [Lines -> Boards]
      /\ asked \in [Lines -> Kinds]
  BY <1>6 DEF Socks, Boards, Kinds
<1>8. playing \in [Lines -> BOOLEAN] /\ stalePick \in BOOLEAN /\ overlap \in BOOLEAN
  <2>1. playing \in [Lines -> BOOLEAN]
    BY <1>6
  <2>2. stalePick \in BOOLEAN /\ overlap \in BOOLEAN
    BY <1>6, Zenon
  <2> QED BY <2>1, <2>2
<1>9. queue \in Seq(Msgs)
  <2>1. queue = <<>>
    BY DEF Init
  <2>2. <<>> \in Seq(Msgs)
    OBVIOUS
  <2> QED BY <2>1, <2>2
<1> QED BY <1>2, <1>3, <1>4, <1>5, <1>7, <1>8, <1>9 DEF TypeOK, Socks, Boards, Msgs

\* A bound that is spent stays a number.
LEMMA SpendTyped ==
  ASSUME TypeOK, NEW what \in {"calls", "keys", "faults", "refusals"}, Spend(what)
  PROVE  budget' \in [{"calls", "keys", "faults", "refusals"} -> Nat]
BY DEF TypeOK, Spend

\* RunPolling.
LEMMA PollTyped ==
  ASSUME TypeOK, RunPolling
  PROVE  TypeOK'
<1> DEFINE c == Head(queue).line
           e == Head(queue).ev
<1>1. queue # <<>> /\ Handle(c, e)
  BY DEF RunPolling
<1>2. c \in Lines
  BY <1>1, RestTyped DEF Msgs
<1>3. Polled'
  BY <1>1, <1>2, HandleWell DEF HandledWell
<1>4. backs' \in Nat /\ stalePick' \in BOOLEAN /\ overlap' \in BOOLEAN
  BY <1>1, <1>2, HandleCounts
<1>5. turn' \in 0 .. NLines
  BY LinesAssumption DEF RunPolling
<1>6. UNCHANGED <<refs, asked, budget>>
  BY DEF RunPolling
<1> QED BY <1>3, <1>4, <1>5, <1>6 DEF Polled, TypeOK, Socks, Boards, Msgs

\* RunChannel goes from line to line and back to the poll.
LEMMA AtLineTyped ==
  ASSUME TypeOK, NEW c \in Lines, AtLine(c)
  PROVE  /\ turn' \in 0 .. NLines
         /\ board' = board /\ playing' = playing
         /\ backs' = backs /\ stalePick' = stalePick /\ overlap' = overlap
BY LinesAssumption DEF AtLine, TypeOK, Lines

\* The first half of CChannel::OnRun: the timer and the DLL to unload.
LEMMA FreedTyped ==
  ASSUME TypeOK, NEW c \in Lines
  PROVE  /\ Freed(c) \in Objects
         /\ Freed(c).cls = ch[c].cls /\ Freed(c).lib = ch[c].lib
         /\ Freed(c).closing = "none"
         /\ Undone(c) \in [Services -> Int]
         /\ Expired(c) \in Seq(Msgs)
<1> DEFINE t == IF ch[c].timer = "due" THEN "off" ELSE ch[c].timer
           r == [ch[c] EXCEPT !.closing = "none", !.timer = t]
<1>1. ch[c] \in Objects
  BY Typed
<1>2. Freed(c) = r
  BY <1>1 DEF Freed, Objects
<1>3. /\ r \in Objects
      /\ r.cls = ch[c].cls /\ r.lib = ch[c].lib /\ r.closing = "none"
  BY <1>1 DEF Objects
<1>4. Undone(c) \in [Services -> Int]
  BY DEF Undone, TypeOK
<1>5. Expired(c) \in Seq(Msgs)
  BY PostIfTyped DEF Expired, Events
<1> QED BY <1>2, <1>3, <1>4, <1>5

\* OnBindPacket.
LEMMA BoundTyped ==
  ASSUME TypeOK, NEW c \in Lines, Bound(c)
  PROVE  /\ ch' \in [Lines -> Objects]
         /\ refs' \in [Lines -> [Services -> Int]]
         /\ ServiceOf(asked[c]) \in Services
<1> DEFINE k == ServiceOf(asked[c])
           r == [NewObject EXCEPT !.cls = k, !.st = "FeeLogin", !.lib = k,
                                  !.closing = ch[c].lib,
                                  !.kind = ch[c].kind, !.task = ch[c].task]
<1>1. k \in Services
  BY DEF ServiceOf, Services
<1>2. r \in Objects
  BY <1>1, Typed DEF Objects, NewObject, States
<1>3. Undone(c) \in [Services -> Int]
  BY FreedTyped
<1> HIDE DEF k
<1>4. [Undone(c) EXCEPT ![k] = @ + 1] \in [Services -> Int]
  BY <1>1, <1>3
<1>5. /\ ch' = [ch EXCEPT ![c] = r]
      /\ refs' = [refs EXCEPT ![c] = [Undone(c) EXCEPT ![k] = @ + 1]]
  BY DEF Bound, k
<1>6. refs \in [Lines -> [Services -> Int]]
  BY DEF TypeOK
<1> HIDE DEF r
<1> QED BY <1>1, <1>2, <1>4, <1>5, <1>6, Typed DEF k

\* CChannel::OnRun.
LEMMA OnRunTyped ==
  ASSUME TypeOK, NEW c \in Lines, OnRun(c)
  PROVE  TypeOK'
<1>1. AtLine(c)
  BY DEF OnRun, Quiet, Connected, Dropped, Refused, Bound, NoService
<1>2. ch' \in [Lines -> Objects] /\ refs' \in [Lines -> [Services -> Int]]
  <2>1. CASE /\ ch' = [ch EXCEPT ![c] = Freed(c)]
             /\ refs' = [refs EXCEPT ![c] = Undone(c)]
    BY <2>1, FreedTyped DEF TypeOK
  <2>2. CASE Bound(c)
    BY <2>2, BoundTyped
  <2> QED BY <2>1, <2>2 DEF OnRun, Quiet, Connected, Dropped, Refused, NoService
<1>3. sock' \in [Lines -> Socks]
  BY Typed DEF OnRun, Quiet, Connected, Dropped, Refused, Bound, NoService, Socks
<1>4. asked' \in [Lines -> Kinds]
  <2>1. ch[c].kind \in Kinds /\ asked \in [Lines -> Kinds]
    BY DEF TypeOK, Objects
  <2> QED BY <2>1 DEF OnRun, Quiet, Connected, Dropped, Refused, Bound, NoService
<1>5. queue' \in Seq(Msgs)
  <2>1. \A e \in FeeEnds \cup {"FeeConn"} : Post(c, e) \in Seq(Msgs)
    BY PostTyped DEF Events
  <2>2. \/ queue' = queue \o Expired(c)
        \/ \E e \in FeeEnds \cup {"FeeConn"} :
             queue' = queue \o Expired(c) \o Post(c, e)
    <3>1. CASE Quiet(c) \/ Connected(c)
      BY <3>1 DEF Quiet, Connected
    <3>2. CASE Dropped(c) \/ NoService(c)
      BY <3>2 DEF Dropped, NoService, FeeEnds
    <3>3. CASE Refused(c)
      <4>1. PICK code \in FeeEnds : queue' = queue \o Expired(c) \o Post(c, code)
        BY <3>3 DEF Refused
      <4> QED BY <4>1
    <3>4. CASE Bound(c)
      BY <3>4 DEF Bound
    <3> QED BY <3>1, <3>2, <3>3, <3>4 DEF OnRun
  <2>3. queue \o Expired(c) \in Seq(Msgs)
    BY FreedTyped, ConcatTyped, Typed
  <2> QED BY <2>1, <2>2, <2>3, ConcatTyped
<1>6. budget' \in [{"calls", "keys", "faults", "refusals"} -> Nat]
  <2>1. budget' = budget \/ Spend("refusals")
    BY DEF OnRun, Quiet, Connected, Dropped, Refused, Bound, NoService
  <2> QED BY <2>1, SpendTyped DEF TypeOK
<1> QED BY <1>1, <1>2, <1>3, <1>4, <1>5, <1>6, AtLineTyped
        DEF TypeOK, Socks, Msgs

\* CTraffic::OnRunUsrBack.
LEMMA CallBackTyped ==
  ASSUME TypeOK, NEW d \in Lines, CallBack(d)
  PROVE  TypeOK' /\ SameDlls(ch', ch)
<1>1. ch' \in [Lines -> Objects] /\ SameDlls(ch', ch)
  BY KindKeeps, Typed DEF CallBack, Kinds
<1>2. board' \in [Lines -> Boards]
  BY Typed DEF CallBack, Seize, Boards
<1>3. queue' \in Seq(Msgs)
  BY PostTyped, ConcatTyped, Typed DEF CallBack, Events, ChStates
<1>4. backs' \in Nat
  BY DEF CallBack, TypeOK
<1>5. stalePick' \in BOOLEAN /\ overlap' \in BOOLEAN
  <2>1. stalePick \in BOOLEAN /\ overlap \in BOOLEAN
    BY DEF TypeOK
  <2>2. stalePick' = (stalePick \/ Leftover(d)) /\ overlap' = (overlap \/ Overlaps(d))
    BY DEF CallBack, Seize
  <2> QED BY <2>1, <2>2, Zenon
<1> QED BY <1>1, <1>2, <1>3, <1>4, <1>5 DEF CallBack, TypeOK, Boards, Msgs

\* An event of the voice board.
LEMMA BoardToTyped ==
  ASSUME TypeOK, NEW c \in Lines, NEW s \in Boards, NEW e \in Events, BoardTo(c, s, e)
  PROVE  /\ board' \in [Lines -> Boards] /\ queue' \in Seq(Msgs)
         /\ UNCHANGED Inside
BY PostTyped, ConcatTyped, Typed DEF BoardTo

\* A timer runs out.
LEMMA TickTyped ==
  ASSUME TypeOK, NEW c \in Lines, Tick(c)
  PROVE  TypeOK' /\ SameDlls(ch', ch)
<1> DEFINE r == [ch[c] EXCEPT !.timer = "due"]
<1>1. ch[c] \in Objects
  BY Typed
<1>2. /\ r \in Objects
      /\ r.cls = ch[c].cls /\ r.lib = ch[c].lib /\ r.closing = ch[c].closing
  BY <1>1 DEF Objects
<1>3. ch' = [ch EXCEPT ![c] = r]
  BY DEF Tick
<1> HIDE DEF r
<1>4. ch' \in [Lines -> Objects] /\ SameDlls(ch', ch)
  BY <1>2, <1>3, OneKeeps, Typed
<1> QED BY <1>4 DEF Tick, TypeOK

\* What the board, the network and the callers do.
LEMMA OutsideTyped ==
  ASSUME TypeOK, NEW c \in Lines, Outside(c)
  PROVE  TypeOK' /\ SameDlls(ch', ch)
<1>1. CASE Tick(c)
  BY <1>1, TickTyped
<1>2. CASE ~Tick(c)
  <2>1. PICK s \in Boards, e \in Events : BoardTo(c, s, e)
    BY <1>2, Typed DEF Outside, Arrive, GiveUp, FarHangup, Answer, Key, PlayEnd,
       Fault, Restore, Boards, Events, ChStates
  <2>2. playing' \in [Lines -> BOOLEAN]
    BY <1>2, Typed DEF Outside, Arrive, GiveUp, FarHangup, Answer, Key, PlayEnd,
       Fault, Restore
  <2>3. budget' \in [{"calls", "keys", "faults", "refusals"} -> Nat]
    <3>1. \/ budget' = budget
          \/ Spend("calls") \/ Spend("keys") \/ Spend("faults")
      BY <1>2 DEF Outside, Arrive, GiveUp, FarHangup, Answer, Key, PlayEnd, Fault,
         Restore
    <3> QED BY <3>1, SpendTyped DEF TypeOK
  <2>4. board' \in [Lines -> Boards] /\ queue' \in Seq(Msgs) /\ UNCHANGED Inside
    BY <2>1, BoardToTyped
  <2>5. overlap' \in BOOLEAN
    <3>1. overlap' = overlap \/ overlap' = (overlap \/ Overlaps(c))
      BY <1>2 DEF Outside, Arrive, GiveUp, FarHangup, Answer, Key, PlayEnd, Fault,
         Restore
    <3>2. overlap \in BOOLEAN
      BY DEF TypeOK
    <3> QED BY <3>1, <3>2, Zenon
  <2> QED BY <2>2, <2>3, <2>4, <2>5 DEF Inside, TypeOK, Boards, Msgs, SameDlls
<1> QED BY <1>1, <1>2

\* Every step of the system keeps the types.
LEMMA NextTyped == TypeOK /\ [Next]_vars => TypeOK'
<1> SUFFICES ASSUME TypeOK, [Next]_vars PROVE TypeOK'
  OBVIOUS
<1>1. CASE UNCHANGED vars
  BY <1>1 DEF vars, TypeOK
<1>2. CASE NoEvent
  <2>1. turn' \in 0 .. NLines
    BY <1>2, LinesAssumption DEF NoEvent
  <2> QED BY <1>2, <2>1 DEF NoEvent, TypeOK
<1>3. CASE RunPolling
  BY <1>3, PollTyped
<1>4. ASSUME NEW c \in Lines, OnRun(c) PROVE TypeOK'
  BY <1>4, OnRunTyped
<1>5. ASSUME NEW c \in Lines, CallBack(c) PROVE TypeOK'
  BY <1>5, CallBackTyped
<1>6. ASSUME NEW c \in Lines, Outside(c) PROVE TypeOK'
  BY <1>6, OutsideTyped
<1> QED BY <1>1, <1>2, <1>3, <1>4, <1>5, <1>6 DEF Next

\* Every state of every run is of its type: whatever comes in whatever order, no
\* handler links a line with something that is not a line, and CTraffic makes no
\* call back that was not asked for.
THEOREM TypeCorrect == Spec => []TypeOK
BY InitTyped, NextTyped, PTL DEF Spec

-----------------------------------------------------------------------------
(* The plug-in DLLs *)

\* The inductive form of CodeLoaded: an object of a service class was made from
\* the DLL it names.  With HandlesHeld, that DLL is then loaded.
MadeByItsDll == \A c \in Lines : ch[c].cls # "base" => ch[c].lib = ch[c].cls

DllInv == TypeOK /\ HandlesHeld /\ MadeByItsDll

\* Initially no DLL is named and none is loaded.
LEMMA InitDlls == Init => DllInv
<1> SUFFICES ASSUME Init PROVE HandlesHeld /\ MadeByItsDll
  BY InitTyped DEF DllInv
<1>1. \A c \in Lines : /\ ch[c].cls = "base"
                       /\ ch[c].lib = "none" /\ ch[c].closing = "none"
  <2>1. ch = [c \in Lines |-> NewObject]
    BY DEF Init
  <2> QED BY <2>1 DEF NewObject
<1>2. \A c \in Lines, s \in Services : refs[c][s] = 0
  <2>1. refs = [c \in Lines |-> [s \in Services |-> 0]]
    BY DEF Init
  <2> QED BY <2>1
<1> QED BY <1>1, <1>2 DEF HandlesHeld, MadeByItsDll, Count, Services

\* A step that names the same DLLs as before and loads and unloads none.
LEMMA SameKeepsDlls ==
  ASSUME DllInv, SameDlls(ch', ch), refs' = refs
  PROVE  HandlesHeld' /\ MadeByItsDll'
BY DEF DllInv, SameDlls, HandlesHeld, MadeByItsDll, Count

\* A poll: a new object has only the old one's DLL to unload.
LEMMA PollDlls ==
  ASSUME DllInv, RunPolling
  PROVE  HandlesHeld' /\ MadeByItsDll'
<1>1. queue # <<>> /\ Handle(Head(queue).line, Head(queue).ev) /\ refs' = refs
  BY DEF RunPolling
<1>2. Head(queue).line \in Lines
  BY <1>1, RestTyped DEF Msgs, DllInv
<1>3. \A d \in Lines : Kept(d)
  BY <1>1, <1>2, HandleWell DEF HandledWell, DllInv
<1>4. ASSUME NEW d \in Lines
      PROVE  /\ ch'[d].cls # "base" => ch'[d].lib = ch'[d].cls
             /\ \A s \in Services :
                  refs[d][s] >= Count(ch'[d].lib = s) + Count(ch'[d].closing = s)
  <2>1. \A s \in Services : /\ refs[d][s] \in Int
                            /\ refs[d][s] >= Count(ch[d].lib = s)
                                             + Count(ch[d].closing = s)
    BY DEF DllInv, HandlesHeld, TypeOK
  <2>2. CASE /\ ch'[d].cls = ch[d].cls
             /\ ch'[d].lib = ch[d].lib
             /\ ch'[d].closing = ch[d].closing
    BY <2>1, <2>2 DEF DllInv, MadeByItsDll
  <2>3. CASE ch'[d] = [NewObject EXCEPT !.closing = ch[d].lib]
    <3>1. ch'[d].cls = "base" /\ ch'[d].lib = "none" /\ ch'[d].closing = ch[d].lib
      BY <2>3 DEF NewObject
    <3> QED BY <2>1, <3>1 DEF Count, Services
  <2> QED BY <1>3, <2>2, <2>3 DEF Kept
<1> QED BY <1>1, <1>4 DEF HandlesHeld, MadeByItsDll

\* A visit unloads the DLL the object no longer needs, or loads one for a new object.
LEMMA OnRunDlls ==
  ASSUME DllInv, NEW c \in Lines, OnRun(c)
  PROVE  HandlesHeld' /\ MadeByItsDll'
<1>1. ASSUME NEW d \in Lines
      PROVE  /\ ch'[d].cls # "base" => ch'[d].lib = ch'[d].cls
             /\ \A s \in Services :
                  refs'[d][s] >= Count(ch'[d].lib = s) + Count(ch'[d].closing = s)
  <2>1. \A s \in Services : /\ refs[d][s] \in Int
                            /\ refs[d][s] >= Count(ch[d].lib = s)
                                             + Count(ch[d].closing = s)
    BY DEF DllInv, HandlesHeld, TypeOK
  <2>2. CASE d # c
    <3>1. ch'[d] = ch[d] /\ refs'[d] = refs[d]
      BY <2>2 DEF OnRun, Quiet, Connected, Dropped, Refused, Bound, NoService,
         DllInv, TypeOK
    <3> QED BY <2>1, <3>1 DEF DllInv, MadeByItsDll
  <2>3. CASE d = c /\ ~Bound(c)
    <3>1. ch'[c] = Freed(c) /\ refs'[c] = Undone(c)
      BY <2>3 DEF OnRun, Quiet, Connected, Dropped, Refused, NoService,
         DllInv, TypeOK
    <3>2. /\ ch'[c].cls = ch[c].cls /\ ch'[c].lib = ch[c].lib
          /\ ch'[c].closing = "none"
      BY <3>1, FreedTyped DEF DllInv
    <3>3. \A s \in Services : refs'[c][s] = refs[c][s] - Count(ch[c].closing = s)
      BY <2>1, <2>3, <3>1 DEF Undone, Count
    <3> QED BY <2>1, <2>3, <3>2, <3>3 DEF DllInv, MadeByItsDll, Count, Services
  <2>4. CASE d = c /\ Bound(c)
    <3> DEFINE k == ServiceOf(asked[c])
    <3>1. k \in Services
      BY DEF ServiceOf, Services
    <3>2. ch'[c].cls = k /\ ch'[c].lib = k /\ ch'[c].closing = ch[c].lib
      BY <2>4 DEF Bound, NewObject, DllInv, TypeOK
    <3>3. refs'[c] = [Undone(c) EXCEPT ![k] = @ + 1]
      BY <2>4 DEF Bound, DllInv, TypeOK
    <3> HIDE DEF k
    <3>4. \A s \in Services : refs'[c][s] = refs[c][s] - Count(ch[c].closing = s)
                                                       + Count(k = s)
      BY <2>1, <2>4, <3>1, <3>3 DEF Undone, Count
    <3> QED BY <2>1, <2>4, <3>2, <3>4 DEF Count
  <2> QED BY <2>2, <2>3, <2>4
<1> QED BY <1>1 DEF HandlesHeld, MadeByItsDll

\* DllInv is inductive.
LEMMA NextDlls == DllInv /\ [Next]_vars => DllInv'
<1> SUFFICES ASSUME DllInv, [Next]_vars PROVE HandlesHeld' /\ MadeByItsDll'
  BY NextTyped DEF DllInv
<1>1. CASE UNCHANGED vars \/ NoEvent
  BY <1>1, SameKeepsDlls DEF vars, NoEvent, SameDlls
<1>2. CASE RunPolling
  BY <1>2, PollDlls
<1>3. ASSUME NEW c \in Lines, OnRun(c) PROVE HandlesHeld' /\ MadeByItsDll'
  BY <1>3, OnRunDlls
<1>4. ASSUME NEW c \in Lines, CallBack(c) PROVE HandlesHeld' /\ MadeByItsDll'
  BY <1>4, CallBackTyped, SameKeepsDlls DEF CallBack, DllInv
<1>5. ASSUME NEW c \in Lines, Outside(c) PROVE HandlesHeld' /\ MadeByItsDll'
  <2>1. refs' = refs
    BY <1>5 DEF Outside, Arrive, GiveUp, FarHangup, Answer, Key, PlayEnd, Fault,
       Restore, Tick, BoardTo, Inside
  <2> QED BY <1>5, <2>1, OutsideTyped, SameKeepsDlls DEF DllInv
<1> QED BY <1>1, <1>2, <1>3, <1>4, <1>5 DEF Next

\* DllInv holds in every reachable state.
LEMMA DllsHold == Spec => []DllInv
BY InitDlls, NextDlls, PTL DEF Spec

\* No FreeLibrary undoes a load that some object still counts on: whatever chain
\* of Clone, Setup and OnRun a line goes through, each DLL its object names was
\* loaded as often as it is named.
THEOREM HandlesStayHeld == Spec => []HandlesHeld
BY DllsHold, PTL DEF DllInv

\* The code of the handlers a line executes is never unloaded under it.
THEOREM CodeStaysLoaded == Spec => []CodeLoaded
<1>1. DllInv => CodeLoaded
  <2> SUFFICES ASSUME DllInv, NEW c \in Lines, ch[c].cls # "base"
               PROVE  ch[c].lib = ch[c].cls /\ refs[c][ch[c].cls] > 0
    BY DEF CodeLoaded
  <2>1. ch[c].cls \in Services /\ ch[c].lib = ch[c].cls
    BY DEF DllInv, MadeByItsDll, TypeOK, Objects
  <2>2. /\ refs[c][ch[c].cls] \in Int
        /\ refs[c][ch[c].cls] >= Count(ch[c].lib = ch[c].cls)
                                 + Count(ch[c].closing = ch[c].cls)
    BY <2>1 DEF DllInv, HandlesHeld, TypeOK
  <2> QED BY <2>1, <2>2 DEF Count
<1> QED BY <1>1, DllsHold, PTL

-----------------------------------------------------------------------------
(* The dialled leg and its billing: a CDialerChannel that talks is billed, or *)
(* has the end of its billing before it in the queue.                         *)

\* The states of a dialled leg between its bind and its release.
DialStates == {"FeeLogin", "rcvMFsig", "WaitDial", "RcvTalk"}

EndQueued(d) == \E e \in FeeEnds : Queued(d, e)

\* The inductive form of BilledLeg.  A dialer object is made when the server has
\* bound the call; from then on the server charges, will charge once the TalkPacket
\* is sent, or has gone and the event that says so is still to come.
Covered(d) ==
  ch[d].cls = "dialer" =>
    /\ ch[d].st \in DialStates \cup {"ExitPlay"} \cup Releasing
    /\ ch[d].st \in DialStates => sock[d] \in {"bound", "talk"} \/ EndQueued(d)
    /\ ch[d].st = "RcvTalk" => sock[d] = "talk" \/ EndQueued(d)

BillInv == TypeOK /\ \A d \in Lines : Covered(d)

-----------------------------------------------------------------------------
(* The event queue *)

Has(s, m) == \E i \in DOMAIN s : s[i] = m

\* What is in the queue stays in it when more is posted.
LEMMA HasConcat ==
  ASSUME NEW s \in Seq(Msgs), NEW t \in Seq(Msgs), NEW m, Has(s, m)
  PROVE  Has(s \o t, m)
<1>1. PICK i \in DOMAIN s : s[i] = m
  BY DEF Has
<1>2. i \in DOMAIN (s \o t) /\ (s \o t)[i] = m
  BY <1>1
<1> QED BY <1>2 DEF Has

\* A poll takes the first event only.
LEMMA HasTail ==
  ASSUME NEW s \in Seq(Msgs), s # <<>>, NEW m, m # Head(s), Has(s, m)
  PROVE  Has(Tail(s), m)
<1>1. PICK i \in DOMAIN s : s[i] = m
  BY DEF Has
<1>2. i \in 1 .. Len(s) /\ i # 1
  BY <1>1
<1>3. i - 1 \in DOMAIN Tail(s) /\ Tail(s)[i - 1] = m
  BY <1>1, <1>2
<1> QED BY <1>3 DEF Has

\* What a handler finds in the queue is there after it has posted its own events.
Waiting == \A m \in Msgs : Has(Rest, m) => Has(queue', m)

\* Up to three posts in a row.
LEMMA PostsWait ==
  ASSUME TypeOK, queue # <<>>, NEW x \in Seq(Msgs), NEW y \in Seq(Msgs),
         NEW z \in Seq(Msgs),
         \/ queue' = Rest \/ queue' = Rest \o x \/ queue' = Rest \o x \o y
         \/ queue' = Rest \o x \o y \o z
  PROVE  Waiting
<1>1. Rest \in Seq(Msgs) /\ Rest \o x \in Seq(Msgs) /\ Rest \o x \o y \in Seq(Msgs)
  BY RestTyped
<1>2. ASSUME NEW m \in Msgs, Has(Rest, m)
      PROVE  /\ Has(Rest \o x, m) /\ Has(Rest \o x \o y, m)
             /\ Has(Rest \o x \o y \o z, m)
  <2>1. Has(Rest \o x, m)
    BY <1>1, <1>2, HasConcat
  <2>2. Has(Rest \o x \o y, m)
    BY <1>1, <2>1, HasConcat
  <2> QED BY <1>1, <2>1, <2>2, HasConcat
<1> QED BY <1>2 DEF Waiting

-----------------------------------------------------------------------------
(* What the handler of line c does to the others *)

Aside(c) ==
  \A d \in Lines \ {c} : /\ ch'[d].cls = ch[d].cls /\ ch'[d].st = ch[d].st
                         /\ sock'[d] = sock[d]
Modest(c) == Aside(c) /\ Waiting

\* A handler that changes its own object and socket only.
LEMMA OwnAside ==
  ASSUME TypeOK, NEW c \in Lines, NEW r, NEW s,
         ch' = [ch EXCEPT ![c] = r], sock' = sock \/ sock' = [sock EXCEPT ![c] = s]
  PROVE  Aside(c)
BY Typed DEF Aside

\* KillLinker changes the task of the other leg and nothing else there.
LEMMA UnlinkedAside ==
  ASSUME TypeOK, NEW c \in Lines, NEW r \in Objects, ch' = Unlinked(c, r)
  PROVE  /\ \A d \in Lines \ {c} : ch'[d].cls = ch[d].cls /\ ch'[d].st = ch[d].st
         /\ ch'[c].cls = r.cls /\ ch'[c].st = r.st
<1>1. \A x \in Objects : /\ [x EXCEPT !.task = None].cls = x.cls
                         /\ [x EXCEPT !.task = None].st = x.st
  BY DEF Objects
<1> QED BY <1>1, Typed DEF Unlinked

\* A handler that ends in Become.
LEMMA BecomeModest ==
  ASSUME TypeOK, queue # <<>>, NEW c \in Lines, NEW r, Become(c, r)
  PROVE  Modest(c) /\ ch'[c] = r /\ sock' = sock
<1>1. Waiting
  BY DEF Become, Waiting
<1> QED BY <1>1, OwnAside, Typed DEF Become, Modest

\* Disconnect and StopChan.
LEMMA HangUpModest ==
  ASSUME TypeOK, queue # <<>>, NEW c \in Lines, NEW s \in States,
         NEW fee \in BOOLEAN, HangUp(c, s, fee)
  PROVE  Modest(c) /\ ch'[c].cls = ch[c].cls /\ ch'[c].st = s
<1> DEFINE r == [ch[c] EXCEPT !.st = s, !.reserved = {}, !.timer = "off"]
<1>1. ch[c] \in Objects
  BY Typed
<1>2. r \in Objects /\ r.cls = ch[c].cls /\ r.st = s
  BY <1>1 DEF Objects
<1>3. ch' = Unlinked(c, r)
  BY DEF HangUp
<1> HIDE DEF r
<1>4. /\ \A d \in Lines \ {c} : ch'[d].cls = ch[d].cls /\ ch'[d].st = ch[d].st
      /\ ch'[c].cls = ch[c].cls /\ ch'[c].st = s
  BY <1>2, <1>3, UnlinkedAside
<1>5. Aside(c)
  BY <1>4, Typed DEF HangUp, Aside
<1>6. Waiting
  <2>1. PostIf(fee, c, "FeeDisc") \in Seq(Msgs)
    BY PostIfTyped DEF Events, FeeEnds
  <2>2. PostIf(~OnHook(c), c, "STANDBY") \in Seq(Msgs)
    BY PostIfTyped DEF Events, ChStates
  <2> QED BY <2>1, <2>2, NoticeTyped, PostsWait DEF HangUp
<1> QED BY <1>4, <1>5, <1>6 DEF Modest

\* The signals that ChkDTSignal itself acts on: the leg is released or its object
\* goes.
LEMMA SignalModest ==
  ASSUME TypeOK, queue # <<>>, NEW c \in Lines,
         \/ OffHook(c, "bkFree") \/ OffHook(c, "ResetPcm") \/ OffHook(c, "bkOffHk")
         \/ bkIdle_init(c)
  PROVE  /\ Modest(c)
         /\ \/ ch'[c].cls = ch[c].cls /\ ch'[c].st \in Releasing
            \/ ch'[c].cls = "base"
<1>1. CASE \E s \in Releasing : OffHook(c, s)
  <2>1. PICK s \in Releasing : OffHook(c, s)
    BY <1>1
  <2>2. s \in States
    BY DEF Releasing, States
  <2> QED BY <2>1, <2>2, HangUpModest DEF OffHook
<1>2. CASE bkIdle_init(c)
  <2> DEFINE r == [NewObject EXCEPT !.closing = ch[c].lib]
  <2>1. Become(c, r) /\ r.cls = "base"
    BY <1>2 DEF bkIdle_init, NewObject
  <2> QED BY <2>1, BecomeModest
<1> QED BY <1>1, <1>2 DEF Releasing

\* An event that is ignored.
LEMMA StayModest ==
  ASSUME TypeOK, queue # <<>>, NEW c \in Lines, Stay(c)
  PROVE  Modest(c) /\ ch'[c] = ch[c] /\ sock' = sock
BY BecomeModest DEF Stay

\* FeeLogin_init connects a line that has no socket and leaves any other alone.
LEMMA LoginAsAside ==
  ASSUME TypeOK, NEW c \in Lines, NEW r \in Objects, LoginAs(c, r)
  PROVE  /\ Aside(c)
         /\ ch'[c].st = "FeeLogin" /\ ch'[c].cls = r.cls
         /\ sock[c] # "none" => sock' = sock
<1> DEFINE t == IF "busy" \in r.reserved THEN r.timer ELSE "on"
           q == [r EXCEPT !.st = "FeeLogin", !.reserved = @ \cup {"busy"},
                          !.timer = t]
<1>1. ch' = [ch EXCEPT ![c] = q]
  BY DEF LoginAs, Objects
<1>2. q.st = "FeeLogin" /\ q.cls = r.cls
  BY DEF Objects
<1> HIDE DEF q
<1>3. PICK s : sock' = sock \/ sock' = [sock EXCEPT ![c] = s]
  BY DEF LoginAs
<1>4. Aside(c)
  BY <1>1, <1>3, OwnAside
<1>5. ch'[c] = q
  BY <1>1, Typed
<1> QED BY <1>2, <1>4, <1>5 DEF LoginAs

\* FeeLogin_init.
LEMMA FeeLoginInitModest ==
  ASSUME TypeOK, queue # <<>>, NEW c \in Lines, NEW r \in Objects,
         FeeLogin_init(c, r)
  PROVE  /\ Modest(c)
         /\ ch'[c].st = "FeeLogin" /\ ch'[c].cls = r.cls
         /\ sock[c] # "none" => sock' = sock
BY LoginAsAside DEF FeeLogin_init, Modest, Waiting

\* rcvMFsig_init.
LEMMA RcvMFsigInitModest ==
  ASSUME TypeOK, queue # <<>>, NEW c \in Lines, rcvMFsig_init(c)
  PROVE  /\ Modest(c)
         /\ ch'[c].st = "rcvMFsig" /\ ch'[c].cls = ch[c].cls
         /\ sock' = sock
<1> DEFINE t == IF ch[c].st = "FeeLogin" THEN "off" ELSE ch[c].timer
           r == [ch[c] EXCEPT !.st = "rcvMFsig", !.reserved = {}, !.timer = t]
<1>1. ch[c] \in Objects
  BY Typed
<1>2. r.st = "rcvMFsig" /\ r.cls = ch[c].cls
  BY <1>1 DEF Objects
<1>3. ch' = [ch EXCEPT ![c] = r] /\ sock' = sock
  BY <1>1 DEF rcvMFsig_init, Objects
<1> HIDE DEF r
<1>4. Waiting
  <2>1. Post(c, "TALKING") \in Seq(Msgs) /\ Post(c, "PICKUPED") \in Seq(Msgs)
    BY PostTyped DEF Events, ChStates
  <2>2. \/ queue' = Rest
        \/ queue' = Rest \o Post(c, "TALKING")
        \/ queue' = Rest \o Post(c, "PICKUPED")
    BY DEF rcvMFsig_init
  <2> QED BY <2>1, <2>2, PostsWait
<1> QED BY <1>2, <1>3, <1>4, OwnAside, Typed DEF Modest

\* WaitDial_init.
LEMMA WaitDialInitModest ==
  ASSUME TypeOK, queue # <<>>, NEW c \in Lines, WaitDial_init(c)
  PROVE  /\ Modest(c)
         /\ ch'[c].st = "WaitDial" /\ ch'[c].cls = ch[c].cls
         /\ sock' = sock
<1>1. PICK local \in Prefixes :
        ch' = [ch EXCEPT ![c].st = "WaitDial", ![c].reserved = {"busy"},
                         ![c].timer = IF local THEN "off" ELSE "on"]
  BY DEF WaitDial_init
<1> DEFINE t == IF local THEN "off" ELSE "on"
           r == [ch[c] EXCEPT !.st = "WaitDial", !.reserved = {"busy"}, !.timer = t]
<1>2. ch[c] \in Objects
  BY Typed
<1>3. r.st = "WaitDial" /\ r.cls = ch[c].cls
  BY <1>2 DEF Objects
<1>4. ch' = [ch EXCEPT ![c] = r]
  BY <1>1, <1>2, Typed DEF Objects
<1> HIDE DEF r
<1>5. Waiting /\ sock' = sock
  BY DEF WaitDial_init, Waiting
<1> QED BY <1>3, <1>4, <1>5, OwnAside, Typed DEF Modest

\* RcvTalk_init: a bound call is billed from here.
LEMMA RcvTalkInitModest ==
  ASSUME TypeOK, queue # <<>>, NEW c \in Lines, RcvTalk_init(c)
  PROVE  /\ Modest(c)
         /\ ch'[c].cls = ch[c].cls
         /\ ch[c].cls # "talk" => ch'[c].st = "RcvTalk"
         /\ sock'[c] = IF sock[c] = "bound" THEN "talk" ELSE sock[c]
<1> DEFINE talk == ch[c].cls = "talk"
           s == IF talk THEN "FwdPlay" ELSE "RcvTalk"
           v == IF ch[c].cls = "base" THEN {} ELSE {"busy"}
           t == IF ch[c].st = "WaitDial" THEN "off" ELSE ch[c].timer
           r == [ch[c] EXCEPT !.st = s, !.reserved = v, !.timer = t]
<1>1. ch[c] \in Objects
  BY Typed
<1>2. r.cls = ch[c].cls /\ r.st = s
  BY <1>1 DEF Objects
<1>3. ch' = [ch EXCEPT ![c] = r]
  BY DEF RcvTalk_init
<1> HIDE DEF r
<1>4. Aside(c)
  BY <1>3, OwnAside DEF RcvTalk_init, Billed
<1>5. Waiting
  BY DEF RcvTalk_init, Waiting
<1> QED BY <1>2, <1>3, <1>4, <1>5, Typed DEF RcvTalk_init, Billed, Modest

\* A state that plays a prompt.
LEMMA PromptAside ==
  ASSUME TypeOK, NEW c \in Lines, NEW r \in Objects, Prompt(c, r), sock' = sock
  PROVE  Aside(c) /\ ch'[c].st = r.st /\ ch'[c].cls = r.cls
<1> DEFINE q == [r EXCEPT !.reserved = {"busy"}]
<1>1. q.st = r.st /\ q.cls = r.cls
  BY DEF Objects
<1>2. ch' = [ch EXCEPT ![c] = q]
  BY DEF Prompt
<1> HIDE DEF q
<1> QED BY <1>1, <1>2, OwnAside, Typed
-----------------------------------------------------------------------------
(* The handlers *)

\* The S_FEE_Connected branch of FeeLogin: a dialled leg dials.
LEMMA FeeConnectedModest ==
  ASSUME TypeOK, queue # <<>>, NEW c \in Lines, FeeConnected(c)
  PROVE  /\ Modest(c) /\ ch'[c].cls = ch[c].cls
         /\ ch[c].cls = "dialer" => ch'[c].st = "WaitDial" /\ sock' = sock
<1> DEFINE r == [ch[c] EXCEPT !.timer = "off"]
           b == ch[c].cls = "talk" /\ board[c] = "talking"
<1>1. CASE WaitDial_init(c)
  BY <1>1, WaitDialInitModest
<1>2. CASE /\ LoginAs(c, r) /\ ch[c].cls # "dialer"
           /\ queue' = Rest \o PostIf(b, c, "RINGING") \o Ringing(c)
  <2>1. ch[c] \in Objects
    BY Typed
  <2>2. r \in Objects /\ r.cls = ch[c].cls
    BY <2>1 DEF Objects
  <2>3. PostIf(b, c, "RINGING") \in Seq(Msgs) /\ Ringing(c) \in Seq(Msgs)
    BY PostIfTyped DEF Ringing, Events, ChStates
  <2>4. Waiting
    BY <1>2, <2>3, PostsWait
  <2> HIDE DEF r
  <2> QED BY <1>2, <2>2, <2>4, LoginAsAside DEF Modest
<1> QED BY <1>1, <1>2 DEF FeeConnected

\* The branches of FeeLogin for a refused call.
LEMMA FeeRefusedModest ==
  ASSUME TypeOK, queue # <<>>, NEW c \in Lines, NEW code, FeeRefused(c, code)
  PROVE  Modest(c) /\ ch'[c].cls = ch[c].cls /\ ch'[c].st = "ExitPlay"
<1> DEFINE r == [ch[c] EXCEPT !.st = "ExitPlay", !.timer = "off", !.exit = code]
           q == [r EXCEPT !.reserved = {"busy"}]
<1>1. ch[c] \in Objects
  BY Typed
<1>2. q.cls = ch[c].cls /\ q.st = "ExitPlay"
  BY <1>1 DEF Objects
<1>3. ch' = [ch EXCEPT ![c] = q] /\ sock' = sock
  BY DEF FeeRefused, Prompt
<1>4. Waiting
  <2>1. Ringing(c) \in Seq(Msgs)
    BY PostIfTyped DEF Ringing, Events, ChStates
  <2> QED BY <2>1, PostsWait DEF FeeRefused
<1> HIDE DEF q
<1> QED BY <1>2, <1>3, <1>4, OwnAside, Typed DEF Modest

\* SetLinker gives the other leg a task and a call type, and no state.
LEMMA CallOutModest ==
  ASSUME TypeOK, queue # <<>>, NEW c \in Lines, NEW d \in Lines, CallOut(c, d)
  PROVE  Modest(c)
<1> DEFINE r == [ch[c] EXCEPT !.st = "RcvTalk", !.reserved = {"busy"},
                              !.timer = "on"]
           u == Unlinked(c, r)
<1>1. u \in [Lines -> Objects]
  <2>1. ch[c] \in Objects
    BY Typed
  <2>2. r \in Objects
    BY <2>1 DEF Objects, States
  <2>3. \A x \in Objects : [x EXCEPT !.task = None] \in Objects
    BY DEF Objects
  <2> HIDE DEF r
  <2> QED BY <2>2, <2>3, Typed DEF Unlinked
<1>2. \A x \in Lines \ {c} : u[x].cls = ch[x].cls /\ u[x].st = ch[x].st
  <2>1. \A x \in Objects : /\ [x EXCEPT !.task = None].cls = x.cls
                           /\ [x EXCEPT !.task = None].st = x.st
    BY DEF Objects
  <2> HIDE DEF r
  <2> QED BY <2>1, Typed DEF Unlinked
<1>3. ch' = [u EXCEPT ![c].task = d, ![d].task = c, ![d].kind = "CAHK"]
  BY DEF CallOut, Linked
<1> HIDE DEF u
<1>4. \A x \in Lines : ch'[x].cls = u[x].cls /\ (x # c => ch'[x].st = u[x].st)
  <2>1. \A x \in Objects : \A k :
          /\ [x EXCEPT !.task = k].cls = x.cls /\ [x EXCEPT !.task = k].st = x.st
          /\ [x EXCEPT !.kind = k].cls = x.cls /\ [x EXCEPT !.kind = k].st = x.st
    BY DEF Objects
  <2>2. PICK g1 : g1 = [u EXCEPT ![c].task = d]
    OBVIOUS
  <2>3. PICK g2 : g2 = [g1 EXCEPT ![d].task = c]
    OBVIOUS
  <2>4. ch' = [g2 EXCEPT ![d].kind = "CAHK"]
    BY <1>3, <2>2, <2>3
  <2>5. g1 \in [Lines -> Objects] /\ g2 \in [Lines -> Objects]
    BY <1>1, <2>2, <2>3, TaskKeeps
  <2>6. \A x \in Lines : g1[x].cls = u[x].cls /\ g1[x].st = u[x].st
    BY <1>1, <2>1, <2>2
  <2>7. \A x \in Lines : g2[x].cls = g1[x].cls /\ g2[x].st = g1[x].st
    BY <2>1, <2>3, <2>5
  <2>8. \A x \in Lines : ch'[x].cls = g2[x].cls /\ ch'[x].st = g2[x].st
    BY <2>1, <2>4, <2>5
  <2> QED BY <2>6, <2>7, <2>8
<1>5. \A x \in Lines \ {c} : sock'[x] = sock[x]
  BY Typed DEF CallOut, Billed
<1>6. Waiting
  <2>1. Post(d, "PICKUPED") \in Seq(Msgs)
    BY PostTyped DEF Events, ChStates
  <2> QED BY <2>1, NoticeTyped, PostsWait DEF CallOut
<1> QED BY <1>2, <1>4, <1>5, <1>6 DEF Modest, Aside

\* A caller goes back to the keypad.
LEMMA BackModest ==
  ASSUME TypeOK, queue # <<>>, NEW c \in Lines, NEW r \in Objects, NEW b,
         ch' = Unlinked(c, r), sock' = sock,
         queue' = Rest \o PostIf(b, c, "TALKING") \o Notice(c)
  PROVE  Modest(c)
<1>1. Aside(c)
  BY UnlinkedAside, Typed DEF Aside
<1>2. PostIf(b, c, "TALKING") \in Seq(Msgs)
  BY PostIfTyped DEF Events, ChStates
<1> QED BY <1>1, <1>2, NoticeTyped, PostsWait DEF Modest

\* What an event does to a dialled leg: it goes, it is released, or it goes on, and
\* then the event was not the end of its billing and its connection is kept, and
\* billed when it comes to talk.
DialStep(c, e) ==
  \/ ch'[c].cls # "dialer"
  \/ ch'[c].st \in {"ExitPlay"} \cup Releasing
  \/ /\ e \notin FeeEnds
     /\ ch[c].st \in DialStates /\ ch'[c].st \in DialStates
     /\ sock[c] # "none" => sock'[c] = sock[c] \/ (sock[c] = "bound" /\ sock'[c] = "talk")
     /\ ch'[c].st = "RcvTalk" =>
          sock'[c] = IF ch[c].st # "RcvTalk" /\ sock[c] = "bound" THEN "talk"
                                                                  ELSE sock[c]

\* CChannel::bkIdle and seiConfm: no dialled leg is there.
LEMMA EarlyModest ==
  ASSUME TypeOK, queue # <<>>, NEW c \in Lines, NEW e, bkIdle(c, e) \/ seiConfm(c, e)
  PROVE  Modest(c)
<1> DEFINE r == [ch[c] EXCEPT !.reserved = {}]
           q == [ch[c] EXCEPT !.kind = "CATK"]
<1>1. ch[c] \in Objects
  BY Typed
<1>2. r \in Objects /\ q \in Objects
  BY <1>1 DEF Objects, Kinds
<1>3. FeeLogin_init(c, r) \/ FeeLogin_init(c, q) => Modest(c)
  BY <1>2, FeeLoginInitModest
<1>4. seiConfm_init(c) => Modest(c)
  BY BecomeModest DEF seiConfm_init
<1> QED BY <1>3, <1>4, SignalModest DEF bkIdle, seiConfm, ChkDTSignal

\* CChannel::FeeLogin.
LEMMA FeeLoginModest ==
  ASSUME TypeOK, queue # <<>>, NEW c \in Lines, NEW e, FeeLogin(c, e)
  PROVE  Modest(c) /\ (ch[c].cls = "dialer" => DialStep(c, e))
<1>1. ch[c].st = "FeeLogin" /\ ch[c].st \in DialStates
  BY DEF FeeLogin, DialStates
<1>2. CASE \/ OffHook(c, "bkFree") \/ OffHook(c, "ResetPcm")
           \/ OffHook(c, "bkOffHk") \/ bkIdle_init(c)
  BY <1>2, SignalModest DEF DialStep
<1>3. CASE HangUp(c, "bkOffHk", FALSE)
  BY <1>3, HangUpModest DEF DialStep, States, Releasing
<1>4. CASE \E code : FeeRefused(c, code)
  BY <1>4, FeeRefusedModest DEF DialStep
<1>5. CASE e \notin FeeEnds /\ rcvMFsig_init(c)
  BY <1>1, <1>5, RcvMFsigInitModest DEF DialStep, DialStates
<1>6. CASE e \notin FeeEnds /\ FeeConnected(c)
  BY <1>1, <1>6, FeeConnectedModest DEF DialStep, DialStates
<1>7. CASE e \notin FeeEnds /\ FeeLogin_init(c, ch[c])
  BY <1>1, <1>7, FeeLoginInitModest, Typed DEF DialStep
<1> QED BY <1>2, <1>3, <1>4, <1>5, <1>6, <1>7 DEF FeeLogin, ChkDTSignal, FeeEnds

\* CChannel::rcvMFsig.
LEMMA rcvMFsigModest ==
  ASSUME TypeOK, queue # <<>>, NEW c \in Lines, NEW e, rcvMFsig(c, e)
  PROVE  Modest(c) /\ (ch[c].cls = "dialer" => DialStep(c, e))
<1>1. ch[c].st = "rcvMFsig" /\ ch[c].st \in DialStates
  BY DEF rcvMFsig, DialStates
<1>2. CASE \/ OffHook(c, "bkFree") \/ OffHook(c, "ResetPcm")
           \/ OffHook(c, "bkOffHk") \/ bkIdle_init(c)
  BY <1>2, SignalModest DEF DialStep
<1>3. CASE e \notin FeeEnds /\ RcvTalk_init(c)
  BY <1>1, <1>3, RcvTalkInitModest DEF DialStep, DialStates
<1>4. CASE e \notin FeeEnds /\ rcvMFsig_init(c)
  BY <1>1, <1>4, RcvMFsigInitModest DEF DialStep
<1> QED BY <1>2, <1>3, <1>4 DEF rcvMFsig, ChkDTSignal, FeeEnds

\* WaitDial of every class.
LEMMA WaitDialModest ==
  ASSUME TypeOK, queue # <<>>, NEW c \in Lines, NEW e, WaitDial(c, e)
  PROVE  Modest(c) /\ (ch[c].cls = "dialer" => DialStep(c, e))
<1>1. ch[c].st = "WaitDial" /\ ch[c].st \in DialStates
  BY DEF WaitDial, DialStates
<1>2. CASE \/ OffHook(c, "bkFree") \/ OffHook(c, "ResetPcm")
           \/ OffHook(c, "bkOffHk") \/ bkIdle_init(c)
  BY <1>2, SignalModest DEF DialStep
<1>3. CASE e \notin FeeEnds /\ RcvTalk_init(c)
  BY <1>1, <1>3, RcvTalkInitModest DEF DialStep, DialStates
<1>4. CASE e \notin FeeEnds /\ Stay(c)
  BY <1>1, <1>4, StayModest DEF DialStep
<1> QED BY <1>2, <1>3, <1>4 DEF WaitDial, ChkDTSignal, FeeEnds

\* RcvTalk of every class.
LEMMA RcvTalkModest ==
  ASSUME TypeOK, queue # <<>>, NEW c \in Lines, NEW e, RcvTalk(c, e)
  PROVE  Modest(c) /\ (ch[c].cls = "dialer" => DialStep(c, e))
<1> DEFINE back == [ch[c] EXCEPT !.st = "RcvLvTel", !.reserved = {"busy"}]
           b == ch[c].task = None /\ e = "PENDING"
<1>1. ch[c].st = "RcvTalk" /\ ch[c].st \in DialStates
  BY DEF RcvTalk, DialStates
<1>2. CASE \/ OffHook(c, "bkFree") \/ OffHook(c, "ResetPcm")
           \/ OffHook(c, "bkOffHk") \/ bkIdle_init(c)
  BY <1>2, SignalModest DEF DialStep
<1>3. CASE e \notin FeeEnds /\ Stay(c)
  BY <1>1, <1>3, StayModest DEF DialStep
<1>4. CASE ch[c].cls = "base" /\ RcvTalk_init(c)
  BY <1>4, RcvTalkInitModest
<1>5. CASE /\ ch[c].cls = "talk" /\ ch' = Unlinked(c, back) /\ sock' = sock
           /\ queue' = Rest \o PostIf(b, c, "TALKING") \o Notice(c)
  <2>1. ch[c] \in Objects
    BY Typed
  <2>2. back \in Objects
    BY <2>1 DEF Objects, States
  <2> HIDE DEF back, b
  <2> QED BY <1>5, <2>2, BackModest
<1> QED BY <1>2, <1>3, <1>4, <1>5 DEF RcvTalk, ChkDTSignal, FeeEnds

\* CChannel::ExitPlay.
LEMMA ExitPlayModest ==
  ASSUME TypeOK, queue # <<>>, NEW c \in Lines, NEW e, ExitPlay(c, e)
  PROVE  Modest(c) /\ (ch[c].cls = "dialer" => DialStep(c, e))
<1>1. CASE \/ OffHook(c, "bkFree") \/ OffHook(c, "ResetPcm")
           \/ OffHook(c, "bkOffHk") \/ bkIdle_init(c)
  BY <1>1, SignalModest DEF DialStep
<1>2. CASE Stay(c)
  BY <1>2, StayModest DEF DialStep, ExitPlay
<1> QED BY <1>1, <1>2 DEF ExitPlay, ChkDTSignal

\* bkOffHk, bkFree and ResetPcm.
LEMMA ReleaseModest ==
  ASSUME TypeOK, queue # <<>>, NEW c \in Lines, NEW e,
         bkOffHk(c, e) \/ bkFree(c, e) \/ ResetPcm(c, e)
  PROVE  Modest(c) /\ DialStep(c, e)
<1>1. \/ OffHook(c, "bkFree") \/ OffHook(c, "ResetPcm")
      \/ OffHook(c, "bkOffHk") \/ bkIdle_init(c)
  BY DEF bkOffHk, bkFree, ResetPcm, ChkDTSignal
<1> QED BY <1>1, SignalModest DEF DialStep

\* CTalkChannel::FwdPlay, RcvLvTel and RcvUlTel: no dialled leg is there.
LEMMA KeypadModest ==
  ASSUME TypeOK, queue # <<>>, NEW c \in Lines, NEW e,
         FwdPlay(c, e) \/ RcvLvTel(c, e) \/ RcvUlTel(c, e)
  PROVE  Modest(c)
<1> DEFINE got == ch[c].reserved \cup (IF e = "PlayEnd" THEN {"played"} ELSE {})
                                 \cup (IF e = "#" THEN {"keyed"} ELSE {})
           r == [ch[c] EXCEPT !.st = "RcvLvTel"]
           q == [ch[c] EXCEPT !.st = "RcvUlTel", !.reserved = {"busy", "played"}]
           x == [ch[c] EXCEPT !.st = "ExitPlay", !.exit = "BUSY"]
<1>1. ch[c] \in Objects
  BY Typed
<1>2. r \in Objects /\ x \in Objects
  BY <1>1 DEF Objects, States
<1>3. RcvLvTel_init(c) => Modest(c)
  BY <1>2, PromptAside DEF RcvLvTel_init, Modest, Waiting
<1>4. NoLine(c) => Modest(c)
  BY <1>2, PromptAside DEF NoLine, Modest, Waiting
<1>5. Stay(c) \/ Become(c, [ch[c] EXCEPT !.reserved = got]) => Modest(c)
  BY BecomeModest DEF Stay
<1>6. CASE /\ ch' = [ch EXCEPT ![c].st = "RcvUlTel",
                               ![c].reserved = {"busy", "played"}]
           /\ queue' = Rest \o Post(c, "#") /\ sock' = sock
  <2>1. ch' = [ch EXCEPT ![c] = q]
    BY <1>1, <1>6, Typed DEF Objects
  <2>2. Post(c, "#") \in Seq(Msgs)
    BY PostTyped DEF Events
  <2> HIDE DEF q
  <2> QED BY <1>6, <2>1, <2>2, OwnAside, PostsWait DEF Modest
<1> QED BY <1>3, <1>4, <1>5, <1>6, CallOutModest, SignalModest
        DEF FwdPlay, RcvLvTel, RcvUlTel, ChkDTSignal

\* Every handler.
LEMMA HandleModest ==
  ASSUME TypeOK, queue # <<>>, NEW c \in Lines, NEW e, Handle(c, e)
  PROVE  Modest(c) /\ (ch[c].cls = "dialer" /\ Covered(c) => DialStep(c, e))
<1>1. CASE \/ bkIdle(c, e) \/ seiConfm(c, e) \/ FwdPlay(c, e) \/ RcvLvTel(c, e)
           \/ RcvUlTel(c, e)
  <2>1. ch[c].st \notin DialStates \cup {"ExitPlay"} \cup Releasing
    BY <1>1 DEF bkIdle, seiConfm, FwdPlay, RcvLvTel, RcvUlTel, DialStates, Releasing
  <2> QED BY <1>1, <2>1, EarlyModest, KeypadModest DEF Covered
<1>2. CASE ~(\/ bkIdle(c, e) \/ seiConfm(c, e) \/ FwdPlay(c, e) \/ RcvLvTel(c, e)
             \/ RcvUlTel(c, e))
  BY <1>2, FeeLoginModest, rcvMFsigModest, WaitDialModest, RcvTalkModest,
     ExitPlayModest, ReleaseModest DEF Handle
<1> QED BY <1>1, <1>2

-----------------------------------------------------------------------------
(* The invariant *)

\* What a dialler passes on is a message for the queue.
LEMMA ForwardedTyped ==
  ASSUME TypeOK, queue # <<>>
  PROVE  Forwarded \in Seq(Msgs)
<1>1. Head(queue) \in Msgs
  BY RestTyped
<1>2. /\ ch[Head(queue).line].task \in Lines \cup {None}
      /\ Head(queue).ev \in Events
  BY <1>1, Typed DEF Msgs, Objects
<1> QED BY <1>2, PostIfTyped DEF Forwarded

\* The timer and the DLL are no part of the face of the object.
LEMMA FreedSame ==
  ASSUME TypeOK, NEW c \in Lines
  PROVE  Freed(c).cls = ch[c].cls /\ Freed(c).st = ch[c].st
BY Typed DEF Freed, Objects

\* Initially no line is a dialled leg.
LEMMA InitBill == Init => BillInv
<1> SUFFICES ASSUME Init PROVE \A d \in Lines : Covered(d)
  BY InitTyped DEF BillInv
<1>1. ch = [c \in Lines |-> NewObject]
  BY DEF Init
<1> QED BY <1>1 DEF NewObject, Covered

\* The end of a billing waits in the queue until its own line has handled it.
LEMMA EndWaits ==
  ASSUME TypeOK, queue # <<>>, Waiting, NEW d \in Lines, EndQueued(d),
         d # Head(queue).line \/ Head(queue).ev \notin FeeEnds
  PROVE  EndQueued(d)'
<1>1. PICK e \in FeeEnds : Queued(d, e)
  BY DEF EndQueued
<1> DEFINE m == [line |-> d, ev |-> e]
<1>2. m \in Msgs /\ Has(queue, m)
  BY <1>1 DEF Msgs, Events, Has, Queued
<1>3. m # Head(queue)
  BY <1>1
<1> HIDE DEF m
<1>4. Has(Tail(queue), m)
  BY <1>2, <1>3, HasTail, Typed
<1>5. Has(Rest, m)
  <2>1. Tail(queue) \in Seq(Msgs) /\ Forwarded \in Seq(Msgs)
    BY ForwardedTyped, Typed
  <2> QED BY <1>4, <2>1, HasConcat DEF Rest
<1>6. Has(queue', m)
  BY <1>2, <1>5 DEF Waiting
<1> QED BY <1>1, <1>6 DEF EndQueued, Queued, Has, m

\* What is posted while no event is polled comes behind what is queued.
LEMMA EndStays ==
  ASSUME TypeOK, NEW s \in Seq(Msgs), NEW t \in Seq(Msgs),
         queue' = queue \o s \/ queue' = queue \o s \o t,
         NEW d \in Lines, EndQueued(d)
  PROVE  EndQueued(d)'
<1>1. PICK e \in FeeEnds : Queued(d, e)
  BY DEF EndQueued
<1>2. Has(queue, [line |-> d, ev |-> e])
  BY <1>1 DEF Has, Queued
<1>3. Has(queue', [line |-> d, ev |-> e])
  <2>1. queue \in Seq(Msgs) /\ queue \o s \in Seq(Msgs)
    BY ConcatTyped, Typed
  <2> QED BY <1>2, <2>1, HasConcat
<1> QED BY <1>1, <1>3 DEF EndQueued, Queued, Has

\* A poll.
LEMMA PollBill ==
  ASSUME BillInv, RunPolling, NEW d \in Lines
  PROVE  Covered(d)'
<1> DEFINE c == Head(queue).line
           e == Head(queue).ev
<1>1. TypeOK /\ queue # <<>> /\ Handle(c, e) /\ Covered(d)
  BY DEF RunPolling, BillInv
<1>2. c \in Lines
  BY <1>1, RestTyped DEF Msgs
<1>3. Modest(c) /\ (ch[c].cls = "dialer" /\ Covered(c) => DialStep(c, e))
  BY <1>1, <1>2, HandleModest
<1>4. d # c \/ e \notin FeeEnds => (EndQueued(d) => EndQueued(d)')
  BY <1>1, <1>3, EndWaits DEF Modest
<1>5. CASE d # c
  BY <1>1, <1>3, <1>4, <1>5 DEF Modest, Aside, Covered
<1>6. CASE d = c /\ ch[d].cls # "dialer"
  <2>1. Kept(d)
    BY <1>1, <1>2, HandleWell DEF HandledWell
  <2> QED BY <1>6, <2>1 DEF Kept, NewObject, Covered
<1>7. CASE d = c /\ ch[d].cls = "dialer"
  <2>1. DialStep(d, e)
    BY <1>1, <1>3, <1>7
  <2>2. CASE ch'[d].cls # "dialer" \/ ch'[d].st \in {"ExitPlay"} \cup Releasing
    BY <2>2 DEF Covered, DialStates, Releasing
  <2>3. CASE /\ e \notin FeeEnds
             /\ ch[d].st \in DialStates /\ ch'[d].st \in DialStates
             /\ sock[d] # "none" => sock'[d] = sock[d]
                                    \/ (sock[d] = "bound" /\ sock'[d] = "talk")
             /\ ch'[d].st = "RcvTalk" =>
                  sock'[d] = IF ch[d].st # "RcvTalk" /\ sock[d] = "bound"
                             THEN "talk" ELSE sock[d]
    <3>1. EndQueued(d) => EndQueued(d)'
      BY <1>4, <2>3
    <3> QED BY <1>1, <1>7, <2>3, <3>1 DEF Covered
  <2> QED BY <2>1, <2>2, <2>3 DEF DialStep
<1> QED BY <1>5, <1>6, <1>7

\* A visit: a dialled leg is made with its call bound, and one that loses its
\* connection has the end of the billing queued.
LEMMA OnRunBill ==
  ASSUME BillInv, NEW c \in Lines, OnRun(c), NEW d \in Lines
  PROVE  Covered(d)'
<1>1. TypeOK /\ Covered(d)
  BY DEF BillInv
<1>2. Expired(c) \in Seq(Msgs) /\ \A e \in Events : Post(c, e) \in Seq(Msgs)
  BY <1>1, FreedTyped, PostTyped
<1>3. \/ queue' = queue \o Expired(c)
      \/ \E e \in Events : queue' = queue \o Expired(c) \o Post(c, e)
  BY DEF OnRun, Quiet, Connected, Dropped, Refused, Bound, NoService, Events, FeeEnds
<1>4. EndQueued(d) => EndQueued(d)'
  <2>1. PICK t \in Seq(Msgs) : \/ queue' = queue \o Expired(c)
                               \/ queue' = queue \o Expired(c) \o t
    BY <1>2, <1>3
  <2> QED BY <1>1, <1>2, <2>1, EndStays
<1>5. CASE d # c
  <2>1. ch'[d] = ch[d] /\ sock'[d] = sock[d]
    BY <1>1, <1>5, Typed DEF OnRun, Quiet, Connected, Dropped, Refused, Bound,
       NoService
  <2> QED BY <1>1, <1>4, <2>1 DEF Covered
<1>6. CASE d = c /\ Bound(c)
  <2>1. ch'[d].st = "FeeLogin" /\ sock'[d] = "bound"
    BY <1>1, <1>6, Typed DEF Bound, NewObject
  <2> QED BY <2>1 DEF Covered, DialStates
<1>7. CASE d = c /\ (Quiet(c) \/ Connected(c))
  <2>1. ch'[d].cls = ch[d].cls /\ ch'[d].st = ch[d].st
    BY <1>1, <1>7, FreedSame, Typed DEF Quiet, Connected
  <2>2. sock[d] \in {"bound", "talk"} => sock'[d] = sock[d]
    BY <1>7 DEF Quiet, Connected
  <2> QED BY <1>1, <1>4, <2>1, <2>2 DEF Covered
<1>8. CASE d = c /\ (Dropped(c) \/ Refused(c) \/ NoService(c))
  <2>1. ch'[d].cls = ch[d].cls /\ ch'[d].st = ch[d].st
    BY <1>1, <1>8, FreedSame, Typed DEF Dropped, Refused, NoService
  <2>2. PICK e \in FeeEnds : queue' = (queue \o Expired(c)) \o Post(c, e)
    BY <1>8 DEF Dropped, Refused, NoService, FeeEnds
  <2>3. EndQueued(d)'
    <3>1. queue \o Expired(c) \in Seq(Msgs) /\ Post(c, e) \in Seq(Msgs)
      BY <1>1, <1>2, ConcatTyped, Typed DEF Events
    <3>2. Post(c, e) = <<[line |-> d, ev |-> e]>>
      BY <1>8 DEF Post, Lines, None
    <3>3. Len(queue') \in DOMAIN queue' /\ queue'[Len(queue')] = [line |-> d, ev |-> e]
      BY <2>2, <3>1, <3>2
    <3> QED BY <2>2, <3>3 DEF EndQueued, Queued
  <2> QED BY <1>1, <2>1, <2>3 DEF Covered
<1> QED BY <1>5, <1>6, <1>7, <1>8 DEF OnRun

\* CTraffic's call back and the outside touch no class, state or connection.
LEMMA OtherBill ==
  ASSUME BillInv, NEW c \in Lines, CallBack(c) \/ Outside(c), NEW d \in Lines
  PROVE  Covered(d)'
<1>1. TypeOK /\ Covered(d)
  BY DEF BillInv
<1>2. ch'[d].cls = ch[d].cls /\ ch'[d].st = ch[d].st /\ sock' = sock
  <2>1. \A x \in Objects : \A k :
          /\ [x EXCEPT !.kind = k].cls = x.cls /\ [x EXCEPT !.kind = k].st = x.st
          /\ [x EXCEPT !.timer = k].cls = x.cls /\ [x EXCEPT !.timer = k].st = x.st
    BY DEF Objects
  <2>2. CASE CallBack(c)
    BY <1>1, <2>1, <2>2, Typed DEF CallBack
  <2>3. CASE Tick(c)
    BY <1>1, <2>1, <2>3, Typed DEF Tick
  <2>4. CASE Outside(c) /\ ~Tick(c)
    BY <2>4 DEF Outside, Arrive, GiveUp, FarHangup, Answer, Key, PlayEnd, Fault,
       Restore, BoardTo, Inside
  <2> QED BY <2>2, <2>3, <2>4
<1>3. EndQueued(d) => EndQueued(d)'
  <2>1. CASE queue' = queue
    BY <2>1 DEF EndQueued, Queued
  <2>2. CASE \E e \in Events : queue' = queue \o Post(c, e)
    BY <1>1, <2>2, PostTyped, EndStays
  <2>3. queue' = queue \/ \E e \in Events : queue' = queue \o Post(c, e)
    BY DEF CallBack, Outside, Arrive, GiveUp, FarHangup, Answer, Key, PlayEnd, Fault,
       Restore, BoardTo, Tick, Events, ChStates
  <2> QED BY <2>1, <2>2, <2>3
<1> QED BY <1>1, <1>2, <1>3 DEF Covered

\* BillInv is inductive.
LEMMA NextBill == BillInv /\ [Next]_vars => BillInv'
<1> SUFFICES ASSUME BillInv, [Next]_vars, NEW d \in Lines PROVE Covered(d)'
  BY NextTyped DEF BillInv
<1>1. CASE UNCHANGED vars \/ NoEvent
  <2>1. UNCHANGED <<ch, sock, queue>>
    BY <1>1 DEF vars, NoEvent
  <2> QED BY <2>1 DEF BillInv, Covered, EndQueued, Queued
<1>2. CASE RunPolling
  BY <1>2, PollBill
<1>3. ASSUME NEW c \in Lines, OnRun(c) \/ CallBack(c) \/ Outside(c)
      PROVE  Covered(d)'
  BY <1>3, OnRunBill, OtherBill
<1> QED BY <1>1, <1>2, <1>3 DEF Next

\* No dialled leg ever talks unbilled, whatever the order in which the billing
\* server answers, refuses and drops calls while the lines work: from the moment it
\* talks the server charges for it, or the end of the billing is queued before it.
THEOREM DialledLegBilled == Spec => []BilledLeg
<1>1. BillInv => BilledLeg
  BY DEF BillInv, BilledLeg, Covered, EndQueued
<1> QED BY <1>1, InitBill, NextBill, PTL DEF Spec
=============================================================================
