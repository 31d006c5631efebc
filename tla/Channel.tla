------------------------------- MODULE Channel -------------------------------
(***************************************************************************)
(* The telephone lines of Xcenter.  Every line of the voice board has one  *)
(* object in Network.m_pList, a CChannel or an object of a service class   *)
(* that a plug-in DLL creates once the billing server (xmaster) has        *)
(* accepted the call: CTalkChannel for the caller's leg, CDialerChannel    *)
(* for the leg dialled on his behalf.                                      *)
(*                                                                         *)
(* One thread runs them: CNetwork::OnRun alternates RunPolling, which      *)
(* hands one event of the board's queue to the state machine of its line,  *)
(* and RunChannel, which lets every line look at its timer and its socket. *)
(* The voice board, the billing server and the people on the phones act in *)
(* between, and so does CTraffic's thread whenever it gets the lock.       *)
(***************************************************************************)
EXTENDS Integers, Sequences, FiniteSets

CONSTANTS
  NLines,     \* lines of the board, numbered as RunChannel visits them
  Inbound,    \* lines on which calls arrive
  Trunk,      \* lines LookOutPhs may seize for an outgoing call
  InLimit,    \* Settings.Trunk.InLimit: VerifyIncoming refuses every call
  Prefixes,   \* whether a dialled number starts with 0574: {TRUE, FALSE} or less
  Calls, Keys, Faults, Refusals,   \* bounds: how many of each may still come
  QueueCap    \* bound: the outside posts only while the queue is shorter

Lines == 1 .. NLines
None  == 0                                   \* NULL, and line number -1

ASSUME LinesAssumption ==
  /\ NLines \in Nat \ {0}
  /\ Inbound \subseteq Lines /\ Trunk \subseteq Lines
ASSUME SettingsAssumption ==
  /\ InLimit \in BOOLEAN /\ Prefixes \subseteq BOOLEAN
  /\ {Calls, Keys, Faults, Refusals, QueueCap} \subseteq Nat

Budget == [calls |-> Calls, keys |-> Keys, faults |-> Faults,
           refusals |-> Refusals]

Services == {"talk", "dialer"}               \* plug-in DLLs, and their classes
Kinds    == {"", "CATK", "CAHK", "CABK"}     \* CallType

\* The service the fee table of the billing server names for a kind of call.
ServiceOf(k) == IF k = "CAHK" THEN "dialer" ELSE "talk"

States == { "bkIdle", "bkFree", "bkOffHk", "ResetPcm", "seiConfm", "FeeLogin",
            "rcvMFsig", "RcvTalk", "WaitDial", "ExitPlay",
            "FwdPlay", "RcvLvTel", "RcvUlTel" }

FeeEnds  == {"FeeDisc", "FeeNoPay", "FeeCallBack"}  \* E_FEE_Login, Disconnected
ChStates == { "STANDBY", "PICKUPED", "RINGING", "TALKING", "PENDING",
              "UNAVAIL", "RESET" }                  \* E_CHG_ChState
Events   == ChStates \cup FeeEnds \cup
            {"RxPhoNum", "FeeConn", "TIMEOUT", "PlayEnd", "#", "*"}

Objects == [ cls      : {"base"} \cup Services,     \* class of the object
             st       : States,                     \* fcnp
             reserved : SUBSET {"busy", "played", "keyed"},   \* Reserved
             timer    : {"off", "on", "due"},       \* ExpTimer
             exit     : {"", "NOPAY", "BUSY", "CALLBACK"},    \* ExitCode
             kind     : Kinds,                      \* CallType
             task     : Lines \cup {None},          \* m_nTaskId
             lib      : Services \cup {"none"},     \* m_hInstance
             closing  : Services \cup {"none"} ]    \* m_hDllClosing

\* The object the constructor makes: CChannel::Setup on a cleared object.
NewObject == [ cls |-> "base", st |-> "bkIdle", reserved |-> {}, timer |-> "off",
               exit |-> "", kind |-> "", task |-> None,
               lib |-> "none", closing |-> "none" ]

VARIABLES
  ch,         \* m_pList: the object of each line
  refs,       \* LoadLibrary calls not yet undone, per line and DLL
  sock,       \* the line's connection to the billing server
  asked,      \* call type in the Bind packet that server is to answer
  board,      \* the voice board: SsmGetChState
  playing,    \* the voice board: a prompt is playing
  queue,      \* the voice board: its event queue, oldest first
  turn,       \* 0: RunPolling is next; c: RunChannel has come to line c
  backs,      \* Traffic.m_pUsrBacks, as a number
  stalePick,  \* history: LookOutCh took a line whose last call was not over
  overlap,    \* history: a line began a call when its last was not over
  budget      \* what the outside may still do

vars == <<ch, refs, sock, asked, board, playing, queue, turn, backs, stalePick,
          overlap, budget>>

\* Every variable keeps its type whatever the handlers, the board and the server
\* do; the ones worth the run are those code could break: a line's task is a line
\* of the board, and Traffic never owes less than no call back.
TypeOK ==
  /\ ch      \in [Lines -> Objects]
  /\ refs    \in [Lines -> [Services -> Int]]
  /\ sock    \in [Lines -> {"none", "connecting", "login", "bound", "talk"}]
  /\ asked   \in [Lines -> Kinds]
  /\ board   \in [Lines -> {"standby", "incoming", "ringing", "picked",
                            "dialing", "talking", "pending", "down"}]
  /\ playing \in [Lines -> BOOLEAN]
  /\ queue   \in Seq([line : Lines, ev : Events])
  /\ turn    \in 0 .. NLines
  /\ backs   \in Nat
  /\ stalePick \in BOOLEAN /\ overlap \in BOOLEAN
  /\ budget  \in [{"calls", "keys", "faults", "refusals"} -> Nat]

Init ==
  /\ ch      = [c \in Lines |-> NewObject]
  /\ refs    = [c \in Lines |-> [s \in Services |-> 0]]
  /\ sock    = [c \in Lines |-> "none"]
  /\ asked   = [c \in Lines |-> ""]
  /\ board   = [c \in Lines |-> "standby"]
  /\ playing = [c \in Lines |-> FALSE]
  /\ queue   = <<>>
  /\ turn    = 0
  /\ backs   = 0
  /\ stalePick = FALSE
  /\ overlap = FALSE
  /\ budget  = Budget

-----------------------------------------------------------------------------
(* Building blocks *)

\* SsmPutUserEvent; RunPolling throws away what is posted to line -1.
Post(c, e) == IF c = None THEN <<>> ELSE <<[line |-> c, ev |-> e]>>
PostIf(cond, c, e) == IF cond THEN Post(c, e) ELSE <<>>
Pending(c) == \E i \in DOMAIN queue : queue[i].line = c
Spend(what) == budget[what] > 0 /\ budget' = [budget EXCEPT ![what] = @ - 1]
Queued(c, e) == \E i \in DOMAIN queue : queue[i] = [line |-> c, ev |-> e]

\* What a handler leaves in the queue before its own posts.  While it dials, a
\* CDialerChannel first passes every board event on to the caller's leg.
Forwarded ==
  LET c == Head(queue).line
      e == Head(queue).ev IN
  PostIf(ch[c].cls = "dialer" /\ ch[c].st = "WaitDial" /\ e \in ChStates,
         ch[c].task, e)
Rest == Tail(queue) \o Forwarded

\* Mutant: the service classes do not override KillLinker.
Notice_Silent(c) == <<>>

\* CTalkChannel and CDialerChannel override KillLinker to tell the other leg.
Notice(c) == PostIf(ch[c].cls \in Services, ch[c].task, "PENDING")

\* Mutant: KillLinker clears its own side of the link only.
Unlinked_OneSide(c, r) == [ch EXCEPT ![c] = [r EXCEPT !.task = None]]

\* CChannel::KillLinker, r being what else becomes of the line's own object.
Unlinked(c, r) ==
  [d \in Lines |-> IF d = c THEN [r EXCEPT !.task = None]
                   ELSE IF d = ch[c].task THEN [ch[d] EXCEPT !.task = None]
                   ELSE ch[d]]

\* SsmHangup: nothing on a line that is on hook or out of service.
OnHook(c) == board[c] \in {"standby", "down"}

\* Disconnect and StopChan, the body of bkOffHk_init, bkFree_init and
\* ResetPcm_init.  The flags are cleared although some paths leave them set: no
\* state reached from here reads them before bkIdle_init clears them.
HangUp(c, s, fee) ==
  /\ ch' = Unlinked(c, [ch[c] EXCEPT !.st = s, !.reserved = {}, !.timer = "off"])
  /\ sock' = [sock EXCEPT ![c] = "none"]
  /\ board' = [board EXCEPT ![c] = IF OnHook(c) THEN @ ELSE "standby"]
  /\ playing' = [playing EXCEPT ![c] = FALSE]
  /\ queue' = Rest \o PostIf(fee, c, "FeeDisc")
                   \o PostIf(~OnHook(c), c, "STANDBY") \o Notice(c)

OffHook(c, s) == HangUp(c, s, sock[c] # "none")

\* The line's object changes and nothing else does; the event is used up.
Become(c, r) ==
  /\ ch' = [ch EXCEPT ![c] = r]
  /\ queue' = Rest
  /\ UNCHANGED <<sock, board, playing>>
Stay(c) == Become(c, ch[c])

\* Mutant: Clone leaves the DLL with both objects.
bkIdle_init_SharesDll(c) ==
  Become(c, [NewObject EXCEPT !.closing = ch[c].lib, !.lib = ch[c].lib])

\* A new CChannel takes the object's place: Clone hands it the socket and the
\* DLL, Setup clears the rest.  The service classes do it twice over, with the
\* same outcome.
bkIdle_init(c) == Become(c, [NewObject EXCEPT !.closing = ch[c].lib])

\* SsmSetKB(1) makes a call that waits ring.
Rings(c) == board[c] = "incoming"
SetKB(c) == board' = [board EXCEPT ![c] = IF Rings(c) THEN "ringing" ELSE @]
Ringing(c) == PostIf(Rings(c), c, "RINGING")

\* Mutant: the login is not timed.
LoginAs_NoTimer(c, r) ==
  /\ ch' = [ch EXCEPT ![c] = [r EXCEPT !.st = "FeeLogin", !.reserved = @ \cup {"busy"}]]
  /\ IF "busy" \in r.reserved \/ sock[c] # "none"
     THEN UNCHANGED sock
     ELSE \E s \in {"none", "connecting"} : sock' = [sock EXCEPT ![c] = s]

\* FeeLogin_init, r being the object as the handler before it leaves it.
\* ConnectTo does nothing on a line that still has a socket, and may fail.
LoginAs(c, r) ==
  LET busy == "busy" \in r.reserved IN
  /\ ch' = [ch EXCEPT ![c] = [r EXCEPT !.st = "FeeLogin",
                                       !.reserved = @ \cup {"busy"},
                                       !.timer = IF busy THEN @ ELSE "on"]]
  /\ IF busy \/ sock[c] # "none"
     THEN UNCHANGED sock
     ELSE \E s \in {"none", "connecting"} : sock' = [sock EXCEPT ![c] = s]
FeeLogin_init(c, r) ==
  LoginAs(c, r) /\ queue' = Rest /\ UNCHANGED <<board, playing>>

\* Mutant: nothing ends the wait for the caller's number.
seiConfm_init_NoTimer(c) ==
  Become(c, [ch[c] EXCEPT !.st = "seiConfm", !.reserved = {}])

\* LoadPhonNumber and LoadCallerId, and 1.5 s for more of them to come.
seiConfm_init(c) ==
  Become(c, [ch[c] EXCEPT !.st = "seiConfm", !.reserved = {}, !.timer = "on"])

\* SsmPickup; a service taken over while the line talks needs none.
rcvMFsig_init(c) ==
  LET r == [ch[c] EXCEPT !.st = "rcvMFsig", !.reserved = {},
              !.timer = IF ch[c].st = "FeeLogin" THEN "off" ELSE @] IN
  /\ ch' = [ch EXCEPT ![c] = r]
  /\ IF ch[c].cls = "talk" /\ board[c] = "talking"
     THEN queue' = Rest \o Post(c, "TALKING") /\ UNCHANGED board
     ELSE CASE board[c] = "ringing" ->
                 /\ board' = [board EXCEPT ![c] = "talking"]
                 /\ queue' = Rest \o Post(c, "TALKING")
            [] board[c] = "standby" ->
                 /\ board' = [board EXCEPT ![c] = "picked"]
                 /\ queue' = Rest \o Post(c, "PICKUPED")
            [] OTHER -> queue' = Rest /\ UNCHANGED board
  /\ UNCHANGED <<sock, playing>>

\* Mutant: no number is timed, whatever it starts with.
WaitDial_init_NoTimer(c) ==
  /\ ch' = [ch EXCEPT ![c].st = "WaitDial", ![c].reserved = {"busy"},
                      ![c].timer = "off"]
  /\ board' = [board EXCEPT ![c] = IF @ = "picked" THEN "dialing" ELSE @]
  /\ queue' = Rest
  /\ UNCHANGED <<sock, playing>>

\* WaitDial_init on entry: SsmAutoDial, and the timer unless 0574 is dialled.
WaitDial_init(c) ==
  /\ \E local \in Prefixes :
       ch' = [ch EXCEPT ![c].st = "WaitDial", ![c].reserved = {"busy"},
                        ![c].timer = IF local THEN "off" ELSE "on"]
  /\ board' = [board EXCEPT ![c] = IF @ = "picked" THEN "dialing" ELSE @]
  /\ queue' = Rest
  /\ UNCHANGED <<sock, playing>>

\* CChannel::RcvTalk_init: the TalkPacket starts the billing.
Billed(c) == sock' = [sock EXCEPT ![c] = IF @ = "bound" THEN "talk" ELSE @]

\* RcvTalk_init of each class: the talk service goes on to its welcome prompt.
RcvTalk_init(c) ==
  LET talk == ch[c].cls = "talk"
      r == [ch[c] EXCEPT !.st = IF talk THEN "FwdPlay" ELSE "RcvTalk",
                         !.reserved = IF ch[c].cls = "base" THEN {} ELSE {"busy"},
                         !.timer = IF ch[c].st = "WaitDial" THEN "off" ELSE @] IN
  /\ ch' = [ch EXCEPT ![c] = r]
  /\ Billed(c)
  /\ playing' = [playing EXCEPT ![c] = @ \/ talk]
  /\ queue' = Rest
  /\ UNCHANGED board

\* A state that clears the flags and plays a prompt: ExitPlay_init, RcvLvTel_init.
Prompt(c, r) ==
  /\ ch' = [ch EXCEPT ![c] = [r EXCEPT !.reserved = {"busy"}]]
  /\ playing' = [playing EXCEPT ![c] = TRUE]
RcvLvTel_init(c) ==
  Prompt(c, [ch[c] EXCEPT !.st = "RcvLvTel"]) /\ queue' = Rest
  /\ UNCHANGED <<sock, board>>

\* Mutant: a line whose far end has hung up is taken for idle.
ChkDTSignal_IdleAtOnce(c, e, default) ==
  CASE e = "UNAVAIL" -> OffHook(c, "bkFree")
    [] e = "RESET"   -> OffHook(c, "ResetPcm")
    [] e \in {"STANDBY", "PENDING"} -> bkIdle_init(c)
    [] e \in FeeEnds -> OffHook(c, "bkOffHk")
    [] OTHER -> default

\* What every state does with the signals it has no rule of its own for.
ChkDTSignal(c, e, default) ==
  CASE e = "UNAVAIL" -> OffHook(c, "bkFree")
    [] e = "RESET"   -> OffHook(c, "ResetPcm")
    [] e = "STANDBY" -> bkIdle_init(c)
    [] e \in FeeEnds \cup {"PENDING"} -> OffHook(c, "bkOffHk")
    [] OTHER -> default

-----------------------------------------------------------------------------
(* Choosing a line for an outgoing call *)

\* LookOutCh takes the first line that is on hook and whose object and past
\* object come from no DLL.  It does not ask in which state that object is.
Eligible(d) == /\ d \in Trunk /\ board[d] = "standby"
               /\ ch[d].lib = "none" /\ ch[d].closing = "none"

\* Something of line d's last call is left: its state, its connection or an event.
Leftover(d) == ch[d].st # "bkIdle" \/ sock[d] # "none" \/ Pending(d)
Overlaps(d) == Leftover(d) \/ playing[d]

Seize(d) == /\ Eligible(d)
            /\ board' = [board EXCEPT ![d] = "picked"]
            /\ stalePick' = (stalePick \/ Leftover(d))
            /\ overlap' = (overlap \/ Overlaps(d))

\* SetLinker: the old link is undone first, then each line names the other.
Linked(c, d, r) ==
  [Unlinked(c, r) EXCEPT ![c].task = d, ![d].task = c, ![d].kind = "CAHK"]

-----------------------------------------------------------------------------
(* The handlers: the event e has come to line c *)

bkIdle(c, e) ==
  /\ ch[c].st = "bkIdle"
  /\ CASE e = "PENDING" \/ (e = "RxPhoNum" /\ ~InLimit) -> seiConfm_init(c)
       [] e = "RxPhoNum" /\ InLimit -> OffHook(c, "bkOffHk")
       [] e = "PICKUPED" -> FeeLogin_init(c, [ch[c] EXCEPT !.reserved = {}])
       [] e \in FeeEnds -> bkIdle_init(c)
       [] OTHER -> ChkDTSignal(c, e, bkIdle_init(c))
  /\ UNCHANGED <<backs, stalePick, overlap>>

seiConfm(c, e) ==
  /\ ch[c].st = "seiConfm"
  /\ CASE e = "TIMEOUT" -> FeeLogin_init(c, [ch[c] EXCEPT !.kind = "CATK"])
       [] e = "PENDING" -> seiConfm_init(c)
       [] OTHER -> ChkDTSignal(c, e, seiConfm_init(c))
  /\ UNCHANGED <<backs, stalePick, overlap>>

\* The server has bound the call.  A caller who already talks goes on at once, a
\* line picked up to dial dials, and any other is made to ring.
FeeConnected(c) ==
  LET talk == ch[c].cls = "talk" IN
  IF ch[c].cls = "dialer" \/ (talk /\ board[c] = "picked")
  THEN WaitDial_init(c)
  ELSE /\ LoginAs(c, [ch[c] EXCEPT !.timer = "off"])
       /\ SetKB(c)
       /\ queue' = Rest \o PostIf(talk /\ board[c] = "talking", c, "RINGING")
                        \o Ringing(c)
       /\ UNCHANGED playing

FeeRefused(c, code) ==
  /\ Prompt(c, [ch[c] EXCEPT !.st = "ExitPlay", !.timer = "off", !.exit = code])
  /\ SetKB(c)
  /\ queue' = Rest \o Ringing(c)
  /\ UNCHANGED sock

FeeLogin(c, e) ==
  /\ ch[c].st = "FeeLogin"
  /\ CASE e = "RINGING"     -> rcvMFsig_init(c)
       [] e = "FeeConn"     -> FeeConnected(c)
       [] e = "FeeNoPay"    -> FeeRefused(c, "NOPAY")
       [] e = "FeeCallBack" -> FeeRefused(c, "CALLBACK")
       [] e = "TIMEOUT"     -> HangUp(c, "bkOffHk", FALSE)
       [] OTHER -> ChkDTSignal(c, e, FeeLogin_init(c, ch[c]))
  /\ UNCHANGED <<backs, stalePick, overlap>>

rcvMFsig(c, e) ==
  /\ ch[c].st = "rcvMFsig"
  /\ IF e = "TALKING" THEN RcvTalk_init(c)
                      ELSE ChkDTSignal(c, e, rcvMFsig_init(c))
  /\ UNCHANGED <<backs, stalePick, overlap>>

FwdPlay(c, e) ==
  /\ ch[c].st = "FwdPlay"
  /\ IF e = "PlayEnd" THEN RcvLvTel_init(c) ELSE ChkDTSignal(c, e, Stay(c))
  /\ UNCHANGED <<backs, stalePick, overlap>>

\* The caller keys the number he wants, ended by "#".  "*" starts it over, and
\* stands also for a "#" with no digit before it.
RcvLvTel(c, e) ==
  LET got == ch[c].reserved \cup (IF e = "PlayEnd" THEN {"played"} ELSE {})
                            \cup (IF e = "#" THEN {"keyed"} ELSE {}) IN
  /\ ch[c].st = "RcvLvTel"
  /\ CASE e = "*" -> RcvLvTel_init(c)
       [] e # "*" /\ {"played", "keyed"} \subseteq got ->
            /\ ch' = [ch EXCEPT ![c].st = "RcvUlTel",
                                ![c].reserved = {"busy", "played"}]
            /\ queue' = Rest \o Post(c, "#")
            /\ UNCHANGED <<sock, board, playing>>
       [] OTHER -> ChkDTSignal(c, e, Become(c, [ch[c] EXCEPT !.reserved = got]))
  /\ UNCHANGED <<backs, stalePick, overlap>>

\* Mutant: the order to dial goes to the caller's own line.
CallOut_OrdersItself(c, d) ==
  /\ Seize(d)
  /\ ch' = Linked(c, d, [ch[c] EXCEPT !.st = "RcvTalk", !.reserved = {"busy"},
                                      !.timer = "on"])
  /\ Billed(c)
  /\ queue' = Rest \o Post(c, "PICKUPED") \o Notice(c)
  /\ UNCHANGED playing

\* RcvUlWord_cmplt: take a line, order it to dial, link with it, and stay billed.
CallOut(c, d) ==
  /\ Seize(d)
  /\ ch' = Linked(c, d, [ch[c] EXCEPT !.st = "RcvTalk", !.reserved = {"busy"},
                                      !.timer = "on"])
  /\ Billed(c)
  /\ queue' = Rest \o Post(d, "PICKUPED") \o Notice(c)
  /\ UNCHANGED playing

\* LookOutPhs has no line: none is free, or the number is one the caller may not dial
\* (IsDenied), free lines or not.
NoLine(c) ==
  /\ Prompt(c, [ch[c] EXCEPT !.st = "ExitPlay", !.exit = "BUSY"])
  /\ queue' = Rest
  /\ UNCHANGED <<sock, board, stalePick, overlap>>

\* EnableTrick is off: the "#" the state has posted itself is enough.
RcvUlTel(c, e) ==
  /\ ch[c].st = "RcvUlTel"
  /\ IF e = "#" THEN NoLine(c) \/ \E d \in Lines : CallOut(c, d)
     ELSE ChkDTSignal(c, e, Stay(c)) /\ UNCHANGED <<stalePick, overlap>>
  /\ UNCHANGED backs

\* RcvUlTalk_cmplt: the caller's leg is back at the keypad when the other leg has
\* gone or he presses "*".
RcvTalk(c, e) ==
  LET alone == ch[c].task = None
      back  == [ch[c] EXCEPT !.st = "RcvLvTel", !.reserved = {"busy"}] IN
  /\ ch[c].st = "RcvTalk"
  /\ CASE ch[c].cls = "talk" /\ (alone \/ e = "*") ->
            /\ ch' = Unlinked(c, back)
            /\ playing' = [playing EXCEPT ![c] = TRUE]
            /\ queue' = Rest \o PostIf(alone /\ e = "PENDING", c, "TALKING")
                             \o Notice(c)
            /\ UNCHANGED <<sock, board>>
       [] OTHER -> ChkDTSignal(c, e, IF ch[c].cls = "base" THEN RcvTalk_init(c)
                                     ELSE Stay(c))
  /\ UNCHANGED <<backs, stalePick, overlap>>

WaitDial(c, e) ==
  /\ ch[c].st = "WaitDial"
  /\ CASE e = "TIMEOUT" -> OffHook(c, "bkOffHk")
       [] e = "TALKING" -> RcvTalk_init(c)
       [] OTHER -> ChkDTSignal(c, e, Stay(c))
  /\ UNCHANGED <<backs, stalePick, overlap>>

ExitPlay(c, e) ==
  /\ ch[c].st = "ExitPlay"
  /\ IF e = "PlayEnd" THEN OffHook(c, "bkOffHk") ELSE ChkDTSignal(c, e, Stay(c))
  /\ UNCHANGED <<backs, stalePick, overlap>>

\* The line is released.  A caller who was promised a call back is noted for
\* CTraffic when his line is on hook again.
bkOffHk(c, e) ==
  /\ ch[c].st = "bkOffHk"
  /\ ChkDTSignal(c, e, OffHook(c, "bkOffHk"))
  /\ backs' = IF e = "STANDBY" /\ ch[c].exit = "CALLBACK" THEN backs + 1 ELSE backs
  /\ UNCHANGED <<stalePick, overlap>>

bkFree(c, e) ==
  /\ ch[c].st = "bkFree"
  /\ OffHook(c, "ResetPcm")
  /\ UNCHANGED <<backs, stalePick, overlap>>

ResetPcm(c, e) ==
  /\ ch[c].st = "ResetPcm"
  /\ ChkDTSignal(c, e, OffHook(c, "ResetPcm"))
  /\ UNCHANGED <<backs, stalePick, overlap>>

Handle(c, e) ==
  \/ bkIdle(c, e)   \/ bkOffHk(c, e)  \/ bkFree(c, e)   \/ ResetPcm(c, e)
  \/ seiConfm(c, e) \/ FeeLogin(c, e) \/ rcvMFsig(c, e) \/ RcvTalk(c, e)
  \/ WaitDial(c, e) \/ ExitPlay(c, e) \/ FwdPlay(c, e)  \/ RcvLvTel(c, e)
  \/ RcvUlTel(c, e)

-----------------------------------------------------------------------------
(* CNetwork::OnRun *)

\* RunPolling waits 50 ms at most: without an event it does nothing.
NoEvent ==
  /\ turn = 0 /\ queue = <<>>
  /\ turn' = 1
  /\ UNCHANGED <<ch, refs, sock, asked, board, playing, queue, backs, stalePick,
                 overlap, budget>>

RunPolling ==
  /\ turn = 0 /\ queue # <<>>
  /\ Handle(Head(queue).line, Head(queue).ev)
  /\ turn' = 1
  /\ UNCHANGED <<refs, asked, budget>>

\* CChannel::OnRun posts an expired timer and unloads the past object's DLL
\* before it turns to the socket.
Freed(c) == [ch[c] EXCEPT !.closing = "none",
                          !.timer = IF @ = "due" THEN "off" ELSE @]
Undone(c) == [s \in Services |->
                IF s = ch[c].closing THEN refs[c][s] - 1 ELSE refs[c][s]]
Expired(c) == PostIf(ch[c].timer = "due", c, "TIMEOUT")

AtLine(c) == /\ turn = c
             /\ turn' = IF c = NLines THEN 0 ELSE c + 1
             /\ UNCHANGED <<board, playing, backs, stalePick, overlap>>

\* Nothing has come on the socket.
Quiet(c) ==
  /\ AtLine(c)
  /\ ch' = [ch EXCEPT ![c] = Freed(c)]
  /\ refs' = [refs EXCEPT ![c] = Undone(c)]
  /\ queue' = queue \o Expired(c)
  /\ UNCHANGED <<sock, asked, budget>>

\* The socket is connected: OnConnected sends the Bind packet.
Connected(c) ==
  /\ AtLine(c) /\ sock[c] = "connecting"
  /\ ch' = [ch EXCEPT ![c] = Freed(c)]
  /\ refs' = [refs EXCEPT ![c] = Undone(c)]
  /\ sock' = [sock EXCEPT ![c] = "login"]
  /\ asked' = [asked EXCEPT ![c] = ch[c].kind]
  /\ queue' = queue \o Expired(c)
  /\ UNCHANGED budget

\* Mutant: CTransfer::OnDropped closes the socket and tells nobody.
Dropped_Silent(c) ==
  /\ AtLine(c) /\ sock[c] # "none"
  /\ ch' = [ch EXCEPT ![c] = Freed(c)]
  /\ refs' = [refs EXCEPT ![c] = Undone(c)]
  /\ sock' = [sock EXCEPT ![c] = "none"]
  /\ queue' = queue \o Expired(c)
  /\ UNCHANGED <<asked, budget>>

\* The connection is lost, the server says BYE, or 15 s have passed before it was
\* made: CTransfer::OnDropped and CChannel::Disconnect.
Dropped(c) ==
  /\ AtLine(c) /\ sock[c] # "none"
  /\ ch' = [ch EXCEPT ![c] = Freed(c)]
  /\ refs' = [refs EXCEPT ![c] = Undone(c)]
  /\ sock' = [sock EXCEPT ![c] = "none"]
  /\ queue' = queue \o Expired(c) \o Post(c, "FeeDisc")
  /\ UNCHANGED <<asked, budget>>

\* OnErrPacket.  The server refuses a call, or ends one it has bound.
Refused(c) ==
  /\ AtLine(c) /\ sock[c] \in {"login", "bound", "talk"} /\ Spend("refusals")
  /\ ch' = [ch EXCEPT ![c] = Freed(c)]
  /\ refs' = [refs EXCEPT ![c] = Undone(c)]
  /\ sock' = [sock EXCEPT ![c] = "none"]
  /\ \E code \in IF sock[c] = "login" THEN FeeEnds ELSE FeeEnds \ {"FeeCallBack"} :
       queue' = queue \o Expired(c) \o Post(c, code)
  /\ UNCHANGED asked

\* Mutant: Clone puts the new DLL where the old one belongs.
Bound_SwapsDlls(c) ==
  LET k == ServiceOf(asked[c]) IN
  /\ AtLine(c) /\ sock[c] = "login" /\ asked[c] # ""
  /\ ch' = [ch EXCEPT ![c] =
              [NewObject EXCEPT !.cls = k, !.st = "FeeLogin", !.lib = ch[c].lib,
                                !.closing = k,
                                !.kind = ch[c].kind, !.task = ch[c].task]]
  /\ refs' = [refs EXCEPT ![c] = [Undone(c) EXCEPT ![k] = @ + 1]]
  /\ sock' = [sock EXCEPT ![c] = "bound"]
  /\ queue' = queue \o Expired(c) \o Post(c, "FeeConn")
  /\ UNCHANGED <<asked, budget>>

\* OnBindPacket: LoadLibrary, an object of the service's class, Clone, SetChannel.
Bound(c) ==
  LET k == ServiceOf(asked[c]) IN
  /\ AtLine(c) /\ sock[c] = "login" /\ asked[c] # ""
  /\ ch' = [ch EXCEPT ![c] =
              [NewObject EXCEPT !.cls = k, !.st = "FeeLogin", !.lib = k,
                                !.closing = ch[c].lib,
                                !.kind = ch[c].kind, !.task = ch[c].task]]
  /\ refs' = [refs EXCEPT ![c] = [Undone(c) EXCEPT ![k] = @ + 1]]
  /\ sock' = [sock EXCEPT ![c] = "bound"]
  /\ queue' = queue \o Expired(c) \o Post(c, "FeeConn")
  /\ UNCHANGED <<asked, budget>>

\* OnBindPacket when the profiles name no DLL for the fee code.
NoService(c) ==
  /\ AtLine(c) /\ sock[c] = "login" /\ asked[c] # "" /\ Spend("refusals")
  /\ ch' = [ch EXCEPT ![c] = Freed(c)]
  /\ refs' = [refs EXCEPT ![c] = Undone(c)]
  /\ sock' = [sock EXCEPT ![c] = "bound"]
  /\ queue' = queue \o Expired(c) \o Post(c, "FeeDisc")
  /\ UNCHANGED asked

OnRun(c) == \/ Quiet(c)   \/ Connected(c) \/ Dropped(c)
            \/ Refused(c) \/ Bound(c)     \/ NoService(c)

-----------------------------------------------------------------------------
(* CTraffic's thread.  OnRunUsrBack holds Network.m_pSection, which OnRun lets
   go before it polls and again before RunChannel. *)

\* Mutant: OnRunUsrBack does not look whether a call back is due.
CallBack_Unasked(d) ==
  /\ turn \in {0, 1}
  /\ Seize(d)
  /\ ch' = [ch EXCEPT ![d].kind = "CABK"]
  /\ queue' = queue \o Post(d, "PICKUPED")
  /\ backs' = backs - 1
  /\ UNCHANGED <<refs, sock, asked, playing, turn, budget>>

CallBack(d) ==
  /\ turn \in {0, 1} /\ backs > 0
  /\ Seize(d)
  /\ ch' = [ch EXCEPT ![d].kind = "CABK"]
  /\ queue' = queue \o Post(d, "PICKUPED")
  /\ backs' = backs - 1
  /\ UNCHANGED <<refs, sock, asked, playing, turn, budget>>

-----------------------------------------------------------------------------
(* The voice board, the telephone network and the people on the phones *)

Inside == <<ch, refs, sock, asked, turn, backs, stalePick>>

BoardTo(c, s, e) ==
  /\ Len(queue) < QueueCap
  /\ board' = [board EXCEPT ![c] = s]
  /\ queue' = queue \o Post(c, e)
  /\ UNCHANGED Inside

Arrive(c) ==                          \* a call comes in
  /\ c \in Inbound /\ board[c] = "standby" /\ Spend("calls")
  /\ overlap' = (overlap \/ Overlaps(c))
  /\ \E e \in {"PENDING", "RxPhoNum"} : BoardTo(c, "incoming", e)
  /\ UNCHANGED playing

GiveUp(c) ==                          \* a caller goes before he is answered
  /\ board[c] \in {"incoming", "ringing"}
  /\ BoardTo(c, "standby", "STANDBY")
  /\ UNCHANGED <<playing, overlap, budget>>

FarHangup(c) ==                       \* the other side hangs up, or is busy
  /\ board[c] \in {"incoming", "ringing", "dialing", "talking"}
  /\ BoardTo(c, "pending", "PENDING")
  /\ UNCHANGED <<playing, overlap, budget>>

Answer(c) ==                          \* the number dialled answers
  /\ board[c] = "dialing"
  /\ BoardTo(c, "talking", "TALKING")
  /\ UNCHANGED <<playing, overlap, budget>>

Key(c) ==                             \* a key is pressed
  /\ board[c] = "talking" /\ Spend("keys")
  /\ \E e \in {"#", "*"} : BoardTo(c, "talking", e)
  /\ UNCHANGED <<playing, overlap>>

PlayEnd(c) ==                         \* the prompt has ended
  /\ playing[c]
  /\ playing' = [playing EXCEPT ![c] = FALSE]
  /\ BoardTo(c, board[c], "PlayEnd")
  /\ UNCHANGED <<overlap, budget>>

Fault(c) ==                           \* the trunk fails or is being reset
  /\ board[c] # "down" /\ Spend("faults")
  /\ \E e \in {"UNAVAIL", "RESET"} : BoardTo(c, "down", e)
  /\ UNCHANGED <<playing, overlap>>

Restore(c) ==                         \* and is back in service
  /\ board[c] = "down"
  /\ BoardTo(c, "standby", "STANDBY")
  /\ UNCHANGED <<playing, overlap, budget>>

Tick(c) ==                            \* the line's timer runs out
  /\ ch[c].timer = "on"
  /\ ch' = [ch EXCEPT ![c].timer = "due"]
  /\ UNCHANGED <<refs, sock, asked, board, playing, queue, turn, backs, stalePick,
                 overlap, budget>>

Outside(c) == \/ Arrive(c) \/ GiveUp(c) \/ FarHangup(c) \/ Answer(c) \/ Key(c)
              \/ PlayEnd(c) \/ Fault(c) \/ Restore(c) \/ Tick(c)

Next == \/ NoEvent \/ RunPolling
        \/ \E c \in Lines : OnRun(c) \/ CallBack(c) \/ Outside(c)

Spec == Init /\ [][Next]_vars

\* The one thread of CNetwork::OnRun never stops: it polls, and visits every
\* line.  Time passes, and a prompt that plays comes to its end.  Nothing is
\* asked of the callers or the network.
Fairness ==
  /\ WF_vars(NoEvent) /\ WF_vars(RunPolling)
  /\ \A c \in Lines : WF_vars(OnRun(c)) /\ WF_vars(Tick(c)) /\ WF_vars(PlayEnd(c))

\* No connection stays for ever without its TalkPacket: CTransfer::OnRun gives it
\* 15 s to be made, and the CChannel::OnRun of xmaster MaxReadyOut seconds to be
\* billed, whether it was bound or not.  The loss is seen at the line's next visit.
NavigatesOrEnds == \A c \in Lines : []<>(sock[c] \in {"none", "talk"})

FairSpec == Spec /\ Fairness /\ NavigatesOrEnds

-----------------------------------------------------------------------------
(* Safety *)

Releasing == {"bkOffHk", "bkFree", "ResetPcm"}
Count(cond) == IF cond THEN 1 ELSE 0

\* The handlers of a service class run in its DLL, and the line holds it loaded:
\* no chain of Clone, Setup and OnRun unloads the code the line is executing.
CodeLoaded ==
  \A c \in Lines : ch[c].cls # "base" => /\ ch[c].lib = ch[c].cls
                                         /\ refs[c][ch[c].cls] > 0

\* Every DLL a line's object names was loaded once for each time it is named, so
\* no FreeLibrary undoes a load that another line or a later call relies on.
HandlesHeld ==
  \A c \in Lines, s \in Services :
    refs[c][s] >= Count(ch[c].lib = s) + Count(ch[c].closing = s)

\* A line dialled for a caller belongs to a caller who waits or talks, from the
\* order to dial until it is released; if the link is gone, the PENDING that will
\* release it is on its way.  No leg dials, talks and costs on its own, provided
\* LookOutCh never took a line whose last call was not over.
LegsAgree ==
  ~stalePick =>
    \A c \in Lines :
      LET p == ch[c].task IN
      ch[c].kind = "CAHK" /\ ch[c].st \notin Releasing \cup {"ExitPlay"} =>
        \/ p # None /\ ch[p].cls = "talk" /\ ch[p].st = "RcvTalk"
        \/ p = None /\ Queued(c, "PENDING")

\* The links SetLinker and KillLinker make and undo are mutual: the line a line is
\* linked with is linked with it and with no other.  Same proviso.
LinksMutual ==
  ~stalePick => \A c \in Lines : ch[c].task # None => ch[ch[c].task].task = c

\* A dialled leg that talks is being billed, or the loss of its connection to the
\* billing server is still in the queue and will release it.
BilledLeg ==
  \A c \in Lines : ch[c].cls = "dialer" /\ ch[c].st = "RcvTalk" =>
    sock[c] = "talk" \/ \E e \in FeeEnds : Queued(c, e)

\* An idle line that was ordered to dial finds its PICKUPED in the queue: the
\* order is neither lost nor left behind for the next call on that line.
OrderedLineWillDial ==
  \A c \in Lines : ch[c].st = "bkIdle" /\ ch[c].task # None => Queued(c, "PICKUPED")

\* A line that is off hook while its object idles has an event to come that will
\* move it: no line stays seized or half released with nobody working on it.  Same
\* proviso: the S_FEE_Connected of a line's last call would make a line picked for a
\* caller dial before the S_CALL_STANDBY of that call has come, and the dialler would
\* pass the STANDBY on to the caller.
OffHookLineMoves ==
  ~stalePick =>
    \A c \in Lines :
      ch[c].st = "bkIdle"
      /\ board[c] \in {"ringing", "picked", "dialing", "talking", "pending"}
        => Pending(c)

\* The billing server charges for a line only while a caller, or the leg dialled
\* for him, is in a call on it.  Trunk faults are left out: RcvUlTalk_cmplt takes
\* the UNAVAIL of a lone caller's leg for the end of the other leg.  So are lines
\* on which a call began when the last was not over: when several callers have come
\* and gone before the thread has dealt with the first, RINGING and TALKING of one
\* are taken for those of another, and RcvTalk_init bills a line whose STANDBY waits.
BilledOnlyInCall ==
  Faults = 0 /\ ~overlap => \A c \in Lines : sock[c] = "talk" =>
    ch[c].st \in {"FwdPlay", "RcvLvTel", "RcvUlTel", "RcvTalk", "ExitPlay"}

\* A line in FeeLogin has something that will take it out: its timer, an event in
\* the queue, or a connection that the server ends if nothing else does.  With a line
\* taken by LookOutCh before its last call was over this fails: the S_FEE_Connected
\* of that call stops the timer of the next, whose connection may not have been made.
LoginGuarded ==
  ~stalePick => \A c \in Lines : ch[c].st = "FeeLogin" /\ ch[c].timer = "off" =>
    sock[c] # "none" \/ Pending(c)

\* Channel.cpp:295 asserts that an object which is cloned has no DLL left to
\* unload.  A poll after which its line is idle has cloned the line's object.
AssertClone ==
  [][\A c \in Lines :
       turn = 0 /\ queue # <<>> /\ Head(queue).line = c /\ ch'[c].st = "bkIdle"
         => ch[c].closing = "none"]_vars

-----------------------------------------------------------------------------
(* Liveness *)

\* No call stays in FeeLogin, whatever comes from the billing server and although
\* a stale S_FEE_Connected may have stopped the timer of the login.  Same proviso.
LoginEnds ==
  \A c \in Lines : ch[c].st = "FeeLogin" /\ ~stalePick ~> ch[c].st # "FeeLogin" \/ stalePick

\* A call that comes in is answered, refused or given up.  Same proviso.
CallDealtWith ==
  \A c \in Lines : board[c] = "incoming" /\ ~stalePick ~> board[c] # "incoming" \/ stalePick

\* A line that dials is answered or given up.  A number that starts with 0574 has no timer
\* on its line: there the server's limit on what is not billed ends the dialling.
DialEnds == \A c \in Lines : board[c] = "dialing" ~> board[c] # "dialing"

\* A dialled line whose far end has hung up is put on hook.
OutLegReleased == \A c \in Trunk : board[c] = "pending" ~> board[c] # "pending"

\* A dialled leg whose caller has gone is released and its line idle again.  Trunk
\* faults are left out: an object that is released while its line is out of service
\* or on hook waits for a STANDBY that need not come.
AbandonedLegEnds ==
  Faults = 0 =>
    \A c \in Lines : ch[c].cls = "dialer" /\ ch[c].task = None ~> ch[c].st = "bkIdle"
=============================================================================
