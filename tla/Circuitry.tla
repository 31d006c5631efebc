------------------------------ MODULE Circuitry ------------------------------
(***************************************************************************)
(* The audio of a line, which an operator hears and speaks through two     *)
(* named pipes: his own (packets) and the chain (audio).  The voice board  *)
(* records and plays blocks of 192 bytes, two at a time in each direction, *)
(* and says on threads of its own that a block is done.                    *)
(*                                                                         *)
(* Four threads meet at the circuit.  Neighbour's thread visits it in each *)
(* round, under Neighbour's lock.  Network's thread, which has Network's   *)
(* lock, rings the operator and hangs up on him.  The callbacks of the     *)
(* board, one for each direction, take Neighbour's lock, unless the flag   *)
(* Internal says that a reset has begun: who resets holds that lock and    *)
(* waits until every block has come back.                                  *)
(***************************************************************************)
EXTENDS Integers, FiniteSets

CONSTANTS
  MaxList,     \* MAX_RECLST, MAX_PLAYLST
  Binds, Dials, Rings, Calls     \* bounds: of the operator, and of callers

ASSUME CircuitryAssumption == {MaxList, Binds, Dials, Rings, Calls} \subseteq Nat

Users      == {"neighbour", "network"}       \* threads that visit the circuit
Directions == {"rec", "play"}                \* OnRecMemBlockDone, OnPlayMemBlockDone

\* The OVERLAPPED of a direction: whether there is one, Offset (blocks the board has),
\* Internal = STATUS_PENDING, OffsetHigh = -1, and whether hEvent is signalled.
Overlapped == [buf : BOOLEAN, n : Int, pend : BOOLEAN, off : BOOLEAN, ev : BOOLEAN]
FreeBuffer == [d \in Directions |-> [buf |-> FALSE, n |-> 0, pend |-> FALSE,
                                     off |-> FALSE, ev |-> FALSE]]
NewBuffer  == [d \in Directions |-> [buf |-> TRUE, n |-> 0, pend |-> FALSE,
                                     off |-> FALSE, ev |-> TRUE]]

VARIABLES
  nb, nw,      \* who has Neighbour.m_pSection, Network.m_pSection
  at,          \* where each thread is
  alive,       \* the circuit is in Neighbour.m_pList
  chain,       \* m_pChain: "none", "open" (waits for a client), "up"
  task,        \* m_nTaskId is the line
  line,        \* SsmGetChState: "hook", or a call that came "in" or went "out"
  io,          \* m_pRecIoOver, m_pPlayIoOver
  board,       \* blocks of each direction the board has
  cb, why,     \* the callback of each direction, and its nEndReason
  linked,      \* Network's thread has rung: it holds a pointer to the circuit, or to
               \* where the circuit was ("gone")
  torn,        \* history: a callback has passed the lock during a ReplayWith
  budget

vars == <<nb, nw, at, alive, chain, task, line, io, board, cb, why, linked, torn,
          budget>>

TypeOK ==
  /\ nb \in Users \cup {"free", "lost"} /\ nw \in Users \cup {"free", "lost"}
  /\ at \in [Users -> {"lost", "out", "packet", "dial", "chain", "record", "play", "sent", "begun",
                       "counted", "rebind", "ring", "kill", "reset", "leave"}]
  /\ \A u \in Users : at[u] \notin {"lost", "out", "ring", "kill"} <=> nb = u
  /\ alive \in BOOLEAN /\ chain \in {"none", "open", "up"} /\ (alive <=> chain # "none")
  /\ task \in BOOLEAN /\ line \in {"hook", "in", "out", "lost"}
  /\ io \in [Directions -> Overlapped]
  /\ board \in [Directions -> 0 .. MaxList]
  /\ cb \in [Directions -> {"none", "wait", "free", "tail", "stray", "lost"}]
  /\ why \in [Directions -> {"done", "stop", "hangup"}]
  /\ linked \in {"no", "yes", "gone"}
  /\ torn \in BOOLEAN
  /\ budget \in [{"binds", "dials", "rings", "calls"} -> Nat]

Init ==
  /\ nb = "free" /\ nw = "free" /\ at = [u \in Users |-> "out"]
  /\ alive = FALSE /\ chain = "none" /\ task = FALSE /\ line = "hook"
  /\ io = FreeBuffer
  /\ board = [d \in Directions |-> 0]
  /\ cb = [d \in Directions |-> "none"] /\ why = [d \in Directions |-> "done"]
  /\ linked = "no" /\ torn = FALSE
  /\ budget = [binds |-> Binds, dials |-> Dials, rings |-> Rings, calls |-> Calls]

Spend(what) == budget[what] > 0 /\ budget' = [budget EXCEPT ![what] = @ - 1]

OfBoard   == <<board, cb, why>>
OfCircuit == <<alive, chain, task>>

Resetting == \E u \in Users : at[u] \in {"reset", "leave"}

\* Blocks the board has or has only just called back for: those it may write to, or
\* whose callback has yet to count them.
Given(d) == board[d] + (IF cb[d] \in {"wait", "free"} THEN 1 ELSE 0)

\* Memory is used after it was given back: nothing is said of what follows.
Undefined ==
  /\ nb' = "lost" /\ nw' = "lost" /\ at' = [u \in Users |-> "lost"]
  /\ line' = "lost" /\ cb' = [d \in Directions |-> "lost"]
  /\ alive' = FALSE /\ chain' = "none" /\ task' = FALSE /\ io' = FreeBuffer
  /\ board' = [d \in Directions |-> 0] /\ why' = [d \in Directions |-> "done"]
  /\ linked' = "no" /\ torn' = FALSE
  /\ budget' = [of \in DOMAIN budget |-> 0]

-----------------------------------------------------------------------------
(* Blocks *)

\* Whether another block may be begun: Offset is unsigned, the board takes MaxList blocks
\* and none for a line on hook.
Room(o)      == o.n \in 0 .. MaxList - 1 /\ ~ o.pend
Accepts(b)   == line # "hook" /\ b < MaxList

\* Mutant: the event is left as it is.
More_Set(s, d) ==
  IF chain = "up" /\ Room(s.io[d]) /\ Accepts(s.board[d])
  THEN [io |-> [s.io EXCEPT ![d].n = @ + 1], board |-> [s.board EXCEPT ![d] = @ + 1]]
  ELSE s

\* RecordWith, and ReplayWith by its own callback: one more block for the board.
More(s, d) ==
  IF chain = "up" /\ Room(s.io[d]) /\ Accepts(s.board[d])
  THEN [io    |-> [s.io EXCEPT ![d].n = @ + 1, ![d].ev = FALSE],
        board |-> [s.board EXCEPT ![d] = @ + 1]]
  ELSE s

\* Mutant: it returns with the lock.
Out_Kept(u) == /\ at' = [at EXCEPT ![u] = "out"]
               /\ nb' = nb
               /\ nw' = IF nw = u THEN "free" ELSE nw

\* The end of a visit: its CSingleLocks unlock.
Out(u) == /\ at' = [at EXCEPT ![u] = "out"]
          /\ nb' = "free"
          /\ nw' = IF nw = u THEN "free" ELSE nw

\* Start goes on after ReplayWith: OnDialPacket to the rest of the round, OnRingPacket
\* to the pipe of the centre.  OnRun is done.
Replayed(u) ==
  IF u = "network" THEN at' = [at EXCEPT ![u] = "rebind"] /\ UNCHANGED <<nb, nw>>
  ELSE IF nw = u THEN /\ at' = [at EXCEPT ![u] = "chain"]
                      /\ nw' = "free" /\ UNCHANGED nb
  ELSE Out(u)

\* ReplayWith of Neighbour's or Network's thread, while callbacks may come: Internal is
\* set, ...
Replay(u) ==
  /\ at[u] = "play"
  /\ io["play"].buf /\ ~ io["play"].off /\ chain = "up"
  /\ Room(io["play"])
  /\ io' = [io EXCEPT !["play"].pend = TRUE]
  /\ at' = [at EXCEPT ![u] = "sent"]
  /\ UNCHANGED <<nb, nw, OfCircuit, line, OfBoard, linked, torn, budget>>

\* (there is no audio to play, or no room for it)
ReplayNone(u) ==
  /\ at[u] = "play" /\ Replayed(u)
  /\ UNCHANGED <<OfCircuit, line, io, OfBoard, linked, torn, budget>>

\* ... the board is given the block, ...
PlayMemBlock(u) ==
  /\ at[u] = "sent" /\ Accepts(board["play"])
  /\ board' = [board EXCEPT !["play"] = @ + 1]
  /\ at' = [at EXCEPT ![u] = "begun"]
  /\ UNCHANGED <<nb, nw, OfCircuit, line, io, cb, why, linked, torn, budget>>

PlayFails(u) ==
  /\ at[u] = "sent" /\ ~ Accepts(board["play"])
  /\ io' = [io EXCEPT !["play"].pend = FALSE]
  /\ Replayed(u)
  /\ UNCHANGED <<OfCircuit, line, OfBoard, linked, torn, budget>>

\* ... it is counted, ...
PlayCounted(u) ==
  /\ at[u] = "begun"
  /\ io' = [io EXCEPT !["play"].n = @ + 1]
  /\ at' = [at EXCEPT ![u] = "counted"]
  /\ UNCHANGED <<nb, nw, OfCircuit, line, OfBoard, linked, torn, budget>>

\* (or two threads write the count at once, and one of them in vain)
PlayMiscounted(u) ==
  /\ at[u] = "begun" /\ cb["play"] = "free"
  /\ \E n \in {io["play"].n + 1, io["play"].n - 1} :
       io' = [io EXCEPT !["play"].n = n, !["play"].ev = @ \/ io["play"].n = 1]
  /\ at' = [at EXCEPT ![u] = "counted"] /\ cb' = [cb EXCEPT !["play"] = "tail"]
  /\ UNCHANGED <<nb, nw, OfCircuit, line, board, why, linked, torn, budget>>

\* ... and Internal and the event are cleared.
PlayBegun(u) ==
  /\ at[u] = "counted"
  /\ io' = [io EXCEPT !["play"].pend = FALSE, !["play"].ev = FALSE]
  /\ Replayed(u)
  /\ UNCHANGED <<OfCircuit, line, OfBoard, linked, torn, budget>>

-----------------------------------------------------------------------------
(* Reset *)

\* It sets Internal and tells the board to stop, ...
BeginReset(u, where) ==
  /\ io' = [d \in Directions |-> [io[d] EXCEPT !.pend = io[d].buf]]
  /\ at' = [at EXCEPT ![u] = where]

\* Mutant: it waits for either event.
AllBack_Any == \E d \in Directions : io[d].buf => io[d].ev

\* ... waits for both events, if there are any, ...
AllBack == \A d \in Directions : io[d].buf => io[d].ev

\* ... hangs up, opens a new pipe for the chain and frees the buffers.  Disconnect
\* deletes the circuit as well.
EndReset(u) ==
  /\ at[u] \in {"reset", "leave"} /\ AllBack
  /\ line' = IF task THEN "hook" ELSE line
  /\ task' = FALSE
  /\ io' = FreeBuffer
  /\ cb' = [d \in Directions |-> IF cb[d] = "tail" THEN "stray" ELSE cb[d]]
  /\ alive' = (at[u] = "reset")
  /\ chain' = IF at[u] = "reset" THEN "open" ELSE "none"
  /\ linked' = IF at[u] = "leave" /\ linked = "yes" THEN "gone" ELSE linked
  /\ Out(u)
  /\ UNCHANGED <<board, why, torn, budget>>

-----------------------------------------------------------------------------
(* Neighbour's thread: OnRun of the circuit *)

\* An operator's pipe is accepted and bound; a circuit with nothing to stop is reset.
Bind ==
  /\ at["neighbour"] = "out" /\ nb = "free" /\ ~ alive /\ Spend("binds")
  /\ alive' = TRUE /\ chain' = "open" /\ task' = FALSE
  /\ UNCHANGED <<nb, nw, at, line, io, OfBoard, linked, torn>>

Enter ==
  /\ at["neighbour"] = "out" /\ nb = "free" /\ alive
  /\ nb' = "neighbour" /\ at' = [at EXCEPT !["neighbour"] = "packet"]
  /\ UNCHANGED <<nw, OfCircuit, line, io, OfBoard, linked, torn, budget>>

NoPacket ==
  /\ at["neighbour"] = "packet" /\ at' = [at EXCEPT !["neighbour"] = "chain"]
  /\ UNCHANGED <<nb, nw, OfCircuit, line, io, OfBoard, linked, torn, budget>>

\* BYE, a broken pipe, or a second BIND of the operator: Disconnect.
Leave ==
  /\ at["neighbour"] = "packet" /\ BeginReset("neighbour", "leave")
  /\ UNCHANGED <<nb, nw, OfCircuit, line, OfBoard, linked, torn, budget>>

DialPacket ==
  /\ at["neighbour"] = "packet" /\ Spend("dials")
  /\ at' = [at EXCEPT !["neighbour"] = "dial"]
  /\ UNCHANGED <<nb, nw, OfCircuit, line, io, OfBoard, linked, torn>>

\* Start: NewBuffer, and RecordWith begins.
Start(u) ==
  LET s == More([io |-> NewBuffer, board |-> board], "rec") IN
  /\ io' = s.io /\ board' = s.board /\ task' = TRUE
  /\ cb' = [d \in Directions |-> IF cb[d] = "tail" THEN "stray" ELSE cb[d]]
  /\ at' = [at EXCEPT ![u] = "play"]
  /\ UNCHANGED <<why, torn, budget>>

\* It frees the buffers of a call before, whatever the board still has of them.
Busy == \E d \in Directions : Given(d) > 0

\* OnDialPacket, once it has Network's lock: LookOutPhs finds a line ...
OnDialPacket ==
  /\ at["neighbour"] = "dial" /\ nw = "free" /\ line = "hook" /\ ~ Busy
  /\ line' = "out" /\ nw' = "neighbour"
  /\ Start("neighbour")
  /\ UNCHANGED <<nb, alive, chain, linked>>

DialAgain == at["neighbour"] = "dial" /\ nw = "free" /\ line = "hook" /\ Busy /\ Undefined

\* ... or none.
DialBusy ==
  /\ at["neighbour"] = "dial" /\ nw = "free"
  /\ at' = [at EXCEPT !["neighbour"] = "chain"]
  /\ UNCHANGED <<nb, nw, OfCircuit, line, io, OfBoard, linked, torn, budget>>

\* The chain: its client may have come, or stay away.
ChainUp ==
  /\ at["neighbour"] = "chain" /\ chain' = "up"
  /\ at' = [at EXCEPT !["neighbour"] = "record"]
  /\ UNCHANGED <<nb, nw, alive, task, line, io, OfBoard, linked, torn, budget>>

ChainOpen ==
  /\ at["neighbour"] = "chain" /\ chain = "open" /\ Out("neighbour")
  /\ UNCHANGED <<OfCircuit, line, io, OfBoard, linked, torn, budget>>

\* Its client has gone.
ChainDropped ==
  /\ at["neighbour"] = "chain" /\ chain = "up" /\ BeginReset("neighbour", "reset")
  /\ UNCHANGED <<nb, nw, OfCircuit, line, OfBoard, linked, torn, budget>>

Record ==
  /\ at["neighbour"] = "record"
  /\ LET s == [io |-> io, board |-> board]
         t == IF io["rec"].buf /\ ~ io["rec"].off THEN More(s, "rec") ELSE s
     IN io' = t.io /\ board' = t.board
  /\ at' = [at EXCEPT !["neighbour"] = "play"]
  /\ UNCHANGED <<nb, nw, OfCircuit, line, cb, why, linked, torn, budget>>

-----------------------------------------------------------------------------
(* Network's thread, a service that rings an operator (CInterChannel) *)

PutNetworkRing ==
  /\ at["network"] = "out" /\ nw = "free" /\ linked = "no" /\ line = "in"
  /\ Spend("rings")
  /\ nw' = "network" /\ at' = [at EXCEPT !["network"] = "ring"]
  /\ UNCHANGED <<nb, OfCircuit, line, io, OfBoard, linked, torn>>

\* Nobody asks whether the operator has a call.
OnRingPacket ==
  /\ at["network"] = "ring" /\ nb = "free" /\ alive /\ ~ Busy
  /\ nb' = "network" /\ linked' = "yes"
  /\ Start("network")
  /\ UNCHANGED <<nw, alive, chain, line>>

RingAgain == at["network"] = "ring" /\ nb = "free" /\ alive /\ Busy /\ Undefined

NoOperator ==
  /\ at["network"] = "ring" /\ nb = "free" /\ ~ alive
  /\ at' = [at EXCEPT !["network"] = "out"] /\ nw' = "free"
  /\ UNCHANGED <<nb, OfCircuit, line, io, OfBoard, linked, torn, budget>>

\* The rest of Start: the chain is connected to the centre, or it is reset.
Rebind ==
  /\ at["network"] = "rebind" /\ chain' = "up" /\ Out("network")
  /\ UNCHANGED <<alive, task, line, io, OfBoard, linked, torn, budget>>

RebindFails ==
  /\ at["network"] = "rebind" /\ BeginReset("network", "reset")
  /\ UNCHANGED <<nb, nw, OfCircuit, line, OfBoard, linked, torn, budget>>

KillLinker ==
  /\ at["network"] = "out" /\ nw = "free" /\ linked # "no"
  /\ nw' = "network" /\ at' = [at EXCEPT !["network"] = "kill"]
  /\ UNCHANGED <<nb, OfCircuit, line, io, OfBoard, linked, torn, budget>>

\* KillNetwork resets the circuit it has rung, ...
KillNetwork ==
  /\ at["network"] = "kill" /\ nb = "free" /\ linked = "yes"
  /\ nb' = "network" /\ task' = FALSE /\ linked' = "no"
  /\ BeginReset("network", "reset")
  /\ UNCHANGED <<nw, alive, chain, line, OfBoard, torn, budget>>

\* ... or what was in its place.
KillDeleted == at["network"] = "kill" /\ nb = "free" /\ linked = "gone" /\ Undefined

-----------------------------------------------------------------------------
(* The board's threads *)

\* A block is done, or the board has stopped; a callback on a line on hook says so.
BlockDone(d) ==
  /\ board[d] > 0 /\ cb[d] = "none"
  /\ board' = [board EXCEPT ![d] = @ - 1]
  /\ cb' = [cb EXCEPT ![d] = "wait"]
  /\ \E r \in IF line = "hook" THEN {"hangup"}
              ELSE IF Resetting THEN {"done", "stop"} ELSE {"done"} :
       why' = [why EXCEPT ![d] = r]
  /\ UNCHANGED <<nb, nw, at, OfCircuit, line, io, linked, torn, budget>>

\* It has the lock: the block is counted, and the next one follows unless it was the
\* last.
Locked(d) ==
  /\ cb[d] = "wait" /\ ~ io[d].pend /\ nb = "free"
  /\ LET n == io[d].n - 1
         s == [io |-> [io EXCEPT ![d].n = n, ![d].ev = @ \/ n = 0], board |-> board]
         t == IF why[d] # "done" THEN [s EXCEPT !.io[d].off = TRUE] ELSE s
     IN \E next \in {t} \cup (IF why[d] = "done" THEN {More(t, d)} ELSE {}) :
          io' = next.io /\ board' = next.board
  /\ task' = (task /\ why[d] # "hangup")
  /\ cb' = [cb EXCEPT ![d] = "none"]
  /\ UNCHANGED <<nb, nw, at, alive, chain, line, why, linked, torn, budget>>

\* Mutant: it waits for the lock alone.
Unlocked_Never(d) == FALSE /\ UNCHANGED vars

\* Internal says that a reset has begun, or so it seems: it goes on without the lock, ...
Unlocked(d) ==
  /\ cb[d] = "wait" /\ io[d].pend
  /\ cb' = [cb EXCEPT ![d] = "free"]
  /\ torn' = (torn \/ ~ Resetting)
  /\ UNCHANGED <<nb, nw, at, OfCircuit, line, io, board, why, linked, budget>>

\* ... counts the block, ...
Counted(d) ==
  /\ cb[d] = "free"
  /\ io' = [io EXCEPT ![d].n = @ - 1, ![d].ev = @ \/ io[d].n = 1]
  /\ cb' = [cb EXCEPT ![d] = "tail"]
  /\ UNCHANGED <<nb, nw, at, OfCircuit, line, board, why, linked, torn, budget>>

\* ... and writes to the OVERLAPPED and to the circuit, ...
Noted(d) ==
  /\ cb[d] = "tail"
  /\ io' = [io EXCEPT ![d].off = @ \/ why[d] # "done"]
  /\ task' = (task /\ why[d] # "hangup")
  /\ cb' = [cb EXCEPT ![d] = "none"]
  /\ UNCHANGED <<nb, nw, at, alive, chain, line, board, why, linked, torn, budget>>

\* ... though the one who waited for its count may have freed them: it writes to what
\* is there now.
Stray(d) ==
  /\ cb[d] = "stray"
  /\ \E hit \in {why[d] # "done", FALSE} :
       /\ io' = [io EXCEPT ![d].off = @ \/ (hit /\ io[d].buf)]
       /\ task' = (task /\ ~ (hit /\ why[d] = "hangup"))
  /\ cb' = [cb EXCEPT ![d] = "none"]
  /\ UNCHANGED <<nb, nw, at, alive, chain, line, board, why, linked, torn, budget>>

-----------------------------------------------------------------------------
(* The people on the phone *)

HangUp ==
  /\ line \in {"in", "out"} /\ line' = "hook"
  /\ UNCHANGED <<nb, nw, at, OfCircuit, io, OfBoard, linked, torn, budget>>

NewCall ==
  /\ line = "hook" /\ Spend("calls") /\ line' = "in"
  /\ UNCHANGED <<nb, nw, at, OfCircuit, io, OfBoard, linked, torn>>

-----------------------------------------------------------------------------

Visit(u) == \/ Replay(u) \/ ReplayNone(u) \/ PlayMemBlock(u) \/ PlayFails(u)
            \/ PlayCounted(u) \/ PlayMiscounted(u) \/ PlayBegun(u) \/ EndReset(u)
OnRun == \/ NoPacket \/ Leave \/ DialPacket \/ OnDialPacket \/ DialAgain \/ DialBusy
         \/ ChainUp \/ ChainOpen \/ ChainDropped \/ Record \/ Visit("neighbour")
RunPolling == \/ OnRingPacket \/ RingAgain \/ NoOperator \/ Rebind \/ RebindFails
              \/ KillNetwork \/ KillDeleted \/ Visit("network")
MemBlockDone(d) == Locked(d) \/ Unlocked(d) \/ Counted(d) \/ Noted(d) \/ Stray(d)

Next == \/ Bind \/ Enter \/ OnRun
        \/ PutNetworkRing \/ KillLinker \/ RunPolling
        \/ \E d \in Directions : BlockDone(d) \/ MemBlockDone(d)
        \/ HangUp \/ NewCall

Spec == Init /\ [][Next]_vars

\* The threads run, and the board calls back for every block it took.
Fairness == /\ WF_vars(OnRun) /\ WF_vars(RunPolling)
            /\ \A d \in Directions : WF_vars(BlockDone(d)) /\ WF_vars(MemBlockDone(d))
FairSpec == Spec /\ Fairness

-----------------------------------------------------------------------------
(* Properties *)

\* The count of a direction is that of the blocks that are to come back, and its event
\* tells whether there are none, whichever thread begins a block or counts one, with
\* the lock or without: for recording always, for playing as long as no callback has
\* taken ReplayWith for a reset.
BlocksCounted ==
  \A d \in Directions :
    nb # "lost" /\ (d = "rec" \/ ~ torn) /\ io[d].buf =>
      LET given == Given(d) - Cardinality({u \in Users : d = "play" /\ at[u] = "begun"}) IN
      /\ io[d].n = given
      /\ (\A u \in Users : d = "play" => at[u] # "counted") => (io[d].ev <=> given = 0)

\* The board has no block in a buffer that was freed, and no callback is to count one.
BuffersHeld ==
  \A d \in Directions :
    nb # "lost" /\ (d = "rec" \/ ~ torn) /\ Given(d) > 0 => io[d].buf

\* Neighbour's thread dials for an operator and waits for Network's lock, Network's
\* thread rings an operator, or hangs up on him, and waits for Neighbour's.
Crossed == /\ at["neighbour"] = "dial" /\ nb = "neighbour"
           /\ at["network"] \in {"ring", "kill"} /\ nw = "network"

\* Neighbour's lock is given back, though a reset holds it until the callbacks that want
\* it have come: nothing but the two locks taken in both orders, or a lost count, stops
\* the circuits for good.
LockGivenBack == (nb # "free") ~> (nb = "free" \/ Crossed \/ torn \/ nb = "lost")

=============================================================================
