-------------------------- MODULE CircuitryProofs --------------------------
(***************************************************************************)
(* The blocks of an operator's audio, for any length of the board's lists  *)
(* and any number of calls: a direction's count is that of the blocks that *)
(* are to come back, so that a reset that has waited for both events frees *)
(* no buffer the board still writes to.                                    *)
(***************************************************************************)
EXTENDS Circuitry, FiniteSetTheorems, TLAPS

\* Who holds Neighbour's lock at each place of a visit.
Inside == {"packet", "dial", "chain", "record", "play", "sent", "begun", "counted",
           "rebind", "reset", "leave"}

\* What a direction says of its blocks can be relied on: no callback has counted one
\* while ReplayWith did.
Sure(d) == d = "rec" \/ ~ torn

Beginning == \E u \in Users : at[u] = "begun"

\* Blocks the count should tell of: ReplayWith gives the board a block first and counts
\* it then.
Due(d) == Given(d) - (IF d = "play" /\ Beginning THEN 1 ELSE 0)

\* Who visits a circuit finds it there, and so does who has rung it.
Alive == (nb \in Users => alive) /\ (linked = "yes" => alive)

\* A callback goes on without the lock while someone resets, and is done with its count
\* before the reset ends: Internal of recording is set by a reset alone.
Apart(d) == /\ cb[d] \in {"free", "tail"} /\ Sure(d) => Resetting
            /\ d = "rec" /\ io[d].pend => Resetting

\* ReplayWith has a buffer and, once the board took the block, a block that nobody can
\* have counted.
Begins(d) ==
  d = "play" => \A u \in Users :
                  /\ at[u] \in {"sent", "begun", "counted"} => io[d].buf
                  /\ at[u] \in {"begun", "counted"} /\ ~ torn => Given(d) > 0

Held(d) == Sure(d) /\ Given(d) > 0 => io[d].buf

Count(d) ==
  Sure(d) /\ io[d].buf =>
    /\ io[d].n = Due(d)
    /\ (d = "play" => \A u \in Users : at[u] # "counted") => (io[d].ev <=> Due(d) = 0)

Fine(d) == Apart(d) /\ Begins(d) /\ Held(d) /\ Count(d)

CInv == TypeOK /\ Alive /\ \A d \in Directions : Fine(d)

-----------------------------------------------------------------------------
(* Parts of the type invariant *)

Places == Inside \union {"lost", "out", "ring", "kill"}

AtOK == /\ nb \in Users \union {"free", "lost"} /\ at \in [Users -> Places]
        /\ \A u \in Users : at[u] \in Inside <=> nb = u

BlocksOK == /\ io \in [Directions -> Overlapped]
            /\ board \in [Directions -> 0 .. MaxList]
            /\ cb \in [Directions -> {"none", "wait", "free", "tail", "stray", "lost"}]
            /\ why \in [Directions -> {"done", "stop", "hangup"}]

OthersOK == /\ nw \in Users \union {"free", "lost"}
            /\ alive \in BOOLEAN /\ chain \in {"none", "open", "up"}
            /\ (alive <=> chain # "none")
            /\ task \in BOOLEAN /\ line \in {"hook", "in", "out", "lost"}
            /\ linked \in {"no", "yes", "gone"} /\ torn \in BOOLEAN
            /\ budget \in [{"binds", "dials", "rings", "calls"} -> Nat]

LEMMA TypeParts == TypeOK <=> AtOK /\ BlocksOK /\ OthersOK
<1>1. ASSUME at \in [Users -> Places]
      PROVE  \A u \in Users : at[u] \in Inside <=> at[u] \notin {"lost", "out", "ring", "kill"}
  BY <1>1 DEF Inside, Places
<1>2. Places = {"lost", "out", "packet", "dial", "chain", "record", "play", "sent", "begun",
                "counted", "rebind", "ring", "kill", "reset", "leave"}
  BY DEF Places, Inside
<1> QED BY <1>1, <1>2 DEF TypeOK, AtOK, BlocksOK, OthersOK

LEMMA TypePartsNext == (TypeOK <=> AtOK /\ BlocksOK /\ OthersOK)'
BY TypeParts, PTL

\* The lists are of a natural length.
LEMMA ListNat == MaxList \in Nat /\ 0 \in 0 .. MaxList
BY CircuitryAssumption

\* A thread takes Neighbour's lock, gives it back, or goes on as it is.
LEMMA AtMoves ==
  ASSUME AtOK, NEW u \in Users, NEW p \in Places, at' = [at EXCEPT ![u] = p],
         \/ nb' = nb /\ (p \in Inside <=> at[u] \in Inside)
         \/ nb' = u /\ nb = "free" /\ p \in Inside
         \/ nb' = "free" /\ nb = u /\ p \notin Inside
  PROVE  AtOK'
BY DEF AtOK, Users

\* Out and the two ends of ReplayWith.
LEMMA OutMoves ==
  ASSUME AtOK, NEW u \in Users, nb = u, nw \in Users \union {"free", "lost"}, Out(u)
  PROVE  /\ AtOK' /\ nw' \in Users \union {"free", "lost"} /\ nb' = "free"
         /\ at' = [at EXCEPT ![u] = "out"]
<1>1. /\ at' = [at EXCEPT ![u] = "out"] /\ nb' = "free"
      /\ nw' = IF nw = u THEN "free" ELSE nw
  BY DEF Out
<1>2. "out" \in Places /\ "out" \notin Inside
  BY DEF Places, Inside
<1> QED BY <1>1, <1>2, AtMoves

LEMMA ReplayedMoves ==
  ASSUME AtOK, NEW u \in Users, nb = u, nw \in Users \union {"free", "lost"}, Replayed(u)
  PROVE  /\ AtOK' /\ nw' \in Users \union {"free", "lost"} /\ nb' \in {nb, "free"}
         /\ \E p \in {"rebind", "chain", "out"} : at' = [at EXCEPT ![u] = p]
<1>0. /\ {"rebind", "chain", "out"} \subseteq Places /\ {"rebind", "chain"} \subseteq Inside
      /\ at[u] \in Inside
  BY DEF Places, Inside, AtOK
<1>1. CASE u = "network"
  BY <1>0, <1>1, AtMoves DEF Replayed
<1>2. CASE u # "network" /\ nw = u
  <2>1. at' = [at EXCEPT ![u] = "chain"] /\ nw' = "free" /\ nb' = nb
    BY <1>2 DEF Replayed
  <2> QED BY <1>0, <2>1, AtMoves
<1>3. CASE u # "network" /\ nw # u
  BY <1>3, OutMoves DEF Replayed
<1> QED BY <1>1, <1>2, <1>3

LEMMA SpendMoves ==
  ASSUME OthersOK, NEW what \in {"binds", "dials", "rings", "calls"}, Spend(what)
  PROVE  budget' \in [{"binds", "dials", "rings", "calls"} -> Nat]
BY DEF OthersOK, Spend

\* A buffer, whatever is written to its fields.
LEMMA BufferIs ==
  ASSUME NEW o \in Overlapped
  PROVE  /\ o.buf \in BOOLEAN /\ o.n \in Int /\ o.pend \in BOOLEAN
         /\ o.off \in BOOLEAN /\ o.ev \in BOOLEAN
         /\ o = [buf |-> o.buf, n |-> o.n, pend |-> o.pend, off |-> o.off, ev |-> o.ev]
BY DEF Overlapped

LEMMA LessIs ==
  ASSUME NEW o \in Overlapped, NEW p, p = [o EXCEPT !.n = @ - 1, !.ev = @ \/ o.n = 1]
  PROVE  /\ p \in Overlapped /\ p.buf = o.buf /\ p.pend = o.pend
         /\ p.n = o.n - 1 /\ p.ev = (o.ev \/ o.n = 1)
<1>1. o.n - 1 \in Int /\ (o.ev \/ o.n = 1) \in BOOLEAN
  BY DEF Overlapped
<1> DEFINE n == o.n - 1
           e == o.ev \/ o.n = 1
<1>2. p = [o EXCEPT !.n = n, !.ev = e] /\ n \in Int /\ e \in BOOLEAN
  BY <1>1
<1> HIDE DEF n, e
<1>3. p \in Overlapped /\ p.buf = o.buf /\ p.pend = o.pend /\ p.n = n /\ p.ev = e
  BY <1>2 DEF Overlapped
<1> QED BY <1>3 DEF n, e

\* The board was given one block of a direction, or none.
MayAdd(i, b, d, i2, b2) ==
  /\ i2 \in [Directions -> Overlapped] /\ b2 \in [Directions -> 0 .. MaxList]
  /\ \A e \in Directions \ {d} : i2[e] = i[e] /\ b2[e] = b[e]
  /\ i2[d].buf = i[d].buf /\ i2[d].pend = i[d].pend
  /\ \/ i2[d] = i[d] /\ b2[d] = b[d]
     \/ i2[d].n = i[d].n + 1 /\ i2[d].ev = FALSE /\ b2[d] = b[d] + 1

LEMMA MoreIs ==
  ASSUME NEW i \in [Directions -> Overlapped], NEW b \in [Directions -> 0 .. MaxList],
         NEW d \in Directions
  PROVE  LET t == More([io |-> i, board |-> b], d) IN MayAdd(i, b, d, t.io, t.board)
<1> DEFINE t == More([io |-> i, board |-> b], d)
<1> SUFFICES MayAdd(i, b, d, t.io, t.board)
  OBVIOUS
<1>1. CASE ~ (chain = "up" /\ Room(i[d]) /\ Accepts(b[d]))
  <2>1. t = [io |-> i, board |-> b]
    BY <1>1 DEF More
  <2> QED BY <2>1 DEF MayAdd
<1>2. CASE chain = "up" /\ Room(i[d]) /\ Accepts(b[d])
  <2>1. /\ t.io = [i EXCEPT ![d].n = @ + 1, ![d].ev = FALSE]
        /\ t.board = [b EXCEPT ![d] = @ + 1]
    BY <1>2 DEF More
  <2>2. b[d] + 1 \in 0 .. MaxList
    BY <1>2, ListNat DEF Accepts
  <2>3. t.board \in [Directions -> 0 .. MaxList]
    BY <2>1, <2>2
  <2>4. i[d] \in Overlapped /\ i[d].n + 1 \in Int
    BY DEF Overlapped
  <2>5. t.io \in [Directions -> Overlapped]
    <3>1. [i[d] EXCEPT !.n = @ + 1, !.ev = FALSE] \in Overlapped
      BY <2>4 DEF Overlapped
    <3>2. t.io = [i EXCEPT ![d] = [i[d] EXCEPT !.n = @ + 1, !.ev = FALSE]]
      BY <2>1
    <3> QED BY <3>1, <3>2
  <2>6. /\ t.io[d].n = i[d].n + 1 /\ t.io[d].ev = FALSE
        /\ t.io[d].buf = i[d].buf /\ t.io[d].pend = i[d].pend
        /\ t.board[d] = b[d] + 1
        /\ \A e \in Directions \ {d} : t.io[e] = i[e] /\ t.board[e] = b[e]
    <3>1. t.io[d] = [i[d] EXCEPT !.n = @ + 1, !.ev = FALSE]
      BY <2>1
    <3>2. \A e \in Directions \ {d} : t.io[e] = i[e] /\ t.board[e] = b[e]
      BY <2>1
    <3> QED BY <2>1, <2>4, <3>1, <3>2 DEF Overlapped
  <2> HIDE DEF t
  <2> QED BY <2>3, <2>5, <2>6 DEF MayAdd
<1> QED BY <1>1, <1>2

-----------------------------------------------------------------------------
(* What the invariant says, and what it says at the start *)

LEMMA GivenNat == ASSUME BlocksOK, NEW d \in Directions PROVE Given(d) \in Nat
<1>1. board[d] \in Nat
  BY ListNat DEF BlocksOK
<1> QED BY <1>1 DEF Given

\* At most one thread is in ReplayWith.
LEMMA OneBegins ==
  ASSUME AtOK, NEW d
  PROVE  Cardinality({u \in Users : d = "play" /\ at[u] = "begun"})
           = (IF d = "play" /\ Beginning THEN 1 ELSE 0)
<1> DEFINE S == {u \in Users : d = "play" /\ at[u] = "begun"}
<1>1. CASE d = "play" /\ Beginning
  <2>1. PICK u \in Users : at[u] = "begun"
    BY <1>1 DEF Beginning
  <2>2. \A v \in Users : at[v] = "begun" => v = u
    BY <2>1 DEF AtOK, Inside
  <2>3. S = {u}
    BY <1>1, <2>1, <2>2
  <2> QED BY <1>1, <2>3, FS_Singleton
<1>2. CASE ~ (d = "play" /\ Beginning)
  <2>1. S = {}
    BY <1>2 DEF Beginning
  <2> QED BY <1>2, <2>1, FS_EmptySet
<1> QED BY <1>1, <1>2

LEMMA InvHolds == CInv => TypeOK /\ BlocksCounted /\ BuffersHeld
<1> SUFFICES ASSUME CInv PROVE BlocksCounted /\ BuffersHeld
  BY DEF CInv
<1>1. BuffersHeld
  BY DEF CInv, Fine, Held, Sure, BuffersHeld
<1>2. BlocksCounted
  <2> SUFFICES ASSUME NEW d \in Directions, nb # "lost", d = "rec" \/ ~ torn, io[d].buf
               PROVE  LET given == Given(d) - Cardinality({u \in Users : d = "play" /\ at[u] = "begun"})
                      IN  /\ io[d].n = given
                          /\ (\A u \in Users : d = "play" => at[u] # "counted")
                                => (io[d].ev <=> given = 0)
    BY DEF BlocksCounted
  <2>1. Given(d) - Cardinality({u \in Users : d = "play" /\ at[u] = "begun"}) = Due(d)
    BY TypeParts, OneBegins DEF CInv, Due
  <2>2. Count(d)
    BY DEF CInv, Fine
  <2> QED BY <2>1, <2>2 DEF Count, Sure
<1> QED BY <1>1, <1>2

LEMMA InvInit == Init => CInv
<1> SUFFICES ASSUME Init PROVE CInv
  OBVIOUS
<1>1. AtOK
  BY DEF Init, AtOK, Places, Inside, Users
<1>2. BlocksOK
  BY ListNat DEF Init, BlocksOK, FreeBuffer, Overlapped, Directions
<1>3. OthersOK
  <2>1. budget \in [{"binds", "dials", "rings", "calls"} -> Nat]
    BY CircuitryAssumption DEF Init
  <2> QED BY <2>1 DEF Init, OthersOK
<1>4. Alive
  BY DEF Init, Alive, Users
<1>5. \A d \in Directions : Fine(d)
  <2> SUFFICES ASSUME NEW d \in Directions PROVE Fine(d)
    OBVIOUS
  <2>1. ~ io[d].buf /\ ~ io[d].pend /\ Given(d) = 0 /\ cb[d] = "none"
    BY DEF Init, FreeBuffer, Given
  <2>2. \A u \in Users : at[u] = "out"
    BY DEF Init
  <2> QED BY <2>1, <2>2 DEF Fine, Apart, Begins, Held, Count
<1> QED BY <1>1, <1>2, <1>3, <1>4, <1>5, TypeParts DEF CInv

-----------------------------------------------------------------------------
(* Steps that leave a direction as it was *)

\* No thread enters or leaves ReplayWith, and who resets goes on to do so.
Steady == /\ \A u \in Users, p \in {"sent", "begun", "counted"} : at'[u] = p <=> at[u] = p
          /\ Resetting => Resetting'

LEMMA SteadyMove ==
  ASSUME AtOK, NEW u \in Users, NEW p, at' = [at EXCEPT ![u] = p],
         at[u] \notin {"sent", "begun", "counted", "reset", "leave"},
         p \notin {"sent", "begun", "counted"}
  PROVE  Steady
<1>1. \A v \in Users : at'[v] = (IF v = u THEN p ELSE at[v])
  BY DEF AtOK
<1> QED BY <1>1 DEF Steady, Resetting

LEMMA FineSame ==
  ASSUME NEW d \in Directions, Fine(d), Steady, torn => torn',
         io'[d] = io[d], board'[d] = board[d], cb'[d] = cb[d]
  PROVE  Fine(d)'
<1>1. Given(d)' = Given(d) /\ Due(d)' = Due(d) /\ (Sure(d)' => Sure(d))
  BY DEF Given, Due, Sure, Beginning, Steady
<1>2. Apart(d)'
  BY <1>1 DEF Fine, Apart, Steady
<1>3. Begins(d)' /\ Held(d)' /\ Count(d)'
  BY <1>1 DEF Fine, Begins, Held, Count, Steady
<1> QED BY <1>2, <1>3 DEF Fine

\* A step of the rest of the circuit.
LEMMA QuietStep ==
  ASSUME CInv, Steady, UNCHANGED <<io, OfBoard, torn>>, AtOK', OthersOK', Alive'
  PROVE  CInv'
<1>1. BlocksOK'
  BY TypeParts DEF CInv, BlocksOK, OfBoard
<1>2. \A d \in Directions : Fine(d)'
  BY FineSame DEF CInv, OfBoard
<1> QED BY <1>1, <1>2, TypePartsNext DEF CInv

LEMMA Parts == CInv => AtOK /\ BlocksOK /\ OthersOK /\ Alive
BY TypeParts DEF CInv

LEMMA QuietNeighbour ==
  ASSUME CInv, Bind \/ Enter \/ NoPacket \/ DialPacket \/ DialBusy \/ ChainUp \/ ChainOpen
  PROVE  CInv'
<1> USE DEF OfCircuit
<1>0. AtOK /\ OthersOK /\ Alive /\ "neighbour" \in Users
  BY Parts DEF Users
<1>1. CASE Bind
  <2>1. /\ UNCHANGED <<nb, nw, at, line, io, OfBoard, linked, torn>>
        /\ alive' = TRUE /\ chain' = "open" /\ task' = FALSE
    BY <1>1 DEF Bind
  <2>2. OthersOK'
    BY <1>0, <1>1, <2>1, SpendMoves DEF Bind, OthersOK
  <2>3. AtOK' /\ Alive' /\ Steady
    BY <1>0, <2>1 DEF AtOK, Alive, Steady, Resetting
  <2> QED BY <2>1, <2>2, <2>3, QuietStep
<1>2. ASSUME NEW p \in Places, at' = [at EXCEPT !["neighbour"] = p],
             p \notin {"sent", "begun", "counted"},
             at["neighbour"] \notin {"sent", "begun", "counted", "reset", "leave"},
             UNCHANGED <<io, OfBoard, torn, task, line, linked>>,
             alive' = alive, chain' = chain \/ (alive /\ chain' \in {"open", "up"}),
             \/ UNCHANGED budget
             \/ budget' \in [{"binds", "dials", "rings", "calls"} -> Nat],
             nw' \in Users \union {"free", "lost"},
             \/ nb' = nb /\ p \in Inside /\ at["neighbour"] \in Inside
             \/ nb' = "neighbour" /\ nb = "free" /\ p \in Inside /\ alive
             \/ nb' = "free" /\ nb = "neighbour" /\ p \notin Inside
      PROVE  CInv'
  <2>1. AtOK'
    BY <1>0, <1>2, AtMoves
  <2>2. Steady
    BY <1>0, <1>2, SteadyMove
  <2>3. OthersOK'
    BY <1>0, <1>2 DEF OthersOK
  <2>4. Alive'
    BY <1>0, <1>2 DEF Alive, Users
  <2> QED BY <1>2, <2>1, <2>2, <2>3, <2>4, QuietStep
<1>3. \A p \in Inside : p \in Places
  BY DEF Places
<1>4. at["neighbour"] \in Inside => nb = "neighbour" /\ alive
  BY <1>0 DEF AtOK, Alive
<1>5. nw \in Users \union {"free", "lost"}
  BY <1>0 DEF OthersOK
<1>6. {"packet", "dial", "chain", "record"} \subseteq Inside
  BY DEF Inside
<1>7. CASE Enter
  BY <1>2, <1>3, <1>5, <1>6, <1>7 DEF Enter
<1>8. CASE NoPacket
  BY <1>2, <1>3, <1>5, <1>6, <1>8 DEF NoPacket
<1>9. CASE DialPacket
  <2>1. budget' \in [{"binds", "dials", "rings", "calls"} -> Nat]
    BY <1>0, <1>9, SpendMoves DEF DialPacket
  <2> QED BY <1>2, <1>3, <1>5, <1>6, <1>9, <2>1 DEF DialPacket
<1>10. CASE DialBusy
  BY <1>2, <1>3, <1>5, <1>6, <1>10 DEF DialBusy
<1>11. CASE ChainUp
  BY <1>2, <1>3, <1>4, <1>5, <1>6, <1>11 DEF ChainUp
<1>12. CASE ChainOpen
  <2>1. /\ nw' \in Users \union {"free", "lost"} /\ nb' = "free"
        /\ at' = [at EXCEPT !["neighbour"] = "out"]
    BY <1>0, <1>4, <1>5, <1>6, <1>12, OutMoves DEF ChainOpen
  <2>2. "out" \in Places /\ "out" \notin Inside
    BY DEF Places, Inside
  <2> QED BY <1>2, <1>4, <1>6, <1>12, <2>1, <2>2 DEF ChainOpen
<1> QED BY <1>1, <1>7, <1>8, <1>9, <1>10, <1>11, <1>12

LEMMA QuietNetwork ==
  ASSUME CInv, PutNetworkRing \/ NoOperator \/ Rebind \/ KillLinker \/ HangUp \/ NewCall
  PROVE  CInv'
<1> USE DEF OfCircuit
<1>0. AtOK /\ OthersOK /\ Alive /\ "network" \in Users
  BY Parts DEF Users
<1>1. {"out", "ring", "kill"} \subseteq Places \ Inside /\ "rebind" \in Inside
  BY DEF Places, Inside
<1>2. CASE PutNetworkRing
  <2>1. /\ at["network"] = "out" /\ at' = [at EXCEPT !["network"] = "ring"]
        /\ nw' = "network"
        /\ UNCHANGED <<nb, alive, chain, task, line, io, OfBoard, linked, torn>>
    BY <1>2 DEF PutNetworkRing
  <2>2. AtOK' /\ Steady
    BY <1>0, <1>1, <2>1, AtMoves, SteadyMove
  <2>3. OthersOK' /\ Alive'
    BY <1>0, <1>2, <2>1, SpendMoves DEF PutNetworkRing, OthersOK, Alive
  <2> QED BY <2>1, <2>2, <2>3, QuietStep
<1>3. CASE NoOperator
  <2>1. /\ at["network"] = "ring" /\ at' = [at EXCEPT !["network"] = "out"]
        /\ nw' = "free"
        /\ UNCHANGED <<nb, alive, chain, task, line, io, OfBoard, linked, torn, budget>>
    BY <1>3 DEF NoOperator
  <2>2. AtOK' /\ Steady
    BY <1>0, <1>1, <2>1, AtMoves, SteadyMove
  <2>3. OthersOK' /\ Alive'
    BY <1>0, <2>1 DEF OthersOK, Alive
  <2> QED BY <2>1, <2>2, <2>3, QuietStep
<1>4. CASE Rebind
  <2>1. /\ at["network"] = "rebind" /\ chain' = "up" /\ Out("network")
        /\ UNCHANGED <<alive, task, line, io, OfBoard, linked, torn, budget>>
    BY <1>4 DEF Rebind
  <2>2. nb = "network" /\ alive
    BY <1>0, <1>1, <2>1 DEF AtOK, Alive
  <2>3. /\ AtOK' /\ nw' \in Users \union {"free", "lost"} /\ nb' = "free"
        /\ at' = [at EXCEPT !["network"] = "out"]
    BY <1>0, <2>1, <2>2, OutMoves DEF OthersOK
  <2>4. Steady
    BY <1>0, <2>1, <2>3, SteadyMove
  <2>5. OthersOK' /\ Alive'
    BY <1>0, <2>1, <2>2, <2>3 DEF OthersOK, Alive
  <2> QED BY <2>1, <2>3, <2>4, <2>5, QuietStep
<1>5. CASE KillLinker
  <2>1. /\ at["network"] = "out" /\ at' = [at EXCEPT !["network"] = "kill"]
        /\ nw' = "network"
        /\ UNCHANGED <<nb, alive, chain, task, line, io, OfBoard, linked, torn, budget>>
    BY <1>5 DEF KillLinker
  <2>2. AtOK' /\ Steady
    BY <1>0, <1>1, <2>1, AtMoves, SteadyMove
  <2>3. OthersOK' /\ Alive'
    BY <1>0, <2>1 DEF OthersOK, Alive
  <2> QED BY <2>1, <2>2, <2>3, QuietStep
<1>6. CASE HangUp \/ NewCall
  <2>1. /\ UNCHANGED <<nb, nw, at, alive, chain, task, io, OfBoard, linked, torn>>
        /\ line' \in {"hook", "in"}
    BY <1>6 DEF HangUp, NewCall
  <2>2. UNCHANGED budget \/ budget' \in [{"binds", "dials", "rings", "calls"} -> Nat]
    BY <1>0, <1>6, SpendMoves DEF HangUp, NewCall
  <2>3. AtOK' /\ Steady /\ Alive'
    BY <1>0, <2>1 DEF AtOK, Steady, Resetting, Alive
  <2>4. OthersOK'
    BY <1>0, <2>1, <2>2 DEF OthersOK
  <2> QED BY <2>1, <2>3, <2>4, QuietStep
<1> QED BY <1>2, <1>3, <1>4, <1>5, <1>6

-----------------------------------------------------------------------------
(* A reset begins and ends *)

LEMMA FineReset ==
  ASSUME CInv, NEW u \in Users, NEW where \in {"reset", "leave"}, BeginReset(u, where),
         at[u] \notin {"sent", "begun", "counted", "reset", "leave"},
         UNCHANGED <<OfBoard, torn>>
  PROVE  /\ at' = [at EXCEPT ![u] = where] /\ BlocksOK'
         /\ \A d \in Directions : Fine(d)'
<1>0. AtOK /\ BlocksOK
  BY Parts
<1>1. /\ at' = [at EXCEPT ![u] = where] /\ UNCHANGED <<board, cb, why, torn>>
      /\ io' = [d \in Directions |-> [io[d] EXCEPT !.pend = io[d].buf]]
  BY DEF BeginReset, OfBoard
<1>2. \A d \in Directions : /\ io'[d] \in Overlapped /\ io'[d].buf = io[d].buf
                            /\ io'[d].n = io[d].n /\ io'[d].ev = io[d].ev
  BY <1>0, <1>1 DEF BlocksOK, Overlapped
<1>3. BlocksOK'
  BY <1>0, <1>1, <1>2 DEF BlocksOK
<1>4. Steady
  BY <1>0, <1>1, SteadyMove
<1>5. Resetting'
  BY <1>0, <1>1 DEF AtOK, Resetting
<1>6. ASSUME NEW d \in Directions PROVE Fine(d)'
  <2>1. Given(d)' = Given(d) /\ Due(d)' = Due(d) /\ Sure(d)' = Sure(d)
    BY <1>1, <1>4 DEF Given, Due, Sure, Beginning, Steady
  <2>2. Apart(d)'
    BY <1>5 DEF Apart
  <2>3. Begins(d)' /\ Held(d)' /\ Count(d)'
    BY <1>1, <1>2, <1>4, <2>1 DEF CInv, Fine, Begins, Held, Count, Steady
  <2> QED BY <2>2, <2>3 DEF Fine
<1> QED BY <1>1, <1>3, <1>6

LEMMA ResetBegins ==
  ASSUME CInv, Leave \/ ChainDropped \/ RebindFails \/ KillNetwork
  PROVE  CInv'
<1> USE DEF OfCircuit
<1>0. AtOK /\ OthersOK /\ Alive /\ {"neighbour", "network"} \subseteq Users
  BY Parts DEF Users
<1>1. {"packet", "chain", "rebind", "reset", "leave"} \subseteq Inside
      /\ "kill" \notin Inside /\ Inside \subseteq Places
  BY DEF Inside, Places
<1>2. ASSUME NEW u \in Users, NEW where \in {"reset", "leave"}, BeginReset(u, where),
             at[u] \in {"packet", "chain", "rebind"},
             UNCHANGED <<nb, nw, OfCircuit, line, OfBoard, linked, torn, budget>>
      PROVE  CInv'
  <2>1. /\ at' = [at EXCEPT ![u] = where] /\ BlocksOK'
        /\ \A d \in Directions : Fine(d)'
    BY <1>2, FineReset
  <2>2. AtOK'
    BY <1>0, <1>1, <1>2, <2>1, AtMoves
  <2>3. OthersOK' /\ Alive'
    BY <1>0, <1>2 DEF OthersOK, Alive
  <2> QED BY <2>1, <2>2, <2>3, TypePartsNext DEF CInv
<1>3. CASE Leave
  BY <1>0, <1>2, <1>3 DEF Leave
<1>4. CASE ChainDropped
  BY <1>0, <1>2, <1>4 DEF ChainDropped
<1>5. CASE RebindFails
  BY <1>0, <1>2, <1>5 DEF RebindFails
<1>6. CASE KillNetwork
  <2>0. /\ at["network"] = "kill" /\ nb = "free" /\ linked = "yes" /\ nb' = "network"
        /\ task' = FALSE /\ linked' = "no" /\ BeginReset("network", "reset")
        /\ UNCHANGED <<nw, alive, chain, line, OfBoard, torn, budget>>
    BY <1>6 DEF KillNetwork
  <2>1. /\ at' = [at EXCEPT !["network"] = "reset"] /\ BlocksOK'
        /\ \A d \in Directions : Fine(d)'
    BY <1>0, <2>0, FineReset
  <2>2. AtOK'
    BY <1>0, <1>1, <2>0, <2>1, AtMoves
  <2>3. OthersOK' /\ Alive'
    BY <1>0, <2>0 DEF OthersOK, Alive
  <2> QED BY <2>1, <2>2, <2>3, TypePartsNext DEF CInv
<1> QED BY <1>3, <1>4, <1>5, <1>6

\* Who has waited for both events finds no block with the board and no callback that is
\* still to count one.
LEMMA NoneDue ==
  ASSUME CInv, NEW u \in Users, at[u] \in {"reset", "leave"}, AllBack,
         NEW d \in Directions, Sure(d)
  PROVE  Given(d) = 0 /\ cb[d] \notin {"wait", "free"}
<1>1. nb = u /\ \A v \in Users : at[v] \notin {"begun", "counted"}
  BY Parts DEF AtOK, Inside
<1>2. Due(d) = Given(d) /\ Given(d) \in Nat
  BY <1>1, Parts, GivenNat DEF Due, Beginning
<1>3. Given(d) = 0
  <2>1. CASE io[d].buf
    BY <1>1, <1>2, <2>1 DEF CInv, Fine, Count, AllBack
  <2>2. CASE ~ io[d].buf
    BY <1>2, <2>2 DEF CInv, Fine, Held
  <2> QED BY <2>1, <2>2
<1>4. board[d] \in Nat
  BY Parts, ListNat DEF BlocksOK
<1> QED BY <1>3, <1>4 DEF Given

\* A callback that is not to count anything more may still write.
Leftovers == [d \in Directions |-> IF cb[d] = "tail" THEN "stray" ELSE cb[d]]

LEMMA LeftIs ==
  ASSUME BlocksOK, cb' = Leftovers
  PROVE  /\ cb' \in [Directions -> {"none", "wait", "free", "tail", "stray", "lost"}]
         /\ \A d \in Directions : /\ cb'[d] # "tail" /\ (cb'[d] = "free" => cb[d] = "free")
                                  /\ cb'[d] \in {"wait", "free"} <=> cb[d] \in {"wait", "free"}
BY DEF BlocksOK, Leftovers

LEMMA ResetEnds ==
  ASSUME CInv, NEW u \in Users, EndReset(u) PROVE CInv'
<1>0. AtOK /\ BlocksOK /\ OthersOK /\ Alive
  BY Parts
<1>1. /\ at[u] \in {"reset", "leave"} /\ AllBack /\ io' = FreeBuffer
      /\ line' = (IF task THEN "hook" ELSE line) /\ task' = FALSE /\ cb' = Leftovers
      /\ alive' = (at[u] = "reset")
      /\ chain' = (IF at[u] = "reset" THEN "open" ELSE "none")
      /\ linked' = (IF at[u] = "leave" /\ linked = "yes" THEN "gone" ELSE linked)
      /\ Out(u) /\ UNCHANGED <<board, why, torn, budget>>
  BY DEF EndReset, Leftovers
<1>2. nb = u
  BY <1>0, <1>1 DEF AtOK, Inside
<1>3. /\ AtOK' /\ nw' \in Users \union {"free", "lost"} /\ nb' = "free"
      /\ at' = [at EXCEPT ![u] = "out"]
  BY <1>0, <1>1, <1>2, OutMoves DEF OthersOK
<1>4. OthersOK'
  BY <1>0, <1>1, <1>3 DEF OthersOK
<1>5. Alive'
  BY <1>0, <1>1, <1>3 DEF Alive, Users
<1>6. BlocksOK'
  BY <1>0, <1>1, LeftIs DEF BlocksOK, FreeBuffer, Overlapped
<1>7. ASSUME NEW d \in Directions PROVE Fine(d)'
  <2>1. ~ io'[d].buf /\ ~ io'[d].pend
    BY <1>1 DEF FreeBuffer
  <2>2. \A v \in Users : at'[v] \notin {"sent", "begun", "counted"}
    BY <1>0, <1>1, <1>2, <1>3 DEF AtOK, Inside
  <2>3. Sure(d)' => Given(d)' = 0 /\ cb'[d] \notin {"wait", "free", "tail"}
    BY <1>0, <1>1, NoneDue, LeftIs DEF Sure, Given
  <2> QED BY <2>1, <2>2, <2>3 DEF Fine, Apart, Begins, Held, Count
<1> QED BY <1>3, <1>4, <1>5, <1>6, <1>7, TypePartsNext DEF CInv

-----------------------------------------------------------------------------
(* A call starts *)

\* New buffers, when no block of the old ones is out: recording may begin at once.
LEMMA FineStart ==
  ASSUME CInv, NEW u \in Users, at[u] \in {"dial", "ring"}, ~ Busy, Start(u),
         \A v \in Users : v # u => at[v] \notin Inside
  PROVE  /\ at' = [at EXCEPT ![u] = "play"] /\ task' = TRUE /\ UNCHANGED <<torn, budget>>
         /\ BlocksOK' /\ \A d \in Directions : Fine(d)'
<1>0. AtOK /\ BlocksOK /\ "rec" \in Directions
  BY Parts DEF Directions
<1> DEFINE s == More([io |-> NewBuffer, board |-> board], "rec")
<1>1. /\ io' = s.io /\ board' = s.board /\ task' = TRUE /\ cb' = Leftovers
      /\ at' = [at EXCEPT ![u] = "play"] /\ UNCHANGED <<why, torn, budget>>
  BY DEF Start, Leftovers
<1>2. /\ NewBuffer \in [Directions -> Overlapped]
      /\ \A d \in Directions : /\ NewBuffer[d].buf /\ NewBuffer[d].n = 0
                               /\ ~ NewBuffer[d].pend /\ NewBuffer[d].ev
  BY DEF NewBuffer, Overlapped
<1>3. board \in [Directions -> 0 .. MaxList]
  BY <1>0 DEF BlocksOK
<1>4. /\ io' \in [Directions -> Overlapped] /\ board' \in [Directions -> 0 .. MaxList]
      /\ \A e \in Directions \ {"rec"} : io'[e] = NewBuffer[e] /\ board'[e] = board[e]
      /\ io'["rec"].buf = NewBuffer["rec"].buf /\ io'["rec"].pend = NewBuffer["rec"].pend
      /\ \/ io'["rec"] = NewBuffer["rec"] /\ board'["rec"] = board["rec"]
         \/ /\ io'["rec"].n = NewBuffer["rec"].n + 1 /\ io'["rec"].ev = FALSE
            /\ board'["rec"] = board["rec"] + 1
  <2>1. MayAdd(NewBuffer, board, "rec", s.io, s.board)
    BY <1>0, <1>2, <1>3, MoreIs
  <2>2. MayAdd(NewBuffer, board, "rec", io', board')
    BY <1>1, <2>1
  <2> HIDE DEF s
  <2> QED BY <2>2 DEF MayAdd
<1>5. BlocksOK'
  BY <1>0, <1>1, <1>4, LeftIs DEF BlocksOK
<1>6. \A v \in Users : at'[v] \notin {"sent", "begun", "counted"}
  BY <1>0, <1>1 DEF AtOK, Inside
<1>7. ASSUME NEW d \in Directions PROVE Fine(d)'
  <2>1. Given(d) = 0 /\ board[d] = 0 /\ cb[d] \notin {"wait", "free"}
    <3>1. Given(d) \in Nat /\ board[d] \in Nat
      BY <1>0, GivenNat, ListNat DEF BlocksOK
    <3> QED BY <3>1 DEF Busy, Given
  <2>2. cb'[d] \notin {"wait", "free", "tail"}
    BY <1>0, <1>1, <2>1, LeftIs
  <2>3. io'[d].buf /\ ~ io'[d].pend
    BY <1>2, <1>4
  <2>4. Given(d)' = board'[d] /\ Due(d)' = board'[d]
    <3>1. board'[d] \in Int
      BY <1>4, ListNat
    <3> QED BY <1>6, <2>2, <3>1 DEF Given, Due, Beginning
  <2>5. io'[d].n = board'[d] /\ (io'[d].ev <=> board'[d] = 0)
    BY <1>2, <1>4, <2>1
  <2> QED BY <1>6, <2>2, <2>3, <2>4, <2>5 DEF Fine, Apart, Begins, Held, Count
<1> QED BY <1>1, <1>5, <1>7

LEMMA CallStarts ==
  ASSUME CInv, OnDialPacket \/ OnRingPacket PROVE CInv'
<1>0. AtOK /\ OthersOK /\ Alive /\ {"neighbour", "network"} \subseteq Users
  BY Parts DEF Users
<1>1. {"dial", "play"} \subseteq Inside /\ "ring" \notin Inside /\ Inside \subseteq Places
  BY DEF Inside, Places
<1>2. CASE OnDialPacket
  <2>1. /\ at["neighbour"] = "dial" /\ ~ Busy /\ line' = "out" /\ nw' = "neighbour"
        /\ Start("neighbour") /\ UNCHANGED <<nb, alive, chain, linked>>
    BY <1>2 DEF OnDialPacket
  <2>2. nb = "neighbour" /\ \A v \in Users : v # "neighbour" => at[v] \notin Inside
    BY <1>0, <1>1, <2>1 DEF AtOK
  <2>3. /\ at' = [at EXCEPT !["neighbour"] = "play"] /\ task' = TRUE
        /\ UNCHANGED <<torn, budget>> /\ BlocksOK' /\ \A d \in Directions : Fine(d)'
    BY <1>0, <2>1, <2>2, FineStart
  <2>4. AtOK'
    BY <1>0, <1>1, <2>1, <2>3, AtMoves
  <2>5. OthersOK' /\ Alive'
    BY <1>0, <2>1, <2>3 DEF OthersOK, Alive
  <2> QED BY <2>3, <2>4, <2>5, TypePartsNext DEF CInv
<1>3. CASE OnRingPacket
  <2>1. /\ at["network"] = "ring" /\ nb = "free" /\ alive /\ ~ Busy /\ nb' = "network"
        /\ linked' = "yes" /\ Start("network") /\ UNCHANGED <<nw, alive, chain, line>>
    BY <1>3 DEF OnRingPacket
  <2>2. \A v \in Users : at[v] \notin Inside
    BY <1>0, <2>1 DEF AtOK, Users
  <2>3. /\ at' = [at EXCEPT !["network"] = "play"] /\ task' = TRUE
        /\ UNCHANGED <<torn, budget>> /\ BlocksOK' /\ \A d \in Directions : Fine(d)'
    BY <1>0, <2>1, <2>2, FineStart
  <2>4. AtOK'
    BY <1>0, <1>1, <2>1, <2>3, AtMoves
  <2>5. OthersOK' /\ Alive'
    BY <1>0, <2>1, <2>3 DEF OthersOK, Alive
  <2> QED BY <2>3, <2>4, <2>5, TypePartsNext DEF CInv
<1> QED BY <1>2, <1>3

\* After the memory of a circuit was used in vain nothing is claimed, and nothing moves.
LEMMA LostForGood ==
  ASSUME CInv, DialAgain \/ RingAgain \/ KillDeleted PROVE CInv'
<1>0. Undefined /\ OthersOK
  BY Parts DEF DialAgain, RingAgain, KillDeleted
<1>1. AtOK'
  BY <1>0 DEF Undefined, AtOK, Places, Inside, Users
<1>2. BlocksOK'
  BY <1>0, ListNat DEF Undefined, BlocksOK, FreeBuffer, Overlapped
<1>3. OthersOK' /\ Alive'
  BY <1>0 DEF Undefined, OthersOK, Alive, Users
<1>4. ASSUME NEW d \in Directions PROVE Fine(d)'
  <2>1. ~ io'[d].buf /\ ~ io'[d].pend /\ cb'[d] = "lost" /\ board'[d] = 0
    BY <1>0 DEF Undefined, FreeBuffer
  <2>2. \A v \in Users : at'[v] = "lost"
    BY <1>0 DEF Undefined
  <2> QED BY <2>1, <2>2 DEF Fine, Apart, Begins, Held, Count, Given
<1> QED BY <1>1, <1>2, <1>3, <1>4, TypePartsNext DEF CInv

-----------------------------------------------------------------------------
(* One direction *)

\* A step of one direction while no thread moves.
LEMMA OneDirection ==
  ASSUME CInv, NEW d \in Directions, BlocksOK', Fine(d)', OthersOK', Alive', AtOK', Steady,
         torn => torn',
         \A e \in Directions \ {d} : io'[e] = io[e] /\ board'[e] = board[e] /\ cb'[e] = cb[e]
  PROVE  CInv'
<1>1. ASSUME NEW e \in Directions PROVE Fine(e)'
  <2>1. CASE e = d
    BY <2>1
  <2>2. CASE e # d
    BY <2>2, FineSame DEF CInv
  <2> QED BY <2>1, <2>2
<1> QED BY <1>1, TypePartsNext DEF CInv

\* More blocks of a direction that has a buffer.
LEMMA FineMore ==
  ASSUME CInv, NEW d \in Directions, io[d].buf, Steady, UNCHANGED <<cb, torn>>,
         \A u \in Users : at[u] \notin {"begun", "counted"},
         io'[d].buf, io'[d].pend = io[d].pend,
         \/ io'[d] = io[d] /\ board'[d] = board[d]
         \/ io'[d].n = io[d].n + 1 /\ io'[d].ev = FALSE /\ board'[d] = board[d] + 1
  PROVE  Fine(d)'
<1>1. CASE io'[d] = io[d] /\ board'[d] = board[d]
  BY <1>1, FineSame DEF CInv
<1>2. CASE io'[d].n = io[d].n + 1 /\ io'[d].ev = FALSE /\ board'[d] = board[d] + 1
  <2>1. /\ Given(d) \in Nat /\ Given(d)' = Given(d) + 1
        /\ Due(d) = Given(d) /\ Due(d)' = Given(d)' /\ Sure(d)' = Sure(d)
    <3>1. Given(d) \in Nat /\ board[d] \in Nat
      BY Parts, GivenNat, ListNat DEF BlocksOK
    <3> QED BY <1>2, <3>1 DEF Given, Due, Beginning, Sure, Steady
  <2>2. Apart(d)'
    BY <2>1 DEF CInv, Fine, Apart, Steady
  <2>3. Begins(d)' /\ Held(d)'
    BY <2>1 DEF Steady, Begins, Held
  <2>4. Count(d)'
    <3>1. Sure(d)' => io[d].n = Given(d)
      BY <2>1 DEF CInv, Fine, Count
    <3>2. Sure(d)' => io'[d].n = Due(d)' /\ Due(d)' # 0
      BY <1>2, <2>1, <3>1
    <3> QED BY <1>2, <3>2 DEF Count
  <2> QED BY <2>2, <2>3, <2>4 DEF Fine
<1> QED BY <1>1, <1>2

LEMMA RecordKeeps ==
  ASSUME CInv, Record PROVE CInv'
<1>0. AtOK /\ BlocksOK /\ OthersOK /\ Alive /\ "neighbour" \in Users /\ "rec" \in Directions
  BY Parts DEF Users, Directions
<1> DEFINE s == [io |-> io, board |-> board]
           t == IF io["rec"].buf /\ ~ io["rec"].off THEN More(s, "rec") ELSE s
<1>1. /\ at["neighbour"] = "record" /\ io' = t.io /\ board' = t.board
      /\ at' = [at EXCEPT !["neighbour"] = "play"]
      /\ UNCHANGED <<nb, nw, OfCircuit, line, cb, why, linked, torn, budget>>
  BY DEF Record
<1>2. {"record", "play"} \subseteq Inside /\ Inside \subseteq Places
  BY DEF Inside, Places
<1>3. AtOK' /\ Steady
  BY <1>0, <1>1, <1>2, AtMoves, SteadyMove
<1>4. OthersOK' /\ Alive'
  BY <1>0, <1>1 DEF OthersOK, Alive, OfCircuit
<1>5. \A u \in Users : at[u] \notin {"begun", "counted"}
  BY <1>0, <1>1, <1>2 DEF AtOK, Inside
<1>6. CASE io["rec"].buf /\ ~ io["rec"].off
  <2>1. /\ io' \in [Directions -> Overlapped] /\ board' \in [Directions -> 0 .. MaxList]
        /\ \A e \in Directions \ {"rec"} : io'[e] = io[e] /\ board'[e] = board[e]
        /\ io'["rec"].buf = io["rec"].buf /\ io'["rec"].pend = io["rec"].pend
        /\ \/ io'["rec"] = io["rec"] /\ board'["rec"] = board["rec"]
           \/ /\ io'["rec"].n = io["rec"].n + 1 /\ io'["rec"].ev = FALSE
              /\ board'["rec"] = board["rec"] + 1
    <3>1. t = More([io |-> io, board |-> board], "rec")
      BY <1>6
    <3>2. MayAdd(io, board, "rec", t.io, t.board)
      BY <1>0, <3>1, MoreIs DEF BlocksOK
    <3>3. MayAdd(io, board, "rec", io', board')
      BY <1>1, <3>2
    <3> HIDE DEF t
    <3> QED BY <3>3 DEF MayAdd
  <2>2. BlocksOK'
    BY <1>0, <1>1, <2>1 DEF BlocksOK
  <2>3. Fine("rec")'
    BY <1>0, <1>1, <1>3, <1>5, <1>6, <2>1, FineMore
  <2> QED BY <1>0, <1>1, <1>3, <1>4, <2>1, <2>2, <2>3, OneDirection
<1>7. CASE ~ (io["rec"].buf /\ ~ io["rec"].off)
  <2>1. UNCHANGED <<io, board>>
    BY <1>1, <1>7
  <2> QED BY <1>1, <1>3, <1>4, <2>1, QuietStep DEF OfBoard
<1> QED BY <1>6, <1>7

-----------------------------------------------------------------------------
(* ReplayWith *)

\* The thread in ReplayWith has the lock, and nobody resets: whatever callback is not
\* where it should be has passed the lock.
LEMMA ReplayAlone ==
  ASSUME CInv, NEW u \in Users, at[u] \in {"play", "sent", "begun", "counted"}
  PROVE  /\ nb = u /\ ~ Resetting
         /\ \A v \in Users : v # u => at[v] \notin Inside
         /\ \A d \in Directions : cb[d] \in {"free", "tail"} => d = "play" /\ torn
<1>1. nb = u /\ \A v \in Users : v # u => at[v] \notin Inside
  BY Parts DEF AtOK, Inside
<1>2. ~ Resetting
  BY <1>1 DEF Resetting, Inside
<1>3. \A d \in Directions : cb[d] \in {"free", "tail"} => d = "play" /\ torn
  BY <1>2 DEF CInv, Fine, Apart, Sure, Directions
<1> QED BY <1>1, <1>2, <1>3

\* A step of ReplayWith changes what is said of playing only.
LEMMA ReplayStep ==
  ASSUME CInv, NEW u \in Users, at[u] \in {"play", "sent", "begun", "counted"},
         NEW q, at' = [at EXCEPT ![u] = q], q \notin {"reset", "leave"},
         AtOK', BlocksOK', OthersOK', Alive', UNCHANGED torn,
         io'["rec"] = io["rec"], board'["rec"] = board["rec"], cb'["rec"] = cb["rec"],
         cb'["play"] = cb["play"] \/ torn, io'["play"].buf = io["play"].buf,
         q \in {"sent", "begun", "counted"} => io["play"].buf,
         q \in {"begun", "counted"} /\ ~ torn => Given("play")' > 0,
         Held("play")', Count("play")'
  PROVE  CInv'
<1>1. /\ ~ Resetting /\ \A v \in Users : v # u => at[v] \notin Inside
      /\ \A d \in Directions : cb[d] \in {"free", "tail"} => d = "play" /\ torn
  BY ReplayAlone
<1>2. \A v \in Users : at'[v] = (IF v = u THEN q ELSE at[v])
  BY Parts DEF AtOK
<1>3. Fine("rec")'
  <2>1. /\ Given("rec")' = Given("rec") /\ Due("rec")' = Due("rec")
        /\ Sure("rec") /\ Sure("rec")'
    BY DEF Given, Due, Sure
  <2>2. Fine("rec") /\ "rec" \in Directions
    BY DEF CInv, Directions
  <2>3. Apart("rec")'
    BY <1>1, <2>2 DEF Fine, Apart, Sure
  <2>4. Begins("rec")' /\ Held("rec")' /\ Count("rec")'
    BY <2>1, <2>2 DEF Fine, Begins, Held, Count
  <2> QED BY <2>3, <2>4 DEF Fine
<1>4. Fine("play")'
  <2>1. Apart("play")'
    BY <1>1 DEF Apart, Sure, Directions
  <2>2. Begins("play")'
    <3> SUFFICES ASSUME NEW v \in Users
                 PROVE  /\ at'[v] \in {"sent", "begun", "counted"} => io'["play"].buf
                        /\ at'[v] \in {"begun", "counted"} /\ ~ torn' => Given("play")' > 0
      BY DEF Begins
    <3>1. v # u => at'[v] \notin {"sent", "begun", "counted"}
      BY <1>1, <1>2 DEF Inside
    <3> QED BY <1>2, <3>1
  <2> QED BY <2>1, <2>2 DEF Fine
<1>5. \A d \in Directions : Fine(d)'
  BY <1>3, <1>4 DEF Directions
<1> QED BY <1>5, TypePartsNext DEF CInv

\* What the steps of ReplayWith have in common.
LEMMA PlayFacts ==
  ASSUME CInv
  PROVE  /\ "play" \in Directions /\ "rec" \in Directions /\ io["play"] \in Overlapped
         /\ Given("play") \in Nat /\ board["play"] \in Nat
         /\ Held("play") /\ Count("play") /\ Begins("play")
<1>1. BlocksOK /\ "play" \in Directions /\ "rec" \in Directions
  BY Parts DEF Directions
<1>2. board["play"] \in Nat
  BY <1>1, ListNat DEF BlocksOK
<1> QED BY <1>1, <1>2, GivenNat DEF CInv, Fine, BlocksOK

LEMMA ReplayKeeps ==
  ASSUME CInv, NEW u \in Users, Replay(u) \/ ReplayNone(u) PROVE CInv'
<1> USE DEF OfCircuit, OfBoard
<1>0. AtOK /\ BlocksOK /\ OthersOK /\ Alive /\ Inside \subseteq Places
      /\ {"play", "sent"} \subseteq Inside
  BY Parts DEF Places, Inside
<1>1. CASE Replay(u)
  <2>1. /\ at[u] = "play" /\ io["play"].buf /\ io' = [io EXCEPT !["play"].pend = TRUE]
        /\ at' = [at EXCEPT ![u] = "sent"]
        /\ UNCHANGED <<nb, nw, OfCircuit, line, OfBoard, linked, torn, budget>>
    BY <1>1 DEF Replay
  <2>2. /\ io' \in [Directions -> Overlapped] /\ io'["rec"] = io["rec"]
        /\ io'["play"].buf = io["play"].buf /\ io'["play"].n = io["play"].n
        /\ io'["play"].ev = io["play"].ev
    BY <1>0, <2>1, PlayFacts DEF BlocksOK, Overlapped
  <2>3. AtOK' /\ BlocksOK' /\ OthersOK' /\ Alive'
    BY <1>0, <2>1, <2>2, AtMoves DEF BlocksOK, OthersOK, Alive
  <2>4. \A v \in Users : at[v] \notin {"begun", "counted"} /\ at'[v] # "begun"
    BY <1>0, <2>1, ReplayAlone DEF AtOK, Inside
  <2>5. Given("play")' = Given("play") /\ Due("play")' = Due("play")
        /\ Sure("play")' = Sure("play")
    BY <2>1, <2>4 DEF Given, Due, Beginning, Sure
  <2>6. Held("play")' /\ Count("play")'
    BY <2>2, <2>4, <2>5, PlayFacts DEF Held, Count
  <2>7. /\ at[u] \in {"play", "sent", "begun", "counted"}
        /\ at' = [at EXCEPT ![u] = "sent"] /\ io["play"].buf
        /\ board'["rec"] = board["rec"] /\ cb'["rec"] = cb["rec"]
        /\ cb'["play"] = cb["play"] /\ UNCHANGED torn
    BY <2>1
  <2> HIDE DEF OfBoard, OfCircuit
  <2> QED BY <2>2, <2>3, <2>6, <2>7, ReplayStep
<1>2. CASE ReplayNone(u)
  <2>1. /\ at[u] = "play" /\ Replayed(u)
        /\ UNCHANGED <<OfCircuit, line, io, OfBoard, linked, torn, budget>>
    BY <1>2 DEF ReplayNone
  <2>2. nb = u
    BY <2>1, ReplayAlone
  <2>3. /\ AtOK' /\ nw' \in Users \union {"free", "lost"} /\ nb' \in {nb, "free"}
        /\ \E p \in {"rebind", "chain", "out"} : at' = [at EXCEPT ![u] = p]
    BY <1>0, <2>1, <2>2, ReplayedMoves DEF OthersOK
  <2>4. Steady
    BY <1>0, <2>1, <2>3, SteadyMove
  <2>5. OthersOK' /\ Alive'
    BY <1>0, <2>1, <2>3 DEF OthersOK, Alive, Users
  <2> QED BY <2>1, <2>3, <2>4, <2>5, QuietStep
<1> QED BY <1>1, <1>2

LEMMA PlaySent ==
  ASSUME CInv, NEW u \in Users, PlayMemBlock(u) \/ PlayFails(u) PROVE CInv'
<1> USE DEF OfCircuit, OfBoard
<1>0. AtOK /\ BlocksOK /\ OthersOK /\ Alive /\ Inside \subseteq Places
      /\ {"sent", "begun"} \subseteq Inside
  BY Parts DEF Places, Inside
<1>1. at[u] = "sent" /\ nb = u /\ io["play"].buf
  BY PlayFacts, ReplayAlone DEF PlayMemBlock, PlayFails, Begins
<1>2. \A v \in Users : at[v] \notin {"begun", "counted"}
  BY <1>1, ReplayAlone DEF Inside
<1>3. CASE PlayMemBlock(u)
  <2>1. /\ board["play"] < MaxList /\ board' = [board EXCEPT !["play"] = @ + 1]
        /\ at' = [at EXCEPT ![u] = "begun"]
        /\ UNCHANGED <<nb, nw, OfCircuit, line, io, cb, why, linked, torn, budget>>
    BY <1>3 DEF PlayMemBlock, Accepts
  <2>2. board["play"] + 1 \in 0 .. MaxList
    BY <2>1, PlayFacts, ListNat
  <2>3. board' \in [Directions -> 0 .. MaxList]
    BY <1>0, <2>1, <2>2 DEF BlocksOK
  <2>4. board'["rec"] = board["rec"] /\ board'["play"] = board["play"] + 1
    BY <1>0, <2>1, PlayFacts DEF BlocksOK
  <2>5. AtOK' /\ BlocksOK' /\ OthersOK' /\ Alive'
    BY <1>0, <1>1, <2>1, <2>3, AtMoves DEF BlocksOK, OthersOK, Alive
  <2>6. Beginning' /\ \E v \in Users : at'[v] = "begun"
    BY <1>0, <2>1 DEF Beginning, AtOK
  <2>7. /\ Given("play")' = Given("play") + 1 /\ Due("play")' = Due("play")
        /\ Given("play")' > 0
    BY <1>2, <2>1, <2>4, <2>6, PlayFacts DEF Given, Due, Beginning
  <2>8. Held("play")' /\ Count("play")'
    <3>1. \A v \in Users : at[v] # "counted"
      BY <1>2
    <3> QED BY <1>1, <2>1, <2>7, <3>1, PlayFacts DEF Held, Count, Sure
  <2> QED BY <1>1, <2>1, <2>4, <2>5, <2>7, <2>8, ReplayStep
<1>4. CASE PlayFails(u)
  <2>1. /\ io' = [io EXCEPT !["play"].pend = FALSE] /\ Replayed(u)
        /\ UNCHANGED <<OfCircuit, line, OfBoard, linked, torn, budget>>
    BY <1>4 DEF PlayFails
  <2>2. /\ io' \in [Directions -> Overlapped] /\ io'["rec"] = io["rec"]
        /\ io'["play"].buf = io["play"].buf /\ io'["play"].n = io["play"].n
        /\ io'["play"].ev = io["play"].ev
    BY <1>0, <2>1, PlayFacts DEF BlocksOK, Overlapped
  <2>3. /\ AtOK' /\ nw' \in Users \union {"free", "lost"} /\ nb' \in {nb, "free"}
        /\ \E p \in {"rebind", "chain", "out"} : at' = [at EXCEPT ![u] = p]
    BY <1>0, <1>1, <2>1, ReplayedMoves DEF OthersOK
  <2>4. PICK q \in {"rebind", "chain", "out"} : at' = [at EXCEPT ![u] = q]
    BY <2>3
  <2>5. BlocksOK' /\ OthersOK' /\ Alive'
    BY <1>0, <2>1, <2>2, <2>3 DEF BlocksOK, OthersOK, Alive, Users
  <2>6. \A v \in Users : at'[v] # "begun"
    BY <1>0, <1>2, <2>4 DEF AtOK
  <2>7. Given("play")' = Given("play") /\ Due("play")' = Due("play")
        /\ Sure("play")' = Sure("play")
    BY <1>2, <2>1, <2>6 DEF Given, Due, Beginning, Sure
  <2>8. Held("play")' /\ Count("play")'
    BY <1>2, <2>2, <2>7, PlayFacts DEF Held, Count
  <2> QED BY <1>1, <2>1, <2>2, <2>3, <2>4, <2>5, <2>8, ReplayStep
<1> QED BY <1>3, <1>4

LEMMA PlayBegins ==
  ASSUME CInv, NEW u \in Users, PlayCounted(u) \/ PlayMiscounted(u) PROVE CInv'
<1> USE DEF OfCircuit
<1>0. AtOK /\ BlocksOK /\ OthersOK /\ Alive /\ Inside \subseteq Places
      /\ {"begun", "counted"} \subseteq Inside
  BY Parts DEF Places, Inside
<1>1. /\ at[u] = "begun" /\ nb = u /\ io["play"].buf
      /\ at' = [at EXCEPT ![u] = "counted"]
      /\ UNCHANGED <<nb, nw, alive, chain, task, line, board, why, linked, torn, budget>>
  BY PlayFacts, ReplayAlone DEF PlayCounted, PlayMiscounted, Begins, OfBoard
<1>2. AtOK' /\ OthersOK' /\ Alive'
  BY <1>0, <1>1, AtMoves DEF OthersOK, Alive
<1>3. /\ \A v \in Users : at'[v] # "begun"
      /\ \E v \in Users : at'[v] = "counted"
      /\ Beginning
  BY <1>0, <1>1, ReplayAlone DEF AtOK, Inside, Beginning
<1>4. CASE PlayCounted(u)
  <2>1. /\ io' = [io EXCEPT !["play"].n = @ + 1] /\ UNCHANGED cb
    BY <1>4 DEF PlayCounted, OfBoard
  <2>2. /\ io' \in [Directions -> Overlapped] /\ io'["rec"] = io["rec"]
        /\ io'["play"].buf = io["play"].buf /\ io'["play"].n = io["play"].n + 1
    BY <1>0, <2>1, PlayFacts DEF BlocksOK, Overlapped
  <2>3. BlocksOK'
    BY <1>0, <1>1, <2>1, <2>2 DEF BlocksOK
  <2>4. /\ Given("play")' = Given("play") /\ Due("play") = Given("play") - 1
        /\ Due("play")' = Given("play")
    BY <1>1, <1>3, <2>1, PlayFacts DEF Given, Due, Beginning
  <2>5. ~ torn => Given("play")' > 0
    BY <1>1, <2>4, PlayFacts DEF Begins
  <2>6. Held("play")'
    BY <1>1, <2>2 DEF Held
  <2>7. Count("play")'
    BY <1>1, <1>3, <2>2, <2>4, PlayFacts DEF Count, Sure
  <2>8. /\ at[u] \in {"play", "sent", "begun", "counted"}
        /\ at' = [at EXCEPT ![u] = "counted"] /\ io["play"].buf
        /\ board'["rec"] = board["rec"] /\ cb'["rec"] = cb["rec"]
        /\ cb'["play"] = cb["play"] /\ UNCHANGED torn
    BY <1>1, <2>1
  <2> QED BY <1>2, <2>2, <2>3, <2>5, <2>6, <2>7, <2>8, ReplayStep
<1>5. CASE PlayMiscounted(u)
  <2>1. /\ cb["play"] = "free" /\ cb' = [cb EXCEPT !["play"] = "tail"]
        /\ \E n \in {io["play"].n + 1, io["play"].n - 1} :
             io' = [io EXCEPT !["play"].n = n, !["play"].ev = @ \/ io["play"].n = 1]
    BY <1>5 DEF PlayMiscounted
  <2>2. torn
    BY <1>1, <2>1, PlayFacts, ReplayAlone
  <2>3. /\ io' \in [Directions -> Overlapped] /\ io'["rec"] = io["rec"]
        /\ io'["play"].buf = io["play"].buf
    <3>1. PICK n \in {io["play"].n + 1, io["play"].n - 1} :
             io' = [io EXCEPT !["play"].n = n, !["play"].ev = @ \/ io["play"].n = 1]
      BY <2>1
    <3>2. n \in Int
      BY PlayFacts DEF Overlapped
    <3> QED BY <1>0, <3>1, <3>2, PlayFacts DEF BlocksOK, Overlapped
  <2>4. /\ cb' \in [Directions -> {"none", "wait", "free", "tail", "stray", "lost"}]
        /\ cb'["rec"] = cb["rec"]
    BY <1>0, <2>1 DEF BlocksOK, Directions
  <2>5. BlocksOK'
    BY <1>0, <1>1, <2>3, <2>4 DEF BlocksOK
  <2>6. Held("play")' /\ Count("play")'
    BY <1>1, <2>2 DEF Held, Count, Sure
  <2>7. /\ at[u] \in {"play", "sent", "begun", "counted"}
        /\ at' = [at EXCEPT ![u] = "counted"] /\ io["play"].buf
        /\ board'["rec"] = board["rec"] /\ UNCHANGED torn
    BY <1>1
  <2>8. /\ (cb'["play"] = cb["play"] \/ torn)
        /\ ("counted" \in {"begun", "counted"} /\ ~ torn => Given("play")' > 0)
        /\ "counted" \notin {"reset", "leave"}
    BY <2>2
  <2> QED BY <1>2, <2>3, <2>4, <2>5, <2>6, <2>7, <2>8, ReplayStep
<1> QED BY <1>4, <1>5

LEMMA PlayEnds ==
  ASSUME CInv, NEW u \in Users, PlayBegun(u) PROVE CInv'
<1> USE DEF OfCircuit
<1>0. AtOK /\ BlocksOK /\ OthersOK /\ Alive
  BY Parts
<1>1. /\ at[u] = "counted" /\ nb = u /\ io["play"].buf
      /\ io' = [io EXCEPT !["play"].pend = FALSE, !["play"].ev = FALSE] /\ Replayed(u)
      /\ UNCHANGED <<alive, chain, task, line, board, cb, why, linked, torn, budget>>
  BY PlayFacts, ReplayAlone DEF PlayBegun, Begins, OfBoard
<1>2. /\ io' \in [Directions -> Overlapped] /\ io'["rec"] = io["rec"]
      /\ io'["play"].buf = io["play"].buf /\ io'["play"].n = io["play"].n
      /\ io'["play"].ev = FALSE
  <2>1. io'["play"] = [io["play"] EXCEPT !.pend = FALSE, !.ev = FALSE]
        /\ io'["rec"] = io["rec"] /\ DOMAIN io' = Directions
        /\ io' = [d \in Directions |-> io'[d]]
    BY <1>0, <1>1, PlayFacts DEF BlocksOK
  <2>2. io'["play"] \in Overlapped
    BY <2>1, PlayFacts DEF Overlapped
  <2>3. io["rec"] \in Overlapped
    BY <1>0, PlayFacts DEF BlocksOK
  <2>4. io' \in [Directions -> Overlapped]
    BY <2>1, <2>2, <2>3 DEF Directions
  <2> QED BY <2>1, <2>4, PlayFacts DEF Overlapped
<1>3. /\ AtOK' /\ nw' \in Users \union {"free", "lost"} /\ nb' \in {nb, "free"}
      /\ \E p \in {"rebind", "chain", "out"} : at' = [at EXCEPT ![u] = p]
  BY <1>0, <1>1, ReplayedMoves DEF OthersOK
<1>4. PICK q \in {"rebind", "chain", "out"} : at' = [at EXCEPT ![u] = q]
  BY <1>3
<1>5. BlocksOK' /\ OthersOK' /\ Alive'
  BY <1>0, <1>1, <1>2, <1>3 DEF BlocksOK, OthersOK, Alive, Users
<1>6. \A v \in Users : at[v] # "begun" /\ at'[v] # "begun"
  BY <1>0, <1>1, <1>4, ReplayAlone DEF AtOK, Inside
<1>7. /\ Given("play")' = Given("play") /\ Due("play") = Given("play")
      /\ Due("play")' = Given("play") /\ Sure("play")' = Sure("play")
  BY <1>1, <1>6, PlayFacts DEF Given, Due, Beginning, Sure
<1>8. ~ torn => Given("play") > 0
  BY <1>1, PlayFacts DEF Begins
<1>9. Held("play")'
  BY <1>1, <1>2 DEF Held
<1>10. Count("play")'
  <2>1. Sure("play")' => io'["play"].n = Due("play")' /\ Due("play")' # 0
    BY <1>1, <1>2, <1>7, <1>8, PlayFacts DEF Count, Sure
  <2> QED BY <1>2, <2>1 DEF Count
<1>11. /\ at[u] \in {"play", "sent", "begun", "counted"}
       /\ at' = [at EXCEPT ![u] = q]
       /\ q \notin {"reset", "leave"} /\ q \notin {"sent", "begun", "counted"}
       /\ board'["rec"] = board["rec"] /\ cb'["rec"] = cb["rec"]
       /\ cb'["play"] = cb["play"] /\ UNCHANGED torn
  BY <1>1, <1>4
<1> QED BY <1>2, <1>3, <1>5, <1>9, <1>10, <1>11, ReplayStep

-----------------------------------------------------------------------------
(* The board's threads *)

\* No callback moves a thread that visits the circuit.
LEMMA CallbackFrame ==
  ASSUME CInv, UNCHANGED <<nb, nw, at, alive, chain, line, linked, budget>>,
         task' \in BOOLEAN, torn' \in BOOLEAN
  PROVE  AtOK' /\ OthersOK' /\ Alive' /\ Steady /\ (Resetting' <=> Resetting)
BY Parts DEF AtOK, OthersOK, Alive, Steady, Resetting

\* A callback that leaves the count, and the blocks it is the count of, as they are.
LEMMA FineGiven ==
  ASSUME CInv, NEW d \in Directions, UNCHANGED at, torn => torn',
         Given(d)' = Given(d), io'[d].buf = io[d].buf, io'[d].n = io[d].n,
         io'[d].ev = io[d].ev, io'[d].pend = io[d].pend,
         Sure(d)' /\ cb'[d] \in {"free", "tail"} => Resetting
  PROVE  Fine(d)'
<1>1. Due(d)' = Due(d) /\ (Sure(d)' => Sure(d)) /\ Resetting' = Resetting
  BY DEF Due, Beginning, Sure, Resetting
<1>2. Apart(d)'
  BY <1>1 DEF CInv, Fine, Apart
<1>3. Begins(d)' /\ Held(d)' /\ Count(d)'
  BY <1>1 DEF CInv, Fine, Begins, Held, Count
<1> QED BY <1>2, <1>3 DEF Fine

\* One block of a direction was counted: the board had it, and now it is back.
LEMMA FineLess ==
  ASSUME CInv, NEW d \in Directions, UNCHANGED <<at, torn>>, cb[d] \in {"wait", "free"},
         cb'[d] \notin {"wait", "free"}, board'[d] = board[d],
         Sure(d) => \A u \in Users : at[u] \notin {"begun", "counted"},
         Sure(d) /\ cb'[d] = "tail" => Resetting,
         io'[d].buf = io[d].buf, io'[d].pend = io[d].pend,
         io'[d].n = io[d].n - 1, io'[d].ev = (io[d].ev \/ io[d].n = 1)
  PROVE  /\ Fine(d)' /\ (Sure(d) => io[d].buf)
<1>1. /\ Given(d) \in Nat /\ Given(d)' \in Nat /\ Given(d) = Given(d)' + 1
      /\ Sure(d)' = Sure(d) /\ Resetting' = Resetting
      /\ io[d].n \in Int /\ io[d].ev \in BOOLEAN
  <2>1. board[d] \in Nat /\ io[d] \in Overlapped
    BY Parts, ListNat DEF BlocksOK
  <2> QED BY <2>1, BufferIs DEF Given, Sure, Resetting
<1>2. Sure(d) => Due(d) = Given(d) /\ Due(d)' = Given(d)'
  BY <1>1 DEF Due, Beginning
<1>3. Sure(d) => io[d].buf
  BY <1>1 DEF CInv, Fine, Held
<1>4. Apart(d)'
  BY <1>1 DEF CInv, Fine, Apart
<1>5. Begins(d)'
  <2>1. d = "play" => Begins(d) /\ (Sure(d) <=> ~ torn)
    BY DEF CInv, Fine, Sure
  <2> QED BY <2>1 DEF Begins
<1>6. Held(d)'
  BY <1>1, <1>3 DEF Held
<1>7. Count(d)'
  <2> SUFFICES ASSUME Sure(d) PROVE io'[d].n = Due(d)' /\ (io'[d].ev <=> Due(d)' = 0)
    BY <1>1 DEF Count
  <2>1. io[d].n = Given(d) /\ (io[d].ev <=> Given(d) = 0)
    BY <1>2, <1>3 DEF CInv, Fine, Count
  <2>2. io'[d].n = Given(d)' /\ ~ io[d].ev /\ (io[d].n = 1 <=> Given(d)' = 0)
    BY <1>1, <2>1
  <2> QED BY <1>1, <1>2, <2>2
<1> QED BY <1>3, <1>4, <1>5, <1>6, <1>7 DEF Fine

LEMMA DoneKeeps ==
  ASSUME CInv, NEW d \in Directions, BlockDone(d) PROVE CInv'
<1>0. BlocksOK /\ OthersOK
  BY Parts
<1>1. /\ board[d] > 0 /\ cb[d] = "none" /\ board' = [board EXCEPT ![d] = @ - 1]
      /\ cb' = [cb EXCEPT ![d] = "wait"]
      /\ \E r \in {"hangup", "done", "stop"} : why' = [why EXCEPT ![d] = r]
      /\ UNCHANGED <<nb, nw, at, alive, chain, task, line, io, linked, torn, budget>>
  BY DEF BlockDone, OfCircuit
<1>2. AtOK' /\ OthersOK' /\ Alive' /\ Steady
  BY <1>0, <1>1, CallbackFrame DEF OthersOK
<1>3. board[d] \in 1 .. MaxList /\ board[d] - 1 \in 0 .. MaxList
  BY <1>0, <1>1, ListNat DEF BlocksOK
<1>4. /\ board' \in [Directions -> 0 .. MaxList] /\ board'[d] = board[d] - 1
      /\ \A e \in Directions \ {d} : board'[e] = board[e]
  BY <1>0, <1>1, <1>3 DEF BlocksOK
<1>5. /\ cb' \in [Directions -> {"none", "wait", "free", "tail", "stray", "lost"}]
      /\ cb'[d] = "wait" /\ \A e \in Directions \ {d} : cb'[e] = cb[e]
      /\ why' \in [Directions -> {"done", "stop", "hangup"}]
  BY <1>0, <1>1 DEF BlocksOK
<1>6. BlocksOK'
  BY <1>0, <1>1, <1>4, <1>5 DEF BlocksOK
<1>7. Given(d)' = Given(d)
  BY <1>1, <1>3, <1>4, <1>5, ListNat DEF Given
<1>8. Fine(d)'
  BY <1>1, <1>5, <1>7, FineGiven
<1> QED BY <1>1, <1>2, <1>4, <1>5, <1>6, <1>8, OneDirection

LEMMA UnlockedKeeps ==
  ASSUME CInv, NEW d \in Directions, Unlocked(d) PROVE CInv'
<1>0. BlocksOK /\ OthersOK
  BY Parts
<1>1. /\ cb[d] = "wait" /\ io[d].pend /\ cb' = [cb EXCEPT ![d] = "free"]
      /\ torn' = (torn \/ ~ Resetting)
      /\ UNCHANGED <<nb, nw, at, alive, chain, task, line, io, board, why, linked, budget>>
  BY DEF Unlocked, OfCircuit
<1>2. AtOK' /\ OthersOK' /\ Alive' /\ Steady
  BY <1>0, <1>1, CallbackFrame DEF OthersOK
<1>3. /\ cb' \in [Directions -> {"none", "wait", "free", "tail", "stray", "lost"}]
      /\ cb'[d] = "free" /\ \A e \in Directions \ {d} : cb'[e] = cb[e]
  BY <1>0, <1>1 DEF BlocksOK
<1>4. BlocksOK'
  BY <1>0, <1>1, <1>3 DEF BlocksOK
<1>5. Given(d)' = Given(d) /\ (torn => torn')
  BY <1>1, <1>3 DEF Given
<1>6. Sure(d)' => Resetting
  BY <1>1 DEF Sure, CInv, Fine, Apart
<1>7. Fine(d)'
  BY <1>1, <1>5, <1>6, FineGiven
<1> QED BY <1>1, <1>2, <1>3, <1>4, <1>5, <1>7, OneDirection

LEMMA CountedKeeps ==
  ASSUME CInv, NEW d \in Directions, Counted(d) PROVE CInv'
<1>0. AtOK /\ BlocksOK /\ OthersOK /\ io[d] \in Overlapped
  BY Parts DEF BlocksOK
<1>1. /\ cb[d] = "free" /\ cb' = [cb EXCEPT ![d] = "tail"]
      /\ io' = [io EXCEPT ![d].n = @ - 1, ![d].ev = @ \/ io[d].n = 1]
      /\ UNCHANGED <<nb, nw, at, alive, chain, task, line, board, why, linked, torn, budget>>
  BY DEF Counted, OfCircuit
<1>2. AtOK' /\ OthersOK' /\ Alive' /\ Steady
  BY <1>0, <1>1, CallbackFrame DEF OthersOK
<1>3. /\ cb' \in [Directions -> {"none", "wait", "free", "tail", "stray", "lost"}]
      /\ cb'[d] = "tail" /\ \A e \in Directions \ {d} : cb'[e] = cb[e]
  BY <1>0, <1>1 DEF BlocksOK
<1>4. /\ io' \in [Directions -> Overlapped] /\ \A e \in Directions \ {d} : io'[e] = io[e]
      /\ io'[d].buf = io[d].buf /\ io'[d].pend = io[d].pend
      /\ io'[d].n = io[d].n - 1 /\ io'[d].ev = (io[d].ev \/ io[d].n = 1)
  <2>1. /\ io'[d] = [io[d] EXCEPT !.n = @ - 1, !.ev = @ \/ io[d].n = 1]
        /\ \A e \in Directions \ {d} : io'[e] = io[e]
        /\ io' = [e \in Directions |-> io'[e]]
    BY <1>0, <1>1 DEF BlocksOK
  <2>2. io'[d] \in Overlapped
    BY <1>0, <2>1, LessIs
  <2>3. io' \in [Directions -> Overlapped]
    BY <1>0, <2>1, <2>2 DEF BlocksOK
  <2> QED BY <1>0, <2>1, <2>3, LessIs
<1>5. BlocksOK'
  BY <1>0, <1>1, <1>3, <1>4 DEF BlocksOK
<1>6. Sure(d) => Resetting
  BY <1>1 DEF CInv, Fine, Apart
<1>7. Sure(d) => \A u \in Users : at[u] \notin {"begun", "counted"}
  BY <1>0, <1>6 DEF AtOK, Inside, Resetting
<1>8. Fine(d)'
  BY <1>1, <1>3, <1>4, <1>6, <1>7, FineLess
<1> QED BY <1>1, <1>2, <1>3, <1>4, <1>5, <1>8, OneDirection

LEMMA NotedKeeps ==
  ASSUME CInv, NEW d \in Directions, Noted(d) \/ Stray(d) PROVE CInv'
<1>0. BlocksOK /\ OthersOK /\ io[d] \in Overlapped
  BY Parts DEF BlocksOK
<1>1. /\ cb[d] \in {"tail", "stray"} /\ cb' = [cb EXCEPT ![d] = "none"]
      /\ UNCHANGED <<nb, nw, at, alive, chain, line, board, why, linked, torn, budget>>
  BY DEF Noted, Stray
<1>2. PICK off \in BOOLEAN : io' = [io EXCEPT ![d].off = off]
  <2>1. CASE Noted(d)
    <3>1. io' = [io EXCEPT ![d].off = @ \/ why[d] # "done"]
      BY <2>1 DEF Noted
    <3>2. (io[d].off \/ why[d] # "done") \in BOOLEAN
      BY <1>0 DEF Overlapped
    <3> QED BY <3>1, <3>2
  <2>2. CASE Stray(d)
    <3>1. PICK hit \in {why[d] # "done", FALSE} :
            io' = [io EXCEPT ![d].off = @ \/ (hit /\ io[d].buf)]
      BY <2>2 DEF Stray
    <3>2. (io[d].off \/ (hit /\ io[d].buf)) \in BOOLEAN
      BY <1>0 DEF Overlapped
    <3> QED BY <3>1, <3>2
  <2> QED BY <2>1, <2>2
<1>3. task' \in BOOLEAN
  BY <1>0 DEF Noted, Stray, OthersOK
<1>4. AtOK' /\ OthersOK' /\ Alive' /\ Steady
  BY <1>0, <1>1, <1>3, CallbackFrame DEF OthersOK
<1>5. /\ cb' \in [Directions -> {"none", "wait", "free", "tail", "stray", "lost"}]
      /\ cb'[d] = "none" /\ \A e \in Directions \ {d} : cb'[e] = cb[e]
  BY <1>0, <1>1 DEF BlocksOK
<1>6. /\ io' \in [Directions -> Overlapped] /\ \A e \in Directions \ {d} : io'[e] = io[e]
      /\ io'[d].buf = io[d].buf /\ io'[d].pend = io[d].pend
      /\ io'[d].n = io[d].n /\ io'[d].ev = io[d].ev
  BY <1>0, <1>2 DEF BlocksOK, Overlapped
<1>7. BlocksOK'
  BY <1>0, <1>1, <1>5, <1>6 DEF BlocksOK
<1>8. Given(d)' = Given(d)
  BY <1>1, <1>5 DEF Given
<1>9. Fine(d)'
  BY <1>1, <1>5, <1>6, <1>8, FineGiven
<1> QED BY <1>1, <1>4, <1>5, <1>6, <1>7, <1>9, OneDirection

LEMMA LockedKeeps ==
  ASSUME CInv, NEW d \in Directions, Locked(d) PROVE CInv'
<1>0. AtOK /\ BlocksOK /\ OthersOK /\ io[d] \in Overlapped
  BY Parts DEF BlocksOK
<1> DEFINE n    == io[d].n - 1
           over == [io EXCEPT ![d].n = n, ![d].ev = @ \/ n = 0]
           last == [over EXCEPT ![d].off = TRUE]
           left == IF why[d] # "done" THEN last ELSE over
           more == More([io |-> left, board |-> board], d)
<1>1. /\ cb[d] = "wait" /\ ~ io[d].pend /\ nb = "free"
      /\ task' = (task /\ why[d] # "hangup") /\ cb' = [cb EXCEPT ![d] = "none"]
      /\ UNCHANGED <<nb, nw, at, alive, chain, line, why, linked, torn, budget>>
  BY DEF Locked
<1>2. \/ io' = left /\ board' = board
      \/ why[d] = "done" /\ io' = more.io /\ board' = more.board
  <2> DEFINE s == [io |-> over, board |-> board]
             t == IF why[d] # "done" THEN [s EXCEPT !.io[d].off = TRUE] ELSE s
  <2>1. t = [io |-> left, board |-> board]
    OBVIOUS
  <2>2. \E next \in {t} \cup (IF why[d] = "done" THEN {More(t, d)} ELSE {}) :
          io' = next.io /\ board' = next.board
    BY DEF Locked
  <2>3. CASE io' = t.io /\ board' = t.board
    BY <2>1, <2>3
  <2>4. CASE why[d] = "done" /\ io' = More(t, d).io /\ board' = More(t, d).board
    BY <2>1, <2>4
  <2> HIDE DEF t
  <2> QED BY <2>2, <2>3, <2>4
<1>3. /\ left \in [Directions -> Overlapped] /\ \A e \in Directions \ {d} : left[e] = io[e]
      /\ left[d].buf = io[d].buf /\ left[d].pend = io[d].pend
      /\ left[d].n = io[d].n - 1 /\ left[d].ev = (io[d].ev \/ io[d].n = 1)
  <2>1. n \in Int /\ (n = 0 <=> io[d].n = 1) /\ io[d].ev \in BOOLEAN
    BY <1>0 DEF Overlapped
  <2>2. /\ over[d] = [io[d] EXCEPT !.n = n, !.ev = @ \/ n = 0]
        /\ last[d] = [io[d] EXCEPT !.n = n, !.ev = @ \/ n = 0, !.off = TRUE]
        /\ \A e \in Directions \ {d} : over[e] = io[e] /\ last[e] = io[e]
        /\ over = [e \in Directions |-> over[e]] /\ last = [e \in Directions |-> last[e]]
    BY <1>0 DEF BlocksOK
  <2>3. over[d] \in Overlapped /\ last[d] \in Overlapped
    BY <1>0, <2>1, <2>2 DEF Overlapped
  <2>4. over \in [Directions -> Overlapped] /\ last \in [Directions -> Overlapped]
    <3> HIDE DEF over, last
    <3> QED BY <1>0, <2>2, <2>3 DEF BlocksOK
  <2>5. /\ over[d].buf = io[d].buf /\ over[d].pend = io[d].pend
        /\ over[d].n = io[d].n - 1 /\ over[d].ev = (io[d].ev \/ io[d].n = 1)
    <3> HIDE DEF over
    <3> QED BY <1>0, <2>1, <2>2 DEF Overlapped, n
  <2>6. /\ last[d].buf = io[d].buf /\ last[d].pend = io[d].pend
        /\ last[d].n = io[d].n - 1 /\ last[d].ev = (io[d].ev \/ io[d].n = 1)
    <3> HIDE DEF last
    <3> QED BY <1>0, <2>1, <2>2 DEF Overlapped, n
  <2> HIDE DEF over, last
  <2> QED BY <2>2, <2>4, <2>5, <2>6
<1> HIDE DEF left
<1>4. \/ io' = left /\ board' = board
      \/ MayAdd(left, board, d, io', board')
  BY <1>0, <1>2, <1>3, MoreIs DEF BlocksOK
<1>5. /\ io' \in [Directions -> Overlapped] /\ board' \in [Directions -> 0 .. MaxList]
      /\ \A e \in Directions \ {d} : io'[e] = io[e] /\ board'[e] = board[e]
      /\ io'[d].buf = io[d].buf /\ io'[d].pend = io[d].pend
      /\ \/ io'[d].n = left[d].n /\ io'[d].ev = left[d].ev /\ board'[d] = board[d]
         \/ io'[d].n = left[d].n + 1 /\ io'[d].ev = FALSE /\ board'[d] = board[d] + 1
  BY <1>0, <1>3, <1>4 DEF MayAdd, BlocksOK
<1>6. /\ cb' \in [Directions -> {"none", "wait", "free", "tail", "stray", "lost"}]
      /\ cb'[d] = "none" /\ \A e \in Directions \ {d} : cb'[e] = cb[e]
  BY <1>0, <1>1 DEF BlocksOK
<1>7. BlocksOK'
  BY <1>0, <1>1, <1>5, <1>6 DEF BlocksOK
<1>8. AtOK' /\ OthersOK' /\ Alive' /\ Steady
  <2>1. task' \in BOOLEAN
    BY <1>1
  <2> QED BY <1>0, <1>1, <2>1, CallbackFrame DEF OthersOK
<1>9. \A u \in Users : at[u] \notin Inside
  BY <1>0, <1>1 DEF AtOK, Users
<1>10. Fine(d)'
  <2>1. CASE io'[d].n = left[d].n /\ io'[d].ev = left[d].ev /\ board'[d] = board[d]
    <3>1. cb'[d] \notin {"wait", "free"} /\ cb'[d] # "tail" /\ cb[d] \in {"wait", "free"}
      BY <1>1, <1>6
    <3>2. \A u \in Users : at[u] \notin {"begun", "counted"}
      BY <1>9 DEF Inside
    <3> QED BY <1>1, <1>3, <1>5, <2>1, <3>1, <3>2, FineLess
  <2>2. CASE io'[d].n = left[d].n + 1 /\ io'[d].ev = FALSE /\ board'[d] = board[d] + 1
    <3>1. /\ board[d] \in Nat /\ board'[d] \in Nat /\ io[d].n \in Int
          /\ io'[d].n = io[d].n
      BY <1>0, <1>3, <1>5, <2>2, ListNat, BufferIs DEF BlocksOK
    <3>2. Given(d)' = Given(d) /\ Given(d) = board[d] + 1
      BY <1>1, <1>6, <2>2, <3>1 DEF Given
    <3>3. Sure(d)' = Sure(d) /\ (Sure(d) => io[d].buf)
      BY <1>1, <3>1, <3>2 DEF Sure, CInv, Fine, Held
    <3>4. /\ \A u \in Users : at[u] \notin {"begun", "counted"}
          /\ Due(d) = Given(d) /\ Due(d)' = Given(d)'
      BY <1>1, <1>9, <3>1, <3>2 DEF Inside, Due, Beginning
    <3>5. Apart(d)'
      BY <1>1, <1>5, <1>6 DEF CInv, Fine, Apart, Resetting
    <3>6. Begins(d)' /\ Held(d)'
      BY <1>1, <1>5, <3>2, <3>3 DEF CInv, Fine, Begins, Held
    <3>7. Count(d)'
      <4>1. Sure(d)' => io[d].n = Due(d)
        BY <3>3 DEF CInv, Fine, Count
      <4>2. Sure(d)' => io'[d].n = Due(d)' /\ Due(d)' # 0
        BY <3>1, <3>2, <3>4, <4>1
      <4> QED BY <2>2, <4>2 DEF Count
    <3> QED BY <3>5, <3>6, <3>7 DEF Fine
  <2> QED BY <1>5, <2>1, <2>2
<1> QED BY <1>1, <1>5, <1>6, <1>7, <1>8, <1>10, OneDirection

-----------------------------------------------------------------------------
(* Theorems *)

LEMMA InvStep == ASSUME CInv, [Next]_vars PROVE CInv'
<1>1. CASE Bind \/ Enter \/ PutNetworkRing \/ KillLinker \/ HangUp \/ NewCall
  BY <1>1, QuietNeighbour, QuietNetwork
<1>2. ASSUME NEW u \in Users, Visit(u) PROVE CInv'
  BY <1>2, ReplayKeeps, PlaySent, PlayBegins, PlayEnds, ResetEnds DEF Visit
<1>3. CASE OnRun
  <2>1. "neighbour" \in Users
    BY DEF Users
  <2> QED BY <1>2, <1>3, <2>1, QuietNeighbour, ResetBegins, CallStarts, LostForGood,
             RecordKeeps DEF OnRun
<1>4. CASE RunPolling
  <2>1. "network" \in Users
    BY DEF Users
  <2> QED BY <1>2, <1>4, <2>1, QuietNetwork, ResetBegins, CallStarts, LostForGood
          DEF RunPolling
<1>5. CASE \E d \in Directions : BlockDone(d) \/ MemBlockDone(d)
  BY <1>5, DoneKeeps, LockedKeeps, UnlockedKeeps, CountedKeeps, NotedKeeps DEF MemBlockDone
<1>6. CASE UNCHANGED vars
  <2>1. AtOK' /\ OthersOK' /\ Alive' /\ Steady /\ UNCHANGED <<io, OfBoard, torn>>
    BY <1>6, Parts DEF vars, AtOK, OthersOK, Alive, Steady, Resetting, OfBoard
  <2> QED BY <2>1, QuietStep
<1> QED BY <1>1, <1>3, <1>4, <1>5, <1>6 DEF Next

\* The threads, the locks and the blocks of a circuit keep their types: at most one
\* thread is in the circuit, and the board never has more blocks than its list holds.
THEOREM CircuitryTypes == Spec => []TypeOK
<1>1. CInv => TypeOK
  BY InvHolds
<1>2. CInv /\ [Next]_vars => CInv'
  BY InvStep
<1> QED BY <1>1, <1>2, InvInit, PTL DEF Spec

\* The count of a direction is that of the blocks that are to come back, and its event
\* tells whether there are none, whichever thread begins a block or counts one.
THEOREM CountIsTrue == Spec => []BlocksCounted
<1>1. CInv => BlocksCounted
  BY InvHolds
<1>2. CInv /\ [Next]_vars => CInv'
  BY InvStep
<1> QED BY <1>1, <1>2, InvInit, PTL DEF Spec

\* No buffer is freed while the board has a block in it or a callback is to count one:
\* neither Reset nor a new call takes it away.
THEOREM BuffersStay == Spec => []BuffersHeld
<1>1. CInv => BuffersHeld
  BY InvHolds
<1>2. CInv /\ [Next]_vars => CInv'
  BY InvStep
<1> QED BY <1>1, <1>2, InvInit, PTL DEF Spec
=============================================================================
