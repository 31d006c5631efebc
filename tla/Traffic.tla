------------------------------- MODULE Traffic -------------------------------
(***************************************************************************)
(* The second thread of Xcenter (CTraffic): it calls users back and calls  *)
(* the members of a meeting, on lines it takes under the lock of CNetwork. *)
(* CNetwork's thread notes the call backs in the same map without a lock   *)
(* of the map's own: it holds the lock of CNetwork, and CTraffic's thread  *)
(* reads the map before it has that lock.                                  *)
(*                                                                         *)
(* An entry of the map is linked into it before its packet is set          *)
(* (CMap::SetAt), so that the reader may see it empty.                     *)
(***************************************************************************)
EXTENDS Integers, Sequences, FiniteSets, SequencesExt

CONSTANTS Requests,      \* callers who are promised a call back
          Members,       \* phones of a meeting (rows of xmeetingroom)
          Lines,         \* outgoing lines
          Denied,        \* requests whose number Profiles.IsDenied refuses
          Interval,      \* Trunk/CallBackOut, in seconds
          None,          \* no request, no member
          MaxTime,       \* bound: seconds
          Lag,           \* bound: seconds a thread may be away inside AddUsrBack
          Slow,          \* bound: times CNetwork's thread keeps its lock for 250 ms
          Seizes,        \* bound: lines taken by others
          Faults,        \* bound: errors of the database
          Missing        \* bound: calls to one member PagerLibrary cannot make

ASSUME NoneAssumption   == None \notin Requests \union Members
ASSUME DeniedAssumption == Denied \subseteq Requests
ASSUME NatAssumption    == {Interval, MaxTime, Lag, Slow, Seizes, Faults, Missing} \subseteq Nat
ASSUME LagAssumption    == Lag < Interval
\* Callers and phones are counted by one function (rung); a table has finitely many rows.
ASSUME RowsAssumption   == Requests \cap Members = {} /\ IsFiniteSet(Members)

Times == 0 .. MaxTime

VARIABLES now,           \* the time
          backs,         \* m_pUsrBacks: the request under each key, None while it is empty
          asked,         \* requests noted so far
          adder,         \* AddUsrBack: where it is, its key and request, how long it takes
          lock,          \* Network.m_pSection: who has it
          idle,          \* lines in S_CALL_STANDBY
          at,            \* where CTraffic's thread is
          todo,          \* keys of the map its round has not come to
          got,           \* the key and the packet it has read
          state,         \* xmeetingphonestate of each member ("2", who has answered, is
                         \* not told from "1")
          rows,          \* members the record set has not come to
          rung,          \* how often each request and member was called
          missed,        \* how often PagerLibrary made no call for a member
          faults,        \* failed updates of each member's row
          budget         \* what is left of the bounds

vars == <<now, backs, asked, adder, lock, idle, at, todo, got, state, rows, rung, missed, faults,
          budget>>

NoAdder == [at |-> "out", key |-> 0, req |-> None, lag |-> 0]
Nothing == [key |-> 0, req |-> None]

Init ==
  /\ now = 0
  /\ backs = [t \in {} |-> None] /\ asked = {}
  /\ adder = NoAdder
  /\ lock = "free"
  /\ idle = Lines
  /\ at = "wait" /\ todo = {} /\ got = Nothing
  /\ state = [m \in Members |-> "0"] /\ rows = <<>>
  /\ rung = [p \in Requests \union Members |-> 0]
  /\ missed = [m \in Members |-> 0] /\ faults = [m \in Members |-> 0]
  /\ budget = [slow |-> Slow, seizes |-> Seizes, faults |-> Faults]

With(key, req) == [t \in DOMAIN backs \union {key} |-> IF t = key THEN req ELSE backs[t]]
Removed(key)   == [t \in DOMAIN backs \ {key} |-> backs[t]]

OfBacks   == <<backs, asked, adder>>
OfThread  == <<at, todo, got>>
OfMeeting == <<state, rows, missed, faults>>

-----------------------------------------------------------------------------
(* CNetwork's thread: it has its lock while it polls and runs the channels *)

NetworkLock ==
  /\ lock = "free" /\ lock' = "network"
  /\ UNCHANGED <<now, OfBacks, idle, OfThread, OfMeeting, rung, budget>>

NetworkUnlock ==
  /\ lock = "network" /\ adder = NoAdder
  /\ lock' = "free"
  /\ UNCHANGED <<now, OfBacks, idle, OfThread, OfMeeting, rung, budget>>

\* Mutants: the entry is due at once; the key is not looked up first.
FreeKey_Now(key)   == key \in Times \ DOMAIN backs /\ key >= now
FreeKey_Taken(key) == key \in Times /\ key = now + Interval

\* The first free second from Interval on.
FreeKey(key) == /\ key \in Times \ DOMAIN backs /\ key >= now + Interval
                /\ \A t \in now + Interval .. key - 1 : t \in DOMAIN backs

\* AddUsrBack of the network thread, for a caller who has hung up.
AddUsrBack ==
  /\ lock = "network" /\ adder.at = "out"
  /\ \E r \in Requests \ asked, key \in Times :
       /\ FreeKey(key)
       /\ adder' = [at |-> "link", key |-> key, req |-> r, lag |-> 0]
       /\ asked' = asked \union {r}
  /\ UNCHANGED <<now, backs, lock, idle, OfThread, OfMeeting, rung, budget>>

\* SetAt links the new entry, at the head of its chain, ...
Link ==
  /\ adder.at = "link"
  /\ backs' = With(adder.key, None)
  /\ todo' \in IF at = "scan" THEN {todo, todo \union {adder.key}} ELSE {todo}
  /\ adder' = [adder EXCEPT !.at = "fill"]
  /\ UNCHANGED <<now, asked, lock, idle, at, got, OfMeeting, rung, budget>>

\* ... and then sets its value.
Fill ==
  /\ adder.at = "fill"
  /\ backs' = With(adder.key, adder.req)
  /\ adder' = NoAdder
  /\ UNCHANGED <<now, asked, lock, idle, OfThread, OfMeeting, rung, budget>>

-----------------------------------------------------------------------------
(* OnRunUsrBack *)

\* Mutant: the thread waits for m_pWakeup alone.
Wakeup_NoTimeout ==
  /\ at = "wait" /\ DOMAIN backs # {} /\ at' = "scan" /\ todo' = DOMAIN backs
  /\ UNCHANGED <<now, OfBacks, lock, idle, got, OfMeeting, rung, budget>>

\* m_pWakeup or six seconds: a round begins.
Wakeup ==
  /\ at = "wait" /\ at' = "scan" /\ todo' = DOMAIN backs
  /\ UNCHANGED <<now, OfBacks, lock, idle, got, OfMeeting, rung, budget>>

\* The next entry, in the order of the map: it is read without a lock.
Read ==
  /\ at = "scan"
  /\ \E key \in todo :
       /\ todo' = todo \ {key}
       /\ IF key > now THEN UNCHANGED <<at, got>>
          ELSE at' = "lock" /\ got' = [key |-> key, req |-> backs[key]]
  /\ UNCHANGED <<now, OfBacks, lock, idle, OfMeeting, rung, budget>>

ReadAll ==
  /\ at = "scan" /\ todo = {} /\ at' = "meeting"
  /\ UNCHANGED <<now, OfBacks, lock, idle, todo, got, OfMeeting, rung, budget>>

Lock ==
  /\ at = "lock" /\ lock = "free"
  /\ lock' = "traffic" /\ at' = "dial"
  /\ UNCHANGED <<now, OfBacks, idle, todo, got, OfMeeting, rung, budget>>

\* 250 ms have passed: the round is over.
GiveUp ==
  /\ at = "lock" /\ lock = "network" /\ budget.slow > 0
  /\ at' = "meeting" /\ todo' = {} /\ got' = Nothing
  /\ budget' = [budget EXCEPT !.slow = @ - 1]
  /\ UNCHANGED <<now, OfBacks, lock, idle, OfMeeting, rung>>

\* LookOutPhs finds a line, OnDialPacket orders the call, the entry is removed.
Dial ==
  /\ at = "dial" /\ got.req \notin Denied
  /\ \E l \in idle : idle' = idle \ {l}
  /\ rung' = [rung EXCEPT ![got.req] = @ + 1]
  /\ backs' = Removed(got.key)
  /\ lock' = "free" /\ at' = "meeting" /\ todo' = {} /\ got' = Nothing
  /\ UNCHANGED <<now, asked, adder, OfMeeting, budget>>

\* Mutants: the lock is kept on this way out; the entry is removed whether or
\* not there was a line.
DialNone_Locked ==
  /\ at = "dial" /\ (idle = {} \/ got.req \in Denied)
  /\ at' = "meeting" /\ todo' = {} /\ got' = Nothing
  /\ UNCHANGED <<now, OfBacks, lock, idle, OfMeeting, rung, budget>>

DialNone_Drops ==
  /\ at = "dial" /\ (idle = {} \/ got.req \in Denied)
  /\ backs' = Removed(got.key)
  /\ lock' = "free" /\ at' = "meeting" /\ todo' = {} /\ got' = Nothing
  /\ UNCHANGED <<now, asked, adder, idle, OfMeeting, rung, budget>>

\* LookOutPhs finds none: the entry stays and the round is over.
DialNone ==
  /\ at = "dial" /\ (idle = {} \/ got.req \in Denied)
  /\ lock' = "free" /\ at' = "meeting" /\ todo' = {} /\ got' = Nothing
  /\ UNCHANGED <<now, OfBacks, idle, OfMeeting, rung, budget>>

-----------------------------------------------------------------------------
(* OnRunMeeting *)

\* The members that were not called yet; a record set that was left in the middle is
\* gone on with.
Requery ==
  /\ at = "meeting" /\ at' = "row"
  /\ rows' = IF rows # <<>> THEN rows ELSE SetToSeq({m \in Members : state[m] = "0"})
  /\ UNCHANGED <<now, OfBacks, lock, idle, todo, got, state, missed, faults, rung, budget>>

LastRow ==
  /\ at = "row" /\ rows = <<>> /\ at' = "wait"
  /\ UNCHANGED <<now, OfBacks, lock, idle, todo, got, OfMeeting, rung, budget>>

\* LookOutPhs seizes a line for the member of the row.
TakeLine ==
  /\ at = "row" /\ rows # <<>> /\ lock = "free"
  /\ \E l \in idle : idle' = idle \ {l}

\* PagerLibrary: xmeetchannel.dll calls the member; or the DLL is not there, or has no
\* PagerFrom, and nobody does.
PagerLibrary(m) ==
  \/ rung' = [rung EXCEPT ![m] = @ + 1] /\ UNCHANGED missed
  \/ /\ missed[m] < Missing
     /\ missed' = [missed EXCEPT ![m] = @ + 1] /\ UNCHANGED rung

\* The row is updated, whatever PagerLibrary returned.
CallMember ==
  /\ TakeLine /\ PagerLibrary(Head(rows))
  /\ state' = [state EXCEPT ![Head(rows)] = "1"]
  /\ rows' = Tail(rows)
  /\ UNCHANGED <<now, OfBacks, lock, OfThread, faults, budget>>

\* Mutant: the row is updated whether or not there was a line.
NoLine_Marks ==
  /\ at = "row" /\ rows # <<>> /\ lock = "free" /\ idle = {}
  /\ state' = [state EXCEPT ![Head(rows)] = "1"]
  /\ rows' = Tail(rows)
  /\ UNCHANGED <<now, OfBacks, lock, idle, OfThread, missed, faults, rung, budget>>

\* No line: the member has to wait for the next query.
NoLine ==
  /\ at = "row" /\ rows # <<>> /\ lock = "free" /\ idle = {}
  /\ rows' = Tail(rows)
  /\ UNCHANGED <<now, OfBacks, lock, idle, OfThread, state, missed, faults, rung, budget>>

\* The update throws when PagerLibrary is done: the round is over, and the next one
\* begins at the same row.
UpdateThrows ==
  /\ budget.faults > 0 /\ TakeLine /\ PagerLibrary(Head(rows))
  /\ faults' = [faults EXCEPT ![Head(rows)] = @ + 1]
  /\ at' = "wait"
  /\ budget' = [budget EXCEPT !.faults = @ - 1]
  /\ UNCHANGED <<now, OfBacks, lock, todo, got, state, rows>>

\* The query throws, or a field of the row does before a line is taken, or (the number
\* of the room, a fee number that is NULL) when one is and nobody was called on it.
ReadThrows ==
  /\ budget.faults > 0
  /\ \/ at = "meeting" /\ rows = <<>> /\ UNCHANGED idle
     \/ at = "row" /\ rows # <<>> /\ UNCHANGED idle
     \/ TakeLine
  /\ at' = "wait"
  /\ budget' = [budget EXCEPT !.faults = @ - 1]
  /\ UNCHANGED <<now, OfBacks, lock, todo, got, OfMeeting, rung>>

-----------------------------------------------------------------------------
(* Lines and time *)

Seize ==
  /\ budget.seizes > 0
  /\ \E l \in idle : idle' = idle \ {l}
  /\ budget' = [budget EXCEPT !.seizes = @ - 1]
  /\ UNCHANGED <<now, OfBacks, lock, OfThread, OfMeeting, rung>>

\* A call is over, or the login of an object that was seized for nobody (LoginEnds of
\* Channel).
HangUp ==
  /\ \E l \in Lines \ idle : idle' = idle \union {l}
  /\ UNCHANGED <<now, OfBacks, lock, OfThread, OfMeeting, rung, budget>>

Tick ==
  /\ now < MaxTime /\ (adder # NoAdder => adder.lag < Lag)
  /\ now' = now + 1
  /\ adder' = IF adder = NoAdder THEN adder ELSE [adder EXCEPT !.lag = @ + 1]
  /\ UNCHANGED <<backs, asked, lock, idle, OfThread, OfMeeting, rung, budget>>

-----------------------------------------------------------------------------

NetworkThread == NetworkLock \/ NetworkUnlock \/ AddUsrBack \/ Link \/ Fill

UsrBack == Wakeup \/ Read \/ ReadAll \/ Lock \/ GiveUp \/ Dial \/ DialNone
Meeting == Requery \/ LastRow \/ CallMember \/ NoLine \/ UpdateThrows \/ ReadThrows

Next == NetworkThread \/ UsrBack \/ Meeting \/ Seize \/ HangUp \/ Tick

Spec == Init /\ [][Next]_vars

\* Both threads are scheduled; who waits for the mutex gets it now and then, though the
\* other takes it again and again; calls come to an end and time goes on.
Fairness ==
  /\ WF_vars(NetworkUnlock) /\ WF_vars(Link) /\ WF_vars(Fill)
  /\ WF_vars(UsrBack) /\ SF_vars(Lock)
  /\ WF_vars(Requery) /\ WF_vars(LastRow) /\ SF_vars(CallMember \/ NoLine)
  /\ WF_vars(HangUp) /\ WF_vars(Tick)

FairSpec == Spec /\ Fairness

-----------------------------------------------------------------------------
(* Properties *)

TypeOK ==
  /\ now \in Times
  /\ DOMAIN backs \subseteq Times /\ \A t \in DOMAIN backs : backs[t] \in Requests \union {None}
  /\ asked \subseteq Requests
  /\ adder \in [at : {"out", "link", "fill"}, key : Times,
                req : Requests \union {None}, lag : 0 .. Lag]
  /\ lock \in {"free", "network", "traffic"} /\ (lock = "traffic" <=> at = "dial")
  /\ idle \subseteq Lines
  /\ at \in {"wait", "scan", "lock", "dial", "meeting", "row"}
  /\ todo \subseteq DOMAIN backs
  /\ got \in [key : Times, req : Requests \union {None}]
  /\ state \in [Members -> {"0", "1"}]
  /\ \A i \in DOMAIN rows : rows[i] \in Members
  /\ rung \in [Requests \union Members -> Nat]
  /\ missed \in [Members -> 0 .. Missing] /\ faults \in [Members -> Nat]
  /\ budget \in [slow : 0 .. Slow, seizes : 0 .. Seizes, faults : 0 .. Faults]

\* What CTraffic's thread read without the lock still holds when it has it: the entry
\* is there, with the packet it has read, and the packet is not empty (OnRunUsrBack).
ReadHolds ==
  at \in {"lock", "dial"} => /\ got.req # None
                             /\ got.key \in DOMAIN backs /\ backs[got.key] = got.req

\* A caller who is owed a call back is owed one call: he is in the map once, or about to
\* be, until he is called, and no second entry has driven out his.
OwedOnce ==
  \A r \in Requests :
    rung[r] + Cardinality({t \in DOMAIN backs : backs[t] = r})
            + (IF adder.req = r THEN 1 ELSE 0) = IF r \in asked THEN 1 ELSE 0

\* PagerLibrary is asked to call a member a second time only when the update of his row
\* has failed, and a row is marked only when it was asked, though the call comes before the
\* update and a round can end in between or with a line taken for nobody (OnRunMeeting).
CalledOnce ==
  \A m \in Members : rung[m] + missed[m] = faults[m] + (IF state[m] = "1" THEN 1 ELSE 0)

\* Who is promised a call back is called, as long as no call back to a denied number
\* stands in the way of the others.
CallBackMade ==
  \A r \in Requests \ Denied : (r \in asked) ~> (rung[r] > 0 \/ asked \cap Denied # {})

\* The members of a meeting are all called in the end, but for those PagerLibrary finds
\* no plug-in for: their rows are marked too (OnRunMeeting does not look at what
\* PagerLibrary returns), and the query finds them no more.
MeetingCalled == \A m \in Members : <>(rung[m] > 0 \/ missed[m] > 0)

=============================================================================
