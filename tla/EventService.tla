---------------------------- MODULE EventService -----------------------------
(***************************************************************************)
(* The event service of the platform kernel                                *)
(* (Platform/KernelManager/EventService.cpp).  Threads set events and      *)
(* cancel them; the thread of the service rings them.  Blocks of memory go *)
(* round: a block waits in the active array, is taken out by the thread    *)
(* that will call its procedure, and goes to the array of free blocks,     *)
(* from which the next event takes it.                                     *)
(*                                                                         *)
(* What a thread does while it holds the section is one step: the section  *)
(* keeps the others out.  GetTickCount is the time modulo Wrap.            *)
(***************************************************************************)
EXTENDS Integers, Sequences, FiniteSets

CONSTANTS Callers,        \* threads that set and cancel events
          Main,           \* the caller that starts and stops the service
          Service,        \* the thread of the service
          Keys,           \* an event code with its reference
          Blocks,         \* blocks of memory
          Delays,         \* after how long events are wanted
          Wrap,           \* GetTickCount counts modulo Wrap
          Nil,            \* no block
          MaxEvents,      \* bound: events
          Horizon,        \* bound: time
          Resets,         \* bound: events ended ahead of their time
          Throws,         \* bound: procedures that throw
          Stops           \* bound: stops of the service

ASSUME ThreadAssumption == Main \in Callers /\ Service \notin Callers
ASSUME ClockAssumption  == /\ Wrap \in Nat \ {0} /\ Delays \subseteq 0 .. Wrap - 1
                           /\ Horizon \in Nat
ASSUME BoundAssumption  == /\ MaxEvents \in Nat /\ Resets \in Nat
                           /\ Throws \in Nat /\ Stops \in Nat

Threads == Callers \union {Service}
Events  == 1 .. MaxEvents

VARIABLES active,         \* m_pEventBlockPtrActive
          release,        \* m_pEventBlockPtrRelease
          memory,         \* what each block holds: an EVENTBLOCK, or Nil
          hand,           \* what each thread does, the block it has taken, and why
          running,        \* m_bThread, and whether the thread runs, has ended, or is none
          section,        \* whether m_pSection still works
          now,            \* the time
          made,           \* events set so far
          calls,          \* how often each event's procedure was called
          lost,           \* blocks no array and no thread has any more
          budget          \* what is left of the bounds

vars == <<active, release, memory, hand, running, section, now, made, calls, lost, budget>>

\* dwTimestamp is the time the event is due modulo Wrap; due is that time.
EventBlock == [key : Keys, proc : BOOLEAN, stamp : 0 .. Wrap - 1, event : Events, due : Nat]

ASSUME BlockAssumption == Nil \notin Blocks /\ Nil \notin EventBlock

Idle == [at |-> "idle", block |-> Nil, why |-> "none"]

Init ==
  /\ active = <<>> /\ release = <<>>
  /\ memory = [b \in Blocks |-> Nil]
  /\ hand = [t \in Threads |-> Idle]
  /\ running = [flag |-> FALSE, thread |-> "none"]
  /\ section = "sound"
  /\ now = 0 /\ made = 0
  /\ calls = [e \in Events |-> 0]
  /\ lost = {}
  /\ budget = [resets |-> Resets, throws |-> Throws, stops |-> Stops]

-----------------------------------------------------------------------------
(* The arrays *)

Elements(s) == {s[i] : i \in DOMAIN s}

\* CAtlArray::RemoveAt keeps the order of the others.
Without(s, i) == [j \in 1 .. Len(s) - 1 |-> IF j < i THEN s[j] ELSE s[j + 1]]

GetTickCount == now % Wrap

\* The first active event with the key, if there is one.
FindEvent(i, key) ==
  /\ i \in DOMAIN active /\ memory[active[i]].key = key
  /\ \A j \in 1 .. i - 1 : memory[active[j]].key # key

\* Mutant: the time must have passed, which the highest count never has.
Expired_Passed(b) == GetTickCount > memory[b].stamp

\* The time of block b has come.
Expired(b) == ~ (GetTickCount < memory[b].stamp)

\* Mutant: the scan runs from the end of the array, as a loop that removes often does.
FirstExpired_Last(i) ==
  /\ i \in DOMAIN active /\ Expired(active[i])
  /\ \A j \in i + 1 .. Len(active) : ~ Expired(active[j])

\* The first active event whose time has come.
FirstExpired(i) ==
  /\ i \in DOMAIN active /\ Expired(active[i])
  /\ \A j \in 1 .. i - 1 : ~ Expired(active[j])

-----------------------------------------------------------------------------
(* What any thread may ask; a procedure that is called may ask it too *)

\* Caller t is in its own code, or thread t is in the procedure of an event.
Free(t) == \/ hand[t].at = "idle" /\ t \in Callers
           \/ hand[t].at = "call"

\* Mutant: the sum of two counts is not cut to their width.
Stamp_Wide(d) == d + GetTickCount

\* dwTimestamp of an event wanted after d.
Stamp(d) == (d + GetTickCount) % Wrap

\* The block at the end of the free ones, or a new one.
NewBlock(b) ==
  IF release # <<>>
    THEN /\ b = release[Len(release)]
         /\ release' = Without(release, Len(release))
    ELSE /\ memory[b] = Nil
         /\ UNCHANGED release

AddEvent(t) ==
  /\ Free(t) /\ section = "sound"
  /\ made < MaxEvents
  /\ \E b \in Blocks, key \in Keys, proc \in BOOLEAN, d \in Delays :
       /\ now + d <= Horizon
       /\ NewBlock(b)
       /\ memory' = [memory EXCEPT ![b] = [key |-> key, proc |-> proc, event |-> made + 1,
                                           stamp |-> Stamp(d), due |-> now + d]]
       /\ active' = Append(active, b)
  /\ made' = made + 1
  /\ UNCHANGED <<hand, running, section, now, calls, lost, budget>>

\* ResetEvent without a reason: the event is dropped.
RemoveEvent(t) ==
  /\ Free(t) /\ section = "sound"
  /\ \E i \in DOMAIN active, key \in Keys :
       /\ FindEvent(i, key)
       /\ release' = Append(release, active[i])
       /\ active' = Without(active, i)
  /\ UNCHANGED <<memory, hand, running, section, now, made, calls, lost, budget>>

\* ResetEvent with a reason: the caller takes the event, unlocks the section and
\* will call the procedure itself.
ResetEvent(t) ==
  /\ t \in Callers /\ hand[t].at = "idle" /\ section = "sound"
  /\ budget.resets > 0
  /\ \E i \in DOMAIN active, key \in Keys :
       /\ FindEvent(i, key)
       /\ active' = Without(active, i)
       /\ hand' = [hand EXCEPT ![t] = [at |-> "taken", block |-> active[i], why |-> "ended"]]
  /\ budget' = [budget EXCEPT !.resets = @ - 1]
  /\ UNCHANGED <<release, memory, running, section, now, made, calls, lost>>

-----------------------------------------------------------------------------
(* OnEventBlock, on the thread that has taken the block *)

\* A caller that ended an event leaves the section once more than it entered it: the
\* section bears that or keeps everyone out from then on, as the system has it.
Leave(t) == IF hand[t].why = "ended" THEN section' \in {section, "stuck"}
            ELSE UNCHANGED section

\* The thread has no block in its hand any more.
Done(t) == hand' = [hand EXCEPT ![t] = Idle]

\* Mutant: the block is given back before the procedure has returned.
Call_GivesBack(t) ==
  /\ hand[t].at = "taken" /\ memory[hand[t].block].proc
  /\ calls' = [calls EXCEPT ![memory[hand[t].block].event] = @ + 1]
  /\ hand' = [hand EXCEPT ![t].at = "call"]
  /\ release' = Append(release, hand[t].block)
  /\ UNCHANGED <<active, memory, running, section, now, made, lost, budget>>

Call(t) ==
  /\ hand[t].at = "taken" /\ memory[hand[t].block].proc
  /\ calls' = [calls EXCEPT ![memory[hand[t].block].event] = @ + 1]
  /\ hand' = [hand EXCEPT ![t].at = "call"]
  /\ UNCHANGED <<active, release, memory, running, section, now, made, lost, budget>>

\* An event without a procedure: the block is not given back.
CallNone(t) ==
  /\ hand[t].at = "taken" /\ ~ memory[hand[t].block].proc
  /\ lost' = lost \union {hand[t].block}
  /\ Done(t) /\ Leave(t)
  /\ UNCHANGED <<active, release, memory, running, now, made, calls, budget>>

\* The procedure returns and the block is given back.
Return(t) ==
  /\ hand[t].at = "call" /\ section = "sound"
  /\ release' = Append(release, hand[t].block)
  /\ Done(t) /\ Leave(t)
  /\ UNCHANGED <<active, memory, running, now, made, calls, lost, budget>>

\* The procedure throws: the thread of the service goes on, without the block.
Throw(t) ==
  /\ hand[t].at = "call" /\ budget.throws > 0
  /\ lost' = lost \union {hand[t].block}
  /\ Done(t) /\ Leave(t)
  /\ budget' = [budget EXCEPT !.throws = @ - 1]
  /\ UNCHANGED <<active, release, memory, running, now, made, calls>>

-----------------------------------------------------------------------------
(* The thread of the service, and its start and stop *)

\* The loop asks for m_bThread, then goes for an event or ends.
Loop ==
  /\ running.thread = "running" /\ hand[Service].at = "idle"
  /\ IF running.flag
       THEN /\ hand' = [hand EXCEPT ![Service].at = "get"]
            /\ UNCHANGED running
       ELSE /\ running' = [running EXCEPT !.thread = "ended"]
            /\ UNCHANGED hand
  /\ UNCHANGED <<active, release, memory, section, now, made, calls, lost, budget>>

GetEventBlock ==
  /\ hand[Service].at = "get" /\ section = "sound"
  /\ \/ \E i \in DOMAIN active :
          /\ FirstExpired(i)
          /\ active' = Without(active, i)
          /\ hand' = [hand EXCEPT ![Service] = [at |-> "taken", block |-> active[i],
                                                why |-> "timeout"]]
     \/ /\ \A i \in DOMAIN active : ~ Expired(active[i])
        /\ hand' = [hand EXCEPT ![Service] = Idle]
        /\ UNCHANGED active
  /\ UNCHANGED <<release, memory, running, section, now, made, calls, lost, budget>>

\* StartThread: nothing while the thread runs.
StartService ==
  /\ hand[Main].at = "idle" /\ running.thread = "none"
  /\ running' = [flag |-> TRUE, thread |-> "running"]
  /\ UNCHANGED <<active, release, memory, hand, section, now, made, calls, lost, budget>>

\* CleanEvent deletes the blocks of both arrays.
CleanEvent ==
  /\ memory' = [b \in Blocks |-> IF b \in Elements(active) \union Elements(release)
                                 THEN Nil ELSE memory[b]]
  /\ active' = <<>> /\ release' = <<>>

\* Mutant: the thread is waited for and not told.
StopService_Untold ==
  /\ hand[Main].at = "idle" /\ budget.stops > 0
  /\ budget' = [budget EXCEPT !.stops = @ - 1]
  /\ IF running.thread = "running"
       THEN /\ hand' = [hand EXCEPT ![Main].at = "stop"]
            /\ UNCHANGED <<active, release, memory, running>>
       ELSE CleanEvent /\ UNCHANGED <<running, hand>>
  /\ UNCHANGED <<section, now, made, calls, lost>>

\* StopService waits for the end of a thread that runs, then cleans up.
StopService ==
  /\ hand[Main].at = "idle" /\ budget.stops > 0
  /\ budget' = [budget EXCEPT !.stops = @ - 1]
  /\ IF running.thread = "running"
       THEN /\ running' = [running EXCEPT !.flag = FALSE]
            /\ hand' = [hand EXCEPT ![Main].at = "stop"]
            /\ UNCHANGED <<active, release, memory>>
       ELSE CleanEvent /\ UNCHANGED <<running, hand>>
  /\ UNCHANGED <<section, now, made, calls, lost>>

Stopped ==
  /\ hand[Main].at = "stop" /\ running.thread = "ended"
  /\ running' = [running EXCEPT !.thread = "none"]
  /\ CleanEvent
  /\ Done(Main)
  /\ UNCHANGED <<section, now, made, calls, lost, budget>>

Tick ==
  /\ now < Horizon
  /\ now' = now + 1
  /\ UNCHANGED <<active, release, memory, hand, running, section, made, calls, lost, budget>>

-----------------------------------------------------------------------------

Handle(t) == Call(t) \/ CallNone(t) \/ Return(t) \/ Throw(t)
Ask(t)    == AddEvent(t) \/ RemoveEvent(t) \/ ResetEvent(t)

Next == \/ \E t \in Threads : Ask(t) \/ Handle(t)
        \/ Loop \/ GetEventBlock \/ StartService \/ StopService \/ Stopped
        \/ Tick

Spec == Init /\ [][Next]_vars

\* Every thread is scheduled, a procedure comes to an end, and time goes on.
Fairness == /\ \A t \in Threads : WF_vars(Handle(t))
            /\ WF_vars(Loop) /\ WF_vars(GetEventBlock) /\ WF_vars(Stopped)
            /\ WF_vars(Tick)

FairSpec == Spec /\ Fairness

-----------------------------------------------------------------------------
(* Properties *)

Hands == {hand[t].block : t \in Threads} \ {Nil}

\* The state has the shape the code gives it: a thread has a block in its hand exactly
\* while it is at OnEventBlock, and the service's thread never ends an event early.
TypeOK ==
  /\ active \in Seq(Blocks) /\ release \in Seq(Blocks)
  /\ memory \in [Blocks -> EventBlock \union {Nil}]
  /\ hand \in [Threads -> [at : {"idle", "get", "stop", "taken", "call"},
                           block : Blocks \union {Nil}, why : {"none", "timeout", "ended"}]]
  /\ \A t \in Threads : (hand[t].block # Nil) <=> (hand[t].at \in {"taken", "call"})
  /\ running \in [flag : BOOLEAN, thread : {"none", "running", "ended"}]
  /\ section \in {"sound", "stuck"}
  /\ now \in 0 .. Horizon /\ made \in 0 .. MaxEvents
  /\ calls \in [Events -> Nat]
  /\ lost \subseteq Blocks
  /\ budget \in [resets : 0 .. Resets, throws : 0 .. Throws, stops : 0 .. Stops]

\* A block never is in two places of an array.
Injective(s) == \A i, j \in DOMAIN s : s[i] = s[j] => i = j

\* A block of memory is in one place: it waits, is free, is in one thread's hand, or
\* is lost.  So no event is taken twice, no block is reused while a procedure may
\* still look at it, and none is deleted that a thread still has
\* (_AddEvent_, _RemoveEvent_, GetEventBlock, OnEventBlock, CleanEvent).
OnePlace ==
  /\ Injective(active) /\ Injective(release)
  /\ \A t, u \in Threads : hand[t].block = hand[u].block /\ hand[t].block # Nil => t = u
  /\ Elements(active) \intersect (Elements(release) \union Hands \union lost) = {}
  /\ Elements(release) \intersect (Hands \union lost) = {}
  /\ Hands \intersect lost = {}
  /\ {b \in Blocks : memory[b] # Nil}
       = Elements(active) \union Elements(release) \union Hands \union lost

\* The event in block b.
EventIn(b) == [event |-> memory[b].event, due |-> memory[b].due, call |-> memory[b].proc]

Taken == {t \in Threads : hand[t].at = "taken"}

Alarms == INSTANCE Alarm
            WITH waiting <- {EventIn(b) : b \in Elements(active)},
                 ringing <- {[of |-> EventIn(hand[t].block), why |-> hand[t].why] : t \in Taken}

\* The service keeps the promise of Alarm: an event is called once, when it is due and
\* in the order of age, or when someone ends it; never when it was cancelled first.
KeepsPromise == Alarms!Spec

Waits(e) == \E b \in Elements(active) : memory[b].event = e

\* While the service runs no event waits for ever: it is taken or dropped in the end,
\* whatever the others do and throw, even across a wrap of the clock.
EventsRing == \A e \in Events : (Waits(e) /\ running.thread = "running") ~> ~ Waits(e)

\* StopService comes to an end: the thread it waits for leaves its loop.
StopReturns == (hand[Main].at = "stop") ~> (hand[Main].at = "idle")

=============================================================================
