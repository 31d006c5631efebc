-------------------------------- MODULE Alarm --------------------------------
(***************************************************************************)
(* What the event service promises whoever sets an event.  An event waits, *)
(* is taken, and is called once if it has a procedure.  It is taken when   *)
(* its time has come and no older event is due, or when someone ends it    *)
(* ahead of time.  While it waits it can be cancelled, and a cancelled     *)
(* event is never called.  Only a wrap of the clock makes an event early,  *)
(* or lets a younger one go first.                                         *)
(***************************************************************************)
EXTENDS Integers

CONSTANTS Events,        \* events by number, in the order they are set
          Wrap           \* the clock is read modulo Wrap

VARIABLES now,           \* the time
          made,          \* how many events were set
          waiting,       \* events that wait
          ringing,       \* events that are taken and not called yet, and why
          calls          \* how often each event was called

Init == /\ now = 0 /\ made = 0
        /\ waiting = {} /\ ringing = {}
        /\ calls = [e \in Events |-> 0]

Set == /\ made' = made + 1
       /\ \E d \in 0 .. Wrap - 1, call \in BOOLEAN :
            waiting' = waiting \union {[event |-> made', due |-> now + d, call |-> call]}
       /\ UNCHANGED <<now, ringing, calls>>

\* A wrap of the clock lies between two instants.
Wrapped(early, late) == early \div Wrap < late \div Wrap

Timeout(w) ==
  /\ now >= w.due \/ Wrapped(now, w.due)
  /\ \A v \in waiting : v.event < w.event => now < v.due \/ Wrapped(v.due, now)

Take == \E w \in waiting, why \in {"timeout", "ended"} :
          /\ why = "timeout" => Timeout(w)
          /\ waiting' = waiting \ {w}
          /\ ringing' = ringing \union {[of |-> w, why |-> why]}
          /\ UNCHANGED <<now, made, calls>>

Call == \E r \in ringing :
          /\ ringing' = ringing \ {r}
          /\ calls' = IF r.of.call THEN [calls EXCEPT ![r.of.event] = @ + 1] ELSE calls
          /\ UNCHANGED <<now, made, waiting>>

Cancel == /\ waiting' \subseteq waiting
          /\ UNCHANGED <<now, made, ringing, calls>>

Tick == now' > now /\ UNCHANGED <<made, waiting, ringing, calls>>

Next == Set \/ Take \/ Call \/ Cancel \/ Tick

Spec == Init /\ [][Next]_<<now, made, waiting, ringing, calls>>
=============================================================================
