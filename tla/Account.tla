------------------------------- MODULE Account -------------------------------
(***************************************************************************)
(* What the billing server promises the users and the company.  Every call *)
(* has a bill; it is open while the call is billed.  A unit of a running   *)
(* call is paid ahead from what its user has, or the call ends; only the   *)
(* end of a call may take what is not there.  A step touches one bill and  *)
(* the money of that bill's user.  What a call has come to is kept when it *)
(* ends, and that is what a bill falls back to when the server fails.      *)
(***************************************************************************)
(* A bill may be opened again, and then counts anew: a line that says TALK *)
(* after a BIND that was refused talks on at the old call's record.        *)
(***************************************************************************)
EXTENDS Integers, Sequences

CONSTANTS Payers, Start      \* users, and what each has at first

VARIABLES credit,            \* what each user has
          bills              \* per call: its user, its amount, whether it is open, and
                             \* the amount kept of it

Init == credit = Start /\ bills = <<>>

\* What bill i rises by in this step.
Rise(i) == bills'[i].amount - bills[i].amount

\* Bill i is the only one that changes.
Only(i) == /\ DOMAIN bills \subseteq DOMAIN bills'
           /\ \A j \in DOMAIN bills \ {i} : bills'[j] = bills[j]
           /\ bills'[i].user = bills[i].user

\* The rise is taken from the user, or, when it is a fall, given back or lost.
FromUser(i) == \/ credit' = [credit EXCEPT ![bills[i].user] = @ - Rise(i)]
               \/ Rise(i) < 0 /\ credit' = credit

\* At most one bill is added: the call has gone on to another service.
AtMostOneMore == \/ Len(bills') = Len(bills)
                 \/ /\ Len(bills') = Len(bills) + 1
                    /\ bills'[Len(bills')].amount = 0 /\ bills'[Len(bills')].kept = 0
                    /\ ~ bills'[Len(bills')].open

Open == /\ Len(bills') = Len(bills) + 1 /\ AtMostOneMore
        /\ \A i \in DOMAIN bills : bills'[i] = bills[i]
        /\ credit' = credit

\* The call begins, or goes on: it is paid for ahead.
Run(i) == /\ bills'[i].open /\ Len(bills') = Len(bills) /\ Only(i)
          /\ Rise(i) # 0 => Rise(i) <= credit[bills[i].user]
          /\ FromUser(i) /\ bills'[i].kept = bills[i].kept

Finish(i) == /\ ~ bills'[i].open /\ AtMostOneMore /\ Only(i)
             /\ FromUser(i) /\ bills'[i].kept = bills'[i].amount

\* The server stops without notice: no bill stays open, and what was not kept of those
\* that were is lost; a closed bill has its amount kept.
Fail == /\ credit' = credit
        /\ Len(bills') = Len(bills)
        /\ \A i \in DOMAIN bills :
             /\ bills'[i] = [bills[i] EXCEPT !.open = FALSE, !.amount = bills[i].kept]
             /\ ~ bills[i].open => bills[i].amount = bills[i].kept

Next == Open \/ Fail \/ \E i \in DOMAIN bills : Run(i) \/ Finish(i)

Spec == Init /\ [][Next]_<<credit, bills>>
=============================================================================
