------------------------------ MODULE MCMaster -------------------------------
(* xmaster with few users, lines and seconds; the configurations choose. *)
EXTENDS Master

\* Two users; the first has paid in advance, for less than both tariffs together cost.
TwoUsers   == {"ann", "ben"}
SomeAhead  == [u \in TwoUsers |-> IF u = "ann" THEN 4 ELSE 0]
SomeCredit == [u \in TwoUsers |-> IF u = "ann" THEN 0 ELSE 3]

PerUnit == [rule |-> 2, fee |-> 1, fixed |-> 9, callback |-> FALSE]
Capped  == [rule |-> 1, fee |-> 2, fixed |-> 2, callback |-> TRUE]

Bind(payer, remote, local, kind, fee, hash) ==
  [cmd |-> "bind", payer |-> payer, remote |-> remote, local |-> local,
   kind |-> kind, fee |-> fee, hash |-> hash]

\* Callers who pay themselves, and call numbers of two tariffs, or none.
Callers == {Bind(None, "ann", None, "CATK", PerUnit, FALSE),
            Bind(None, "ann", None, "CATK", Capped, FALSE),
            Bind(None, "ben", None, "CATK", PerUnit, TRUE)}

\* A leg dialled at ann's expense, whose callee then goes on to a service of his own;
\* ben is not in the database.
BothAhead == [u \in TwoUsers |-> 9]
NoCredit  == [u \in TwoUsers |-> 0]
Pagers == {Bind("ann", "ben", None, "CAHK", PerUnit, FALSE),
           Bind("ann", "ben", None, "CATK", PerUnit, TRUE)}
OnlyAnn == {"ann"}
=============================================================================
