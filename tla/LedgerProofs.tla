---------------------------- MODULE LedgerProofs -----------------------------
(***************************************************************************)
(* xmaster keeps what Account promises, for any number of connections,     *)
(* users and calls, as long as the database answers and all the calls of a *)
(* line are at the expense of one user, a caller's at his own.             *)
(***************************************************************************)
EXTENDS MasterProofs, FiniteSetTheorems

\* When the books are right.  With a fault a record is written and its user's row is
\* not.  The other two say that all the calls of a line are at the expense of one user,
\* and that a caller's are at his own: otherwise a channel comes to hold the row of
\* someone else than its record's user.
Plain == /\ Faults = 0
         /\ \A p, q \in Binds : p.remote = q.remote => Payer(p) = Payer(q)
         /\ \A p \in Binds : p.kind = "CATK" => Payer(p) = p.remote

\* Whose expense the calls of a line are at, if the database knows him.
Bearer(u) == Lookup(Payer(CHOOSE p \in Binds : p.remote = u))

\* What is so of a channel whenever its visit begins or ends: a call is billed to who
\* bears the expense of its line; who has not called has sent nothing.
Mine(c, w) ==
  /\ ~ w.thrown
  /\ w.k.nav => w.k.conn
  /\ w.k.rec # 0 => w.k.usr = Bearer(party[c]) /\ w.recs[w.k.rec].usr = Bearer(party[c])
  /\ \A i \in DOMAIN w.in : w.in[i].cmd = "bind" => w.in[i].remote = party[c]
  /\ c \in Listed => w.client # "none"
  /\ w.client = "none" => w.in = <<>>

AllMine == \A c \in Conns : Mine(c, World(c))

\* A connection that waits to be accepted has nothing of an earlier one.
Unused == \A c \in Conns \ Listed : chan[c] = NewChannel

\* What a call has come to is saved unless the call goes on.
Saved == \A i \in DOMAIN recs : recs[i].exp # recs[i].saved => OpenBill(i)

LInv == /\ MInv /\ budget.faults = 0
        /\ AllMine /\ Unused /\ Saved

-----------------------------------------------------------------------------
(* Sums *)

\* A set of natural numbers has a least one.
LEMMA LeastNumber ==
  ASSUME NEW T, T \subseteq Nat, T # {}
  PROVE  \E n \in T : \A m \in T : ~ (m < n)
<1>1. PICK n \in T : \A m \in T : ~ (<<m, n>> \in OpToRel(<, Nat))
  BY WFMin, NatLessThanWellFounded
<1> QED BY <1>1 DEF OpToRel

\* Induction, said of a set.
LEMMA AllNumbers ==
  ASSUME NEW G, 0 \in G, \A n \in Nat : n \in G => n + 1 \in G
  PROVE  Nat \subseteq G
<1> SUFFICES ASSUME Nat \ G # {} PROVE FALSE
  OBVIOUS
<1>1. PICK n \in Nat \ G : \A m \in Nat \ G : ~ (m < n)
  BY LeastNumber
<1>2. n - 1 \in Nat /\ n - 1 < n /\ (n - 1) + 1 = n
  BY <1>1
<1>3. n - 1 \in G
  BY <1>1, <1>2
<1> QED BY <1>1, <1>2, <1>3

\* The sums SumFunction is defined by: over every set of indices, the sum without the
\* index that is chosen, and that one's value.
AnyOf(s) == CHOOSE x \in s : TRUE
SumStep(f, g, s) == IF s = {} THEN 0 ELSE f[AnyOf(s)] + g[s \ {AnyOf(s)}]
Sums(f, g) == g = [s \in SUBSET DOMAIN f |-> SumStep(f, g, s)]
SumsUpTo(f, g, n) ==
  \A s \in SUBSET DOMAIN f : Cardinality(s) <= n => g[s] = SumStep(f, g, s)

LEMMA Smaller ==
  ASSUME NEW s, IsFiniteSet(s), NEW x \in s
  PROVE  /\ IsFiniteSet(s \ {x}) /\ Cardinality(s) \in Nat /\ Cardinality(s) # 0
         /\ Cardinality(s \ {x}) = Cardinality(s) - 1
<1>1. Cardinality(s) \in Nat /\ IsFiniteSet(s \ {x})
      /\ Cardinality(s \ {x}) = Cardinality(s) - 1
  BY FS_CardinalityType, FS_RemoveElement
<1>2. Cardinality(s \ {x}) \in Nat
  BY <1>1, FS_CardinalityType
<1> QED BY <1>1, <1>2

LEMMA SumsExist ==
  ASSUME NEW f, IsFiniteSet(DOMAIN f) PROVE \E g : Sums(f, g)
<1> DEFINE G == {n \in Nat : \E g : SumsUpTo(f, g, n)}
           N == Cardinality(DOMAIN f)
<1>1. \A s \in SUBSET DOMAIN f : IsFiniteSet(s) /\ Cardinality(s) \in Nat /\ Cardinality(s) <= N
  BY FS_Subset, FS_CardinalityType
<1>2. ASSUME NEW n \in Nat, NEW g, n = 0 \/ SumsUpTo(f, g, n - 1)
      PROVE  SumsUpTo(f, [s \in SUBSET DOMAIN f |-> SumStep(f, g, s)], n)
  <2> DEFINE h == [s \in SUBSET DOMAIN f |-> SumStep(f, g, s)]
  <2> SUFFICES ASSUME NEW s \in SUBSET DOMAIN f, Cardinality(s) <= n
               PROVE  h[s] = SumStep(f, h, s)
    BY DEF SumsUpTo
  <2>1. CASE s = {}
    BY <2>1 DEF SumStep
  <2>2. CASE s # {}
    <3> DEFINE t == s \ {AnyOf(s)}
    <3>1. AnyOf(s) \in s
      BY <2>2 DEF AnyOf
    <3>2. t \in SUBSET DOMAIN f /\ Cardinality(t) <= n - 1 /\ n # 0
      BY <1>1, <3>1, Smaller
    <3>3. g[t] = h[t]
      BY <1>2, <3>2 DEF SumsUpTo
    <3> QED BY <2>2, <3>3 DEF SumStep
  <2> QED BY <2>1, <2>2
<1>3. 0 \in G
  BY <1>2, 0 \in Nat
<1>4. \A n \in Nat : n \in G => n + 1 \in G
  <2> SUFFICES ASSUME NEW n \in Nat, NEW g, SumsUpTo(f, g, n) PROVE n + 1 \in G
    OBVIOUS
  <2>1. n + 1 \in Nat /\ (n + 1) - 1 = n
    OBVIOUS
  <2>2. SumsUpTo(f, [s \in SUBSET DOMAIN f |-> SumStep(f, g, s)], n + 1)
    BY <1>2, <2>1
  <2> QED BY <2>1, <2>2
<1>5. N \in Nat /\ Nat \subseteq G
  BY <1>1, <1>3, <1>4, AllNumbers
<1>6. PICK g : SumsUpTo(f, g, N)
  BY <1>5
<1> DEFINE h == [s \in SUBSET DOMAIN f |-> SumStep(f, g, s)]
<1>7. \A s \in SUBSET DOMAIN f : h[s] = SumStep(f, h, s)
  <2> SUFFICES ASSUME NEW s \in SUBSET DOMAIN f PROVE h[s] = SumStep(f, h, s)
    OBVIOUS
  <2>1. \A t \in SUBSET DOMAIN f : g[t] = h[t]
    BY <1>1, <1>6 DEF SumsUpTo
  <2>2. s # {} => s \ {AnyOf(s)} \in SUBSET DOMAIN f
    OBVIOUS
  <2> QED BY <2>1, <2>2 DEF SumStep
<1>8. Sums(f, h)
  <2> HIDE DEF h
  <2>1. h = [s \in SUBSET DOMAIN f |-> h[s]]
    BY DEF h
  <2> QED BY <1>7, <2>1 DEF Sums
<1> QED BY <1>8

LEMMA SumIs ==
  ASSUME NEW f, IsFiniteSet(DOMAIN f)
  PROVE  \E g : Sums(f, g) /\ SumFunction(f) = g[DOMAIN f]
<1>1. SumFunction(f) = (CHOOSE g : Sums(f, g))[DOMAIN f]
  BY DEF SumFunction, SumFunctionOnSet, FoldFunction, FoldFunctionOnSet, MapThenFoldSet, Sums, SumStep, AnyOf
<1> QED BY <1>1, SumsExist

\* Any index may be taken out first.
TakesOut(f, g, s) ==
  g[s] \in Int /\ \A x \in s : g[s] = f[x] + g[s \ {x}]

LEMMA SumTakesOut ==
  ASSUME NEW D, IsFiniteSet(D), NEW f \in [D -> Int], NEW g, Sums(f, g)
  PROVE  \A s \in SUBSET D : TakesOut(f, g, s)
<1> DEFINE G == {n \in Nat : \A s \in SUBSET D : Cardinality(s) <= n => TakesOut(f, g, s)}
<1>1. \A s \in SUBSET D : IsFiniteSet(s) /\ Cardinality(s) \in Nat
  BY FS_Subset, FS_CardinalityType
<1>2. /\ \A s \in SUBSET D : s # {} => /\ AnyOf(s) \in s /\ s \ {AnyOf(s)} \in SUBSET D
                                       /\ g[s] = f[AnyOf(s)] + g[s \ {AnyOf(s)}]
      /\ g[{}] = 0
  <2>1. \A s \in SUBSET D : g[s] = SumStep(f, g, s)
    <3>1. DOMAIN f = D
      OBVIOUS
    <3> QED BY <3>1 DEF Sums
  <2> QED BY <2>1 DEF SumStep, AnyOf
<1>3. TakesOut(f, g, {})
  BY <1>2 DEF TakesOut
<1>4. 0 \in G
  <2>1. \A s \in SUBSET D : Cardinality(s) <= 0 => s = {}
    <3> TAKE s \in SUBSET D
    <3>1. IsFiniteSet(s) /\ Cardinality(s) \in Nat
      BY <1>1
    <3> QED BY <3>1, FS_EmptySet
  <2> QED BY <1>3, <2>1
<1>5. ASSUME NEW n \in Nat, n \in G, NEW s \in SUBSET D, Cardinality(s) <= n + 1, s # {}
      PROVE  TakesOut(f, g, s)
  <2> DEFINE p == AnyOf(s)
             t == s \ {p}
  <2>1. p \in s /\ t \in SUBSET D /\ g[s] = f[p] + g[t]
    BY <1>2, <1>5
  <2>2. \A x \in s : s \ {x} \in SUBSET D /\ TakesOut(f, g, s \ {x})
    <3> TAKE x \in s
    <3>1. Cardinality(s \ {x}) <= n
      BY <1>1, <1>5, Smaller
    <3> QED BY <1>5, <3>1
  <2> HIDE DEF p
  <2>3. g[s] \in Int /\ f[p] \in Int
    <3>1. TakesOut(f, g, t) /\ f[p] \in Int
      BY <2>1, <2>2
    <3> QED BY <2>1, <3>1 DEF TakesOut
  <2>4. ASSUME NEW x \in s, x # p PROVE g[s] = f[x] + g[s \ {x}]
    <3> DEFINE r == s \ {x, p}
    <3>1. t \ {x} = r /\ (s \ {x}) \ {p} = r /\ x \in t /\ p \in s \ {x}
      BY <2>1, <2>4
    <3>2. g[t] = f[x] + g[r] /\ g[s \ {x}] = f[p] + g[r]
      <4>1. TakesOut(f, g, t) /\ TakesOut(f, g, s \ {x})
        BY <2>1, <2>2
      <4>2. g[t] = f[x] + g[t \ {x}] /\ g[s \ {x}] = f[p] + g[(s \ {x}) \ {p}]
        BY <3>1, <4>1 DEF TakesOut
      <4> QED BY <3>1, <4>2
    <3>3. g[r] \in Int /\ f[x] \in Int
      <4>1. s \ {x} \in SUBSET D /\ IsFiniteSet(s \ {x}) /\ Cardinality(s \ {x}) <= n
        BY <1>1, <1>5, Smaller
      <4>2. r \in SUBSET D /\ Cardinality(r) <= n
        BY <1>1, <3>1, <4>1, Smaller
      <4> QED BY <1>5, <4>2 DEF TakesOut
    <3> QED BY <2>1, <2>3, <3>2, <3>3
  <2> QED BY <2>1, <2>3, <2>4 DEF TakesOut
<1>6. \A n \in Nat : n \in G => n + 1 \in G
  BY <1>3, <1>5
<1>7. Nat \subseteq G
  BY <1>4, <1>6, AllNumbers
<1> QED BY <1>1, <1>7

\* The sum over indices whose values are the same.
LEMMA SameSums ==
  ASSUME NEW D, IsFiniteSet(D), NEW f \in [D -> Int], NEW g, Sums(f, g),
         NEW E, IsFiniteSet(E), NEW h \in [E -> Int], NEW k, Sums(h, k),
         NEW S, S \subseteq D, S \subseteq E, \A x \in S : f[x] = h[x]
  PROVE  g[S] = k[S]
<1> DEFINE G == {n \in Nat : \A s \in SUBSET S : Cardinality(s) <= n => g[s] = k[s]}
<1>1. \A s \in SUBSET S : IsFiniteSet(s) /\ Cardinality(s) \in Nat
  BY FS_Subset, FS_CardinalityType
<1>2. \A s \in SUBSET S : /\ g[s] = SumStep(f, g, s) /\ k[s] = SumStep(h, k, s)
  <2>1. DOMAIN f = D /\ DOMAIN h = E
    OBVIOUS
  <2>2. \A s \in SUBSET S : s \in SUBSET D /\ s \in SUBSET E
    OBVIOUS
  <2> QED BY <2>1, <2>2 DEF Sums
<1>3. 0 \in G
  <2> SUFFICES ASSUME NEW s \in SUBSET S, Cardinality(s) <= 0 PROVE g[s] = k[s]
    OBVIOUS
  <2>1. s = {}
    BY <1>1, FS_EmptySet
  <2> QED BY <1>2, <2>1 DEF SumStep
<1>4. \A n \in Nat : n \in G => n + 1 \in G
  <2> SUFFICES ASSUME NEW n \in Nat, n \in G, NEW s \in SUBSET S, Cardinality(s) <= n + 1
               PROVE  g[s] = k[s]
    OBVIOUS
  <2>1. CASE s = {}
    BY <1>2, <2>1 DEF SumStep
  <2>2. CASE s # {}
    <3> DEFINE t == s \ {AnyOf(s)}
    <3>1. AnyOf(s) \in s
      BY <2>2 DEF AnyOf
    <3>2. t \in SUBSET S /\ Cardinality(t) <= n
      BY <1>1, <3>1, Smaller
    <3>3. g[t] = k[t] /\ f[AnyOf(s)] = h[AnyOf(s)]
      BY <3>1, <3>2
    <3> QED BY <1>2, <2>2, <3>3 DEF SumStep
  <2> QED BY <2>1, <2>2
<1>5. Nat \subseteq G
  BY <1>3, <1>4, AllNumbers
<1>6. S \in SUBSET S /\ Cardinality(S) \in G
  BY <1>1, <1>5
<1> QED BY <1>1, <1>6

\* One value changes, and one of nothing is added.
LEMMA SumChanges ==
  ASSUME NEW D, IsFiniteSet(D), NEW f \in [D -> Int], NEW h \in [D -> Int], NEW i \in D,
         \A x \in D \ {i} : h[x] = f[x]
  PROVE  SumFunction(h) = SumFunction(f) + h[i] - f[i]
<1>1. PICK g : Sums(f, g) /\ SumFunction(f) = g[D]
  BY SumIs
<1>2. PICK k : Sums(h, k) /\ SumFunction(h) = k[D]
  BY SumIs
<1>3. TakesOut(f, g, D) /\ TakesOut(h, k, D) /\ TakesOut(f, g, D \ {i})
  BY <1>1, <1>2, SumTakesOut
<1>4. g[D \ {i}] = k[D \ {i}]
  BY <1>1, <1>2, SameSums
<1>5. /\ g[D] = f[i] + g[D \ {i}] /\ k[D] = h[i] + k[D \ {i}]
      /\ g[D] \in Int /\ k[D] \in Int /\ g[D \ {i}] \in Int
  BY <1>3 DEF TakesOut
<1> QED BY <1>1, <1>2, <1>4, <1>5

LEMMA SumAdds ==
  ASSUME NEW D, IsFiniteSet(D), NEW f \in [D -> Int], NEW i, i \notin D,
         NEW h \in [D \union {i} -> Int], \A x \in D : h[x] = f[x], h[i] = 0
  PROVE  SumFunction(h) = SumFunction(f)
<1> DEFINE E == D \union {i}
<1>1. IsFiniteSet(E) /\ D \subseteq E /\ E \ {i} = D /\ i \in E
  BY FS_AddElement
<1> HIDE DEF E
<1>2. PICK g : Sums(f, g) /\ SumFunction(f) = g[D]
  BY SumIs
<1>3. PICK k : Sums(h, k) /\ SumFunction(h) = k[E]
  BY <1>1, SumIs DEF E
<1>4. TakesOut(h, k, E) /\ TakesOut(f, g, D)
  <2>1. h \in [E -> Int]
    BY DEF E
  <2>2. \A s \in SUBSET E : TakesOut(h, k, s)
    BY <1>1, <1>3, <2>1, SumTakesOut
  <2>3. \A s \in SUBSET D : TakesOut(f, g, s)
    BY <1>2, SumTakesOut
  <2> QED BY <2>2, <2>3
<1>5. g[D] = k[D]
  <2>1. h \in [E -> Int]
    BY DEF E
  <2> QED BY <1>1, <1>2, <1>3, <2>1, SameSums
<1>6. k[E] = h[i] + k[D] /\ k[E] \in Int /\ g[D] \in Int
  BY <1>1, <1>4 DEF TakesOut
<1> QED BY <1>2, <1>3, <1>5, <1>6

LEMMA SumIsInt ==
  ASSUME NEW D, IsFiniteSet(D), NEW f \in [D -> Int] PROVE SumFunction(f) \in Int
<1>1. PICK g : Sums(f, g) /\ SumFunction(f) = g[D]
  BY SumIs
<1>2. \A s \in SUBSET D : TakesOut(f, g, s)
  BY <1>1, SumTakesOut
<1> QED BY <1>1, <1>2 DEF TakesOut

-----------------------------------------------------------------------------
(* Prices and balances *)

LEMMA CostIsNat ==
  ASSUME NEW t \in Tariffs, NEW n \in Nat PROVE CalcExpense(t, n) \in Nat
<1>1. /\ t.rule \in Int /\ t.rule > 0 /\ t.fee \in Nat /\ t.fixed \in Nat
  BY DEF Tariffs
<1> DEFINE units == (n + t.rule - 1) \div t.rule
<1>2. units \in Int /\ units >= 0
  BY <1>1
<1> HIDE DEF units
<1>3. units * t.fee \in Int /\ units * t.fee >= 0
  BY <1>1, <1>2
<1>4. CalcExpense(t, n) = IF units * t.fee > t.fixed THEN t.fixed ELSE units * t.fee
  BY DEF CalcExpense, units
<1> QED BY <1>1, <1>3, <1>4

\* An amount is taken from a user, or given back, or lost when there is no advance
\* payment to give it back to; nobody else's balance changes, and nobody comes to have
\* an advance payment.
LEMMA Balanced ==
  ASSUME NEW p \in Purses, NEW u \in Users, NEW x \in Int
  PROVE  LET q == WriteUserInfo(p, u, x) IN
         \/ \A d \in Users : /\ CalcUserBlance(q, d)
                                  = CalcUserBlance(p, d) - (IF d = u THEN x ELSE 0)
                             /\ q[d].pre > 0 => p[d].pre > 0
         \/ x < 0 /\ q = p /\ ~ (p[u].pre > 0)
<1> DEFINE pre == p[u].pre
           bal == p[u].bal
           row == IF pre > 0 /\ pre >= x THEN [p[u] EXCEPT !.pre = @ - x]
                  ELSE IF pre > 0 THEN [pre |-> 0, bal |-> p[u].bal - (x - pre)]
                  ELSE IF x > 0 THEN [p[u] EXCEPT !.bal = @ - x]
                  ELSE p[u]
           q   == [p EXCEPT ![u] = row]
<1>1. p[u] \in [pre : Int, bal : Int] /\ pre \in Int /\ bal \in Int
  BY DEF Purses
<1>2. \/ row.pre + row.bal = pre + bal - x /\ (row.pre > 0 => pre > 0)
      \/ x < 0 /\ row = p[u] /\ ~ (pre > 0)
  BY <1>1
<1>3. WriteUserInfo(p, u, x) = q
  BY DEF WriteUserInfo
<1> HIDE DEF row
<1>4. \A d \in Users : q[d] = IF d = u THEN row ELSE p[d]
  BY DEF Purses
<1>5. \A d \in Users : p[d].pre + p[d].bal \in Int
  BY DEF Purses
<1>6. row = p[u] => q = p
  BY DEF Purses
<1> HIDE DEF q
<1> QED BY <1>1, <1>2, <1>3, <1>4, <1>5, <1>6 DEF CalcUserBlance

-----------------------------------------------------------------------------
(* What a visit writes *)

Untouched(w) == w.recs = recs /\ w.purse = purse

Rise(w, i) == Cost(w.recs[i].exp) - Cost(recs[i].exp)

\* Bill i rises or falls, and what its user has falls or rises with it, unless there is
\* no advance payment to which a fall could be given back.
Moved(w, i) ==
  /\ i \in DOMAIN recs
  /\ \A j \in DOMAIN recs \ {i} : w.recs[j] = recs[j]
  /\ w.recs[i].usr = recs[i].usr
  /\ \/ \A u \in Users :
          /\ CalcUserBlance(w.purse, u)
               = CalcUserBlance(purse, u) - (IF u = recs[i].usr THEN Rise(w, i) ELSE 0)
          /\ w.purse[u].pre > 0 => purse[u].pre > 0
     \/ Rise(w, i) < 0 /\ w.purse = purse /\ ~ (purse[recs[i].usr].pre > 0)

LEMMA Unmoved ==
  ASSUME MInv, NEW w, Untouched(w), NEW i \in DOMAIN recs PROVE Moved(w, i) /\ Rise(w, i) = 0
<1>1. recs[i].exp \in Int /\ \A u \in Users : CalcUserBlance(purse, u) \in Int
  <2>1. recs \in Seq(Rows) /\ purse \in Purses
    BY DEF MInv, TypeOK, Rows, Purses
  <2>2. recs[i] \in Rows
    BY <2>1
  <2> QED BY <2>1, <2>2 DEF Rows, Purses, CalcUserBlance
<1>2. Rise(w, i) = 0
  BY <1>1, Constants DEF Untouched, Rise, Cost
<1> QED BY <1>1, <1>2 DEF Moved, Untouched

\* WriteExpense while the database answers.
Wrote(c, w, v, price, save) ==
  LET i == w.k.rec IN
  /\ Mine(c, v) /\ Moved(v, i) /\ v.k = w.k /\ v.in = w.in /\ v.client = w.client
  /\ Rise(v, i) = price - Spent(w)
  /\ Len(v.recs) = Len(recs) /\ v.recs[i].exp = price
  /\ v.recs[i].saved = IF save THEN price ELSE recs[i].saved

LEMMA Written ==
  ASSUME MInv, NEW c \in Conns, NEW w, Sound(c, w), Mine(c, w), Untouched(w), Paying(w.k),
         NEW price \in Nat, NEW save \in BOOLEAN
  PROVE  Wrote(c, w, WriteExpense(w, price, save, FALSE), price, save)
<1> DEFINE i    == w.k.rec
           due  == price - Spent(w)
           thr  == due # 0 /\ (FALSE \/ w.k.usr = None)
           rows == [w.recs EXCEPT ![i] = Priced(@, price, save)]
           cash == IF due = 0 \/ thr THEN w.purse ELSE WriteUserInfo(w.purse, w.k.usr, due)
           v    == WriteExpense(w, price, save, FALSE)
<1>1. /\ w \in Worlds /\ i \in DOMAIN w.recs /\ w.recs[i] \in Rows
      /\ w.recs = recs /\ w.purse = purse
  BY InTable DEF Sound, Paying, Untouched
<1>2. w.k.usr = w.recs[i].usr /\ w.k.usr \in Users /\ w.k.usr # None
  BY <1>1, Constants DEF Mine, Paying, Rows
<1>3. v = [w EXCEPT !.recs = rows, !.purse = cash, !.thrown = thr]
  BY <1>1 DEF WriteExpense, Worlds
<1>4. /\ v.recs = rows /\ v.purse = cash /\ v.k = w.k /\ v.in = w.in
      /\ v.client = w.client /\ ~ v.thrown
  <2> HIDE DEF rows, cash
  <2>1. thr = FALSE
    BY <1>2
  <2> HIDE DEF thr
  <2> QED BY <1>1, <1>3, <2>1 DEF Worlds
<1>5. /\ Len(rows) = Len(recs) /\ \A j \in DOMAIN recs \ {i} : rows[j] = recs[j]
      /\ rows[i] = Priced(recs[i], price, save)
  <2>1. Priced(w.recs[i], price, save) \in Rows
    BY <1>1, PricedRow
  <2>2. w.recs \in Seq(Rows) /\ i \in 1 .. Len(w.recs) /\ DOMAIN recs = 1 .. Len(recs)
    BY <1>1 DEF Worlds
  <2>3. rows = [w.recs EXCEPT ![i] = Priced(w.recs[i], price, save)]
    OBVIOUS
  <2> QED BY <1>1, <2>1, <2>2, <2>3, ExceptSeq
<1>6. /\ rows[i].usr = recs[i].usr /\ rows[i].exp = price
      /\ rows[i].saved = IF save THEN price ELSE recs[i].saved
  BY <1>1, <1>5 DEF Priced, Rows
<1>7. due \in Int /\ due = Cost(price) - Cost(recs[i].exp)
  BY <1>1 DEF Spent, Cost, Rows, NoFee
<1>8. Rise(v, i) = due
  BY <1>4, <1>6, <1>7 DEF Rise
<1>9. \/ \A u \in Users :
           /\ CalcUserBlance(cash, u)
                = CalcUserBlance(purse, u) - (IF u = recs[i].usr THEN due ELSE 0)
           /\ cash[u].pre > 0 => purse[u].pre > 0
      \/ due < 0 /\ cash = purse /\ ~ (purse[recs[i].usr].pre > 0)
  <2>1. purse \in Purses /\ \A u \in Users : CalcUserBlance(purse, u) \in Int
    BY <1>1 DEF Worlds, Purses, CalcUserBlance
  <2>2. CASE due = 0
    BY <1>1, <2>1, <2>2
  <2>3. CASE due # 0
    <3>1. cash = WriteUserInfo(purse, recs[i].usr, due) /\ recs[i].usr \in Users
      BY <1>1, <1>2, <2>3
    <3> HIDE DEF cash, due, i
    <3>2. due \in Int
      BY <1>7
    <3> DEFINE q == WriteUserInfo(purse, recs[i].usr, due)
    <3>3. \/ \A d \in Users :
                /\ CalcUserBlance(q, d)
                     = CalcUserBlance(purse, d) - (IF d = recs[i].usr THEN due ELSE 0)
                /\ q[d].pre > 0 => purse[d].pre > 0
          \/ due < 0 /\ q = purse /\ ~ (purse[recs[i].usr].pre > 0)
      BY <2>1, <3>1, <3>2, Balanced
    <3>4. cash = q
      BY <3>1
    <3> HIDE DEF q
    <3> QED BY <3>3, <3>4
  <2> QED BY <2>2, <2>3
<1> HIDE DEF v, cash, rows, due
<1>10. Moved(v, i)
  BY <1>1, <1>4, <1>5, <1>6, <1>8, <1>9 DEF Moved
<1>11. Mine(c, v)
  BY <1>1, <1>4, <1>6 DEF Mine
<1> QED BY <1>4, <1>5, <1>6, <1>8, <1>10, <1>11 DEF v, due, Wrote

\* CompleteTask: the call ends at its last price, which is saved.
LEMMA Completed ==
  ASSUME MInv, NEW c \in Conns, NEW w, Sound(c, w), Mine(c, w), Untouched(w), Navigated(w.k)
  PROVE  LET v == CompleteTask(w, FALSE)
             i == w.k.rec
         IN /\ Mine(c, v) /\ Moved(v, i) /\ ~ v.k.nav /\ v.in = w.in /\ v.client = w.client
            /\ v.k.rec = i /\ v.k.usr = w.k.usr /\ v.k.fee = w.k.fee
            /\ Len(v.recs) = Len(recs) /\ v.recs[i].exp = v.recs[i].saved
<1> DEFINE n     == NLength(w.k)
           price == IF n < ShortFree THEN 0 ELSE CalcExpense(w.k.fee, n)
           done  == WriteExpense(w, price, TRUE, FALSE)
           k     == [w.k EXCEPT !.nav = FALSE, !.paid = Never]
           v     == [done EXCEPT !.k = k]
           i     == w.k.rec
<1>1. Paying(w.k) /\ w \in Worlds /\ w.k \in Channels
  BY DEF Sound, Navigated, Entitled, Worlds
<1>2. n \in Nat
  BY <1>1, Constants DEF Channels, NLength
<1>3. price \in Nat
  BY <1>1, <1>2, CostIsNat DEF Paying
<1> HIDE DEF price
<1>4. /\ Mine(c, done) /\ Moved(done, i) /\ done.k = w.k /\ done.in = w.in
      /\ done.client = w.client
      /\ Len(done.recs) = Len(recs) /\ done.recs[i].exp = price
      /\ done.recs[i].saved = price /\ done \in Worlds
  <2>1. Wrote(c, w, done, price, TRUE)
    BY <1>1, <1>3, TRUE \in BOOLEAN, Written
  <2>2. Sound(c, done)
    BY <1>1, <1>3, price \in Int, FALSE \in BOOLEAN, TRUE \in BOOLEAN, WrittenSound
  <2> QED BY <2>1, <2>2 DEF Sound, Wrote
<1>5. CompleteTask(w, FALSE) = [done EXCEPT !.k.nav = FALSE, !.k.paid = Never]
  <2>1. ~ done.thrown
    BY <1>4 DEF Mine
  <2> QED BY <2>1 DEF CompleteTask, price
<1> HIDE DEF done
<1>6. [done EXCEPT !.k.nav = FALSE, !.k.paid = Never] = v
  BY <1>1, <1>4 DEF Worlds, Channels
<1>7. ~ k.nav /\ k.rec = w.k.rec /\ k.usr = w.k.usr /\ k.fee = w.k.fee
  BY <1>1 DEF Channels
<1> HIDE DEF k
<1>8. /\ v.k = k /\ v.in = done.in /\ v.recs = done.recs /\ v.purse = done.purse
      /\ v.thrown = done.thrown /\ v.client = done.client
  BY <1>4 DEF Worlds
<1> HIDE DEF v, i
<1>9. Mine(c, v)
  BY <1>4, <1>7, <1>8 DEF Mine
<1>10. Moved(v, i)
  BY <1>4, <1>8 DEF Moved, Rise
<1> QED BY <1>4, <1>5, <1>6, <1>7, <1>8, <1>9, <1>10 DEF i

-----------------------------------------------------------------------------
(* The bills, before and after *)

TheCredit == [u \in Users |-> CalcUserBlance(purse, u)]
TheBills  == [i \in DOMAIN recs |-> [user |-> recs[i].usr, amount |-> Cost(recs[i].exp),
                                     kept |-> Cost(recs[i].saved), open |-> OpenBill(i)]]

\* The visit leaves c without a bill that runs: nothing has been written, or what c was
\* billed is closed.  A record may have been added.
Over(c, w) ==
  /\ ~ Navigated(w.k)
  /\ \/ /\ ~ Navigated(chan[c]) /\ w.purse = purse
        /\ \A j \in DOMAIN recs : w.recs[j] = recs[j]
     \/ /\ Moved(w, chan[c].rec)
        /\ w.recs[chan[c].rec].exp = w.recs[chan[c].rec].saved
  /\ \/ Len(w.recs) = Len(recs)
     \/ /\ Len(w.recs) = Len(recs) + 1
        /\ w.recs[Len(recs) + 1].exp = NoFee /\ w.recs[Len(recs) + 1].saved = NoFee

\* The visit leaves c's bill open; what it rises by can be paid.
Going(c, w) ==
  LET i == chan[c].rec IN
  /\ Navigated(w.k) /\ w.k.rec = i /\ Len(w.recs) = Len(recs)
  /\ Moved(w, i) /\ w.recs[i].saved = recs[i].saved
  /\ Rise(w, i) # 0 => Rise(w, i) <= CalcUserBlance(purse, recs[i].usr)

\* How c's visit ends: it stays in the list, or it is deleted.
Ends(c, w) == \E next \in {<<>>, Tail(todo)} : Keep(c, w, next) \/ Delete(c, w, next)

\* OpenBill after the step.
StillOpen(i) == \E c \in Listed' : Navigated(chan'[c]) /\ chan'[c].rec = i

LEMMA InList == ASSUME MInv, NEW c, At(c) PROVE c \in Listed
BY RestOnce DEF MInv, TypeOK, Visits, At

LEMMA RecsTyped ==
  ASSUME MInv
  PROVE  /\ recs \in Seq(Rows) /\ DOMAIN recs = 1 .. Len(recs) /\ Len(recs) \in Nat
         /\ purse \in Purses /\ Listed \subseteq Conns
         /\ \A i \in DOMAIN recs : recs[i] \in Rows
         /\ \A d \in Conns : chan[d] \in Channels /\ chan[d].rec \in Nat
                             /\ chan[d].rec <= Len(recs)
<1>1. /\ recs \in Seq(Rows) /\ purse \in Purses /\ list \in Seq(Conns)
      /\ chan \in [Conns -> Channels] /\ \A d \in Conns : chan[d].rec <= Len(recs)
  BY DEF MInv, TypeOK, Rows, Purses
<1>2. \A d \in Conns : chan[d] \in Channels /\ chan[d].rec \in Nat
  BY <1>1 DEF Channels
<1> QED BY <1>1, <1>2 DEF Listed

\* Who else is in the list stays there with its channel, its packets and its user.
LEMMA OthersStay ==
  ASSUME MInv, NEW c, At(c), NEW w, Ends(c, w)
  PROVE  /\ recs' = w.recs /\ purse' = w.purse
         /\ \A d \in Conns \ {c} : /\ chan'[d] = chan[d] /\ inbox'[d] = inbox[d]
                                   /\ party'[d] = party[d] /\ client'[d] = client[d]
                                   /\ (d \in Listed' <=> d \in Listed)
         /\ \/ /\ c \in Listed' /\ chan'[c] = w.k /\ inbox'[c] = w.in
               /\ party'[c] = party[c] /\ client'[c] = w.client
            \/ c \notin Listed' /\ chan'[c] = NewChannel /\ inbox'[c] = <<>>
<1>1. c \in Conns /\ c \in Listed
  BY InList DEF At
<1>2. PICK next \in {<<>>, Tail(todo)} : Keep(c, w, next) \/ Delete(c, w, next)
  BY DEF Ends
<1>3. /\ list \in Seq(Conns) /\ IsInjective(list) /\ chan \in [Conns -> Channels]
      /\ inbox \in [Conns -> Seq(Packets)] /\ party \in [Conns -> Users \union {None}]
      /\ client \in [Conns -> States]
  BY DEF MInv, TypeOK, States
<1>4. CASE Keep(c, w, next)
  BY <1>1, <1>3, <1>4 DEF Keep, Listed
<1>5. CASE Delete(c, w, next)
  <2>1. PICK k \in DOMAIN list : list[k] = c
    BY <1>1 DEF Listed
  <2>2. list' = Without(list, list[k])
    BY <1>5, <2>1 DEF Delete
  <2>3. /\ \A i \in DOMAIN list : list[i] # c => \E j \in DOMAIN list' : list'[j] = list[i]
        /\ \A j \in DOMAIN list' : list'[j] # c /\ \E i \in DOMAIN list : list'[j] = list[i]
    BY <1>3, <2>1, <2>2, WithoutOne
  <2>4. c \notin Listed' /\ \A d \in Conns \ {c} : (d \in Listed' <=> d \in Listed)
    BY <2>3 DEF Listed
  <2> QED BY <1>1, <1>3, <1>5, <2>4 DEF Delete
<1> QED BY <1>2, <1>4, <1>5

\* Account's actions, said of xmaster's bills.
OnlyBill(i) == /\ DOMAIN TheBills \subseteq DOMAIN TheBills'
               /\ \A j \in DOMAIN TheBills \ {i} : TheBills'[j] = TheBills[j]
               /\ TheBills'[i].user = TheBills[i].user

RiseOf(i) == TheBills'[i].amount - TheBills[i].amount

FromItsUser(i) == \/ TheCredit' = [TheCredit EXCEPT ![TheBills[i].user] = @ - RiseOf(i)]
                  \/ RiseOf(i) < 0 /\ TheCredit' = TheCredit

OneMore == \/ Len(TheBills') = Len(TheBills)
           \/ /\ Len(TheBills') = Len(TheBills) + 1
              /\ TheBills'[Len(TheBills')].amount = 0 /\ TheBills'[Len(TheBills')].kept = 0
              /\ ~ TheBills'[Len(TheBills')].open

Opens == /\ Len(TheBills') = Len(TheBills) + 1 /\ OneMore
         /\ \A i \in DOMAIN TheBills : TheBills'[i] = TheBills[i]
         /\ TheCredit' = TheCredit

Runs(i) == /\ TheBills'[i].open /\ Len(TheBills') = Len(TheBills) /\ OnlyBill(i)
           /\ RiseOf(i) # 0 => RiseOf(i) <= TheCredit[TheBills[i].user]
           /\ FromItsUser(i) /\ TheBills'[i].kept = TheBills[i].kept

Finishes(i) == /\ ~ TheBills'[i].open /\ OneMore /\ OnlyBill(i)
               /\ FromItsUser(i) /\ TheBills'[i].kept = TheBills'[i].amount

Fails ==
  /\ TheCredit' = TheCredit /\ Len(TheBills') = Len(TheBills)
  /\ \A i \in DOMAIN TheBills :
       /\ TheBills'[i] = [TheBills[i] EXCEPT !.open = FALSE, !.amount = TheBills[i].kept]
       /\ ~ TheBills[i].open => TheBills[i].amount = TheBills[i].kept

Keeps == Opens \/ Fails \/ \E i \in DOMAIN TheBills : Runs(i) \/ Finishes(i)

LEMMA AccountNext == Keeps => Accounts!Next
<1>1. Opens => Accounts!Open
  BY DEF Accounts!Open, Accounts!AtMostOneMore, Opens, OneMore, TheCredit, TheBills
<1>2. ASSUME NEW i, Runs(i) PROVE Accounts!Run(i)
  BY <1>2 DEF Accounts!Run, Accounts!Only, Accounts!Rise, Accounts!FromUser, Runs, OnlyBill,
         FromItsUser, RiseOf, TheCredit, TheBills
<1>3. ASSUME NEW i, Finishes(i) PROVE Accounts!Finish(i)
  BY <1>3 DEF Accounts!Finish, Accounts!Only, Accounts!Rise, Accounts!FromUser,
         Accounts!AtMostOneMore, Finishes, OneMore, OnlyBill, FromItsUser, RiseOf,
         TheCredit, TheBills
<1>4. Fails => Accounts!Fail
  BY DEF Accounts!Fail, Fails, TheCredit, TheBills
<1>5. Accounts!Next <=> \/ Accounts!Open \/ Accounts!Fail
                        \/ \E i \in DOMAIN TheBills : Accounts!Run(i) \/ Accounts!Finish(i)
  BY DEF Accounts!Next, TheBills
<1> QED BY <1>1, <1>2, <1>3, <1>4, <1>5 DEF Keeps

LEMMA BillsAre ==
  ASSUME MInv
  PROVE  /\ Len(TheBills) = Len(recs) /\ DOMAIN TheBills = DOMAIN recs
         /\ \A i \in DOMAIN recs :
              TheBills[i] = [user |-> recs[i].usr, amount |-> Cost(recs[i].exp),
                             kept |-> Cost(recs[i].saved), open |-> OpenBill(i)]
<1>1. DOMAIN recs = 1 .. Len(recs) /\ Len(recs) \in Nat
  BY RecsTyped
<1> QED BY <1>1 DEF TheBills

LEMMA BillsAreNext ==
  MInv' =>
    /\ Len(TheBills') = Len(recs') /\ DOMAIN TheBills' = DOMAIN recs'
    /\ \A i \in DOMAIN recs' :
         TheBills'[i] = [user |-> recs'[i].usr, amount |-> Cost(recs'[i].exp),
                         kept |-> Cost(recs'[i].saved), open |-> StillOpen(i)]
<1>1. (MInv => /\ Len(TheBills) = Len(recs) /\ DOMAIN TheBills = DOMAIN recs
               /\ \A i \in DOMAIN recs :
                    TheBills[i] = [user |-> recs[i].usr, amount |-> Cost(recs[i].exp),
                                   kept |-> Cost(recs[i].saved), open |-> OpenBill(i)])'
  BY BillsAre, PTL
<1> QED BY <1>1 DEF StillOpen, OpenBill, Navigated

LEMMA RecsTypedNext ==
  MInv' => /\ recs' \in Seq(Rows) /\ DOMAIN recs' = 1 .. Len(recs') /\ Len(recs') \in Nat
           /\ \A i \in DOMAIN recs' : recs'[i] \in Rows
<1>1. (MInv => /\ recs \in Seq(Rows) /\ DOMAIN recs = 1 .. Len(recs) /\ Len(recs) \in Nat
               /\ \A i \in DOMAIN recs : recs[i] \in Rows)'
  BY RecsTyped, PTL
<1> QED BY <1>1

\* The bill of a record, field by field, and a record that stays as it was.
LEMMA BillFields ==
  ASSUME MInv, MInv'
  PROVE  /\ \A i \in DOMAIN recs :
              /\ TheBills[i].user = recs[i].usr /\ TheBills[i].amount = Cost(recs[i].exp)
              /\ TheBills[i].kept = Cost(recs[i].saved) /\ (TheBills[i].open <=> OpenBill(i))
         /\ \A i \in DOMAIN recs' :
              /\ TheBills'[i].user = recs'[i].usr /\ TheBills'[i].amount = Cost(recs'[i].exp)
              /\ TheBills'[i].kept = Cost(recs'[i].saved)
              /\ (TheBills'[i].open <=> StillOpen(i))
<1>1. ASSUME NEW i \in DOMAIN recs
      PROVE  /\ TheBills[i].user = recs[i].usr /\ TheBills[i].amount = Cost(recs[i].exp)
             /\ TheBills[i].kept = Cost(recs[i].saved) /\ (TheBills[i].open <=> OpenBill(i))
  <2>1. TheBills[i] = [user |-> recs[i].usr, amount |-> Cost(recs[i].exp),
                       kept |-> Cost(recs[i].saved), open |-> OpenBill(i)]
    BY BillsAre
  <2> QED BY <2>1
<1>2. ASSUME NEW i \in DOMAIN recs'
      PROVE  /\ TheBills'[i].user = recs'[i].usr /\ TheBills'[i].amount = Cost(recs'[i].exp)
             /\ TheBills'[i].kept = Cost(recs'[i].saved)
             /\ (TheBills'[i].open <=> StillOpen(i))
  <2>1. TheBills'[i] = [user |-> recs'[i].usr, amount |-> Cost(recs'[i].exp),
                        kept |-> Cost(recs'[i].saved), open |-> StillOpen(i)]
    BY BillsAreNext
  <2> QED BY <2>1
<1> QED BY <1>1, <1>2

LEMMA SameBill ==
  ASSUME MInv, MInv', NEW i \in DOMAIN recs, i \in DOMAIN recs', recs'[i] = recs[i],
         StillOpen(i) <=> OpenBill(i)
  PROVE  TheBills'[i] = TheBills[i]
<1>1. /\ TheBills[i] = [user |-> recs[i].usr, amount |-> Cost(recs[i].exp),
                        kept |-> Cost(recs[i].saved), open |-> OpenBill(i)]
      /\ TheBills'[i] = [user |-> recs'[i].usr, amount |-> Cost(recs'[i].exp),
                         kept |-> Cost(recs'[i].saved), open |-> StillOpen(i)]
  BY BillsAre, BillsAreNext
<1>2. StillOpen(i) = OpenBill(i)
  BY DEF StillOpen, OpenBill
<1> QED BY <1>1, <1>2

-----------------------------------------------------------------------------
(* A visit that ends *)

\* The records are each channel's own: what c does to its own leaves the others open
\* or closed.
LEMMA OpenAfter ==
  ASSUME MInv, NEW c, At(c), NEW w, Sound(c, w), Ends(c, w), NEW i \in Nat, i # 0
  PROVE  StillOpen(i) <=>
           IF i = chan[c].rec \/ i > Len(recs)
           THEN c \in Listed' /\ Navigated(w.k) /\ w.k.rec = i
           ELSE OpenBill(i)
<1>1. /\ \A d \in Conns \ {c} : chan'[d] = chan[d] /\ (d \in Listed' <=> d \in Listed)
      /\ c \in Listed' => chan'[c] = w.k
  BY OthersStay
<1>2. Listed \subseteq Conns /\ Len(recs) \in Nat
      /\ \A d \in Conns : chan[d].rec \in Nat /\ chan[d].rec <= Len(recs)
  BY RecsTyped
<1>3. c \in Conns /\ c \in Listed /\ (w.k.rec = chan[c].rec \/ w.k.rec > Len(recs))
  BY InList DEF At, Sound
<1>4. Listed' \subseteq Conns
  <2>1. list' = list \/ list' = Without(list, c)
    BY DEF Ends, Keep, Delete
  <2>2. list \in Seq(Conns) /\ IsInjective(list) /\ \E j \in DOMAIN list : list[j] = c
    BY <1>3 DEF MInv, TypeOK, Listed
  <2>3. list' \in Seq(Conns)
    BY <2>1, <2>2, WithoutOne
  <2> QED BY <2>3 DEF Listed
<1>5. StillOpen(i) <=> \E d \in Listed' : Navigated(chan'[d]) /\ chan'[d].rec = i
  BY DEF StillOpen
<1>6. CASE i = chan[c].rec
  <2>1. \A d \in Conns \ {c} : chan[d].rec # i
    BY <1>3, <1>6 DEF MInv, Own
  <2> QED BY <1>1, <1>4, <1>5, <1>6, <2>1
<1>7. CASE i > Len(recs)
  <2>1. \A d \in Conns \ {c} : chan[d].rec # i
    BY <1>2, <1>7
  <2> QED BY <1>1, <1>4, <1>5, <1>7, <2>1
<1>8. CASE i # chan[c].rec /\ ~ (i > Len(recs))
  <2>1. w.k.rec # i
    BY <1>2, <1>3, <1>8
  <2>2. StillOpen(i) <=> \E d \in Listed \ {c} : Navigated(chan[d]) /\ chan[d].rec = i
    BY <1>1, <1>2, <1>4, <1>5, <2>1
  <2> QED BY <1>8, <2>2 DEF OpenBill
<1> QED BY <1>6, <1>7, <1>8

\* Visits that write nothing to the record of another channel leave each channel its
\* own user's record.
LEMMA StillMine ==
  ASSUME LInv, NEW c, At(c), NEW w, Sound(c, w), Mine(c, w), Ends(c, w),
         Len(recs) <= Len(w.recs), \A j \in DOMAIN recs : w.recs[j].usr = recs[j].usr
  PROVE  AllMine' /\ Unused'
<1>1. MInv /\ c \in Conns
  BY DEF LInv, At
<1>2. /\ recs' = w.recs
      /\ \A d \in Conns \ {c} : /\ chan'[d] = chan[d] /\ inbox'[d] = inbox[d]
                                /\ party'[d] = party[d] /\ client'[d] = client[d]
                                /\ (d \in Listed' <=> d \in Listed)
      /\ \/ /\ c \in Listed' /\ chan'[c] = w.k /\ inbox'[c] = w.in /\ party'[c] = party[c]
            /\ client'[c] = w.client
         \/ c \notin Listed' /\ chan'[c] = NewChannel /\ inbox'[c] = <<>>
  BY <1>1, OthersStay
<1>3. Unused'
  BY <1>2 DEF LInv, Unused
<1>4. ASSUME NEW d \in Conns
      PROVE  /\ chan'[d].nav => chan'[d].conn
             /\ chan'[d].rec # 0 => /\ chan'[d].usr = Bearer(party'[d])
                                    /\ recs'[chan'[d].rec].usr = Bearer(party'[d])
             /\ \A i \in DOMAIN inbox'[d] :
                  inbox'[d][i].cmd = "bind" => inbox'[d][i].remote = party'[d]
             /\ d \in Listed' => client'[d] # "none"
             /\ client'[d] = "none" => inbox'[d] = <<>>
  <2>1. CASE d # c
    <3>1. /\ chan[d].nav => chan[d].conn
          /\ chan[d].rec # 0 => /\ chan[d].usr = Bearer(party[d])
                                /\ recs[chan[d].rec].usr = Bearer(party[d])
          /\ \A i \in DOMAIN inbox[d] : inbox[d][i].cmd = "bind" => inbox[d][i].remote = party[d]
          /\ d \in Listed => client[d] # "none"
          /\ client[d] = "none" => inbox[d] = <<>>
      BY DEF LInv, AllMine, Mine, World
    <3>2. chan[d].rec # 0 => chan[d].rec \in DOMAIN recs
      BY <1>1, RecsTyped
    <3> QED BY <1>2, <2>1, <3>1, <3>2
  <2>2. CASE d = c /\ c \in Listed'
    BY <1>1, <1>2, <2>2, InList DEF Mine
  <2>3. CASE d = c /\ c \notin Listed'
    BY <1>2, <2>3, NewIsChannel
  <2> QED BY <2>1, <2>2, <2>3
<1>5. AllMine'
  BY <1>4 DEF AllMine, Mine, World, Listed
<1> QED BY <1>3, <1>5

LEMMA EndsStep ==
  ASSUME MInv, NEW c, At(c), NEW w, Sound(c, w), Ends(c, w) PROVE MInv'
BY KeepStep, DeleteStep DEF Ends, At

\* What was taken from each user is what his records say.
Even == \A u \in Users : /\ Taken(u) >= Bill(u)
                         /\ purse[u].pre > 0 => Taken(u) = Bill(u)

\* Steps that keep the invariant, Account's promise and, but for a crash, the balances.
Right == /\ LInv'
         /\ Keeps \/ UNCHANGED <<TheCredit, TheBills>>
         /\ Crash \/ (Even => Even')

LEMMA CostsTyped ==
  ASSUME MInv, NEW u
  PROVE  Costs(u) \in [DOMAIN recs -> Int] /\ IsFiniteSet(DOMAIN recs)
<1>1. /\ DOMAIN recs = 1 .. Len(recs) /\ Len(recs) \in Nat
      /\ \A i \in DOMAIN recs : recs[i] \in Rows
  BY RecsTyped
<1>2. IsFiniteSet(DOMAIN recs)
  BY <1>1, FS_Interval
<1>3. \A i \in DOMAIN recs : Cost(recs[i].exp) \in Int
  BY <1>1 DEF Rows, Cost
<1> QED BY <1>2, <1>3 DEF Costs

LEMMA CostsTypedNext ==
  ASSUME NEW u PROVE MInv' => Costs(u)' \in [DOMAIN recs' -> Int]
<1>1. (MInv => Costs(u) \in [DOMAIN recs -> Int])'
  BY CostsTyped, PTL
<1> QED BY <1>1

\* The step changes no more than one record, and may add one that says nothing yet.
LEMMA EvenStep ==
  ASSUME MInv, MInv', NEW w, recs' = w.recs, purse' = w.purse,
         \/ w.purse = purse /\ \A j \in DOMAIN recs : w.recs[j] = recs[j]
         \/ \E i \in DOMAIN recs : Moved(w, i),
         \/ Len(w.recs) = Len(recs)
         \/ Len(w.recs) = Len(recs) + 1 /\ w.recs[Len(recs) + 1].exp = NoFee,
         Even
  PROVE  Even'
<1> SUFFICES ASSUME NEW u \in Users
             PROVE  Taken(u)' >= Bill(u)' /\ (purse'[u].pre > 0 => Taken(u)' = Bill(u)')
  BY DEF Even
<1> DEFINE n == Len(recs) + 1
           h == [j \in DOMAIN recs |-> Costs(u)'[j]]
<1>1. /\ DOMAIN recs = 1 .. Len(recs) /\ Len(recs) \in Nat /\ purse \in Purses
      /\ DOMAIN recs' = 1 .. Len(recs') /\ \A i \in DOMAIN recs : recs[i] \in Rows
      /\ \A i \in DOMAIN recs' : recs'[i] \in Rows
  BY RecsTyped, RecsTypedNext
<1>2. /\ Costs(u) \in [DOMAIN recs -> Int] /\ Costs(u)' \in [DOMAIN recs' -> Int]
      /\ IsFiniteSet(DOMAIN recs) /\ DOMAIN recs \subseteq DOMAIN recs'
      /\ \A j \in DOMAIN recs : Costs(u)[j] = IF recs[j].usr = u THEN Cost(recs[j].exp) ELSE 0
      /\ \A j \in DOMAIN recs' :
            Costs(u)'[j] = IF recs'[j].usr = u THEN Cost(recs'[j].exp) ELSE 0
  <2>1. /\ Costs(u) \in [DOMAIN recs -> Int] /\ Costs(u)' \in [DOMAIN recs' -> Int]
        /\ IsFiniteSet(DOMAIN recs)
    BY CostsTyped, CostsTypedNext
  <2>2. DOMAIN recs \subseteq DOMAIN recs'
    BY <1>1
  <2>3. /\ Costs(u) = [j \in DOMAIN recs |-> IF recs[j].usr = u THEN Cost(recs[j].exp) ELSE 0]
        /\ Costs(u)' = [j \in DOMAIN recs' |->
                           IF recs'[j].usr = u THEN Cost(recs'[j].exp) ELSE 0]
    BY DEF Costs, Cost
  <2> QED BY <2>1, <2>2, <2>3
<1>3. h \in [DOMAIN recs -> Int] /\ \A j \in DOMAIN recs : h[j] = Costs(u)'[j]
  BY <1>2
<1> HIDE DEF h
<1>4. Bill(u)' = SumFunction(h)
  <2>1. Bill(u)' = SumFunction(Costs(u)')
    BY DEF Bill
  <2>2. CASE Len(w.recs) = Len(recs)
    <3>1. DOMAIN recs' = DOMAIN recs
      BY <1>1, <2>2
    <3>2. Costs(u)' = h
      BY <1>2, <1>3, <3>1
    <3> QED BY <2>1, <3>2
  <2>3. CASE Len(w.recs) = n /\ w.recs[n].exp = NoFee
    <3>1. DOMAIN recs' = DOMAIN recs \union {n} /\ n \notin DOMAIN recs
      BY <1>1, <2>3
    <3>2. Costs(u)'[n] = 0
      BY <1>2, <2>3, <3>1 DEF Cost
    <3> DEFINE D == DOMAIN recs
               f == Costs(u)'
    <3>3. /\ IsFiniteSet(D) /\ n \notin D /\ h \in [D -> Int] /\ f \in [D \union {n} -> Int]
          /\ \A j \in D : f[j] = h[j]
      BY <1>2, <1>3, <3>1
    <3> HIDE DEF n, D, f
    <3>4. SumFunction(f) = SumFunction(h)
      BY <3>2, <3>3, SumAdds DEF f
    <3> QED BY <2>1, <3>4 DEF f
  <2> QED BY <2>2, <2>3
<1>5. Bill(u) \in Int /\ Taken(u) \in Int
      /\ Taken(u) >= Bill(u) /\ (purse[u].pre > 0 => Taken(u) = Bill(u))
  <2>1. Bill(u) \in Int
    BY <1>2, SumIsInt DEF Bill
  <2>2. Taken(u) \in Int
    BY <1>1, MasterAssumption DEF Taken, CalcUserBlance, Purses
  <2>3. Taken(u) >= Bill(u) /\ (purse[u].pre > 0 => Taken(u) = Bill(u))
    <3>1. Even
      OBVIOUS
    <3>2. \A d \in Users : /\ Taken(d) >= Bill(d)
                           /\ purse[d].pre > 0 => Taken(d) = Bill(d)
      BY <3>1 DEF Even
    <3> QED BY <3>2
  <2> QED BY <2>1, <2>2, <2>3
<1>6. CASE w.purse = purse /\ \A j \in DOMAIN recs : w.recs[j] = recs[j]
  <2>1. h = Costs(u)
    BY <1>2, <1>3, <1>6
  <2>2. Taken(u)' = Taken(u) /\ Bill(u)' = Bill(u)
    BY <1>4, <1>6, <2>1 DEF Taken, CalcUserBlance, Bill
  <2> QED BY <1>5, <1>6, <2>2
<1>7. ASSUME NEW i \in DOMAIN recs, Moved(w, i)
      PROVE  Taken(u)' >= Bill(u)' /\ (purse'[u].pre > 0 => Taken(u)' = Bill(u)')
  <2> DEFINE x == IF u = recs[i].usr THEN Rise(w, i) ELSE 0
  <2>1. /\ \A j \in DOMAIN recs \ {i} : h[j] = Costs(u)[j]
        /\ h[i] - Costs(u)[i] = x /\ x \in Int /\ h[i] \in Int /\ Costs(u)[i] \in Int
    <3>1. \A j \in DOMAIN recs \ {i} : recs'[j] = recs[j]
      BY <1>7 DEF Moved
    <3>2. recs'[i].usr = recs[i].usr /\ i \in DOMAIN recs'
      BY <1>2, <1>7 DEF Moved
    <3>3. Cost(recs'[i].exp) \in Int /\ Cost(recs[i].exp) \in Int
          /\ Rise(w, i) = Cost(recs'[i].exp) - Cost(recs[i].exp)
      BY <1>1, <3>2 DEF Rows, Cost, Rise
    <3>4. \A j \in DOMAIN recs \ {i} : h[j] = Costs(u)[j]
      BY <1>2, <1>3, <3>1
    <3>5. /\ h[i] = IF recs[i].usr = u THEN Cost(recs'[i].exp) ELSE 0
          /\ Costs(u)[i] = IF recs[i].usr = u THEN Cost(recs[i].exp) ELSE 0
      BY <1>2, <1>3, <3>2
    <3> QED BY <3>3, <3>4, <3>5
  <2>2. SumFunction(h) = SumFunction(Costs(u)) + h[i] - Costs(u)[i]
    <3> DEFINE D == DOMAIN recs
               f == Costs(u)
    <3>1. /\ IsFiniteSet(D) /\ f \in [D -> Int] /\ h \in [D -> Int] /\ i \in D
          /\ \A j \in D \ {i} : h[j] = f[j]
      BY <1>2, <1>3, <2>1
    <3> HIDE DEF D, f
    <3>2. SumFunction(h) = SumFunction(f) + h[i] - f[i]
      BY <3>1, SumChanges
    <3> QED BY <3>2 DEF f
  <2>3. Bill(u)' = Bill(u) + x
    BY <1>4, <1>5, <2>1, <2>2 DEF Bill
  <2> HIDE DEF x
  <2>4. Taken(u)' = Advance[u] + Credit[u] - CalcUserBlance(w.purse, u)
    BY DEF Taken, CalcUserBlance
  <2>5. /\ Advance[u] \in Int /\ Credit[u] \in Int /\ CalcUserBlance(purse, u) \in Int
        /\ Taken(u) = Advance[u] + Credit[u] - CalcUserBlance(purse, u)
    <3>1. Advance[u] \in Int /\ Credit[u] \in Int
      BY MasterAssumption
    <3> QED BY <1>1, <3>1 DEF Taken, CalcUserBlance, Purses
  <2>6. CASE /\ CalcUserBlance(w.purse, u) = CalcUserBlance(purse, u) - x
             /\ w.purse[u].pre > 0 => purse[u].pre > 0
    <3> DEFINE a == Advance[u]
               d == Credit[u]
               b == CalcUserBlance(purse, u)
               p == CalcUserBlance(w.purse, u)
    <3>1. /\ Taken(u)' = a + d - p /\ Taken(u) = a + d - b /\ p = b - x
          /\ a \in Int /\ d \in Int /\ b \in Int /\ x \in Int
      BY <2>1, <2>4, <2>5, <2>6
    <3> HIDE DEF a, b, d, p
    <3>2. Taken(u)' = Taken(u) + x
      BY <2>1, <3>1
    <3> QED BY <1>5, <2>1, <2>3, <2>6, <3>2
  <2>7. CASE Rise(w, i) < 0 /\ w.purse = purse /\ ~ (purse[recs[i].usr].pre > 0)
    <3>1. x <= 0 /\ (purse[u].pre > 0 => x = 0)
      <4>1. Rise(w, i) \in Int \/ u # recs[i].usr
        BY <2>1 DEF x
      <4> QED BY <2>7, <4>1 DEF x
    <3>2. Taken(u)' = Taken(u)
      BY <2>4, <2>5, <2>7
    <3> QED BY <1>5, <2>1, <2>3, <2>7, <3>1, <3>2
  <2> QED BY <1>7, <2>6, <2>7 DEF Moved, x
<1> QED BY <1>6, <1>7

\* Nobody bills to the record of a channel that does not bill.
LEMMA NotOpen ==
  ASSUME MInv, NEW c \in Conns, ~ Navigated(chan[c]), chan[c].rec # 0
  PROVE  ~ OpenBill(chan[c].rec)
<1>1. Listed \subseteq Conns
  BY RecsTyped
<1> QED BY <1>1 DEF OpenBill, MInv, Own

\* Balances as functions.
LEMMA CreditAfter ==
  ASSUME NEW u \in Users, NEW x \in Int, purse \in Purses,
         \A d \in Users : CalcUserBlance(purse', d)
                            = CalcUserBlance(purse, d) - (IF d = u THEN x ELSE 0)
  PROVE  TheCredit' = [TheCredit EXCEPT ![u] = @ - x]
<1>1. \A d \in Users : CalcUserBlance(purse, d) \in Int
  BY DEF Purses, CalcUserBlance
<1>2. TheCredit' = [d \in Users |-> CalcUserBlance(purse', d)]
  BY DEF TheCredit, CalcUserBlance
<1>3. TheCredit = [d \in Users |-> CalcUserBlance(purse, d)]
  BY DEF TheCredit
<1> QED BY <1>1, <1>2, <1>3

\* Bill i moves as its record does.
LEMMA MovedBill ==
  ASSUME LInv, MInv', NEW w, NEW i, Moved(w, i), recs' = w.recs, purse' = w.purse,
         Len(recs) <= Len(w.recs),
         \A j \in DOMAIN recs \ {i} : StillOpen(j) <=> OpenBill(j)
  PROVE  /\ OnlyBill(i) /\ FromItsUser(i) /\ i \in DOMAIN TheBills
         /\ RiseOf(i) = Rise(w, i)
<1>1. /\ MInv /\ i \in DOMAIN recs /\ recs[i] \in Rows /\ purse \in Purses
      /\ DOMAIN recs = 1 .. Len(recs) /\ Len(recs) \in Nat
  BY RecsTyped DEF LInv, Moved
<1>2. DOMAIN TheBills = DOMAIN recs /\ DOMAIN TheBills' = DOMAIN recs'
  BY <1>1, BillsAre, BillsAreNext
<1>3. DOMAIN recs \subseteq DOMAIN recs' /\ i \in DOMAIN recs'
  BY <1>1, RecsTypedNext
<1>4. RiseOf(i) = Rise(w, i)
  BY <1>1, <1>3, BillFields DEF RiseOf, Rise
<1>5. OnlyBill(i)
  <2>1. \A j \in DOMAIN recs \ {i} : TheBills'[j] = TheBills[j]
    <3> TAKE j \in DOMAIN recs \ {i}
    <3>1. j \in DOMAIN recs /\ j \in DOMAIN recs' /\ recs'[j] = recs[j]
      BY <1>3 DEF Moved
    <3> QED BY <1>1, <3>1, SameBill
  <2>2. TheBills'[i].user = TheBills[i].user
    BY <1>1, <1>3, BillFields DEF Moved
  <2> QED BY <1>2, <1>3, <2>1, <2>2 DEF OnlyBill
<1>6. Rise(w, i) \in Int /\ TheBills[i].user = recs[i].usr /\ recs[i].usr \in Users
  <2>1. recs'[i] \in Rows
    BY <1>3, RecsTypedNext
  <2> QED BY <1>1, <2>1, Constants, BillFields DEF Rise, Cost, Rows
<1>7. FromItsUser(i)
  <2>1. CASE \A u \in Users :
               CalcUserBlance(w.purse, u)
                 = CalcUserBlance(purse, u) - (IF u = recs[i].usr THEN Rise(w, i) ELSE 0)
    BY <1>1, <1>4, <1>6, <2>1, CreditAfter DEF FromItsUser
  <2>2. CASE Rise(w, i) < 0 /\ w.purse = purse
    <3>1. TheCredit' = TheCredit
      BY <2>2 DEF TheCredit, CalcUserBlance
    <3> QED BY <1>4, <2>2, <3>1 DEF FromItsUser
  <2> QED BY <2>1, <2>2 DEF Moved
<1> QED BY <1>1, <1>2, <1>4, <1>5, <1>7

LEMMA OverStep ==
  ASSUME LInv, NEW c, At(c), budget'.faults = 0,
         NEW w, Sound(c, w), Mine(c, w), Over(c, w), Ends(c, w)
  PROVE  Right
<1> DEFINE i == chan[c].rec
<1>1. /\ MInv /\ MInv' /\ c \in Conns /\ recs' = w.recs /\ purse' = w.purse
      /\ Len(recs) <= Len(w.recs)
  BY EndsStep, OthersStay DEF LInv, At, Sound
<1>2. /\ recs \in Seq(Rows) /\ DOMAIN recs = 1 .. Len(recs) /\ Len(recs) \in Nat
      /\ DOMAIN recs' = 1 .. Len(recs') /\ Len(recs') \in Nat /\ i \in Nat
  BY <1>1, RecsTyped, RecsTypedNext
<1>3. \A j \in DOMAIN recs : w.recs[j].usr = recs[j].usr
  BY DEF Over, Moved
<1>4. AllMine' /\ Unused' /\ (Even => Even')
  BY <1>1, <1>3, StillMine, EvenStep DEF Over, Moved
<1>5. \A j \in DOMAIN recs' :
        StillOpen(j) <=> j # i /\ j \in DOMAIN recs /\ OpenBill(j)
  <2> TAKE j \in DOMAIN recs'
  <2>1. j \in Nat /\ j # 0 /\ (j > Len(recs) <=> j \notin DOMAIN recs)
    BY <1>2
  <2>2. ~ Navigated(w.k)
    BY DEF Over
  <2> QED BY <1>1, <2>1, <2>2, OpenAfter
<1>6. CASE /\ ~ Navigated(chan[c]) /\ w.purse = purse
           /\ \A j \in DOMAIN recs : w.recs[j] = recs[j]
  <2>1. \A j \in DOMAIN recs : j \in DOMAIN recs' /\ (StillOpen(j) <=> OpenBill(j))
    <3> TAKE j \in DOMAIN recs
    <3>1. j \in DOMAIN recs' /\ j # 0
      BY <1>1, <1>2
    <3>2. j = i => ~ OpenBill(j)
      BY <1>1, <1>6, <3>1, NotOpen
    <3> QED BY <1>5, <3>1, <3>2
  <2>2. \A j \in DOMAIN recs' \ DOMAIN recs :
          /\ recs'[j].exp = NoFee /\ recs'[j].saved = NoFee /\ ~ StillOpen(j)
          /\ j = Len(recs) + 1
    BY <1>1, <1>2, <1>5 DEF Over
  <2>3. Saved'
    <3>1. ASSUME NEW j \in DOMAIN recs', recs'[j].exp # recs'[j].saved PROVE StillOpen(j)
      BY <1>1, <1>6, <2>1, <2>2, <3>1 DEF LInv, Saved
    <3> QED BY <3>1 DEF Saved, OpenBill, StillOpen, Navigated
  <2>4. TheCredit' = TheCredit
    BY <1>1, <1>6 DEF TheCredit, CalcUserBlance
  <2>5. \A j \in DOMAIN TheBills : j \in DOMAIN TheBills' /\ TheBills'[j] = TheBills[j]
    <3> TAKE j \in DOMAIN TheBills
    <3>1. j \in DOMAIN recs /\ j \in DOMAIN recs' /\ recs'[j] = recs[j]
      BY <1>1, <1>6, <2>1, BillsAre
    <3> QED BY <1>1, <2>1, <3>1, SameBill, BillsAreNext
  <2>6. CASE Len(w.recs) = Len(recs)
    <3>1. DOMAIN TheBills' = DOMAIN TheBills
      BY <1>1, <1>2, <2>6, BillsAre, BillsAreNext
    <3>2. TheBills' = TheBills
      BY <2>5, <3>1 DEF TheBills
    <3> QED BY <1>1, <1>4, <2>3, <2>4, <3>2 DEF Right, LInv
  <2>7. CASE Len(w.recs) = Len(recs) + 1
    <3> DEFINE n == Len(TheBills')
    <3>1. n = Len(TheBills) + 1 /\ n \in DOMAIN recs' \ DOMAIN recs
      BY <1>1, <1>2, <2>7, BillsAre, BillsAreNext
    <3>2. TheBills'[n].amount = 0 /\ TheBills'[n].kept = 0 /\ ~ TheBills'[n].open
      BY <1>1, <2>2, <3>1, BillFields DEF Cost
    <3>3. Opens
      BY <2>4, <2>5, <3>1, <3>2 DEF Opens, OneMore
    <3> QED BY <1>1, <1>4, <2>3, <3>3 DEF Right, LInv, Keeps
  <2> QED BY <2>6, <2>7 DEF Over
<1>7. CASE Moved(w, i) /\ w.recs[i].exp = w.recs[i].saved
  <2>1. i \in DOMAIN recs /\ i \in DOMAIN recs'
    BY <1>1, <1>2, <1>7 DEF Moved
  <2>2. \A j \in DOMAIN recs \ {i} : j \in DOMAIN recs' /\ (StillOpen(j) <=> OpenBill(j))
    <3> TAKE j \in DOMAIN recs \ {i}
    <3>1. j \in DOMAIN recs'
      BY <1>1, <1>2
    <3> QED BY <1>5, <3>1
  <2>3. \A j \in DOMAIN recs' \ DOMAIN recs :
          /\ recs'[j].exp = NoFee /\ recs'[j].saved = NoFee /\ ~ StillOpen(j)
          /\ j = Len(recs) + 1
    BY <1>1, <1>2, <1>5 DEF Over
  <2>4. Saved'
    <3>1. ASSUME NEW j \in DOMAIN recs', recs'[j].exp # recs'[j].saved PROVE StillOpen(j)
      <4>1. j \in DOMAIN recs /\ j # i
        BY <1>1, <1>7, <2>3, <3>1
      <4>2. recs'[j] = recs[j]
        BY <1>1, <1>7, <4>1 DEF Moved
      <4> QED BY <2>2, <3>1, <4>1, <4>2 DEF LInv, Saved
    <3> QED BY <3>1 DEF Saved, OpenBill, StillOpen, Navigated
  <2>5. OnlyBill(i) /\ FromItsUser(i) /\ i \in DOMAIN TheBills
    BY <1>1, <1>7, <2>2, MovedBill
  <2>6. ~ TheBills'[i].open /\ TheBills'[i].kept = TheBills'[i].amount
    BY <1>1, <1>5, <1>7, <2>1, BillFields
  <2>7. OneMore
    <3>1. CASE Len(w.recs) = Len(recs)
      BY <1>1, <3>1, BillsAre, BillsAreNext DEF OneMore
    <3>2. CASE Len(w.recs) = Len(recs) + 1
      <4> DEFINE n == Len(TheBills')
      <4>1. n = Len(TheBills) + 1 /\ n \in DOMAIN recs' \ DOMAIN recs
        BY <1>1, <1>2, <3>2, BillsAre, BillsAreNext
      <4>2. TheBills'[n].amount = 0 /\ TheBills'[n].kept = 0 /\ ~ TheBills'[n].open
        BY <1>1, <2>3, <4>1, BillFields DEF Cost
      <4> QED BY <4>1, <4>2 DEF OneMore
    <3> QED BY <3>1, <3>2 DEF Over
  <2> QED BY <1>1, <1>4, <2>4, <2>5, <2>6, <2>7 DEF Right, LInv, Keeps, Finishes
<1> QED BY <1>6, <1>7 DEF Over

LEMMA GoingStep ==
  ASSUME LInv, NEW c, At(c), budget'.faults = 0, NEW next \in {<<>>, Tail(todo)},
         NEW w, Sound(c, w), Mine(c, w), Going(c, w), Keep(c, w, next)
  PROVE  Right
<1> DEFINE i == chan[c].rec
<1>1. /\ MInv /\ c \in Conns /\ Ends(c, w) /\ Len(w.recs) = Len(recs) /\ Moved(w, i)
      /\ w.k.rec = i /\ Navigated(w.k) /\ w.recs[i].saved = recs[i].saved
  BY DEF LInv, At, Ends, Going
<1>2. /\ MInv' /\ recs' = w.recs /\ purse' = w.purse
  BY <1>1, EndsStep, OthersStay
<1>3. /\ recs \in Seq(Rows) /\ DOMAIN recs = 1 .. Len(recs) /\ Len(recs) \in Nat
      /\ DOMAIN recs' = 1 .. Len(recs') /\ Len(recs') \in Nat /\ i \in Nat
  BY <1>1, <1>2, RecsTyped, RecsTypedNext
<1>4. /\ i \in DOMAIN recs /\ i # 0 /\ c \in Listed' /\ DOMAIN recs' = DOMAIN recs
      /\ \A j \in DOMAIN recs \ {i} : recs'[j] = recs[j]
  <2>1. list' = list /\ c \in Listed
    BY <1>1, InList DEF Keep
  <2> QED BY <1>1, <1>2, <1>3, <2>1 DEF Moved, Listed
<1>5. \A j \in DOMAIN recs : w.recs[j].usr = recs[j].usr
  BY <1>1 DEF Moved
<1>6. AllMine' /\ Unused' /\ (Even => Even')
  BY <1>1, <1>2, <1>5, StillMine, EvenStep DEF Moved
<1>7. \A j \in DOMAIN recs : StillOpen(j) <=> j = i \/ OpenBill(j)
  <2> TAKE j \in DOMAIN recs
  <2>1. j \in Nat /\ j # 0 /\ ~ (j > Len(recs))
    BY <1>3
  <2> QED BY <1>1, <1>4, <2>1, OpenAfter
<1>8. Saved'
  <2>1. ASSUME NEW j \in DOMAIN recs', recs'[j].exp # recs'[j].saved PROVE StillOpen(j)
    BY <1>4, <1>7, <2>1 DEF LInv, Saved
  <2> QED BY <2>1 DEF Saved, OpenBill, StillOpen, Navigated
<1>9. OnlyBill(i) /\ FromItsUser(i) /\ i \in DOMAIN TheBills /\ RiseOf(i) = Rise(w, i)
  BY <1>1, <1>2, <1>7, MovedBill
<1>10. /\ TheBills'[i].open /\ TheBills'[i].kept = TheBills[i].kept
       /\ TheBills[i].user = recs[i].usr /\ Len(TheBills') = Len(TheBills)
  BY <1>1, <1>2, <1>4, <1>7, BillFields, BillsAre, BillsAreNext
<1>11. TheCredit[recs[i].usr] = CalcUserBlance(purse, recs[i].usr)
  <2>1. recs[i] \in Rows
    BY <1>1, <1>4, RecsTyped
  <2>2. recs[i].usr \in Users
    BY <2>1 DEF Rows
  <2> QED BY <2>2 DEF TheCredit
<1>12. Runs(i)
  BY <1>9, <1>10, <1>11 DEF Runs, Going
<1> QED BY <1>2, <1>6, <1>8, <1>9, <1>12 DEF Right, LInv, Keeps

-----------------------------------------------------------------------------
(* What a visit does *)

\* What the visit may look like before it has written anything, and after the old task
\* was completed.
Begun(c, w) == /\ Sound(c, w) /\ Mine(c, w) /\ Untouched(w) /\ w.k.rec = chan[c].rec
               /\ Navigated(w.k) \/ ~ Navigated(chan[c])
Settled(c, w) == Sound(c, w) /\ Mine(c, w) /\ Over(c, w)

\* What the client is told is no matter of the books.
LEMMA ToldKeeps ==
  ASSUME NEW c \in Conns, NEW w, NEW state \in {"refused", "bound"},
         state = "bound" => Paying(w.k), Begun(c, w) \/ Settled(c, w)
  PROVE  LET v == Told(w, state) IN
         /\ v.k = w.k /\ v.recs = w.recs /\ v.purse = w.purse
         /\ Begun(c, w) => Begun(c, v)
         /\ Settled(c, w) => Settled(c, v)
<1> DEFINE said == IF w.client = "gone" THEN "gone" ELSE state
           v    == [w EXCEPT !.client = said]
<1>1. w \in Worlds /\ Sound(c, w) /\ Mine(c, w)
  BY DEF Begun, Settled, Sound
<1>2. Told(w, state) = v
  BY <1>1 DEF Told, Worlds
<1>3. Sound(c, v)
  BY <1>1, <1>2, ToldSound DEF States
<1>4. said # "none"
  OBVIOUS
<1> HIDE DEF said
<1>5. /\ v.k = w.k /\ v.recs = w.recs /\ v.purse = w.purse /\ v.in = w.in
      /\ v.thrown = w.thrown /\ v.client = said
  BY <1>1 DEF Worlds
<1> HIDE DEF v
<1>6. Mine(c, v)
  BY <1>1, <1>4, <1>5 DEF Mine
<1>7. Begun(c, w) => Begun(c, v)
  BY <1>3, <1>5, <1>6 DEF Begun, Untouched
<1>8. Settled(c, w) => Settled(c, v)
  BY <1>3, <1>5, <1>6 DEF Settled, Over, Moved, Rise
<1> QED BY <1>2, <1>5, <1>7, <1>8

LEMMA SettledStep ==
  ASSUME LInv, NEW c, At(c), budget'.faults = 0, NEW next \in {<<>>, Tail(todo)},
         NEW w, Settled(c, w), Keep(c, w, next) \/ Delete(c, w, next)
  PROVE  Right
BY OverStep DEF Settled, Ends

\* A call that is completed is settled.
LEMMA CompletedSettled ==
  ASSUME LInv, NEW c \in Conns, NEW w, Begun(c, w),
         NEW v, v = IF Navigated(w.k) THEN CompleteTask(w, FALSE) ELSE w
  PROVE  /\ Settled(c, v) /\ ~ v.k.nav /\ Len(v.recs) = Len(recs) /\ ~ v.thrown
         /\ v.in = w.in /\ v.client = w.client
         /\ v.k.rec = w.k.rec /\ v.k.usr = w.k.usr /\ v.k.fee = w.k.fee
<1>1. /\ MInv /\ Sound(c, w) /\ Mine(c, w) /\ Untouched(w) /\ w.k.rec = chan[c].rec
      /\ Navigated(w.k) \/ ~ Navigated(chan[c])
  BY DEF LInv, Begun
<1>2. CASE Navigated(w.k)
  <2>1. /\ Mine(c, v) /\ Moved(v, w.k.rec) /\ ~ v.k.nav /\ v.in = w.in /\ v.client = w.client
        /\ v.k.rec = w.k.rec /\ v.k.usr = w.k.usr /\ v.k.fee = w.k.fee
        /\ Len(v.recs) = Len(recs) /\ v.recs[w.k.rec].exp = v.recs[w.k.rec].saved
    BY <1>1, <1>2, Completed
  <2>2. Sound(c, v)
    BY <1>1, <1>2, FALSE \in BOOLEAN, CompletedSound
  <2>3. Over(c, v) /\ ~ v.thrown
    BY <1>1, <2>1 DEF Over, Navigated, Mine
  <2> QED BY <2>1, <2>2, <2>3 DEF Settled
<1>3. CASE ~ Navigated(w.k)
  <2>1. ~ w.k.nav /\ ~ w.thrown /\ Len(w.recs) = Len(recs)
    BY <1>1, <1>3 DEF Mine, Navigated, Untouched
  <2>2. Over(c, w)
    BY <1>1, <1>3, <2>1 DEF Over, Untouched
  <2> QED BY <1>1, <1>3, <2>1, <2>2 DEF Settled
<1> QED BY <1>2, <1>3

LEMMA DisconnectRight ==
  ASSUME LInv, NEW c, At(c), budget'.faults = 0, NEW next \in {<<>>, Tail(todo)},
         NEW w, Begun(c, w) \/ (Settled(c, w) /\ ~ w.thrown), Disconnect(c, w, next, FALSE)
  PROVE  Right
<1> DEFINE v == IF Navigated(w.k) THEN CompleteTask(w, FALSE) ELSE w
<1>1. Settled(c, v) /\ ~ v.thrown
  <2>1. CASE Begun(c, w)
    BY <2>1, CompletedSettled DEF At
  <2>2. CASE Settled(c, w) /\ ~ w.thrown
    BY <2>2 DEF Settled, Over
  <2> QED BY <2>1, <2>2
<1>2. Delete(c, v, next)
  BY <1>1 DEF Disconnect
<1> HIDE DEF v
<1> QED BY <1>1, <1>2, SettledStep

LEMMA SteppedBegun ==
  ASSUME NEW c \in Conns, NEW w, Begun(c, w), Navigated(w.k)
  PROVE  LET u == Stepped(w) IN
         Begun(c, u) /\ Paying(u.k) /\ Navigated(u.k) /\ u.k.rec = w.k.rec
<1> DEFINE n == IF w.k.paid = Never THEN 0 ELSE w.k.paid + w.k.fee.rule
           k == [w.k EXCEPT !.paid = n]
           u == Stepped(w)
<1>1. /\ w \in Worlds /\ w.k \in Channels /\ Paying(w.k)
      /\ Sound(c, w) /\ Mine(c, w) /\ Untouched(w) /\ w.k.rec = chan[c].rec
  BY DEF Begun, Sound, Worlds, Entitled, Navigated
<1>2. u = [w EXCEPT !.k = k]
  BY <1>1 DEF Stepped, Worlds, Channels
<1>3. /\ k.rec = w.k.rec /\ k.nav = w.k.nav /\ k.conn = w.k.conn /\ k.usr = w.k.usr
  BY <1>1 DEF Channels
<1>4. Sound(c, u) /\ Paying(u.k)
  BY <1>1, SteppedSound
<1> HIDE DEF k
<1>5. /\ u.k = k /\ u.recs = w.recs /\ u.purse = w.purse /\ u.in = w.in
      /\ u.thrown = w.thrown /\ u.client = w.client
  BY <1>1, <1>2 DEF Worlds
<1> HIDE DEF u
<1>6. Mine(c, u)
  BY <1>1, <1>3, <1>5 DEF Mine
<1>7. Begun(c, u) /\ Paying(u.k) /\ Navigated(u.k) /\ u.k.rec = w.k.rec
  BY <1>1, <1>3, <1>4, <1>5, <1>6 DEF Begun, Untouched, Navigated
<1> QED BY <1>7 DEF u

\* The unit a call has come to is charged: what the user has is enough.
LEMMA ChargedRight ==
  ASSUME LInv, NEW c, At(c), budget'.faults = 0, NEW next \in {<<>>, Tail(todo)},
         NEW w, Begun(c, w), Navigated(w.k), CanPay(w), Keep(c, Charged(w, FALSE), next)
  PROVE  Right
<1> DEFINE price == CalcExpense(w.k.fee, NLength(w.k) + 1)
           u     == Stepped(w)
           v     == Charged(w, FALSE)
           i     == w.k.rec
<1>1. /\ MInv /\ c \in Conns /\ w \in Worlds /\ w.k \in Channels /\ Paying(w.k)
      /\ Sound(c, w) /\ Mine(c, w) /\ Untouched(w) /\ w.k.rec = chan[c].rec
  BY DEF LInv, At, Begun, Sound, Worlds, Entitled, Navigated
<1>2. price \in Nat
  <2>1. NLength(w.k) + 1 \in Nat
    BY <1>1, Constants DEF Channels, NLength
  <2> QED BY <1>1, <2>1, CostIsNat DEF Paying
<1>3. Begun(c, u) /\ Paying(u.k) /\ Navigated(u.k) /\ u.k.rec = i
  BY <1>1, SteppedBegun
<1>4. v = WriteExpense(u, price, FALSE, FALSE)
  BY DEF Charged
<1>5. Spent(u) = Spent(w)
  BY <1>1, <1>3 DEF Spent, Begun, Untouched
<1> HIDE DEF price
<1>6. Wrote(c, u, v, price, FALSE)
  BY <1>1, <1>2, <1>3, <1>4, FALSE \in BOOLEAN, Written DEF Begun
<1>7. Sound(c, v)
  BY <1>1, <1>2, <1>3, <1>4, price \in Int, FALSE \in BOOLEAN, WrittenSound DEF Begun
<1>8. price - Spent(w) <= CalcUserBlance(purse, recs[i].usr)
  <2>1. w.k.usr = recs[i].usr
    BY <1>1 DEF Mine, Paying, Untouched
  <2> QED BY <1>1, <2>1 DEF CanPay, price, Untouched
<1> HIDE DEF u, v
<1>9. Going(c, v)
  <2>1. Navigated(v.k) /\ v.k.rec = i /\ Moved(v, i) /\ Len(v.recs) = Len(recs)
        /\ v.recs[i].saved = recs[i].saved /\ Rise(v, i) = price - Spent(w)
    BY <1>3, <1>5, <1>6 DEF Wrote
  <2> QED BY <1>1, <1>8, <2>1 DEF Going
<1>10. Mine(c, v) /\ Keep(c, v, next)
  BY <1>6 DEF Wrote, v
<1> QED BY <1>7, <1>9, <1>10, GoingStep

\* OnTime, of a channel that was not written to yet or has nothing to bill any more.
LEMMA OnTimeRight ==
  ASSUME LInv, NEW c, At(c), budget'.faults = 0,
         NEW w, Begun(c, w) \/ (Settled(c, w) /\ ~ w.thrown), OnTime(c, w, FALSE)
  PROVE  Right
<1>1. c \in Conns /\ MInv /\ Sound(c, w) /\ Mine(c, w)
      /\ <<>> \in {<<>>, Tail(todo)} /\ Tail(todo) \in {<<>>, Tail(todo)}
  BY DEF LInv, At, Begun, Settled
<1>2. ASSUME NEW v, Begun(c, v) \/ (Settled(c, v) /\ ~ v.thrown),
             Disconnect(c, Told(v, "refused"), <<>>, FALSE)
      PROVE  Right
  <2>1. Begun(c, Told(v, "refused"))
        \/ (Settled(c, Told(v, "refused")) /\ ~ Told(v, "refused").thrown)
    <3>1. /\ Begun(c, v) => Begun(c, Told(v, "refused"))
          /\ Settled(c, v) => Settled(c, Told(v, "refused"))
      BY <1>1, <1>2, "refused" \in {"refused", "bound"}, "refused" # "bound", ToldKeeps
    <3> QED BY <1>2, <3>1 DEF Settled, Mine
  <2> QED BY <1>1, <1>2, <2>1, DisconnectRight
<1>3. CASE Late(w.k)
  BY <1>2, <1>3 DEF OnTime
<1>4. CASE ~ Late(w.k) /\ ~ (Navigated(w.k) /\ Due(w.k))
  <2>1. Keep(c, w, Tail(todo))
    BY <1>4 DEF OnTime
  <2>2. CASE Settled(c, w)
    BY <1>1, <2>1, <2>2, SettledStep
  <2>3. CASE Begun(c, w) /\ ~ Navigated(w.k)
    <3>1. Settled(c, w)
      BY <1>1, <2>3, CompletedSettled
    <3> QED BY <1>1, <2>1, <3>1, SettledStep
  <2>4. CASE Begun(c, w) /\ Navigated(w.k)
    <3>1. w.k.rec \in DOMAIN recs /\ w.recs = recs /\ w.k.rec = chan[c].rec /\ Untouched(w)
      BY <1>1, <2>4, InTable DEF Begun, Sound, Entitled, Navigated, Paying, Untouched
    <3>2. Moved(w, w.k.rec) /\ Rise(w, w.k.rec) = 0
      BY <1>1, <3>1, Unmoved
    <3>3. Going(c, w)
      BY <2>4, <3>1, <3>2 DEF Going
    <3> QED BY <1>1, <2>1, <3>3, GoingStep
  <2> QED BY <2>2, <2>3, <2>4
<1>5. CASE ~ Late(w.k) /\ Navigated(w.k) /\ Due(w.k)
  <2>1. Begun(c, w)
    BY <1>5 DEF Settled, Over
  <2>2. w.k.usr # None
    <3>1. Paying(w.k) /\ w.recs[w.k.rec] \in Rows
      BY <1>1, <1>5, InTable DEF Sound, Entitled, Navigated, Paying
    <3> QED BY <1>1, <3>1, Constants DEF Mine, Paying, Rows
  <2>3. CASE CanPay(w)
    <3>1. PICK next \in {<<>>, Tail(todo)} : Keep(c, Charged(w, FALSE), next)
      BY <1>5, <2>2, <2>3 DEF OnTime
    <3> QED BY <1>5, <2>1, <2>3, <3>1, ChargedRight
  <2>4. CASE ~ CanPay(w)
    <3>1. Disconnect(c, Told(Stepped(w), "refused"), <<>>, FALSE)
      BY <1>5, <2>2, <2>4 DEF OnTime
    <3> QED BY <1>1, <1>2, <1>5, <2>1, <3>1, SteppedBegun
  <2> QED BY <2>3, <2>4
<1> QED BY <1>3, <1>4, <1>5

LEMMA TalkRight ==
  ASSUME LInv, NEW c, At(c), budget'.faults = 0,
         NEW w, Begun(c, w), Paying(w.k), OnTalkPacket(c, w, FALSE)
  PROVE  Right
<1>1. CASE Navigated(w.k)
  BY <1>1, OnTimeRight DEF OnTalkPacket
<1>2. CASE ~ Navigated(w.k)
  <2> DEFINE k == [w.k EXCEPT !.nav = TRUE, !.conn = TRUE, !.paid = Never, !.age = 0]
             v == [w EXCEPT !.k = k]
  <2>1. w \in Worlds /\ w.k \in Channels /\ c \in Conns /\ 0 \in 0 .. AgeCap
    BY Constants DEF Begun, Sound, Worlds, At
  <2>2. /\ k \in Channels /\ k.rec = w.k.rec /\ k.fee = w.k.fee /\ k.usr = w.k.usr
        /\ k.nav /\ k.conn
    BY <2>1 DEF Channels
  <2>3. OnTime(c, v, FALSE)
    <3>1. [w EXCEPT !.k.nav = TRUE, !.k.conn = TRUE, !.k.paid = Never, !.k.age = 0] = v
      BY <2>1 DEF Worlds
    <3> QED BY <1>2, <3>1 DEF OnTalkPacket
  <2> HIDE DEF k
  <2>4. Paying(k)
    BY <2>2 DEF Paying
  <2>5. Sound(c, v)
    BY <2>1, <2>2, <2>4, ChannelSound DEF Begun
  <2>6. /\ v.k = k /\ v.recs = w.recs /\ v.purse = w.purse /\ v.in = w.in
        /\ v.thrown = w.thrown /\ v.client = w.client
    BY <2>1 DEF Worlds
  <2> HIDE DEF v
  <2>7. Mine(c, v)
    BY <2>2, <2>6 DEF Begun, Mine
  <2>8. Begun(c, v)
    BY <2>2, <2>5, <2>6, <2>7 DEF Begun, Untouched, Navigated
  <2> QED BY <2>3, <2>8, OnTimeRight
<1> QED BY <1>1, <1>2

\* The rows the channel holds are replaced by its own user's.
HoldsOwn(c, w, t, v) == v = [w EXCEPT !.k = [w.k EXCEPT !.usr = Bearer(party[c]), !.fee = t]]

LEMMA OwnRow ==
  ASSUME NEW c \in Conns, NEW w, w \in Worlds, Mine(c, w),
         Bearer(party[c]) \in Users \union {None}, NEW t \in Tariffs \union {NoTariff},
         NEW v, HoldsOwn(c, w, t, v), Sound(c, v)
  PROVE  /\ v.k.usr = Bearer(party[c]) /\ v.k.fee = t /\ v.k.nav = w.k.nav /\ v.k.conn = w.k.conn
         /\ v.k.rec = w.k.rec /\ v.recs = w.recs /\ v.purse = w.purse /\ v.thrown = w.thrown
         /\ v.in = w.in /\ v.client = w.client
         /\ Begun(c, w) => Begun(c, v)
         /\ Settled(c, w) => Settled(c, v)
<1> DEFINE k == [w.k EXCEPT !.usr = Bearer(party[c]), !.fee = t]
<1>1. w.k \in Channels
  BY DEF Worlds
<1>2. /\ k.usr = Bearer(party[c]) /\ k.fee = t /\ k.nav = w.k.nav /\ k.conn = w.k.conn
      /\ k.rec = w.k.rec
  BY <1>1 DEF Channels
<1> HIDE DEF k
<1>3. /\ v.k = k /\ v.recs = w.recs /\ v.purse = w.purse /\ v.in = w.in
      /\ v.thrown = w.thrown /\ v.client = w.client
  BY DEF Worlds, k, HoldsOwn
<1>4. Mine(c, v)
  BY <1>2, <1>3 DEF Mine
<1>5. Begun(c, w) => Begun(c, v)
  BY <1>2, <1>3, <1>4 DEF Begun, Untouched, Navigated
<1>6. Settled(c, w) => Settled(c, v)
  BY <1>2, <1>3, <1>4 DEF Settled, Over, Navigated, Moved, Rise
<1> QED BY <1>2, <1>3, <1>5, <1>6

\* The record of the new call, and the answer that it is accepted.
LEMMA AddedSettled ==
  ASSUME LInv, NEW c \in Conns, NEW w, Settled(c, w), ~ w.k.nav, Len(w.recs) = Len(recs),
         w.k.usr = Bearer(party[c]), Bearer(party[c]) \in Users, w.k.fee \in Tariffs
  PROVE  Settled(c, AddExpense(w)) /\ ~ AddExpense(w).k.nav /\ Paying(AddExpense(w).k)
<1> DEFINE row == [usr |-> w.k.usr, exp |-> NoFee, saved |-> NoFee]
           n   == Len(w.recs) + 1
           k   == [w.k EXCEPT !.rec = n]
           all == Append(w.recs, row)
           v   == AddExpense(w)
<1>1. w \in Worlds /\ w.k \in Channels /\ w.recs \in Seq(Rows) /\ Sound(c, w) /\ Mine(c, w)
      /\ Over(c, w) /\ w.k.rec \in Nat /\ ~ w.thrown
  BY DEF Settled, Sound, Worlds, Channels, Mine
<1>2. Sound(c, v) /\ Paying(v.k)
  BY <1>1, AddedSound
<1>3. v = [w EXCEPT !.recs = all, !.k = k]
  BY <1>1 DEF AddExpense, Worlds, Channels
<1>4. /\ Len(all) = Len(recs) + 1 /\ all[n] = row /\ \A j \in 1 .. Len(w.recs) : all[j] = w.recs[j]
      /\ n = Len(recs) + 1 /\ Len(w.recs) \in Nat
  BY <1>1
<1>5. k.rec = n /\ k.usr = Bearer(party[c]) /\ ~ k.nav /\ k.conn = w.k.conn
  BY <1>1 DEF Channels
<1> HIDE DEF all, k, n
<1>6. /\ v.k = k /\ v.recs = all /\ v.purse = w.purse /\ v.in = w.in
      /\ v.thrown = w.thrown /\ v.client = w.client
  BY <1>1, <1>3 DEF Worlds
<1> HIDE DEF v
<1>7. Mine(c, v)
  BY <1>1, <1>4, <1>5, <1>6 DEF Mine
<1>8. Over(c, v)
  <2>1. \A j \in DOMAIN recs : j \in 1 .. Len(w.recs)
    BY RecsTyped DEF LInv
  <2> QED BY <1>1, <1>4, <1>5, <1>6, <2>1 DEF Over, Navigated, Moved, Rise
<1> QED BY <1>2, <1>5, <1>6, <1>7, <1>8 DEF Settled, v

LEMMA AcceptedSettled ==
  ASSUME NEW c \in Conns, NEW w, Settled(c, w), ~ w.k.nav, Paying(w.k)
  PROVE  Settled(c, Accepted(w)) /\ ~ Accepted(w).thrown
<1> DEFINE k == [w.k EXCEPT !.conn = TRUE, !.age = 0]
           v == [w EXCEPT !.k = k]
<1>1. w \in Worlds /\ w.k \in Channels /\ 0 \in 0 .. AgeCap /\ Sound(c, w) /\ Mine(c, w)
      /\ Over(c, w)
  BY Constants DEF Settled, Sound, Worlds
<1>2. k \in Channels /\ k.rec = w.k.rec /\ k.fee = w.k.fee /\ k.usr = w.k.usr /\ ~ k.nav
  BY <1>1 DEF Channels
<1>3. Accepted(w) = Told(v, "bound")
  <2>1. [w EXCEPT !.k.conn = TRUE, !.k.age = 0] = v
    BY <1>1 DEF Worlds
  <2> QED BY <2>1 DEF Accepted
<1> HIDE DEF k
<1>4. Paying(k)
  BY <1>2 DEF Paying
<1>5. Sound(c, v)
  BY <1>1, <1>2, <1>4, ChannelSound
<1>6. /\ v.k = k /\ v.recs = w.recs /\ v.purse = w.purse /\ v.in = w.in
      /\ v.thrown = w.thrown /\ v.client = w.client
  BY <1>1 DEF Worlds
<1> HIDE DEF v
<1>7. Settled(c, v)
  BY <1>1, <1>2, <1>5, <1>6 DEF Settled, Mine, Over, Navigated, Moved, Rise
<1>8. Settled(c, Told(v, "bound"))
  BY <1>4, <1>6, <1>7, "bound" \in {"refused", "bound"}, ToldKeeps
<1> QED BY <1>3, <1>8 DEF Settled, Mine

LEMMA LookedUpRight ==
  ASSUME NEW c \in Conns, NEW w, Settled(c, w), NEW p \in BindPackets,
         Lookup(Payer(p)) = Bearer(party[c]), Bearer(party[c]) \in Users \union {None},
         p.kind = "CATK" => Lookup(p.remote) = Bearer(party[c]),
         NEW v, v = LookedUp(w, p)
  PROVE  /\ Settled(c, v) /\ v.k.nav = w.k.nav /\ v.recs = w.recs
         /\ p.fee # NoTariff => v.k.usr = Bearer(party[c]) /\ v.k.fee \in Tariffs
<1>1. Sound(c, v) /\ (p.fee # NoTariff => v.k.fee \in Tariffs)
  BY LookedUpSound DEF Settled
<1>2. /\ w \in Worlds /\ Mine(c, w) /\ w.k \in Channels
      /\ w.k.fee \in Tariffs \union {NoTariff} /\ p.fee \in Tariffs \union {NoTariff}
  BY DEF Settled, Sound, Worlds, Channels, BindPackets
<1> DEFINE own(t) == [w EXCEPT !.k = [w.k EXCEPT !.usr = Bearer(party[c]), !.fee = t]]
<1>3. \/ v = w /\ p.fee = NoTariff
      \/ v = own(w.k.fee) /\ p.fee = NoTariff
      \/ v = own(p.fee)
  <2>1. [w.k EXCEPT !.usr = Bearer(party[c])]
          = [w.k EXCEPT !.usr = Bearer(party[c]), !.fee = w.k.fee]
    BY <1>2 DEF Channels
  <2>2. /\ [w EXCEPT !.k.usr = Bearer(party[c])]
             = [w EXCEPT !.k = [w.k EXCEPT !.usr = Bearer(party[c])]]
        /\ [w EXCEPT !.k.usr = Bearer(party[c]), !.k.fee = p.fee] = own(p.fee)
    BY <1>2 DEF Worlds
  <2>3. \/ v = w /\ p.fee = NoTariff
        \/ v = [w EXCEPT !.k.usr = Bearer(party[c])] /\ p.fee = NoTariff
        \/ v = [w EXCEPT !.k.usr = Bearer(party[c]), !.k.fee = p.fee]
    BY DEF LookedUp
  <2> QED BY <2>1, <2>2, <2>3
<1>4. ASSUME NEW t \in Tariffs \union {NoTariff}, v = own(t)
      PROVE  Settled(c, v) /\ v.k.nav = w.k.nav /\ v.recs = w.recs /\ v.k.usr = Bearer(party[c])
  <2>1. HoldsOwn(c, w, t, v)
    BY <1>4 DEF HoldsOwn
  <2> HIDE DEF own
  <2> QED BY <1>1, <1>2, <2>1, OwnRow
<1> HIDE DEF own
<1> QED BY <1>1, <1>2, <1>3, <1>4

\* BIND: the old call is settled, whatever becomes of the new one.
LEMMA BindRight ==
  ASSUME Plain, LInv, NEW c, At(c), budget'.faults = 0,
         NEW w0, Begun(c, w0), NEW p \in Binds, p.remote = party[c],
         OnBindPacket(c, w0, p, FALSE)
  PROVE  Right
<1> DEFINE w1 == Announced(w0, p)
           w2 == IF Navigated(w1.k) THEN CompleteTask(w1, FALSE) ELSE w1
           w3 == LookedUp(w2, p)
           w4 == AddExpense(w3)
<1>1. /\ c \in Conns /\ p \in BindPackets
      /\ p.fee \in Tariffs \union {NoTariff} /\ Sound(c, w0) /\ Mine(c, w0) /\ w0 \in Worlds
      /\ w0.k.fee \in Tariffs \union {NoTariff} /\ MInv
      /\ <<>> \in {<<>>, Tail(todo)}
  BY PacketKinds DEF At, Begun, Sound, Worlds, Channels, BindPackets, LInv
<1>2. /\ Lookup(Payer(p)) = Bearer(party[c]) /\ Bearer(party[c]) \in Users \union {None}
      /\ p.kind = "CATK" => Lookup(p.remote) = Bearer(party[c])
  <2> DEFINE q == CHOOSE q \in Binds : q.remote = party[c]
  <2>1. q \in Binds /\ q.remote = party[c]
    OBVIOUS
  <2> HIDE DEF q
  <2>2. Payer(p) = Payer(q) /\ (p.kind = "CATK" => Payer(p) = p.remote)
    BY <2>1 DEF Plain
  <2>3. Bearer(party[c]) = Lookup(Payer(q))
    BY DEF Bearer, q
  <2>4. Payer(p) \in Users \union {None}
    BY <1>1 DEF Payer, BindPackets
  <2> QED BY <2>2, <2>3, <2>4, UserFound
<1>3. IF Navigated(w1.k) /\ ~ Direct(p) THEN OnTime(c, w1, FALSE)
      ELSE IF w2.thrown THEN Keep(c, w2, <<>>)
      ELSE IF p.fee = NoTariff \/ w3.k.usr = None THEN Refuse(c, w3)
      ELSE IF MustWait(w3, p) \/ NoPay(w3) THEN Refuse(c, w3)
      ELSE IF p.remote \in Denied THEN Refuse(c, w4)
      ELSE OnTime(c, Accepted(w4), FALSE)
  BY DEF OnBindPacket
<1>4. Begun(c, w1)
  <2>1. Sound(c, w1)
    BY <1>1, AnnouncedSound
  <2>2. \/ w1 = w0
        \/ w1 = [w0 EXCEPT !.k = [w0.k EXCEPT !.usr = Bearer(party[c]), !.fee = w0.k.fee]]
    <3>1. [w0.k EXCEPT !.usr = Bearer(party[c])]
            = [w0.k EXCEPT !.usr = Bearer(party[c]), !.fee = w0.k.fee]
      BY <1>1 DEF Worlds, Channels
    <3>2. w1 = w0 \/ w1 = [w0 EXCEPT !.k.usr = Bearer(party[c])]
      BY <1>2 DEF Announced
    <3>3. [w0 EXCEPT !.k.usr = Bearer(party[c])]
            = [w0 EXCEPT !.k = [w0.k EXCEPT !.usr = Bearer(party[c])]]
      BY <1>1 DEF Worlds
    <3> QED BY <3>1, <3>2, <3>3
  <2> HIDE DEF w1
  <2>3. w1 = w0 \/ HoldsOwn(c, w0, w0.k.fee, w1)
    BY <2>2 DEF HoldsOwn
  <2> QED BY <1>1, <1>2, <2>1, <2>3, OwnRow
<1> HIDE DEF w1
<1>5. Settled(c, w2) /\ ~ w2.k.nav /\ Len(w2.recs) = Len(recs) /\ ~ w2.thrown
  BY <1>1, <1>4, CompletedSettled
<1> HIDE DEF w2
<1>6. /\ Settled(c, w3) /\ ~ w3.k.nav /\ Len(w3.recs) = Len(recs)
      /\ p.fee # NoTariff => w3.k.usr = Bearer(party[c]) /\ w3.k.fee \in Tariffs
  <2>1. w3 = LookedUp(w2, p)
    OBVIOUS
  <2> HIDE DEF w3
  <2> QED BY <1>1, <1>2, <1>5, <2>1, LookedUpRight
<1> HIDE DEF w3
<1>7. ASSUME NEW w, Settled(c, w), Refuse(c, w) PROVE Right
  <2>1. Settled(c, Told(w, "refused"))
    BY <1>1, <1>7, "refused" \in {"refused", "bound"}, "refused" # "bound", ToldKeeps
  <2> QED BY <1>1, <1>7, <2>1, SettledStep DEF Refuse
<1>8. CASE Navigated(w1.k) /\ ~ Direct(p)
  BY <1>3, <1>4, <1>8, OnTimeRight
<1>9. CASE /\ ~ (Navigated(w1.k) /\ ~ Direct(p))
           /\ p.fee = NoTariff \/ w3.k.usr = None \/ MustWait(w3, p) \/ NoPay(w3)
  BY <1>3, <1>5, <1>6, <1>7, <1>9
<1>10. CASE /\ ~ (Navigated(w1.k) /\ ~ Direct(p))
            /\ ~ (p.fee = NoTariff \/ w3.k.usr = None \/ MustWait(w3, p) \/ NoPay(w3))
  <2>1. Settled(c, w4) /\ ~ w4.k.nav /\ Paying(w4.k)
    BY <1>1, <1>2, <1>6, <1>10, AddedSettled
  <2> HIDE DEF w4
  <2>2. Settled(c, Accepted(w4)) /\ ~ Accepted(w4).thrown
    BY <1>1, <2>1, AcceptedSettled
  <2> QED BY <1>3, <1>5, <1>7, <1>10, <2>1, <2>2, OnTimeRight
<1> QED BY <1>8, <1>9, <1>10

-----------------------------------------------------------------------------
(* The thread *)

LEMMA WorldBegun ==
  ASSUME LInv, NEW c \in Conns PROVE Begun(c, World(c))
<1>1. Sound(c, World(c)) /\ Mine(c, World(c))
  BY WorldSound DEF LInv, AllMine
<1>2. World(c).recs = recs /\ World(c).purse = purse /\ World(c).k = chan[c]
  BY DEF World
<1> QED BY <1>1, <1>2 DEF Begun, Untouched

\* What c's visit works on once FD_CLOSE or a packet has been taken.
LEMMA TakenBegun ==
  ASSUME LInv, NEW c \in Conns, NEW w, Sound(c, w), w.k = chan[c], w.recs = recs,
         w.purse = purse, w.thrown = FALSE, w.client = client[c],
         w.in = inbox[c] \/ (inbox[c] # <<>> /\ w.in = Tail(inbox[c]))
  PROVE  Begun(c, w)
<1>1. /\ inbox[c] \in Seq(Packets)
      /\ \A i \in DOMAIN inbox[c] : inbox[c][i].cmd = "bind" => inbox[c][i].remote = party[c]
      /\ client[c] = "none" => inbox[c] = <<>>
      /\ c \in Listed => client[c] # "none"
      /\ chan[c].nav => chan[c].conn
      /\ chan[c].rec # 0 => /\ chan[c].usr = Bearer(party[c])
                            /\ recs[chan[c].rec].usr = Bearer(party[c])
  BY DEF LInv, MInv, TypeOK, AllMine, Mine, World
<1>2. \A i \in DOMAIN w.in : w.in[i].cmd = "bind" => w.in[i].remote = party[c]
  <2>1. inbox[c] # <<>> => \A i \in DOMAIN Tail(inbox[c]) :
          i + 1 \in DOMAIN inbox[c] /\ Tail(inbox[c])[i] = inbox[c][i + 1]
    BY <1>1
  <2>2. CASE w.in = inbox[c]
    BY <1>1, <2>2
  <2>3. CASE inbox[c] # <<>> /\ w.in = Tail(inbox[c])
    BY <1>1, <2>1, <2>3
  <2> QED BY <2>2, <2>3
<1>3. w.in = <<>> \/ inbox[c] # <<>>
  OBVIOUS
<1>4. Mine(c, w)
  BY <1>1, <1>2, <1>3 DEF Mine
<1> QED BY <1>4 DEF Begun, Untouched

LEMMA VisitRight ==
  ASSUME Plain, LInv, NEW c \in Conns, Visit(c) PROVE Right
<1>1. /\ HungUp(c, FALSE) \/ Read(c, FALSE) \/ Quiet(c, FALSE)
      /\ budget' = budget
  <2>1. PICK fault \in BOOLEAN :
          /\ IF fault THEN Spend("faults") ELSE UNCHANGED budget
          /\ HungUp(c, fault) \/ Read(c, fault) \/ Quiet(c, fault)
    BY DEF Visit
  <2>2. ~ Spend("faults")
    BY DEF Spend, LInv
  <2>3. fault = FALSE
    BY <2>1, <2>2
  <2> QED BY <2>1, <2>3
<1>2. At(c) /\ budget'.faults = 0 /\ MInv /\ <<>> \in {<<>>, Tail(todo)}
  BY <1>1, LimitsHold DEF Visit, At, Limits, LInv
<1>3. World(c) \in Worlds /\ Sound(c, World(c)) /\ World(c).k = chan[c] /\ World(c).recs = recs
      /\ World(c).purse = purse /\ World(c).thrown = FALSE /\ World(c).client = client[c]
      /\ World(c).in = inbox[c]
  BY <1>2, WorldSound DEF Sound, World
<1>4. CASE HungUp(c, FALSE)
  <2> DEFINE w == [World(c) EXCEPT !.closed = TRUE]
  <2>1. /\ w \in Worlds /\ w.k = World(c).k /\ w.in = World(c).in
        /\ w.client = World(c).client /\ w.recs = World(c).recs
        /\ w.purse = World(c).purse /\ w.thrown = World(c).thrown
    BY <1>3 DEF Worlds
  <2>2. Disconnect(c, w, <<>>, FALSE)
    BY <1>4 DEF HungUp
  <2> HIDE DEF w
  <2>3. Begun(c, w)
    BY <1>3, <2>1, SoundMoney, TakenBegun
  <2> QED BY <1>2, <2>2, <2>3, DisconnectRight
<1>5. CASE Read(c, FALSE)
  <2> DEFINE p == Head(inbox[c])
             w == [World(c) EXCEPT !.in = Tail(@)]
  <2>1. Sound(c, w) /\ (p = Talk => Paying(w.k)) /\ p \in Packets /\ inbox[c] # <<>>
    BY <1>2, <1>5, ReadSound DEF Read
  <2>2. /\ p.cmd = "bind" => OnBindPacket(c, w, p, FALSE)
        /\ p.cmd = "talk" => OnTalkPacket(c, w, FALSE)
        /\ p.cmd = "bye"  => Disconnect(c, w, <<>>, FALSE)
    BY <1>5 DEF Read
  <2>3. /\ w.k = World(c).k /\ w.in = Tail(inbox[c])
        /\ w.client = World(c).client /\ w.recs = World(c).recs
        /\ w.purse = World(c).purse /\ w.thrown = World(c).thrown
    BY <1>3 DEF Worlds
  <2>4. p.cmd = "bind" => p.remote = party[c]
    <3>1. inbox[c] \in Seq(Packets)
      BY <1>2 DEF MInv, TypeOK
    <3>2. 1 \in DOMAIN inbox[c] /\ p = inbox[c][1]
      BY <2>1, <3>1
    <3> QED BY <3>2 DEF LInv, AllMine, Mine, World
  <2> HIDE DEF p, w
  <2>5. Begun(c, w)
    BY <1>3, <2>1, <2>3, TakenBegun
  <2>6. CASE p \in Binds
    <3>1. OnBindPacket(c, w, p, FALSE) /\ p.remote = party[c]
      BY <2>2, <2>4, <2>6, PacketKinds
    <3> QED BY <1>2, <2>5, <2>6, <3>1, BindRight
  <2>7. CASE p = Talk
    <3>1. OnTalkPacket(c, w, FALSE) /\ Paying(w.k)
      BY <2>1, <2>2, <2>7, PacketKinds
    <3> QED BY <1>2, <2>5, <3>1, TalkRight
  <2>8. CASE p = Bye
    <3>1. Disconnect(c, w, <<>>, FALSE)
      BY <2>2, <2>8, PacketKinds
    <3> QED BY <1>2, <2>5, <3>1, DisconnectRight
  <2> QED BY <2>1, <2>6, <2>7, <2>8 DEF Packets
<1>6. CASE Quiet(c, FALSE)
  <2>1. OnTime(c, World(c), FALSE)
    BY <1>6 DEF Quiet
  <2> QED BY <1>2, <2>1, WorldBegun, OnTimeRight
<1> QED BY <1>1, <1>4, <1>5, <1>6

LEMMA ClearRight ==
  ASSUME LInv, NEW c \in Conns, Clear(c) PROVE Right
<1>1. /\ At(c) /\ Disconnect(c, World(c), Tail(todo), FALSE) /\ budget'.faults = 0
      /\ Tail(todo) \in {<<>>, Tail(todo)}
  BY LimitsHold DEF Clear, At, Limits, LInv
<1> QED BY <1>1, WorldBegun, DisconnectRight

\* Steps that write nothing.
LEMMA NothingWritten ==
  ASSUME LInv, MInv', budget'.faults = 0, AllMine', Unused', recs' = recs, purse' = purse,
         \A i \in DOMAIN recs : StillOpen(i) <=> OpenBill(i)
  PROVE  Right
<1>1. DOMAIN TheBills' = DOMAIN TheBills /\ DOMAIN TheBills = DOMAIN recs /\ MInv
  BY BillsAre, BillsAreNext DEF LInv
<1>2. \A i \in DOMAIN TheBills : TheBills'[i] = TheBills[i]
  <2> TAKE i \in DOMAIN TheBills
  <2>1. i \in DOMAIN recs /\ i \in DOMAIN recs' /\ recs'[i] = recs[i]
        /\ (StillOpen(i) <=> OpenBill(i))
    BY <1>1
  <2> QED BY <1>1, <2>1, SameBill
<1>3. TheBills' = TheBills
  BY <1>1, <1>2 DEF TheBills
<1>4. TheCredit' = TheCredit
  BY DEF TheCredit, CalcUserBlance
<1>5. Saved'
  <2>1. \A i \in DOMAIN recs' : recs'[i].exp # recs'[i].saved => StillOpen(i)
    BY DEF LInv, Saved
  <2> QED BY <2>1 DEF Saved, OpenBill, StillOpen, Navigated
<1>6. Even => Even'
  BY DEF Even, Taken, CalcUserBlance, Bill, Costs, Cost
<1> QED BY <1>3, <1>4, <1>5, <1>6 DEF Right, LInv

LEMMA SpendFaults ==
  ASSUME LInv, NEW what \in {"accepts", "sends", "crashes", "stops"}, Spend(what)
  PROVE  budget'.faults = 0
<1>1. budget \in [{"accepts", "sends", "faults", "crashes", "stops"} -> Nat]
      /\ budget.faults = 0
  BY DEF LInv, MInv, TypeOK
<1> QED BY <1>1 DEF Spend

LEMMA WakeRight ==
  ASSUME LInv, MInv', Wake PROVE Right
<1>1. /\ list' = list \/ \E c \in Conns \ Listed : client[c] # "none" /\ list' = <<c>> \o list
      /\ UNCHANGED <<chan, inbox, client, party, closed, purse, recs, up, budget>>
      /\ list \in Seq(Conns) /\ budget.faults = 0 /\ Listed \subseteq Conns
  BY RecsTyped DEF Wake, LInv, MInv, TypeOK
<1>2. \/ Listed' = Listed
      \/ \E c \in Conns \ Listed : client[c] # "none" /\ Listed' = Listed \union {c}
  <2>1. CASE list' = list
    BY <2>1 DEF Listed
  <2>2. ASSUME NEW c \in Conns \ Listed, client[c] # "none", list' = <<c>> \o list
        PROVE  Listed' = Listed \union {c}
    <3>1. /\ DOMAIN list' = 1 .. Len(list) + 1 /\ DOMAIN list = 1 .. Len(list)
          /\ Len(list) \in Nat /\ list'[1] = c
          /\ \A i \in DOMAIN list : list'[i + 1] = list[i]
      BY <1>1, <2>2
    <3>2. \A i \in DOMAIN list' : i = 1 \/ (i - 1 \in DOMAIN list /\ list'[i] = list[i - 1])
      <4> TAKE i \in DOMAIN list'
      <4>1. i = 1 \/ i - 1 \in DOMAIN list
        BY <3>1
      <4>2. i - 1 + 1 = i
        BY <3>1
      <4> QED BY <3>1, <4>1, <4>2
    <3>3. 1 \in DOMAIN list' /\ \A i \in DOMAIN list : i + 1 \in DOMAIN list'
      BY <3>1
    <3> QED BY <3>1, <3>2, <3>3 DEF Listed
  <2> QED BY <1>1, <2>1, <2>2
<1>3. \A c \in Conns \ Listed : chan[c] = NewChannel /\ ~ Navigated(chan[c])
  BY NewIsChannel DEF LInv, Unused, Navigated
<1>4. \A i \in DOMAIN recs : StillOpen(i) <=> OpenBill(i)
  BY <1>1, <1>2, <1>3 DEF StillOpen, OpenBill
<1>5. Unused'
  BY <1>1, <1>2 DEF LInv, Unused
<1>6. AllMine'
  <2>1. ASSUME NEW c \in Conns PROVE Mine(c, World(c))'
    <3>1. Mine(c, World(c))
      BY DEF LInv, AllMine
    <3> QED BY <1>1, <1>2, <3>1 DEF Mine, World
  <2> QED BY <2>1 DEF AllMine
<1> QED BY <1>1, <1>4, <1>5, <1>6, NothingWritten

LEMMA TickRight ==
  ASSUME LInv, MInv', Tick PROVE Right
<1>1. /\ chan' = [c \in Conns |-> IF c \in Listed /\ chan[c].age < AgeCap
                                  THEN [chan[c] EXCEPT !.age = @ + 1] ELSE chan[c]]
      /\ UNCHANGED <<list, todo, inbox, client, party, closed, purse, recs, up, budget>>
      /\ budget.faults = 0 /\ Listed \subseteq Conns
  BY RecsTyped DEF Tick, LInv
<1>2. \A c \in Conns : /\ chan'[c].nav = chan[c].nav /\ chan'[c].conn = chan[c].conn
                       /\ chan'[c].rec = chan[c].rec /\ chan'[c].usr = chan[c].usr
                       /\ c \notin Listed => chan'[c] = chan[c]
  <2> TAKE c \in Conns
  <2>1. chan[c] \in Channels
    BY RecsTyped DEF LInv
  <2> QED BY <1>1, <2>1 DEF Channels
<1>3. Listed' = Listed
  BY <1>1 DEF Listed
<1>4. \A i \in DOMAIN recs : StillOpen(i) <=> OpenBill(i)
  BY <1>1, <1>2, <1>3 DEF StillOpen, OpenBill, Navigated
<1>5. Unused'
  BY <1>2, <1>3 DEF LInv, Unused
<1>6. AllMine'
  <2>1. ASSUME NEW c \in Conns PROVE Mine(c, World(c))'
    <3>1. Mine(c, World(c))
      BY DEF LInv, AllMine
    <3> QED BY <1>1, <1>2, <1>3, <3>1 DEF Mine, World
  <2> QED BY <2>1 DEF AllMine
<1> QED BY <1>1, <1>4, <1>5, <1>6, NothingWritten

\* Stop closes the connections that wait; nobody had used them.
LEMMA StopRight ==
  ASSUME LInv, MInv', Stop PROVE Right
<1>1. /\ client' = [c \in Conns |-> IF c \in Listed THEN client[c] ELSE "none"]
      /\ inbox'  = [c \in Conns |-> IF c \in Listed THEN inbox[c] ELSE <<>>]
      /\ party'  = [c \in Conns |-> IF c \in Listed THEN party[c] ELSE None]
      /\ UNCHANGED <<list, chan, closed, purse, recs, lag>>
      /\ budget'.faults = 0
  BY SpendFaults DEF Stop
<1>2. Listed' = Listed
  BY <1>1 DEF Listed
<1>3. \A i \in DOMAIN recs : StillOpen(i) <=> OpenBill(i)
  BY <1>1, <1>2 DEF StillOpen, OpenBill
<1>4. Unused'
  BY <1>1, <1>2 DEF LInv, Unused
<1>5. AllMine'
  <2>1. ASSUME NEW c \in Conns PROVE Mine(c, World(c))'
    <3>1. Mine(c, World(c))
      BY DEF LInv, AllMine
    <3>2. CASE c \in Listed
      BY <1>1, <1>2, <3>1, <3>2 DEF Mine, World
    <3>3. CASE c \notin Listed
      <4>1. chan[c].rec = 0 /\ ~ chan[c].nav
        BY <3>3, NewIsChannel DEF LInv, Unused
      <4> QED BY <1>1, <1>2, <3>3, <4>1 DEF Mine, World
    <3> QED BY <3>2, <3>3
  <2> QED BY <2>1 DEF AllMine
<1> QED BY <1>1, <1>3, <1>4, <1>5, NothingWritten

LEMMA ConnectRight ==
  ASSUME LInv, MInv', Connect \/ UNCHANGED vars PROVE Right
<1>1. /\ UNCHANGED <<list, todo, chan, inbox, client, party, closed, purse, recs, budget>>
      /\ budget.faults = 0
  BY DEF Connect, vars, LInv
<1>2. Listed' = Listed
  BY <1>1 DEF Listed
<1>3. \A i \in DOMAIN recs : StillOpen(i) <=> OpenBill(i)
  BY <1>1, <1>2 DEF StillOpen, OpenBill
<1>4. AllMine' /\ Unused'
  BY <1>1, <1>2 DEF LInv, Unused, AllMine, Mine, World
<1> QED BY <1>1, <1>3, <1>4, NothingWritten

\* The lines of Xcenter write to their own inboxes only.
LEMMA ClientRight ==
  ASSUME LInv, MInv', NEW c \in Conns, Client(c) PROVE Right
<1>1. /\ UNCHANGED <<list, todo, chan, closed, purse, recs, up, lag>>
      /\ MInv /\ inbox \in [Conns -> Seq(Packets)] /\ client \in [Conns -> States]
      /\ party \in [Conns -> Users \union {None}]
  BY DEF Client, Call, Send, Leave, LInv, MInv, TypeOK, States
<1>2. budget'.faults = 0
  BY SpendFaults DEF Client, Call, Send, Leave, LInv
<1>3. Listed' = Listed
  BY <1>1 DEF Listed
<1>4. \A i \in DOMAIN recs : StillOpen(i) <=> OpenBill(i)
  BY <1>1, <1>3 DEF StillOpen, OpenBill
<1>5. Unused'
  BY <1>1, <1>3 DEF LInv, Unused
<1>6. ASSUME NEW d \in Conns \ {c} PROVE Mine(d, World(d))'
  <2>1. Mine(d, World(d))
    BY DEF LInv, AllMine
  <2>2. inbox'[d] = inbox[d] /\ client'[d] = client[d] /\ party'[d] = party[d]
    BY <1>1 DEF Client, Call, Send, Leave, Post
  <2> QED BY <1>1, <1>3, <2>1, <2>2 DEF Mine, World
<1>7. /\ chan[c].nav => chan[c].conn
      /\ chan[c].rec # 0 => /\ chan[c].usr = Bearer(party[c])
                            /\ recs[chan[c].rec].usr = Bearer(party[c])
      /\ \A i \in DOMAIN inbox[c] : inbox[c][i].cmd = "bind" => inbox[c][i].remote = party[c]
      /\ c \in Listed => client[c] # "none"
      /\ client[c] = "none" => inbox[c] = <<>>
  BY DEF LInv, AllMine, Mine, World
<1>8. ASSUME NEW p \in Packets, inbox'[c] = Append(inbox[c], p)
      PROVE  \A i \in DOMAIN inbox'[c] :
               \/ i \in DOMAIN inbox[c] /\ inbox'[c][i] = inbox[c][i]
               \/ inbox'[c][i] = p
  BY <1>1, <1>8
<1>9. CASE \E p \in Binds : Call(c, p)
  <2>1. PICK p \in Binds : Call(c, p)
    BY <1>9
  <2>2. /\ inbox[c] = <<>> /\ chan[c].rec = 0 /\ ~ chan[c].nav
        /\ party'[c] = p.remote /\ client'[c] = "new" /\ inbox'[c] = Append(inbox[c], p)
        /\ p \in Packets
    BY <1>1, <1>7, <2>1, NewIsChannel DEF Call, Post, LInv, Unused, Packets
  <2>3. \A i \in DOMAIN inbox'[c] : inbox'[c][i] = p
    BY <1>8, <2>2
  <2>4. Mine(c, World(c))'
    BY <1>1, <1>3, <2>2, <2>3 DEF Mine, World
  <2> QED BY <1>1, <1>2, <1>4, <1>5, <1>6, <2>4, NothingWritten DEF AllMine
<1>10. CASE \E p \in Binds \union {Talk} : Send(c, p)
  <2>1. PICK p \in Binds \union {Talk} : Send(c, p)
    BY <1>10
  <2>2. /\ party'[c] = party[c] /\ client'[c] = "bound" /\ inbox'[c] = Append(inbox[c], p)
        /\ p.cmd = "bind" => p.remote = party[c]
        /\ p \in Packets
    BY <1>1, <2>1 DEF Send, Post, Packets
  <2>3. \A i \in DOMAIN inbox'[c] : inbox'[c][i].cmd = "bind" => inbox'[c][i].remote = party[c]
    BY <1>7, <1>8, <2>2
  <2>4. Mine(c, World(c))'
    BY <1>1, <1>3, <1>7, <2>2, <2>3 DEF Mine, World
  <2> QED BY <1>1, <1>2, <1>4, <1>5, <1>6, <2>4, NothingWritten DEF AllMine
<1>11. CASE Leave(c)
  <2>1. /\ party'[c] = party[c] /\ client'[c] = "gone"
        /\ inbox'[c] = inbox[c] \/ inbox'[c] = Append(inbox[c], Bye)
        /\ Bye \in Packets /\ Bye.cmd # "bind"
    BY <1>1, <1>11, PacketKinds DEF Leave, Post, Packets
  <2>2. \A i \in DOMAIN inbox'[c] : inbox'[c][i].cmd = "bind" => inbox'[c][i].remote = party[c]
    BY <1>7, <1>8, <2>1
  <2>3. Mine(c, World(c))'
    BY <1>1, <1>3, <1>7, <2>1, <2>2 DEF Mine, World
  <2> QED BY <1>1, <1>2, <1>4, <1>5, <1>6, <2>3, NothingWritten DEF AllMine
<1> QED BY <1>9, <1>10, <1>11 DEF Client

\* A bill falls back to what was kept of it.
BillsOf(U) == [user : U, amount : Int, kept : Int, open : BOOLEAN]

LEMMA FallenBack ==
  ASSUME NEW U, NEW bill \in BillsOf(U)
  PROVE  [bill EXCEPT !.open = FALSE, !.amount = bill.kept]
           = [user |-> bill.user, amount |-> bill.kept, kept |-> bill.kept, open |-> FALSE]
<1> DEFINE b == [bill EXCEPT !.open = FALSE, !.amount = bill.kept]
           d == [user |-> bill.user, amount |-> bill.kept, kept |-> bill.kept, open |-> FALSE]
<1>1. b \in BillsOf(U) /\ b.user = bill.user /\ b.kept = bill.kept /\ b.amount = bill.kept
  BY DEF BillsOf
<1>2. d \in BillsOf(U) /\ d.user = bill.user /\ d.kept = bill.kept /\ d.amount = bill.kept
  BY DEF BillsOf
<1>3. b.open = d.open
  BY DEF BillsOf
<1> HIDE DEF b, d
<1>4. b = d
  BY <1>1, <1>2, <1>3 DEF BillsOf
<1> QED BY <1>4 DEF b, d

LEMMA CrashRight ==
  ASSUME LInv, MInv', Crash PROVE Right
<1>1. /\ list' = <<>> /\ chan' = [c \in Conns |-> NewChannel]
      /\ inbox' = [c \in Conns |-> <<>>] /\ client' = [c \in Conns |-> "none"]
      /\ recs' = [i \in DOMAIN recs |-> [recs[i] EXCEPT !.exp = recs[i].saved]]
      /\ purse' = purse /\ budget'.faults = 0 /\ MInv
  BY SpendFaults DEF Crash, LInv
<1>2. Listed' = {}
  BY <1>1 DEF Listed
<1>3. \A i : ~ StillOpen(i)
  BY <1>2 DEF StillOpen
<1>4. /\ DOMAIN recs' = DOMAIN recs
      /\ \A i \in DOMAIN recs : /\ recs'[i].usr = recs[i].usr
                                /\ recs'[i].exp = recs[i].saved /\ recs'[i].saved = recs[i].saved
  <2>1. ASSUME NEW i \in DOMAIN recs
        PROVE  /\ recs'[i].usr = recs[i].usr
               /\ recs'[i].exp = recs[i].saved /\ recs'[i].saved = recs[i].saved
    <3>1. recs[i] \in Rows
      BY <1>1, RecsTyped
    <3> QED BY <1>1, <3>1 DEF Rows
  <2> QED BY <1>1, <2>1
<1>5. Saved'
  <2>1. \A i \in DOMAIN recs' : recs'[i].exp = recs'[i].saved
    BY <1>4
  <2> QED BY <2>1 DEF Saved
<1>6. AllMine' /\ Unused'
  BY <1>1, <1>2, NewIsChannel DEF AllMine, Mine, World, Unused
<1>7. TheCredit' = TheCredit
  BY <1>1 DEF TheCredit, CalcUserBlance
<1>8. Len(TheBills') = Len(TheBills)
  <2>1. Len(recs') = Len(recs)
    BY <1>1, <1>4, RecsTyped, RecsTypedNext
  <2> QED BY <1>1, <2>1, BillsAre, BillsAreNext
<1>9. ASSUME NEW i \in DOMAIN TheBills
      PROVE  /\ TheBills'[i] = [TheBills[i] EXCEPT !.open = FALSE, !.amount = TheBills[i].kept]
             /\ ~ TheBills[i].open => TheBills[i].amount = TheBills[i].kept
  <2>1. i \in DOMAIN recs /\ i \in DOMAIN recs'
    BY <1>1, <1>4, BillsAre
  <2>2. TheBills[i] = [user |-> recs[i].usr, amount |-> Cost(recs[i].exp),
                       kept |-> Cost(recs[i].saved), open |-> OpenBill(i)]
    BY <1>1, <2>1, BillsAre
  <2>3. TheBills'[i] = [user |-> recs'[i].usr, amount |-> Cost(recs'[i].exp),
                        kept |-> Cost(recs'[i].saved), open |-> StillOpen(i)]
    BY <2>1, BillsAreNext
  <2>4. StillOpen(i) = FALSE
    BY <1>3 DEF StillOpen
  <2>5. TheBills'[i] = [user |-> recs[i].usr, amount |-> Cost(recs[i].saved),
                        kept |-> Cost(recs[i].saved), open |-> FALSE]
    BY <1>4, <2>1, <2>3, <2>4
  <2>6. ~ OpenBill(i) => recs[i].exp = recs[i].saved
    BY <2>1 DEF LInv, Saved
  <2>7. TheBills[i] \in BillsOf(Users)
    <3>1. /\ recs[i].usr \in Users /\ Cost(recs[i].exp) \in Int
          /\ Cost(recs[i].saved) \in Int
      BY <1>1, <2>1, RecsTyped DEF Rows, Cost
    <3>2. OpenBill(i) \in BOOLEAN
      BY DEF OpenBill
    <3> QED BY <2>2, <3>1, <3>2 DEF BillsOf
  <2>8. TheBills[i].kept = Cost(recs[i].saved) /\ TheBills[i].amount = Cost(recs[i].exp)
        /\ TheBills[i].user = recs[i].usr
        /\ (TheBills[i].open <=> OpenBill(i))
    BY <1>1, <2>1, BillFields
  <2>9. [TheBills[i] EXCEPT !.open = FALSE, !.amount = TheBills[i].kept]
          = [user |-> TheBills[i].user, amount |-> TheBills[i].kept,
             kept |-> TheBills[i].kept, open |-> FALSE]
    BY <2>7, FallenBack
  <2> QED BY <2>5, <2>6, <2>8, <2>9
<1>10. Fails
  BY <1>7, <1>8, <1>9 DEF Fails
<1> QED BY <1>1, <1>5, <1>6, <1>10 DEF Right, LInv, Keeps

-----------------------------------------------------------------------------
(* xmaster keeps what Account promises *)

LEMMA LedgerInit ==
  ASSUME Plain PROVE Init => LInv /\ Accounts!Init
<1> SUFFICES ASSUME Init PROVE LInv /\ Accounts!Init
  OBVIOUS
<1>1. MInv
  BY MasterInit
<1>2. /\ list = <<>> /\ chan = [c \in Conns |-> NewChannel] /\ inbox = [c \in Conns |-> <<>>]
      /\ client = [c \in Conns |-> "none"] /\ recs = <<>> /\ budget.faults = 0
      /\ purse = [u \in Users |-> [pre |-> Advance[u], bal |-> Credit[u]]]
  BY DEF Init, Plain
<1>3. Listed = {}
  BY <1>2 DEF Listed
<1>4. AllMine /\ Unused /\ Saved
  BY <1>2, <1>3, NewIsChannel DEF AllMine, Mine, World, Unused, Saved
<1>5. [u \in Users |-> CalcUserBlance(purse, u)] = [u \in Users |-> Advance[u] + Credit[u]]
  BY <1>2 DEF CalcUserBlance
<1>6. TheBills = <<>>
  BY <1>2 DEF TheBills
<1>7. Accounts!Init
  BY <1>5, <1>6 DEF Accounts!Init, TheBills
<1> QED BY <1>1, <1>2, <1>4, <1>7 DEF LInv

LEMMA LedgerStep ==
  ASSUME Plain PROVE LInv /\ [Next]_vars => Right
<1> SUFFICES ASSUME LInv, [Next]_vars PROVE Right
  OBVIOUS
<1>1. MInv'
  BY MasterStep DEF LInv
<1>2. CASE Wake \/ Tick \/ Stop \/ Connect \/ Crash
  BY <1>1, <1>2, WakeRight, TickRight, StopRight, ConnectRight, CrashRight
<1>3. ASSUME NEW c \in Conns, Visit(c) \/ Clear(c) PROVE Right
  BY <1>3, VisitRight, ClearRight
<1>4. ASSUME NEW c \in Conns, Client(c) PROVE Right
  BY <1>1, <1>4, ClientRight
<1>5. CASE UNCHANGED vars
  BY <1>1, <1>5, ConnectRight
<1> QED BY <1>2, <1>3, <1>4, <1>5 DEF Next

\* Every step of xmaster is a step of Account: a unit is charged only if its user can
\* pay it, what a record rises by is taken from its user and from nobody else, a call
\* that has ended has its price saved and keeps it, and a crash loses no more than what
\* the calls that were under way had come to since they began.
THEOREM LedgerKeepsAccount ==
  ASSUME Plain PROVE Spec => KeepsAccount
<1>1. LInv /\ [Next]_vars
        => LInv' /\ [Accounts!Next]_<<[u \in Users |-> CalcUserBlance(purse, u)], TheBills>>
  <2> SUFFICES ASSUME LInv, [Next]_vars
               PROVE  /\ LInv'
                      /\ [Accounts!Next]_<<[u \in Users |-> CalcUserBlance(purse, u)], TheBills>>
    OBVIOUS
  <2>1. Right
    BY LedgerStep
  <2> QED BY <2>1, AccountNext DEF Right, TheCredit
<1>2. Init => LInv /\ Accounts!Init
  BY LedgerInit
<1>3. KeepsAccount <=> /\ Accounts!Init
        /\ [][Accounts!Next]_<<[u \in Users |-> CalcUserBlance(purse, u)], TheBills>>
  BY DEF KeepsAccount, Accounts!Spec, TheBills
<1> QED BY <1>1, <1>2, <1>3, PTL DEF Spec

-----------------------------------------------------------------------------
(* What is taken is what the records say *)

\* Until the process dies, what was taken is what the records say.
ConservedInv == LInv /\ budget.crashes <= Crashes /\ (budget.crashes = Crashes => Even)

LEMMA NothingTaken ==
  ASSUME Plain, Init PROVE Even
<1> SUFFICES ASSUME NEW u \in Users PROVE Taken(u) = 0 /\ Bill(u) = 0
  BY DEF Even
<1>1. Taken(u) = 0
  <2> DEFINE a == Advance[u]
             b == Credit[u]
  <2>1. a \in Int /\ b \in Int
    BY MasterAssumption
  <2>2. CalcUserBlance(purse, u) = a + b /\ Taken(u) = a + b - CalcUserBlance(purse, u)
    BY DEF Init, CalcUserBlance, Taken
  <2> HIDE DEF a, b
  <2> QED BY <2>1, <2>2
<1>2. Bill(u) = 0
  <2> DEFINE f == Costs(u)
  <2>1. DOMAIN f = {} /\ IsFiniteSet(DOMAIN f)
    <3>1. recs = <<>>
      BY DEF Init
    <3> QED BY <3>1, FS_EmptySet DEF Costs
  <2> HIDE DEF f
  <2>2. PICK g : Sums(f, g) /\ SumFunction(f) = g[DOMAIN f]
    BY <2>1, SumIs
  <2>3. g[{}] = SumStep(f, g, {})
    BY <2>1, <2>2 DEF Sums
  <2>4. SumFunction(f) = 0
    BY <2>1, <2>2, <2>3 DEF SumStep
  <2> QED BY <2>4 DEF Bill, f
<1> QED BY <1>1, <1>2

\* Only a crash uses up a crash.
LEMMA CrashesCounted ==
  ASSUME MInv, [Next]_vars
  PROVE  /\ budget'.crashes \in Nat /\ budget.crashes \in Nat
         /\ budget'.crashes <= budget.crashes
         /\ Crash => budget'.crashes < budget.crashes
<1>1. budget \in [{"accepts", "sends", "faults", "crashes", "stops"} -> Nat]
  BY DEF MInv, TypeOK
<1>2. budget' = budget
      \/ \E what \in {"accepts", "sends", "faults", "stops"} : Spend(what)
      \/ Crash
  <2>1. CASE Wake \/ Tick \/ Connect \/ UNCHANGED vars
    BY <2>1 DEF Wake, Tick, Connect, vars
  <2>2. CASE Stop
    BY <2>2 DEF Stop
  <2>3. ASSUME NEW c \in Conns, Visit(c) PROVE budget' = budget \/ Spend("faults")
    BY <2>3 DEF Visit
  <2>4. ASSUME NEW c \in Conns, Clear(c)
        PROVE  budget' = budget \/ Spend("faults")
    BY <2>4 DEF Clear
  <2>5. ASSUME NEW c \in Conns, Client(c)
        PROVE  budget' = budget \/ Spend("accepts") \/ Spend("sends")
    BY <2>5 DEF Client, Call, Send, Leave
  <2> QED BY <2>1, <2>2, <2>3, <2>4, <2>5 DEF Next
<1>3. Crash => Spend("crashes")
  BY DEF Crash
<1>4. ASSUME NEW what \in {"accepts", "sends", "faults", "stops"}, Spend(what)
      PROVE  budget'.crashes = budget.crashes
  BY <1>1, <1>4 DEF Spend
<1>5. Spend("crashes") => budget'.crashes = budget.crashes - 1 /\ budget.crashes > 0
  BY <1>1 DEF Spend
<1>6. budget.crashes \in Nat
  BY <1>1
<1>7. CASE Crash
  <2>1. budget'.crashes = budget.crashes - 1 /\ budget.crashes > 0
    BY <1>3, <1>5, <1>7
  <2> QED BY <1>6, <2>1
<1>8. CASE ~ Crash
  <2>1. budget'.crashes = budget.crashes
    BY <1>2, <1>4, <1>8
  <2> QED BY <1>6, <1>8, <2>1
<1> QED BY <1>7, <1>8

\* What was taken from every user is what his records say, to the last unit, as long as
\* the server has not died: however his calls overlap, go on to other services, are cut
\* off or talk on after a refusal.  A user without an advance payment may have lost what
\* a call gave back.
THEOREM MoneyIsConserved ==
  ASSUME Plain PROVE Spec => []Conserved
<1>1. Init => ConservedInv
  <2>1. Init => budget.crashes = Crashes /\ Crashes \in Int
    BY MasterAssumption DEF Init
  <2> QED BY <2>1, LedgerInit, NothingTaken DEF ConservedInv
<1>2. ConservedInv /\ [Next]_vars => ConservedInv'
  <2> SUFFICES ASSUME ConservedInv, [Next]_vars PROVE ConservedInv'
    OBVIOUS
  <2>1. LInv' /\ (Crash \/ (Even => Even'))
    BY LedgerStep DEF ConservedInv, Right
  <2>2. /\ budget'.crashes \in Nat /\ budget.crashes \in Nat /\ Crashes \in Int
        /\ budget'.crashes <= budget.crashes /\ budget.crashes <= Crashes
        /\ Crash => budget'.crashes < budget.crashes
    BY CrashesCounted, MasterAssumption DEF ConservedInv, LInv
  <2>3. budget'.crashes = Crashes => Even'
    BY <2>1, <2>2 DEF ConservedInv
  <2> QED BY <2>1, <2>2, <2>3 DEF ConservedInv
<1>3. ConservedInv => Conserved
  BY DEF ConservedInv, Conserved, Even
<1> QED BY <1>1, <1>2, <1>3, PTL DEF Spec

=============================================================================
