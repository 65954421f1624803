-------------------------- MODULE BoundedReadProofs --------------------------
(***************************************************************************)
(* Proofs about BoundedRead, for names and sizes, budgets, pages, cursors  *)
(* and time series of any number and length: no read shows more than its   *)
(* budget allows, none leaves a stream or a temporary consumer behind, and *)
(* a list is what it says, whatever other clients do meanwhile.            *)
(*                                                                         *)
(* The limiters are recursions over what a server sends.  What holds along *)
(* a recursion is derived here from the well-foundedness of < on the       *)
(* natural numbers: a set of numbers with no least element is empty.       *)
(*                                                                         *)
(* The first invariant, IInv, says of every method what its limiter knows, *)
(* who holds its connection, and what its answer, if there is one, fits    *)
(* into; the second, HInv, how what a read has seen relates to what was    *)
(* there, and rests on the first.                                          *)
(***************************************************************************)
EXTENDS BoundedRead, FiniteSetTheorems, WellFoundedInduction, TLAPS

Kinds  == {"none", "Failed", "Dropped", "List", "Hits", "Value", "Exact", "Messages",
           "Artifact", "Table"}
Phases == Working \cup {"idle", "closing", "over"}
Lists  == {"List", "Hits", "Value", "Exact", "Messages", "Artifact"}
LimiterType == [observed : Nat, bytes : Nat, probe : Nat, truncated : BOOLEAN, failed : BOOLEAN]
Series      == [bytes : Nat, samples : Seq([bytes : Nat])]

\* What a limiter has counted is within the bytes of a budget.
Within(limiter, b) == limiter \in LimiterType /\ (~limiter.failed => limiter.bytes <= b.max_bytes)

\* An answer is within its budget.
FitsBudget(answer, b, method) ==
  answer.kind \in Lists =>
    /\ Len(answer.items) <= b.max_items
    /\ (method.by = "catalog" /\ ~Budgeted(b)) \/ WholeOf(Rows(answer.items)) <= b.max_bytes

ResultType  == [kind : Kinds, items : Seq(Names), truncated : BOOLEAN]

TypeInv ==
  /\ how \in Methods /\ phase \in Phases /\ socket \in {"pool", "held", "retired"}
  /\ listing \in Seq(Names) /\ unread \in Seq(Names) /\ kept \in Seq(Names)
  /\ cursor \in Nat
  /\ result \in ResultType

BudgetInv ==
  /\ budget.max_bytes \in Nat
  /\ how.by # "series" => budget.max_items \in Nat
  /\ phase \in Working \cup {"closing"} => how.by # "series" /\ (how.whole \/ budget.max_items > 0)
  /\ phase # "idle" /\ how.by = "queues" => cursor > 0
  /\ how.by = "value" => ~how.whole

TallyInv ==
  /\ Within(tally, budget)
  /\ tally.truncated /\ ~tally.failed => tally.observed > budget.max_items
  /\ phase = "idle" => tally = ReadLimiter

ResultInv ==
  /\ phase \in {"idle", "reading", "closing", "inspecting"} => result.kind = "none"
  /\ phase = "exporting" => result.kind = "List" /\ how.by = "export"
  /\ phase = "inspecting" => how.by = "group_lag"
  /\ result.kind = "Table" => how.by = "series"
  /\ FitsBudget(result, budget, how)
  /\ result.kind = "Table" =>
       /\ Len(table) <= budget.max_series /\ SampleCount(table) <= budget.max_samples
       /\ Overhead + SeriesBytes(table) <= budget.max_bytes

SocketInv ==
  /\ ~how.holds => socket = "pool"
  /\ phase = "idle" => socket = "pool"
  /\ how.holds => how.by \in {"rows", "messages"} /\ "end" \notin how.closes
  /\ how.holds /\ phase \in {"reading", "closing"} => socket = "held"
  /\ phase = "closing" => how.by = "rows" \/ (how.by = "messages" /\ how.holds)
  /\ how.holds /\ how.by = "rows" /\ socket = "pool" => unread = <<>> \/ result.kind = "Dropped"
  /\ result.kind = "Messages" => socket # "held"

IInv == TypeInv /\ BudgetInv /\ TallyInv /\ ResultInv /\ SocketInv

Row == [name : Names, bytes : Nat]
-----------------------------------------------------------------------------
(* Induction and recursion *)

\* Every set of natural numbers has a least element.
LEMMA LeastElement ==
  ASSUME NEW T \in SUBSET Nat, T # {}
  PROVE  \E x \in T : \A y \in T : x <= y
<1> DEFINE R == OpToRel(<, Nat)
<1>1. IsWellFoundedOn(R, Nat)
  BY NatLessThanWellFounded
<1>2. \A x, y \in Nat : y < x => <<y, x>> \in R
  BY DEF OpToRel
<1> HIDE DEF R
<1>3. PICK x \in T : \A y \in T : ~ (<<y, x>> \in R)
  BY <1>1, WFMin
<1>4. \A y \in T : ~(y < x)
  BY <1>2, <1>3
<1> QED
  BY <1>4

\* Induction up to n, over the numbers a statement holds of.
LEMMA UpTo ==
  ASSUME NEW n \in Nat, NEW G, 0 \in G, \A i \in 0..n : i \in G /\ i < n => i + 1 \in G
  PROVE  \A i \in 0..n : i \in G
<1> DEFINE T == {i \in 0..n : i \notin G}
<1>1. SUFFICES ASSUME T # {} PROVE FALSE
  OBVIOUS
<1>2. PICK x \in T : \A y \in T : x <= y
  <2>1. T \in SUBSET Nat
    OBVIOUS
  <2> QED
    BY <1>1, <2>1, LeastElement
<1>3. x - 1 \in 0..n /\ x - 1 \in G /\ x - 1 < n
  BY <1>2
<1> QED
  BY <1>2, <1>3

Solutions(n, V, base, step) ==
  {f \in [0..n -> V] : f[0] = base /\ \A i \in 1..n : f[i] = step[i][f[i - 1]]}

\* A recursion over 0..n has a solution.
LEMMA Recursion ==
  ASSUME NEW n \in Nat, NEW V, NEW base \in V, NEW step \in [1..n -> [V -> V]]
  PROVE  Solutions(n, V, base, step) # {}
<1> DEFINE G == {m \in 0..n : \E f \in [0..m -> V] : f[0] = base /\ \A i \in 1..m : f[i] = step[i][f[i - 1]]}
<1>1. 0 \in G
  <2> DEFINE f == [i \in 0..0 |-> base]
  <2>1. f \in [0..0 -> V] /\ f[0] = base /\ \A i \in 1..0 : FALSE
    OBVIOUS
  <2> HIDE DEF f
  <2> QED
    BY <2>1
<1>2. ASSUME NEW m \in 0..n, m \in G, m < n PROVE m + 1 \in G
  <2>1. PICK f \in [0..m -> V] : f[0] = base /\ \A i \in 1..m : f[i] = step[i][f[i - 1]]
    BY <1>2
  <2> DEFINE g == [i \in 0..(m + 1) |-> IF i = m + 1 THEN step[m + 1][f[m]] ELSE f[i]]
  <2>2. step[m + 1][f[m]] \in V
    BY <1>2, <2>1
  <2>3. g \in [0..(m + 1) -> V] /\ g[0] = base /\ g[m + 1] = step[m + 1][f[m]]
        /\ \A i \in 0..m : g[i] = f[i]
    BY <1>2, <2>1, <2>2
  <2> HIDE DEF g
  <2>4. \A i \in 1..(m + 1) : g[i] = step[i][g[i - 1]]
    BY <1>2, <2>1, <2>3
  <2> QED
    BY <1>2, <2>3, <2>4
<1>3. n \in G
  <2> HIDE DEF G
  <2>1. \A m \in 0..n : m \in G /\ m < n => m + 1 \in G
    BY <1>2
  <2>2. \A i \in 0..n : i \in G
    BY <1>1, <2>1, UpTo
  <2> QED
    BY <2>2
<1> QED
  BY <1>3 DEF Solutions

\* The sum of sizes.
LEMMA TotalRecursion ==
  ASSUME NEW sizes \in Seq(Nat)
  PROVE  \E f \in [0..Len(sizes) -> Nat] :
           /\ f[0] = 0 /\ \A i \in 1..Len(sizes) : f[i] = f[i - 1] + sizes[i]
           /\ Total(sizes) = f[Len(sizes)]
<1> DEFINE n == Len(sizes)
           E(f) == [i \in 0..n |-> IF i = 0 THEN 0 ELSE f[i - 1] + sizes[i]]
           F == CHOOSE f : f = E(f)
<1>1. Total(sizes) = F[n]
  BY DEF Total
<1>2. PICK f \in [0..n -> Nat] : f[0] = 0 /\ \A i \in 1..n : f[i] = f[i - 1] + sizes[i]
  <2> DEFINE step == [i \in 1..n |-> [v \in Nat |-> v + sizes[i]]]
  <2>1. step \in [1..n -> [Nat -> Nat]] /\ n \in Nat /\ 0 \in Nat
    OBVIOUS
  <2>2. \A v \in Nat, i \in 1..n : step[i][v] = v + sizes[i]
    OBVIOUS
  <2> HIDE DEF step, n
  <2>c. Solutions(n, Nat, 0, step) # {}
    BY <2>1, Recursion
  <2>3. PICK f \in [0..n -> Nat] : f[0] = 0 /\ \A i \in 1..n : f[i] = step[i][f[i - 1]]
    BY <2>c DEF Solutions
  <2>4. ASSUME NEW i \in 1..n PROVE f[i] = f[i - 1] + sizes[i]
    <3>1. i - 1 \in 0..n
      BY <2>1
    <3> QED
      BY <2>2, <2>3, <3>1
  <2> QED
    BY <2>3, <2>4
<1>3. f = E(f)
  BY <1>2
<1>4. F = E(F)
  BY <1>3
<1>n. n \in Nat /\ \A i \in 1..n : sizes[i] \in Nat
  OBVIOUS
<1> HIDE DEF F, n
<1>5. /\ F[0] = 0 /\ n \in Nat
      /\ \A i \in 1..n : F[i] = F[i - 1] + sizes[i] /\ sizes[i] \in Nat
  BY <1>4, <1>n
<1>6. \A i \in 0..n : F[i] \in Nat
  <2> DEFINE G == {i \in 0..n : F[i] \in Nat}
  <2>1. 0 \in G
    BY <1>5
  <2>3. ASSUME NEW i \in 0..n, i \in G, i < n PROVE i + 1 \in G
    <3>1. i + 1 \in 1..n /\ (i + 1) - 1 = i
      BY <1>5, <2>3
    <3>2. F[i + 1] = F[i] + sizes[i + 1] /\ sizes[i + 1] \in Nat
      BY <1>5, <3>1
    <3> QED
      BY <2>3, <3>1, <3>2
  <2> HIDE DEF G
  <2>2. \A i \in 0..n : i \in G
    BY <1>5, <2>1, <2>3, UpTo
  <2> QED
    BY <2>2 DEF G
<1>7. F \in [0..n -> Nat]
  <2>1. F = [i \in 0..n |-> F[i]]
    BY <1>4
  <2> QED
    BY <1>6, <2>1
<1> QED
  BY <1>1, <1>5, <1>7 DEF n

\* A sum of sizes is a number.
LEMMA TotalType ==
  ASSUME NEW sizes \in Seq(Nat)
  PROVE  Total(sizes) \in Nat
<1>1. PICK f \in [0..Len(sizes) -> Nat] : Total(sizes) = f[Len(sizes)]
  BY TotalRecursion
<1>2. Len(sizes) \in 0..Len(sizes)
  OBVIOUS
<1> QED
  BY <1>1, <1>2

\* What items take, and what a request or an answer with them takes, is a number.
LEMMA BytesType ==
  ASSUME NEW S, \A x \in S : x.bytes \in Nat, NEW items \in Seq(S)
  PROVE  BytesOf(items) \in Nat /\ WholeOf(items) \in Nat
<1> DEFINE sizes == [i \in DOMAIN items |-> items[i].bytes]
<1>1. sizes \in Seq(Nat)
  <2>1. \A i \in 1..Len(items) : items[i].bytes \in Nat
    OBVIOUS
  <2>2. sizes \in [1..Len(items) -> Nat] /\ Len(items) \in Nat
    BY <2>1
  <2> QED
    BY <2>2
<1> HIDE DEF sizes
<1>2. Total(sizes) \in Nat
  BY <1>1, TotalType
<1>3. BytesOf(items) \in Nat
  BY <1>2 DEF BytesOf, sizes
<1> QED
  BY <1>3, LimitersAssumption DEF WholeOf

\* The rows of a list have their names and sizes.
LEMMA RowsType ==
  ASSUME NEW names \in Seq(Names)
  PROVE  /\ Rows(names) \in Seq(Row) /\ Len(Rows(names)) = Len(names)
         /\ DOMAIN Rows(names) = DOMAIN names
         /\ \A i \in DOMAIN names : /\ Rows(names)[i].name = names[i] /\ Rows(names)[i].bytes \in Nat
                                    /\ Rows(names)[i] \in Row
         /\ WholeOf(Rows(names)) \in Nat /\ BytesOf(Rows(names)) \in Nat
<1>1. \A i \in 1..Len(names) : SizeOf[names[i]] \in Nat /\ names[i] \in Names
  BY BoundedReadAssumption
<1>2. Rows(names) = [i \in 1..Len(names) |-> [name |-> names[i], bytes |-> SizeOf[names[i]]]]
  BY DEF Rows
<1>3. Rows(names) \in [1..Len(names) -> Row] /\ Len(names) \in Nat
  BY <1>1, <1>2 DEF Row
<1>4. Rows(names) \in Seq(Row) /\ Len(Rows(names)) = Len(names) /\ DOMAIN Rows(names) = DOMAIN names
  BY <1>2, <1>3
<1>5. \A x \in Row : x.bytes \in Nat
  BY DEF Row
<1>6. WholeOf(Rows(names)) \in Nat /\ BytesOf(Rows(names)) \in Nat
  BY <1>4, <1>5, BytesType
<1>7. \A i \in DOMAIN names : Rows(names)[i].name = names[i] /\ Rows(names)[i].bytes \in Nat
                              /\ Rows(names)[i] \in Row
  BY <1>1, <1>2 DEF Row
<1> QED
  BY <1>4, <1>6, <1>7

\* The elements of a sequence, a function that is one, and a part of one.
LEMMA SequenceElements ==
  ASSUME NEW S
  PROVE  /\ \A r \in Seq(S) : \A j \in DOMAIN r : r[j] \in S
         /\ \A n \in Nat : \A f \in [1..n -> S] : f \in Seq(S) /\ Len(f) = n
  OBVIOUS

LEMMA PartType ==
  ASSUME NEW S, NEW s \in Seq(S), NEW m \in Nat \ {0}, NEW n \in Int, n <= Len(s)
  PROVE  SubSeq(s, m, n) \in Seq(S)
  OBVIOUS

\* The names of a list that are in a set are a list of some of these names.
LEMMA AmongType ==
  ASSUME NEW S, NEW names \in Seq(S), NEW set
  PROVE  /\ Among(names, set) \in Seq(S) /\ Len(Among(names, set)) <= Len(names)
<1> DEFINE n == Len(names)
           V == Seq(S)
           next(i, s) == IF names[i] \in set THEN Append(s, names[i]) ELSE s
           E(f) == [i \in 0..n |-> IF i = 0 THEN <<>> ELSE
                                   IF names[i] \in set THEN Append(f[i - 1], names[i]) ELSE f[i - 1]]
           F == CHOOSE f : f = E(f)
<1>1. Among(names, set) = F[n]
  BY DEF Among
<1>2. n \in Nat /\ <<>> \in V /\ \A i \in 1..n : names[i] \in S
  OBVIOUS
<1> HIDE DEF n
<1>3. \A i \in 1..n, s \in V : next(i, s) \in V /\ Len(next(i, s)) <= Len(s) + 1 /\ Len(s) \in Nat
  BY <1>2
<1> HIDE DEF V
<1>4. \E f : f = E(f)
  <2> DEFINE step == [i \in 1..n |-> [s \in V |-> next(i, s)]]
  <2>1. step \in [1..n -> [V -> V]]
    BY <1>3
  <2>2. \A s \in V, i \in 1..n : step[i][s] = next(i, s)
    OBVIOUS
  <2> HIDE DEF step, next
  <2>3. Solutions(n, V, <<>>, step) # {}
    BY <1>2, <2>1, Recursion
  <2>4. PICK f \in [0..n -> V] : f[0] = <<>> /\ \A i \in 1..n : f[i] = step[i][f[i - 1]]
    BY <2>3 DEF Solutions
  <2>5. ASSUME NEW i \in 1..n PROVE f[i] = next(i, f[i - 1])
    <3>1. i - 1 \in 0..n
      BY <1>2
    <3> QED
      BY <2>2, <2>4, <3>1
  <2>6. ASSUME NEW i \in 0..n
        PROVE  f[i] = IF i = 0 THEN <<>> ELSE
                      IF names[i] \in set THEN Append(f[i - 1], names[i]) ELSE f[i - 1]
    <3>1. CASE i = 0
      BY <2>4, <3>1
    <3>2. CASE i # 0
      <4>1. i \in 1..n
        BY <1>2, <3>2
      <4> QED
        BY <2>5, <3>2, <4>1 DEF next
    <3> QED
      BY <3>1, <3>2
  <2>7. f = [i \in 0..n |-> f[i]]
    BY <2>4
  <2>8. [i \in 0..n |-> f[i]] = E(f)
    BY <2>6, Zenon
  <2> QED
    BY <2>7, <2>8
<1>5. F = E(F)
  BY <1>4
<1> HIDE DEF F
<1>6. F[0] = <<>> /\ \A i \in 1..n : F[i] = next(i, F[i - 1])
  <2>1. ASSUME NEW i \in 0..n
        PROVE  F[i] = IF i = 0 THEN <<>> ELSE
                      IF names[i] \in set THEN Append(F[i - 1], names[i]) ELSE F[i - 1]
    BY <1>5, Zenon
  <2>2. 0 \in 0..n /\ \A i \in 1..n : i \in 0..n /\ i # 0
    BY <1>2
  <2>3. F[0] = <<>>
    BY <2>1, <2>2
  <2>4. ASSUME NEW i \in 1..n PROVE F[i] = next(i, F[i - 1])
    BY <2>1, <2>2, Zenon
  <2> QED
    BY <2>3, <2>4
<1>7. \A i \in 0..n : F[i] \in V /\ Len(F[i]) <= i
  <2> DEFINE G == {i \in 0..n : F[i] \in V /\ Len(F[i]) <= i}
  <2>1. 0 \in G
    BY <1>2, <1>6
  <2>2. ASSUME NEW i \in 0..n, i \in G, i < n PROVE i + 1 \in G
    <3>1. i + 1 \in 1..n /\ (i + 1) - 1 = i /\ i + 1 \in 0..n /\ i \in Nat
      BY <1>2, <2>2
    <3>2. F[i + 1] = next(i + 1, F[i])
      BY <1>6, <3>1
    <3>3. F[i + 1] \in V /\ Len(F[i + 1]) <= Len(F[i]) + 1 /\ Len(F[i]) \in Nat
      BY <1>3, <2>2, <3>1, <3>2
    <3> HIDE DEF next
    <3>5. Len(F[i + 1]) \in Nat
      BY <3>3 DEF V
    <3>4. Len(F[i + 1]) <= i + 1
      BY <2>2, <3>1, <3>3, <3>5
    <3> QED
      BY <3>1, <3>3, <3>4
  <2> HIDE DEF G
  <2>3. \A i \in 0..n : i \in G
    BY <1>2, <2>1, <2>2, UpTo
  <2> QED
    BY <2>3 DEF G
<1> QED
  BY <1>1, <1>2, <1>7 DEF V, n

\* What holds of the first value of a recursion, and of the next one if it holds of
\* the one before, holds of all.
LEMMA Along ==
  ASSUME NEW n \in Nat, NEW F, NEW I, F[0] \in I[0],
         \A i \in 1..n : F[i - 1] \in I[i - 1] => F[i] \in I[i]
  PROVE  \A i \in 0..n : F[i] \in I[i]
<1> DEFINE G == {i \in 0..n : F[i] \in I[i]}
<1>1. 0 \in G
  OBVIOUS
<1>2. ASSUME NEW i \in 0..n, i \in G, i < n PROVE i + 1 \in G
  <2>1. i + 1 \in 1..n /\ (i + 1) - 1 = i /\ i + 1 \in 0..n
    BY <1>2
  <2> QED
    BY <1>2, <2>1
<1> HIDE DEF G
<1>3. \A i \in 0..n : i \in G
  BY <1>1, <1>2, UpTo
<1> QED
  BY <1>3 DEF G

\* The same of a recursion whose steps lead from I[i - 1] to I[i].
Leads(n, step, I) == \A i \in 1..n : \A v \in I[i - 1] : step[i][v] \in I[i]
Kept(n, V, base, step, I) == {f \in Solutions(n, V, base, step) : \A i \in 0..n : f[i] \in I[i]}

LEMMA RecursionKeeps ==
  ASSUME NEW n \in Nat, NEW V, NEW base \in V, NEW step \in [1..n -> [V -> V]],
         NEW I, base \in I[0], Leads(n, step, I)
  PROVE  Kept(n, V, base, step, I) # {}
<1>1. Solutions(n, V, base, step) # {}
  BY Recursion
<1>2. PICK f \in [0..n -> V] : /\ f \in Solutions(n, V, base, step) /\ f[0] = base
                               /\ \A i \in 1..n : f[i] = step[i][f[i - 1]]
  BY <1>1 DEF Solutions
<1>3. \A i \in 1..n : f[i - 1] \in I[i - 1] => f[i] \in I[i]
  BY <1>2 DEF Leads
<1>4. \A i \in 0..n : f[i] \in I[i]
  BY <1>2, <1>3, Along
<1> QED
  BY <1>2, <1>4 DEF Kept
-----------------------------------------------------------------------------
(* The limiters *)

\* One more item is within the bytes of the budget, or it is refused; the probe is
\* the item behind max_items.
LEMMA ObserveItemFits ==
  ASSUME NEW b, b.max_bytes \in Nat, b.max_items \in Nat, NEW l, Within(l, b),
         l.truncated /\ ~l.failed => l.observed > b.max_items, NEW bytes \in Nat
  PROVE  /\ Within(ObserveItem(l, b, bytes), b)
         /\ /\ ObserveItem(l, b, bytes).truncated
            /\ ~ObserveItem(l, b, bytes).failed
            => ObserveItem(l, b, bytes).observed > b.max_items
         /\ ~ObserveItem(l, b, bytes).failed =>
              ObserveItem(l, b, bytes).observed = l.observed + 1 /\ ~l.failed /\ ~l.truncated
<1> DEFINE next == ObserveItem(l, b, bytes)
           fits == ~l.truncated /\ Measured(bytes, b.max_bytes - l.bytes)
<1>1. l \in LimiterType /\ (~l.failed => l.bytes <= b.max_bytes)
  BY DEF Within
<1>2. CASE ~fits
  <2>1. next = Refused(l)
    BY <1>2 DEF ObserveItem
  <2>2. next \in LimiterType /\ next.failed
    BY <1>1, <2>1 DEF Refused, LimiterType
  <2> QED
    BY <2>2 DEF Within
<1>3. CASE fits
  <2> DEFINE full == ~(l.observed < b.max_items)
             probe == IF l.observed < b.max_items THEN 0 ELSE bytes
  <2>1. next = [l EXCEPT !.observed = @ + 1, !.bytes = @ + bytes,
                         !.truncated = full, !.probe = probe]
    BY <1>3 DEF ObserveItem
  <2>2. full \in BOOLEAN /\ probe \in Nat
    OBVIOUS
  <2>3. l.bytes \in Nat /\ l.observed \in Nat /\ l.failed \in BOOLEAN
    BY <1>1 DEF LimiterType
  <2>4. full => l.observed + 1 > b.max_items
    BY <2>3
  <2> HIDE DEF next, full, probe
  <2>5. next \in LimiterType
    <3>1. l.observed + 1 \in Nat /\ l.bytes + bytes \in Nat
      BY <2>3
    <3>2. next = [observed |-> l.observed + 1, bytes |-> l.bytes + bytes, probe |-> probe,
                  truncated |-> full, failed |-> l.failed]
      BY <1>1, <2>1 DEF LimiterType
    <3> QED
      BY <2>2, <2>3, <3>1, <3>2, Zenon DEF LimiterType
  <2>6. /\ next.observed = l.observed + 1 /\ next.failed = l.failed
        /\ next.bytes = l.bytes + bytes /\ next.truncated = full
    BY <1>1, <2>1 DEF LimiterType
  <2>7. bytes <= b.max_bytes - l.bytes /\ ~l.truncated
    BY <1>3 DEF Measured
  <2>8. l.bytes + bytes <= b.max_bytes
    BY <2>3, <2>7
  <2>9. Within(next, b)
    BY <2>5, <2>6, <2>8 DEF Within
  <2> QED
    BY <2>4, <2>6, <2>7, <2>9 DEF next
<1> QED
  BY <1>2, <1>3

\* What has been read of some items: the ones kept are in front of the probe.
Reads(l, b, S, items, i) ==
  {r \in [limiter : LimiterType, kept : Seq(S)] :
     /\ Within(r.limiter, b) /\ Len(r.kept) <= i
     /\ r.limiter.truncated /\ ~r.limiter.failed => r.limiter.observed > b.max_items
     /\ ~r.limiter.failed => /\ r.limiter.observed = l.observed + i
                              /\ \A j \in 1..Len(r.kept) : r.kept[j] = items[j]
     /\ ~r.limiter.failed /\ ~r.limiter.truncated =>
          Len(r.kept) = i /\ \A j \in 1..i : r.kept[j] = items[j]}

LEMMA ReadAllReads ==
  ASSUME NEW b, b.max_bytes \in Nat, b.max_items \in Nat, NEW l, Within(l, b),
         l.truncated /\ ~l.failed => l.observed > b.max_items,
         NEW S, \A x \in S : x.bytes \in Nat, NEW items \in Seq(S)
  PROVE  ReadAll(l, b, items) \in Reads(l, b, S, items, Len(items))
<1> DEFINE n == Len(items)
           V == [limiter : LimiterType, kept : Seq(S)]
           next(i, r) == IF r.limiter.failed THEN r
                         ELSE [limiter |-> ObserveItem(r.limiter, b, items[i].bytes),
                               kept |-> IF \/ ObserveItem(r.limiter, b, items[i].bytes).failed
                                           \/ ObserveItem(r.limiter, b, items[i].bytes).truncated
                                        THEN r.kept ELSE Append(r.kept, items[i])]
           E(f) == [i \in 0..n |->
                     IF i = 0 THEN [limiter |-> l, kept |-> <<>>]
                     ELSE IF f[i - 1].limiter.failed THEN f[i - 1]
                     ELSE [limiter |-> ObserveItem(f[i - 1].limiter, b, items[i].bytes),
                           kept |-> IF \/ ObserveItem(f[i - 1].limiter, b, items[i].bytes).failed
                                       \/ ObserveItem(f[i - 1].limiter, b, items[i].bytes).truncated
                                    THEN f[i - 1].kept ELSE Append(f[i - 1].kept, items[i])]]
           F == CHOOSE f : f = E(f)
           base == [limiter |-> l, kept |-> <<>>]
           I == [i \in 0..n |-> Reads(l, b, S, items, i)]
<1>1. ReadAll(l, b, items) = F[n]
  BY DEF ReadAll
<1>2. n \in Nat /\ \A i \in 1..n : items[i] \in S /\ items[i].bytes \in Nat
  OBVIOUS
<1>3. base \in Reads(l, b, S, items, 0)
  BY DEF Reads, Within, LimiterType
<1>n. base \in V
  BY <1>3 DEF Reads
<1> HIDE DEF n
\* One more item.
<1>4. ASSUME NEW i \in 1..n, NEW r \in Reads(l, b, S, items, i - 1)
      PROVE  next(i, r) \in Reads(l, b, S, items, i)
  <2>1. /\ r \in V /\ Within(r.limiter, b) /\ Len(r.kept) <= i - 1
        /\ r.limiter.truncated /\ ~r.limiter.failed => r.limiter.observed > b.max_items
        /\ ~r.limiter.failed => r.limiter.observed = l.observed + (i - 1)
        /\ ~r.limiter.failed => \A j \in 1..Len(r.kept) : r.kept[j] = items[j]
        /\ ~r.limiter.failed /\ ~r.limiter.truncated =>
             Len(r.kept) = i - 1 /\ \A j \in 1..(i - 1) : r.kept[j] = items[j]
    BY DEF Reads
  <2>2. i \in Nat /\ l.observed \in Nat /\ r.kept \in Seq(S) /\ r.limiter \in LimiterType
    BY <1>2, <2>1 DEF Within, LimiterType
  <2> HIDE DEF V
  <2>3. CASE r.limiter.failed
    <3>1. next(i, r) = r
      BY <2>3
    <3>2. Len(r.kept) <= i
      BY <2>1, <2>2
    <3> QED
      BY <2>1, <2>3, <3>1, <3>2 DEF Reads, V
  <2>4. CASE ~r.limiter.failed
    <3> DEFINE m == ObserveItem(r.limiter, b, items[i].bytes)
               k == IF m.failed \/ m.truncated THEN r.kept ELSE Append(r.kept, items[i])
    <3>1. next(i, r) = [limiter |-> m, kept |-> k]
      BY <2>4
    <3>a. items[i].bytes \in Nat
      BY <1>2
    <3>2. /\ Within(m, b)
          /\ m.truncated /\ ~m.failed => m.observed > b.max_items
          /\ ~m.failed => m.observed = r.limiter.observed + 1 /\ ~r.limiter.truncated
      BY <2>1, <3>a, ObserveItemFits
    <3> HIDE DEF m, next
    <3>3. m \in LimiterType
      BY <3>2 DEF Within
    <3>4. k \in Seq(S) /\ Len(k) <= i
      <4>1. CASE m.failed \/ m.truncated
        BY <2>1, <2>2, <4>1
      <4>2. CASE ~(m.failed \/ m.truncated)
        BY <1>2, <2>1, <2>2, <4>2
      <4> QED
        BY <4>1, <4>2
    <3>5. ~m.failed => m.observed = l.observed + i
      BY <2>1, <2>2, <2>4, <3>2
    <3>6. ~m.failed /\ ~m.truncated => Len(k) = i /\ \A j \in 1..i : k[j] = items[j]
      <4>1. SUFFICES ASSUME ~m.failed, ~m.truncated
                     PROVE  Len(k) = i /\ \A j \in 1..i : k[j] = items[j]
        OBVIOUS
      <4>2. k = Append(r.kept, items[i]) /\ Len(r.kept) = i - 1 /\ \A j \in 1..(i - 1) : r.kept[j] = items[j]
        BY <2>1, <2>4, <3>2, <4>1
      <4> HIDE DEF k
      <4> QED
        BY <1>2, <2>2, <4>2
    <3>7. ~m.failed => \A j \in 1..Len(k) : k[j] = items[j]
      <4>1. m.truncated => k = r.kept
        OBVIOUS
      <4> HIDE DEF k
      <4> QED
        BY <2>1, <2>4, <3>6, <4>1
    <3> HIDE DEF k
    <3> QED
      BY <3>1, <3>2, <3>3, <3>4, <3>5, <3>6, <3>7 DEF Reads
  <2> QED
    BY <2>3, <2>4
<1>5. \A i \in 1..n : \A r \in Reads(l, b, S, items, i - 1) : next(i, r) \in Reads(l, b, S, items, i)
  BY <1>4
<1>6. \A i \in 1..n : i \in 0..n /\ i # 0 /\ i - 1 \in 0..n
  BY <1>2
<1>7. \A i \in 0..n : I[i] = Reads(l, b, S, items, i)
  OBVIOUS
<1>8. \A i \in 1..n : \A r \in I[i - 1] : next(i, r) \in I[i]
  BY <1>5, <1>6, <1>7
<1>9. I \in [0..n -> SUBSET V] /\ base \in I[0]
  BY <1>2, <1>3, <1>7 DEF Reads
<1> HIDE DEF I, V, base
<1>10. \E f : f = E(f)
  <2> DEFINE step == [i \in 1..n |-> [r \in V |-> IF next(i, r) \in V THEN next(i, r) ELSE base]]
  <2>1. step \in [1..n -> [V -> V]]
    BY <1>n
  <2>2. \A i \in 1..n : \A r \in V : next(i, r) \in V => step[i][r] = next(i, r)
    OBVIOUS
  <2> HIDE DEF step, next
  <2>3. ASSUME NEW i \in 1..n, NEW r \in I[i - 1]
        PROVE  r \in V /\ next(i, r) \in V /\ step[i][r] = next(i, r) /\ step[i][r] \in I[i]
    BY <1>6, <1>8, <1>9, <2>2
  <2>4. Leads(n, step, I)
    BY <2>3 DEF Leads
  <2>k. Kept(n, V, base, step, I) # {}
    BY <1>2, <1>n, <1>9, <2>1, <2>4, RecursionKeeps
  <2>5. PICK f \in [0..n -> V] : /\ f[0] = base /\ \A i \in 1..n : f[i] = step[i][f[i - 1]]
                                 /\ \A i \in 0..n : f[i] \in I[i]
    BY <2>k DEF Kept, Solutions
  <2>6. \A i \in 1..n : f[i] = next(i, f[i - 1])
    BY <1>6, <2>3, <2>5
  <2>7. ASSUME NEW i \in 0..n PROVE f[i] = E(f)[i]
    <3>1. CASE i = 0
      BY <2>5, <3>1 DEF base
    <3>2. CASE i # 0
      <4>1. i \in 1..n
        BY <1>2, <3>2
      <4>2. f[i] = next(i, f[i - 1])
        BY <2>6, <4>1
      <4> QED
        BY <3>2, <4>2, Zenon DEF next
    <3> QED
      BY <3>1, <3>2
  <2>8. f = [i \in 0..n |-> f[i]]
    BY <2>5
  <2>9. [i \in 0..n |-> f[i]] = E(f)
    BY <2>7, Zenon
  <2> QED
    BY <2>8, <2>9
<1>11. F = E(F)
  BY <1>10
<1> HIDE DEF F
<1>12. F[0] = base /\ \A i \in 1..n : F[i] = next(i, F[i - 1])
  <2>1. ASSUME NEW i \in 0..n PROVE F[i] = E(F)[i]
    BY <1>11, Zenon
  <2>2. 0 \in 0..n
    BY <1>2
  <2>3. F[0] = base
    BY <2>1, <2>2 DEF base
  <2>4. ASSUME NEW i \in 1..n PROVE F[i] = next(i, F[i - 1])
    BY <1>6, <2>1, Zenon
  <2> QED
    BY <2>3, <2>4
<1> HIDE DEF next
<1>13. \A i \in 0..n : F[i] \in I[i]
  <2>1. \A i \in 1..n : F[i - 1] \in I[i - 1] => F[i] \in I[i]
    BY <1>8, <1>12
  <2>2. F[0] \in I[0]
    BY <1>9, <1>12
  <2> QED
    BY <1>2, <2>1, <2>2, Along
<1> QED
  <2>1. F[n] \in I[n] /\ n \in 0..n
    BY <1>2, <1>13
  <2> QED
    BY <1>1, <1>7, <2>1 DEF n

\* What a scan has taken in of a page.
Takes(b) == {r \in [tally : LimiterType, kept : Seq(Names)] :
               /\ Within(r.tally, b)
               /\ r.tally.truncated /\ ~r.tally.failed => r.tally.observed > b.max_items}

LEMMA ObservedTakes ==
  ASSUME budget.max_bytes \in Nat, budget.max_items \in Nat, Within(tally, budget),
         tally.truncated /\ ~tally.failed => tally.observed > budget.max_items,
         kept \in Seq(Names), NEW page \in Seq(Names)
  PROVE  Observed(page) \in Takes(budget)
<1> DEFINE n == Len(page)
           V == Takes(budget)
           after(i, r) == ObserveItem(r.tally, budget, SizeOf[page[i]])
           next(i, r) == IF \/ r.tally.failed \/ r.tally.truncated
                            \/ page[i] \in Range(r.kept)
                         THEN r
                         ELSE [tally |-> after(i, r),
                               kept |-> IF after(i, r).failed \/ after(i, r).truncated
                                        THEN r.kept ELSE Append(r.kept, page[i])]
           base == [tally |-> tally, kept |-> kept]
           E(f) == [i \in 0..n |->
                     IF i = 0 THEN [tally |-> tally, kept |-> kept]
                     ELSE IF \/ f[i - 1].tally.failed \/ f[i - 1].tally.truncated
                             \/ page[i] \in Range(f[i - 1].kept)
                          THEN f[i - 1]
                          ELSE [tally |-> ObserveItem(f[i - 1].tally, budget, SizeOf[page[i]]),
                                kept |-> IF \/ ObserveItem(f[i - 1].tally, budget, SizeOf[page[i]]).failed
                                            \/ ObserveItem(f[i - 1].tally, budget, SizeOf[page[i]]).truncated
                                         THEN f[i - 1].kept ELSE Append(f[i - 1].kept, page[i])]]
           F == CHOOSE f : f = E(f)
<1>1. Observed(page) = F[n]
  BY DEF Observed
<1>2. n \in Nat /\ \A i \in 1..n : page[i] \in Names /\ SizeOf[page[i]] \in Nat
  BY BoundedReadAssumption
<1>3. base \in V
  BY DEF Within, Takes
<1> HIDE DEF n
\* One more name.
<1>4. ASSUME NEW i \in 1..n, NEW r \in V PROVE next(i, r) \in V
  <2>1. /\ r \in [tally : LimiterType, kept : Seq(Names)] /\ Within(r.tally, budget)
        /\ r.tally.truncated /\ ~r.tally.failed => r.tally.observed > budget.max_items
    BY DEF Takes
  <2>2. CASE \/ r.tally.failed \/ r.tally.truncated \/ page[i] \in Range(r.kept)
    BY <2>2
  <2>3. CASE ~(\/ r.tally.failed \/ r.tally.truncated \/ page[i] \in Range(r.kept))
    <3> DEFINE m == after(i, r)
               k == IF m.failed \/ m.truncated THEN r.kept ELSE Append(r.kept, page[i])
    <3>1. next(i, r) = [tally |-> m, kept |-> k]
      BY <2>3
    <3>2. SizeOf[page[i]] \in Nat
      BY <1>2
    <3>3. Within(m, budget) /\ (m.truncated /\ ~m.failed => m.observed > budget.max_items)
      BY <2>1, <3>2, ObserveItemFits
    <3> HIDE DEF m, next
    <3>4. m \in LimiterType
      BY <3>3 DEF Within
    <3>5. k \in Seq(Names)
      BY <1>2, <2>1
    <3> HIDE DEF k
    <3> QED
      BY <3>1, <3>3, <3>4, <3>5 DEF Takes
  <2> QED
    BY <2>2, <2>3
<1>5. \A i \in 1..n : \A r \in V : next(i, r) \in V
  BY <1>4
<1>6. \A i \in 1..n : i \in 0..n /\ i # 0 /\ i - 1 \in 0..n
  BY <1>2
<1> HIDE DEF V, base
<1>7. \E f : f = E(f)
  <2> DEFINE step == [i \in 1..n |-> [r \in V |-> next(i, r)]]
  <2>1. step \in [1..n -> [V -> V]]
    BY <1>5
  <2>2. \A i \in 1..n : \A r \in V : step[i][r] = next(i, r)
    OBVIOUS
  <2> HIDE DEF step, next
  <2>3. Solutions(n, V, base, step) # {}
    BY <1>2, <1>3, <2>1, Recursion
  <2>4. PICK f \in [0..n -> V] : f[0] = base /\ \A i \in 1..n : f[i] = step[i][f[i - 1]]
    BY <2>3 DEF Solutions
  <2>5. \A i \in 1..n : f[i] = next(i, f[i - 1])
    BY <1>6, <2>2, <2>4
  <2>6. ASSUME NEW i \in 0..n PROVE f[i] = E(f)[i]
    <3>1. CASE i = 0
      BY <2>4, <3>1 DEF base
    <3>2. CASE i # 0
      <4>1. i \in 1..n
        BY <1>2, <3>2
      <4>2. f[i] = next(i, f[i - 1])
        BY <2>5, <4>1
      <4> QED
        BY <3>2, <4>2, Zenon DEF next
    <3> QED
      BY <3>1, <3>2
  <2>7. f = [i \in 0..n |-> f[i]]
    BY <2>4
  <2>8. [i \in 0..n |-> f[i]] = E(f)
    BY <2>6, Zenon
  <2> QED
    BY <2>7, <2>8
<1>8. F = E(F)
  BY <1>7
<1> HIDE DEF F
<1>9. F[0] = base /\ \A i \in 1..n : F[i] = next(i, F[i - 1])
  <2>1. ASSUME NEW i \in 0..n PROVE F[i] = E(F)[i]
    BY <1>8, Zenon
  <2>2. 0 \in 0..n
    BY <1>2
  <2>3. F[0] = base
    BY <2>1, <2>2 DEF base
  <2>4. ASSUME NEW i \in 1..n PROVE F[i] = next(i, F[i - 1])
    BY <1>6, <2>1, Zenon
  <2> QED
    BY <2>3, <2>4
<1> HIDE DEF next
<1>10. \A i \in 0..n : F[i] \in V
  <2> DEFINE I == [i \in 0..n |-> V]
  <2>1. \A i \in 1..n : F[i - 1] \in I[i - 1] => F[i] \in I[i]
    BY <1>5, <1>6, <1>9
  <2>2. F[0] \in I[0]
    BY <1>2, <1>3, <1>9
  <2>3. \A i \in 0..n : F[i] \in I[i]
    <3> HIDE DEF I
    <3> QED
      BY <1>2, <2>1, <2>2, Along
  <2> QED
    BY <2>3
<1> QED
  <2>1. F[n] \in V /\ n \in 0..n
    BY <1>2, <1>10
  <2> QED
    BY <1>1, <2>1 DEF V

Sample       == [bytes : Nat]
SeriesCounts == [series : Nat, samples : Nat, bytes : Nat, probe : Nat, truncated : BOOLEAN,
                 failed : BOOLEAN]

\* The count behind a sample.
LEMMA CountType ==
  ASSUME NEW l \in SeriesCounts, NEW samples \in Nat, NEW bytes \in Nat, NEW full \in BOOLEAN,
         NEW probe \in Nat
  PROVE  [l EXCEPT !.samples = samples, !.bytes = bytes, !.truncated = full, !.probe = probe]
           \in SeriesCounts
BY DEF SeriesCounts

\* One more sample leaves a count and the samples in front of the probe.
LEMMA RetainSampleType ==
  ASSUME NEW b, NEW r \in [limiter : SeriesCounts, values : Seq(Sample)], NEW sample \in Sample
  PROVE  RetainSample(r, b, sample) \in [limiter : SeriesCounts, values : Seq(Sample)]
<1> DEFINE l == r.limiter
           full == ~(l.samples < b.max_samples)
           probe == IF l.samples < b.max_samples THEN 0 ELSE sample.bytes
           values == IF l.samples < b.max_samples THEN Append(r.values, sample) ELSE r.values
           m == [l EXCEPT !.samples = @ + 1, !.bytes = @ + sample.bytes, !.truncated = full,
                          !.probe = probe]
<1>1. l \in SeriesCounts /\ r.values \in Seq(Sample) /\ sample.bytes \in Nat
  BY DEF Sample
<1>2. CASE l.failed \/ l.truncated
  BY <1>2 DEF RetainSample
<1>3. CASE ~(l.failed \/ l.truncated) /\ ~Measured(sample.bytes, b.max_bytes - l.bytes)
  <2>1. RetainSample(r, b, sample) = [r EXCEPT !.limiter = Refused(@)]
    BY <1>3 DEF RetainSample
  <2>2. Refused(l) \in SeriesCounts
    BY <1>1 DEF Refused, SeriesCounts
  <2> QED
    BY <2>1, <2>2
<1>4. CASE ~(l.failed \/ l.truncated) /\ Measured(sample.bytes, b.max_bytes - l.bytes)
  <2>1. RetainSample(r, b, sample) = [limiter |-> m, values |-> values]
    BY <1>4 DEF RetainSample
  <2>2. /\ l.series \in Nat /\ l.samples \in Nat /\ l.bytes \in Nat /\ l.failed \in BOOLEAN
        /\ full \in BOOLEAN
    BY <1>1 DEF SeriesCounts
  <2>3. probe \in Nat /\ values \in Seq(Sample) /\ l.samples + 1 \in Nat /\ l.bytes + sample.bytes \in Nat
    BY <1>1, <2>2
  <2> HIDE DEF full, probe, values, l
  <2>5. m \in SeriesCounts
    BY <1>1, <2>2, <2>3, CountType
  <2> HIDE DEF m
  <2> QED
    BY <2>1, <2>3, <2>5
<1> QED
  BY <1>2, <1>3, <1>4

\* The count and the samples of one series, read from the count before it.
Retained(charged, b, samples) ==
  LET retained[i \in 0..Len(samples)] ==
        IF i = 0 THEN [limiter |-> charged, values |-> <<>>]
        ELSE RetainSample(retained[i - 1], b, samples[i])
  IN retained[Len(samples)]

SamplesRead(charged, b, samples) ==
  {f \in [0..Len(samples) -> [limiter : SeriesCounts, values : Seq(Sample)]] :
     /\ f[0] = [limiter |-> charged, values |-> <<>>]
     /\ \A i \in 1..Len(samples) : f[i] = RetainSample(f[i - 1], b, samples[i])
     /\ Retained(charged, b, samples) = f[Len(samples)]}

LEMMA RetainedRecursion ==
  ASSUME NEW b, NEW charged \in SeriesCounts, NEW samples \in Seq(Sample)
  PROVE  SamplesRead(charged, b, samples) # {}
<1> DEFINE n == Len(samples)
           V == [limiter : SeriesCounts, values : Seq(Sample)]
           next(i, r) == RetainSample(r, b, samples[i])
           base == [limiter |-> charged, values |-> <<>>]
           E(f) == [i \in 0..n |-> IF i = 0 THEN [limiter |-> charged, values |-> <<>>]
                                   ELSE RetainSample(f[i - 1], b, samples[i])]
           F == CHOOSE f : f = E(f)
<1>1. Retained(charged, b, samples) = F[n]
  BY DEF Retained
<1>2. n \in Nat /\ \A i \in 1..n : samples[i] \in Sample
  OBVIOUS
<1>3. base \in V
  OBVIOUS
<1> HIDE DEF n
<1>4. ASSUME NEW i \in 1..n, NEW r \in V PROVE next(i, r) \in V
  BY <1>2, RetainSampleType
<1>5. \A i \in 1..n : \A r \in V : next(i, r) \in V
  BY <1>4
<1>6. \A i \in 1..n : i \in 0..n /\ i # 0 /\ i - 1 \in 0..n
  BY <1>2
<1> HIDE DEF V, base
<1>7. \E f : f = E(f)
  <2> DEFINE step == [i \in 1..n |-> [r \in V |-> next(i, r)]]
  <2>1. step \in [1..n -> [V -> V]]
    BY <1>5
  <2>2. \A i \in 1..n : \A r \in V : step[i][r] = next(i, r)
    OBVIOUS
  <2> HIDE DEF step, next
  <2>3. Solutions(n, V, base, step) # {}
    BY <1>2, <1>3, <2>1, Recursion
  <2>4. PICK f \in [0..n -> V] : f[0] = base /\ \A i \in 1..n : f[i] = step[i][f[i - 1]]
    BY <2>3 DEF Solutions
  <2>5. \A i \in 1..n : f[i] = next(i, f[i - 1])
    BY <1>6, <2>2, <2>4
  <2>6. ASSUME NEW i \in 0..n PROVE f[i] = E(f)[i]
    <3>1. CASE i = 0
      BY <2>4, <3>1 DEF base
    <3>2. CASE i # 0
      <4>1. i \in 1..n
        BY <1>2, <3>2
      <4>2. f[i] = next(i, f[i - 1])
        BY <2>5, <4>1
      <4> QED
        BY <3>2, <4>2, Zenon DEF next
    <3> QED
      BY <3>1, <3>2
  <2>7. f = [i \in 0..n |-> f[i]]
    BY <2>4
  <2>8. [i \in 0..n |-> f[i]] = E(f)
    BY <2>6, Zenon
  <2> QED
    BY <2>7, <2>8
<1>8. F = E(F)
  BY <1>7
<1> HIDE DEF F
<1>9. F[0] = base /\ \A i \in 1..n : F[i] = next(i, F[i - 1])
  <2>1. ASSUME NEW i \in 0..n PROVE F[i] = E(F)[i]
    BY <1>8, Zenon
  <2>2. 0 \in 0..n
    BY <1>2
  <2>3. F[0] = base
    BY <2>1, <2>2 DEF base
  <2>4. ASSUME NEW i \in 1..n PROVE F[i] = next(i, F[i - 1])
    BY <1>6, <2>1, Zenon
  <2> QED
    BY <2>3, <2>4
<1> HIDE DEF next
<1>10. \A i \in 0..n : F[i] \in V
  <2> DEFINE I == [i \in 0..n |-> V]
  <2>1. \A i \in 1..n : F[i - 1] \in I[i - 1] => F[i] \in I[i]
    BY <1>5, <1>6, <1>9
  <2>2. F[0] \in I[0]
    BY <1>2, <1>3, <1>9
  <2>3. \A i \in 0..n : F[i] \in I[i]
    <3> HIDE DEF I
    <3> QED
      BY <1>2, <2>1, <2>2, Along
  <2> QED
    BY <2>3
<1>11. F \in [0..n -> V]
  <2>1. F = [i \in 0..n |-> F[i]]
    BY <1>8
  <2> QED
    BY <1>10, <2>1
<1>12. F \in SamplesRead(charged, b, samples)
  BY <1>1, <1>9, <1>11 DEF SamplesRead, V, base, n, next
<1> QED
  BY <1>12

LEMMA RetainedType ==
  ASSUME NEW b, NEW charged \in SeriesCounts, NEW samples \in Seq(Sample)
  PROVE  Retained(charged, b, samples) \in [limiter : SeriesCounts, values : Seq(Sample)]
<1>1. PICK f : f \in SamplesRead(charged, b, samples)
  BY RetainedRecursion
<1>2. Len(samples) \in 0..Len(samples)
  OBVIOUS
<1> QED
  BY <1>1, <1>2 DEF SamplesRead

\* The count and the series of an answer, as far as a read takes them in.
LEMMA RetainSeriesType ==
  ASSUME NEW b, NEW r \in [limiter : SeriesCounts, kept : Seq(Series)], NEW one \in Series
  PROVE  RetainSeries(r, b, one) \in [limiter : SeriesCounts, kept : Seq(Series)]
<1> DEFINE l == r.limiter
           charged == [l EXCEPT !.series = @ + 1, !.bytes = @ + one.bytes]
           samples == Retained(charged, b, one.samples)
<1>1. /\ l \in SeriesCounts /\ r.kept \in Seq(Series)
      /\ one.bytes \in Nat /\ one.samples \in Seq(Sample)
  BY DEF Series, Sample
<1>2. charged \in SeriesCounts
  <2>1. l.series + 1 \in Nat /\ l.bytes + one.bytes \in Nat
    BY <1>1 DEF SeriesCounts
  <2> QED
    BY <1>1, <2>1 DEF SeriesCounts
<1>3. samples \in [limiter : SeriesCounts, values : Seq(Sample)]
  BY <1>1, <1>2, RetainedType
<1>4. RetainSeries(r, b, one) =
        IF l.failed \/ l.truncated THEN r
        ELSE IF ~Measured(one.bytes, b.max_bytes - l.bytes) THEN [r EXCEPT !.limiter = Refused(@)]
        ELSE IF l.series >= b.max_series
        THEN [r EXCEPT !.limiter = [charged EXCEPT !.truncated = TRUE, !.probe = one.bytes]]
        ELSE [limiter |-> samples.limiter,
              kept |-> Append(r.kept, [one EXCEPT !.samples = samples.values])]
  BY Zenon DEF RetainSeries, Retained
<1>5. Refused(l) \in SeriesCounts
  BY <1>1 DEF Refused, SeriesCounts
<1>6. [charged EXCEPT !.truncated = TRUE, !.probe = one.bytes] \in SeriesCounts
  <2> HIDE DEF charged
  <2> QED
    BY <1>1, <1>2 DEF SeriesCounts
<1>7. [one EXCEPT !.samples = samples.values] \in Series
  <2> HIDE DEF samples
  <2> QED
    BY <1>3 DEF Series, Sample
<1> HIDE DEF charged, samples, l
<1>8. [r EXCEPT !.limiter = Refused(@)] \in [limiter : SeriesCounts, kept : Seq(Series)]
  BY <1>5 DEF l
<1>9. [r EXCEPT !.limiter = [charged EXCEPT !.truncated = TRUE, !.probe = one.bytes]]
        \in [limiter : SeriesCounts, kept : Seq(Series)]
  BY <1>6
<1>10. [limiter |-> samples.limiter,
        kept |-> Append(r.kept, [one EXCEPT !.samples = samples.values])]
         \in [limiter : SeriesCounts, kept : Seq(Series)]
  BY <1>1, <1>3, <1>7
<1> QED
  BY <1>4, <1>8, <1>9, <1>10

SeriesRead(b, all) ==
  {f \in [0..Len(all) -> [limiter : SeriesCounts, kept : Seq(Series)]] :
     /\ f[0] = [limiter |-> SeriesLimiter, kept |-> <<>>]
     /\ \A i \in 1..Len(all) : f[i] = RetainSeries(f[i - 1], b, all[i])
     /\ ReadSeries(b, all) = f[Len(all)]}

LEMMA ReadSeriesRecursion ==
  ASSUME NEW b, NEW all \in Seq(Series)
  PROVE  SeriesRead(b, all) # {}
<1> DEFINE n == Len(all)
           V == [limiter : SeriesCounts, kept : Seq(Series)]
           next(i, r) == RetainSeries(r, b, all[i])
           base == [limiter |-> SeriesLimiter, kept |-> <<>>]
           E(f) == [i \in 0..n |-> IF i = 0 THEN [limiter |-> SeriesLimiter, kept |-> <<>>]
                                   ELSE RetainSeries(f[i - 1], b, all[i])]
           F == CHOOSE f : f = E(f)
<1>1. ReadSeries(b, all) = F[n]
  BY DEF ReadSeries
<1>2. n \in Nat /\ \A i \in 1..n : all[i] \in Series
  OBVIOUS
<1>3. base \in V
  BY DEF SeriesLimiter, SeriesCounts
<1> HIDE DEF n
<1>4. ASSUME NEW i \in 1..n, NEW r \in V PROVE next(i, r) \in V
  BY <1>2, RetainSeriesType
<1>5. \A i \in 1..n : \A r \in V : next(i, r) \in V
  BY <1>4
<1>6. \A i \in 1..n : i \in 0..n /\ i # 0 /\ i - 1 \in 0..n
  BY <1>2
<1> HIDE DEF V, base
<1>7. \E f : f = E(f)
  <2> DEFINE step == [i \in 1..n |-> [r \in V |-> next(i, r)]]
  <2>1. step \in [1..n -> [V -> V]]
    BY <1>5
  <2>2. \A i \in 1..n : \A r \in V : step[i][r] = next(i, r)
    OBVIOUS
  <2> HIDE DEF step, next
  <2>3. Solutions(n, V, base, step) # {}
    BY <1>2, <1>3, <2>1, Recursion
  <2>4. PICK f \in [0..n -> V] : f[0] = base /\ \A i \in 1..n : f[i] = step[i][f[i - 1]]
    BY <2>3 DEF Solutions
  <2>5. \A i \in 1..n : f[i] = next(i, f[i - 1])
    BY <1>6, <2>2, <2>4
  <2>6. ASSUME NEW i \in 0..n PROVE f[i] = E(f)[i]
    <3>1. CASE i = 0
      BY <2>4, <3>1 DEF base
    <3>2. CASE i # 0
      <4>1. i \in 1..n
        BY <1>2, <3>2
      <4>2. f[i] = next(i, f[i - 1])
        BY <2>5, <4>1
      <4> QED
        BY <3>2, <4>2, Zenon DEF next
    <3> QED
      BY <3>1, <3>2
  <2>7. f = [i \in 0..n |-> f[i]]
    BY <2>4
  <2>8. [i \in 0..n |-> f[i]] = E(f)
    BY <2>6, Zenon
  <2> QED
    BY <2>7, <2>8
<1>8. F = E(F)
  BY <1>7
<1> HIDE DEF F
<1>9. F[0] = base /\ \A i \in 1..n : F[i] = next(i, F[i - 1])
  <2>1. ASSUME NEW i \in 0..n PROVE F[i] = E(F)[i]
    BY <1>8, Zenon
  <2>2. 0 \in 0..n
    BY <1>2
  <2>3. F[0] = base
    BY <2>1, <2>2 DEF base
  <2>4. ASSUME NEW i \in 1..n PROVE F[i] = next(i, F[i - 1])
    BY <1>6, <2>1, Zenon
  <2> QED
    BY <2>3, <2>4
<1> HIDE DEF next
<1>10. \A i \in 0..n : F[i] \in V
  <2> DEFINE I == [i \in 0..n |-> V]
  <2>1. \A i \in 1..n : F[i - 1] \in I[i - 1] => F[i] \in I[i]
    BY <1>5, <1>6, <1>9
  <2>2. F[0] \in I[0]
    BY <1>2, <1>3, <1>9
  <2>3. \A i \in 0..n : F[i] \in I[i]
    <3> HIDE DEF I
    <3> QED
      BY <1>2, <2>1, <2>2, Along
  <2> QED
    BY <2>3
<1>11. F \in [0..n -> V]
  <2>1. F = [i \in 0..n |-> F[i]]
    BY <1>8
  <2> QED
    BY <1>10, <2>1
<1>12. F \in SeriesRead(b, all)
  BY <1>1, <1>9, <1>11 DEF SeriesRead, V, base, n, next
<1> QED
  BY <1>12

LEMMA ReadSeriesType ==
  ASSUME NEW b, NEW all \in Seq(Series)
  PROVE  ReadSeries(b, all) \in [limiter : SeriesCounts, kept : Seq(Series)]
<1>1. PICK f : f \in SeriesRead(b, all)
  BY ReadSeriesRecursion
<1>2. Len(all) \in 0..Len(all)
  OBVIOUS
<1> QED
  BY <1>1, <1>2 DEF SeriesRead
-----------------------------------------------------------------------------
(* Answers *)

\* What a limiter lets through is within the budget, its probe included.
LEMMA FinishesFits ==
  ASSUME NEW b, b.max_bytes \in Nat, b.max_items \in Nat, NEW l \in LimiterType,
         NEW S, \A x \in S : x.bytes \in Nat, NEW items \in Seq(S), Finishes(l, b, items)
  PROVE  Len(items) <= b.max_items /\ WholeOf(items) <= b.max_bytes
<1>1. l.probe \in Nat /\ l.observed \in Nat
  BY DEF LimiterType
<1>2. WholeOf(items) \in Nat
  BY BytesType
<1>3. WholeOf(items) <= b.max_bytes - l.probe
  BY DEF Finishes, Measured
<1>4. Len(items) = IF l.observed < b.max_items THEN l.observed ELSE b.max_items
  BY DEF Finishes
<1>5. Len(items) <= b.max_items
  BY <1>1, <1>4
<1> HIDE DEF WholeOf
<1> QED
  BY <1>1, <1>2, <1>3, <1>5

\* Errors and dropped calls show nothing.
LEMMA ConstantAnswers ==
  ASSUME NEW b, NEW method, NEW answer \in {NoResult, Failed, Dropped}
  PROVE  /\ answer \in ResultType /\ answer.kind \in {"none", "Failed", "Dropped"}
         /\ FitsBudget(answer, b, method)
<1>1. <<>> \in Seq(Names)
  OBVIOUS
<1>2. answer \in {[kind |-> k, items |-> <<>>, truncated |-> FALSE] : k \in {"none", "Failed", "Dropped"}}
  BY DEF NoResult, Failed, Dropped
<1>3. PICK k \in {"none", "Failed", "Dropped"} : answer = [kind |-> k, items |-> <<>>, truncated |-> FALSE]
  BY <1>2
<1>4. answer.kind = k /\ answer \in ResultType
  BY <1>1, <1>3 DEF ResultType, Kinds
<1> QED
  BY <1>4 DEF FitsBudget, Lists

LEMMA FinishedFits ==
  ASSUME budget.max_bytes \in Nat, budget.max_items \in Nat, NEW l \in LimiterType,
         NEW names \in Seq(Names), NEW method
  PROVE  /\ Finished(l, names) \in ResultType
         /\ Finished(l, names).kind \in {"List", "Failed"}
         /\ FitsBudget(Finished(l, names), budget, method)
<1>1. CASE Finishes(l, budget, Rows(names))
  <2>1. Finished(l, names) = [kind |-> "List", items |-> names, truncated |-> l.truncated]
    BY <1>1 DEF Finished
  <2>2. Rows(names) \in Seq(Row) /\ Len(Rows(names)) = Len(names)
    BY RowsType
  <2>3. \A x \in Row : x.bytes \in Nat
    BY DEF Row
  <2>4. Len(Rows(names)) <= budget.max_items /\ WholeOf(Rows(names)) <= budget.max_bytes
    BY <1>1, <2>2, <2>3, FinishesFits
  <2>5. l.truncated \in BOOLEAN
    BY DEF LimiterType
  <2> QED
    BY <2>1, <2>2, <2>4, <2>5 DEF ResultType, Kinds, FitsBudget
<1>2. CASE ~Finishes(l, budget, Rows(names))
  BY <1>2, ConstantAnswers DEF Finished, Failed, NoResult
<1> QED
  BY <1>1, <1>2

LEMMA MessagesFit ==
  ASSUME budget.max_bytes \in Nat, budget.max_items \in Nat, NEW l \in LimiterType,
         NEW names \in Seq(Names), NEW method
  PROVE  /\ Messages(l, names) \in ResultType
         /\ Messages(l, names).kind \in {"Messages", "Failed"}
         /\ FitsBudget(Messages(l, names), budget, method)
<1> DEFINE answer == Finished(l, names)
<1>1. answer \in ResultType /\ answer.kind \in {"List", "Failed"} /\ FitsBudget(answer, budget, method)
  BY FinishedFits
<1> HIDE DEF answer
<1>2. CASE l.failed
  BY <1>2, ConstantAnswers DEF Messages, Failed, NoResult
<1>3. CASE ~l.failed
  <2>1. Messages(l, names) = [answer EXCEPT !.kind = IF answer.kind = "List" THEN "Messages" ELSE answer.kind]
    BY <1>3 DEF Messages, answer
  <2>2. Messages(l, names) \in ResultType /\ Messages(l, names).kind \in {"Messages", "Failed"}
        /\ (Messages(l, names).kind = "Messages" => answer.kind = "List")
        /\ Messages(l, names).items = answer.items
    BY <1>1, <2>1 DEF ResultType, Kinds
  <2> QED
    BY <1>1, <2>2 DEF FitsBudget, Lists
<1> QED
  BY <1>2, <1>3

\* Metadata are shown when they fit.
LEMMA ExactFits ==
  ASSUME budget.max_bytes \in Nat, budget.max_items \in Nat, NEW names \in Seq(Names),
         MetadataFits(budget, Rows(names)), NEW method
  PROVE  /\ Exact(names) \in ResultType /\ Exact(names).kind = "Exact"
         /\ FitsBudget(Exact(names), budget, method)
<1>1. Len(Rows(names)) = Len(names)
  BY RowsType
<1>2. Len(Rows(names)) <= budget.max_items /\ WholeOf(Rows(names)) <= budget.max_bytes
  BY DEF MetadataFits, Measured
<1> QED
  BY <1>1, <1>2 DEF Exact, ResultType, Kinds, FitsBudget
-----------------------------------------------------------------------------
(* Lists of names *)

LEMMA PermutationType ==
  ASSUME NEW S \in SUBSET Names, NEW s \in SetToSeqs(S)
  PROVE  s \in Seq(Names)
<1>1. IsFiniteSet(S)
  BY BoundedReadAssumption, FS_Subset
<1>2. Cardinality(S) \in Nat
  BY <1>1, FS_CardinalityType
<1>3. s \in [1..Cardinality(S) -> S]
  BY DEF SetToSeqs
<1> HIDE DEF SetToSeqs
<1>4. s \in [1..Cardinality(S) -> Names]
  BY <1>3
<1> QED
  BY <1>2, <1>4, SequenceElements

LEMMA ListingsType == Listings \subseteq Seq(Names)
BY PermutationType DEF Listings, SetToAllKPermutations

LEMMA RangeType ==
  ASSUME NEW S, NEW s \in Seq(S)
  PROVE  Range(s) \subseteq S
BY DEF Range

LEMMA ScanPagesType ==
  ASSUME listing \in Seq(Names)
  PROVE  ScanPages \subseteq Seq(Names)
<1>1. Range(listing) \subseteq Names
  BY RangeType
<1> QED
  BY <1>1, PermutationType DEF ScanPages

LEMMA AddedType ==
  ASSUME NEW names \in Seq(Names), NEW name \in Names
  PROVE  Added(names, name) \subseteq Seq(Names)
<1> SUFFICES ASSUME NEW i \in 1..(Len(names) + 1) PROVE InsertAt(names, i, name) \in Seq(Names)
  BY DEF Added
<1>1. SubSeq(names, 1, i - 1) \in Seq(Names) /\ SubSeq(names, i, Len(names)) \in Seq(Names)
  OBVIOUS
<1> QED
  BY <1>1 DEF InsertAt
-----------------------------------------------------------------------------
(* The invariant *)

LEMMA InitInv ==
  ASSUME ReadInit
  PROVE  IInv
<1>1. /\ how = By("catalog") /\ budget = Unlimited /\ phase = "idle" /\ listing = <<>>
      /\ unread = <<>> /\ socket = "pool" /\ tally = ReadLimiter /\ kept = <<>> /\ cursor = 0
      /\ result = NoResult
  BY DEF ReadInit
<1>2. <<>> \in Seq(Names) /\ result \in ResultType /\ result.kind = "none"
      /\ FitsBudget(result, budget, how)
  BY <1>1, ConstantAnswers DEF NoResult
<1>3. how \in Methods /\ how.by = "catalog" /\ how.holds = FALSE
  BY <1>1 DEF By, Methods
<1>4. TypeInv
  BY <1>1, <1>2, <1>3 DEF TypeInv, Phases
<1>5. BudgetInv
  BY <1>1, <1>3, LimitersAssumption DEF BudgetInv, Unlimited, Working
<1>6. TallyInv
  BY <1>1, LimitersAssumption DEF TallyInv, Within, ReadLimiter, LimiterType, Unlimited
<1>7. ResultInv
  BY <1>1, <1>2 DEF ResultInv
<1>8. SocketInv
  BY <1>1, <1>2, <1>3 DEF SocketInv
<1> QED
  BY <1>4, <1>5, <1>6, <1>7, <1>8 DEF IInv

LEMMA StutterInv ==
  ASSUME IInv, UNCHANGED readVars
  PROVE  IInv'
<1>1. /\ how' = how /\ budget' = budget /\ phase' = phase /\ listing' = listing /\ unread' = unread
      /\ socket' = socket /\ tally' = tally /\ kept' = kept /\ cursor' = cursor /\ table' = table
      /\ result' = result
  BY DEF readVars
<1>2. TypeInv'
  BY <1>1 DEF IInv, TypeInv
<1>3. BudgetInv' /\ TallyInv'
  BY <1>1 DEF IInv, BudgetInv, TallyInv
<1>4. ResultInv'
  BY <1>1 DEF IInv, ResultInv
<1>5. SocketInv'
  BY <1>1 DEF IInv, SocketInv
<1> QED
  BY <1>2, <1>3, <1>4, <1>5 DEF IInv

\* A read that ends with an answer within its budget.
LEMMA EndsInv ==
  ASSUME IInv, phase \in Working, NEW answer \in ResultType, FitsBudget(answer, budget, how),
         answer.kind \notin {"Table", "Messages"}, EndWith(answer)
  PROVE  IInv'
<1>1. /\ how' = how /\ budget' = budget /\ listing' = listing /\ unread' = unread
      /\ socket' = socket /\ tally' = tally /\ kept' = kept /\ cursor' = cursor /\ table' = table
      /\ phase' = "over" /\ result' = answer
  BY DEF EndWith, asked_for, history, traversal, ranges
<1>2. TypeInv'
  BY <1>1 DEF IInv, TypeInv, Phases
<1>3. BudgetInv' /\ TallyInv'
  BY <1>1 DEF IInv, BudgetInv, TallyInv, Working
<1>4. ResultInv'
  BY <1>1 DEF IInv, ResultInv
<1>5. SocketInv'
  <2>1. result.kind # "Dropped"
    BY DEF IInv, ResultInv, Working
  <2> QED
    BY <1>1, <2>1 DEF IInv, SocketInv
<1> QED
  BY <1>2, <1>3, <1>4, <1>5 DEF IInv

LEMMA ReadFailsInv ==
  ASSUME IInv, ReadFails
  PROVE  IInv'
<1>1. Failed \in ResultType /\ Failed.kind = "Failed" /\ FitsBudget(Failed, budget, how)
  BY ConstantAnswers DEF Failed, NoResult
<1> QED
  BY <1>1, EndsInv DEF ReadFails

LEMMA ReadDroppedInv ==
  ASSUME IInv, ReadDropped
  PROVE  IInv'
<1>1. /\ how' = how /\ budget' = budget /\ listing' = listing /\ unread' = unread
      /\ tally' = tally /\ kept' = kept /\ cursor' = cursor /\ table' = table
      /\ phase' = "over" /\ result' = Dropped
      /\ socket' = IF socket = "held" /\ how.by = "rows" THEN "pool" ELSE socket
  BY DEF ReadDropped, asked_for, history, traversal, ranges
<1>2. Dropped \in ResultType /\ Dropped.kind = "Dropped" /\ FitsBudget(Dropped, budget, how)
  BY ConstantAnswers DEF Dropped, NoResult
<1>3. TypeInv'
  BY <1>1, <1>2 DEF IInv, TypeInv, Phases
<1>4. BudgetInv' /\ TallyInv'
  <2>1. phase' \notin Working \cup {"closing", "idle"} /\ phase # "idle"
    BY <1>1 DEF ReadDropped, Working
  <2>2. BudgetInv'
    BY <1>1, <2>1 DEF IInv, BudgetInv
  <2>3. TallyInv'
    BY <1>1, <2>1 DEF IInv, TallyInv
  <2> QED
    BY <2>2, <2>3
<1>5. ResultInv'
  BY <1>1, <1>2 DEF IInv, ResultInv
<1>6. SocketInv'
  BY <1>1, <1>2 DEF IInv, SocketInv
<1> QED
  BY <1>3, <1>4, <1>5, <1>6 DEF IInv
-----------------------------------------------------------------------------
(* A read starts *)

\* What every method of an adapter has in common.
Sound == {m \in Methods : /\ m.by # "series"
                          /\ m.holds => m.by \in {"rows", "messages"} /\ "end" \notin m.closes
                          /\ m.hides => m.by \in {"rows", "stream_lag", "partition_lag", "group_lag"}
                          /\ m.live => m.by = "rows"
                          /\ m.whole => m.by \in {"group_lag", "partition_lag", "detail", "watermarks"}}
Limiting == {m \in Sound : ~m.whole}

LEMMA ReadInv ==
  ASSUME IInv, NEW m \in Sound, NEW b, b.max_items \in Nat, b.max_bytes \in Nat, Read(m, b)
  PROVE  IInv'
<1> DEFINE starts == m.whole \/ Limited(b)
<1>1. /\ phase = "idle" /\ how' = m /\ budget' = b /\ listing' \in Listings
      /\ tally' = tally /\ kept' = kept /\ table' = table
      /\ cursor' = IF m.by = "queues" THEN 1 ELSE 0
      /\ starts => phase' = "reading" /\ result' = result
      /\ ~starts => phase' = "over" /\ result' = Failed
      /\ unread' \in {listing', <<>>}
      /\ socket' = IF starts /\ m.holds THEN "held" ELSE socket
      /\ ~starts => unread' = <<>>
  BY DEF Read, ranges
<1>2. m \in Methods /\ m.by # "series" /\ (m.holds => m.by \in {"rows", "messages"} /\ "end" \notin m.closes)
      /\ (m.by = "value" => ~m.whole) /\ m.holds \in BOOLEAN /\ m.whole \in BOOLEAN
  BY DEF Sound, Methods
<1>3. Failed \in ResultType /\ Failed.kind = "Failed" /\ FitsBudget(Failed, b, m)
  BY ConstantAnswers DEF Failed, NoResult
<1>4. /\ result \in ResultType /\ result.kind = "none" /\ socket = "pool" /\ tally = ReadLimiter
      /\ kept \in Seq(Names)
  BY <1>1 DEF IInv, TypeInv, ResultInv, SocketInv, TallyInv
<1>5. listing' \in Seq(Names) /\ unread' \in Seq(Names)
  <2>1. listing' \in Seq(Names)
    BY <1>1, ListingsType, Zenon
  <2>2. <<>> \in Seq(Names)
    OBVIOUS
  <2> QED
    BY <1>1, <2>1, <2>2, Zenon
<1>6. Limited(b) => b.max_items > 0
  BY DEF Limited, ValidReadBudget, ProbeLimit
<1> HIDE DEF starts
<1>7. TypeInv'
  BY <1>1, <1>2, <1>3, <1>4, <1>5 DEF TypeInv, Phases, Working
<1>8. BudgetInv'
  BY <1>1, <1>2, <1>6 DEF BudgetInv, Working, starts
<1>9. TallyInv'
  BY <1>1, <1>4 DEF TallyInv, Within, ReadLimiter, LimiterType
<1>10. FitsBudget(result', b, m)
  BY <1>1, <1>3, <1>4 DEF FitsBudget, Lists
<1>11. ResultInv'
  BY <1>1, <1>3, <1>4, <1>10 DEF ResultInv
<1>12. SocketInv'
  BY <1>1, <1>2, <1>3, <1>4 DEF SocketInv
<1> QED
  BY <1>7, <1>8, <1>9, <1>11, <1>12 DEF IInv

\* A method with its options.
LEMMA ByType ==
  ASSUME NEW k \in {"rows", "keys", "topics", "export", "queues", "streams", "stream_lag",
                    "catalog", "schema", "partition_lag", "group_lag", "detail", "watermarks",
                    "hits", "value", "messages"}
  PROVE  /\ By(k) \in Limiting
         /\ \A client \in Clients : [By(k) EXCEPT !.http = client] \in Limiting
         /\ k \in {"stream_lag", "partition_lag", "group_lag"} =>
              [By(k) EXCEPT !.hides = TRUE] \in Limiting
<1>1. By(k) \in Limiting
  BY DEF By, Limiting, Sound, Methods
<1>2. ASSUME NEW client \in Clients
      PROVE  [By(k) EXCEPT !.http = client] \in Limiting
  BY DEF By, Limiting, Sound, Methods
<1>3. ASSUME k \in {"stream_lag", "partition_lag", "group_lag"}
      PROVE  [By(k) EXCEPT !.hides = TRUE] \in Limiting
  BY <1>3 DEF By, Limiting, Sound, Methods
<1> QED
  BY <1>1, <1>2, <1>3

LEMMA WholeType ==
  /\ [[By("group_lag") EXCEPT !.hides = TRUE] EXCEPT !.whole = TRUE] \in Sound
  /\ [[By("partition_lag") EXCEPT !.hides = TRUE] EXCEPT !.whole = TRUE] \in Sound
  /\ [By("detail") EXCEPT !.whole = TRUE] \in Sound /\ [By("watermarks") EXCEPT !.whole = TRUE] \in Sound
  /\ [[By("detail") EXCEPT !.http = "management"] EXCEPT !.whole = TRUE] \in Sound
BY DEF By, Sound, Methods, Clients

LEMMA QueryType ==
  ASSUME NEW header \in {"none", "row", "answer"}, NEW closes \in SUBSET {"probe", "end"}
  PROVE  /\ Query(header, closes) \in Limiting /\ PooledQuery \in Limiting /\ Paged(header) \in Limiting
         /\ [Paged(header) EXCEPT !.hides = TRUE] \in Limiting
         /\ [By("messages") EXCEPT !.holds = TRUE] \in Limiting
BY DEF Query, PooledQuery, Paged, By, Limiting, Sound, Methods

\* Every method that is asked with a budget is a sound one with limits.
LEMMA StartReadSound ==
  ASSUME NEW b, StartRead(b)
  PROVE  \E m \in Limiting : Read(m, b)
<1> DEFINE Started == \E m \in Limiting : Read(m, b)
<1>2. \A m \in Limiting : Read(m, b) => Started
  OBVIOUS
<1> SUFFICES Started
  OBVIOUS
<1> HIDE DEF Started
<1>3. ASSUME NEW k \in {"keys", "topics", "export", "streams", "catalog", "schema", "detail",
                        "watermarks", "value", "messages"},
             Read(By(k), b)
      PROVE  Started
  BY <1>2, <1>3, ByType
<1>4. ASSUME NEW k \in {"stream_lag", "partition_lag", "group_lag"},
             Read([By(k) EXCEPT !.hides = TRUE], b)
      PROVE  Started
  BY <1>2, <1>4, ByType
<1>5. ASSUME NEW k \in {"queues", "catalog", "hits", "value", "detail"}, NEW client \in Clients,
             Read([By(k) EXCEPT !.http = client], b)
      PROVE  Started
  BY <1>2, <1>5, ByType
<1>6. CASE \/ SqliteQuery(b) \/ MySqlQuery(b) \/ PostgresQuery(b) \/ SqlServerQuery(b)
           \/ Db2QueryBounded(b) \/ Db2QueryBudgeted(b) \/ CassandraRowsBounded(b) \/ CassandraQuery(b)
           \/ MongoFind(b) \/ MongoAggregate(b) \/ MongoCollections(b)
           \/ CassandraKeyspaces(b) \/ CassandraTables(b)
  <2>1. /\ Query("row", {}) \in Limiting /\ PooledQuery \in Limiting /\ Query("answer", {"probe", "end"}) \in Limiting
        /\ Query("none", {}) \in Limiting /\ Query("answer", {}) \in Limiting /\ Paged("none") \in Limiting
        /\ Paged("answer") \in Limiting /\ [Paged("none") EXCEPT !.hides = TRUE] \in Limiting
    BY QueryType
  <2> QED
    BY <1>2, <1>6, <2>1 DEF SqliteQuery, MySqlQuery, PostgresQuery, SqlServerQuery, Db2QueryBounded,
       Db2QueryBudgeted, CassandraRowsBounded, CassandraQuery, MongoFind, MongoAggregate,
       MongoCollections, CassandraKeyspaces, CassandraTables
<1>7. CASE \/ RedisPubSub(b) \/ NatsCore(b) \/ RskafkaFetch(b) \/ NatsStateless(b)
           \/ RdkafkaAssign(b) \/ RedisStream(b) \/ RedisScan(b) \/ RedisTopics(b) \/ KvExport(b)
           \/ ManagementQueues(b) \/ NatsStreams(b) \/ NatsLag(b)
  <2>1. [By("messages") EXCEPT !.holds = TRUE] \in Limiting
    BY QueryType
  <2>2. "management" \in Clients
    BY DEF Clients
  <2> QED
    BY <1>2, <1>3, <1>4, <1>5, <1>7, <2>1, <2>2
       DEF RedisPubSub, NatsCore, RskafkaFetch, NatsStateless, RdkafkaAssign, RedisStream, RedisScan,
           RedisTopics, KvExport, ManagementQueues, NatsStreams, NatsLag
<1>8. CASE \/ SqliteSchemas(b) \/ SqliteTables(b) \/ MySqlSchemas(b) \/ MySqlTables(b)
           \/ PostgresSchemas(b) \/ PostgresTables(b) \/ RedshiftTables(b)
           \/ SqlServerSchemas(b) \/ SqlServerTables(b)
           \/ Db2Schemas(b) \/ Db2Tables(b) \/ Db2Sequences(b) \/ Db2Routines(b) \/ Db2Tablespaces(b)
           \/ RdkafkaTopics(b) \/ RskafkaTopics(b) \/ PrometheusNames(b) \/ SearchIndices(b)
  <2>1. "prometheus" \in Clients /\ "search" \in Clients
    BY DEF Clients
  <2> QED
    BY <1>3, <1>5, <1>8, <2>1
       DEF SqliteSchemas, SqliteTables, MySqlSchemas, MySqlTables, PostgresSchemas, PostgresTables,
           RedshiftTables, SqlServerSchemas, SqlServerTables, Db2Schemas, Db2Tables, Db2Sequences,
           Db2Routines, Db2Tablespaces, RdkafkaTopics, RskafkaTopics, PrometheusNames, SearchIndices
<1>9. CASE \/ SearchQuery(b) \/ RedisGet(b) \/ RedisGetWithExpiry(b) \/ SearchGet(b) \/ KafkaLag(b)
           \/ SqliteSchema(b) \/ MySqlSchema(b) \/ PostgresSchema(b) \/ RedshiftSchema(b)
           \/ SqlServerSchema(b) \/ CassandraSchema(b) \/ Db2Schema(b)
           \/ RedisLag(b) \/ RedisStreamDetail(b) \/ RedisPubSubDetail(b) \/ NatsDetail(b)
           \/ AmqpDetail(b) \/ ManagementDetail(b) \/ RdkafkaDetail(b) \/ RskafkaDetail(b)
  <2>1. "management" \in Clients /\ "search" \in Clients
    BY DEF Clients
  <2> QED
    BY <1>3, <1>4, <1>5, <1>9, <2>1
       DEF SearchQuery, RedisGet, RedisGetWithExpiry, SearchGet, KafkaLag, PartitionLag,
           SqliteSchema, MySqlSchema, PostgresSchema, RedshiftSchema, SqlServerSchema, CassandraSchema,
           Db2Schema, RedisLag, GroupLag, RedisStreamDetail, RedisPubSubDetail, NatsDetail,
           AmqpDetail, ManagementDetail, Managed, RdkafkaDetail, RskafkaDetail
<1> QED
  BY <1>6, <1>7, <1>8, <1>9 DEF StartRead

LEMMA StartReadInv ==
  ASSUME IInv, NEW b \in ReadBudgets, StartRead(b)
  PROVE  IInv'
<1>1. b.max_items \in Nat /\ b.max_bytes \in Nat
  BY BoundedReadAssumption
<1>2. PICK m \in Limiting : Read(m, b)
  BY StartReadSound
<1>3. m \in Sound
  BY DEF Limiting
<1> QED
  BY <1>1, <1>2, <1>3, ReadInv

LEMMA StartWholeSound ==
  ASSUME StartWhole
  PROVE  \E m \in Sound : Read(m, Boundless)
<1>1. \A m : [m EXCEPT !.whole = TRUE] \in Sound /\ ReadWhole(m) => \E n \in Sound : Read(n, Boundless)
  BY DEF ReadWhole
<1> QED
  BY <1>1, WholeType DEF GroupLag, PartitionLag, Managed,
     StartWhole, RedisLagUnbounded, KafkaLagUnbounded, StreamDetailUnbounded,
     NatsDetailUnbounded, AmqpDetailUnbounded, ManagementDetailUnbounded, RdkafkaDetailUnbounded,
     RskafkaDetailUnbounded

LEMMA StartWholeInv ==
  ASSUME IInv, StartWhole
  PROVE  IInv'
<1>1. Boundless.max_items \in Nat /\ Boundless.max_bytes \in Nat
  BY LimitersAssumption DEF Boundless
<1>2. PICK m \in Sound : Read(m, Boundless)
  BY StartWholeSound
<1> QED
  BY <1>1, <1>2, ReadInv

LEMMA SeriesBytesType ==
  ASSUME NEW all \in Seq(Series)
  PROVE  SeriesBytes(all) \in Nat
<1> DEFINE sizes == [i \in DOMAIN all |-> BytesOf(all[i].samples)]
<1>1. \A x \in Series : x.bytes \in Nat /\ x.samples \in Seq(Sample)
  BY DEF Series, Sample
<1>2. BytesOf(all) \in Nat
  BY <1>1, BytesType
<1>3. \A i \in 1..Len(all) : BytesOf(all[i].samples) \in Nat
  <2>1. \A x \in Sample : x.bytes \in Nat
    BY DEF Sample
  <2>2. ASSUME NEW i \in 1..Len(all) PROVE BytesOf(all[i].samples) \in Nat
    <3>1. all[i].samples \in Seq(Sample)
      BY <1>1
    <3> QED
      BY <2>1, <3>1, BytesType
  <2> QED
    BY <2>2
<1>4. sizes \in Seq(Nat)
  <2>1. sizes = [i \in 1..Len(all) |-> BytesOf(all[i].samples)] /\ Len(all) \in Nat
    OBVIOUS
  <2>2. sizes \in [1..Len(all) -> Nat]
    BY <1>3, <2>1
  <2> HIDE DEF sizes
  <2> QED
    BY <2>1, <2>2, SequenceElements
<1>5. Total(sizes) \in Nat
  BY <1>4, TotalType
<1> QED
  BY <1>2, <1>5 DEF SeriesBytes

\* Both counts, and the bytes of all that is shown, are within the limits.
LEMMA RangeAnswerInv ==
  ASSUME IInv, NEW all \in SeriesAnswers, NEW b \in SeriesBudgets, RangeAnswer(all, b)
  PROVE  IInv'
<1> DEFINE read == ReadSeries(b, all)
<1>1. /\ b.max_series \in Nat /\ b.max_samples \in Nat /\ b.max_bytes \in Nat
      /\ all \in Seq(Series)
  BY BoundedReadAssumption DEF Series
<1>2. read \in [limiter : SeriesCounts, kept : Seq(Series)]
  BY <1>1, ReadSeriesType
<1>3. /\ phase = "idle" /\ phase' = "over" /\ how' = [By("series") EXCEPT !.http = "prometheus"]
      /\ budget' = b /\ listing' = listing /\ unread' = unread /\ socket' = socket
      /\ tally' = tally /\ kept' = kept /\ cursor' = cursor
  BY DEF RangeAnswer, history, traversal
<1>4. how'.by = "series" /\ how'.holds = FALSE /\ how' \in Methods /\ how'.whole = FALSE
  BY <1>3 DEF By, Methods, Clients
<1>5. \/ /\ FinishesSeries(read.limiter, b, read.kept) /\ table' = read.kept
         /\ result' = [kind |-> "Table", items |-> <<>>, truncated |-> read.limiter.truncated]
      \/ result' = Failed
  BY DEF RangeAnswer
<1>6. Failed \in ResultType /\ Failed.kind = "Failed" /\ FitsBudget(Failed, b, how')
  BY ConstantAnswers DEF Failed, NoResult
<1> HIDE DEF read
<1>7. result' \in ResultType /\ result'.kind \in {"Table", "Failed"}
  <2>1. read.limiter.truncated \in BOOLEAN
    BY <1>2 DEF SeriesCounts
  <2>2. [kind |-> "Table", items |-> <<>>, truncated |-> read.limiter.truncated] \in ResultType
    BY <2>1 DEF ResultType, Kinds
  <2> QED
    BY <1>5, <1>6, <2>2
<1>8. result'.kind = "Table" =>
        /\ Len(table') <= b.max_series /\ SampleCount(table') <= b.max_samples
        /\ Overhead + SeriesBytes(table') <= b.max_bytes
  <2>1. SUFFICES ASSUME result'.kind = "Table"
                 PROVE  /\ Len(read.kept) <= b.max_series /\ SampleCount(read.kept) <= b.max_samples
                        /\ Overhead + SeriesBytes(read.kept) <= b.max_bytes
    BY <1>5, <1>6
  <2>2. FinishesSeries(read.limiter, b, read.kept)
    BY <1>5, <1>6, <2>1
  <2>3. read.limiter.series \in Nat /\ read.limiter.samples \in Nat /\ read.limiter.probe \in Nat
        /\ read.kept \in Seq(Series)
    BY <1>2 DEF SeriesCounts
  <2>4. SeriesBytes(read.kept) \in Nat
    BY <2>3, SeriesBytesType
  <2>5. /\ Len(read.kept) = AtMost(read.limiter.series, b.max_series)
        /\ SampleCount(read.kept) = AtMost(read.limiter.samples, b.max_samples)
        /\ Overhead + SeriesBytes(read.kept) <= b.max_bytes - read.limiter.probe
    BY <2>2 DEF FinishesSeries, Measured
  <2>6. /\ AtMost(read.limiter.series, b.max_series) <= b.max_series
        /\ AtMost(read.limiter.samples, b.max_samples) <= b.max_samples
    BY <1>1, <2>3 DEF AtMost
  <2> QED
    BY <1>1, <2>3, <2>4, <2>5, <2>6, LimitersAssumption
<1>9. TypeInv'
  BY <1>3, <1>4, <1>7 DEF IInv, TypeInv, Phases
<1>10. BudgetInv'
  BY <1>1, <1>3, <1>4 DEF BudgetInv, Working
<1>11. TallyInv'
  BY <1>1, <1>3 DEF IInv, TallyInv, Within, ReadLimiter, LimiterType
<1>12. ResultInv'
  BY <1>3, <1>4, <1>7, <1>8 DEF ResultInv, FitsBudget, Lists
<1>13. SocketInv'
  BY <1>3, <1>4, <1>7 DEF IInv, SocketInv
<1> QED
  BY <1>9, <1>10, <1>11, <1>12, <1>13 DEF IInv
-----------------------------------------------------------------------------
(* A read goes on *)

\* A step of a method keeps to its budget, and to its connection.
LEMMA WorkInv ==
  ASSUME IInv, phase \in Working \cup {"closing"}, how' = how, budget' = budget, table' = table,
         listing' \in Seq(Names), unread' \in Seq(Names), kept' \in Seq(Names),
         cursor' \in Nat, how.by = "queues" => cursor' > 0,
         Within(tally', budget),
         tally'.truncated /\ ~tally'.failed => tally'.observed > budget.max_items,
         result' \in ResultType, FitsBudget(result', budget, how), result'.kind # "Table",
         \/ phase' = "over"
         \/ phase' \in {"reading", "closing"} /\ result'.kind = "none"
         \/ phase' = "exporting" /\ result'.kind = "List" /\ how.by = "export"
         \/ phase' = "inspecting" /\ result'.kind = "none" /\ how.by = "group_lag",
         socket' \in {"pool", "held", "retired"}, ~how.holds => socket' = "pool",
         how.holds /\ phase' \in {"reading", "closing"} => socket' = "held",
         phase' = "closing" => how.by = "rows" \/ (how.by = "messages" /\ how.holds),
         how.holds /\ how.by = "rows" /\ socket' = "pool" => unread' = <<>>,
         result'.kind = "Messages" => socket' # "held"
  PROVE  IInv'
<1>1. phase' \in Phases /\ phase' # "idle" /\ phase # "idle"
  BY DEF Phases, Working
<1>2. TypeInv'
  BY <1>1 DEF IInv, TypeInv
<1>3. BudgetInv'
  BY <1>1 DEF IInv, BudgetInv
<1>4. TallyInv'
  BY <1>1 DEF IInv, TallyInv
<1>5. ResultInv'
  BY <1>1 DEF IInv, ResultInv
<1>6. SocketInv'
  BY <1>1 DEF IInv, SocketInv
<1> QED
  BY <1>2, <1>3, <1>4, <1>5, <1>6 DEF IInv

\* What is known of a read that is under way.
LEMMA AtWork ==
  ASSUME IInv, phase \in Working \cup {"closing"}
  PROVE  /\ how \in Methods /\ budget.max_items \in Nat /\ budget.max_bytes \in Nat
         /\ listing \in Seq(Names) /\ unread \in Seq(Names) /\ kept \in Seq(Names) /\ cursor \in Nat
         /\ how.by = "queues" => cursor > 0
         /\ Within(tally, budget) /\ tally \in LimiterType
         /\ tally.truncated /\ ~tally.failed => tally.observed > budget.max_items
         /\ result \in ResultType /\ FitsBudget(result, budget, how)
         /\ phase # "exporting" => result.kind = "none"
         /\ phase = "exporting" => result.kind = "List" /\ how.by = "export"
         /\ phase = "inspecting" => how.by = "group_lag"
         /\ socket \in {"pool", "held", "retired"} /\ (~how.holds => socket = "pool")
         /\ how.holds => how.by \in {"rows", "messages"} /\ "end" \notin how.closes
         /\ how.holds /\ phase \in {"reading", "closing"} => socket = "held"
         /\ phase = "closing" => how.by = "rows" \/ (how.by = "messages" /\ how.holds)
         /\ how.whole \/ budget.max_items > 0
BY DEF IInv, TypeInv, BudgetInv, TallyInv, Within, ResultInv, SocketInv, Working

\* The first element of a list and the others.
LEMMA HeadTail ==
  ASSUME NEW S, NEW s \in Seq(S), s # <<>>
  PROVE  Head(s) \in S /\ Tail(s) \in Seq(S) /\ <<Head(s)>> \in Seq(S) /\ s[1] = Head(s)
OBVIOUS

\* The names of the columns are charged like an item.
LEMMA ChargedFits ==
  ASSUME IInv, phase \in Working \cup {"closing"}
  PROVE  /\ Within(Charged(tally), budget)
         /\ Charged(tally).truncated /\ ~Charged(tally).failed =>
              Charged(tally).observed > budget.max_items
<1>1. /\ Within(tally, budget) /\ tally \in LimiterType
      /\ tally.truncated /\ ~tally.failed => tally.observed > budget.max_items
      /\ budget.max_bytes \in Nat
  BY AtWork
<1>2. CASE Charged(tally) = tally
  BY <1>1, <1>2
<1>3. CASE Charged(tally) = ObserveHeader(tally, budget, Overhead)
  <2>1. CASE Measured(Overhead, budget.max_bytes - tally.bytes)
    <3> DEFINE m == [tally EXCEPT !.bytes = @ + Overhead]
    <3>1. Charged(tally) = m
      BY <1>3, <2>1 DEF ObserveHeader
    <3>2. tally.bytes \in Nat /\ Overhead \in Nat
      BY <1>1, LimitersAssumption DEF LimiterType
    <3>3. m \in LimiterType /\ m.bytes = tally.bytes + Overhead /\ m.failed = tally.failed
          /\ m.truncated = tally.truncated /\ m.observed = tally.observed
      BY <1>1, <3>2 DEF LimiterType
    <3>4. tally.bytes + Overhead <= budget.max_bytes
      BY <1>1, <2>1, <3>2 DEF Measured
    <3> HIDE DEF m
    <3> QED
      BY <1>1, <3>1, <3>3, <3>4 DEF Within
  <2>2. CASE ~Measured(Overhead, budget.max_bytes - tally.bytes)
    <3>1. Charged(tally) = Refused(tally)
      BY <1>3, <2>2 DEF ObserveHeader
    <3>2. Refused(tally) \in LimiterType /\ Refused(tally).failed
      BY <1>1 DEF Refused, LimiterType
    <3> QED
      BY <3>1, <3>2 DEF Within
  <2> QED
    BY <2>1, <2>2
<1> QED
  BY <1>2, <1>3 DEF Charged

LEMMA FetchFailsInv ==
  ASSUME IInv, FetchFails
  PROVE  IInv'
<1>1. /\ phase = "reading" /\ how.by = "rows" /\ phase' = "over" /\ result' = Failed
      /\ socket' = IF socket = "held" THEN "retired" ELSE socket
      /\ how' = how /\ budget' = budget /\ listing' = listing /\ unread' = unread
      /\ tally' = tally /\ kept' = kept /\ cursor' = cursor /\ table' = table
  BY DEF FetchFails, Retired, asked_for, history, traversal, ranges
<1>2. Failed \in ResultType /\ Failed.kind = "Failed" /\ FitsBudget(Failed, budget, how)
  BY ConstantAnswers DEF Failed, NoResult
<1>3. phase \in Working \cup {"closing"}
  BY <1>1 DEF Working
<1> QED
  BY <1>1, <1>2, <1>3, AtWork, WorkInv

LEMMA FetchEndsInv ==
  ASSUME IInv, FetchEnds
  PROVE  IInv'
<1>1. /\ phase = "reading" /\ how.by = "rows" /\ unread = <<>>
      /\ tally' \in {tally, Charged(tally)}
      /\ \/ "end" \in how.closes /\ phase' = "closing" /\ result' = result
         \/ phase' = "over" /\ result' = Finished(tally', kept)
      /\ socket' = IF socket = "held" THEN "pool" ELSE socket
      /\ how' = how /\ budget' = budget /\ listing' = listing /\ unread' = unread
      /\ kept' = kept /\ cursor' = cursor /\ table' = table
  BY DEF FetchEnds, asked_for, history, traversal, ranges
<1>2. phase \in Working \cup {"closing"} /\ phase \notin {"exporting", "inspecting"}
  BY <1>1 DEF Working
<1>3. /\ Within(tally', budget) /\ (tally'.truncated /\ ~tally'.failed => tally'.observed > budget.max_items)
      /\ tally' \in LimiterType
  BY <1>1, <1>2, AtWork, ChargedFits DEF Within
<1>4. /\ result' \in ResultType /\ FitsBudget(result', budget, how)
      /\ result'.kind \in {"none", "List", "Failed"} /\ (phase' = "closing" => result'.kind = "none")
  <2>1. CASE result' = result /\ phase' = "closing"
    BY <1>2, <2>1, AtWork
  <2>2. CASE phase' = "over" /\ result' = Finished(tally', kept)
    BY <1>2, <1>3, <2>2, AtWork, FinishedFits
  <2> QED
    BY <1>1, <2>1, <2>2
<1> QED
  BY <1>1, <1>2, <1>3, <1>4, AtWork, WorkInv

LEMMA CloseStreamInv ==
  ASSUME IInv, CloseStream
  PROVE  IInv'
<1>1. /\ phase = "closing" /\ how.by = "rows" /\ phase' = "over"
      /\ result' \in {Finished(tally, kept), Failed}
      /\ socket' = IF socket = "held" THEN "retired" ELSE socket
      /\ how' = how /\ budget' = budget /\ listing' = listing /\ unread' = unread
      /\ tally' = tally /\ kept' = kept /\ cursor' = cursor /\ table' = table
  BY DEF CloseStream, Retired, asked_for, history, traversal, ranges
<1>2. phase \in Working \cup {"closing"}
  BY <1>1
<1>3. Failed \in ResultType /\ Failed.kind = "Failed" /\ FitsBudget(Failed, budget, how)
  BY ConstantAnswers DEF Failed, NoResult
<1>4. result' \in ResultType /\ FitsBudget(result', budget, how) /\ result'.kind \in {"List", "Failed"}
  BY <1>1, <1>2, <1>3, AtWork, FinishedFits
<1> QED
  BY <1>1, <1>2, <1>4, AtWork, WorkInv

\* A row is charged and kept, or it is the probe, or it does not fit.
LEMMA FetchRowInv ==
  ASSUME IInv, FetchRow
  PROVE  IInv'
<1> DEFINE row == Head(unread)
           seen == row \in Visible({row})
           next == IF ~seen THEN tally ELSE ObserveItem(Charged(tally), budget, SizeOf[row])
           shown == kept \o IF ~seen \/ next.failed \/ next.truncated THEN <<>> ELSE <<row>>
<1>1. /\ phase = "reading" /\ how.by = "rows" /\ unread # <<>>
      /\ tally' = next /\ unread' = Tail(unread) /\ kept' = shown
      /\ \/ phase' = phase /\ result' = result /\ socket' = socket
         \/ phase' = "over" /\ result' = Failed /\ socket' = Retired
         \/ phase' = "closing" /\ result' = result /\ socket' = socket
         \/ /\ "probe" \notin how.closes /\ phase' = "over" /\ result' = Finished(next, shown)
            /\ socket' = socket
      /\ how' = how /\ budget' = budget /\ listing' = listing
      /\ cursor' = cursor /\ table' = table
  BY DEF FetchRow, asked_for, history, traversal, ranges
<1>2. phase \in Working \cup {"closing"} /\ phase \notin {"exporting", "inspecting"}
  BY <1>1 DEF Working
<1>3. row \in Names /\ <<row>> \in Seq(Names) /\ Tail(unread) \in Seq(Names) /\ SizeOf[row] \in Nat
      /\ <<>> \in Seq(Names)
  BY <1>1, <1>2, AtWork, HeadTail, BoundedReadAssumption
<1>4. /\ Within(next, budget) /\ next \in LimiterType
      /\ next.truncated /\ ~next.failed => next.observed > budget.max_items
  BY <1>2, <1>3, AtWork, ChargedFits, ObserveItemFits DEF Within
<1> HIDE DEF next, seen, row
<1>5. shown \in Seq(Names)
  <2>1. \A s, t \in Seq(Names) : s \o t \in Seq(Names)
    OBVIOUS
  <2> QED
    BY <1>2, <1>3, <2>1, AtWork
<1>6. Failed \in ResultType /\ Failed.kind = "Failed" /\ FitsBudget(Failed, budget, how)
  BY ConstantAnswers DEF Failed, NoResult
<1>7. /\ result' \in ResultType /\ FitsBudget(result', budget, how)
      /\ result'.kind \in {"none", "List", "Failed"} /\ (phase' # "over" => result'.kind = "none")
  <2> HIDE DEF shown
  <2>1. result \in ResultType /\ result.kind = "none" /\ FitsBudget(result, budget, how)
        /\ budget.max_items \in Nat /\ budget.max_bytes \in Nat
    BY <1>2, AtWork
  <2>2. /\ Finished(next, shown) \in ResultType /\ Finished(next, shown).kind \in {"List", "Failed"}
        /\ FitsBudget(Finished(next, shown), budget, how)
    BY <1>4, <1>5, <2>1, FinishedFits
  <2>3. result' = result \/ (phase' = "over" /\ result' \in {Failed, Finished(next, shown)})
    BY <1>1
  <2> QED
    BY <1>6, <2>1, <2>2, <2>3
<1>8. /\ socket' \in {"pool", "held", "retired"} /\ (~how.holds => socket' = "pool")
      /\ how.holds /\ phase' # "over" => socket' = "held"
      /\ how.holds => socket' # "pool"
  BY <1>1, <1>2, AtWork DEF Retired
<1> HIDE DEF shown
<1> QED
  BY <1>1, <1>2, <1>3, <1>4, <1>5, <1>7, <1>8, AtWork, WorkInv
-----------------------------------------------------------------------------
(* Messages *)

\* The batch is shown at once, or after its consumer was deleted.
LEMMA LeaveFits ==
  ASSUME IInv, phase = "reading", NEW l \in LimiterType, NEW names \in Seq(Names), Leave(l, names)
  PROVE  /\ result' \in ResultType /\ FitsBudget(result', budget, how)
         /\ \/ how.holds /\ phase' = "closing" /\ result'.kind = "none"
            \/ ~how.holds /\ phase' = "over" /\ result'.kind \in {"Messages", "Failed"}
<1>1. phase \in Working \cup {"closing"}
  BY DEF Working
<1>2. result \in ResultType /\ result.kind = "none" /\ FitsBudget(result, budget, how)
      /\ budget.max_items \in Nat /\ budget.max_bytes \in Nat /\ how.holds \in BOOLEAN
  BY <1>1, AtWork DEF Methods
<1>3. /\ Messages(l, names) \in ResultType /\ Messages(l, names).kind \in {"Messages", "Failed"}
      /\ FitsBudget(Messages(l, names), budget, how)
  BY <1>2, MessagesFit
<1> QED
  BY <1>2, <1>3 DEF Leave

\* A message beyond the limit, or beyond what is left of the batch, fails the call.
LEMMA ReceiveInv ==
  ASSUME IInv, Receive
  PROVE  IInv'
<1> DEFINE bytes == SizeOf[Head(unread)]
           next == IF Measured(bytes, MaxMessage) THEN ObserveItem(tally, budget, bytes)
                                                  ELSE Refused(tally)
           shown == IF next.failed THEN kept ELSE Append(kept, Head(unread))
<1>1. /\ phase = "reading" /\ how.by = "messages" /\ unread # <<>>
      /\ tally' = next /\ unread' = Tail(unread) /\ kept' = shown
      /\ \/ Leave(next, kept)
         \/ phase' = phase /\ result' = result
      /\ how' = how /\ budget' = budget /\ listing' = listing /\ socket' = socket
      /\ cursor' = cursor /\ table' = table
  BY DEF Receive, asked_for, history, traversal, ranges
<1>2. phase \in Working \cup {"closing"} /\ phase \notin {"exporting", "inspecting"}
  BY <1>1 DEF Working
<1>3. Head(unread) \in Names /\ Tail(unread) \in Seq(Names) /\ bytes \in Nat
  BY <1>1, <1>2, AtWork, HeadTail, BoundedReadAssumption
<1> HIDE DEF bytes
<1>4. /\ Within(next, budget) /\ next \in LimiterType
      /\ next.truncated /\ ~next.failed => next.observed > budget.max_items
  <2>c. next \in {ObserveItem(tally, budget, bytes), Refused(tally)}
    OBVIOUS
  <2> HIDE DEF next
  <2>1. CASE next = ObserveItem(tally, budget, bytes)
    BY <1>2, <1>3, <2>1, AtWork, ObserveItemFits DEF Within
  <2>2. CASE next = Refused(tally)
    <3>1. Refused(tally) \in LimiterType /\ Refused(tally).failed
      BY <1>2, AtWork DEF Refused, LimiterType
    <3> QED
      BY <2>2, <3>1 DEF Within
  <2> QED
    BY <2>c, <2>1, <2>2
<1> HIDE DEF next
<1>5. shown \in Seq(Names) /\ kept \in Seq(Names)
  BY <1>2, <1>3, AtWork
<1>6. /\ result' \in ResultType /\ FitsBudget(result', budget, how)
      /\ \/ phase' = "reading" /\ result'.kind = "none"
         \/ how.holds /\ phase' = "closing" /\ result'.kind = "none"
         \/ ~how.holds /\ phase' = "over" /\ result'.kind \in {"Messages", "Failed"}
  <2>1. CASE Leave(next, kept)
    BY <1>1, <1>4, <1>5, <2>1, LeaveFits
  <2>2. CASE phase' = phase /\ result' = result
    BY <1>1, <1>2, <2>2, AtWork
  <2> QED
    BY <1>1, <2>1, <2>2
<1> HIDE DEF shown
<1>7. socket = "pool" \/ how.holds
  BY <1>2, AtWork
<1> QED
  BY <1>1, <1>2, <1>3, <1>4, <1>5, <1>6, <1>7, AtWork, WorkInv

LEMMA ReceiveEndsInv ==
  ASSUME IInv, ReceiveEnds
  PROVE  IInv'
<1>1. /\ phase = "reading" /\ how.by = "messages" /\ Leave(tally, kept)
      /\ how' = how /\ budget' = budget /\ listing' = listing /\ unread' = unread
      /\ socket' = socket /\ tally' = tally /\ kept' = kept /\ cursor' = cursor /\ table' = table
  BY DEF ReceiveEnds, asked_for, history, traversal, ranges
<1>2. phase \in Working \cup {"closing"}
  BY <1>1 DEF Working
<1>3. /\ result' \in ResultType /\ FitsBudget(result', budget, how)
      /\ \/ how.holds /\ phase' = "closing" /\ result'.kind = "none"
         \/ ~how.holds /\ phase' = "over" /\ result'.kind \in {"Messages", "Failed"}
  BY <1>1, <1>2, AtWork, LeaveFits
<1> QED
  BY <1>1, <1>2, <1>3, AtWork, WorkInv

LEMMA PullFailsInv ==
  ASSUME IInv, PullFails
  PROVE  IInv'
<1>1. /\ phase = "reading" /\ how.by = "messages" /\ how.holds
      /\ tally' = Refused(tally) /\ phase' = "closing" /\ result' = result
      /\ how' = how /\ budget' = budget /\ listing' = listing /\ unread' = unread
      /\ socket' = socket /\ kept' = kept /\ cursor' = cursor /\ table' = table
  BY DEF PullFails, Leave, asked_for, history, traversal, ranges
<1>2. phase \in Working \cup {"closing"} /\ phase \notin {"exporting", "inspecting"}
  BY <1>1 DEF Working
<1>3. Refused(tally) \in LimiterType /\ Refused(tally).failed
  BY <1>2, AtWork DEF Refused, LimiterType
<1>4. /\ Within(tally', budget)
      /\ tally'.truncated /\ ~tally'.failed => tally'.observed > budget.max_items
  BY <1>1, <1>3 DEF Within
<1> QED
  BY <1>1, <1>2, <1>4, AtWork, WorkInv

\* The messages are only shown when the consumer is gone.
LEMMA DeleteConsumerInv ==
  ASSUME IInv, DeleteConsumer
  PROVE  IInv'
<1>1. /\ phase = "closing" /\ how.by = "messages" /\ phase' = "over"
      /\ \/ socket' = socket /\ result' = Failed
         \/ socket' = "retired" /\ result' = Messages(tally, kept)
      /\ how' = how /\ budget' = budget /\ listing' = listing /\ unread' = unread
      /\ tally' = tally /\ kept' = kept /\ cursor' = cursor /\ table' = table
  BY DEF DeleteConsumer, asked_for, history, traversal, ranges
<1>2. phase \in Working \cup {"closing"} /\ how.holds
  BY <1>1, AtWork
<1>3. Failed \in ResultType /\ Failed.kind = "Failed" /\ FitsBudget(Failed, budget, how)
  BY ConstantAnswers DEF Failed, NoResult
<1>4. /\ result' \in ResultType /\ FitsBudget(result', budget, how)
      /\ result'.kind \in {"Messages", "Failed"} /\ (result'.kind = "Messages" => socket' = "retired")
      /\ socket' \in {"held", "retired"}
  <2>1. CASE socket' = socket /\ result' = Failed
    BY <1>1, <1>2, <1>3, <2>1, AtWork
  <2>2. CASE socket' = "retired" /\ result' = Messages(tally, kept)
    BY <1>2, <2>2, AtWork, MessagesFit
  <2> QED
    BY <1>1, <2>1, <2>2
<1> QED
  BY <1>1, <1>2, <1>4, AtWork, WorkInv
-----------------------------------------------------------------------------
(* Scans, pages and exports *)

\* A page of a traversal, whatever is on it.
LEMMA TraverseInv ==
  ASSUME IInv, phase = "reading", how.by \in Scans \cup Pages, NEW page \in Seq(Names),
         NEW fails, NEW ends, NEW next \in Nat, how.by = "queues" => next > 0,
         Traverse(page, fails, ends, next)
  PROVE  IInv'
<1> DEFINE read == Observed(page)
<1>1. phase \in Working \cup {"closing"} /\ phase \notin {"exporting", "inspecting"} /\ ~how.holds
  BY AtWork DEF Working, Scans, Pages
<1>2. /\ read.tally \in LimiterType /\ read.kept \in Seq(Names) /\ Within(read.tally, budget)
      /\ read.tally.truncated /\ ~read.tally.failed => read.tally.observed > budget.max_items
  <2>1. read \in Takes(budget)
    BY <1>1, AtWork, ObservedTakes
  <2> HIDE DEF read
  <2> QED
    BY <2>1 DEF Takes
<1>3. /\ how' = how /\ budget' = budget /\ listing' = listing /\ socket' = socket
      /\ cursor' = next /\ table' = table
      /\ \/ /\ phase' = "over" /\ result' = Failed
            /\ unread' = unread /\ tally' = tally /\ kept' = kept
         \/ Listed(read.tally, read.kept)
         \/ /\ tally' = read.tally /\ kept' = read.kept
            /\ phase' = phase /\ result' = result /\ unread' = unread
  BY DEF Traverse, asked_for, history, ranges
<1> HIDE DEF read
<1>4. Failed \in ResultType /\ Failed.kind = "Failed" /\ FitsBudget(Failed, budget, how)
  BY ConstantAnswers DEF Failed, NoResult
<1>5. CASE phase' = "over" /\ result' = Failed /\ unread' = unread /\ tally' = tally /\ kept' = kept
  BY <1>1, <1>3, <1>4, <1>5, AtWork, WorkInv
<1>6. CASE Listed(read.tally, read.kept)
  <2>1. /\ result' = Finished(read.tally, read.kept)
        /\ \/ /\ how.by = "export" /\ result' # Failed /\ phase' = "exporting"
              /\ unread' = read.kept /\ tally' = ReadLimiter /\ kept' = <<>>
           \/ phase' = "over" /\ unread' = unread /\ tally' = read.tally /\ kept' = read.kept
    BY <1>6 DEF Listed
  <2>2. result' \in ResultType /\ result'.kind \in {"List", "Failed"} /\ FitsBudget(result', budget, how)
    BY <1>1, <1>2, <2>1, AtWork, FinishedFits
  <2>3. result' # Failed => result'.kind = "List"
    BY <2>1 DEF Finished
  <2>4. /\ Within(ReadLimiter, budget) /\ ~ReadLimiter.truncated
    BY <1>1, AtWork DEF Within, ReadLimiter, LimiterType
  <2>5. <<>> \in Seq(Names)
    OBVIOUS
  <2>6. CASE /\ how.by = "export" /\ result' # Failed /\ phase' = "exporting"
             /\ unread' = read.kept /\ tally' = ReadLimiter /\ kept' = <<>>
    BY <1>1, <1>2, <1>3, <2>2, <2>3, <2>4, <2>5, <2>6, AtWork, WorkInv
  <2>7. CASE phase' = "over" /\ unread' = unread /\ tally' = read.tally /\ kept' = read.kept
    BY <1>1, <1>2, <1>3, <2>2, <2>7, AtWork, WorkInv
  <2> QED
    BY <2>1, <2>6, <2>7
<1>7. CASE /\ tally' = read.tally /\ kept' = read.kept
           /\ phase' = phase /\ result' = result /\ unread' = unread
  BY <1>1, <1>2, <1>3, <1>7, AtWork, WorkInv
<1> QED
  BY <1>3, <1>5, <1>6, <1>7

LEMMA ScanPageInv ==
  ASSUME IInv, ScanPage
  PROVE  IInv'
<1>1. phase = "reading" /\ how.by \in Scans /\ how.by # "queues"
  BY DEF ScanPage, Scans
<1>2. PICK page \in ScanPages, next \in 0..MaxCursor, overflow \in BOOLEAN :
        Traverse(page,
                 IF how.by = "topics" THEN TopicPageFails(Observed(page).tally, next, overflow)
                                      ELSE KeyPageFails(Observed(page).tally, next, overflow),
                 next = 0, next)
  BY DEF ScanPage
<1>3. page \in Seq(Names) /\ next \in Nat
  <2>1. phase \in Working \cup {"closing"}
    BY <1>1 DEF Working
  <2>2. ScanPages \subseteq Seq(Names)
    BY <2>1, AtWork, ScanPagesType
  <2> QED
    BY <2>2, BoundedReadAssumption
<1> QED
  BY <1>1, <1>2, <1>3, TraverseInv

LEMMA ProbeType ==
  ASSUME NEW n \in Nat
  PROVE  Probe(n) \in Nat
BY LimitersAssumption DEF Probe

LEMMA Products ==
  ASSUME NEW m \in Nat, NEW n \in Nat
  PROVE  m * n \in Nat
OBVIOUS

\* A part of a list, and the beginning of one.
LEMMA FromType ==
  ASSUME listing \in Seq(Names), NEW offset \in Nat, NEW size \in Nat
  PROVE  From(offset, size) \in Seq(Names)
<1>1. AtMost(offset + size, Len(listing)) \in Int /\ AtMost(offset + size, Len(listing)) <= Len(listing)
  BY DEF AtMost
<1> QED
  BY <1>1, PartType DEF From

LEMMA FirstType ==
  ASSUME NEW names \in Seq(Names), NEW n \in Int
  PROVE  SubSeq(names, 1, AtMost(n, Len(names))) \in Seq(Names)
<1>1. AtMost(n, Len(names)) \in Int /\ AtMost(n, Len(names)) <= Len(names)
  BY DEF AtMost
<1> QED
  BY <1>1, PartType

LEMMA ManagementPageInv ==
  ASSUME IInv, ManagementPage
  PROVE  IInv'
<1> DEFINE page  == From((cursor - 1) * PageSize, PageSize)
           taken == SubSeq(page, 1, AtMost(Probe(budget.max_items) - tally.observed, Len(page)))
<1>1. phase = "reading" /\ how.by = "queues" /\ how.by \in Scans \cup Pages
  BY DEF ManagementPage, Pages
<1>2. \E answer : Traverse(taken, ~Value(answer) \/ NotThePage(page) \/ Repeats(taken, Range(kept)),
                           cursor >= PageCount, cursor + 1)
  BY DEF ManagementPage
<1>3. phase \in Working \cup {"closing"}
  BY <1>1 DEF Working
<1>4. /\ cursor \in Nat /\ cursor > 0 /\ listing \in Seq(Names) /\ tally.observed \in Nat
      /\ budget.max_items \in Nat
  BY <1>1, <1>3, AtWork DEF LimiterType
<1>5. PageSize \in Nat
  BY <1>4, ProbeType, BoundedReadAssumption DEF PageSize, AtMost
<1>6. page \in Seq(Names)
  <2>1. cursor - 1 \in Nat
    BY <1>4
  <2>2. (cursor - 1) * PageSize \in Nat
    BY <1>5, <2>1, Products
  <2> QED
    BY <1>4, <1>5, <2>2, FromType
<1> HIDE DEF page
<1>7. taken \in Seq(Names)
  <2>1. Probe(budget.max_items) - tally.observed \in Int
    <3>1. Probe(budget.max_items) \in Nat
      BY <1>4, ProbeType
    <3> QED
      BY <1>4, <3>1
  <2> QED
    BY <1>6, <2>1, FirstType
<1> HIDE DEF taken
<1>8. cursor + 1 \in Nat /\ cursor + 1 > 0
  BY <1>4
<1> QED
  BY <1>1, <1>2, <1>7, <1>8, TraverseInv

LEMMA NatsPageInv ==
  ASSUME IInv, NatsPage
  PROVE  IInv'
<1> DEFINE page  == From(cursor, PageMax)
           taken == SubSeq(page, 1, AtMost(Probe(budget.max_items) - tally.observed, Len(page)))
<1>1. phase = "reading" /\ how.by = "streams" /\ how.by \in Scans \cup Pages
  BY DEF NatsPage, Pages
<1>2. Traverse(taken, Repeats(taken, Range(kept)), cursor + Len(page) >= Len(listing),
               cursor + Len(page))
  BY DEF NatsPage
<1>3. phase \in Working \cup {"closing"}
  BY <1>1 DEF Working
<1>4. /\ cursor \in Nat /\ listing \in Seq(Names) /\ tally.observed \in Nat
      /\ budget.max_items \in Nat /\ PageMax \in Nat
  BY <1>1, <1>3, AtWork, BoundedReadAssumption DEF LimiterType
<1>5. page \in Seq(Names)
  BY <1>4, FromType
<1> HIDE DEF page
<1>6. taken \in Seq(Names)
  <2>1. Probe(budget.max_items) - tally.observed \in Int
    <3>1. Probe(budget.max_items) \in Nat
      BY <1>4, ProbeType
    <3> QED
      BY <1>4, <3>1
  <2> QED
    BY <1>5, <2>1, FirstType
<1> HIDE DEF taken
<1>7. cursor + Len(page) \in Nat
  BY <1>4, <1>5
<1> QED
  BY <1>1, <1>2, <1>6, <1>7, TraverseInv

LEMMA Concatenation ==
  ASSUME NEW S, NEW s \in Seq(S), NEW t \in Seq(S)
  PROVE  s \o t \in Seq(S) /\ Len(s \o t) = Len(s) + Len(t)
OBVIOUS

\* What a ReadLimiter has of the rows of a list.
LEMMA ReadRows ==
  ASSUME budget.max_bytes \in Nat, budget.max_items \in Nat, NEW l, Within(l, budget),
         l.truncated /\ ~l.failed => l.observed > budget.max_items, NEW names \in Seq(Names)
  PROVE  /\ ReadAll(l, budget, Rows(names)) \in Reads(l, budget, Row, Rows(names), Len(names))
         /\ ReadAll(l, budget, Rows(names)).limiter \in LimiterType
         /\ ReadAll(l, budget, Rows(names)).kept \in Seq(Row)
<1>1. Rows(names) \in Seq(Row) /\ Len(Rows(names)) = Len(names)
  BY RowsType
<1>2. \A x \in Row : x.bytes \in Nat
  BY DEF Row
<1>3. ReadAll(l, budget, Rows(names)) \in Reads(l, budget, Row, Rows(names), Len(names))
  BY <1>1, <1>2, ReadAllReads
<1> QED
  BY <1>3 DEF Reads

LEMMA ExportEntryInv ==
  ASSUME IInv, ExportEntry
  PROVE  IInv'
<1> DEFINE entry == Among(<<Head(unread)>>, Range(listing))
           read == ReadAll(tally, budget, Rows(entry))
<1>1. /\ phase = "exporting" /\ unread # <<>> /\ unread' = Tail(unread)
      /\ \/ phase' = "over" /\ result' = Failed /\ tally' = tally /\ kept' = kept
         \/ tally' = read.limiter /\ kept' = kept \o entry /\ phase' = phase /\ result' = result
      /\ how' = how /\ budget' = budget /\ listing' = listing /\ socket' = socket
      /\ cursor' = cursor /\ table' = table
  BY DEF ExportEntry, asked_for, history, traversal, ranges
<1>2. phase \in Working \cup {"closing"}
  BY <1>1 DEF Working
<1>3. <<Head(unread)>> \in Seq(Names) /\ Tail(unread) \in Seq(Names)
  BY <1>1, <1>2, AtWork, HeadTail
<1>4. entry \in Seq(Names)
  BY <1>3, AmongType
<1> HIDE DEF entry
<1>5. read \in Reads(tally, budget, Row, Rows(entry), Len(entry)) /\ read.limiter \in LimiterType
  BY <1>2, <1>4, AtWork, ReadRows
<1> HIDE DEF read
<1>6. /\ Within(read.limiter, budget)
      /\ read.limiter.truncated /\ ~read.limiter.failed => read.limiter.observed > budget.max_items
  BY <1>5 DEF Reads
<1>7. kept \o entry \in Seq(Names)
  BY <1>2, <1>4, AtWork, Concatenation
<1>8. Failed \in ResultType /\ Failed.kind = "Failed" /\ FitsBudget(Failed, budget, how)
  BY ConstantAnswers DEF Failed, NoResult
<1>9. result.kind = "List" /\ how.by = "export" /\ ~how.holds
  BY <1>1, <1>2, AtWork
<1>10. CASE phase' = "over" /\ result' = Failed /\ tally' = tally /\ kept' = kept
  BY <1>1, <1>2, <1>3, <1>8, <1>9, <1>10, AtWork, WorkInv
<1>11. CASE tally' = read.limiter /\ kept' = kept \o entry /\ phase' = phase /\ result' = result
  BY <1>1, <1>2, <1>3, <1>6, <1>7, <1>9, <1>11, AtWork, WorkInv
<1> QED
  BY <1>1, <1>10, <1>11

LEMMA ExportEndsInv ==
  ASSUME IInv, ExportEnds
  PROVE  IInv'
<1> DEFINE answer == IF Finishes(tally, budget, Rows(kept))
                     THEN [kind |-> "Artifact", items |-> kept,
                           truncated |-> result.truncated \/ Len(kept) # Len(result.items)]
                     ELSE Failed
<1>1. phase \in Working /\ EndWith(answer)
  BY DEF ExportEnds, Working
<1>2. /\ kept \in Seq(Names) /\ tally \in LimiterType /\ result \in ResultType
      /\ budget.max_items \in Nat /\ budget.max_bytes \in Nat
  BY <1>1, AtWork
<1>3. answer \in ResultType /\ FitsBudget(answer, budget, how) /\ answer.kind \in {"Artifact", "Failed"}
  <2>1. CASE Finishes(tally, budget, Rows(kept))
    <3> DEFINE cut == result.truncated \/ Len(kept) # Len(result.items)
    <3>1. cut \in BOOLEAN
      OBVIOUS
    <3>2. answer = [kind |-> "Artifact", items |-> kept, truncated |-> cut]
      BY <2>1
    <3>3. Rows(kept) \in Seq(Row) /\ Len(Rows(kept)) = Len(kept) /\ \A x \in Row : x.bytes \in Nat
      BY <1>2, RowsType DEF Row
    <3>4. Len(Rows(kept)) <= budget.max_items /\ WholeOf(Rows(kept)) <= budget.max_bytes
      BY <1>2, <2>1, <3>3, FinishesFits
    <3> HIDE DEF answer, cut
    <3> QED
      BY <1>2, <3>1, <3>2, <3>3, <3>4 DEF ResultType, Kinds, FitsBudget
  <2>2. CASE ~Finishes(tally, budget, Rows(kept))
    BY <2>2, ConstantAnswers DEF Failed, NoResult
  <2> QED
    BY <2>1, <2>2
<1> HIDE DEF answer
<1> QED
  BY <1>1, <1>3, EndsInv

LEMMA GroupLagPageInv ==
  ASSUME IInv, GroupLagPage
  PROVE  IInv'
<1>1. phase = "reading" /\ how.by = "group_lag"
  BY DEF GroupLagPage
<1>2. PICK page \in ScanPages, next \in 0..MaxCursor :
        LET new   == Among(page, Names \ Range(kept))
            names == kept \o SubSeq(new, 1, AtMost(WorkProbe - Len(kept), Len(new)))
        IN \/ phase' = "over" /\ result' = Failed /\ UNCHANGED <<unread, kept, cursor>>
           \/ kept' = names /\ cursor' = next /\ UNCHANGED <<phase, result, unread>>
           \/ phase' = "inspecting" /\ unread' = names /\ kept' = <<>> /\ cursor' = 0 /\ UNCHANGED result
  BY DEF GroupLagPage
<1> DEFINE new   == Among(page, Names \ Range(kept))
           names == kept \o SubSeq(new, 1, AtMost(WorkProbe - Len(kept), Len(new)))
<1>3. phase \in Working \cup {"closing"} /\ phase \notin {"exporting", "inspecting"}
  BY <1>1 DEF Working
<1>4. /\ how' = how /\ budget' = budget /\ listing' = listing /\ socket' = socket
      /\ tally' = tally /\ table' = table
  BY DEF GroupLagPage, asked_for, history, ranges
<1>5. new \in Seq(Names)
  <2>1. ScanPages \subseteq Seq(Names)
    BY <1>3, AtWork, ScanPagesType
  <2>2. page \in Seq(Names)
    BY <2>1
  <2> QED
    BY <2>2, AmongType
<1> HIDE DEF new
<1>6. names \in Seq(Names)
  <2>1. WorkProbe \in Nat
    BY <1>3, AtWork, ProbeType DEF WorkProbe
  <2>2. kept \in Seq(Names) /\ WorkProbe - Len(kept) \in Int
    BY <1>3, <2>1, AtWork
  <2>3. SubSeq(new, 1, AtMost(WorkProbe - Len(kept), Len(new))) \in Seq(Names)
    BY <1>5, <2>2, FirstType
  <2> QED
    BY <2>2, <2>3, Concatenation
<1> HIDE DEF names
<1>7. Failed \in ResultType /\ Failed.kind = "Failed" /\ FitsBudget(Failed, budget, how)
  BY ConstantAnswers DEF Failed, NoResult
<1>8. next \in Nat /\ <<>> \in Seq(Names)
  BY BoundedReadAssumption
<1>9. CASE phase' = "over" /\ result' = Failed /\ UNCHANGED <<unread, kept, cursor>>
  BY <1>1, <1>3, <1>4, <1>7, <1>9, AtWork, WorkInv
<1>10. CASE kept' = names /\ cursor' = next /\ UNCHANGED <<phase, result, unread>>
  BY <1>1, <1>3, <1>4, <1>6, <1>8, <1>10, AtWork, WorkInv
<1>11. CASE phase' = "inspecting" /\ unread' = names /\ kept' = <<>> /\ cursor' = 0 /\ UNCHANGED result
  BY <1>1, <1>3, <1>4, <1>6, <1>8, <1>11, AtWork, WorkInv
<1> QED
  BY <1>2, <1>9, <1>10, <1>11 DEF names, new

LEMMA GroupLagStreamInv ==
  ASSUME IInv, GroupLagStream
  PROVE  IInv'
<1>1. phase = "inspecting" /\ unread # <<>>
  BY DEF GroupLagStream
<1>2. PICK scan \in GroupScans(Visible({Head(unread)}), budget.max_items - cursor) :
        \/ phase' = "over" /\ result' = Failed /\ UNCHANGED <<unread, kept, cursor>>
        \/ /\ unread' = Tail(unread)
           /\ kept' \in {kept \o <<Head(unread)>>, kept \o <<>>}
           /\ cursor' = cursor + 1 + scan.inspected /\ WorkFits(cursor + 1 + scan.inspected)
           /\ UNCHANGED <<phase, result>>
  BY DEF GroupLagStream
<1>3. phase \in Working \cup {"closing"} /\ how.by = "group_lag" /\ result.kind = "none"
  BY <1>1, AtWork DEF Working
<1>4. /\ how' = how /\ budget' = budget /\ listing' = listing /\ socket' = socket
      /\ tally' = tally /\ table' = table
  BY DEF GroupLagStream, asked_for, history, ranges
<1>5. /\ <<Head(unread)>> \in Seq(Names) /\ Tail(unread) \in Seq(Names) /\ <<>> \in Seq(Names)
      /\ kept \in Seq(Names) /\ cursor \in Nat /\ budget.max_items \in Nat
  BY <1>1, <1>3, AtWork, HeadTail
<1>6. cursor + 1 + scan.inspected \in Nat
  <2> DEFINE has == Visible({Head(unread)})
             probe == budget.max_items - cursor
  <2>1. PICK n \in Cardinality(has)..MaxGroups : scan.inspected = AtMost(n, probe)
    BY DEF GroupScans
  <2>2. Cardinality(has) \in Nat
    <3>1. has \subseteq {Head(unread)} /\ IsFiniteSet({Head(unread)})
      BY FS_Singleton DEF Visible
    <3>2. IsFiniteSet(has)
      BY <3>1, FS_Subset
    <3> QED
      BY <3>2, FS_CardinalityType
  <2> HIDE DEF has
  <2>3. n \in Nat
    BY <2>1, <2>2, BoundedReadAssumption
  <2> QED
    BY <1>5, <2>1, <2>3 DEF AtMost
<1>7. kept \o <<Head(unread)>> \in Seq(Names) /\ kept \o <<>> \in Seq(Names)
  BY <1>5, Concatenation
<1>8. Failed \in ResultType /\ Failed.kind = "Failed" /\ FitsBudget(Failed, budget, how)
  BY ConstantAnswers DEF Failed, NoResult
<1>9. CASE phase' = "over" /\ result' = Failed /\ UNCHANGED <<unread, kept, cursor>>
  BY <1>3, <1>4, <1>8, <1>9, AtWork, WorkInv
<1>10. CASE /\ unread' = Tail(unread) /\ kept' \in {kept \o <<Head(unread)>>, kept \o <<>>}
            /\ cursor' = cursor + 1 + scan.inspected /\ UNCHANGED <<phase, result>>
  <2>1. kept' \in Seq(Names) /\ cursor' \in Nat
    BY <1>6, <1>7, <1>10
  <2> QED
    BY <1>1, <1>3, <1>4, <1>5, <1>10, <2>1, AtWork, WorkInv
<1> QED
  BY <1>2, <1>9, <1>10

LEMMA GroupLagEndsInv ==
  ASSUME IInv, GroupLagEnds
  PROVE  IInv'
<1> DEFINE answer == IF MetadataFits(budget, Rows(kept)) THEN Exact(kept) ELSE Failed
<1>1. phase \in Working /\ EndWith(answer)
  BY DEF GroupLagEnds, Working
<1>2. kept \in Seq(Names) /\ budget.max_items \in Nat /\ budget.max_bytes \in Nat
  BY <1>1, AtWork
<1>3. Failed \in ResultType /\ Failed.kind = "Failed" /\ FitsBudget(Failed, budget, how)
  BY ConstantAnswers DEF Failed, NoResult
<1>4. answer \in ResultType /\ FitsBudget(answer, budget, how) /\ answer.kind \in {"Exact", "Failed"}
  BY <1>2, <1>3, ExactFits
<1> QED
  BY <1>1, <1>4, EndsInv

LEMMA NatsLagPageInv ==
  ASSUME IInv, NatsLagPage
  PROVE  IInv'
<1> DEFINE page  == From(cursor, PageMax)
           known == Among(page, Visible(Names))
           lags  == kept \o known
<1>1. phase = "reading" /\ how.by = "stream_lag"
  BY DEF NatsLagPage
<1>2. phase \in Working \cup {"closing"}
  BY <1>1 DEF Working
<1>3. /\ how' = how /\ budget' = budget /\ listing' = listing /\ unread' = unread
      /\ socket' = socket /\ tally' = tally /\ table' = table
      /\ kept' = lags /\ cursor' = cursor + Len(page)
      /\ \/ phase' = "over" /\ result' = Failed
         \/ phase' = "over" /\ result' = Exact(lags) /\ MetadataFits(budget, Rows(lags))
         \/ phase' = phase /\ result' = result
  BY DEF NatsLagPage, asked_for, history, ranges
<1>4. /\ cursor \in Nat /\ listing \in Seq(Names) /\ kept \in Seq(Names) /\ PageMax \in Nat
      /\ budget.max_items \in Nat /\ budget.max_bytes \in Nat
  BY <1>2, AtWork, BoundedReadAssumption
<1>5. page \in Seq(Names)
  BY <1>4, FromType
<1> HIDE DEF page
<1>6. lags \in Seq(Names) /\ cursor + Len(page) \in Nat
  BY <1>4, <1>5, AmongType, Concatenation
<1> HIDE DEF lags
<1>7. Failed \in ResultType /\ Failed.kind = "Failed" /\ FitsBudget(Failed, budget, how)
  BY ConstantAnswers DEF Failed, NoResult
<1>8. /\ result' \in ResultType /\ FitsBudget(result', budget, how)
      /\ result'.kind \in {"Failed", "Exact", "none"} /\ (phase' # "over" => result'.kind = "none")
  <2>1. CASE phase' = "over" /\ result' = Failed
    BY <1>7, <2>1
  <2>2. CASE phase' = "over" /\ result' = Exact(lags) /\ MetadataFits(budget, Rows(lags))
    BY <1>4, <1>6, <2>2, ExactFits
  <2>3. CASE phase' = phase /\ result' = result
    BY <1>1, <1>2, <2>3, AtWork
  <2> QED
    BY <1>3, <2>1, <2>2, <2>3
<1> QED
  BY <1>1, <1>2, <1>3, <1>6, <1>8, AtWork, WorkInv
-----------------------------------------------------------------------------
(* One answer *)

\* Everything that was read is shown when nothing was refused and there is no probe.
LEMMA CompleteReads ==
  ASSUME budget.max_bytes \in Nat, budget.max_items \in Nat, NEW names \in Seq(Names), NEW read,
         read \in Reads(ReadLimiter, budget, Row, Rows(names), Len(names)),
         Finishes(read.limiter, budget, read.kept),
         ~read.limiter.truncated \/ Len(names) <= budget.max_items
  PROVE  Len(names) <= budget.max_items /\ WholeOf(Rows(names)) <= budget.max_bytes
<1>1. /\ read.limiter \in LimiterType /\ read.kept \in Seq(Row) /\ ~read.limiter.failed
      /\ read.limiter.truncated => read.limiter.observed > budget.max_items
      /\ read.limiter.observed = ReadLimiter.observed + Len(names)
      /\ ~read.limiter.truncated =>
           Len(read.kept) = Len(names) /\ \A j \in 1..Len(names) : read.kept[j] = Rows(names)[j]
  BY DEF Reads, Finishes
<1>2. ReadLimiter.observed = 0
  BY DEF ReadLimiter
<1>3. ~read.limiter.truncated
  BY <1>1, <1>2
<1>4. Rows(names) \in Seq(Row) /\ Len(Rows(names)) = Len(names) /\ \A x \in Row : x.bytes \in Nat
  BY RowsType DEF Row
<1>5. read.kept = Rows(names)
  <2>1. Len(read.kept) = Len(Rows(names)) /\ \A j \in 1..Len(Rows(names)) : read.kept[j] = Rows(names)[j]
    BY <1>1, <1>3, <1>4
  <2> QED
    BY <1>1, <1>4, <2>1
<1>6. Len(Rows(names)) <= budget.max_items /\ WholeOf(Rows(names)) <= budget.max_bytes
  BY <1>1, <1>4, <1>5, FinishesFits
<1> QED
  BY <1>4, <1>6

LEMMA FreshLimiter ==
  ASSUME budget.max_bytes \in Nat
  PROVE  Within(ReadLimiter, budget) /\ ~ReadLimiter.truncated
BY DEF Within, ReadLimiter, LimiterType

LEMMA TakenType ==
  ASSUME budget.max_items \in Nat, NEW names \in Seq(Names)
  PROVE  Taken(names) \in Seq(Names)
<1>1. Probe(budget.max_items) \in Int
  BY ProbeType
<1> QED
  BY <1>1, FirstType DEF Taken

LEMMA CatalogAnswerInv ==
  ASSUME IInv, CatalogAnswer
  PROVE  IInv'
<1> DEFINE read  == ReadAll(ReadLimiter, budget, Rows(Taken(listing)))
           names == [i \in DOMAIN read.kept |-> read.kept[i].name]
<1>1. EndWith(Finished(read.limiter, names)) \/ EndWith(Failed)
  BY DEF CatalogAnswer, Working
<1>2. phase \in Working
  BY DEF CatalogAnswer, Working
<1>3. listing \in Seq(Names) /\ budget.max_items \in Nat /\ budget.max_bytes \in Nat
  BY <1>2, AtWork
<1>4. read.limiter \in LimiterType /\ read.kept \in Seq(Row)
  BY <1>3, TakenType, FreshLimiter, ReadRows
<1> HIDE DEF read
<1>5. names \in Seq(Names)
  <2>1. \A i \in 1..Len(read.kept) : read.kept[i].name \in Names
    <3>1. \A i \in DOMAIN read.kept : read.kept[i] \in Row
      BY <1>4, SequenceElements
    <3>2. \A x \in Row : x.name \in Names
      BY DEF Row
    <3>3. DOMAIN read.kept = 1..Len(read.kept)
      BY <1>4
    <3> QED
      BY <3>1, <3>2, <3>3
  <2>2. names = [i \in 1..Len(read.kept) |-> read.kept[i].name] /\ Len(read.kept) \in Nat
    BY <1>4
  <2>3. names \in [1..Len(read.kept) -> Names]
    BY <2>1, <2>2
  <2> HIDE DEF names
  <2> QED
    BY <2>2, <2>3, SequenceElements
<1> HIDE DEF names
<1>6. /\ Finished(read.limiter, names) \in ResultType
      /\ Finished(read.limiter, names).kind \in {"List", "Failed"}
      /\ FitsBudget(Finished(read.limiter, names), budget, how)
  BY <1>3, <1>4, <1>5, FinishedFits
<1>7. Failed \in ResultType /\ Failed.kind = "Failed" /\ FitsBudget(Failed, budget, how)
  BY ConstantAnswers DEF Failed, NoResult
<1> QED
  BY <1>1, <1>2, <1>6, <1>7, EndsInv

LEMMA CatalogListInv ==
  ASSUME IInv, CatalogList
  PROVE  IInv'
<1> DEFINE list == FinishList(Taken(listing), budget.max_items)
           answer == [kind |-> "List", items |-> list.items, truncated |-> list.truncated]
<1>1. EndWith(answer) \/ EndWith(Failed)
  BY DEF CatalogList
<1>2. phase \in Working /\ how.by = "catalog" /\ ~Budgeted(budget)
  BY DEF CatalogList, Working
<1>3. listing \in Seq(Names) /\ budget.max_items \in Nat
  BY <1>2, AtWork
<1>4. /\ list.items \in Seq(Names) /\ Len(list.items) <= budget.max_items
      /\ list.truncated \in BOOLEAN
  <2>1. Taken(listing) \in Seq(Names)
    BY <1>3, TakenType
  <2>2. list.items = SubSeq(Taken(listing), 1, IF Len(Taken(listing)) < budget.max_items
                                               THEN Len(Taken(listing)) ELSE budget.max_items)
        /\ list.truncated = (Len(Taken(listing)) > budget.max_items)
    BY DEF FinishList
  <2> HIDE DEF list
  <2> QED
    BY <1>3, <2>1, <2>2
<1> HIDE DEF list
<1>5. answer \in ResultType /\ answer.kind = "List" /\ FitsBudget(answer, budget, how)
  BY <1>2, <1>4 DEF ResultType, Kinds, FitsBudget
<1>6. Failed \in ResultType /\ Failed.kind = "Failed" /\ FitsBudget(Failed, budget, how)
  BY ConstantAnswers DEF Failed, NoResult
<1> HIDE DEF answer
<1> QED
  BY <1>1, <1>2, <1>5, <1>6, EndsInv

LEMMA SearchAnswerInv ==
  ASSUME IInv, SearchAnswer
  PROVE  IInv'
<1>1. phase \in Working
  BY DEF SearchAnswer, Working
<1>2. listing \in Seq(Names) /\ budget.max_items \in Nat /\ budget.max_bytes \in Nat
  BY <1>1, AtWork
<1>3. PICK n \in 0..Len(listing) :
        \/ EndWith(Failed)
        \/ /\ SearchApplies(budget, Rows(SubSeq(listing, 1, n)))
           /\ EndWith([kind |-> "Hits", items |-> SubSeq(listing, 1, n), truncated |-> FALSE])
  BY DEF SearchAnswer
<1> DEFINE hits == SubSeq(listing, 1, n)
           answer == [kind |-> "Hits", items |-> hits, truncated |-> FALSE]
<1>4. hits \in Seq(Names)
  BY <1>2, PartType
<1>5. ASSUME SearchApplies(budget, Rows(hits))
      PROVE  answer \in ResultType /\ answer.kind = "Hits" /\ FitsBudget(answer, budget, how)
  <2> DEFINE read == ReadAll(ReadLimiter, budget, Rows(hits))
  <2>1. ~read.limiter.truncated /\ Finishes(read.limiter, budget, read.kept)
    BY <1>5 DEF SearchApplies
  <2> HIDE DEF hits
  <2>2. read \in Reads(ReadLimiter, budget, Row, Rows(hits), Len(hits))
    BY <1>2, <1>4, FreshLimiter, ReadRows
  <2> HIDE DEF read
  <2>3. Len(hits) <= budget.max_items /\ WholeOf(Rows(hits)) <= budget.max_bytes
    BY <1>2, <1>4, <2>1, <2>2, CompleteReads
  <2> QED
    BY <1>4, <2>3 DEF ResultType, Kinds, FitsBudget
<1>6. Failed \in ResultType /\ Failed.kind = "Failed" /\ FitsBudget(Failed, budget, how)
  BY ConstantAnswers DEF Failed, NoResult
<1> QED
  BY <1>1, <1>3, <1>5, <1>6, EndsInv

\* A single value is never the probe.
LEMMA ScalarFits ==
  ASSUME IInv, phase = "reading", how.by = "value", NEW value \in Seq(Names), Len(value) <= 1,
         FinishesScalar(budget, Rows(value))
  PROVE  LET answer == [kind |-> "Value", items |-> value, truncated |-> FALSE]
         IN answer \in ResultType /\ answer.kind = "Value" /\ FitsBudget(answer, budget, how)
<1> DEFINE read == ReadAll(ReadLimiter, budget, Rows(value))
<1>1. Finishes(read.limiter, budget, read.kept)
  BY DEF FinishesScalar
<1>2. /\ budget.max_items \in Nat /\ budget.max_bytes \in Nat /\ budget.max_items > 0
  BY AtWork DEF Working, IInv, BudgetInv
<1>3. read \in Reads(ReadLimiter, budget, Row, Rows(value), Len(value))
  BY <1>2, FreshLimiter, ReadRows
<1> HIDE DEF read
<1>4. Len(value) <= budget.max_items
  BY <1>2
<1>5. WholeOf(Rows(value)) <= budget.max_bytes
  BY <1>1, <1>2, <1>3, <1>4, CompleteReads
<1> QED
  BY <1>4, <1>5 DEF ResultType, Kinds, FitsBudget

LEMMA ValueAnswerInv ==
  ASSUME IInv, ValueAnswer
  PROVE  IInv'
<1> DEFINE value == SubSeq(listing, 1, AtMost(1, Len(listing)))
           answer == [kind |-> "Value", items |-> value, truncated |-> FALSE]
<1>1. phase = "reading" /\ how.by = "value" /\ phase \in Working
  BY DEF ValueAnswer, Working
<1>2. EndWith(Failed) \/ (FinishesScalar(budget, Rows(value)) /\ EndWith(answer))
  BY DEF ValueAnswer
<1>3. value \in Seq(Names) /\ Len(value) <= 1
  BY <1>1, AtWork DEF AtMost
<1> HIDE DEF value
<1>4. FinishesScalar(budget, Rows(value)) =>
        answer \in ResultType /\ answer.kind = "Value" /\ FitsBudget(answer, budget, how)
  BY <1>1, <1>3, ScalarFits
<1>5. Failed \in ResultType /\ Failed.kind = "Failed" /\ FitsBudget(Failed, budget, how)
  BY ConstantAnswers DEF Failed, NoResult
<1> HIDE DEF answer
<1> QED
  BY <1>1, <1>2, <1>4, <1>5, EndsInv

LEMMA DocumentAnswerInv ==
  ASSUME IInv, DocumentAnswer
  PROVE  IInv'
<1> DEFINE found == SubSeq(listing, 1, AtMost(1, Len(listing)))
           answer == [kind |-> "Value", items |-> found, truncated |-> FALSE]
<1>1. phase = "reading" /\ how.by = "value" /\ phase \in Working
  BY DEF DocumentAnswer, Working
<1>2. EndWith(Failed) \/ (FinishesScalar(budget, Rows(found)) /\ EndWith(answer))
  BY DEF DocumentAnswer
<1>3. found \in Seq(Names) /\ Len(found) <= 1
  BY <1>1, AtWork DEF AtMost
<1> HIDE DEF found
<1>4. FinishesScalar(budget, Rows(found)) =>
        answer \in ResultType /\ answer.kind = "Value" /\ FitsBudget(answer, budget, how)
  BY <1>1, <1>3, ScalarFits
<1>5. Failed \in ResultType /\ Failed.kind = "Failed" /\ FitsBudget(Failed, budget, how)
  BY ConstantAnswers DEF Failed, NoResult
<1> HIDE DEF answer
<1> QED
  BY <1>1, <1>2, <1>4, <1>5, EndsInv

LEMMA PartitionLagsInv ==
  ASSUME IInv, PartitionLags
  PROVE  IInv'
<1> DEFINE lags == Among(listing, Visible(Names))
<1>1. /\ phase \in Working
      /\ \/ MetadataFits(budget, Rows(lags)) /\ EndWith(Exact(lags))
         \/ EndWith(Failed)
  BY DEF PartitionLags, Working
<1>2. listing \in Seq(Names) /\ budget.max_items \in Nat /\ budget.max_bytes \in Nat
  BY <1>1, AtWork
<1>3. lags \in Seq(Names)
  BY <1>2, AmongType
<1> HIDE DEF lags
<1>4. MetadataFits(budget, Rows(lags)) =>
        Exact(lags) \in ResultType /\ Exact(lags).kind = "Exact" /\ FitsBudget(Exact(lags), budget, how)
  BY <1>2, <1>3, ExactFits
<1>5. Failed \in ResultType /\ Failed.kind = "Failed" /\ FitsBudget(Failed, budget, how)
  BY ConstantAnswers DEF Failed, NoResult
<1> QED
  BY <1>1, <1>4, <1>5, EndsInv

LEMMA DetailAnswerInv ==
  ASSUME IInv, DetailAnswer
  PROVE  IInv'
<1>1. /\ phase \in Working
      /\ \/ MetadataFits(budget, Rows(listing)) /\ EndWith(Exact(listing))
         \/ EndWith(Failed)
  BY DEF DetailAnswer, Working
<1>2. listing \in Seq(Names) /\ budget.max_items \in Nat /\ budget.max_bytes \in Nat
  BY <1>1, AtWork
<1>3. MetadataFits(budget, Rows(listing)) =>
        /\ Exact(listing) \in ResultType /\ Exact(listing).kind = "Exact"
        /\ FitsBudget(Exact(listing), budget, how)
  BY <1>2, ExactFits
<1>4. Failed \in ResultType /\ Failed.kind = "Failed" /\ FitsBudget(Failed, budget, how)
  BY ConstantAnswers DEF Failed, NoResult
<1> QED
  BY <1>1, <1>3, <1>4, EndsInv

LEMMA FetchWatermarkInv ==
  ASSUME IInv, FetchWatermark
  PROVE  IInv'
<1>1. /\ phase = "reading" /\ how.by = "watermarks" /\ unread # <<>>
      /\ \/ phase' = "over" /\ result' = Failed /\ unread' = unread /\ kept' = kept
         \/ /\ unread' = Tail(unread) /\ kept' = Append(kept, Head(unread))
            /\ phase' = phase /\ result' = result
      /\ how' = how /\ budget' = budget /\ listing' = listing /\ socket' = socket
      /\ tally' = tally /\ cursor' = cursor /\ table' = table
  BY DEF FetchWatermark, asked_for, history, traversal, ranges
<1>2. phase \in Working \cup {"closing"} /\ ~how.holds /\ result.kind = "none"
  BY <1>1, AtWork DEF Working
<1>3. Tail(unread) \in Seq(Names) /\ Append(kept, Head(unread)) \in Seq(Names)
  <2>1. Head(unread) \in Names
    BY <1>1, <1>2, AtWork
  <2> QED
    BY <1>1, <1>2, <2>1, AtWork
<1>4. Failed \in ResultType /\ Failed.kind = "Failed" /\ FitsBudget(Failed, budget, how)
  BY ConstantAnswers DEF Failed, NoResult
<1>5. CASE phase' = "over" /\ result' = Failed /\ unread' = unread /\ kept' = kept
  BY <1>1, <1>2, <1>4, <1>5, AtWork, WorkInv
<1>6. CASE /\ unread' = Tail(unread) /\ kept' = Append(kept, Head(unread))
           /\ phase' = phase /\ result' = result
  BY <1>1, <1>2, <1>3, <1>6, AtWork, WorkInv
<1> QED
  BY <1>1, <1>5, <1>6

LEMMA WatermarksEndInv ==
  ASSUME IInv, WatermarksEnd
  PROVE  IInv'
<1>1. /\ phase \in Working
      /\ \/ MetadataFits(budget, Rows(kept)) /\ EndWith(Exact(kept))
         \/ EndWith(Failed)
  BY DEF WatermarksEnd, Working
<1>2. kept \in Seq(Names) /\ budget.max_items \in Nat /\ budget.max_bytes \in Nat
  BY <1>1, AtWork
<1>3. MetadataFits(budget, Rows(kept)) =>
        Exact(kept) \in ResultType /\ Exact(kept).kind = "Exact" /\ FitsBudget(Exact(kept), budget, how)
  BY <1>2, ExactFits
<1>4. Failed \in ResultType /\ Failed.kind = "Failed" /\ FitsBudget(Failed, budget, how)
  BY ConstantAnswers DEF Failed, NoResult
<1> QED
  BY <1>1, <1>3, <1>4, EndsInv
-----------------------------------------------------------------------------
(* Schemas *)

LEMMA DescribedInv ==
  ASSUME IInv, phase = "reading", how.by = "schema", NEW rows \in Seq(Names),
         NEW ends \in BOOLEAN, Described(rows, ends), unread' \in Seq(Names)
  PROVE  IInv'
<1> DEFINE all == kept \o SubSeq(rows, 1, AtMost(MetadataProbe(budget, Len(kept)), Len(rows)))
<1>1. /\ how' = how /\ budget' = budget /\ listing' = listing /\ socket' = socket
      /\ tally' = tally /\ table' = table /\ kept' = all /\ cursor' = cursor + 1
      /\ \/ phase' = "over" /\ result' = Failed
         \/ phase' = phase /\ result' = result
         \/ phase' = "over" /\ result' = Exact(all) /\ MetadataFits(budget, Rows(all))
  BY DEF Described, asked_for, history, ranges
<1>2. phase \in Working \cup {"closing"} /\ ~how.holds /\ result.kind = "none"
  BY AtWork DEF Working
<1>3. kept \in Seq(Names) /\ budget.max_items \in Nat /\ budget.max_bytes \in Nat /\ cursor \in Nat
  BY <1>2, AtWork
<1>4. all \in Seq(Names)
  <2>1. MetadataProbe(budget, Len(kept)) \in Int
    BY <1>3 DEF MetadataProbe
  <2> QED
    BY <1>3, <2>1, FirstType, Concatenation
<1> HIDE DEF all
<1>5. Failed \in ResultType /\ Failed.kind = "Failed" /\ FitsBudget(Failed, budget, how)
  BY ConstantAnswers DEF Failed, NoResult
<1>6. MetadataFits(budget, Rows(all)) =>
        Exact(all) \in ResultType /\ Exact(all).kind = "Exact" /\ FitsBudget(Exact(all), budget, how)
  BY <1>3, <1>4, ExactFits
<1>7. CASE phase' = "over" /\ result' = Failed
  BY <1>1, <1>2, <1>3, <1>4, <1>5, <1>7, AtWork, WorkInv
<1>8. CASE phase' = phase /\ result' = result
  BY <1>1, <1>2, <1>3, <1>4, <1>8, AtWork, WorkInv
<1>9. CASE phase' = "over" /\ result' = Exact(all) /\ MetadataFits(budget, Rows(all))
  BY <1>1, <1>2, <1>3, <1>4, <1>6, <1>9, AtWork, WorkInv
<1> QED
  BY <1>1, <1>7, <1>8, <1>9

LEMMA DescribeColumnsInv ==
  ASSUME IInv, DescribeColumns
  PROVE  IInv'
<1>1. phase = "reading" /\ how.by = "schema" /\ unread \in Seq(Names)
  BY AtWork DEF DescribeColumns, Working
<1>2. PICK n \in 1..Len(unread) :
        Described(SubSeq(unread, 1, n), FALSE) /\ unread' = SubSeq(unread, n + 1, Len(unread))
  BY DEF DescribeColumns
<1>3. SubSeq(unread, 1, n) \in Seq(Names) /\ SubSeq(unread, n + 1, Len(unread)) \in Seq(Names)
  BY <1>1, PartType
<1> QED
  BY <1>1, <1>2, <1>3, DescribedInv

LEMMA DescribeIndexesInv ==
  ASSUME IInv, DescribeIndexes
  PROVE  IInv'
<1>1. phase = "reading" /\ how.by = "schema" /\ unread \in Seq(Names)
  BY AtWork DEF DescribeIndexes, Working
<1>2. Described(unread, TRUE) /\ unread' = <<>>
  BY Zenon DEF DescribeIndexes
<1>3. <<>> \in Seq(Names)
  OBVIOUS
<1> QED
  BY <1>1, <1>2, <1>3, DescribedInv
-----------------------------------------------------------------------------
(* Other clients *)

\* They change what the server has, and nothing of what the client has read.
LEMMA OthersInv ==
  ASSUME IInv, phase \in Working, listing' \in Seq(Names), unread' \in Seq(Names),
         UNCHANGED <<how, budget, phase, socket, tally, kept, cursor, table, result>>
  PROVE  IInv'
<1>1. how.holds => phase = "reading" /\ socket = "held"
  BY AtWork DEF Working
<1>2. result.kind \in {"none", "List"}
  BY AtWork DEF Working
<1> QED
  BY <1>1, <1>2, AtWork, WorkInv DEF Working

LEMMA OthersAddInv ==
  ASSUME IInv, OthersAdd
  PROVE  IInv'
<1>1. phase \in Working /\ listing \in Seq(Names) /\ unread \in Seq(Names)
  BY AtWork DEF OthersAdd
<1>2. PICK name \in Names : /\ listing' \in Added(listing, name)
                            /\ unread' \in {unread} \cup Added(unread, name)
  BY DEF OthersAdd
<1>3. listing' \in Seq(Names) /\ unread' \in Seq(Names)
  BY <1>1, <1>2, AddedType
<1>4. UNCHANGED <<how, budget, phase, socket, tally, kept, cursor, table, result>>
  BY DEF OthersAdd, asked_for, traversal, ranges
<1> QED
  BY <1>1, <1>3, <1>4, OthersInv

LEMMA OthersRemoveInv ==
  ASSUME IInv, OthersRemove
  PROVE  IInv'
<1>1. phase \in Working /\ listing \in Seq(Names) /\ unread \in Seq(Names)
  BY AtWork DEF OthersRemove
<1>2. PICK name \in Range(listing) : /\ listing' = Among(listing, Names \ {name})
                                     /\ unread' \in {unread, Among(unread, Names \ {name})}
  BY DEF OthersRemove
<1>3. listing' \in Seq(Names) /\ unread' \in Seq(Names)
  BY <1>1, <1>2, AmongType
<1>4. UNCHANGED <<how, budget, phase, socket, tally, kept, cursor, table, result>>
  BY DEF OthersRemove, asked_for, traversal, ranges
<1> QED
  BY <1>1, <1>3, <1>4, OthersInv
-----------------------------------------------------------------------------
(* The specification *)

LEMMA StepInv ==
  ASSUME IInv, ReadStep
  PROVE  IInv'
<1>1. CASE ReadFails \/ FetchFails \/ FetchEnds \/ FetchRow \/ CloseStream
  BY <1>1, ReadFailsInv, FetchFailsInv, FetchEndsInv, FetchRowInv, CloseStreamInv
<1>2. CASE PullFails \/ ReceiveEnds \/ Receive \/ DeleteConsumer
  BY <1>2, PullFailsInv, ReceiveEndsInv, ReceiveInv, DeleteConsumerInv
<1>3. CASE ScanPage \/ ExportEntry \/ ExportEnds
  BY <1>3, ScanPageInv, ExportEntryInv, ExportEndsInv
<1>4. CASE GroupLagPage \/ GroupLagStream \/ GroupLagEnds
  BY <1>4, GroupLagPageInv, GroupLagStreamInv, GroupLagEndsInv
<1>5. CASE ManagementPage \/ NatsPage \/ NatsLagPage
  BY <1>5, ManagementPageInv, NatsPageInv, NatsLagPageInv
<1>6. CASE CatalogAnswer \/ CatalogList \/ SearchAnswer \/ ValueAnswer \/ DocumentAnswer
  BY <1>6, CatalogAnswerInv, CatalogListInv, SearchAnswerInv, ValueAnswerInv, DocumentAnswerInv
<1>7. CASE PartitionLags \/ DetailAnswer \/ FetchWatermark \/ WatermarksEnd
  BY <1>7, PartitionLagsInv, DetailAnswerInv, FetchWatermarkInv, WatermarksEndInv
<1>8. CASE DescribeColumns \/ DescribeIndexes
  BY <1>8, DescribeColumnsInv, DescribeIndexesInv
<1> QED
  BY <1>1, <1>2, <1>3, <1>4, <1>5, <1>6, <1>7, <1>8 DEF ReadStep

LEMMA Inductive ==
  ASSUME IInv, [ReadNext]_readVars
  PROVE  IInv'
<1>1. CASE \E b \in ReadBudgets : StartRead(b)
  BY <1>1, StartReadInv
<1>2. CASE StartWhole
  BY <1>2, StartWholeInv
<1>3. CASE \E all \in SeriesAnswers, b \in SeriesBudgets : RangeAnswer(all, b)
  BY <1>3, RangeAnswerInv
<1>4. CASE ReadStep
  BY <1>4, StepInv
<1>5. CASE ReadDropped
  BY <1>5, ReadDroppedInv
<1>6. CASE OthersAdd \/ OthersRemove
  BY <1>6, OthersAddInv, OthersRemoveInv
<1>7. CASE UNCHANGED readVars
  BY <1>7, StutterInv
<1> QED
  BY <1>1, <1>2, <1>3, <1>4, <1>5, <1>6, <1>7 DEF ReadNext

LEMMA Invariant == ReadSpec => []IInv
<1>1. ReadInit => IInv
  BY InitInv
<1>2. IInv /\ [ReadNext]_readVars => IInv'
  BY Inductive
<1> QED
  BY <1>1, <1>2, PTL DEF ReadSpec

\* Whatever a server sends, what a caller gets has no more items than asked for and
\* fits into the bytes of the budget, with its envelope, and what a limiter has
\* counted does so before.  For budgets of any size, listings of any length and time
\* series of any number of samples.
THEOREM BudgetsAreKept == ReadSpec => []BudgetKept
<1>1. IInv => BudgetKept
  BY DEF IInv, TallyInv, Within, ResultInv, FitsBudget, Lists, BudgetKept
<1> QED
  BY <1>1, Invariant, PTL

\* A pooled connection goes back to its pool only when every row was read or the
\* call was dropped, and messages are shown when the temporary consumer is gone.
THEOREM NoReadIsLeftOpen == ReadSpec => []NothingIsLeftOpen
<1>1. IInv => NothingIsLeftOpen
  BY DEF IInv, SocketInv, NothingIsLeftOpen
<1> QED
  BY <1>1, Invariant, PTL
-----------------------------------------------------------------------------
(***************************************************************************)
(* That a list is what it says.  No list shows by itself what it leaves    *)
(* out: while a read goes on, the history variables and what was read so   *)
(* far must account for everything.  What was there all the time is kept   *)
(* or still to come (StreamInv, InspectInv), was returned by the scan      *)
(* (ScanInv), or stands behind the place that was reached, unless something*)
(* was removed (PageInv); what an export kept and has still to read is what*)
(* it listed (ExportInv); and nothing was kept twice, or was never there.  *)
(***************************************************************************)

(* Lists without duplicates *)

\* One more name at the end of a list.
LEMMA AppendKeeps ==
  ASSUME NEW S, NEW s \in Seq(S), NEW x \in S
  PROVE  /\ Range(Append(s, x)) = Range(s) \cup {x}
         /\ IsInjective(s) /\ x \notin Range(s) => IsInjective(Append(s, x))
<1> DEFINE n == Len(s)
           t == Append(s, x)
<1>1. /\ n \in Nat /\ DOMAIN s = 1..n /\ DOMAIN t = 1..(n + 1)
      /\ t[n + 1] = x /\ \A i \in 1..n : t[i] = s[i]
  OBVIOUS
<1> HIDE DEF n, t
<1>2. \A i \in 1..(n + 1) : i \in 1..n \/ i = n + 1
  BY <1>1
<1>3. \A i \in 1..n : i \in 1..(n + 1)
  BY <1>1
<1>4. n + 1 \in 1..(n + 1)
  BY <1>1
<1>5. Range(t) = Range(s) \cup {x}
  BY <1>1, <1>2, <1>3, <1>4 DEF Range
<1>6. IsInjective(s) /\ x \notin Range(s) => IsInjective(t)
  <2>1. SUFFICES ASSUME IsInjective(s), x \notin Range(s), NEW i \in 1..(n + 1), NEW j \in 1..(n + 1),
                        t[i] = t[j]
                 PROVE  i = j
    BY <1>1 DEF IsInjective
  <2>2. \A k \in 1..n : s[k] # x
    BY <1>1, <2>1 DEF Range
  <2> QED
    BY <1>1, <1>2, <2>1, <2>2 DEF IsInjective
<1> QED
  BY <1>5, <1>6 DEF t

\* A list without its first name.
LEMMA TailKeeps ==
  ASSUME NEW S, NEW s \in Seq(S), s # <<>>
  PROVE  /\ Range(s) = {Head(s)} \cup Range(Tail(s)) /\ Len(Tail(s)) = Len(s) - 1
         /\ IsInjective(s) => IsInjective(Tail(s)) /\ Head(s) \notin Range(Tail(s))
<1> DEFINE n == Len(s)
           t == Tail(s)
<1>1. /\ n \in Nat \ {0} /\ DOMAIN s = 1..n /\ DOMAIN t = 1..(n - 1) /\ Len(t) = n - 1
      /\ Head(s) = s[1] /\ \A i \in 1..(n - 1) : t[i] = s[i + 1]
  OBVIOUS
<1> HIDE DEF n, t
<1>2. /\ \A i \in 1..(n - 1) : i + 1 \in 1..n /\ i + 1 # 1
      /\ \A i \in 1..n : i = 1 \/ (i - 1 \in 1..(n - 1) /\ (i - 1) + 1 = i)
      /\ 1 \in 1..n /\ \A i, j \in 1..(n - 1) : i + 1 = j + 1 => i = j
  BY <1>1
<1>3. Range(s) = {Head(s)} \cup Range(t)
  <2>1. \A i \in 1..n : s[i] \in {Head(s)} \cup Range(t)
    <3>1. \A i \in 1..n : \/ i = 1 /\ s[i] = Head(s)
                          \/ i - 1 \in 1..(n - 1) /\ s[i] = t[i - 1]
      <4>1. \A i \in 1..n : i # 1 => i - 1 \in 1..(n - 1) /\ t[i - 1] = s[(i - 1) + 1] /\ (i - 1) + 1 = i
        BY <1>1, <1>2
      <4> QED
        BY <1>1, <4>1
    <3> QED
      <4>1. \A k \in 1..(n - 1) : t[k] \in Range(t)
        BY <1>1 DEF Range
      <4> QED
        BY <3>1, <4>1
  <2>2. \A i \in 1..(n - 1) : t[i] \in Range(s)
    <3>1. \A k \in 1..n : s[k] \in Range(s)
      BY <1>1 DEF Range
    <3> QED
      BY <1>1, <1>2, <3>1
  <2>3. Head(s) \in Range(s)
    BY <1>1, <1>2 DEF Range
  <2> QED
    BY <1>1, <2>1, <2>2, <2>3 DEF Range
<1>4. ASSUME IsInjective(s) PROVE IsInjective(t) /\ Head(s) \notin Range(t)
  <2>1. \A i, j \in 1..n : s[i] = s[j] => i = j
    BY <1>1, <1>4 DEF IsInjective
  <2>2. \A i, j \in 1..(n - 1) : t[i] = t[j] => i = j
    <3>1. SUFFICES ASSUME NEW i \in 1..(n - 1), NEW j \in 1..(n - 1), t[i] = t[j] PROVE i = j
      OBVIOUS
    <3>2. s[i + 1] = s[j + 1] /\ i + 1 \in 1..n /\ j + 1 \in 1..n
      BY <1>1, <1>2, <3>1
    <3>3. i + 1 = j + 1
      BY <2>1, <3>2
    <3> QED
      BY <3>3
  <2>3. \A i \in 1..(n - 1) : t[i] # Head(s)
    <3>1. SUFFICES ASSUME NEW i \in 1..(n - 1), t[i] = Head(s) PROVE FALSE
      OBVIOUS
    <3>2. s[i + 1] = s[1] /\ i + 1 \in 1..n /\ 1 \in 1..n /\ i + 1 # 1
      BY <1>1, <1>2, <3>1
    <3> QED
      BY <2>1, <3>2
  <2> QED
    BY <1>1, <2>2, <2>3 DEF IsInjective, Range
<1> QED
  BY <1>1, <1>3, <1>4 DEF n, t

\* Two lists, one behind the other.
LEMMA ConcatenationKeeps ==
  ASSUME NEW S, NEW s \in Seq(S), NEW t \in Seq(S)
  PROVE  /\ s \o t \in Seq(S) /\ Len(s \o t) = Len(s) + Len(t)
         /\ Range(s \o t) = Range(s) \cup Range(t)
         /\ IsInjective(s) /\ IsInjective(t) /\ Range(s) \cap Range(t) = {} => IsInjective(s \o t)
<1> DEFINE m == Len(s)
           n == Len(t)
           u == s \o t
<1>1. /\ m \in Nat /\ n \in Nat /\ DOMAIN s = 1..m /\ DOMAIN t = 1..n /\ Len(u) = m + n
      /\ u \in Seq(S) /\ DOMAIN u = 1..(m + n)
      /\ \A i \in 1..m : u[i] = s[i] /\ \A j \in 1..n : u[m + j] = t[j]
  OBVIOUS
<1>2. \A j \in 1..n : u[m + j] = t[j]
  OBVIOUS
<1> HIDE DEF m, n, u
<1>a. /\ \A i \in 1..(m + n) : i \in 1..m \/ (i - m \in 1..n /\ m + (i - m) = i)
      /\ \A i \in 1..m : i \in 1..(m + n)
      /\ \A i \in 1..n : m + i \in 1..(m + n)
  BY <1>1
<1>3. /\ \A i \in 1..(m + n) : i \in 1..m \/ (i - m \in 1..n /\ u[i] = t[i - m])
      /\ \A i \in 1..m : i \in 1..(m + n)
      /\ \A i \in 1..n : m + i \in 1..(m + n)
  <2>1. ASSUME NEW i \in 1..(m + n), i \notin 1..m PROVE i - m \in 1..n /\ u[i] = t[i - m]
    <3>1. i - m \in 1..n /\ m + (i - m) = i
      BY <1>a, <2>1
    <3>2. u[m + (i - m)] = t[i - m]
      BY <1>2, <3>1
    <3> QED
      BY <3>1, <3>2
  <2>2. ASSUME NEW i \in 1..(m + n) PROVE i \in 1..m \/ (i - m \in 1..n /\ u[i] = t[i - m])
    <3>1. CASE i \in 1..m
      BY <3>1
    <3>2. CASE i \notin 1..m
      BY <2>1, <3>2
    <3> QED
      BY <3>1, <3>2
  <2> QED
    BY <1>a, <2>2
<1>4. Range(u) = Range(s) \cup Range(t)
  <2>1. \A i \in 1..(m + n) : u[i] \in Range(s) \cup Range(t)
    <3>1. \A i \in 1..(m + n) : (i \in 1..m /\ u[i] = s[i]) \/ (i - m \in 1..n /\ u[i] = t[i - m])
      BY <1>1, <1>3
    <3> QED
      BY <1>1, <3>1 DEF Range
  <2>2. \A i \in 1..m : s[i] \in Range(u)
    <3>1. \A i \in 1..m : i \in 1..(m + n) /\ u[i] = s[i]
      BY <1>1, <1>3
    <3> QED
      BY <1>1, <3>1 DEF Range
  <2>3. \A i \in 1..n : t[i] \in Range(u)
    BY <1>1, <1>2, <1>3 DEF Range
  <2> QED
    BY <1>1, <2>1, <2>2, <2>3 DEF Range
<1>5. IsInjective(s) /\ IsInjective(t) /\ Range(s) \cap Range(t) = {} => IsInjective(u)
  <2>1. SUFFICES ASSUME IsInjective(s), IsInjective(t), Range(s) \cap Range(t) = {},
                        NEW i \in 1..(m + n), NEW j \in 1..(m + n), u[i] = u[j]
                 PROVE  i = j
    BY <1>1 DEF IsInjective
  <2>2. \A k \in 1..m, l \in 1..n : s[k] # t[l]
    <3>1. \A k \in 1..m, l \in 1..n : s[k] \in Range(s) /\ t[l] \in Range(t)
      BY <1>1 DEF Range
    <3> QED
      BY <2>1, <3>1
  <2>3. /\ \A k, l \in 1..m : s[k] = s[l] => k = l
        /\ \A k, l \in 1..n : t[k] = t[l] => k = l
    BY <1>1, <2>1 DEF IsInjective
  <2>4. CASE i \in 1..m
    <3>1. u[i] = s[i]
      BY <1>1, <2>4
    <3>2. CASE j \in 1..m
      <4>1. u[j] = s[j]
        BY <1>1, <3>2
      <4> QED
        BY <2>1, <2>3, <2>4, <3>1, <3>2, <4>1
    <3>3. CASE j \notin 1..m
      <4>1. j - m \in 1..n /\ u[j] = t[j - m]
        BY <1>3, <3>3
      <4> QED
        BY <2>1, <2>2, <2>4, <3>1, <4>1
    <3> QED
      BY <3>2, <3>3
  <2>5. CASE i \notin 1..m
    <3>1. i - m \in 1..n /\ u[i] = t[i - m]
      BY <1>3, <2>5
    <3>2. CASE j \in 1..m
      <4>1. u[j] = s[j]
        BY <1>1, <3>2
      <4> QED
        BY <2>1, <2>2, <3>1, <3>2, <4>1
    <3>3. CASE j \notin 1..m
      <4>1. j - m \in 1..n /\ u[j] = t[j - m]
        BY <1>3, <3>3
      <4>2. i - m = j - m
        BY <2>1, <2>3, <3>1, <4>1
      <4> QED
        BY <1>1, <4>2
    <3> QED
      BY <3>2, <3>3
  <2> QED
    BY <2>4, <2>5
<1> QED
  BY <1>1, <1>4, <1>5 DEF m, n, u

\* A part of a list, and the two parts of one.
LEMMA PartKeeps ==
  ASSUME NEW S, NEW s \in Seq(S), NEW m \in Nat \ {0}, NEW n \in Nat, n <= Len(s)
  PROVE  /\ SubSeq(s, m, n) \in Seq(S)
         /\ \A i \in DOMAIN s : i \in m..n => s[i] \in Range(SubSeq(s, m, n))
         /\ \A x \in Range(SubSeq(s, m, n)) : \E i \in DOMAIN s : i \in m..n /\ x = s[i]
         /\ Range(SubSeq(s, m, n)) \subseteq Range(s)
         /\ IsInjective(s) => IsInjective(SubSeq(s, m, n))
<1> DEFINE t == SubSeq(s, m, n)
           k == IF m <= n THEN n - m + 1 ELSE 0
<1>1. /\ Len(s) \in Nat /\ DOMAIN s = 1..Len(s) /\ t \in Seq(S) /\ DOMAIN t = 1..k /\ k \in Nat
      /\ \A i \in 1..k : t[i] = s[m + i - 1]
  OBVIOUS
<1>2. /\ \A i \in 1..k : m + i - 1 \in DOMAIN s /\ m + i - 1 \in m..n
      /\ \A i \in DOMAIN s : i \in m..n => i - m + 1 \in 1..k /\ m + (i - m + 1) - 1 = i
      /\ \A i, j \in 1..k : m + i - 1 = m + j - 1 => i = j
  BY <1>1
<1> HIDE DEF t, k
<1>3. \A i \in DOMAIN s : i \in m..n => s[i] \in Range(t)
  <2>1. \A i \in DOMAIN s : i \in m..n => i - m + 1 \in 1..k /\ t[i - m + 1] = s[i]
    BY <1>1, <1>2
  <2> QED
    BY <1>1, <2>1 DEF Range
<1>4. \A x \in Range(t) : \E i \in DOMAIN s : i \in m..n /\ x = s[i]
  <2>1. \A i \in 1..k : m + i - 1 \in DOMAIN s /\ m + i - 1 \in m..n /\ t[i] = s[m + i - 1]
    BY <1>1, <1>2
  <2> QED
    BY <1>1, <2>1 DEF Range
<1>5. Range(t) \subseteq Range(s)
  BY <1>4 DEF Range
<1>6. IsInjective(s) => IsInjective(t)
  <2>1. SUFFICES ASSUME IsInjective(s), NEW i \in 1..k, NEW j \in 1..k, t[i] = t[j] PROVE i = j
    BY <1>1 DEF IsInjective
  <2>2. s[m + i - 1] = s[m + j - 1] /\ m + i - 1 \in DOMAIN s /\ m + j - 1 \in DOMAIN s
    BY <1>1, <1>2, <2>1
  <2>3. m + i - 1 = m + j - 1
    BY <2>1, <2>2 DEF IsInjective
  <2> QED
    BY <1>2, <2>3
<1> QED
  BY <1>1, <1>3, <1>4, <1>5, <1>6 DEF t

LEMMA SplitKeeps ==
  ASSUME NEW S, NEW s \in Seq(S), NEW n \in Nat, n <= Len(s)
  PROVE  LET a == SubSeq(s, 1, n)
             z == SubSeq(s, n + 1, Len(s))
         IN /\ a \in Seq(S) /\ z \in Seq(S) /\ Len(a) = n /\ Len(z) = Len(s) - n
            /\ Range(s) = Range(a) \cup Range(z)
            /\ IsInjective(s) => IsInjective(a) /\ IsInjective(z) /\ Range(a) \cap Range(z) = {}
<1> DEFINE a == SubSeq(s, 1, n)
           z == SubSeq(s, n + 1, Len(s))
<1>1. a \in Seq(S) /\ z \in Seq(S) /\ Len(a) = n /\ Len(z) = Len(s) - n
      /\ Len(s) \in Nat /\ DOMAIN s = 1..Len(s)
  OBVIOUS
<1>2. /\ \A i \in DOMAIN s : i \in 1..n => s[i] \in Range(a)
      /\ \A x \in Range(a) : \E i \in DOMAIN s : i \in 1..n /\ x = s[i]
      /\ Range(a) \subseteq Range(s)
      /\ IsInjective(s) => IsInjective(a)
  BY PartKeeps
<1>3. /\ \A i \in DOMAIN s : i \in (n + 1)..Len(s) => s[i] \in Range(z)
      /\ \A x \in Range(z) : \E i \in DOMAIN s : i \in (n + 1)..Len(s) /\ x = s[i]
      /\ Range(z) \subseteq Range(s)
      /\ IsInjective(s) => IsInjective(z)
  <2>1. n + 1 \in Nat \ {0} /\ Len(s) \in Nat
    OBVIOUS
  <2> QED
    BY <2>1, PartKeeps
<1> HIDE DEF a, z
<1>4. \A i \in DOMAIN s : i \in 1..n \/ i \in (n + 1)..Len(s)
  BY <1>1
<1>5. Range(s) \subseteq Range(a) \cup Range(z)
  BY <1>2, <1>3, <1>4 DEF Range
<1>6. ASSUME IsInjective(s), NEW x \in Range(a), x \in Range(z) PROVE FALSE
  <2>1. PICK i \in DOMAIN s : i \in 1..n /\ x = s[i]
    BY <1>2
  <2>2. PICK j \in DOMAIN s : j \in (n + 1)..Len(s) /\ x = s[j]
    BY <1>3, <1>6
  <2>3. i = j
    BY <1>6, <2>1, <2>2 DEF IsInjective
  <2> QED
    BY <1>1, <2>1, <2>2, <2>3
<1> QED
  BY <1>1, <1>2, <1>3, <1>5, <1>6 DEF a, z

\* A list without repetitions is a listing, and no longer than there are names.
LEMMA DistinctIsListing ==
  ASSUME NEW s \in Seq(Names), IsInjective(s)
  PROVE  s \in Listings /\ Len(s) <= Cardinality(Names) /\ Cardinality(Range(s)) = Len(s)
<1> DEFINE n == Len(s)
           R == Range(s)
<1>1. n \in Nat /\ DOMAIN s = 1..n /\ s \in [1..n -> Names]
  OBVIOUS
<1>2. R \in SUBSET Names /\ s \in [1..n -> R]
  BY <1>1 DEF Range
<1>3. IsFiniteSet(1..n) /\ Cardinality(1..n) = n
  BY <1>1, FS_Interval
<1>4. s \in Injection(1..n, R) /\ s \in Surjection(1..n, R)
  BY <1>1, <1>2 DEF Injection, Surjection, IsInjective, Range
<1>5. IsFiniteSet(R) /\ Cardinality(R) = n
  BY <1>3, <1>4, FS_Surjection
<1>6. Cardinality(R) <= Cardinality(Names)
  BY <1>2, BoundedReadAssumption, FS_Subset
<1>7. s \in SetToSeqs(R)
  BY <1>1, <1>2, <1>5 DEF SetToSeqs, IsInjective
<1> QED
  BY <1>2, <1>5, <1>6, <1>7 DEF Listings, SetToAllKPermutations

\* A listing has nothing twice.
LEMMA ListingIsDistinct ==
  ASSUME NEW s \in Listings
  PROVE  s \in Seq(Names) /\ IsInjective(s)
<1>1. s \in Seq(Names)
  BY ListingsType
<1>2. PICK S \in SUBSET Names : s \in SetToSeqs(S)
  BY DEF Listings, SetToAllKPermutations
<1> QED
  BY <1>1, <1>2 DEF SetToSeqs, IsInjective

\* A page of a scan has nothing twice, and only what is there.
LEMMA ScanPageIsDistinct ==
  ASSUME listing \in Seq(Names), NEW page \in ScanPages
  PROVE  page \in Seq(Names) /\ IsInjective(page) /\ Range(page) \subseteq Range(listing)
<1>1. page \in Seq(Names)
  BY ScanPagesType
<1>2. PICK S \in SUBSET Range(listing) : page \in SetToSeqs(S)
  BY DEF ScanPages
<1> QED
  BY <1>1, <1>2 DEF SetToSeqs, IsInjective, Range

\* One more name somewhere in a list.
LEMMA AddedKeeps ==
  ASSUME NEW names \in Seq(Names), NEW name \in Names \ Range(names), NEW t \in Added(names, name)
  PROVE  /\ Range(t) = Range(names) \cup {name}
         /\ IsInjective(names) => IsInjective(t)
         /\ \A j \in DOMAIN t : \/ t[j] = name
                                \/ \E k \in DOMAIN names : k <= j /\ t[j] = names[k]
<1>1. PICK i \in 1..(Len(names) + 1) : t = InsertAt(names, i, name)
  BY DEF Added
<1> DEFINE n == Len(names)
           at(j) == IF j < i THEN names[j] ELSE IF j = i THEN name ELSE names[j - 1]
<1>2. n \in Nat /\ DOMAIN names = 1..n /\ i \in 1..(n + 1) /\ names \in [1..n -> Names]
  OBVIOUS
<1>3. DOMAIN t = 1..(n + 1) /\ \A j \in 1..(n + 1) : t[j] = at(j)
  <2> DEFINE a == SubSeq(names, 1, i - 1)
             z == SubSeq(names, i, n)
             b == a \o <<name>>
  <2>1. /\ a \in Seq(Names) /\ Len(a) = i - 1 /\ \A j \in 1..(i - 1) : a[j] = names[j]
    OBVIOUS
  <2>2. /\ z \in Seq(Names) /\ Len(z) = n - i + 1 /\ \A j \in 1..(n - i + 1) : z[j] = names[i + j - 1]
    OBVIOUS
  <2>3. t = b \o z
    BY <1>1 DEF InsertAt
  <2> HIDE DEF a, z, n
  <2>4. b \in Seq(Names) /\ Len(b) = i /\ b[i] = name /\ \A j \in 1..(i - 1) : b[j] = names[j]
    BY <1>2, <2>1
  <2> HIDE DEF b
  <2>5. t \in Seq(Names) /\ Len(t) = n + 1
    BY <1>2, <2>2, <2>3, <2>4
  <2>6. ASSUME NEW j \in 1..(n + 1) PROVE t[j] = at(j)
    <3>1. CASE j <= i
      BY <1>2, <2>2, <2>3, <2>4, <3>1
    <3>2. CASE j > i
      <4>1. t[j] = z[j - i]
        BY <1>2, <2>2, <2>3, <2>4, <3>2
      <4>2. z[j - i] = names[i + (j - i) - 1]
        BY <1>2, <2>2, <3>2
      <4> QED
        BY <1>2, <3>2, <4>1, <4>2
    <3> QED
      BY <1>2, <3>1, <3>2
  <2> QED
    BY <1>2, <2>5, <2>6
<1> HIDE DEF n
<1>4. /\ \A j \in 1..(n + 1) : t[j] = at(j) /\ (j < i => j \in 1..n) /\ (j > i => j - 1 \in 1..n /\ j - 1 <= j)
      /\ \A j \in 1..n : j \in 1..(n + 1) /\ j + 1 \in 1..(n + 1) /\ (j + 1) - 1 = j
                         /\ (j < i => t[j] = names[j]) /\ (~(j < i) => t[j + 1] = names[j])
      /\ \A j \in 1..(n + 1) : j <= j /\ (j < i \/ j = i \/ j > i)
  BY <1>2, <1>3
<1>5. \A j \in 1..(n + 1) : t[j] = name \/ \E k \in 1..n : k <= j /\ t[j] = names[k]
  BY <1>2, <1>4
<1>6. Range(t) = Range(names) \cup {name}
  <2>1. Range(t) \subseteq Range(names) \cup {name}
    BY <1>2, <1>3, <1>5 DEF Range
  <2>2. name \in Range(t)
    BY <1>2, <1>3 DEF Range
  <2>3. Range(names) \subseteq Range(t)
    BY <1>2, <1>3, <1>4 DEF Range
  <2> QED
    BY <2>1, <2>2, <2>3
<1>7. ASSUME IsInjective(names), NEW j \in 1..(n + 1), NEW k \in 1..(n + 1), t[j] = t[k] PROVE j = k
  <2>1. \A l \in 1..n : names[l] # name
    BY <1>2 DEF Range
  <2>2. \A l, m \in 1..n : names[l] = names[m] => l = m
    BY <1>2, <1>7 DEF IsInjective
  <2>3. at(j) = at(k)
    BY <1>3, <1>7
  <2> QED
    BY <1>2, <1>4, <2>1, <2>2, <2>3
<1> QED
  BY <1>2, <1>3, <1>5, <1>6, <1>7 DEF IsInjective

\* The names of a list that are in a set, name by name.
Picks(S, names, set) ==
  {f \in [0..Len(names) -> Seq(S)] :
     /\ f[0] = <<>> /\ Among(names, set) = f[Len(names)]
     /\ \A i \in 1..Len(names) :
          f[i] = IF names[i] \in set THEN Append(f[i - 1], names[i]) ELSE f[i - 1]}

\* Among, step by step.
LEMMA AmongRecursion ==
  ASSUME NEW S, NEW names \in Seq(S), NEW set
  PROVE  Picks(S, names, set) # {}
<1> DEFINE n == Len(names)
           V == Seq(S)
           next(i, s) == IF names[i] \in set THEN Append(s, names[i]) ELSE s
           E(f) == [i \in 0..n |-> IF i = 0 THEN <<>> ELSE
                                   IF names[i] \in set THEN Append(f[i - 1], names[i]) ELSE f[i - 1]]
           F == CHOOSE f : f = E(f)
<1>1. Among(names, set) = F[n]
  BY DEF Among
<1>2. n \in Nat /\ <<>> \in V /\ \A i \in 1..n : names[i] \in S
  OBVIOUS
<1> HIDE DEF n
<1>3. \A i \in 1..n, s \in V : next(i, s) \in V /\ Len(next(i, s)) <= Len(s) + 1 /\ Len(s) \in Nat
  BY <1>2
<1> HIDE DEF V
<1>4. \E f : f = E(f)
  <2> DEFINE step == [i \in 1..n |-> [s \in V |-> next(i, s)]]
  <2>1. step \in [1..n -> [V -> V]]
    BY <1>3
  <2>2. \A s \in V, i \in 1..n : step[i][s] = next(i, s)
    OBVIOUS
  <2> HIDE DEF step, next
  <2>3. Solutions(n, V, <<>>, step) # {}
    BY <1>2, <2>1, Recursion
  <2>4. PICK f \in [0..n -> V] : f[0] = <<>> /\ \A i \in 1..n : f[i] = step[i][f[i - 1]]
    BY <2>3 DEF Solutions
  <2>5. ASSUME NEW i \in 1..n PROVE f[i] = next(i, f[i - 1])
    <3>1. i - 1 \in 0..n
      BY <1>2
    <3> QED
      BY <2>2, <2>4, <3>1
  <2>6. ASSUME NEW i \in 0..n
        PROVE  f[i] = IF i = 0 THEN <<>> ELSE
                      IF names[i] \in set THEN Append(f[i - 1], names[i]) ELSE f[i - 1]
    <3>1. CASE i = 0
      BY <2>4, <3>1
    <3>2. CASE i # 0
      <4>1. i \in 1..n
        BY <1>2, <3>2
      <4> QED
        BY <2>5, <3>2, <4>1 DEF next
    <3> QED
      BY <3>1, <3>2
  <2>7. f = [i \in 0..n |-> f[i]]
    BY <2>4
  <2>8. [i \in 0..n |-> f[i]] = E(f)
    BY <2>6, Zenon
  <2> QED
    BY <2>7, <2>8
<1>5. F = E(F)
  BY <1>4
<1> HIDE DEF F
<1>6. F[0] = <<>> /\ \A i \in 1..n : F[i] = next(i, F[i - 1])
  <2>1. ASSUME NEW i \in 0..n
        PROVE  F[i] = IF i = 0 THEN <<>> ELSE
                      IF names[i] \in set THEN Append(F[i - 1], names[i]) ELSE F[i - 1]
    BY <1>5, Zenon
  <2>2. 0 \in 0..n /\ \A i \in 1..n : i \in 0..n /\ i # 0
    BY <1>2
  <2>3. F[0] = <<>>
    BY <2>1, <2>2
  <2>4. ASSUME NEW i \in 1..n PROVE F[i] = next(i, F[i - 1])
    BY <2>1, <2>2, Zenon
  <2> QED
    BY <2>3, <2>4
<1>7. \A i \in 0..n : F[i] \in V
  <2> DEFINE I == [i \in 0..n |-> V]
  <2>1. ASSUME NEW i \in 1..n, F[i - 1] \in I[i - 1] PROVE F[i] \in I[i]
    <3>1. i - 1 \in 0..n /\ i \in 0..n
      BY <1>2
    <3>2. F[i - 1] \in V
      BY <2>1, <3>1
    <3>3. next(i, F[i - 1]) \in V
      BY <1>3, <3>2
    <3> QED
      BY <1>6, <3>1, <3>3
  <2>2. F[0] \in I[0]
    BY <1>2, <1>6
  <2>3. \A i \in 0..n : F[i] \in I[i]
    <3> HIDE DEF I, next
    <3> QED
      BY <1>2, <2>1, <2>2, Along
  <2> QED
    BY <2>3
<1>8. F \in [0..n -> V]
  <2>1. F = [i \in 0..n |-> F[i]]
    BY <1>5
  <2> QED
    BY <1>7, <2>1
<1> QED
  BY <1>1, <1>6, <1>8 DEF V, n, Picks

\* What is picked of a list is in the list and in the set, and comes once if it did.
LEMMA AmongKeeps ==
  ASSUME NEW S, NEW names \in Seq(S), NEW set
  PROVE  /\ Range(Among(names, set)) = Range(names) \cap set
         /\ IsInjective(names) => IsInjective(Among(names, set))
         /\ Among(names, set) \in Seq(S)
<1> DEFINE n == Len(names)
           I == [i \in 0..n |->
                  {s \in Seq(S) : /\ Range(s) = {names[j] : j \in 1..i} \cap set
                                  /\ IsInjective(names) => IsInjective(s)}]
<1>p. Picks(S, names, set) # {}
  BY AmongRecursion
<1>1. PICK f \in [0..n -> Seq(S)] :
        /\ f[0] = <<>> /\ Among(names, set) = f[n]
        /\ \A i \in 1..n : f[i] = IF names[i] \in set THEN Append(f[i - 1], names[i]) ELSE f[i - 1]
  BY <1>p DEF Picks
<1>2. n \in Nat /\ DOMAIN names = 1..n /\ \A i \in 1..n : names[i] \in S
  OBVIOUS
<1> HIDE DEF n
<1>3. f[0] \in I[0]
  <2>1. Range(<<>>) = {} /\ {names[j] : j \in 1..0} = {} /\ IsInjective(<<>>) /\ <<>> \in Seq(S)
    BY DEF Range, IsInjective
  <2>2. 0 \in 0..n
    BY <1>2
  <2> QED
    BY <1>1, <2>1, <2>2
<1>4. ASSUME NEW i \in 1..n, f[i - 1] \in I[i - 1] PROVE f[i] \in I[i]
  <2> DEFINE s == f[i - 1]
  <2>1. i - 1 \in 0..n /\ i \in 0..n
    BY <1>2
  <2>2. /\ s \in Seq(S) /\ Range(s) = {names[j] : j \in 1..(i - 1)} \cap set
        /\ IsInjective(names) => IsInjective(s)
    BY <1>4, <2>1
  <2>3. {names[j] : j \in 1..i} = {names[j] : j \in 1..(i - 1)} \cup {names[i]}
    <3>1. \A j : j \in 1..i <=> (j \in 1..(i - 1) \/ j = i)
      BY <1>2
    <3> QED
      BY <3>1
  <2> HIDE DEF s, I
  <2>4. CASE names[i] \in set
    <3>1. f[i] = Append(s, names[i])
      BY <1>1, <2>4 DEF s
    <3>2. Range(Append(s, names[i])) = Range(s) \cup {names[i]} /\ Append(s, names[i]) \in Seq(S)
      BY <1>2, <2>2, AppendKeeps
    <3>3. ASSUME IsInjective(names) PROVE IsInjective(Append(s, names[i]))
      <4>1. \A j \in 1..(i - 1) : j \in 1..n /\ j # i
        BY <1>2
      <4>2. \A j \in 1..(i - 1) : names[j] # names[i]
        BY <1>2, <3>3, <4>1 DEF IsInjective
      <4>3. names[i] \notin Range(s)
        BY <2>2, <4>2
      <4> QED
        BY <1>2, <2>2, <3>3, <4>3, AppendKeeps
    <3>4. Range(f[i]) = {names[j] : j \in 1..i} \cap set
      BY <2>2, <2>3, <2>4, <3>1, <3>2
    <3> QED
      BY <2>1, <3>1, <3>2, <3>3, <3>4 DEF I
  <2>5. CASE names[i] \notin set
    <3>1. f[i] = s
      BY <1>1, <2>5 DEF s
    <3> QED
      BY <2>1, <2>2, <2>3, <2>5, <3>1 DEF I
  <2> QED
    BY <2>4, <2>5
<1>5. f[n] \in I[n]
  <2> HIDE DEF I
  <2>1. \A i \in 1..n : f[i - 1] \in I[i - 1] => f[i] \in I[i]
    BY <1>4
  <2>2. \A i \in 0..n : f[i] \in I[i]
    BY <1>2, <1>3, <2>1, Along
  <2> QED
    BY <1>2, <2>2
<1>6. Range(names) = {names[j] : j \in 1..n}
  BY <1>2 DEF Range
<1>7. n \in 0..n
  BY <1>2
<1> QED
  BY <1>1, <1>5, <1>6, <1>7
-----------------------------------------------------------------------------
(* What a limiter says of the items it has seen *)

\* The limiter has not reached its probe while there are no more items than asked for.
LEMMA ObserveItemTells ==
  ASSUME NEW b, b.max_bytes \in Nat, b.max_items \in Nat, NEW l \in LimiterType, NEW bytes \in Nat,
         ~ObserveItem(l, b, bytes).failed, ~ObserveItem(l, b, bytes).truncated
  PROVE  ObserveItem(l, b, bytes).observed <= b.max_items
<1> DEFINE next == ObserveItem(l, b, bytes)
<1>1. CASE l.truncated \/ ~Measured(bytes, b.max_bytes - l.bytes)
  <2>1. next = Refused(l)
    BY <1>1 DEF ObserveItem
  <2>2. next.failed
    BY <2>1 DEF Refused, LimiterType
  <2> QED
    BY <2>2
<1>2. CASE ~(l.truncated \/ ~Measured(bytes, b.max_bytes - l.bytes))
  <2> DEFINE full == ~(l.observed < b.max_items)
             probe == IF l.observed < b.max_items THEN 0 ELSE bytes
  <2>1. next = [l EXCEPT !.observed = @ + 1, !.bytes = @ + bytes,
                         !.truncated = full, !.probe = probe]
    BY <1>2 DEF ObserveItem
  <2> HIDE DEF next, full, probe
  <2>2. next.truncated = full /\ next.observed = l.observed + 1 /\ l.observed \in Nat
    BY <2>1 DEF LimiterType
  <2>3. ~next.truncated
    BY DEF next
  <2>4. l.observed < b.max_items
    BY <2>2, <2>3, Zenon DEF full
  <2>5. next.observed <= b.max_items
    BY <2>2, <2>4
  <2> QED
    BY <2>5 DEF next
<1> QED
  BY <1>1, <1>2

\* One name of a page is taken in, unless it was before, or the read has ended.
TakeIn(r, name) ==
  IF \/ r.tally.failed \/ r.tally.truncated \/ name \in Range(r.kept) THEN r
  ELSE [tally |-> ObserveItem(r.tally, budget, SizeOf[name]),
        kept |-> IF \/ ObserveItem(r.tally, budget, SizeOf[name]).failed
                    \/ ObserveItem(r.tally, budget, SizeOf[name]).truncated
                 THEN r.kept ELSE Append(r.kept, name)]

Observations(page) ==
  {f \in [0..Len(page) -> Takes(budget)] :
     /\ f[0] = [tally |-> tally, kept |-> kept] /\ Observed(page) = f[Len(page)]
     /\ \A i \in 1..Len(page) : f[i] = TakeIn(f[i - 1], page[i])}

\* What has been taken in of a page, name by name.
LEMMA ObservedRecursion ==
  ASSUME budget.max_bytes \in Nat, budget.max_items \in Nat, Within(tally, budget),
         tally.truncated /\ ~tally.failed => tally.observed > budget.max_items,
         kept \in Seq(Names), NEW page \in Seq(Names)
  PROVE  Observations(page) # {}
<1> DEFINE n == Len(page)
           V == Takes(budget)
           after(i, r) == ObserveItem(r.tally, budget, SizeOf[page[i]])
           next(i, r) == IF \/ r.tally.failed \/ r.tally.truncated
                            \/ page[i] \in Range(r.kept)
                         THEN r
                         ELSE [tally |-> after(i, r),
                               kept |-> IF after(i, r).failed \/ after(i, r).truncated
                                        THEN r.kept ELSE Append(r.kept, page[i])]
           base == [tally |-> tally, kept |-> kept]
           E(f) == [i \in 0..n |->
                     IF i = 0 THEN [tally |-> tally, kept |-> kept]
                     ELSE IF \/ f[i - 1].tally.failed \/ f[i - 1].tally.truncated
                             \/ page[i] \in Range(f[i - 1].kept)
                          THEN f[i - 1]
                          ELSE [tally |-> ObserveItem(f[i - 1].tally, budget, SizeOf[page[i]]),
                                kept |-> IF \/ ObserveItem(f[i - 1].tally, budget, SizeOf[page[i]]).failed
                                            \/ ObserveItem(f[i - 1].tally, budget, SizeOf[page[i]]).truncated
                                         THEN f[i - 1].kept ELSE Append(f[i - 1].kept, page[i])]]
           F == CHOOSE f : f = E(f)
<1>1. Observed(page) = F[n]
  BY DEF Observed
<1>2. n \in Nat /\ \A i \in 1..n : page[i] \in Names /\ SizeOf[page[i]] \in Nat
  BY BoundedReadAssumption
<1>3. base \in V
  BY DEF Within, Takes
<1> HIDE DEF n
\* One more name.
<1>4. ASSUME NEW i \in 1..n, NEW r \in V PROVE next(i, r) \in V
  <2>1. /\ r \in [tally : LimiterType, kept : Seq(Names)] /\ Within(r.tally, budget)
        /\ r.tally.truncated /\ ~r.tally.failed => r.tally.observed > budget.max_items
    BY DEF Takes
  <2>2. CASE \/ r.tally.failed \/ r.tally.truncated \/ page[i] \in Range(r.kept)
    BY <2>2
  <2>3. CASE ~(\/ r.tally.failed \/ r.tally.truncated \/ page[i] \in Range(r.kept))
    <3> DEFINE m == after(i, r)
               k == IF m.failed \/ m.truncated THEN r.kept ELSE Append(r.kept, page[i])
    <3>1. next(i, r) = [tally |-> m, kept |-> k]
      BY <2>3
    <3>2. SizeOf[page[i]] \in Nat
      BY <1>2
    <3>3. Within(m, budget) /\ (m.truncated /\ ~m.failed => m.observed > budget.max_items)
      BY <2>1, <3>2, ObserveItemFits
    <3> HIDE DEF m, next
    <3>4. m \in LimiterType
      BY <3>3 DEF Within
    <3>5. k \in Seq(Names)
      BY <1>2, <2>1
    <3> HIDE DEF k
    <3> QED
      BY <3>1, <3>3, <3>4, <3>5 DEF Takes
  <2> QED
    BY <2>2, <2>3
<1>5. \A i \in 1..n : \A r \in V : next(i, r) \in V
  BY <1>4
<1>6. \A i \in 1..n : i \in 0..n /\ i # 0 /\ i - 1 \in 0..n
  BY <1>2
<1> HIDE DEF V, base
<1>7. \E f : f = E(f)
  <2> DEFINE step == [i \in 1..n |-> [r \in V |-> next(i, r)]]
  <2>1. step \in [1..n -> [V -> V]]
    BY <1>5
  <2>2. \A i \in 1..n : \A r \in V : step[i][r] = next(i, r)
    OBVIOUS
  <2> HIDE DEF step, next
  <2>3. Solutions(n, V, base, step) # {}
    BY <1>2, <1>3, <2>1, Recursion
  <2>4. PICK f \in [0..n -> V] : f[0] = base /\ \A i \in 1..n : f[i] = step[i][f[i - 1]]
    BY <2>3 DEF Solutions
  <2>5. \A i \in 1..n : f[i] = next(i, f[i - 1])
    BY <1>6, <2>2, <2>4
  <2>6. ASSUME NEW i \in 0..n PROVE f[i] = E(f)[i]
    <3>1. CASE i = 0
      BY <2>4, <3>1 DEF base
    <3>2. CASE i # 0
      <4>1. i \in 1..n
        BY <1>2, <3>2
      <4>2. f[i] = next(i, f[i - 1])
        BY <2>5, <4>1
      <4> QED
        BY <3>2, <4>2, Zenon DEF next
    <3> QED
      BY <3>1, <3>2
  <2>7. f = [i \in 0..n |-> f[i]]
    BY <2>4
  <2>8. [i \in 0..n |-> f[i]] = E(f)
    BY <2>6, Zenon
  <2> QED
    BY <2>7, <2>8
<1>8. F = E(F)
  BY <1>7
<1> HIDE DEF F
<1>9. F[0] = base /\ \A i \in 1..n : F[i] = next(i, F[i - 1])
  <2>1. ASSUME NEW i \in 0..n PROVE F[i] = E(F)[i]
    BY <1>8, Zenon
  <2>2. 0 \in 0..n
    BY <1>2
  <2>3. F[0] = base
    BY <2>1, <2>2 DEF base
  <2>4. ASSUME NEW i \in 1..n PROVE F[i] = next(i, F[i - 1])
    BY <1>6, <2>1, Zenon
  <2> QED
    BY <2>3, <2>4
<1> HIDE DEF next
<1>10. \A i \in 0..n : F[i] \in V
  <2> DEFINE I == [i \in 0..n |-> V]
  <2>1. \A i \in 1..n : F[i - 1] \in I[i - 1] => F[i] \in I[i]
    BY <1>5, <1>6, <1>9
  <2>2. F[0] \in I[0]
    BY <1>2, <1>3, <1>9
  <2>3. \A i \in 0..n : F[i] \in I[i]
    <3> HIDE DEF I
    <3> QED
      BY <1>2, <2>1, <2>2, Along
  <2> QED
    BY <2>3
<1>11. F \in [0..n -> V]
  <2>1. F = [i \in 0..n |-> F[i]]
    BY <1>8
  <2> QED
    BY <1>10, <2>1
<1>12. \A i \in 1..n : F[i] = TakeIn(F[i - 1], page[i])
  BY <1>9, Zenon DEF next, TakeIn
<1> QED
  BY <1>1, <1>9, <1>11, <1>12 DEF V, n, base, Observations

\* What has been taken in of the first i names of a page: the ones kept are different
\* and come from the page; without a probe all are among them, and with one there is
\* one more.
Names1(page, i) == {page[j] : j \in 1..i}
New(page)       == IsInjective(page) /\ Range(page) \cap Range(kept) = {}
AsMany(a, b, c, d) == a + c = d + b
Gathered(page, i) ==
  {r \in Takes(budget) : ~r.tally.failed =>
     /\ IsInjective(r.kept) /\ Range(kept) \subseteq Range(r.kept)
     /\ Range(r.kept) \subseteq Range(kept) \cup Names1(page, i)
     /\ r.tally.truncated => Names1(page, i) \ Range(r.kept) # {}
     /\ ~r.tally.truncated =>
          /\ Names1(page, i) \subseteq Range(r.kept)
          /\ AsMany(r.tally.observed, Len(r.kept), Len(kept), tally.observed)
          /\ tally.observed <= budget.max_items => r.tally.observed <= budget.max_items
          /\ New(page) => Len(r.kept) = Len(kept) + i}

\* One more was observed, and one more is behind it.
LEMMA OneMore ==
  ASSUME NEW a \in Nat, NEW b \in Nat, NEW c, NEW d, c \in Nat, d \in Nat, AsMany(a, b, c, d)
  PROVE  AsMany(a + 1, b + 1, c, d)
BY DEF AsMany

\* The next name of a page is taken in.
LEMMA TakeInGathers ==
  ASSUME budget.max_bytes \in Nat, budget.max_items \in Nat,
         NEW page \in Seq(Names), NEW i \in 1..Len(page), NEW r \in Gathered(page, i - 1),
         tally.observed \in Nat, kept \in Seq(Names), TakeIn(r, page[i]) \in Takes(budget)
  PROVE  TakeIn(r, page[i]) \in Gathered(page, i)
<1> DEFINE x == page[i]
           q == TakeIn(r, x)
           m == ObserveItem(r.tally, budget, SizeOf[x])
<1>1. /\ r \in Takes(budget) /\ r.tally \in LimiterType /\ r.kept \in Seq(Names)
      /\ Within(r.tally, budget)
      /\ r.tally.truncated /\ ~r.tally.failed => r.tally.observed > budget.max_items
      /\ r.tally.observed \in Nat
  BY DEF Gathered, Takes, LimiterType
<1>2. x \in Names /\ SizeOf[x] \in Nat /\ i \in Nat \ {0} /\ Len(page) \in Nat /\ DOMAIN page = 1..Len(page)
  BY BoundedReadAssumption
<1>3. Names1(page, i) = Names1(page, i - 1) \cup {x}
  <2>1. \A j : j \in 1..i <=> (j \in 1..(i - 1) \/ j = i)
    BY <1>2
  <2> QED
    BY <2>1 DEF Names1
<1>4. q \in Takes(budget)
  OBVIOUS
<1> HIDE DEF x, q
<1>5. CASE r.tally.failed
  <2>1. q = r
    BY <1>5 DEF TakeIn, q
  <2> QED
    BY <1>1, <1>5, <2>1 DEF Gathered, q, x
<1>6. CASE ~r.tally.failed
  <2>1. /\ IsInjective(r.kept) /\ Range(kept) \subseteq Range(r.kept)
        /\ Range(r.kept) \subseteq Range(kept) \cup Names1(page, i - 1)
        /\ r.tally.truncated => Names1(page, i - 1) \ Range(r.kept) # {}
        /\ ~r.tally.truncated =>
             /\ Names1(page, i - 1) \subseteq Range(r.kept)
             /\ AsMany(r.tally.observed, Len(r.kept), Len(kept), tally.observed)
             /\ tally.observed <= budget.max_items => r.tally.observed <= budget.max_items
             /\ New(page) => Len(r.kept) = Len(kept) + (i - 1)
    BY <1>6 DEF Gathered
  <2>2. ASSUME New(page) PROVE x \notin Range(r.kept)
    <3>1. \A j \in 1..(i - 1) : j \in DOMAIN page /\ i \in DOMAIN page /\ j # i
      BY <1>2
    <3>2. x \notin Names1(page, i - 1)
      BY <2>2, <3>1 DEF Names1, New, IsInjective, x
    <3>3. x \in Range(page)
      BY <1>2 DEF Range, x
    <3> QED
      BY <2>1, <2>2, <3>2, <3>3 DEF New
  <2>3. CASE r.tally.truncated
    <3>1. q = r
      BY <2>3 DEF TakeIn, q
    <3>2. r \in Gathered(page, i)
      BY <1>1, <1>3, <1>6, <2>1, <2>3 DEF Gathered
    <3> QED
      BY <3>1, <3>2 DEF q, x
  <2>4. CASE ~r.tally.truncated /\ x \in Range(r.kept)
    <3>1. q = r
      BY <2>4 DEF TakeIn, q
    <3>2. ~New(page)
      BY <2>2, <2>4
    <3>3. r \in Gathered(page, i)
      BY <1>1, <1>3, <1>6, <2>1, <2>4, <3>2 DEF Gathered
    <3> QED
      BY <3>1, <3>3 DEF q, x
  <2>5. CASE ~r.tally.truncated /\ x \notin Range(r.kept)
    <3> DEFINE k == IF m.failed \/ m.truncated THEN r.kept ELSE Append(r.kept, x)
    <3>1. q = [tally |-> m, kept |-> k]
      BY <1>6, <2>5 DEF TakeIn, q
    <3>2. /\ Within(m, budget)
          /\ ~m.failed => m.observed = r.tally.observed + 1
      BY <1>1, <1>2, ObserveItemFits
    <3>3. ~m.failed /\ ~m.truncated => m.observed <= budget.max_items
      BY <1>1, <1>2, ObserveItemTells
    <3> HIDE DEF m
    <3>4. CASE m.failed
      BY <1>4, <3>1, <3>4 DEF Gathered, q, x
    <3>5. CASE ~m.failed /\ m.truncated
      <4>1. k = r.kept
        BY <3>5
      <4>2. Names1(page, i) \ Range(r.kept) # {}
        BY <1>3, <2>5
      <4>3. q.kept = r.kept /\ q.tally = m
        BY <3>1, <4>1
      <4>4. Range(r.kept) \subseteq Range(kept) \cup Names1(page, i)
        BY <1>3, <2>1
      <4>5. q \in Gathered(page, i)
        BY <1>4, <2>1, <3>5, <4>2, <4>3, <4>4 DEF Gathered
      <4> QED
        BY <4>5 DEF q, x
    <3>6. CASE ~m.failed /\ ~m.truncated
      <4>1. k = Append(r.kept, x)
        BY <3>6
      <4>2. /\ Range(k) = Range(r.kept) \cup {x} /\ IsInjective(k) /\ Len(k) = Len(r.kept) + 1
            /\ Len(r.kept) \in Nat
        BY <1>1, <1>2, <2>1, <2>5, <4>1, AppendKeeps
      <4> HIDE DEF k
      <4>3. q.kept = k /\ q.tally = m
        BY <3>1
      <4>4. m.observed \in Nat /\ m.observed = r.tally.observed + 1
        BY <1>1, <3>2, <3>6
      <4>5. AsMany(m.observed, Len(k), Len(kept), tally.observed)
        <5>1. Len(kept) \in Nat /\ AsMany(r.tally.observed, Len(r.kept), Len(kept), tally.observed)
          BY <2>1, <2>5
        <5>2. AsMany(r.tally.observed + 1, Len(r.kept) + 1, Len(kept), tally.observed)
          BY <1>1, <4>2, <5>1, OneMore
        <5> QED
          BY <4>2, <4>4, <5>2
      <4>6. New(page) => Len(k) = Len(kept) + i
        <5>1. Len(kept) \in Nat
          OBVIOUS
        <5> QED
          BY <1>2, <2>1, <2>5, <4>2, <5>1
      <4>7. /\ Range(kept) \subseteq Range(k) /\ Range(k) \subseteq Range(kept) \cup Names1(page, i)
            /\ Names1(page, i) \subseteq Range(k)
        BY <1>3, <2>1, <2>5, <4>2
      <4>a. tally.observed <= budget.max_items => m.observed <= budget.max_items
        BY <3>3, <3>6
      <4>b. /\ ~q.tally.truncated /\ IsInjective(q.kept)
            /\ AsMany(q.tally.observed, Len(q.kept), Len(kept), tally.observed)
            /\ tally.observed <= budget.max_items => q.tally.observed <= budget.max_items
            /\ New(page) => Len(q.kept) = Len(kept) + i
            /\ Range(kept) \subseteq Range(q.kept)
            /\ Range(q.kept) \subseteq Range(kept) \cup Names1(page, i)
            /\ Names1(page, i) \subseteq Range(q.kept)
        BY <3>6, <4>2, <4>3, <4>5, <4>6, <4>7, <4>a
      <4>8. q \in Gathered(page, i)
        BY <1>4, <4>b DEF Gathered
      <4> QED
        BY <4>8 DEF q, x
    <3> QED
      BY <3>4, <3>5, <3>6
  <2> QED
    BY <2>3, <2>4, <2>5
<1> QED
  BY <1>5, <1>6

\* A whole page is taken in.
LEMMA ObservedGathers ==
  ASSUME budget.max_bytes \in Nat, budget.max_items \in Nat, Within(tally, budget),
         ~tally.truncated, ~tally.failed, kept \in Seq(Names), IsInjective(kept),
         NEW page \in Seq(Names)
  PROVE  Observed(page) \in Gathered(page, Len(page)) /\ Names1(page, Len(page)) = Range(page)
<1> DEFINE n == Len(page)
           I == [i \in 0..n |-> Gathered(page, i)]
<1>1. Observations(page) # {}
  BY ObservedRecursion
<1>2. PICK f \in [0..n -> Takes(budget)] :
        /\ f[0] = [tally |-> tally, kept |-> kept] /\ Observed(page) = f[n]
        /\ \A i \in 1..n : f[i] = TakeIn(f[i - 1], page[i])
  BY <1>1 DEF Observations
<1>3. n \in Nat /\ DOMAIN page = 1..n /\ tally.observed \in Nat
  BY DEF Within, LimiterType
<1>4. f[0] \in Gathered(page, 0)
  <2>1. f[0].tally = tally /\ f[0].kept = kept /\ f[0] \in Takes(budget)
    BY <1>2, <1>3
  <2>2. Names1(page, 0) = {}
    BY DEF Names1
  <2>3. /\ Len(kept) \in Nat /\ Len(kept) = Len(kept) + 0
        /\ AsMany(tally.observed, Len(kept), Len(kept), tally.observed)
    BY <1>3 DEF AsMany
  <2> QED
    BY <2>1, <2>2, <2>3 DEF Gathered
<1>5. ASSUME NEW i \in 1..n, f[i - 1] \in Gathered(page, i - 1) PROVE f[i] \in Gathered(page, i)
  <2>1. f[i] \in Takes(budget) /\ f[i] = TakeIn(f[i - 1], page[i])
    BY <1>2, <1>3
  <2> QED
    BY <1>3, <1>5, <2>1, TakeInGathers
<1>6. \A i \in 0..n : I[i] = Gathered(page, i)
  OBVIOUS
<1>7. \A i \in 1..n : f[i - 1] \in I[i - 1] => f[i] \in I[i]
  <2>1. \A i \in 1..n : i \in 0..n /\ i - 1 \in 0..n
    BY <1>3
  <2> HIDE DEF I
  <2> QED
    BY <1>5, <1>6, <2>1
<1>8. f[0] \in I[0] /\ 0 \in 0..n /\ n \in 0..n
  BY <1>3, <1>4
<1> HIDE DEF I, n
<1>9. \A i \in 0..n : f[i] \in I[i]
  BY <1>3, <1>7, <1>8, Along
<1>10. Observed(page) \in Gathered(page, n)
  BY <1>2, <1>6, <1>8, <1>9
<1>11. Names1(page, n) = Range(page)
  BY <1>3 DEF Names1, Range
<1> QED
  BY <1>10, <1>11 DEF n
-----------------------------------------------------------------------------
(* The invariant of what was there *)

Both(s, t) == IsInjective(s) /\ IsInjective(t) /\ Range(s) \cap Range(t) = {}

MethodInv ==
  /\ how.hides => how.by \in {"rows", "stream_lag", "partition_lag", "group_lag"}
  /\ how.live => how.by = "rows"
  /\ how.whole => how.by \in {"group_lag", "partition_lag", "detail", "watermarks"}
  /\ phase \in Working \cup {"closing"} =>
       IF how.whole THEN budget = Boundless ELSE ProbeLimit(budget.max_items)

HistoryInv ==
  /\ IsInjective(listing) /\ always \subseteq Range(listing) /\ Range(listing) \subseteq ever
  /\ ever \subseteq Names /\ shrunk \in BOOLEAN
  /\ phase = "idle" => /\ unread = <<>> /\ kept = <<>> /\ returned = {} /\ cursors = {}
                       /\ listing = <<>> /\ shrunk = FALSE

\* What is read one by one: what was not read is still to come.
StreamInv ==
  how.by \in {"rows", "watermarks", "schema"} /\ phase \in {"reading", "closing"} =>
    /\ Both(kept, unread) /\ Range(kept) \subseteq Visible(ever) /\ Range(unread) \subseteq ever
    /\ phase = "reading" =>
         ~tally.truncated /\ ~tally.failed /\ Visible(always) \subseteq Range(kept) \cup Range(unread)
    /\ phase = "closing" /\ ~tally.failed =>
         IF tally.truncated THEN ever \ Range(kept) # {} ELSE Visible(always) \subseteq Range(kept)

ScanInv ==
  phase = "reading" /\ how.by \in Scans \cup {"queues", "streams", "group_lag"} =>
    /\ IsInjective(kept) /\ Range(kept) \subseteq ever
    /\ ~tally.truncated /\ ~tally.failed
    /\ how.by \in Scans \cup {"group_lag"} => returned \subseteq Range(kept)
    /\ how.by = "group_lag" => Len(kept) < WorkProbe

\* What stands in front of a place has been seen, unless something was removed.
SeenTo(place, seen) ==
  ~shrunk => \A i \in DOMAIN listing : i <= place /\ listing[i] \in always => listing[i] \in seen

Place == IF how.by = "queues" THEN (cursor - 1) * PageSize ELSE cursor

PageInv ==
  /\ phase = "reading" /\ how.by \in {"queues", "streams"} =>
       /\ SeenTo(Place, Range(kept))
       /\ tally.observed = Len(kept) /\ Len(kept) <= budget.max_items
  /\ phase = "reading" /\ how.by = "stream_lag" =>
       /\ SeenTo(Place, returned)
       /\ IsInjective(kept) /\ Range(kept) \subseteq Visible(ever) \cap returned
       /\ Visible(returned) \subseteq Range(kept) /\ returned \subseteq ever

ExportInv ==
  phase = "exporting" =>
    /\ Both(kept, unread) /\ Range(kept) \cup Range(unread) \subseteq Range(result.items)
    /\ Len(kept) + Len(unread) <= Len(result.items)
    /\ Len(kept) + Len(unread) = Len(result.items) =>
         Range(result.items) \subseteq Range(kept) \cup Range(unread)

InspectInv ==
  phase = "inspecting" =>
    /\ Both(kept, unread) /\ Range(unread) \subseteq ever /\ Range(kept) \subseteq Visible(ever)
    /\ cursor <= budget.max_items
    /\ \/ Visible(always) \subseteq Range(kept) \cup Range(unread)
       \/ cursor + Len(unread) > budget.max_items

CountInv ==
  /\ cursors \subseteq 0..(MaxCursor + Cardinality(Names)) /\ returned \subseteq Names
  /\ edits \in 0..MaxEdits

HInv == /\ MethodInv /\ HistoryInv /\ StreamInv /\ ScanInv /\ PageInv /\ ExportInv /\ InspectInv
        /\ CountInv /\ TruncationIsHonest
-----------------------------------------------------------------------------
(* What an answer says *)

\* A method goes on with what it was asked for, and the server has what it had.
Goes == UNCHANGED <<how, budget, listing, always, ever, shrunk, edits>>

\* Answers without a list say nothing.
LEMMA SilentAnswers ==
  ASSUME result'.kind \notin {"List", "Exact", "Artifact", "Table"}
  PROVE  TruncationIsHonest'
BY DEF TruncationIsHonest

\* What a list says.
LEMMA ListTells ==
  ASSUME Goes, result'.kind \in {"List", "Exact", "Artifact"},
         IsInjective(result'.items), Range(result'.items) \subseteq Visible(ever),
         ~result'.truncated => \/ Visible(always) \subseteq Range(result'.items)
                               \/ how.by \in Pages /\ shrunk,
         result'.kind = "List" /\ result'.truncated =>
           Len(result'.items) = budget.max_items /\ ever \ Range(result'.items) # {}
  PROVE  TruncationIsHonest'
<1>1. Visible(ever)' = Visible(ever) /\ Visible(always)' = Visible(always)
  BY DEF Goes, Visible
<1> QED
  BY <1>1 DEF TruncationIsHonest, Goes

\* ReadLimiter::finish with a list that was read to its end or to its probe.
LEMMA FinishedTells ==
  ASSUME Goes, NEW l \in LimiterType, budget.max_items \in Nat, NEW names \in Seq(Names),
         l.truncated /\ ~l.failed => l.observed > budget.max_items,
         result' = Finished(l, names),
         ~l.failed => /\ IsInjective(names) /\ Range(names) \subseteq Visible(ever)
                      /\ ~l.truncated => \/ Visible(always) \subseteq Range(names)
                                         \/ how.by \in Pages /\ shrunk
                      /\ l.truncated => ever \ Range(names) # {}
  PROVE  TruncationIsHonest'
<1>1. CASE ~Finishes(l, budget, Rows(names))
  <2>1. result'.kind = "Failed"
    BY <1>1 DEF Finished, Failed, NoResult
  <2> QED
    BY <2>1, SilentAnswers
<1>2. CASE Finishes(l, budget, Rows(names))
  <2>1. /\ result'.kind = "List" /\ result'.items = names /\ result'.truncated = l.truncated
    BY <1>2 DEF Finished
  <2>2. ~l.failed /\ Len(Rows(names)) = IF l.observed < budget.max_items THEN l.observed ELSE budget.max_items
    BY <1>2 DEF Finishes
  <2>3. Len(Rows(names)) = Len(names) /\ l.observed \in Nat
    BY RowsType DEF LimiterType
  <2>4. l.truncated => Len(names) = budget.max_items
    <3>1. l.truncated => l.observed > budget.max_items
      BY <2>2
    <3>2. l.observed > budget.max_items => ~(l.observed < budget.max_items)
      BY <2>3
    <3> QED
      BY <2>2, <2>3, <3>1, <3>2
  <2> QED
    BY <2>1, <2>2, <2>4, ListTells
<1> QED
  BY <1>1, <1>2

\* An answer that is shown as a whole.
LEMMA ExactTells ==
  ASSUME Goes, NEW names, result' = Exact(names),
         IsInjective(names), Range(names) \subseteq Visible(ever),
         Visible(always) \subseteq Range(names) \/ (how.by \in Pages /\ shrunk)
  PROVE  TruncationIsHonest'
<1>1. result'.kind = "Exact" /\ result'.items = names /\ ~result'.truncated
  BY DEF Exact
<1> QED
  BY <1>1, ListTells

\* An error says nothing of what is there.
LEMMA FailedTells ==
  ASSUME result' \in {Failed, Dropped}
  PROVE  TruncationIsHonest'
<1>1. result'.kind \in {"Failed", "Dropped"}
  BY DEF Failed, Dropped, NoResult
<1> QED
  BY <1>1, SilentAnswers

\* The parts that a step does not touch.
LEMMA GoesOn ==
  ASSUME IInv, HInv, Goes, phase \in Working \cup {"closing"}, phase' \in Working \cup {"closing", "over"}
  PROVE  MethodInv' /\ HistoryInv'
<1>1. phase # "idle" /\ phase' # "idle"
  BY DEF Working
<1>2. HistoryInv'
  BY <1>1 DEF HInv, HistoryInv, Goes
<1>3. MethodInv'
  BY DEF HInv, MethodInv, Goes
<1> QED
  BY <1>2, <1>3

\* A read that is over has only its answer to keep.
LEMMA OverTells ==
  ASSUME IInv, HInv, Goes, phase \in Working \cup {"closing"}, phase' = "over",
         UNCHANGED <<cursors, returned>>, TruncationIsHonest'
  PROVE  HInv'
<1>1. MethodInv' /\ HistoryInv'
  BY GoesOn
<1>2. StreamInv' /\ ScanInv' /\ PageInv' /\ ExportInv' /\ InspectInv'
  BY DEF StreamInv, ScanInv, PageInv, ExportInv, InspectInv
<1>3. CountInv'
  BY DEF HInv, CountInv, Goes
<1> QED
  BY <1>1, <1>2, <1>3 DEF HInv

\* A method that is over with its answer.
LEMMA EndsTells ==
  ASSUME IInv, HInv, phase \in Working, NEW answer, EndWith(answer), Goes => TruncationIsHonest'
  PROVE  HInv'
<1>1. Goes /\ UNCHANGED <<cursors, returned>> /\ phase' = "over"
  BY DEF EndWith, Goes, asked_for, history, traversal
<1> QED
  BY <1>1, OverTells
-----------------------------------------------------------------------------
(* The beginning, and what stops a read *)

LEMMA InitTells ==
  ASSUME ReadInit
  PROVE  HInv
<1>1. /\ how = By("catalog") /\ phase = "idle" /\ listing = <<>> /\ unread = <<>> /\ kept = <<>>
      /\ cursors = {} /\ returned = {} /\ always = {} /\ ever = {} /\ shrunk = FALSE /\ edits = 0
      /\ result = NoResult
  BY DEF ReadInit
<1>2. how.by = "catalog" /\ how.hides = FALSE /\ how.live = FALSE /\ how.whole = FALSE
  BY <1>1 DEF By
<1>3. result.kind = "none"
  BY <1>1 DEF NoResult
<1>4. MethodInv
  BY <1>1, <1>2 DEF MethodInv, Working
<1>5. HistoryInv
  <2>1. Range(listing) = {} /\ IsInjective(listing)
    BY <1>1 DEF Range, IsInjective
  <2> QED
    BY <1>1, <2>1 DEF HistoryInv
<1>6. StreamInv /\ ScanInv /\ PageInv /\ ExportInv /\ InspectInv
  BY <1>1 DEF StreamInv, ScanInv, PageInv, ExportInv, InspectInv
<1>7. CountInv
  BY <1>1, BoundedReadAssumption DEF CountInv
<1>8. TruncationIsHonest
  BY <1>3 DEF TruncationIsHonest
<1> QED
  BY <1>4, <1>5, <1>6, <1>7, <1>8 DEF HInv

LEMMA StutterTells ==
  ASSUME HInv, UNCHANGED readVars
  PROVE  HInv'
<1>1. /\ how' = how /\ budget' = budget /\ phase' = phase /\ listing' = listing /\ unread' = unread
      /\ tally' = tally /\ kept' = kept /\ cursor' = cursor /\ cursors' = cursors
      /\ returned' = returned /\ always' = always /\ ever' = ever /\ shrunk' = shrunk
      /\ edits' = edits /\ series' = series /\ table' = table /\ result' = result
  BY DEF readVars
<1>2. MethodInv' /\ HistoryInv' /\ CountInv'
  BY <1>1 DEF HInv, MethodInv, HistoryInv, CountInv
<1>v. Visible(ever)' = Visible(ever) /\ Visible(always)' = Visible(always)
      /\ Visible(returned)' = Visible(returned)
  BY <1>1 DEF Visible
<1>3. StreamInv' /\ InspectInv'
  BY <1>1, <1>v DEF HInv, StreamInv, InspectInv
<1>4. ScanInv' /\ ExportInv'
  BY <1>1 DEF HInv, ScanInv, ExportInv, WorkProbe
<1>5. PageInv'
  BY <1>1, <1>v DEF HInv, PageInv, SeenTo, Place, PageSize
<1>6. TruncationIsHonest'
  BY <1>1, <1>v DEF HInv, TruncationIsHonest
<1> QED
  BY <1>2, <1>3, <1>4, <1>5, <1>6 DEF HInv

LEMMA ReadFailsTells ==
  ASSUME IInv, HInv, ReadFails
  PROVE  HInv'
<1>1. phase \in Working /\ EndWith(Failed) /\ result' = Failed
  BY DEF ReadFails, EndWith
<1> QED
  BY <1>1, FailedTells, EndsTells

LEMMA ReadDroppedTells ==
  ASSUME IInv, HInv, ReadDropped
  PROVE  HInv'
<1>1. /\ phase \in Working \cup {"closing"} /\ phase' = "over" /\ result' = Dropped
      /\ Goes /\ UNCHANGED <<cursors, returned>>
  BY DEF ReadDropped, Goes, asked_for, history, traversal
<1> QED
  BY <1>1, FailedTells, OverTells
-----------------------------------------------------------------------------
(* Rows and watermarks, one by one *)

LEMMA FetchFailsTells ==
  ASSUME IInv, HInv, FetchFails
  PROVE  HInv'
<1>1. /\ phase \in Working \cup {"closing"} /\ phase' = "over" /\ result' = Failed
      /\ Goes /\ UNCHANGED <<cursors, returned>>
  BY DEF FetchFails, Goes, asked_for, history, traversal, Working
<1> QED
  BY <1>1, FailedTells, OverTells

\* The names of the columns are no items.
LEMMA ChargedTells ==
  ASSUME IInv, phase \in Working \cup {"closing"}
  PROVE  /\ Charged(tally).truncated = tally.truncated
         /\ tally.failed => Charged(tally).failed
<1>1. tally \in LimiterType
  BY AtWork
<1>2. CASE Charged(tally) = tally
  BY <1>2
<1>3. CASE Charged(tally) = [tally EXCEPT !.bytes = @ + Overhead]
  BY <1>1, <1>3 DEF LimiterType
<1>4. CASE Charged(tally) = Refused(tally)
  BY <1>1, <1>4 DEF LimiterType, Refused
<1> QED
  BY <1>2, <1>3, <1>4 DEF Charged, ObserveHeader

\* After the last row nothing is left to come.
LEMMA FetchEndsTells ==
  ASSUME IInv, HInv, FetchEnds
  PROVE  HInv'
<1>1. /\ phase = "reading" /\ how.by = "rows" /\ unread = <<>>
      /\ tally' \in {tally, Charged(tally)}
      /\ \/ phase' = "closing" /\ result' = result
         \/ phase' = "over" /\ result' = Finished(tally', kept)
      /\ kept' = kept /\ unread' = unread
      /\ Goes /\ UNCHANGED <<cursors, returned>>
  BY DEF FetchEnds, Goes, asked_for, history, traversal
<1>2. phase \in Working \cup {"closing"} /\ phase' \in Working \cup {"closing", "over"}
  BY <1>1 DEF Working
<1>3. /\ tally' \in LimiterType /\ tally'.truncated = FALSE
  BY <1>1, <1>2, AtWork, ChargedFits, ChargedTells DEF HInv, StreamInv, Within
<1>4. /\ Both(kept, unread) /\ Range(kept) \subseteq Visible(ever) /\ Range(unread) \subseteq ever
      /\ Visible(always) \subseteq Range(kept) \cup Range(unread)
  BY <1>1 DEF HInv, StreamInv
<1>5. Range(unread) = {}
  BY <1>1 DEF Range
<1>6. CASE phase' = "closing" /\ result' = result
  <2>1. MethodInv' /\ HistoryInv'
    BY <1>1, <1>2, GoesOn
  <2>2. ScanInv' /\ PageInv' /\ ExportInv' /\ InspectInv'
    BY <1>6 DEF ScanInv, PageInv, ExportInv, InspectInv
  <2>3. StreamInv'
    <3>1. Visible(ever)' = Visible(ever) /\ Visible(always)' = Visible(always)
      BY <1>1 DEF Goes, Visible
    <3>2. /\ Both(kept, unread)' /\ Range(kept') \subseteq Visible(ever)'
          /\ Range(unread') \subseteq ever' /\ Visible(always)' \subseteq Range(kept')
      BY <1>1, <1>4, <1>5, <3>1 DEF Goes, Both
    <3> QED
      BY <1>3, <1>6, <3>2 DEF StreamInv
  <2>4. CountInv'
    BY <1>1 DEF HInv, CountInv, Goes
  <2>5. TruncationIsHonest'
    <3>1. result'.kind = "none"
      BY <1>1, <1>2, <1>6, AtWork
    <3> QED
      BY <3>1, SilentAnswers
  <2> QED
    BY <2>1, <2>2, <2>3, <2>4, <2>5 DEF HInv
<1>7. CASE phase' = "over" /\ result' = Finished(tally', kept)
  <2>1. TruncationIsHonest'
    <3>1. kept \in Seq(Names) /\ budget.max_items \in Nat
      BY <1>2, AtWork
    <3>2. IsInjective(kept) /\ Visible(always) \subseteq Range(kept)
      BY <1>4, <1>5 DEF Both
    <3> QED
      BY <1>1, <1>3, <1>4, <1>7, <3>1, <3>2, FinishedTells
  <2> QED
    BY <1>1, <1>2, <1>7, <2>1, OverTells
<1> QED
  BY <1>1, <1>6, <1>7

\* The list that a closed connection leaves is the one that was read.
LEMMA CloseStreamTells ==
  ASSUME IInv, HInv, CloseStream
  PROVE  HInv'
<1>1. /\ phase = "closing" /\ how.by = "rows" /\ phase' = "over"
      /\ result' \in {Finished(tally, kept), Failed}
      /\ Goes /\ UNCHANGED <<cursors, returned>>
  BY DEF CloseStream, Goes, asked_for, history, traversal
<1>2. phase \in Working \cup {"closing"}
  BY <1>1
<1>3. TruncationIsHonest'
  <2>1. CASE result' = Failed
    BY <2>1, FailedTells
  <2>2. CASE result' = Finished(tally, kept)
    <3>1. /\ tally \in LimiterType /\ kept \in Seq(Names) /\ budget.max_items \in Nat
          /\ tally.truncated /\ ~tally.failed => tally.observed > budget.max_items
      BY <1>2, AtWork
    <3>2. /\ IsInjective(kept) /\ Range(kept) \subseteq Visible(ever)
          /\ ~tally.failed =>
               IF tally.truncated THEN ever \ Range(kept) # {} ELSE Visible(always) \subseteq Range(kept)
      BY <1>1 DEF HInv, StreamInv, Both
    <3> QED
      BY <1>1, <2>2, <3>1, <3>2, FinishedTells
  <2> QED
    BY <1>1, <2>1, <2>2
<1> QED
  BY <1>1, <1>2, <1>3, OverTells

\* A list with one name.
LEMMA OneName ==
  ASSUME NEW S, NEW x \in S
  PROVE  /\ <<x>> \in Seq(S) /\ Range(<<x>>) = {x} /\ IsInjective(<<x>>) /\ Len(<<x>>) = 1
         /\ <<>> \in Seq(S) /\ Range(<<>>) = {} /\ IsInjective(<<>>) /\ Len(<<>>) = 0
<1>1. DOMAIN <<x>> = {1} /\ <<x>>[1] = x
  OBVIOUS
<1>2. Range(<<x>>) = {x} /\ IsInjective(<<x>>)
  BY <1>1 DEF Range, IsInjective
<1>3. Range(<<>>) = {} /\ IsInjective(<<>>)
  BY DEF Range, IsInjective
<1> QED
  BY <1>2, <1>3

\* What is visible of some names.
LEMMA VisibleNames ==
  ASSUME NEW A, NEW B, A \subseteq B
  PROVE  /\ Visible(A) \subseteq Visible(B) /\ Visible(A) \subseteq A
         /\ \A x \in A : x \in Visible(A) <=> x \in Visible({x})
         /\ ~how.hides => Visible(A) = A
BY DEF Visible

\* A stream that goes on.
LEMMA StreamGoes ==
  ASSUME IInv, HInv, phase = "reading", how.by \in {"rows", "watermarks", "schema"},
         phase' \in {"reading", "closing"}, result' = result, Goes,
         UNCHANGED <<cursors, returned>>,
         Both(kept', unread'), Range(kept') \subseteq Visible(ever), Range(unread') \subseteq ever,
         phase' = "reading" => /\ ~tally'.truncated /\ ~tally'.failed
                               /\ Visible(always) \subseteq Range(kept') \cup Range(unread'),
         phase' = "closing" => tally'.truncated /\ ever \ Range(kept') # {}
  PROVE  HInv'
<1>1. phase \in Working \cup {"closing"} /\ phase' \in Working \cup {"closing", "over"}
  BY DEF Working
<1>2. MethodInv' /\ HistoryInv'
  BY <1>1, GoesOn
<1>3. how'.by \notin Scans \cup {"queues", "streams", "group_lag", "stream_lag"}
  BY DEF Scans, Goes
<1>4. ScanInv' /\ PageInv' /\ ExportInv' /\ InspectInv'
  BY <1>3 DEF ScanInv, PageInv, ExportInv, InspectInv
<1>5. StreamInv'
  <2>1. Visible(ever)' = Visible(ever) /\ Visible(always)' = Visible(always) /\ ever' = ever
    BY DEF Goes, Visible
  <2>2. Both(kept, unread)'
    BY DEF Both
  <2> QED
    BY <2>1, <2>2 DEF StreamInv
<1>6. CountInv'
  BY DEF HInv, CountInv, Goes
<1>7. TruncationIsHonest'
  <2>1. result'.kind = "none"
    BY <1>1, AtWork
  <2> QED
    BY <2>1, SilentAnswers
<1> QED
  BY <1>2, <1>4, <1>5, <1>6, <1>7 DEF HInv

\* One more name of a stream is kept, or passed over, or left.
LEMMA NextTells ==
  ASSUME Both(kept, unread), kept \in Seq(Names), unread \in Seq(Names), unread # <<>>,
         Range(kept) \subseteq Visible(ever), Range(unread) \subseteq ever, always \subseteq ever
  PROVE  LET row == Head(unread) IN
         /\ row \in Names /\ row \in ever /\ row \notin Range(kept)
         /\ Both(kept, Tail(unread)) /\ Range(Tail(unread)) \subseteq ever
         /\ Tail(unread) \in Seq(Names)
         /\ Visible(always) \subseteq Range(kept) \cup Range(unread) =>
              /\ row \notin Visible({row}) =>
                   Visible(always) \subseteq Range(kept) \cup Range(Tail(unread))
              /\ Visible(always) \subseteq Range(kept \o <<row>>) \cup Range(Tail(unread))
         /\ Both(kept \o <<row>>, Tail(unread)) /\ Range(kept \o <<row>>) = Range(kept) \cup {row}
         /\ row \in Visible({row}) => Range(kept \o <<row>>) \subseteq Visible(ever)
<1> DEFINE row == Head(unread)
           rest == Tail(unread)
<1>1. row \in Names /\ rest \in Seq(Names)
  BY HeadTail
<1>2. /\ Range(unread) = {row} \cup Range(rest)
      /\ IsInjective(rest) /\ row \notin Range(rest)
  BY TailKeeps DEF Both
<1> HIDE DEF row, rest
<1>3. row \notin Range(kept) /\ row \in ever
  BY <1>2 DEF Both
<1>4. Both(kept, rest)
  BY <1>2 DEF Both
<1>5. <<row>> \in Seq(Names) /\ Range(<<row>>) = {row} /\ IsInjective(<<row>>)
  BY <1>1, OneName
<1>6. /\ Range(kept \o <<row>>) = Range(kept) \cup {row}
      /\ IsInjective(kept \o <<row>>)
  <2>1. IsInjective(kept) /\ Range(kept) \cap Range(<<row>>) = {}
    BY <1>3, <1>5 DEF Both
  <2> DEFINE t == <<row>>
  <2>2. t \in Seq(Names) /\ Range(t) = {row} /\ IsInjective(t) /\ Range(kept) \cap Range(t) = {}
    BY <1>5, <2>1
  <2> HIDE DEF t
  <2>3. Range(kept \o t) = Range(kept) \cup Range(t) /\ IsInjective(kept \o t)
    BY <2>1, <2>2, ConcatenationKeeps
  <2> QED
    BY <2>2, <2>3 DEF t
<1>7. Both(kept \o <<row>>, rest)
  BY <1>2, <1>4, <1>6 DEF Both
<1>8. row \notin Visible({row}) => row \notin Visible(always)
  BY DEF Visible
<1>9. row \in Visible({row}) => row \in Visible(ever)
  BY <1>3 DEF Visible
<1> QED
  BY <1>1, <1>2, <1>3, <1>4, <1>6, <1>7, <1>8, <1>9 DEF row, rest

\* The next row is kept, or it is the one behind the list.
LEMMA FetchRowTells ==
  ASSUME IInv, HInv, FetchRow
  PROVE  HInv'
<1> DEFINE row == Head(unread)
           seen == row \in Visible({row})
           next == IF ~seen THEN tally ELSE ObserveItem(Charged(tally), budget, SizeOf[row])
           shown == kept \o IF ~seen \/ next.failed \/ next.truncated THEN <<>> ELSE <<row>>
<1>1. /\ phase = "reading" /\ how.by = "rows" /\ unread # <<>>
      /\ tally' = next /\ unread' = Tail(unread) /\ kept' = shown
      /\ \/ ~next.failed /\ ~next.truncated /\ phase' = phase /\ result' = result
         \/ phase' = "over" /\ result' = Failed
         \/ next.truncated /\ ~next.failed /\ phase' = "closing" /\ result' = result
         \/ /\ next.truncated /\ ~next.failed /\ phase' = "over" /\ result' = Finished(next, shown)
      /\ Goes /\ UNCHANGED <<cursors, returned>>
  BY DEF FetchRow, Goes, asked_for, history, traversal
<1>2. phase \in Working \cup {"closing"}
  BY <1>1 DEF Working
<1>3. /\ kept \in Seq(Names) /\ unread \in Seq(Names) /\ budget.max_items \in Nat
      /\ budget.max_bytes \in Nat
  BY <1>2, AtWork
<1>4. /\ Both(kept, unread) /\ Range(kept) \subseteq Visible(ever) /\ Range(unread) \subseteq ever
      /\ ~tally.truncated /\ ~tally.failed /\ Visible(always) \subseteq Range(kept) \cup Range(unread)
      /\ always \subseteq ever
  BY <1>1 DEF HInv, StreamInv, HistoryInv
<1>5. /\ row \in Names /\ row \in ever /\ row \notin Range(kept)
      /\ Both(kept, Tail(unread)) /\ Range(Tail(unread)) \subseteq ever
      /\ ~seen => Visible(always) \subseteq Range(kept) \cup Range(Tail(unread))
      /\ Visible(always) \subseteq Range(kept \o <<row>>) \cup Range(Tail(unread))
      /\ Both(kept \o <<row>>, Tail(unread))
      /\ seen => Range(kept \o <<row>>) \subseteq Visible(ever)
  BY <1>1, <1>3, <1>4, NextTells
<1>6. /\ next \in LimiterType
      /\ next.truncated /\ ~next.failed => next.observed > budget.max_items
  <2>1. SizeOf[row] \in Nat
    BY <1>5, BoundedReadAssumption
  <2> QED
    BY <1>2, <1>3, <2>1, AtWork, ChargedFits, ObserveItemFits DEF Within
<1>7. kept \o <<>> = kept
  BY <1>3
<1>8. next.truncated => seen
  BY <1>4
<1> HIDE DEF next, seen, row
<1>9. CASE phase' = "over" /\ result' = Failed
  BY <1>1, <1>2, <1>9, FailedTells, OverTells
<1>10. CASE ~next.failed /\ ~next.truncated /\ phase' = phase /\ result' = result
  <2>1. shown = IF ~seen THEN kept ELSE kept \o <<row>>
    BY <1>7, <1>10
  <2>2. /\ Both(shown, Tail(unread)) /\ Range(shown) \subseteq Visible(ever)
        /\ Visible(always) \subseteq Range(shown) \cup Range(Tail(unread))
    BY <1>4, <1>5, <2>1
  <2> HIDE DEF shown
  <2> QED
    BY <1>1, <1>5, <1>10, <2>2, StreamGoes
<1>11. CASE next.truncated /\ ~next.failed /\ phase' = "closing" /\ result' = result
  <2>1. shown = kept
    BY <1>7, <1>11
  <2> HIDE DEF shown
  <2>2. ever \ Range(shown) # {}
    BY <1>5, <2>1
  <2> QED
    BY <1>1, <1>4, <1>5, <1>11, <2>1, <2>2, StreamGoes
<1>12. CASE next.truncated /\ ~next.failed /\ phase' = "over" /\ result' = Finished(next, shown)
  <2>1. shown = kept
    BY <1>7, <1>12
  <2> HIDE DEF shown
  <2>2. ever \ Range(shown) # {}
    BY <1>5, <2>1
  <2>3. TruncationIsHonest'
    BY <1>1, <1>3, <1>4, <1>6, <1>12, <2>1, <2>2, FinishedTells DEF Both
  <2> QED
    BY <1>1, <1>2, <1>12, <2>3, OverTells
<1> QED
  BY <1>1, <1>9, <1>10, <1>11, <1>12

\* The watermarks of a partition are kept, or there are too many.
LEMMA FetchWatermarkTells ==
  ASSUME IInv, HInv, FetchWatermark
  PROVE  HInv'
<1>1. /\ phase = "reading" /\ how.by = "watermarks" /\ unread # <<>>
      /\ \/ phase' = "over" /\ result' = Failed
         \/ /\ unread' = Tail(unread) /\ kept' = Append(kept, Head(unread))
            /\ phase' = phase /\ result' = result /\ tally' = tally
      /\ Goes /\ UNCHANGED <<cursors, returned>>
  BY DEF FetchWatermark, Goes, asked_for, history, traversal
<1>2. phase \in Working \cup {"closing"}
  BY <1>1 DEF Working
<1>3. kept \in Seq(Names) /\ unread \in Seq(Names)
  BY <1>2, AtWork
<1>4. /\ Both(kept, unread) /\ Range(kept) \subseteq Visible(ever) /\ Range(unread) \subseteq ever
      /\ ~tally.truncated /\ ~tally.failed /\ Visible(always) \subseteq Range(kept) \cup Range(unread)
      /\ always \subseteq ever
  BY <1>1 DEF HInv, StreamInv, HistoryInv
<1>5. CASE phase' = "over" /\ result' = Failed
  BY <1>1, <1>2, <1>5, FailedTells, OverTells
<1>6. CASE /\ unread' = Tail(unread) /\ kept' = Append(kept, Head(unread))
           /\ phase' = phase /\ result' = result /\ tally' = tally
  <2> DEFINE row == Head(unread)
  <2>1. /\ row \in ever /\ Both(kept, Tail(unread)) /\ Range(Tail(unread)) \subseteq ever
        /\ Visible(always) \subseteq Range(kept \o <<row>>) \cup Range(Tail(unread))
        /\ Both(kept \o <<row>>, Tail(unread))
        /\ row \in Visible({row}) => Range(kept \o <<row>>) \subseteq Visible(ever)
        /\ row \in Names
    BY <1>1, <1>3, <1>4, NextTells
  <2>2. row \in Visible({row})
    BY <1>1 DEF HInv, MethodInv, Visible
  <2>3. kept' = kept \o <<row>>
    BY <1>3, <1>6, <2>1
  <2> HIDE DEF row
  <2> QED
    BY <1>1, <1>4, <1>6, <2>1, <2>2, <2>3, StreamGoes
<1> QED
  BY <1>1, <1>5, <1>6

\* All partitions were read.
LEMMA WatermarksEndTells ==
  ASSUME IInv, HInv, WatermarksEnd
  PROVE  HInv'
<1>1. /\ phase = "reading" /\ how.by = "watermarks" /\ unread = <<>> /\ phase \in Working
      /\ EndWith(Exact(kept)) \/ EndWith(Failed)
  BY DEF WatermarksEnd, Working
<1>2. /\ Both(kept, unread) /\ Range(kept) \subseteq Visible(ever)
      /\ Visible(always) \subseteq Range(kept) \cup Range(unread)
  BY <1>1 DEF HInv, StreamInv
<1>3. IsInjective(kept) /\ Visible(always) \subseteq Range(kept)
  BY <1>1, <1>2 DEF Both, Range
<1>4. CASE EndWith(Exact(kept))
  <2>1. result' = Exact(kept)
    BY <1>4 DEF EndWith
  <2>2. Goes => TruncationIsHonest'
    BY <1>2, <1>3, <2>1, ExactTells
  <2> QED
    BY <1>1, <1>4, <2>2, EndsTells
<1>5. CASE EndWith(Failed)
  <2>1. result' = Failed
    BY <1>5 DEF EndWith
  <2> QED
    BY <1>1, <1>5, <2>1, FailedTells, EndsTells
<1> QED
  BY <1>1, <1>4, <1>5
-----------------------------------------------------------------------------
(* Schemas: two answers *)

\* One more than may be shown is asked for: what fits is all there was.
LEMMA DescribedAll ==
  ASSUME kept \in Seq(Names), budget.max_items \in Nat, NEW rows \in Seq(Names),
         Len(kept \o SubSeq(rows, 1, AtMost(MetadataProbe(budget, Len(kept)), Len(rows))))
           <= budget.max_items
  PROVE  SubSeq(rows, 1, AtMost(MetadataProbe(budget, Len(kept)), Len(rows))) = rows
<1> DEFINE m == Len(kept)
           n == Len(rows)
           p == MetadataProbe(budget, m)
           t == SubSeq(rows, 1, AtMost(p, n))
<1>1. m \in Nat /\ n \in Nat
  OBVIOUS
<1>2. p \in Nat /\ p + m > budget.max_items
  BY <1>1 DEF MetadataProbe
<1>3. AtMost(p, n) \in Nat /\ AtMost(p, n) <= n
  BY <1>1, <1>2 DEF AtMost
<1>4. t \in Seq(Names) /\ Len(t) = AtMost(p, n)
  BY <1>1, <1>3
<1> HIDE DEF p
<1>5. Len(kept \o t) = m + AtMost(p, n)
  <2> HIDE DEF t, m, n
  <2>1. Len(kept \o t) = Len(kept) + Len(t)
    BY <1>4, Concatenation
  <2> QED
    BY <1>4, <2>1 DEF m
<1>6. m + AtMost(p, n) <= budget.max_items
  BY <1>5 DEF p
<1>7. AtMost(p, n) = n
  <2> HIDE DEF m, n
  <2> QED
    BY <1>1, <1>2, <1>6 DEF AtMost
<1>8. SubSeq(rows, 1, n) = rows
  OBVIOUS
<1> QED
  BY <1>7, <1>8 DEF p

\* Columns or indexes that all fit, or an error.
LEMMA DescribedTells ==
  ASSUME IInv, HInv, phase = "reading", how.by = "schema", NEW rows \in Seq(Names),
         NEW ends \in BOOLEAN, Described(rows, ends), unread' \in Seq(Names),
         IsInjective(rows), IsInjective(unread'), Range(rows) \cap Range(unread') = {},
         Range(unread) = Range(rows) \cup Range(unread'), ends => unread' = <<>>
  PROVE  HInv'
<1> DEFINE taken == SubSeq(rows, 1, AtMost(MetadataProbe(budget, Len(kept)), Len(rows)))
           all == kept \o taken
<1>1. /\ kept' = all /\ tally' = tally /\ Goes /\ UNCHANGED <<cursors, returned>>
      /\ \/ phase' = "over" /\ result' = Failed
         \/ /\ ~ends /\ phase' = phase /\ result' = result /\ Len(all) <= budget.max_items
         \/ /\ ends /\ phase' = "over" /\ result' = Exact(all) /\ MetadataFits(budget, Rows(all))
  BY DEF Described, Goes, asked_for, history
<1>2. phase \in Working \cup {"closing"}
  BY DEF Working
<1>3. kept \in Seq(Names) /\ unread \in Seq(Names) /\ budget.max_items \in Nat
  BY <1>2, AtWork
<1>4. /\ Both(kept, unread) /\ Range(kept) \subseteq Visible(ever) /\ Range(unread) \subseteq ever
      /\ ~tally.truncated /\ ~tally.failed /\ Visible(always) \subseteq Range(kept) \cup Range(unread)
  BY DEF HInv, StreamInv
<1>5. ~how.hides
  BY DEF HInv, MethodInv
<1>6. Visible(ever) = ever
  BY <1>5 DEF Visible
<1>7. ASSUME Len(all) <= budget.max_items
      PROVE  /\ Both(all, unread') /\ Range(all) \subseteq Visible(ever)
             /\ Visible(always) \subseteq Range(all) \cup Range(unread')
             /\ all \in Seq(Names)
  <2>1. taken = rows
    BY <1>3, <1>7, DescribedAll
  <2>2. all = kept \o rows
    BY <2>1
  <2> HIDE DEF all
  <2>3. Range(kept) \cap Range(rows) = {} /\ Range(kept) \cap Range(unread') = {} /\ IsInjective(kept)
    BY <1>4 DEF Both
  <2>4. /\ Range(all) = Range(kept) \cup Range(rows) /\ IsInjective(all) /\ all \in Seq(Names)
    BY <1>3, <2>2, <2>3, ConcatenationKeeps
  <2> QED
    BY <1>4, <1>6, <2>3, <2>4 DEF Both
<1> HIDE DEF all
<1>8. CASE phase' = "over" /\ result' = Failed
  BY <1>1, <1>2, <1>8, FailedTells, OverTells
<1>9. CASE ~ends /\ phase' = phase /\ result' = result /\ Len(all) <= budget.max_items
  <2>1. Range(unread') \subseteq ever
    BY <1>4
  <2> QED
    BY <1>1, <1>4, <1>7, <1>9, <2>1, StreamGoes
<1>10. CASE ends /\ phase' = "over" /\ result' = Exact(all) /\ MetadataFits(budget, Rows(all))
  <2>0. all \in Seq(Names)
    <3>1. MetadataProbe(budget, Len(kept)) \in Int
      BY <1>3 DEF MetadataProbe
    <3> QED
      BY <1>3, <3>1, FirstType, Concatenation DEF all
  <2>1. Len(all) <= budget.max_items
    BY <1>10, <2>0, RowsType DEF MetadataFits
  <2>2. Range(unread') = {}
    BY <1>10 DEF Range
  <2>3. TruncationIsHonest'
    BY <1>1, <1>7, <1>10, <2>1, <2>2, ExactTells DEF Both
  <2> QED
    BY <1>1, <1>2, <1>10, <2>3, OverTells
<1> QED
  BY <1>1, <1>8, <1>9, <1>10

LEMMA DescribeColumnsTells ==
  ASSUME IInv, HInv, DescribeColumns
  PROVE  HInv'
<1>1. phase = "reading" /\ how.by = "schema" /\ unread \in Seq(Names)
  BY AtWork DEF DescribeColumns, Working
<1>2. PICK n \in 1..Len(unread) :
        Described(SubSeq(unread, 1, n), FALSE) /\ unread' = SubSeq(unread, n + 1, Len(unread))
  BY DEF DescribeColumns
<1> DEFINE a == SubSeq(unread, 1, n)
           z == SubSeq(unread, n + 1, Len(unread))
<1>3. n \in Nat /\ n <= Len(unread)
  BY <1>1
<1>4. IsInjective(unread)
  BY <1>1 DEF HInv, StreamInv, Both
<1>5. /\ a \in Seq(Names) /\ z \in Seq(Names) /\ Range(unread) = Range(a) \cup Range(z)
      /\ IsInjective(a) /\ IsInjective(z) /\ Range(a) \cap Range(z) = {}
  BY <1>1, <1>3, <1>4, SplitKeeps
<1>6. Described(a, FALSE) /\ unread' = z
  BY <1>2
<1> HIDE DEF a, z
<1> QED
  BY <1>1, <1>5, <1>6, DescribedTells

LEMMA DescribeIndexesTells ==
  ASSUME IInv, HInv, DescribeIndexes
  PROVE  HInv'
<1>1. phase = "reading" /\ how.by = "schema" /\ unread \in Seq(Names)
  BY AtWork DEF DescribeIndexes, Working
<1>2. Described(unread, TRUE) /\ unread' = <<>>
  BY Zenon DEF DescribeIndexes
<1>3. <<>> \in Seq(Names) /\ Range(<<>>) = {} /\ IsInjective(<<>>)
  BY DEF Range, IsInjective
<1>4. IsInjective(unread)
  BY <1>1 DEF HInv, StreamInv, Both
<1>5. Range(unread) = Range(unread) \cup Range(unread') /\ Range(unread) \cap Range(unread') = {}
  BY <1>2, <1>3
<1> QED
  BY <1>1, <1>2, <1>3, <1>4, <1>5, DescribedTells
-----------------------------------------------------------------------------
(* Scans *)

\* A scan that is over, with the cursors it has seen.
LEMMA OverCounts ==
  ASSUME IInv, HInv, Goes, phase \in Working \cup {"closing"}, phase' = "over",
         CountInv', TruncationIsHonest'
  PROVE  HInv'
<1>1. MethodInv' /\ HistoryInv'
  BY GoesOn
<1>2. StreamInv' /\ ScanInv' /\ PageInv' /\ ExportInv' /\ InspectInv'
  BY DEF StreamInv, ScanInv, PageInv, ExportInv, InspectInv
<1> QED
  BY <1>1, <1>2 DEF HInv

\* There are no more cursors than the server uses.
LEMMA CursorsAreBounded ==
  ASSUME HInv, Goes, NEW next \in 0..MaxCursor, NEW page \in Seq(Names),
         cursors' = cursors \cup {next}, returned' = returned \cup Range(page)
  PROVE  CountInv'
<1>1. Cardinality(Names) \in Nat /\ MaxCursor \in Nat
  BY BoundedReadAssumption, FS_CardinalityType
<1>2. next \in 0..(MaxCursor + Cardinality(Names))
  BY <1>1
<1>3. Range(page) \subseteq Names
  BY RangeType
<1> QED
  BY <1>2, <1>3 DEF HInv, CountInv, Goes

\* A page of a traversal that lists: the list is complete when it ends without a probe,
\* and with one there is more.
LEMMA TraverseTells ==
  ASSUME IInv, HInv, phase = "reading", how.by \in Scans \cup {"queues", "streams"},
         NEW page \in Seq(Names), NEW fails, NEW ends, NEW next,
         Traverse(page, fails, ends, next), Range(page) \subseteq ever, CountInv',
         ~fails /\ ends /\ ~Observed(page).tally.truncated /\ ~Observed(page).tally.failed =>
           \/ always \subseteq Range(kept) \cup Range(page)
           \/ how.by \in Pages /\ shrunk,
         /\ ~fails /\ ~ends /\ phase' = "reading"
         /\ ~Observed(page).tally.failed /\ ~Observed(page).tally.truncated
         /\ tally' = Observed(page).tally /\ kept' = Observed(page).kept
         => ScanInv' /\ PageInv'
  PROVE  HInv'
<1> DEFINE read == Observed(page)
<1>1. phase \in Working \cup {"closing"} /\ result.kind = "none"
  BY AtWork DEF Working
<1>2. /\ kept \in Seq(Names) /\ budget.max_items \in Nat /\ budget.max_bytes \in Nat
      /\ Within(tally, budget)
  BY <1>1, AtWork
<1>3. IsInjective(kept) /\ Range(kept) \subseteq ever /\ ~tally.truncated /\ ~tally.failed
  BY DEF HInv, ScanInv
<1>4. ~how.hides
  BY DEF HInv, MethodInv, Scans
<1>5. Visible(ever) = ever /\ Visible(always) = always
  BY <1>4 DEF Visible
<1>6. read \in Gathered(page, Len(page)) /\ Names1(page, Len(page)) = Range(page)
  BY <1>2, <1>3, ObservedGathers
<1>7. /\ read.tally \in LimiterType /\ read.kept \in Seq(Names)
      /\ read.tally.truncated /\ ~read.tally.failed => read.tally.observed > budget.max_items
      /\ ~read.tally.failed =>
           /\ IsInjective(read.kept) /\ Range(kept) \subseteq Range(read.kept)
           /\ Range(read.kept) \subseteq Range(kept) \cup Range(page)
           /\ read.tally.truncated => Range(page) \ Range(read.kept) # {}
           /\ ~read.tally.truncated => Range(page) \subseteq Range(read.kept)
  <2> HIDE DEF read
  <2> QED
    BY <1>6 DEF Gathered, Takes
<1>8. /\ Goes
      /\ \/ phase' = "over" /\ result' = Failed
         \/ ~read.tally.failed /\ ~fails /\ (read.tally.truncated \/ ends) /\ Listed(read.tally, read.kept)
         \/ /\ ~read.tally.failed /\ ~fails /\ ~read.tally.truncated /\ ~ends
            /\ tally' = read.tally /\ kept' = read.kept
            /\ phase' = phase /\ result' = result /\ unread' = unread
  BY DEF Traverse, Goes, asked_for, history
<1>c. /\ ~fails /\ ends /\ ~read.tally.truncated /\ ~read.tally.failed =>
           \/ always \subseteq Range(kept) \cup Range(page)
           \/ how.by \in Pages /\ shrunk
      /\ /\ ~fails /\ ~ends /\ phase' = "reading" /\ ~read.tally.failed /\ ~read.tally.truncated
         /\ tally' = read.tally /\ kept' = read.kept
         => ScanInv' /\ PageInv'
  OBVIOUS
<1> HIDE DEF read
<1>9. CASE phase' = "over" /\ result' = Failed
  BY <1>1, <1>8, <1>9, FailedTells, OverCounts
<1>10. CASE /\ ~read.tally.failed /\ ~fails /\ (read.tally.truncated \/ ends)
            /\ Listed(read.tally, read.kept)
  <2>1. /\ result' = Finished(read.tally, read.kept)
        /\ \/ /\ result' # Failed /\ phase' = "exporting" /\ how.by = "export"
              /\ unread' = read.kept /\ kept' = <<>>
           \/ phase' = "over"
    BY <1>10 DEF Listed
  <2>2. /\ ~read.tally.truncated => \/ Visible(always) \subseteq Range(read.kept)
                                    \/ how.by \in Pages /\ shrunk
        /\ read.tally.truncated => ever \ Range(read.kept) # {}
        /\ IsInjective(read.kept) /\ Range(read.kept) \subseteq Visible(ever)
    BY <1>3, <1>5, <1>7, <1>10, <1>c
  <2>3. TruncationIsHonest'
    BY <1>2, <1>7, <1>8, <2>1, <2>2, FinishedTells
  <2>4. CASE phase' = "over"
    BY <1>1, <1>8, <2>3, <2>4, OverCounts
  <2>5. CASE /\ result' # Failed /\ phase' = "exporting" /\ how.by = "export"
             /\ unread' = read.kept /\ kept' = <<>>
    <3>1. result'.items = read.kept
      BY <2>1, <2>5 DEF Finished
    <3>2. MethodInv' /\ HistoryInv'
      BY <1>1, <1>8, <2>5, GoesOn DEF Working
    <3>3. StreamInv' /\ ScanInv' /\ PageInv' /\ InspectInv'
      BY <2>5 DEF StreamInv, ScanInv, PageInv, InspectInv
    <3>4. ExportInv'
      <4>1. Range(<<>>) = {} /\ IsInjective(<<>>) /\ Len(<<>>) = 0
        BY DEF Range, IsInjective
      <4>2. Both(kept, unread)' /\ Range(kept') \cup Range(unread') = Range(result'.items)
        BY <2>2, <2>5, <3>1, <4>1 DEF Both
      <4>3. Len(kept') + Len(unread') = Len(result'.items) /\ Len(result'.items) \in Nat
        BY <1>7, <2>5, <3>1, <4>1
      <4> QED
        BY <4>2, <4>3 DEF ExportInv
    <3> QED
      BY <2>3, <3>2, <3>3, <3>4 DEF HInv
  <2> QED
    BY <2>1, <2>4, <2>5
<1>11. CASE /\ ~read.tally.failed /\ ~fails /\ ~read.tally.truncated /\ ~ends
            /\ tally' = read.tally /\ kept' = read.kept
            /\ phase' = phase /\ result' = result /\ unread' = unread
  <2>1. MethodInv' /\ HistoryInv'
    BY <1>1, <1>8, <1>11, GoesOn
  <2>2. ScanInv' /\ PageInv'
    BY <1>11, <1>c
  <2>3. how'.by \notin {"rows", "watermarks", "schema"}
    BY <1>8 DEF Goes, Scans
  <2>4. StreamInv' /\ ExportInv' /\ InspectInv'
    BY <1>11, <2>3 DEF StreamInv, ExportInv, InspectInv
  <2>5. TruncationIsHonest'
    BY <1>1, <1>11, SilentAnswers
  <2> QED
    BY <2>1, <2>2, <2>4, <2>5 DEF HInv
<1> QED
  BY <1>8, <1>9, <1>10, <1>11

\* The names of the next page of a scan are taken in; at its end all were returned.
LEMMA ScanPageTells ==
  ASSUME IInv, HInv, ScanPage
  PROVE  HInv'
<1>1. phase = "reading" /\ how.by \in Scans /\ phase \in Working \cup {"closing"}
  BY DEF ScanPage, Working
<1>2. PICK page \in ScanPages, next \in 0..MaxCursor, overflow \in BOOLEAN :
        /\ overflow \/ Completes(page, next)
        /\ Traverse(page,
                    IF how.by = "topics" THEN TopicPageFails(Observed(page).tally, next, overflow)
                                         ELSE KeyPageFails(Observed(page).tally, next, overflow),
                    next = 0, next)
        /\ cursors' = cursors \cup {next} /\ returned' = returned \cup Range(page)
  BY DEF ScanPage
<1> DEFINE fails == IF how.by = "topics" THEN TopicPageFails(Observed(page).tally, next, overflow)
                                         ELSE KeyPageFails(Observed(page).tally, next, overflow)
<1>3. listing \in Seq(Names)
  BY <1>1, AtWork
<1>4. page \in Seq(Names) /\ Range(page) \subseteq Range(listing)
  BY <1>3, ScanPageIsDistinct
<1>5. Range(page) \subseteq ever
  BY <1>4 DEF HInv, HistoryInv
<1>6. Goes
  BY DEF ScanPage, Traverse, Goes, asked_for, history
<1>7. CountInv'
  BY <1>2, <1>4, <1>6, CursorsAreBounded
<1>8. returned \subseteq Range(kept) /\ IsInjective(kept) /\ Range(kept) \subseteq ever
      /\ ~tally.truncated /\ ~tally.failed
  BY <1>1 DEF HInv, ScanInv
<1>9. ASSUME ~fails, next = 0, ~Observed(page).tally.truncated
      PROVE  always \subseteq Range(kept) \cup Range(page)
  <2>1. ~overflow
    BY <1>9 DEF TopicPageFails, KeyPageFails
  <2> QED
    BY <1>2, <1>8, <1>9, <2>1 DEF Completes
<1>10. ASSUME phase' = "reading", ~Observed(page).tally.failed, ~Observed(page).tally.truncated,
              tally' = Observed(page).tally, kept' = Observed(page).kept
       PROVE  ScanInv' /\ PageInv'
  <2>1. how'.by \notin {"queues", "streams", "stream_lag", "group_lag"}
    BY <1>1, <1>6 DEF Goes, Scans
  <2>2. Observed(page) \in Gathered(page, Len(page)) /\ Names1(page, Len(page)) = Range(page)
    <3>1. /\ kept \in Seq(Names) /\ budget.max_items \in Nat /\ budget.max_bytes \in Nat
          /\ Within(tally, budget)
      BY <1>1, AtWork
    <3> QED
      BY <1>4, <1>8, <3>1, ObservedGathers
  <2>3. /\ IsInjective(kept') /\ Range(kept) \subseteq Range(kept')
        /\ Range(kept') \subseteq Range(kept) \cup Range(page) /\ Range(page) \subseteq Range(kept')
    BY <1>10, <2>2 DEF Gathered
  <2>4. Range(kept') \subseteq ever' /\ returned' \subseteq Range(kept')
    BY <1>2, <1>5, <1>6, <1>8, <2>3 DEF Goes
  <2>5. ScanInv'
    BY <1>10, <2>1, <2>3, <2>4 DEF ScanInv
  <2>6. PageInv'
    BY <2>1 DEF PageInv
  <2> QED
    BY <2>5, <2>6
<1>11. Traverse(page, fails, next = 0, next)
  BY <1>2
<1> HIDE DEF fails
<1> QED
  BY <1>1, <1>4, <1>5, <1>7, <1>9, <1>10, <1>11, TraverseTells
-----------------------------------------------------------------------------
(* The lag of consumer groups: a scan, then stream by stream *)

\* What is smaller than the modulus is its own remainder.
LEMMA SmallRemainder ==
  ASSUME NEW a \in Nat, NEW b \in Nat, a < b
  PROVE  a % b = a
OBVIOUS

\* The probe of a limit that was checked is one more.
LEMMA ProbeIsNext ==
  ASSUME NEW n \in Nat, ProbeLimit(n)
  PROVE  Probe(n) = n + 1
<1>1. n + 1 \in Nat /\ MaxUsize + 1 \in Nat /\ n + 1 < MaxUsize + 1
  BY LimitersAssumption DEF ProbeLimit, Fits
<1>2. (n + 1) % (MaxUsize + 1) = n + 1
  BY <1>1, SmallRemainder
<1> QED
  BY <1>2 DEF Probe

\* The limit under which group_lag scans the streams.
LEMMA WorkProbes ==
  ASSUME IInv, HInv, phase \in Working
  PROVE  /\ WorkProbe \in Nat
         /\ \A s \in Seq(Names) : IsInjective(s) /\ Len(s) = WorkProbe => Len(s) > budget.max_items
<1>1. budget.max_items \in Nat
  BY AtWork
<1>2. CASE how.whole
  <2>1. WorkProbe = MaxUsize
    BY <1>2 DEF HInv, MethodInv, WorkProbe, Boundless
  <2>2. Cardinality(Names) < MaxUsize /\ Cardinality(Names) \in Nat /\ MaxUsize \in Nat
    BY BoundedReadAssumption, LimitersAssumption, FS_CardinalityType
  <2>3. ASSUME NEW s \in Seq(Names), IsInjective(s)
        PROVE  Len(s) # WorkProbe
    <3>1. Len(s) <= Cardinality(Names) /\ Len(s) \in Nat
      BY <2>3, DistinctIsListing
    <3> QED
      BY <2>1, <2>2, <3>1
  <2> QED
    BY <2>1, <2>2, <2>3
<1>3. CASE ~how.whole
  <2>1. ProbeLimit(budget.max_items)
    BY <1>3 DEF HInv, MethodInv
  <2>2. WorkProbe = budget.max_items + 1
    BY <1>1, <1>3, <2>1, ProbeIsNext DEF WorkProbe
  <2> QED
    BY <1>1, <2>2
<1> QED
  BY <1>2, <1>3

\* The beginning of a list, as far as there is room.
LEMMA RoomFor ==
  ASSUME NEW s \in Seq(Names), NEW room \in Nat
  PROVE  LET part == SubSeq(s, 1, AtMost(room, Len(s)))
         IN /\ part \in Seq(Names) /\ Len(part) <= room /\ Range(part) \subseteq Range(s)
            /\ IsInjective(s) => IsInjective(part)
            /\ Len(part) # room => part = s
<1> DEFINE k == AtMost(room, Len(s))
<1>1. k \in Nat /\ k <= Len(s) /\ k <= room /\ (k # room => k = Len(s))
  BY DEF AtMost
<1> HIDE DEF k
<1>2. Len(SubSeq(s, 1, k)) = k /\ (k = Len(s) => SubSeq(s, 1, k) = s)
  BY <1>1
<1>3. /\ SubSeq(s, 1, k) \in Seq(Names) /\ Range(SubSeq(s, 1, k)) \subseteq Range(s)
      /\ IsInjective(s) => IsInjective(SubSeq(s, 1, k))
  BY <1>1, PartKeeps
<1>4. \A part : part = SubSeq(s, 1, k) =>
        /\ part \in Seq(Names) /\ Len(part) <= room /\ Range(part) \subseteq Range(s)
        /\ IsInjective(s) => IsInjective(part)
        /\ Len(part) # room => part = s
  BY <1>1, <1>2, <1>3
<1> QED
  BY <1>4 DEF k

\* What a page adds to the streams of group_lag.
LEMMA StreamsGather ==
  ASSUME IInv, HInv, phase = "reading", how.by = "group_lag", NEW page \in ScanPages,
         NEW names,
         names = kept \o SubSeq(Among(page, Names \ Range(kept)), 1,
                                AtMost(WorkProbe - Len(kept), Len(Among(page, Names \ Range(kept)))))
  PROVE  /\ names \in Seq(Names) /\ IsInjective(names) /\ Range(names) \subseteq ever
         /\ Len(names) <= WorkProbe
         /\ Len(names) # WorkProbe => Range(kept) \cup Range(page) \subseteq Range(names)
<1> DEFINE new  == Among(page, Names \ Range(kept))
           part == SubSeq(new, 1, AtMost(WorkProbe - Len(kept), Len(new)))
<1>1. phase \in Working
  BY DEF Working
<1>2. kept \in Seq(Names) /\ listing \in Seq(Names)
  BY <1>1, AtWork
<1>3. IsInjective(kept) /\ Range(kept) \subseteq ever /\ Len(kept) < WorkProbe
      /\ Range(listing) \subseteq ever
  BY DEF HInv, ScanInv, HistoryInv
<1>4. page \in Seq(Names) /\ IsInjective(page) /\ Range(page) \subseteq Range(listing)
      /\ Range(page) \subseteq Names
  BY <1>2, ScanPageIsDistinct, RangeType
<1>5. new \in Seq(Names) /\ IsInjective(new) /\ Range(new) = Range(page) \cap (Names \ Range(kept))
  BY <1>4, AmongKeeps
<1>6. WorkProbe - Len(kept) \in Nat /\ WorkProbe \in Nat /\ Len(kept) \in Nat
  <2>1. WorkProbe \in Nat
    BY <1>1, WorkProbes
  <2> QED
    BY <1>2, <1>3, <2>1
<1> HIDE DEF new
<1>7. /\ part \in Seq(Names) /\ Len(part) <= WorkProbe - Len(kept) /\ Range(part) \subseteq Range(new)
      /\ IsInjective(part)
      /\ Len(part) # WorkProbe - Len(kept) => part = new
  BY <1>5, <1>6, RoomFor
<1>8. names = kept \o part
  BY DEF new
<1> HIDE DEF part
<1>9. Range(kept) \cap Range(part) = {}
  BY <1>5, <1>7
<1>10. /\ kept \o part \in Seq(Names) /\ Len(kept \o part) = Len(kept) + Len(part)
       /\ Range(kept \o part) = Range(kept) \cup Range(part)
       /\ IsInjective(kept \o part)
  BY <1>2, <1>3, <1>7, <1>9, ConcatenationKeeps
<1>11. Len(part) \in Nat
  BY <1>7
<1>12. Len(names) <= WorkProbe /\ (Len(names) # WorkProbe => Len(part) # WorkProbe - Len(kept))
  <2>1. \A a, b, w \in Nat : b <= w - a => a + b <= w /\ (a + b # w => b # w - a)
    OBVIOUS
  <2>2. Len(names) = Len(kept) + Len(part)
    BY <1>8, <1>10
  <2>3. Len(part) <= WorkProbe - Len(kept)
    BY <1>7
  <2>4. /\ Len(kept) + Len(part) <= WorkProbe
        /\ Len(kept) + Len(part) # WorkProbe => Len(part) # WorkProbe - Len(kept)
    BY <1>6, <1>11, <2>1, <2>3
  <2> QED
    BY <2>2, <2>4
<1>13. Len(names) # WorkProbe => Range(kept) \cup Range(page) \subseteq Range(names)
  BY <1>4, <1>5, <1>7, <1>8, <1>10, <1>12
<1> QED
  BY <1>3, <1>4, <1>5, <1>7, <1>8, <1>10, <1>12, <1>13

\* The streams that a page of the scan tells, up to the probe.
LEMMA GroupLagPageTells ==
  ASSUME IInv, HInv, GroupLagPage
  PROVE  HInv'
<1>1. phase = "reading" /\ how.by = "group_lag" /\ phase \in Working \cup {"closing"}
  BY DEF GroupLagPage, Working
<1>2. PICK page \in ScanPages, next \in 0..MaxCursor, overflow \in BOOLEAN :
        /\ overflow \/ Completes(page, next)
        /\ LET new   == Among(page, Names \ Range(kept))
               names == kept \o SubSeq(new, 1, AtMost(WorkProbe - Len(kept), Len(new)))
               ends  == next = 0 \/ Len(names) = WorkProbe
           IN \/ /\ overflow \/ (~ends /\ next \in cursors)
                 /\ phase' = "over" /\ result' = Failed /\ UNCHANGED <<unread, kept, cursor>>
              \/ /\ ~overflow /\ ~ends /\ next \notin cursors
                 /\ kept' = names /\ cursor' = next /\ UNCHANGED <<phase, result, unread>>
              \/ /\ ~overflow /\ ends
                 /\ phase' = "inspecting" /\ unread' = names /\ kept' = <<>> /\ cursor' = 0
                 /\ UNCHANGED result
        /\ cursors' = cursors \cup {next} /\ returned' = returned \cup Range(page)
  BY DEF GroupLagPage
<1> DEFINE names == kept \o SubSeq(Among(page, Names \ Range(kept)), 1,
                       AtMost(WorkProbe - Len(kept), Len(Among(page, Names \ Range(kept)))))
<1>3. /\ names \in Seq(Names) /\ IsInjective(names) /\ Range(names) \subseteq ever
      /\ Len(names) <= WorkProbe
      /\ Len(names) # WorkProbe => Range(kept) \cup Range(page) \subseteq Range(names)
  BY <1>1, StreamsGather
<1>4. \/ phase' = "over" /\ result' = Failed
      \/ /\ next # 0 /\ Len(names) # WorkProbe
         /\ kept' = names /\ phase' = phase /\ result' = result
      \/ /\ ~overflow /\ (next = 0 \/ Len(names) = WorkProbe)
         /\ phase' = "inspecting" /\ unread' = names /\ kept' = <<>> /\ cursor' = 0
         /\ result' = result
  BY <1>2
<1> HIDE DEF names
<1>5. Goes /\ tally' = tally
  BY DEF GroupLagPage, Goes, asked_for, history
<1>6. page \in Seq(Names)
  <2>1. listing \in Seq(Names)
    BY <1>1, AtWork
  <2> QED
    BY <2>1, ScanPageIsDistinct
<1>7. CountInv'
  BY <1>2, <1>5, <1>6, CursorsAreBounded
<1>8. result.kind = "none" /\ budget.max_items \in Nat
  BY <1>1, AtWork
<1>9. returned \subseteq Range(kept) /\ ~tally.truncated /\ ~tally.failed
  BY <1>1 DEF HInv, ScanInv
<1>10. CASE phase' = "over" /\ result' = Failed
  BY <1>1, <1>5, <1>7, <1>10, FailedTells, OverCounts
<1>11. CASE /\ next # 0 /\ Len(names) # WorkProbe
            /\ kept' = names /\ phase' = phase /\ result' = result
  <2>1. MethodInv' /\ HistoryInv'
    BY <1>1, <1>5, <1>11, GoesOn
  <2>2. how'.by \notin {"rows", "watermarks", "schema", "queues", "streams", "stream_lag"}
    BY <1>1, <1>5 DEF Goes
  <2>3. WorkProbe' = WorkProbe
    BY <1>5 DEF Goes, WorkProbe
  <2>4. Len(names) < WorkProbe
    <3>1. WorkProbe \in Nat /\ Len(names) \in Nat
      BY <1>1, <1>3, WorkProbes
    <3> QED
      BY <1>3, <1>11, <3>1
  <2>5. returned' \subseteq Range(kept')
    BY <1>2, <1>3, <1>9, <1>11
  <2>6. ScanInv'
    BY <1>3, <1>5, <1>9, <1>11, <2>3, <2>4, <2>5 DEF ScanInv, Goes
  <2>7. StreamInv' /\ PageInv' /\ ExportInv' /\ InspectInv'
    BY <1>1, <1>11, <2>2 DEF StreamInv, PageInv, ExportInv, InspectInv
  <2>8. TruncationIsHonest'
    BY <1>8, <1>11, SilentAnswers
  <2> QED
    BY <1>7, <2>1, <2>6, <2>7, <2>8 DEF HInv
<1>12. CASE /\ ~overflow /\ (next = 0 \/ Len(names) = WorkProbe)
            /\ phase' = "inspecting" /\ unread' = names /\ kept' = <<>> /\ cursor' = 0
            /\ result' = result
  <2>1. MethodInv' /\ HistoryInv'
    BY <1>1, <1>5, <1>12, GoesOn DEF Working
  <2>2. StreamInv' /\ ScanInv' /\ PageInv' /\ ExportInv'
    BY <1>12 DEF StreamInv, ScanInv, PageInv, ExportInv
  <2>3. Range(<<>>) = {} /\ IsInjective(<<>>)
    BY DEF Range, IsInjective
  <2>4. Both(kept, unread)' /\ Range(unread') \subseteq ever' /\ Range(kept') \subseteq Visible(ever)'
    BY <1>3, <1>5, <1>12, <2>3 DEF Both, Goes
  <2>5. \/ Visible(always) \subseteq Range(names)
        \/ Len(names) > budget.max_items
    <3>1. CASE Len(names) = WorkProbe
      BY <1>1, <1>3, <3>1, WorkProbes DEF Working
    <3>2. CASE Len(names) # WorkProbe
      <4>1. Range(kept) \cup Range(page) \subseteq Range(names)
        BY <1>3, <3>2
      <4>2. always \subseteq returned \cup Range(page)
        BY <1>2, <1>12, <3>2 DEF Completes
      <4>3. Visible(always) \subseteq always
        BY VisibleNames
      <4> QED
        BY <1>9, <4>1, <4>2, <4>3
    <3> QED
      BY <3>1, <3>2
  <2>6. /\ cursor' <= budget'.max_items
        /\ \/ Visible(always)' \subseteq Range(kept') \cup Range(unread')
           \/ cursor' + Len(unread') > budget'.max_items
    <3>1. budget' = budget /\ Visible(always)' = Visible(always)
      BY <1>5 DEF Goes, Visible
    <3>2. cursor' <= budget'.max_items
      BY <1>8, <1>12, <3>1
    <3>3. Len(names) \in Nat
      BY <1>3
    <3>4. 0 + Len(names) = Len(names)
      BY <3>3
    <3> QED
      BY <1>12, <2>5, <3>1, <3>2, <3>4
  <2>7. InspectInv'
    BY <2>4, <2>6 DEF InspectInv
  <2>8. TruncationIsHonest'
    BY <1>8, <1>12, SilentAnswers
  <2> QED
    BY <1>7, <2>1, <2>2, <2>7, <2>8 DEF HInv
<1> QED
  BY <1>4, <1>10, <1>11, <1>12

\* What a script says of a stream whose groups it has all looked at.
LEMMA ScriptTells ==
  ASSUME NEW x, NEW probe \in Nat, NEW scan \in GroupScans(Visible({x}), probe), scan.status # -1
  PROVE  scan.inspected \in Nat /\ (scan.status = 1 <=> x \in Visible({x}))
<1>1. PICK n \in Cardinality(Visible({x}))..MaxGroups :
        scan = [status |-> IF n >= probe THEN -1 ELSE Cardinality(Visible({x})),
                inspected |-> AtMost(n, probe)]
  BY DEF GroupScans
<1>2. scan.status = Cardinality(Visible({x})) /\ scan.inspected = AtMost(n, probe)
  BY <1>1
<1>3. Visible({x}) = {} \/ Visible({x}) = {x}
  BY DEF Visible
<1>4. CASE Visible({x}) = {}
  <2>1. Cardinality(Visible({x})) = 0
    BY <1>4, FS_EmptySet
  <2>2. n \in Nat
    BY <2>1
  <2> QED
    BY <1>2, <1>4, <2>1, <2>2 DEF AtMost
<1>5. CASE Visible({x}) = {x}
  <2>1. Cardinality(Visible({x})) = 1
    BY <1>5, FS_Singleton
  <2>2. n \in Nat
    BY <2>1
  <2> QED
    BY <1>2, <1>5, <2>1, <2>2 DEF AtMost
<1> QED
  BY <1>3, <1>4, <1>5

\* The next stream is inspected, and shown if it has the group.
LEMMA GroupLagStreamTells ==
  ASSUME IInv, HInv, GroupLagStream
  PROVE  HInv'
<1> DEFINE row == Head(unread)
<1>1. phase = "inspecting" /\ unread # <<>> /\ phase \in Working \cup {"closing"}
  BY DEF GroupLagStream, Working
<1>2. PICK scan \in GroupScans(Visible({row}), budget.max_items - cursor) :
        \/ phase' = "over" /\ result' = Failed
        \/ /\ cursor + 1 + scan.inspected <= budget.max_items /\ scan.status # -1
           /\ unread' = Tail(unread) /\ kept' = kept \o IF scan.status = 1 THEN <<row>> ELSE <<>>
           /\ cursor' = cursor + 1 + scan.inspected
           /\ phase' = phase /\ result' = result
  BY DEF GroupLagStream, WorkFits
<1>3. Goes /\ UNCHANGED <<cursors, returned>>
  BY DEF GroupLagStream, Goes, asked_for, history
<1>4. kept \in Seq(Names) /\ unread \in Seq(Names) /\ budget.max_items \in Nat /\ cursor \in Nat
      /\ result.kind = "none"
  BY <1>1, AtWork
<1>5. /\ Both(kept, unread) /\ Range(unread) \subseteq ever /\ Range(kept) \subseteq Visible(ever)
      /\ cursor <= budget.max_items /\ always \subseteq ever
      /\ \/ Visible(always) \subseteq Range(kept) \cup Range(unread)
         \/ cursor + Len(unread) > budget.max_items
  BY <1>1 DEF HInv, InspectInv, HistoryInv
<1>6. budget.max_items - cursor \in Nat
  BY <1>4, <1>5
<1>7. CASE phase' = "over" /\ result' = Failed
  BY <1>1, <1>3, <1>7, FailedTells, OverTells
<1>8. CASE /\ cursor + 1 + scan.inspected <= budget.max_items /\ scan.status # -1
           /\ unread' = Tail(unread) /\ kept' = kept \o IF scan.status = 1 THEN <<row>> ELSE <<>>
           /\ cursor' = cursor + 1 + scan.inspected
           /\ phase' = phase /\ result' = result
  <2>1. scan.inspected \in Nat /\ (scan.status = 1 <=> row \in Visible({row}))
    BY <1>6, <1>8, ScriptTells
  <2>2. /\ Both(kept, Tail(unread)) /\ Range(Tail(unread)) \subseteq ever
        /\ Visible(always) \subseteq Range(kept) \cup Range(unread) =>
             /\ row \notin Visible({row}) =>
                  Visible(always) \subseteq Range(kept) \cup Range(Tail(unread))
             /\ Visible(always) \subseteq Range(kept \o <<row>>) \cup Range(Tail(unread))
        /\ Both(kept \o <<row>>, Tail(unread))
        /\ row \in Visible({row}) => Range(kept \o <<row>>) \subseteq Visible(ever)
    BY <1>1, <1>4, <1>5, NextTells
  <2>3. kept' = IF row \in Visible({row}) THEN kept \o <<row>> ELSE kept
    <3>1. kept \o <<>> = kept
      BY <1>4
    <3>2. CASE scan.status = 1
      BY <1>8, <2>1, <3>2
    <3>3. CASE scan.status # 1
      BY <1>8, <2>1, <3>1, <3>3
    <3> QED
      BY <3>2, <3>3
  <2>4. Len(Tail(unread)) = Len(unread) - 1 /\ Len(unread) \in Nat
    BY <1>1, <1>4
  <2> HIDE DEF row
  <2>5. /\ Both(kept', unread') /\ Range(kept') \subseteq Visible(ever) /\ Range(unread') \subseteq ever
        /\ Visible(always) \subseteq Range(kept) \cup Range(unread) =>
             Visible(always) \subseteq Range(kept') \cup Range(unread')
    BY <1>5, <1>8, <2>2, <2>3
  <2>6. cursor' <= budget.max_items
    BY <1>8
  <2>7. cursor + Len(unread) > budget.max_items => cursor' + Len(unread') > budget.max_items
    <3>1. \A c, l, i, m \in Nat : c + l > m => (c + 1 + i) + (l - 1) > m
      OBVIOUS
    <3>2. cursor + Len(unread) > budget.max_items =>
            (cursor + 1 + scan.inspected) + (Len(unread) - 1) > budget.max_items
      BY <1>4, <2>1, <2>4, <3>1
    <3> QED
      BY <1>8, <2>4, <3>2
  <2>8. \/ Visible(always) \subseteq Range(kept') \cup Range(unread')
        \/ cursor' + Len(unread') > budget.max_items
    BY <1>5, <2>5, <2>7
  <2>9. /\ Visible(ever)' = Visible(ever) /\ Visible(always)' = Visible(always)
        /\ ever' = ever /\ budget' = budget
    BY <1>3 DEF Goes, Visible
  <2>10. InspectInv'
    <3>1. Both(kept, unread)'
      BY <2>5 DEF Both
    <3> QED
      BY <2>5, <2>6, <2>8, <2>9, <3>1 DEF InspectInv
  <2>11. MethodInv' /\ HistoryInv'
    BY <1>1, <1>3, <1>8, GoesOn
  <2>12. StreamInv' /\ ScanInv' /\ PageInv' /\ ExportInv'
    BY <1>1, <1>8 DEF StreamInv, ScanInv, PageInv, ExportInv
  <2>13. TruncationIsHonest'
    BY <1>4, <1>8, SilentAnswers
  <2>14. CountInv'
    BY <1>3 DEF HInv, CountInv, Goes
  <2> QED
    BY <2>10, <2>11, <2>12, <2>13, <2>14 DEF HInv
<1> QED
  BY <1>2, <1>7, <1>8

\* All streams were inspected, or the scan saw too many.
LEMMA GroupLagEndsTells ==
  ASSUME IInv, HInv, GroupLagEnds
  PROVE  HInv'
<1> DEFINE answer == IF MetadataFits(budget, Rows(kept)) THEN Exact(kept) ELSE Failed
<1>1. phase = "inspecting" /\ unread = <<>> /\ phase \in Working \cup {"closing"} /\ EndWith(answer)
  BY DEF GroupLagEnds, Working
<1>2. cursor \in Nat /\ budget.max_items \in Nat
  BY <1>1, AtWork
<1>3. /\ IsInjective(kept) /\ Range(kept) \subseteq Visible(ever)
      /\ cursor <= budget.max_items
      /\ \/ Visible(always) \subseteq Range(kept) \cup Range(unread)
         \/ cursor + Len(unread) > budget.max_items
  BY <1>1 DEF HInv, InspectInv, Both
<1>4. Range(unread) = {} /\ ~(cursor + Len(unread) > budget.max_items)
  <2>1. Range(<<>>) = {}
    BY DEF Range
  <2>2. cursor + 0 = cursor /\ Len(<<>>) = 0
    BY <1>2
  <2> QED
    BY <1>1, <1>2, <1>3, <2>1, <2>2
<1>5. Visible(always) \subseteq Range(kept)
  BY <1>3, <1>4
<1>6. result' = answer
  BY <1>1 DEF EndWith
<1>7. Goes => TruncationIsHonest'
  BY <1>3, <1>5, <1>6, ExactTells, FailedTells
<1> QED
  BY <1>1, <1>7, EndsTells DEF Working
-----------------------------------------------------------------------------
(* Exports: a scan, then key by key *)

\* An answer that stays what it is.
LEMMA SameTells ==
  ASSUME HInv, Goes, result' = result, result.kind # "Table"
  PROVE  TruncationIsHonest'
<1>1. Visible(ever)' = Visible(ever) /\ Visible(always)' = Visible(always)
  BY DEF Goes, Visible
<1> QED
  BY <1>1 DEF HInv, TruncationIsHonest, Goes

\* One key of an export: it is there and read, or it is gone.
LEMMA OneEntry ==
  ASSUME NEW x \in Names, NEW set
  PROVE  /\ Among(<<x>>, set) \in Seq(Names) /\ IsInjective(Among(<<x>>, set))
         /\ Range(Among(<<x>>, set)) \subseteq {x} /\ Len(Among(<<x>>, set)) <= 1
         /\ Len(Among(<<x>>, set)) # 0 => x \in Range(Among(<<x>>, set))
<1> DEFINE one == <<x>>
<1>1. one \in Seq(Names) /\ Range(one) = {x} /\ IsInjective(one) /\ Len(one) = 1
  BY OneName
<1> HIDE DEF one
<1>2. /\ Among(one, set) \in Seq(Names) /\ IsInjective(Among(one, set))
      /\ Range(Among(one, set)) = {x} \cap set
  BY <1>1, AmongKeeps
<1>3. Len(Among(one, set)) <= 1
  BY <1>1, AmongType
<1>4. Len(Among(one, set)) # 0 => x \in Range(Among(one, set))
  <2>1. \A s \in Seq(Names) : Len(s) # 0 => s[1] \in Range(s)
    BY DEF Range
  <2> QED
    BY <1>2, <2>1
<1> QED
  BY <1>2, <1>3, <1>4 DEF one

\* The next key is exported, or is gone meanwhile.
LEMMA ExportEntryTells ==
  ASSUME IInv, HInv, ExportEntry
  PROVE  HInv'
<1> DEFINE row == Head(unread)
           entry == Among(<<row>>, Range(listing))
<1>1. /\ phase = "exporting" /\ unread # <<>> /\ unread' = Tail(unread)
      /\ \/ phase' = "over" /\ result' = Failed
         \/ kept' = kept \o entry /\ phase' = phase /\ result' = result
      /\ Goes /\ UNCHANGED <<cursors, returned>>
  BY DEF ExportEntry, Goes, asked_for, history, traversal
<1>2. phase \in Working \cup {"closing"}
  BY <1>1 DEF Working
<1>3. kept \in Seq(Names) /\ unread \in Seq(Names) /\ result \in ResultType /\ result.kind = "List"
  BY <1>1, <1>2, AtWork
<1>4. /\ IsInjective(kept) /\ IsInjective(unread) /\ Range(kept) \cap Range(unread) = {}
      /\ Range(kept) \cup Range(unread) \subseteq Range(result.items)
      /\ Len(kept) + Len(unread) <= Len(result.items)
      /\ Len(kept) + Len(unread) = Len(result.items) =>
           Range(result.items) \subseteq Range(kept) \cup Range(unread)
  BY <1>1 DEF HInv, ExportInv, Both
<1>5. row \in Names /\ Tail(unread) \in Seq(Names)
  BY <1>1, <1>3, HeadTail
<1>6. /\ Range(unread) = {row} \cup Range(Tail(unread)) /\ Len(Tail(unread)) = Len(unread) - 1
      /\ IsInjective(Tail(unread)) /\ row \notin Range(Tail(unread))
  BY <1>1, <1>3, <1>4, TailKeeps
<1>7. /\ entry \in Seq(Names) /\ IsInjective(entry)
      /\ Range(entry) \subseteq {row} /\ Len(entry) <= 1
      /\ Len(entry) # 0 => row \in Range(entry)
  BY <1>5, OneEntry
<1> HIDE DEF entry, row
<1>8. CASE phase' = "over" /\ result' = Failed
  BY <1>1, <1>2, <1>8, FailedTells, OverTells
<1>9. CASE kept' = kept \o entry /\ phase' = phase /\ result' = result
  <2>1. Range(kept) \cap Range(entry) = {}
    BY <1>4, <1>6, <1>7
  <2>2. /\ kept' \in Seq(Names) /\ Len(kept') = Len(kept) + Len(entry)
        /\ Range(kept') = Range(kept) \cup Range(entry) /\ IsInjective(kept')
    BY <1>3, <1>4, <1>7, <1>9, <2>1, ConcatenationKeeps
  <2>3. /\ IsInjective(kept') /\ IsInjective(unread') /\ Range(kept') \cap Range(unread') = {}
        /\ Range(kept') \cup Range(unread') \subseteq Range(result'.items)
    BY <1>1, <1>4, <1>6, <1>7, <1>9, <2>2
  <2>4. /\ Len(kept) \in Nat /\ Len(unread) \in Nat /\ Len(entry) \in Nat /\ Len(unread) > 0
        /\ Len(result.items) \in Nat
    BY <1>1, <1>3, <1>7 DEF ResultType
  <2>5. \A k, u, e, r \in Nat : e <= 1 /\ k + u <= r =>
          /\ (k + e) + (u - 1) <= r
          /\ (k + e) + (u - 1) = r => e # 0 /\ k + u = r
    OBVIOUS
  <2>6. /\ (Len(kept) + Len(entry)) + (Len(unread) - 1) <= Len(result.items)
        /\ (Len(kept) + Len(entry)) + (Len(unread) - 1) = Len(result.items) =>
             Len(entry) # 0 /\ Len(kept) + Len(unread) = Len(result.items)
    BY <1>4, <1>7, <2>4, <2>5
  <2>7. /\ Len(kept') + Len(unread') <= Len(result'.items)
        /\ Len(kept') + Len(unread') = Len(result'.items) =>
             Len(entry) # 0 /\ Len(kept) + Len(unread) = Len(result.items)
    BY <1>1, <1>6, <1>9, <2>2, <2>6
  <2>8. Len(kept') + Len(unread') = Len(result'.items) =>
             Range(result'.items) \subseteq Range(kept') \cup Range(unread')
    BY <1>1, <1>4, <1>6, <1>7, <1>9, <2>2, <2>7
  <2>9. ExportInv'
    <3>1. Both(kept, unread)'
      BY <2>3 DEF Both
    <3> QED
      BY <2>3, <2>7, <2>8, <3>1 DEF ExportInv
  <2>10. MethodInv' /\ HistoryInv'
    BY <1>1, <1>2, <1>9, GoesOn
  <2>11. StreamInv' /\ ScanInv' /\ PageInv' /\ InspectInv'
    BY <1>1, <1>9 DEF StreamInv, ScanInv, PageInv, InspectInv
  <2>12. TruncationIsHonest'
    BY <1>1, <1>3, <1>9, SameTells
  <2>13. CountInv'
    BY <1>1 DEF HInv, CountInv, Goes
  <2> QED
    BY <2>9, <2>10, <2>11, <2>12, <2>13 DEF HInv
<1> QED
  BY <1>1, <1>8, <1>9

\* An export is complete if the scan was and no key was missing.
LEMMA ExportEndsTells ==
  ASSUME IInv, HInv, ExportEnds
  PROVE  HInv'
<1> DEFINE cut == result.truncated \/ Len(kept) # Len(result.items)
           artifact == [kind |-> "Artifact", items |-> kept, truncated |-> cut]
           answer == IF Finishes(tally, budget, Rows(kept)) THEN artifact ELSE Failed
<1>1. phase = "exporting" /\ unread = <<>> /\ phase \in Working \cup {"closing"} /\ EndWith(answer)
  BY DEF ExportEnds, Working
<1>2. kept \in Seq(Names) /\ result.kind = "List"
  BY <1>1, AtWork
<1>3. /\ IsInjective(kept) /\ Range(kept) \cup Range(unread) \subseteq Range(result.items)
      /\ Len(kept) + Len(unread) = Len(result.items) =>
           Range(result.items) \subseteq Range(kept) \cup Range(unread)
  BY <1>1 DEF HInv, ExportInv, Both
<1>4. /\ Range(result.items) \subseteq Visible(ever)
      /\ ~result.truncated => \/ Visible(always) \subseteq Range(result.items)
                              \/ how.by \in Pages /\ shrunk
  BY <1>2 DEF HInv, TruncationIsHonest
<1>5. Len(kept) = Len(result.items) => Range(result.items) \subseteq Range(kept)
  <2>1. Range(<<>>) = {} /\ Len(<<>>) = 0 /\ Len(kept) + 0 = Len(kept)
    BY <1>2 DEF Range
  <2> QED
    BY <1>1, <1>3, <2>1
<1>6. /\ Range(kept) \subseteq Visible(ever)
      /\ ~cut => \/ Visible(always) \subseteq Range(kept)
                 \/ how.by \in Pages /\ shrunk
  BY <1>3, <1>4, <1>5
<1>7. result' = answer
  BY <1>1 DEF EndWith
<1>8. CASE answer = artifact
  <2>1. result'.kind = "Artifact" /\ result'.items = kept /\ result'.truncated = cut
    BY <1>7, <1>8
  <2> HIDE DEF cut
  <2>2. Goes => TruncationIsHonest'
    BY <1>3, <1>6, <2>1, ListTells
  <2> QED
    BY <1>1, <2>2, EndsTells DEF Working
<1>9. CASE answer = Failed
  <2>1. TruncationIsHonest'
    BY <1>7, <1>9, FailedTells
  <2> QED
    BY <1>1, <2>1, EndsTells DEF Working
<1> QED
  BY <1>8, <1>9
-----------------------------------------------------------------------------
(* Pages by number and by offset *)

\* What was seen up to a place was seen up to an earlier one.
LEMMA SeenLess ==
  ASSUME listing \in Seq(Names), NEW p \in Nat, NEW q \in Nat, q <= p, NEW seen, SeenTo(p, seen)
  PROVE  SeenTo(q, seen)
<1>1. \A i \in DOMAIN listing : i <= q => i <= p
  OBVIOUS
<1> QED
  BY <1>1 DEF SeenTo

\* A page by offset: what stands in front of its end has been seen.
LEMMA OffsetPage ==
  ASSUME listing \in Seq(Names), IsInjective(listing), NEW offset \in Nat, NEW size \in Nat,
         NEW seen, SeenTo(offset, seen)
  PROVE  /\ From(offset, size) \in Seq(Names) /\ IsInjective(From(offset, size))
         /\ Range(From(offset, size)) \subseteq Range(listing)
         /\ Len(From(offset, size)) <= size
         /\ SeenTo(offset + size, seen \cup Range(From(offset, size)))
<1> DEFINE last == AtMost(offset + size, Len(listing))
           page == SubSeq(listing, offset + 1, last)
<1>1. /\ last \in Nat /\ last <= Len(listing) /\ last <= offset + size /\ offset + 1 \in Nat \ {0}
      /\ \A i \in DOMAIN listing : i <= offset + size => i <= last
  BY DEF AtMost
<1> HIDE DEF last
<1>2. /\ page \in Seq(Names)
      /\ \A i \in DOMAIN listing : i \in (offset + 1)..last => listing[i] \in Range(page)
      /\ Range(page) \subseteq Range(listing) /\ IsInjective(page)
  BY <1>1, PartKeeps
<1>3. Len(page) <= size
  BY <1>1
<1> HIDE DEF page
<1>4. SeenTo(offset + size, seen \cup Range(page))
  <2>1. \A i \in DOMAIN listing : i <= offset + size => i <= offset \/ i \in (offset + 1)..last
    BY <1>1
  <2> QED
    BY <1>2, <2>1 DEF SeenTo
<1>5. From(offset, size) = page
  BY DEF From, page, last
<1> QED
  BY <1>2, <1>3, <1>4, <1>5

\* Everything that was there all the time has been seen at the end.
LEMMA SeenAll ==
  ASSUME HInv, listing \in Seq(Names), NEW place \in Nat, place >= Len(listing), NEW seen,
         SeenTo(place, seen)
  PROVE  always \subseteq seen \/ shrunk
<1>1. always \subseteq Range(listing)
  BY DEF HInv, HistoryInv
<1>2. \A x \in Range(listing) : \E i \in DOMAIN listing : x = listing[i] /\ i <= place
  BY DEF Range
<1> QED
  BY <1>1, <1>2 DEF SeenTo

\* What a page of queues or streams adds.
LEMMA PagesTell ==
  ASSUME IInv, HInv, phase = "reading", how.by \in {"queues", "streams"},
         NEW offset \in Nat, NEW size \in Nat, SeenTo(offset, Range(kept)),
         NEW taken,
         taken = SubSeq(From(offset, size), 1,
                        AtMost(Probe(budget.max_items) - tally.observed, Len(From(offset, size)))),
         NEW fails, ~fails => ~Repeats(taken, Range(kept)),
         NEW ends, ends => offset + size >= Len(listing), NEW next,
         Traverse(taken, fails, ends, next), UNCHANGED <<cursors, returned>>,
         NEW place \in Nat, Place' = place, place <= offset + size
  PROVE  HInv'
<1> DEFINE page == From(offset, size)
           read == Observed(taken)
<1>1. phase \in Working \cup {"closing"}
  BY DEF Working
<1>2. /\ kept \in Seq(Names) /\ listing \in Seq(Names)
      /\ budget.max_items \in Nat /\ budget.max_bytes \in Nat
      /\ Within(tally, budget) /\ tally.observed \in Nat
  BY <1>1, AtWork DEF LimiterType
<1>3. /\ IsInjective(kept) /\ Range(kept) \subseteq ever /\ ~tally.truncated /\ ~tally.failed
      /\ tally.observed = Len(kept) /\ Len(kept) <= budget.max_items
      /\ IsInjective(listing) /\ Range(listing) \subseteq ever /\ always \subseteq ever
  BY DEF HInv, ScanInv, PageInv, HistoryInv
<1>4. Probe(budget.max_items) = budget.max_items + 1
  <2>1. ~how.whole
    BY DEF HInv, MethodInv
  <2>2. ProbeLimit(budget.max_items)
    BY <1>1, <2>1 DEF HInv, MethodInv
  <2> QED
    BY <1>2, <2>2, ProbeIsNext
<1>5. Probe(budget.max_items) - tally.observed = budget.max_items + 1 - Len(kept)
      /\ budget.max_items + 1 - Len(kept) \in Nat
  BY <1>2, <1>3, <1>4
<1>6. /\ page \in Seq(Names) /\ IsInjective(page) /\ Range(page) \subseteq Range(listing)
      /\ SeenTo(offset + size, Range(kept) \cup Range(page))
  BY <1>2, <1>3, OffsetPage
<1> HIDE DEF page
<1>7. /\ taken \in Seq(Names) /\ Range(taken) \subseteq Range(page) /\ IsInjective(taken)
      /\ Len(taken) # budget.max_items + 1 - Len(kept) => taken = page
  <2>1. taken = SubSeq(page, 1, AtMost(budget.max_items + 1 - Len(kept), Len(page)))
    BY <1>5 DEF page
  <2> QED
    BY <1>5, <1>6, <2>1, RoomFor
<1>8. Range(taken) \subseteq ever
  BY <1>3, <1>6, <1>7
<1>9. Observed(taken) \in Gathered(taken, Len(taken)) /\ Names1(taken, Len(taken)) = Range(taken)
  BY <1>2, <1>3, <1>7, ObservedGathers
<1>10. Goes
  BY DEF Traverse, Goes, asked_for, history
<1>11. CountInv'
  BY <1>10 DEF HInv, CountInv, Goes
<1> HIDE DEF read
<1>12. ASSUME ~fails, ~read.tally.truncated, ~read.tally.failed
       PROVE  /\ SeenTo(offset + size, Range(kept) \cup Range(taken))
              /\ read.tally.observed = Len(read.kept) /\ Len(read.kept) <= budget.max_items
              /\ read.kept \in Seq(Names) /\ IsInjective(read.kept)
              /\ Range(kept) \cup Range(taken) \subseteq Range(read.kept)
              /\ Range(read.kept) \subseteq Range(kept) \cup Range(taken)
  <2>1. New(taken)
    BY <1>7, <1>12 DEF New, Repeats
  <2>2. /\ read.kept \in Seq(Names) /\ read.tally \in LimiterType
        /\ IsInjective(read.kept) /\ Range(kept) \subseteq Range(read.kept)
        /\ Range(read.kept) \subseteq Range(kept) \cup Range(taken)
        /\ Range(taken) \subseteq Range(read.kept)
        /\ AsMany(read.tally.observed, Len(read.kept), Len(kept), tally.observed)
        /\ read.tally.observed <= budget.max_items
        /\ Len(read.kept) = Len(kept) + Len(taken)
    BY <1>3, <1>9, <1>12, <2>1 DEF Gathered, Takes, read
  <2>3. read.tally.observed \in Nat /\ Len(read.kept) \in Nat /\ Len(kept) \in Nat /\ Len(taken) \in Nat
    <3>1. read.tally.observed \in Nat
      BY <2>2 DEF LimiterType
    <3>2. Len(read.kept) \in Nat
      <4>1. \A s \in Seq(Names) : Len(s) \in Nat
        OBVIOUS
      <4> QED
        BY <2>2, <4>1
    <3>3. Len(kept) \in Nat /\ Len(taken) \in Nat
      BY <1>2, <1>7
    <3> QED
      BY <3>1, <3>2, <3>3
  <2>4. read.tally.observed = Len(read.kept)
    <3>1. \A a, b, c \in Nat : a + c = c + b => a = b
      OBVIOUS
    <3>2. read.tally.observed + Len(kept) = Len(kept) + Len(read.kept)
      BY <1>3, <2>2 DEF AsMany
    <3> QED
      BY <2>3, <3>1, <3>2
  <2>5. Len(taken) # budget.max_items + 1 - Len(kept)
    <3>1. \A k, t, m \in Nat : k + t <= m => t # m + 1 - k
      OBVIOUS
    <3>2. Len(kept) + Len(taken) <= budget.max_items
      BY <2>2, <2>4
    <3> QED
      BY <1>2, <2>3, <3>1, <3>2
  <2>6. taken = page
    BY <1>7, <2>5
  <2> QED
    BY <1>6, <2>2, <2>4, <2>6
<1>13. ASSUME ~fails, ends, ~read.tally.truncated, ~read.tally.failed
       PROVE  always \subseteq Range(kept) \cup Range(taken) \/ (how.by \in Pages /\ shrunk)
  <2>1. SeenTo(offset + size, Range(kept) \cup Range(taken))
    BY <1>12, <1>13
  <2>2. offset + size \in Nat /\ offset + size >= Len(listing)
    BY <1>13
  <2>3. always \subseteq Range(kept) \cup Range(taken) \/ shrunk
    BY <1>2, <2>1, <2>2, SeenAll
  <2> QED
    BY <2>3 DEF Pages
<1>14. ASSUME ~fails, ~ends, phase' = "reading", ~read.tally.failed, ~read.tally.truncated,
              tally' = read.tally, kept' = read.kept
       PROVE  ScanInv' /\ PageInv'
  <2>1. /\ SeenTo(offset + size, Range(kept) \cup Range(taken))
        /\ read.tally.observed = Len(read.kept) /\ Len(read.kept) <= budget.max_items
        /\ read.kept \in Seq(Names) /\ IsInjective(read.kept)
        /\ Range(kept) \cup Range(taken) \subseteq Range(read.kept)
        /\ Range(read.kept) \subseteq Range(kept) \cup Range(taken)
    BY <1>12, <1>14
  <2>2. how'.by \in {"queues", "streams"} /\ budget' = budget
        /\ ever' = ever /\ listing' = listing /\ always' = always /\ shrunk' = shrunk
    BY <1>10 DEF Goes
  <2>3. SeenTo(Place, Range(kept))'
    <3>1. SeenTo(offset + size, Range(read.kept))
      BY <2>1 DEF SeenTo
    <3>2. offset + size \in Nat
      OBVIOUS
    <3>3. SeenTo(place, Range(read.kept))
      BY <1>2, <3>1, <3>2, SeenLess
    <3> QED
      BY <1>14, <2>2, <3>3 DEF SeenTo
  <2>4. PageInv'
    BY <1>14, <2>1, <2>2, <2>3 DEF PageInv
  <2>5. ScanInv'
    BY <1>3, <1>8, <1>14, <2>1, <2>2 DEF ScanInv, Scans
  <2> QED
    BY <2>4, <2>5
<1> QED
  BY <1>7, <1>8, <1>11, <1>13, <1>14, TraverseTells DEF read

LEMMA NatsPageTells ==
  ASSUME IInv, HInv, NatsPage
  PROVE  HInv'
<1> DEFINE page  == From(cursor, PageMax)
           taken == SubSeq(page, 1, AtMost(Probe(budget.max_items) - tally.observed, Len(page)))
<1>1. phase = "reading" /\ how.by = "streams" /\ phase \in Working \cup {"closing"}
  BY DEF NatsPage, Working
<1>2. /\ Traverse(taken, Repeats(taken, Range(kept)), cursor + Len(page) >= Len(listing),
                  cursor + Len(page))
      /\ UNCHANGED <<cursors, returned>>
  BY DEF NatsPage
<1>3. /\ cursor \in Nat /\ listing \in Seq(Names) /\ PageMax \in Nat
  BY <1>1, AtWork, BoundedReadAssumption
<1>4. SeenTo(cursor, Range(kept)) /\ IsInjective(listing)
  BY <1>1 DEF HInv, PageInv, HistoryInv, Place
<1>5. page \in Seq(Names) /\ Len(page) <= PageMax
  BY <1>3, <1>4, OffsetPage
<1>6. /\ cursor + Len(page) \in Nat /\ cursor + Len(page) <= cursor + PageMax
      /\ cursor + Len(page) >= Len(listing) => cursor + PageMax >= Len(listing)
  <2> HIDE DEF page
  <2>1. Len(page) \in Nat /\ Len(listing) \in Nat
    BY <1>3, <1>5
  <2> QED
    BY <1>3, <1>5, <2>1
<1>7. Place' = cursor + Len(page)
  BY <1>1, <1>2 DEF Traverse, Place, asked_for
<1>8. taken = SubSeq(From(cursor, PageMax), 1,
                     AtMost(Probe(budget.max_items) - tally.observed, Len(From(cursor, PageMax))))
  OBVIOUS
<1> DEFINE fails == Repeats(taken, Range(kept))
           ends == cursor + Len(page) >= Len(listing)
           next == cursor + Len(page)
<1>9. /\ ~fails => ~Repeats(taken, Range(kept))
      /\ ends => cursor + PageMax >= Len(listing)
      /\ Traverse(taken, fails, ends, next) /\ Place' = next /\ next \in Nat
      /\ next <= cursor + PageMax
  BY <1>2, <1>6, <1>7
<1> HIDE DEF taken, page, fails, ends, next
<1> QED
  BY <1>1, <1>2, <1>3, <1>4, <1>8, <1>9, PagesTell

\* All pages up to the last one have everything.
LEMMA PageArithmetic ==
  ASSUME NEW l \in Nat, NEW p \in Nat \ {0}, NEW c \in Nat, c > 0
  PROVE  /\ (c - 1) * p \in Nat /\ (c - 1) * p + p = c * p /\ c * p \in Nat
         /\ c >= (l + p - 1) \div p => c * p >= l
  OBVIOUS

LEMMA ManagementPageTells ==
  ASSUME IInv, HInv, ManagementPage
  PROVE  HInv'
<1> DEFINE size == PageSize
           offset == (cursor - 1) * size
           page  == From(offset, size)
           taken == SubSeq(page, 1, AtMost(Probe(budget.max_items) - tally.observed, Len(page)))
           ends == cursor >= PageCount
           next == cursor + 1
<1>1. phase = "reading" /\ how.by = "queues" /\ phase \in Working \cup {"closing"}
  BY DEF ManagementPage, Working
<1>2. PICK answer : Traverse(taken, ~Value(answer) \/ NotThePage(page) \/ Repeats(taken, Range(kept)),
                             ends, next)
  BY DEF ManagementPage
<1> DEFINE fails == ~Value(answer) \/ NotThePage(page) \/ Repeats(taken, Range(kept))
<1>3. UNCHANGED <<cursors, returned>> /\ Traverse(taken, fails, ends, next)
      /\ (~fails => ~Repeats(taken, Range(kept)))
  BY <1>2 DEF ManagementPage
<1>4. /\ cursor \in Nat /\ cursor > 0 /\ listing \in Seq(Names) /\ budget.max_items \in Nat
  BY <1>1, AtWork
<1>5. SeenTo(offset, Range(kept)) /\ IsInjective(listing)
  BY <1>1 DEF HInv, PageInv, HistoryInv, Place
<1>6. size \in Nat \ {0}
  <2>1. ~how.whole
    BY <1>1 DEF HInv, MethodInv
  <2>2. ProbeLimit(budget.max_items)
    BY <1>1, <2>1 DEF HInv, MethodInv
  <2>3. Probe(budget.max_items) = budget.max_items + 1
    BY <1>4, <2>2, ProbeIsNext
  <2> QED
    BY <1>4, <2>3, BoundedReadAssumption DEF PageSize, AtMost
<1>7. ends <=> cursor >= (Len(listing) + size - 1) \div size
  BY DEF PageCount
<1>8. Place' = (cursor' - 1) * size /\ cursor' = cursor + 1
  BY <1>1, <1>2 DEF Traverse, Place, asked_for, PageSize
<1>9. cursor' - 1 = cursor
  BY <1>4, <1>8
<1> HIDE DEF size, ends
<1>10. Place' = cursor * size
  BY <1>8, <1>9
<1>11. /\ offset \in Nat /\ offset + size = cursor * size /\ cursor * size \in Nat
       /\ ends => cursor * size >= Len(listing)
  <2>1. Len(listing) \in Nat
    BY <1>4
  <2> QED
    BY <1>4, <1>6, <1>7, <2>1, PageArithmetic
<1>12. taken = SubSeq(From(offset, size), 1,
                      AtMost(Probe(budget.max_items) - tally.observed, Len(From(offset, size))))
  OBVIOUS
<1> DEFINE place == cursor * size
<1>13. place \in Nat /\ Place' = place /\ place = offset + size
       /\ (ends => offset + size >= Len(listing))
  BY <1>10, <1>11
<1> HIDE DEF taken, page, fails, next, offset, place
<1>14. place <= offset + size
  BY <1>13
<1> QED
  BY <1>1, <1>3, <1>5, <1>6, <1>11, <1>12, <1>13, <1>14, PagesTell

\* Every page must be of the same listing; nothing of it may have been returned before.
LEMMA NatsLagPageTells ==
  ASSUME IInv, HInv, NatsLagPage
  PROVE  HInv'
<1> DEFINE page  == From(cursor, PageMax)
           known == Among(page, Visible(Names))
           lags  == kept \o known
           ends  == cursor >= Len(listing)
<1>1. /\ phase = "reading" /\ how.by = "stream_lag" /\ phase \in Working \cup {"closing"}
      /\ kept' = lags /\ cursor' = cursor + Len(page)
      /\ cursors' = cursors \cup {Len(listing)} /\ returned' = returned \cup Range(page)
      /\ \/ phase' = "over" /\ result' = Failed
         \/ /\ ~Repeats(page, returned) /\ ends
            /\ phase' = "over" /\ result' = Exact(lags)
         \/ /\ ~Repeats(page, returned) /\ ~ends
            /\ phase' = phase /\ result' = result
      /\ Goes
  BY DEF NatsLagPage, Working, Goes, asked_for, history
<1>2. /\ cursor \in Nat /\ listing \in Seq(Names) /\ kept \in Seq(Names) /\ PageMax \in Nat
      /\ result.kind = "none"
  BY <1>1, AtWork, BoundedReadAssumption
<1>3. /\ SeenTo(cursor, returned)
      /\ IsInjective(kept) /\ Range(kept) \subseteq Visible(ever) \cap returned
      /\ Visible(returned) \subseteq Range(kept) /\ returned \subseteq ever
      /\ IsInjective(listing) /\ Range(listing) \subseteq ever
  BY <1>1 DEF HInv, PageInv, HistoryInv, Place
<1>4. /\ page \in Seq(Names) /\ IsInjective(page) /\ Range(page) \subseteq Range(listing)
      /\ Len(page) <= PageMax /\ SeenTo(cursor + PageMax, returned \cup Range(page))
  BY <1>2, <1>3, OffsetPage
<1> HIDE DEF page
<1>5. /\ known \in Seq(Names) /\ IsInjective(known) /\ Range(known) = Range(page) \cap Visible(Names)
  BY <1>4, AmongKeeps
<1> HIDE DEF known
<1>6. /\ lags \in Seq(Names) /\ Range(lags) = Range(kept) \cup Range(known)
      /\ IsInjective(kept) /\ IsInjective(known) /\ Range(kept) \cap Range(known) = {} => IsInjective(lags)
  BY <1>2, <1>5, ConcatenationKeeps
<1> HIDE DEF lags
<1>7. ~Repeats(page, returned) => IsInjective(lags)
  <2>1. ~Repeats(page, returned) => Range(page) \cap returned = {}
    BY DEF Repeats
  <2> QED
    BY <1>3, <1>5, <1>6, <2>1
<1>8. /\ Range(lags) \subseteq Visible(ever) \cap returned'
      /\ Visible(returned') \subseteq Range(lags) /\ returned' \subseteq ever
  <2>1. Range(page) \subseteq Names
    BY <1>4, RangeType
  <2>2. Range(known) \subseteq Visible(ever)
    BY <1>3, <1>4, <1>5 DEF Visible
  <2>3. Visible(returned') \subseteq Visible(returned) \cup Range(known)
    BY <1>1, <1>5, <2>1 DEF Visible
  <2> QED
    BY <1>1, <1>3, <1>4, <1>5, <1>6, <2>2, <2>3
<1>9. CountInv'
  <2>1. Len(listing) <= Cardinality(Names) /\ Len(listing) \in Nat
    BY <1>2, <1>3, DistinctIsListing
  <2>2. Cardinality(Names) \in Nat /\ MaxCursor \in Nat
    BY BoundedReadAssumption, FS_CardinalityType
  <2>3. Len(listing) \in 0..(MaxCursor + Cardinality(Names))
    BY <2>1, <2>2
  <2>4. Range(page) \subseteq Names
    BY <1>4, RangeType
  <2> QED
    BY <1>1, <2>3, <2>4 DEF HInv, CountInv, Goes
<1>10. CASE phase' = "over" /\ result' = Failed
  BY <1>1, <1>9, <1>10, FailedTells, OverCounts
<1>11. CASE ~Repeats(page, returned) /\ ends /\ phase' = "over" /\ result' = Exact(lags)
  <2>1. always \subseteq returned \/ shrunk
    BY <1>2, <1>3, <1>11, SeenAll
  <2>2. always \subseteq returned => Visible(always) \subseteq Visible(returned)
    BY DEF Visible
  <2>3. Visible(always) \subseteq Range(lags) \/ (how.by \in Pages /\ shrunk)
    <3>1. Visible(returned) \subseteq Range(lags)
      BY <1>3, <1>6
    <3> QED
      BY <1>1, <2>1, <2>2, <3>1 DEF Pages
  <2>4. TruncationIsHonest'
    BY <1>1, <1>7, <1>8, <1>11, <2>3, ExactTells
  <2> QED
    BY <1>1, <1>9, <1>11, <2>4, OverCounts
<1>12. CASE ~Repeats(page, returned) /\ ~ends /\ phase' = phase /\ result' = result
  <2>1. MethodInv' /\ HistoryInv'
    BY <1>1, <1>12, GoesOn
  <2>2. how'.by = "stream_lag" /\ phase' = "reading"
    BY <1>1, <1>12 DEF Goes
  <2>3. StreamInv' /\ ScanInv' /\ ExportInv' /\ InspectInv'
    BY <2>2 DEF StreamInv, ScanInv, ExportInv, InspectInv, Scans
  <2>4. SeenTo(Place, returned)'
    <3>1. /\ Len(page) \in Nat /\ cursor + Len(page) \in Nat /\ cursor + PageMax \in Nat
          /\ cursor + Len(page) <= cursor + PageMax
      BY <1>2, <1>4
    <3>2. SeenTo(cursor + Len(page), returned \cup Range(page))
      BY <1>2, <1>4, <3>1, SeenLess
    <3>3. Place' = cursor + Len(page)
      BY <1>1, <2>2 DEF Place
    <3> QED
      BY <1>1, <3>2, <3>3 DEF SeenTo, Goes
  <2>5. Visible(ever)' = Visible(ever) /\ Visible(returned)' = Visible(returned') /\ ever' = ever
    BY <1>1 DEF Goes, Visible
  <2>6. PageInv'
    BY <1>1, <1>7, <1>8, <1>12, <2>2, <2>4, <2>5 DEF PageInv
  <2>7. TruncationIsHonest'
    BY <1>2, <1>12, SilentAnswers
  <2> QED
    BY <1>9, <2>1, <2>3, <2>6, <2>7 DEF HInv
<1> QED
  BY <1>1, <1>10, <1>11, <1>12
-----------------------------------------------------------------------------
(* One answer of which n + 1 items are looked at, or all *)

\* The first n of n + 1 items that were looked at.
LEMMA TakenTells ==
  ASSUME IInv, HInv, phase = "reading", how.by = "catalog",
         NEW n \in Nat, n <= Len(Taken(listing)), n <= budget.max_items
  PROVE  LET part == SubSeq(Taken(listing), 1, n)
         IN /\ part \in Seq(Names) /\ IsInjective(part) /\ Len(part) = n
            /\ Range(part) \subseteq Visible(ever)
            /\ n < Len(Taken(listing)) => ever \ Range(part) # {}
            /\ n = Len(Taken(listing)) => Visible(always) \subseteq Range(part)
<1> DEFINE taken == Taken(listing)
           part == SubSeq(taken, 1, n)
           rest == SubSeq(taken, n + 1, Len(taken))
<1>1. phase \in Working \cup {"closing"}
  BY DEF Working
<1>2. listing \in Seq(Names) /\ budget.max_items \in Nat
  BY <1>1, AtWork
<1>3. IsInjective(listing) /\ Range(listing) \subseteq ever /\ always \subseteq Range(listing) /\ ~how.hides
      /\ ~how.whole
  BY DEF HInv, HistoryInv, MethodInv
<1>4. Probe(budget.max_items) = budget.max_items + 1
  <2>1. ProbeLimit(budget.max_items)
    BY <1>1, <1>3 DEF HInv, MethodInv
  <2> QED
    BY <1>2, <2>1, ProbeIsNext
<1>5. /\ taken \in Seq(Names) /\ IsInjective(taken) /\ Range(taken) \subseteq Range(listing)
      /\ Len(taken) # budget.max_items + 1 => taken = listing
  <2>1. taken = SubSeq(listing, 1, AtMost(budget.max_items + 1, Len(listing)))
    BY <1>4 DEF Taken
  <2>2. budget.max_items + 1 \in Nat
    BY <1>2
  <2> HIDE DEF taken
  <2> QED
    BY <1>2, <1>3, <2>1, <2>2, RoomFor
<1>6. Visible(ever) = ever /\ Visible(always) = always
  BY <1>3 DEF Visible
<1>7. n <= Len(taken)
  OBVIOUS
<1> HIDE DEF taken
<1>8. /\ part \in Seq(Names) /\ rest \in Seq(Names) /\ Len(part) = n /\ Len(rest) = Len(taken) - n
      /\ Range(taken) = Range(part) \cup Range(rest)
      /\ IsInjective(part) /\ Range(part) \cap Range(rest) = {}
  BY <1>5, <1>7, SplitKeeps
<1>9. ASSUME n < Len(taken)
      PROVE  ever \ Range(part) # {}
  <2>1. Len(rest) > 0
    BY <1>5, <1>8, <1>9
  <2> HIDE DEF rest, part
  <2>2. rest[1] \in Range(rest)
    BY <1>8, <2>1 DEF Range
  <2> QED
    BY <1>3, <1>5, <1>8, <2>2
<1>10. ASSUME n = Len(taken)
       PROVE  always \subseteq Range(part)
  <2>1. part = taken
    BY <1>5, <1>10
  <2>2. Len(taken) # budget.max_items + 1
    BY <1>2, <1>10
  <2> QED
    BY <1>3, <1>5, <2>1, <2>2
<1>11. part = SubSeq(Taken(listing), 1, n) /\ taken = Taken(listing)
  BY DEF taken
<1> HIDE DEF part
<1> QED
  BY <1>3, <1>5, <1>6, <1>8, <1>9, <1>10, <1>11

LEMMA CatalogListTells ==
  ASSUME IInv, HInv, CatalogList
  PROVE  HInv'
<1> DEFINE n == IF Len(Taken(listing)) < budget.max_items THEN Len(Taken(listing))
                                                          ELSE budget.max_items
           part == SubSeq(Taken(listing), 1, n)
           answer == [kind |-> "List", items |-> part, truncated |-> Len(Taken(listing)) > budget.max_items]
<1>1. phase = "reading" /\ phase \in Working /\ phase \in Working \cup {"closing"} /\ how.by = "catalog"
      /\ (EndWith(answer) \/ EndWith(Failed))
  BY DEF CatalogList, Working, FinishList
<1>2. listing \in Seq(Names) /\ budget.max_items \in Nat
  BY <1>1, AtWork
<1>3. Len(Taken(listing)) \in Nat
  BY <1>2, TakenType
<1>4. n \in Nat /\ n <= Len(Taken(listing)) /\ n <= budget.max_items
      /\ (Len(Taken(listing)) > budget.max_items => n < Len(Taken(listing)) /\ n = budget.max_items)
      /\ (~(Len(Taken(listing)) > budget.max_items) => n = Len(Taken(listing)))
  BY <1>2, <1>3
<1> HIDE DEF n
<1>5. /\ IsInjective(part) /\ Len(part) = n /\ Range(part) \subseteq Visible(ever)
      /\ n < Len(Taken(listing)) => ever \ Range(part) # {}
      /\ n = Len(Taken(listing)) => Visible(always) \subseteq Range(part)
  BY <1>1, <1>4, TakenTells
<1> HIDE DEF part
<1>6. CASE EndWith(answer)
  <2>1. /\ result'.kind = "List" /\ result'.items = part
        /\ result'.truncated = (Len(Taken(listing)) > budget.max_items)
    BY <1>6 DEF EndWith
  <2>2. Goes => TruncationIsHonest'
    BY <1>4, <1>5, <2>1, ListTells
  <2> QED
    BY <1>1, <1>6, <2>2, EndsTells
<1>7. CASE EndWith(Failed)
  <2>1. TruncationIsHonest'
    BY <1>7, FailedTells DEF EndWith
  <2> QED
    BY <1>1, <1>7, <2>1, EndsTells
<1> QED
  BY <1>1, <1>6, <1>7

\* The names of rows that were read are the first names of the list.
LEMMA FirstNames ==
  ASSUME NEW all \in Seq(Names), NEW rows \in Seq(Row), Len(rows) <= Len(all),
         \A j \in 1..Len(rows) : rows[j] = Rows(all)[j]
  PROVE  [i \in DOMAIN rows |-> rows[i].name] = SubSeq(all, 1, Len(rows))
<1>1. Len(rows) \in Nat /\ DOMAIN rows = 1..Len(rows) /\ DOMAIN all = 1..Len(all) /\ Len(all) \in Nat
  OBVIOUS
<1>2. \A j \in 1..Len(rows) : rows[j].name = all[j]
  <2>1. \A j \in 1..Len(rows) : j \in DOMAIN all
    BY <1>1
  <2>2. \A j \in DOMAIN all : Rows(all)[j].name = all[j]
    BY DEF Rows
  <2> QED
    BY <2>1, <2>2
<1>3. SubSeq(all, 1, Len(rows)) = [j \in 1..Len(rows) |-> all[j]]
  BY <1>1
<1> QED
  BY <1>1, <1>2, <1>3

LEMMA CatalogAnswerTells ==
  ASSUME IInv, HInv, CatalogAnswer
  PROVE  HInv'
<1> DEFINE taken == Taken(listing)
           read  == ReadAll(ReadLimiter, budget, Rows(taken))
           names == [i \in DOMAIN read.kept |-> read.kept[i].name]
           answer == Finished(read.limiter, names)
<1>1. phase = "reading" /\ phase \in Working /\ phase \in Working \cup {"closing"} /\ how.by = "catalog"
      /\ (EndWith(answer) \/ EndWith(Failed))
  BY DEF CatalogAnswer, Working
<1>2. listing \in Seq(Names) /\ budget.max_items \in Nat /\ budget.max_bytes \in Nat
  BY <1>1, AtWork
<1>3. taken \in Seq(Names) /\ Rows(taken) \in Seq(Row) /\ Len(Rows(taken)) = Len(taken)
      /\ Len(taken) \in Nat
  BY <1>2, TakenType, RowsType
<1>4. /\ read \in Reads(ReadLimiter, budget, Row, Rows(taken), Len(taken))
      /\ read.limiter \in LimiterType /\ read.kept \in Seq(Row)
  BY <1>2, <1>3, FreshLimiter, ReadRows
<1>5. ReadLimiter.observed = 0
  BY DEF ReadLimiter
<1>6. CASE EndWith(Failed) \/ (EndWith(answer) /\ ~Finishes(read.limiter, budget, Rows(names)))
  <2>1. result' = Failed
    BY <1>6 DEF EndWith, Finished
  <2>2. TruncationIsHonest'
    BY <2>1, FailedTells
  <2> QED
    BY <1>1, <1>6, <2>2, EndsTells
<1>7. CASE EndWith(answer) /\ Finishes(read.limiter, budget, Rows(names))
  <2> DEFINE n == Len(read.kept)
  <2> HIDE DEF read, taken
  <2>1. ~read.limiter.failed
    BY <1>7 DEF Finishes
  <2>2. /\ n <= Len(taken) /\ \A j \in 1..n : read.kept[j] = Rows(taken)[j]
        /\ read.limiter.truncated => read.limiter.observed > budget.max_items
        /\ read.limiter.observed = 0 + Len(taken)
        /\ ~read.limiter.truncated => n = Len(taken)
    BY <1>4, <1>5, <2>1 DEF Reads
  <2>3. names = SubSeq(taken, 1, n)
    BY <1>3, <1>4, <2>2, FirstNames
  <2>4. n \in Nat /\ read.limiter.observed = Len(taken)
    BY <1>3, <1>4, <2>2
  <2>5. Len(SubSeq(taken, 1, n)) = n /\ SubSeq(taken, 1, n) \in Seq(Names)
    BY <1>3, <2>2, <2>4
  <2> HIDE DEF n
  <2>6. n = IF Len(taken) < budget.max_items THEN Len(taken) ELSE budget.max_items
    <3>1. Len(Rows(names)) = IF read.limiter.observed < budget.max_items
                             THEN read.limiter.observed ELSE budget.max_items
      BY <1>7 DEF Finishes
    <3>2. Len(Rows(SubSeq(taken, 1, n))) = n
      BY <2>5, RowsType
    <3> HIDE DEF names
    <3> QED
      BY <2>3, <2>4, <3>1, <3>2
  <2>7. n <= budget.max_items /\ (read.limiter.truncated => n < Len(taken))
    BY <1>2, <1>3, <2>2, <2>4, <2>6
  <2>8. /\ IsInjective(names) /\ Range(names) \subseteq Visible(ever)
        /\ n < Len(taken) => ever \ Range(names) # {}
        /\ n = Len(taken) => Visible(always) \subseteq Range(names)
    <3> HIDE DEF names
    <3>1. n <= Len(Taken(listing)) /\ Len(taken) = Len(Taken(listing))
      BY <2>2 DEF taken, n
    <3> QED
      BY <1>1, <2>3, <2>4, <2>7, <3>1, TakenTells DEF taken
  <2>9. names \in Seq(Names)
    <3> HIDE DEF names
    <3> QED
      BY <2>3, <2>5
  <2>10. result' = answer
    BY <1>7 DEF EndWith
  <2>11. /\ ~read.limiter.truncated => Visible(always) \subseteq Range(names)
         /\ read.limiter.truncated => ever \ Range(names) # {}
    <3> HIDE DEF names
    <3> QED
      BY <2>2, <2>7, <2>8 DEF n
  <2>12. Goes => TruncationIsHonest'
    <3> HIDE DEF names
    <3> QED
      BY <1>2, <1>4, <2>1, <2>2, <2>8, <2>9, <2>10, <2>11, FinishedTells
  <2> HIDE DEF names
  <2> QED
    BY <1>1, <1>7, <2>12, EndsTells
<1> QED
  BY <1>1, <1>6, <1>7

LEMMA PartitionLagsTells ==
  ASSUME IInv, HInv, PartitionLags
  PROVE  HInv'
<1> DEFINE lags == Among(listing, Visible(Names))
<1>1. phase \in Working /\ (EndWith(Exact(lags)) \/ EndWith(Failed))
  BY DEF PartitionLags, Working
<1>2. listing \in Seq(Names)
  BY <1>1, AtWork
<1>3. IsInjective(listing) /\ Range(listing) \subseteq ever /\ always \subseteq Range(listing)
      /\ Range(listing) \subseteq Names
  BY <1>2, RangeType DEF HInv, HistoryInv
<1>4. IsInjective(lags) /\ Range(lags) = Range(listing) \cap Visible(Names)
  BY <1>2, <1>3, AmongKeeps
<1> HIDE DEF lags
<1>5. Range(lags) \subseteq Visible(ever) /\ Visible(always) \subseteq Range(lags)
  BY <1>3, <1>4 DEF Visible
<1>6. result' \in {Exact(lags), Failed}
  BY <1>1 DEF EndWith
<1>7. Goes => TruncationIsHonest'
  BY <1>4, <1>5, <1>6, ExactTells, FailedTells
<1> QED
  BY <1>1, <1>7, EndsTells

LEMMA DetailAnswerTells ==
  ASSUME IInv, HInv, DetailAnswer
  PROVE  HInv'
<1>1. phase \in Working /\ how.by = "detail" /\ (EndWith(Exact(listing)) \/ EndWith(Failed))
  BY DEF DetailAnswer, Working
<1>2. IsInjective(listing) /\ Range(listing) \subseteq ever /\ always \subseteq Range(listing)
      /\ ~how.hides
  BY <1>1 DEF HInv, HistoryInv, MethodInv
<1>3. Range(listing) \subseteq Visible(ever) /\ Visible(always) \subseteq Range(listing)
  BY <1>2 DEF Visible
<1>4. result' \in {Exact(listing), Failed}
  BY <1>1 DEF EndWith
<1>5. Goes => TruncationIsHonest'
  BY <1>2, <1>3, <1>4, ExactTells, FailedTells
<1> QED
  BY <1>1, <1>5, EndsTells

\* Hits, values and documents.
LEMMA OneAnswerTells ==
  ASSUME IInv, HInv, SearchAnswer \/ ValueAnswer \/ DocumentAnswer
  PROVE  HInv'
<1>1. phase \in Working
  BY DEF SearchAnswer, ValueAnswer, DocumentAnswer, Working
<1>2. \E answer : EndWith(answer) /\ answer.kind \in {"Hits", "Value", "Failed"}
  <2>1. Failed.kind = "Failed"
    BY DEF Failed, NoResult
  <2>2. CASE SearchAnswer
    <3>1. PICK hits : \/ EndWith([kind |-> "Hits", items |-> hits, truncated |-> FALSE])
                      \/ EndWith(Failed)
      BY <2>2 DEF SearchAnswer
    <3> QED
      BY <2>1, <3>1
  <2>3. CASE ValueAnswer
    <3>1. PICK value : \/ EndWith([kind |-> "Value", items |-> value, truncated |-> FALSE])
                       \/ EndWith(Failed)
      BY <2>3 DEF ValueAnswer
    <3> QED
      BY <2>1, <3>1
  <2>4. CASE DocumentAnswer
    <3>1. PICK value : \/ EndWith([kind |-> "Value", items |-> value, truncated |-> FALSE])
                       \/ EndWith(Failed)
      BY <2>4 DEF DocumentAnswer
    <3> QED
      BY <2>1, <3>1
  <2> QED
    BY <2>2, <2>3, <2>4
<1>3. PICK answer : EndWith(answer) /\ answer.kind \in {"Hits", "Value", "Failed"}
  BY <1>2
<1>4. TruncationIsHonest'
  BY <1>3, SilentAnswers DEF EndWith
<1> QED
  BY <1>1, <1>3, <1>4, EndsTells
-----------------------------------------------------------------------------
(* Messages *)

\* What a subscription shows is no list.
LEMMA SubscriptionTells ==
  ASSUME IInv, HInv, phase \in Working \cup {"closing"}, how.by = "messages", Goes,
         UNCHANGED <<cursors, returned>>, phase' \in {"reading", "closing", "over"},
         result'.kind \in {"none", "Failed", "Messages"}
  PROVE  HInv'
<1>1. MethodInv' /\ HistoryInv'
  <2>1. phase' \in Working \cup {"closing", "over"}
    BY DEF Working
  <2> QED
    BY <2>1, GoesOn
<1>2. how'.by = "messages"
  BY DEF Goes
<1>3. StreamInv' /\ ScanInv' /\ PageInv' /\ ExportInv' /\ InspectInv'
  BY <1>2 DEF StreamInv, ScanInv, PageInv, ExportInv, InspectInv, Scans
<1>4. CountInv'
  BY DEF HInv, CountInv, Goes
<1>5. TruncationIsHonest'
  BY SilentAnswers
<1> QED
  BY <1>1, <1>3, <1>4, <1>5 DEF HInv

\* What a subscription answers.
LEMMA MessagesSay ==
  ASSUME NEW l, NEW names
  PROVE  Messages(l, names).kind \in {"Failed", "Messages"}
<1>1. Failed.kind = "Failed"
  BY DEF Failed, NoResult
<1>2. Finished(l, names) \in {Failed, [kind |-> "List", items |-> names, truncated |-> l.truncated]}
  BY DEF Finished
<1>3. CASE Finished(l, names) = Failed
  BY <1>1, <1>3 DEF Messages, Failed, NoResult
<1>4. CASE Finished(l, names) = [kind |-> "List", items |-> names, truncated |-> l.truncated]
  BY <1>1, <1>4 DEF Messages
<1> QED
  BY <1>2, <1>3, <1>4

LEMMA LeaveTells ==
  ASSUME IInv, HInv, phase = "reading", how.by = "messages", Goes, UNCHANGED <<cursors, returned>>,
         NEW l, NEW names, Leave(l, names)
  PROVE  HInv'
<1>1. phase \in Working \cup {"closing"} /\ result.kind = "none"
  BY AtWork DEF Working
<1>2. phase' \in {"closing", "over"} /\ result'.kind \in {"none", "Failed", "Messages"}
  BY <1>1, MessagesSay DEF Leave
<1> QED
  BY <1>1, <1>2, SubscriptionTells

LEMMA ReceiveTells ==
  ASSUME IInv, HInv, Receive \/ ReceiveEnds \/ PullFails \/ DeleteConsumer
  PROVE  HInv'
<1>1. how.by = "messages" /\ Goes /\ UNCHANGED <<cursors, returned>>
  BY DEF Receive, ReceiveEnds, PullFails, DeleteConsumer, Goes, asked_for, history, traversal
<1>2. CASE Receive
  <2>1. phase = "reading" /\ ((phase' = phase /\ result' = result) \/ \E l, names : Leave(l, names))
    BY <1>2 DEF Receive
  <2>2. CASE phase' = phase /\ result' = result
    <3>1. phase \in Working \cup {"closing"}
      BY <2>1 DEF Working
    <3>2. result.kind = "none"
      BY <2>1, <3>1, AtWork
    <3> QED
      BY <1>1, <2>1, <2>2, <3>1, <3>2, SubscriptionTells
  <2>3. CASE \E l, names : Leave(l, names)
    BY <1>1, <2>1, <2>3, LeaveTells
  <2> QED
    BY <2>1, <2>2, <2>3
<1>3. CASE ReceiveEnds
  BY <1>1, <1>3, LeaveTells DEF ReceiveEnds
<1>4. CASE PullFails
  <2>1. phase = "reading" /\ Leave(tally', kept)
    BY <1>4 DEF PullFails
  <2> QED
    BY <1>1, <2>1, LeaveTells
<1>5. CASE DeleteConsumer
  <2>1. phase = "closing" /\ phase' = "over" /\ result' \in {Failed, Messages(tally, kept)}
    BY <1>5 DEF DeleteConsumer
  <2>2. result'.kind \in {"Failed", "Messages"}
    BY <2>1, MessagesSay DEF Failed, NoResult
  <2> QED
    BY <1>1, <2>1, <2>2, SubscriptionTells
<1> QED
  BY <1>2, <1>3, <1>4, <1>5
-----------------------------------------------------------------------------
(* Time series *)

\* What is known behind the j-th sample of a series.
Sampled(charged, b, samples, j) ==
  {r \in [limiter : SeriesCounts, values : Seq(Sample)] : ~r.limiter.failed =>
     IF r.limiter.truncated THEN charged.samples + j > b.max_samples
     ELSE /\ r.limiter.series = charged.series
          /\ r.limiter.samples = charged.samples + j /\ r.limiter.samples <= b.max_samples
          /\ Len(r.values) = j /\ \A k \in 1..j : r.values[k] = samples[k]}

\* One more sample of a series is looked at.
LEMMA NextSample ==
  ASSUME NEW b, b.max_samples \in Nat, NEW charged \in SeriesCounts, NEW samples \in Seq(Sample),
         NEW i \in 1..Len(samples), NEW r \in Sampled(charged, b, samples, i - 1)
  PROVE  RetainSample(r, b, samples[i]) \in Sampled(charged, b, samples, i)
<1> DEFINE x == samples[i]
           l == r.limiter
           q == RetainSample(r, b, x)
<1> SUFFICES q \in Sampled(charged, b, samples, i)
  OBVIOUS
<1>1. /\ r \in [limiter : SeriesCounts, values : Seq(Sample)] /\ l \in SeriesCounts
      /\ r.values \in Seq(Sample) /\ charged.samples \in Nat /\ x \in Sample /\ i \in Nat
      /\ l.samples \in Nat
      /\ ~l.failed =>
           IF l.truncated THEN charged.samples + (i - 1) > b.max_samples
           ELSE /\ l.series = charged.series
                /\ l.samples = charged.samples + (i - 1) /\ l.samples <= b.max_samples
                /\ Len(r.values) = i - 1 /\ \A k \in 1..(i - 1) : r.values[k] = samples[k]
  BY DEF Sampled, SeriesCounts
<1>2. q \in [limiter : SeriesCounts, values : Seq(Sample)]
  BY <1>1, RetainSampleType
<1>3. CASE l.failed \/ l.truncated
  <2>1. q = r
    BY <1>3 DEF RetainSample
  <2>2. \A c, m \in Nat : c + (i - 1) > m => c + i > m
    BY <1>1
  <2>3. ~l.failed => l.truncated /\ charged.samples + i > b.max_samples
    BY <1>1, <1>3, <2>2
  <2> HIDE DEF q
  <2> QED
    BY <1>1, <2>1, <2>3 DEF Sampled
<1>4. CASE ~(l.failed \/ l.truncated) /\ ~Measured(x.bytes, b.max_bytes - l.bytes)
  <2>1. q.limiter = Refused(l)
    BY <1>1, <1>4 DEF RetainSample
  <2>2. q.limiter.failed
    BY <1>1, <2>1 DEF Refused, SeriesCounts
  <2> HIDE DEF q
  <2> QED
    BY <1>2, <2>2 DEF Sampled
<1>5. CASE ~(l.failed \/ l.truncated) /\ Measured(x.bytes, b.max_bytes - l.bytes)
  <2>1. /\ q.limiter.samples = l.samples + 1 /\ q.limiter.series = l.series
        /\ q.limiter.truncated = ~(l.samples < b.max_samples)
        /\ q.values = IF l.samples < b.max_samples THEN Append(r.values, x) ELSE r.values
    BY <1>1, <1>5 DEF RetainSample, SeriesCounts
  <2> HIDE DEF q
  <2>2. /\ l.series = charged.series /\ l.samples = charged.samples + (i - 1)
        /\ Len(r.values) = i - 1 /\ \A k \in 1..(i - 1) : r.values[k] = samples[k]
    BY <1>1, <1>5
  <2>3. l.samples + 1 = charged.samples + i
    BY <1>1, <2>2
  <2>4. CASE l.samples < b.max_samples
    <3>1. q.values = Append(r.values, x) /\ ~q.limiter.truncated
      BY <2>1, <2>4
    <3>2. Len(q.values) = i /\ \A k \in 1..i : q.values[k] = samples[k]
      BY <1>1, <2>2, <3>1
    <3>3. q.limiter.samples = charged.samples + i /\ q.limiter.samples <= b.max_samples
      BY <1>1, <2>1, <2>3, <2>4
    <3> QED
      BY <1>2, <2>1, <2>2, <3>1, <3>2, <3>3 DEF Sampled
  <2>5. CASE ~(l.samples < b.max_samples)
    <3>1. charged.samples + i > b.max_samples
      BY <1>1, <2>3, <2>5
    <3> QED
      BY <1>2, <2>1, <2>5, <3>1 DEF Sampled
  <2> QED
    BY <2>4, <2>5
<1> QED
  BY <1>3, <1>4, <1>5

\* All samples of a series were looked at.
LEMMA AllSampled ==
  ASSUME NEW b, b.max_samples \in Nat, NEW charged \in SeriesCounts, NEW samples \in Seq(Sample),
         ~charged.truncated, charged.samples <= b.max_samples
  PROVE  Retained(charged, b, samples) \in Sampled(charged, b, samples, Len(samples))
<1> DEFINE n == Len(samples)
           I == [i \in 0..n |-> Sampled(charged, b, samples, i)]
<1>1. SamplesRead(charged, b, samples) # {}
  BY RetainedRecursion
<1>2. PICK f \in [0..n -> [limiter : SeriesCounts, values : Seq(Sample)]] :
        /\ f[0] = [limiter |-> charged, values |-> <<>>]
        /\ \A i \in 1..n : f[i] = RetainSample(f[i - 1], b, samples[i])
        /\ Retained(charged, b, samples) = f[n]
  BY <1>1 DEF SamplesRead
<1>3. n \in Nat /\ \A i \in 1..n : i - 1 \in 0..n /\ i \in 0..n
  OBVIOUS
<1>4. [limiter |-> charged, values |-> <<>>] \in Sampled(charged, b, samples, 0)
  <2>1. charged.samples \in Nat /\ charged.samples + 0 = charged.samples
    BY DEF SeriesCounts
  <2> QED
    BY <2>1 DEF Sampled
<1>5. \A i \in 1..n : \A r \in Sampled(charged, b, samples, i - 1) :
        RetainSample(r, b, samples[i]) \in Sampled(charged, b, samples, i)
  BY NextSample
<1>6. \A i \in 0..n : I[i] = Sampled(charged, b, samples, i)
  OBVIOUS
<1> HIDE DEF n, I
<1>7. \A i \in 1..n : f[i - 1] \in I[i - 1] => f[i] \in I[i]
  BY <1>2, <1>3, <1>5, <1>6
<1>8. f[0] \in I[0]
  BY <1>2, <1>3, <1>4, <1>6
<1>9. \A i \in 0..n : f[i] \in I[i]
  BY <1>3, <1>7, <1>8, Along
<1> QED
  BY <1>2, <1>3, <1>6, <1>9 DEF n

\* What is known behind the i-th series, with `sum` of the samples so far.
Ranged(b, all, sum, i) ==
  {r \in [limiter : SeriesCounts, kept : Seq(Series)] : ~r.limiter.failed =>
     IF r.limiter.truncated THEN i > b.max_series \/ sum[i] > b.max_samples
     ELSE /\ r.limiter.series = i /\ i <= b.max_series
          /\ r.limiter.samples = sum[i] /\ sum[i] <= b.max_samples
          /\ Len(r.kept) = i /\ \A k \in 1..i : r.kept[k] = all[k]}

\* A series with all its samples is the series.
LEMMA WholeSeries ==
  ASSUME NEW one \in Series, NEW values \in Seq(Sample), Len(values) = Len(one.samples),
         \A k \in 1..Len(one.samples) : values[k] = one.samples[k]
  PROVE  [one EXCEPT !.samples = values] = one
<1>1. one.samples \in Seq(Sample)
  BY DEF Series, Sample
<1>2. values = one.samples
  BY <1>1
<1> QED
  BY <1>2 DEF Series

\* One more series is looked at.
LEMMA NextSeries ==
  ASSUME NEW b, b.max_series \in Nat, b.max_samples \in Nat, NEW all \in Seq(Series),
         NEW sum \in [0..Len(all) -> Nat], NEW i \in 1..Len(all),
         sum[i] = sum[i - 1] + Len(all[i].samples), NEW r \in Ranged(b, all, sum, i - 1)
  PROVE  RetainSeries(r, b, all[i]) \in Ranged(b, all, sum, i)
<1> DEFINE one == all[i]
           l == r.limiter
           charged == [l EXCEPT !.series = @ + 1, !.bytes = @ + one.bytes]
           samples == Retained(charged, b, one.samples)
           q == RetainSeries(r, b, one)
<1> SUFFICES q \in Ranged(b, all, sum, i)
  OBVIOUS
<1>1. /\ l \in SeriesCounts /\ r.kept \in Seq(Series) /\ one \in Series
      /\ r \in [limiter : SeriesCounts, kept : Seq(Series)]
      /\ i \in Nat /\ i > 0 /\ sum[i] \in Nat /\ sum[i - 1] \in Nat
      /\ ~l.failed =>
           IF l.truncated THEN i - 1 > b.max_series \/ sum[i - 1] > b.max_samples
           ELSE /\ l.series = i - 1 /\ i - 1 <= b.max_series
                /\ l.samples = sum[i - 1] /\ sum[i - 1] <= b.max_samples
                /\ Len(r.kept) = i - 1 /\ \A k \in 1..(i - 1) : r.kept[k] = all[k]
  <2>1. /\ r \in [limiter : SeriesCounts, kept : Seq(Series)]
        /\ ~r.limiter.failed =>
             IF r.limiter.truncated THEN i - 1 > b.max_series \/ sum[i - 1] > b.max_samples
             ELSE /\ r.limiter.series = i - 1 /\ i - 1 <= b.max_series
                  /\ r.limiter.samples = sum[i - 1] /\ sum[i - 1] <= b.max_samples
                  /\ Len(r.kept) = i - 1 /\ \A k \in 1..(i - 1) : r.kept[k] = all[k]
    BY Zenon DEF Ranged
  <2>2. l \in SeriesCounts /\ r.kept \in Seq(Series)
    BY <2>1
  <2>3. one \in Series /\ i \in Nat /\ i > 0
    OBVIOUS
  <2>4. sum[i] \in Nat /\ sum[i - 1] \in Nat
    <3>1. i \in 0..Len(all) /\ i - 1 \in 0..Len(all)
      OBVIOUS
    <3> QED
      BY <3>1
  <2> QED
    BY <2>1, <2>2, <2>3, <2>4
<1>2. one.bytes \in Nat /\ one.samples \in Seq(Sample) /\ Len(one.samples) \in Nat
  <2>1. one.bytes \in Nat /\ one.samples \in Seq(Sample)
    BY <1>1 DEF Series, Sample
  <2> QED
    BY <2>1
<1>3. q \in [limiter : SeriesCounts, kept : Seq(Series)]
  BY <1>1, RetainSeriesType
<1>4. q = IF l.failed \/ l.truncated THEN r
          ELSE IF ~Measured(one.bytes, b.max_bytes - l.bytes) THEN [r EXCEPT !.limiter = Refused(@)]
          ELSE IF l.series >= b.max_series
          THEN [r EXCEPT !.limiter = [charged EXCEPT !.truncated = TRUE, !.probe = one.bytes]]
          ELSE [limiter |-> samples.limiter,
                kept |-> Append(r.kept, [one EXCEPT !.samples = samples.values])]
  BY Zenon DEF RetainSeries, Retained
<1>5. /\ charged \in SeriesCounts /\ charged.series = l.series + 1 /\ charged.samples = l.samples
      /\ charged.truncated = l.truncated
  <2>1. l.series + 1 \in Nat /\ l.bytes + one.bytes \in Nat
    <3>1. l.series \in Nat /\ l.bytes \in Nat
      BY <1>1 DEF SeriesCounts
    <3> HIDE DEF l, one
    <3> QED
      BY <1>2, <3>1
  <2> QED
    BY <1>1, <2>1 DEF SeriesCounts
<1>6. sum[i] = sum[i - 1] + Len(one.samples)
  OBVIOUS
<1> HIDE DEF q, charged, one
<1>7. CASE l.failed \/ l.truncated
  <2>1. q = r
    BY <1>4, <1>7
  <2>2. ~l.failed => l.truncated /\ (i > b.max_series \/ sum[i] > b.max_samples)
    <3> DEFINE a == sum[i - 1]
               c == sum[i]
               more == Len(one.samples)
    <3>1. /\ i \in Nat /\ a \in Nat /\ more \in Nat /\ c = a + more
          /\ b.max_series \in Nat /\ b.max_samples \in Nat
      BY <1>1, <1>2, <1>6
    <3>2. ~l.failed => l.truncated /\ (i - 1 > b.max_series \/ a > b.max_samples)
      BY <1>1, <1>7
    <3>3. /\ i - 1 > b.max_series => i > b.max_series
          /\ a > b.max_samples => c > b.max_samples
      <4> HIDE DEF a, c, more
      <4> QED
        BY <3>1
    <3> QED
      BY <3>2, <3>3
  <2> QED
    BY <1>1, <2>1, <2>2 DEF Ranged
<1>8. CASE ~(l.failed \/ l.truncated) /\ ~Measured(one.bytes, b.max_bytes - l.bytes)
  <2>1. q.limiter = Refused(l)
    BY <1>1, <1>4, <1>8
  <2>2. q.limiter.failed
    BY <1>1, <2>1 DEF Refused, SeriesCounts
  <2> QED
    BY <1>3, <2>2 DEF Ranged
<1>9. CASE /\ ~(l.failed \/ l.truncated) /\ Measured(one.bytes, b.max_bytes - l.bytes)
           /\ l.series >= b.max_series
  <2>1. q.limiter = [charged EXCEPT !.truncated = TRUE, !.probe = one.bytes]
    BY <1>1, <1>4, <1>9
  <2>2. q.limiter.truncated
    BY <1>5, <2>1 DEF SeriesCounts
  <2>3. i > b.max_series
    BY <1>1, <1>9
  <2> QED
    BY <1>3, <2>2, <2>3 DEF Ranged
<1>10. CASE /\ ~(l.failed \/ l.truncated) /\ Measured(one.bytes, b.max_bytes - l.bytes)
            /\ ~(l.series >= b.max_series)
  <2>1. /\ l.series = i - 1 /\ l.samples = sum[i - 1] /\ sum[i - 1] <= b.max_samples
        /\ Len(r.kept) = i - 1 /\ \A k \in 1..(i - 1) : r.kept[k] = all[k]
    BY <1>1, <1>10
  <2>2. ~charged.truncated /\ charged.samples <= b.max_samples /\ charged.samples = sum[i - 1]
        /\ charged.series = i
    BY <1>1, <1>5, <1>10, <2>1
  <2>3. samples \in Sampled(charged, b, one.samples, Len(one.samples))
    BY <1>2, <1>5, <2>2, AllSampled
  <2> HIDE DEF samples
  <2>4. /\ q.limiter = samples.limiter
        /\ q.kept = Append(r.kept, [one EXCEPT !.samples = samples.values])
    BY <1>4, <1>10
  <2>5. /\ samples.values \in Seq(Sample)
        /\ ~q.limiter.failed =>
             IF q.limiter.truncated THEN charged.samples + Len(one.samples) > b.max_samples
             ELSE /\ q.limiter.series = charged.series
                  /\ q.limiter.samples = charged.samples + Len(one.samples)
                  /\ q.limiter.samples <= b.max_samples
                  /\ Len(samples.values) = Len(one.samples)
                  /\ \A k \in 1..Len(one.samples) : samples.values[k] = one.samples[k]
    BY <2>3, <2>4 DEF Sampled
  <2>6. CASE q.limiter.failed
    BY <1>3, <2>6 DEF Ranged
  <2>7. CASE ~q.limiter.failed /\ q.limiter.truncated
    <3>1. sum[i] > b.max_samples
      BY <1>6, <2>2, <2>5, <2>7
    <3> QED
      BY <1>3, <2>7, <3>1 DEF Ranged
  <2>8. CASE ~q.limiter.failed /\ ~q.limiter.truncated
    <3>1. [one EXCEPT !.samples = samples.values] = one
      BY <1>1, <2>5, <2>8, WholeSeries
    <3>2. q.kept = Append(r.kept, one)
      BY <2>4, <3>1
    <3>3. Len(q.kept) = i /\ \A k \in 1..i : q.kept[k] = all[k]
      BY <1>1, <2>1, <3>2 DEF one
    <3>4. q.limiter.series = i /\ i <= b.max_series
      BY <1>1, <1>10, <2>1, <2>2, <2>5, <2>8
    <3>5. q.limiter.samples = sum[i] /\ sum[i] <= b.max_samples
      BY <1>6, <2>2, <2>5, <2>8
    <3> QED
      BY <1>3, <2>8, <3>3, <3>4, <3>5 DEF Ranged
  <2> QED
    BY <2>6, <2>7, <2>8
<1> QED
  BY <1>7, <1>8, <1>9, <1>10

\* A table says it is truncated when there were more series or samples, and has all of
\* them otherwise.
LEMMA SeriesTell ==
  ASSUME NEW b, b.max_series \in Nat, b.max_samples \in Nat, NEW all \in Seq(Series),
         ~ReadSeries(b, all).limiter.failed
  PROVE  /\ ReadSeries(b, all).limiter.truncated <=> \/ Len(all) > b.max_series
                                                     \/ SampleCount(all) > b.max_samples
         /\ ~ReadSeries(b, all).limiter.truncated => ReadSeries(b, all).kept = all
<1> DEFINE n == Len(all)
           sizes == [i \in DOMAIN all |-> Len(all[i].samples)]
           read == ReadSeries(b, all)
<1>1. sizes \in Seq(Nat) /\ Len(sizes) = n /\ \A i \in 1..n : sizes[i] = Len(all[i].samples)
  <2>1. ASSUME NEW i \in 1..n PROVE Len(all[i].samples) \in Nat
    <3>1. \A x \in Series : x.samples \in Seq(Sample)
      BY DEF Series, Sample
    <3>2. all[i].samples \in Seq(Sample)
      BY <3>1
    <3> QED
      BY <3>2
  <2>2. sizes = [i \in 1..n |-> Len(all[i].samples)] /\ n \in Nat
    OBVIOUS
  <2>3. sizes \in [1..n -> Nat]
    BY <2>1, <2>2
  <2> QED
    BY <2>2, <2>3, SequenceElements
<1>2. SampleCount(all) = Total(sizes)
  BY DEF SampleCount
<1> HIDE DEF sizes
<1>3. PICK sum \in [0..n -> Nat] : /\ sum[0] = 0
                                   /\ \A i \in 1..n : sum[i] = sum[i - 1] + Len(all[i].samples)
                                   /\ Total(sizes) = sum[n]
  <2>1. PICK f \in [0..Len(sizes) -> Nat] :
          /\ f[0] = 0 /\ \A i \in 1..Len(sizes) : f[i] = f[i - 1] + sizes[i]
          /\ Total(sizes) = f[Len(sizes)]
    BY <1>1, TotalRecursion
  <2> QED
    BY <1>1, <2>1
<1> DEFINE I == [i \in 0..n |-> Ranged(b, all, sum, i)]
<1>4. SeriesRead(b, all) # {}
  BY ReadSeriesRecursion
<1>5. PICK f \in [0..n -> [limiter : SeriesCounts, kept : Seq(Series)]] :
        /\ f[0] = [limiter |-> SeriesLimiter, kept |-> <<>>]
        /\ \A i \in 1..n : f[i] = RetainSeries(f[i - 1], b, all[i])
        /\ read = f[n]
  BY <1>4 DEF SeriesRead
<1>6. n \in Nat /\ \A i \in 1..n : i - 1 \in 0..n /\ i \in 0..n
  OBVIOUS
<1>7. [limiter |-> SeriesLimiter, kept |-> <<>>] \in Ranged(b, all, sum, 0)
  <2>1. SeriesLimiter \in SeriesCounts /\ ~SeriesLimiter.truncated /\ SeriesLimiter.series = 0
        /\ SeriesLimiter.samples = 0
    BY DEF SeriesLimiter, SeriesCounts
  <2> QED
    BY <1>3, <2>1 DEF Ranged
<1>8. \A i \in 1..n : \A r \in Ranged(b, all, sum, i - 1) :
        RetainSeries(r, b, all[i]) \in Ranged(b, all, sum, i)
  BY <1>3, NextSeries
<1>9. \A i \in 0..n : I[i] = Ranged(b, all, sum, i)
  OBVIOUS
<1>10. ~read.limiter.failed
  OBVIOUS
<1> HIDE DEF n, I, read
<1>11. ASSUME NEW i \in 1..n, f[i - 1] \in I[i - 1]
       PROVE  f[i] \in I[i]
  <2>1. f[i - 1] \in Ranged(b, all, sum, i - 1)
    BY <1>6, <1>9, <1>11
  <2>2. RetainSeries(f[i - 1], b, all[i]) \in Ranged(b, all, sum, i)
    BY <1>8, <2>1
  <2>3. f[i] \in Ranged(b, all, sum, i)
    BY <1>5, <2>2
  <2> QED
    BY <1>6, <1>9, <2>3
<1>12. f[0] \in I[0]
  <2>1. f[0] \in Ranged(b, all, sum, 0)
    BY <1>5, <1>7, Zenon
  <2>2. 0 \in 0..n
    BY <1>6
  <2> QED
    BY <1>9, <2>1, <2>2, Zenon
<1>13. \A i \in 0..n : f[i] \in I[i]
  BY <1>6, <1>11, <1>12, Along
<1>14. read \in Ranged(b, all, sum, n)
  <2>1. n \in 0..n
    BY <1>6
  <2>2. f[n] \in Ranged(b, all, sum, n)
    BY <1>9, <1>13, <2>1
  <2> QED
    BY <1>5, <2>2
<1>15. sum[n] \in Nat /\ SampleCount(all) = sum[n]
  BY <1>2, <1>3, <1>6
<1>16. /\ read.kept \in Seq(Series)
       /\ IF read.limiter.truncated THEN n > b.max_series \/ sum[n] > b.max_samples
          ELSE /\ n <= b.max_series /\ sum[n] <= b.max_samples
               /\ Len(read.kept) = n /\ \A k \in 1..n : read.kept[k] = all[k]
  BY <1>10, <1>14 DEF Ranged
<1>17. ASSUME ~read.limiter.truncated
       PROVE  read.kept = all /\ ~(n > b.max_series) /\ ~(sum[n] > b.max_samples)
  <2>1. Len(read.kept) = Len(all) /\ \A k \in 1..Len(all) : read.kept[k] = all[k]
    BY <1>16, <1>17 DEF n
  <2>2. read.kept = all
    BY <1>16, <2>1
  <2>3. n <= b.max_series /\ sum[n] <= b.max_samples
    BY <1>16, <1>17
  <2> QED
    BY <1>6, <1>15, <2>2, <2>3
<1>18. read.limiter.truncated => n > b.max_series \/ sum[n] > b.max_samples
  BY <1>16
<1> QED
  BY <1>15, <1>17, <1>18 DEF n, read

LEMMA RangeAnswerTells ==
  ASSUME IInv, HInv, NEW all \in SeriesAnswers, NEW b \in SeriesBudgets, RangeAnswer(all, b)
  PROVE  HInv'
<1> DEFINE read == ReadSeries(b, all)
<1>1. b.max_series \in Nat /\ b.max_samples \in Nat /\ all \in Seq(Series)
  BY BoundedReadAssumption DEF Series
<1>2. /\ phase = "idle" /\ phase' = "over" /\ how' = [By("series") EXCEPT !.http = "prometheus"]
      /\ budget' = b /\ series' = all
      /\ UNCHANGED <<listing, always, ever, shrunk, edits, cursors, returned>>
      /\ \/ /\ ~read.limiter.failed /\ table' = read.kept
            /\ result' = [kind |-> "Table", items |-> <<>>, truncated |-> read.limiter.truncated]
         \/ result' = Failed
  BY DEF RangeAnswer, history, traversal, FinishesSeries
<1>3. how'.hides = FALSE /\ how'.live = FALSE /\ how'.whole = FALSE
  BY <1>2 DEF By
<1>4. MethodInv' /\ HistoryInv'
  BY <1>2, <1>3 DEF HInv, MethodInv, HistoryInv, Working
<1>5. StreamInv' /\ ScanInv' /\ PageInv' /\ ExportInv' /\ InspectInv'
  BY <1>2 DEF StreamInv, ScanInv, PageInv, ExportInv, InspectInv
<1>6. CountInv'
  BY <1>2 DEF HInv, CountInv
<1>7. TruncationIsHonest'
  <2>1. CASE result' = Failed
    BY <2>1, FailedTells
  <2>2. CASE /\ ~read.limiter.failed /\ table' = read.kept
             /\ result' = [kind |-> "Table", items |-> <<>>, truncated |-> read.limiter.truncated]
    <3>1. /\ read.limiter.truncated <=> \/ Len(all) > b.max_series
                                        \/ SampleCount(all) > b.max_samples
          /\ ~read.limiter.truncated => read.kept = all
      BY <1>1, <2>2, SeriesTell
    <3>2. result'.kind = "Table" /\ (result'.truncated <=> read.limiter.truncated)
      BY <2>2
    <3> HIDE DEF read
    <3> QED
      BY <1>2, <2>2, <3>1, <3>2 DEF TruncationIsHonest
  <2> QED
    BY <1>2, <2>1, <2>2
<1> QED
  BY <1>4, <1>5, <1>6, <1>7 DEF HInv
-----------------------------------------------------------------------------
(* A read begins *)

\* Nothing was read yet, and everything is still to come.
LEMMA ReadTells ==
  ASSUME IInv, HInv, NEW m \in Sound, NEW b, b.max_items \in Nat, b.max_bytes \in Nat,
         m.whole => b = Boundless, Read(m, b)
  PROVE  HInv'
<1>1. /\ phase = "idle" /\ how' = m /\ budget' = b /\ listing' \in Listings
      /\ always' = Range(listing') /\ ever' = Range(listing')
      /\ tally' = tally /\ kept' = kept /\ cursors' = cursors /\ returned' = returned
      /\ shrunk' = shrunk /\ edits' = edits
      /\ cursor' = IF m.by = "queues" THEN 1 ELSE 0
      /\ \/ /\ m.whole \/ Limited(b)
            /\ phase' = "reading" /\ result' = result
            /\ m.by \in {"rows", "schema", "watermarks"} => unread' = listing'
         \/ phase' = "over" /\ result' = Failed
  BY DEF Read
<1>2. /\ kept' = <<>> /\ returned' = {} /\ cursors' = {} /\ shrunk' = FALSE
      /\ edits' \in 0..MaxEdits
  BY <1>1 DEF HInv, HistoryInv, CountInv
<1>3. /\ tally'.truncated = FALSE /\ tally'.failed = FALSE /\ tally'.observed = 0
  BY <1>1 DEF IInv, TallyInv, ReadLimiter
<1>4. result.kind = "none"
  BY <1>1 DEF IInv, ResultInv
<1>5. listing' \in Seq(Names) /\ IsInjective(listing')
  BY <1>1, ListingIsDistinct
<1>6. Range(listing') \subseteq Names
  BY <1>5, RangeType
<1>7. HistoryInv'
  BY <1>1, <1>2, <1>5, <1>6 DEF HistoryInv
<1>8. CountInv'
  BY <1>2 DEF CountInv
<1>9. CASE phase' = "over" /\ result' = Failed
  <2>1. MethodInv'
    BY <1>1, <1>9 DEF MethodInv, Sound, Working
  <2>2. StreamInv' /\ ScanInv' /\ PageInv' /\ ExportInv' /\ InspectInv'
    BY <1>9 DEF StreamInv, ScanInv, PageInv, ExportInv, InspectInv
  <2>3. TruncationIsHonest'
    BY <1>9, FailedTells
  <2> QED
    BY <1>7, <1>8, <2>1, <2>2, <2>3 DEF HInv
<1>10. CASE /\ m.whole \/ Limited(b)
            /\ phase' = "reading" /\ result' = result
            /\ m.by \in {"rows", "schema", "watermarks"} => unread' = listing'
  <2>1. m.whole \/ ProbeLimit(b.max_items)
    BY <1>10 DEF Limited, ValidReadBudget
  <2>2. MethodInv'
    BY <1>1, <2>1 DEF MethodInv, Sound, Working
  <2>3. Range(kept') = {} /\ IsInjective(kept') /\ Len(kept') = 0
    BY <1>2 DEF Range, IsInjective
  <2>4. StreamInv'
    <3>1. Visible(always)' \subseteq Range(listing')
      BY <1>1 DEF Visible
    <3>2. ASSUME m.by \in {"rows", "schema", "watermarks"}
          PROVE  Both(kept', unread')
      BY <1>5, <1>10, <2>3, <3>2 DEF Both
    <3> QED
      BY <1>1, <1>3, <1>10, <2>3, <3>1, <3>2 DEF StreamInv
  <2>5. WorkProbe' \in Nat /\ WorkProbe' > 0
    <3>1. CASE m.whole
      <4>1. WorkProbe' = MaxUsize
        BY <1>1, <3>1 DEF WorkProbe, Boundless
      <4>2. Cardinality(Names) < MaxUsize /\ Cardinality(Names) \in Nat /\ MaxUsize \in Nat
        BY BoundedReadAssumption, LimitersAssumption, FS_CardinalityType
      <4> QED
        BY <4>1, <4>2
    <3>2. CASE ~m.whole
      <4>1. WorkProbe' = Probe(b.max_items) /\ Probe(b.max_items) = b.max_items + 1
        BY <1>1, <2>1, <3>2, ProbeIsNext DEF WorkProbe
      <4> QED
        BY <4>1
    <3> QED
      BY <3>1, <3>2
  <2>6. ScanInv'
    BY <1>2, <1>3, <2>3, <2>5 DEF ScanInv
  <2>7. PageInv'
    <3>1. PageSize' \in Nat
      <4>1. Probe(b.max_items) \in Nat /\ PageMax \in Nat
        BY LimitersAssumption, BoundedReadAssumption DEF Probe
      <4>2. PageSize' = AtMost(Probe(b.max_items), PageMax)
        BY <1>1 DEF PageSize
      <4> QED
        BY <4>1, <4>2 DEF AtMost
    <3>2. Place' = 0
      <4>1. CASE m.by = "queues"
        <5>1. Place' = (1 - 1) * PageSize'
          BY <1>1, <4>1 DEF Place
        <5>2. \A p \in Nat : (1 - 1) * p = 0
          OBVIOUS
        <5>3. (1 - 1) * PageSize' = 0
          BY <3>1, <5>2, Zenon
        <5> QED
          BY <5>1, <5>3, Zenon
      <4>2. CASE m.by # "queues"
        BY <1>1, <4>2 DEF Place
      <4> QED
        BY <4>1, <4>2
    <3>3. \A i \in DOMAIN listing' : ~(i <= 0)
      BY <1>5
    <3>4. SeenTo(Place, Range(kept))' /\ SeenTo(Place, returned)'
      BY <3>2, <3>3 DEF SeenTo
    <3>5. Visible(returned)' = {}
      BY <1>2 DEF Visible
    <3> QED
      BY <1>1, <1>2, <1>3, <2>3, <3>4, <3>5 DEF PageInv
  <2>8. ExportInv' /\ InspectInv'
    BY <1>10 DEF ExportInv, InspectInv
  <2>9. TruncationIsHonest'
    BY <1>4, <1>10, SilentAnswers
  <2> QED
    BY <1>7, <1>8, <2>2, <2>4, <2>6, <2>7, <2>8, <2>9 DEF HInv
<1> QED
  BY <1>1, <1>9, <1>10

LEMMA StartReadTells ==
  ASSUME IInv, HInv, NEW b \in ReadBudgets, StartRead(b)
  PROVE  HInv'
<1>1. b.max_items \in Nat /\ b.max_bytes \in Nat
  BY BoundedReadAssumption
<1>2. PICK m \in Limiting : Read(m, b)
  BY StartReadSound
<1>3. m \in Sound /\ ~m.whole
  BY DEF Limiting
<1> QED
  BY <1>1, <1>2, <1>3, ReadTells

LEMMA StartWholeTells ==
  ASSUME IInv, HInv, StartWhole
  PROVE  HInv'
<1>1. Boundless.max_items \in Nat /\ Boundless.max_bytes \in Nat
  BY LimitersAssumption DEF Boundless
<1>2. PICK m \in Sound : Read(m, Boundless)
  BY StartWholeSound
<1> QED
  BY <1>1, <1>2, ReadTells
-----------------------------------------------------------------------------
(* Other clients change what there is *)

\* Other clients change what the server has: what was there all the time can only get
\* less, what was there at some time only more.
LEMMA OthersTell ==
  ASSUME IInv, HInv, phase \in Working,
         UNCHANGED <<how, budget, phase, tally, kept, cursor, cursors, returned, table, series, result>>,
         always' \subseteq always, ever \subseteq ever', ever' \subseteq Names, shrunk => shrunk',
         listing' \in Seq(Names), HistoryInv', StreamInv', edits' \in 0..MaxEdits,
         ~Live => unread' = unread,
         shrunk' \/ \A j \in DOMAIN listing' : listing'[j] \in always =>
                      \E k \in DOMAIN listing : k <= j /\ listing'[j] = listing[k]
  PROVE  HInv'
<1>1. /\ how' = how /\ budget' = budget /\ phase' = phase /\ tally' = tally /\ kept' = kept
      /\ cursor' = cursor /\ cursors' = cursors /\ returned' = returned /\ table' = table
      /\ series' = series /\ result' = result
  OBVIOUS
<1>2. /\ Visible(always)' \subseteq Visible(always) /\ Visible(ever) \subseteq Visible(ever)'
      /\ Visible(returned)' = Visible(returned)
  BY <1>1 DEF Visible
<1>3. MethodInv'
  BY <1>1 DEF HInv, MethodInv
<1>4. CountInv'
  BY <1>1 DEF HInv, CountInv
<1>5. ScanInv'
  <2>1. WorkProbe' = WorkProbe
    BY <1>1 DEF WorkProbe
  <2>2. ScanInv
    BY DEF HInv
  <2> QED
    BY <1>1, <2>1, <2>2 DEF ScanInv
<1>6. phase # "reading" => unread' = unread
  <2>1. /\ how.live => how.by = "rows"
        /\ phase # "reading" => how.by \in {"export", "group_lag"}
    BY DEF HInv, MethodInv, IInv, ResultInv, Working
  <2> QED
    BY <2>1 DEF Live
<1>7. ExportInv'
  <2>1. ExportInv
    BY DEF HInv
  <2> QED
    BY <1>1, <1>6, <2>1 DEF ExportInv
<1>8. InspectInv'
  <2>1. InspectInv
    BY DEF HInv
  <2>2. phase = "inspecting" => unread' = unread
    BY <1>6
  <2>3. SUFFICES ASSUME phase = "inspecting"
                 PROVE  /\ Both(kept, unread) /\ Range(unread) \subseteq ever'
                        /\ Range(kept) \subseteq Visible(ever)'
                        /\ cursor <= budget.max_items
                        /\ \/ Visible(always)' \subseteq Range(kept) \cup Range(unread)
                           \/ cursor + Len(unread) > budget.max_items
    BY <1>1, <2>2 DEF InspectInv
  <2>4. /\ Both(kept, unread) /\ Range(unread) \subseteq ever /\ Range(kept) \subseteq Visible(ever)
        /\ cursor <= budget.max_items
        /\ \/ Visible(always) \subseteq Range(kept) \cup Range(unread)
           \/ cursor + Len(unread) > budget.max_items
    BY <2>1, <2>3 DEF InspectInv
  <2> QED
    BY <1>2, <2>4
<1>9. ASSUME NEW place \in Int, NEW seen, SeenTo(place, seen)
      PROVE  shrunk' \/ \A i \in DOMAIN listing' :
                          i <= place /\ listing'[i] \in always' => listing'[i] \in seen
  <2>1. SUFFICES ASSUME ~shrunk', NEW i \in DOMAIN listing', i <= place, listing'[i] \in always'
                 PROVE  listing'[i] \in seen
    OBVIOUS
  <2>2. PICK k \in DOMAIN listing : k <= i /\ listing'[i] = listing[k]
    BY <2>1
  <2>3. i \in Nat /\ k \in Nat
    <3>1. listing \in Seq(Names)
      BY AtWork
    <3> QED
      BY <2>1, <2>2, <3>1
  <2>4. k <= place /\ listing[k] \in always
    BY <2>1, <2>2, <2>3
  <2> QED
    BY <1>9, <2>1, <2>2, <2>4 DEF SeenTo
<1>10. PageInv'
  <2>1. Place \in Int
    <3>1. CASE how.by = "queues"
      <4>1. cursor - 1 \in Int /\ PageSize \in Int
        <5>1. Probe(budget.max_items) \in Nat /\ PageMax \in Nat
          <6>1. budget.max_items \in Nat
            BY AtWork
          <6> QED
            BY <6>1, LimitersAssumption, BoundedReadAssumption DEF Probe
        <5>2. PageSize \in Nat
          BY <5>1 DEF PageSize, AtMost
        <5>3. cursor \in Nat
          BY AtWork
        <5> QED
          BY <5>2, <5>3
      <4>2. \A x, y \in Int : x * y \in Int
        OBVIOUS
      <4>3. (cursor - 1) * PageSize \in Int
        BY <4>1, <4>2, Zenon
      <4> QED
        BY <3>1, <4>3, Zenon DEF Place
    <3>2. CASE how.by # "queues"
      BY <3>2, AtWork DEF Place
    <3> QED
      BY <3>1, <3>2
  <2>2. Place' = Place
    BY <1>1 DEF Place, PageSize
  <2>3. \A seen : SeenTo(Place, seen) =>
          shrunk' \/ \A i \in DOMAIN listing' :
                       i <= Place /\ listing'[i] \in always' => listing'[i] \in seen
    BY <1>9, <2>1
  <2>4. SeenTo(Place, Range(kept)) => SeenTo(Place, Range(kept))'
    BY <1>1, <2>2, <2>3 DEF SeenTo
  <2>5. SeenTo(Place, returned) => SeenTo(Place, returned)'
    BY <1>1, <2>2, <2>3 DEF SeenTo
  <2>6. PageInv
    BY DEF HInv
  <2>7. phase = "reading" /\ how.by \in {"queues", "streams"} =>
          /\ SeenTo(Place, Range(kept))'
          /\ tally'.observed = Len(kept') /\ Len(kept') <= budget'.max_items
    BY <1>1, <2>4, <2>6 DEF PageInv
  <2>8. phase = "reading" /\ how.by = "stream_lag" =>
          /\ SeenTo(Place, returned)'
          /\ IsInjective(kept') /\ Range(kept') \subseteq Visible(ever)' \cap returned'
          /\ Visible(returned)' \subseteq Range(kept') /\ returned' \subseteq ever'
    <3>1. SUFFICES ASSUME phase = "reading", how.by = "stream_lag"
                   PROVE  /\ SeenTo(Place, returned)'
                          /\ IsInjective(kept) /\ Range(kept) \subseteq Visible(ever)' \cap returned
                          /\ Visible(returned) \subseteq Range(kept) /\ returned \subseteq ever'
      BY <1>1, <1>2
    <3>2. /\ SeenTo(Place, returned)
          /\ IsInjective(kept) /\ Range(kept) \subseteq Visible(ever) \cap returned
          /\ Visible(returned) \subseteq Range(kept) /\ returned \subseteq ever
      BY <2>6, <3>1 DEF PageInv
    <3> QED
      BY <1>2, <2>5, <3>2
  <2> QED
    BY <1>1, <2>7, <2>8 DEF PageInv
<1>11. TruncationIsHonest'
  <2>1. CASE phase # "exporting"
    <3>1. result'.kind = "none"
      BY <1>1, <2>1, AtWork
    <3> QED
      BY <3>1, SilentAnswers
  <2>2. CASE phase = "exporting"
    <3>1. result.kind = "List"
      BY <2>2, AtWork
    <3>2. /\ IsInjective(result.items) /\ Range(result.items) \subseteq Visible(ever)
          /\ ~result.truncated => \/ Visible(always) \subseteq Range(result.items)
                                  \/ how.by \in Pages /\ shrunk
          /\ result.truncated => Len(result.items) = budget.max_items /\ ever \ Range(result.items) # {}
      BY <3>1 DEF HInv, TruncationIsHonest
    <3>3. /\ Range(result.items) \subseteq Visible(ever)'
          /\ ~result.truncated => \/ Visible(always)' \subseteq Range(result.items)
                                  \/ how.by \in Pages /\ shrunk'
          /\ result.truncated => Len(result.items) = budget.max_items /\ ever' \ Range(result.items) # {}
      BY <1>2, <3>2
    <3> QED
      BY <1>1, <3>1, <3>2, <3>3 DEF TruncationIsHonest
  <2> QED
    BY <2>1, <2>2
<1> QED
  BY <1>3, <1>4, <1>5, <1>7, <1>8, <1>10, <1>11 DEF HInv

LEMMA OthersAddTells ==
  ASSUME IInv, HInv, OthersAdd
  PROVE  HInv'
<1>1. /\ phase \in Working /\ edits < MaxEdits /\ edits' = edits + 1
      /\ Live \/ how.by \in Changing
      /\ UNCHANGED <<how, budget, phase, tally, kept, cursor, cursors, returned, always, shrunk,
                     table, series, result>>
  BY DEF OthersAdd, asked_for, traversal, ranges
<1>2. PICK name \in Names \ Range(listing) :
        /\ listing' \in Added(listing, name) /\ ever' = ever \cup {name}
        /\ unread' = unread \/ (Live /\ name \notin ever /\ unread' \in Added(unread, name))
  BY DEF OthersAdd
<1>3. listing \in Seq(Names) /\ unread \in Seq(Names) /\ kept \in Seq(Names)
  BY <1>1, AtWork
<1>4. /\ IsInjective(listing) /\ always \subseteq Range(listing) /\ Range(listing) \subseteq ever
      /\ ever \subseteq Names /\ shrunk \in BOOLEAN /\ edits \in 0..MaxEdits
  BY DEF HInv, HistoryInv, CountInv
<1>5. /\ listing' \in Seq(Names)
      /\ Range(listing') = Range(listing) \cup {name} /\ IsInjective(listing')
      /\ \A j \in DOMAIN listing' : \/ listing'[j] = name
                                    \/ \E k \in DOMAIN listing : k <= j /\ listing'[j] = listing[k]
  BY <1>2, <1>3, <1>4, AddedType, AddedKeeps
<1>6. name \notin always
  BY <1>2, <1>4
<1>7. HistoryInv'
  <2>1. phase' # "idle"
    BY <1>1 DEF Working
  <2> QED
    BY <1>1, <1>2, <1>4, <1>5, <2>1 DEF HistoryInv
<1>8. StreamInv'
  <2>1. SUFFICES ASSUME how.by \in {"rows", "watermarks", "schema"}, phase = "reading"
                 PROVE  /\ Both(kept, unread') /\ Range(kept) \subseteq Visible(ever)'
                        /\ Range(unread') \subseteq ever'
                        /\ ~tally.truncated /\ ~tally.failed
                        /\ Visible(always)' \subseteq Range(kept) \cup Range(unread')
    BY <1>1 DEF StreamInv, Working
  <2>2. /\ Both(kept, unread) /\ Range(kept) \subseteq Visible(ever) /\ Range(unread) \subseteq ever
        /\ ~tally.truncated /\ ~tally.failed
        /\ Visible(always) \subseteq Range(kept) \cup Range(unread)
    BY <2>1 DEF HInv, StreamInv
  <2>3. /\ Visible(ever) \subseteq Visible(ever)' /\ Visible(always)' = Visible(always)
        /\ Visible(ever) \subseteq ever
    BY <1>1, <1>2 DEF Visible
  <2>4. CASE unread' = unread
    BY <1>2, <2>2, <2>3, <2>4
  <2>5. CASE name \notin ever /\ unread' \in Added(unread, name)
    <3>1. name \notin Range(unread) /\ name \notin Range(kept)
      BY <2>2, <2>3, <2>5
    <3>2. Range(unread') = Range(unread) \cup {name} /\ (IsInjective(unread) => IsInjective(unread'))
      BY <1>2, <1>3, <2>5, <3>1, AddedKeeps
    <3>3. Both(kept, unread')
      BY <2>2, <3>1, <3>2 DEF Both
    <3> QED
      BY <1>2, <2>2, <2>3, <3>2, <3>3
  <2> QED
    BY <1>2, <2>4, <2>5
<1>9. edits' \in 0..MaxEdits
  BY <1>1, <1>4, BoundedReadAssumption
<1>10. \A j \in DOMAIN listing' : listing'[j] \in always =>
         \E k \in DOMAIN listing : k <= j /\ listing'[j] = listing[k]
  BY <1>5, <1>6
<1>11. always' \subseteq always /\ ever \subseteq ever' /\ ever' \subseteq Names /\ (shrunk => shrunk')
  BY <1>1, <1>2, <1>4
<1>12. ~Live => unread' = unread
  BY <1>2
<1> QED
  BY <1>1, <1>5, <1>7, <1>8, <1>9, <1>10, <1>11, <1>12, OthersTell

LEMMA OthersRemoveTells ==
  ASSUME IInv, HInv, OthersRemove
  PROVE  HInv'
<1>1. /\ phase \in Working /\ edits < MaxEdits /\ edits' = edits + 1 /\ shrunk' = TRUE
      /\ UNCHANGED <<how, budget, phase, tally, kept, cursor, cursors, returned, ever,
                     table, series, result>>
  BY DEF OthersRemove, asked_for, traversal, ranges
<1>2. PICK name \in Range(listing) :
        /\ listing' = Among(listing, Names \ {name}) /\ always' = always \ {name}
        /\ unread' = unread \/ (Live /\ unread' = Among(unread, Names \ {name}))
  BY DEF OthersRemove
<1>3. listing \in Seq(Names) /\ unread \in Seq(Names) /\ kept \in Seq(Names)
  BY <1>1, AtWork
<1>4. /\ IsInjective(listing) /\ always \subseteq Range(listing) /\ Range(listing) \subseteq ever
      /\ ever \subseteq Names /\ edits \in 0..MaxEdits
  BY DEF HInv, HistoryInv, CountInv
<1>5. /\ listing' \in Seq(Names)
      /\ Range(listing') = Range(listing) \cap (Names \ {name}) /\ IsInjective(listing')
  BY <1>2, <1>3, <1>4, AmongKeeps
<1>6. HistoryInv'
  <2>1. phase' # "idle"
    BY <1>1 DEF Working
  <2>2. always' \subseteq Range(listing') /\ Range(listing') \subseteq ever
    BY <1>2, <1>4, <1>5
  <2> QED
    BY <1>1, <1>4, <1>5, <2>1, <2>2 DEF HistoryInv
<1>7. StreamInv'
  <2>1. SUFFICES ASSUME how.by \in {"rows", "watermarks", "schema"}, phase = "reading"
                 PROVE  /\ Both(kept, unread') /\ Range(kept) \subseteq Visible(ever)'
                        /\ Range(unread') \subseteq ever
                        /\ ~tally.truncated /\ ~tally.failed
                        /\ Visible(always)' \subseteq Range(kept) \cup Range(unread')
    BY <1>1 DEF StreamInv, Working
  <2>2. /\ Both(kept, unread) /\ Range(kept) \subseteq Visible(ever) /\ Range(unread) \subseteq ever
        /\ ~tally.truncated /\ ~tally.failed
        /\ Visible(always) \subseteq Range(kept) \cup Range(unread)
    BY <2>1 DEF HInv, StreamInv
  <2>3. /\ Visible(ever)' = Visible(ever)
        /\ Visible(always)' \subseteq Visible(always) /\ Visible(always)' \subseteq always \ {name}
    BY <1>1, <1>2 DEF Visible
  <2>4. CASE unread' = unread
    BY <2>2, <2>3, <2>4
  <2>5. CASE unread' = Among(unread, Names \ {name})
    <3>1. Range(unread') = Range(unread) \cap (Names \ {name})
          /\ (IsInjective(unread) => IsInjective(unread'))
      BY <1>3, <2>5, AmongKeeps
    <3>2. Both(kept, unread')
      BY <2>2, <3>1 DEF Both
    <3>3. Visible(always)' \subseteq Range(kept) \cup Range(unread')
      BY <1>4, <2>2, <2>3, <3>1
    <3> QED
      BY <2>2, <2>3, <3>1, <3>2, <3>3
  <2> QED
    BY <1>2, <2>4, <2>5
<1>8. edits' \in 0..MaxEdits
  BY <1>1, <1>4, BoundedReadAssumption
<1>9. always' \subseteq always /\ ever \subseteq ever' /\ ever' \subseteq Names /\ (shrunk => shrunk')
  BY <1>1, <1>2, <1>4
<1>10. ~Live => unread' = unread
  BY <1>2
<1> QED
  BY <1>1, <1>5, <1>6, <1>7, <1>8, <1>9, <1>10, OthersTell
-----------------------------------------------------------------------------
(* The specification *)

LEMMA StepTells ==
  ASSUME IInv, HInv, ReadStep
  PROVE  HInv'
<1>1. CASE ReadFails \/ FetchFails \/ FetchEnds \/ FetchRow \/ CloseStream
  BY <1>1, ReadFailsTells, FetchFailsTells, FetchEndsTells, FetchRowTells, CloseStreamTells
<1>2. CASE PullFails \/ ReceiveEnds \/ Receive \/ DeleteConsumer
  BY <1>2, ReceiveTells
<1>3. CASE ScanPage \/ ExportEntry \/ ExportEnds
  BY <1>3, ScanPageTells, ExportEntryTells, ExportEndsTells
<1>4. CASE GroupLagPage \/ GroupLagStream \/ GroupLagEnds
  BY <1>4, GroupLagPageTells, GroupLagStreamTells, GroupLagEndsTells
<1>5. CASE ManagementPage \/ NatsPage \/ NatsLagPage
  BY <1>5, ManagementPageTells, NatsPageTells, NatsLagPageTells
<1>6. CASE CatalogAnswer \/ CatalogList \/ SearchAnswer \/ ValueAnswer \/ DocumentAnswer
  BY <1>6, CatalogAnswerTells, CatalogListTells, OneAnswerTells
<1>7. CASE PartitionLags \/ DetailAnswer \/ FetchWatermark \/ WatermarksEnd
  BY <1>7, PartitionLagsTells, DetailAnswerTells, FetchWatermarkTells, WatermarksEndTells
<1>8. CASE DescribeColumns \/ DescribeIndexes
  BY <1>8, DescribeColumnsTells, DescribeIndexesTells
<1> QED
  BY <1>1, <1>2, <1>3, <1>4, <1>5, <1>6, <1>7, <1>8 DEF ReadStep

LEMMA HistoryInductive ==
  ASSUME IInv, HInv, [ReadNext]_readVars
  PROVE  HInv'
<1>1. CASE \E b \in ReadBudgets : StartRead(b)
  BY <1>1, StartReadTells
<1>2. CASE StartWhole
  BY <1>2, StartWholeTells
<1>3. CASE \E all \in SeriesAnswers, b \in SeriesBudgets : RangeAnswer(all, b)
  BY <1>3, RangeAnswerTells
<1>4. CASE ReadStep
  BY <1>4, StepTells
<1>5. CASE ReadDropped
  BY <1>5, ReadDroppedTells
<1>6. CASE OthersAdd \/ OthersRemove
  BY <1>6, OthersAddTells, OthersRemoveTells
<1>7. CASE UNCHANGED readVars
  BY <1>7, StutterTells
<1> QED
  BY <1>1, <1>2, <1>3, <1>4, <1>5, <1>6, <1>7 DEF ReadNext

LEMMA HistoryInvariant == ReadSpec => []HInv
<1>1. ReadInit => HInv
  BY InitTells
<1>2. IInv /\ HInv /\ [ReadNext]_readVars => HInv'
  BY HistoryInductive
<1> QED
  BY <1>1, <1>2, Invariant, PTL DEF ReadSpec

\* Whatever other clients do meanwhile, a list that is called complete has everything
\* that was there from the beginning to the end of the read, one that is called
\* truncated is full and there was something else, nothing comes twice, and nothing
\* is shown that was never there.  A table of series is called truncated exactly if
\* there were more series or samples than asked for.
THEOREM TruncationIsKeptHonest == ReadSpec => []TruncationIsHonest
<1>1. HInv => TruncationIsHonest
  BY DEF HInv
<1> QED
  BY <1>1, HistoryInvariant, PTL

\* The listing of the server stays one, without duplicates; a scan sees no more
\* cursors than there are; and what was there all the time was there at some time.
THEOREM ReadTypeCorrect == ReadSpec => []ReadTypeOK
<1>1. ASSUME IInv, HInv
      PROVE  ReadTypeOK
  <2>1. /\ how \in Methods /\ phase \in Working \cup {"idle", "closing", "over"}
        /\ listing \in Seq(Names) /\ unread \in Seq(Names) /\ kept \in Seq(Names)
        /\ socket \in {"pool", "held", "retired"} /\ result.kind \in Kinds
    BY <1>1 DEF IInv, TypeInv, Phases, ResultType
  <2>2. /\ IsInjective(listing) /\ always \subseteq ever /\ ever \subseteq Names
        /\ cursors \subseteq 0..(MaxCursor + Cardinality(Names)) /\ returned \subseteq Names
        /\ edits \in 0..MaxEdits
    BY <1>1 DEF HInv, HistoryInv, CountInv
  <2>3. listing \in Listings
    BY <2>1, <2>2, DistinctIsListing
  <2>4. Range(unread) \subseteq Names /\ Range(kept) \subseteq Names
    BY <2>1, RangeType
  <2> QED
    BY <2>1, <2>2, <2>3, <2>4 DEF ReadTypeOK, Kinds
<1> QED
  BY <1>1, Invariant, HistoryInvariant, PTL
=============================================================================
