-------------------------- MODULE DataCommandProofs --------------------------
(***************************************************************************)
(* What holds of every data command, for any set of requests, texts,       *)
(* pipelines, connections and limits, and whatever other processes publish *)
(* meanwhile.  Three parts bear it:                                        *)
(*                                                                         *)
(*   - a text that is classified as a read changes nothing, unless it has  *)
(*     an effect where the classification does not look (Hides), by        *)
(*     induction over the parts the parser makes of it (ReadsAreReads);    *)
(*   - each command makes the checks its request calls for, and resolves   *)
(*     its target before the token is compared (StepsAreListed);           *)
(*   - a check that was passed still holds when the command runs, although *)
(*     the file is edited between the checks (IInv).                       *)
(*                                                                         *)
(* What was admitted is served because the operations an adapter advertises*)
(* are its methods, the extensions of its consumer are honoured, and its   *)
(* policy of raw commands admits what the command line's admits.           *)
(***************************************************************************)
EXTENDS DataCommand, WellFoundedInduction, TLAPS

-----------------------------------------------------------------------------
(* Statements: what is classified as a read changes nothing that it sees.   *)

\* A nonempty set of numbers has a least element.
LEMMA LeastElement ==
  ASSUME NEW T \in SUBSET Nat, T # {}
  PROVE  \E x \in T : \A y \in T : x <= y
<1> DEFINE R == OpToRel(<, Nat)
<1>1. IsWellFoundedOn(R, Nat)
  BY NatLessThanWellFounded
<1>2. \A x, y \in Nat : y < x => <<y, x>> \in R
  BY DEF OpToRel
<1> HIDE DEF R
<1>3. PICK x \in T : \A y \in T : ~ (<<y, x>> \in R)
  BY <1>1, WFMin
<1>4. \A y \in T : ~(y < x)
  BY <1>2, <1>3
<1> QED
  BY <1>4

\* A set with a number whenever it has all smaller ones has all numbers up to n.
LEMMA UpTo ==
  ASSUME NEW n \in Nat, NEW G, \A i \in 1..n : (\A j \in 1..n : j < i => j \in G) => i \in G
  PROVE  \A i \in 1..n : i \in G
<1> DEFINE T == {i \in 1..n : i \notin G}
<1>1. SUFFICES ASSUME T # {} PROVE FALSE
  OBVIOUS
<1>2. PICK x \in T : \A y \in T : x <= y
  <2>1. T \in SUBSET Nat
    OBVIOUS
  <2> QED
    BY <1>1, <2>1, LeastElement
<1>3. \A j \in 1..n : j < x => j \in G
  BY <1>2
<1> QED
  BY <1>2, <1>3

\* A step that looks at earlier values only.
Causal(n, V, step) ==
  \A i \in 1..n, f, g \in [1..n -> V] :
    (\A j \in 1..n : j < i => f[j] = g[j]) => step[i][f] = step[i][g]

Solutions(n, V, step) == {f \in [1..n -> V] : \A i \in 1..n : f[i] = step[i][f]}

\* A recursion that looks at earlier values only has a solution.
LEMMA Recursion ==
  ASSUME NEW n \in Nat, NEW V, V # {}, NEW step \in [1..n -> [[1..n -> V] -> V]],
         Causal(n, V, step)
  PROVE  Solutions(n, V, step) # {}
<1>v. PICK v \in V : TRUE
  OBVIOUS
<1> DEFINE Solved(m, f) == \A i \in 1..n : i <= m => f[i] = step[i][f]
           G == {m \in 1..n : \E f \in [1..n -> V] : Solved(m, f)}
<1>1. ASSUME NEW m \in 1..n, \A j \in 1..n : j < m => j \in G PROVE m \in G
  <2>1. \E f \in [1..n -> V] : Solved(m - 1, f)
    <3>1. CASE m = 1
      <4> DEFINE f == [i \in 1..n |-> v]
      <4>1. f \in [1..n -> V] /\ \A i \in 1..n : ~(i <= m - 1)
        BY <3>1
      <4> HIDE DEF f
      <4>2. Solved(m - 1, f)
        BY <4>1
      <4> QED
        BY <4>1, <4>2
    <3>2. CASE m # 1
      <4>1. m - 1 \in 1..n /\ m - 1 < m
        BY <3>2
      <4> QED
        BY <1>1, <4>1
    <3> QED
      BY <3>1, <3>2
  <2>2. PICK f \in [1..n -> V] : Solved(m - 1, f)
    BY <2>1
  <2> DEFINE g == [f EXCEPT ![m] = step[m][f]]
  <2>3. g \in [1..n -> V] /\ g[m] = step[m][f] /\ \A j \in 1..n : j # m => g[j] = f[j]
    OBVIOUS
  <2> HIDE DEF g
  <2>4. ASSUME NEW i \in 1..n, i <= m PROVE g[i] = step[i][g]
    <3>1. \A j \in 1..n : j < i => f[j] = g[j]
      BY <2>3, <2>4
    <3>2. step[i][f] = step[i][g]
      BY <2>3, <3>1 DEF Causal
    <3>3. g[i] = step[i][f]
      BY <2>2, <2>3, <2>4
    <3> QED
      BY <3>2, <3>3
  <2> QED
    BY <2>3, <2>4
<1>2. \A m \in 1..n : m \in G
  <2> HIDE DEF G
  <2> QED
    BY <1>1, UpTo
<1>3. CASE n = 0
  <2> DEFINE f == [i \in 1..n |-> v]
  <2>1. f \in [1..n -> V] /\ \A i \in 1..n : FALSE
    BY <1>3
  <2> HIDE DEF f
  <2>2. f \in Solutions(n, V, step)
    BY <2>1 DEF Solutions
  <2> QED
    BY <2>2
<1>4. CASE n # 0
  <2>1. n \in 1..n
    BY <1>4
  <2>2. PICK f \in [1..n -> V] : Solved(n, f)
    BY <1>2, <2>1
  <2>3. f \in Solutions(n, V, step)
    BY <2>2 DEF Solutions
  <2> QED
    BY <2>3
<1> QED
  BY <1>3, <1>4 DEF Solutions

\* The parts of a text are numbered, and each is made of earlier ones.
LEMMA Tree ==
  ASSUME NEW t, WellFormed(t), t.parsed
  PROVE  /\ Len(t.parts) \in Nat /\ DOMAIN t.parts = 1..Len(t.parts)
         /\ Elements(t.statements) \subseteq 1..Len(t.parts)
         /\ \A i \in 1..Len(t.parts) :
              /\ IsPart(t.parts[i])
              /\ \A c \in Components(t.parts[i]) : c \in 1..Len(t.parts) /\ c < i
<1> DEFINE n == Len(t.parts)
<1>1. /\ n \in Nat /\ DOMAIN t.parts = 1..n /\ Elements(t.statements) \subseteq 1..n
      /\ \A i \in 1..n : IsPart(t.parts[i]) /\ Components(t.parts[i]) \subseteq 1..i - 1
  BY DEF WellFormed
<1> HIDE DEF n
<1>2. ASSUME NEW i \in 1..n, NEW c \in Components(t.parts[i]) PROVE c \in 1..n /\ c < i
  <2>1. c \in 1..i - 1 /\ n \in Nat
    BY <1>1
  <2> QED
    BY <2>1
<1> QED
  BY <1>1, <1>2 DEF n

Strength == {"read", "write", "destructive"}

\* The class of a part depends on the parts it is made of.
LEMMA ClassifyPartLocal ==
  ASSUME NEW p, IsPart(p), NEW class, NEW other,
         \A c \in Components(p) : class[c] = other[c]
  PROVE  ClassifyPart(p, class) = ClassifyPart(p, other)
<1>1. CASE p.node = "statement"
  BY <1>1 DEF ClassifyPart, ClassifyStatement, Components, Shows, Definitions
<1>2. CASE p.node = "query"
  <2>1. class[p.body] = other[p.body] /\ \A c \in Elements(p.with) : class[c] = other[c]
    BY <1>2 DEF Components
  <2>2. {class[c] : c \in Elements(p.with)} = {other[c] : c \in Elements(p.with)}
    BY <2>1
  <2>3. ClassifyQuery(p, class) = ClassifyQuery(p, other)
    BY <2>1, <2>2 DEF ClassifyQuery
  <2> QED
    BY <1>2, <2>3 DEF ClassifyPart
<1>3. CASE p.node = "set expression"
  BY <1>3 DEF ClassifyPart, ClassifySetExpr, Components
<1> QED
  BY <1>1, <1>2, <1>3 DEF IsPart

LEMMA ClassifyPartType ==
  ASSUME NEW p, IsPart(p), NEW class,
         \A c \in Components(p) : class[c] \in Strength
  PROVE  ClassifyPart(p, class) \in Strength
<1>1. CASE p.node = "statement"
  BY <1>1 DEF ClassifyPart, ClassifyStatement, Components, Shows, Definitions, Strength
<1>2. CASE p.node = "query"
  BY <1>2 DEF ClassifyPart, ClassifyQuery, StrongestKind, Strength
<1>3. CASE p.node = "set expression"
  BY <1>3 DEF ClassifyPart, ClassifySetExpr, Components, StrongestKind, Strength
<1> QED
  BY <1>1, <1>2, <1>3 DEF IsPart

\* Whether a part changes something depends on the parts it is made of, too.
LEMMA PartChangesLocal ==
  ASSUME NEW p, IsPart(p), NEW changes, NEW other,
         \A c \in Components(p) : changes[c] = other[c]
  PROVE  PartChanges(p, changes) = PartChanges(p, other)
<1>1. CASE p.node = "statement"
  BY <1>1 DEF PartChanges, StatementChanges, Components, Shows
<1>2. CASE p.node = "query"
  <2>1. changes[p.body] = other[p.body] /\ \A c \in Elements(p.with) : changes[c] = other[c]
    BY <1>2 DEF Components
  <2>2. QueryChanges(p, changes) = QueryChanges(p, other)
    BY <2>1 DEF QueryChanges
  <2> QED
    BY <1>2, <2>2 DEF PartChanges
<1>3. CASE p.node = "set expression"
  BY <1>3 DEF PartChanges, BodyChanges, Components
<1> QED
  BY <1>1, <1>2, <1>3 DEF IsPart

LEMMA PartChangesType ==
  ASSUME NEW p, IsPart(p), NEW changes,
         \A c \in Components(p) : changes[c] \in BOOLEAN
  PROVE  PartChanges(p, changes) \in BOOLEAN
<1>1. CASE p.node = "statement"
  BY <1>1 DEF PartChanges, StatementChanges, Components, Shows, IsPart
<1>2. CASE p.node = "query"
  BY <1>2 DEF PartChanges, QueryChanges
<1>3. CASE p.node = "set expression"
  BY <1>3 DEF PartChanges, BodyChanges, Components, IsPart
<1> QED
  BY <1>1, <1>2, <1>3 DEF IsPart

\* A part that is classified as a read and hides nothing changes nothing, if that holds
\* of what it is made of.
LEMMA PartIsClassified ==
  ASSUME NEW p, IsPart(p), ~PartHides(p),
         NEW class, NEW changes,
         \A c \in Components(p) : /\ class[c] \in Strength /\ changes[c] \in BOOLEAN
                                  /\ class[c] = "read" => ~changes[c],
         ClassifyPart(p, class) = "read"
  PROVE  PartChanges(p, changes) = FALSE
<1>1. CASE p.node = "statement"
  BY <1>1 DEF ClassifyPart, ClassifyStatement, PartChanges, StatementChanges, PartHides, Components,
              Shows, Definitions, Strength, IsPart
<1>2. CASE p.node = "query"
  <2>1. \A c \in {p.body} \cup Elements(p.with) :
          class[c] \in Strength /\ (class[c] = "read" => ~changes[c])
    BY <1>2 DEF Components
  <2>2. ClassifyQuery(p, class) = "read"
    BY <1>2 DEF ClassifyPart
  <2>3. class[p.body] = "read" /\ \A c \in Elements(p.with) : class[c] = "read"
    BY <2>1, <2>2 DEF ClassifyQuery, StrongestKind, Strength
  <2>4. ~changes[p.body] /\ \A c \in Elements(p.with) : ~changes[c]
    BY <2>1, <2>3
  <2> QED
    BY <1>2, <2>4 DEF PartChanges, QueryChanges
<1>3. CASE p.node = "set expression"
  BY <1>3 DEF ClassifyPart, ClassifySetExpr, PartChanges, BodyChanges, PartHides, Components,
              StrongestKind, Strength, IsPart
<1> QED
  BY <1>1, <1>2, <1>3 DEF IsPart

\* The recursions over the parts of a text have values that fit one another.
LEMMA ClassesRecursion ==
  ASSUME NEW t, WellFormed(t), t.parsed
  PROVE  /\ Classes(t.parts) \in [DOMAIN t.parts -> Strength]
         /\ \A n \in DOMAIN t.parts : Classes(t.parts)[n] = ClassifyPart(t.parts[n], Classes(t.parts))
<1> DEFINE parts == t.parts
           n == Len(parts)
           E(f) == [i \in DOMAIN parts |-> ClassifyPart(parts[i], f)]
           F == CHOOSE f : f = E(f)
<1>1. Classes(parts) = F
  BY DEF Classes
<1>2. /\ n \in Nat /\ DOMAIN parts = 1..n
      /\ \A i \in 1..n : /\ IsPart(parts[i])
                         /\ \A c \in Components(parts[i]) : c \in 1..n /\ c < i
  BY Tree
<1> HIDE DEF parts, n
<1>3. \E f \in [1..n -> Strength] : \A i \in 1..n : f[i] = ClassifyPart(parts[i], f)
  <2> DEFINE step == [i \in 1..n |-> [f \in [1..n -> Strength] |-> ClassifyPart(parts[i], f)]]
  <2>1. ASSUME NEW i \in 1..n, NEW f \in [1..n -> Strength] PROVE ClassifyPart(parts[i], f) \in Strength
    <3>1. \A c \in Components(parts[i]) : f[c] \in Strength
      BY <1>2
    <3> QED
      BY <1>2, <3>1, ClassifyPartType, Zenon
  <2>2. step \in [1..n -> [[1..n -> Strength] -> Strength]]
    BY <2>1
  <2>3. \A i \in 1..n, f \in [1..n -> Strength] : step[i][f] = ClassifyPart(parts[i], f)
    OBVIOUS
  <2> HIDE DEF step
  <2>4. Causal(n, Strength, step)
    <3> SUFFICES ASSUME NEW i \in 1..n, NEW f \in [1..n -> Strength], NEW g \in [1..n -> Strength],
                        \A j \in 1..n : j < i => f[j] = g[j]
                 PROVE  step[i][f] = step[i][g]
      BY DEF Causal
    <3>1. \A c \in Components(parts[i]) : f[c] = g[c]
      BY <1>2
    <3>2. ClassifyPart(parts[i], f) = ClassifyPart(parts[i], g)
      BY <1>2, <3>1, ClassifyPartLocal, Zenon
    <3> QED
      BY <2>3, <3>2, Zenon
  <2>n. n \in Nat
    BY <1>2
  <2>5. Strength # {}
    BY DEF Strength
  <2>s. Solutions(n, Strength, step) # {}
    BY <2>n, <2>2, <2>4, <2>5, Recursion
  <2>6. PICK f \in Solutions(n, Strength, step) : TRUE
    BY <2>s
  <2>g. f \in [1..n -> Strength] /\ \A i \in 1..n : f[i] = step[i][f]
    BY <2>6 DEF Solutions
  <2>7. \A i \in 1..n : f[i] = ClassifyPart(parts[i], f)
    BY <2>3, <2>g
  <2> QED
    BY <2>7, <2>g
<1>4. PICK f \in [1..n -> Strength] : \A i \in 1..n : f[i] = ClassifyPart(parts[i], f)
  BY <1>3
<1>5. f = E(f)
  BY <1>2, <1>4
<1>6. F = E(F)
  BY <1>5
<1> HIDE DEF F
<1>7. \A i \in 1..n : F[i] = ClassifyPart(parts[i], F)
  BY <1>2, <1>6
<1>8. \A i \in 1..n : F[i] \in Strength
  <2> DEFINE G == {i \in 1..n : F[i] \in Strength}
  <2>1. ASSUME NEW i \in 1..n, \A j \in 1..n : j < i => j \in G PROVE i \in G
    <3>1. \A c \in Components(parts[i]) : F[c] \in Strength
      BY <1>2, <2>1
    <3>2. F[i] \in Strength
      BY <1>2, <1>7, <3>1, ClassifyPartType, Zenon
    <3> QED
      BY <3>2
  <2> HIDE DEF G
  <2>2. \A i \in 1..n : i \in G
    BY <1>2, <2>1, UpTo
  <2> QED
    BY <2>2 DEF G
<1>9. F = [i \in DOMAIN parts |-> F[i]]
  BY <1>6
<1>10. F \in [DOMAIN parts -> Strength]
  BY <1>2, <1>8, <1>9
<1> QED
  BY <1>1, <1>2, <1>7, <1>10 DEF parts

LEMMA ChangingRecursion ==
  ASSUME NEW t, WellFormed(t), t.parsed
  PROVE  /\ Changing(t.parts) \in [DOMAIN t.parts -> BOOLEAN]
         /\ \A n \in DOMAIN t.parts : Changing(t.parts)[n] = PartChanges(t.parts[n], Changing(t.parts))
<1> DEFINE parts == t.parts
           n == Len(parts)
           E(f) == [i \in DOMAIN parts |-> PartChanges(parts[i], f)]
           F == CHOOSE f : f = E(f)
<1>1. Changing(parts) = F
  BY DEF Changing
<1>2. /\ n \in Nat /\ DOMAIN parts = 1..n
      /\ \A i \in 1..n : /\ IsPart(parts[i])
                         /\ \A c \in Components(parts[i]) : c \in 1..n /\ c < i
  BY Tree
<1> HIDE DEF parts, n
<1>3. \E f \in [1..n -> BOOLEAN] : \A i \in 1..n : f[i] = PartChanges(parts[i], f)
  <2> DEFINE step == [i \in 1..n |-> [f \in [1..n -> BOOLEAN] |-> PartChanges(parts[i], f)]]
  <2>1. ASSUME NEW i \in 1..n, NEW f \in [1..n -> BOOLEAN] PROVE PartChanges(parts[i], f) \in BOOLEAN
    <3>1. \A c \in Components(parts[i]) : f[c] \in BOOLEAN
      BY <1>2
    <3> QED
      BY <1>2, <3>1, PartChangesType, Zenon
  <2>2. step \in [1..n -> [[1..n -> BOOLEAN] -> BOOLEAN]]
    BY <2>1
  <2>3. \A i \in 1..n, f \in [1..n -> BOOLEAN] : step[i][f] = PartChanges(parts[i], f)
    BY Zenon
  <2> HIDE DEF step
  <2>4. Causal(n, BOOLEAN, step)
    <3> SUFFICES ASSUME NEW i \in 1..n, NEW f \in [1..n -> BOOLEAN], NEW g \in [1..n -> BOOLEAN],
                        \A j \in 1..n : j < i => f[j] = g[j]
                 PROVE  step[i][f] = step[i][g]
      BY DEF Causal
    <3>1. \A c \in Components(parts[i]) : f[c] = g[c]
      BY <1>2
    <3>2. PartChanges(parts[i], f) = PartChanges(parts[i], g)
      BY <1>2, <3>1, PartChangesLocal, Zenon
    <3> QED
      BY <2>3, <3>2, Zenon
  <2>n. n \in Nat
    BY <1>2
  <2>s. Solutions(n, BOOLEAN, step) # {}
    BY <2>n, <2>2, <2>4, Recursion
  <2>5. PICK f \in Solutions(n, BOOLEAN, step) : TRUE
    BY <2>s
  <2>g. f \in [1..n -> BOOLEAN] /\ \A i \in 1..n : f[i] = step[i][f]
    BY <2>5 DEF Solutions
  <2>6. \A i \in 1..n : f[i] = PartChanges(parts[i], f)
    BY <2>3, <2>g, Zenon
  <2> QED
    BY <2>6, <2>g, Zenon
<1>4. PICK f \in [1..n -> BOOLEAN] : \A i \in 1..n : f[i] = PartChanges(parts[i], f)
  BY <1>3
<1>5. f = E(f)
  BY <1>2, <1>4
<1>6. F = E(F)
  BY <1>5
<1> HIDE DEF F
<1>7. \A i \in 1..n : F[i] = PartChanges(parts[i], F)
  BY <1>2, <1>6
<1>8. \A i \in 1..n : F[i] \in BOOLEAN
  <2> DEFINE G == {i \in 1..n : F[i] \in BOOLEAN}
  <2>1. ASSUME NEW i \in 1..n, \A j \in 1..n : j < i => j \in G PROVE i \in G
    <3>1. \A c \in Components(parts[i]) : F[c] \in BOOLEAN
      BY <1>2, <2>1
    <3>2. F[i] \in BOOLEAN
      BY <1>2, <1>7, <3>1, PartChangesType, Zenon
    <3> QED
      BY <3>2
  <2> HIDE DEF G
  <2>2. \A i \in 1..n : i \in G
    BY <1>2, <2>1, UpTo
  <2> QED
    BY <2>2 DEF G
<1>9. F = [i \in DOMAIN parts |-> F[i]]
  BY <1>6
<1>10. F \in [DOMAIN parts -> BOOLEAN]
  BY <1>2, <1>8, <1>9
<1> QED
  BY <1>1, <1>2, <1>7, <1>10 DEF parts

\* A text classify takes for a read changes data only where it does not look: in the
\* effects of a function, behind an ANALYZE in parentheses, or in a text the parser
\* cannot read.  Every other statement that changes data is recognised, however the
\* statements, queries, CTEs and set operations of the text are nested.
THEOREM ReadsAreReads ==
  ASSUME NEW t, WellFormed(t), Classify(t) = "read", ~Hides(t)
  PROVE  ~TextChanges(t)
<1>1. t.parsed /\ \A i \in DOMAIN t.parts : ~PartHides(t.parts[i])
  BY DEF Hides
<1>2. CASE t.parsed
  <2> DEFINE parts == t.parts
             n == Len(parts)
             class == Classes(parts)
             changes == Changing(parts)
  <2>1. /\ n \in Nat /\ DOMAIN parts = 1..n /\ Elements(t.statements) \subseteq 1..n
        /\ \A i \in 1..n : /\ IsPart(parts[i])
                           /\ \A c \in Components(parts[i]) : c \in 1..n /\ c < i
    BY <1>2, Tree
  <2>h. \A i \in 1..n : ~PartHides(parts[i])
    BY <1>1, <2>1
  <2>2. \A i \in 1..n : /\ class[i] \in Strength /\ changes[i] \in BOOLEAN
                        /\ class[i] = ClassifyPart(parts[i], class)
                        /\ changes[i] = PartChanges(parts[i], changes)
    BY <1>2, <2>1, ClassesRecursion, ChangingRecursion
  <2>3. StrongestKind({class[i] : i \in Elements(t.statements)}) = "read"
    BY <1>2 DEF Classify
  <2>t. TextChanges(t) <=> \E i \in Elements(t.statements) : changes[i]
    BY <1>2 DEF TextChanges
  <2> HIDE DEF parts, n, class, changes
  <2>4. \A i \in Elements(t.statements) : class[i] = "read"
    BY <2>1, <2>2, <2>3 DEF StrongestKind, Strength
  <2>5. \A i \in 1..n : class[i] = "read" => ~changes[i]
    <3> DEFINE G == {i \in 1..n : class[i] = "read" => ~changes[i]}
    <3>1. ASSUME NEW i \in 1..n, \A j \in 1..n : j < i => j \in G PROVE i \in G
      <4>1. \A c \in Components(parts[i]) : /\ class[c] \in Strength /\ changes[c] \in BOOLEAN
                                            /\ class[c] = "read" => ~changes[c]
        BY <2>1, <2>2, <3>1
      <4>2. CASE class[i] = "read"
        <5>1. PartChanges(parts[i], changes) = FALSE
          <6>1. /\ IsPart(parts[i]) /\ ClassifyPart(parts[i], class) = "read"
                /\ ~PartHides(parts[i])
            BY <2>1, <2>2, <2>h, <4>2
          <6> QED
            BY <6>1, <4>1, PartIsClassified, Zenon
        <5> QED
          BY <2>2, <5>1
      <4> QED
        BY <4>2
    <3> HIDE DEF G
    <3>2. \A i \in 1..n : i \in G
      BY <2>1, <3>1, UpTo
    <3> QED
      BY <3>2 DEF G
  <2> QED
    BY <2>1, <2>4, <2>5, <2>t
<1> QED
  BY <1>1, <1>2
-----------------------------------------------------------------------------
(* Requests: what a request asks for and what it does.                      *)

\* A raw command that is admitted and changes keys is taken for a mutation.
LEMMA WritesAreMutations ==
  ASSUME NEW c, NEW limit, ClassifyRawCommand(c, limit), c.name \in WriteCommands
  PROVE  IsRawMutation(c.name)
<1>1. AllowedRead(c, limit) \/ AllowedMutation(c, limit)
  BY DEF ClassifyRawCommand
<1>2. CASE AllowedMutation(c, limit)
  BY <1>2 DEF AllowedMutation, IsRawMutation
<1>3. CASE AllowedRead(c, limit)
  <2>1. c.name \in {"PING", "ECHO", "LINDEX", "MGET", "EXISTS", "HMGET", "LRANGE", "ZRANGE", "ZREVRANGE",
                    "SRANDMEMBER", "XRANGE", "XREVRANGE"}
                      \cup ReadsOfOneKey \cup ReadsOfOneWord \cup ReadsOfOneMember
    BY <1>3 DEF AllowedRead
  <2> QED
    BY <2>1 DEF WriteCommands, ReadsOfOneKey, ReadsOfOneWord, ReadsOfOneMember
<1> QED
  BY <1>1, <1>2, <1>3

\* A consumer that moves a place at a broker, removes messages or takes them from
\* others has asked to: by its identity or by its acknowledgement.
LEMMA MovingIsAsked ==
  ASSUME NEW o, NEW backend, ConsumePath(o, backend) \in MovingPaths
  PROVE  Stateful(o) \/ Acks(o)
  BY DEF ConsumePath, MovingPaths, AmqpConsume, NatsConsume, RedisConsume, StreamConsume,
         NativeKafkaConsume, PureKafkaConsume, Stateful, ValidNatsOptions, ValidStreamOptions

\* The checks a request has passed before it may run.
Checked(r) == /\ InputIsValid(r)
              /\ r.cmd \in {"sql query", "cql query"} => Class(r) = "read"

\* What changes something is one of the commands that write, or was recognised.
Recognised(r) ==
  \/ r.cmd \in MutatingCommands
  \/ r.cmd = "sql exec" /\ Class(r) # "read"
  \/ RawMutates(r) \/ Aggregates(r)
  \/ r.cmd = "mq consume" /\ (Stateful(Consumes[r.arg]) \/ Acks(Consumes[r.arg]))

LEMMA ChangesAreRecognised ==
  ASSUME NEW r \in Asked, Checked(r), NEW backend, Changes(r, backend), Seen(r)
  PROVE  Recognised(r)
<1>1. CASE r.cmd \in TextCommands
  <2>1. TextChanges(Texts[r.arg])
    BY <1>1 DEF Changes, TextCommands
  <2>2. WellFormed(Texts[r.arg])
    BY <1>1, RequestsAssumption, DataCommandAssumption, Zenon
  <2>3. Class(r) # "read"
    BY <1>1, <2>1, <2>2, ReadsAreReads DEF Class, Seen, OverlookedText, Overlooked
  <2>4. r.cmd \notin {"sql query", "cql query", "export sql"}
    BY <2>3 DEF Checked, InputIsValid, ExportInput
  <2>5. r.cmd \in {"sql exec", "cql exec"}
    BY <1>1, <2>4 DEF TextCommands
  <2> QED
    BY <2>3, <2>5 DEF Recognised, MutatingCommands
<1>2. CASE r.cmd = "kv raw"
  <2>1. RawArgs[r.arg].name \in WriteCommands
    BY <1>2 DEF Changes, TextCommands
  <2>2. ClassifyRawCommand(RawArgs[r.arg], Limit)
    BY <1>2 DEF Checked, InputIsValid, KvInput
  <2> QED
    BY <1>2, <2>1, <2>2, WritesAreMutations DEF Recognised, RawMutates
<1>3. CASE r.cmd = "doc aggregate"
  BY <1>3 DEF Changes, TextCommands, Recognised, Aggregates, HasWriteStage
<1>4. CASE r.cmd = "mq consume"
  <2>1. ConsumePath(Consumes[r.arg], backend) \in MovingPaths
    BY <1>4 DEF Changes, TextCommands
  <2> QED
    BY <1>4, <2>1, MovingIsAsked DEF Recognised
<1>5. CASE r.cmd \notin TextCommands \cup {"kv raw", "doc aggregate", "mq consume"}
  <2>1. r.cmd \notin PlainReads \cup {"ping", "caps"}
    BY <1>5 DEF Changes
  <2>2. r.cmd \in Commands
    BY DataCommandAssumption, Zenon
  <2>3. r.cmd \in MutatingCommands
    BY <1>5, <2>1, <2>2
    DEF TextCommands, Commands, PlainReads, MutatingCommands, SqlCommands, CqlCommands, SqlReads,
        CqlReads, Db2Reads, KvCommands, DocCommands, DocReads, OneOrMany, SearchCommands,
        SearchReads, SearchWrites, SeriesCommands, MqCommands, Exports, Imports
  <2> QED
    BY <2>3 DEF Recognised
<1> QED
  BY <1>1, <1>2, <1>3, <1>4, <1>5

\* So it asks for the write permission and runs under the runner of mutations.
LEMMA ChangesNeedWrite ==
  ASSUME NEW r \in Asked, Checked(r), NEW backend, Changes(r, backend), Seen(r)
  PROVE  NeedsWrite(r) /\ MutationTimeoutSubject(r)
  BY ChangesAreRecognised DEF Recognised, NeedsWrite, MutationTimeoutSubject, ConsumeRequiresWrite

\* What destroys something wants a token.
LEMMA DestroysIsDestructive ==
  ASSUME NEW r \in Asked, Checked(r), Destroys(r)
  PROVE  Destructive(r)
<1>1. CASE r.cmd = "kv raw"
  <2>1. RawArgs[r.arg].name \in WriteCommands
    BY <1>1 DEF Destroys
  <2>2. ClassifyRawCommand(RawArgs[r.arg], Limit)
    BY <1>1 DEF Checked, InputIsValid, KvInput
  <2> QED
    BY <1>1, <2>1, <2>2, WritesAreMutations DEF Destructive, RawMutates
<1>2. CASE r.cmd # "kv raw"
  BY <1>2 DEF Destroys, Destructive, Aggregates, HasWriteStage
<1> QED
  BY <1>1, <1>2
-----------------------------------------------------------------------------
(* The checks of a command: which, and in which order.                      *)

StepNames == {"input", "write", "resolve", "policy", "confirm"}

\* No check is made twice, and the target is known when the token is compared.
Ordered(s) ==
  \A i, j \in DOMAIN s : i < j => s[i] # s[j] /\ ~(s[i] = "confirm" /\ s[j] = "resolve")

\* A sequence of checks with its members.
Lists(s, S) == s \in Seq(StepNames) /\ Ordered(s) /\ Elements(s) = S

LEMMA Concatenation ==
  ASSUME NEW s, NEW S, NEW t, NEW T, Lists(s, S), Lists(t, T),
         S \cap T = {}, ~("confirm" \in S /\ "resolve" \in T)
  PROVE  Lists(s \o t, S \cup T)
<1> DEFINE m == Len(s)
           n == Len(t)
           u == s \o t
<1>1. /\ m \in Nat /\ n \in Nat /\ DOMAIN s = 1..m /\ DOMAIN t = 1..n
      /\ u \in Seq(StepNames) /\ DOMAIN u = 1..(m + n)
      /\ \A i \in 1..m : u[i] = s[i] /\ \A j \in 1..n : u[m + j] = t[j]
  BY DEF Lists
<1>2. /\ \A i \in 1..m : u[i] = s[i] /\ s[i] \in S
      /\ \A i \in 1..(m + n) : i > m => u[i] = t[i - m] /\ t[i - m] \in T /\ i - m \in 1..n
      /\ \A i \in 1..n : m + i \in 1..(m + n) /\ u[m + i] = t[i]
  BY DEF Lists, Elements
<1> HIDE DEF m, n, u
<1>3. ASSUME NEW i \in 1..(m + n), NEW j \in 1..(m + n), i < j
      PROVE  u[i] # u[j] /\ ~(u[i] = "confirm" /\ u[j] = "resolve")
  <2>1. CASE j <= m
    <3>1. i \in 1..m /\ j \in 1..m
      BY <1>1, <1>3, <2>1
    <3>2. u[i] = s[i] /\ u[j] = s[j]
      BY <1>2, <3>1
    <3> QED
      BY <1>1, <1>3, <3>1, <3>2 DEF Lists, Ordered
  <2>2. CASE i <= m /\ j > m
    <3>1. i \in 1..m
      BY <1>1, <2>2
    <3>2. u[i] \in S /\ u[j] \in T
      BY <1>2, <2>2, <3>1
    <3> QED
      BY <3>2
  <2>3. CASE i > m
    <3>1. /\ i - m \in 1..n /\ j - m \in 1..n /\ i - m < j - m
          /\ u[i] = t[i - m] /\ u[j] = t[j - m]
      BY <1>1, <1>2, <1>3, <2>3
    <3> QED
      BY <1>1, <3>1 DEF Lists, Ordered
  <2> QED
    BY <1>1, <2>1, <2>2, <2>3
<1>4. Ordered(u)
  BY <1>1, <1>3 DEF Ordered
<1>5. Elements(u) = S \cup T
  <2>1. ASSUME NEW x \in S \cup T PROVE \E i \in 1..(m + n) : u[i] = x
    <3>1. CASE x \in S
      <4>1. PICK i \in 1..m : s[i] = x
        BY <1>1, <3>1 DEF Lists, Elements
      <4>2. i \in 1..(m + n) /\ u[i] = x
        BY <1>1, <1>2, <4>1
      <4> QED
        BY <4>2
    <3>2. CASE x \in T
      <4>1. PICK i \in 1..n : t[i] = x
        BY <1>1, <3>2 DEF Lists, Elements
      <4>2. m + i \in 1..(m + n) /\ u[m + i] = x
        BY <1>2, <4>1
      <4> QED
        BY <4>2
    <3> QED
      BY <3>1, <3>2
  <2>2. ASSUME NEW i \in 1..(m + n) PROVE u[i] \in S \cup T
    <3>1. CASE i <= m
      <4>1. i \in 1..m
        BY <1>1, <3>1
      <4> QED
        BY <1>2, <4>1
    <3>2. CASE i > m
      BY <1>2, <3>2
    <3> QED
      BY <1>1, <3>1, <3>2
  <2> QED
    BY <1>1, <2>1, <2>2 DEF Elements
<1> QED
  BY <1>1, <1>4, <1>5 DEF Lists, u

LEMMA ShortLists ==
  /\ Lists(<<>>, {}) /\ Lists(<<"write">>, {"write"}) /\ Lists(<<"confirm">>, {"confirm"})
  /\ Lists(<<"input">>, {"input"}) /\ Lists(<<"resolve">>, {"resolve"})
  /\ Lists(<<"policy">>, {"policy"})
  /\ Lists(<<"input", "resolve">>, {"input", "resolve"})
  /\ Lists(<<"input", "resolve", "policy">>, {"input", "resolve", "policy"})
  BY DEF Lists, Ordered, Elements, StepNames

\* The families of commands and their checks.
LEMMA Families ==
  ASSUME NEW cmd \in Commands, NEW w, NEW c
  PROVE  /\ cmd \in SqlCommands => Checks(cmd, w, c) = SqlChecks(cmd, w, c)
         /\ cmd \in CqlCommands => Checks(cmd, w, c) = CqlChecks(cmd, w, c)
         /\ cmd \in KvCommands => Checks(cmd, w, c) = KvChecks(w, c)
         /\ cmd \in DocCommands => Checks(cmd, w, c) = DocChecks(cmd, w, c)
         /\ cmd \in SearchCommands => Checks(cmd, w, c) = SearchChecks(w, c)
         /\ cmd \in SeriesCommands \cup Imports => Checks(cmd, w, c) = w \o <<"input", "resolve">>
         /\ cmd \in MqCommands => Checks(cmd, w, c) = MqChecks(cmd, w, c)
         /\ cmd \in Db2Reads \cup Exports \cup {"ping", "caps"} => Checks(cmd, w, c) = <<"input", "resolve">>
<1> USE DEF SqlCommands, CqlCommands, SqlReads, CqlReads, Db2Reads, KvCommands, DocCommands, DocReads,
            OneOrMany, SearchCommands, SearchReads, SearchWrites, SeriesCommands, MqCommands, Exports,
            Imports
<1>1. cmd \in SqlCommands => Checks(cmd, w, c) = SqlChecks(cmd, w, c)
  BY DEF Checks
<1>2. cmd \in CqlCommands => Checks(cmd, w, c) = CqlChecks(cmd, w, c)
  BY DEF Checks
<1>3. cmd \in KvCommands => Checks(cmd, w, c) = KvChecks(w, c)
  BY DEF Checks
<1>4. cmd \in DocCommands => Checks(cmd, w, c) = DocChecks(cmd, w, c)
  BY DEF Checks
<1>5. cmd \in SearchCommands => Checks(cmd, w, c) = SearchChecks(w, c)
  BY DEF Checks
<1>6. cmd \in SeriesCommands \cup Imports => Checks(cmd, w, c) = w \o <<"input", "resolve">>
  BY DEF Checks, SeriesChecks, ImportChecks
<1>7. cmd \in MqCommands => Checks(cmd, w, c) = MqChecks(cmd, w, c)
  BY DEF Checks
<1>8. cmd \in Db2Reads \cup Exports \cup {"ping", "caps"} => Checks(cmd, w, c) = <<"input", "resolve">>
  BY DEF Checks, Db2Checks, ExportChecks
<1> QED
  BY <1>1, <1>2, <1>3, <1>4, <1>5, <1>6, <1>7, <1>8

\* The commands that change nothing at all ask for nothing.
LEMMA Harmless ==
  ASSUME NEW r
  PROVE  /\ r.cmd \in Db2Reads \cup Exports \cup {"ping", "caps"} => ~NeedsWrite(r) /\ ~Destructive(r)
         /\ r.cmd \in SeriesCommands \cup Imports \cup {"mq produce"} => ~Destructive(r)
  BY DEF NeedsWrite, Destructive, RawMutates, Aggregates, MutatingCommands, SqlReads, CqlReads, Db2Reads,
         DocReads, OneOrMany, SearchReads, SearchWrites, SeriesCommands, Exports, Imports

\* Every command looks at its input, and makes the other checks that apply to it.
Makes(r, S) ==
  /\ Lists(Steps(r), S) /\ {"input", "resolve"} \subseteq S
  /\ NeedsWrite(r) => "write" \in S
  /\ Destructive(r) => "confirm" \in S
  /\ r.cmd \in {"sql query", "cql query"} => "policy" \in S

LEMMA StepsAreListed ==
  ASSUME NEW r \in Asked
  PROVE  \E S : Makes(r, S)
<1> DEFINE w == IF NeedsWrite(r) THEN <<"write">> ELSE <<>>
           c == IF Destructive(r) \/ GuardWantsWrite(r) THEN <<"confirm">> ELSE <<>>
           W == IF NeedsWrite(r) THEN {"write"} ELSE {}
           C == IF Destructive(r) \/ GuardWantsWrite(r) THEN {"confirm"} ELSE {}
           I == {"input", "resolve"}
           P == {"input", "resolve", "policy"}
<1>1. Lists(w, W) /\ Lists(c, C)
  BY ShortLists
<1>2. W \in {{}, {"write"}} /\ C \in {{}, {"confirm"}} /\ (NeedsWrite(r) => "write" \in W)
      /\ (Destructive(r) => "confirm" \in C)
  OBVIOUS
<1>3. Steps(r) = Checks(r.cmd, w, c)
  BY DEF Steps
<1> HIDE DEF w, c, W, C
<1>4. Lists(Usual(w, c), P \cup W \cup C)
  <2>1. Lists(<<"input", "resolve", "policy">> \o w, P \cup W)
    BY <1>1, <1>2, ShortLists, Concatenation
  <2> QED
    BY <1>1, <1>2, <2>1, Concatenation DEF Usual
<1>5. Lists(<<"input", "resolve">> \o c \o w, I \cup C \cup W)
  <2>1. Lists(<<"input", "resolve">> \o c, I \cup C)
    BY <1>1, <1>2, ShortLists, Concatenation
  <2> QED
    BY <1>1, <1>2, <2>1, Concatenation
<1>6. Lists(<<"input", "resolve">> \o w \o c, I \cup W \cup C)
  <2>1. Lists(<<"input", "resolve">> \o w, I \cup W)
    BY <1>1, <1>2, ShortLists, Concatenation
  <2> QED
    BY <1>1, <1>2, <2>1, Concatenation
<1>7. Lists(w \o <<"input", "resolve">>, W \cup I)
  BY <1>1, <1>2, ShortLists, Concatenation
<1>8. Lists(KvChecks(w, c), {"input"} \cup W \cup {"resolve"} \cup C)
  <2>1. Lists(<<"input">> \o w, {"input"} \cup W)
    BY <1>1, <1>2, ShortLists, Concatenation
  <2>2. Lists(<<"input">> \o w \o <<"resolve">>, {"input"} \cup W \cup {"resolve"})
    BY <1>2, <2>1, ShortLists, Concatenation
  <2> QED
    BY <1>1, <1>2, <2>2, Concatenation DEF KvChecks
<1>9. Lists(<<"input", "resolve">> \o w \o <<"policy">> \o c, I \cup W \cup {"policy"} \cup C)
  <2>1. Lists(<<"input", "resolve">> \o w, I \cup W)
    BY <1>1, <1>2, ShortLists, Concatenation
  <2>2. Lists(<<"input", "resolve">> \o w \o <<"policy">>, I \cup W \cup {"policy"})
    BY <1>2, <2>1, ShortLists, Concatenation
  <2> QED
    BY <1>1, <1>2, <2>2, Concatenation
<1>10. r.cmd \in Commands
  BY DataCommandAssumption, Zenon
<1>11. CASE r.cmd \in SqlCommands
  <2>1. Steps(r) = SqlChecks(r.cmd, w, c)
    BY <1>3, <1>10, <1>11, Families
  <2>2. CASE r.cmd = "sql exec"
    <3>1. Makes(r, I \cup C \cup W)
      BY <1>2, <1>5, <2>1, <2>2 DEF SqlChecks, Makes
    <3> QED
      BY <3>1, Zenon
  <2>3. CASE r.cmd # "sql exec"
    <3>1. Makes(r, P \cup W \cup C)
      BY <1>2, <1>4, <2>1, <2>3 DEF SqlChecks, Makes
    <3> QED
      BY <3>1, Zenon
  <2> QED
    BY <2>2, <2>3, Zenon
<1>12. CASE r.cmd \in CqlCommands
  <2>1. Steps(r) = CqlChecks(r.cmd, w, c)
    BY <1>3, <1>10, <1>12, Families
  <2>2. CASE r.cmd = "cql exec"
    <3>1. Makes(r, I \cup W \cup C)
      BY <1>2, <1>6, <2>1, <2>2 DEF CqlChecks, Makes
    <3> QED
      BY <3>1, Zenon
  <2>3. CASE r.cmd # "cql exec"
    <3>1. Makes(r, P \cup W \cup C)
      BY <1>2, <1>4, <2>1, <2>3 DEF CqlChecks, Makes
    <3> QED
      BY <3>1, Zenon
  <2> QED
    BY <2>2, <2>3, Zenon
<1>13. CASE r.cmd \in KvCommands
  <2>1. Steps(r) = KvChecks(w, c) /\ r.cmd \notin {"sql query", "cql query"}
    BY <1>3, <1>10, <1>13, Families DEF KvCommands
  <2>2. Makes(r, {"input"} \cup W \cup {"resolve"} \cup C)
    BY <1>2, <1>8, <2>1 DEF Makes
  <2> QED
    BY <2>2, Zenon
<1>14. CASE r.cmd \in DocCommands
  <2>1. Steps(r) = DocChecks(r.cmd, w, c) /\ r.cmd \notin {"sql query", "cql query"}
    BY <1>3, <1>10, <1>14, Families DEF DocCommands, DocReads, OneOrMany
  <2>2. CASE r.cmd \in OneOrMany
    <3>1. Makes(r, I \cup W \cup {"policy"} \cup C)
      BY <1>2, <1>9, <2>1, <2>2 DEF DocChecks, Makes
    <3> QED
      BY <3>1, Zenon
  <2>3. CASE r.cmd \notin OneOrMany
    <3>1. Makes(r, P \cup W \cup C)
      BY <1>2, <1>4, <2>1, <2>3 DEF DocChecks, Makes
    <3> QED
      BY <3>1, Zenon
  <2> QED
    BY <2>2, <2>3, Zenon
<1>15. CASE r.cmd \in SearchCommands
  <2>1. Steps(r) = SearchChecks(w, c) /\ r.cmd \notin {"sql query", "cql query"}
    BY <1>3, <1>10, <1>15, Families DEF SearchCommands, SearchReads, SearchWrites
  <2>2. Makes(r, I \cup W \cup C)
    BY <1>2, <1>6, <2>1 DEF SearchChecks, Makes
  <2> QED
    BY <2>2, Zenon
<1>16. CASE r.cmd \in SeriesCommands \cup Imports
  <2>a. Steps(r) = w \o <<"input", "resolve">>
    BY <1>3, <1>10, <1>16, Families
  <2>b. ~Destructive(r)
    BY <1>16, Harmless
  <2>1. Steps(r) = w \o <<"input", "resolve">> /\ r.cmd \notin {"sql query", "cql query"} /\ ~Destructive(r)
    BY <1>16, <2>a, <2>b DEF SeriesCommands, Imports
  <2>2. Makes(r, W \cup I)
    BY <1>2, <1>7, <2>1 DEF Makes
  <2> QED
    BY <2>2, Zenon
<1>17. CASE r.cmd \in MqCommands
  <2>1. Steps(r) = MqChecks(r.cmd, w, c) /\ r.cmd \notin {"sql query", "cql query"}
    BY <1>3, <1>10, <1>17, Families DEF MqCommands
  <2>2. CASE r.cmd = "mq produce"
    <3>1. ~Destructive(r)
      BY <2>2, Harmless
    <3>2. Makes(r, W \cup I)
      BY <1>2, <1>7, <2>1, <2>2, <3>1 DEF MqChecks, Makes
    <3> QED
      BY <3>2, Zenon
  <2>3. CASE r.cmd # "mq produce"
    <3>1. Makes(r, P \cup W \cup C)
      BY <1>2, <1>4, <2>1, <2>3 DEF MqChecks, Makes
    <3> QED
      BY <3>1, Zenon
  <2> QED
    BY <2>2, <2>3, Zenon
<1>18. CASE r.cmd \in Db2Reads \cup Exports \cup {"ping", "caps"}
  <2>1. /\ Steps(r) = <<"input", "resolve">> /\ r.cmd \notin {"sql query", "cql query"}
        /\ ~NeedsWrite(r) /\ ~Destructive(r)
    BY <1>3, <1>10, <1>18, Families, Harmless DEF Db2Reads, Exports
  <2>2. Makes(r, I)
    BY <2>1, ShortLists DEF Makes
  <2> QED
    BY <2>2, Zenon
<1> QED
  BY <1>10, <1>11, <1>12, <1>13, <1>14, <1>15, <1>16, <1>17, <1>18, Zenon DEF Commands
-----------------------------------------------------------------------------
(* The inductive invariant: what the checks that were made have shown, and that    *)
(* it still holds.                                                          *)

Left   == Elements(todo)
Passed == Elements(Steps(inv.request)) \ Left
Under  == at \in {"checking", "ran"}

TypeInv ==
  /\ config \in [Names -> Entries \cup {NoEntry}]
  /\ at \in {"idle", "checking", "refused", "ran"}
  /\ inv = Idle \/ inv \in Invocations
  /\ dsn \in Dsns \cup {NoDsn} /\ fromEntry \in Entries \cup {NoEntry}
  /\ kind \in Kinds \cup {"none"}
  /\ lagSupported \in BOOLEAN /\ wasWritable \in BOOLEAN
  /\ shown \in Tokens \cup {NoToken}

StartedInv ==
  at # "idle" => inv \in Invocations /\ (WritesAllowed(inv, config) => wasWritable = TRUE)
TodoInv ==
  /\ todo \in Seq(StepNames) /\ Ordered(todo)
  /\ Under => shown = inv.confirm
InputInv == Under /\ "input" \in Passed => InputIsValid(inv.request)
WriteInv == Under /\ "write" \in Passed => inv.allowWrite = TRUE /\ wasWritable = TRUE
DsnInv   == Under /\ "resolve" \in Passed => dsn \in Dsns
PolicyInv ==
  Under /\ "policy" \in Passed /\ inv.request.cmd \in {"sql query", "cql query"}
    => Class(inv.request) = "read"
ConfirmInv ==
  Under /\ "confirm" \in Passed
    => /\ "resolve" \notin Left
       /\ Destructive(inv.request) => Digest(inv.confirm) = Digest(TokenFor(inv, dsn))
RunInv ==
  at = "ran" => /\ todo = <<>> /\ kind \in Kinds
                /\ OperationsFor(inv.request) \subseteq Operations(kind, lagSupported)

CheckInv == InputInv /\ WriteInv /\ DsnInv /\ PolicyInv /\ ConfirmInv
IInv     == TypeInv /\ StartedInv /\ TodoInv /\ CheckInv /\ RunInv

\* The first of the checks is made, and what is left keeps its order.
LEMMA Advance ==
  ASSUME NEW s \in Seq(StepNames), Ordered(s), s # <<>>
  PROVE  /\ Head(s) \in StepNames /\ Tail(s) \in Seq(StepNames) /\ Ordered(Tail(s))
         /\ Elements(s) = {Head(s)} \cup Elements(Tail(s))
         /\ Head(s) = "confirm" => "resolve" \notin Elements(s)
<1> DEFINE n == Len(s)
           u == Tail(s)
<1>1. /\ n \in Nat \ {0} /\ DOMAIN s = 1..n /\ Head(s) = s[1] /\ s[1] \in StepNames
      /\ u \in Seq(StepNames) /\ DOMAIN u = 1..(n - 1) /\ \A i \in 1..(n - 1) : u[i] = s[i + 1]
  OBVIOUS
<1> HIDE DEF n, u
<1>2. Ordered(u)
  <2> SUFFICES ASSUME NEW i \in 1..(n - 1), NEW j \in 1..(n - 1), i < j
               PROVE  u[i] # u[j] /\ ~(u[i] = "confirm" /\ u[j] = "resolve")
    BY <1>1 DEF Ordered
  <2>1. i + 1 \in 1..n /\ j + 1 \in 1..n /\ i + 1 < j + 1 /\ u[i] = s[i + 1] /\ u[j] = s[j + 1]
    BY <1>1
  <2> QED
    BY <1>1, <2>1 DEF Ordered
<1>3. \A i \in 1..n : i = 1 \/ (i - 1 \in 1..(n - 1) /\ u[i - 1] = s[i])
  BY <1>1
<1>4. \A i \in 1..(n - 1) : i + 1 \in 1..n /\ u[i] = s[i + 1]
  BY <1>1
<1>5. Elements(s) = {Head(s)} \cup Elements(u)
  <2>1. ASSUME NEW i \in 1..n PROVE s[i] \in {Head(s)} \cup Elements(u)
    BY <1>1, <1>3 DEF Elements
  <2>2. ASSUME NEW i \in 1..(n - 1) PROVE u[i] \in Elements(s)
    BY <1>1, <1>4 DEF Elements
  <2>3. Head(s) \in Elements(s)
    BY <1>1 DEF Elements
  <2>4. Elements(s) \subseteq {Head(s)} \cup Elements(u)
    BY <1>1, <2>1 DEF Elements
  <2>5. Elements(u) \subseteq Elements(s)
    BY <1>1, <2>2 DEF Elements
  <2> QED
    BY <2>3, <2>4, <2>5
<1>6. ASSUME Head(s) = "confirm" PROVE "resolve" \notin Elements(s)
  <2>1. \A j \in 1..n : s[j] # "resolve"
    BY <1>1, <1>6 DEF Ordered
  <2> QED
    BY <1>1, <2>1 DEF Elements
<1> QED
  BY <1>1, <1>2, <1>5, <1>6 DEF u

LEMMA InitInv == Init => IInv
<1> SUFFICES ASSUME Init PROVE IInv
  OBVIOUS
<1>1. TypeInv
  BY DEF Init, TypeInv
<1>2. TodoInv
  BY DEF Init, TodoInv, Under, Ordered, StepNames
<1> QED
  BY <1>1, <1>2 DEF Init, IInv, StartedInv, CheckInv, InputInv, WriteInv, DsnInv, PolicyInv, ConfirmInv,
                    RunInv, Under

\* A check that passes is the next one, and adds itself to what has passed.
LEMMA PassesOne ==
  ASSUME IInv, NEW step, Passes(step)
  PROVE  /\ TodoInv' /\ StartedInv' /\ RunInv'
         /\ Passed' \subseteq Passed \cup {step} /\ Left' \subseteq Left /\ step \in Left
         /\ step = "confirm" => "resolve" \notin Left
         /\ Under /\ inv \in Invocations
         /\ config' = config /\ at' = at /\ inv' = inv /\ shown' = shown /\ kind' = kind
         /\ lagSupported' = lagSupported /\ wasWritable' = wasWritable
<1>1. /\ at = "checking" /\ todo # <<>> /\ Head(todo) = step /\ todo' = Tail(todo)
      /\ config' = config /\ at' = at /\ inv' = inv /\ shown' = shown /\ kind' = kind
      /\ lagSupported' = lagSupported /\ wasWritable' = wasWritable
  BY DEF Passes
<1>2. /\ Tail(todo) \in Seq(StepNames) /\ Ordered(Tail(todo))
      /\ Left = {step} \cup Elements(Tail(todo))
      /\ step = "confirm" => "resolve" \notin Left
  BY <1>1, Advance DEF IInv, TodoInv, Left
<1>3. Left' = Elements(Tail(todo)) /\ Passed' = Elements(Steps(inv.request)) \ Left'
  BY <1>1 DEF Left, Passed
<1>4. Passed' \subseteq Passed \cup {step} /\ Left' \subseteq Left /\ step \in Left
  BY <1>2, <1>3 DEF Passed
<1>5. Under /\ TodoInv'
  BY <1>1, <1>2 DEF IInv, TodoInv, Under
<1>6. inv \in Invocations /\ StartedInv'
  BY <1>1 DEF IInv, StartedInv, WritesAllowed
<1>7. RunInv'
  BY <1>1 DEF RunInv
<1> QED
  BY <1>1, <1>2, <1>4, <1>5, <1>6, <1>7

LEMMA CheckInputInv == ASSUME IInv, CheckInput PROVE IInv'
<1>1. Passes("input") /\ InputIsValid(inv.request) /\ dsn' = dsn /\ fromEntry' = fromEntry
  BY DEF CheckInput
<1>2. /\ TodoInv' /\ StartedInv' /\ RunInv'
      /\ Passed' \subseteq Passed \cup {"input"} /\ Left' \subseteq Left
      /\ Under /\ inv \in Invocations
      /\ config' = config /\ at' = at /\ inv' = inv /\ shown' = shown /\ kind' = kind
      /\ lagSupported' = lagSupported /\ wasWritable' = wasWritable
  BY <1>1, PassesOne
<1>3. TypeInv'
  BY <1>1, <1>2 DEF IInv, TypeInv
<1>4. CheckInv'
  BY <1>1, <1>2
  DEF IInv, CheckInv, InputInv, WriteInv, DsnInv, PolicyInv, ConfirmInv, Under, TokenFor, Label,
      Digest, Alike
<1> QED
  BY <1>2, <1>3, <1>4 DEF IInv

LEMMA EnsureWriteAllowedInv == ASSUME IInv, EnsureWriteAllowed PROVE IInv'
<1>1. /\ Passes("write") /\ inv.allowWrite /\ WritesAllowed(inv, config)
      /\ dsn' = dsn /\ fromEntry' = fromEntry
  BY DEF EnsureWriteAllowed
<1>2. /\ TodoInv' /\ StartedInv' /\ RunInv'
      /\ Passed' \subseteq Passed \cup {"write"} /\ Left' \subseteq Left
      /\ Under /\ inv \in Invocations
      /\ config' = config /\ at' = at /\ inv' = inv /\ shown' = shown /\ kind' = kind
      /\ lagSupported' = lagSupported /\ wasWritable' = wasWritable
  BY <1>1, PassesOne
<1>3. TypeInv'
  BY <1>1, <1>2 DEF IInv, TypeInv
<1>4. inv.allowWrite = TRUE /\ wasWritable = TRUE
  <2>1. inv.allowWrite \in BOOLEAN
    BY <1>2 DEF Invocations
  <2>2. wasWritable = TRUE
    BY <1>1, <1>2, Zenon DEF IInv, StartedInv, Under
  <2> QED
    BY <1>1, <2>1, <2>2
<1>5. CheckInv'
  BY <1>1, <1>2, <1>4
  DEF IInv, CheckInv, InputInv, WriteInv, DsnInv, PolicyInv, ConfirmInv, Under, TokenFor, Label,
      Digest, Alike
<1> QED
  BY <1>2, <1>3, <1>5 DEF IInv

LEMMA ResolveDsnInv == ASSUME IInv, ResolveDsn PROVE IInv'
<1>1. Passes("resolve")
  BY DEF ResolveDsn
<1>2. /\ TodoInv' /\ StartedInv' /\ RunInv'
      /\ Passed' \subseteq Passed \cup {"resolve"} /\ Left' \subseteq Left /\ "resolve" \in Left
      /\ Under /\ inv \in Invocations
      /\ config' = config /\ at' = at /\ inv' = inv /\ shown' = shown /\ kind' = kind
      /\ lagSupported' = lagSupported /\ wasWritable' = wasWritable
  BY <1>1, PassesOne
<1>3. dsn' \in Dsns /\ fromEntry' \in Entries \cup {NoEntry}
  <2>1. inv.name \in Names /\ inv.origin \in Origins
    BY <1>2 DEF Invocations
  <2>2. CASE inv.origin.source # "file"
    <3>1. inv.origin.given \in Dsns
      BY <2>1, <2>2 DEF Origins
    <3> QED
      BY <2>2, <3>1 DEF ResolveDsn, IInv, TypeInv
  <2>3. CASE inv.origin.source = "file"
    <3>1. /\ config[inv.name] # NoEntry /\ dsn' = config[inv.name].dsn
          /\ fromEntry' = config[inv.name]
      BY <2>3 DEF ResolveDsn
    <3>2. config[inv.name] \in Entries
      BY <2>1, <3>1 DEF IInv, TypeInv
    <3>3. config[inv.name].dsn \in Dsns
      BY <3>2 DEF Entries
    <3> QED
      BY <3>1, <3>2, <3>3
  <2> QED
    BY <2>2, <2>3
<1>4. TypeInv'
  BY <1>2, <1>3 DEF IInv, TypeInv
<1>5. "confirm" \notin Passed'
  BY <1>2 DEF IInv, CheckInv, ConfirmInv
<1>6. CheckInv'
  BY <1>2, <1>3, <1>5 DEF IInv, CheckInv, InputInv, WriteInv, DsnInv, PolicyInv, ConfirmInv, Under
<1> QED
  BY <1>2, <1>4, <1>6 DEF IInv

LEMMA CheckPolicyInv == ASSUME IInv, CheckPolicy PROVE IInv'
<1>1. Passes("policy") /\ dsn' = dsn /\ fromEntry' = fromEntry
  BY DEF CheckPolicy
<1>2. /\ TodoInv' /\ StartedInv' /\ RunInv'
      /\ Passed' \subseteq Passed \cup {"policy"} /\ Left' \subseteq Left
      /\ Under /\ inv \in Invocations
      /\ config' = config /\ at' = at /\ inv' = inv /\ shown' = shown /\ kind' = kind
      /\ lagSupported' = lagSupported /\ wasWritable' = wasWritable
  BY <1>1, PassesOne
<1>3. TypeInv'
  BY <1>1, <1>2 DEF IInv, TypeInv
<1>4. inv.request.cmd \in {"sql query", "cql query"} => Class(inv.request) = "read"
  BY DEF CheckPolicy, PolicyAllows
<1>5. CheckInv'
  BY <1>1, <1>2, <1>4
  DEF IInv, CheckInv, InputInv, WriteInv, DsnInv, PolicyInv, ConfirmInv, Under, TokenFor, Label,
      Digest, Alike
<1> QED
  BY <1>2, <1>3, <1>5 DEF IInv

LEMMA ConfirmStepInv == ASSUME IInv, Confirm PROVE IInv'
<1>1. Passes("confirm") /\ dsn' = dsn /\ fromEntry' = fromEntry
  BY DEF Confirm
<1>2. /\ TodoInv' /\ StartedInv' /\ RunInv'
      /\ Passed' \subseteq Passed \cup {"confirm"} /\ Left' \subseteq Left /\ "resolve" \notin Left
      /\ Under /\ inv \in Invocations
      /\ config' = config /\ at' = at /\ inv' = inv /\ shown' = shown /\ kind' = kind
      /\ lagSupported' = lagSupported /\ wasWritable' = wasWritable
  BY <1>1, PassesOne
<1>3. TypeInv'
  BY <1>1, <1>2 DEF IInv, TypeInv
<1>4. Destructive(inv.request) => Digest(inv.confirm) = Digest(TokenFor(inv, dsn))
  BY DEF Confirm
<1>5. CheckInv'
  BY <1>1, <1>2, <1>4
  DEF IInv, CheckInv, InputInv, WriteInv, DsnInv, PolicyInv, ConfirmInv, Under, TokenFor, Label,
      Digest, Alike
<1> QED
  BY <1>2, <1>3, <1>5 DEF IInv

LEMMA BeginInv ==
  ASSUME IInv, NEW r \in Asked, NEW n \in Names, NEW w \in BOOLEAN, NEW o \in Origins,
         NEW token \in {NoToken, shown},
         Begin([request |-> r, name |-> n, allowWrite |-> w, origin |-> o, confirm |-> token])
  PROVE  IInv'
<1> DEFINE i == [request |-> r, name |-> n, allowWrite |-> w, origin |-> o, confirm |-> token]
<1>1. /\ inv' = i /\ at' = "checking" /\ todo' = Steps(r) /\ wasWritable' = WritesAllowed(i, config)
      /\ shown' = token /\ config' = config /\ dsn' = dsn /\ kind' = kind
      /\ lagSupported' = lagSupported /\ fromEntry' = fromEntry
  BY DEF Begin
<1>2. i \in Invocations /\ i.request = r /\ i.confirm = token
  BY DEF Invocations, IInv, TypeInv
<1> HIDE DEF i
<1>3. WritesAllowed(i, config) \in BOOLEAN
  BY Zenon DEF WritesAllowed
<1>4. TypeInv'
  BY <1>1, <1>2, <1>3 DEF IInv, TypeInv
<1>5. TodoInv'
  <2>1. PICK S : Makes(r, S)
    BY StepsAreListed, Zenon
  <2> QED
    BY <1>1, <1>2, <2>1 DEF Makes, Lists, TodoInv
<1>6. Passed' = {}
  BY <1>1, <1>2 DEF Passed, Left
<1>7. CheckInv'
  BY <1>6 DEF CheckInv, InputInv, WriteInv, DsnInv, PolicyInv, ConfirmInv
<1>8. StartedInv'
  BY <1>1, <1>2, <1>3 DEF StartedInv
<1>9. RunInv'
  BY <1>1 DEF RunInv
<1> QED
  BY <1>4, <1>5, <1>7, <1>8, <1>9 DEF IInv

LEMMA ConfirmRequiredInv == ASSUME IInv, ConfirmRequired PROVE IInv'
<1>1. /\ at = "checking" /\ todo # <<>> /\ Head(todo) = "confirm" /\ shown' = TokenFor(inv, dsn)
      /\ at' = "refused" /\ config' = config /\ inv' = inv /\ todo' = todo /\ dsn' = dsn
      /\ kind' = kind /\ lagSupported' = lagSupported /\ fromEntry' = fromEntry
      /\ wasWritable' = wasWritable
  BY DEF ConfirmRequired
<1>2. inv \in Invocations
  BY <1>1 DEF IInv, StartedInv
<1>3. dsn \in Dsns
  <2>1. inv.request \in Asked
    BY <1>2 DEF Invocations
  <2>2. PICK S : Makes(inv.request, S)
    BY <2>1, StepsAreListed, Zenon
  <2>3. "resolve" \in Elements(Steps(inv.request))
    BY <2>2 DEF Makes, Lists
  <2>4. "resolve" \notin Left
    BY <1>1, Advance DEF IInv, TodoInv, Left
  <2> QED
    BY <1>1, <2>3, <2>4 DEF IInv, CheckInv, DsnInv, Passed, Under
<1>4. TokenFor(inv, dsn) \in Tokens
  <2>1. inv.request \in Asked /\ inv.name \in Names
    BY <1>2 DEF Invocations
  <2> QED
    BY <1>3, <2>1 DEF TokenFor, Tokens, Label
<1>5. TypeInv'
  BY <1>1, <1>4 DEF IInv, TypeInv
<1>6. TodoInv' /\ StartedInv' /\ CheckInv' /\ RunInv'
  BY <1>1
  DEF IInv, TodoInv, StartedInv, CheckInv, InputInv, WriteInv, DsnInv, PolicyInv, ConfirmInv, RunInv,
      Under, WritesAllowed
<1> QED
  BY <1>5, <1>6 DEF IInv

\* Every scheme belongs to an adapter.
LEMMA KindsAreKnown ==
  ASSUME NEW scheme \in Schemes, NEW pure \in BOOLEAN
  PROVE  KindOf(scheme, pure) \in Kinds
<1>1. DOMAIN Aliases \subseteq Kinds
  BY DEF Aliases, Kinds
<1>2. Canonical(scheme) \in Kinds
  <2>1. CASE \E family \in DOMAIN Aliases : scheme \in Aliases[family]
    BY <1>1, <2>1 DEF Canonical
  <2>2. CASE ~\E family \in DOMAIN Aliases : scheme \in Aliases[family]
    <3>1. scheme \notin UNION {Aliases[family] : family \in DOMAIN Aliases}
      BY <2>2
    <3>2. scheme \in Kinds
      BY <3>1 DEF Schemes
    <3> QED
      BY <2>2, <3>2 DEF Canonical
  <2> QED
    BY <2>1, <2>2
<1> QED
  BY <1>2 DEF KindOf, Kinds

LEMMA RunStepInv ==
  ASSUME IInv, NEW scheme \in Schemes, NEW pure \in BOOLEAN, NEW info \in ServerInfos,
         Run(scheme, pure, info)
  PROVE  IInv'
<1>1. /\ at = "checking" /\ todo = <<>> /\ kind' = KindOf(scheme, pure)
      /\ OperationsFor(inv.request) \subseteq Operations(kind', lagSupported')
      /\ at' = "ran" /\ config' = config /\ inv' = inv /\ todo' = todo /\ dsn' = dsn
      /\ fromEntry' = fromEntry /\ wasWritable' = wasWritable /\ shown' = shown
  BY DEF Run
<1>2. kind' \in Kinds
  BY <1>1, KindsAreKnown
<1>3. lagSupported' \in BOOLEAN
  <2>1. lagSupported' = (kind' = "redis" /\ CountsLag(scheme, info))
    BY DEF Run
  <2> QED
    BY <2>1, Zenon
<1>4. TypeInv'
  BY <1>1, <1>2, <1>3 DEF IInv, TypeInv
<1>5. TodoInv' /\ StartedInv' /\ CheckInv'
  BY <1>1
  DEF IInv, TodoInv, StartedInv, CheckInv, InputInv, WriteInv, DsnInv, PolicyInv, ConfirmInv, Under,
      WritesAllowed, Passed, Left, TokenFor, Label, Digest,
      Alike
<1>6. RunInv'
  BY <1>1, <1>2 DEF RunInv
<1> QED
  BY <1>4, <1>5, <1>6 DEF IInv

LEMMA EndInv == ASSUME IInv, End PROVE IInv'
<1>1. /\ at' = "idle" /\ inv' = Idle /\ todo' = <<>> /\ dsn' = NoDsn /\ fromEntry' = NoEntry
      /\ kind' = "none" /\ lagSupported' = FALSE /\ wasWritable' = FALSE
      /\ config' = config /\ shown' = shown
  BY DEF End
<1>2. TypeInv'
  BY <1>1 DEF IInv, TypeInv
<1>3. TodoInv'
  BY <1>1 DEF TodoInv, Under, Ordered, StepNames
<1>4. StartedInv' /\ CheckInv' /\ RunInv'
  BY <1>1 DEF StartedInv, CheckInv, InputInv, WriteInv, DsnInv, PolicyInv, ConfirmInv, RunInv, Under
<1> QED
  BY <1>2, <1>3, <1>4 DEF IInv

LEMMA PublishInv ==
  ASSUME IInv, NEW n \in Names, NEW e \in Entries \cup {NoEntry}, Publish(n, e)
  PROVE  IInv'
<1>1. /\ config' = [config EXCEPT ![n] = e]
      /\ at' = at /\ inv' = inv /\ todo' = todo /\ dsn' = dsn /\ kind' = kind
      /\ lagSupported' = lagSupported /\ fromEntry' = fromEntry /\ shown' = shown
  BY DEF Publish
<1>2. wasWritable' = (wasWritable \/ (at # "idle" /\ WritesAllowed(inv, config')))
  BY DEF Publish
<1>3. /\ wasWritable' \in BOOLEAN /\ (wasWritable = TRUE => wasWritable' = TRUE)
      /\ at # "idle" /\ WritesAllowed(inv, config') => wasWritable' = TRUE
  BY <1>2, Zenon
<1>4. TypeInv'
  BY <1>1, <1>3 DEF IInv, TypeInv
<1>5. StartedInv'
  <2>1. WritesAllowed(inv, config)' <=> WritesAllowed(inv, config')
    BY <1>1 DEF WritesAllowed
  <2> QED
    BY <1>1, <1>3, <2>1 DEF IInv, StartedInv
<1>6. TodoInv' /\ RunInv'
  BY <1>1 DEF IInv, TodoInv, RunInv, Under
<1>7. CheckInv'
  BY <1>1, <1>3
  DEF IInv, CheckInv, InputInv, WriteInv, DsnInv, PolicyInv, ConfirmInv, Under, Passed, Left, TokenFor,
      Label, Digest, Alike
<1> QED
  BY <1>4, <1>5, <1>6, <1>7 DEF IInv

LEMMA StepInv == IInv /\ [Next]_vars => IInv'
<1> SUFFICES ASSUME IInv, [Next]_vars PROVE IInv'
  OBVIOUS
<1>1. CASE UNCHANGED vars
  <2>1. /\ config' = config /\ at' = at /\ inv' = inv /\ todo' = todo /\ dsn' = dsn /\ kind' = kind
        /\ lagSupported' = lagSupported /\ fromEntry' = fromEntry /\ wasWritable' = wasWritable
        /\ shown' = shown
    BY <1>1 DEF vars
  <2>2. TypeInv' /\ StartedInv' /\ TodoInv' /\ RunInv'
    BY <2>1 DEF IInv, TypeInv, StartedInv, TodoInv, RunInv, Under, WritesAllowed
  <2>3. CheckInv'
    BY <2>1 DEF IInv, CheckInv, InputInv, WriteInv, DsnInv, PolicyInv, ConfirmInv, Under, Passed, Left,
                TokenFor, Label, Digest, Alike
  <2> QED
    BY <2>2, <2>3 DEF IInv
<1>2. CASE Next
  <2>1. CASE \E r \in Asked, n \in Names, w \in BOOLEAN, o \in Origins, token \in {NoToken, shown} :
               Begin([request |-> r, name |-> n, allowWrite |-> w, origin |-> o, confirm |-> token])
    BY <2>1, BeginInv, Zenon
  <2>2. CASE CheckInput
    BY <2>2, CheckInputInv
  <2>3. CASE EnsureWriteAllowed
    BY <2>3, EnsureWriteAllowedInv
  <2>4. CASE ResolveDsn
    BY <2>4, ResolveDsnInv
  <2>5. CASE CheckPolicy
    BY <2>5, CheckPolicyInv
  <2>6. CASE Confirm
    BY <2>6, ConfirmStepInv
  <2>7. CASE ConfirmRequired
    BY <2>7, ConfirmRequiredInv
  <2>8. CASE \E scheme \in Schemes, pure \in BOOLEAN, info \in ServerInfos : Run(scheme, pure, info)
    BY <2>8, RunStepInv, Zenon
  <2>9. CASE End
    BY <2>9, EndInv
  <2>10. CASE \E n \in Names, e \in Entries \cup {NoEntry} : Publish(n, e)
    BY <2>10, PublishInv, Zenon
  <2> QED
    BY <1>2, <2>1, <2>2, <2>3, <2>4, <2>5, <2>6, <2>7, <2>8, <2>9, <2>10, Zenon DEF Next
<1> QED
  BY <1>1, <1>2

LEMMA Inductive == Spec => []IInv
  BY InitInv, StepInv, PTL DEF Spec
-----------------------------------------------------------------------------
\* Every variable has its type.
THEOREM TypeCorrect == Spec => []TypeOK
<1>1. IInv => TypeOK
  <2> SUFFICES ASSUME IInv PROVE TypeOK
    OBVIOUS
  <2>1. Elements(todo) \subseteq {"input", "write", "resolve", "policy", "confirm"}
    <3>1. todo \in Seq(StepNames)
      BY DEF IInv, TodoInv
    <3>2. \A i \in DOMAIN todo : todo[i] \in StepNames
      BY <3>1
    <3> QED
      BY <3>2 DEF Elements, StepNames
  <2> QED
    BY <2>1 DEF IInv, TypeInv, TypeOK
<1> QED
  BY <1>1, Inductive, PTL

\* When a command runs, every check of its request has been passed.
LEMMA RanIsChecked ==
  ASSUME IInv, at = "ran"
  PROVE  /\ inv.request \in Asked /\ Checked(inv.request)
         /\ NeedsWrite(inv.request) => inv.allowWrite = TRUE /\ wasWritable = TRUE
         /\ Destructive(inv.request) => Digest(shown) = Digest(TokenFor(inv, dsn))
<1>1. inv.request \in Asked /\ todo = <<>> /\ Under
  BY DEF IInv, StartedInv, RunInv, Invocations, Under
<1>2. PICK S : Makes(inv.request, S)
  BY <1>1, StepsAreListed, Zenon
<1>3. Passed = S
  <2>1. Left = {}
    BY <1>1, ShortLists DEF Left, Lists
  <2> QED
    BY <1>2, <2>1 DEF Passed, Makes, Lists
<1>4. Checked(inv.request)
  BY <1>1, <1>2, <1>3 DEF Makes, Checked, IInv, CheckInv, InputInv, PolicyInv
<1>5. NeedsWrite(inv.request) => inv.allowWrite = TRUE /\ wasWritable = TRUE
  BY <1>1, <1>2, <1>3 DEF Makes, IInv, CheckInv, WriteInv
<1>6. Destructive(inv.request) => Digest(shown) = Digest(TokenFor(inv, dsn))
  BY <1>1, <1>2, <1>3 DEF Makes, IInv, CheckInv, ConfirmInv, TodoInv
<1> QED
  BY <1>1, <1>4, <1>5, <1>6

\* Whatever changes data, moves a shared reading position or removes messages runs
\* only with --allow-write, and not on a connection that stayed read-only for the
\* whole command: Context::ensure_write_allowed comes before the call in the order
\* of every command, and what changes something is recognised.  A statement whose effect
\* classification cannot see is excepted (Seen): EXPLAIN (ANALYZE) needs no permission.
THEOREM WritesArePermitted == Spec => []ReadOnlyThroughoutIsVetoed
<1>1. IInv => ReadOnlyThroughoutIsVetoed
  BY RanIsChecked, ChangesNeedWrite DEF ReadOnlyThroughoutIsVetoed
<1> QED
  BY <1>1, Inductive, PTL

\* A destructive operation reaches the very DSN the user was shown a token for, under
\* the same label, with the resource and the content or statement text it was shown
\* for, but not with the same --params: SafetyGuard compares the token, which does not
\* digest them, after resolve_dsn, and nothing resolves again.
THEOREM DestructionIsConfirmed == Spec => []DestructionWasConfirmed
<1>1. IInv => DestructionWasConfirmed
  <2> SUFFICES ASSUME IInv, at = "ran", Destroys(inv.request)
               PROVE  /\ shown.dsn = dsn /\ shown.label = Label(inv)
                      /\ inv.request.cmd \in Alike(shown.request.cmd)
                      /\ inv.request.arg = shown.request.arg
                      /\ inv.request.content = shown.request.content
    BY DEF DestructionWasConfirmed
  <2>1. Digest(shown) = Digest(TokenFor(inv, dsn))
    BY RanIsChecked, DestroysIsDestructive
  <2>2. /\ Alike(shown.request.cmd) = Alike(inv.request.cmd)
        /\ shown.request.arg = inv.request.arg /\ shown.request.content = inv.request.content
        /\ shown.label = Label(inv) /\ shown.dsn = dsn
    BY <2>1 DEF Digest, TokenFor
  <2>3. inv.request.cmd \in Alike(inv.request.cmd)
    BY DEF Alike
  <2> QED
    BY <2>2, <2>3
<1> QED
  BY <1>1, Inductive, PTL

\* What may change data runs under the runner that reports a timeout as an
\* indeterminate outcome (main.rs, mutation_timeout_subject); statements whose effect
\* classification cannot see are excepted (Seen).
THEOREM MutationsAreSubjects == Spec => []RunsAsMutation
<1>1. IInv => RunsAsMutation
  BY RanIsChecked, ChangesNeedWrite DEF RunsAsMutation
<1> QED
  BY <1>1, Inductive, PTL
-----------------------------------------------------------------------------
(* What was admitted is served.                                             *)

\* What the flags of each kind stand for.
LEMMA LegacyOperations ==
  /\ Legacy({"sql"}) = SqlRequired /\ Legacy({"sql", "cql"}) = SqlRequired \cup CqlRequired
  /\ Legacy({"sql", "db2"}) = SqlRequired \cup Db2Required
  /\ Legacy({"document"}) = DocumentRequired /\ Legacy({"search"}) = SearchRequired
  /\ Legacy({"time_series"}) = SeriesRequired /\ Legacy({"admin"}) = {}
  /\ Legacy({"producer", "consumer", "admin"}) = ProducerRequired \cup ConsumerRequired
  /\ Legacy({"kv", "producer", "consumer", "admin"}) =
       KvRequired \cup ProducerRequired \cup ConsumerRequired
<1>1. Legacy({"sql"}) = SqlRequired
  BY DEF Legacy
<1>2. Legacy({"sql", "cql"}) = SqlRequired \cup CqlRequired
  BY DEF Legacy
<1>3. Legacy({"sql", "db2"}) = SqlRequired \cup Db2Required
  BY DEF Legacy
<1>4. Legacy({"document"}) = DocumentRequired /\ Legacy({"search"}) = SearchRequired
  BY DEF Legacy
<1>5. Legacy({"time_series"}) = SeriesRequired /\ Legacy({"admin"}) = {}
  BY DEF Legacy
<1>6. Legacy({"producer", "consumer", "admin"}) = ProducerRequired \cup ConsumerRequired
  BY DEF Legacy
<1>7. Legacy({"kv", "producer", "consumer", "admin"}) =
        KvRequired \cup ProducerRequired \cup ConsumerRequired
  BY DEF Legacy
<1> QED
  BY <1>1, <1>2, <1>3, <1>4, <1>5, <1>6, <1>7

\* Every operation an adapter advertises is a method of its own, but for the
\* extensions of the consumer.
LEMMA OperationsAreMethods ==
  ASSUME NEW backend \in Kinds, NEW lag \in BOOLEAN, NEW method \in Operations(backend, lag)
  PROVE  method \in Implements(backend) \cup ConsumerExtensions
<1>1. CASE backend \in {"mysql", "postgres", "sqlite", "sqlserver", "cassandra", "db2"}
  BY <1>1, LegacyOperations
  DEF Operations, Implements, Flags, MySqlOperations, PostgresOperations, SqliteOperations,
      SqlServerOperations, CassandraOperations, Db2Operations, SqlPort
<1>2. CASE backend = "redis"
  BY <1>2, LegacyOperations
  DEF Operations, Implements, Flags, RedisOperations, BrokerPorts, AdminMethods, AdminRequired,
      ConsumerExtensions
<1>3. CASE backend \in {"mongodb", "opensearch", "prometheus"}
  BY <1>3, LegacyOperations
  DEF Operations, Implements, Flags, MongoOperations, SearchOperations, SeriesOperations
<1>4. CASE backend = "amqp"
  BY <1>4, LegacyOperations
  DEF Operations, Implements, Flags, AmqpOperations, BrokerPorts, AdminMethods, AdminRequired,
      ConsumerExtensions
<1>5. CASE backend = "rabbitmq+http"
  BY <1>5, LegacyOperations DEF Operations, Implements, Flags, ManagementOperations, AdminMethods
<1>6. CASE backend \in {"kafka", "kafka-pure", "nats"}
  BY <1>6, LegacyOperations
  DEF Operations, Implements, Flags, NativeKafkaOperations, PureKafkaOperations, NatsOperations,
      BrokerPorts, AdminMethods, ConsumerExtensions
<1> QED
  BY <1>1, <1>2, <1>3, <1>4, <1>5, <1>6 DEF Kinds

\* Who advertises an extension of the consumer.
LEMMA ExtensionKinds ==
  ASSUME NEW backend \in Kinds, NEW lag \in BOOLEAN,
         NEW method \in ConsumerExtensions, method \in Operations(backend, lag)
  PROVE  \/ backend = "nats"
         \/ backend \in {"redis", "kafka"} /\ method # "message.consume_durable"
         \/ backend = "amqp" /\ method = "message.consume_ack"
<1> USE DEF ConsumerExtensions
<1>1. CASE backend \in {"mysql", "postgres", "sqlite", "sqlserver"}
  BY <1>1, LegacyOperations
  DEF Operations, Flags, MySqlOperations, PostgresOperations, SqliteOperations, SqlServerOperations,
      SqlRequired, SqlCalls, AtomicInserts, SqlCatalogs
<1>2. CASE backend = "cassandra"
  BY <1>2, LegacyOperations
  DEF Operations, Flags, CassandraOperations, SqlRequired, SqlCalls, SqlCatalogs, CqlRequired, CqlOptional
<1>3. CASE backend = "db2"
  BY <1>3, LegacyOperations
  DEF Operations, Flags, Db2Operations, SqlRequired, SqlCalls, SqlCatalogs, Db2Required, Db2Lists,
      Db2Optional
<1>4. CASE backend = "redis"
  BY <1>4, LegacyOperations
  DEF Operations, Flags, RedisOperations, KvRequired, ProducerRequired, ConsumerRequired, KvReads,
      KvWrites, ProducerOptional, TopicLists, TopicDetails, AdminMutate, BoundedLag
<1>5. CASE backend = "mongodb"
  BY <1>5, LegacyOperations
  DEF Operations, Flags, MongoOperations, DocumentRequired, DocumentReads, DocumentDelegating,
      DocumentInserts, DocumentUpdates, DocumentDeletes, DocumentAggregates, DocumentDrops
<1>6. CASE backend \in {"opensearch", "prometheus"}
  BY <1>6, LegacyOperations
  DEF Operations, Flags, SearchOperations, SeriesOperations, SearchRequired, SearchLookups,
      SearchDocuments, SeriesRequired, SeriesOptional
<1>7. CASE backend = "amqp"
  BY <1>7, LegacyOperations
  DEF Operations, Flags, AmqpOperations, ProducerRequired, ConsumerRequired, ProducerOptional,
      TopicDetails, AdminMutate
<1>8. CASE backend \in {"rabbitmq+http", "kafka-pure"}
  BY <1>8, LegacyOperations
  DEF Operations, Flags, ManagementOperations, PureKafkaOperations, AdminRequired, ProducerRequired,
      ConsumerRequired, ProducerOptional, TopicLists, TopicDetails, AdminMutate
<1>9. CASE backend = "kafka"
  BY <1>9, LegacyOperations
  DEF Operations, Flags, NativeKafkaOperations, AdminRequired, ProducerRequired, ConsumerRequired,
      ProducerOptional, TopicLists, TopicDetails, BoundedLag, AdminMutate
<1> QED
  BY <1>1, <1>2, <1>3, <1>4, <1>5, <1>6, <1>7, <1>8, <1>9 DEF Kinds

\* A consumer of these options that an adapter of this kind takes and honours.
Plain(group, consumer, durable, ack) ==
  [max |-> 1, timeout |-> 1, bytes |-> "within", partition |-> {}, offset |-> {}, cursor |-> NoCursor,
   group |-> group, consumer |-> consumer, durable |-> durable, name |-> "plain", ack |-> ack,
   channel |-> FALSE]

LEMMA PlainIsValid ==
  ASSUME NEW group \in BOOLEAN, NEW consumer \in BOOLEAN, NEW durable \in BOOLEAN,
         NEW ack \in {"none", "on-success"}
  PROVE  LET o == Plain(group, consumer, durable, ack) IN
           /\ o \in PlainConsumes /\ ValidOptions(o) /\ o.cursor.of = "none" /\ ~Positioned(o)
           /\ o.group = group /\ o.consumer = consumer /\ o.durable = durable /\ o.ack = ack
           /\ o.channel = FALSE /\ o.partition = {} /\ o.offset = {}
<1> DEFINE o == Plain(group, consumer, durable, ack)
<1>1. o \in PlainConsumes
  BY DEF Plain, PlainConsumes
<1>2. /\ o.max = 1 /\ o.timeout = 1 /\ o.bytes = "within" /\ o.name = "plain"
      /\ o.cursor.of = "none" /\ o.partition = {} /\ o.offset = {} /\ o.channel = FALSE
      /\ o.group = group /\ o.consumer = consumer /\ o.durable = durable /\ o.ack = ack
  BY DEF Plain, NoCursor
<1> HIDE DEF o
<1>3. ~Positioned(o)
  BY <1>2 DEF Positioned
<1>4. ValidOptions(o)
  BY <1>2, <1>3, ConsumePoliciesAssumption DEF ValidOptions, ValidCursor, ValidIdentity
<1> QED
  BY <1>1, <1>2, <1>3, <1>4 DEF o

\* The extensions of the consumer an adapter advertises are ones it honours.
LEMMA ExtensionsAreServed ==
  ASSUME NEW backend \in Kinds, NEW lag \in BOOLEAN,
         NEW method \in ConsumerExtensions, method \in Operations(backend, lag)
  PROVE  Serves(backend, method)
<1> DEFINE Witness(o) ==
             /\ o \in PlainConsumes /\ method \in ConsumeOperations(o)
             /\ ConsumePath(o, backend) # "refused" /\ Honours(ConsumePath(o, backend), o)
<1>1. SUFFICES \E o : Witness(o)
  BY DEF Serves
<1>2. CASE backend = "nats"
  <2>1. CASE method = "message.consume_group"
    <3>1. Witness(Plain(TRUE, FALSE, FALSE, "none"))
      BY <1>2, <2>1, PlainIsValid
      DEF ConsumeOperations, ConsumePath, NatsConsume, ValidNatsOptions, NatsPosition, Honours, Acks,
          Stateful, MovingPaths
    <3> QED
      BY <3>1
  <2>2. CASE method \in {"message.consume_durable", "message.consume_ack"}
    <3>1. Witness(Plain(FALSE, FALSE, TRUE, "on-success"))
      BY <1>2, <2>2, PlainIsValid
      DEF ConsumeOperations, ConsumePath, NatsConsume, ValidNatsOptions, NatsPosition, Honours, Acks,
          Stateful, MovingPaths
    <3> QED
      BY <3>1
  <2> QED
    BY <2>1, <2>2 DEF ConsumerExtensions
<1>3. CASE backend = "redis" /\ method # "message.consume_durable"
  <2>1. Witness(Plain(TRUE, TRUE, FALSE, "on-success"))
    BY <1>3, PlainIsValid
    DEF ConsumeOperations, ConsumePath, RedisConsume, StreamConsume, ValidStreamOptions, Honours, Acks,
        Stateful, MovingPaths, ConsumerExtensions
  <2> QED
    BY <2>1
<1>4. CASE backend = "kafka" /\ method # "message.consume_durable"
  <2>1. Witness(Plain(TRUE, FALSE, FALSE, "on-success"))
    BY <1>4, PlainIsValid
    DEF ConsumeOperations, ConsumePath, NativeKafkaConsume, Honours, Acks, Stateful, MovingPaths,
        ConsumerExtensions
  <2> QED
    BY <2>1
<1>5. CASE backend = "amqp" /\ method = "message.consume_ack"
  <2>1. Witness(Plain(FALSE, FALSE, FALSE, "on-success"))
    BY <1>5, PlainIsValid
    DEF ConsumeOperations, ConsumePath, AmqpConsume, Honours, Acks, Stateful, MovingPaths
  <2> QED
    BY <2>1
<1> QED
  BY <1>1, <1>2, <1>3, <1>4, <1>5, ExtensionKinds

LEMMA OperationsAreServed ==
  ASSUME NEW backend \in Kinds, NEW lag \in BOOLEAN, NEW method \in Operations(backend, lag)
  PROVE  Serves(backend, method)
<1>1. CASE method \in ConsumerExtensions
  BY <1>1, ExtensionsAreServed
<1>2. CASE method \notin ConsumerExtensions
  <2>1. method \in Implements(backend)
    BY <1>2, OperationsAreMethods
  <2> QED
    BY <2>1 DEF Serves
<1> QED
  BY <1>1, <1>2

\* A consumer that is not refused reads as what it was asked to be, because what it
\* needs beyond reading is advertised.
LEMMA ConsumersAreHonoured ==
  ASSUME NEW backend \in Kinds, NEW lag \in BOOLEAN, NEW o,
         o.group \in BOOLEAN, o.consumer \in BOOLEAN, o.durable \in BOOLEAN, o.channel \in BOOLEAN,
         ~(o.group /\ o.durable),
         ConsumeOperations(o) \subseteq Operations(backend, lag),
         ConsumePath(o, backend) # "refused"
  PROVE  Honours(ConsumePath(o, backend), o)
<1>1. /\ o.group = TRUE => "message.consume_group" \in Operations(backend, lag)
      /\ o.durable = TRUE => "message.consume_durable" \in Operations(backend, lag)
      /\ Acks(o) => "message.consume_ack" \in Operations(backend, lag)
  BY DEF ConsumeOperations
<1>2. /\ o.group = TRUE => backend \in {"nats", "redis", "kafka"}
      /\ o.durable = TRUE => backend = "nats"
      /\ Acks(o) => backend \in {"nats", "redis", "kafka", "amqp"}
  <2>1. \A method \in ConsumerExtensions : method \in Operations(backend, lag) =>
          \/ backend = "nats"
          \/ backend \in {"redis", "kafka"} /\ method # "message.consume_durable"
          \/ backend = "amqp" /\ method = "message.consume_ack"
    BY ExtensionKinds
  <2>2. /\ "message.consume_group" \in ConsumerExtensions
        /\ "message.consume_durable" \in ConsumerExtensions
        /\ "message.consume_ack" \in ConsumerExtensions
    BY DEF ConsumerExtensions
  <2>3. o.group = TRUE => backend \in {"nats", "redis", "kafka"}
    BY <1>1, <2>1, <2>2
  <2>4. o.durable = TRUE => backend = "nats"
    BY <1>1, <2>1, <2>2
  <2>5. Acks(o) => backend \in {"nats", "redis", "kafka", "amqp"}
    BY <1>1, <2>1, <2>2
  <2> QED
    BY <2>3, <2>4, <2>5
<1>3. CASE backend = "nats"
  BY <1>3 DEF ConsumePath, NatsConsume, ValidNatsOptions, Honours, Acks, MovingPaths
<1>4. CASE backend = "redis"
  BY <1>2, <1>4
  DEF ConsumePath, RedisConsume, StreamConsume, ValidStreamOptions, ValidChannelOptions, Honours, Acks,
      Stateful, MovingPaths
<1>5. CASE backend = "kafka"
  BY <1>2, <1>5 DEF ConsumePath, NativeKafkaConsume, Honours, Acks, MovingPaths
<1>6. CASE backend = "kafka-pure"
  BY <1>2, <1>6 DEF ConsumePath, PureKafkaConsume, Honours, Acks, MovingPaths
<1>7. CASE backend = "amqp"
  BY <1>2, <1>7 DEF ConsumePath, AmqpConsume, Honours, Acks, Stateful, MovingPaths
<1>8. CASE backend \notin {"nats", "redis", "kafka", "kafka-pure", "amqp"}
  BY <1>8 DEF ConsumePath
<1> QED
  BY <1>3, <1>4, <1>5, <1>6, <1>7, <1>8
-----------------------------------------------------------------------------
(* Raw commands: the two policies.                                          *)

LEMMA AdapterRefusesForbidden == AdapterForbidden \subseteq Forbidden
<1> SUFFICES ASSUME NEW name \in AdapterForbidden PROVE name \in Forbidden
  OBVIOUS
<1> QED
  BY DEF AdapterForbidden, Forbidden

\* What the command line admits at a limit the adapter has too, the adapter admits: the
\* reads.
LEMMA AdapterAdmitsReads ==
  ASSUME NEW c, RawTyped(c), NEW limit \in Nat, limit <= RawAdapterItemLimit,
         ClassifyRawCommand(c, limit), AllowedRead(c, limit)
  PROVE  ValidateRawCommand(c)
<1> DEFINE Admits == \/ /\ c.args \in AdapterWords(c.name) /\ AdapterBounds(c)
                        /\ (/\ AdapterModifiers(c.name) # {}
                            /\ c.args \in {n + 1 : n \in AdapterWords(c.name)})
                           => c.modifier \in AdapterModifiers(c.name)
                     \/ AdapterItems(AdapterCount(c))
<1>1. c.bytes = "within" /\ c.name \notin AdapterForbidden \cup {"GETDEL", "LPOP", "RPOP", "SPOP"}
  <2>1. c.name \notin Forbidden \cup {"GETDEL", "LPOP", "RPOP", "SPOP"}
    BY DEF ClassifyRawCommand, ValueReturning
  <2>2. c.bytes = "within"
    BY DEF ClassifyRawCommand, RequestFits, RawTyped
  <2> QED
    BY <2>1, <2>2, AdapterRefusesForbidden
<1>a. SUFFICES Admits
  BY <1>1 DEF ValidateRawCommand
<1>2. c.args \in Nat /\ RawAdapterItemLimit \in Nat
  BY RawAssumption DEF RawTyped
<1>3. CASE \/ c.name = "PING" /\ c.args \in {1, 2}
           \/ c.name \in ReadsOfOneKey \cup {"ECHO"} /\ c.args = 2
           \/ c.name \in ReadsOfOneWord /\ c.args = 1
           \/ c.name \in ReadsOfOneMember /\ c.args = 3
  <2>1. c.args \in AdapterWords(c.name)
    BY <1>3 DEF ReadsOfOneKey, ReadsOfOneWord, ReadsOfOneMember, AdapterWords
  <2>2. AdapterBounds(c) /\ AdapterModifiers(c.name) = {}
    BY <1>3 DEF ReadsOfOneKey, ReadsOfOneWord, ReadsOfOneMember, AdapterBounds, AdapterModifiers
  <2> QED
    BY <2>1, <2>2
<1>4. CASE c.name = "LINDEX" /\ c.args = 3 /\ c.from # NotANumber
  BY <1>4 DEF AdapterWords, AdapterBounds, AdapterModifiers
<1>5. CASE c.name \in {"MGET", "EXISTS"} /\ Items(c.args - 1, limit)
  BY <1>2, <1>5 DEF Items, AdapterItems, AdapterCount
<1>6. CASE c.name = "HMGET" /\ Items(c.args - 2, limit)
  BY <1>2, <1>6 DEF Items, AdapterItems, AdapterCount
<1>7. ASSUME IndexRange(c, limit) PROVE AdapterIndexRange(c)
  <2>1. c.from \in Nat /\ c.to \in Nat /\ NotANumber \notin {c.from, c.to}
    BY <1>7, RawAssumption DEF IndexRange
  <2> QED
    BY <1>2, <1>7, <2>1 DEF IndexRange, AdapterIndexRange, Items, AdapterItems
<1>8. CASE c.name = "LRANGE" /\ c.args = 4 /\ IndexRange(c, limit)
  BY <1>7, <1>8 DEF AdapterWords, AdapterBounds, AdapterModifiers
<1>9. CASE /\ c.name \in {"ZRANGE", "ZREVRANGE"} /\ IndexRange(c, limit)
           /\ c.args = 4 \/ (c.args = 5 /\ c.modifier = "WITHSCORES")
  <2>1. AdapterWords(c.name) = {4, 5} /\ AdapterBounds(c) /\ AdapterModifiers(c.name) = {"WITHSCORES"}
    BY <1>7, <1>9 DEF AdapterWords, AdapterBounds, AdapterModifiers
  <2>2. c.args \in {n + 1 : n \in {4, 5}} => c.args \in {5, 6}
    OBVIOUS
  <2> QED
    BY <1>9, <2>1, <2>2
<1>10. CASE c.name = "SRANDMEMBER" /\ c.args = 2
  BY <1>10 DEF AdapterWords, AdapterBounds, AdapterModifiers
<1>11. CASE /\ c.name = "SRANDMEMBER" /\ c.args = 3
            /\ c.from # NotANumber /\ Items(Magnitude(c.from), limit)
  <2>1. AdapterItems(IF c.from < 0 THEN -c.from ELSE c.from)
    BY <1>2, <1>11 DEF Items, AdapterItems, Magnitude
  <2> QED
    BY <1>11, <2>1 DEF AdapterWords, AdapterBounds, AdapterModifiers
<1>12. CASE /\ c.name \in {"XRANGE", "XREVRANGE"} /\ c.args = 6 /\ c.modifier = "COUNT"
            /\ c.from # NotANumber /\ Items(c.from, limit)
  <2>1. AdapterItems(c.from)
    BY <1>2, <1>12 DEF Items, AdapterItems
  <2> QED
    BY <1>12, <2>1 DEF AdapterWords, AdapterBounds, AdapterModifiers
<1> QED
  BY <1>3, <1>4, <1>5, <1>6, <1>8, <1>9, <1>10, <1>11, <1>12 DEF AllowedRead

\* And the mutations.
LEMMA AdapterAdmitsMutations ==
  ASSUME NEW c, RawTyped(c), NEW limit \in Nat, limit <= RawAdapterItemLimit,
         ClassifyRawCommand(c, limit), AllowedMutation(c, limit)
  PROVE  ValidateRawCommand(c)
<1> DEFINE Admits == \/ /\ c.args \in AdapterWords(c.name) /\ AdapterBounds(c)
                        /\ (/\ AdapterModifiers(c.name) # {}
                            /\ c.args \in {n + 1 : n \in AdapterWords(c.name)})
                           => c.modifier \in AdapterModifiers(c.name)
                     \/ AdapterItems(AdapterCount(c))
                     \/ c.name = "SET" /\ c.args >= 3 /\ c.modifier # "GET"
                     \/ c.name = "ZADD" /\ AdapterScores(c)
<1>1. c.bytes = "within" /\ c.name \notin AdapterForbidden \cup {"GETDEL", "LPOP", "RPOP", "SPOP"}
  <2>1. c.name \notin Forbidden \cup {"GETDEL", "LPOP", "RPOP", "SPOP"}
    BY DEF ClassifyRawCommand, ValueReturning
  <2>2. c.bytes = "within"
    BY DEF ClassifyRawCommand, RequestFits, RawTyped
  <2> QED
    BY <2>1, <2>2, AdapterRefusesForbidden
<1>a. SUFFICES Admits
  BY <1>1 DEF ValidateRawCommand
<1>2. c.args \in Nat /\ RawAdapterItemLimit \in Nat
  BY RawAssumption DEF RawTyped
<1>3. CASE c.name = "SET" /\ c.args >= 3 /\ c.modifier # "GET"
  BY <1>3
<1>4. CASE c.name \in {"DEL", "UNLINK"} /\ Items(c.args - 1, limit)
  BY <1>2, <1>4 DEF Items, AdapterItems, AdapterCount
<1>5. CASE c.name \in {"INCR", "DECR", "PERSIST"} /\ c.args = 2
  BY <1>5 DEF AdapterWords, AdapterBounds, AdapterModifiers
<1>6. CASE c.name \in Counters \cup {"RENAME", "RENAMENX"} /\ c.args = 3
  BY <1>6 DEF Counters, AdapterWords, AdapterBounds, AdapterModifiers
<1>7. CASE /\ c.name \in Expiries
           /\ c.args = 3 \/ (c.args = 4 /\ c.modifier \in {"NX", "XX", "GT", "LT"})
  <2>1. /\ AdapterWords(c.name) = {3, 4} /\ AdapterBounds(c)
        /\ AdapterModifiers(c.name) = {"NX", "XX", "GT", "LT"}
    BY <1>7 DEF Expiries, AdapterWords, AdapterBounds, AdapterModifiers
  <2>2. c.args \in {n + 1 : n \in {3, 4}} => c.args \in {4, 5}
    OBVIOUS
  <2> QED
    BY <1>7, <2>1, <2>2
<1>8. ASSUME Pairs(c, limit)
      PROVE  c.args > 3 /\ c.args % 2 = 0 /\ AdapterItems(c.args \div 2 - 1)
  <2>1. c.args >= 4 /\ c.args % 2 = 0 /\ (c.args - 2) \div 2 >= 1 /\ (c.args - 2) \div 2 <= limit
    BY <1>2, <1>8 DEF Pairs, Items
  <2>2. (c.args - 2) \div 2 = c.args \div 2 - 1
    BY <1>2, <2>1
  <2> QED
    BY <1>2, <2>1, <2>2 DEF AdapterItems
<1>9. CASE c.name = "HSET" /\ Pairs(c, limit)
  BY <1>8, <1>9 DEF AdapterCount
<1>10. CASE c.name \in MemberLists /\ Items(c.args - 2, limit)
  <2>1. AdapterCount(c) = c.args - 2
    BY <1>10 DEF MemberLists, AdapterCount
  <2> QED
    BY <1>2, <1>10, <2>1 DEF Items, AdapterItems
<1>11. CASE c.name \in MemberUpdates /\ c.args = 4
  BY <1>11 DEF MemberUpdates, AdapterWords, AdapterBounds, AdapterModifiers
<1>12. CASE c.name = "LTRIM" /\ c.args = 4 /\ IndexRange(c, limit)
  <2>1. c.from \in Nat /\ c.to \in Nat /\ NotANumber \notin {c.from, c.to}
    BY <1>12, RawAssumption DEF IndexRange
  <2>2. AdapterIndexRange(c)
    BY <1>2, <1>12, <2>1 DEF IndexRange, AdapterIndexRange, Items, AdapterItems
  <2> QED
    BY <1>12, <2>2 DEF AdapterWords, AdapterBounds, AdapterModifiers
<1>13. CASE c.name = "ZADD" /\ Pairs(c, limit) /\ c.from # NotANumber
  BY <1>8, <1>13 DEF AdapterScores
<1> QED
  BY <1>3, <1>4, <1>5, <1>6, <1>7, <1>9, <1>10, <1>11, <1>12, <1>13 DEF AllowedMutation

\* Each path of the adapter takes the commands the command line sends there.
LEMMA PathsAgree ==
  ASSUME NEW c, NEW limit, ClassifyRawCommand(c, limit)
  PROVE  /\ IsRawMutation(c.name) <=> AllowedMutation(c, limit)
         /\ AllowedMutation(c, limit) => IsAllowedRawMutation(c.name) /\ ~ReturnsValues(c)
         /\ ~AllowedMutation(c, limit) => AllowedRead(c, limit)
<1>1. ASSUME AllowedMutation(c, limit) PROVE IsRawMutation(c.name)
  BY <1>1 DEF AllowedMutation, IsRawMutation
<1>2. ASSUME AllowedRead(c, limit) PROVE ~IsRawMutation(c.name)
  <2>1. c.name \in {"PING", "ECHO", "LINDEX", "MGET", "EXISTS", "HMGET", "LRANGE", "ZRANGE", "ZREVRANGE",
                    "SRANDMEMBER", "XRANGE", "XREVRANGE"}
                      \cup ReadsOfOneKey \cup ReadsOfOneWord \cup ReadsOfOneMember
    BY <1>2 DEF AllowedRead
  <2> QED
    BY <2>1 DEF IsRawMutation, ReadsOfOneKey, ReadsOfOneWord, ReadsOfOneMember, Counters, Expiries,
                MemberLists, MemberUpdates, ValueReturning
<1>3. AllowedRead(c, limit) \/ AllowedMutation(c, limit)
  BY DEF ClassifyRawCommand
<1>4. ASSUME AllowedMutation(c, limit) PROVE IsAllowedRawMutation(c.name) /\ ~ReturnsValues(c)
  <2>1. IsAllowedRawMutation(c.name)
    BY <1>4 DEF AllowedMutation, IsAllowedRawMutation, Counters, Expiries, MemberLists, MemberUpdates
  <2>2. c.name \notin {"GETDEL", "LPOP", "RPOP", "SPOP"}
    BY DEF ClassifyRawCommand, ValueReturning
  <2>3. c.name = "SET" => c.modifier # "GET"
    BY <1>4 DEF AllowedMutation, Counters, Expiries, MemberLists, MemberUpdates
  <2> QED
    BY <2>1, <2>2, <2>3 DEF ReturnsValues
<1> QED
  BY <1>1, <1>2, <1>3, <1>4

\* A read that is admitted takes the bounded path, and its script declares its keys.
LEMMA ReadsAreBounded ==
  ASSUME NEW c, RawTyped(c), NEW limit \in Nat, limit <= RawAdapterItemLimit,
         ClassifyRawCommand(c, limit), AllowedRead(c, limit)
  PROVE  ValidateBoundedRawCommand(c) /\ ScriptKeys(c) \subseteq 2..c.args
<1>1. ValidateRawCommand(c)
  BY AdapterAdmitsReads
<1>2. /\ c.name \in {"PING", "ECHO", "LINDEX", "MGET", "EXISTS", "HMGET", "LRANGE", "ZRANGE", "ZREVRANGE",
                     "SRANDMEMBER", "XRANGE", "XREVRANGE"}
                      \cup ReadsOfOneKey \cup ReadsOfOneWord \cup ReadsOfOneMember
      /\ c.name \notin {"PING", "DBSIZE", "TIME", "LASTSAVE"} => c.args >= 2
  BY DEF AllowedRead, Items, RawTyped, ReadsOfOneWord
<1>3. ValidateBoundedRawCommand(c)
  BY <1>1, <1>2 DEF ValidateBoundedRawCommand, ReadsOfOneKey, ReadsOfOneWord, ReadsOfOneMember
<1>4. CASE c.name \in {"PING", "ECHO", "DBSIZE", "TIME", "LASTSAVE"}
  BY <1>3, <1>4 DEF ScriptKeys
<1>5. CASE c.name \in {"MGET", "EXISTS"}
  BY <1>3, <1>5 DEF ScriptKeys
<1>6. CASE c.name \notin {"PING", "ECHO", "DBSIZE", "TIME", "LASTSAVE", "MGET", "EXISTS"}
  <2>1. ScriptKeys(c) = {2}
    BY <1>3, <1>6 DEF ScriptKeys, ValidateBoundedRawCommand
  <2>2. c.args \in Nat /\ c.args >= 2
    BY <1>2, <1>6 DEF RawTyped
  <2> QED
    BY <1>3, <2>1, <2>2
<1> QED
  BY <1>3, <1>4, <1>5, <1>6

\* However many elements the database holds, the answer to a read that was admitted has
\* no more items than the limit.
LEMMA AnswersAreBounded ==
  ASSUME NEW c, RawTyped(c), NEW limit \in Nat, limit > 0, AllowedRead(c, limit), NEW there \in Nat
  PROVE  LET n == AnswerElements(c, there) IN
           n \in Nat /\ ScriptItems(c, n) \in 0..limit /\ AnswerItems(c, n) \in 0..limit
<1> DEFINE n == AnswerElements(c, there)
<1>1. CASE c.name = "MGET"
  <2>1. n = c.args - 1
    BY <1>1 DEF AnswerElements
  <2>2. n \in 0..limit
    BY <1>1, <2>1
    DEF AllowedRead, Items, RawTyped, ReadsOfOneKey, ReadsOfOneWord, ReadsOfOneMember
  <2> HIDE DEF n
  <2>3. ScriptItems(c, n) = n /\ AnswerItems(c, n) = n
    BY <1>1 DEF ScriptItems, AnswerItems
  <2> QED
    BY <2>2, <2>3 DEF n
<1>2. CASE c.name = "HMGET"
  <2>1. n = c.args - 2
    BY <1>2 DEF AnswerElements
  <2>2. n \in 0..limit
    BY <1>2, <2>1
    DEF AllowedRead, Items, RawTyped, ReadsOfOneKey, ReadsOfOneWord, ReadsOfOneMember
  <2> HIDE DEF n
  <2>3. ScriptItems(c, n) = n /\ AnswerItems(c, n) = n
    BY <1>2 DEF ScriptItems, AnswerItems
  <2> QED
    BY <2>2, <2>3 DEF n
<1>3. CASE c.name \in {"LRANGE", "ZRANGE", "ZREVRANGE"}
  <2> DEFINE k == IF c.to < c.from \/ there <= c.from THEN 0 ELSE LeastOf(there, c.to + 1) - c.from
             twice == c.name # "LRANGE" /\ c.modifier = "WITHSCORES"
  <2>1. IndexRange(c, limit)
    BY <1>3 DEF AllowedRead, ReadsOfOneKey, ReadsOfOneWord, ReadsOfOneMember
  <2>2. k \in 0..limit
    <3>1. c.from \in Nat /\ c.to \in Nat
      BY <2>1 DEF IndexRange
    <3>2. CASE c.to < c.from \/ there <= c.from
      BY <3>2
    <3>3. CASE ~(c.to < c.from \/ there <= c.from)
      <4>1. k = LeastOf(there, c.to + 1) - c.from
        BY <3>3
      <4>2. c.to - c.from + 1 <= limit
        BY <2>1, <3>1, <3>3 DEF IndexRange, Items
      <4> HIDE DEF k
      <4>3. CASE there < c.to + 1
        BY <3>1, <3>3, <4>1, <4>2, <4>3 DEF LeastOf
      <4>4. CASE ~(there < c.to + 1)
        BY <3>1, <3>3, <4>1, <4>2, <4>4 DEF LeastOf
      <4> QED
        BY <4>3, <4>4
    <3> QED
      BY <3>2, <3>3
  <2>3. n = k * (IF twice THEN 2 ELSE 1)
    BY <1>3 DEF AnswerElements
  <2> HIDE DEF n, k
  <2>4. CASE twice
    <3>1. n = k * 2
      BY <2>3, <2>4
    <3>2. n \in Nat /\ n \div 2 = k
      BY <2>2, <3>1
    <3>3. ScriptItems(c, n) = n \div 2 /\ AnswerItems(c, n) = n \div 2
      BY <1>3, <2>4 DEF ScriptItems, AnswerItems
    <3> QED
      BY <2>2, <3>2, <3>3 DEF n
  <2>5. CASE ~twice
    <3>1. n = k
      BY <2>2, <2>3, <2>5
    <3>2. ScriptItems(c, n) = n /\ AnswerItems(c, n) = n
      BY <1>3, <2>5 DEF ScriptItems, AnswerItems
    <3> QED
      BY <2>2, <3>1, <3>2 DEF n
  <2> QED
    BY <2>4, <2>5
<1>4. CASE c.name = "SRANDMEMBER" /\ c.args = 3
  <2>1. n = IF there = 0 THEN 0 ELSE IF c.from < 0 THEN -c.from ELSE LeastOf(there, c.from)
    BY <1>4 DEF AnswerElements
  <2>2. c.from \in Int /\ Items(Magnitude(c.from), limit)
    BY <1>4 DEF AllowedRead, RawTyped, ReadsOfOneKey, ReadsOfOneWord, ReadsOfOneMember
  <2>3. n \in 0..limit
    BY <2>1, <2>2 DEF Items, Magnitude, LeastOf
  <2> HIDE DEF n
  <2>4. ScriptItems(c, n) = n /\ AnswerItems(c, n) = n
    BY <1>4 DEF ScriptItems, AnswerItems
  <2> QED
    BY <2>3, <2>4 DEF n
<1>5. CASE c.name \in {"XRANGE", "XREVRANGE"}
  <2>1. n = LeastOf(there, c.from)
    BY <1>5 DEF AnswerElements
  <2>2. c.from \in Int /\ Items(c.from, limit)
    BY <1>5 DEF AllowedRead, RawTyped, ReadsOfOneKey, ReadsOfOneWord, ReadsOfOneMember
  <2>3. n \in 0..limit
    BY <2>1, <2>2 DEF Items, LeastOf
  <2> HIDE DEF n
  <2>4. ScriptItems(c, n) = n /\ AnswerItems(c, n) = n
    BY <1>5 DEF ScriptItems, AnswerItems
  <2> QED
    BY <2>3, <2>4 DEF n
<1>6. CASE /\ c.name \notin {"MGET", "HMGET", "LRANGE", "ZRANGE", "ZREVRANGE", "XRANGE", "XREVRANGE"}
           /\ ~(c.name = "SRANDMEMBER" /\ c.args = 3)
  <2>1. n = 0
    BY <1>6 DEF AnswerElements
  <2>2. ScriptItems(c, 0) = 1 /\ AnswerItems(c, 0) = 1
    BY <1>6 DEF ScriptItems, AnswerItems
  <2> QED
    BY <2>1, <2>2
<1> QED
  BY <1>1, <1>2, <1>3, <1>4, <1>5, <1>6

\* So such a read is refused for the size of its answer only.
LEMMA ReadsAreAnswered ==
  ASSUME NEW c, RawTyped(c), NEW limit \in Nat, limit > 0, limit <= RawAdapterItemLimit,
         AllowedRead(c, limit), NEW there \in Nat, NEW bytes \in 1..2
  PROVE  LET answer == Answer(c, AnswerElements(c, there), bytes) IN
           RawCommandBounded(c, answer, [max_items |-> limit, max_bytes |-> 1])
             <=> bytes = 1 /\ answer.nodes <= RawNodeLimit
<1> DEFINE n == AnswerElements(c, there)
           answer == Answer(c, n, bytes)
           budget == [max_items |-> limit, max_bytes |-> 1]
<1>1. n \in Nat /\ ScriptItems(c, n) \in 0..limit /\ AnswerItems(c, n) \in 0..limit
  BY AnswersAreBounded
<1> HIDE DEF n
<1>2. answer.elements = n /\ answer.bytes = bytes /\ answer.nodes \in Int
  <2>1. Nodes(c, n) \in Int
    <3>1. CASE c.name \in {"XRANGE", "XREVRANGE"}
      BY <1>1, <3>1 DEF Nodes
    <3>2. CASE c.name \notin {"XRANGE", "XREVRANGE"}
      BY <1>1, <3>2 DEF Nodes
    <3> QED
      BY <3>1, <3>2
  <2> QED
    BY <2>1 DEF Answer
<1>3. budget.max_items = limit /\ budget.max_bytes = 1
  OBVIOUS
<1> HIDE DEF answer, budget
<1>4. RawAdapterItemLimit \in Nat /\ RawNodeLimit \in Nat
  BY RawAssumption
<1>5. ScriptStatuses(c, answer, budget) = {0} <=> bytes = 1 /\ answer.nodes <= RawNodeLimit
  <2> DEFINE refusals == (IF answer.nodes > RawNodeLimit THEN {3} ELSE {})
                           \cup (IF answer.bytes > budget.max_bytes THEN {2} ELSE {})
  <2>1. ScriptStatuses(c, answer, budget) = IF refusals = {} THEN {0} ELSE refusals
    BY <1>1, <1>2, <1>3, <1>4 DEF ScriptStatuses
  <2>2. 0 \notin refusals
    OBVIOUS
  <2>3. refusals = {} <=> ~(answer.nodes > RawNodeLimit) /\ ~(answer.bytes > budget.max_bytes)
    OBVIOUS
  <2>4. refusals = {} <=> bytes = 1 /\ answer.nodes <= RawNodeLimit
    BY <1>2, <1>3, <1>4, <2>3
  <2> HIDE DEF refusals
  <2> QED
    BY <2>1, <2>2, <2>4
<1>6. AnswerItems(c, answer.elements) <= budget.max_items
  BY <1>1, <1>2, <1>3
<1> QED
  BY <1>5, <1>6 DEF RawCommandBounded, answer, budget, n

\* A request that passed every check is served: each method it calls is the adapter's
\* own, the adapter admits the raw commands the command line admits and answers them
\* within the limit, and a consumer reads as the identity it was given.
THEOREM RequestsAreServed == Spec => []AdmittedIsServed
<1>1. ASSUME IInv, at = "ran" PROVE \A method \in OperationsFor(inv.request) : Serves(kind, method)
  <2>1. kind \in Kinds /\ OperationsFor(inv.request) \subseteq Operations(kind, lagSupported)
    BY <1>1 DEF IInv, RunInv
  <2>2. lagSupported \in BOOLEAN
    BY <1>1 DEF IInv, TypeInv
  <2>3. \A method \in Operations(kind, lagSupported) : Serves(kind, method)
    BY <2>1, <2>2, OperationsAreServed
  <2> QED
    BY <2>1, <2>3
<1>2. ASSUME IInv, at = "ran", inv.request.cmd = "mq consume",
             ConsumePath(Consumes[inv.request.arg], kind) # "refused"
      PROVE  Honours(ConsumePath(Consumes[inv.request.arg], kind), Consumes[inv.request.arg])
  <2> DEFINE o == Consumes[inv.request.arg]
  <2>1. inv.request \in Asked /\ Checked(inv.request)
    BY <1>2, RanIsChecked
  <2>2. inv.request.arg \in DOMAIN Consumes
    BY <1>2, <2>1, DataCommandAssumption, Zenon
  <2>3. {o.group, o.consumer, o.durable, o.channel} \subseteq BOOLEAN
    BY <2>2, RequestsAssumption, Zenon
  <2>4. ~(o.group /\ o.durable)
    BY <1>2, <2>1 DEF Checked, InputIsValid, MqInput, ValidConsume
  <2>5. OperationsFor(inv.request) = ConsumeOperations(o)
    BY <1>2 DEF OperationsFor, SqlCommands, CqlCommands, SqlReads, CqlReads, Db2Reads, KvCommands,
                DocCommands, DocReads, OneOrMany, SearchCommands, SearchReads, SearchWrites,
                SeriesCommands, Exports, Imports
  <2>6. /\ kind \in Kinds /\ lagSupported \in BOOLEAN
        /\ ConsumeOperations(o) \subseteq Operations(kind, lagSupported)
    BY <1>2, <2>5 DEF IInv, RunInv, TypeInv
  <2>7. ConsumePath(o, kind) # "refused"
    BY <1>2
  <2> HIDE DEF o
  <2>8. Honours(ConsumePath(o, kind), o)
    BY <2>3, <2>4, <2>6, <2>7, ConsumersAreHonoured
  <2> QED
    BY <2>8 DEF o
<1>3. ASSUME IInv, at = "ran", inv.request.cmd = "kv raw", Limit <= RawAdapterItemLimit
      PROVE  LET c == RawArgs[inv.request.arg] IN
           IF RawMutates(inv.request)
           THEN ValidateRawMutationInput(c) /\ ~ReturnsValues(c) /\ ResponseFits(MutationNodes(c))
           ELSE /\ ValidateBoundedRawCommand(c)
                /\ ScriptKeys(c) \subseteq 2..c.args
                /\ \A there \in 0..Limit + 2, bytes \in 1..2 :
                     LET answer == Answer(c, AnswerElements(c, there), bytes) IN
                       RawCommandBounded(c, answer, [max_items |-> Limit, max_bytes |-> 1])
                         <=> bytes = 1 /\ answer.nodes <= RawNodeLimit
  <2> DEFINE c == RawArgs[inv.request.arg]
  <2>1. inv.request \in Asked /\ Checked(inv.request)
    BY <1>3, RanIsChecked
  <2>2. RawTyped(c) /\ Limit \in Nat
    BY <1>3, <2>1, DataCommandAssumption, RequestsAssumption, Zenon
  <2>3. ClassifyRawCommand(c, Limit) /\ Limit > 0
    BY <1>3, <2>1 DEF Checked, InputIsValid, KvInput
  <2>4. RawMutates(inv.request) <=> IsRawMutation(c.name)
    BY <1>3 DEF RawMutates
  <2> HIDE DEF c
  <2>5. CASE AllowedMutation(c, Limit)
    <3>1. IsRawMutation(c.name) /\ IsAllowedRawMutation(c.name) /\ ~ReturnsValues(c)
      BY <2>3, <2>5, PathsAgree
    <3>2. ValidateRawMutationInput(c)
      BY <1>3, <2>2, <2>3, <2>5, <3>1, AdapterAdmitsMutations DEF ValidateRawMutationInput
    <3>3. ResponseFits(MutationNodes(c))
      BY <3>1, RawAssumption DEF ResponseFits, MutationNodes, ReturnsValues
    <3> QED
      BY <2>4, <3>1, <3>2, <3>3 DEF c
  <2>6. CASE ~AllowedMutation(c, Limit)
    <3>1. AllowedRead(c, Limit) /\ ~IsRawMutation(c.name)
      BY <2>3, <2>6, PathsAgree
    <3>2. ValidateBoundedRawCommand(c) /\ ScriptKeys(c) \subseteq 2..c.args
      BY <1>3, <2>2, <2>3, <3>1, ReadsAreBounded
    <3>3. \A there \in Nat, bytes \in 1..2 :
            LET answer == Answer(c, AnswerElements(c, there), bytes) IN
              RawCommandBounded(c, answer, [max_items |-> Limit, max_bytes |-> 1])
                <=> bytes = 1 /\ answer.nodes <= RawNodeLimit
      BY <1>3, <2>2, <2>3, <3>1, ReadsAreAnswered
    <3>4. \A there \in 0..Limit + 2 : there \in Nat
      BY <2>2
    <3> QED
      BY <2>4, <3>1, <3>2, <3>3, <3>4 DEF c
  <2> QED
    BY <2>5, <2>6
<1>4. IInv => AdmittedIsServed
  BY <1>1, <1>2, <1>3, Zenon DEF AdmittedIsServed
<1> QED
  BY <1>4, Inductive, PTL
==============================================================================
