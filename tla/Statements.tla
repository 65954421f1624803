------------------------------ MODULE Statements -----------------------------
(***************************************************************************)
(* How SafetyGuard classifies the text of an SQL or CQL statement          *)
(* (service/safety.rs), beside what the statement does.  A text is         *)
(*                                                                         *)
(*   [parsed |-> TRUE, parts |-> <<p1, p2, ...>>, statements |-> <<m, ...>>]*)
(*   [parsed |-> FALSE, keyword |-> w, into |-> b, where |-> b,            *)
(*    changes |-> b]                                                       *)
(*                                                                         *)
(* where the parts are the nodes of the tree sqlparser makes of it: the    *)
(* statements, queries and set expressions (a part's node) with what the   *)
(* classification looks at, and what it does not look at although the      *)
(* backend does: the options of an EXPLAIN that stand in parentheses (its  *)
(* option is ANALYZE or not), and whether a select list or VALUES calls a  *)
(* function that changes data.  A part names the parts it is made of by    *)
(* their places, and they come before it.  What the backend does with a    *)
(* text the parser cannot read is up to the text (its changes).  The parser*)
(* itself is external.                                                     *)
(***************************************************************************)
EXTENDS Sequences, Integers

\* Read < Write < Destructive
StrongestKind(kinds) ==
  IF "destructive" \in kinds THEN "destructive"
  ELSE IF "write" \in kinds THEN "write" ELSE "read"

Elements(s) == {s[i] : i \in DOMAIN s}

\* Statements that only show something.
Shows == {"explain table", "show", "fetch"}

\* Definitions, rights and the removal of whole tables.
Definitions == {"truncate", "drop", "alter", "create", "grant", "revoke"}

\* The parts a part is made of.
Components(p) ==
  CASE p.node = "query" -> {p.body} \cup Elements(p.with)
    [] p.node = "statement" /\ p.is = "query" -> {p.query}
    [] p.node = "statement" /\ p.is = "explain" -> {p.of}
    [] p.node = "set expression" /\ p.is = "query" -> {p.query}
    [] p.node = "set expression" /\ p.is = "set operation" -> {p.left, p.right}
    [] p.node = "set expression" /\ p.is \in {"insert", "update"} -> {p.statement}
    [] OTHER -> {}

IsPart(p) ==
  /\ p.node \in {"statement", "query", "set expression"}
  /\ p.node = "statement" /\ p.is = "explain" => {p.analyze, p.option} \subseteq BOOLEAN
  /\ p.node = "set expression" /\ p.is = "select" => {p.into, p.calls} \subseteq BOOLEAN
  /\ p.node = "set expression" /\ p.is = "values" => p.calls \in BOOLEAN

\* What the parser returns is a tree.
WellFormed(t) ==
  t.parsed => /\ Len(t.parts) \in Nat /\ DOMAIN t.parts = 1..Len(t.parts)
              /\ Elements(t.statements) \subseteq DOMAIN t.parts
              /\ \A n \in DOMAIN t.parts : IsPart(t.parts[n]) /\ Components(t.parts[n]) \subseteq 1..n - 1
-----------------------------------------------------------------------------
\* The classes of the parts before it are known.  A statement that is not listed is a
\* write.
ClassifyStatement(s, class) ==
  CASE s.is = "query" -> class[s.query]
    [] s.is \in Shows -> "read"
    [] s.is = "explain" -> IF s.analyze THEN class[s.of] ELSE "read"
    [] s.is \in {"update", "delete"} -> IF s.where THEN "write" ELSE "destructive"
    [] s.is \in Definitions -> "destructive"
    [] OTHER -> "write"

\* Row locks make a query a write; the common table expressions count like the
\* body.
ClassifyQuery(q, class) ==
  StrongestKind({IF q.locks THEN "write" ELSE "read", class[q.body]}
                  \cup {class[c] : c \in Elements(q.with)})

\* SELECT ... INTO creates a table.
ClassifySetExpr(e, class) ==
  CASE e.is = "select" -> IF e.into THEN "destructive" ELSE "read"
    [] e.is = "query" -> class[e.query]
    [] e.is = "set operation" -> StrongestKind({class[e.left], class[e.right]})
    [] e.is \in {"insert", "update"} -> class[e.statement]
    [] OTHER -> "read"                                  \* VALUES, TABLE

ClassifyPart(p, class) ==
  CASE p.node = "statement" -> ClassifyStatement(p, class)
    [] p.node = "query" -> ClassifyQuery(p, class)
    [] p.node = "set expression" -> ClassifySetExpr(p, class)

Classes(parts) == LET class[n \in DOMAIN parts] == ClassifyPart(parts[n], class) IN class

\* A text the parser cannot read is judged by its first word.  WITH is a write,
\* because its expressions cannot be looked into.
ClassifyByKeyword(t) ==
  CASE t.keyword = "SELECT" -> IF t.into THEN "destructive" ELSE "read"
    [] t.keyword \in {"SHOW", "DESCRIBE", "EXPLAIN"} -> "read"
    [] t.keyword \in {"DELETE", "UPDATE"} -> IF t.where THEN "write" ELSE "destructive"
    [] t.keyword \in {"DROP", "TRUNCATE", "ALTER", "CREATE", "RENAME"} -> "destructive"
    [] OTHER -> "write"

\* Several statements in one text: the strongest counts.
Classify(t) ==
  IF t.parsed THEN StrongestKind({Classes(t.parts)[n] : n \in Elements(t.statements)})
  ELSE ClassifyByKeyword(t)
-----------------------------------------------------------------------------
(* What a text does to the data, told from the semantics of SQL and not     *)
(* from the code.                                                           *)

\* EXPLAIN executes its statement when it is to be analysed, which PostgreSQL reads
\* before the statement, EXPLAIN ANALYZE, and among the options, EXPLAIN (ANALYZE).

StatementChanges(s, changes) ==
  CASE s.is = "query" -> changes[s.query]
    [] s.is = "explain" -> (s.analyze \/ s.option) /\ changes[s.of]
    [] s.is \in Shows \cup {"analyze"} -> FALSE
    [] OTHER -> TRUE

QueryChanges(q, changes) == changes[q.body] \/ \E c \in Elements(q.with) : changes[c]

BodyChanges(e, changes) ==
  CASE e.is = "select" -> e.into \/ e.calls
    [] e.is = "values" -> e.calls
    [] e.is = "query" -> changes[e.query]
    [] e.is = "set operation" -> changes[e.left] \/ changes[e.right]
    [] e.is \in {"insert", "update"} -> changes[e.statement]
    [] OTHER -> FALSE

PartChanges(p, changes) ==
  CASE p.node = "statement" -> StatementChanges(p, changes)
    [] p.node = "query" -> QueryChanges(p, changes)
    [] p.node = "set expression" -> BodyChanges(p, changes)

Changing(parts) == LET changes[n \in DOMAIN parts] == PartChanges(parts[n], changes) IN changes

TextChanges(t) ==
  IF t.parsed THEN \E n \in Elements(t.statements) : Changing(t.parts)[n] ELSE t.changes

\* What the classification cannot see: an ANALYZE among the options of an EXPLAIN,
\* the effects of a function, and all of a text the parser cannot read but its first
\* word.
PartHides(p) ==
  \/ p.node = "statement" /\ p.is = "explain" /\ p.option
  \/ p.node = "set expression" /\ p.is \in {"select", "values"} /\ p.calls

Hides(t) == t.parsed => \E n \in DOMAIN t.parts : PartHides(t.parts[n])

\* The texts it may take for reads although they change data.
Overlooked(t) == Classify(t) = "read" /\ Hides(t)
=============================================================================
