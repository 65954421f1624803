------------------------------ MODULE MCImport ------------------------------
(***************************************************************************)
(* Two processes that import two items for TLC.                            *)
(***************************************************************************)
EXTENDS Import, TLC

\* One run covers the three kinds of artifacts.
AllKinds == {"sql", "kv", "doc"}

\* An entry that may expire and one that may not are enough to meet an expired
\* entry before one that is stored.
FirstMayExpire == {{}, {1}}

\* Up to three items; two of them are what is imported.
Item(name, bytes) == [name |-> name, bytes |-> bytes, formed |-> TRUE]
ListsOf(items) == {s \in UNION {[1..n -> items] : n \in 0..3} :
                     \A i, j \in DOMAIN s : s[i] = s[j] => i = j}
MCSources == [k \in Kinds |-> ListsOf(
  CASE k = "sql" -> {Item(Name("row", n), 1) : n \in 1..3}
    [] k = "kv"  -> {Item(Key(<<"a">>), 1), Item(Key(<<"a", "b">>), 2), Item(Key(<<"b">>), 1)}
    [] k = "doc" -> {Item(NoId, 1), Item(Name("int", 1), 1), Item(Name("float", 2), 2)})]

\* An import that takes what is there, one that moves the keys, one that is too small.
MCInput(items) == [max_items |-> items, max_item_bytes |-> 4, max_batch_bytes |-> 6]
MCOption(limit, strip, prefix, drop) ==
  [limit |-> limit, input |-> MCInput(limit), strip |-> strip, prefix |-> prefix,
   drop_id |-> drop, named |-> TRUE]
MCImportOptions == {MCOption(3, <<>>, <<>>, FALSE), MCOption(2, <<"a">>, <<"b">>, TRUE),
                    MCOption(1, <<>>, <<>>, FALSE)}

\* No process is distinguished from another one.
Symmetry == Permutations(Processes)
=============================================================================
