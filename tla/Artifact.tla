------------------------------ MODULE Artifact ------------------------------
(***************************************************************************)
(* The file between dbtool export and dbtool import                        *)
(* (dbtool-cli/src/cmd/transfer.rs): what an export writes about its own   *)
(* completeness, and what an import demands of a file before it connects.  *)
(*                                                                         *)
(* A file may be edited, damaged or old.  Artifacts of keys and documents  *)
(* count their items; in one of rows nothing but the mark of truncation    *)
(* tells whether all are there, so that no edit of it is considered.       *)
(***************************************************************************)
EXTENDS Limiters

LOCAL INSTANCE SequencesExt
LOCAL INSTANCE Functions

CONSTANTS
  Sources,      \* [kind -> sets of what a source may hold, as sequences]
  ExportLimits, \* --limit of exports
  ImportOptions,\* [limit, input, strip, prefix, drop_id, named]
  MaxFileBytes  \* MAX_TRANSFER_ARTIFACT_BYTES

\* An item: its key, the id of a document or the number of a row as `name`, its bytes,
\* and whether it has the form its kind demands: a value of bytes, one value per column.
SourceItem == [name : [type : STRING, value : Nat, key : Seq(STRING)],
               bytes : Nat, formed : BOOLEAN]

ASSUME ArtifactAssumption ==
  /\ Sources \in [{"sql", "kv", "doc"} -> SUBSET Seq(SourceItem)]
  /\ MaxFileBytes \in Nat /\ ExportLimits \subseteq Nat \ {0}

Name(type, value) == [type |-> type, value |-> value, key |-> <<>>]
Key(key)          == [type |-> "key", value |-> 0, key |-> key]
NoId              == Name("none", 0)
-----------------------------------------------------------------------------
(* Exports *)

\* artifact_integrity
Integrity(limit, exported, selected, truncated) ==
  [complete |-> ~truncated /\ exported = selected, truncated |-> truncated,
   changed |-> exported # selected, exported |-> exported, selected |-> selected,
   limit |-> limit]

\* What was in the source and is not in the file is `lost`.
NewArtifact(kind, marks, items, source) ==
  [kind |-> kind, version |-> "current", codec |-> TRUE, source |-> TRUE, marked |-> TRUE,
   marks |-> marks, distinct |-> TRUE, payload |-> items, lost |-> Len(items) < Len(source)]

\* sql_rows_artifact
ExportRows(rows, limit) ==
  LET read == FinishList(rows, limit) IN
  NewArtifact("sql", Integrity(limit, Len(read.items), Len(read.items), read.truncated),
              read.items, rows)

\* A key of the scan can be gone when its value is read: what may be left of the keys,
\* in their order.
Remaining(keys) == UNION {
  {[i \in 1..n |-> keys[at[i]]] :
     at \in {at \in [1..n -> DOMAIN keys] : \A i, j \in 1..n : i < j => at[i] < at[j]}} :
  n \in 0..Len(keys)}

ExportKeys(keys, entries, limit) ==
  LET scan == FinishList(keys, limit) IN
  NewArtifact("kv", Integrity(limit, Len(entries), Len(scan.items), scan.truncated),
              entries, keys)

ExportDocuments(documents, limit) ==
  LET found == FinishList(documents, limit) IN
  NewArtifact("doc", Integrity(limit, Len(found.items), Len(found.items), found.truncated),
              found.items, documents)

\* serialize_artifact_with_read_budget: nothing is published in parts.
Exported ==
  LET files == UNION {
        {ExportRows(rows, n) : rows \in Sources["sql"], n \in ExportLimits},
        {ExportDocuments(documents, n) : documents \in Sources["doc"], n \in ExportLimits},
        UNION {{ExportKeys(keys, entries, n) : entries \in Remaining(FinishList(keys, n).items)} :
                 keys \in Sources["kv"], n \in ExportLimits}}
  IN {file \in files : Measured(WholeOf(file.payload), MaxFileBytes)}
-----------------------------------------------------------------------------
(* Files *)

\* One mark says something else than the export wrote.
Misstated(marks) ==
  LET n == marks.selected IN
  {[marks EXCEPT !.complete = ~@], [marks EXCEPT !.truncated = ~@], [marks EXCEPT !.changed = ~@]}
    \cup UNION {{[marks EXCEPT !.exported = m], [marks EXCEPT !.selected = m],
                 [marks EXCEPT !.limit = m]} : m \in 0..(n + 1)}

\* An older file may be incomplete without saying so; a value of another form is lost.
Damaged(file) ==
  {[file EXCEPT !.version = "older", !.lost = TRUE], [file EXCEPT !.version = "newer"]}
    \cup {[file EXCEPT !.payload[i].formed = FALSE, !.lost = TRUE] :
            i \in IF file.kind = "doc" THEN {} ELSE DOMAIN file.payload}

\* An item is missing or twice there.
Miscounted(file) ==
  {[file EXCEPT !.codec = FALSE, !.lost = TRUE], [file EXCEPT !.source = FALSE]}
    \cup {[file EXCEPT !.payload = RemoveAt(@, i), !.lost = TRUE] : i \in DOMAIN file.payload}
    \cup {[file EXCEPT !.payload = Append(@, @[i])] : i \in DOMAIN file.payload}
    \cup {[file EXCEPT !.marks = marks] : marks \in Misstated(file.marks)}

Unmarked(file) ==
  {[file EXCEPT !.marked = FALSE, !.lost = TRUE], [file EXCEPT !.distinct = FALSE, !.lost = TRUE]}

Artifacts == Exported \cup UNION {
  Damaged(file) \cup IF file.kind = "sql" THEN Unmarked(file) ELSE Miscounted(file) :
    file \in Exported}
-----------------------------------------------------------------------------
(* Imports *)

\* read_artifact: a file beyond the limit is not read to its end, and an older version
\* is refused before its members are looked at.
Readable(file) == WholeOf(file.payload) <= MaxFileBytes /\ file.version # "older"

\* require_version, require_complete_sql_artifact: --accept-legacy-unmarked is inert.
ThisVersion(file) == file.version = "current"

\* validate_integrity
Consistent(marks, count) ==
  /\ marks.limit > 0 /\ marks.exported = count
  /\ marks.exported <= marks.selected /\ marks.selected <= marks.limit
  /\ marks.changed <=> marks.exported # marks.selected
  /\ marks.truncated => marks.selected = marks.limit
  /\ marks.complete <=> ~marks.truncated /\ ~marks.changed

Names(file) == [i \in DOMAIN file.payload |-> file.payload[i].name]

\* validate_import_artifact
Valid(file) ==
  /\ ThisVersion(file)
  /\ CASE file.kind = "sql" -> file.marked /\ ~file.marks.truncated
       [] file.kind = "kv"  -> /\ file.source /\ file.codec
                               /\ Consistent(file.marks, Len(file.payload))
                               /\ IsInjective(Names(file))
                               /\ \A i \in DOMAIN file.payload : file.payload[i].formed
                               /\ file.marks.complete
       [] file.kind = "doc" -> /\ file.source /\ file.codec
                               /\ Consistent(file.marks, Len(file.payload))
                               /\ file.marks.complete

\* canonical_document_id: the number 1 is one id, however it is typed.
Canonical(id) ==
  IF id.type \in {"int", "float", "json"} THEN [id EXCEPT !.type = "number"] ELSE id

\* ensure_unique_document_ids
UniqueIds(file, options) ==
  \A i, j \in DOMAIN file.payload :
    LET a == Canonical(file.payload[i].name)
        b == Canonical(file.payload[j].name)
    IN a = b /\ ~options.drop_id => i = j \/ a = NoId

\* restore_key
HasPrefix(name, options) == IsPrefix(options.strip, name.key)
TargetKey(name, options) ==
  options.prefix \o SubSeq(name.key, Len(options.strip) + 1, Len(name.key))

\* prepare_kv_entries: no two entries for one key.
TargetKeys(file, options) ==
  [i \in DOMAIN file.payload |-> TargetKey(file.payload[i].name, options)]

\* prepare_import: the names of columns differ in more than their case, and every row
\* has a value for each.
Prepares(file, options) ==
  /\ ProbeLimit(options.limit) /\ Len(file.payload) <= options.limit
  /\ CASE file.kind = "sql" -> /\ options.named /\ file.distinct
                               /\ \A i \in DOMAIN file.payload : file.payload[i].formed
       [] file.kind = "kv"  -> /\ \A i \in DOMAIN file.payload :
                                    HasPrefix(file.payload[i].name, options)
                               /\ IsInjective(TargetKeys(file, options))
       [] file.kind = "doc" -> options.named /\ UniqueIds(file, options)

\* preflight_prepared_import: what the adapter would refuse is refused before.
Fit(file, options) ==
  LET items == file.payload IN
  CASE file.kind = "kv" -> \A i \in DOMAIN items : RequestFits(options.input, <<items[i]>>)
    [] file.kind # "kv" /\ items = <<>> -> file.kind = "doc" \/ RequestFits(options.input, items)
    [] file.kind # "kv" /\ items # <<>> -> BatchFits(options.input, items)

Accepted(file, options) ==
  Readable(file) /\ Valid(file) /\ Prepares(file, options) /\ Fit(file, options)

\* The file holds all that its source held, and every item will have a place of its own.
Whole(file, options) ==
  ~file.lost /\ (file.kind = "kv" => IsInjective(TargetKeys(file, options)))
=============================================================================
