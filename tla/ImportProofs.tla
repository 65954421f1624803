---------------------------- MODULE ImportProofs ----------------------------
(***************************************************************************)
(* Proofs about Import, for every number of processes and items, every     *)
(* source, limit and option: what an import reports is true of the target, *)
(* although requests outlive the wait for their answers, other clients     *)
(* write, entries expire and processes die.                                *)
(*                                                                         *)
(* The argument follows a request.  What was sent says which items are     *)
(* already in place and what the user allowed to replace, and it keeps     *)
(* saying so when the process that sent it is gone; an answer says what    *)
(* its request did.                                                        *)
(***************************************************************************)
EXTENDS Import, TLAPS

LOCAL INSTANCE SequencesExt

\* Open transactions write different rows, and where nothing stands yet.
LockInv ==
  \A p \in Processes : \A i \in written[p] \cap keyed :
    target[i] = "none" /\ \A q \in Processes : i \in written[q] => q = p

\* What a process knows at each of its steps.
CallInv(p) ==
  /\ pc[p] = "idle" => next[p] = 1 /\ existing[p] = {}
  /\ pc[p] # "idle" => result[p] = "none"
  /\ pc[p] # "await" => answer[p] = "none"
  /\ pc[p] \in {"probe", "confirm"} => kind # "sql" /\ overwritten[p] = {}
  /\ pc[p] = "confirm" => kind = "kv" /\ next[p] = 1
  /\ pc[p] \in {"probe", "confirm", "write", "rollback"} =>
       wire[p] = NoRequest /\ (kind # "kv" => stored[p] = {})
  /\ kind = "kv" /\ pc[p] \in {"write", "await"} =>
       \A j \in Items : j < next[p] => j \in stored[p] \cup past

\* What a request that is under way says of the target.
RequestInv(p) ==
  /\ wire[p].op = "restore" => kind = "kv" /\ (pc[p] = "await" => wire[p].item = next[p])
  /\ wire[p].op = "commit" => kind = "sql" /\ written[p] = Items
  /\ wire[p].op = "insert" =>
       kind = "doc" /\ \A j \in Items : j < wire[p].item => j \in stored[p]
  /\ written[p] # {} => kind = "sql"

\* What its answer says.
AnswerInv(p) ==
  /\ answer[p] # "none" => wire[p] = NoRequest
  /\ answer[p] = "Ok" => Items \subseteq stored[p]
  /\ answer[p] \in {"Stored", "Expired"} => next[p] \in stored[p] \cup past

\* What a process may replace was shown, also while a request of it is under way.
Allows(p, token) ==
  /\ overwritten[p] \subseteq token
  /\ wire[p].op = "restore" /\ ~wire[p].nx => wire[p].item \in token
  /\ kind = "kv" /\ pc[p] \in {"write", "await"} => existing[p] \subseteq token
ReplaceInv(p) ==
  /\ given[p] \in {{}} \cup shown
  /\ \E token \in {{}} \cup shown : Allows(p, token)

\* What a result says.
ResultInv(p) ==
  /\ kind = "sql" => stored[p] \in {{}, Items}
  /\ result[p] = "Failed" => /\ wire[p] = NoRequest /\ written[p] = {}
                             /\ kind # "kv" => stored[p] = {}
  /\ result[p] = "Ok" => Items \ past \subseteq stored[p]

\* The inductive invariant
ProcessInv(p) == CallInv(p) /\ RequestInv(p) /\ AnswerInv(p) /\ ReplaceInv(p) /\ ResultInv(p)
IInv == TypeOK /\ whole /\ LockInv /\ \A p \in Processes : ProcessInv(p)
-----------------------------------------------------------------------------
(* Files: what is accepted is all that the source held.                    *)

MarksType ==
  [complete : BOOLEAN, truncated : BOOLEAN, changed : BOOLEAN,
   exported : Nat, selected : Nat, limit : Nat]
FileType ==
  [kind : {"sql", "kv", "doc"}, version : {"current", "older", "newer"}, codec : BOOLEAN,
   source : BOOLEAN, marked : BOOLEAN, marks : MarksType, distinct : BOOLEAN,
   payload : Seq(SourceItem), lost : BOOLEAN]

\* The marks of an export tell how many items it wrote, and whether any are lost.
Honest(marks, count, lost) ==
  /\ marks.exported = count
  /\ lost => marks.truncated \/ marks.changed
  /\ marks.complete <=> ~marks.truncated /\ ~marks.changed
ExportType == {f \in FileType : /\ Honest(f.marks, Len(f.payload), f.lost)
                                /\ f.kind # "kv" /\ f.lost => f.marks.truncated
                                /\ f.version = "current"}

\* A list that is cut to a limit: it says so, and nothing else is missing.
LEMMA FinishListType ==
  ASSUME NEW items \in Seq(SourceItem), NEW limit \in Nat \ {0}
  PROVE  /\ FinishList(items, limit).items \in Seq(SourceItem)
         /\ FinishList(items, limit).truncated \in BOOLEAN
         /\ ~FinishList(items, limit).truncated =>
              Len(FinishList(items, limit).items) = Len(items)
<1> DEFINE n == IF Len(items) < limit THEN Len(items) ELSE limit
<1>1. n \in 0..Len(items) /\ Len(items) \in Nat
  OBVIOUS
<1>2. SubSeq(items, 1, n) \in Seq(SourceItem) /\ Len(SubSeq(items, 1, n)) = n
  BY <1>1
<1>3. ~(Len(items) > limit) => n = Len(items)
  BY <1>1
<1> HIDE DEF n
<1>4. FinishList(items, limit) = [items |-> SubSeq(items, 1, n), truncated |-> Len(items) > limit]
  BY DEF FinishList, n
<1>5. /\ FinishList(items, limit).items = SubSeq(items, 1, n)
      /\ FinishList(items, limit).truncated = (Len(items) > limit)
  <2>1. \A x, y : [items |-> x, truncated |-> y].items = x
                /\ [items |-> x, truncated |-> y].truncated = y
    OBVIOUS
  <2> QED BY <1>4, <2>1, Zenon
<1>6. (Len(items) > limit) \in BOOLEAN
  BY <1>1
<1>7. FinishList(items, limit).truncated \in BOOLEAN
  BY <1>5, <1>6, Zenon
<1>8. ~FinishList(items, limit).truncated => ~(Len(items) > limit)
  BY <1>5, Zenon
<1>9. FinishList(items, limit).items \in Seq(SourceItem)
  BY <1>2, <1>5, Zenon
<1>10. ASSUME ~FinishList(items, limit).truncated
       PROVE  Len(FinishList(items, limit).items) = Len(items)
  <2>1. n = Len(items)
    BY <1>3, <1>8, <1>10
  <2> QED BY <1>2, <1>5, <2>1, Zenon
<1> QED BY <1>7, <1>9, <1>10

\* What remains of the keys is a sequence of keys.
LEMMA RemainingType ==
  ASSUME NEW keys \in Seq(SourceItem), NEW entries \in Remaining(keys)
  PROVE  entries \in Seq(SourceItem) /\ Len(entries) \in Nat
<1>1. PICK n \in 0..Len(keys) :
        \E at \in [1..n -> DOMAIN keys] : entries = [i \in 1..n |-> keys[at[i]]]
  BY DEF Remaining
<1>2. PICK at \in [1..n -> DOMAIN keys] : entries = [i \in 1..n |-> keys[at[i]]]
  BY <1>1
<1>3. n \in Nat /\ \A i \in 1..n : keys[at[i]] \in SourceItem
  OBVIOUS
<1>4. entries \in [1..n -> SourceItem]
  BY <1>2, <1>3
<1> QED BY <1>3, <1>4

\* A new artifact is honest if its kind's marks are.
LEMMA NewArtifactType ==
  ASSUME NEW k \in {"sql", "kv", "doc"}, NEW limit \in Nat \ {0}, NEW items \in Seq(SourceItem),
         NEW selected \in Nat, NEW truncated \in BOOLEAN, NEW source \in Seq(SourceItem),
         k # "kv" => selected = Len(items),
         ~truncated => selected = Len(source)
  PROVE  NewArtifact(k, Integrity(limit, Len(items), selected, truncated), items, source)
           \in ExportType
<1> DEFINE marks == Integrity(limit, Len(items), selected, truncated)
           file  == NewArtifact(k, marks, items, source)
<1>1. Len(items) \in Nat /\ Len(source) \in Nat
  OBVIOUS
<1>2. /\ marks \in MarksType /\ marks.exported = Len(items) /\ marks.truncated = truncated
      /\ marks.changed <=> Len(items) # selected
      /\ marks.complete <=> ~truncated /\ Len(items) = selected
  BY <1>1 DEF Integrity, MarksType
<1> HIDE DEF marks
<1>3. /\ file \in FileType /\ file.kind = k /\ file.marks = marks /\ file.payload = items
      /\ file.version = "current" /\ (file.lost <=> Len(items) < Len(source))
  <2>1. /\ file.kind = k /\ file.marks = marks /\ file.payload = items
        /\ file.version = "current" /\ file.lost = (Len(items) < Len(source))
    BY Zenon DEF NewArtifact
  <2>2. (Len(items) < Len(source)) \in BOOLEAN
    BY <1>1
  <2>3. \A lost \in BOOLEAN :
          [kind |-> k, version |-> "current", codec |-> TRUE, source |-> TRUE, marked |-> TRUE,
           marks |-> marks, distinct |-> TRUE, payload |-> items, lost |-> lost] \in FileType
    BY <1>2 DEF FileType
  <2>4. file \in FileType
    BY <2>2, <2>3, Zenon DEF NewArtifact
  <2> HIDE DEF file
  <2> QED BY <2>1, <2>4, Zenon
<1> HIDE DEF file
<1>4. file.lost => truncated \/ Len(items) # selected
  BY <1>1, <1>3
<1>5. k # "kv" /\ file.lost => truncated
  BY <1>1, <1>3
<1>6. Honest(file.marks, Len(file.payload), file.lost)
  BY <1>2, <1>3, <1>4 DEF Honest
<1>7. file \in ExportType
  BY <1>2, <1>3, <1>5, <1>6 DEF ExportType
<1> QED BY <1>7 DEF file, marks

\* So every export is honest.
LEMMA ExportsAreHonest == Exported \subseteq ExportType
<1> SUFFICES ASSUME NEW f \in Exported PROVE f \in ExportType
  OBVIOUS
<1>1. \A k \in {"sql", "kv", "doc"} : \A s \in Sources[k] : s \in Seq(SourceItem)
  BY ArtifactAssumption
<1>2. \A n \in ExportLimits : n \in Nat \ {0}
  BY ArtifactAssumption
<1>3. CASE \E rows \in Sources["sql"], n \in ExportLimits : f = ExportRows(rows, n)
  <2>1. PICK rows \in Sources["sql"], n \in ExportLimits : f = ExportRows(rows, n)
    BY <1>3
  <2>2. rows \in Seq(SourceItem) /\ n \in Nat \ {0}
    BY <1>1, <1>2
  <2> DEFINE read == FinishList(rows, n)
  <2>3. /\ read.items \in Seq(SourceItem) /\ read.truncated \in BOOLEAN
        /\ ~read.truncated => Len(read.items) = Len(rows)
    BY <2>2, FinishListType
  <2>4. f = NewArtifact("sql", Integrity(n, Len(read.items), Len(read.items), read.truncated),
                        read.items, rows)
    BY <2>1 DEF ExportRows
  <2> HIDE DEF read
  <2>5. Len(read.items) \in Nat
    BY <2>3
  <2> QED BY <2>2, <2>3, <2>4, <2>5, NewArtifactType
<1>4. CASE \E documents \in Sources["doc"], n \in ExportLimits : f = ExportDocuments(documents, n)
  <2>1. PICK documents \in Sources["doc"], n \in ExportLimits : f = ExportDocuments(documents, n)
    BY <1>4
  <2>2. documents \in Seq(SourceItem) /\ n \in Nat \ {0}
    BY <1>1, <1>2
  <2> DEFINE found == FinishList(documents, n)
  <2>3. /\ found.items \in Seq(SourceItem) /\ found.truncated \in BOOLEAN
        /\ ~found.truncated => Len(found.items) = Len(documents)
    BY <2>2, FinishListType
  <2>4. f = NewArtifact("doc", Integrity(n, Len(found.items), Len(found.items), found.truncated),
                        found.items, documents)
    BY <2>1 DEF ExportDocuments
  <2> HIDE DEF found
  <2>5. Len(found.items) \in Nat
    BY <2>3
  <2> QED BY <2>2, <2>3, <2>4, <2>5, NewArtifactType
<1>5. CASE \E keys \in Sources["kv"], n \in ExportLimits :
             \E entries \in Remaining(FinishList(keys, n).items) : f = ExportKeys(keys, entries, n)
  <2>1. PICK keys \in Sources["kv"], n \in ExportLimits :
          \E entries \in Remaining(FinishList(keys, n).items) : f = ExportKeys(keys, entries, n)
    BY <1>5
  <2> DEFINE scan == FinishList(keys, n)
  <2>2. PICK entries \in Remaining(scan.items) : f = ExportKeys(keys, entries, n)
    BY <2>1
  <2>3. keys \in Seq(SourceItem) /\ n \in Nat \ {0}
    BY <1>1, <1>2
  <2>4. /\ scan.items \in Seq(SourceItem) /\ scan.truncated \in BOOLEAN
        /\ ~scan.truncated => Len(scan.items) = Len(keys)
    BY <2>3, FinishListType
  <2>5. f = NewArtifact("kv", Integrity(n, Len(entries), Len(scan.items), scan.truncated),
                        entries, keys)
    BY <2>2 DEF ExportKeys
  <2> HIDE DEF scan
  <2>6. entries \in Seq(SourceItem) /\ Len(scan.items) \in Nat
    BY <2>2, <2>4, RemainingType
  <2> QED BY <2>3, <2>4, <2>5, <2>6, NewArtifactType
<1> QED BY <1>3, <1>4, <1>5 DEF Exported

\* What each accepted file says of itself, by its kind.
LEMMA AcceptedSays ==
  ASSUME NEW f \in FileType, NEW options, Accepted(f, options)
  PROVE  /\ f.version = "current"
         /\ \A i \in DOMAIN f.payload : f.kind # "doc" => f.payload[i].formed
         /\ f.kind = "sql" => f.marked /\ f.distinct /\ ~f.marks.truncated
         /\ f.kind # "sql" => /\ f.source /\ f.codec /\ f.marks.complete
                              /\ Consistent(f.marks, Len(f.payload))
<1>1. Valid(f) /\ Prepares(f, options)
  BY DEF Accepted
<1>2. f.kind \in {"sql", "kv", "doc"}
  BY DEF FileType
<1>3. CASE f.kind = "sql"
  BY <1>1, <1>3 DEF Valid, Prepares, ThisVersion
<1>4. CASE f.kind = "kv"
  BY <1>1, <1>4 DEF Valid, ThisVersion
<1>5. CASE f.kind = "doc"
  BY <1>1, <1>5 DEF Valid, ThisVersion
<1> QED BY <1>2, <1>3, <1>4, <1>5

\* Neither an export itself ...
LEMMA ExportIsWhole ==
  ASSUME NEW f \in ExportType, NEW options, Accepted(f, options) PROVE ~f.lost
<1>1. f \in FileType /\ Honest(f.marks, Len(f.payload), f.lost) /\ (f.kind # "kv" /\ f.lost => f.marks.truncated)
  BY DEF ExportType
<1>2. CASE f.kind = "sql"
  BY <1>1, <1>2, AcceptedSays
<1>3. CASE f.kind # "sql"
  BY <1>1, <1>3, AcceptedSays DEF Honest
<1> QED BY <1>2, <1>3

\* ... nor one with a version or an item that is not as it was,
LEMMA DamagedIsWhole ==
  ASSUME NEW f \in ExportType, NEW g \in Damaged(f), NEW options, Accepted(g, options)
  PROVE  ~g.lost
<1>1. f \in FileType
  BY DEF ExportType
<1>2. CASE g = [f EXCEPT !.version = "older", !.lost = TRUE]
  <2>1. g \in FileType /\ g.version = "older"
    BY <1>1, <1>2 DEF FileType
  <2> QED BY <2>1, AcceptedSays
<1>3. CASE g = [f EXCEPT !.version = "newer"]
  <2>1. g \in FileType /\ g.version = "newer"
    BY <1>1, <1>3 DEF FileType
  <2> QED BY <2>1, AcceptedSays
<1>4. CASE f.kind # "doc" /\ \E i \in DOMAIN f.payload :
             g = [f EXCEPT !.payload[i].formed = FALSE, !.lost = TRUE]
  <2>1. PICK i \in DOMAIN f.payload : g = [f EXCEPT !.payload[i].formed = FALSE, !.lost = TRUE]
    BY <1>4
  <2> DEFINE item == [f.payload[i] EXCEPT !.formed = FALSE]
             items == [f.payload EXCEPT ![i] = item]
  <2>2. f.payload \in Seq(SourceItem) /\ i \in 1..Len(f.payload)
    BY <1>1 DEF FileType
  <2>3. f.payload[i] \in SourceItem
    BY <2>2
  <2>4. item \in SourceItem /\ item.formed = FALSE
    BY <2>3 DEF SourceItem
  <2> HIDE DEF item
  <2>5. items \in Seq(SourceItem) /\ i \in DOMAIN items /\ items[i] = item
    BY <2>2, <2>4
  <2>6. g = [f EXCEPT !.payload = items, !.lost = TRUE]
    BY <1>1, <2>1 DEF item, items, FileType
  <2> HIDE DEF items
  <2>7. g \in FileType /\ g.payload = items /\ g.kind = f.kind
    BY <1>1, <2>5, <2>6 DEF FileType
  <2>8. \A j \in DOMAIN g.payload : g.payload[j].formed
    BY <1>4, <2>7, AcceptedSays
  <2> QED BY <2>4, <2>5, <2>7, <2>8
<1> QED BY <1>2, <1>3, <1>4 DEF Damaged

\* ... one whose items or marks do not agree,
LEMMA MiscountedIsWhole ==
  ASSUME NEW f \in ExportType, f.kind # "sql", NEW g \in Miscounted(f), NEW options,
         Accepted(g, options)
  PROVE  ~g.lost
<1>1. f \in FileType /\ Honest(f.marks, Len(f.payload), f.lost) /\ f.marks \in MarksType
      /\ f.payload \in Seq(SourceItem)
  BY DEF ExportType, FileType
<1>2. CASE g \in {[f EXCEPT !.codec = FALSE, !.lost = TRUE], [f EXCEPT !.source = FALSE]}
  <2>1. g \in FileType /\ g.kind = f.kind /\ (~g.codec \/ ~g.source)
    BY <1>1, <1>2 DEF FileType
  <2> QED BY <2>1, AcceptedSays
<1>3. CASE \E i \in DOMAIN f.payload : g = [f EXCEPT !.payload = RemoveAt(@, i), !.lost = TRUE]
  <2>1. PICK i \in DOMAIN f.payload : g = [f EXCEPT !.payload = RemoveAt(@, i), !.lost = TRUE]
    BY <1>3
  <2> DEFINE items == RemoveAt(f.payload, i)
  <2>2. i \in 1..Len(f.payload) /\ Len(f.payload) \in Nat
    BY <1>1
  <2>3. items \in Seq(SourceItem) /\ Len(items) = Len(f.payload) - 1
    <3>1. /\ SubSeq(f.payload, 1, i - 1) \in Seq(SourceItem)
          /\ Len(SubSeq(f.payload, 1, i - 1)) = i - 1
      BY <1>1, <2>2
    <3>2. /\ SubSeq(f.payload, i + 1, Len(f.payload)) \in Seq(SourceItem)
          /\ Len(SubSeq(f.payload, i + 1, Len(f.payload))) = Len(f.payload) - i
      BY <1>1, <2>2
    <3>3. items = SubSeq(f.payload, 1, i - 1) \o SubSeq(f.payload, i + 1, Len(f.payload))
      BY DEF RemoveAt
    <3>4. Len(items) = (i - 1) + (Len(f.payload) - i)
      BY <3>1, <3>2, <3>3
    <3>5. items \in Seq(SourceItem)
      BY <3>1, <3>2, <3>3
    <3> HIDE DEF items
    <3>6. (i - 1) + (Len(f.payload) - i) = Len(f.payload) - 1
      BY <2>2
    <3> QED BY <3>4, <3>5, <3>6
  <2>4. g = [f EXCEPT !.payload = items, !.lost = TRUE]
    BY <1>1, <2>1 DEF FileType
  <2> HIDE DEF items
  <2>5. g \in FileType /\ g.payload = items /\ g.kind = f.kind /\ g.marks = f.marks
    BY <1>1, <2>3, <2>4 DEF FileType
  <2>6. Consistent(g.marks, Len(g.payload))
    BY <2>5, AcceptedSays
  <2>7. g.marks.exported = Len(items)
    BY <2>5, <2>6 DEF Consistent
  <2> QED BY <1>1, <2>2, <2>3, <2>5, <2>7 DEF Honest
<1>4. CASE \E i \in DOMAIN f.payload : g = [f EXCEPT !.payload = Append(@, @[i])]
  <2>1. PICK i \in DOMAIN f.payload : g = [f EXCEPT !.payload = Append(@, @[i])]
    BY <1>4
  <2> DEFINE items == Append(f.payload, f.payload[i])
  <2>2. Len(f.payload) \in Nat /\ f.payload[i] \in SourceItem
    BY <1>1
  <2>3. items \in Seq(SourceItem) /\ Len(items) = Len(f.payload) + 1
    BY <1>1, <2>2
  <2>4. g = [f EXCEPT !.payload = items]
    BY <1>1, <2>1 DEF FileType
  <2> HIDE DEF items
  <2>5. g \in FileType /\ g.payload = items /\ g.kind = f.kind /\ g.marks = f.marks
    BY <1>1, <2>3, <2>4 DEF FileType
  <2>6. Consistent(g.marks, Len(g.payload))
    BY <2>5, AcceptedSays
  <2>7. g.marks.exported = Len(items)
    BY <2>5, <2>6 DEF Consistent
  <2> QED BY <1>1, <2>2, <2>3, <2>5, <2>7 DEF Honest
<1>5. CASE \E marks \in Misstated(f.marks) : g = [f EXCEPT !.marks = marks]
  <2>1. PICK marks \in Misstated(f.marks) : g = [f EXCEPT !.marks = marks]
    BY <1>5
  <2>2. /\ marks \in MarksType
        /\ \/ marks.complete = f.marks.complete
           \/ marks.truncated = f.marks.truncated /\ marks.changed = f.marks.changed
    <3>1. \A m \in 0..(f.marks.selected + 1) : m \in Nat
      BY <1>1 DEF MarksType
    <3>2. CASE marks = [f.marks EXCEPT !.complete = ~@]
      BY <1>1, <3>2 DEF MarksType
    <3>3. CASE marks \in {[f.marks EXCEPT !.truncated = ~@], [f.marks EXCEPT !.changed = ~@]}
      BY <1>1, <3>3 DEF MarksType
    <3>4. CASE \E m \in 0..(f.marks.selected + 1) :
                 marks \in {[f.marks EXCEPT !.exported = m], [f.marks EXCEPT !.selected = m],
                           [f.marks EXCEPT !.limit = m]}
      BY <1>1, <3>1, <3>4 DEF MarksType
    <3> QED BY <2>1, <3>2, <3>3, <3>4 DEF Misstated
  <2>3. g \in FileType /\ g.marks = marks /\ g.kind = f.kind /\ g.lost = f.lost
    BY <1>1, <2>1, <2>2 DEF FileType
  <2>4. marks.complete /\ (marks.complete <=> ~marks.truncated /\ ~marks.changed)
    <3>1. g.marks.complete /\ Consistent(g.marks, Len(g.payload))
      BY <2>3, AcceptedSays
    <3> QED BY <2>3, <3>1 DEF Consistent
  <2>5. f.lost => ~f.marks.complete /\ (f.marks.truncated \/ f.marks.changed)
    BY <1>1 DEF Honest
  <2> QED BY <2>2, <2>3, <2>4, <2>5
<1> QED BY <1>2, <1>3, <1>4, <1>5 DEF Miscounted

\* ... or rows without the mark, or with columns that are not told apart.
LEMMA UnmarkedIsRefused ==
  ASSUME NEW f \in ExportType, f.kind = "sql", NEW g \in Unmarked(f), NEW options
  PROVE  ~Accepted(g, options)
<1>1. f \in FileType
  BY DEF ExportType
<1>2. g \in FileType /\ g.kind = "sql" /\ (~g.marked \/ ~g.distinct)
  BY <1>1 DEF Unmarked, FileType
<1> QED BY <1>2, AcceptedSays

\* validate_import_artifact and prepare_import (transfer.rs): whatever has become
\* of an export's file, if an import accepts it then its items are all that the
\* source held, and no two keys become one.
THEOREM AcceptedIsWhole ==
  ASSUME NEW f \in Artifacts, NEW options \in ImportOptions, Accepted(f, options)
  PROVE  Whole(f, options)
<1>1. ~f.lost
  <2>1. CASE f \in Exported
    BY <2>1, ExportsAreHonest, ExportIsWhole
  <2>2. CASE \E e \in Exported : f \in Damaged(e)
    BY <2>2, ExportsAreHonest, DamagedIsWhole
  <2>3. CASE \E e \in Exported : e.kind = "sql" /\ f \in Unmarked(e)
    BY <2>3, ExportsAreHonest, UnmarkedIsRefused
  <2>4. CASE \E e \in Exported : e.kind # "sql" /\ f \in Miscounted(e)
    BY <2>4, ExportsAreHonest, MiscountedIsWhole
  <2> QED BY <2>1, <2>2, <2>3, <2>4 DEF Artifacts
<1>2. f.kind = "kv" => IsInjective(TargetKeys(f, options))
  BY DEF Accepted, Prepares
<1> QED BY <1>1, <1>2 DEF Whole

\* So every item of the file an import accepts is one of the source.
LEMMA BelievedIsTrue ==
  ASSUME NEW k, NEW b \in Believed(k) PROVE b = TRUE
<1>1. PICK offer \in Artifacts \X ImportOptions :
        Accepted(offer[1], offer[2]) /\ b = Whole(offer[1], offer[2])
  BY DEF Believed
<1>2. offer[1] \in Artifacts /\ offer[2] \in ImportOptions
  OBVIOUS
<1>3. Whole(offer[1], offer[2])
  BY <1>1, <1>2, AcceptedIsWhole
<1>4. Whole(offer[1], offer[2]) \in BOOLEAN
  BY Zenon DEF Whole
<1> QED BY <1>1, <1>3, <1>4, Zenon
-----------------------------------------------------------------------------
(* The helpers of the actions                                              *)

\* The type invariant, one variable at a time
LEMMA TypeParts ==
  TypeOK <=>
    /\ kind \in Kinds /\ keyed \subseteq Items /\ expiring \subseteq Items /\ past \subseteq expiring
    /\ target \in [Items -> {"none", "other"} \cup Processes]
    /\ pc \in [Processes -> Steps] /\ replace \in [Processes -> BOOLEAN]
    /\ given \in [Processes -> SUBSET Items] /\ existing \in [Processes -> SUBSET Items]
    /\ written \in [Processes -> SUBSET Items] /\ stored \in [Processes -> SUBSET Items]
    /\ overwritten \in [Processes -> SUBSET Items]
    /\ next \in [Processes -> Items] /\ answer \in [Processes -> Answers]
    /\ result \in [Processes -> Results] /\ wire \in [Processes -> Requests \cup {NoRequest}]
    /\ shown \subseteq SUBSET Items /\ whole \in BOOLEAN
BY DEF TypeOK

\* The state of one process, and what a step of another one leaves of it
Untouched(q) ==
  /\ pc'[q] = pc[q] /\ given'[q] = given[q] /\ existing'[q] = existing[q] /\ next'[q] = next[q]
  /\ answer'[q] = answer[q] /\ result'[q] = result[q]
  /\ wire'[q] = wire[q] /\ written'[q] = written[q] /\ stored'[q] = stored[q]
  /\ overwritten'[q] = overwritten[q]

\* What is known of a process stays true while others work, entries expire and
\* more tokens are shown.
LEMMA OthersKept ==
  ASSUME NEW q \in Processes, ProcessInv(q), Untouched(q), UNCHANGED scenario,
         past \subseteq past', shown \subseteq shown'
  PROVE  ProcessInv(q)'
<1>1. CallInv(q) /\ RequestInv(q) /\ AnswerInv(q) /\ ReplaceInv(q) /\ ResultInv(q)
  BY DEF ProcessInv
<1>2. UNCHANGED kind
  BY DEF scenario
<1>3. CallInv(q)'
  BY <1>1, <1>2 DEF CallInv, Untouched
<1>4. RequestInv(q)'
  BY <1>1, <1>2 DEF RequestInv, Untouched
<1>5. AnswerInv(q)'
  BY <1>1 DEF AnswerInv, Untouched
<1>6. ReplaceInv(q)'
  <2>1. PICK token \in {{}} \cup shown : Allows(q, token)
    BY <1>1 DEF ReplaceInv
  <2>2. Allows(q, token)'
    BY <1>2, <2>1 DEF Allows, Untouched
  <2> QED BY <1>1, <2>1, <2>2 DEF ReplaceInv, Untouched
<1>7. ResultInv(q)'
  BY <1>1, <1>2 DEF ResultInv, Untouched
<1> QED BY <1>3, <1>4, <1>5, <1>6, <1>7 DEF ProcessInv

\* The invariant after a step of one process, or of the server for it.
LEMMA ProcessStep ==
  ASSUME IInv, NEW p \in Processes, TypeOK', UNCHANGED <<scenario, past>>,
         shown \subseteq shown', LockInv', ProcessInv(p)',
         \A q \in Processes \ {p} : Untouched(q)
  PROVE  IInv'
<1>1. \A q \in Processes \ {p} : ProcessInv(q)'
  BY OthersKept DEF IInv
<1>2. whole'
  BY DEF IInv, scenario
<1> QED BY <1>1, <1>2 DEF IInv

\* Open transactions stay apart while nobody writes.
LEMMA LocksKept ==
  ASSUME LockInv, UNCHANGED <<keyed, target>>,
         written \in [Processes -> SUBSET Items],
         \A q \in Processes : written'[q] \subseteq written[q]
  PROVE  LockInv'
BY DEF LockInv

\* Only rows are written in transactions.
LEMMA NoRowsNoLocks ==
  ASSUME IInv, kind # "sql", UNCHANGED <<kind, written>> PROVE LockInv'
<1>1. \A p \in Processes : written[p] = {}
  BY DEF IInv, ProcessInv, RequestInv
<1> QED BY <1>1 DEF LockInv

\* A command that returns
LEMMA ReturnEffect ==
  ASSUME TypeOK, NEW p \in Processes, NEW r \in Results, Return(p, r)
  PROVE  /\ pc' \in [Processes -> Steps] /\ replace' \in [Processes -> BOOLEAN]
         /\ given' \in [Processes -> SUBSET Items] /\ existing' \in [Processes -> SUBSET Items]
         /\ next' \in [Processes -> Items] /\ answer' \in [Processes -> Answers]
         /\ result' \in [Processes -> Results]
         /\ pc'[p] = "idle" /\ given'[p] = {} /\ existing'[p] = {} /\ next'[p] = 1
         /\ answer'[p] = "none" /\ result'[p] = r
         /\ \A q \in Processes \ {p} :
              /\ pc'[q] = pc[q] /\ given'[q] = given[q] /\ existing'[q] = existing[q]
              /\ next'[q] = next[q] /\ answer'[q] = answer[q] /\ result'[q] = result[q]
<1>1. 1 \in Items /\ "idle" \in Steps /\ "none" \in Answers
  BY ImportAssumption DEF Items, Steps, Answers
<1> QED BY <1>1, TypeParts DEF Return, Goto

\* A command returns; what is under way stays under way, and at most its own
\* transaction is rolled back.
LEMMA Returns ==
  ASSUME IInv, NEW p \in Processes, NEW r \in Results \ {"none"}, Return(p, r), pc[p] # "idle",
         UNCHANGED <<scenario, past, target, wire, stored, overwritten>>,
         shown \subseteq shown', shown' \subseteq SUBSET Items,
         \/ UNCHANGED written
         \/ wire[p] = NoRequest /\ written' = [written EXCEPT ![p] = {}],
         r = "Failed" => /\ wire[p] = NoRequest /\ written'[p] = {}
                         /\ kind # "kv" => stored[p] = {},
         r = "Ok" => Items \ past \subseteq stored[p]
  PROVE  IInv'
<1>1. TypeOK /\ LockInv /\ ProcessInv(p)
  BY DEF IInv
<1>2. CallInv(p) /\ RequestInv(p) /\ ReplaceInv(p) /\ ResultInv(p)
  BY <1>1 DEF ProcessInv
<1>3. r \in Results
  OBVIOUS
<1>4. /\ pc'[p] = "idle" /\ given'[p] = {} /\ existing'[p] = {} /\ next'[p] = 1
      /\ answer'[p] = "none" /\ result'[p] = r
  BY <1>1, <1>3, ReturnEffect
<1>5. /\ written' \in [Processes -> SUBSET Items]
      /\ \A q \in Processes : written'[q] \subseteq written[q]
      /\ \A q \in Processes \ {p} : written'[q] = written[q]
      /\ wire[p] # NoRequest => written'[p] = written[p]
  BY <1>1, TypeParts
<1>6. UNCHANGED <<kind, whole, keyed, expiring>>
  BY DEF scenario
<1>7. TypeOK'
  <2>1. /\ pc' \in [Processes -> Steps] /\ replace' \in [Processes -> BOOLEAN]
        /\ given' \in [Processes -> SUBSET Items] /\ existing' \in [Processes -> SUBSET Items]
        /\ next' \in [Processes -> Items] /\ answer' \in [Processes -> Answers]
        /\ result' \in [Processes -> Results]
    BY <1>1, <1>3, ReturnEffect
  <2> QED BY <1>1, <1>5, <1>6, <2>1, TypeParts DEF TypeOK
<1>8. LockInv'
  BY <1>1, <1>5, <1>6, LocksKept, TypeParts
<1>9. \A q \in Processes \ {p} : Untouched(q)
  BY <1>1, <1>3, <1>5, ReturnEffect DEF Untouched
<1>10. CallInv(p)'
  BY <1>4 DEF CallInv
<1>11. RequestInv(p)'
  <2>1. written'[p] # {} => kind = "sql"
    BY <1>2, <1>5 DEF RequestInv
  <2>2. wire[p].op # "none" => wire[p] # NoRequest
    BY DEF NoRequest
  <2>3. wire[p].op = "commit" => written'[p] = Items
    BY <1>2, <1>5, <2>2 DEF RequestInv
  <2> QED BY <1>2, <1>4, <1>6, <2>1, <2>3 DEF RequestInv
<1>12. AnswerInv(p)'
  BY <1>4 DEF AnswerInv
<1>13. ReplaceInv(p)'
  <2>1. PICK token \in {{}} \cup shown : Allows(p, token)
    BY <1>2 DEF ReplaceInv
  <2>2. Allows(p, token)'
    BY <1>4, <2>1 DEF Allows
  <2> QED BY <1>4, <2>1, <2>2 DEF ReplaceInv
<1>14. ResultInv(p)'
  BY <1>2, <1>4, <1>6 DEF ResultInv
<1>15. ProcessInv(p)'
  BY <1>10, <1>11, <1>12, <1>13, <1>14 DEF ProcessInv
<1> QED BY <1>7, <1>8, <1>9, <1>15, ProcessStep

\* The returns that concern nobody but the process
LEMMA ReturnsAlone ==
  ASSUME IInv, NEW p \in Processes, NEW r \in Results \ {"none"}, Return(p, r), pc[p] # "idle",
         UNCHANGED <<scenario, server>>, shown \subseteq shown', shown' \subseteq SUBSET Items,
         r = "Failed" => /\ wire[p] = NoRequest /\ written[p] = {}
                         /\ kind # "kv" => stored[p] = {},
         r = "Ok" => Items \ past \subseteq stored[p]
  PROVE  IInv'
<1>1. UNCHANGED <<past, target, wire, written, stored, overwritten>>
  BY DEF server
<1> QED BY <1>1, Returns
-----------------------------------------------------------------------------
(* The steps of the command                                                *)

\* Begin keeps the inductive invariant,
LEMMA BeginStep ==
  ASSUME IInv, NEW p \in Processes, NEW mayReplace \in BOOLEAN, NEW token \in {{}} \cup shown,
         Begin(p, mayReplace, token)
  PROVE  IInv'
<1> DEFINE step == IF mayReplace \/ (kind = "doc" /\ keyed # {}) THEN "probe" ELSE "write"
<1>1. TypeOK /\ LockInv /\ ProcessInv(p)
  BY DEF IInv
<1>2. CallInv(p) /\ RequestInv(p) /\ AnswerInv(p)
  BY <1>1 DEF ProcessInv
<1>3. /\ pc[p] = "idle" /\ wire[p] = NoRequest /\ written[p] = {} /\ (mayReplace => kind = "kv")
      /\ UNCHANGED <<kind, whole, keyed, expiring, past, target, wire, written, existing, next,
                     answer, shown>>
  BY DEF Begin, scenario
<1>4. step \in Steps /\ "none" \in Results /\ token \in SUBSET Items
  BY <1>1, TypeParts DEF Steps, Results
<1>5. /\ replace' \in [Processes -> BOOLEAN] /\ given' \in [Processes -> SUBSET Items]
      /\ pc' \in [Processes -> Steps] /\ result' \in [Processes -> Results]
      /\ stored' \in [Processes -> SUBSET Items] /\ overwritten' \in [Processes -> SUBSET Items]
      /\ given'[p] = token /\ pc'[p] = step /\ result'[p] = "none"
      /\ stored'[p] = {} /\ overwritten'[p] = {}
      /\ \A q \in Processes \ {p} :
           /\ given'[q] = given[q] /\ pc'[q] = pc[q] /\ result'[q] = result[q]
           /\ stored'[q] = stored[q] /\ overwritten'[q] = overwritten[q]
  BY <1>1, <1>4, TypeParts DEF Begin, Goto
<1>6. TypeOK'
  BY <1>1, <1>3, <1>5, TypeParts DEF TypeOK
<1>7. LockInv'
  BY <1>1, <1>3 DEF LockInv
<1>8. \A q \in Processes \ {p} : Untouched(q)
  BY <1>3, <1>5 DEF Untouched
<1>9. next[p] = 1 /\ existing[p] = {} /\ answer[p] = "none"
  BY <1>2, <1>3 DEF CallInv
<1>10. step \in {"probe", "write"} /\ (step = "probe" => kind # "sql")
  BY <1>3
<1> HIDE DEF step
<1>11. \A j \in Items : ~(j < 1)
  BY DEF Items
<1>12. CallInv(p)'
  BY <1>3, <1>5, <1>9, <1>10, <1>11 DEF CallInv
<1>13. RequestInv(p)'
  BY <1>3 DEF RequestInv, NoRequest
<1>14. AnswerInv(p)'
  BY <1>3, <1>9 DEF AnswerInv
<1>15. ReplaceInv(p)'
  <2>1. Allows(p, {})'
    BY <1>3, <1>5, <1>9 DEF Allows, NoRequest
  <2> QED BY <1>3, <1>5, <2>1 DEF ReplaceInv
<1>16. ResultInv(p)'
  BY <1>3, <1>5 DEF ResultInv
<1>17. ProcessInv(p)'
  BY <1>12, <1>13, <1>14, <1>15, <1>16 DEF ProcessInv
<1>18. UNCHANGED <<scenario, past>> /\ shown \subseteq shown'
  BY <1>3 DEF scenario
<1> QED BY <1>6, <1>7, <1>8, <1>17, <1>18, ProcessStep

\* so does Reject,
LEMMA RejectStep ==
  ASSUME IInv, NEW p \in Processes, Reject(p) PROVE IInv'
<1>1. TypeOK /\ LockInv /\ ProcessInv(p)
  BY DEF IInv
<1>2. CallInv(p) /\ RequestInv(p) /\ AnswerInv(p) /\ ReplaceInv(p)
  BY <1>1 DEF ProcessInv
<1>3. /\ pc[p] = "idle" /\ wire[p] = NoRequest /\ written[p] = {}
      /\ UNCHANGED <<kind, whole, keyed, expiring, past, target, wire, written, pc, replace, given,
                     existing, next, answer, shown>>
  BY DEF Reject, scenario
<1>4. "Failed" \in Results
  BY DEF Results
<1>5. /\ result' \in [Processes -> Results]
      /\ stored' \in [Processes -> SUBSET Items] /\ overwritten' \in [Processes -> SUBSET Items]
      /\ result'[p] = "Failed" /\ stored'[p] = {} /\ overwritten'[p] = {}
      /\ \A q \in Processes \ {p} :
           result'[q] = result[q] /\ stored'[q] = stored[q] /\ overwritten'[q] = overwritten[q]
  BY <1>1, <1>4, TypeParts DEF Reject
<1>6. TypeOK'
  BY <1>1, <1>3, <1>5, TypeParts DEF TypeOK
<1>7. LockInv'
  BY <1>1, <1>3 DEF LockInv
<1>8. \A q \in Processes \ {p} : Untouched(q)
  BY <1>3, <1>5 DEF Untouched
<1>9. CallInv(p)' /\ AnswerInv(p)'
  BY <1>2, <1>3 DEF CallInv, AnswerInv
<1>10. RequestInv(p)'
  BY <1>3 DEF RequestInv, NoRequest
<1>11. ReplaceInv(p)'
  <2>1. Allows(p, {})'
    BY <1>3, <1>5 DEF Allows, NoRequest
  <2> QED BY <1>2, <1>3, <2>1 DEF ReplaceInv
<1>12. ResultInv(p)'
  BY <1>3, <1>5 DEF ResultInv
<1>13. ProcessInv(p)'
  BY <1>9, <1>10, <1>11, <1>12 DEF ProcessInv
<1>14. UNCHANGED <<scenario, past>> /\ shown \subseteq shown'
  BY <1>3 DEF scenario
<1> QED BY <1>6, <1>7, <1>8, <1>13, <1>14, ProcessStep

\* The loop of the preflight
LEMMA AdvanceEffect ==
  ASSUME TypeOK, NEW p \in Processes, NEW step \in Steps, Advance(p, step)
  PROVE  /\ pc' \in [Processes -> Steps] /\ next' \in [Processes -> Items]
         /\ pc'[p] = pc[p] \/ (pc'[p] = step /\ next'[p] = 1)
         /\ \A q \in Processes \ {p} : pc'[q] = pc[q] /\ next'[q] = next[q]
<1>1. /\ pc \in [Processes -> Steps] /\ next \in [Processes -> Items] /\ Count \in Nat \ {0}
      /\ next[p] \in 1..Count
  BY TypeParts, ImportAssumption DEF Items
<1>2. CASE next[p] = Count
  <2>1. pc' = [pc EXCEPT ![p] = step] /\ next' = [next EXCEPT ![p] = 1] /\ 1 \in Items
    BY <1>1, <1>2 DEF Advance, Goto, Items
  <2> QED BY <1>1, <2>1
<1>3. CASE next[p] # Count
  <2>1. next' = [next EXCEPT ![p] = @ + 1] /\ UNCHANGED pc /\ next[p] + 1 \in Items
    BY <1>1, <1>3 DEF Advance, Items
  <2> QED BY <1>1, <2>1
<1> QED BY <1>2, <1>3

\* A step of the command that leaves the server as it is, and goes on.
LEMMA GoesOn ==
  ASSUME IInv, NEW p \in Processes, UNCHANGED <<scenario, server, shown, replace, given, result>>,
         pc' \in [Processes -> Steps], next' \in [Processes -> Items],
         existing' \in [Processes -> SUBSET Items], answer' \in [Processes -> Answers],
         \A q \in Processes \ {p} : /\ pc'[q] = pc[q] /\ next'[q] = next[q]
                                    /\ existing'[q] = existing[q] /\ answer'[q] = answer[q],
         pc[p] # "idle", wire[p] = NoRequest, CallInv(p)', answer'[p] = "none", ReplaceInv(p)'
  PROVE  IInv'
<1>1. TypeOK /\ LockInv /\ ProcessInv(p)
  BY DEF IInv
<1>2. RequestInv(p) /\ ResultInv(p)
  BY <1>1 DEF ProcessInv
<1>3. UNCHANGED <<kind, whole, keyed, expiring, past, target, wire, written, stored, overwritten>>
  BY DEF scenario, server
<1>4. TypeOK'
  BY <1>1, <1>3, TypeParts DEF TypeOK
<1>5. LockInv'
  BY <1>1, <1>3 DEF LockInv
<1>6. \A q \in Processes \ {p} : Untouched(q)
  BY <1>3 DEF Untouched
<1>7. RequestInv(p)'
  BY <1>2, <1>3 DEF RequestInv, NoRequest
<1>8. AnswerInv(p)'
  BY DEF AnswerInv
<1>9. ResultInv(p)'
  BY <1>2, <1>3 DEF ResultInv
<1>10. ProcessInv(p)'
  BY <1>7, <1>8, <1>9 DEF ProcessInv
<1>11. UNCHANGED <<scenario, past>> /\ shown \subseteq shown'
  BY <1>3
<1> QED BY <1>4, <1>5, <1>6, <1>10, <1>11, ProcessStep

\* Preflight,
LEMMA PreflightStep ==
  ASSUME IInv, NEW p \in Processes, Preflight(p) PROVE IInv'
<1> DEFINE found == Held(next[p])
<1>1. TypeOK /\ ProcessInv(p) /\ pc[p] = "probe" /\ UNCHANGED <<scenario, server, shown>>
  BY DEF IInv, Preflight
<1>2. CallInv(p) /\ RequestInv(p) /\ AnswerInv(p) /\ ReplaceInv(p)
  BY <1>1 DEF ProcessInv
<1>3. /\ kind # "sql" /\ overwritten[p] = {} /\ wire[p] = NoRequest /\ answer[p] = "none"
      /\ kind # "kv" => stored[p] = {}
      /\ written[p] = {} /\ result[p] = "none"
  BY <1>1, <1>2 DEF CallInv, RequestInv
<1>4. UNCHANGED <<kind, past, wire, stored, overwritten>>
  BY <1>1 DEF scenario, server
<1>5. \A j \in Items : ~(j < 1)
  BY DEF Items
<1>6. "confirm" \in Steps /\ "write" \in Steps
  BY DEF Steps
<1>7. CASE /\ kind = "kv" /\ existing' = [existing EXCEPT ![p] = @ \cup {i \in {next[p]} : found}]
           /\ Advance(p, "confirm") /\ UNCHANGED <<replace, given, answer, result>>
  <2>1. /\ pc' \in [Processes -> Steps] /\ next' \in [Processes -> Items]
        /\ pc'[p] = pc[p] \/ (pc'[p] = "confirm" /\ next'[p] = 1)
        /\ \A q \in Processes \ {p} : pc'[q] = pc[q] /\ next'[q] = next[q]
    BY <1>1, <1>6, <1>7, AdvanceEffect
  <2>2. /\ existing' \in [Processes -> SUBSET Items]
        /\ \A q \in Processes \ {p} : existing'[q] = existing[q]
    <3>1. next[p] \in Items /\ existing \in [Processes -> SUBSET Items]
      BY <1>1, TypeParts
    <3>2. existing[p] \cup {i \in {next[p]} : found} \in SUBSET Items
      BY <3>1
    <3> HIDE DEF found
    <3> QED BY <1>7, <3>1, <3>2
  <2>3. pc'[p] \in {"probe", "confirm"} /\ (pc'[p] = "confirm" => next'[p] = 1)
    BY <1>1, <2>1
  <2>4. CallInv(p)'
    BY <1>3, <1>4, <1>7, <2>3 DEF CallInv
  <2>5. ReplaceInv(p)'
    <3>1. Allows(p, {})'
      BY <1>3, <1>4, <2>3 DEF Allows, NoRequest
    <3> QED BY <1>1, <1>2, <1>7, <3>1 DEF ReplaceInv
  <2>6. answer' \in [Processes -> Answers] /\ answer'[p] = "none" /\ UNCHANGED answer
    BY <1>1, <1>3, <1>7, TypeParts
  <2>7. pc[p] # "idle"
    BY <1>1
  <2> QED BY <1>1, <1>3, <1>7, <2>1, <2>2, <2>4, <2>5, <2>6, <2>7, GoesOn
<1>8. CASE /\ kind = "doc" /\ ~found /\ Advance(p, "write")
           /\ UNCHANGED <<replace, given, existing, answer, result>>
  <2>1. /\ pc' \in [Processes -> Steps] /\ next' \in [Processes -> Items]
        /\ pc'[p] = pc[p] \/ (pc'[p] = "write" /\ next'[p] = 1)
        /\ \A q \in Processes \ {p} : pc'[q] = pc[q] /\ next'[q] = next[q]
    BY <1>1, <1>6, <1>8, AdvanceEffect
  <2>2. pc'[p] \in {"probe", "write"}
    BY <1>1, <2>1
  <2>3. CallInv(p)'
    BY <1>3, <1>4, <1>8, <2>2 DEF CallInv
  <2>4. ReplaceInv(p)'
    <3>1. Allows(p, {})'
      BY <1>3, <1>4, <1>8 DEF Allows, NoRequest
    <3> QED BY <1>1, <1>2, <1>8, <3>1 DEF ReplaceInv
  <2>5. /\ answer' \in [Processes -> Answers] /\ answer'[p] = "none"
        /\ existing' \in [Processes -> SUBSET Items] /\ UNCHANGED <<existing, answer>>
    BY <1>1, <1>3, <1>8, TypeParts
  <2>6. pc[p] # "idle"
    BY <1>1
  <2> QED BY <1>1, <1>3, <1>8, <2>1, <2>3, <2>4, <2>5, <2>6, GoesOn
<1>9. CASE kind = "doc" /\ found /\ Return(p, "Failed")
  <2>1. "Failed" \in Results \ {"none"} /\ pc[p] # "idle" /\ shown' \subseteq SUBSET Items
    BY <1>1, TypeParts DEF Results
  <2> QED BY <1>1, <1>3, <1>9, <2>1, ReturnsAlone
<1> HIDE DEF found
<1>10. \/ /\ kind = "kv" /\ existing' = [existing EXCEPT ![p] = @ \cup {i \in {next[p]} : found}]
          /\ Advance(p, "confirm") /\ UNCHANGED <<replace, given, answer, result>>
       \/ /\ kind = "doc" /\ ~found /\ Advance(p, "write")
          /\ UNCHANGED <<replace, given, existing, answer, result>>
       \/ kind = "doc" /\ found /\ Return(p, "Failed")
  BY Zenon DEF Preflight, found
<1> QED BY <1>7, <1>8, <1>9, <1>10

\* PreflightFails,
LEMMA PreflightFailsStep ==
  ASSUME IInv, NEW p \in Processes, PreflightFails(p) PROVE IInv'
<1>1. /\ TypeOK /\ ProcessInv(p) /\ pc[p] = "probe" /\ Return(p, "Failed")
      /\ UNCHANGED <<scenario, server, shown>>
  BY DEF IInv, PreflightFails
<1>2. CallInv(p) /\ RequestInv(p)
  BY <1>1 DEF ProcessInv
<1>3. "Failed" \in Results \ {"none"} /\ pc[p] # "idle" /\ shown' \subseteq SUBSET Items
  BY <1>1, TypeParts DEF Results
<1>4. wire[p] = NoRequest /\ written[p] = {} /\ (kind # "kv" => stored[p] = {})
  BY <1>1, <1>2 DEF CallInv, RequestInv
<1> QED BY <1>1, <1>3, <1>4, ReturnsAlone

\* Confirm,
LEMMA ConfirmStep ==
  ASSUME IInv, NEW p \in Processes, Confirm(p) PROVE IInv'
<1>1. TypeOK /\ ProcessInv(p) /\ pc[p] = "confirm" /\ UNCHANGED <<scenario, server>>
  BY DEF IInv, Confirm
<1>2. CallInv(p) /\ RequestInv(p) /\ AnswerInv(p) /\ ReplaceInv(p)
  BY <1>1 DEF ProcessInv
<1>3. /\ kind = "kv" /\ overwritten[p] = {} /\ wire[p] = NoRequest /\ answer[p] = "none"
      /\ written[p] = {} /\ result[p] = "none" /\ next[p] = 1
  BY <1>1, <1>2 DEF CallInv, RequestInv
<1>4. UNCHANGED <<kind, past, wire, stored, overwritten>>
  BY <1>1 DEF scenario, server
<1>5. CASE /\ existing[p] \in {{}, given[p]} /\ Goto(p, "write")
           /\ UNCHANGED <<replace, given, existing, next, answer, result, shown>>
  <2>1. "write" \in Steps
    BY DEF Steps
  <2>2. /\ pc' \in [Processes -> Steps] /\ pc'[p] = "write"
        /\ \A q \in Processes \ {p} : pc'[q] = pc[q]
    BY <1>1, <1>5, <2>1, TypeParts DEF Goto
  <2>3. \A j \in Items : ~(j < 1)
    BY DEF Items
  <2>4. CallInv(p)'
    BY <1>3, <1>4, <1>5, <2>2, <2>3 DEF CallInv
  <2>5. ReplaceInv(p)'
    <3>1. Allows(p, existing[p])'
      BY <1>3, <1>4, <1>5 DEF Allows, NoRequest
    <3>2. existing[p] \in {{}} \cup shown
      BY <1>2, <1>5 DEF ReplaceInv
    <3> QED BY <1>2, <1>5, <3>1, <3>2 DEF ReplaceInv
  <2>6. /\ next' \in [Processes -> Items] /\ answer' \in [Processes -> Answers]
        /\ existing' \in [Processes -> SUBSET Items] /\ answer'[p] = "none" /\ pc[p] # "idle"
    BY <1>1, <1>3, <1>5, TypeParts
  <2> QED BY <1>1, <1>3, <1>5, <2>2, <2>4, <2>5, <2>6, GoesOn
<1>6. CASE Return(p, "ConfirmRequired") /\ shown' = shown \cup {existing[p]}
  <2>1. "ConfirmRequired" \in Results \ {"none"} /\ pc[p] # "idle" /\ shown \subseteq shown'
        /\ shown' \subseteq SUBSET Items
    BY <1>1, <1>6, TypeParts DEF Results
  <2> QED BY <1>1, <1>6, <2>1, ReturnsAlone
<1>7. CASE Return(p, "Failed") /\ UNCHANGED shown
  <2>1. "Failed" \in Results \ {"none"} /\ pc[p] # "idle" /\ shown' \subseteq SUBSET Items
    BY <1>1, <1>7, TypeParts DEF Results
  <2> QED BY <1>1, <1>3, <1>7, <2>1, ReturnsAlone
<1> QED BY <1>5, <1>6, <1>7 DEF Confirm

\* AdapterRefuses, ConnectionFails and Interrupted.
LEMMA ReturnSteps ==
  ASSUME IInv, NEW p \in Processes, AdapterRefuses(p) \/ ConnectionFails(p) \/ Interrupted(p)
  PROVE  IInv'
<1>1. /\ TypeOK /\ ProcessInv(p) /\ UNCHANGED <<scenario, server, shown>> /\ pc[p] # "idle"
      /\ shown' \subseteq SUBSET Items
  BY TypeParts DEF IInv, AdapterRefuses, ConnectionFails, Interrupted
<1>2. CallInv(p)
  BY <1>1 DEF ProcessInv
<1>3. CASE AdapterRefuses(p)
  <2>1. wire[p] = NoRequest /\ written[p] = {} /\ (kind # "kv" => stored[p] = {})
    BY <1>2, <1>3 DEF CallInv, AdapterRefuses
  <2>2. "Failed" \in Results \ {"none"} /\ Return(p, "Failed")
    BY <1>3 DEF Results, AdapterRefuses
  <2> QED BY <1>1, <2>1, <2>2, ReturnsAlone
<1>4. CASE ConnectionFails(p) \/ Interrupted(p)
  <2>1. "OutcomeIndeterminate" \in Results \ {"none"} /\ Return(p, "OutcomeIndeterminate")
    BY <1>4 DEF Results, ConnectionFails, Interrupted
  <2> QED BY <1>1, <2>1, ReturnsAlone
<1> QED BY <1>3, <1>4
-----------------------------------------------------------------------------
(* Requests                                                                *)

\* What a request says when it is sent
Sendable(p, request) ==
  /\ request.op = "restore" => /\ kind = "kv" /\ request.item = next[p]
                               /\ ~request.nx => request.item \in existing[p]
  /\ request.op = "commit" => kind = "sql" /\ written[p] = Items
  /\ request.op = "insert" => kind = "doc" /\ request.item = 1

\* Sending keeps the inductive invariant.
LEMMA SendStep ==
  ASSUME IInv, NEW p \in Processes, NEW request \in Requests, pc[p] = "write",
         Send(p, request), Sendable(p, request)
  PROVE  IInv'
<1>1. TypeOK /\ LockInv /\ ProcessInv(p)
  BY DEF IInv
<1>2. CallInv(p) /\ RequestInv(p) /\ AnswerInv(p) /\ ReplaceInv(p) /\ ResultInv(p)
  BY <1>1 DEF ProcessInv
<1>3. /\ UNCHANGED <<kind, whole, keyed, expiring, past, target, written, stored, overwritten,
                     replace, given, existing, next, answer, result, shown>>
      /\ answer[p] = "none" /\ result[p] = "none"
  BY <1>2 DEF Send, scenario, CallInv
<1>4. "await" \in Steps
  BY DEF Steps
<1>5. /\ wire' \in [Processes -> Requests \cup {NoRequest}] /\ pc' \in [Processes -> Steps]
      /\ wire'[p] = request /\ pc'[p] = "await"
      /\ \A q \in Processes \ {p} : wire'[q] = wire[q] /\ pc'[q] = pc[q]
  BY <1>1, <1>4, TypeParts DEF Send, Goto
<1>6. TypeOK'
  BY <1>1, <1>3, <1>5, TypeParts DEF TypeOK
<1>7. LockInv'
  BY <1>1, <1>3 DEF LockInv
<1>8. \A q \in Processes \ {p} : Untouched(q)
  BY <1>3, <1>5 DEF Untouched
<1>9. CallInv(p)'
  BY <1>2, <1>3, <1>5 DEF CallInv
<1>10. RequestInv(p)'
  <2>1. \A j \in Items : ~(j < 1)
    BY DEF Items
  <2> QED BY <1>2, <1>3, <1>5, <2>1 DEF RequestInv, Sendable
<1>11. AnswerInv(p)'
  BY <1>3 DEF AnswerInv
<1>12. ReplaceInv(p)'
  <2>1. PICK token \in {{}} \cup shown : Allows(p, token)
    BY <1>2 DEF ReplaceInv
  <2>2. request.op = "restore" /\ ~request.nx => request.item \in token
    <3>1. kind = "kv" => existing[p] \subseteq token
      BY <2>1 DEF Allows
    <3> QED BY <3>1 DEF Sendable
  <2>3. Allows(p, token)'
    BY <1>3, <1>5, <2>1, <2>2 DEF Allows
  <2> QED BY <1>2, <1>3, <2>1, <2>3 DEF ReplaceInv
<1>13. ResultInv(p)'
  BY <1>2, <1>3 DEF ResultInv
<1>14. ProcessInv(p)'
  BY <1>9, <1>10, <1>11, <1>12, <1>13 DEF ProcessInv
<1>15. UNCHANGED <<scenario, past>> /\ shown \subseteq shown'
  BY <1>3 DEF scenario
<1> QED BY <1>6, <1>7, <1>8, <1>14, <1>15, ProcessStep

\* KvRestore, DocInsert and SqlCommit.
LEMMA SendSteps ==
  ASSUME IInv, NEW p \in Processes, KvRestore(p) \/ DocInsert(p) \/ SqlCommit(p) PROVE IInv'
<1>1. next[p] \in Items /\ 1 \in Items
  BY TypeParts, ImportAssumption DEF IInv, Items
<1>2. CASE KvRestore(p)
  <2> DEFINE request == [op |-> "restore", item |-> next[p], nx |-> next[p] \notin existing[p]]
  <2>1. (next[p] \notin existing[p]) \in BOOLEAN
    BY Zenon
  <2>2. \A nx \in BOOLEAN : [op |-> "restore", item |-> next[p], nx |-> nx] \in Requests
    BY <1>1 DEF Requests
  <2>3. request \in Requests
    BY <2>1, <2>2, Zenon
  <2>4. request.op = "restore" /\ request.item = next[p] /\ request.nx = (next[p] \notin existing[p])
    BY Zenon
  <2>5. pc[p] = "write" /\ kind = "kv" /\ Send(p, request)
    BY <1>2 DEF KvRestore
  <2> HIDE DEF request
  <2>6. ~request.nx => next[p] \in existing[p]
    BY <2>4, Zenon
  <2>7. Sendable(p, request)
    BY <2>4, <2>5, <2>6 DEF Sendable
  <2> QED BY <2>3, <2>5, <2>7, SendStep
<1>3. CASE DocInsert(p)
  <2> DEFINE request == [op |-> "insert", item |-> 1, nx |-> TRUE]
  <2>1. request \in Requests /\ request.op = "insert" /\ request.item = 1
    BY <1>1 DEF Requests
  <2>2. pc[p] = "write" /\ kind = "doc" /\ Send(p, request)
    BY <1>3 DEF DocInsert
  <2> HIDE DEF request
  <2>3. Sendable(p, request)
    BY <2>1, <2>2 DEF Sendable
  <2> QED BY <2>1, <2>2, <2>3, SendStep
<1>4. CASE SqlCommit(p)
  <2> DEFINE request == [op |-> "commit", item |-> 1, nx |-> FALSE]
  <2>1. request \in Requests /\ request.op = "commit"
    BY <1>1 DEF Requests
  <2>2. pc[p] = "write" /\ kind = "sql" /\ written[p] = Items /\ Send(p, request)
    BY <1>4 DEF SqlCommit
  <2> HIDE DEF request
  <2>3. Sendable(p, request)
    BY <2>1, <2>2 DEF Sendable
  <2> QED BY <2>1, <2>2, <2>3, SendStep
<1> QED BY <1>2, <1>3, <1>4

\* Something that happens to a request of p: the server serves or loses it.
Served(p) ==
  /\ UNCHANGED <<scenario, past, pc, replace, given, existing, next, result, shown>>
  /\ TypeOK'
  /\ \A q \in Processes \ {p} :
       /\ answer'[q] = answer[q] /\ wire'[q] = wire[q] /\ written'[q] = written[q]
       /\ stored'[q] = stored[q] /\ overwritten'[q] = overwritten[q]
  /\ pc[p] # "await" => answer'[p] = answer[p]
  /\ stored[p] \subseteq stored'[p]

\* A process with a request under way waits for it, or is gone.
LEMMA Waiting ==
  ASSUME IInv, NEW p \in Processes, wire[p] # NoRequest
  PROVE  pc[p] \in {"await", "idle"} /\ answer[p] = "none" /\ result[p] # "Failed"
<1>1. CallInv(p) /\ AnswerInv(p) /\ ResultInv(p) /\ pc[p] \in Steps
  BY TypeParts DEF IInv, ProcessInv
<1>2. pc[p] \in {"await", "idle"}
  BY <1>1 DEF CallInv, Steps
<1>3. answer[p] = "none"
  BY <1>1 DEF AnswerInv
<1>4. result[p] # "Failed"
  BY <1>1 DEF ResultInv
<1> QED BY <1>2, <1>3, <1>4

\* What serving a request has to establish
LEMMA ServerStep ==
  ASSUME IInv, NEW p \in Processes, wire[p] # NoRequest, Served(p), LockInv', RequestInv(p)',
         AnswerInv(p)',
         overwritten'[p] \subseteq overwritten[p] \cup
           {i \in Items : wire[p].op = "restore" /\ ~wire[p].nx /\ i = wire[p].item},
         wire'[p] = NoRequest \/ wire'[p].op # "restore",
         kind = "sql" => stored'[p] \in {{}, Items}
  PROVE  IInv'
<1>1. CallInv(p) /\ ReplaceInv(p) /\ ResultInv(p)
  BY DEF IInv, ProcessInv
<1>2. /\ UNCHANGED <<kind, whole, keyed, expiring, past, pc, replace, given, existing, next,
                     result, shown>>
      /\ TypeOK' /\ (pc[p] # "await" => answer'[p] = answer[p]) /\ stored[p] \subseteq stored'[p]
  BY DEF Served, scenario
<1>3. pc[p] \in {"await", "idle"} /\ answer[p] = "none" /\ result[p] # "Failed"
  BY Waiting
<1>4. \A q \in Processes \ {p} : Untouched(q)
  BY <1>2 DEF Served, Untouched
<1>5. CallInv(p)'
  BY <1>1, <1>2, <1>3 DEF CallInv
<1>6. ReplaceInv(p)'
  <2>1. PICK token \in {{}} \cup shown : Allows(p, token)
    BY <1>1 DEF ReplaceInv
  <2>2. overwritten'[p] \subseteq token
    BY <2>1 DEF Allows
  <2>3. wire'[p].op # "restore"
    BY DEF NoRequest
  <2>4. Allows(p, token)'
    BY <1>2, <2>1, <2>2, <2>3 DEF Allows
  <2> QED BY <1>1, <1>2, <2>1, <2>4 DEF ReplaceInv
<1>7. ResultInv(p)'
  BY <1>1, <1>2, <1>3 DEF ResultInv
<1>8. ProcessInv(p)'
  BY <1>5, <1>6, <1>7 DEF ProcessInv
<1>9. UNCHANGED <<scenario, past>> /\ shown \subseteq shown'
  BY <1>2 DEF Served
<1> QED BY <1>2, <1>4, <1>8, <1>9, ProcessStep

\* The server answers.
LEMMA AnswerEffect ==
  ASSUME TypeOK, NEW p \in Processes, NEW a \in Answers, Answer(p, a), UNCHANGED pc
  PROVE  /\ wire' \in [Processes -> Requests \cup {NoRequest}] /\ answer' \in [Processes -> Answers]
         /\ wire'[p] = NoRequest
         /\ pc[p] = "await" => answer'[p] = a
         /\ pc[p] # "await" => answer'[p] = answer[p]
         /\ \A q \in Processes \ {p} : wire'[q] = wire[q] /\ answer'[q] = answer[q]
BY TypeParts DEF Answer

\* Items are put into the target.
LEMMA StoreEffect ==
  ASSUME TypeOK, NEW p \in Processes, NEW items \in SUBSET Items, Store(p, items)
  PROVE  /\ target' \in [Items -> {"none", "other"} \cup Processes]
         /\ stored' \in [Processes -> SUBSET Items] /\ overwritten' \in [Processes -> SUBSET Items]
         /\ \A i \in Items : i \notin items \cap keyed => target'[i] = target[i]
         /\ stored'[p] = stored[p] \cup items
         /\ overwritten'[p] = overwritten[p] \cup
              {i \in items \cap keyed : target[i] \notin {"none", p}}
         /\ \A q \in Processes \ {p} :
              stored'[q] = stored[q] /\ overwritten'[q] = overwritten[q]
<1>1. keyed \subseteq Items
  BY TypeParts
<1>2. {i \in items \cap keyed : target[i] \notin {"none", p}} \in SUBSET Items
  BY <1>1
<1> QED BY <1>1, <1>2, TypeParts DEF Store

\* ServerRestores keeps the inductive invariant,
LEMMA ServerRestoresStep ==
  ASSUME IInv, NEW p \in Processes, ServerRestores(p) PROVE IInv'
<1> DEFINE i == wire[p].item
<1>1. /\ TypeOK /\ ProcessInv(p) /\ wire[p].op = "restore"
      /\ UNCHANGED <<scenario, past, written, pc, replace, given, existing, next, result, shown>>
  BY DEF IInv, ServerRestores
<1>2. CallInv(p) /\ RequestInv(p) /\ ReplaceInv(p) /\ ResultInv(p)
  BY <1>1 DEF ProcessInv
<1>3. wire[p] # NoRequest /\ kind = "kv" /\ (pc[p] = "await" => i = next[p]) /\ written[p] = {}
  BY <1>1, <1>2 DEF RequestInv, NoRequest
<1>4. i \in Items /\ wire[p].nx \in BOOLEAN
  <2>1. wire[p] \in Requests
    BY <1>1, <1>3, TypeParts
  <2> QED BY <2>1 DEF Requests
<1>5. pc[p] \in {"await", "idle"} /\ answer[p] = "none"
  BY <1>3, Waiting
<1>6. UNCHANGED <<kind, whole, keyed, expiring>>
  BY <1>1 DEF scenario
<1>7. LockInv'
  BY <1>1, <1>3, <1>6, NoRowsNoLocks
<1>8. {"Expired", "ConditionNotMet", "Stored"} \subseteq Answers
  BY DEF Answers
<1> HIDE DEF i
<1>9. CASE \E a \in {"Expired", "ConditionNotMet"} :
             (a = "Expired" => i \in past) /\ Answer(p, a) /\ UNCHANGED <<target, stored, overwritten>>
  <2>1. PICK a \in {"Expired", "ConditionNotMet"} :
             (a = "Expired" => i \in past) /\ Answer(p, a) /\ UNCHANGED <<target, stored, overwritten>>
    BY <1>9
  <2>2. a \in Answers
    BY <1>8
  <2>3. /\ wire' \in [Processes -> Requests \cup {NoRequest}] /\ answer' \in [Processes -> Answers]
        /\ wire'[p] = NoRequest
        /\ pc[p] = "await" => answer'[p] = a
        /\ pc[p] # "await" => answer'[p] = answer[p]
        /\ \A q \in Processes \ {p} : wire'[q] = wire[q] /\ answer'[q] = answer[q]
    BY <1>1, <2>1, <2>2, AnswerEffect
  <2>4. TypeOK'
    BY <1>1, <1>6, <2>1, <2>3, TypeParts DEF TypeOK
  <2>5. Served(p)
    BY <1>1, <2>1, <2>3, <2>4 DEF Served
  <2>6. RequestInv(p)'
    BY <1>1, <1>3, <2>3 DEF RequestInv, NoRequest
  <2>7. AnswerInv(p)'
    BY <1>1, <1>3, <1>5, <2>1, <2>3 DEF AnswerInv
  <2> QED BY <1>3, <1>7, <2>1, <2>3, <2>5, <2>6, <2>7, ServerStep
<1>10. CASE /\ i \notin past /\ ~(wire[p].nx /\ Held(i)) /\ Answer(p, "Stored") /\ Store(p, {i})
  <2>1. /\ wire' \in [Processes -> Requests \cup {NoRequest}] /\ answer' \in [Processes -> Answers]
        /\ wire'[p] = NoRequest
        /\ pc[p] = "await" => answer'[p] = "Stored"
        /\ pc[p] # "await" => answer'[p] = answer[p]
        /\ \A q \in Processes \ {p} : wire'[q] = wire[q] /\ answer'[q] = answer[q]
    BY <1>1, <1>8, <1>10, AnswerEffect
  <2>2. {i} \in SUBSET Items
    BY <1>4
  <2>3. /\ target' \in [Items -> {"none", "other"} \cup Processes]
        /\ stored' \in [Processes -> SUBSET Items] /\ overwritten' \in [Processes -> SUBSET Items]
        /\ stored'[p] = stored[p] \cup {i}
        /\ overwritten'[p] = overwritten[p] \cup
             {j \in {i} \cap keyed : target[j] \notin {"none", p}}
        /\ \A q \in Processes \ {p} : stored'[q] = stored[q] /\ overwritten'[q] = overwritten[q]
    BY <1>1, <1>10, <2>2, StoreEffect
  <2>4. TypeOK'
    BY <1>1, <1>6, <2>1, <2>3, TypeParts DEF TypeOK
  <2>5. Served(p)
    BY <1>1, <2>1, <2>3, <2>4 DEF Served
  <2>6. RequestInv(p)'
    BY <1>1, <1>3, <2>1 DEF RequestInv, NoRequest
  <2>7. AnswerInv(p)'
    BY <1>1, <1>3, <1>5, <2>1, <2>3 DEF AnswerInv
  <2>8. overwritten'[p] \subseteq overwritten[p] \cup
          {j \in Items : wire[p].op = "restore" /\ ~wire[p].nx /\ j = wire[p].item}
    <3>1. wire[p].nx => \A j \in {i} \cap keyed : target[j] = "none"
      BY <1>10 DEF Held
    <3> QED BY <1>1, <1>4, <2>3, <3>1 DEF i
  <2> QED BY <1>3, <1>7, <2>1, <2>5, <2>6, <2>7, <2>8, ServerStep
<1> QED BY <1>9, <1>10 DEF ServerRestores, i

\* ServerInserts,
LEMMA ServerInsertsStep ==
  ASSUME IInv, NEW p \in Processes, ServerInserts(p) PROVE IInv'
<1> DEFINE i == wire[p].item
<1>1. /\ TypeOK /\ ProcessInv(p) /\ wire[p].op = "insert"
      /\ UNCHANGED <<scenario, past, written, pc, replace, given, existing, next, result, shown>>
  BY DEF IInv, ServerInserts
<1>2. CallInv(p) /\ RequestInv(p) /\ AnswerInv(p)
  BY <1>1 DEF ProcessInv
<1>3. /\ wire[p] # NoRequest /\ kind = "doc" /\ written[p] = {}
      /\ \A j \in Items : j < i => j \in stored[p]
  BY <1>1, <1>2 DEF RequestInv, NoRequest
<1>4. wire[p] \in Requests /\ i \in Items
  <2>1. wire[p] \in Requests
    BY <1>1, <1>3, TypeParts
  <2> QED BY <2>1 DEF Requests
<1>5. pc[p] \in {"await", "idle"} /\ answer[p] = "none"
  BY <1>3, Waiting
<1>6. UNCHANGED <<kind, whole, keyed, expiring>>
  BY <1>1 DEF scenario
<1>7. LockInv'
  BY <1>1, <1>3, <1>6, NoRowsNoLocks
<1>8. {"Error", "Ok"} \subseteq Answers
  BY DEF Answers
<1> HIDE DEF i
<1>9. CASE Held(i) /\ Answer(p, "Error") /\ UNCHANGED <<target, stored, overwritten>>
  <2>1. /\ wire' \in [Processes -> Requests \cup {NoRequest}] /\ answer' \in [Processes -> Answers]
        /\ wire'[p] = NoRequest
        /\ pc[p] = "await" => answer'[p] = "Error"
        /\ pc[p] # "await" => answer'[p] = answer[p]
        /\ \A q \in Processes \ {p} : wire'[q] = wire[q] /\ answer'[q] = answer[q]
    BY <1>1, <1>8, <1>9, AnswerEffect
  <2>2. TypeOK'
    BY <1>1, <1>6, <1>9, <2>1, TypeParts DEF TypeOK
  <2>3. Served(p)
    BY <1>1, <1>9, <2>1, <2>2 DEF Served
  <2>4. RequestInv(p)'
    BY <1>1, <1>3, <2>1 DEF RequestInv, NoRequest
  <2>5. AnswerInv(p)'
    BY <1>5, <2>1 DEF AnswerInv
  <2> QED BY <1>3, <1>7, <1>9, <2>1, <2>3, <2>4, <2>5, ServerStep
<1>10. CASE ~Held(i) /\ Store(p, {i})
            /\ \/ i = Count /\ Answer(p, "Ok")
               \/ i < Count /\ wire' = [wire EXCEPT ![p].item = i + 1] /\ UNCHANGED answer
  <2>1. {i} \in SUBSET Items
    BY <1>4
  <2>2. /\ target' \in [Items -> {"none", "other"} \cup Processes]
        /\ stored' \in [Processes -> SUBSET Items] /\ overwritten' \in [Processes -> SUBSET Items]
        /\ stored'[p] = stored[p] \cup {i}
        /\ overwritten'[p] = overwritten[p] \cup
             {j \in {i} \cap keyed : target[j] \notin {"none", p}}
        /\ \A q \in Processes \ {p} : stored'[q] = stored[q] /\ overwritten'[q] = overwritten[q]
    BY <1>1, <1>10, <2>1, StoreEffect
  <2>3. overwritten'[p] = overwritten[p]
    BY <1>10, <2>2 DEF Held
  <2>4. CASE i = Count /\ Answer(p, "Ok")
    <3>1. /\ wire' \in [Processes -> Requests \cup {NoRequest}]
          /\ answer' \in [Processes -> Answers]
          /\ wire'[p] = NoRequest
          /\ pc[p] = "await" => answer'[p] = "Ok"
          /\ pc[p] # "await" => answer'[p] = answer[p]
          /\ \A q \in Processes \ {p} : wire'[q] = wire[q] /\ answer'[q] = answer[q]
      BY <1>1, <1>8, <2>4, AnswerEffect
    <3>2. TypeOK'
      BY <1>1, <1>6, <2>2, <3>1, TypeParts DEF TypeOK
    <3>3. Served(p)
      BY <1>1, <2>2, <3>1, <3>2 DEF Served
    <3>4. RequestInv(p)'
      BY <1>1, <1>3, <3>1 DEF RequestInv, NoRequest
    <3>5. Items \subseteq stored'[p]
      <4>1. \A j \in Items : j < i \/ j = i
        BY <2>4, ImportAssumption DEF Items
      <4> QED BY <1>3, <2>2, <4>1
    <3>6. AnswerInv(p)'
      BY <1>5, <3>1, <3>5 DEF AnswerInv
    <3> QED BY <1>3, <1>7, <2>3, <3>1, <3>3, <3>4, <3>6, ServerStep
  <2>5. CASE i < Count /\ wire' = [wire EXCEPT ![p].item = i + 1] /\ UNCHANGED answer
    <3>1. i + 1 \in Items
      BY <1>4, <2>5, ImportAssumption DEF Items
    <3>2. [wire[p] EXCEPT !.item = i + 1] \in Requests
          /\ [wire[p] EXCEPT !.item = i + 1].op = "insert"
          /\ [wire[p] EXCEPT !.item = i + 1].item = i + 1
      BY <1>1, <1>4, <3>1 DEF Requests
    <3>3. wire' = [wire EXCEPT ![p] = [wire[p] EXCEPT !.item = i + 1]]
      BY <2>5
    <3>4. /\ wire' \in [Processes -> Requests \cup {NoRequest}]
          /\ wire'[p].op = "insert" /\ wire'[p].item = i + 1
          /\ \A q \in Processes \ {p} : wire'[q] = wire[q]
      BY <1>1, <3>2, <3>3, TypeParts
    <3>5. TypeOK'
      BY <1>1, <1>6, <2>2, <2>5, <3>4, TypeParts DEF TypeOK
    <3>6. Served(p)
      BY <1>1, <2>2, <2>5, <3>4, <3>5 DEF Served
    <3>7. \A j \in Items : j < i + 1 => j \in stored'[p]
      <4>1. \A j \in Items : j < i + 1 => j < i \/ j = i
        BY <1>4, ImportAssumption DEF Items
      <4> QED BY <1>3, <2>2, <4>1
    <3>8. RequestInv(p)'
      BY <1>1, <1>3, <1>6, <3>4, <3>7 DEF RequestInv
    <3>9. AnswerInv(p)'
      BY <1>5, <2>5 DEF AnswerInv
    <3> QED BY <1>3, <1>7, <2>3, <3>4, <3>6, <3>8, <3>9, ServerStep
  <2> QED BY <1>10, <2>4, <2>5
<1> QED BY <1>9, <1>10 DEF ServerInserts, i

\* and ServerCommits.
LEMMA ServerCommitsStep ==
  ASSUME IInv, NEW p \in Processes, ServerCommits(p) PROVE IInv'
<1>1. /\ TypeOK /\ LockInv /\ ProcessInv(p) /\ wire[p].op = "commit"
      /\ UNCHANGED <<scenario, past, pc, replace, given, existing, next, result, shown>>
      /\ Store(p, written[p]) /\ Answer(p, "Ok") /\ written' = [written EXCEPT ![p] = {}]
  BY DEF IInv, ServerCommits
<1>2. RequestInv(p) /\ ResultInv(p)
  BY <1>1 DEF ProcessInv
<1>3. wire[p] # NoRequest /\ kind = "sql" /\ written[p] = Items
  BY <1>1, <1>2 DEF RequestInv, NoRequest
<1>4. pc[p] \in {"await", "idle"} /\ answer[p] = "none"
  BY <1>3, Waiting
<1>5. UNCHANGED <<kind, whole, keyed, expiring>>
  BY <1>1 DEF scenario
<1>6. "Ok" \in Answers
  BY DEF Answers
<1>7. /\ wire' \in [Processes -> Requests \cup {NoRequest}] /\ answer' \in [Processes -> Answers]
      /\ wire'[p] = NoRequest
      /\ pc[p] # "await" => answer'[p] = answer[p]
      /\ \A q \in Processes \ {p} : wire'[q] = wire[q] /\ answer'[q] = answer[q]
  BY <1>1, <1>6, AnswerEffect
<1>8. /\ target' \in [Items -> {"none", "other"} \cup Processes]
      /\ stored' \in [Processes -> SUBSET Items] /\ overwritten' \in [Processes -> SUBSET Items]
      /\ \A i \in Items : i \notin Items \cap keyed => target'[i] = target[i]
      /\ stored'[p] = stored[p] \cup Items
      /\ overwritten'[p] = overwritten[p] \cup
           {i \in Items \cap keyed : target[i] \notin {"none", p}}
      /\ \A q \in Processes \ {p} : stored'[q] = stored[q] /\ overwritten'[q] = overwritten[q]
  BY <1>1, <1>3, StoreEffect
<1>9. /\ written' \in [Processes -> SUBSET Items] /\ written'[p] = {}
      /\ \A q \in Processes \ {p} : written'[q] = written[q]
  BY <1>1, TypeParts
<1>10. keyed \subseteq Items /\ stored[p] \in SUBSET Items /\ written \in [Processes -> SUBSET Items]
  BY <1>1, TypeParts
<1>11. overwritten'[p] = overwritten[p]
  <2>1. \A i \in Items \cap keyed : target[i] = "none"
    BY <1>1, <1>3 DEF LockInv
  <2> QED BY <1>8, <2>1
<1>12. stored'[p] = Items
  BY <1>8, <1>10
<1>13. LockInv'
  <2>1. \A q \in Processes \ {p} : written[q] \cap keyed = {}
    <3> SUFFICES ASSUME NEW q \in Processes \ {p}, NEW i \in written[q] \cap keyed PROVE FALSE
      OBVIOUS
    <3>1. i \in written[p] \cap keyed
      BY <1>3, <1>10
    <3> QED BY <1>1, <3>1 DEF LockInv
  <2>2. \A q \in Processes : written'[q] \cap keyed = {}
    BY <1>9, <2>1
  <2> QED BY <1>5, <2>2 DEF LockInv
<1>14. TypeOK'
  BY <1>1, <1>5, <1>7, <1>8, <1>9, TypeParts DEF TypeOK
<1>15. Served(p)
  BY <1>1, <1>7, <1>8, <1>9, <1>14 DEF Served
<1>16. RequestInv(p)'
  BY <1>7, <1>9 DEF RequestInv, NoRequest
<1>17. AnswerInv(p)'
  <2>1. answer'[p] \in {"Ok", "none"}
    BY <1>1, <1>4, <1>6, <1>7, AnswerEffect
  <2> QED BY <1>7, <1>12, <2>1 DEF AnswerInv
<1> QED BY <1>3, <1>7, <1>11, <1>12, <1>13, <1>15, <1>16, <1>17, ServerStep

\* A request or a transaction that is lost
LEMMA LostSteps ==
  ASSUME IInv, NEW p \in Processes, RequestLost(p) \/ ServerRollsBack(p) PROVE IInv'
<1>1. TypeOK /\ LockInv /\ ProcessInv(p)
  BY DEF IInv
<1>2. CallInv(p) /\ RequestInv(p) /\ AnswerInv(p) /\ ReplaceInv(p) /\ ResultInv(p)
  BY <1>1 DEF ProcessInv
<1>3. CASE RequestLost(p)
  <2>1. /\ UNCHANGED <<kind, whole, keyed, expiring, past, target, written, stored, overwritten, pc,
                       replace, given, existing, next, answer, result, shown>>
        /\ wire[p] # NoRequest /\ wire' = [wire EXCEPT ![p] = NoRequest]
    BY <1>3 DEF RequestLost, scenario, local
  <2>2. /\ wire' \in [Processes -> Requests \cup {NoRequest}] /\ wire'[p] = NoRequest
        /\ \A q \in Processes \ {p} : wire'[q] = wire[q]
    BY <1>1, <2>1, TypeParts
  <2>3. TypeOK'
    BY <1>1, <2>1, <2>2, TypeParts DEF TypeOK
  <2>4. LockInv'
    BY <1>1, <2>1 DEF LockInv
  <2>5. Served(p)
    BY <2>1, <2>2, <2>3 DEF Served, scenario
  <2>6. RequestInv(p)'
    BY <1>2, <2>1, <2>2 DEF RequestInv, NoRequest
  <2>7. AnswerInv(p)'
    BY <1>2, <2>1, <2>2 DEF AnswerInv
  <2>8. kind = "sql" => stored'[p] \in {{}, Items}
    BY <1>2, <2>1 DEF ResultInv
  <2> QED BY <2>1, <2>2, <2>4, <2>5, <2>6, <2>7, <2>8, ServerStep
<1>4. CASE ServerRollsBack(p)
  <2>1. /\ UNCHANGED <<kind, whole, keyed, expiring, past, target, wire, stored, overwritten, pc,
                       replace, given, existing, next, answer, result, shown>>
        /\ wire[p] = NoRequest /\ written' = [written EXCEPT ![p] = {}]
    BY <1>4 DEF ServerRollsBack, scenario, local
  <2>2. /\ written' \in [Processes -> SUBSET Items] /\ written'[p] = {}
        /\ \A q \in Processes \ {p} : written'[q] = written[q]
        /\ \A q \in Processes : written'[q] \subseteq written[q]
    BY <1>1, <2>1, TypeParts
  <2>3. TypeOK'
    BY <1>1, <2>1, <2>2, TypeParts DEF TypeOK
  <2>4. LockInv'
    BY <1>1, <2>1, <2>2, LocksKept, TypeParts
  <2>5. \A q \in Processes \ {p} : Untouched(q)
    BY <2>1, <2>2 DEF Untouched
  <2>6. CallInv(p)' /\ AnswerInv(p)'
    BY <1>2, <2>1 DEF CallInv, AnswerInv
  <2>7. RequestInv(p)'
    BY <1>2, <2>1, <2>2 DEF RequestInv, NoRequest
  <2>8. ReplaceInv(p)'
    <3>1. PICK token \in {{}} \cup shown : Allows(p, token)
      BY <1>2 DEF ReplaceInv
    <3>2. Allows(p, token)'
      BY <2>1, <3>1 DEF Allows
    <3> QED BY <1>2, <2>1, <3>1, <3>2 DEF ReplaceInv
  <2>9. ResultInv(p)'
    BY <1>2, <2>1, <2>2 DEF ResultInv
  <2>10. ProcessInv(p)'
    BY <2>6, <2>7, <2>8, <2>9 DEF ProcessInv
  <2>11. UNCHANGED <<scenario, past>> /\ shown \subseteq shown'
    BY <2>1 DEF scenario
  <2> QED BY <2>3, <2>4, <2>5, <2>10, <2>11, ProcessStep
<1> QED BY <1>3, <1>4
-----------------------------------------------------------------------------
(* What the process makes of its answers, and rows                         *)

\* KvAnswered keeps the inductive invariant,
LEMMA KvAnsweredStep ==
  ASSUME IInv, NEW p \in Processes, KvAnswered(p) PROVE IInv'
<1>1. /\ TypeOK /\ ProcessInv(p) /\ pc[p] = "await" /\ kind = "kv"
      /\ UNCHANGED <<scenario, server, shown>>
  BY DEF IInv, KvAnswered
<1>2. CallInv(p) /\ RequestInv(p) /\ AnswerInv(p) /\ ReplaceInv(p)
  BY <1>1 DEF ProcessInv
<1>3. shown' \subseteq SUBSET Items /\ pc[p] # "idle" /\ {"Ok", "Failed"} \subseteq Results \ {"none"}
  BY <1>1, TypeParts DEF Results
<1>4. written[p] = {} /\ (answer[p] # "none" => wire[p] = NoRequest)
  BY <1>1, <1>2 DEF RequestInv, AnswerInv
<1>5. CASE answer[p] = "ConditionNotMet" /\ Return(p, "Failed")
  BY <1>1, <1>3, <1>4, <1>5, ReturnsAlone
<1>6. \A j \in Items : j < next[p] => j \in stored[p] \cup past
  BY <1>1, <1>2 DEF CallInv
<1>7. CASE answer[p] \in {"Stored", "Expired"} /\ next[p] = Count /\ Return(p, "Ok")
  <2>1. \A j \in Items : j < next[p] \/ j = next[p]
    BY <1>7, ImportAssumption DEF Items
  <2>2. Items \ past \subseteq stored[p]
    BY <1>2, <1>6, <1>7, <2>1 DEF AnswerInv
  <2> QED BY <1>1, <1>3, <1>7, <2>2, ReturnsAlone
<1>8. CASE /\ answer[p] \in {"Stored", "Expired"} /\ next[p] < Count /\ Goto(p, "write")
           /\ next' = [next EXCEPT ![p] = @ + 1] /\ answer' = [answer EXCEPT ![p] = "none"]
           /\ UNCHANGED <<replace, given, existing, result>>
  <2>1. next[p] \in Items /\ next[p] + 1 \in Items
    BY <1>1, <1>8, TypeParts, ImportAssumption DEF Items
  <2>2. "write" \in Steps /\ "none" \in Answers
    BY DEF Steps, Answers
  <2>3. /\ pc' \in [Processes -> Steps] /\ next' \in [Processes -> Items]
        /\ answer' \in [Processes -> Answers] /\ existing' \in [Processes -> SUBSET Items]
        /\ pc'[p] = "write" /\ next'[p] = next[p] + 1 /\ answer'[p] = "none"
        /\ \A q \in Processes \ {p} : /\ pc'[q] = pc[q] /\ next'[q] = next[q]
                                      /\ existing'[q] = existing[q] /\ answer'[q] = answer[q]
    BY <1>1, <1>8, <2>1, <2>2, TypeParts DEF Goto
  <2>4. UNCHANGED <<kind, past, wire, stored, overwritten>>
    BY <1>1 DEF scenario, server
  <2>5. wire[p] = NoRequest /\ result[p] = "none"
    BY <1>1, <1>2, <1>4, <1>8 DEF CallInv
  <2>6. \A j \in Items : j < next[p] + 1 => j \in stored[p] \cup past
    <3>1. \A j \in Items : j < next[p] + 1 => j < next[p] \/ j = next[p]
      BY <2>1, ImportAssumption DEF Items
    <3> QED BY <1>2, <1>6, <1>8, <3>1 DEF AnswerInv
  <2>7. CallInv(p)'
    BY <1>1, <1>8, <2>3, <2>4, <2>5, <2>6 DEF CallInv
  <2>8. ReplaceInv(p)'
    <3>1. PICK token \in {{}} \cup shown : Allows(p, token)
      BY <1>2 DEF ReplaceInv
    <3>2. Allows(p, token)'
      BY <1>1, <1>8, <2>4, <3>1 DEF Allows
    <3> QED BY <1>1, <1>2, <1>8, <3>1, <3>2 DEF ReplaceInv
  <2> QED BY <1>1, <1>3, <1>8, <2>3, <2>5, <2>7, <2>8, GoesOn
<1> QED BY <1>5, <1>7, <1>8 DEF KvAnswered

\* so do DocAnswered and SqlAnswered,
LEMMA AnsweredSteps ==
  ASSUME IInv, NEW p \in Processes, DocAnswered(p) \/ SqlAnswered(p) PROVE IInv'
<1>1. /\ TypeOK /\ ProcessInv(p) /\ pc[p] = "await" /\ UNCHANGED <<scenario, server, shown>>
      /\ \/ answer[p] = "Ok" /\ Return(p, "Ok")
         \/ Return(p, "OutcomeIndeterminate")
  BY DEF IInv, DocAnswered, SqlAnswered
<1>2. AnswerInv(p)
  BY <1>1 DEF ProcessInv
<1>3. /\ shown' \subseteq SUBSET Items /\ pc[p] # "idle"
      /\ {"Ok", "OutcomeIndeterminate"} \subseteq Results \ {"none"}
  BY <1>1, TypeParts DEF Results
<1>4. CASE answer[p] = "Ok" /\ Return(p, "Ok")
  <2>1. Items \ past \subseteq stored[p]
    BY <1>2, <1>4 DEF AnswerInv
  <2> QED BY <1>1, <1>3, <1>4, <2>1, ReturnsAlone
<1>5. CASE Return(p, "OutcomeIndeterminate")
  BY <1>1, <1>3, <1>5, ReturnsAlone
<1> QED BY <1>1, <1>4, <1>5

\* SqlRollback
LEMMA SqlRollbackStep ==
  ASSUME IInv, NEW p \in Processes, SqlRollback(p) PROVE IInv'
<1>1. /\ TypeOK /\ ProcessInv(p) /\ pc[p] = "rollback"
      /\ UNCHANGED <<scenario, past, target, wire, stored, overwritten, shown>>
  BY DEF IInv, SqlRollback
<1>2. CallInv(p)
  BY <1>1 DEF ProcessInv
<1>3. /\ shown' \subseteq SUBSET Items /\ pc[p] # "idle" /\ shown \subseteq shown'
      /\ {"Failed", "OutcomeIndeterminate"} \subseteq Results \ {"none"}
      /\ wire[p] = NoRequest /\ (kind # "kv" => stored[p] = {})
  BY <1>1, <1>2, TypeParts DEF Results, CallInv
<1>4. CASE Return(p, "Failed") /\ written' = [written EXCEPT ![p] = {}]
  <2>1. written'[p] = {}
    BY <1>1, <1>4, TypeParts
  <2> QED BY <1>1, <1>3, <1>4, <2>1, Returns
<1>5. CASE Return(p, "OutcomeIndeterminate") /\ UNCHANGED written
  BY <1>1, <1>3, <1>5, Returns
<1> QED BY <1>4, <1>5 DEF SqlRollback

\* and SqlInsert: a row is only written where nothing stands and nobody else
\* writes.
LEMMA SqlInsertStep ==
  ASSUME IInv, NEW p \in Processes, SqlInsert(p) PROVE IInv'
<1>1. /\ TypeOK /\ LockInv /\ ProcessInv(p) /\ pc[p] = "write" /\ kind = "sql"
      /\ UNCHANGED <<kind, whole, keyed, expiring, past, target, wire, stored, overwritten, replace,
                     given, existing, answer, result, shown>>
  BY DEF IInv, SqlInsert, scenario
<1>2. CallInv(p) /\ RequestInv(p) /\ AnswerInv(p) /\ ReplaceInv(p) /\ ResultInv(p)
  BY <1>1 DEF ProcessInv
<1>3. wire[p] = NoRequest /\ stored[p] = {} /\ answer[p] = "none" /\ result[p] = "none"
  BY <1>1, <1>2 DEF CallInv
<1>4. next[p] \in Items
  BY <1>1, TypeParts
<1>5. /\ pc' \in [Processes -> Steps] /\ next' \in [Processes -> Items]
      /\ written' \in [Processes -> SUBSET Items]
      /\ pc'[p] \in {"write", "rollback"}
      /\ \A q \in Processes \ {p} :
           pc'[q] = pc[q] /\ next'[q] = next[q] /\ written'[q] = written[q]
      /\ LockInv'
  <2>1. CASE /\ ~Held(next[p]) /\ ~Locked(p, next[p])
             /\ written' = [written EXCEPT ![p] = @ \cup {next[p]}]
             /\ IF next[p] = Count THEN UNCHANGED next ELSE next' = [next EXCEPT ![p] = @ + 1]
             /\ UNCHANGED pc
    <3>1. next[p] # Count => next[p] + 1 \in Items
      BY <1>4, ImportAssumption DEF Items
    <3>2. next' \in [Processes -> Items] /\ \A q \in Processes \ {p} : next'[q] = next[q]
      BY <1>1, <2>1, <3>1, TypeParts
    <3>3. /\ written' \in [Processes -> SUBSET Items] /\ written'[p] = written[p] \cup {next[p]}
          /\ \A q \in Processes \ {p} : written'[q] = written[q]
      BY <1>1, <1>4, <2>1, TypeParts
    <3>4. next[p] \in keyed =>
            target[next[p]] = "none" /\ \A q \in Processes \ {p} : next[p] \notin written[q]
      BY <2>1 DEF Held, Locked
    <3>5. LockInv'
      <4> SUFFICES ASSUME NEW q \in Processes, NEW i \in written'[q] \cap keyed
                   PROVE  target[i] = "none" /\ \A r \in Processes : i \in written'[r] => r = q
        BY <1>1 DEF LockInv
      <4>1. CASE i = next[p]
        <5>1. q = p
          BY <3>3, <3>4, <4>1
        <5> QED BY <3>3, <3>4, <4>1, <5>1
      <4>2. CASE i # next[p]
        <5>1. \A r \in Processes : i \in written'[r] <=> i \in written[r]
          BY <3>3, <4>2
        <5> QED BY <1>1, <5>1 DEF LockInv
      <4> QED BY <4>1, <4>2
    <3> QED BY <1>1, <2>1, <3>2, <3>3, <3>5, TypeParts
  <2>2. CASE Goto(p, "rollback") /\ UNCHANGED <<written, next>>
    <3>1. "rollback" \in Steps
      BY DEF Steps
    <3>2. LockInv'
      BY <1>1, <2>2 DEF LockInv
    <3> QED BY <1>1, <2>2, <3>1, <3>2, TypeParts DEF Goto
  <2> QED BY <2>1, <2>2 DEF SqlInsert
<1>6. TypeOK'
  BY <1>1, <1>5, TypeParts DEF TypeOK
<1>7. \A q \in Processes \ {p} : Untouched(q)
  BY <1>1, <1>5 DEF Untouched
<1>8. CallInv(p)'
  BY <1>1, <1>3, <1>5 DEF CallInv
<1>9. RequestInv(p)'
  BY <1>1, <1>3 DEF RequestInv, NoRequest
<1>10. AnswerInv(p)'
  BY <1>1, <1>3 DEF AnswerInv
<1>11. ReplaceInv(p)'
  <2>1. PICK token \in {{}} \cup shown : Allows(p, token)
    BY <1>2 DEF ReplaceInv
  <2>2. Allows(p, token)'
    BY <1>1, <2>1 DEF Allows
  <2> QED BY <1>1, <1>2, <2>1, <2>2 DEF ReplaceInv
<1>12. ResultInv(p)'
  BY <1>1, <1>3 DEF ResultInv
<1>13. ProcessInv(p)'
  BY <1>8, <1>9, <1>10, <1>11, <1>12 DEF ProcessInv
<1>14. UNCHANGED <<scenario, past>> /\ shown \subseteq shown'
  BY <1>1 DEF scenario
<1> QED BY <1>5, <1>6, <1>7, <1>13, <1>14, ProcessStep
-----------------------------------------------------------------------------
(* The environment                                                         *)

\* EntryExpires and OthersWrite change what stands in the target, never under a
\* row that is being written.
LEMMA EnvironmentSteps ==
  ASSUME IInv, NEW i \in Items,
         EntryExpires(i) \/ \E content \in {"none", "other"} : OthersWrite(i, content)
  PROVE  IInv'
<1>1. TypeOK /\ LockInv /\ whole
  BY DEF IInv
<1>2. /\ UNCHANGED <<scenario, wire, written, stored, overwritten, pc, replace, given, existing,
                     next, answer, result, shown>>
  BY DEF EntryExpires, OthersWrite, local
<1>3. UNCHANGED <<kind, whole, keyed, expiring>>
  BY <1>2 DEF scenario
<1>4. past \subseteq past' /\ past' \subseteq expiring
  BY <1>1, TypeParts DEF EntryExpires, OthersWrite
<1>5. /\ target' \in [Items -> {"none", "other"} \cup Processes]
      /\ \A j \in Items : target'[j] = target[j] \/ target'[j] = "none"
                          \/ \A p \in Processes : j \notin written[p]
  <2>1. CASE EntryExpires(i)
    <3>1. target' = target \/ target' = [target EXCEPT ![i] = "none"]
      BY <2>1 DEF EntryExpires
    <3> QED BY <1>1, <3>1, TypeParts
  <2>2. CASE \E content \in {"none", "other"} : OthersWrite(i, content)
    <3>1. PICK content \in {"none", "other"} : OthersWrite(i, content)
      BY <2>2
    <3>2. target' = [target EXCEPT ![i] = content] /\ \A p \in Processes : i \notin written[p]
      BY <3>1 DEF OthersWrite
    <3> QED BY <1>1, <3>2, TypeParts
  <2> QED BY <2>1, <2>2
<1>6. TypeOK'
  BY <1>1, <1>2, <1>3, <1>4, <1>5, TypeParts DEF TypeOK
<1>7. LockInv'
  <2>1. keyed \subseteq Items /\ written \in [Processes -> SUBSET Items]
    BY <1>1, TypeParts
  <2> QED BY <1>1, <1>2, <1>3, <1>5, <2>1 DEF LockInv
<1>8. \A q \in Processes : Untouched(q)
  BY <1>2 DEF Untouched
<1>9. \A q \in Processes : ProcessInv(q)'
  BY <1>2, <1>4, <1>8, OthersKept DEF IInv
<1> QED BY <1>1, <1>3, <1>6, <1>7, <1>9 DEF IInv
-----------------------------------------------------------------------------
(* The import                                                              *)

\* The invariant holds at first.
LEMMA InitInv == Init => IInv
<1> SUFFICES ASSUME Init PROVE IInv
  OBVIOUS
<1>1. whole = TRUE
  BY BelievedIsTrue DEF Init
<1>2. 1 \in Items /\ {{}} \subseteq SUBSET (1..Count)
  BY ImportAssumption DEF Items
<1>3. keyed \subseteq Items /\ expiring \subseteq Items
  <2>1. CASE kind = "kv"
    BY <2>1, ImportAssumption DEF Init, Items
  <2>2. CASE kind # "kv"
    BY <2>2 DEF Init
  <2> QED BY <2>1, <2>2
<1>4. /\ "idle" \in Steps /\ "none" \in Answers /\ "none" \in Results
  BY DEF Steps, Answers, Results
<1>5. /\ kind \in Kinds /\ past = {} /\ target \in [Items -> {"none", "other"}]
      /\ pc = [p \in Processes |-> "idle"] /\ replace = [p \in Processes |-> FALSE]
      /\ given = [p \in Processes |-> {}] /\ existing = [p \in Processes |-> {}]
      /\ next = [p \in Processes |-> 1] /\ answer = [p \in Processes |-> "none"]
      /\ result = [p \in Processes |-> "none"] /\ wire = [p \in Processes |-> NoRequest]
      /\ written = [p \in Processes |-> {}] /\ stored = [p \in Processes |-> {}]
      /\ shown = {} /\ overwritten = [p \in Processes |-> {}]
  BY DEF Init
<1>6. TypeOK
  <2>1. target \in [Items -> {"none", "other"} \cup Processes]
    BY <1>5
  <2> QED BY <1>1, <1>2, <1>3, <1>4, <1>5, <2>1, TypeParts
<1>7. LockInv
  BY <1>5 DEF LockInv
<1>8. ASSUME NEW p \in Processes PROVE ProcessInv(p)
  <2>1. CallInv(p) /\ AnswerInv(p)
    BY <1>5 DEF CallInv, AnswerInv
  <2>2. RequestInv(p) /\ ResultInv(p)
    BY <1>5 DEF RequestInv, ResultInv, NoRequest
  <2>3. Allows(p, {})
    BY <1>5 DEF Allows, NoRequest
  <2>4. ReplaceInv(p)
    BY <1>5, <2>3 DEF ReplaceInv
  <2> QED BY <2>1, <2>2, <2>4 DEF ProcessInv
<1> QED BY <1>1, <1>6, <1>7, <1>8 DEF IInv

\* It holds when nothing changes.
LEMMA StutterStep ==
  ASSUME IInv, UNCHANGED vars PROVE IInv'
<1>1. /\ UNCHANGED <<kind, whole, keyed, expiring, past, target, wire, written, stored, overwritten,
                     pc, replace, given, existing, next, answer, result, shown>>
      /\ UNCHANGED scenario
  BY DEF vars, scenario, server, local
<1>2. TypeOK'
  BY <1>1, TypeParts DEF IInv, TypeOK
<1>3. LockInv'
  BY <1>1 DEF IInv, LockInv
<1>4. \A q \in Processes : Untouched(q)
  BY <1>1 DEF Untouched
<1>5. \A q \in Processes : ProcessInv(q)'
  BY <1>1, <1>4, OthersKept DEF IInv
<1>6. whole'
  BY <1>1 DEF IInv
<1> QED BY <1>2, <1>3, <1>5, <1>6 DEF IInv

\* Every step of a process and of the server for it keeps it.
LEMMA ProcessStepInv ==
  ASSUME IInv, NEW p \in Processes,
         Command(p) \/ Kv(p) \/ Doc(p) \/ Sql(p) \/ Server(p) \/ ConnectionFails(p) \/ Interrupted(p)
  PROVE  IInv'
<1>1. CASE Command(p)
  BY <1>1, BeginStep, RejectStep, PreflightStep, PreflightFailsStep, ConfirmStep, ReturnSteps
     DEF Command
<1>2. CASE Kv(p)
  BY <1>2, SendSteps, KvAnsweredStep DEF Kv
<1>3. CASE Doc(p)
  BY <1>3, SendSteps, AnsweredSteps DEF Doc
<1>4. CASE Sql(p)
  BY <1>4, SqlInsertStep, SqlRollbackStep, SendSteps, AnsweredSteps DEF Sql
<1>5. CASE Server(p)
  BY <1>5, ServerRestoresStep, ServerInsertsStep, ServerCommitsStep, LostSteps DEF Server
<1>6. CASE ConnectionFails(p) \/ Interrupted(p)
  BY <1>6, ReturnSteps
<1> QED BY <1>1, <1>2, <1>3, <1>4, <1>5, <1>6

\* Every step keeps it.
LEMMA StepInv == IInv /\ [Next]_vars => IInv'
BY ProcessStepInv, EnvironmentSteps, StutterStep DEF Next

\* The inductive invariant holds in every state of an import.
THEOREM AlwaysInv == Spec => []IInv
BY InitInv, StepInv, PTL DEF Spec

\* Every variable of the import has its type, for any number of processes and items.
THEOREM TypeCorrect == Spec => []TypeOK
<1>1. IInv => TypeOK
  BY DEF IInv
<1> QED BY <1>1, AlwaysInv, PTL

\* run_import with check_destructive_operation_with_scope: a key of somebody else
\* is only replaced where a token for it was shown, whatever happens between the
\* preflight, the confirmation and the write; rows and documents replace nothing.
THEOREM NothingUnseenIsReplaced == Spec => []ReplacementsWereConfirmed
<1>1. IInv => ReplacementsWereConfirmed
  BY DEF IInv, ProcessInv, ReplaceInv, Allows, ReplacementsWereConfirmed
<1> QED BY <1>1, AlwaysInv, PTL

\* import_sql_rows: an import leaves all of its rows or none, also when the
\* answer to its commit is lost or the process dies on the way.
THEOREM AllRowsOrNone == Spec => []RowsAreAtomic
<1>1. IInv => RowsAreAtomic
  BY DEF IInv, ProcessInv, ResultInv, RowsAreAtomic
<1> QED BY <1>1, AlwaysInv, PTL

\* A failure that is reported as definite is: no row or document was imported or
\* still will be, and no further entry.
THEOREM FailuresAreDefinite == Spec => []FailureIsDefinite
<1>1. IInv => FailureIsDefinite
  BY DEF IInv, ProcessInv, ResultInv, FailureIsDefinite
<1> QED BY <1>1, AlwaysInv, PTL

\* A success that is reported is one: every item was put into the target unless
\* it had expired, and the items were all that the source held.
THEOREM SuccessIsComplete == Spec => []OkMeansImported
<1>1. IInv => OkMeansImported
  BY DEF IInv, ProcessInv, ResultInv, OkMeansImported
<1> QED BY <1>1, AlwaysInv, PTL
=============================================================================
