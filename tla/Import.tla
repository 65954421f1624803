------------------------------- MODULE Import -------------------------------
(***************************************************************************)
(* dbtool import: rows into a table, entries into a key-value store, or    *)
(* documents into a collection (dbtool-cli/src/cmd/transfer.rs with the    *)
(* adapters' writes behind it).  Rows go through one transaction; key-value*)
(* entries are restored one by one, each conditionally unless its key was  *)
(* seen by the preflight and its replacement confirmed; documents go       *)
(* through one ordered insert.                                             *)
(*                                                                         *)
(* Several processes import the same artifact while other clients write,   *)
(* entries run into their deadlines, connections break and processes die.  *)
(* A request whose answer nobody waits for any more may still take effect. *)
(***************************************************************************)
EXTENDS Artifact, FiniteSets

CONSTANTS
  Processes,
  Count,     \* the items of the artifact are numbered in its order
  Kinds,     \* the kinds of artifacts, a subset of {"sql", "kv", "doc"}
  Expiring   \* the sets of entries that may have an absolute expiry

\* Are the files with this many items whole that an import accepts?
Believed(k) ==
  LET offered == {offer \in Artifacts \X ImportOptions :
                    /\ offer[1].kind = k /\ Len(offer[1].payload) = Count
                    /\ Accepted(offer[1], offer[2])}
  IN {Whole(offer[1], offer[2]) : offer \in offered}

ASSUME ImportAssumption ==
  /\ Count \in Nat \ {0}
  /\ Kinds \subseteq {"sql", "kv", "doc"}
  /\ Expiring \subseteq SUBSET (1..Count)
  /\ {"none", "other"} \cap Processes = {}

Items == 1..Count

VARIABLES
  kind,       \* what is imported
  whole,      \* history variable: its items are all that the source held
  keyed,      \* the items with an identity that can exist in the target: every
              \* key, rows with a unique value, documents with an _id
  expiring,   \* the key-value entries with an absolute expiry
  past,       \* those whose time has come
  target,     \* who put what stands under an item's identity in the target
  pc,         \* where each process is
  replace,    \* --replace-existing
  given,      \* the keys --confirm was computed for, {} without it
  existing,   \* the keys the preflight found
  next,       \* the item the process is at
  answer,     \* what the server answered to the request it waits for
  result,     \* how the last import ended
  wire,       \* a request that was sent and not served
  written,    \* rows in the server's open transaction
  stored,     \* history variable: the items this import put into the target
  shown,      \* history variable: for which keys tokens were shown
  overwritten \* history variable: keys of others a process has replaced

scenario == <<kind, whole, keyed, expiring>>
server   == <<past, target, wire, written, stored, overwritten>>
local    == <<pc, replace, given, existing, next, answer, result>>
vars == <<scenario, server, local, shown>>

Steps   == {"idle", "probe", "confirm", "write", "await", "rollback"}
Results == {"none", "Ok", "Failed", "OutcomeIndeterminate", "ConfirmRequired"}
Answers == {"none", "Ok", "Error", "Stored", "Expired", "ConditionNotMet"}

\* A restore carries the NX condition; an insert is served up to item.
Requests  == [op : {"restore", "commit", "insert"}, item : Items, nx : BOOLEAN]
NoRequest == [op |-> "none", item |-> 1, nx |-> FALSE]

Init ==
  /\ kind \in Kinds /\ whole \in Believed(kind)
  /\ keyed \in IF kind = "kv" THEN {Items} ELSE SUBSET Items
  /\ expiring \in IF kind = "kv" THEN Expiring ELSE {{}}
  /\ past = {}
  /\ target \in [Items -> {"none", "other"}]
  /\ \A i \in Items \ keyed : target[i] = "none"
  /\ pc = [p \in Processes |-> "idle"]
  /\ replace = [p \in Processes |-> FALSE]
  /\ given = [p \in Processes |-> {}]
  /\ existing = [p \in Processes |-> {}]
  /\ next = [p \in Processes |-> 1]
  /\ answer = [p \in Processes |-> "none"]
  /\ result = [p \in Processes |-> "none"]
  /\ wire = [p \in Processes |-> NoRequest]
  /\ written = [p \in Processes |-> {}]
  /\ stored = [p \in Processes |-> {}]
  /\ shown = {}
  /\ overwritten = [p \in Processes |-> {}]
-----------------------------------------------------------------------------
Goto(p, step) == pc' = [pc EXCEPT ![p] = step]

\* The command returns and forgets everything but its result.
Return(p, r) ==
  /\ Goto(p, "idle")
  /\ result'   = [result EXCEPT ![p] = r]
  /\ replace'  = [replace EXCEPT ![p] = FALSE]
  /\ given'    = [given EXCEPT ![p] = {}]
  /\ existing' = [existing EXCEPT ![p] = {}]
  /\ next'     = [next EXCEPT ![p] = 1]
  /\ answer'   = [answer EXCEPT ![p] = "none"]

Held(i)     == i \in keyed /\ target[i] # "none"
Locked(p, i) == i \in keyed /\ \E q \in Processes \ {p} : i \in written[q]

\* The process puts the items into the target.
Store(p, items) ==
  /\ target' = [i \in Items |-> IF i \in items \cap keyed THEN p ELSE target[i]]
  /\ stored' = [stored EXCEPT ![p] = @ \cup items]
  /\ overwritten' = [overwritten EXCEPT
       ![p] = @ \cup {i \in items \cap keyed : target[i] \notin {"none", p}}]

\* run_import until the target is connected, with a file that is accepted.  Only a key-value import that may
\* replace, and documents with an _id, are preflighted.  A process is a new
\* one, started after the server is done with the requests of its predecessor.
Begin(p, mayReplace, token) ==
  /\ pc[p] = "idle" /\ wire[p] = NoRequest /\ written[p] = {}
  /\ mayReplace => kind = "kv"
  /\ token # {} => token \in shown
  /\ replace' = [replace EXCEPT ![p] = mayReplace]
  /\ given' = [given EXCEPT ![p] = token]
  /\ Goto(p, IF mayReplace \/ (kind = "doc" /\ keyed # {}) THEN "probe" ELSE "write")
  /\ result' = [result EXCEPT ![p] = "none"]
  /\ stored' = [stored EXCEPT ![p] = {}]
  /\ overwritten' = [overwritten EXCEPT ![p] = {}]
  /\ UNCHANGED <<scenario, past, target, wire, written, existing, next, answer, shown>>

\* Any other file is refused before anything is connected.
Reject(p) ==
  /\ pc[p] = "idle" /\ wire[p] = NoRequest /\ written[p] = {}
  /\ result' = [result EXCEPT ![p] = "Failed"]
  /\ stored' = [stored EXCEPT ![p] = {}]
  /\ overwritten' = [overwritten EXCEPT ![p] = {}]
  /\ UNCHANGED <<scenario, past, target, wire, written, pc, replace, given, existing,
                 next, answer, shown>>

\* Faulty variant: the loop runs once too often.
AdvanceTooFar(p, step) ==
  IF next[p] > Count THEN Goto(p, step) /\ next' = [next EXCEPT ![p] = 1]
                     ELSE next' = [next EXCEPT ![p] = @ + 1] /\ UNCHANGED pc

\* The preflight looks at one item after the other.
Advance(p, step) ==
  IF next[p] = Count THEN Goto(p, step) /\ next' = [next EXCEPT ![p] = 1]
                     ELSE next' = [next EXCEPT ![p] = @ + 1] /\ UNCHANGED pc

\* exists() of every key; ensure_document_ids_are_available
Preflight(p) ==
  /\ pc[p] = "probe"
  /\ LET found == Held(next[p])
     IN  \/ /\ kind = "kv"
            /\ existing' = [existing EXCEPT ![p] = @ \cup {i \in {next[p]} : found}]
            /\ Advance(p, "confirm")
            /\ UNCHANGED <<replace, given, answer, result>>
         \/ /\ kind = "doc" /\ ~found
            /\ Advance(p, "write")
            /\ UNCHANGED <<replace, given, existing, answer, result>>
         \/ kind = "doc" /\ found /\ Return(p, "Failed")
  /\ UNCHANGED <<scenario, server, shown>>

PreflightFails(p) ==
  /\ pc[p] = "probe"
  /\ Return(p, "Failed")
  /\ UNCHANGED <<scenario, server, shown>>

\* check_destructive_operation_with_scope over the keys that exist
Confirm(p) ==
  /\ pc[p] = "confirm"
  /\ \/ existing[p] \in {{}, given[p]} /\ Goto(p, "write")
        /\ UNCHANGED <<replace, given, existing, next, answer, result, shown>>
     \/ existing[p] # {} /\ given[p] = {} /\ Return(p, "ConfirmRequired")
        /\ shown' = shown \cup {existing[p]}
     \/ existing[p] # {} /\ given[p] \notin {{}, existing[p]} /\ Return(p, "Failed")
        /\ UNCHANGED shown
  /\ UNCHANGED <<scenario, server>>
-----------------------------------------------------------------------------
(* Requests whose effect can outlive the wait for their answer. *)

Send(p, request) ==
  /\ wire' = [wire EXCEPT ![p] = request]
  /\ Goto(p, "await")
  /\ UNCHANGED <<scenario, past, target, written, stored, overwritten, replace, given,
                 existing, next, answer, result, shown>>

\* The server answers, if anybody still waits.
Answer(p, a) ==
  /\ wire' = [wire EXCEPT ![p] = NoRequest]
  /\ answer' = IF pc[p] = "await" THEN [answer EXCEPT ![p] = a] ELSE answer

\* The adapter refuses what it is about to send: the operation is unsupported,
\* an entry, the documents or a row break its own limits, or begin() fails.
AdapterRefuses(p) ==
  /\ pc[p] = "write" /\ written[p] = {}
  /\ Return(p, "Failed")
  /\ UNCHANGED <<scenario, server, shown>>

\* The connection breaks: the request is not served any further ...
RequestLost(p) ==
  /\ wire[p] # NoRequest
  /\ wire' = [wire EXCEPT ![p] = NoRequest]
  /\ UNCHANGED <<scenario, past, target, written, stored, overwritten, local, shown>>

\* ... or the answer is, and what was submitted is reported as indeterminate.
ConnectionFails(p) ==
  /\ pc[p] = "await"
  /\ Return(p, "OutcomeIndeterminate")
  /\ UNCHANGED <<scenario, server, shown>>
-----------------------------------------------------------------------------
(* Key-value entries *)

\* Faulty variant: the permission to replace covers every key.
KvRestoreAny(p) ==
  /\ pc[p] = "write" /\ kind = "kv"
  /\ Send(p, [op |-> "restore", item |-> next[p], nx |-> ~replace[p]])

KvRestore(p) ==
  /\ pc[p] = "write" /\ kind = "kv"
  /\ Send(p, [op |-> "restore", item |-> next[p], nx |-> next[p] \notin existing[p]])

\* The script: expired entries first, then SET with or without NX
ServerRestores(p) ==
  LET i == wire[p].item
  IN  /\ wire[p].op = "restore"
      /\ \/ i \in past /\ Answer(p, "Expired") /\ UNCHANGED <<target, stored, overwritten>>
         \/ i \notin past /\ wire[p].nx /\ Held(i) /\ Answer(p, "ConditionNotMet")
            /\ UNCHANGED <<target, stored, overwritten>>
         \/ i \notin past /\ ~(wire[p].nx /\ Held(i)) /\ Answer(p, "Stored") /\ Store(p, {i})
      /\ UNCHANGED <<scenario, past, written, pc, replace, given, existing, next, result, shown>>

\* Faulty variant: a key that appeared in the meantime is skipped.
KvAnsweredSkipping(p) ==
  /\ pc[p] = "await" /\ kind = "kv" /\ answer[p] # "none"
  /\ \/ next[p] = Count /\ Return(p, "Ok")
     \/ next[p] < Count /\ Goto(p, "write") /\ next' = [next EXCEPT ![p] = @ + 1]
        /\ answer' = [answer EXCEPT ![p] = "none"]
        /\ UNCHANGED <<replace, given, existing, result>>
  /\ UNCHANGED <<scenario, server, shown>>

\* The outcome of one entry: on to the next one, or stop with the earlier ones
\* in place.
KvAnswered(p) ==
  /\ pc[p] = "await" /\ kind = "kv"
  /\ \/ answer[p] = "ConditionNotMet" /\ Return(p, "Failed")
     \/ answer[p] \in {"Stored", "Expired"} /\ next[p] = Count /\ Return(p, "Ok")
     \/ answer[p] \in {"Stored", "Expired"} /\ next[p] < Count /\ Goto(p, "write")
        /\ next' = [next EXCEPT ![p] = @ + 1]
        /\ answer' = [answer EXCEPT ![p] = "none"]
        /\ UNCHANGED <<replace, given, existing, result>>
  /\ UNCHANGED <<scenario, server, shown>>
-----------------------------------------------------------------------------
(* Documents *)

DocInsert(p) ==
  /\ pc[p] = "write" /\ kind = "doc"
  /\ Send(p, [op |-> "insert", item |-> 1, nx |-> TRUE])

\* insertMany, ordered: it stops at the first duplicate _id
ServerInserts(p) ==
  LET i == wire[p].item
  IN  /\ wire[p].op = "insert"
      /\ \/ Held(i) /\ Answer(p, "Error") /\ UNCHANGED <<target, stored, overwritten>>
         \/ ~Held(i) /\ i = Count /\ Answer(p, "Ok") /\ Store(p, {i})
         \/ ~Held(i) /\ i < Count /\ Store(p, {i})
            /\ wire' = [wire EXCEPT ![p].item = i + 1] /\ UNCHANGED answer
      /\ UNCHANGED <<scenario, past, written, pc, replace, given, existing, next, result, shown>>

\* Faulty variant: an error of the server is taken for a refusal.
DocAnsweredFailed(p) ==
  /\ pc[p] = "await" /\ kind = "doc"
  /\ \/ answer[p] = "Ok" /\ Return(p, "Ok")
     \/ answer[p] = "Error" /\ Return(p, "Failed")
  /\ UNCHANGED <<scenario, server, shown>>

\* decode_insert_result, and every error after the submission
DocAnswered(p) ==
  /\ pc[p] = "await" /\ kind = "doc"
  /\ \/ answer[p] = "Ok" /\ Return(p, "Ok")
     \/ answer[p] = "Error" /\ Return(p, "OutcomeIndeterminate")
  /\ UNCHANGED <<scenario, server, shown>>
-----------------------------------------------------------------------------
(* Rows: one transaction *)

\* Faulty variant: each row is committed on its own.
SqlInsertAutocommit(p) ==
  /\ pc[p] = "write" /\ kind = "sql" /\ next[p] \notin written[p]
  /\ \/ /\ ~Held(next[p]) /\ ~Locked(p, next[p])
        /\ Store(p, {next[p]})
        /\ written' = [written EXCEPT ![p] = @ \cup {next[p]}]
        /\ IF next[p] = Count THEN UNCHANGED next ELSE next' = [next EXCEPT ![p] = @ + 1]
        /\ UNCHANGED pc
     \/ Goto(p, "rollback") /\ UNCHANGED <<target, stored, overwritten, written, next>>
  /\ UNCHANGED <<scenario, past, wire, replace, given, existing, answer, result, shown>>

\* A row is inserted, unless a constraint, a lock or the connection forbids it.
SqlInsert(p) ==
  /\ pc[p] = "write" /\ kind = "sql" /\ next[p] \notin written[p]
  /\ \/ /\ ~Held(next[p]) /\ ~Locked(p, next[p])
        /\ written' = [written EXCEPT ![p] = @ \cup {next[p]}]
        /\ IF next[p] = Count THEN UNCHANGED next ELSE next' = [next EXCEPT ![p] = @ + 1]
        /\ UNCHANGED pc
     \/ Goto(p, "rollback") /\ UNCHANGED <<written, next>>
  /\ UNCHANGED <<scenario, past, target, wire, stored, overwritten, replace, given, existing,
                 answer, result, shown>>

\* rollback() is confirmed, or the connection is gone and the server rolls back
\* when it notices.
SqlRollback(p) ==
  /\ pc[p] = "rollback"
  /\ \/ Return(p, "Failed") /\ written' = [written EXCEPT ![p] = {}]
     \/ Return(p, "OutcomeIndeterminate") /\ UNCHANGED written
  /\ UNCHANGED <<scenario, past, target, wire, stored, overwritten, shown>>

SqlCommit(p) ==
  /\ pc[p] = "write" /\ kind = "sql" /\ written[p] = Items
  /\ Send(p, [op |-> "commit", item |-> 1, nx |-> FALSE])

ServerCommits(p) ==
  /\ wire[p].op = "commit"
  /\ Store(p, written[p])
  /\ written' = [written EXCEPT ![p] = {}]
  /\ Answer(p, "Ok")
  /\ UNCHANGED <<scenario, past, pc, replace, given, existing, next, result, shown>>

SqlAnswered(p) ==
  /\ pc[p] = "await" /\ kind = "sql" /\ answer[p] = "Ok"
  /\ Return(p, "Ok")
  /\ UNCHANGED <<scenario, server, shown>>

\* A transaction whose connection is gone
ServerRollsBack(p) ==
  /\ pc[p] = "idle" /\ wire[p] = NoRequest /\ written[p] # {}
  /\ written' = [written EXCEPT ![p] = {}]
  /\ UNCHANGED <<scenario, past, target, wire, stored, overwritten, local, shown>>
-----------------------------------------------------------------------------
(* The environment *)

\* Other clients create and remove what the import is about.
OthersWrite(i, content) ==
  /\ i \in keyed /\ \A p \in Processes : i \notin written[p]
  /\ target[i] # content
  /\ target' = [target EXCEPT ![i] = content]
  /\ UNCHANGED <<scenario, past, wire, written, stored, overwritten, local, shown>>

\* The absolute expiry of an entry is reached: an imported key vanishes.
EntryExpires(i) ==
  /\ i \in expiring \ past
  /\ past' = past \cup {i}
  /\ target' = IF target[i] \in Processes THEN [target EXCEPT ![i] = "none"] ELSE target
  /\ UNCHANGED <<scenario, wire, written, stored, overwritten, local, shown>>

\* FlowControl's timeout drops the future of a mutation, or the process is killed
\* and nobody learns a result.
Interrupted(p) ==
  /\ pc[p] # "idle"
  /\ Return(p, "OutcomeIndeterminate")
  /\ UNCHANGED <<scenario, server, shown>>

Command(p) == \/ \E mayReplace \in BOOLEAN, token \in {{}} \cup shown : Begin(p, mayReplace, token)
              \/ Reject(p) \/ Preflight(p) \/ PreflightFails(p) \/ Confirm(p) \/ AdapterRefuses(p)
Kv(p)      == KvRestore(p) \/ KvAnswered(p)
Doc(p)     == DocInsert(p) \/ DocAnswered(p)
Sql(p)     == SqlInsert(p) \/ SqlRollback(p) \/ SqlCommit(p) \/ SqlAnswered(p)
Server(p)  == \/ ServerRestores(p) \/ ServerInserts(p) \/ ServerCommits(p) \/ ServerRollsBack(p)
              \/ RequestLost(p)

Next ==
  \/ \E p \in Processes : \/ Command(p) \/ Kv(p) \/ Doc(p) \/ Sql(p) \/ Server(p)
                          \/ ConnectionFails(p) \/ Interrupted(p)
  \/ \E i \in Items : EntryExpires(i) \/ \E content \in {"none", "other"} : OthersWrite(i, content)

Spec == Init /\ [][Next]_vars
-----------------------------------------------------------------------------
(* Properties *)

\* Every variable has its type.
TypeOK ==
  /\ kind \in Kinds /\ keyed \subseteq Items /\ expiring \subseteq Items /\ past \subseteq expiring
  /\ target \in [Items -> {"none", "other"} \cup Processes]
  /\ pc \in [Processes -> Steps] /\ replace \in [Processes -> BOOLEAN]
  /\ {given, existing, written, stored, overwritten} \subseteq [Processes -> SUBSET Items]
  /\ next \in [Processes -> Items] /\ answer \in [Processes -> Answers]
  /\ result \in [Processes -> Results] /\ wire \in [Processes -> Requests \cup {NoRequest}]
  /\ shown \subseteq SUBSET Items /\ whole \in BOOLEAN

\* What stood in the target is only replaced where the user was shown that very
\* key, whatever appeared or vanished between the preflight, the confirmation
\* and the write; rows and documents never replace anything.
ReplacementsWereConfirmed ==
  \A p \in Processes : \E token \in {{}} \cup shown : overwritten[p] \subseteq token

\* Rows are visible all together or not at all, also when the commit's answer is
\* lost or the process dies on the way.
RowsAreAtomic == kind = "sql" => \A p \in Processes : stored[p] \in {{}, Items}

\* A definite failure proves that no row or document was imported or still will
\* be; for key-value entries, that no further one will be.
FailureIsDefinite ==
  \A p \in Processes : result[p] = "Failed" =>
    /\ wire[p] = NoRequest /\ written[p] = {}
    /\ kind # "kv" => stored[p] = {}

\* Success means that every item was put into the target, except entries that
\* had expired; an entry whose key was in the way is never passed over.  The items
\* were all that the source held, whatever has become of the file meanwhile.
OkMeansImported ==
  \A p \in Processes : result[p] = "Ok" => Items \ past \subseteq stored[p] /\ whole
=============================================================================
