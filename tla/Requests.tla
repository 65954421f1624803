------------------------------- MODULE Requests ------------------------------
(***************************************************************************)
(* What a data command of the CLI checks, in which order, and what it asks *)
(* the backend for: the run functions of cmd/*.rs.  A request is           *)
(*                                                                         *)
(*   [cmd, arg, content, params]                                           *)
(*                                                                         *)
(* the command, the name of its argument in the tables below, which of     *)
(* several texts of that shape it is, and the values --params gives to an  *)
(* SQL statement; only a token looks at the last two, if at all.           *)
(* Budgets and lengths have their own module (Limiters); here an input is  *)
(* within them or not.                                                     *)
(***************************************************************************)
EXTENDS Statements, RawCommands, Capabilities, ConsumePolicies

CONSTANTS
  Limit,       \* --limit
  Texts,       \* SQL and CQL texts, by name
  RawArgs,     \* kv raw commands, by name
  Pipelines,   \* aggregation pipelines, by name
  Consumes     \* mq consume options, by name

ASSUME RequestsAssumption ==
  /\ Limit \in Nat
  /\ \A name \in DOMAIN Texts : WellFormed(Texts[name])
  /\ \A name \in DOMAIN RawArgs : RawTyped(RawArgs[name])
  /\ \A name \in DOMAIN Consumes :
       LET o == Consumes[name] IN {o.group, o.consumer, o.durable, o.channel} \subseteq BOOLEAN

SqlReads    == {"sql tables", "sql schema", "sql schemas"}
CqlReads    == {"cql keyspaces", "cql tables", "cql schema"}
Db2Reads    == {"db2 sequences", "db2 routines", "db2 tablespaces", "db2 foreign-keys", "db2 ddl",
                "db2 schemas", "db2 tables", "db2 schema"}
DocReads    == {"doc collections", "doc find"}
OneOrMany   == {"doc update", "doc update-many", "doc delete", "doc delete-many"}
SearchReads == {"search indices", "search search", "search get"}
SearchWrites == {"search index", "search put", "search update", "search delete"}
SqlCommands == {"sql query", "sql exec"} \cup SqlReads
CqlCommands == {"cql query", "cql exec"} \cup CqlReads
KvCommands  == {"kv get", "kv scan", "kv set", "kv del", "kv raw"}
DocCommands == DocReads \cup OneOrMany \cup {"doc insert", "doc drop", "doc aggregate"}
SearchCommands == SearchReads \cup SearchWrites \cup {"search delete-index"}
SeriesCommands == {"ts measurements", "ts query", "ts write"}
Exports     == {"export sql", "export kv", "export doc"}
Imports     == {"import sql", "import kv", "import doc"}
PlainReads  == SqlReads \cup CqlReads \cup Db2Reads \cup DocReads \cup SearchReads \cup
               {"kv get", "kv scan", "ts measurements", "ts query", "mq topics", "mq detail",
                "mq lag", "export kv", "export doc"}
MqCommands  == {"mq produce", "mq consume", "mq topics", "mq detail", "mq lag", "mq delete"}
Commands    == SqlCommands \cup CqlCommands \cup Db2Reads \cup KvCommands \cup DocCommands \cup
               SearchCommands \cup SeriesCommands \cup MqCommands \cup Exports \cup Imports \cup
               {"ping", "caps"}
TextCommands == {"sql query", "sql exec", "cql query", "cql exec", "export sql"}
-----------------------------------------------------------------------------
(* Aggregation pipelines: a sequence of stages, each the set of the writing *)
(* operators it has with their specification.                               *)

\* pipeline_has_write_stage
HasWriteStage(p) == \E i \in DOMAIN p : p[i] # {}

\* parse_output_namespace: a collection, or an object with db and coll only
ValidNamespace(t) == t \in {"name", "db and coll"}

\* validate_out_timeseries: a specification is there or not
ValidTimeSeries(options) ==
  \A o \in options :
    /\ o.timeField = "text" /\ o.metaField \in {"none", "text"} /\ ~o.unknownField
    /\ o.granularity \in {"none", "known"}
    /\ o.maxSpan = o.rounding /\ o.maxSpan # "invalid"
    /\ o.granularity = "none" \/ o.maxSpan = "none"

ValidOut(w) == ValidNamespace(w.target) /\ ValidTimeSeries(w.timeseries)

\* parse_merge_write_plan with its options; a plain string has none of them
ValidMerge(w) ==
  /\ ValidNamespace(w.target) /\ ~w.unknownField
  /\ w.on \in {"none", "field", "fields"} /\ w.let \in {"none", "object"}
  /\ w.whenMatched \in {"none", "replace", "keepExisting", "merge", "fail", "updates"}
  /\ w.whenNotMatched \in {"none", "insert", "discard", "fail"}

\* analyze_aggregate_write: the whole pipeline has one writing operator at most,
\* and its target is known before the pipeline runs.
Writes(p) == UNION {{<<i, w>> : w \in p[i]} : i \in DOMAIN p}
ValidPipeline(p) ==
  \A x, y \in Writes(p) :
    x = y /\ IF x[2].op = "$out" THEN ValidOut(x[2]) ELSE ValidMerge(x[2])
-----------------------------------------------------------------------------
(* mq consume                                                               *)

\* build_consume_request_with_budgets
ValidConsume(o) ==
  /\ o.max > 0 /\ o.timeout > 0 /\ o.bytes = "within"
  /\ \A n \in o.partition \cup o.offset : n >= 0
  /\ ValidCursor(o.cursor) /\ (o.cursor.of # "none" => ~Positioned(o))
  /\ ~(o.group /\ o.durable)
  /\ o.consumer => o.group
  /\ Stateful(o) => o.ack # "unset"
  /\ ValidOptions(o)

\* validate_consume_backend_policy
ConsumePolicy(o, kind) == kind = "amqp" => ~Stateful(o) /\ Acks(o)

ConsumeRequiresWrite(o) == Stateful(o) \/ Acks(o)
-----------------------------------------------------------------------------
(* What a request needs.                                                    *)

Aggregates(r) == r.cmd = "doc aggregate" /\ HasWriteStage(Pipelines[r.arg])
RawMutates(r) == r.cmd = "kv raw" /\ IsRawMutation(RawArgs[r.arg].name)
Class(r)      == Classify(Texts[r.arg])

\* The checks of the arguments alone, before a connection is looked up: budgets,
\* preflights and everything parsed.
KvInput(r)  == r.cmd = "kv raw" => ClassifyRawCommand(RawArgs[r.arg], Limit)
DocInput(r) == r.arg # "empty filter"
MqInput(r)  == r.cmd = "mq consume" => ValidConsume(Consumes[r.arg])
ExportInput(r) == r.cmd = "export sql" => Class(r) = "read"

InputIsValid(r) ==
  /\ Limit > 0 /\ r.arg \notin {"oversized", "malformed"}
  /\ KvInput(r) /\ DocInput(r) /\ MqInput(r) /\ ExportInput(r)

\* check_many_confirmation: one document needs no token and takes none.
DocPolicy(r, confirm) == r.cmd \in {"doc update", "doc delete"} => ~confirm

\* The checks between the resolution and the connection that are neither the
\* write permission nor the confirmation.
PolicyAllows(r, kind, confirm) ==
  /\ r.cmd \in {"sql query", "cql query"} => Class(r) = "read"
  /\ r.cmd = "doc aggregate" => ValidPipeline(Pipelines[r.arg])
  /\ DocPolicy(r, confirm)
  /\ r.cmd = "mq consume" => ConsumePolicy(Consumes[r.arg], kind)

\* The commands that write whatever their arguments are.
MutatingCommands ==
  SearchWrites \cup Imports \cup OneOrMany \cup
    {"cql exec", "kv set", "kv del", "doc insert", "doc drop", "ts write",
     "search delete-index", "mq produce", "mq delete"}

\* Which requests ask ensure_write_allowed.
NeedsWrite(r) ==
  \/ r.cmd \in MutatingCommands
  \/ r.cmd = "sql exec" /\ Class(r) # "read"
  \/ RawMutates(r) \/ Aggregates(r)
  \/ r.cmd = "mq consume" /\ ConsumeRequiresWrite(Consumes[r.arg])

\* Which requests SafetyGuard wants a token for.  An import looks into the
\* database first and has its own confirmation (module Import).
Destructive(r) ==
  \/ r.cmd \in {"doc update-many", "doc delete-many", "doc drop", "search delete-index", "mq delete"}
  \/ r.cmd \in {"sql exec", "cql exec"} /\ Class(r) = "destructive"
  \/ RawMutates(r)
  \/ Aggregates(r)

\* SafetyGuard::check_with_target wants --allow-write for what is only a write.
GuardWantsWrite(r) == r.cmd \in {"sql exec", "cql exec"} /\ Class(r) # "read"

\* main.rs mutation_timeout_subject: which runner of FlowControl a command gets.
\* Faulty variant: a consumer without a name of its own changes nothing.
SubjectUnlessAcked(r) ==
  \/ r.cmd \in MutatingCommands \/ RawMutates(r) \/ Aggregates(r)
  \/ r.cmd = "sql exec" /\ Class(r) # "read"
  \/ r.cmd = "mq consume" /\ Stateful(Consumes[r.arg])

MutationTimeoutSubject(r) ==
  \/ r.cmd \in MutatingCommands \/ RawMutates(r) \/ Aggregates(r)
  \/ r.cmd = "sql exec" /\ Class(r) # "read"
  \/ r.cmd = "mq consume" /\ (Stateful(Consumes[r.arg]) \/ Acks(Consumes[r.arg]))
-----------------------------------------------------------------------------
(* The order of the checks of each family of commands.  w is the check of   *)
(* the write permission and c that of the confirmation, or nothing where    *)
(* they do not look at anything for a request.                              *)

Usual(w, c) == <<"input", "resolve", "policy">> \o w \o c
SqlChecks(cmd, w, c) == IF cmd = "sql exec" THEN <<"input", "resolve">> \o c \o w ELSE Usual(w, c)
CqlChecks(cmd, w, c) == IF cmd = "cql exec" THEN <<"input", "resolve">> \o w \o c ELSE Usual(w, c)
Db2Checks            == <<"input", "resolve">>
KvChecks(w, c)       == <<"input">> \o w \o <<"resolve">> \o c
DocChecks(cmd, w, c) ==
  IF cmd \in OneOrMany THEN <<"input", "resolve">> \o w \o <<"policy">> \o c ELSE Usual(w, c)
SearchChecks(w, c)   == <<"input", "resolve">> \o w \o c
SeriesChecks(w)      == w \o <<"input", "resolve">>
MqChecks(cmd, w, c)  == IF cmd = "mq produce" THEN w \o <<"input", "resolve">> ELSE Usual(w, c)
ExportChecks         == <<"input", "resolve">>
ImportChecks(w)      == w \o <<"input", "resolve">>

Checks(cmd, w, c) ==
  CASE cmd \in SqlCommands -> SqlChecks(cmd, w, c)
    [] cmd \in CqlCommands -> CqlChecks(cmd, w, c)
    [] cmd \in Db2Reads -> Db2Checks
    [] cmd \in KvCommands -> KvChecks(w, c)
    [] cmd \in DocCommands -> DocChecks(cmd, w, c)
    [] cmd \in SearchCommands -> SearchChecks(w, c)
    [] cmd \in SeriesCommands -> SeriesChecks(w)
    [] cmd \in Exports -> ExportChecks
    [] cmd \in Imports -> ImportChecks(w)
    [] cmd \in {"ping", "caps"} -> <<"input", "resolve">>
    [] OTHER -> MqChecks(cmd, w, c)

\* The steps that look at something for this request.
Steps(r) ==
  Checks(r.cmd, IF NeedsWrite(r) THEN <<"write">> ELSE <<>>,
         IF Destructive(r) \/ GuardWantsWrite(r) THEN <<"confirm">> ELSE <<>>)

\* The operations a command asks the connector for, which are also the methods
\* it calls.
SqlOperation(cmd) ==
  CASE cmd = "sql query" -> "sql.query_budgeted"
    [] cmd = "sql exec" -> "sql.execute_budgeted"
    [] cmd = "sql tables" -> "sql.list_tables_budgeted"
    [] cmd = "sql schemas" -> "sql.list_schemas_budgeted"
    [] cmd = "sql schema" -> "sql.describe_table_bounded"

CqlOperation(cmd) ==
  CASE cmd = "cql query" -> "cql.query_budgeted"
    [] cmd = "cql exec" -> "cql.execute_budgeted"
    [] cmd = "cql keyspaces" -> "cql.list_keyspaces_budgeted"
    [] cmd = "cql tables" -> "cql.list_tables_budgeted"
    [] cmd = "cql schema" -> "cql.describe_table_bounded"

Db2Operation(cmd) ==
  CASE cmd = "db2 schemas" -> "sql.list_schemas_budgeted"
    [] cmd = "db2 tables" -> "sql.list_tables_budgeted"
    [] cmd = "db2 schema" -> "sql.describe_table_bounded"
    [] cmd = "db2 sequences" -> "db2.list_sequences_budgeted"
    [] cmd = "db2 routines" -> "db2.list_routines_budgeted"
    [] cmd = "db2 tablespaces" -> "db2.list_tablespaces_budgeted"
    [] cmd = "db2 foreign-keys" -> "db2.list_foreign_keys_budgeted"
    [] cmd = "db2 ddl" -> "db2.generate_ddl_bounded"

KvOperation(r) ==
  CASE r.cmd = "kv get" -> "kv.get_bounded"
    [] r.cmd = "kv set" -> "kv.set_budgeted"
    [] r.cmd = "kv scan" -> "kv.scan_bounded"
    [] r.cmd = "kv del" -> "kv.delete_budgeted"
    [] r.cmd = "kv raw" /\ RawMutates(r) -> "kv.raw_command_io_budgeted"
    [] r.cmd = "kv raw" /\ ~RawMutates(r) -> "kv.raw_command_bounded"

DocumentOperation(r) ==
  CASE r.cmd = "doc collections" -> "document.list_collections_budgeted"
    [] r.cmd = "doc find" -> "document.find_budgeted"
    [] r.cmd = "doc insert" -> "document.insert_budgeted"
    [] r.cmd = "doc update" -> "document.update_one_budgeted"
    [] r.cmd = "doc update-many" -> "document.update_many_budgeted"
    [] r.cmd = "doc delete" -> "document.delete_one_budgeted"
    [] r.cmd = "doc delete-many" -> "document.delete_many_budgeted"
    [] r.cmd = "doc drop" -> "document.drop_collection_budgeted"
    [] r.cmd = "doc aggregate" /\ Aggregates(r) -> "document.aggregate_write_budgeted"
    [] r.cmd = "doc aggregate" /\ ~Aggregates(r) -> "document.aggregate_budgeted"

SeriesOperation(cmd) ==
  CASE cmd = "ts measurements" -> "time_series.list_measurements_budgeted"
    [] cmd = "ts query" -> "time_series.query_range_bounded"
    [] cmd = "ts write" -> "time_series.write_points_budgeted"

SearchOperation(cmd) ==
  CASE cmd = "search indices" -> "search.list_indices_budgeted"
    [] cmd = "search search" -> "search.search_budgeted"
    [] cmd = "search get" -> "search.get_doc_budgeted"
    [] cmd = "search index" -> "search.index_doc_budgeted"
    [] cmd = "search put" -> "search.put_doc_budgeted"
    [] cmd = "search update" -> "search.update_doc_budgeted"
    [] cmd = "search delete" -> "search.delete_doc_budgeted"
    [] cmd = "search delete-index" -> "search.delete_index_budgeted"

MessageOperation(cmd) ==
  CASE cmd = "mq produce" -> "message.produce_budgeted"
    [] cmd = "mq topics" -> "message.admin.list_topics_budgeted"
    [] cmd = "mq detail" -> "message.admin.topic_detail_bounded"
    [] cmd = "mq lag" -> "message.admin.consumer_lag_bounded"
    [] cmd = "mq delete" -> "message.admin.delete"

\* require_consume_operations
ConsumeOperations(o) ==
  {"message.consume"} \cup (IF o.group THEN {"message.consume_group"} ELSE {})
    \cup (IF o.durable THEN {"message.consume_durable"} ELSE {})
    \cup (IF Acks(o) THEN {"message.consume_ack"} ELSE {})

\* A call reaches the adapter's own code, not a default that refuses; an identity
\* or acknowledgement it advertises is one it honours for some request.
PlainConsumes ==
  [max : {1}, timeout : {1}, bytes : {"within"}, partition : {{}}, offset : {{}},
   cursor : {NoCursor}, group : BOOLEAN, consumer : BOOLEAN, durable : BOOLEAN, name : {"plain"},
   ack : {"none", "on-success"}, channel : BOOLEAN]
Serves(kind, method) ==
  \/ method \in Implements(kind)
  \/ method \in ConsumerExtensions /\ \E o \in PlainConsumes :
       /\ method \in ConsumeOperations(o)
       /\ LET path == ConsumePath(o, kind) IN path # "refused" /\ Honours(path, o)

ExportOperations(cmd) ==
  CASE cmd = "export sql" -> {"sql.query_budgeted"}
    [] cmd = "export kv" -> {"kv.scan_bounded", "kv.get_with_expiry_bounded"}
    [] cmd = "export doc" -> {"document.find_budgeted"}

ImportOperations(cmd) ==
  CASE cmd = "import sql" -> {"sql.insert_rows_atomic_budgeted"}
    [] cmd = "import kv" -> {"kv.restore_with_expiry_budgeted", "kv.exists"}
    [] cmd = "import doc" -> {"document.insert_budgeted", "document.find_budgeted"}

OperationsFor(r) ==
  CASE r.cmd \in SqlCommands -> {SqlOperation(r.cmd)}
    [] r.cmd \in CqlCommands -> {CqlOperation(r.cmd)}
    [] r.cmd \in Db2Reads -> {Db2Operation(r.cmd)}
    [] r.cmd \in KvCommands -> {KvOperation(r)}
    [] r.cmd \in DocCommands -> {DocumentOperation(r)}
    [] r.cmd \in SearchCommands -> {SearchOperation(r.cmd)}
    [] r.cmd \in SeriesCommands -> {SeriesOperation(r.cmd)}
    [] r.cmd \in Exports -> ExportOperations(r.cmd)
    [] r.cmd \in Imports -> ImportOperations(r.cmd)
    [] r.cmd = "mq consume" -> ConsumeOperations(Consumes[r.arg])
    [] r.cmd \in {"ping", "caps"} -> {}
    [] OTHER -> {MessageOperation(r.cmd)}
-----------------------------------------------------------------------------
(* What a request does when it reaches the backend, from what each command  *)
(* and each backend is for, and not from the checks above.                  *)

\* Whether the classification of its text may have missed that a request changes data
OverlookedText(r) == r.cmd \in TextCommands /\ Overlooked(Texts[r.arg])

\* A consumer changes something if the adapter reads in a way that moves a place
\* at the broker or takes messages away from others.
Changes(r, kind) ==
  CASE r.cmd \in TextCommands -> TextChanges(Texts[r.arg])
    [] r.cmd = "kv raw" -> RawArgs[r.arg].name \in WriteCommands
    [] r.cmd = "doc aggregate" -> \E i \in DOMAIN Pipelines[r.arg] : Pipelines[r.arg][i] # {}
    [] r.cmd = "mq consume" -> ConsumePath(Consumes[r.arg], kind) \in MovingPaths
    [] OTHER -> r.cmd \notin PlainReads \cup {"ping", "caps"}

\* What cannot be taken back by looking at what is left: the statements SafetyGuard
\* calls destructive, whole indices and collections, every document a filter matches, the target of an $out, a
\* broker's resource, and any key a raw command names.
Destroys(r) ==
  CASE r.cmd \in {"sql exec", "cql exec"} -> Class(r) = "destructive"
    [] r.cmd = "kv raw" -> RawArgs[r.arg].name \in WriteCommands
    [] r.cmd = "doc aggregate" -> \E i \in DOMAIN Pipelines[r.arg] : Pipelines[r.arg][i] # {}
    [] OTHER -> r.cmd \in {"doc update-many", "doc delete-many", "doc drop",
                           "search delete-index", "mq delete"}
=============================================================================
