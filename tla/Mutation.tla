------------------------------ MODULE Mutation ------------------------------
(***************************************************************************)
(* One mutation of a remote store or broker, from its preflight to what its*)
(* caller is told: every budgeted write of the Redis, MongoDB, search,     *)
(* Prometheus, SQL, Cassandra and Db2 adapters and the publication of      *)
(* messages on Redis, AMQP, NATS and both Kafka backends.                  *)
(*                                                                         *)
(* All of them check the complete input first, may set something up, send  *)
(* one or several requests and read the answers.  They differ in what they *)
(* send, in what they await and in how they read an answer; those are the  *)
(* definitions below, one section for each adapter.  Requests can be       *)
(* refused, served in part or lost, answers can be lost or unreadable, and *)
(* FlowControl may drop the future of the call at any time.                *)
(*                                                                         *)
(* An item of the input (a key, a document, a parameter, a point, a        *)
(* message) has a size, is `valid` for its protocol or not, and has a mark:*)
(* the partition of a Kafka message, 1 for an $out or $merge stage.  A     *)
(* request is the sequence of the items it carries, by position; position 0*)
(* is the queue or topic that is created for the messages.                 *)
(***************************************************************************)
EXTENDS FiniteSets, Functions, Limiters

CONSTANTS
  ItemKinds,   \* the items inputs are made of
  MaxInput,    \* how long the inputs are, a bound
  InputBudget, \* InputBudget or ProduceBudget of the caller
  MaxRepeats   \* how often a Kafka client repeats a request on its own, a bound

Inputs == UNION {[1..n -> ItemKinds] : n \in 0..MaxInput}

ASSUME MutationAssumption ==
  /\ \A item \in ItemKinds : /\ item.bytes \in Nat /\ item.valid \in BOOLEAN
                             /\ item.mark \in {0, 1}
  /\ MaxInput \in Nat \ {0} /\ MaxRepeats \in Nat
  /\ ValidInputBudget(InputBudget)

VARIABLES
  op,             \* the operation
  input,          \* its input
  exists,         \* Kafka and AMQP: whether the topic or queue is there
  stage,          \* how far the call is
  queue,          \* the requests it has not sent yet
  wire,           \* the requests the server has not served yet
  repeats,        \* how often a Kafka client has repeated a request
  effects,        \* the parts that took effect, in this order
  answer,         \* the answer that has arrived, and what it counts
  produced,       \* what the call has counted so far
  possible_write, \* rskafka's record of whether something may have been written
  outcome         \* what the caller was told

mutationVars == <<op, input, exists, stage, queue, wire, repeats, effects, answer, produced,
                  possible_write, outcome>>
remote       == <<exists, repeats, effects>>
request      == <<op, input>>

Nothing  == [kind |-> "none", count |-> 0]
Definite == [kind |-> "Definite", count |-> 0]
Unknown  == [kind |-> "OutcomeIndeterminate", count |-> 0]
Ok(n)    == [kind |-> "Ok", count |-> n]

MutationInit ==
  /\ op = "none" /\ input = <<>> /\ exists = FALSE
  /\ stage = "idle" /\ queue = <<>> /\ wire = <<>> /\ repeats = 0 /\ effects = <<>>
  /\ answer = Nothing /\ produced = 0 /\ possible_write = FALSE /\ outcome = Nothing
-----------------------------------------------------------------------------
(* The life of a call *)

Fine(items)    == \A i \in DOMAIN items : items[i].valid
Whole(items)   == [i \in DOMAIN items |-> i]
Singles(items) == [i \in DOMAIN items |-> <<i>>]
One            == <<1>>
Create         == <<0>>

\* A call starts.  Unless its input is admitted it is over before anything is sent.
Call(name, items, admitted, first, requests) ==
  /\ stage = "idle"
  /\ op' = name /\ input' = items
  /\ exists' \in BOOLEAN
  /\ IF admitted THEN stage' = first /\ queue' = requests /\ outcome' = outcome
                 ELSE stage' = "over" /\ queue' = <<>> /\ outcome' = Definite
  /\ UNCHANGED <<wire, repeats, effects, answer, produced, possible_write>>

\* The embedded method without a budget: an empty batch is no work and no error.
CallEmpty(name) ==
  /\ stage = "idle"
  /\ op' = name /\ stage' = "over" /\ outcome' = Ok(0)
  /\ UNCHANGED <<input, exists, queue, wire, repeats, effects, answer, produced, possible_write>>

Finish(result) ==
  /\ stage' = "over" /\ outcome' = result
  /\ queue' = <<>> /\ answer' = Nothing
  /\ UNCHANGED <<request, remote, wire, produced, possible_write>>

\* The next request leaves; the call waits for its answer.
Send ==
  /\ stage = "send" /\ queue # <<>>
  /\ wire' = Append(wire, Head(queue)) /\ queue' = Tail(queue)
  /\ stage' = "await" /\ possible_write' = TRUE
  /\ UNCHANGED <<request, remote, answer, produced, outcome>>

\* An answer counts n; the call goes on with its next request, or is over.
GoOn(n, next) ==
  /\ produced' = produced + n /\ answer' = Nothing
  /\ IF queue = <<>> THEN stage' = "over" /\ outcome' = Ok(produced + n)
                     ELSE stage' = next /\ outcome' = outcome
  /\ UNCHANGED <<request, remote, queue, wire, possible_write>>

Answered(ops) == stage = "await" /\ answer.kind # "none" /\ op \in ops

\* After a request has left, every error leaves open what it has done.
OrUnknown(understood, then) ==
  IF answer.kind \in understood THEN then ELSE Finish(Unknown)
-----------------------------------------------------------------------------
(* The server and the network *)

\* Operations that find nothing to change, or only some of it, without an error.
Finders == {"redis_delete", "mongo_update", "mongo_delete", "sql_execute", "sqlserver_execute"}
\* Operations whose request may be carried out in part before an error.
Partial == {"mongo_insert", "mongo_update", "mongo_delete", "mongo_aggregate", "prometheus_write",
            "sql_execute", "sqlserver_execute", "db2_execute", "cassandra_execute"}
\* Operations whose condition may not hold; the answer says so.
Conditional == {"redis_set_nx", "redis_restore"}
\* The Kafka clients repeat a request whose answer is late; idempotence is off.
Repeating   == {"rdkafka_produce", "rskafka_produce"}

Items(parts) == {i \in DOMAIN parts : parts[i] # 0}

\* Some of the given parts, in the order of the input.
Ascending(parts) ==
  UNION {{s \in [1..n -> parts] : \A i, j \in 1..n : i < j => s[i] < s[j]} : n \in 0..MaxInput}

\* The answer reaches the call if that still waits for it; it counts the items.
Reply(kind, parts) ==
  /\ effects' = effects \o parts
  /\ exists' = (exists \/ 0 \in Range(parts))
  /\ answer' = IF stage = "await" /\ answer = Nothing /\ op # "nats_produce"
               THEN [kind |-> kind, count |-> Cardinality(Items(parts))] ELSE answer
  /\ UNCHANGED <<request, stage, queue, produced, possible_write, outcome, repeats>>

\* The whole request; an answer may be unreadable or larger than its budget.
\* A queue that exists is declared again without effect.
Serve ==
  /\ wire # <<>> /\ wire' = Tail(wire)
  /\ Head(wire) = Create => ~exists
  /\ \E kind \in {"ok", "unreadable"} : Reply(kind, Head(wire))

ServeExisting ==
  /\ wire # <<>> /\ wire' = Tail(wire)
  /\ Head(wire) = Create /\ exists
  /\ Reply(IF op = "amqp_produce" THEN "ok" ELSE "exists", <<>>)

ServeSome ==
  /\ wire # <<>> /\ wire' = Tail(wire) /\ op \in Finders
  /\ \E found \in Ascending(Range(Head(wire))) : Reply("ok", found)

ServeNil ==
  /\ wire # <<>> /\ wire' = Tail(wire) /\ op \in Conditional
  /\ Reply("nil", <<>>)

\* An error; whatever came before it in the request stays done.
Refuse ==
  /\ wire # <<>> /\ wire' = Tail(wire)
  /\ \E n \in 0..(IF op \in Partial THEN Len(Head(wire)) ELSE 0) :
       Reply("error", SubSeq(Head(wire), 1, n))

\* The request is served, its answer is late, and the client has sent it again.
Repeat ==
  /\ wire # <<>> /\ op \in Repeating /\ Head(wire) # Create /\ repeats < MaxRepeats
  /\ repeats' = repeats + 1
  /\ effects' = effects \o Head(wire)
  /\ UNCHANGED <<request, exists, stage, queue, wire, answer, produced, possible_write, outcome>>

\* The request is lost, or only the connection its answer would have come on.
Break ==
  /\ stage = "await" /\ answer = Nothing
  /\ answer' = [kind |-> "broken", count |-> 0]
  /\ UNCHANGED <<request, remote, stage, queue, wire, produced, possible_write, outcome>>

Lose ==
  /\ wire # <<>> /\ (stage = "over" \/ answer.kind = "broken" \/ op = "nats_produce")
  /\ wire' = Tail(wire)
  /\ UNCHANGED <<request, remote, stage, queue, answer, produced, possible_write, outcome>>

\* Another client creates the queue or topic.
OthersCreate ==
  /\ ~exists /\ stage \notin {"idle", "over"} /\ op \in Repeating \cup {"amqp_produce"}
  /\ exists' = TRUE
  /\ UNCHANGED <<request, stage, queue, wire, repeats, effects, answer, produced,
                 possible_write, outcome>>
-----------------------------------------------------------------------------
(* Redis key-value commands: one request each, on the shared connection *)

\* What is checked before anything is sent: a request that is its own only item, or
\* a batch of items within one request; a batch that is split must not be empty.
Scalar(items) == Len(items) = 1 /\ Fine(items) /\ RequestFits(InputBudget, items)
Batch(items)  == Fine(items) /\ BatchFits(InputBudget, items)

ValidRedisSet(items)     == Scalar(items)
ValidRedisRestore(items) == Scalar(items)
ValidRedisDelete(items)  == Batch(items)
ValidRedisRaw(items)     == Batch(items)

RedisSet(items, nx) ==
  Call(IF nx THEN "redis_set_nx" ELSE "redis_set", items, ValidRedisSet(items), "send", <<One>>)

\* nil is the one error that proves that nothing was written.
RedisSetReturns ==
  /\ Answered({"redis_set", "redis_set_nx"})
  /\ IF answer.kind = "nil" THEN Finish(Definite) ELSE OrUnknown({"ok"}, GoOn(1, "send"))

RedisRestore(items) == Call("redis_restore", items, ValidRedisRestore(items), "send", <<One>>)

\* Status 1, 0 or 2 (stored, condition not met, expired) is an outcome.
RedisRestoreReturns ==
  Answered({"redis_restore"}) /\ OrUnknown({"ok", "nil"}, GoOn(answer.count, "send"))

RedisDelete(items) ==
  Call("redis_delete", items, ValidRedisDelete(items), "send", <<Whole(items)>>)

RedisDeleteReturns ==
  Answered({"redis_delete"}) /\ OrUnknown({"ok"}, GoOn(answer.count, "send"))

\* The command was carried out when its answer turns out to be too large.
RedisRaw(items) == Call("redis_raw", items, ValidRedisRaw(items), "send", <<One>>)

RedisRawReturns == Answered({"redis_raw"}) /\ OrUnknown({"ok"}, GoOn(1, "send"))
-----------------------------------------------------------------------------
(* MongoDB *)

PrepareMongoInsert(items) == Batch(items)
\* An empty filter is refused.
PrepareMongoUpdate(items) == Scalar(items)
PrepareMongoDelete(items) == Scalar(items)
PrepareMongoDrop(items)   == Scalar(items)

\* Exactly one stage writes, and it is the last one.
OneWriter(items) == /\ items # <<>> /\ items[Len(items)].mark = 1
                    /\ \A i \in DOMAIN items : items[i].mark = 1 => i = Len(items)
PrepareMongoAggregateWrite(items) == Batch(items) /\ OneWriter(items)

\* An _id is generated where there is none; the server stops at the first error.
MongoInsert(items) ==
  Call("mongo_insert", items, PrepareMongoInsert(items), "send", <<Whole(items)>>)

\* Faulty variant: the number of inserted ids is not compared.
MongoInsertReturnsAny ==
  Answered({"mongo_insert"}) /\ OrUnknown({"ok", "error"}, GoOn(answer.count, "send"))

MongoInsertReturns ==
  /\ Answered({"mongo_insert"})
  /\ OrUnknown({"ok"}, IF answer.count = Len(input) THEN GoOn(answer.count, "send")
                                                    ELSE Finish(Unknown))

\* update_one and update_many
MongoUpdate(items) == Call("mongo_update", items, PrepareMongoUpdate(items), "send", <<One>>)

MongoUpdateReturns ==
  Answered({"mongo_update"}) /\ OrUnknown({"ok"}, GoOn(answer.count, "send"))

MongoDelete(items) == Call("mongo_delete", items, PrepareMongoDelete(items), "send", <<One>>)

MongoDeleteReturns ==
  Answered({"mongo_delete"}) /\ OrUnknown({"ok"}, GoOn(answer.count, "send"))

MongoAggregateWrite(items) ==
  Call("mongo_aggregate", items, PrepareMongoAggregateWrite(items), "send", <<One>>)

\* The cursor is read to its end; an error there comes after the write.
MongoAggregateReturns ==
  Answered({"mongo_aggregate"}) /\ OrUnknown({"ok"}, GoOn(answer.count, "send"))

MongoDrop(items) == Call("mongo_drop", items, PrepareMongoDrop(items), "send", <<One>>)

MongoDropReturns == Answered({"mongo_drop"}) /\ OrUnknown({"ok"}, GoOn(1, "send"))
-----------------------------------------------------------------------------
(* Search and Prometheus: HTTP requests on connections of their own *)

\* TCP, the TLS configuration and the handshake come before the request.
Connect ==
  /\ stage = "connect"
  /\ \/ /\ stage' = "send"
        /\ UNCHANGED <<request, remote, queue, wire, answer, produced, possible_write, outcome>>
     \/ Finish(Definite)

\* Names of indices and documents without wildcards, a body that is an object.
PrepareDocument(items) == Scalar(items)
PrepareDelete(items)   == Scalar(items)

Http(name, items, admitted) == Call(name, items, admitted, "connect", <<One>>)

SearchIndex(items)       == Http("search_index", items, PrepareDocument(items))
SearchPut(items)         == Http("search_put", items, PrepareDocument(items))
SearchUpdate(items)      == Http("search_update", items, PrepareDocument(items))
SearchDelete(items)      == Http("search_delete", items, PrepareDelete(items))
SearchDeleteIndex(items) == Http("search_delete_index", items, PrepareDelete(items))

\* Any status but 2xx, 404 included, and any body that does not parse.
SearchReturns ==
  /\ Answered({"search_index", "search_put", "search_update", "search_delete",
               "search_delete_index"})
  /\ OrUnknown({"ok"}, GoOn(1, "send"))

\* The points are encoded before they are measured once more.
PreflightRemoteWrite(items) == Batch(items)

PrometheusWrite(items) ==
  Call("prometheus_write", items, PreflightRemoteWrite(items), "connect", <<Whole(items)>>)

PrometheusReturns ==
  Answered({"prometheus_write"}) /\ OrUnknown({"ok"}, GoOn(answer.count, "send"))
-----------------------------------------------------------------------------
(* SQL and CQL statements; the items are their parameters *)

Statement(items) ==
  /\ Fine(items)
  /\ IF items = <<>> THEN RequestFits(InputBudget, items) ELSE BatchFits(InputBudget, items)

\* Three drivers have no parameters: they are refused altogether.
PreflightSqlServer(items)    == Statement(items) /\ items = <<>>
PreflightCassandraSql(items) == Statement(items) /\ items = <<>>
PreflightDb2(items)          == Statement(items) /\ items = <<>>
PreflightCql(items)          == items = <<>> /\ RequestFits(InputBudget, items)

SqliteExecute(items)   == Call("sql_execute", items, Statement(items), "send", <<One>>)
MySqlExecute(items)    == Call("sql_execute", items, Statement(items), "send", <<One>>)
PostgresExecute(items) == Call("sql_execute", items, Statement(items), "send", <<One>>)

SqlReturns == /\ Answered({"sql_execute", "sqlserver_execute"})
              /\ OrUnknown({"ok"}, GoOn(answer.count, "send"))

\* The client may have been closed.
SqlServerExecute(items) ==
  Call("sqlserver_execute", items, PreflightSqlServer(items), "connect", <<One>>)

CassandraExecute(items) ==
  Call("cassandra_execute", items, PreflightCassandraSql(items), "send", <<One>>)

CassandraExecuteCql(items) ==
  Call("cassandra_execute", items, PreflightCql(items), "send", <<One>>)

\* A blocking worker opens a connection and executes; neither it nor the
\* Cassandra driver knows how many rows were changed.
Db2Execute(items) ==
  Call("db2_execute", items, PreflightDb2(items), "connect", <<One>>)

UncountedReturns ==
  Answered({"cassandra_execute", "db2_execute"}) /\ OrUnknown({"ok"}, GoOn(0, "send"))

\* Dropping the future does not stop the worker: it connects and sends later.
Db2WorkerGoesOn ==
  /\ op = "db2_execute" /\ stage = "over" /\ queue # <<>>
  /\ queue' = Tail(queue)
  /\ wire' \in {wire, Append(wire, Head(queue))}
  /\ UNCHANGED <<request, remote, stage, answer, produced, possible_write, outcome>>
-----------------------------------------------------------------------------
(* Messages: one after the other, each awaited, except on NATS *)

\* All messages are checked, each against what its protocol can carry.
ValidXadd(items)         == Batch(items)
ValidPublish(items)      == Batch(items)
PrepareAmqp(items)       == Batch(items)
PrepareNats(items)       == Batch(items)
ValidKafkaProduce(items) == Batch(items)

\* XADD; the id in the answer must parse.
RedisXadd(items) == Call("redis_xadd", items, ValidXadd(items), "send", Singles(items))

RedisXaddReturns == Answered({"redis_xadd"}) /\ OrUnknown({"ok"}, GoOn(1, "send"))

\* PUBLISH; what it counts are messages handed to the server, not receivers.
RedisPublish(items) == Call("redis_publish", items, ValidPublish(items), "send", Singles(items))

RedisPublishReturns == Answered({"redis_publish"}) /\ OrUnknown({"ok"}, GoOn(1, "send"))

\* The queue is declared and confirms are switched on before the first message.
AmqpProduce(items) ==
  Call("amqp_produce", items, PrepareAmqp(items), "connect", <<Create, <<>>>> \o Singles(items))

\* A NACK is an error too.
AmqpConfirms ==
  /\ Answered({"amqp_produce"})
  /\ OrUnknown({"ok"}, GoOn(answer.count, "send"))

NatsProduce(items) == Call("nats_produce", items, PrepareNats(items), "send", Singles(items))

\* Faulty variant: the message stays at the head of the queue.
NatsPublishAgain ==
  /\ op = "nats_produce" /\ stage = "send" /\ queue # <<>>
  /\ \/ /\ wire' = Append(wire, Head(queue)) /\ produced' = produced + 1
        /\ possible_write' = TRUE
        /\ UNCHANGED <<request, remote, queue, stage, answer, outcome>>
     \/ Finish(Unknown)

\* Publishing fills a buffer of the client; it fails when the client is gone.
NatsPublish ==
  /\ op = "nats_produce" /\ stage = "send" /\ queue # <<>>
  /\ \/ /\ wire' = Append(wire, Head(queue)) /\ queue' = Tail(queue)
        /\ produced' = produced + 1 /\ possible_write' = TRUE
        /\ UNCHANGED <<request, remote, stage, answer, outcome>>
     \/ Finish(Unknown)

\* The buffer is written out; nothing says what the server makes of it.
NatsFlush ==
  /\ op = "nats_produce" /\ stage = "send" /\ queue = <<>>
  /\ Finish(Ok(produced)) \/ Finish(Unknown)

RdkafkaProduce(items) ==
  Call("rdkafka_produce", items, ValidKafkaProduce(items), "metadata", <<Create>> \o Singles(items))

\* group_records_by_partition: the records of a partition, in their order.
InPartition(items, p) ==
  {s \in Ascending(DOMAIN items) : Range(s) = {i \in DOMAIN items : items[i].mark = p}}
NonEmpty(records) == IF records = <<>> THEN <<>> ELSE <<records>>

\* One request for each partition that has records, in the order of the partitions.
RskafkaProduce(items) ==
  \E zero \in InPartition(items, 0), one \in InPartition(items, 1) :
    Call("rskafka_produce", items, ValidKafkaProduce(items), "metadata",
         <<Create>> \o NonEmpty(zero) \o NonEmpty(one))

\* ensure_topic: the list of topics decides whether one is created.
KafkaTopics ==
  /\ stage = "metadata"
  /\ \/ Finish(Definite)
     \/ /\ stage' = IF ~exists \/ op = "rdkafka_produce" THEN "send" ELSE "partition"
        /\ queue' = IF exists THEN Tail(queue) ELSE queue
        /\ UNCHANGED <<request, remote, wire, answer, produced, possible_write, outcome>>

\* A topic that someone else has just created will do.
RdkafkaReturns ==
  Answered({"rdkafka_produce"}) /\ OrUnknown({"ok", "exists"}, GoOn(answer.count, "send"))

\* Faulty variant: whatever is wrong with a partition's leader is definite.
RskafkaPartitionDefinite ==
  /\ stage = "partition"
  /\ \/ /\ stage' = "send"
        /\ UNCHANGED <<request, remote, queue, wire, answer, produced, possible_write, outcome>>
     \/ Finish(Definite)

\* The client of the next partition; its errors are definite until something
\* may have been written.
RskafkaPartition ==
  /\ stage = "partition"
  /\ \/ /\ stage' = "send"
        /\ UNCHANGED <<request, remote, queue, wire, answer, produced, possible_write, outcome>>
     \/ Finish(IF possible_write THEN Unknown ELSE Definite)

\* Here a topic that someone else has just created is an error like any other.
RskafkaReturns ==
  Answered({"rskafka_produce"}) /\ OrUnknown({"ok"}, GoOn(answer.count, "partition"))
-----------------------------------------------------------------------------
\* FlowControl::run_single_mutation: the deadline passes, the future is dropped.
MutationDropped ==
  /\ stage \notin {"idle", "over"}
  /\ stage' = "over" /\ outcome' = Unknown /\ answer' = Nothing
  /\ queue' = IF op = "db2_execute" THEN queue ELSE <<>>
  /\ UNCHANGED <<request, remote, wire, produced, possible_write>>

Store(items) ==
  \/ \E nx \in BOOLEAN : RedisSet(items, nx)
  \/ RedisRestore(items) \/ RedisDelete(items) \/ RedisRaw(items)
  \/ MongoInsert(items) \/ MongoUpdate(items) \/ MongoDelete(items)
  \/ MongoAggregateWrite(items) \/ MongoDrop(items)
  \/ SearchIndex(items) \/ SearchPut(items) \/ SearchUpdate(items)
  \/ SearchDelete(items) \/ SearchDeleteIndex(items) \/ PrometheusWrite(items)
  \/ SqliteExecute(items) \/ MySqlExecute(items) \/ PostgresExecute(items)
  \/ SqlServerExecute(items) \/ Db2Execute(items)
  \/ CassandraExecute(items) \/ CassandraExecuteCql(items)

Publish(items) ==
  \/ RedisXadd(items) \/ RedisPublish(items) \/ AmqpProduce(items) \/ NatsProduce(items)
  \/ RdkafkaProduce(items) \/ RskafkaProduce(items)

Embedded == \E name \in {"redis_xadd", "redis_publish", "amqp_produce", "nats_produce",
                         "rdkafka_produce", "rskafka_produce", "prometheus_write"} : CallEmpty(name)

Returns ==
  \/ RedisSetReturns \/ RedisRestoreReturns \/ RedisDeleteReturns \/ RedisRawReturns
  \/ MongoInsertReturns \/ MongoUpdateReturns \/ MongoDeleteReturns
  \/ MongoAggregateReturns \/ MongoDropReturns
  \/ SearchReturns \/ PrometheusReturns \/ SqlReturns \/ UncountedReturns
  \/ RedisXaddReturns \/ RedisPublishReturns \/ AmqpConfirms \/ RdkafkaReturns \/ RskafkaReturns

MutationServer == Serve \/ ServeExisting \/ ServeSome \/ ServeNil \/ Refuse \/ Repeat
                  \/ Break \/ Lose \/ OthersCreate

MutationStep ==
  \/ Connect \/ (op # "nats_produce" /\ Send) \/ NatsPublish \/ NatsFlush
  \/ KafkaTopics \/ RskafkaPartition \/ Returns \/ Db2WorkerGoesOn
  \/ MutationServer \/ MutationDropped

MutationNext == (\E items \in Inputs : Store(items) \/ Publish(items)) \/ Embedded \/ MutationStep

MutationSpec == MutationInit /\ [][MutationNext]_mutationVars
-----------------------------------------------------------------------------
(* Properties *)

MutationTypeOK ==
  /\ input \in Inputs /\ exists \in BOOLEAN /\ possible_write \in BOOLEAN
  /\ stage \in {"idle", "connect", "metadata", "partition", "send", "await", "over"}
  /\ queue \in Seq(Seq(0..MaxInput)) /\ wire \in Seq(Seq(0..MaxInput))
  /\ effects \in Seq(0..MaxInput) /\ repeats \in 0..MaxRepeats
  /\ produced \in 0..MaxInput /\ answer.count \in 0..MaxInput
  /\ outcome.kind \in {"none", "Ok", "Definite", "OutcomeIndeterminate"}

\* Success reports exactly what happened: as many rows, keys or documents as were
\* changed, every message published.  NATS counts what it has handed over,
\* Cassandra and Db2 count nothing, and a repeated Kafka request counts once.  And
\* nothing leaves for the server, not even the creation of a queue or topic, on
\* behalf of an input with an item that is too large or not valid further on.
OkCountsEffects ==
  LET happened == Items(effects) IN
  /\ wire # <<>> \/ effects # <<>> =>
       /\ Len(input) <= InputBudget.max_items
       /\ \A i \in DOMAIN input : input[i].valid /\ input[i].bytes <= InputBudget.max_item_bytes
       /\ WholeOf(input) <= InputBudget.max_batch_bytes
  /\ outcome.kind = "Ok" =>
    CASE op \in {"mongo_insert", "prometheus_write", "redis_xadd", "redis_publish",
                 "amqp_produce", "nats_produce"} \cup Repeating ->
           /\ outcome.count = Len(input)
           /\ op # "nats_produce" => {effects[i] : i \in happened} = DOMAIN input
           /\ op \notin Repeating \cup {"nats_produce"} => Cardinality(happened) = Len(input)
      [] op \in {"cassandra_execute", "db2_execute"} -> outcome.count = 0 /\ Cardinality(happened) = 1
      [] OTHER -> outcome.count = Cardinality(happened)

\* Every adapter implements MutationOutcome.  The order of messages is kept within
\* a partition; rskafka sends its partitions one after the other.
Contract == INSTANCE MutationOutcome WITH
  Parts    <- 0..MaxInput,
  MaxParts <- MaxInput,
  lane     <- [i \in 0..MaxInput |->
                 IF i \in DOMAIN input /\ op = "rskafka_produce" THEN input[i].mark ELSE 0],
  terms    <- (IF op \in Repeating THEN {"repeats"} ELSE {}) \cup
              (IF op = "nats_produce" THEN {"early"} ELSE {}),
  effects  <- effects,
  outcome  <- outcome.kind

OutcomePromise == Contract!Spec
=============================================================================
