----------------------------- MODULE Capabilities ----------------------------
(***************************************************************************)
(* What a connector of each kind offers.  A port (port/capability.rs) has  *)
(* methods every adapter must write and methods with a default that        *)
(* refuses with UnsupportedCapability.  An adapter advertises operations   *)
(* (port/connector.rs), the CLI asks for one of them before it calls the   *)
(* method of that name.  Methods and operations are named alike here.      *)
(***************************************************************************)
EXTENDS Naturals

\* The required methods of each port are the operations its legacy flag stands
\* for, except that the consumer and the administration of messages have more
\* operations than methods.
SqlRequired ==
  {"sql.query", "sql.query_bounded", "sql.execute", "sql.list_schemas", "sql.list_tables",
   "sql.describe_table"}
SqlCalls    == {"sql.query_budgeted", "sql.execute_budgeted"}
AtomicInserts == {"sql.insert_rows_atomic", "sql.insert_rows_atomic_budgeted"}
SqlCatalogs == {"sql.list_schemas_bounded", "sql.list_schemas_budgeted",
                "sql.list_tables_bounded", "sql.list_tables_budgeted",
                "sql.describe_table_bounded"}

CqlRequired ==
  {"cql.query", "cql.query_bounded", "cql.execute", "cql.list_keyspaces", "cql.list_tables",
   "cql.describe_table"}
CqlOptional ==
  {"cql.query_budgeted", "cql.execute_budgeted", "cql.list_keyspaces_bounded",
   "cql.list_keyspaces_budgeted", "cql.list_tables_bounded", "cql.list_tables_budgeted",
   "cql.describe_table_bounded"}

Db2Lists    == {"db2.list_sequences", "db2.list_routines", "db2.list_tablespaces",
                "db2.list_foreign_keys"}
Db2Required == Db2Lists \cup {"db2.generate_ddl"}
Db2Optional ==
  {"db2.list_sequences_bounded", "db2.list_routines_bounded", "db2.list_tablespaces_bounded",
   "db2.list_foreign_keys_bounded", "db2.list_sequences_budgeted", "db2.list_routines_budgeted",
   "db2.list_tablespaces_budgeted", "db2.list_foreign_keys_budgeted", "db2.generate_ddl_bounded"}

KvRequired == {"kv.get", "kv.set", "kv.delete", "kv.scan", "kv.raw_command"}
KvReads    == {"kv.exists", "kv.get_bounded", "kv.get_with_expiry", "kv.get_with_expiry_bounded",
               "kv.scan_bounded", "kv.raw_command_bounded"}
KvWrites   == {"kv.set_budgeted", "kv.restore_with_expiry", "kv.restore_with_expiry_budgeted",
               "kv.delete_budgeted", "kv.raw_command_io_budgeted"}

DocumentRequired ==
  {"document.list_collections", "document.find", "document.insert", "document.update",
   "document.delete", "document.aggregate", "document.aggregate_bounded"}
DocumentReads  == {"document.list_collections_bounded", "document.list_collections_budgeted",
                   "document.find_budgeted"}
\* update_many and delete_many have defaults that delegate to update and delete.
DocumentDelegating == {"document.update_many", "document.delete_many"}
DocumentInserts == {"document.insert_budgeted"}
DocumentUpdates ==
  {"document.update_one", "document.update_one_budgeted", "document.update_many_budgeted"}
DocumentDeletes ==
  {"document.delete_one", "document.delete_one_budgeted", "document.delete_many_budgeted"}
DocumentAggregates == {"document.aggregate_budgeted", "document.aggregate_write_budgeted"}
DocumentDrops  == {"document.drop_collection", "document.drop_collection_budgeted"}

SeriesRequired == {"time_series.list_measurements", "time_series.write_points",
                   "time_series.query_range"}
SeriesOptional == {"time_series.list_measurements_bounded", "time_series.list_measurements_budgeted",
                   "time_series.write_points_budgeted", "time_series.query_range_bounded"}

SearchRequired ==
  {"search.list_indices", "search.search", "search.index_doc", "search.put_doc",
   "search.get_doc", "search.update_doc", "search.delete_doc", "search.delete_index"}
SearchLookups ==
  {"search.list_indices_bounded", "search.list_indices_budgeted", "search.search_budgeted"}
SearchDocuments ==
  {"search.index_doc_budgeted", "search.put_doc_budgeted", "search.get_doc_budgeted",
   "search.update_doc_budgeted", "search.delete_doc_budgeted", "search.delete_index_budgeted"}

ProducerRequired == {"message.produce"}
ProducerOptional == {"message.produce_budgeted"}
ConsumerRequired == {"message.consume"}
ConsumerExtensions == {"message.consume_group", "message.consume_durable", "message.consume_ack"}
AdminRequired == {"message.admin.list_topics", "message.admin.topic_detail",
                  "message.admin.consumer_lag"}
TopicLists    == {"message.admin.list_topics_bounded", "message.admin.list_topics_budgeted"}
TopicDetails  == {"message.admin.topic_detail_bounded"}
BoundedLag    == {"message.admin.consumer_lag_bounded"}
AdminMutate   == {"message.admin.delete"}
-----------------------------------------------------------------------------
\* A legacy flag stands for a group of operations; cql, db2 and the others
\* likewise.  admin stands for none.
Legacy(flags) ==
  UNION {CASE f = "sql" -> SqlRequired
           [] f = "cql" -> CqlRequired
           [] f = "db2" -> Db2Required
           [] f = "kv" -> KvRequired
           [] f = "document" -> DocumentRequired
           [] f = "time_series" -> SeriesRequired
           [] f = "search" -> SearchRequired
           [] f = "producer" -> ProducerRequired
           [] f = "consumer" -> ConsumerRequired
           [] OTHER -> {} : f \in flags}

Kinds == {"mysql", "postgres", "sqlite", "sqlserver", "cassandra", "db2", "redis", "mongodb",
          "opensearch", "prometheus", "amqp", "rabbitmq+http", "kafka", "kafka-pure", "nats"}

\* PROTOCOL_ALIASES, for the families that have some
Aliases ==
  [mysql |-> {"mariadb", "tidb"}, sqlserver |-> {"mssql"}, cassandra |-> {"scylla"},
   db2 |-> {"ibmdb2", "as400"},
   postgres |-> {"postgresql", "cockroach", "timescale", "redshift"},
   redis |-> {"valkey", "keydb", "dragonfly"},
   kafka |-> {"automq", "redpanda", "warpstream", "confluent"},
   opensearch |-> {"elasticsearch", "opensearch+https", "elasticsearch+https"},
   prometheus |-> {"prometheus+http"}, amqp |-> {"amqps"}, nats |-> {"nats+tls"}]

\* canonical_scheme
Canonical(scheme) ==
  IF \E family \in DOMAIN Aliases : scheme \in Aliases[family]
  THEN CHOOSE family \in DOMAIN Aliases : scheme \in Aliases[family] ELSE scheme

\* The schemes a build with every adapter registers (build_registry, connect).  A
\* Kafka adapter is built with librdkafka or without.
Schemes == (Kinds \ {"kafka-pure"}) \cup UNION {Aliases[family] : family \in DOMAIN Aliases}
KindOf(scheme, pure) ==
  IF Canonical(scheme) = "kafka" /\ pure THEN "kafka-pure" ELSE Canonical(scheme)

Flags(kind) ==
  CASE kind \in {"mysql", "postgres", "sqlite", "sqlserver"} -> {"sql"}
    [] kind = "cassandra" -> {"sql", "cql"}
    [] kind = "db2" -> {"sql", "db2"}
    [] kind = "redis" -> {"kv", "producer", "consumer", "admin"}
    [] kind = "mongodb" -> {"document"}
    [] kind = "opensearch" -> {"search"}
    [] kind = "prometheus" -> {"time_series"}
    [] kind = "rabbitmq+http" -> {"admin"}
    [] OTHER -> {"producer", "consumer", "admin"}
-----------------------------------------------------------------------------
(* The operations each adapter advertises beyond its flags.                 *)

MySqlOperations     == SqlCalls \cup AtomicInserts \cup SqlCatalogs
PostgresOperations  == SqlCalls \cup AtomicInserts \cup SqlCatalogs
SqliteOperations    == SqlCalls \cup AtomicInserts \cup SqlCatalogs

\* Faulty variant: SQL Server claims the whole group of its siblings.
SqlServerOperationsAll == SqlCalls \cup AtomicInserts \cup SqlCatalogs

SqlServerOperations == SqlCalls \cup SqlCatalogs
CassandraOperations == SqlCalls \cup SqlCatalogs \cup CqlOptional
Db2Operations       == SqlCalls \cup SqlCatalogs \cup Db2Optional
MongoOperations ==
  DocumentReads \cup DocumentDelegating \cup DocumentInserts \cup DocumentUpdates
    \cup DocumentDeletes \cup DocumentAggregates \cup DocumentDrops
SearchOperations    == SearchLookups \cup SearchDocuments
SeriesOperations    == SeriesOptional
AmqpOperations ==
  ProducerOptional \cup {"message.consume_ack", "message.admin.topic_detail"}
    \cup TopicDetails \cup AdminMutate
ManagementOperations ==
  (AdminRequired \ {"message.admin.consumer_lag"}) \cup TopicLists \cup TopicDetails
    \cup AdminMutate
NativeKafkaOperations ==
  ProducerOptional \cup {"message.consume_group", "message.consume_ack"} \cup AdminRequired
    \cup TopicLists \cup TopicDetails \cup BoundedLag \cup AdminMutate
PureKafkaOperations ==
  ProducerOptional \cup (AdminRequired \ {"message.admin.consumer_lag"}) \cup TopicLists
    \cup TopicDetails \cup AdminMutate
NatsOperations ==
  ProducerOptional \cup ConsumerExtensions \cup AdminRequired \cup TopicLists \cup TopicDetails
    \cup BoundedLag \cup AdminMutate

\* redis_protocol_major: INFO names one version of three numbers
ProtocolMajor(info) == IF info.lines = 1 /\ info.plain THEN {info.major} ELSE {}

\* detect_consumer_lag_support: KeyDB and a server whose INFO cannot be read count
\* as too old.
CountsLag(scheme, info) ==
  /\ scheme # "keydb" /\ info.answered
  /\ \E major \in ProtocolMajor(info) : major >= 7

RedisOperations(lagSupported) ==
  KvReads \cup KvWrites \cup ProducerOptional \cup {"message.consume_group", "message.consume_ack"}
    \cup TopicLists \cup TopicDetails \cup AdminMutate
    \cup {"message.admin.list_topics", "message.admin.topic_detail"}
    \cup (IF lagSupported THEN BoundedLag \cup {"message.admin.consumer_lag"} ELSE {})

\* Connector::operations; a Redis server is one that counts the lag or not.
Operations(kind, lagSupported) ==
  Legacy(Flags(kind)) \cup
    CASE kind = "mysql" -> MySqlOperations
      [] kind = "postgres" -> PostgresOperations
      [] kind = "sqlite" -> SqliteOperations
      [] kind = "sqlserver" -> SqlServerOperations
      [] kind = "cassandra" -> CassandraOperations
      [] kind = "db2" -> Db2Operations
      [] kind = "redis" -> RedisOperations(lagSupported)
      [] kind = "mongodb" -> MongoOperations
      [] kind = "opensearch" -> SearchOperations
      [] kind = "prometheus" -> SeriesOperations
      [] kind = "amqp" -> AmqpOperations
      [] kind = "rabbitmq+http" -> ManagementOperations
      [] kind = "kafka" -> NativeKafkaOperations
      [] kind = "kafka-pure" -> PureKafkaOperations
      [] kind = "nats" -> NatsOperations
-----------------------------------------------------------------------------
(* The methods an adapter writes itself; every other optional method is the *)
(* port's default.                                                          *)

SqlPort      == SqlRequired \cup SqlCalls \cup SqlCatalogs
AdminMethods == AdminRequired \cup TopicDetails \cup AdminMutate
BrokerPorts  == ProducerRequired \cup ProducerOptional \cup ConsumerRequired \cup AdminMethods

Implements(kind) ==
  CASE kind \in {"mysql", "postgres", "sqlite"} -> SqlPort \cup AtomicInserts
    [] kind = "sqlserver" -> SqlPort
    [] kind = "cassandra" -> SqlPort \cup CqlRequired \cup CqlOptional
    [] kind = "db2" -> SqlPort \cup Db2Required \cup Db2Optional
    [] kind = "redis" -> KvRequired \cup KvReads \cup KvWrites \cup BrokerPorts
                           \cup TopicLists \cup BoundedLag
    [] kind = "mongodb" -> DocumentRequired \cup DocumentReads \cup DocumentDelegating
                             \cup DocumentInserts \cup DocumentUpdates \cup DocumentDeletes
                             \cup DocumentAggregates \cup DocumentDrops
    [] kind = "opensearch" -> SearchRequired \cup SearchLookups \cup SearchDocuments
    [] kind = "prometheus" -> SeriesRequired \cup SeriesOptional
    [] kind = "amqp" -> BrokerPorts
    [] kind = "rabbitmq+http" -> AdminMethods \cup TopicLists
    [] kind = "kafka-pure" -> BrokerPorts \cup TopicLists
    [] kind \in {"kafka", "nats"} -> BrokerPorts \cup TopicLists \cup BoundedLag
=============================================================================
