--------------------------- MODULE ConsumePolicies ---------------------------
(***************************************************************************)
(* Which requests to consume an adapter takes, which of its ways of reading*)
(* it takes for them, and where the reading begins: MessageConsumer::consume*)
(* of every adapter up to its first request.  The options are              *)
(*                                                                         *)
(*   max, timeout, bytes    positive numbers; byte limits "within" or not  *)
(*   partition, offset      a set of one number, or of none                *)
(*   cursor                 [of |-> "none"] or the position of a message   *)
(*   group, consumer, durable, name   the identity, whether its parts have *)
(*                          usable names                                   *)
(*   ack                    "unset", "none" or "on-success"                *)
(*   channel                the source is a Redis channel, not a stream    *)
(***************************************************************************)
EXTENDS Integers

CONSTANT MaxU64   \* the largest u64, which usize equals

ASSUME ConsumePoliciesAssumption == MaxU64 \in Nat \ {0, 1}

KafkaCursor(p, n)     == [of |-> "kafka", partition |-> p, offset |-> n]
StreamCursor(id)      == [of |-> "redis", id |-> id]
JetStreamCursor(n)    == [of |-> "nats", sequence |-> n]
NoCursor              == [of |-> "none"]

\* validate_redis_stream_id: <<milliseconds, sequence>>
ValidStreamId(id) == id[1] \in 0..MaxU64 /\ id[2] \in 0..MaxU64 /\ id # <<0, 0>>

\* ConsumeCursor::validate
ValidCursor(c) ==
  CASE c.of = "kafka" -> c.partition >= 0 /\ c.offset >= 0
    [] c.of = "redis" -> ValidStreamId(c.id)
    [] c.of = "nats"  -> c.sequence > 0
    [] OTHER -> TRUE

Stateful(o)   == o.group \/ o.durable
Acks(o)       == o.ack = "on-success"
Positioned(o) == o.partition # {} \/ o.offset # {}

\* ConsumerIdentity::validate
ValidIdentity(o) == Stateful(o) => o.name = "plain"

\* ConsumeOptions::validate, which every adapter calls
ValidOptions(o) ==
  /\ o.max > 0 /\ o.max < MaxU64 /\ o.timeout > 0 /\ o.bytes = "within"
  /\ \A n \in o.partition \cup o.offset : n >= 0
  /\ ValidCursor(o.cursor)
  /\ o.cursor.of # "none" => ~Positioned(o)
  /\ ValidIdentity(o)
  /\ Stateful(o) => o.cursor.of = "none" /\ ~Positioned(o)
-----------------------------------------------------------------------------
(* The adapters.  "get" removes what it acknowledges; "group", "stream      *)
(* group" and "durable" keep a place at the broker; a "queue group" takes   *)
(* messages from its other members; the rest only looks.                    *)

AmqpConsume(o) ==
  IF ~Stateful(o) /\ Acks(o) /\ ~Positioned(o) /\ o.cursor.of = "none" THEN "get" ELSE "refused"

\* validate_consume_position
NatsPosition(o) == ~Positioned(o) /\ o.cursor.of \in {"none", "nats"}

\* validate_nats_consume_options: Core NATS has neither members nor acknowledgements.
ValidNatsOptions(o) ==
  NatsPosition(o) /\ (o.durable \/ (~o.consumer /\ ~Acks(o)))
NatsConsume(o) ==
  IF ~ValidNatsOptions(o) THEN "refused"
  ELSE IF o.durable THEN "durable"
  ELSE IF o.group THEN "queue group"
  ELSE IF o.cursor.of = "nats" THEN "ephemeral" ELSE "core"

\* validate_stream_consume_options: a stream has one partition only, and its groups
\* need a member.
ValidStreamOptions(o) ==
  /\ o.partition \subseteq {0} /\ o.cursor.of \in {"none", "redis"}
  /\ ~o.durable /\ IF o.group THEN o.consumer ELSE ~Acks(o)
StreamConsume(o) ==
  IF ~ValidStreamOptions(o) THEN "refused" ELSE IF o.group THEN "stream group" ELSE "stream"

ValidChannelOptions(o) == ~Stateful(o) /\ ~Acks(o) /\ ~Positioned(o) /\ o.cursor.of = "none"
RedisConsume(o) ==
  CASE ~o.channel -> StreamConsume(o)
    [] o.channel /\ ValidChannelOptions(o) -> "channel"
    [] OTHER -> "refused"

\* resolve_consume_position
KafkaPosition(o) == o.cursor.of \in {"none", "kafka"} /\ (o.offset # {} => o.partition # {})

\* native_consumer_group: a consumer that leaves at once has no lasting member.
NativeKafkaConsume(o) ==
  IF o.durable THEN "refused"
  ELSE IF o.group THEN IF o.consumer THEN "refused" ELSE "group"
  ELSE IF ~Acks(o) /\ KafkaPosition(o) THEN "assign" ELSE "refused"

\* rskafka looks neither at the identity nor at the acknowledgement.
PureKafkaConsume(o) == IF KafkaPosition(o) THEN "fetch" ELSE "refused"

ConsumePath(o, kind) ==
  IF ~ValidOptions(o) THEN "refused"
  ELSE CASE kind = "amqp" -> AmqpConsume(o)
         [] kind = "nats" -> NatsConsume(o)
         [] kind = "redis" -> RedisConsume(o)
         [] kind = "kafka" -> NativeKafkaConsume(o)
         [] kind = "kafka-pure" -> PureKafkaConsume(o)
         [] OTHER -> "refused"

MovingPaths == {"get", "group", "stream group", "queue group", "durable"}

\* The way of reading is what was asked for: nobody's place is moved and nothing
\* is acknowledged unasked, and no identity is passed over.
Honours(path, o) ==
  /\ o.group <=> path \in {"group", "stream group", "queue group"}
  /\ o.durable <=> path = "durable"
  /\ Acks(o) => path \in MovingPaths \ {"queue group"}
  /\ path = "get" => Acks(o)
-----------------------------------------------------------------------------
(* Where the reading begins.                                                *)

Before(a, b) == a[1] < b[1] \/ (a[1] = b[1] /\ a[2] < b[2])

\* redis_stream_predecessor, with the wrap of the sequence
StreamPredecessor(id) == IF id[2] > 0 THEN <<id[1], id[2] - 1>> ELSE <<id[1] - 1, MaxU64>>

\* redis_stream_start: an offset stands for the first ID of its millisecond.
StreamStart(o) ==
  IF o.cursor.of = "redis" THEN StreamPredecessor(o.cursor.id)
  ELSE IF o.offset # {} THEN <<CHOOSE n \in o.offset : TRUE, 0>>
  ELSE <<0, 0>>

\* Which messages are read from there on: XREAD takes the last ID that was seen,
\* the others take the first position.
StreamReads(o, id)    == Before(StreamStart(o), id)
KafkaReads(o, p, n) ==
  IF o.cursor.of = "kafka" THEN p = o.cursor.partition /\ n >= o.cursor.offset
  ELSE /\ p \in o.partition \/ o.partition = {}
       /\ \A from \in o.offset : n >= from
JetStreamReads(o, n)  == o.cursor.of = "nats" => n >= o.cursor.sequence
=============================================================================
