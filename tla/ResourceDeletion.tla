-------------------------- MODULE ResourceDeletion --------------------------
(***************************************************************************)
(* delete_resource of the broker adapters: a Redis stream, an AMQP queue   *)
(* over AMQP or over RabbitMQ's HTTP interface, a JetStream stream, a Kafka*)
(* topic with either backend.  All but Redis look at the resource, delete  *)
(* it and look again; Redis counts and deletes in one script.  Meanwhile   *)
(* other clients publish, consume, subscribe, delete and create.           *)
(*                                                                         *)
(* An answer can be lost after the deletion as well as before it.          *)
(***************************************************************************)
EXTENDS HttpAnswer

CONSTANTS
  MaxMessages,  \* in the resource, a bound
  MaxChanges    \* by other clients during one call, a bound

ASSUME DeletionAssumption == MaxMessages \in Nat /\ MaxChanges \in Nat

VARIABLES
  broker,    \* which adapter this is
  options,   \* if_empty and if_unused
  step,      \* how far the call is
  there,     \* what has the resource's name: "none", the resource, or something "other"
  messages,  \* how many messages it holds
  consumers, \* how many consumers it has
  marked,    \* Kafka: the topic is marked for deletion and still listed
  asked,     \* whether the request to delete is under way
  served,    \* what the server has answered to it
  counted,   \* the messages the call has counted before
  destroyed, \* what the deletion took away
  gone,      \* history variable: the resource was absent since the deletion was asked for
  verdict,   \* what the caller was told
  changes    \* what other clients have done so far

deletionVars == <<broker, options, step, there, messages, consumers, marked, asked, served,
                  counted, destroyed, gone, verdict, changes>>
resource == <<there, messages, consumers, marked, gone, destroyed>>
caller   == <<broker, options, changes>>

Brokers == {"redis", "amqp", "management", "nats", "rdkafka", "rskafka"}
Kafka   == {"rdkafka", "rskafka"}
Options == [if_empty : BOOLEAN, if_unused : BOOLEAN]
NoOptions == [if_empty |-> FALSE, if_unused |-> FALSE]
Intact    == [done |-> FALSE, messages |-> 0, consumers |-> 0, kind |-> "none"]

DeletionInit ==
  /\ broker = "redis" /\ options = NoOptions /\ step = "idle"
  /\ there = "none" /\ messages = 0 /\ consumers = 0 /\ marked = FALSE
  /\ asked = FALSE /\ served = "none" /\ counted = 0 /\ destroyed = Intact /\ gone = FALSE
  /\ verdict = "none" /\ changes = 0
-----------------------------------------------------------------------------
\* A call starts; options that a broker has no means to honour are refused first.
Start(name, opts, admitted, first) ==
  /\ step = "idle"
  /\ broker' = name /\ options' = opts
  /\ there' \in {"none", "resource"} \cup (IF name = "redis" THEN {"other"} ELSE {})
  /\ messages' \in IF there' = "resource" THEN 0..MaxMessages ELSE {0}
  /\ consumers' \in IF there' = "resource" THEN {0, 1} ELSE {0}
  /\ IF admitted THEN step' = first /\ verdict' = verdict
                 ELSE step' = "over" /\ verdict' = "Failed"
  /\ UNCHANGED <<marked, asked, served, counted, destroyed, gone, changes>>

Conclude(result) ==
  /\ step' = "over" /\ verdict' = result
  /\ UNCHANGED <<caller, resource, asked, served, counted>>

Continue(next) ==
  /\ step' = next
  /\ UNCHANGED <<caller, resource, asked, served, counted, verdict>>

\* The resource is looked at and its messages are counted.
Inspect(next) ==
  /\ IF there = "resource"
     THEN counted' = messages /\ step' = next /\ verdict' = verdict
     ELSE counted' = counted /\ step' = "over" /\ verdict' = "Failed"
  /\ UNCHANGED <<caller, resource, asked, served>>

\* A request that changes nothing fails.
LooksInVain == step \in {"inspect", "verify"} /\ Conclude("Failed")

Ask ==
  /\ step = "ask" /\ step' = "await" /\ asked' = TRUE
  /\ UNCHANGED <<caller, resource, served, counted, verdict>>
-----------------------------------------------------------------------------
(* The broker *)

\* The name is free, and what the deletion took away is on record.
TakeAway ==
  /\ there' = "none" /\ messages' = 0 /\ consumers' = 0 /\ marked' = FALSE /\ gone' = TRUE
  /\ destroyed' = IF destroyed.done \/ there = "none" THEN destroyed
                  ELSE [done |-> TRUE, messages |-> messages, consumers |-> consumers, kind |-> there]

\* RabbitMQ answers to the deletion of an absent queue as to any other; Kafka only
\* marks the topic and takes it away later.
ServeDeletion ==
  /\ asked /\ asked' = FALSE
  /\ CASE broker = "redis" /\ there # "resource" -> served' = "refused" /\ UNCHANGED resource
       [] broker = "redis" /\ there = "resource" -> served' = "ok" /\ TakeAway
       [] broker \in {"amqp", "management"} /\ options.if_empty /\ messages > 0 ->
            served' = "refused" /\ UNCHANGED resource
       [] broker \in {"amqp", "management"} /\ options.if_unused /\ consumers > 0 ->
            served' = "refused" /\ UNCHANGED resource
       [] broker \in {"management", "nats"} \cup Kafka /\ there = "none" ->
            served' = "refused" /\ UNCHANGED resource
       [] broker \in Kafka /\ there = "resource" ->
            /\ served' = "ok" /\ marked' = TRUE
            /\ UNCHANGED <<there, messages, consumers, gone, destroyed>>
       [] OTHER -> served' = "ok" /\ TakeAway
  /\ counted' = IF broker = "redis" THEN messages ELSE counted
  /\ UNCHANGED <<caller, step, verdict>>

KafkaTakesAway ==
  /\ marked /\ TakeAway
  /\ UNCHANGED <<caller, step, asked, served, counted, verdict>>

\* The request or its answer is lost; the request may still be under way.
DeletionBreaks ==
  /\ step = "await"
  /\ asked' \in {asked, FALSE}
  /\ step' = "over" /\ verdict' = "Failed"
  /\ UNCHANGED <<caller, resource, served, counted>>

\* Other clients publish or consume, subscribe, create something, delete it.
OthersChange ==
  /\ step \notin {"idle", "over"} /\ changes < MaxChanges /\ changes' = changes + 1
  /\ \/ /\ there = "resource" /\ messages' \in 0..MaxMessages /\ consumers' \in {0, 1}
        /\ UNCHANGED <<there, marked, gone, destroyed>>
     \/ /\ there = "none" /\ there' = "resource" /\ UNCHANGED <<messages, consumers, marked, gone, destroyed>>
     \/ /\ there # "none" /\ there' = "none" /\ messages' = 0 /\ consumers' = 0 /\ marked' = FALSE
        /\ gone' = (gone \/ asked \/ served = "ok") /\ UNCHANGED destroyed
  /\ UNCHANGED <<broker, options, step, asked, served, counted, verdict>>
-----------------------------------------------------------------------------
(* The adapters *)

\* Faulty variant: options are passed over as if they were honoured.
RedisDeleteIgnoringOptions(opts) == Start("redis", opts, TRUE, "ask")

\* TYPE, XLEN and DEL in one script.
RedisDeleteStream(opts) == Start("redis", opts, opts = NoOptions, "ask")

\* A deletion that did not happen is an error; a new key of that name afterwards too.
RedisDeleted ==
  /\ broker = "redis" /\ step = "await" /\ served # "none"
  /\ IF served = "ok" THEN Continue("verify") ELSE Conclude("Failed")

RedisVerifies ==
  /\ broker = "redis" /\ step = "verify"
  /\ Conclude(IF there = "none" THEN "Ok" ELSE "Failed")

\* queue.delete-ok is the broker's own word that the queue is gone.
AmqpDeleteQueue(opts) == Start("amqp", opts, TRUE, "inspect")
AmqpDeclaresPassively == broker = "amqp" /\ step = "inspect" /\ Inspect("ask")
AmqpDeleted ==
  /\ broker = "amqp" /\ step = "await" /\ served # "none"
  /\ Conclude(IF served = "ok" THEN "Ok" ELSE "Failed")

\* GET, DELETE, and a GET that must find nothing.
ManagementDeleteQueue(opts) == Start("management", opts, TRUE, "inspect")
ManagementInspects ==
  /\ broker = "management" /\ step = "inspect"
  /\ "whole" \in Answers("management", BodyLimit, 200, 1) /\ Inspect("ask")

\* 204 without a body, or a body of JSON.
ManagementDeleted ==
  /\ broker = "management" /\ step = "await" /\ served # "none"
  /\ \E bytes \in {0, 1} : \E answer \in Answers("management", BodyLimit, 204, bytes) :
       IF served = "ok" /\ Success(answer) THEN Continue("verify") ELSE Conclude("Failed")

\* Only the answer that the queue is absent counts.
ManagementVerifies ==
  /\ broker = "management" /\ step = "verify"
  /\ \E answer \in Answers("management", BodyLimit, IF there = "none" THEN 404 ELSE 200, 1) :
       Conclude(IF answer = "absent" THEN "Ok" ELSE "Failed")

NatsDeleteStream(opts) == Start("nats", opts, opts = NoOptions, "inspect")
NatsInspects == broker = "nats" /\ step = "inspect" /\ Inspect("ask")
NatsDeleted ==
  /\ broker = "nats" /\ step = "await" /\ served # "none"
  /\ IF served = "ok" THEN Continue("verify") ELSE Conclude("Failed")
NatsVerifies ==
  /\ broker = "nats" /\ step = "verify"
  /\ Conclude(IF there = "none" THEN "Ok" ELSE "Failed")

RdkafkaDeleteTopic(opts) == Start("rdkafka", opts, opts = NoOptions, "inspect")
RskafkaDeleteTopic(opts) == Start("rskafka", opts, opts = NoOptions, "inspect")
KafkaInspects == broker \in Kafka /\ step = "inspect" /\ Inspect("ask")
KafkaDeleted ==
  /\ broker \in Kafka /\ step = "await" /\ served # "none"
  /\ IF served = "ok" THEN Continue("verify") ELSE Conclude("Failed")

\* Faulty variant: the accepted request counts as the deletion.
KafkaVerifiesNothing ==
  broker \in Kafka /\ step = "verify" /\ Conclude("Ok")

\* The topics are listed until this one is missing or five seconds are over.
KafkaVerifies ==
  /\ broker \in Kafka /\ step = "verify"
  /\ there = "none" /\ Conclude("Ok")

\* FlowControl drops the call.
DeletionDropped ==
  /\ step \notin {"idle", "over"}
  /\ asked' \in {asked, FALSE}
  /\ step' = "over" /\ verdict' = "OutcomeIndeterminate"
  /\ UNCHANGED <<caller, resource, served, counted>>

Deletion ==
  \/ RedisDeleted \/ RedisVerifies
  \/ AmqpDeclaresPassively \/ AmqpDeleted
  \/ ManagementInspects \/ ManagementDeleted \/ ManagementVerifies
  \/ NatsInspects \/ NatsDeleted \/ NatsVerifies
  \/ KafkaInspects \/ KafkaDeleted \/ KafkaVerifies
  \/ Ask \/ LooksInVain \/ DeletionBreaks \/ DeletionDropped

DeletionNext ==
  \/ \E opts \in Options : \/ RedisDeleteStream(opts) \/ AmqpDeleteQueue(opts)
                           \/ ManagementDeleteQueue(opts) \/ NatsDeleteStream(opts)
                           \/ RdkafkaDeleteTopic(opts) \/ RskafkaDeleteTopic(opts)
  \/ Deletion \/ ServeDeletion \/ KafkaTakesAway \/ OthersChange

DeletionSpec == DeletionInit /\ [][DeletionNext]_deletionVars
-----------------------------------------------------------------------------
(* Properties *)

DeletionTypeOK ==
  /\ broker \in Brokers /\ options \in Options
  /\ step \in {"idle", "inspect", "ask", "await", "verify", "over"}
  /\ there \in {"none", "resource", "other"} /\ messages \in 0..MaxMessages
  /\ consumers \in {0, 1} /\ counted \in 0..MaxMessages /\ changes \in 0..MaxChanges
  /\ marked \in BOOLEAN /\ asked \in BOOLEAN /\ gone \in BOOLEAN
  /\ served \in {"none", "ok", "refused"}
  /\ verdict \in {"none", "Ok", "Failed", "OutcomeIndeterminate"}

\* Success (verified_absent) means that the resource was seen to be gone, not only
\* that a broker has accepted to delete it some time; who creates a new one of the
\* same name meanwhile may make the call fail, never succeed falsely.
VerifiedAbsenceIsReal == verdict = "Ok" => gone

\* A deletion takes away what it was allowed to: no message with if_empty, no
\* consumer with if_unused, whatever was published since the resource was looked
\* at; on Redis nothing but a stream, and exactly the messages it reports.
DestructionIsAsAsked ==
  destroyed.done =>
    /\ options.if_empty => destroyed.messages = 0
    /\ options.if_unused => destroyed.consumers = 0
    /\ destroyed.kind = "resource"
    /\ broker = "redis" => counted = destroyed.messages
=============================================================================
