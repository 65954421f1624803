---------------------------- MODULE BatchConsume ----------------------------
(***************************************************************************)
(* Bounded consumption with broker-kept progress: `mq consume` on an AMQP  *)
(* queue, a JetStream durable, a Redis Streams group and a Kafka group.    *)
(* Each adapter reads a batch, converts all of it, and only then           *)
(* acknowledges it, in the way its protocol has: one multiple ACK that is  *)
(* never answered, concurrent verified ACKs, one XACK, one offset commit.  *)
(* Several consumers work on the same queue, group or durable; calls fail, *)
(* run into their deadlines, are dropped by FlowControl or die with their  *)
(* process, and requests and answers get lost.                             *)
(*                                                                         *)
(* The broker is modelled as far as the adapters rely on it: to whom a     *)
(* message is delivered, what takes it back, and what an acknowledgement   *)
(* does.  Deadlines may pass at any moment.                                *)
(***************************************************************************)
EXTENDS Naturals, FiniteSets

CONSTANTS
  Consumers,
  Nobody,
  Count,        \* the messages are numbered in the order of the queue
  PartitionOf,  \* the Kafka partition of each message
  Max,          \* ConsumeOptions.max
  Protocols,
  Unreadables   \* the sets of messages that may be beyond conversion or budget

Messages   == 1..Count
Partitions == {PartitionOf[m] : m \in Messages}

ASSUME BatchConsumeAssumption ==
  /\ Count \in Nat /\ Max \in Nat \ {0}
  /\ Nobody \notin Consumers
  /\ Protocols \subseteq {"amqp", "jetstream", "redis", "kafka"}
  /\ Unreadables \subseteq SUBSET Messages

VARIABLES
  protocol,    \* which adapter this is
  unreadable,  \* what its conversion or its read limiter refuses
  member,      \* Redis: the consumer name of each process; several may share one
  settled,     \* broker: acknowledged messages, those below the committed offsets
  holder,      \* broker: to whom an unsettled message is delivered
  owner,       \* Kafka: the assignment of the partitions
  open,        \* AMQP: the consumers whose channel is up
  wire,        \* acknowledgements under way, as <<consumer, message>>
  pc,          \* how far each call is
  ack,         \* whether it was asked to acknowledge on success
  batch,       \* the messages it has read
  confirmed,   \* JetStream: the acknowledgements the server confirmed to it
  result,      \* what it returned
  passed       \* history variable: every message that was ever settled

scenario == <<protocol, unreadable, member>>
broker   == <<settled, holder, owner, open, wire, passed>>
call     == <<pc, ack, batch, confirmed, result>>
vars == <<scenario, broker, call>>

Steps   == {"idle", "fetch", "fresh", "convert", "settle", "abort"}
Results == {"none", "Ok", "Failed", "OutcomeIndeterminate"}

Init ==
  /\ protocol \in Protocols
  /\ unreadable \in Unreadables
  /\ member \in {[c \in Consumers |-> c]} \cup
                (IF protocol = "redis" THEN {[c \in Consumers |-> d] : d \in Consumers} ELSE {})
  /\ settled = {} /\ passed = {}
  /\ holder = [m \in Messages |-> Nobody]
  /\ owner = [p \in Partitions |-> Nobody]
  /\ open = {} /\ wire = {}
  /\ pc = [c \in Consumers |-> "idle"]
  /\ ack = [c \in Consumers |-> FALSE]
  /\ batch = [c \in Consumers |-> {}]
  /\ confirmed = [c \in Consumers |-> {}]
  /\ result = [c \in Consumers |-> "none"]
-----------------------------------------------------------------------------
First(set)    == {m \in set : \A k \in set : m <= k}
Smallest(n, set) == {m \in set : Cardinality({k \in set : k < m}) < n}
Ready         == {m \in Messages : m \notin settled /\ holder[m] = Nobody}
HeldBy(name)  == {m \in Messages : holder[m] = name}
AckedBy(c)    == {m \in Messages : <<c, m>> \in wire}
\* Faulty variant: the batch may grow one message too long.
FullTooLate(messages) == Cardinality(messages) > Max

Full(messages) == Cardinality(messages) >= Max

At(c, p, step)  == protocol = p /\ pc[c] = step
Goto(c, step)   == pc' = [pc EXCEPT ![c] = step]
Return(c, r)    == Goto(c, "idle") /\ result' = [result EXCEPT ![c] = r]
                   /\ UNCHANGED <<ack, batch, confirmed>>
Hand(set, name) == holder' = [m \in Messages |-> IF m \in set THEN name ELSE holder[m]]
Settle(set)     == /\ settled' = settled \cup set
                   /\ passed' = passed \cup set
                   /\ Hand(set, Nobody)

\* consume() starts; it can fail before its first read, which changes nothing and
\* is left out.  AMQP has no read that does not acknowledge.  A consumer stands for
\* a new process only once the broker is done with the last one's requests.
Begin(c, acknowledge) ==
  /\ pc[c] = "idle" /\ AckedBy(c) = {} /\ c \notin open
  /\ protocol = "amqp" => acknowledge
  /\ Goto(c, "fetch")
  /\ ack' = [ack EXCEPT ![c] = acknowledge]
  /\ batch' = [batch EXCEPT ![c] = {}]
  /\ confirmed' = [confirmed EXCEPT ![c] = {}]
  /\ result' = [result EXCEPT ![c] = "none"]
  /\ open' = IF protocol = "amqp" THEN open \cup {c} ELSE open
  /\ UNCHANGED <<scenario, settled, holder, owner, wire, passed>>

\* The receive deadline passes; the loop ends with what it has.
DeadlinePasses(c) ==
  /\ protocol \in {"amqp", "jetstream", "kafka"} /\ pc[c] = "fetch"
  /\ Goto(c, IF protocol = "jetstream" THEN "convert" ELSE "settle")
  /\ UNCHANGED <<scenario, broker, ack, batch, confirmed, result>>

\* Takes m into the batch and goes on, at the latest when the batch is full.
Take(c, m, then) ==
  /\ batch' = [batch EXCEPT ![c] = @ \cup {m}]
  /\ Goto(c, IF Full(batch'[c]) THEN then ELSE "fetch")
  /\ UNCHANGED <<ack, confirmed, result>>
-----------------------------------------------------------------------------
(* AMQP: basic.get in a loop, each delivery converted at once *)

AmqpGet(c) ==
  /\ At(c, "amqp", "fetch") /\ c \in open
  /\ \E m \in First(Ready) :
       /\ Hand({m}, c)
       /\ IF m \in unreadable
          THEN Goto(c, "abort") /\ UNCHANGED <<ack, batch, confirmed, result>>
          ELSE IF Ready = {m}  \* message_count = 0
          THEN /\ batch' = [batch EXCEPT ![c] = @ \cup {m}]
               /\ Goto(c, "settle") /\ UNCHANGED <<ack, confirmed, result>>
          ELSE Take(c, m, "settle")
  /\ UNCHANGED <<scenario, settled, owner, open, wire, passed>>

\* An error, or the receive deadline in the middle of a get whose delivery may
\* still be made.
AmqpGetFails(c) ==
  /\ At(c, "amqp", "fetch")
  /\ Goto(c, "abort")
  /\ \/ UNCHANGED holder
     \/ c \in open /\ \E m \in First(Ready) : Hand({m}, c)
  /\ UNCHANGED <<scenario, settled, owner, open, wire, passed, ack, batch, confirmed, result>>

\* Faulty variant: an error of the ACK is answered by closing the channel, as if
\* that took a frame back that may be on its way.
AmqpAckThenClose(c) ==
  /\ At(c, "amqp", "settle")
  /\ \/ batch[c] = {} /\ Return(c, "Ok") /\ UNCHANGED <<wire, open, holder>>
     \/ /\ batch[c] # {} /\ c \in open
        /\ wire' = wire \cup ({c} \X batch[c])
        /\ \/ Return(c, "Ok") /\ UNCHANGED <<open, holder>>
           \/ Return(c, "Failed") /\ Hand(HeldBy(c), Nobody) /\ UNCHANGED open
  /\ UNCHANGED <<scenario, settled, owner, passed>>

\* One multiple ACK for the last tag, if the limiter passes the whole batch and
\* the deadline has not passed.  The broker does not answer it; an error leaves
\* open whether it was sent.
AmqpAck(c) ==
  /\ At(c, "amqp", "settle")
  /\ \/ batch[c] = {} /\ Return(c, "Ok") /\ UNCHANGED wire
     \/ batch[c] # {} /\ Goto(c, "abort") /\ UNCHANGED <<ack, batch, confirmed, result, wire>>
     \/ /\ batch[c] # {}
        /\ \E sent \in {{}, {c} \X batch[c]} :
             /\ wire' = IF c \in open THEN wire \cup sent ELSE wire
             /\ \/ sent # {} /\ Return(c, "Ok")
                \/ Return(c, "OutcomeIndeterminate")
  /\ UNCHANGED <<scenario, settled, holder, owner, open, passed>>

\* abort_unacknowledged_batch: close-ok proves that the broker requeues.
AmqpAbort(c) ==
  /\ At(c, "amqp", "abort")
  /\ \/ /\ c \in open
        /\ Return(c, "Failed")
        /\ open' = open \ {c} /\ Hand(HeldBy(c), Nobody)
     \/ Return(c, "OutcomeIndeterminate") /\ UNCHANGED <<open, holder>>
  /\ UNCHANGED <<scenario, settled, owner, wire, passed>>

\* The broker takes the ACK in, or notices that the channel is gone.
AmqpAckArrives(c) ==
  /\ protocol = "amqp" /\ AckedBy(c) # {}
  /\ Settle(AckedBy(c))
  /\ wire' = wire \ ({c} \X Messages)
  /\ UNCHANGED <<scenario, owner, open, call>>

AmqpChannelLost(c) ==
  /\ protocol = "amqp" /\ c \in open
  /\ open' = open \ {c} /\ Hand(HeldBy(c), Nobody)
  /\ wire' = wire \ ({c} \X Messages)
  /\ UNCHANGED <<scenario, settled, owner, passed, call>>
-----------------------------------------------------------------------------
(* JetStream: pull, convert, verified ACKs *)

JetStreamFetch(c) ==
  /\ At(c, "jetstream", "fetch")
  /\ \E m \in First(Ready) : Hand({m}, c) /\ Take(c, m, "convert")
  /\ UNCHANGED <<scenario, settled, owner, open, wire, passed>>

JetStreamFetchFails(c) ==
  /\ At(c, "jetstream", "fetch")
  /\ Return(c, "Failed")
  /\ UNCHANGED <<scenario, broker>>

\* The whole batch is converted before the first ACK is sent.
Convert(c) ==
  /\ pc[c] = "convert"
  /\ IF batch[c] \cap unreadable # {} THEN Return(c, "Failed") /\ UNCHANGED wire
     ELSE IF ~ack[c] THEN \E r \in {"Ok", "Failed"} : Return(c, r) /\ UNCHANGED wire
     ELSE \/ /\ Goto(c, "settle")
             /\ wire' = IF protocol = "jetstream" THEN wire \cup ({c} \X batch[c]) ELSE wire
             /\ UNCHANGED <<ack, batch, confirmed, result>>
          \/ Return(c, "Failed") /\ UNCHANGED wire  \* deadline, or the batch's budget
  /\ UNCHANGED <<scenario, settled, holder, owner, open, passed>>

\* The server takes one ACK in; its confirmation may be lost or come too late.
JetStreamAckArrives(c, m) ==
  /\ protocol = "jetstream" /\ <<c, m>> \in wire
  /\ Settle({m})
  /\ wire' = wire \ {<<c, m>>}
  /\ \/ UNCHANGED confirmed
     \/ pc[c] = "settle" /\ confirmed' = [confirmed EXCEPT ![c] = @ \cup {m}]
  /\ UNCHANGED <<scenario, owner, open, pc, ack, batch, result>>

JetStreamAckLost(c, m) ==
  /\ protocol = "jetstream" /\ <<c, m>> \in wire
  /\ wire' = wire \ {<<c, m>>}
  /\ UNCHANGED <<scenario, settled, holder, owner, open, passed, call>>

\* Faulty variant: the first confirmation is taken for all of them.
JetStreamAckedOnce(c) ==
  /\ At(c, "jetstream", "settle")
  /\ confirmed[c] # {} /\ Return(c, "Ok")
  /\ UNCHANGED <<scenario, broker>>

\* try_join_all under the rest of the deadline: all are confirmed, or one failed
\* or is late and nobody waits for the others any more.
JetStreamAcked(c) ==
  /\ At(c, "jetstream", "settle")
  /\ \/ batch[c] = confirmed[c] /\ Return(c, "Ok")
     \/ batch[c] # {} /\ Return(c, "Failed")
  /\ UNCHANGED <<scenario, broker>>

AckWaitExpires(m) ==
  /\ protocol = "jetstream" /\ holder[m] # Nobody
  /\ Hand({m}, Nobody)
  /\ UNCHANGED <<scenario, settled, owner, open, wire, passed, call>>
-----------------------------------------------------------------------------
(* Redis Streams: the member's own pending entries, then new ones *)

\* Faulty variant: pending entries are not read again.
RedisReplayNothing(c) ==
  /\ At(c, "redis", "fetch")
  /\ Goto(c, "fresh")
  /\ UNCHANGED <<scenario, broker, ack, batch, confirmed, result>>

\* XREADGROUP ... 0; a call that waited too long for the connection reads nothing.
RedisReplay(c) ==
  /\ At(c, "redis", "fetch")
  /\ \/ /\ batch' = [batch EXCEPT ![c] = Smallest(Max, HeldBy(member[c]))]
        /\ Goto(c, IF Full(batch'[c]) THEN "convert" ELSE "fresh")
        /\ UNCHANGED <<ack, confirmed, result>>
     \/ Return(c, "Ok")
  /\ UNCHANGED <<scenario, broker>>

\* XREADGROUP ... >, unless the deadline has passed or nothing arrives before it
RedisReadNew(c) ==
  /\ At(c, "redis", "fresh")
  /\ LET fresh == Smallest(Max - Cardinality(batch[c]), Ready)
     IN  \/ Hand(fresh, member[c]) /\ batch' = [batch EXCEPT ![c] = @ \cup fresh]
         \/ UNCHANGED <<holder, batch>>
  /\ Goto(c, "convert")
  /\ UNCHANGED <<scenario, settled, owner, open, wire, passed, ack, confirmed, result>>

\* The connection fails; new entries may have been delivered to the member.
RedisReadFails(c) ==
  /\ protocol = "redis" /\ pc[c] \in {"fetch", "fresh"}
  /\ Return(c, "Failed")
  /\ \/ UNCHANGED holder
     \/ pc[c] = "fresh" /\ Hand(Smallest(Max - Cardinality(batch[c]), Ready), member[c])
  /\ UNCHANGED <<scenario, settled, owner, open, wire, passed>>

\* One XACK: it succeeds when it acknowledged as many entries as were asked for;
\* the command or its answer may be lost.
RedisXack(c) ==
  /\ At(c, "redis", "settle")
  /\ \/ Settle(batch[c])
        /\ \/ batch[c] \cap settled = {} /\ Return(c, "Ok")
           \/ batch[c] # {} /\ Return(c, "Failed")
     \/ batch[c] # {} /\ Return(c, "Failed") /\ UNCHANGED <<settled, passed, holder>>
  /\ UNCHANGED <<scenario, owner, open, wire>>
-----------------------------------------------------------------------------
(* Kafka: poll the assigned partitions, convert at once, commit offsets *)

\* What c has been handed lies below its position in the partition.
Polled(c, k) == \E j \in HeldBy(c) : PartitionOf[j] = PartitionOf[k] /\ k <= j

Unpolled(c, p) ==
  {m \in Messages : PartitionOf[m] = p /\ m \notin settled /\ ~Polled(c, m)}

\* However a call ends, its short-lived consumer leaves the group.
LeaveGroup(c) ==
  /\ owner' = [p \in Partitions |-> IF owner[p] = c THEN Nobody ELSE owner[p]]
  /\ IF protocol = "kafka" THEN Hand(HeldBy(c), Nobody) ELSE UNCHANGED holder

\* Faulty variant: what cannot be converted, a tombstone say, is skipped.
KafkaPollSkipping(c) ==
  /\ At(c, "kafka", "fetch")
  /\ \E p \in Partitions : owner[p] = c /\ \E m \in First(Unpolled(c, p) \ unreadable) :
       Take(c, m, "settle") /\ Hand({m}, c)
  /\ UNCHANGED <<scenario, settled, owner, open, wire, passed>>

KafkaPoll(c) ==
  /\ At(c, "kafka", "fetch")
  /\ \E p \in Partitions : owner[p] = c /\ \E m \in First(Unpolled(c, p)) :
       IF m \in unreadable THEN Return(c, "Failed") /\ LeaveGroup(c)
       ELSE Take(c, m, "settle") /\ Hand({m}, c) /\ UNCHANGED owner
  /\ UNCHANGED <<scenario, settled, open, wire, passed>>

KafkaPollFails(c) ==
  /\ At(c, "kafka", "fetch")
  /\ Return(c, "Failed") /\ LeaveGroup(c)
  /\ UNCHANGED <<scenario, settled, open, wire, passed>>

\* next_offsets_for_batch: the largest offset of the batch in each partition, plus
\* one, becomes the committed offset, larger or smaller than it was.
Committed(messages) ==
  {m \in Messages :
     IF \E k \in messages : PartitionOf[k] = PartitionOf[m]
     THEN \E k \in messages : PartitionOf[k] = PartitionOf[m] /\ m <= k
     ELSE m \in settled}

\* The limiter passes or refuses the batch; then commit(Sync), which the group may
\* refuse, and whose answer may be lost.
KafkaCommit(c) ==
  /\ At(c, "kafka", "settle")
  /\ LeaveGroup(c)
  /\ \/ (~ack[c] \/ batch[c] = {}) /\ Return(c, "Ok") /\ UNCHANGED <<settled, passed>>
     \/ /\ ack[c] /\ batch[c] # {}
        /\ settled' = Committed(batch[c]) /\ passed' = passed \cup settled'
        /\ \E r \in {"Ok", "Failed"} : Return(c, r)
     \/ batch[c] # {} /\ Return(c, "Failed") /\ UNCHANGED <<settled, passed>>
  /\ UNCHANGED <<scenario, open, wire>>

\* The group moves a partition; whoever gets it starts at the committed offset.
KafkaRebalance(p, c) ==
  /\ protocol = "kafka" /\ owner[p] # c /\ pc[c] = "fetch"
  /\ owner' = [owner EXCEPT ![p] = c]
  /\ Hand({m \in Messages : PartitionOf[m] = p}, Nobody)
  /\ UNCHANGED <<scenario, settled, open, wire, passed, call>>
-----------------------------------------------------------------------------
\* FlowControl drops the future, or the process dies, at any step.
Interrupted(c) ==
  /\ pc[c] # "idle"
  /\ Goto(c, "idle")
  /\ LeaveGroup(c)
  /\ UNCHANGED <<scenario, settled, open, wire, passed, ack, batch, confirmed, result>>

Amqp(c)      == AmqpGet(c) \/ AmqpGetFails(c) \/ AmqpAck(c) \/ AmqpAbort(c)
                  \/ AmqpAckArrives(c) \/ AmqpChannelLost(c)
JetStream(c) == \/ JetStreamFetch(c) \/ JetStreamFetchFails(c) \/ JetStreamAcked(c)
                \/ \E m \in Messages : JetStreamAckArrives(c, m) \/ JetStreamAckLost(c, m)
Redis(c)     == RedisReplay(c) \/ RedisReadNew(c) \/ RedisReadFails(c) \/ RedisXack(c)
Kafka(c)     == \/ KafkaPoll(c) \/ KafkaPollFails(c) \/ KafkaCommit(c)
                \/ \E p \in Partitions : KafkaRebalance(p, c)

Next ==
  \/ \E c \in Consumers :
       \/ \E acknowledge \in BOOLEAN : Begin(c, acknowledge)
       \/ DeadlinePasses(c) \/ Convert(c) \/ Interrupted(c)
       \/ Amqp(c) \/ JetStream(c) \/ Redis(c) \/ Kafka(c)
  \/ \E m \in Messages : AckWaitExpires(m)

Spec == Init /\ [][Next]_vars
-----------------------------------------------------------------------------
(* Properties *)

\* Every variable has its type, and no call reads more than it may.
TypeOK ==
  /\ protocol \in Protocols /\ unreadable \in Unreadables
  /\ member \in [Consumers -> Consumers]
  /\ settled \subseteq Messages /\ passed \subseteq Messages
  /\ holder \in [Messages -> Consumers \cup {Nobody}]
  /\ owner \in [Partitions -> Consumers \cup {Nobody}]
  /\ open \subseteq Consumers /\ wire \subseteq Consumers \X Messages
  /\ pc \in [Consumers -> Steps] /\ ack \in [Consumers -> BOOLEAN]
  /\ \A c \in Consumers : batch[c] \subseteq Messages /\ Cardinality(batch[c]) <= Max
  /\ confirmed \in [Consumers -> SUBSET Messages]
  /\ result \in [Consumers -> Results]

\* What a call may still settle: its converted batch while it acknowledges, and
\* the acknowledgements it has under way.
Claims == [c \in Consumers |->
             AckedBy(c) \cup (IF pc[c] = "settle" /\ ack[c] THEN batch[c] ELSE {})]

\* The broker's progress moves past a message only by a call that asked for it
\* and had converted its whole batch: through lost answers, late and repeated
\* acknowledgements, rebalances and offset commits that pass over a gap.
Contract == INSTANCE AtLeastOnce WITH claim <- Claims
AtLeastOncePromise == Contract!Spec

\* Success means that the whole batch was acknowledged, on every broker that
\* answers an acknowledgement; a partial one is never reported as success.
OkMeansSettled ==
  \A c \in Consumers :
    protocol # "amqp" /\ result[c] = "Ok" /\ ack[c] => batch[c] \subseteq passed

\* A definite AMQP error proves that the queue has the batch again: nothing of it
\* is on the closed channel and no acknowledgement is under way.
AmqpFailureRequeues ==
  \A c \in Consumers :
    protocol = "amqp" /\ result[c] = "Failed" => HeldBy(c) = {} /\ AckedBy(c) = {}

\* A Redis member that no other process uses takes new entries only once its
\* batch has all its pending ones: with --ack none its next call sees the same
\* entries again.
PendingIsReplayedFirst ==
  \A c \in Consumers :
    At(c, "redis", "fresh") /\ (\A d \in Consumers \ {c} : member[d] # member[c])
      => HeldBy(member[c]) \subseteq batch[c]
=============================================================================
