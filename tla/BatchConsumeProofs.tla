------------------------- MODULE BatchConsumeProofs -------------------------
(***************************************************************************)
(* What bounded consumption guarantees for every number of consumers and   *)
(* messages, on every protocol, and that it implements AtLeastOnce.  The   *)
(* inductive invariant IInv says what a call knows of its batch at each of *)
(* its steps: how large it may be, that it was converted before it is      *)
(* settled, and, on Kafka, that it has no gap in front of its last message *)
(* but messages the committed offset has already moved past.               *)
(***************************************************************************)
EXTENDS BatchConsume, FiniteSetTheorems, TLAPS

\* Each protocol has its own steps.
StepInv(c) ==
  /\ pc[c] = "fresh" => protocol = "redis"
  /\ pc[c] = "convert" => protocol \in {"jetstream", "redis"}
  /\ pc[c] = "abort" => protocol = "amqp"
  /\ pc[c] # "idle" => result[c] = "none"

\* A batch that may still grow has room for a message.
RoomInv(c) ==
  pc[c] = "fetch" =>
    /\ Cardinality(batch[c]) < Max
    /\ protocol = "redis" => batch[c] = {}

\* Only a call that was asked to acknowledge gets to settle, except on Kafka,
\* where it decides at the commit.
AskedInv(c) ==
  /\ protocol = "amqp" /\ pc[c] # "idle" => ack[c]
  /\ protocol # "kafka" /\ pc[c] = "settle" => ack[c]

\* A batch is converted before it is settled; AMQP and Kafka convert each
\* message as they get it.
ReadableInv(c) ==
  /\ pc[c] = "settle" => batch[c] \cap unreadable = {}
  /\ protocol \in {"amqp", "kafka"} /\ pc[c] = "fetch" => batch[c] \cap unreadable = {}

\* An acknowledgement of AMQP leaves with the end of its call.
WireInv(c) == protocol = "amqp" /\ pc[c] # "idle" => AckedBy(c) = {}

\* On Kafka a message in front of a polled one was polled or passed before, and
\* what a consumer was handed is in its batch.
PositionInv(c) ==
  protocol = "kafka" =>
    /\ pc[c] = "idle" => HeldBy(c) = {}
    /\ HeldBy(c) \subseteq batch[c]
    /\ \A m \in batch[c] : \A k \in Messages :
         k < m /\ PartitionOf[k] = PartitionOf[m] => k \in batch[c] \cup passed

CallInv(c) == StepInv(c) /\ RoomInv(c) /\ AskedInv(c) /\ ReadableInv(c)
              /\ WireInv(c) /\ PositionInv(c) /\ confirmed[c] \subseteq passed

\* The invariants of the runs, one consumer at a time.
SettledInv(c) ==
  protocol # "amqp" /\ result[c] = "Ok" /\ ack[c] => batch[c] \subseteq passed
RequeuedInv(c) ==
  protocol = "amqp" /\ result[c] = "Failed" => HeldBy(c) = {} /\ AckedBy(c) = {}
ReplayedInv(c) ==
  At(c, "redis", "fresh") /\ (\A d \in Consumers \ {c} : member[d] # member[c])
    => HeldBy(member[c]) \subseteq batch[c]

ConsumerInv(c) == CallInv(c) /\ SettledInv(c) /\ RequeuedInv(c) /\ ReplayedInv(c)

TypeInv == TypeOK /\ batch \in [Consumers -> SUBSET Messages] /\ settled \subseteq passed

IInv == TypeInv /\ \A c \in Consumers : ConsumerInv(c)
-----------------------------------------------------------------------------
(* Lemmas on sets of messages.                                             *)

\* Batches can be counted.
LEMMA Counting ==
  ASSUME NEW S \in SUBSET Messages
  PROVE  /\ IsFiniteSet(S) /\ Cardinality(S) \in Nat
         /\ \A m : Cardinality(S \cup {m}) <= Cardinality(S) + 1
<1>1. IsFiniteSet(Messages)
  BY BatchConsumeAssumption, FS_Interval DEF Messages
<1>2. IsFiniteSet(S) /\ Cardinality(S) \in Nat
  BY <1>1, FS_Subset, FS_CardinalityType
<1>3. ASSUME NEW m PROVE Cardinality(S \cup {m}) <= Cardinality(S) + 1
  BY <1>2, FS_AddElement
<1> QED
  BY <1>2, <1>3

\* Messages are numbers.
LEMMA MessageType == Messages \subseteq Nat
  BY BatchConsumeAssumption DEF Messages

\* Every set of natural numbers has a least element.
LEMMA LeastElement ==
  ASSUME NEW T \in SUBSET Nat, T # {}
  PROVE  \E x \in T : \A y \in T : x <= y
<1> DEFINE R == OpToRel(<, Nat)
<1>1. IsWellFoundedOn(R, Nat)
  BY NatLessThanWellFounded
<1>2. \A x, y \in Nat : y < x => <<y, x>> \in R
  BY DEF OpToRel
<1> HIDE DEF R
<1>3. PICK x \in T : \A y \in T : ~ (<<y, x>> \in R)
  BY <1>1, WFMin
<1>4. \A y \in T : ~(y < x)
  BY <1>2, <1>3
<1> QED
  BY <1>4

\* And every set of messages has a last one.
LEMMA LastElement ==
  ASSUME NEW T \in SUBSET Messages, T # {}
  PROVE  \E x \in T : \A y \in T : y <= x
<1> DEFINE D == {Count - m : m \in T}
<1>1. T \subseteq Nat /\ \A m \in T : m <= Count
  BY MessageType DEF Messages
<1>2. D \in SUBSET Nat /\ D # {}
  <2>1. \A m \in T : Count - m \in Nat
    BY <1>1, BatchConsumeAssumption
  <2> QED
    BY <2>1
<1>3. PICK d \in D : \A e \in D : d <= e
  BY <1>2, LeastElement
<1>4. PICK x \in T : d = Count - x
  BY <1>3
<1>5. \A y \in T : Count - x <= Count - y
  BY <1>3, <1>4
<1> QED
  BY <1>1, <1>4, <1>5, BatchConsumeAssumption

\* XREADGROUP ... COUNT n: at most n entries, and all of them if there are fewer.
LEMMA SmallestIsBounded ==
  ASSUME NEW S \in SUBSET Messages, NEW n \in Nat
  PROVE  /\ Smallest(n, S) \in SUBSET S
         /\ Cardinality(Smallest(n, S)) <= n
         /\ Cardinality(Smallest(n, S)) < n => Smallest(n, S) = S
<1> DEFINE L == Smallest(n, S)
           Before(m) == {k \in S : k < m}
<1>1. L \in SUBSET S /\ L \in SUBSET Messages
  BY DEF Smallest
<1>2. \A m : Before(m) \in SUBSET Messages
  OBVIOUS
<1>3. L = {m \in S : Cardinality(Before(m)) < n}
  BY DEF Smallest
<1>4. Cardinality(L) <= n
  <2>1. CASE L = {}
    BY <2>1, FS_EmptySet
  <2>2. CASE L # {}
    <3>1. PICK x \in L : \A y \in L : y <= x
      BY <1>1, <2>2, LastElement
    <3>2. L \subseteq Before(x) \cup {x}
      BY <1>1, <3>1 DEF Messages
    <3>3. Cardinality(Before(x)) < n /\ Cardinality(Before(x)) \in Nat
      BY <1>2, <1>3, <3>1, Counting
    <3>4. Cardinality(Before(x) \cup {x}) <= Cardinality(Before(x)) + 1
      BY <1>2, Counting
    <3>5. /\ Before(x) \cup {x} \in SUBSET Messages
      BY <1>1, <3>1
    <3>6. Cardinality(L) <= Cardinality(Before(x) \cup {x})
      BY <3>2, <3>5, Counting, FS_Subset
    <3>7. Cardinality(L) \in Nat /\ Cardinality(Before(x) \cup {x}) \in Nat
      BY <1>1, <3>5, Counting
    <3> HIDE DEF L, Before
    <3> QED
      BY <3>3, <3>4, <3>6, <3>7
  <2> QED
    BY <2>1, <2>2
<1>5. ASSUME Cardinality(L) < n PROVE L = S
  <2> SUFFICES ASSUME S \ L # {} PROVE FALSE
    BY <1>1
  <2>1. PICK x \in S \ L : \A y \in S \ L : x <= y
    <3>1. S \ L \in SUBSET Nat
      BY MessageType
    <3> QED
      BY <3>1, LeastElement
  <2>2. Before(x) \subseteq L
    <3>1. S \subseteq Nat
      BY MessageType
    <3> HIDE DEF L
    <3>2. ASSUME NEW k \in S, k < x PROVE k \in L
      <4>1. k \in Nat /\ x \in Nat /\ ~(x <= k)
        BY <2>1, <3>1, <3>2
      <4> QED
        BY <2>1, <4>1
    <3> QED
      BY <3>2
  <2>3. Cardinality(Before(x)) <= Cardinality(L)
    BY <1>1, <2>2, Counting, FS_Subset
  <2>4. Cardinality(Before(x)) \in Nat /\ Cardinality(L) \in Nat
    BY <1>1, <1>2, Counting
  <2>5. Cardinality(Before(x)) < n
    <3> HIDE DEF L, Before
    <3> QED
      BY <1>5, <2>3, <2>4
  <2> QED
    BY <1>3, <2>1, <2>5
<1> QED
  BY <1>1, <1>4, <1>5
-----------------------------------------------------------------------------
(* Lemmas on what a step does to the calls and to the broker.              *)

\* To whom messages are handed by a step of c.
Receiver(c) == IF protocol = "redis" THEN member[c] ELSE c

\* A step of c leaves the calls of others alone, adds no acknowledgement of
\* theirs, and hands messages to nobody but c.
CallsKept(c) ==
  \A d \in Consumers \ {c} : /\ pc'[d] = pc[d] /\ ack'[d] = ack[d] /\ batch'[d] = batch[d]
                             /\ confirmed'[d] = confirmed[d] /\ result'[d] = result[d]
WireKept(c) ==
  \A d \in Consumers \ {c} : \A m \in Messages : <<d, m>> \in wire' => <<d, m>> \in wire
HoldersKept(c) ==
  \A x \in Consumers \ {Receiver(c)} : \A m \in Messages : holder'[m] = x => holder[m] = x

\* What is known of a consumer stays true while others work.
LEMMA OthersKept ==
  ASSUME IInv, NEW c \in Consumers, NEW d \in Consumers \ {c},
         UNCHANGED <<protocol, unreadable, member>>, passed \subseteq passed',
         CallsKept(c), WireKept(c), HoldersKept(c)
  PROVE  ConsumerInv(d)'
<1>1. /\ pc'[d] = pc[d] /\ ack'[d] = ack[d] /\ batch'[d] = batch[d]
      /\ confirmed'[d] = confirmed[d] /\ result'[d] = result[d]
  BY DEF CallsKept
<1>2. ConsumerInv(d) /\ member[d] \in Consumers /\ member[c] \in Consumers
  BY DEF IInv, TypeInv, TypeOK
<1>3. AckedBy(d)' \subseteq AckedBy(d)
  BY DEF WireKept, AckedBy
<1>4. protocol # "redis" => HeldBy(d)' \subseteq HeldBy(d)
  BY DEF HoldersKept, Receiver, HeldBy
<1>5. protocol = "redis" /\ member[d] # member[c]
        => {m \in Messages : holder'[m] = member[d]} \subseteq HeldBy(member[d])
  BY <1>2 DEF HoldersKept, Receiver, HeldBy
<1>6. CallInv(d)'
  <2>1. StepInv(d)' /\ RoomInv(d)' /\ AskedInv(d)' /\ ReadableInv(d)'
    BY <1>1, <1>2 DEF ConsumerInv, CallInv, StepInv, RoomInv, AskedInv, ReadableInv
  <2>2. WireInv(d)'
    BY <1>1, <1>2, <1>3 DEF ConsumerInv, CallInv, WireInv
  <2>3. PositionInv(d)'
    BY <1>1, <1>2, <1>4 DEF ConsumerInv, CallInv, PositionInv
  <2>4. confirmed'[d] \subseteq passed'
    BY <1>1, <1>2 DEF ConsumerInv, CallInv
  <2> QED
    BY <2>1, <2>2, <2>3, <2>4 DEF CallInv
<1>7. SettledInv(d)'
  BY <1>1, <1>2 DEF ConsumerInv, SettledInv
<1>8. RequeuedInv(d)'
  BY <1>1, <1>2, <1>3, <1>4 DEF ConsumerInv, RequeuedInv
<1>9. ReplayedInv(d)'
  <2>1. SUFFICES ASSUME At(d, "redis", "fresh"), \A e \in Consumers \ {d} : member[e] # member[d]
                 PROVE  HeldBy(member[d])' \subseteq batch[d]
    BY <1>1 DEF ReplayedInv, At
  <2>2. HeldBy(member[d]) \subseteq batch[d]
    BY <1>2, <2>1 DEF ConsumerInv, ReplayedInv
  <2>3. HeldBy(member[d])' = {m \in Messages : holder'[m] = member[d]}
    BY DEF HeldBy
  <2> QED
    BY <1>2, <1>5, <2>1, <2>2, <2>3 DEF At
<1> QED
  BY <1>6, <1>7, <1>8, <1>9 DEF ConsumerInv

\* The invariant after a step of c.
LEMMA CallStep ==
  ASSUME IInv, NEW c \in Consumers, TypeInv',
         UNCHANGED <<protocol, unreadable, member>>, passed \subseteq passed',
         CallsKept(c), WireKept(c), HoldersKept(c), ConsumerInv(c)'
  PROVE  IInv'
<1>1. \A d \in Consumers : ConsumerInv(d)'
  BY OthersKept
<1> QED
  BY <1>1 DEF IInv

\* Handing messages over.
LEMMA HandEffect ==
  ASSUME TypeInv, NEW S \in SUBSET Messages, NEW n \in Consumers \cup {Nobody}, Hand(S, n)
  PROVE  /\ holder' \in [Messages -> Consumers \cup {Nobody}]
         /\ \A m \in Messages : holder'[m] = IF m \in S THEN n ELSE holder[m]
  BY DEF TypeInv, TypeOK, Hand

\* What Hand leaves with others.
LEMMA HandKeeps ==
  ASSUME TypeInv, NEW c \in Consumers, NEW S \in SUBSET Messages,
         NEW n \in {Receiver(c), Nobody}, Hand(S, n)
  PROVE  HoldersKept(c)
<1>1. n \in Consumers \cup {Nobody}
  BY DEF Receiver, TypeInv, TypeOK
<1>2. \A m \in Messages : holder'[m] = IF m \in S THEN n ELSE holder[m]
  BY <1>1, HandEffect
<1> QED
  BY <1>2, BatchConsumeAssumption DEF HoldersKept

\* A call that has read another message.
LEMMA GotoEffect ==
  ASSUME TypeInv, NEW c \in Consumers, NEW step \in Steps, Goto(c, step)
  PROVE  /\ pc' \in [Consumers -> Steps] /\ pc'[c] = step
         /\ \A d \in Consumers \ {c} : pc'[d] = pc[d]
  BY DEF TypeInv, TypeOK, Goto

\* A call that returns: its batch and its confirmations are forgotten.
LEMMA ReturnEffect ==
  ASSUME TypeInv, NEW c \in Consumers, NEW r \in Results, Return(c, r)
  PROVE  /\ pc' \in [Consumers -> Steps] /\ pc'[c] = "idle"
         /\ result' \in [Consumers -> Results] /\ result'[c] = r
         /\ UNCHANGED <<ack, batch, confirmed>>
         /\ CallsKept(c)
<1>1. "idle" \in Steps
  BY DEF Steps
<1>2. pc' = [pc EXCEPT ![c] = "idle"] /\ result' = [result EXCEPT ![c] = r]
  BY DEF Return, Goto
<1> QED
  BY <1>1, <1>2 DEF TypeInv, TypeOK, Return, CallsKept

\* What must hold when a call returns.
LEMMA Returned ==
  ASSUME IInv, NEW c \in Consumers, NEW r \in Results, Return(c, r),
         UNCHANGED <<protocol, unreadable, member>>, passed \subseteq passed',
         protocol = "kafka" => HeldBy(c)' = {},
         r = "Ok" /\ protocol # "amqp" /\ ack[c] => batch[c] \subseteq passed',
         r = "Failed" /\ protocol = "amqp" => HeldBy(c)' = {} /\ AckedBy(c)' = {}
  PROVE  ConsumerInv(c)'
<1>1. pc'[c] = "idle" /\ result'[c] = r /\ UNCHANGED <<ack, batch, confirmed>>
  BY ReturnEffect DEF IInv
<1>2. ConsumerInv(c)
  BY DEF IInv
<1>3. CallInv(c)'
  BY <1>1, <1>2 DEF ConsumerInv, CallInv, StepInv, RoomInv, AskedInv, ReadableInv, WireInv,
                    PositionInv
<1>4. SettledInv(c)' /\ RequeuedInv(c)' /\ ReplayedInv(c)'
  BY <1>1 DEF SettledInv, RequeuedInv, ReplayedInv, At
<1> QED
  BY <1>3, <1>4 DEF ConsumerInv

\* The type invariant when no batch changes.
LEMMA TypeKept ==
  ASSUME TypeInv, UNCHANGED <<protocol, unreadable, member, ack, batch, confirmed>>,
         settled' \subseteq passed', passed' \subseteq Messages,
         holder' \in [Messages -> Consumers \cup {Nobody}],
         owner' \in [Partitions -> Consumers \cup {Nobody}],
         open' \subseteq Consumers, wire' \subseteq Consumers \X Messages,
         pc' \in [Consumers -> Steps], result' \in [Consumers -> Results]
  PROVE  TypeInv'
  BY DEF TypeInv, TypeOK

\* What the type invariant says of the broker.
LEMMA BrokerType ==
  ASSUME TypeInv
  PROVE  /\ settled \subseteq passed /\ passed \subseteq Messages
         /\ holder \in [Messages -> Consumers \cup {Nobody}]
         /\ owner \in [Partitions -> Consumers \cup {Nobody}]
         /\ open \subseteq Consumers /\ wire \subseteq Consumers \X Messages
         /\ pc \in [Consumers -> Steps] /\ result \in [Consumers -> Results]
  BY DEF TypeInv, TypeOK

\* The unchanged parts of the state, one variable at a time.
LEMMA ScenarioKept ==
  ASSUME UNCHANGED scenario PROVE UNCHANGED <<protocol, unreadable, member>>
  BY DEF scenario
\* The same for the broker ...
LEMMA BrokerKept ==
  ASSUME UNCHANGED broker PROVE UNCHANGED <<settled, holder, owner, open, wire, passed>>
  BY DEF broker
\* ... and for the call.
LEMMA CallAllKept ==
  ASSUME UNCHANGED call PROVE UNCHANGED <<pc, ack, batch, confirmed, result>>
  BY DEF call

\* A step that does not touch the broker keeps others as they are.
LEMMA BrokerKeeps ==
  ASSUME NEW c \in Consumers, UNCHANGED <<wire, holder>>
  PROVE  WireKept(c) /\ HoldersKept(c)
  BY DEF WireKept, HoldersKept
-----------------------------------------------------------------------------
(* The steps of every protocol.                                            *)

\* Begin keeps the inductive invariant.
LEMMA BeginStep ==
  ASSUME IInv, NEW c \in Consumers, NEW acknowledge \in BOOLEAN, Begin(c, acknowledge)
  PROVE  IInv'
<1>1. TypeInv /\ ConsumerInv(c) /\ UNCHANGED <<protocol, unreadable, member>>
      /\ UNCHANGED <<settled, holder, owner, wire, passed>>
      /\ pc[c] = "idle" /\ AckedBy(c) = {} /\ (protocol = "amqp" => acknowledge)
  BY DEF Begin, IInv, scenario
<1>2. "fetch" \in Steps /\ "none" \in Results
  BY DEF Steps, Results
<1>3. /\ pc' = [pc EXCEPT ![c] = "fetch"] /\ ack' = [ack EXCEPT ![c] = acknowledge]
      /\ batch' = [batch EXCEPT ![c] = {}] /\ confirmed' = [confirmed EXCEPT ![c] = {}]
      /\ result' = [result EXCEPT ![c] = "none"]
  BY DEF Begin, Goto
<1>4. /\ pc' \in [Consumers -> Steps] /\ ack' \in [Consumers -> BOOLEAN]
      /\ batch' \in [Consumers -> SUBSET Messages]
      /\ confirmed' \in [Consumers -> SUBSET Messages]
      /\ result' \in [Consumers -> Results]
  BY <1>1, <1>2, <1>3 DEF TypeInv, TypeOK
<1>5. /\ pc'[c] = "fetch" /\ ack'[c] = acknowledge /\ batch'[c] = {}
      /\ confirmed'[c] = {} /\ result'[c] = "none" /\ CallsKept(c)
  BY <1>1, <1>3 DEF TypeInv, TypeOK, CallsKept
<1>6. Cardinality({}) = 0 /\ Max \in Nat /\ Max > 0
  BY FS_EmptySet, BatchConsumeAssumption
<1>7. \A d \in Consumers : batch'[d] \subseteq Messages /\ Cardinality(batch'[d]) <= Max
  <2>1. \A d \in Consumers \ {c} : batch'[d] = batch[d]
    BY <1>5 DEF CallsKept
  <2>2. \A d \in Consumers : batch[d] \subseteq Messages /\ Cardinality(batch[d]) <= Max
    BY <1>1 DEF TypeInv, TypeOK
  <2>3. batch'[c] \subseteq Messages /\ Cardinality(batch'[c]) <= Max
    BY <1>5, <1>6
  <2> QED
    BY <2>1, <2>2, <2>3
<1>8. open' \subseteq Consumers
  BY <1>1 DEF Begin, TypeInv, TypeOK
<1>9. TypeInv'
  BY <1>1, <1>4, <1>7, <1>8 DEF TypeInv, TypeOK
<1>10. AckedBy(c)' = AckedBy(c) /\ HeldBy(c)' = HeldBy(c)
  BY <1>1 DEF AckedBy, HeldBy
<1>11. CallInv(c)'
  <2>1. StepInv(c)' /\ RoomInv(c)' /\ AskedInv(c)' /\ ReadableInv(c)' /\ WireInv(c)'
    BY <1>1, <1>5, <1>6, <1>10
       DEF StepInv, RoomInv, AskedInv, ReadableInv, WireInv
  <2>2. PositionInv(c)'
    BY <1>1, <1>5, <1>10 DEF ConsumerInv, CallInv, PositionInv
  <2> QED
    BY <1>5, <2>1, <2>2 DEF CallInv
<1>12. ConsumerInv(c)'
  BY <1>5, <1>11 DEF ConsumerInv, SettledInv, RequeuedInv, ReplayedInv, At
<1> QED
  BY <1>1, <1>5, <1>9, <1>12, BrokerKeeps, CallStep

\* A running call goes on with the batch it has.
LEMMA GoesOn ==
  ASSUME IInv, NEW c \in Consumers, NEW step \in Steps \ {"idle", "fetch", "fresh"},
         Goto(c, step), UNCHANGED <<ack, batch, confirmed, result>>, pc[c] # "idle",
         UNCHANGED <<protocol, unreadable, member, settled, owner, passed>>,
         open' \subseteq Consumers, wire' \subseteq Consumers \X Messages,
         holder' \in [Messages -> Consumers \cup {Nobody}],
         WireKept(c), HoldersKept(c),
         step = "convert" => protocol \in {"jetstream", "redis"},
         step = "abort" => protocol = "amqp",
         step = "settle" => /\ batch[c] \cap unreadable = {}
                            /\ protocol # "kafka" => ack[c],
         protocol = "amqp" => UNCHANGED wire,
         protocol = "kafka" => UNCHANGED holder
  PROVE  IInv'
<1>1. TypeInv /\ ConsumerInv(c)
  BY DEF IInv
<1>2. pc' \in [Consumers -> Steps] /\ pc'[c] = step /\ CallsKept(c)
  BY <1>1, GotoEffect DEF CallsKept
<1>3. TypeInv'
  BY <1>1, <1>2, TypeKept, BrokerType
<1>4. protocol = "amqp" => AckedBy(c)' = AckedBy(c)
  BY DEF AckedBy
<1>5. protocol = "kafka" => HeldBy(c)' = HeldBy(c)
  BY DEF HeldBy
<1>6. StepInv(c)' /\ RoomInv(c)' /\ AskedInv(c)' /\ ReadableInv(c)'
  BY <1>1, <1>2 DEF ConsumerInv, CallInv, StepInv, RoomInv, AskedInv, ReadableInv
<1>7. WireInv(c)'
  BY <1>1, <1>4 DEF ConsumerInv, CallInv, WireInv
<1>8. PositionInv(c)' /\ confirmed'[c] \subseteq passed'
  BY <1>1, <1>2, <1>5 DEF ConsumerInv, CallInv, PositionInv
<1>9. result'[c] = "none"
  BY <1>1 DEF ConsumerInv, CallInv, StepInv
<1>10. ConsumerInv(c)'
  BY <1>2, <1>6, <1>7, <1>8, <1>9
     DEF ConsumerInv, CallInv, SettledInv, RequeuedInv, ReplayedInv, At
<1> QED
  BY <1>2, <1>3, <1>10, CallStep

\* Deadline keeps the inductive invariant.
LEMMA DeadlineStep ==
  ASSUME IInv, NEW c \in Consumers, DeadlinePasses(c) PROVE IInv'
<1> DEFINE step == IF protocol = "jetstream" THEN "convert" ELSE "settle"
<1>1. /\ Goto(c, step) /\ UNCHANGED <<ack, batch, confirmed, result>> /\ pc[c] = "fetch"
      /\ UNCHANGED <<protocol, unreadable, member>>
      /\ UNCHANGED <<settled, holder, owner, open, wire, passed>>
      /\ protocol \in {"amqp", "jetstream", "kafka"}
  BY DEF DeadlinePasses, scenario, broker
<1>2. TypeInv /\ ConsumerInv(c)
  BY DEF IInv
<1>3. step = "settle" => /\ batch[c] \cap unreadable = {}
                         /\ protocol # "kafka" => ack[c]
  BY <1>1, <1>2 DEF ConsumerInv, CallInv, ReadableInv, AskedInv
<1>4. /\ open' \subseteq Consumers /\ wire' \subseteq Consumers \X Messages
      /\ holder' \in [Messages -> Consumers \cup {Nobody}]
  BY <1>1, <1>2, BrokerType
<1>5. step \in Steps \ {"idle", "fetch", "fresh"} /\ step # "abort"
      /\ (step = "convert" => protocol \in {"jetstream", "redis"})
  BY DEF Steps
<1>6. WireKept(c) /\ HoldersKept(c)
  BY <1>1, BrokerKeeps
<1> HIDE DEF step
<1> QED
  BY <1>1, <1>3, <1>4, <1>5, <1>6, GoesOn

\* A call that returns and leaves the broker as it is.
LEMMA ReturnsOnly ==
  ASSUME IInv, NEW c \in Consumers, NEW r \in Results, Return(c, r),
         UNCHANGED <<protocol, unreadable, member, settled, passed>>,
         holder' \in [Messages -> Consumers \cup {Nobody}],
         owner' \in [Partitions -> Consumers \cup {Nobody}],
         open' \subseteq Consumers, wire' \subseteq Consumers \X Messages,
         WireKept(c), HoldersKept(c),
         protocol = "kafka" => HeldBy(c)' = {},
         r = "Ok" /\ protocol # "amqp" /\ ack[c] => batch[c] \subseteq passed,
         r = "Failed" /\ protocol = "amqp" => HeldBy(c)' = {} /\ AckedBy(c)' = {}
  PROVE  IInv'
<1>1. TypeInv
  BY DEF IInv
<1>2. /\ pc' \in [Consumers -> Steps] /\ result' \in [Consumers -> Results]
      /\ UNCHANGED <<ack, batch, confirmed>> /\ CallsKept(c)
  BY <1>1, ReturnEffect
<1>3. TypeInv'
  BY <1>1, <1>2, TypeKept, BrokerType
<1>4. ConsumerInv(c)'
  BY Returned
<1> QED
  BY <1>2, <1>3, <1>4, CallStep

\* Taking one more message into a batch with room for it.
LEMMA TakeEffect ==
  ASSUME IInv, NEW c \in Consumers, NEW m \in Messages, NEW then \in {"settle", "convert"},
         Take(c, m, then), pc[c] = "fetch"
  PROVE  /\ pc' \in [Consumers -> Steps] /\ pc'[c] \in {then, "fetch"}
         /\ batch' \in [Consumers -> SUBSET Messages] /\ batch'[c] = batch[c] \cup {m}
         /\ \A d \in Consumers : batch'[d] \subseteq Messages /\ Cardinality(batch'[d]) <= Max
         /\ pc'[c] = "fetch" => Cardinality(batch'[c]) < Max
         /\ CallsKept(c) /\ UNCHANGED <<ack, confirmed, result>>
<1>1. TypeInv /\ ConsumerInv(c)
  BY DEF IInv
<1>2. batch' = [batch EXCEPT ![c] = @ \cup {m}] /\ UNCHANGED <<ack, confirmed, result>>
  BY DEF Take
<1>3. /\ batch' \in [Consumers -> SUBSET Messages] /\ batch'[c] = batch[c] \cup {m}
      /\ \A d \in Consumers \ {c} : batch'[d] = batch[d]
  BY <1>1, <1>2 DEF TypeInv
<1>4. /\ Cardinality(batch[c]) < Max /\ Cardinality(batch[c]) \in Nat
      /\ Cardinality(batch'[c]) <= Cardinality(batch[c]) + 1
      /\ Cardinality(batch'[c]) \in Nat /\ Max \in Nat
  <2>1. batch[c] \in SUBSET Messages
    BY <1>1 DEF TypeInv
  <2> QED
    BY <1>1, <1>3, <2>1, Counting, BatchConsumeAssumption DEF ConsumerInv, CallInv, RoomInv
<1>5. \A d \in Consumers : batch'[d] \subseteq Messages /\ Cardinality(batch'[d]) <= Max
  <2>1. Cardinality(batch'[c]) <= Max
    BY <1>4
  <2>2. \A d \in Consumers : batch[d] \subseteq Messages /\ Cardinality(batch[d]) <= Max
    BY <1>1 DEF TypeInv, TypeOK
  <2> QED
    BY <1>3, <2>1, <2>2
<1>6. {then, "fetch"} \subseteq Steps
  BY DEF Steps
<1>7. /\ pc' \in [Consumers -> Steps]
      /\ pc'[c] = IF Full(batch'[c]) THEN then ELSE "fetch"
      /\ \A d \in Consumers \ {c} : pc'[d] = pc[d]
  BY <1>1, <1>6, GotoEffect DEF Take
<1>8. pc'[c] = "fetch" => Cardinality(batch'[c]) < Max
  BY <1>4, <1>7 DEF Full
<1>9. CallsKept(c)
  BY <1>2, <1>3, <1>7 DEF CallsKept
<1> QED
  BY <1>2, <1>3, <1>5, <1>7, <1>8, <1>9

\* A call that reads a message it was handed, and goes on.
LEMMA Takes ==
  ASSUME IInv, NEW c \in Consumers, NEW m \in Messages, NEW then \in {"settle", "convert"},
         protocol # "redis", pc[c] = "fetch",
         pc' \in [Consumers -> Steps], pc'[c] \in {then, "fetch"},
         batch' \in [Consumers -> SUBSET Messages], batch'[c] = batch[c] \cup {m},
         \A d \in Consumers : batch'[d] \subseteq Messages /\ Cardinality(batch'[d]) <= Max,
         pc'[c] = "fetch" => Cardinality(batch'[c]) < Max,
         CallsKept(c), UNCHANGED <<ack, confirmed, result>>,
         Hand({m}, c),
         UNCHANGED <<protocol, unreadable, member, settled, owner, open, wire, passed>>,
         then = "convert" => protocol = "jetstream",
         then = "settle" => m \notin unreadable /\ protocol \in {"amqp", "kafka"},
         protocol = "kafka" =>
           \A k \in Messages : k < m /\ PartitionOf[k] = PartitionOf[m] => k \in batch[c] \cup passed
  PROVE  IInv'
<1>1. TypeInv /\ ConsumerInv(c) /\ Receiver(c) = c
  BY DEF IInv, Receiver
<1>2. /\ holder' \in [Messages -> Consumers \cup {Nobody}]
      /\ \A k \in Messages : holder'[k] = IF k \in {m} THEN c ELSE holder[k]
  BY <1>1, HandEffect
<1>3. HoldersKept(c) /\ WireKept(c)
  BY <1>1, HandKeeps DEF WireKept
<1>4. TypeInv'
  BY <1>1, <1>2 DEF TypeInv, TypeOK
<1>5. HeldBy(c)' \subseteq HeldBy(c) \cup {m}
  BY <1>2 DEF HeldBy
<1>6. AckedBy(c)' = AckedBy(c)
  BY DEF AckedBy
<1>7. StepInv(c)' /\ RoomInv(c)'
  BY <1>1 DEF ConsumerInv, CallInv, StepInv, RoomInv
<1>8. AskedInv(c)' /\ ReadableInv(c)' /\ WireInv(c)'
  BY <1>1, <1>6 DEF ConsumerInv, CallInv, AskedInv, ReadableInv, WireInv
<1>9. PositionInv(c)'
  <2> SUFFICES ASSUME protocol = "kafka" PROVE PositionInv(c)'
    BY DEF PositionInv
  <2>1. HeldBy(c)' \subseteq batch'[c]
    BY <1>1, <1>5 DEF ConsumerInv, CallInv, PositionInv
  <2>2. ASSUME NEW j \in batch'[c], NEW k \in Messages, k < j, PartitionOf[k] = PartitionOf[j]
        PROVE  k \in batch'[c] \cup passed
    <3>1. CASE j = m
      BY <2>2, <3>1
    <3>2. CASE j \in batch[c]
      BY <1>1, <2>2, <3>2 DEF ConsumerInv, CallInv, PositionInv
    <3> QED
      BY <2>2, <3>1, <3>2
  <2>3. pc'[c] # "idle"
    OBVIOUS
  <2> QED
    BY <2>1, <2>2, <2>3 DEF PositionInv
<1>10. CallInv(c)'
  BY <1>1, <1>7, <1>8, <1>9 DEF ConsumerInv, CallInv
<1>11. result'[c] = "none" /\ pc'[c] # "fresh"
  BY <1>1 DEF ConsumerInv, CallInv, StepInv
<1>12. ConsumerInv(c)'
  BY <1>10, <1>11 DEF ConsumerInv, SettledInv, RequeuedInv, ReplayedInv, At
<1> QED
  BY <1>3, <1>4, <1>12, CallStep
-----------------------------------------------------------------------------
(* AMQP                                                                    *)

\* The first of a set of messages is one of them.
LEMMA FirstType ==
  ASSUME NEW S, NEW m \in First(S) PROVE m \in S /\ \A k \in S : m <= k
  BY DEF First

\* AmqpGet keeps the inductive invariant.
LEMMA AmqpGetStep ==
  ASSUME IInv, NEW c \in Consumers, AmqpGet(c) PROVE IInv'
<1>1. /\ protocol = "amqp" /\ pc[c] = "fetch" /\ TypeInv /\ ConsumerInv(c)
      /\ UNCHANGED <<protocol, unreadable, member>>
      /\ UNCHANGED <<settled, owner, open, wire, passed>>
  BY DEF AmqpGet, At, scenario, IInv
<1>2. PICK m \in First(Ready) :
        /\ Hand({m}, c)
        /\ IF m \in unreadable
           THEN Goto(c, "abort") /\ UNCHANGED <<ack, batch, confirmed, result>>
           ELSE IF Ready = {m}
           THEN /\ batch' = [batch EXCEPT ![c] = @ \cup {m}]
                /\ Goto(c, "settle") /\ UNCHANGED <<ack, confirmed, result>>
           ELSE Take(c, m, "settle")
  BY DEF AmqpGet
<1>3. m \in Messages
  BY <1>2, FirstType DEF Ready
<1>4. CASE m \in unreadable
  <2>1. HoldersKept(c) /\ WireKept(c) /\ holder' \in [Messages -> Consumers \cup {Nobody}]
    BY <1>1, <1>2, <1>3, HandKeeps, HandEffect DEF Receiver, WireKept
  <2>2. "abort" \in Steps \ {"idle", "fetch", "fresh"}
    BY DEF Steps
  <2> QED
    BY <1>1, <1>2, <1>4, <2>1, <2>2, BrokerType, GoesOn
<1>5. CASE m \notin unreadable /\ Ready # {m}
  BY <1>1, <1>2, <1>3, <1>5, TakeEffect, Takes
<1>6. CASE m \notin unreadable /\ Ready = {m}
  <2>1. /\ batch' = [batch EXCEPT ![c] = @ \cup {m}]
        /\ Goto(c, "settle") /\ UNCHANGED <<ack, confirmed, result>>
    BY <1>2, <1>6
  <2>2. "settle" \in Steps
    BY DEF Steps
  <2>3. pc' \in [Consumers -> Steps] /\ pc'[c] = "settle" /\ \A d \in Consumers \ {c} : pc'[d] = pc[d]
    BY <1>1, <2>1, <2>2, GotoEffect
  <2>4. /\ batch' \in [Consumers -> SUBSET Messages] /\ batch'[c] = batch[c] \cup {m}
        /\ \A d \in Consumers \ {c} : batch'[d] = batch[d]
    BY <1>1, <1>3, <2>1 DEF TypeInv
  <2>5. /\ Cardinality(batch'[c]) <= Max
    <3>1. batch[c] \in SUBSET Messages
      BY <1>1 DEF TypeInv
    <3>2. /\ Cardinality(batch[c]) < Max /\ Cardinality(batch[c]) \in Nat
          /\ Cardinality(batch[c] \cup {m}) <= Cardinality(batch[c]) + 1
          /\ Cardinality(batch[c] \cup {m}) \in Nat /\ Max \in Nat
      BY <1>1, <1>3, <3>1, Counting, BatchConsumeAssumption DEF ConsumerInv, CallInv, RoomInv
    <3> QED
      BY <2>4, <3>2
  <2>6. \A d \in Consumers : batch'[d] \subseteq Messages /\ Cardinality(batch'[d]) <= Max
    BY <1>1, <2>4, <2>5 DEF TypeInv, TypeOK
  <2>7. CallsKept(c)
    BY <2>1, <2>3, <2>4 DEF CallsKept
  <2> QED
    BY <1>1, <1>2, <1>3, <1>6, <2>1, <2>3, <2>4, <2>6, <2>7, Takes
<1> QED
  BY <1>4, <1>5, <1>6

\* AmqpGetFails keeps the inductive invariant.
LEMMA AmqpGetFailsStep ==
  ASSUME IInv, NEW c \in Consumers, AmqpGetFails(c) PROVE IInv'
<1>1. /\ protocol = "amqp" /\ pc[c] = "fetch" /\ TypeInv
      /\ UNCHANGED <<protocol, unreadable, member>>
      /\ UNCHANGED <<settled, owner, open, wire, passed, ack, batch, confirmed, result>>
      /\ Goto(c, "abort")
  BY DEF AmqpGetFails, At, scenario, IInv
<1>2. HoldersKept(c) /\ holder' \in [Messages -> Consumers \cup {Nobody}]
  <2>1. CASE UNCHANGED holder
    BY <1>1, <2>1, BrokerType DEF HoldersKept
  <2>2. ASSUME NEW m \in First(Ready), Hand({m}, c)
        PROVE  HoldersKept(c) /\ holder' \in [Messages -> Consumers \cup {Nobody}]
    <3>1. m \in Messages /\ Receiver(c) = c
      BY <1>1, FirstType DEF Ready, Receiver
    <3> QED
      BY <1>1, <2>2, <3>1, HandKeeps, HandEffect
  <2> QED
    BY <2>1, <2>2 DEF AmqpGetFails
<1>3. WireKept(c) /\ "abort" \in Steps \ {"idle", "fetch", "fresh"}
  BY <1>1 DEF WireKept, Steps
<1> QED
  BY <1>1, <1>2, <1>3, BrokerType, GoesOn

\* AmqpAck keeps the inductive invariant.
LEMMA AmqpAckStep ==
  ASSUME IInv, NEW c \in Consumers, AmqpAck(c) PROVE IInv'
<1>1. /\ protocol = "amqp" /\ pc[c] = "settle" /\ TypeInv
      /\ UNCHANGED <<protocol, unreadable, member>>
      /\ UNCHANGED <<settled, holder, owner, open, passed>>
      /\ HoldersKept(c)
  BY DEF AmqpAck, At, scenario, IInv, HoldersKept
<1>2. CASE batch[c] # {} /\ Goto(c, "abort") /\ UNCHANGED <<ack, batch, confirmed, result, wire>>
  <2>1. WireKept(c) /\ "abort" \in Steps \ {"idle", "fetch", "fresh"}
    BY <1>2 DEF WireKept, Steps
  <2> QED
    BY <1>1, <1>2, <2>1, BrokerType, GoesOn
<1>3. ASSUME NEW r \in {"Ok", "OutcomeIndeterminate"}, Return(c, r),
             wire' = wire \/ wire' = wire \cup ({c} \X batch[c])
      PROVE  IInv'
  <2>1. batch[c] \subseteq Messages
    BY <1>1 DEF TypeInv
  <2>2. WireKept(c) /\ wire' \subseteq Consumers \X Messages
    BY <1>1, <1>3, <2>1, BrokerType DEF WireKept
  <2>3. r \in Results
    BY DEF Results
  <2> QED
    BY <1>1, <1>3, <2>2, <2>3, BrokerType, ReturnsOnly
<1>4. CASE batch[c] = {} /\ Return(c, "Ok") /\ UNCHANGED wire
  BY <1>3, <1>4
<1>5. CASE \E sent \in {{}, {c} \X batch[c]} :
             /\ wire' = IF c \in open THEN wire \cup sent ELSE wire
             /\ \/ sent # {} /\ Return(c, "Ok")
                \/ Return(c, "OutcomeIndeterminate")
  <2>1. wire' = wire \/ wire' = wire \cup ({c} \X batch[c])
    BY <1>5
  <2>2. \E r \in {"Ok", "OutcomeIndeterminate"} : Return(c, r)
    BY <1>5
  <2> QED
    BY <1>3, <2>1, <2>2
<1> QED
  BY <1>2, <1>4, <1>5 DEF AmqpAck

\* AmqpAbort keeps the inductive invariant.
LEMMA AmqpAbortStep ==
  ASSUME IInv, NEW c \in Consumers, AmqpAbort(c) PROVE IInv'
<1>1. /\ protocol = "amqp" /\ pc[c] = "abort" /\ TypeInv /\ ConsumerInv(c)
      /\ UNCHANGED <<protocol, unreadable, member>>
      /\ UNCHANGED <<settled, owner, wire, passed>>
      /\ WireKept(c) /\ {"Failed", "OutcomeIndeterminate"} \subseteq Results
      /\ Receiver(c) = c
  BY DEF AmqpAbort, At, scenario, IInv, WireKept, Results, Receiver
<1>2. CASE Return(c, "Failed") /\ open' = open \ {c} /\ Hand(HeldBy(c), Nobody)
  <2>1. HeldBy(c) \in SUBSET Messages
    BY DEF HeldBy
  <2>2. /\ holder' \in [Messages -> Consumers \cup {Nobody}]
        /\ \A m \in Messages : holder'[m] = IF m \in HeldBy(c) THEN Nobody ELSE holder[m]
    BY <1>1, <1>2, <2>1, HandEffect
  <2>3. HeldBy(c)' = {}
    BY <2>2, BatchConsumeAssumption DEF HeldBy
  <2>4. AckedBy(c)' = {}
    BY <1>1 DEF ConsumerInv, CallInv, WireInv, AckedBy
  <2>5. HoldersKept(c)
    BY <1>1, <1>2, <2>1, HandKeeps
  <2> QED
    BY <1>1, <1>2, <2>2, <2>3, <2>4, <2>5, BrokerType, ReturnsOnly
<1>3. CASE Return(c, "OutcomeIndeterminate") /\ UNCHANGED <<open, holder>>
  <2>1. HoldersKept(c)
    BY <1>3 DEF HoldersKept
  <2> QED
    BY <1>1, <1>3, <2>1, BrokerType, ReturnsOnly
<1> QED
  BY <1>2, <1>3 DEF AmqpAbort

\* The broker settles messages and takes deliveries back on its own.
LEMMA BrokerStep ==
  ASSUME IInv, UNCHANGED <<protocol, unreadable, member, pc, ack, batch, result>>,
         settled' \subseteq passed', passed \subseteq passed', passed' \subseteq Messages,
         holder' \in [Messages -> Consumers \cup {Nobody}],
         \A m \in Messages : holder'[m] \in {holder[m], Nobody},
         owner' \in [Partitions -> Consumers \cup {Nobody}],
         open' \subseteq Consumers, wire' \subseteq wire,
         confirmed' \in [Consumers -> SUBSET Messages],
         \A c \in Consumers : confirmed'[c] \subseteq passed'
  PROVE  IInv'
<1>1. TypeInv
  BY DEF IInv
<1>2. TypeInv'
  BY <1>1 DEF TypeInv, TypeOK
<1>3. ASSUME NEW c \in Consumers PROVE ConsumerInv(c)'
  <2>1. ConsumerInv(c) /\ member[c] \in Consumers
    BY <1>1 DEF IInv, TypeInv, TypeOK
  <2>2. \A x \in Consumers : {m \in Messages : holder'[m] = x} \subseteq HeldBy(x)
    BY BatchConsumeAssumption DEF HeldBy
  <2>3. HeldBy(c)' \subseteq HeldBy(c) /\ HeldBy(member[c])' \subseteq HeldBy(member[c])
    BY <2>1, <2>2 DEF HeldBy
  <2>4. AckedBy(c)' \subseteq AckedBy(c)
    BY DEF AckedBy
  <2>5. StepInv(c)' /\ RoomInv(c)' /\ AskedInv(c)' /\ ReadableInv(c)'
    BY <2>1 DEF ConsumerInv, CallInv, StepInv, RoomInv, AskedInv, ReadableInv
  <2>6. WireInv(c)' /\ PositionInv(c)'
    BY <2>1, <2>3, <2>4 DEF ConsumerInv, CallInv, WireInv, PositionInv
  <2>7. SettledInv(c)' /\ RequeuedInv(c)'
    BY <2>1, <2>3, <2>4 DEF ConsumerInv, SettledInv, RequeuedInv
  <2>8. ReplayedInv(c)'
    BY <2>1, <2>3 DEF ConsumerInv, ReplayedInv, At
  <2> QED
    BY <2>5, <2>6, <2>7, <2>8 DEF ConsumerInv, CallInv
<1> QED
  BY <1>2, <1>3 DEF IInv

\* The confirmations a call has are of messages that were passed.
LEMMA ConfirmedType ==
  ASSUME IInv
  PROVE  /\ confirmed \in [Consumers -> SUBSET Messages]
         /\ \A c \in Consumers : confirmed[c] \subseteq passed
  BY DEF IInv, TypeInv, TypeOK, ConsumerInv, CallInv

\* What the broker does when it settles messages.
LEMMA SettleEffect ==
  ASSUME TypeInv, NEW S \in SUBSET Messages, Settle(S)
  PROVE  /\ settled' \subseteq passed' /\ passed \subseteq passed' /\ passed' \subseteq Messages
         /\ S \subseteq passed'
         /\ holder' \in [Messages -> Consumers \cup {Nobody}]
         /\ \A m \in Messages : holder'[m] \in {holder[m], Nobody}
<1>1. settled' = settled \cup S /\ passed' = passed \cup S /\ Hand(S, Nobody)
  BY DEF Settle
<1>2. /\ holder' \in [Messages -> Consumers \cup {Nobody}]
      /\ \A m \in Messages : holder'[m] \in {holder[m], Nobody}
  BY <1>1, HandEffect
<1> QED
  BY <1>1, <1>2, BrokerType

\* The same when it takes messages back.
LEMMA TakeBackEffect ==
  ASSUME TypeInv, NEW S \in SUBSET Messages, Hand(S, Nobody)
  PROVE  /\ holder' \in [Messages -> Consumers \cup {Nobody}]
         /\ \A m \in Messages : holder'[m] \in {holder[m], Nobody}
  BY HandEffect

\* The AMQP broker's own steps keep the inductive invariant.
LEMMA AmqpBrokerStep ==
  ASSUME IInv, NEW c \in Consumers, AmqpAckArrives(c) \/ AmqpChannelLost(c) PROVE IInv'
<1>1. TypeInv /\ AckedBy(c) \in SUBSET Messages /\ HeldBy(c) \in SUBSET Messages
  BY DEF IInv, AckedBy, HeldBy
<1>2. CASE AmqpAckArrives(c)
  <2>1. /\ UNCHANGED <<protocol, unreadable, member, owner, open>>
        /\ UNCHANGED <<pc, ack, batch, confirmed, result>>
        /\ Settle(AckedBy(c)) /\ wire' \subseteq wire
    BY <1>2 DEF AmqpAckArrives, scenario, call
  <2> QED
    BY <1>1, <2>1, SettleEffect, BrokerType, ConfirmedType, BrokerStep
<1>3. CASE AmqpChannelLost(c)
  <2>1. /\ UNCHANGED <<protocol, unreadable, member, owner, settled, passed>>
        /\ UNCHANGED <<pc, ack, batch, confirmed, result>>
        /\ Hand(HeldBy(c), Nobody) /\ wire' \subseteq wire /\ open' \subseteq open
    BY <1>3 DEF AmqpChannelLost, scenario, call
  <2> QED
    BY <1>1, <2>1, TakeBackEffect, BrokerType, ConfirmedType, BrokerStep
<1> QED
  BY <1>2, <1>3
-----------------------------------------------------------------------------
(* JetStream                                                               *)

\* JetStreamFetch keeps the inductive invariant.
LEMMA JetStreamFetchStep ==
  ASSUME IInv, NEW c \in Consumers, JetStreamFetch(c) PROVE IInv'
<1>1. /\ protocol = "jetstream" /\ pc[c] = "fetch"
      /\ UNCHANGED <<protocol, unreadable, member, settled, owner, open, wire, passed>>
  BY DEF JetStreamFetch, At, scenario
<1>2. PICK m \in First(Ready) : Hand({m}, c) /\ Take(c, m, "convert")
  BY DEF JetStreamFetch
<1>3. m \in Messages
  BY <1>2, FirstType DEF Ready
<1> QED
  BY <1>1, <1>2, <1>3, TakeEffect, Takes

\* The ways out of a JetStream call keep the inductive invariant.
LEMMA JetStreamReturnSteps ==
  ASSUME IInv, NEW c \in Consumers, JetStreamFetchFails(c) \/ JetStreamAcked(c) PROVE IInv'
<1>1. /\ protocol = "jetstream" /\ TypeInv
      /\ UNCHANGED <<protocol, unreadable, member, settled, holder, owner, open, wire, passed>>
      /\ {"Ok", "Failed"} \subseteq Results
  BY DEF JetStreamFetchFails, JetStreamAcked, At, scenario, broker, IInv, Results
<1>2. WireKept(c) /\ HoldersKept(c)
  BY <1>1, BrokerKeeps
<1>3. \E r \in {"Ok", "Failed"} : Return(c, r) /\ (r = "Ok" => batch[c] = confirmed[c])
  BY DEF JetStreamFetchFails, JetStreamAcked
<1> QED
  BY <1>1, <1>2, <1>3, BrokerType, ConfirmedType, ReturnsOnly

\* Convert keeps the inductive invariant.
LEMMA ConvertStep ==
  ASSUME IInv, NEW c \in Consumers, Convert(c) PROVE IInv'
<1>1. /\ pc[c] = "convert" /\ TypeInv /\ ConsumerInv(c)
      /\ UNCHANGED <<protocol, unreadable, member>>
      /\ UNCHANGED <<settled, holder, owner, open, passed>>
      /\ {"Ok", "Failed"} \subseteq Results /\ HoldersKept(c)
  BY DEF Convert, scenario, IInv, Results, HoldersKept
<1>2. protocol \in {"jetstream", "redis"}
  BY <1>1 DEF ConsumerInv, CallInv, StepInv
<1>3. ASSUME NEW r \in {"Ok", "Failed"}, Return(c, r), UNCHANGED wire, r = "Ok" => ~ack[c]
      PROVE  IInv'
  <2>1. WireKept(c)
    BY <1>3 DEF WireKept
  <2> QED
    BY <1>1, <1>2, <1>3, <2>1, BrokerType, ReturnsOnly
<1>4. CASE /\ Goto(c, "settle") /\ UNCHANGED <<ack, batch, confirmed, result>>
           /\ wire' = IF protocol = "jetstream" THEN wire \cup ({c} \X batch[c]) ELSE wire
           /\ batch[c] \cap unreadable = {} /\ ack[c]
  <2>1. batch[c] \subseteq Messages
    BY <1>1 DEF TypeInv
  <2>2. WireKept(c) /\ wire' \subseteq Consumers \X Messages
    BY <1>1, <1>4, <2>1, BrokerType DEF WireKept
  <2>3. "settle" \in Steps \ {"idle", "fetch", "fresh"}
    BY DEF Steps
  <2> QED
    BY <1>1, <1>2, <1>4, <2>2, <2>3, BrokerType, GoesOn
<1>5. \/ \E r \in {"Ok", "Failed"} : Return(c, r) /\ UNCHANGED wire /\ (r = "Ok" => ~ack[c])
      \/ /\ Goto(c, "settle") /\ UNCHANGED <<ack, batch, confirmed, result>>
         /\ wire' = IF protocol = "jetstream" THEN wire \cup ({c} \X batch[c]) ELSE wire
         /\ batch[c] \cap unreadable = {} /\ ack[c]
  BY DEF Convert
<1> QED
  BY <1>3, <1>4, <1>5

\* So do the steps of the JetStream server.
LEMMA JetStreamBrokerSteps ==
  ASSUME IInv, NEW c \in Consumers, NEW m \in Messages,
         JetStreamAckArrives(c, m) \/ JetStreamAckLost(c, m)
  PROVE  IInv'
<1>1. TypeInv /\ {m} \in SUBSET Messages
  BY DEF IInv
<1>2. CASE JetStreamAckArrives(c, m)
  <2>1. /\ UNCHANGED <<protocol, unreadable, member, owner, open, pc, ack, batch, result>>
        /\ Settle({m}) /\ wire' \subseteq wire
        /\ confirmed' = confirmed \/ confirmed' = [confirmed EXCEPT ![c] = @ \cup {m}]
    BY <1>2 DEF JetStreamAckArrives, scenario
  <2>2. /\ settled' \subseteq passed' /\ passed \subseteq passed' /\ passed' \subseteq Messages
        /\ m \in passed'
        /\ holder' \in [Messages -> Consumers \cup {Nobody}]
        /\ \A k \in Messages : holder'[k] \in {holder[k], Nobody}
    BY <1>1, <2>1, SettleEffect
  <2>3. /\ confirmed' \in [Consumers -> SUBSET Messages]
        /\ \A d \in Consumers : confirmed'[d] \subseteq passed'
    BY <2>1, <2>2, ConfirmedType
  <2> QED
    BY <1>1, <2>1, <2>2, <2>3, BrokerType, BrokerStep
<1>3. CASE JetStreamAckLost(c, m)
  <2>1. /\ UNCHANGED <<protocol, unreadable, member, settled, holder, owner, open, passed>>
        /\ UNCHANGED <<pc, ack, batch, confirmed, result>> /\ wire' \subseteq wire
    BY <1>3 DEF JetStreamAckLost, scenario, call
  <2> QED
    BY <1>1, <2>1, BrokerType, ConfirmedType, BrokerStep
<1> QED
  BY <1>2, <1>3

\* AckWait keeps the inductive invariant.
LEMMA AckWaitStep ==
  ASSUME IInv, NEW m \in Messages, AckWaitExpires(m) PROVE IInv'
<1>1. /\ UNCHANGED <<protocol, unreadable, member, settled, owner, open, wire, passed>>
      /\ UNCHANGED <<pc, ack, batch, confirmed, result>>
      /\ Hand({m}, Nobody) /\ TypeInv /\ {m} \in SUBSET Messages
  BY DEF AckWaitExpires, scenario, call, IInv
<1> QED
  BY <1>1, TakeBackEffect, BrokerType, ConfirmedType, BrokerStep
-----------------------------------------------------------------------------
(* Redis Streams                                                           *)

\* A read that replaces the batch of c.
LEMMA RedisReads ==
  ASSUME IInv, NEW c \in Consumers, NEW step \in {"fresh", "convert"}, NEW B \in SUBSET Messages,
         protocol = "redis", pc[c] # "idle", Goto(c, step),
         batch' = [batch EXCEPT ![c] = B], Cardinality(B) <= Max,
         UNCHANGED <<protocol, unreadable, member, settled, owner, open, wire, passed>>,
         UNCHANGED <<ack, confirmed, result>>,
         holder' \in [Messages -> Consumers \cup {Nobody}], HoldersKept(c),
         step = "fresh" => HeldBy(member[c])' \subseteq B
  PROVE  IInv'
<1>1. TypeInv /\ ConsumerInv(c) /\ step \in Steps
  BY DEF IInv, Steps
<1>2. /\ pc' \in [Consumers -> Steps] /\ pc'[c] = step
      /\ \A d \in Consumers \ {c} : pc'[d] = pc[d]
  BY <1>1, GotoEffect
<1>3. /\ batch' \in [Consumers -> SUBSET Messages] /\ batch'[c] = B
      /\ \A d \in Consumers \ {c} : batch'[d] = batch[d]
  BY <1>1 DEF TypeInv
<1>4. \A d \in Consumers : batch'[d] \subseteq Messages /\ Cardinality(batch'[d]) <= Max
  <2>1. \A d \in Consumers : batch[d] \subseteq Messages /\ Cardinality(batch[d]) <= Max
    BY <1>1 DEF TypeInv, TypeOK
  <2> QED
    BY <1>3, <2>1
<1>5. TypeInv'
  BY <1>1, <1>2, <1>3, <1>4 DEF TypeInv, TypeOK
<1>6. CallsKept(c) /\ WireKept(c)
  BY <1>2, <1>3 DEF CallsKept, WireKept
<1>7. result'[c] = "none"
  BY <1>1 DEF ConsumerInv, CallInv, StepInv
<1>8. CallInv(c)'
  BY <1>1, <1>2, <1>7 DEF ConsumerInv, CallInv, StepInv, RoomInv, AskedInv, ReadableInv,
                          WireInv, PositionInv
<1>9. SettledInv(c)' /\ RequeuedInv(c)'
  BY <1>7 DEF SettledInv, RequeuedInv
<1>10. ReplayedInv(c)'
  BY <1>2, <1>3 DEF ReplayedInv, At
<1> QED
  BY <1>5, <1>6, <1>8, <1>9, <1>10, CallStep DEF ConsumerInv

\* RedisReplay keeps the inductive invariant.
LEMMA RedisReplayStep ==
  ASSUME IInv, NEW c \in Consumers, RedisReplay(c) PROVE IInv'
<1>1. /\ protocol = "redis" /\ pc[c] = "fetch" /\ TypeInv /\ ConsumerInv(c)
      /\ UNCHANGED <<protocol, unreadable, member, settled, holder, owner, open, wire, passed>>
      /\ "Ok" \in Results /\ HoldersKept(c) /\ WireKept(c)
  BY DEF RedisReplay, At, scenario, broker, IInv, Results, HoldersKept, WireKept
<1>2. CASE Return(c, "Ok")
  <2>1. batch[c] = {}
    BY <1>1 DEF ConsumerInv, CallInv, RoomInv
  <2> QED
    BY <1>1, <1>2, <2>1, BrokerType, ReturnsOnly
<1>3. CASE /\ batch' = [batch EXCEPT ![c] = Smallest(Max, HeldBy(member[c]))]
           /\ Goto(c, IF Full(batch'[c]) THEN "convert" ELSE "fresh")
           /\ UNCHANGED <<ack, confirmed, result>>
  <2> DEFINE H == HeldBy(member[c])
             B == Smallest(Max, H)
  <2>1. H \in SUBSET Messages /\ Max \in Nat
    BY BatchConsumeAssumption DEF HeldBy
  <2>2. /\ B \in SUBSET H /\ Cardinality(B) <= Max
        /\ Cardinality(B) < Max => B = H
    BY <2>1, SmallestIsBounded
  <2>3. B \in SUBSET Messages /\ Cardinality(B) \in Nat
    BY <2>1, <2>2, Counting
  <2>4. HeldBy(member[c])' = H
    BY <1>1 DEF HeldBy
  <2>5. batch' = [batch EXCEPT ![c] = B]
    BY <1>3
  <2> HIDE DEF B, H
  <2>6. batch'[c] = B
    BY <1>1, <2>5 DEF TypeInv
  <2>7. CASE Full(B)
    BY <1>1, <1>3, <2>2, <2>3, <2>5, <2>6, <2>7, BrokerType, RedisReads
  <2>8. CASE ~Full(B)
    <3>1. B = H
      BY <2>1, <2>2, <2>3, <2>8 DEF Full
    <3>2. Goto(c, "fresh")
      BY <1>3, <2>6, <2>8
    <3> QED
      BY <1>1, <1>3, <2>2, <2>3, <2>4, <2>5, <3>1, <3>2, BrokerType, RedisReads
  <2> QED
    BY <2>7, <2>8
<1> QED
  BY <1>2, <1>3 DEF RedisReplay

\* New entries are no more than there is room for.
LEMMA FreshEntries ==
  ASSUME IInv, NEW c \in Consumers
  PROVE  LET fresh == Smallest(Max - Cardinality(batch[c]), Ready)
         IN  fresh \in SUBSET Messages /\ Cardinality(batch[c] \cup fresh) <= Max
<1> DEFINE n == Max - Cardinality(batch[c])
           fresh == Smallest(n, Ready)
<1>1. batch[c] \in SUBSET Messages /\ Cardinality(batch[c]) <= Max
  BY DEF IInv, TypeInv, TypeOK
<1>2. Cardinality(batch[c]) \in Nat /\ Max \in Nat /\ IsFiniteSet(batch[c])
  BY <1>1, Counting, BatchConsumeAssumption
<1>3. n \in Nat
  BY <1>1, <1>2
<1>4. Ready \in SUBSET Messages
  BY DEF Ready
<1>5. fresh \in SUBSET Messages /\ Cardinality(fresh) <= n
  <2> HIDE DEF n
  <2>1. fresh \in SUBSET Ready /\ Cardinality(fresh) <= n
    BY <1>3, <1>4, SmallestIsBounded
  <2> QED
    BY <1>4, <2>1
<1> HIDE DEF fresh
<1>6. IsFiniteSet(fresh) /\ Cardinality(fresh) \in Nat
  BY <1>5, Counting
<1>7. /\ Cardinality(batch[c] \cup fresh) =
           Cardinality(batch[c]) + Cardinality(fresh) - Cardinality(batch[c] \cap fresh)
  BY <1>2, <1>6, FS_Union
<1>8. Cardinality(batch[c] \cap fresh) \in Nat
  <2>1. batch[c] \cap fresh \in SUBSET Messages
    BY <1>1
  <2> QED
    BY <2>1, Counting
<1>9. Cardinality(batch[c] \cup fresh) <= Max
  BY <1>1, <1>2, <1>5, <1>6, <1>7, <1>8
<1> QED
  BY <1>5, <1>9 DEF fresh

\* RedisReadNew keeps the inductive invariant.
LEMMA RedisReadNewStep ==
  ASSUME IInv, NEW c \in Consumers, RedisReadNew(c) PROVE IInv'
<1> DEFINE fresh == Smallest(Max - Cardinality(batch[c]), Ready)
<1>1. /\ protocol = "redis" /\ pc[c] = "fresh" /\ TypeInv
      /\ UNCHANGED <<protocol, unreadable, member, settled, owner, open, wire, passed>>
      /\ UNCHANGED <<ack, confirmed, result>> /\ Goto(c, "convert")
  BY DEF RedisReadNew, At, scenario, IInv
<1>2. fresh \in SUBSET Messages /\ Cardinality(batch[c] \cup fresh) <= Max
  BY FreshEntries
<1>3. \/ Hand(fresh, member[c]) /\ batch' = [batch EXCEPT ![c] = @ \cup fresh]
      \/ UNCHANGED <<holder, batch>>
  BY DEF RedisReadNew
<1> HIDE DEF fresh
<1>4. batch[c] \in SUBSET Messages /\ Cardinality(batch[c]) <= Max /\ batch = [batch EXCEPT ![c] = batch[c]]
  BY <1>1 DEF TypeInv, TypeOK
<1>5. CASE Hand(fresh, member[c]) /\ batch' = [batch EXCEPT ![c] = @ \cup fresh]
  <2>1. member[c] \in Consumers /\ Receiver(c) = member[c]
    BY <1>1 DEF TypeInv, TypeOK, Receiver
  <2>2. HoldersKept(c) /\ holder' \in [Messages -> Consumers \cup {Nobody}]
    BY <1>1, <1>2, <1>5, <2>1, HandKeeps, HandEffect
  <2>3. batch[c] \cup fresh \in SUBSET Messages
    BY <1>2, <1>4
  <2> QED
    BY <1>1, <1>2, <1>5, <2>2, <2>3, RedisReads
<1>6. CASE UNCHANGED <<holder, batch>>
  <2>1. HoldersKept(c) /\ batch' = [batch EXCEPT ![c] = batch[c]]
    BY <1>4, <1>6 DEF HoldersKept
  <2> QED
    BY <1>1, <1>4, <1>6, <2>1, BrokerType, RedisReads
<1> QED
  BY <1>3, <1>5, <1>6

\* RedisReadFails keeps the inductive invariant.
LEMMA RedisReadFailsStep ==
  ASSUME IInv, NEW c \in Consumers, RedisReadFails(c) PROVE IInv'
<1> DEFINE fresh == Smallest(Max - Cardinality(batch[c]), Ready)
<1>1. /\ protocol = "redis" /\ TypeInv
      /\ UNCHANGED <<protocol, unreadable, member, settled, owner, open, wire, passed>>
      /\ Return(c, "Failed") /\ "Failed" \in Results /\ WireKept(c)
  BY DEF RedisReadFails, scenario, IInv, Results, WireKept
<1>2. fresh \in SUBSET Messages
  BY FreshEntries
<1>3. UNCHANGED holder \/ Hand(fresh, member[c])
  BY DEF RedisReadFails
<1> HIDE DEF fresh
<1>4. HoldersKept(c) /\ holder' \in [Messages -> Consumers \cup {Nobody}]
  <2>1. CASE UNCHANGED holder
    BY <1>1, <2>1, BrokerType DEF HoldersKept
  <2>2. CASE Hand(fresh, member[c])
    <3>1. member[c] \in Consumers /\ Receiver(c) = member[c]
      BY <1>1 DEF TypeInv, TypeOK, Receiver
    <3> QED
      BY <1>1, <1>2, <2>2, <3>1, HandKeeps, HandEffect
  <2> QED
    BY <1>3, <2>1, <2>2
<1> QED
  BY <1>1, <1>4, BrokerType, ReturnsOnly

\* A call that returns once the broker has taken its acknowledgement in.
LEMMA SettlesAndReturns ==
  ASSUME IInv, NEW c \in Consumers, NEW r \in {"Ok", "Failed"}, Return(c, r),
         protocol \in {"redis", "kafka"},
         UNCHANGED <<protocol, unreadable, member, open, wire>>,
         settled' \subseteq passed', passed \subseteq passed', passed' \subseteq Messages,
         holder' \in [Messages -> Consumers \cup {Nobody}],
         \A m \in Messages : holder'[m] \in {holder[m], Nobody},
         owner' \in [Partitions -> Consumers \cup {Nobody}],
         protocol = "kafka" => HeldBy(c)' = {},
         r = "Ok" /\ ack[c] => batch[c] \subseteq passed'
  PROVE  IInv'
<1>1. TypeInv /\ r \in Results
  BY DEF IInv, Results
<1>2. /\ pc' \in [Consumers -> Steps] /\ result' \in [Consumers -> Results]
      /\ UNCHANGED <<ack, batch, confirmed>> /\ CallsKept(c)
  BY <1>1, ReturnEffect
<1>3. TypeInv'
  BY <1>1, <1>2, TypeKept, BrokerType
<1>4. WireKept(c) /\ HoldersKept(c)
  BY BatchConsumeAssumption DEF WireKept, HoldersKept
<1>5. ConsumerInv(c)'
  BY <1>1, Returned
<1> QED
  BY <1>2, <1>3, <1>4, <1>5, CallStep

\* RedisXack keeps the inductive invariant.
LEMMA RedisXackStep ==
  ASSUME IInv, NEW c \in Consumers, RedisXack(c) PROVE IInv'
<1>1. /\ protocol = "redis" /\ TypeInv /\ batch[c] \in SUBSET Messages
      /\ UNCHANGED <<protocol, unreadable, member, owner, open, wire>>
      /\ {"Ok", "Failed"} \subseteq Results
  BY DEF RedisXack, At, scenario, IInv, TypeInv, Results
<1>2. CASE Settle(batch[c]) /\ \E r \in {"Ok", "Failed"} : Return(c, r)
  BY <1>1, <1>2, SettleEffect, BrokerType, SettlesAndReturns
<1>3. CASE Return(c, "Failed") /\ UNCHANGED <<settled, passed, holder>>
  BY <1>1, <1>3, BrokerType, SettlesAndReturns
<1> QED
  BY <1>2, <1>3 DEF RedisXack
-----------------------------------------------------------------------------
(* Kafka                                                                   *)

\* Leaving the group gives the messages back.
LEMMA LeaveEffect ==
  ASSUME TypeInv, NEW c \in Consumers, LeaveGroup(c)
  PROVE  /\ owner' \in [Partitions -> Consumers \cup {Nobody}]
         /\ holder' \in [Messages -> Consumers \cup {Nobody}]
         /\ \A m \in Messages : holder'[m] \in {holder[m], Nobody}
         /\ protocol = "kafka" => HeldBy(c)' = {}
         /\ HoldersKept(c)
<1>1. owner' \in [Partitions -> Consumers \cup {Nobody}]
  BY BrokerType DEF LeaveGroup
<1>2. CASE protocol = "kafka"
  <2>1. Hand(HeldBy(c), Nobody) /\ HeldBy(c) \in SUBSET Messages
    BY <1>2 DEF LeaveGroup, HeldBy
  <2>2. /\ holder' \in [Messages -> Consumers \cup {Nobody}]
        /\ \A m \in Messages : holder'[m] = IF m \in HeldBy(c) THEN Nobody ELSE holder[m]
    BY <2>1, HandEffect
  <2>3. HeldBy(c)' = {} /\ HoldersKept(c)
    BY <2>2, BatchConsumeAssumption DEF HeldBy, HoldersKept
  <2> QED
    BY <1>1, <2>2, <2>3
<1>3. CASE protocol # "kafka"
  <2>1. UNCHANGED holder
    BY <1>3 DEF LeaveGroup
  <2> QED
    BY <1>1, <1>3, <2>1, BrokerType DEF HoldersKept
<1> QED
  BY <1>2, <1>3

\* KafkaPoll keeps the inductive invariant.
LEMMA KafkaPollStep ==
  ASSUME IInv, NEW c \in Consumers, KafkaPoll(c) PROVE IInv'
<1>1. /\ protocol = "kafka" /\ pc[c] = "fetch" /\ TypeInv /\ ConsumerInv(c)
      /\ UNCHANGED <<protocol, unreadable, member, settled, open, wire, passed>>
      /\ "Failed" \in Results /\ WireKept(c)
  BY DEF KafkaPoll, At, scenario, IInv, Results, WireKept
<1>2. PICK p \in Partitions : \E m \in First(Unpolled(c, p)) :
        IF m \in unreadable THEN Return(c, "Failed") /\ LeaveGroup(c)
        ELSE Take(c, m, "settle") /\ Hand({m}, c) /\ UNCHANGED owner
  BY DEF KafkaPoll
<1>3. PICK m \in First(Unpolled(c, p)) :
        IF m \in unreadable THEN Return(c, "Failed") /\ LeaveGroup(c)
        ELSE Take(c, m, "settle") /\ Hand({m}, c) /\ UNCHANGED owner
  BY <1>2
<1>4. m \in Unpolled(c, p) /\ m \in Messages /\ \A k \in Unpolled(c, p) : m <= k
  BY FirstType DEF Unpolled
<1>5. CASE m \in unreadable
  BY <1>1, <1>3, <1>5, LeaveEffect, BrokerType, ReturnsOnly
<1>6. CASE m \notin unreadable
  <2>1. ASSUME NEW k \in Messages, k < m, PartitionOf[k] = PartitionOf[m]
        PROVE  k \in batch[c] \cup passed
    <3>1. k \notin Unpolled(c, p)
      <4>1. k \in Nat /\ m \in Nat /\ ~(m <= k)
        BY <1>4, <2>1, MessageType
      <4> QED
        BY <1>4, <4>1
    <3>2. k \in settled \/ Polled(c, k)
      BY <1>4, <2>1, <3>1 DEF Unpolled
    <3>3. CASE k \in settled
      BY <1>1, <3>3 DEF TypeInv
    <3>4. CASE Polled(c, k)
      <4>1. PICK j \in HeldBy(c) : PartitionOf[j] = PartitionOf[k] /\ k <= j
        BY <3>4 DEF Polled
      <4>2. j \in batch[c] /\ j \in Messages
        BY <1>1, <4>1 DEF ConsumerInv, CallInv, PositionInv, HeldBy
      <4>3. k = j \/ k < j
        BY <2>1, <4>1, <4>2, MessageType
      <4> QED
        BY <1>1, <2>1, <4>1, <4>2, <4>3 DEF ConsumerInv, CallInv, PositionInv
    <3> QED
      BY <3>2, <3>3, <3>4
  <2>2. Take(c, m, "settle") /\ Hand({m}, c) /\ UNCHANGED owner
    BY <1>3, <1>6
  <2> QED
    BY <1>1, <1>4, <1>6, <2>1, <2>2, TakeEffect, Takes
<1> QED
  BY <1>5, <1>6

\* KafkaPollFails keeps the inductive invariant.
LEMMA KafkaPollFailsStep ==
  ASSUME IInv, NEW c \in Consumers, KafkaPollFails(c) PROVE IInv'
<1>1. /\ protocol = "kafka" /\ TypeInv
      /\ UNCHANGED <<protocol, unreadable, member, settled, open, wire, passed>>
      /\ "Failed" \in Results /\ WireKept(c) /\ Return(c, "Failed") /\ LeaveGroup(c)
  BY DEF KafkaPollFails, At, scenario, IInv, Results, WireKept
<1> QED
  BY <1>1, LeaveEffect, BrokerType, ReturnsOnly

\* The new committed offsets cover the batch.
LEMMA CommittedType ==
  ASSUME NEW B \in SUBSET Messages
  PROVE  Committed(B) \in SUBSET Messages /\ B \subseteq Committed(B)
<1>1. \A m \in B : m <= m
  BY MessageType
<1> QED
  BY <1>1 DEF Committed

\* KafkaCommit keeps the inductive invariant.
LEMMA KafkaCommitStep ==
  ASSUME IInv, NEW c \in Consumers, KafkaCommit(c) PROVE IInv'
<1>1. /\ protocol = "kafka" /\ TypeInv /\ batch[c] \in SUBSET Messages
      /\ UNCHANGED <<protocol, unreadable, member, open, wire>> /\ LeaveGroup(c)
  BY DEF KafkaCommit, At, scenario, IInv, TypeInv
<1>2. /\ owner' \in [Partitions -> Consumers \cup {Nobody}]
      /\ holder' \in [Messages -> Consumers \cup {Nobody}]
      /\ \A m \in Messages : holder'[m] \in {holder[m], Nobody}
      /\ HeldBy(c)' = {}
  BY <1>1, LeaveEffect
<1>3. ASSUME NEW r \in {"Ok", "Failed"}, Return(c, r), UNCHANGED <<settled, passed>>,
             r = "Ok" => ~ack[c] \/ batch[c] = {}
      PROVE  IInv'
  BY <1>1, <1>2, <1>3, BrokerType, SettlesAndReturns
<1>4. ASSUME NEW r \in {"Ok", "Failed"}, Return(c, r),
             settled' = Committed(batch[c]), passed' = passed \cup settled'
      PROVE  IInv'
  <2>1. /\ settled' \subseteq passed' /\ passed \subseteq passed' /\ passed' \subseteq Messages
        /\ batch[c] \subseteq passed'
    BY <1>1, <1>4, CommittedType, BrokerType
  <2> QED
    BY <1>1, <1>2, <1>4, <2>1, SettlesAndReturns
<1>5. \/ \E r \in {"Ok", "Failed"} : /\ Return(c, r) /\ UNCHANGED <<settled, passed>>
                                     /\ r = "Ok" => ~ack[c] \/ batch[c] = {}
      \/ /\ settled' = Committed(batch[c]) /\ passed' = passed \cup settled'
         /\ \E r \in {"Ok", "Failed"} : Return(c, r)
  BY DEF KafkaCommit
<1> QED
  BY <1>3, <1>4, <1>5

\* KafkaRebalance keeps the inductive invariant.
LEMMA KafkaRebalanceStep ==
  ASSUME IInv, NEW c \in Consumers, NEW p \in Partitions, KafkaRebalance(p, c) PROVE IInv'
<1> DEFINE moved == {m \in Messages : PartitionOf[m] = p}
<1>1. /\ UNCHANGED <<protocol, unreadable, member, settled, open, wire, passed>>
      /\ UNCHANGED <<pc, ack, batch, confirmed, result>> /\ TypeInv
      /\ owner' = [owner EXCEPT ![p] = c] /\ Hand(moved, Nobody)
  BY DEF KafkaRebalance, scenario, call, IInv
<1>2. owner' \in [Partitions -> Consumers \cup {Nobody}] /\ moved \in SUBSET Messages
  BY <1>1, BrokerType
<1> HIDE DEF moved
<1> QED
  BY <1>1, <1>2, TakeBackEffect, BrokerType, ConfirmedType, BrokerStep
-----------------------------------------------------------------------------
(* The future is dropped, or the process dies.                             *)

\* Interrupted keeps the inductive invariant.
LEMMA InterruptedStep ==
  ASSUME IInv, NEW c \in Consumers, Interrupted(c) PROVE IInv'
<1>1. /\ pc[c] # "idle" /\ TypeInv /\ ConsumerInv(c)
      /\ UNCHANGED <<protocol, unreadable, member, settled, open, wire, passed>>
      /\ UNCHANGED <<ack, batch, confirmed, result>>
      /\ Goto(c, "idle") /\ LeaveGroup(c) /\ WireKept(c) /\ "idle" \in Steps
  BY DEF Interrupted, scenario, IInv, WireKept, Steps
<1>2. /\ owner' \in [Partitions -> Consumers \cup {Nobody}]
      /\ holder' \in [Messages -> Consumers \cup {Nobody}]
      /\ protocol = "kafka" => HeldBy(c)' = {}
      /\ HoldersKept(c)
  BY <1>1, LeaveEffect
<1>3. pc' \in [Consumers -> Steps] /\ pc'[c] = "idle" /\ CallsKept(c)
  BY <1>1, GotoEffect DEF CallsKept
<1>4. TypeInv'
  BY <1>1, <1>2, <1>3, TypeKept, BrokerType
<1>5. result'[c] = "none"
  BY <1>1 DEF ConsumerInv, CallInv, StepInv
<1>6. CallInv(c)'
  BY <1>1, <1>2, <1>3 DEF ConsumerInv, CallInv, StepInv, RoomInv, AskedInv, ReadableInv,
                          WireInv, PositionInv
<1>7. ConsumerInv(c)'
  BY <1>3, <1>5, <1>6 DEF ConsumerInv, SettledInv, RequeuedInv, ReplayedInv, At
<1> QED
  BY <1>1, <1>2, <1>3, <1>4, <1>7, CallStep
-----------------------------------------------------------------------------
(* The invariant.                                                          *)

\* It holds at first.
LEMMA InitInv == Init => IInv
<1> SUFFICES ASSUME Init PROVE IInv
  OBVIOUS
<1>1. TypeInv
  <2>1. Cardinality({}) = 0 /\ 0 <= Max
    BY FS_EmptySet, BatchConsumeAssumption
  <2>2. batch \in [Consumers -> SUBSET Messages] /\ \A c \in Consumers : batch[c] = {}
    BY DEF Init
  <2>3. member \in [Consumers -> Consumers]
    BY DEF Init
  <2>4. holder \in [Messages -> Consumers \cup {Nobody}]
        /\ owner \in [Partitions -> Consumers \cup {Nobody}]
    BY DEF Init
  <2>5. pc \in [Consumers -> Steps] /\ result \in [Consumers -> Results]
        /\ ack \in [Consumers -> BOOLEAN] /\ confirmed \in [Consumers -> SUBSET Messages]
    BY DEF Init, Steps, Results
  <2> QED
    BY <2>1, <2>2, <2>3, <2>4, <2>5 DEF TypeInv, TypeOK, Init
<1>2. ASSUME NEW c \in Consumers PROVE ConsumerInv(c)
  <2>1. /\ pc[c] = "idle" /\ batch[c] = {} /\ confirmed[c] = {} /\ result[c] = "none"
        /\ HeldBy(c) = {}
    BY BatchConsumeAssumption DEF Init, HeldBy
  <2>2. CallInv(c)
    BY <2>1 DEF CallInv, StepInv, RoomInv, AskedInv, ReadableInv, WireInv, PositionInv
  <2> QED
    BY <2>1, <2>2 DEF ConsumerInv, SettledInv, RequeuedInv, ReplayedInv, At
<1> QED
  BY <1>1, <1>2 DEF IInv

\* It holds when nothing changes.
LEMMA StutterStep == ASSUME IInv, UNCHANGED vars PROVE IInv'
<1>1. /\ UNCHANGED <<protocol, unreadable, member>>
      /\ UNCHANGED <<settled, holder, owner, open, wire, passed>>
      /\ UNCHANGED <<pc, ack, batch, confirmed, result>>
  BY DEF vars, scenario, broker, call
<1> QED
  BY <1>1, BrokerType, ConfirmedType, BrokerStep DEF IInv

\* Every step keeps it.
LEMMA StepKeepsInv == IInv /\ [Next]_vars => IInv'
<1> SUFFICES ASSUME IInv, [Next]_vars PROVE IInv'
  OBVIOUS
<1>1. ASSUME NEW c \in Consumers, Amqp(c) \/ JetStream(c) PROVE IInv'
  BY <1>1, AmqpGetStep, AmqpGetFailsStep, AmqpAckStep, AmqpAbortStep, AmqpBrokerStep,
     JetStreamFetchStep, JetStreamReturnSteps, JetStreamBrokerSteps DEF Amqp, JetStream
<1>2. ASSUME NEW c \in Consumers, Redis(c) \/ Kafka(c) PROVE IInv'
  BY <1>2, RedisReplayStep, RedisReadNewStep, RedisReadFailsStep, RedisXackStep,
     KafkaPollStep, KafkaPollFailsStep, KafkaCommitStep, KafkaRebalanceStep DEF Redis, Kafka
<1>3. ASSUME NEW c \in Consumers,
             \/ \E acknowledge \in BOOLEAN : Begin(c, acknowledge)
             \/ DeadlinePasses(c) \/ Convert(c) \/ Interrupted(c)
      PROVE  IInv'
  BY <1>3, BeginStep, DeadlineStep, ConvertStep, InterruptedStep
<1> QED
  BY <1>1, <1>2, <1>3, AckWaitStep, StutterStep DEF Next
-----------------------------------------------------------------------------
(* AtLeastOnce is implemented: every step claims, settles, or gives up     *)
(* claims.                                                                 *)

\* What a call may settle.
ClaimOf(c) == AckedBy(c) \cup (IF pc[c] = "settle" /\ ack[c] THEN batch[c] ELSE {})

\* The wire changes at most for c.
WireSame(c) ==
  \A d \in Consumers \ {c} : \A m \in Messages : <<d, m>> \in wire' <=> <<d, m>> \in wire

\* What the promise sees of a consumer has the type the promise gives it.
LEMMA ClaimsType ==
  ASSUME TypeInv
  PROVE  /\ Claims \in [Consumers -> SUBSET Messages]
         /\ \A c \in Consumers : Claims[c] = ClaimOf(c)
  BY DEF TypeInv, Claims, ClaimOf, AckedBy

\* A step that leaves a consumer alone leaves what the promise sees of it.
LEMMA OthersClaims ==
  ASSUME TypeInv, TypeInv', NEW c \in Consumers, CallsKept(c), WireSame(c)
  PROVE  Claims' = [Claims EXCEPT ![c] = ClaimOf(c)']
<1>1. ASSUME NEW d \in Consumers \ {c} PROVE ClaimOf(d)' = ClaimOf(d)
  <2>1. AckedBy(d)' = AckedBy(d)
    BY DEF WireSame, AckedBy
  <2> QED
    BY <2>1 DEF CallsKept, ClaimOf
<1>2. Claims = [d \in Consumers |-> ClaimOf(d)] /\ Claims' = [d \in Consumers |-> ClaimOf(d)']
  BY DEF Claims, ClaimOf
<1> QED
  BY <1>1, <1>2

\* A step that settles what c may settle, or gives up claims of c.
LEMMA Settles ==
  ASSUME TypeInv, TypeInv', NEW c \in Consumers, UNCHANGED unreadable, CallsKept(c), WireSame(c),
         NEW S \in SUBSET ClaimOf(c), passed' = passed \cup S, ClaimOf(c)' \subseteq ClaimOf(c)
  PROVE  Contract!Next
<1>1. Claims[c] = ClaimOf(c)
  BY ClaimsType
<1>2. Claims' = [Claims EXCEPT ![c] = ClaimOf(c)']
  BY OthersClaims
<1>3. ClaimOf(c)' \in SUBSET Claims[c] /\ S \in SUBSET Claims[c]
  BY <1>1
<1>4. Contract!Settle(c, S, ClaimOf(c)')
  BY <1>2 DEF Contract!Settle
<1> QED
  BY <1>3, <1>4 DEF Contract!Next

\* A step of c towards anything but its acknowledgement.
LEMMA Quiet ==
  ASSUME TypeInv, TypeInv', NEW c \in Consumers, UNCHANGED <<unreadable, passed, wire>>,
         CallsKept(c), pc'[c] # "settle"
  PROVE  Contract!Next
<1>1. ClaimOf(c)' \subseteq ClaimOf(c)
  BY DEF ClaimOf, AckedBy
<1>2. WireSame(c) /\ passed' = passed \cup {} /\ {} \in SUBSET ClaimOf(c)
  BY DEF WireSame
<1> QED
  BY <1>1, <1>2, Settles

\* A step of c to its acknowledgement: its batch is converted.
LEMMA Claiming ==
  ASSUME TypeInv, IInv', NEW c \in Consumers, UNCHANGED <<unreadable, passed>>,
         CallsKept(c), pc[c] # "settle", pc'[c] = "settle",
         \/ UNCHANGED wire
         \/ wire' = wire \cup ({c} \X batch'[c]) /\ ack'[c]
  PROVE  Contract!Next
<1> DEFINE B == IF ack'[c] THEN batch'[c] ELSE {}
<1>1. TypeInv' /\ ReadableInv(c)' /\ batch'[c] \subseteq Messages
  BY DEF IInv, ConsumerInv, CallInv, TypeInv
<1>2. B \in SUBSET Messages /\ B \cap unreadable = {}
  BY <1>1 DEF ReadableInv
<1>3. ClaimOf(c)' = ClaimOf(c) \cup B
  BY <1>1 DEF ClaimOf, AckedBy
<1>4. WireSame(c)
  BY DEF WireSame
<1>5. Claims[c] = ClaimOf(c) /\ Claims' = [Claims EXCEPT ![c] = ClaimOf(c)']
  BY <1>1, <1>4, ClaimsType, OthersClaims
<1>6. Claims' = [Claims EXCEPT ![c] = @ \cup B]
  <2> HIDE DEF B
  <2>1. Claims \in [Consumers -> SUBSET Messages]
    BY ClaimsType
  <2> QED
    BY <1>3, <1>5, <2>1
<1>7. Contract!Claim(c, B)
  <2> HIDE DEF B
  <2> QED
    BY <1>2, <1>6 DEF Contract!Claim
<1> QED
  BY <1>2, <1>7 DEF Contract!Next

\* A call that returns without settling anything.
LEMMA ReturnClaims ==
  ASSUME TypeInv, TypeInv', NEW c \in Consumers, NEW r \in Results, Return(c, r),
         UNCHANGED <<unreadable, passed>>, WireSame(c), AckedBy(c)' \subseteq ClaimOf(c)
  PROVE  Contract!Next
<1>1. pc'[c] = "idle" /\ CallsKept(c)
  BY ReturnEffect
<1>2. ClaimOf(c)' \subseteq ClaimOf(c)
  BY <1>1 DEF ClaimOf
<1>3. {} \in SUBSET ClaimOf(c) /\ passed' = passed \cup {}
  OBVIOUS
<1> QED
  BY <1>1, <1>2, <1>3, Settles

\* The same when nothing is sent.
LEMMA ReturnQuietly ==
  ASSUME TypeInv, TypeInv', NEW c \in Consumers, NEW r \in Results, Return(c, r),
         UNCHANGED <<unreadable, passed, wire>>
  PROVE  Contract!Next
  BY ReturnEffect, Quiet DEF Results

\* Calls of others when only pc and batch of c change.
LEMMA ReadsKeep ==
  ASSUME TypeInv, NEW c \in Consumers, NEW step \in Steps, Goto(c, step),
         UNCHANGED <<ack, confirmed, result>>,
         \/ UNCHANGED batch
         \/ \E B \in SUBSET Messages : batch' = [batch EXCEPT ![c] = B]
  PROVE  CallsKept(c) /\ pc'[c] = step
<1>1. pc'[c] = step /\ \A d \in Consumers \ {c} : pc'[d] = pc[d]
  BY GotoEffect
<1>2. \A d \in Consumers \ {c} : batch'[d] = batch[d]
  BY DEF TypeInv
<1> QED
  BY <1>1, <1>2 DEF CallsKept

\* Begin is a step of the promise.
LEMMA BeginClaims ==
  ASSUME TypeInv, TypeInv', NEW c \in Consumers, NEW acknowledge \in BOOLEAN,
         Begin(c, acknowledge)
  PROVE  Contract!Next
<1>1. /\ UNCHANGED <<unreadable, passed, wire>>
      /\ pc' = [pc EXCEPT ![c] = "fetch"] /\ ack' = [ack EXCEPT ![c] = acknowledge]
      /\ batch' = [batch EXCEPT ![c] = {}] /\ confirmed' = [confirmed EXCEPT ![c] = {}]
      /\ result' = [result EXCEPT ![c] = "none"]
  BY DEF Begin, Goto, scenario
<1>2. pc'[c] = "fetch" /\ CallsKept(c)
  BY <1>1 DEF TypeInv, TypeOK, CallsKept
<1> QED
  BY <1>1, <1>2, Quiet

\* The deadline is a stutter of the promise or one of its steps.
LEMMA DeadlineClaims ==
  ASSUME TypeInv, IInv', NEW c \in Consumers, DeadlinePasses(c) PROVE Contract!Next
<1> DEFINE step == IF protocol = "jetstream" THEN "convert" ELSE "settle"
<1>1. /\ UNCHANGED <<unreadable, passed, wire>> /\ pc[c] = "fetch" /\ Goto(c, step)
      /\ UNCHANGED <<ack, batch, confirmed, result>> /\ step \in Steps /\ TypeInv'
  BY DEF DeadlinePasses, scenario, broker, Steps, IInv
<1> HIDE DEF step
<1>2. CallsKept(c)
  BY <1>1, ReadsKeep
<1>3. CASE pc'[c] = "settle"
  BY <1>1, <1>2, <1>3, Claiming
<1>4. CASE pc'[c] # "settle"
  BY <1>1, <1>2, <1>4, Quiet
<1> QED
  BY <1>3, <1>4

\* So is the conversion of what was read.
LEMMA ConvertClaims ==
  ASSUME TypeInv, IInv', NEW c \in Consumers, Convert(c) PROVE Contract!Next
<1>1. /\ pc[c] = "convert" /\ TypeInv' /\ UNCHANGED <<unreadable, passed>>
      /\ {"Ok", "Failed"} \subseteq Results /\ "settle" \in Steps
  BY DEF Convert, scenario, IInv, Results, Steps
<1>2. CASE UNCHANGED wire /\ \E r \in {"Ok", "Failed"} : Return(c, r)
  BY <1>1, <1>2, ReturnQuietly
<1>3. CASE /\ Goto(c, "settle") /\ UNCHANGED <<ack, batch, confirmed, result>> /\ ack[c]
           /\ wire' = IF protocol = "jetstream" THEN wire \cup ({c} \X batch[c]) ELSE wire
  <2>1. CallsKept(c) /\ pc'[c] = "settle"
    BY <1>1, <1>3, ReadsKeep
  <2> QED
    BY <1>1, <1>3, <2>1, Claiming
<1> QED
  BY <1>2, <1>3 DEF Convert

\* A message is taken into the batch.
LEMMA TakeClaims ==
  ASSUME IInv, IInv', NEW c \in Consumers, NEW m \in Messages, NEW then \in {"settle", "convert"},
         Take(c, m, then), pc[c] = "fetch", UNCHANGED <<unreadable, passed, wire>>
  PROVE  Contract!Next
<1>1. CallsKept(c) /\ TypeInv /\ TypeInv'
  BY TakeEffect DEF IInv
<1>2. CASE pc'[c] = "settle"
  BY <1>1, <1>2, Claiming
<1>3. CASE pc'[c] # "settle"
  BY <1>1, <1>3, Quiet
<1> QED
  BY <1>2, <1>3

\* The AMQP steps are steps of the promise or stutters.
LEMMA AmqpClaims ==
  ASSUME IInv, IInv', NEW c \in Consumers, Amqp(c) PROVE Contract!Next
<1>1. TypeInv /\ TypeInv' /\ ConsumerInv(c)
  BY DEF IInv
<1>2. CASE AmqpGet(c)
  <2>1. UNCHANGED <<unreadable, passed, wire>> /\ pc[c] = "fetch"
        /\ "abort" \in Steps /\ "settle" \in Steps
    BY <1>2 DEF AmqpGet, At, scenario, Steps
  <2>2. PICK m \in First(Ready) :
          IF m \in unreadable
          THEN Goto(c, "abort") /\ UNCHANGED <<ack, batch, confirmed, result>>
          ELSE IF Ready = {m}
          THEN /\ batch' = [batch EXCEPT ![c] = @ \cup {m}]
               /\ Goto(c, "settle") /\ UNCHANGED <<ack, confirmed, result>>
          ELSE Take(c, m, "settle")
    BY <1>2 DEF AmqpGet
  <2>3. m \in Messages
    BY <2>2, FirstType DEF Ready
  <2>4. CASE m \in unreadable
    BY <1>1, <2>1, <2>2, <2>4, ReadsKeep, Quiet
  <2>5. CASE m \notin unreadable /\ Ready # {m}
    BY <2>1, <2>2, <2>3, <2>5, TakeClaims
  <2>6. CASE m \notin unreadable /\ Ready = {m}
    <3>1. batch[c] \cup {m} \in SUBSET Messages /\ batch' = [batch EXCEPT ![c] = batch[c] \cup {m}]
          /\ Goto(c, "settle") /\ UNCHANGED <<ack, confirmed, result>>
      BY <1>1, <2>2, <2>3, <2>6 DEF TypeInv
    <3>2. CallsKept(c) /\ pc'[c] = "settle"
      BY <1>1, <2>1, <3>1, ReadsKeep
    <3> QED
      BY <1>1, <2>1, <3>2, Claiming
  <2> QED
    BY <2>4, <2>5, <2>6
<1>3. CASE AmqpGetFails(c)
  <2>1. UNCHANGED <<unreadable, passed, wire>> /\ Goto(c, "abort") /\ "abort" \in Steps
        /\ UNCHANGED <<ack, batch, confirmed, result>>
    BY <1>3 DEF AmqpGetFails, scenario, Steps
  <2> QED
    BY <1>1, <2>1, ReadsKeep, Quiet
<1>4. CASE AmqpAck(c)
  <2>1. /\ UNCHANGED <<unreadable, passed>> /\ pc[c] = "settle" /\ "abort" \in Steps
        /\ {"Ok", "OutcomeIndeterminate"} \subseteq Results /\ ack[c]
    BY <1>1, <1>4 DEF AmqpAck, At, scenario, Steps, Results, ConsumerInv, CallInv, AskedInv
  <2>2. CASE Goto(c, "abort") /\ UNCHANGED <<ack, batch, confirmed, result, wire>>
    BY <1>1, <2>1, <2>2, ReadsKeep, Quiet
  <2>3. ASSUME NEW r \in {"Ok", "OutcomeIndeterminate"}, Return(c, r),
               wire' = wire \/ wire' = wire \cup ({c} \X batch[c])
        PROVE  Contract!Next
    <3>1. WireSame(c)
      BY <2>3 DEF WireSame
    <3>2. AckedBy(c)' \subseteq ClaimOf(c)
      BY <2>1, <2>3 DEF AckedBy, ClaimOf
    <3> QED
      BY <1>1, <2>1, <2>3, <3>1, <3>2, ReturnClaims
  <2>4. CASE \E sent \in {{}, {c} \X batch[c]} :
               /\ wire' = IF c \in open THEN wire \cup sent ELSE wire
               /\ \/ sent # {} /\ Return(c, "Ok")
                  \/ Return(c, "OutcomeIndeterminate")
    <3>1. wire' = wire \/ wire' = wire \cup ({c} \X batch[c])
      BY <2>4
    <3>2. \E r \in {"Ok", "OutcomeIndeterminate"} : Return(c, r)
      BY <2>4
    <3> QED
      BY <2>3, <3>1, <3>2
  <2> QED
    BY <1>4, <2>2, <2>3, <2>4 DEF AmqpAck
<1>5. CASE AmqpAbort(c)
  <2>1. UNCHANGED <<unreadable, passed, wire>> /\ {"Failed", "OutcomeIndeterminate"} \subseteq Results
        /\ \E r \in {"Failed", "OutcomeIndeterminate"} : Return(c, r)
    BY <1>5 DEF AmqpAbort, scenario, Results
  <2> QED
    BY <1>1, <2>1, ReturnQuietly
<1>6. CASE AmqpAckArrives(c)
  <2>1. /\ UNCHANGED unreadable /\ UNCHANGED <<pc, ack, batch, confirmed, result>>
        /\ passed' = passed \cup AckedBy(c) /\ wire' = wire \ ({c} \X Messages)
    BY <1>6 DEF AmqpAckArrives, scenario, call, Settle
  <2>2. CallsKept(c) /\ WireSame(c) /\ AckedBy(c) \in SUBSET ClaimOf(c)
        /\ ClaimOf(c)' \subseteq ClaimOf(c)
    BY <2>1 DEF CallsKept, WireSame, ClaimOf, AckedBy
  <2> QED
    BY <1>1, <2>1, <2>2, Settles
<1>7. CASE AmqpChannelLost(c)
  <2>1. /\ UNCHANGED <<unreadable, passed>> /\ UNCHANGED <<pc, ack, batch, confirmed, result>>
        /\ wire' = wire \ ({c} \X Messages)
    BY <1>7 DEF AmqpChannelLost, scenario, call
  <2>2. CallsKept(c) /\ WireSame(c) /\ {} \in SUBSET ClaimOf(c) /\ passed' = passed \cup {}
        /\ ClaimOf(c)' \subseteq ClaimOf(c)
    BY <2>1 DEF CallsKept, WireSame, ClaimOf, AckedBy
  <2> QED
    BY <1>1, <2>1, <2>2, Settles
<1> QED
  BY <1>2, <1>3, <1>4, <1>5, <1>6, <1>7 DEF Amqp

\* So are those of JetStream,
LEMMA JetStreamClaims ==
  ASSUME IInv, IInv', NEW c \in Consumers, JetStream(c) PROVE Contract!Next
<1>1. TypeInv /\ TypeInv' /\ {"Ok", "Failed"} \subseteq Results
  BY DEF IInv, Results
<1>2. CASE JetStreamFetch(c)
  <2>1. UNCHANGED <<unreadable, passed, wire>> /\ pc[c] = "fetch"
        /\ \E m \in First(Ready) : Take(c, m, "convert")
    BY <1>2 DEF JetStreamFetch, At, scenario
  <2>2. First(Ready) \subseteq Messages
    BY DEF First, Ready
  <2> QED
    BY <2>1, <2>2, TakeClaims
<1>3. CASE JetStreamFetchFails(c) \/ JetStreamAcked(c)
  <2>1. UNCHANGED <<unreadable, passed, wire>> /\ \E r \in {"Ok", "Failed"} : Return(c, r)
    BY <1>3 DEF JetStreamFetchFails, JetStreamAcked, scenario, broker
  <2> QED
    BY <1>1, <2>1, ReturnQuietly
<1>4. ASSUME NEW m \in Messages, JetStreamAckArrives(c, m) PROVE Contract!Next
  <2>1. /\ UNCHANGED <<unreadable, pc, ack, batch, result>> /\ passed' = passed \cup {m}
        /\ wire' = wire \ {<<c, m>>} /\ <<c, m>> \in wire
        /\ confirmed' = confirmed \/ confirmed' = [confirmed EXCEPT ![c] = @ \cup {m}]
    BY <1>4 DEF JetStreamAckArrives, scenario, Settle
  <2>2. CallsKept(c)
    BY <1>1, <2>1 DEF CallsKept, TypeInv, TypeOK
  <2>3. WireSame(c) /\ {m} \in SUBSET ClaimOf(c) /\ ClaimOf(c)' \subseteq ClaimOf(c)
    BY <2>1 DEF WireSame, ClaimOf, AckedBy
  <2> QED
    BY <1>1, <2>1, <2>2, <2>3, Settles
<1>5. ASSUME NEW m \in Messages, JetStreamAckLost(c, m) PROVE Contract!Next
  <2>1. /\ UNCHANGED <<unreadable, passed>> /\ UNCHANGED <<pc, ack, batch, confirmed, result>>
        /\ wire' = wire \ {<<c, m>>}
    BY <1>5 DEF JetStreamAckLost, scenario, call
  <2>2. CallsKept(c) /\ WireSame(c) /\ {} \in SUBSET ClaimOf(c) /\ passed' = passed \cup {}
        /\ ClaimOf(c)' \subseteq ClaimOf(c)
    BY <2>1 DEF CallsKept, WireSame, ClaimOf, AckedBy
  <2> QED
    BY <1>1, <2>1, <2>2, Settles
<1> QED
  BY <1>2, <1>3, <1>4, <1>5 DEF JetStream

\* those of Redis,
LEMMA RedisClaims ==
  ASSUME IInv, IInv', NEW c \in Consumers, Redis(c) PROVE Contract!Next
<1>1. TypeInv /\ TypeInv' /\ {"Ok", "Failed"} \subseteq Results /\ ConsumerInv(c)
      /\ {"fresh", "convert"} \subseteq Steps
  BY DEF IInv, Results, Steps
<1>2. CASE RedisReplay(c)
  <2>1. UNCHANGED <<unreadable, passed, wire>>
    BY <1>2 DEF RedisReplay, scenario, broker
  <2>2. CASE Return(c, "Ok")
    BY <1>1, <2>1, <2>2, ReturnQuietly
  <2>3. ASSUME NEW step \in {"fresh", "convert"}, NEW B \in SUBSET Messages, Goto(c, step),
               batch' = [batch EXCEPT ![c] = B], UNCHANGED <<ack, confirmed, result>>
        PROVE  Contract!Next
    BY <1>1, <2>1, <2>3, ReadsKeep, Quiet
  <2>4. Smallest(Max, HeldBy(member[c])) \in SUBSET Messages
    BY DEF Smallest, HeldBy
  <2> QED
    BY <1>2, <2>2, <2>3, <2>4 DEF RedisReplay
<1>3. CASE RedisReadNew(c)
  <2> DEFINE fresh == Smallest(Max - Cardinality(batch[c]), Ready)
  <2>1. UNCHANGED <<unreadable, passed, wire>> /\ Goto(c, "convert")
        /\ UNCHANGED <<ack, confirmed, result>>
        /\ (batch' = batch \/ batch' = [batch EXCEPT ![c] = @ \cup fresh])
    BY <1>3 DEF RedisReadNew, scenario
  <2>2. batch[c] \cup fresh \in SUBSET Messages
    BY <1>1, FreshEntries DEF TypeInv
  <2> HIDE DEF fresh
  <2>3. CallsKept(c) /\ pc'[c] = "convert"
    BY <1>1, <2>1, <2>2, ReadsKeep
  <2> QED
    BY <1>1, <2>1, <2>3, Quiet
<1>4. CASE RedisReadFails(c)
  <2>1. UNCHANGED <<unreadable, passed, wire>> /\ Return(c, "Failed")
    BY <1>4 DEF RedisReadFails, scenario
  <2> QED
    BY <1>1, <2>1, ReturnQuietly
<1>5. CASE RedisXack(c)
  <2>1. /\ UNCHANGED <<unreadable, wire>> /\ pc[c] = "settle" /\ protocol = "redis"
        /\ passed' \in {passed, passed \cup batch[c]}
        /\ \E r \in {"Ok", "Failed"} : Return(c, r)
    BY <1>5 DEF RedisXack, At, scenario, Settle
  <2>2. ack[c]
    BY <1>1, <2>1 DEF ConsumerInv, CallInv, AskedInv
  <2>3. CallsKept(c) /\ pc'[c] = "idle"
    BY <1>1, <2>1, ReturnEffect
  <2>4. /\ batch[c] \in SUBSET ClaimOf(c) /\ {} \in SUBSET ClaimOf(c) /\ passed = passed \cup {}
        /\ ClaimOf(c)' \subseteq ClaimOf(c) /\ WireSame(c)
    BY <2>1, <2>2, <2>3 DEF ClaimOf, AckedBy, WireSame
  <2> QED
    BY <1>1, <2>1, <2>3, <2>4, Settles
<1> QED
  BY <1>2, <1>3, <1>4, <1>5 DEF Redis

\* A commit moves a partition's offset past nothing but the batch and messages
\* that had been passed before: a gap in front of the batch cannot be lost.
LEMMA CommitPassesBatch ==
  ASSUME IInv, NEW c \in Consumers, protocol = "kafka"
  PROVE  Committed(batch[c]) \subseteq batch[c] \cup passed
<1>1. PositionInv(c) /\ settled \subseteq passed /\ batch[c] \in SUBSET Messages
  BY DEF IInv, ConsumerInv, CallInv, TypeInv
<1> SUFFICES ASSUME NEW m \in Committed(batch[c]), m \notin passed PROVE m \in batch[c]
  OBVIOUS
<1>2. m \in Messages
  BY DEF Committed
<1>3. PICK k \in batch[c] : PartitionOf[k] = PartitionOf[m] /\ m <= k
  BY <1>1 DEF Committed
<1>4. m = k \/ m < k
  <2>1. m \in Nat /\ k \in Nat
    BY <1>1, <1>2, <1>3, MessageType
  <2> QED
    BY <1>3, <2>1
<1> QED
  BY <1>1, <1>2, <1>3, <1>4 DEF PositionInv

\* those of Kafka
LEMMA KafkaClaims ==
  ASSUME IInv, IInv', NEW c \in Consumers, Kafka(c)
  PROVE  Contract!Next \/ UNCHANGED <<unreadable, passed, Claims>>
<1>1. TypeInv /\ TypeInv' /\ {"Ok", "Failed"} \subseteq Results
  BY DEF IInv, Results
<1>2. CASE KafkaPoll(c)
  <2>1. UNCHANGED <<unreadable, passed, wire>> /\ pc[c] = "fetch"
    BY <1>2 DEF KafkaPoll, At, scenario
  <2>2. \/ Return(c, "Failed")
        \/ \E m \in Messages : Take(c, m, "settle")
    BY <1>2 DEF KafkaPoll, First, Unpolled
  <2> QED
    BY <1>1, <2>1, <2>2, ReturnQuietly, TakeClaims
<1>3. CASE KafkaPollFails(c)
  <2>1. UNCHANGED <<unreadable, passed, wire>> /\ Return(c, "Failed")
    BY <1>3 DEF KafkaPollFails, scenario
  <2> QED
    BY <1>1, <2>1, ReturnQuietly
<1>4. CASE KafkaCommit(c)
  <2>1. UNCHANGED <<unreadable, wire>> /\ pc[c] = "settle" /\ protocol = "kafka"
    BY <1>4 DEF KafkaCommit, At, scenario
  <2>2. CASE passed' = passed /\ \E r \in {"Ok", "Failed"} : Return(c, r)
    BY <1>1, <2>1, <2>2, ReturnQuietly
  <2>3. CASE /\ ack[c] /\ passed' = passed \cup Committed(batch[c])
             /\ \E r \in {"Ok", "Failed"} : Return(c, r)
    <3> DEFINE S == Committed(batch[c]) \ passed
    <3>1. CallsKept(c) /\ pc'[c] = "idle"
      BY <1>1, <2>3, ReturnEffect
    <3>2. S \subseteq batch[c] /\ passed' = passed \cup S
      BY <2>1, <2>3, CommitPassesBatch
    <3>3. S \in SUBSET ClaimOf(c) /\ ClaimOf(c)' \subseteq ClaimOf(c) /\ WireSame(c)
      BY <2>1, <2>3, <3>1, <3>2 DEF ClaimOf, AckedBy, WireSame
    <3> QED
      BY <1>1, <2>1, <3>1, <3>2, <3>3, Settles
  <2>4. \/ passed' = passed /\ \E r \in {"Ok", "Failed"} : Return(c, r)
        \/ /\ ack[c] /\ passed' = passed \cup Committed(batch[c])
           /\ \E r \in {"Ok", "Failed"} : Return(c, r)
    BY <1>4 DEF KafkaCommit
  <2> QED
    BY <2>2, <2>3, <2>4
<1>5. ASSUME NEW p \in Partitions, KafkaRebalance(p, c)
      PROVE  UNCHANGED <<unreadable, passed, Claims>>
  BY <1>5 DEF KafkaRebalance, scenario, call, Claims, AckedBy
<1> QED
  BY <1>2, <1>3, <1>4, <1>5 DEF Kafka

\* and the end of a call that is dropped.
LEMMA InterruptedClaims ==
  ASSUME TypeInv, TypeInv', NEW c \in Consumers, Interrupted(c) PROVE Contract!Next
<1>1. UNCHANGED <<unreadable, passed, wire>> /\ Goto(c, "idle") /\ "idle" \in Steps
      /\ UNCHANGED <<ack, batch, confirmed, result>>
  BY DEF Interrupted, scenario, Steps
<1> QED
  BY <1>1, ReadsKeep, Quiet

\* Every step of the calls is one of the promise, or a stutter.
LEMMA StepImplements == IInv /\ IInv' /\ [Next]_vars => [Contract!Next]_Contract!vars
<1> SUFFICES ASSUME IInv, IInv', [Next]_vars
             PROVE  Contract!Next \/ UNCHANGED <<unreadable, passed, Claims>>
  BY DEF Contract!vars
<1>1. TypeInv /\ TypeInv'
  BY DEF IInv
<1>2. ASSUME NEW c \in Consumers, Amqp(c) \/ JetStream(c) \/ Redis(c) PROVE Contract!Next
  BY <1>2, AmqpClaims, JetStreamClaims, RedisClaims
<1>3. ASSUME NEW c \in Consumers,
             \/ \E acknowledge \in BOOLEAN : Begin(c, acknowledge)
             \/ DeadlinePasses(c) \/ Convert(c) \/ Interrupted(c)
      PROVE  Contract!Next
  BY <1>1, <1>3, BeginClaims, DeadlineClaims, ConvertClaims, InterruptedClaims
<1>4. ASSUME NEW m \in Messages, AckWaitExpires(m) PROVE UNCHANGED <<unreadable, passed, Claims>>
  BY <1>4 DEF AckWaitExpires, scenario, call, Claims, AckedBy
<1>5. ASSUME UNCHANGED vars PROVE UNCHANGED <<unreadable, passed, Claims>>
  BY <1>5 DEF vars, scenario, broker, call, Claims, AckedBy
<1> QED
  BY <1>2, <1>3, <1>4, <1>5, KafkaClaims DEF Next
-----------------------------------------------------------------------------
(* The theorems.                                                           *)

\* The inductive invariant holds in every state of the bounded reads.
THEOREM AlwaysInv == Spec => []IInv
  BY InitInv, StepKeepsInv, PTL DEF Spec

\* Every variable has its type and no batch is larger than was asked for.
THEOREM TypeCorrect == Spec => []TypeOK
<1>1. IInv => TypeOK
  BY DEF IInv, TypeInv
<1> QED
  BY <1>1, AlwaysInv, PTL

\* JetStream, Redis Streams and Kafka: a call that reports success has had its
\* whole batch acknowledged.
THEOREM SuccessSettles == Spec => []OkMeansSettled
<1>1. IInv => OkMeansSettled
  BY DEF IInv, ConsumerInv, SettledInv, OkMeansSettled
<1> QED
  BY <1>1, AlwaysInv, PTL

\* AMQP: a call that reports a definite failure has put its batch back.
THEOREM FailureRequeues == Spec => []AmqpFailureRequeues
<1>1. IInv => AmqpFailureRequeues
  BY DEF IInv, ConsumerInv, RequeuedInv, AmqpFailureRequeues
<1> QED
  BY <1>1, AlwaysInv, PTL

\* Redis Streams: whoever has a member name of its own is handed new entries only
\* with all its pending ones in its batch.
THEOREM PendingFirst == Spec => []PendingIsReplayedFirst
<1>1. IInv => PendingIsReplayedFirst
  BY DEF IInv, ConsumerInv, ReplayedInv, PendingIsReplayedFirst
<1> QED
  BY <1>1, AlwaysInv, PTL

\* Bounded consumption implements AtLeastOnce on every protocol: the broker's
\* progress moves past a message only by a call that converted its whole batch
\* and was asked to acknowledge it.
THEOREM ImplementsAtLeastOnce == Spec => AtLeastOncePromise
<1>1. Init => Contract!Init
  <2> SUFFICES ASSUME Init PROVE Contract!Init
    OBVIOUS
  <2>1. Claims = [c \in Consumers |-> {}]
    BY DEF Init, Claims, AckedBy
  <2>2. unreadable \in SUBSET Messages /\ passed = {}
    BY BatchConsumeAssumption DEF Init
  <2> QED
    BY <2>1, <2>2 DEF Contract!Init
<1> QED
  BY <1>1, StepImplements, AlwaysInv, PTL DEF Spec, AtLeastOncePromise, Contract!Spec

\* What AtLeastOnce promises by itself: nothing is passed, or about to be, that
\* nobody could convert.
LEMMA PromiseKeepsUnread == AtLeastOncePromise => []Contract!NothingUnreadIsPassed
<1> DEFINE Inv == /\ Claims \in [Consumers -> SUBSET Messages]
                  /\ Contract!NothingUnreadIsPassed
<1>1. Contract!Init => Inv
  BY DEF Contract!Init, Contract!NothingUnreadIsPassed
<1>2. Inv /\ [Contract!Next]_Contract!vars => Inv'
  <2> SUFFICES ASSUME Inv, [Contract!Next]_Contract!vars PROVE Inv'
    OBVIOUS
  <2>1. ASSUME NEW c \in Consumers, NEW B \in SUBSET Messages, Contract!Claim(c, B)
        PROVE  Inv'
    <3>1. /\ B \cap unreadable = {} /\ UNCHANGED <<unreadable, passed>>
          /\ Claims' = [Claims EXCEPT ![c] = @ \cup B]
      BY <2>1 DEF Contract!Claim
    <3> QED
      BY <3>1 DEF Contract!NothingUnreadIsPassed
  <2>2. ASSUME NEW c \in Consumers, NEW S \in SUBSET Claims[c], NEW R \in SUBSET Claims[c],
               Contract!Settle(c, S, R)
        PROVE  Inv'
    <3>1. /\ passed' = passed \cup S /\ UNCHANGED unreadable
          /\ Claims' = [Claims EXCEPT ![c] = R]
      BY <2>2 DEF Contract!Settle
    <3> QED
      BY <3>1 DEF Contract!NothingUnreadIsPassed
  <2>3. CASE UNCHANGED Contract!vars
    BY <2>3 DEF Contract!vars, Contract!NothingUnreadIsPassed
  <2> QED
    BY <2>1, <2>2, <2>3 DEF Contract!Next
<1> QED
  BY <1>1, <1>2, PTL DEF AtLeastOncePromise, Contract!Spec

\* A message that cannot be converted is never acknowledged, on any broker.
THEOREM NothingUnreadIsPassed == Spec => []Contract!NothingUnreadIsPassed
  BY ImplementsAtLeastOnce, PromiseKeepsUnread, PTL
=============================================================================
