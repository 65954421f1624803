---------------------------- MODULE LagDimensions -----------------------------
(***************************************************************************)
(* The numbers of a consumer group's lag: what each adapter makes of the   *)
(* counters its server reports.  Numbers are i64, of which MaxI64 is the   *)
(* largest.  Unreported stands for a counter an old server leaves out and  *)
(* for an offset nobody has committed.                                     *)
(***************************************************************************)
EXTENDS Integers

CONSTANTS MaxI64, Unreported

NoLag == [committed |-> -1, latest |-> -1, lag |-> -1]

Portable(n) == n \in 0..MaxI64

\* redis_lag_dimensions: a group that has delivered nothing may have no counter.
RedisDimensions(delivered, entriesRead, pending, serverLag) ==
  LET read == IF entriesRead = Unreported /\ ~delivered THEN 0 ELSE entriesRead IN
  IF Unreported \in {read, serverLag} THEN NoLag
  ELSE IF pending > read \/ ~Portable(read + serverLag) \/ ~Portable(pending + serverLag) THEN NoLag
  ELSE [committed |-> read - pending, latest |-> read + serverLag, lag |-> pending + serverLag]

\* nats_lag_dimensions: the outstanding messages are counted by the server.
NatsDimensions(ackFloor, lastSequence, ackPending, pending) ==
  IF Portable(ackFloor) /\ Portable(lastSequence) /\ Portable(ackPending + pending)
  THEN [committed |-> ackFloor, latest |-> lastSequence, lag |-> ackPending + pending]
  ELSE NoLag

\* committed_offset and lag_info: a partition without an offset is not shown, and an
\* offset past the end of a truncated partition is no negative lag.
KafkaDimensions(committed, highWatermark) ==
  IF committed = Unreported \/ highWatermark < 0 THEN NoLag
  ELSE [committed |-> committed, latest |-> highWatermark,
        lag |-> IF committed > highWatermark THEN 0 ELSE highWatermark - committed]
-----------------------------------------------------------------------------
(* Checked for all small counters: what is shown is what is left to do.     *)

Counters == 0..(MaxI64 + 1)
Reported == Counters \cup {Unreported}

\* The lag of a Redis group lies between what it has acknowledged and the end of the
\* stream; when the server counts consistently, it is their difference.
RedisAddsUp ==
  \A delivered \in BOOLEAN, read \in Reported, pending \in Counters, behind \in Reported :
    LET shown == RedisDimensions(delivered, read, pending, behind) IN
      shown # NoLag =>
        /\ shown.lag = shown.latest - shown.committed
        /\ shown.committed \in 0..shown.latest /\ shown.latest <= MaxI64

\* Kafka's lag never is negative, and it is 0 exactly for a group that is at the end.
KafkaAddsUp ==
  \A committed \in 0..MaxI64, high \in -1..MaxI64 :
    LET shown == KafkaDimensions(committed, high) IN
      shown # NoLag => shown.lag \in 0..high /\ (shown.lag = 0 <=> committed >= high)

\* A JetStream consumer on an unfiltered stream without deletions: the lag is what
\* lies behind the acknowledgement floor if nothing was acknowledged out of order.
NatsAddsUp ==
  \A floor, inFlight, left \in 0..MaxI64 :
    LET shown == NatsDimensions(floor, floor + inFlight + left, inFlight, left) IN
      shown # NoLag => shown.lag = shown.latest - shown.committed

ASSUME LagAddsUp == RedisAddsUp /\ KafkaAddsUp /\ NatsAddsUp
=============================================================================
