--------------------------- MODULE MCBatchConsume ---------------------------
(***************************************************************************)
(* Two consumers of three messages for TLC; on Kafka the second one is in a*)
(* partition of its own.                                                   *)
(***************************************************************************)
EXTENDS BatchConsume, TLC

MCProtocols   == {"amqp", "jetstream", "redis", "kafka"}
MCPartitionOf == [m \in 1..Count |-> IF m = 2 THEN "q" ELSE "p"]
MCUnreadables == {{}} \cup {{m} : m \in 1..Count}
Symmetry      == Permutations(Consumers)
=============================================================================
