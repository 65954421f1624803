SPECIFICATION Spec
CONSTANTS
  Consumers = {c1, c2}
  Nobody = Nobody
  Count = 3
  PartitionOf <- MCPartitionOf
  Max = 2
  Protocols <- MCProtocols
  Unreadables <- MCUnreadables
SYMMETRY Symmetry
INVARIANTS
  TypeOK
  OkMeansSettled
  AmqpFailureRequeues
  PendingIsReplayedFirst
PROPERTY
  AtLeastOncePromise
