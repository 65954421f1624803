---------------------------- MODULE AtLeastOnce -----------------------------
(***************************************************************************)
(* What a bounded `mq consume` promises on every broker that keeps progress*)
(* (docs/messaging-boundaries.md): it may move the broker's progress past a*)
(* message only after the complete batch was converted by a call that asked*)
(* for it (--ack on-success).  A message that cannot be converted is never *)
(* passed.                                                                 *)
(***************************************************************************)
CONSTANTS Consumers, Messages

VARIABLES
  unreadable,  \* the messages the portable Message model cannot represent
  passed,      \* the messages the broker's progress has moved past
  claim        \* what each consumer's calls are entitled to move it past

vars == <<unreadable, passed, claim>>

Init ==
  /\ unreadable \in SUBSET Messages
  /\ passed = {}
  /\ claim = [c \in Consumers |-> {}]

\* A complete batch is converted, and an acknowledgement was asked for.
Claim(c, batch) ==
  /\ batch \cap unreadable = {}
  /\ claim' = [claim EXCEPT ![c] = @ \cup batch]
  /\ UNCHANGED <<unreadable, passed>>

\* The broker takes in some of the acknowledgements, now or after the call has
\* returned; claims are given up when they are used, refused or lost.
Settle(c, these, rest) ==
  /\ passed' = passed \cup these
  /\ claim' = [claim EXCEPT ![c] = rest]
  /\ UNCHANGED unreadable

Next == \E c \in Consumers :
          \/ \E batch \in SUBSET Messages : Claim(c, batch)
          \/ \E these, rest \in SUBSET claim[c] : Settle(c, these, rest)

Spec == Init /\ [][Next]_vars
-----------------------------------------------------------------------------
TypeOK ==
  /\ unreadable \subseteq Messages /\ passed \subseteq Messages
  /\ claim \in [Consumers -> SUBSET Messages]

\* Nothing is passed, or about to be, that nobody could read.
NothingUnreadIsPassed ==
  /\ passed \cap unreadable = {}
  /\ \A c \in Consumers : claim[c] \cap unreadable = {}
=============================================================================
