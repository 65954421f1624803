------------------------- MODULE FlowControlProofs -------------------------
(***************************************************************************)
(* What FlowControl guarantees for every number of callers and every       *)
(* configuration.  The inductive invariant IInv strengthens the safety     *)
(* invariants with where a call stands: an operation is only in progress   *)
(* while its call holds a permit, only `run` ever naps, and what one       *)
(* attempt can have submitted is bounded by how far it has come.           *)
(***************************************************************************)
EXTENDS FlowControl, FiniteSetTheorems, TLAPS

\* How many requests of a call can exist, before or after taking effect.
Footprint(c) == applied[c] + stale[c] + InFlight(c)

\* The attempt under way can only have a footprint once it has submitted.
AttemptInv(c) ==
  /\ pc[c] # "exec" => op[c] = "unsent"
  /\ pc[c] # "done" => outcome[c] = "none"
  /\ pc[c] = "idle" => attempt[c] = 0
  /\ Footprint(c) <= attempt[c] +
       (IF pc[c] = "done" \/ op[c] \in {"sent", "applied"} THEN 1 ELSE 0)

\* A call that may not be repeated has made one attempt at most, and what it
\* returns is decided by whether that attempt can have been applied.
SingleInv(c) ==
  kind[c] # "run" =>
    /\ pc[c] # "backoff"
    /\ attempt[c] = 0
    /\ op[c] = "applied" => applied[c] = 1
    /\ kind[c] = "mutation" =>
         /\ outcome[c] \in Admission \cup Retryable \cup {"Failed"}
              => applied[c] = 0 /\ stale[c] = 0
         /\ outcome[c] = "Ok" => applied[c] = 1

\* The calls in front of a call in the queue are other calls, begun earlier.
QueueInv(c) == \A d \in ahead[c] : d # c /\ pc[d] # "idle"

DeadlineInv(c) == HasDeadline /\ Active(c) => timer[c] <= left[c]

ContentionInv(c) ==
  outcome[c] = "Overloaded" => \E d \in Callers \ {c} : pc[d] # "idle"

CallInv(c) ==
  AttemptInv(c) /\ SingleInv(c) /\ QueueInv(c) /\ DeadlineInv(c) /\ ContentionInv(c)

IInv == TypeOK /\ PermitsConserved /\ \A c \in Callers : CallInv(c)
-----------------------------------------------------------------------------
(* Lemmas on the helpers. *)

\* There is at least one permit, whatever max_concurrency says.
LEMMA PermitsPositive == Permits \in Nat /\ Permits > 0
  BY ConfigAssumption DEF Permits

\* The exponential backoff is a duration for every retry number.
LEMMA BackoffType == \A n \in Nat : n > 0 => Backoff(n) \in Nat
<1> SUFFICES ASSUME NEW n \in Nat, n > 0 PROVE Backoff(n) \in Nat
  OBVIOUS
<1> DEFINE i == IF n < 6 THEN n ELSE 6
<1>1. i \in 1..6
  OBVIOUS
<1>2. Doublings[i] \in Nat
  BY <1>1 DEF Doublings
<1>3. BackoffUnit \in Nat
  BY ConfigAssumption
<1> QED
  BY <1>2, <1>3 DEF Backoff

\* A budget is a duration and never reaches beyond the deadline.
LEMMA BudgetType ==
  ASSUME TypeOK, NEW c \in Callers, NEW n \in Nat
  PROVE  Budget(c, n) \in Nat /\ (HasDeadline => Budget(c, n) <= left[c])
  BY DEF TypeOK, Budget

\* The holders of a permit can be counted.
LEMMA HoldersFinite ==
  IsFiniteSet(Holders) /\ Cardinality(Holders) \in Nat
<1>1. Holders \subseteq Callers
  BY DEF Holders
<1>2. IsFiniteSet(Holders)
  BY <1>1, ConfigAssumption, FS_Subset
<1> QED
  BY <1>2, FS_CardinalityType

\* A call that becomes a holder raises the number of holders by one ...
LEMMA HolderEnters ==
  ASSUME TypeOK, NEW c \in Callers, pc[c] # "exec", pc' = [pc EXCEPT ![c] = "exec"]
  PROVE  Cardinality(Holders') = Cardinality(Holders) + 1
<1>1. Holders' = Holders \cup {c} /\ c \notin Holders
  BY DEF Holders, TypeOK
<1> QED
  BY <1>1, HoldersFinite, FS_AddElement

\* ... and one that stops being one lowers it by one.
LEMMA HolderLeaves ==
  ASSUME TypeOK, NEW c \in Callers, pc[c] = "exec",
         NEW s \in Stages \ {"exec"}, pc' = [pc EXCEPT ![c] = s]
  PROVE  Cardinality(Holders') = Cardinality(Holders) - 1
<1>1. Holders' = Holders \ {c} /\ c \in Holders
  BY DEF Holders, TypeOK, Stages
<1> QED
  BY <1>1, HoldersFinite, FS_RemoveElement

\* Nothing else changes the set of holders.
LEMMA HoldersStay ==
  ASSUME TypeOK, NEW c \in Callers, NEW s \in Stages \ {"exec"},
         pc[c] # "exec", pc' = [pc EXCEPT ![c] = s]
  PROVE  Holders' = Holders
  BY DEF Holders, TypeOK, Stages

\* When no permit is free, some call holds one.
LEMMA HolderExists ==
  ASSUME PermitsConserved, permits = 0
  PROVE  \E d \in Callers : pc[d] = "exec"
<1>1. Cardinality(Holders) > 0
  BY PermitsPositive, HoldersFinite DEF PermitsConserved
<1>2. Holders # {}
  BY <1>1, FS_EmptySet
<1> QED
  BY <1>2 DEF Holders
-----------------------------------------------------------------------------
(* The steps that leave the permits alone. *)

\* A step that changes neither the permits nor who holds one conserves them.
LEMMA SamePermits ==
  ASSUME TypeOK, PermitsConserved, UNCHANGED permits, Holders' = Holders
  PROVE  permits' \in 0..Permits /\ PermitsConserved'
  BY PermitsPositive DEF TypeOK, PermitsConserved

\* A step that releases a permit had one.
LEMMA ReleasePermit ==
  ASSUME TypeOK, PermitsConserved, NEW c \in Callers, pc[c] = "exec", Release,
         NEW s \in Stages \ {"exec"}, pc' = [pc EXCEPT ![c] = s]
  PROVE  permits' \in 0..Permits /\ PermitsConserved'
<1>1. Cardinality(Holders') = Cardinality(Holders) - 1
  BY HolderLeaves
<1>2. Holders' \subseteq Callers
  BY DEF Holders
<1>3. Cardinality(Holders') \in Nat
  BY <1>2, ConfigAssumption, FS_Subset, FS_CardinalityType
<1> QED
  BY <1>1, <1>3, HoldersFinite, PermitsPositive DEF TypeOK, PermitsConserved, Release
-----------------------------------------------------------------------------
\* A new FlowControl, before any call was made, satisfies the inductive invariant.
THEOREM InitInv == Init => IInv
<1> SUFFICES ASSUME Init PROVE IInv
  OBVIOUS
<1>1. TypeOK
  BY ConfigAssumption, PermitsPositive
  DEF Init, TypeOK, Stages, Kinds, OpStates, Outcomes
<1>2. PermitsConserved
  <2>1. Holders = {}
    BY DEF Init, Holders
  <2> QED
    BY <2>1, FS_EmptySet, PermitsPositive DEF Init, PermitsConserved
<1>3. ASSUME NEW c \in Callers PROVE CallInv(c)
  BY ConfigAssumption
  DEF Init, CallInv, AttemptInv, SingleInv, QueueInv, DeadlineInv, ContentionInv,
      Footprint, InFlight, Active
<1> QED
  BY <1>1, <1>2, <1>3 DEF IInv

\* A step of one call: the others keep their state, and nobody becomes idle.
OnlyCaller(c) ==
  /\ \A d \in Callers \ {c} :
       /\ <<pc[d], kind[d], attempt[d], left[d], timer[d], op[d], outcome[d],
            stale[d], applied[d]>>'
          = <<pc[d], kind[d], attempt[d], left[d], timer[d], op[d], outcome[d],
              stale[d], applied[d]>>
       /\ ahead'[d] \subseteq ahead[d]
  /\ \A d \in Callers : pc[d] # "idle" => pc'[d] # "idle"

\* A step of one call (run_once_with_timeout shares only the semaphore and the
\* limiter between calls) leaves the invariant of every other call intact.
LEMMA OthersKeepInv ==
  ASSUME IInv, NEW c \in Callers, OnlyCaller(c), NEW d \in Callers \ {c}
  PROVE  CallInv(d)'
<1>1. AttemptInv(d)' /\ SingleInv(d)'
  BY DEF IInv, OnlyCaller, CallInv, AttemptInv, SingleInv, Footprint, InFlight
<1>2. QueueInv(d)'
  BY DEF IInv, OnlyCaller, CallInv, QueueInv, TypeOK
<1>3. DeadlineInv(d)' /\ ContentionInv(d)'
  BY DEF IInv, OnlyCaller, CallInv, DeadlineInv, Active, ContentionInv
<1> QED
  BY <1>1, <1>2, <1>3 DEF CallInv

\* As long as the first attempt has not submitted, there is no footprint.
LEMMA NothingSubmitted ==
  ASSUME IInv, NEW c \in Callers, pc[c] # "done", op[c] \in {"unsent", "refused"},
         attempt[c] = 0
  PROVE  applied[c] = 0 /\ stale[c] = 0
<1>1. applied[c] \in Nat /\ stale[c] \in Nat
  BY DEF IInv, TypeOK
<1>2. applied[c] + stale[c] + InFlight(c) <= 0
  BY DEF IInv, CallInv, AttemptInv, Footprint
<1> QED
  BY <1>1, <1>2 DEF InFlight

\* Starting a call keeps the invariant: it joins the queue behind calls that have
\* begun, with a first budget inside the deadline.
LEMMA BeginStep ==
  ASSUME IInv, NEW c \in Callers, NEW k \in Kinds, NEW l \in {"subject", "blank"},
         Begin(c, k, l)
  PROVE  IInv'
<1> USE DEF IInv
<1>1. permits' \in 0..Permits /\ PermitsConserved'
  <2>1. Holders' = Holders
    BY DEF Begin, Enqueue, Waiters, remoteVars, Holders, TypeOK, Stages
  <2> QED
    BY <2>1, SamePermits DEF Begin
<1>2. TypeOK'
  BY <1>1, ConfigAssumption DEF Begin, Enqueue, Waiters, remoteVars, TypeOK, Stages,
      Kinds, OpStates, Outcomes, Admission, Retryable
<1>3. OnlyCaller(c)
  BY DEF Begin, Enqueue, Waiters, remoteVars, OnlyCaller, TypeOK
<1>4. AttemptInv(c)'
  BY <1>2 DEF Begin, Enqueue, Waiters, remoteVars, TypeOK, CallInv, AttemptInv,
      Footprint, InFlight, Stages, Kinds, OpStates, Outcomes, Admission, Retryable
<1>5. SingleInv(c)'
  BY <1>2 DEF Begin, Enqueue, Waiters, remoteVars, TypeOK, CallInv, AttemptInv,
      SingleInv, Footprint, InFlight, Stages, Kinds, OpStates, Outcomes, Admission,
      Retryable
<1>6. QueueInv(c)'
  BY DEF Begin, Enqueue, Waiters, remoteVars, TypeOK, CallInv, QueueInv
<1>7. DeadlineInv(c)'
  BY <1>2 DEF Begin, Enqueue, Waiters, remoteVars, TypeOK, CallInv, DeadlineInv, Active,
      Budget, Expired
<1>8. ContentionInv(c)'
  BY <1>3 DEF Begin, Enqueue, Waiters, remoteVars, TypeOK, CallInv, AttemptInv,
      ContentionInv, OnlyCaller, Retryable
<1>9. CallInv(c)'
  BY <1>4, <1>5, <1>6, <1>7, <1>8 DEF CallInv
<1> QED
  BY <1>1, <1>2, <1>3, <1>9, OthersKeepInv

\* A call refused by validate_durations or for its blank label has submitted nothing.
LEMMA RejectStep ==
  ASSUME IInv, NEW c \in Callers, NEW k \in Kinds, NEW l \in {"subject", "blank"},
         Reject(c, k, l)
  PROVE  IInv'
<1> USE DEF IInv
<1>1. permits' \in 0..Permits /\ PermitsConserved'
  <2>1. Holders' = Holders
    BY DEF Reject, Return, remoteVars, Holders, TypeOK, Stages
  <2> QED
    BY <2>1, SamePermits DEF Reject
<1>2. TypeOK'
  BY <1>1, ConfigAssumption DEF Reject, Return, remoteVars, TypeOK, Stages, Kinds,
      OpStates, Outcomes, Admission, Retryable
<1>3. OnlyCaller(c)
  BY DEF Reject, Return, remoteVars, OnlyCaller, TypeOK
<1>4. AttemptInv(c)'
  BY <1>2 DEF Reject, Return, remoteVars, TypeOK, CallInv, AttemptInv, Footprint,
      InFlight, Stages, Kinds, OpStates, Outcomes, Admission, Retryable
<1>5. SingleInv(c)'
  <2>1. kind[c] # "run" \/ pc[c] = "idle" => attempt[c] = 0
    BY DEF CallInv, AttemptInv, SingleInv
  <2>2. pc[c] # "done" /\ (pc[c] # "exec" => op[c] = "unsent")
    BY DEF CallInv, AttemptInv, Reject
  <2>3. kind'[c] # "run" /\ op[c] \in {"unsent", "refused"} => applied[c] = 0 /\ stale[c] = 0
    BY <2>1, <2>2, NothingSubmitted DEF Reject, Return, remoteVars, TypeOK
  <2> QED
    BY <2>1, <2>2, <2>3 DEF Reject, Return, remoteVars, TypeOK, CallInv, SingleInv
<1>6. QueueInv(c)'
  BY DEF Reject, Return, remoteVars, TypeOK, CallInv, QueueInv, Waiters
<1>7. DeadlineInv(c)'
  BY <1>2 DEF Reject, Return, remoteVars, TypeOK, CallInv, DeadlineInv, Active, Budget,
      Expired
<1>8. ContentionInv(c)'
  BY <1>3 DEF Reject, Return, remoteVars, TypeOK, CallInv, AttemptInv, ContentionInv,
      OnlyCaller, Retryable
<1>9. CallInv(c)'
  BY <1>4, <1>5, <1>6, <1>7, <1>8 DEF CallInv
<1> QED
  BY <1>1, <1>2, <1>3, <1>9, OthersKeepInv

\* Leaving the rate limiter for the semaphore, or for an expired deadline, keeps
\* the invariant; nothing has been submitted in this attempt.
LEMMA TakeTokenStep ==
  ASSUME IInv, NEW c \in Callers, TakeToken(c)
  PROVE  IInv'
<1> USE DEF IInv
<1>0. Budget(c, AcquireTimeout) \in Nat
  BY BudgetType, ConfigAssumption
<1>1. permits' \in 0..Permits /\ PermitsConserved'
  <2>1. Holders' = Holders
    BY DEF TakeToken, Return, AwaitPermit, Await, Enqueue, Waiters, remoteVars, Holders,
        TypeOK, Stages
  <2> QED
    BY <2>1, SamePermits DEF TakeToken
<1>2. TypeOK'
  BY <1>0, <1>1, ConfigAssumption DEF TakeToken, Return, AwaitPermit, Await, Enqueue,
      Waiters, remoteVars, TypeOK, Stages, Kinds, OpStates, Outcomes, Admission,
      Retryable
<1>3. OnlyCaller(c)
  BY DEF TakeToken, Return, AwaitPermit, Await, Enqueue, Waiters, remoteVars,
      OnlyCaller, TypeOK
<1>4. AttemptInv(c)'
  BY <1>0, <1>2 DEF TakeToken, Return, AwaitPermit, Await, Enqueue, Waiters, remoteVars,
      TypeOK, CallInv, AttemptInv, Footprint, InFlight, Stages, Kinds, OpStates,
      Outcomes, Admission, Retryable
<1>5. SingleInv(c)'
  <2>1. kind[c] # "run" \/ pc[c] = "idle" => attempt[c] = 0
    BY DEF CallInv, AttemptInv, SingleInv
  <2>2. pc[c] # "done" /\ (pc[c] # "exec" => op[c] = "unsent")
    BY DEF CallInv, AttemptInv, TakeToken
  <2>3. kind'[c] # "run" /\ op[c] \in {"unsent", "refused"} => applied[c] = 0 /\ stale[c] = 0
    BY <2>1, <2>2, NothingSubmitted DEF TakeToken, Return, AwaitPermit, Await, Enqueue,
        Waiters, remoteVars, TypeOK
  <2> QED
    BY <2>1, <2>2, <2>3 DEF TakeToken, Return, AwaitPermit, Await, Enqueue, Waiters,
        remoteVars, TypeOK, CallInv, SingleInv
<1>6. QueueInv(c)'
  BY DEF TakeToken, Return, AwaitPermit, Await, Enqueue, Waiters, remoteVars, TypeOK,
      CallInv, QueueInv
<1>7. DeadlineInv(c)'
  BY <1>0, <1>2 DEF TakeToken, Return, AwaitPermit, Await, Enqueue, Waiters, remoteVars,
      TypeOK, CallInv, DeadlineInv, Active, Budget, Expired
<1>8. ContentionInv(c)'
  BY <1>3 DEF TakeToken, Return, AwaitPermit, Await, Enqueue, Waiters, remoteVars,
      TypeOK, CallInv, AttemptInv, ContentionInv, OnlyCaller, Retryable
<1>9. CallInv(c)'
  BY <1>4, <1>5, <1>6, <1>7, <1>8 DEF CallInv
<1> QED
  BY <1>1, <1>2, <1>3, <1>9, OthersKeepInv

\* A RateLimited call gives up before its operation was polled.
LEMMA RateTimesOutStep ==
  ASSUME IInv, NEW c \in Callers, RateTimesOut(c)
  PROVE  IInv'
<1> USE DEF IInv
<1>1. permits' \in 0..Permits /\ PermitsConserved'
  <2>1. Holders' = Holders
    BY DEF RateTimesOut, Return, remoteVars, Holders, TypeOK, Stages
  <2> QED
    BY <2>1, SamePermits DEF RateTimesOut
<1>2. TypeOK'
  BY <1>1, ConfigAssumption DEF RateTimesOut, Return, remoteVars, TypeOK, Stages, Kinds,
      OpStates, Outcomes, Admission, Retryable
<1>3. OnlyCaller(c)
  BY DEF RateTimesOut, Return, remoteVars, OnlyCaller, TypeOK
<1>4. AttemptInv(c)'
  BY <1>2 DEF RateTimesOut, Return, remoteVars, TypeOK, CallInv, AttemptInv, Footprint,
      InFlight, Stages, Kinds, OpStates, Outcomes, Admission, Retryable
<1>5. SingleInv(c)'
  <2>1. kind[c] # "run" \/ pc[c] = "idle" => attempt[c] = 0
    BY DEF CallInv, AttemptInv, SingleInv
  <2>2. pc[c] # "done" /\ (pc[c] # "exec" => op[c] = "unsent")
    BY DEF CallInv, AttemptInv, RateTimesOut
  <2>3. kind'[c] # "run" /\ op[c] \in {"unsent", "refused"} => applied[c] = 0 /\ stale[c] = 0
    BY <2>1, <2>2, NothingSubmitted DEF RateTimesOut, Return, remoteVars, TypeOK
  <2> QED
    BY <2>1, <2>2, <2>3 DEF RateTimesOut, Return, remoteVars, TypeOK, CallInv, SingleInv
<1>6. QueueInv(c)'
  BY DEF RateTimesOut, Return, remoteVars, TypeOK, CallInv, QueueInv, Waiters
<1>7. DeadlineInv(c)'
  BY <1>2 DEF RateTimesOut, Return, remoteVars, TypeOK, CallInv, DeadlineInv, Active,
      Budget, Expired
<1>8. ContentionInv(c)'
  BY <1>3 DEF RateTimesOut, Return, remoteVars, TypeOK, CallInv, AttemptInv,
      ContentionInv, OnlyCaller, Retryable
<1>9. CallInv(c)'
  BY <1>4, <1>5, <1>6, <1>7, <1>8 DEF CallInv
<1> QED
  BY <1>1, <1>2, <1>3, <1>9, OthersKeepInv

\* The call that gets a permit is one holder more, or hands the permit back
\* because its deadline is over.
LEMMA AcquirePermitStep ==
  ASSUME IInv, NEW c \in Callers, AcquirePermit(c)
  PROVE  IInv'
<1> USE DEF IInv
<1>0. Budget(c, RequestTimeout) \in Nat
  BY BudgetType, ConfigAssumption
<1>1. permits' \in 0..Permits /\ PermitsConserved'
  <2>1. CASE Expired(c)
    <3>1. Holders' = Holders
      BY <2>1 DEF AcquirePermit, Return, Holders, TypeOK
    <3> QED
      BY <2>1, <3>1, SamePermits DEF AcquirePermit
  <2>2. CASE ~Expired(c)
    <3>1. Cardinality(Holders') = Cardinality(Holders) + 1
      BY <2>2, HolderEnters DEF AcquirePermit, Await
    <3> QED
      BY <2>2, <3>1, HoldersFinite, PermitsPositive
      DEF AcquirePermit, CanAcquire, TypeOK, PermitsConserved
  <2> QED
    BY <2>1, <2>2
<1>2. TypeOK'
  BY <1>0, <1>1, ConfigAssumption DEF AcquirePermit, CanAcquire, Return, Await, Dequeue,
      remoteVars, TypeOK, Stages, Kinds, OpStates, Outcomes, Admission, Retryable
<1>3. OnlyCaller(c)
  BY DEF AcquirePermit, CanAcquire, Return, Await, Dequeue, remoteVars, OnlyCaller,
      TypeOK
<1>4. AttemptInv(c)'
  BY <1>0, <1>2 DEF AcquirePermit, CanAcquire, Return, Await, Dequeue, remoteVars,
      TypeOK, CallInv, AttemptInv, Footprint, InFlight, Stages, Kinds, OpStates,
      Outcomes, Admission, Retryable
<1>5. SingleInv(c)'
  <2>1. pc[c] = "permit" /\ op[c] = "unsent"
    BY DEF CallInv, AttemptInv, AcquirePermit
  <2>2. kind'[c] = kind[c] /\ attempt'[c] = attempt[c] /\ op'[c] = op[c]
          /\ applied'[c] = applied[c] /\ stale'[c] = stale[c]
    BY DEF AcquirePermit, remoteVars
  <2>3. pc'[c] # "backoff" /\ outcome'[c] \in {outcome[c], "DeadlineExceeded"}
    BY DEF AcquirePermit, Return, Await, TypeOK
  <2>4. kind[c] # "run" => attempt[c] = 0 /\ applied[c] = 0 /\ stale[c] = 0
    BY <2>1, NothingSubmitted DEF CallInv, SingleInv
  <2>5. outcome[c] = "none"
    BY <2>1 DEF CallInv, AttemptInv
  <2> QED
    BY <2>1, <2>2, <2>3, <2>4, <2>5 DEF SingleInv
<1>6. QueueInv(c)'
  BY DEF AcquirePermit, CanAcquire, Return, Await, Dequeue, remoteVars, TypeOK, CallInv,
      QueueInv, Waiters
<1>7. DeadlineInv(c)'
  BY <1>0, <1>2 DEF AcquirePermit, CanAcquire, Return, Await, Dequeue, remoteVars,
      TypeOK, CallInv, DeadlineInv, Active, Budget, Expired
<1>8. ContentionInv(c)'
  BY <1>3 DEF AcquirePermit, CanAcquire, Return, Await, Dequeue, remoteVars, TypeOK,
      CallInv, AttemptInv, ContentionInv, OnlyCaller, Retryable
<1>9. CallInv(c)'
  BY <1>4, <1>5, <1>6, <1>7, <1>8 DEF CallInv
<1> QED
  BY <1>1, <1>2, <1>3, <1>9, OthersKeepInv

\* An Overloaded call met another one: the holder of the last permit, or a call
\* in front of it in the queue.
LEMMA PermitTimesOutStep ==
  ASSUME IInv, NEW c \in Callers, PermitTimesOut(c)
  PROVE  IInv'
<1> USE DEF IInv
<1>1. permits' \in 0..Permits /\ PermitsConserved'
  <2>1. Holders' = Holders
    BY DEF PermitTimesOut, Return, Dequeue, remoteVars, Holders, TypeOK, Stages
  <2> QED
    BY <2>1, SamePermits DEF PermitTimesOut
<1>2. TypeOK'
  BY <1>1, ConfigAssumption DEF PermitTimesOut, Return, Dequeue, remoteVars, TypeOK,
      Stages, Kinds, OpStates, Outcomes, Admission, Retryable
<1>3. OnlyCaller(c)
  BY DEF PermitTimesOut, Return, Dequeue, remoteVars, OnlyCaller, TypeOK
<1>4. AttemptInv(c)'
  BY <1>2 DEF PermitTimesOut, Return, Dequeue, remoteVars, TypeOK, CallInv, AttemptInv,
      Footprint, InFlight, Stages, Kinds, OpStates, Outcomes, Admission, Retryable
<1>5. SingleInv(c)'
  <2>1. kind[c] # "run" \/ pc[c] = "idle" => attempt[c] = 0
    BY DEF CallInv, AttemptInv, SingleInv
  <2>2. pc[c] # "done" /\ (pc[c] # "exec" => op[c] = "unsent")
    BY DEF CallInv, AttemptInv, PermitTimesOut
  <2>3. kind'[c] # "run" /\ op[c] \in {"unsent", "refused"} => applied[c] = 0 /\ stale[c] = 0
    BY <2>1, <2>2, NothingSubmitted DEF PermitTimesOut, Return, Dequeue, remoteVars,
        TypeOK
  <2> QED
    BY <2>1, <2>2, <2>3 DEF PermitTimesOut, Return, Dequeue, remoteVars, TypeOK,
        CallInv, SingleInv
<1>6. QueueInv(c)'
  BY DEF PermitTimesOut, Return, Dequeue, remoteVars, TypeOK, CallInv, QueueInv, Waiters
<1>7. DeadlineInv(c)'
  BY <1>2 DEF PermitTimesOut, Return, Dequeue, remoteVars, TypeOK, CallInv, DeadlineInv,
      Active, Budget, Expired
<1>8. ContentionInv(c)'
  <2>1. \E e \in Callers \ {c} : pc[e] # "idle"
    <3>1. CASE permits = 0
      BY <3>1, HolderExists DEF PermitTimesOut
    <3>2. CASE ahead[c] # {}
      BY <3>2 DEF CallInv, QueueInv, TypeOK
    <3> QED
      BY <3>1, <3>2 DEF PermitTimesOut, CanAcquire, TypeOK
  <2> QED
    BY <1>3, <2>1 DEF ContentionInv, OnlyCaller
<1>9. CallInv(c)'
  BY <1>4, <1>5, <1>6, <1>7, <1>8 DEF CallInv
<1> QED
  BY <1>1, <1>2, <1>3, <1>9, OthersKeepInv

\* Waking from the backoff keeps the invariant: only `run` naps, and a new attempt
\* has submitted nothing yet.
LEMMA WakeStep ==
  ASSUME IInv, NEW c \in Callers, Wake(c)
  PROVE  IInv'
<1> USE DEF IInv
<1>0. Budget(c, AcquireTimeout) \in Nat
  BY BudgetType, ConfigAssumption
<1>1. permits' \in 0..Permits /\ PermitsConserved'
  <2>1. Holders' = Holders
    BY DEF Wake, Return, AwaitPermit, Await, Enqueue, Waiters, remoteVars, Holders,
        TypeOK, Stages
  <2> QED
    BY <2>1, SamePermits DEF Wake
<1>2. TypeOK'
  BY <1>0, <1>1, ConfigAssumption DEF Wake, Return, AwaitPermit, Await, Enqueue,
      Waiters, remoteVars, TypeOK, Stages, Kinds, OpStates, Outcomes, Admission,
      Retryable
<1>3. OnlyCaller(c)
  BY DEF Wake, Return, AwaitPermit, Await, Enqueue, Waiters, remoteVars, OnlyCaller,
      TypeOK
<1>4. AttemptInv(c)'
  BY <1>0, <1>2 DEF Wake, Return, AwaitPermit, Await, Enqueue, Waiters, remoteVars,
      TypeOK, CallInv, AttemptInv, Footprint, InFlight, Stages, Kinds, OpStates,
      Outcomes, Admission, Retryable
<1>5. SingleInv(c)'
  BY <1>0, <1>2 DEF Wake, Return, AwaitPermit, Await, Enqueue, Waiters, remoteVars,
      TypeOK, CallInv, AttemptInv, SingleInv, Footprint, InFlight, Stages, Kinds,
      OpStates, Outcomes, Admission, Retryable
<1>6. QueueInv(c)'
  BY DEF Wake, Return, AwaitPermit, Await, Enqueue, Waiters, remoteVars, TypeOK,
      CallInv, QueueInv
<1>7. DeadlineInv(c)'
  BY <1>0, <1>2 DEF Wake, Return, AwaitPermit, Await, Enqueue, Waiters, remoteVars,
      TypeOK, CallInv, DeadlineInv, Active, Budget, Expired
<1>8. ContentionInv(c)'
  BY <1>3 DEF Wake, Return, AwaitPermit, Await, Enqueue, Waiters, remoteVars, TypeOK,
      CallInv, AttemptInv, ContentionInv, OnlyCaller, Retryable
<1>9. CallInv(c)'
  BY <1>4, <1>5, <1>6, <1>7, <1>8 DEF CallInv
<1> QED
  BY <1>1, <1>2, <1>3, <1>9, OthersKeepInv

\* A request timeout gives the permit back, turns what was in flight into an
\* abandoned request, and is reported by a mutation as indeterminate.
LEMMA RequestTimesOutStep ==
  ASSUME IInv, NEW c \in Callers, RequestTimesOut(c)
  PROVE  IInv'
<1> USE DEF IInv
<1>0. attempt[c] \in Nat /\ Budget(c, Backoff(attempt[c] + 1)) \in Nat
  BY BudgetType, BackoffType, ConfigAssumption DEF TypeOK
<1>1. permits' \in 0..Permits /\ PermitsConserved'
  <2>1. PICK s \in Stages \ {"exec"} : pc' = [pc EXCEPT ![c] = s]
    BY DEF RequestTimesOut, RetryOrReturn, Return, Await, Ambiguous, Abandon, InFlight,
        Stages
  <2> QED
    BY <2>1, ReleasePermit DEF RequestTimesOut
<1>2. TypeOK'
  BY <1>0, <1>1, ConfigAssumption DEF RequestTimesOut, RetryOrReturn, Return, Await,
      Ambiguous, Abandon, InFlight, TypeOK, Stages, Kinds, OpStates, Outcomes,
      Admission, Retryable
<1>3. OnlyCaller(c)
  BY DEF RequestTimesOut, RetryOrReturn, Return, Await, Ambiguous, Abandon, InFlight,
      OnlyCaller, TypeOK
<1>4. AttemptInv(c)'
  BY <1>0, <1>2 DEF RequestTimesOut, RetryOrReturn, Return, Await, Ambiguous, Abandon,
      InFlight, TypeOK, CallInv, AttemptInv, Footprint, Stages, Kinds, OpStates,
      Outcomes, Admission, Retryable
<1>5. SingleInv(c)'
  BY <1>0, <1>2 DEF RequestTimesOut, RetryOrReturn, Return, Await, Ambiguous, Abandon,
      InFlight, TypeOK, CallInv, AttemptInv, SingleInv, Footprint, Stages, Kinds,
      OpStates, Outcomes, Admission, Retryable
<1>6. QueueInv(c)'
  BY DEF RequestTimesOut, RetryOrReturn, Return, Await, Ambiguous, Abandon, InFlight,
      TypeOK, CallInv, QueueInv, Waiters
<1>7. DeadlineInv(c)'
  BY <1>0, <1>2 DEF RequestTimesOut, RetryOrReturn, Return, Await, Ambiguous, Abandon,
      InFlight, TypeOK, CallInv, DeadlineInv, Active, Budget, Expired
<1>8. ContentionInv(c)'
  BY <1>3 DEF RequestTimesOut, RetryOrReturn, Return, Await, Ambiguous, Abandon,
      InFlight, TypeOK, CallInv, AttemptInv, ContentionInv, OnlyCaller, Retryable
<1>9. CallInv(c)'
  BY <1>4, <1>5, <1>6, <1>7, <1>8 DEF CallInv
<1> QED
  BY <1>1, <1>2, <1>3, <1>9, OthersKeepInv

\* A call only succeeds after the remote side applied its operation.
LEMMA OpSucceedsStep ==
  ASSUME IInv, NEW c \in Callers, OpSucceeds(c)
  PROVE  IInv'
<1> USE DEF IInv
<1>1. permits' \in 0..Permits /\ PermitsConserved'
  <2>1. PICK s \in Stages \ {"exec"} : pc' = [pc EXCEPT ![c] = s]
    BY DEF OpSucceeds, Return, Stages
  <2> QED
    BY <2>1, ReleasePermit DEF OpSucceeds
<1>2. TypeOK'
  BY <1>1, ConfigAssumption DEF OpSucceeds, Return, TypeOK, Stages, Kinds, OpStates,
      Outcomes, Admission, Retryable
<1>3. OnlyCaller(c)
  BY DEF OpSucceeds, Return, OnlyCaller, TypeOK
<1>4. AttemptInv(c)'
  BY <1>2 DEF OpSucceeds, Return, TypeOK, CallInv, AttemptInv, Footprint, InFlight,
      Stages, Kinds, OpStates, Outcomes, Admission, Retryable
<1>5. SingleInv(c)'
  BY <1>2 DEF OpSucceeds, Return, TypeOK, CallInv, AttemptInv, SingleInv, Footprint,
      InFlight, Stages, Kinds, OpStates, Outcomes, Admission, Retryable
<1>6. QueueInv(c)'
  BY DEF OpSucceeds, Return, TypeOK, CallInv, QueueInv, Waiters
<1>7. DeadlineInv(c)'
  BY <1>2 DEF OpSucceeds, Return, TypeOK, CallInv, DeadlineInv, Active, Budget, Expired
<1>8. ContentionInv(c)'
  BY <1>3 DEF OpSucceeds, Return, TypeOK, CallInv, AttemptInv, ContentionInv,
      OnlyCaller, Retryable
<1>9. CallInv(c)'
  BY <1>4, <1>5, <1>6, <1>7, <1>8 DEF CallInv
<1> QED
  BY <1>1, <1>2, <1>3, <1>9, OthersKeepInv

\* A definite failure comes from an operation that was not applied.
LEMMA OpFailsStep ==
  ASSUME IInv, NEW c \in Callers, OpFails(c)
  PROVE  IInv'
<1> USE DEF IInv
<1>1. permits' \in 0..Permits /\ PermitsConserved'
  <2>1. PICK s \in Stages \ {"exec"} : pc' = [pc EXCEPT ![c] = s]
    BY DEF OpFails, Return, Stages
  <2> QED
    BY <2>1, ReleasePermit DEF OpFails
<1>2. TypeOK'
  BY <1>1, ConfigAssumption DEF OpFails, Return, TypeOK, Stages, Kinds, OpStates,
      Outcomes, Admission, Retryable
<1>3. OnlyCaller(c)
  BY DEF OpFails, Return, OnlyCaller, TypeOK
<1>4. AttemptInv(c)'
  BY <1>2 DEF OpFails, Return, TypeOK, CallInv, AttemptInv, Footprint, InFlight, Stages,
      Kinds, OpStates, Outcomes, Admission, Retryable
<1>5. SingleInv(c)'
  <2>1. kind[c] # "run" \/ pc[c] = "idle" => attempt[c] = 0
    BY DEF CallInv, AttemptInv, SingleInv
  <2>2. pc[c] # "done" /\ (pc[c] # "exec" => op[c] = "unsent")
    BY DEF CallInv, AttemptInv, OpFails
  <2>3. kind'[c] # "run" /\ op[c] \in {"unsent", "refused"} => applied[c] = 0 /\ stale[c] = 0
    BY <2>1, <2>2, NothingSubmitted DEF OpFails, Return, TypeOK
  <2> QED
    BY <2>1, <2>2, <2>3 DEF OpFails, Return, TypeOK, CallInv, SingleInv
<1>6. QueueInv(c)'
  BY DEF OpFails, Return, TypeOK, CallInv, QueueInv, Waiters
<1>7. DeadlineInv(c)'
  BY <1>2 DEF OpFails, Return, TypeOK, CallInv, DeadlineInv, Active, Budget, Expired
<1>8. ContentionInv(c)'
  BY <1>3 DEF OpFails, Return, TypeOK, CallInv, AttemptInv, ContentionInv, OnlyCaller,
      Retryable
<1>9. CallInv(c)'
  BY <1>4, <1>5, <1>6, <1>7, <1>8 DEF CallInv
<1> QED
  BY <1>1, <1>2, <1>3, <1>9, OthersKeepInv

\* A broken connection is a definite error only before anything was submitted.
LEMMA OpDisconnectsStep ==
  ASSUME IInv, NEW c \in Callers, OpDisconnects(c)
  PROVE  IInv'
<1> USE DEF IInv
<1>0. attempt[c] \in Nat /\ Budget(c, Backoff(attempt[c] + 1)) \in Nat
  BY BudgetType, BackoffType, ConfigAssumption DEF TypeOK
<1>1. permits' \in 0..Permits /\ PermitsConserved'
  <2>1. PICK s \in Stages \ {"exec"} : pc' = [pc EXCEPT ![c] = s]
    BY DEF OpDisconnects, RetryOrReturn, Return, Await, Ambiguous, Abandon, InFlight,
        Stages
  <2> QED
    BY <2>1, ReleasePermit DEF OpDisconnects
<1>2. TypeOK'
  BY <1>0, <1>1, ConfigAssumption DEF OpDisconnects, RetryOrReturn, Return, Await,
      Ambiguous, Abandon, InFlight, TypeOK, Stages, Kinds, OpStates, Outcomes,
      Admission, Retryable
<1>3. OnlyCaller(c)
  BY DEF OpDisconnects, RetryOrReturn, Return, Await, Ambiguous, Abandon, InFlight,
      OnlyCaller, TypeOK
<1>4. AttemptInv(c)'
  BY <1>0, <1>2 DEF OpDisconnects, RetryOrReturn, Return, Await, Ambiguous, Abandon,
      InFlight, TypeOK, CallInv, AttemptInv, Footprint, Stages, Kinds, OpStates,
      Outcomes, Admission, Retryable
<1>5. SingleInv(c)'
  <2> SUFFICES ASSUME kind[c] # "run" PROVE SingleInv(c)'
    BY DEF OpDisconnects, SingleInv
  <2>1. attempt[c] = 0 /\ pc[c] = "exec" /\ kind[c] \in Kinds
    BY DEF OpDisconnects, CallInv, SingleInv, TypeOK
  <2>2. UNCHANGED <<attempt, kind, applied>> /\ op'[c] = "unsent" /\ pc'[c] = "done"
        /\ stale'[c] = stale[c] + InFlight(c)
    BY DEF OpDisconnects, RetryOrReturn, Return, Abandon, TypeOK
  <2>3. CASE op[c] = "unsent"
    <3>1. applied[c] = 0 /\ stale[c] = 0 /\ InFlight(c) = 0
      BY <2>1, <2>3, NothingSubmitted DEF InFlight
    <3>2. outcome'[c] = "Connection"
      BY <2>3 DEF OpDisconnects, RetryOrReturn, Return, TypeOK
    <3> QED
      BY <2>1, <2>2, <3>1, <3>2 DEF SingleInv
  <2>4. CASE op[c] # "unsent"
    <3>1. kind[c] = "mutation" => outcome'[c] = "OutcomeIndeterminate"
      BY <2>4 DEF OpDisconnects, RetryOrReturn, Return, Ambiguous, TypeOK
    <3> QED
      BY <2>1, <2>2, <3>1 DEF SingleInv, Admission, Retryable
  <2> QED
    BY <2>3, <2>4
<1>6. QueueInv(c)'
  BY DEF OpDisconnects, RetryOrReturn, Return, Await, Ambiguous, Abandon, InFlight,
      TypeOK, CallInv, QueueInv, Waiters
<1>7. DeadlineInv(c)'
  BY <1>0, <1>2 DEF OpDisconnects, RetryOrReturn, Return, Await, Ambiguous, Abandon,
      InFlight, TypeOK, CallInv, DeadlineInv, Active, Budget, Expired
<1>8. ContentionInv(c)'
  BY <1>3 DEF OpDisconnects, RetryOrReturn, Return, Await, Ambiguous, Abandon, InFlight,
      TypeOK, CallInv, AttemptInv, ContentionInv, OnlyCaller, Retryable
<1>9. CallInv(c)'
  BY <1>4, <1>5, <1>6, <1>7, <1>8 DEF CallInv
<1> QED
  BY <1>1, <1>2, <1>3, <1>9, OthersKeepInv

\* Submitting adds one request to the footprint the attempt may have.
LEMMA SubmitStep ==
  ASSUME IInv, NEW c \in Callers, Submit(c)
  PROVE  IInv'
<1> USE DEF IInv
<1>1. permits' \in 0..Permits /\ PermitsConserved'
  <2>1. Holders' = Holders
    BY DEF Submit, callVars, Holders, TypeOK, Stages
  <2> QED
    BY <2>1, SamePermits DEF Submit
<1>2. TypeOK'
  BY <1>1, ConfigAssumption DEF Submit, callVars, TypeOK, Stages, Kinds, OpStates,
      Outcomes, Admission, Retryable
<1>3. OnlyCaller(c)
  BY DEF Submit, callVars, OnlyCaller, TypeOK
<1>4. AttemptInv(c)'
  BY <1>2 DEF Submit, callVars, TypeOK, CallInv, AttemptInv, Footprint, InFlight,
      Stages, Kinds, OpStates, Outcomes, Admission, Retryable
<1>5. SingleInv(c)'
  BY <1>2 DEF Submit, callVars, TypeOK, CallInv, AttemptInv, SingleInv, Footprint,
      InFlight, Stages, Kinds, OpStates, Outcomes, Admission, Retryable
<1>6. QueueInv(c)'
  BY DEF Submit, callVars, TypeOK, CallInv, QueueInv, Waiters
<1>7. DeadlineInv(c)'
  BY <1>2 DEF Submit, callVars, TypeOK, CallInv, DeadlineInv, Active, Budget, Expired
<1>8. ContentionInv(c)'
  BY <1>3 DEF Submit, callVars, TypeOK, CallInv, AttemptInv, ContentionInv, OnlyCaller,
      Retryable
<1>9. CallInv(c)'
  BY <1>4, <1>5, <1>6, <1>7, <1>8 DEF CallInv
<1> QED
  BY <1>1, <1>2, <1>3, <1>9, OthersKeepInv

\* A request that takes effect was in flight: the footprint stays the same.
LEMMA RemoteAppliesStep ==
  ASSUME IInv, NEW c \in Callers, RemoteApplies(c)
  PROVE  IInv'
<1> USE DEF IInv
<1>1. permits' \in 0..Permits /\ PermitsConserved'
  <2>1. Holders' = Holders
    BY DEF RemoteApplies, callVars, Holders, TypeOK, Stages
  <2> QED
    BY <2>1, SamePermits DEF RemoteApplies
<1>2. TypeOK'
  BY <1>1, ConfigAssumption DEF RemoteApplies, callVars, TypeOK, Stages, Kinds,
      OpStates, Outcomes, Admission, Retryable
<1>3. OnlyCaller(c)
  BY DEF RemoteApplies, callVars, OnlyCaller, TypeOK
<1>4. AttemptInv(c)'
  BY <1>2 DEF RemoteApplies, callVars, TypeOK, CallInv, AttemptInv, Footprint, InFlight,
      Stages, Kinds, OpStates, Outcomes, Admission, Retryable
<1>5. SingleInv(c)'
  <2>1. op[c] = "sent" /\ pc[c] = "exec" /\ outcome[c] = "none"
    BY DEF RemoteApplies, CallInv, AttemptInv
  <2>2. kind'[c] = kind[c] /\ attempt'[c] = attempt[c] /\ pc'[c] = pc[c]
          /\ outcome'[c] = outcome[c]
    BY DEF RemoteApplies, callVars
  <2>3. kind[c] # "run" => applied[c] + stale[c] + 1 <= 1
    BY <2>1 DEF CallInv, AttemptInv, SingleInv, Footprint, InFlight
  <2>4. applied[c] \in Nat /\ stale[c] \in Nat /\ applied'[c] = applied[c] + 1
    BY DEF RemoteApplies, TypeOK
  <2>5. kind[c] # "run" => applied'[c] = 1 /\ attempt[c] = 0
    BY <2>3, <2>4 DEF CallInv, SingleInv
  <2> QED
    BY <2>1, <2>2, <2>5 DEF SingleInv, Admission, Retryable
<1>6. QueueInv(c)'
  BY DEF RemoteApplies, callVars, TypeOK, CallInv, QueueInv, Waiters
<1>7. DeadlineInv(c)'
  BY <1>2 DEF RemoteApplies, callVars, TypeOK, CallInv, DeadlineInv, Active, Budget,
      Expired
<1>8. ContentionInv(c)'
  BY <1>3 DEF RemoteApplies, callVars, TypeOK, CallInv, AttemptInv, ContentionInv,
      OnlyCaller, Retryable
<1>9. CallInv(c)'
  BY <1>4, <1>5, <1>6, <1>7, <1>8 DEF CallInv
<1> QED
  BY <1>1, <1>2, <1>3, <1>9, OthersKeepInv

\* A refused request leaves the footprint.
LEMMA RemoteRefusesStep ==
  ASSUME IInv, NEW c \in Callers, RemoteRefuses(c)
  PROVE  IInv'
<1> USE DEF IInv
<1>1. permits' \in 0..Permits /\ PermitsConserved'
  <2>1. Holders' = Holders
    BY DEF RemoteRefuses, callVars, Holders, TypeOK, Stages
  <2> QED
    BY <2>1, SamePermits DEF RemoteRefuses
<1>2. TypeOK'
  BY <1>1, ConfigAssumption DEF RemoteRefuses, callVars, TypeOK, Stages, Kinds,
      OpStates, Outcomes, Admission, Retryable
<1>3. OnlyCaller(c)
  BY DEF RemoteRefuses, callVars, OnlyCaller, TypeOK
<1>4. AttemptInv(c)'
  BY <1>2 DEF RemoteRefuses, callVars, TypeOK, CallInv, AttemptInv, Footprint, InFlight,
      Stages, Kinds, OpStates, Outcomes, Admission, Retryable
<1>5. SingleInv(c)'
  BY <1>2 DEF RemoteRefuses, callVars, TypeOK, CallInv, AttemptInv, SingleInv,
      Footprint, InFlight, Stages, Kinds, OpStates, Outcomes, Admission, Retryable
<1>6. QueueInv(c)'
  BY DEF RemoteRefuses, callVars, TypeOK, CallInv, QueueInv, Waiters
<1>7. DeadlineInv(c)'
  BY <1>2 DEF RemoteRefuses, callVars, TypeOK, CallInv, DeadlineInv, Active, Budget,
      Expired
<1>8. ContentionInv(c)'
  BY <1>3 DEF RemoteRefuses, callVars, TypeOK, CallInv, AttemptInv, ContentionInv,
      OnlyCaller, Retryable
<1>9. CallInv(c)'
  BY <1>4, <1>5, <1>6, <1>7, <1>8 DEF CallInv
<1> QED
  BY <1>1, <1>2, <1>3, <1>9, OthersKeepInv

\* An abandoned request that takes effect late was counted before; a mutation that
\* abandoned one has returned OutcomeIndeterminate.
LEMMA StaleAppliesStep ==
  ASSUME IInv, NEW c \in Callers, StaleApplies(c)
  PROVE  IInv'
<1> USE DEF IInv
<1>1. permits' \in 0..Permits /\ PermitsConserved'
  <2>1. Holders' = Holders
    BY DEF StaleApplies, callVars, Holders, TypeOK, Stages
  <2> QED
    BY <2>1, SamePermits DEF StaleApplies
<1>2. TypeOK'
  BY <1>1, ConfigAssumption DEF StaleApplies, callVars, TypeOK, Stages, Kinds, OpStates,
      Outcomes, Admission, Retryable
<1>3. OnlyCaller(c)
  BY DEF StaleApplies, callVars, OnlyCaller, TypeOK
<1>4. AttemptInv(c)'
  BY <1>2 DEF StaleApplies, callVars, TypeOK, CallInv, AttemptInv, Footprint, InFlight,
      Stages, Kinds, OpStates, Outcomes, Admission, Retryable
<1>5. SingleInv(c)'
  BY <1>2 DEF StaleApplies, callVars, TypeOK, CallInv, AttemptInv, SingleInv, Footprint,
      InFlight, Stages, Kinds, OpStates, Outcomes, Admission, Retryable
<1>6. QueueInv(c)'
  BY DEF StaleApplies, callVars, TypeOK, CallInv, QueueInv, Waiters
<1>7. DeadlineInv(c)'
  BY <1>2 DEF StaleApplies, callVars, TypeOK, CallInv, DeadlineInv, Active, Budget,
      Expired
<1>8. ContentionInv(c)'
  BY <1>3 DEF StaleApplies, callVars, TypeOK, CallInv, AttemptInv, ContentionInv,
      OnlyCaller, Retryable
<1>9. CallInv(c)'
  BY <1>4, <1>5, <1>6, <1>7, <1>8 DEF CallInv
<1> QED
  BY <1>1, <1>2, <1>3, <1>9, OthersKeepInv

\* An abandoned request that is lost leaves the footprint.
LEMMA StaleIsLostStep ==
  ASSUME IInv, NEW c \in Callers, StaleIsLost(c)
  PROVE  IInv'
<1> USE DEF IInv
<1>1. permits' \in 0..Permits /\ PermitsConserved'
  <2>1. Holders' = Holders
    BY DEF StaleIsLost, callVars, Holders, TypeOK, Stages
  <2> QED
    BY <2>1, SamePermits DEF StaleIsLost
<1>2. TypeOK'
  BY <1>1, ConfigAssumption DEF StaleIsLost, callVars, TypeOK, Stages, Kinds, OpStates,
      Outcomes, Admission, Retryable
<1>3. OnlyCaller(c)
  BY DEF StaleIsLost, callVars, OnlyCaller, TypeOK
<1>4. AttemptInv(c)'
  BY <1>2 DEF StaleIsLost, callVars, TypeOK, CallInv, AttemptInv, Footprint, InFlight,
      Stages, Kinds, OpStates, Outcomes, Admission, Retryable
<1>5. SingleInv(c)'
  BY <1>2 DEF StaleIsLost, callVars, TypeOK, CallInv, AttemptInv, SingleInv, Footprint,
      InFlight, Stages, Kinds, OpStates, Outcomes, Admission, Retryable
<1>6. QueueInv(c)'
  BY DEF StaleIsLost, callVars, TypeOK, CallInv, QueueInv, Waiters
<1>7. DeadlineInv(c)'
  BY <1>2 DEF StaleIsLost, callVars, TypeOK, CallInv, DeadlineInv, Active, Budget,
      Expired
<1>8. ContentionInv(c)'
  BY <1>3 DEF StaleIsLost, callVars, TypeOK, CallInv, AttemptInv, ContentionInv,
      OnlyCaller, Retryable
<1>9. CallInv(c)'
  BY <1>4, <1>5, <1>6, <1>7, <1>8 DEF CallInv
<1> QED
  BY <1>1, <1>2, <1>3, <1>9, OthersKeepInv

\* The limiter only gains a cell of its quota.
LEMMA RefillStep == ASSUME IInv, Refill PROVE IInv'
<1> USE DEF IInv
<1>1. TypeOK'
  BY ConfigAssumption DEF Refill, TypeOK, callVars, remoteVars
<1>2. PermitsConserved'
  BY DEF Refill, PermitsConserved, Holders, callVars
<1>3. ASSUME NEW d \in Callers PROVE CallInv(d)'
  BY DEF Refill, callVars, remoteVars, CallInv, AttemptInv, SingleInv, QueueInv,
      DeadlineInv, ContentionInv, Footprint, InFlight, Active
<1> QED
  BY <1>1, <1>2, <1>3

\* Time runs equally for a timer and for the deadline it was capped by.
LEMMA TickStep == ASSUME IInv, Tick PROVE IInv'
<1> USE DEF IInv
<1>1. TypeOK'
  BY DEF Tick, TypeOK, Decrement, remoteVars
<1>2. PermitsConserved'
  BY DEF Tick, PermitsConserved, Holders
<1>3. ASSUME NEW d \in Callers PROVE CallInv(d)'
  <2>1. AttemptInv(d)' /\ SingleInv(d)'
    BY DEF Tick, remoteVars, CallInv, AttemptInv, SingleInv, Footprint, InFlight
  <2>2. QueueInv(d)' /\ ContentionInv(d)'
    BY DEF Tick, CallInv, QueueInv, ContentionInv
  <2>3. DeadlineInv(d)'
    <3>1. timer[d] \in Nat /\ left[d] \in Nat
      BY DEF TypeOK
    <3>2. timer'[d] = Decrement(timer[d]) /\ left'[d] = Decrement(left[d])
      BY DEF Tick
    <3>3. Active(d)' <=> Active(d)
      BY DEF Tick, Active
    <3> QED
      BY <3>1, <3>2, <3>3 DEF CallInv, DeadlineInv, Decrement
  <2> QED
    BY <2>1, <2>2, <2>3 DEF CallInv
<1> QED
  BY <1>1, <1>2, <1>3
-----------------------------------------------------------------------------
\* IInv is inductive: no step of a call, of the remote side or of time breaks it.
THEOREM StepInv == IInv /\ [Next]_vars => IInv'
<1> SUFFICES ASSUME IInv, [Next]_vars PROVE IInv'
  OBVIOUS
<1>1. ASSUME NEW c \in Callers, TakeToken(c) PROVE IInv'
  BY <1>1, TakeTokenStep
<1>2. ASSUME NEW c \in Callers, RateTimesOut(c) PROVE IInv'
  BY <1>2, RateTimesOutStep
<1>3. ASSUME NEW c \in Callers, AcquirePermit(c) PROVE IInv'
  BY <1>3, AcquirePermitStep
<1>4. ASSUME NEW c \in Callers, PermitTimesOut(c) PROVE IInv'
  BY <1>4, PermitTimesOutStep
<1>5. ASSUME NEW c \in Callers, RequestTimesOut(c) PROVE IInv'
  BY <1>5, RequestTimesOutStep
<1>6. ASSUME NEW c \in Callers, Wake(c) PROVE IInv'
  BY <1>6, WakeStep
<1>7. ASSUME NEW c \in Callers, Submit(c) PROVE IInv'
  BY <1>7, SubmitStep
<1>8. ASSUME NEW c \in Callers, OpSucceeds(c) PROVE IInv'
  BY <1>8, OpSucceedsStep
<1>9. ASSUME NEW c \in Callers, OpFails(c) PROVE IInv'
  BY <1>9, OpFailsStep
<1>10. ASSUME NEW c \in Callers, OpDisconnects(c) PROVE IInv'
  BY <1>10, OpDisconnectsStep
<1>11. ASSUME NEW c \in Callers, RemoteApplies(c) PROVE IInv'
  BY <1>11, RemoteAppliesStep
<1>12. ASSUME NEW c \in Callers, RemoteRefuses(c) PROVE IInv'
  BY <1>12, RemoteRefusesStep
<1>13. ASSUME NEW c \in Callers, StaleApplies(c) PROVE IInv'
  BY <1>13, StaleAppliesStep
<1>14. ASSUME NEW c \in Callers, StaleIsLost(c) PROVE IInv'
  BY <1>14, StaleIsLostStep
<1>15. ASSUME NEW c \in Callers, Call(c) PROVE IInv'
  BY <1>15, BeginStep, RejectStep DEF Call
<1>16. ASSUME Refill \/ Tick PROVE IInv'
  BY <1>16, RefillStep, TickStep
<1>17. CASE UNCHANGED vars
  BY <1>17
  DEF vars, IInv, TypeOK, PermitsConserved, Holders, CallInv, AttemptInv, SingleInv,
      QueueInv, DeadlineInv, ContentionInv, Footprint, InFlight, Active
<1> QED
  BY <1>1, <1>2, <1>3, <1>4, <1>5, <1>6, <1>7, <1>8, <1>9,
     <1>10, <1>11, <1>12, <1>13, <1>14, <1>15, <1>16, <1>17
  DEF Next, Scheduled, Operation, Remote

\* The inductive invariant yields the properties.
LEMMA InvImplies ==
  IInv => /\ NeverReplayed /\ MutationOutcomeIsHonest /\ ReplaysAreBounded
          /\ BudgetsWithinDeadline /\ OverloadedNeedsContention
<1> SUFFICES ASSUME IInv
             PROVE  /\ NeverReplayed /\ MutationOutcomeIsHonest /\ ReplaysAreBounded
                    /\ BudgetsWithinDeadline /\ OverloadedNeedsContention
  OBVIOUS
<1>1. \A c \in Callers : CallInv(c)
  BY DEF IInv
<1>2. \A c \in Callers : applied[c] + stale[c] + InFlight(c) <= attempt[c] + 1
  BY <1>1 DEF IInv, TypeOK, CallInv, AttemptInv, Footprint, InFlight
<1>3. NeverReplayed
  BY <1>1, <1>2 DEF NeverReplayed, CallInv, SingleInv
<1>4. MutationOutcomeIsHonest
  BY <1>1 DEF MutationOutcomeIsHonest, CallInv, SingleInv
<1>5. BudgetsWithinDeadline /\ OverloadedNeedsContention
  BY <1>1 DEF BudgetsWithinDeadline, OverloadedNeedsContention, CallInv, DeadlineInv,
     ContentionInv
<1> QED
  BY <1>2, <1>3, <1>4, <1>5 DEF ReplaysAreBounded
-----------------------------------------------------------------------------
(* The results. *)

\* The inductive invariant holds in every reachable state of every configuration.
THEOREM Invariance == Spec => []IInv
  BY InitInv, StepInv, PTL DEF Spec

\* FlowControl::new and every step of the three runners keep the types.
THEOREM TypeCorrect == Spec => []TypeOK
<1>1. IInv => TypeOK
  BY DEF IInv
<1> QED
  BY <1>1, Invariance, PTL

\* run_once_with_timeout neither leaks nor invents a permit, whatever the
\* number of calls, the configuration and the way out of an attempt.
THEOREM PermitsAreConserved == Spec => []PermitsConserved
<1>1. IInv => PermitsConserved
  BY DEF IInv
<1> QED
  BY <1>1, Invariance, PTL

\* run_single and run_single_mutation submit their operation once at most.
THEOREM SinglesAreNeverReplayed == Spec => []NeverReplayed
  BY InvImplies, Invariance, PTL

\* The error of a run_single_mutation call tells whether the write can have
\* been applied; only OutcomeIndeterminate does not.
THEOREM MutationOutcomesAreHonest == Spec => []MutationOutcomeIsHonest
  BY InvImplies, Invariance, PTL

\* `run` repeats a lost operation MaxRetries times at most.
THEOREM RetriesAreBounded == Spec => []ReplaysAreBounded
  BY InvImplies, Invariance, PTL

\* budget_with_deadline keeps every wait, execution and nap inside the deadline.
THEOREM DeadlineIsRespected == Spec => []BudgetsWithinDeadline
  BY InvImplies, Invariance, PTL

\* A call that meets no other call is never Overloaded, max_concurrency = 0 included.
THEOREM LoneCallIsAdmitted == Spec => []OverloadedNeedsContention
  BY InvImplies, Invariance, PTL
=============================================================================
