---------------------------- MODULE FlowControl ----------------------------
(***************************************************************************)
(* The admission, timeout and retry protocol every data command goes       *)
(* through (dbtool-core/src/service/throttle.rs): an optional rate         *)
(* limiter, a semaphore of concurrency permits, a request timeout, one     *)
(* overall deadline and, for `run` only, retries with exponential backoff. *)
(*                                                                         *)
(* A caller is one call of FlowControl::run, run_single or                 *)
(* run_single_mutation.  The remote side is kept to what the outcomes are  *)
(* about: a request that was submitted may be applied although the local   *)
(* future that submitted it has been dropped.                              *)
(*                                                                         *)
(* Time is counted in ticks.  A timer holds the ticks left until it fires  *)
(* and stays at zero afterwards, so a task may be polled arbitrarily late. *)
(***************************************************************************)
EXTENDS Naturals, FiniteSets

CONSTANTS
  Callers,         \* the calls made on one FlowControl value
  MaxConcurrency,  \* ThrottleConfig.max_concurrency, zero included
  HasRate,         \* whether ThrottleConfig.rate is set
  Burst,           \* cells of the rate limiter's quota
  AcquireTimeout,  \* in ticks, as the other durations
  RequestTimeout,
  HasDeadline,     \* whether ThrottleConfig.overall_deadline is set
  OverallDeadline,
  MaxRetries,
  BackoffUnit      \* the 100 ms the exponential backoff multiplies

ASSUME ConfigAssumption ==
  /\ IsFiniteSet(Callers)
  /\ {MaxConcurrency, AcquireTimeout, RequestTimeout, OverallDeadline, MaxRetries}
       \subseteq Nat
  /\ {Burst, BackoffUnit} \subseteq Nat \ {0}
  /\ {HasRate, HasDeadline} \subseteq BOOLEAN

VARIABLES
  pc,       \* where each call is: see Stages
  kind,     \* which of the three entry points was called
  attempt,  \* retries used so far, the `attempt` of `run`
  left,     \* ticks until deadline_at
  timer,    \* ticks until the tokio timeout or sleep being awaited fires
  ahead,    \* the calls in front of each call in the semaphore's FIFO queue
  permits,  \* free permits of the semaphore
  tokens,   \* free cells of the rate limiter
  op,       \* how far the operation of the current attempt has come
  outcome,  \* what the call returned
  stale,    \* requests submitted, then abandoned, and still able to take effect
  applied   \* how many times the remote side applied this call's operation

callVars   == <<pc, kind, attempt, left, timer, outcome>>
remoteVars == <<op, stale, applied>>
vars == <<pc, kind, attempt, left, timer, ahead, permits, tokens, op, outcome,
          stale, applied>>

-----------------------------------------------------------------------------
Stages == {"idle", "rate", "permit", "exec", "backoff", "done"}
Kinds  == {"run", "single", "mutation"}
OpStates == {"unsent", "sent", "applied", "refused"}

Admission == {"Config", "RateLimited", "Overloaded", "DeadlineExceeded"}
Retryable == {"Connection", "Timeout"}
Outcomes  == {"none", "Ok", "Failed", "OutcomeIndeterminate"} \cup Admission \cup Retryable

\* Faulty variant: a limit of zero is taken at its word.
PermitsUnclamped == MaxConcurrency

\* Semaphore::new(config.max_concurrency.max(1))
Permits == IF MaxConcurrency = 0 THEN 1 ELSE MaxConcurrency

Active(c)  == pc[c] \in {"rate", "permit", "exec", "backoff"}
Waiters    == {c \in Callers : pc[c] = "permit"}
Holders    == {c \in Callers : pc[c] = "exec"}
InFlight(c) == IF op[c] = "sent" THEN 1 ELSE 0

Decrement(n) == IF n = 0 THEN 0 ELSE n - 1

\* validate_durations and the label check of run_single_mutation
ValidDurations == AcquireTimeout > 0 /\ RequestTimeout > 0
                  /\ (HasDeadline => OverallDeadline > 0)
ValidCall(k, label) == ValidDurations /\ (k = "mutation" => label = "subject")

\* remaining() fails, and budget_with_deadline() caps, once a deadline is set
Expired(c)   == HasDeadline /\ left[c] = 0
\* Faulty variant: a stage takes its own timeout, whatever is left of the deadline.
BudgetIgnoringDeadline(c, n) == n

Budget(c, n) == IF HasDeadline /\ left[c] < n THEN left[c] ELSE n

\* 100 ms * (1 << attempt.min(6)), for an attempt that is at least 1
Doublings  == <<2, 4, 8, 16, 32, 64>>
Backoff(n) == BackoffUnit * Doublings[IF n < 6 THEN n ELSE 6]
-----------------------------------------------------------------------------
Init ==
  /\ pc      = [c \in Callers |-> "idle"]
  /\ kind    = [c \in Callers |-> "run"]
  /\ attempt = [c \in Callers |-> 0]
  /\ left    = [c \in Callers |-> 0]
  /\ timer   = [c \in Callers |-> 0]
  /\ ahead   = [c \in Callers |-> {}]
  /\ permits = Permits
  /\ tokens  = Burst
  /\ op      = [c \in Callers |-> "unsent"]
  /\ outcome = [c \in Callers |-> "none"]
  /\ stale   = [c \in Callers |-> 0]
  /\ applied = [c \in Callers |-> 0]

\* The call returns err (or its value) and owes nothing any more.
Return(c, result) ==
  /\ pc'      = [pc EXCEPT ![c] = "done"]
  /\ outcome' = [outcome EXCEPT ![c] = result]
  /\ timer'   = [timer EXCEPT ![c] = 0]
  /\ left'    = [left EXCEPT ![c] = 0]

\* The call awaits something else, under a timer of n ticks.
Await(c, stage, n) ==
  /\ pc'    = [pc EXCEPT ![c] = stage]
  /\ timer' = [timer EXCEPT ![c] = n]
  /\ UNCHANGED <<outcome, left>>

Enqueue(c) == ahead' = [ahead EXCEPT ![c] = Waiters]
Dequeue(c) == ahead' = [d \in Callers |-> IF d = c THEN {} ELSE ahead[d] \ {c}]

\* acquire_owned() under its timeout; the future joins the FIFO when polled
AwaitPermit(c) == Await(c, "permit", Budget(c, AcquireTimeout)) /\ Enqueue(c)

\* run and its two siblings: validation, the deadline, the first stage of run_once
Begin(c, k, label) ==
  /\ pc[c] = "idle"
  /\ ValidCall(k, label)
  /\ kind' = [kind EXCEPT ![c] = k]
  /\ left' = [left EXCEPT ![c] = OverallDeadline]
  /\ LET budget == IF HasDeadline /\ OverallDeadline < AcquireTimeout
                   THEN OverallDeadline ELSE AcquireTimeout
     IN  timer' = [timer EXCEPT ![c] = budget]
  /\ IF HasRate
     THEN pc' = [pc EXCEPT ![c] = "rate"] /\ UNCHANGED ahead
     ELSE pc' = [pc EXCEPT ![c] = "permit"] /\ Enqueue(c)
  /\ UNCHANGED <<attempt, permits, tokens, outcome, remoteVars>>

Reject(c, k, label) ==
  /\ pc[c] = "idle"
  /\ ~ValidCall(k, label)
  /\ kind' = [kind EXCEPT ![c] = k]
  /\ Return(c, "Config")
  /\ UNCHANGED <<attempt, ahead, permits, tokens, remoteVars>>

\* until_ready() gets a cell, and the permit stage computes its own budget
TakeToken(c) ==
  /\ pc[c] = "rate"
  /\ tokens > 0
  /\ tokens' = tokens - 1
  /\ IF Expired(c) THEN Return(c, "DeadlineExceeded") /\ UNCHANGED ahead
                   ELSE AwaitPermit(c)
  /\ UNCHANGED <<kind, attempt, permits, remoteVars>>

\* Faulty variant: the wait for a cell has no timeout.
RateNeverTimesOut(c) == FALSE

\* tokio polls the future before its timer: a ready cell wins over the timeout
RateTimesOut(c) ==
  /\ pc[c] = "rate"
  /\ timer[c] = 0
  /\ tokens = 0
  /\ Return(c, "RateLimited")
  /\ UNCHANGED <<kind, attempt, ahead, permits, tokens, remoteVars>>

CanAcquire(c) == permits > 0 /\ ahead[c] = {}

\* Faulty variant: the permit that arrives after the deadline is not given back.
AcquirePermitLeaking(c) ==
  /\ pc[c] = "permit"
  /\ CanAcquire(c)
  /\ Dequeue(c)
  /\ permits' = permits - 1
  /\ IF Expired(c) THEN Return(c, "DeadlineExceeded")
                   ELSE Await(c, "exec", Budget(c, RequestTimeout))
  /\ UNCHANGED <<kind, attempt, tokens, remoteVars>>

\* The permit arrives; if the deadline has passed it is dropped again and the
\* operation is never polled.
AcquirePermit(c) ==
  /\ pc[c] = "permit"
  /\ CanAcquire(c)
  /\ Dequeue(c)
  /\ IF Expired(c)
     THEN Return(c, "DeadlineExceeded") /\ UNCHANGED permits
     ELSE Await(c, "exec", Budget(c, RequestTimeout)) /\ permits' = permits - 1
  /\ UNCHANGED <<kind, attempt, tokens, remoteVars>>

PermitTimesOut(c) ==
  /\ pc[c] = "permit"
  /\ timer[c] = 0
  /\ ~CanAcquire(c)
  /\ Dequeue(c)
  /\ Return(c, "Overloaded")
  /\ UNCHANGED <<kind, attempt, permits, tokens, remoteVars>>

\* Faulty variant: the single calls share the retries of `run`.
RetryAnyKind(c, error) ==
  IF error \in Retryable /\ attempt[c] < MaxRetries
  THEN /\ attempt' = [attempt EXCEPT ![c] = @ + 1]
       /\ IF Expired(c) THEN Return(c, "DeadlineExceeded")
                        ELSE Await(c, "backoff", Budget(c, Backoff(attempt[c] + 1)))
  ELSE UNCHANGED attempt /\ Return(c, error)

\* Faulty variant: a retry is not counted.
RetryUncounted(c, error) ==
  /\ UNCHANGED attempt
  /\ IF kind[c] = "run" /\ error \in Retryable /\ attempt[c] < MaxRetries /\ ~Expired(c)
     THEN Await(c, "backoff", Budget(c, Backoff(attempt[c] + 1)))
     ELSE Return(c, error)

\* Faulty variant: one retry too many.
RetryOneTooMany(c, error) ==
  IF kind[c] = "run" /\ error \in Retryable /\ attempt[c] <= MaxRetries /\ ~Expired(c)
  THEN /\ attempt' = [attempt EXCEPT ![c] = @ + 1]
       /\ Await(c, "backoff", Budget(c, Backoff(attempt[c] + 1)))
  ELSE UNCHANGED attempt /\ Return(c, error)

\* When `run` fails with a retryable error and has retries left, it naps, within the
\* deadline; a call that may not retry returns the error.
RetryOrReturn(c, error) ==
  IF kind[c] = "run" /\ error \in Retryable /\ attempt[c] < MaxRetries
  THEN /\ attempt' = [attempt EXCEPT ![c] = @ + 1]
       /\ IF Expired(c) THEN Return(c, "DeadlineExceeded")
                        ELSE Await(c, "backoff", Budget(c, Backoff(attempt[c] + 1)))
  ELSE UNCHANGED attempt /\ Return(c, error)

\* The permit's guard is dropped on every way out of the attempt.
Release == permits' = permits + 1

\* The local future is dropped; a request already on the wire is not.
Abandon(c) ==
  /\ op'    = [op EXCEPT ![c] = "unsent"]
  /\ stale' = [stale EXCEPT ![c] = @ + InFlight(c)]
  /\ UNCHANGED applied

\* Faulty variant: a mutation reports the plain error.
AmbiguousIgnored(c, error) == error

\* What a mutation returns when it stopped after it could have been applied.
Ambiguous(c, error) == IF kind[c] = "mutation" THEN "OutcomeIndeterminate" ELSE error

\* timeout(budget, op) fires
RequestTimesOut(c) ==
  /\ pc[c] = "exec"
  /\ timer[c] = 0
  /\ RetryOrReturn(c, Ambiguous(c, "Timeout"))
  /\ Release
  /\ Abandon(c)
  /\ UNCHANGED <<kind, ahead, tokens>>

OpSucceeds(c) ==
  /\ pc[c] = "exec"
  /\ op[c] = "applied"
  /\ Return(c, "Ok")
  /\ Release
  /\ op' = [op EXCEPT ![c] = "unsent"]
  /\ UNCHANGED <<kind, attempt, ahead, tokens, stale, applied>>

\* A definite failure: a local check, or a refusal by the remote side.
OpFails(c) ==
  /\ pc[c] = "exec"
  /\ op[c] \in {"unsent", "refused"}
  /\ Return(c, "Failed")
  /\ Release
  /\ op' = [op EXCEPT ![c] = "unsent"]
  /\ UNCHANGED <<kind, attempt, ahead, tokens, stale, applied>>

\* The connection breaks: before anything was submitted the adapters report
\* Connection; afterwards they do so only for an operation that is no mutation.
OpDisconnects(c) ==
  /\ pc[c] = "exec"
  /\ op[c] # "refused"
  /\ RetryOrReturn(c, IF op[c] = "unsent" THEN "Connection" ELSE Ambiguous(c, "Connection"))
  /\ Release
  /\ Abandon(c)
  /\ UNCHANGED <<kind, ahead, tokens>>

\* The nap is over: run_once again, with the same deadline
Wake(c) ==
  /\ pc[c] = "backoff"
  /\ timer[c] = 0
  /\ IF Expired(c) THEN Return(c, "DeadlineExceeded") /\ UNCHANGED ahead
     ELSE IF HasRate THEN Await(c, "rate", Budget(c, AcquireTimeout)) /\ UNCHANGED ahead
     ELSE AwaitPermit(c)
  /\ UNCHANGED <<kind, attempt, permits, tokens, remoteVars>>
-----------------------------------------------------------------------------
\* The polled operation and the remote side it talks to.
Submit(c) ==
  /\ pc[c] = "exec"
  /\ op[c] = "unsent"
  /\ op' = [op EXCEPT ![c] = "sent"]
  /\ UNCHANGED <<callVars, ahead, permits, tokens, stale, applied>>

RemoteApplies(c) ==
  /\ op[c] = "sent"
  /\ op' = [op EXCEPT ![c] = "applied"]
  /\ applied' = [applied EXCEPT ![c] = @ + 1]
  /\ UNCHANGED <<callVars, ahead, permits, tokens, stale>>

RemoteRefuses(c) ==
  /\ op[c] = "sent"
  /\ op' = [op EXCEPT ![c] = "refused"]
  /\ UNCHANGED <<callVars, ahead, permits, tokens, stale, applied>>

\* An abandoned request takes effect late, possibly after the call returned.
StaleApplies(c) ==
  /\ stale[c] > 0
  /\ stale' = [stale EXCEPT ![c] = @ - 1]
  /\ applied' = [applied EXCEPT ![c] = @ + 1]
  /\ UNCHANGED <<callVars, ahead, permits, tokens, op>>

StaleIsLost(c) ==
  /\ stale[c] > 0
  /\ stale' = [stale EXCEPT ![c] = @ - 1]
  /\ UNCHANGED <<callVars, ahead, permits, tokens, op, applied>>

Refill ==
  /\ HasRate
  /\ tokens < Burst
  /\ tokens' = tokens + 1
  /\ UNCHANGED <<callVars, ahead, permits, remoteVars>>

Tick ==
  /\ \E c \in Callers : Active(c) /\ (timer[c] > 0 \/ (HasDeadline /\ left[c] > 0))
  /\ timer' = [c \in Callers |-> Decrement(timer[c])]
  /\ left'  = [c \in Callers |-> Decrement(left[c])]
  /\ UNCHANGED <<pc, kind, attempt, ahead, permits, tokens, outcome, remoteVars>>
-----------------------------------------------------------------------------
\* What the tokio scheduler owes a call: polling it once it can go on.
Scheduled(c) ==
  \/ TakeToken(c)
  \/ RateTimesOut(c)
  \/ AcquirePermit(c)
  \/ PermitTimesOut(c)
  \/ RequestTimesOut(c)
  \/ Wake(c)

Operation(c) ==
  \/ Submit(c)
  \/ OpSucceeds(c)
  \/ OpFails(c)
  \/ OpDisconnects(c)

Remote(c) ==
  \/ RemoteApplies(c)
  \/ RemoteRefuses(c)
  \/ StaleApplies(c)
  \/ StaleIsLost(c)

Call(c) == \E k \in Kinds, label \in {"subject", "blank"} :
             Begin(c, k, label) \/ Reject(c, k, label)

Next ==
  \/ \E c \in Callers : Call(c) \/ Scheduled(c) \/ Operation(c) \/ Remote(c)
  \/ Refill
  \/ Tick

Spec == Init /\ [][Next]_vars

\* Time passes and the scheduler polls what can go on.  Nothing obliges a
\* remote side to answer, a rate limiter to refill, or an abandoned request to
\* be resolved.
FairSpec == Spec /\ WF_vars(Tick) /\ \A c \in Callers : WF_vars(Scheduled(c))
-----------------------------------------------------------------------------
(* Properties *)

\* Every variable has the type of its declaration.
TypeOK ==
  /\ pc      \in [Callers -> Stages]
  /\ kind    \in [Callers -> Kinds]
  /\ attempt \in [Callers -> 0..MaxRetries]
  /\ left    \in [Callers -> Nat]
  /\ timer   \in [Callers -> Nat]
  /\ ahead   \in [Callers -> SUBSET Callers]
  /\ permits \in 0..Permits
  /\ tokens  \in 0..Burst
  /\ op      \in [Callers -> OpStates]
  /\ outcome \in [Callers -> Outcomes]
  /\ stale   \in [Callers -> Nat]
  /\ applied \in [Callers -> Nat]

\* No permit is lost or made up on any way out of an attempt: success, failure,
\* timeout, a deadline that passed while the permit was on its way.
PermitsConserved == permits + Cardinality(Holders) = Permits

\* run_single and run_single_mutation never submit their operation twice,
\* whatever still happens on the wire after they returned.
NeverReplayed ==
  \A c \in Callers : kind[c] # "run" => applied[c] + stale[c] + InFlight(c) <= 1

\* A mutation that returns an admission error, a retryable error or a definite
\* failure has not been applied and never will be; one that returns Ok has been
\* applied.  Only OutcomeIndeterminate leaves the question open.
MutationOutcomeIsHonest ==
  \A c \in Callers :
    kind[c] = "mutation" =>
      /\ outcome[c] \in Admission \cup Retryable \cup {"Failed"}
           => applied[c] + stale[c] = 0
      /\ outcome[c] = "Ok" => applied[c] = 1

\* A retried `run` may repeat an operation whose answer was lost, but never
\* more often than one first attempt and MaxRetries retries.
ReplaysAreBounded ==
  \A c \in Callers : applied[c] + stale[c] + InFlight(c) <= attempt[c] + 1

\* With an overall deadline, no wait, execution or nap is allotted time beyond it.
BudgetsWithinDeadline ==
  HasDeadline => \A c \in Callers : Active(c) => timer[c] <= left[c]

\* max_concurrency = 0 is treated as 1: only a call that met another call on
\* the same FlowControl can be refused as Overloaded.
OverloadedNeedsContention ==
  \A c \in Callers :
    outcome[c] = "Overloaded" => \E d \in Callers \ {c} : pc[d] # "idle"

\* Every call returns, even if the rate limiter never refills, the remote side never
\* answers and another call holds the permit: each stage has a timeout of its own, and
\* the retries are counted.
EveryCallReturns == \A c \in Callers : pc[c] # "idle" ~> pc[c] = "done"
=============================================================================
