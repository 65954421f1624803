--------------------------- MODULE MutationProofs ---------------------------
(***************************************************************************)
(* What every mutation and publication promises its caller, for inputs of  *)
(* any length and any number of repeated requests: whatever is lost, served*)
(* in part, repeated, late or dropped, each adapter implements             *)
(* MutationOutcome, and a success reports exactly what took effect.        *)
(*                                                                         *)
(* Its steps do not show by themselves that a part takes effect in its turn*)
(* and none after a definite answer.  The inductive invariant adds what the*)
(* call still has in hand: before something may have been written nothing  *)
(* is under way (StageInv), an answer that was understood belongs to the   *)
(* last request under way (AnswerInv), what the caller was told leaves     *)
(* nothing to happen (OutcomeInv), the one request of a conditional command*)
(* has not been served yet while it is there (ConditionInv), and the       *)
(* requests under way and those to come, in this order, continue the       *)
(* effects (PlanInv).                                                      *)
(*                                                                         *)
(* The second theorem needs a second one on top of it: what was counted and*)
(* what is still to be answered make up the input (CompleteInv), and the   *)
(* one request of the other operations took effect as its answer says      *)
(* (LoneInv).                                                              *)
(*                                                                         *)
(* The range of the counters follows from both: a call that has gone well  *)
(* has counted a part of its input, one that fails keeps what it had       *)
(* counted (RangeInv).                                                     *)
(***************************************************************************)
EXTENDS Mutation, ResourceDeletion, FiniteSetTheorems, TLAPS

Stages == {"idle", "connect", "metadata", "partition", "send", "await", "over"}
Kinds  == {"none", "Ok", "Definite", "OutcomeIndeterminate"}
AnswerKinds == {"none", "ok", "unreadable", "exists", "nil", "error", "broken"}

CallType ==
  /\ input \in Inputs
  /\ exists \in BOOLEAN /\ possible_write \in BOOLEAN
  /\ stage \in Stages
  /\ answer \in [kind : AnswerKinds, count : Nat] /\ outcome \in [kind : Kinds, count : Nat]
  /\ produced \in Nat

RequestType ==
  /\ queue \in Seq(Seq(0..MaxInput)) /\ wire \in Seq(Seq(0..MaxInput))
  /\ effects \in Seq(0..MaxInput) /\ repeats \in 0..MaxRepeats

StageInv ==
  /\ stage = "idle" => queue = <<>>
  /\ stage = "metadata" => queue # <<>> /\ op \in Repeating
  /\ stage \in {"idle", "connect", "metadata"} => ~possible_write
  /\ stage # "over" /\ ~possible_write => wire = <<>> /\ effects = <<>>
  /\ stage \in {"send", "partition"} => op = "nats_produce" \/ wire = <<>>
  /\ stage = "await" => Len(wire) <= 1 /\ op # "nats_produce"

AnswerInv ==
  /\ stage # "await" => answer = Nothing
  /\ answer.kind \notin {"none", "broken"} => wire = <<>>
  /\ answer.kind = "nil" => effects = <<>>

OutcomeInv ==
  /\ stage # "over" => outcome.kind = "none"
  /\ outcome.kind = "Ok" => queue = <<>> /\ (op = "nats_produce" \/ wire = <<>>)
  /\ outcome.kind = "Definite" => queue = <<>> /\ wire = <<>> /\ effects = <<>>

ConditionInv ==
  op \in Conditional => /\ wire = <<>> \/ queue = <<>>
                        /\ Len(wire) <= 1 /\ Len(queue) <= 1
                        /\ wire # <<>> \/ queue # <<>> => effects = <<>>

\* The partition of a message where rskafka sorts them; elsewhere all parts have one order.
Lane == [i \in 0..MaxInput |->
           IF i \in DOMAIN input /\ op = "rskafka_produce" THEN input[i].mark ELSE 0]

\* Parts of one lane have their order.
Precedes(lane, a, b) == lane[a] = lane[b] => a < b
Chain(lane, parts)   == \A i, j \in DOMAIN parts : i < j => Precedes(lane, parts[i], parts[j])
Before(lane, r, s)   == \A i \in DOMAIN r, j \in DOMAIN s : Precedes(lane, r[i], s[j])

\* A part that comes after some that took effect, or repeats one of them.
InTurn(lane, name, done, i, part) ==
  \/ Precedes(lane, done[i], part)
  \/ name \in Repeating /\ \E k \in 1..i : done[k] = part

Follows(lane, name, done, r) ==
  \A i \in DOMAIN done, j \in DOMAIN r : InTurn(lane, name, done, i, r[j])

Planned(lane, name, done, r) ==
  Len(r) <= MaxInput /\ Chain(lane, r) /\ Follows(lane, name, done, r)

\* The requests under way and those to come continue what was done, each after the
\* ones in front of it.
Plan(lane, name, done, sent, next) ==
  /\ \A n \in DOMAIN sent : Planned(lane, name, done, sent[n])
  /\ \A n \in DOMAIN next : Planned(lane, name, done, next[n])
  /\ \A m, n \in DOMAIN sent : m < n => Before(lane, sent[m], sent[n])
  /\ \A m, n \in DOMAIN next : m < n => Before(lane, next[m], next[n])
  /\ \A m \in DOMAIN sent, n \in DOMAIN next : Before(lane, sent[m], next[n])

Ordered(lane, name, done) ==
  \A i, j \in DOMAIN done : i < j => InTurn(lane, name, done, i, done[j])

PlanInv  == Plan(Lane, op, effects, wire, queue)
OrderInv == Ordered(Lane, op, effects)

IInv == /\ CallType /\ RequestType
        /\ StageInv /\ AnswerInv /\ OutcomeInv /\ ConditionInv
        /\ PlanInv /\ OrderInv

Parts    == 0..MaxInput
Requests == Seq(Seq(Parts))

\* What a step is to the caller: a call begins, or the caller is told something and
\* nothing happens, or parts take effect.
Begins == /\ effects = <<>> /\ effects' = effects /\ outcome.kind = "none"
          /\ outcome'.kind # "OutcomeIndeterminate"
Tells  == /\ UNCHANGED request /\ effects' = effects
          /\ outcome' = outcome \/ outcome.kind = "none"
Acts   == /\ UNCHANGED request /\ outcome' = outcome
          /\ outcome.kind = "Ok" => op = "nats_produce"
          /\ outcome.kind # "Definite"
          /\ \E parts \in Seq(Parts) : Len(parts) <= MaxInput /\ effects' = effects \o parts

USE DEF Nothing, Definite, Unknown, Ok
-----------------------------------------------------------------------------
(* Requests and effects in their order *)

\* What is left behind the first request.
LEMMA TailParts ==
  ASSUME NEW rest \in Requests, rest # <<>>
  PROVE  /\ Tail(rest) \in Requests /\ Len(Tail(rest)) = Len(rest) - 1
         /\ Head(rest) = rest[1] /\ 1 \in DOMAIN rest
         /\ \A n \in DOMAIN Tail(rest) : n + 1 \in DOMAIN rest /\ 1 < n + 1 /\ Tail(rest)[n] = rest[n + 1]
         /\ \A m, n \in DOMAIN Tail(rest) : m < n => m + 1 < n + 1
  BY DEF Requests

\* A plan stays one when the first of the requests under way or to come is dropped.
LEMMA PlanTails ==
  ASSUME NEW lane, NEW name, NEW done, NEW sent \in Requests, NEW next \in Requests,
         Plan(lane, name, done, sent, next)
  PROVE  /\ sent # <<>> => Plan(lane, name, done, Tail(sent), next)
         /\ next # <<>> => Plan(lane, name, done, sent, Tail(next))
<1>1. ASSUME sent # <<>> PROVE Plan(lane, name, done, Tail(sent), next)
  <2> DEFINE rest == Tail(sent)
  <2>1. /\ \A n \in DOMAIN rest : n + 1 \in DOMAIN sent /\ rest[n] = sent[n + 1]
        /\ \A m, n \in DOMAIN rest : m < n => m + 1 < n + 1
    BY <1>1, TailParts
  <2> HIDE DEF rest
  <2>2. Plan(lane, name, done, rest, next)
    BY <2>1 DEF Plan
  <2> QED
    BY <2>2 DEF rest
<1>2. ASSUME next # <<>> PROVE Plan(lane, name, done, sent, Tail(next))
  <2> DEFINE rest == Tail(next)
  <2>1. /\ \A n \in DOMAIN rest : n + 1 \in DOMAIN next /\ rest[n] = next[n + 1]
        /\ \A m, n \in DOMAIN rest : m < n => m + 1 < n + 1
    BY <1>2, TailParts
  <2> HIDE DEF rest
  <2>2. Plan(lane, name, done, sent, rest)
    BY <2>1 DEF Plan
  <2> QED
    BY <2>2 DEF rest
<1> QED
  BY <1>1, <1>2

\* The next request leaves.
LEMMA PlanSends ==
  ASSUME NEW lane, NEW name, NEW done, NEW sent \in Requests, NEW next \in Requests,
         Plan(lane, name, done, sent, next), next # <<>>
  PROVE  /\ Plan(lane, name, done, Append(sent, Head(next)), Tail(next))
         /\ Append(sent, Head(next)) \in Requests
<1> DEFINE now == Append(sent, Head(next))
           later == Tail(next)
           n1 == Len(sent) + 1
<1>1. /\ \A n \in DOMAIN now : (n \in DOMAIN sent /\ now[n] = sent[n]) \/ (n = n1 /\ now[n] = next[1])
      /\ \A n \in DOMAIN sent : n < n1 /\ ~(n1 < n)
      /\ ~(n1 < n1) /\ now \in Requests
  BY DEF Requests
<1>2. /\ \A n \in DOMAIN later : n + 1 \in DOMAIN next /\ later[n] = next[n + 1] /\ 1 < n + 1
      /\ 1 \in DOMAIN next /\ \A m, n \in DOMAIN later : m < n => m + 1 < n + 1
  BY TailParts
<1>3. Plan(lane, name, done, sent, later)
  BY PlanTails
<1> HIDE DEF now, later, n1
<1>4. \A n \in DOMAIN now : Planned(lane, name, done, now[n])
  BY <1>1, <1>2 DEF Plan
<1>5. \A m, n \in DOMAIN now : m < n => Before(lane, now[m], now[n])
  <2>1. ASSUME NEW m \in DOMAIN now, NEW n \in DOMAIN now, m < n PROVE Before(lane, now[m], now[n])
    <3>1. m \in DOMAIN sent /\ now[m] = sent[m]
      BY <1>1, <2>1
    <3> QED
      BY <1>1, <1>2, <2>1, <3>1 DEF Plan
  <2> QED
    BY <2>1
<1>6. \A m \in DOMAIN now, n \in DOMAIN later : Before(lane, now[m], later[n])
  <2>1. ASSUME NEW m \in DOMAIN now, NEW n \in DOMAIN later PROVE Before(lane, now[m], later[n])
    <3>1. CASE m \in DOMAIN sent /\ now[m] = sent[m]
      BY <1>3, <2>1, <3>1 DEF Plan
    <3>2. CASE m = n1 /\ now[m] = next[1]
      BY <1>2, <2>1, <3>2 DEF Plan
    <3> QED
      BY <1>1, <2>1, <3>1, <3>2
  <2> QED
    BY <2>1
<1>7. Plan(lane, name, done, now, later)
  BY <1>3, <1>4, <1>5, <1>6 DEF Plan
<1> QED
  BY <1>1, <1>7 DEF now, later

\* Effects are a sequence with those that came first in front.
LEMMA EffectsGrow ==
  ASSUME NEW done \in Seq(Parts), NEW parts \in Seq(Parts)
  PROVE  /\ done \o parts \in Seq(Parts)
         /\ DOMAIN (done \o parts) = 1..(Len(done) + Len(parts))
         /\ \A i \in DOMAIN done : (done \o parts)[i] = done[i]
         /\ \A i \in DOMAIN parts : (done \o parts)[Len(done) + i] = parts[i]
         /\ DOMAIN done = 1..Len(done) /\ Len(done) \in Nat
         /\ DOMAIN parts = 1..Len(parts) /\ Len(parts) \in Nat
         /\ \A i \in DOMAIN (done \o parts) :
              \/ i \in DOMAIN done
              \/ i > Len(done) /\ i - Len(done) \in DOMAIN parts
  BY DEF Parts

\* What was in its turn still is when more is done.
LEMMA TurnsStay ==
  ASSUME NEW lane, NEW name, NEW done \in Seq(Parts), NEW parts \in Seq(Parts), NEW part
  PROVE  /\ \A i \in DOMAIN done :
              InTurn(lane, name, done, i, part) => InTurn(lane, name, done \o parts, i, part)
         /\ \A i \in DOMAIN parts :
              InTurn(lane, name, parts, i, part)
                => InTurn(lane, name, done \o parts, Len(done) + i, part)
<1> DEFINE all == done \o parts
           n == Len(done)
<1>1. /\ \A i \in DOMAIN done : all[i] = done[i]
      /\ \A i \in DOMAIN parts : all[n + i] = parts[i]
      /\ DOMAIN done = 1..n /\ n \in Nat /\ DOMAIN parts = 1..Len(parts) /\ Len(parts) \in Nat
  BY EffectsGrow
<1> HIDE DEF all, n
<1>2. ASSUME NEW i \in DOMAIN done, InTurn(lane, name, done, i, part)
      PROVE  InTurn(lane, name, all, i, part)
  <2>1. all[i] = done[i] /\ \A k \in 1..i : all[k] = done[k]
    BY <1>1
  <2> QED
    BY <1>2, <2>1 DEF InTurn
<1>3. ASSUME NEW i \in DOMAIN parts, InTurn(lane, name, parts, i, part)
      PROVE  InTurn(lane, name, all, n + i, part)
  <2>1. all[n + i] = parts[i]
    BY <1>1, <1>3
  <2>2. ASSUME NEW k \in 1..i PROVE n + k \in 1..(n + i) /\ all[n + k] = parts[k]
    <3>1. k \in DOMAIN parts /\ k \in Nat /\ i \in Nat /\ k <= i
      BY <1>1, <1>3, <2>2
    <3>2. all[n + k] = parts[k]
      BY <1>1, <3>1
    <3>3. n + k \in 1..(n + i)
      BY <1>1, <2>2, <3>1
    <3> QED
      BY <3>2, <3>3
  <2> QED
    BY <1>3, <2>1, <2>2 DEF InTurn
<1> QED
  BY <1>2, <1>3 DEF all, n

\* Parts in their order that follow what was done keep it in order.
LEMMA OrderedMore ==
  ASSUME NEW lane, NEW name, NEW done \in Seq(Parts), NEW parts \in Seq(Parts),
         Ordered(lane, name, done), Chain(lane, parts), Follows(lane, name, done, parts)
  PROVE  Ordered(lane, name, done \o parts)
<1> DEFINE all == done \o parts
           n == Len(done)
<1>1. /\ \A i \in DOMAIN done : all[i] = done[i]
      /\ \A i \in DOMAIN parts : all[n + i] = parts[i]
      /\ DOMAIN done = 1..n /\ n \in Nat
      /\ DOMAIN all = 1..(n + Len(parts)) /\ DOMAIN parts = 1..Len(parts) /\ Len(parts) \in Nat
      /\ \A i \in DOMAIN all : i \in DOMAIN done \/ (i > n /\ i - n \in DOMAIN parts)
  BY EffectsGrow
<1>2. SUFFICES ASSUME NEW i \in DOMAIN all, NEW j \in DOMAIN all, i < j
               PROVE  InTurn(lane, name, all, i, all[j])
  BY DEF Ordered
<1>t. /\ \A part : \A k \in DOMAIN done :
           InTurn(lane, name, done, k, part) => InTurn(lane, name, all, k, part)
      /\ \A part : \A k \in DOMAIN parts :
           InTurn(lane, name, parts, k, part) => InTurn(lane, name, all, n + k, part)
  BY TurnsStay
<1> HIDE DEF all, n
<1>3. CASE j \in DOMAIN done
  <2>1. i \in DOMAIN done /\ all[j] = done[j]
    BY <1>1, <1>2, <1>3
  <2> QED
    BY <1>2, <1>3, <1>t, <2>1 DEF Ordered
<1>4. CASE i \in DOMAIN done /\ j > n
  <2>1. j - n \in DOMAIN parts /\ all[j] = parts[j - n]
    BY <1>1, <1>2, <1>4
  <2> QED
    BY <1>4, <1>t, <2>1 DEF Follows
<1>5. CASE i > n
  <2>1. /\ i - n \in DOMAIN parts /\ j - n \in DOMAIN parts /\ i - n < j - n
        /\ n + (i - n) = i /\ n + (j - n) = j
    BY <1>1, <1>2, <1>5
  <2>3. all[j] = parts[j - n]
    BY <1>1, <2>1
  <2>2. InTurn(lane, name, parts, i - n, parts[j - n])
    BY <2>1 DEF Chain, InTurn
  <2> QED
    BY <1>t, <2>1, <2>2, <2>3
<1> QED
  BY <1>1, <1>2, <1>3, <1>4, <1>5

\* A request that follows what was done and comes after some parts follows both.
LEMMA FollowsMore ==
  ASSUME NEW lane, NEW name, NEW done \in Seq(Parts), NEW parts \in Seq(Parts), NEW r,
         Follows(lane, name, done, r), Follows(lane, name, parts, r)
  PROVE  Follows(lane, name, done \o parts, r)
<1> DEFINE all == done \o parts
           n == Len(done)
<1>1. /\ n \in Nat
      /\ \A i \in DOMAIN all : i \in DOMAIN done \/ (i > n /\ i - n \in DOMAIN parts)
      /\ DOMAIN all = 1..(n + Len(parts))
  BY EffectsGrow
<1>2. /\ \A part : \A k \in DOMAIN done :
           InTurn(lane, name, done, k, part) => InTurn(lane, name, all, k, part)
      /\ \A part : \A k \in DOMAIN parts :
           InTurn(lane, name, parts, k, part) => InTurn(lane, name, all, n + k, part)
  BY TurnsStay
<1> HIDE DEF all, n
<1>3. ASSUME NEW i \in DOMAIN all, NEW j \in DOMAIN r
      PROVE  InTurn(lane, name, all, i, r[j])
  <2>1. CASE i \in DOMAIN done
    BY <1>2, <2>1 DEF Follows
  <2>2. CASE i > n /\ i - n \in DOMAIN parts
    <3>1. i - n \in DOMAIN parts /\ n + (i - n) = i
      BY <1>1, <2>2
    <3> QED
      BY <1>2, <3>1 DEF Follows
  <2> QED
    BY <1>1, <2>1, <2>2
<1>4. Follows(lane, name, all, r)
  BY <1>3 DEF Follows
<1> QED
  BY <1>4 DEF all

\* Parts of a request follow what the request follows, and are followed by its followers.
LEMMA PartsOfRequest ==
  ASSUME NEW lane, NEW name, NEW done, NEW r, NEW parts,
         \A i \in DOMAIN parts : \E k \in DOMAIN r : parts[i] = r[k]
  PROVE  /\ Follows(lane, name, done, r) => Follows(lane, name, done, parts)
         /\ \A s : Before(lane, r, s) => Follows(lane, name, parts, s)
<1>1. ASSUME Follows(lane, name, done, r) PROVE Follows(lane, name, done, parts)
  BY <1>1 DEF Follows
<1>2. ASSUME NEW s, Before(lane, r, s) PROVE Follows(lane, name, parts, s)
  <2>1. ASSUME NEW i \in DOMAIN parts, NEW j \in DOMAIN s PROVE InTurn(lane, name, parts, i, s[j])
    <3>1. PICK k \in DOMAIN r : parts[i] = r[k]
      BY <2>1
    <3> QED
      BY <1>2, <2>1, <3>1 DEF Before, InTurn
  <2> QED
    BY <2>1 DEF Follows
<1> QED
  BY <1>1, <1>2

\* Parts of the first request under way take effect, and that request is over.
LEMMA PlanServed ==
  ASSUME NEW lane, NEW name, NEW done \in Seq(Parts), NEW sent \in Requests, NEW next \in Requests,
         Plan(lane, name, done, sent, next), Ordered(lane, name, done), sent # <<>>,
         NEW parts \in Seq(Parts), Chain(lane, parts),
         \A i \in DOMAIN parts : \E k \in DOMAIN Head(sent) : parts[i] = Head(sent)[k]
  PROVE  /\ Plan(lane, name, done \o parts, Tail(sent), next)
         /\ Ordered(lane, name, done \o parts) /\ done \o parts \in Seq(Parts)
<1> DEFINE rest == Tail(sent)
           all  == done \o parts
<1>1. /\ \A n \in DOMAIN rest : n + 1 \in DOMAIN sent /\ rest[n] = sent[n + 1] /\ 1 < n + 1
      /\ \A m, n \in DOMAIN rest : m < n => m + 1 < n + 1
      /\ Head(sent) = sent[1] /\ 1 \in DOMAIN sent
  BY TailParts
<1>2. Plan(lane, name, done, rest, next)
  BY PlanTails
<1>3. all \in Seq(Parts)
  BY EffectsGrow
<1>4. Follows(lane, name, done, parts)
  BY <1>1, PartsOfRequest DEF Plan, Planned
<1>5. Ordered(lane, name, all)
  BY <1>4, OrderedMore
<1>6. ASSUME NEW r, Planned(lane, name, done, r), Before(lane, Head(sent), r)
      PROVE  Planned(lane, name, all, r)
  <2>1. Follows(lane, name, parts, r)
    BY <1>6, PartsOfRequest
  <2> QED
    BY <1>6, <2>1, FollowsMore DEF Planned
<1> HIDE DEF rest, all
<1>7. \A n \in DOMAIN rest : Before(lane, Head(sent), rest[n])
  BY <1>1 DEF Plan
<1>8. \A n \in DOMAIN next : Before(lane, Head(sent), next[n])
  BY <1>1 DEF Plan
<1>9. Plan(lane, name, all, rest, next)
  BY <1>2, <1>6, <1>7, <1>8 DEF Plan
<1> QED
  BY <1>3, <1>5, <1>9 DEF rest, all

\* The first request under way takes effect and is still under way.
LEMMA PlanRepeats ==
  ASSUME NEW lane, NEW name \in Repeating, NEW done \in Seq(Parts),
         NEW sent \in Requests, NEW next \in Requests,
         Plan(lane, name, done, sent, next), Ordered(lane, name, done), sent # <<>>
  PROVE  /\ Plan(lane, name, done \o Head(sent), sent, next)
         /\ Ordered(lane, name, done \o Head(sent)) /\ done \o Head(sent) \in Seq(Parts)
<1> DEFINE all   == done \o Head(sent)
           parts == Head(sent)
<1>1. parts = sent[1] /\ 1 \in DOMAIN sent /\ parts \in Seq(Parts)
  BY DEF Requests
<1>2. all \in Seq(Parts)
  BY <1>1, EffectsGrow
<1>3. Chain(lane, parts) /\ Follows(lane, name, done, parts)
  BY <1>1 DEF Plan, Planned
<1>4. Ordered(lane, name, all)
  BY <1>1, <1>3, OrderedMore
<1>5. Follows(lane, name, parts, parts)
  <2>1. ASSUME NEW i \in DOMAIN parts, NEW j \in DOMAIN parts
        PROVE  InTurn(lane, name, parts, i, parts[j])
    <3>1. DOMAIN parts = 1..Len(parts) /\ Len(parts) \in Nat
      BY <1>1
    <3>2. CASE i < j
      BY <1>3, <3>2 DEF Chain, InTurn
    <3>3. CASE ~(i < j)
      <4>1. j \in 1..i
        BY <3>1, <3>3
      <4> QED
        BY <4>1 DEF InTurn
    <3> QED
      BY <3>2, <3>3
  <2> QED
    BY <2>1 DEF Follows
<1>6. ASSUME NEW r, Planned(lane, name, done, r), Before(lane, parts, r)
      PROVE  Planned(lane, name, all, r)
  <2>1. Follows(lane, name, parts, r)
    BY <1>6, PartsOfRequest
  <2> QED
    BY <1>1, <1>6, <2>1, FollowsMore DEF Planned
<1>7. Planned(lane, name, all, parts)
  <2>1. Len(parts) <= MaxInput
    BY <1>1 DEF Plan, Planned
  <2> QED
    BY <1>1, <1>3, <1>5, <2>1, FollowsMore DEF Planned
<1>8. \A n \in DOMAIN sent : n = 1 \/ Before(lane, parts, sent[n])
  <2>1. \A n \in DOMAIN sent : n = 1 \/ 1 < n
    BY DEF Requests
  <2> QED
    BY <1>1, <2>1 DEF Plan
<1>9. \A n \in DOMAIN next : Before(lane, parts, next[n])
  BY <1>1 DEF Plan
<1> HIDE DEF all, parts
<1>10. Plan(lane, name, all, sent, next)
  <2>1. \A n \in DOMAIN sent : Planned(lane, name, all, sent[n])
    BY <1>1, <1>6, <1>7, <1>8 DEF Plan
  <2>2. \A n \in DOMAIN next : Planned(lane, name, all, next[n])
    BY <1>6, <1>9 DEF Plan
  <2> QED
    BY <2>1, <2>2 DEF Plan
<1> QED
  BY <1>2, <1>4, <1>10 DEF all

\* The beginning of a request, and any of its parts in the order of the input.
LEMMA PartsInOrder ==
  ASSUME NEW lane, NEW r \in Seq(Parts)
  PROVE  /\ \A n \in 0..Len(r) : Chain(lane, r) =>
              /\ SubSeq(r, 1, n) \in Seq(Parts) /\ Chain(lane, SubSeq(r, 1, n))
              /\ Len(SubSeq(r, 1, n)) = n
              /\ \A i \in DOMAIN SubSeq(r, 1, n) : \E k \in DOMAIN r : SubSeq(r, 1, n)[i] = r[k]
         /\ \A found \in Ascending(Range(r)) :
              /\ found \in Seq(Parts) /\ Chain(lane, found) /\ Len(found) <= MaxInput
              /\ \A i \in DOMAIN found : \E k \in DOMAIN r : found[i] = r[k]
<1>1. ASSUME NEW n \in 0..Len(r), Chain(lane, r)
      PROVE  /\ SubSeq(r, 1, n) \in Seq(Parts) /\ Chain(lane, SubSeq(r, 1, n))
             /\ Len(SubSeq(r, 1, n)) = n
             /\ \A i \in DOMAIN SubSeq(r, 1, n) : \E k \in DOMAIN r : SubSeq(r, 1, n)[i] = r[k]
  <2> DEFINE first == SubSeq(r, 1, n)
  <2>1. /\ first \in Seq(Parts) /\ Len(first) = n
        /\ \A i \in DOMAIN first : i \in DOMAIN r /\ first[i] = r[i]
    OBVIOUS
  <2> HIDE DEF first
  <2>2. Chain(lane, first)
    BY <1>1, <2>1 DEF Chain
  <2> QED
    BY <2>1, <2>2 DEF first
<1>2. ASSUME NEW found \in Ascending(Range(r))
      PROVE  /\ found \in Seq(Parts) /\ Chain(lane, found) /\ Len(found) <= MaxInput
             /\ \A i \in DOMAIN found : \E k \in DOMAIN r : found[i] = r[k]
  <2>1. PICK n \in 0..MaxInput : /\ found \in [1..n -> Range(r)]
                                 /\ \A i, j \in 1..n : i < j => found[i] < found[j]
    BY DEF Ascending
  <2>2. Range(r) \subseteq Parts /\ \A part \in Range(r) : \E k \in DOMAIN r : part = r[k]
    BY DEF Range
  <2>3. found \in Seq(Parts) /\ Len(found) = n
    BY <2>1, <2>2, MutationAssumption
  <2>4. Chain(lane, found)
    BY <2>1 DEF Chain, Precedes
  <2> QED
    BY <2>1, <2>2, <2>3, <2>4, MutationAssumption
<1> QED
  BY <1>1, <1>2
-----------------------------------------------------------------------------
(* The life of a call *)

\* Nothing was done and nothing is to come before the first call.
LEMMA InitInv == MutationInit => IInv
<1> SUFFICES ASSUME MutationInit PROVE IInv
  OBVIOUS
<1> USE DEF MutationInit
<1>1. <<>> \in Inputs
  <2>1. <<>> \in [1..0 -> ItemKinds]
    OBVIOUS
  <2> QED
    BY <2>1, MutationAssumption DEF Inputs
<1>2. CallType
  <2>1. input \in Inputs /\ stage \in Stages /\ produced \in Nat
    BY <1>1 DEF Stages
  <2>2. exists \in BOOLEAN /\ possible_write \in BOOLEAN
    OBVIOUS
  <2>3. answer \in [kind : AnswerKinds, count : Nat] /\ outcome \in [kind : Kinds, count : Nat]
    BY DEF AnswerKinds, Kinds
  <2> QED
    BY <2>1, <2>2, <2>3 DEF CallType
<1>3. RequestType
  BY MutationAssumption DEF RequestType
<1>4. StageInv /\ AnswerInv /\ OutcomeInv /\ ConditionInv
  BY DEF StageInv, AnswerInv, OutcomeInv, ConditionInv
<1>5. PlanInv /\ OrderInv
  BY DEF PlanInv, OrderInv, Plan, Ordered
<1> QED
  BY <1>2, <1>3, <1>4, <1>5 DEF IInv

\* A call is over with a result that is true of what it did.
LEMMA FinishInv ==
  ASSUME IInv, stage \notin {"idle", "over"}, NEW result \in [kind : Kinds, count : Nat],
         Finish(result),
         result.kind = "Definite" => wire = <<>> /\ effects = <<>>,
         result.kind = "Ok" => op = "nats_produce" \/ wire = <<>>
  PROVE  IInv' /\ Tells
<1> USE DEF Finish, request, remote
<1>1. CallType'
  BY DEF IInv, CallType, Stages, AnswerKinds
<1>2. RequestType'
  BY DEF IInv, RequestType
<1>3. (StageInv /\ AnswerInv /\ OutcomeInv)'
  BY DEF IInv, StageInv, AnswerInv, OutcomeInv
<1>4. ConditionInv'
  <2>1. Len(wire) \in Nat /\ Len(queue) \in Nat /\ Len(queue') = 0 /\ wire' = wire
    BY DEF IInv, RequestType
  <2> QED
    BY <2>1 DEF IInv, ConditionInv
<1>5. PlanInv' /\ OrderInv'
  <2>1. Lane' = Lane
    BY DEF Lane
  <2> QED
    BY <2>1 DEF IInv, PlanInv, OrderInv, Plan
<1>6. Tells
  BY DEF Tells, IInv, OutcomeInv
<1> QED
  BY <1>1, <1>2, <1>3, <1>4, <1>5, <1>6 DEF IInv

\* An answer that was understood lets the call go on, or be over when it was the last.
LEMMA GoOnInv ==
  ASSUME IInv, stage = "await", answer.kind \notin {"none", "broken"},
         NEW n \in Nat, NEW next \in {"send", "partition"}, GoOn(n, next)
  PROVE  IInv' /\ Tells
<1> USE DEF GoOn, request, remote
<1>1. CallType'
  BY DEF IInv, CallType, Stages, AnswerKinds, Kinds
<1>2. RequestType'
  BY DEF IInv, RequestType
<1>3. (StageInv /\ AnswerInv /\ OutcomeInv)'
  BY DEF IInv, StageInv, AnswerInv, OutcomeInv
<1>4. ConditionInv'
  BY DEF IInv, ConditionInv
<1>5. PlanInv' /\ OrderInv'
  <2>1. Lane' = Lane
    BY DEF Lane
  <2> QED
    BY <2>1 DEF IInv, PlanInv, OrderInv
<1>6. Tells
  BY DEF Tells, IInv, OutcomeInv
<1> QED
  BY <1>1, <1>2, <1>3, <1>4, <1>5, <1>6 DEF IInv

\* An answer is understood, or leaves open what has happened.
LEMMA AnsweredInv ==
  ASSUME IInv, NEW ops, Answered(ops), NEW understood \in SUBSET {"ok", "nil", "exists"},
         NEW n \in Nat, NEW next \in {"send", "partition"}, OrUnknown(understood, GoOn(n, next))
  PROVE  IInv' /\ Tells
<1>1. stage = "await"
  BY DEF Answered
<1>2. CASE answer.kind \in understood
  BY <1>1, <1>2, GoOnInv DEF OrUnknown
<1>3. CASE Finish(Unknown)
  BY <1>1, <1>3, FinishInv DEF Kinds
<1> QED
  BY <1>2, <1>3 DEF OrUnknown

\* The next request leaves, and on NATS is counted.
LEMMA SendInv ==
  ASSUME IInv, stage = "send", queue # <<>>, UNCHANGED <<request, remote, answer, outcome>>,
         wire' = Append(wire, Head(queue)), queue' = Tail(queue), possible_write' = TRUE,
         produced' \in Nat,
         IF op = "nats_produce" THEN stage' = "send" ELSE stage' = "await"
  PROVE  IInv' /\ Tells
<1> USE DEF request, remote
<1>1. CallType'
  BY DEF IInv, CallType, Stages
<1>2. wire \in Requests /\ queue \in Requests
  BY DEF IInv, RequestType, Requests, Parts
<1>3. /\ wire' \in Requests /\ queue' \in Requests
      /\ Plan(Lane, op, effects, wire', queue')
  BY <1>2, PlanSends, TailParts DEF IInv, PlanInv
<1>4. RequestType'
  BY <1>3 DEF IInv, RequestType, Requests, Parts
<1>5. Len(wire') = Len(wire) + 1 /\ Len(queue') = Len(queue) - 1
      /\ Len(wire) \in Nat /\ Len(queue) \in Nat /\ (wire = <<>> => Len(wire) = 0)
  BY <1>2 DEF Requests
<1>6. (StageInv /\ AnswerInv /\ OutcomeInv)'
  BY <1>5 DEF IInv, StageInv, AnswerInv, OutcomeInv
<1>7. ConditionInv'
  BY <1>5 DEF IInv, ConditionInv
<1>8. PlanInv' /\ OrderInv'
  <2>1. Lane' = Lane
    BY DEF Lane
  <2> QED
    BY <1>3, <2>1 DEF IInv, PlanInv, OrderInv
<1>9. Tells
  BY DEF Tells
<1> QED
  BY <1>1, <1>4, <1>6, <1>7, <1>8, <1>9 DEF IInv

\* The call gets ready for its next request; a Kafka topic that is there is not created.
LEMMA ReadyInv ==
  ASSUME IInv, stage \in {"connect", "metadata", "partition"}, stage' \in {"send", "partition"},
         UNCHANGED <<request, remote, wire, answer, produced, possible_write, outcome>>,
         queue' = queue \/ (stage = "metadata" /\ op \in Repeating /\ queue # <<>> /\ queue' = Tail(queue))
  PROVE  IInv' /\ Tells
<1> USE DEF request, remote
<1>1. CallType'
  BY DEF IInv, CallType, Stages
<1>2. wire \in Requests /\ queue \in Requests
  BY DEF IInv, RequestType, Requests, Parts
<1>3. queue' \in Requests /\ Plan(Lane, op, effects, wire', queue')
  BY <1>2, PlanTails, TailParts DEF IInv, PlanInv
<1>4. RequestType'
  BY <1>3 DEF IInv, RequestType, Requests, Parts
<1>5. (StageInv /\ AnswerInv /\ OutcomeInv)'
  BY DEF IInv, StageInv, AnswerInv, OutcomeInv
<1>6. ConditionInv'
  BY DEF IInv, ConditionInv, Conditional, Repeating
<1>7. PlanInv' /\ OrderInv'
  <2>1. Lane' = Lane
    BY DEF Lane
  <2> QED
    BY <1>3, <2>1 DEF IInv, PlanInv, OrderInv
<1>8. Tells
  BY DEF Tells
<1> QED
  BY <1>1, <1>4, <1>5, <1>6, <1>7, <1>8 DEF IInv

\* The future is dropped; what Db2's worker has in hand stays to be sent.
LEMMA DroppedInv ==
  ASSUME IInv, MutationDropped
  PROVE  IInv' /\ Tells
<1> USE DEF MutationDropped, request, remote
<1>1. CallType'
  BY DEF IInv, CallType, Stages, Kinds, AnswerKinds
<1>2. RequestType'
  <2>1. queue' \in {queue, <<>>} /\ <<>> \in Seq(Seq(0..MaxInput)) /\ wire' = wire
        /\ effects' = effects /\ repeats' = repeats
    OBVIOUS
  <2>2. queue' \in Seq(Seq(0..MaxInput))
    BY <2>1 DEF IInv, RequestType
  <2> QED
    BY <2>1, <2>2 DEF IInv, RequestType
<1>3. (StageInv /\ AnswerInv /\ OutcomeInv)'
  BY DEF IInv, StageInv, AnswerInv, OutcomeInv
<1>4. ConditionInv'
  <2>1. Len(wire) \in Nat /\ Len(queue) \in Nat /\ wire' = wire
        /\ (queue' = queue \/ Len(queue') = 0)
    BY DEF IInv, RequestType
  <2> QED
    BY <2>1 DEF IInv, ConditionInv
<1>5. PlanInv' /\ OrderInv'
  <2>1. Lane' = Lane
    BY DEF Lane
  <2> QED
    BY <2>1 DEF IInv, PlanInv, OrderInv, Plan
<1>6. Tells
  BY DEF Tells, IInv, OutcomeInv
<1> QED
  BY <1>1, <1>2, <1>3, <1>4, <1>5, <1>6 DEF IInv

\* Db2's worker sends its statement after all, or fails to.
LEMMA WorkerInv ==
  ASSUME IInv, Db2WorkerGoesOn
  PROVE  IInv' /\ Tells
<1> USE DEF Db2WorkerGoesOn, request, remote
<1>1. CallType'
  BY DEF IInv, CallType
<1>2. wire \in Requests /\ queue \in Requests
  BY DEF IInv, RequestType, Requests, Parts
<1>3. wire' = wire \/ wire' = Append(wire, Head(queue))
  OBVIOUS
<1>4. wire' \in Requests /\ queue' \in Requests /\ Plan(Lane, op, effects, wire', queue')
  <2>1. queue' = Tail(queue) /\ queue' \in Requests
    BY <1>2, TailParts
  <2>2. Plan(Lane, op, effects, wire, queue)
    BY DEF IInv, PlanInv
  <2>3. Plan(Lane, op, effects, wire, Tail(queue))
    BY <1>2, <2>2, PlanTails
  <2>4. /\ Plan(Lane, op, effects, Append(wire, Head(queue)), Tail(queue))
        /\ Append(wire, Head(queue)) \in Requests
    BY <1>2, <2>2, PlanSends
  <2> QED
    BY <1>2, <1>3, <2>1, <2>3, <2>4
<1>5. RequestType'
  BY <1>4 DEF IInv, RequestType, Requests, Parts
<1>6. StageInv'
  BY DEF IInv, StageInv
<1>7. outcome.kind \notin {"Ok", "Definite"}
  BY DEF IInv, OutcomeInv
<1>8. (AnswerInv /\ OutcomeInv)'
  BY <1>7 DEF IInv, AnswerInv, OutcomeInv
<1>9. ConditionInv'
  BY DEF ConditionInv, Conditional
<1>10. PlanInv' /\ OrderInv'
  <2>1. Lane' = Lane
    BY DEF Lane
  <2> QED
    BY <1>4, <2>1 DEF IInv, PlanInv, OrderInv
<1>11. Tells
  BY DEF Tells
<1> QED
  BY <1>1, <1>5, <1>6, <1>8, <1>9, <1>10, <1>11 DEF IInv
-----------------------------------------------------------------------------
(* The server and the network *)

\* The first request under way is served as far as some of its parts.
LEMMA ReplyInv ==
  ASSUME IInv, wire # <<>>, wire' = Tail(wire), NEW kind \in AnswerKinds, NEW parts \in Seq(Parts),
         Reply(kind, parts), Len(parts) <= MaxInput, Chain(Lane, parts),
         \A i \in DOMAIN parts : \E k \in DOMAIN Head(wire) : parts[i] = Head(wire)[k],
         kind \in {"ok", "unreadable", "exists", "error"} \/ (kind = "nil" /\ op \in Conditional /\ parts = <<>>)
  PROVE  IInv' /\ Acts
<1> USE DEF Reply, request
<1>1. wire \in Requests /\ queue \in Requests /\ effects \in Seq(Parts)
  BY DEF IInv, RequestType, Requests, Parts
<1>2. /\ Len(wire) \in Nat /\ Len(queue) \in Nat /\ Len(wire') = Len(wire) - 1
      /\ wire' \in Requests /\ (Len(wire') = 0 => wire' = <<>>) /\ Len(wire) >= 1
  BY <1>1, TailParts DEF Requests
<1>3. /\ Plan(Lane, op, effects', wire', queue') /\ Ordered(Lane, op, effects')
      /\ effects' \in Seq(Parts)
  BY <1>1, PlanServed DEF IInv, PlanInv, OrderInv
<1>4. RequestType'
  BY <1>2, <1>3 DEF IInv, RequestType, Requests, Parts
<1>5. exists' \in BOOLEAN
  BY DEF IInv, CallType
<1>6. answer' \in [kind : AnswerKinds, count : Nat]
  <2>1. Cardinality(Items(parts)) \in Nat
    <3>1. DOMAIN parts = 1..Len(parts) /\ Len(parts) \in Nat
      BY <1>1
    <3>2. IsFiniteSet(DOMAIN parts)
      BY <3>1, FS_Interval
    <3>3. IsFiniteSet(Items(parts))
      BY <3>2, FS_Subset DEF Items
    <3> QED
      BY <3>3, FS_CardinalityType
  <2> QED
    BY <2>1 DEF IInv, CallType
<1>7. CallType'
  BY <1>5, <1>6 DEF IInv, CallType
<1>8. outcome.kind # "Definite" /\ (outcome.kind = "Ok" => op = "nats_produce")
  BY DEF IInv, OutcomeInv
<1>9. StageInv'
  BY <1>2 DEF IInv, StageInv
<1>10. answer' = answer \/ (stage = "await" /\ answer'.kind = kind)
  OBVIOUS
<1>11. stage = "await" => wire' = <<>>
  BY <1>2 DEF IInv, StageInv
<1>12. AnswerInv'
  <2>1. CASE answer' = answer
    <3>1. answer.kind = "nil" => wire = <<>>
      BY DEF IInv, AnswerInv
    <3> QED
      BY <1>11, <2>1, <3>1 DEF IInv, AnswerInv
  <2>2. CASE stage = "await" /\ answer'.kind = kind
    <3>1. kind = "nil" => effects' = effects /\ effects = <<>>
      BY <1>1, <1>2 DEF IInv, ConditionInv
    <3> QED
      BY <1>11, <2>2, <3>1 DEF AnswerInv
  <2> QED
    BY <1>10, <2>1, <2>2
<1>13. OutcomeInv'
  BY <1>8 DEF IInv, OutcomeInv
<1>14. ConditionInv'
  BY <1>2 DEF IInv, ConditionInv
<1>15. PlanInv' /\ OrderInv'
  <2>1. Lane' = Lane
    BY DEF Lane
  <2> QED
    BY <1>3, <2>1 DEF PlanInv, OrderInv
<1>16. Acts
  BY <1>8 DEF Acts
<1> QED
  BY <1>4, <1>7, <1>9, <1>12, <1>13, <1>14, <1>15, <1>16 DEF IInv

\* What the server makes of the first request under way.
LEMMA ServedInv ==
  ASSUME IInv, Serve \/ ServeExisting \/ ServeSome \/ ServeNil \/ Refuse
  PROVE  IInv' /\ Acts
<1>1. /\ wire # <<>> /\ wire' = Tail(wire)
  BY DEF Serve, ServeExisting, ServeSome, ServeNil, Refuse
<1>2. /\ Head(wire) \in Seq(Parts) /\ Len(Head(wire)) <= MaxInput /\ Chain(Lane, Head(wire))
  <2>1. wire \in Requests /\ Head(wire) = wire[1] /\ 1 \in DOMAIN wire
    BY <1>1 DEF IInv, RequestType, Requests, Parts
  <2> QED
    BY <2>1 DEF IInv, PlanInv, Plan, Planned, Requests
<1>3. /\ <<>> \in Seq(Parts) /\ Chain(Lane, <<>>) /\ Len(<<>>) <= MaxInput
      /\ \A i \in DOMAIN <<>> : \E k \in DOMAIN Head(wire) : <<>>[i] = Head(wire)[k]
  BY MutationAssumption DEF Chain
<1>4. CASE Serve
  <2>1. PICK kind \in {"ok", "unreadable"} : Reply(kind, Head(wire))
    BY <1>4 DEF Serve
  <2> QED
    BY <1>1, <1>2, <2>1, ReplyInv DEF AnswerKinds
<1>5. CASE ServeExisting
  <2>1. PICK kind \in {"ok", "exists"} : Reply(kind, <<>>)
    BY <1>5 DEF ServeExisting
  <2> QED
    BY <1>1, <1>3, <2>1, ReplyInv DEF AnswerKinds
<1>6. CASE ServeSome
  <2>1. PICK found \in Ascending(Range(Head(wire))) : Reply("ok", found)
    BY <1>6 DEF ServeSome
  <2>2. /\ found \in Seq(Parts) /\ Chain(Lane, found) /\ Len(found) <= MaxInput
        /\ \A i \in DOMAIN found : \E k \in DOMAIN Head(wire) : found[i] = Head(wire)[k]
    BY <1>2, PartsInOrder
  <2> QED
    BY <1>1, <2>1, <2>2, ReplyInv DEF AnswerKinds
<1>7. CASE ServeNil
  BY <1>1, <1>3, <1>7, ReplyInv DEF AnswerKinds, ServeNil
<1>8. CASE Refuse
  <2>1. PICK n \in 0..Len(Head(wire)) : Reply("error", SubSeq(Head(wire), 1, n))
    BY <1>2, <1>8 DEF Refuse
  <2> DEFINE parts == SubSeq(Head(wire), 1, n)
  <2>2. /\ parts \in Seq(Parts) /\ Chain(Lane, parts) /\ Len(parts) = n
        /\ \A i \in DOMAIN parts : \E k \in DOMAIN Head(wire) : parts[i] = Head(wire)[k]
    BY <1>2, PartsInOrder
  <2>3. Len(parts) <= MaxInput
    BY <1>2, <2>1, <2>2, MutationAssumption
  <2> HIDE DEF parts
  <2> QED
    BY <1>1, <2>1, <2>2, <2>3, ReplyInv DEF AnswerKinds, parts
<1> QED
  BY <1>4, <1>5, <1>6, <1>7, <1>8

\* A Kafka client sends a request again that was served; it is served once more.
LEMMA RepeatInv ==
  ASSUME IInv, Repeat
  PROVE  IInv' /\ Acts
<1> USE DEF Repeat, request
<1>1. wire \in Requests /\ queue \in Requests /\ effects \in Seq(Parts)
  BY DEF IInv, RequestType, Requests, Parts
<1>2. /\ Plan(Lane, op, effects', wire, queue) /\ Ordered(Lane, op, effects')
      /\ effects' \in Seq(Parts)
  BY <1>1, PlanRepeats DEF IInv, PlanInv, OrderInv
<1>3. Head(wire) \in Seq(Parts) /\ Len(Head(wire)) <= MaxInput
  <2>1. Head(wire) = wire[1] /\ 1 \in DOMAIN wire
    BY <1>1 DEF Requests
  <2> QED
    BY <1>1, <2>1 DEF IInv, PlanInv, Plan, Planned, Requests
<1>4. repeats' \in 0..MaxRepeats
  BY MutationAssumption DEF IInv, RequestType
<1>5. RequestType'
  BY <1>2, <1>4 DEF IInv, RequestType, Parts
<1>6. CallType'
  BY DEF IInv, CallType
<1>7. outcome.kind # "Definite" /\ (outcome.kind = "Ok" => op = "nats_produce")
  BY DEF IInv, OutcomeInv
<1>8. (StageInv /\ AnswerInv /\ OutcomeInv)'
  BY <1>7 DEF IInv, StageInv, AnswerInv, OutcomeInv
<1>9. ConditionInv'
  BY DEF ConditionInv, Conditional, Repeating
<1>10. PlanInv' /\ OrderInv'
  <2>1. Lane' = Lane
    BY DEF Lane
  <2> QED
    BY <1>2, <2>1 DEF PlanInv, OrderInv
<1>11. Acts
  BY <1>3, <1>7 DEF Acts
<1> QED
  BY <1>5, <1>6, <1>8, <1>9, <1>10, <1>11 DEF IInv

\* A connection breaks, a request is lost, or others create the queue or topic.
LEMMA DisturbedInv ==
  ASSUME IInv, Break \/ Lose \/ OthersCreate
  PROVE  IInv' /\ Tells
<1> USE DEF Break, Lose, OthersCreate, request, remote
<1>1. CallType'
  <2>1. exists' = exists \/ exists' = TRUE
    OBVIOUS
  <2>2. exists' \in BOOLEAN
    BY <2>1, Zenon DEF IInv, CallType
  <2>3. answer' \in [kind : AnswerKinds, count : Nat]
    BY DEF IInv, CallType, AnswerKinds
  <2>4. UNCHANGED <<input, possible_write, stage, outcome, produced>>
    OBVIOUS
  <2> QED
    BY <2>2, <2>3, <2>4 DEF IInv, CallType
<1>2. wire \in Requests /\ queue \in Requests
  BY DEF IInv, RequestType, Requests, Parts
<1>3. /\ UNCHANGED <<op, input, effects, repeats, queue>>
      /\ wire' = wire \/ (wire # <<>> /\ wire' = Tail(wire))
  OBVIOUS
<1>4. wire' \in Requests /\ Plan(Lane, op, effects, wire', queue)
  <2>1. Plan(Lane, op, effects, wire, queue)
    BY DEF IInv, PlanInv
  <2> QED
    BY <1>2, <1>3, <2>1, PlanTails, TailParts
<1>5. RequestType'
  BY <1>3, <1>4 DEF IInv, RequestType, Requests, Parts
<1>6. /\ Len(wire) \in Nat /\ Len(queue) \in Nat /\ Len(wire') \in Nat /\ Len(wire') <= Len(wire)
      /\ (wire = <<>> => wire' = <<>>)
  BY <1>2, <1>3, <1>4, TailParts DEF Requests
<1>7. StageInv'
  BY <1>3, <1>6 DEF IInv, StageInv
<1>8. AnswerInv'
  BY <1>3, <1>6 DEF IInv, AnswerInv
<1>9. OutcomeInv'
  BY <1>3, <1>6 DEF IInv, OutcomeInv
<1>10. ConditionInv'
  BY <1>3, <1>6 DEF IInv, ConditionInv
<1>11. PlanInv' /\ OrderInv'
  <2>1. Lane' = Lane
    BY <1>3 DEF Lane
  <2> QED
    BY <1>3, <1>4, <2>1 DEF IInv, PlanInv, OrderInv
<1>12. Tells
  BY DEF Tells
<1> QED
  BY <1>1, <1>5, <1>7, <1>8, <1>9, <1>10, <1>11, <1>12 DEF IInv
-----------------------------------------------------------------------------
(* The steps of a call *)

\* Connections, topics and partitions, before the request they are for.
LEMMA PrepareInv ==
  ASSUME IInv, Connect \/ KafkaTopics \/ RskafkaPartition
  PROVE  IInv' /\ Tells
<1>1. CASE Connect
  <2>1. CASE Finish(Definite)
    BY <1>1, <2>1, FinishInv DEF Connect, Kinds, IInv, StageInv
  <2>2. CASE ~Finish(Definite)
    BY <1>1, <2>2, ReadyInv DEF Connect
  <2> QED
    BY <2>1, <2>2
<1>2. CASE KafkaTopics
  <2>1. CASE Finish(Definite)
    BY <1>2, <2>1, FinishInv DEF KafkaTopics, Kinds, IInv, StageInv
  <2>2. CASE ~Finish(Definite)
    <3>1. op \in Repeating /\ queue # <<>> /\ stage = "metadata"
      BY <1>2 DEF KafkaTopics, IInv, StageInv
    <3> QED
      BY <1>2, <2>2, <3>1, ReadyInv DEF KafkaTopics
  <2> QED
    BY <2>1, <2>2
<1>3. CASE RskafkaPartition
  <2>1. CASE possible_write /\ Finish(Unknown)
    BY <1>3, <2>1, FinishInv DEF RskafkaPartition, Kinds
  <2>2. CASE ~possible_write /\ Finish(Definite)
    BY <1>3, <2>2, FinishInv DEF RskafkaPartition, Kinds, IInv, StageInv
  <2>4. CASE Finish(IF possible_write THEN Unknown ELSE Definite)
    <3>1. CASE possible_write
      BY <2>1, <2>4, <3>1
    <3>2. CASE ~possible_write
      BY <2>2, <2>4, <3>2
    <3> QED
      BY <3>1, <3>2
  <2>5. CASE ~Finish(IF possible_write THEN Unknown ELSE Definite)
    BY <1>3, <2>5, ReadyInv DEF RskafkaPartition
  <2> QED
    BY <2>4, <2>5
<1> QED
  BY <1>1, <1>2, <1>3

\* The requests of a call leave: each for its answer, or on NATS one after the other.
LEMMA RequestsInv ==
  ASSUME IInv, (op # "nats_produce" /\ Send) \/ NatsPublish \/ NatsFlush
  PROVE  IInv' /\ Tells
<1>1. CASE op # "nats_produce" /\ Send
  BY <1>1, SendInv DEF Send, IInv, CallType
<1>2. CASE NatsPublish
  <2>1. CASE Finish(Unknown)
    BY <1>2, <2>1, FinishInv DEF NatsPublish, Kinds
  <2>2. CASE ~Finish(Unknown)
    <3>1. /\ op = "nats_produce" /\ stage = "send" /\ queue # <<>> /\ stage' = "send"
          /\ wire' = Append(wire, Head(queue)) /\ queue' = Tail(queue) /\ possible_write' = TRUE
          /\ UNCHANGED <<request, remote, answer, outcome>> /\ produced' = produced + 1
      BY <1>2, <2>2 DEF NatsPublish
    <3>2. produced' \in Nat
      BY <3>1 DEF IInv, CallType
    <3> QED
      BY <3>1, <3>2, SendInv
  <2> QED
    BY <2>1, <2>2
<1>3. CASE NatsFlush
  <2>1. Ok(produced) \in [kind : Kinds, count : Nat] /\ Unknown \in [kind : Kinds, count : Nat]
    BY DEF Kinds, IInv, CallType
  <2> QED
    BY <1>3, <2>1, FinishInv DEF NatsFlush
<1> QED
  BY <1>1, <1>2, <1>3

\* What each adapter makes of an answer.
LEMMA ReturnsInv ==
  ASSUME IInv, Returns
  PROVE  IInv' /\ Tells
<1> DEFINE Next == {"send", "partition"}
<1>1. answer.count \in Nat /\ 0 \in Nat /\ 1 \in Nat
      /\ {"ok"} \in SUBSET {"ok", "nil", "exists"} /\ {"ok", "nil"} \in SUBSET {"ok", "nil", "exists"}
      /\ {"ok", "exists"} \in SUBSET {"ok", "nil", "exists"}
  BY DEF IInv, CallType
<1>2. CASE RedisSetReturns
  <2>1. CASE answer.kind = "nil" /\ Finish(Definite)
    BY <1>2, <2>1, FinishInv DEF RedisSetReturns, Answered, Kinds, IInv, AnswerInv
  <2> QED
    BY <1>1, <1>2, <2>1, AnsweredInv DEF RedisSetReturns
<1>3. CASE MongoInsertReturns
  <2>1. stage = "await"
    BY <1>3 DEF MongoInsertReturns, Answered
  <2>2. CASE Finish(Unknown)
    BY <2>1, <2>2, FinishInv DEF Kinds
  <2>3. CASE answer.kind = "ok" /\ GoOn(answer.count, "send")
    BY <1>1, <2>1, <2>3, GoOnInv
  <2> QED
    BY <1>3, <2>2, <2>3 DEF MongoInsertReturns, OrUnknown
<1>4. CASE RedisRestoreReturns \/ RedisDeleteReturns \/ RedisRawReturns
  BY <1>1, <1>4, AnsweredInv DEF RedisRestoreReturns, RedisDeleteReturns, RedisRawReturns
<1>5. CASE MongoUpdateReturns \/ MongoDeleteReturns \/ MongoAggregateReturns \/ MongoDropReturns
  BY <1>1, <1>5, AnsweredInv DEF MongoUpdateReturns, MongoDeleteReturns, MongoAggregateReturns,
                                  MongoDropReturns
<1>6. CASE SearchReturns \/ PrometheusReturns \/ SqlReturns \/ UncountedReturns
  BY <1>1, <1>6, AnsweredInv DEF SearchReturns, PrometheusReturns, SqlReturns, UncountedReturns
<1>7. CASE RedisXaddReturns \/ RedisPublishReturns \/ AmqpConfirms \/ RdkafkaReturns
           \/ RskafkaReturns
  BY <1>1, <1>7, AnsweredInv DEF RedisXaddReturns, RedisPublishReturns, AmqpConfirms,
                                  RdkafkaReturns, RskafkaReturns
<1> QED
  BY <1>2, <1>3, <1>4, <1>5, <1>6, <1>7 DEF Returns
-----------------------------------------------------------------------------
(* The start of a call *)

\* A call has its requests in hand, or was refused before the first one.
Starts(name, items, first, requests) ==
  /\ stage = "idle" /\ op' = name /\ input' = items /\ exists' \in BOOLEAN
  /\ \/ stage' = first /\ queue' = requests /\ outcome' = outcome
     \/ stage' = "over" /\ queue' = <<>> /\ outcome' = Definite
  /\ UNCHANGED <<wire, repeats, effects, answer, produced, possible_write>>

\* Two requests whose parts are in the order of the input, within a partition.
Apart(name, items, r, s) ==
  \A i \in DOMAIN r, j \in DOMAIN s :
    \/ r[i] < s[j]
    \/ /\ name = "rskafka_produce" /\ r[i] \in DOMAIN items /\ s[j] \in DOMAIN items
       /\ items[r[i]].mark # items[s[j]].mark

Sorted(name, items, requests) ==
  /\ requests \in Requests
  /\ \A n \in DOMAIN requests :
       /\ Len(requests[n]) <= MaxInput
       /\ \A i, j \in DOMAIN requests[n] : i < j => requests[n][i] < requests[n][j]
  /\ \A m, n \in DOMAIN requests : m < n => Apart(name, items, requests[m], requests[n])

\* Sorted requests are a plan, and nothing has happened yet.
LEMMA StartInv ==
  ASSUME IInv, NEW name, NEW items \in Inputs, NEW requests, Sorted(name, items, requests),
         NEW first \in {"send", "connect", "metadata"}, Starts(name, items, first, requests),
         name \in Conditional => Len(requests) <= 1,
         first = "metadata" => requests # <<>> /\ name \in Repeating
  PROVE  IInv' /\ Begins
<1> USE DEF Starts
<1>1. /\ wire = <<>> /\ effects = <<>> /\ outcome.kind = "none" /\ ~possible_write
      /\ answer = Nothing /\ wire' = <<>> /\ effects' = <<>> /\ answer' = Nothing
      /\ possible_write' = possible_write
  BY DEF IInv, StageInv, AnswerInv, OutcomeInv, CallType
<1>2. CallType'
  BY DEF IInv, CallType, Stages, Kinds
<1>3. queue' \in Requests
  <2>1. <<>> \in Requests
    BY DEF Requests
  <2> QED
    BY <2>1 DEF Sorted
<1>4. RequestType'
  BY <1>1, <1>3 DEF IInv, RequestType, Requests, Parts
<1>5. (StageInv /\ AnswerInv /\ OutcomeInv)'
  <2>1. CASE stage' = first /\ queue' = requests /\ outcome' = outcome
    BY <1>1, <2>1 DEF StageInv, AnswerInv, OutcomeInv
  <2>2. CASE stage' = "over" /\ queue' = <<>> /\ outcome' = Definite
    BY <1>1, <2>2 DEF StageInv, AnswerInv, OutcomeInv
  <2> QED
    BY <2>1, <2>2
<1>6. ConditionInv'
  <2>1. Len(queue') \in Nat /\ Len(wire') = 0 /\ (name \in Conditional => Len(queue') <= 1)
    BY <1>1, <1>3 DEF Requests
  <2> QED
    BY <1>1, <2>1 DEF ConditionInv
<1>7. Plan(Lane', name, <<>>, <<>>, requests)
  <2>1. \A part \in DOMAIN items : part \in Parts
    BY MutationAssumption DEF Inputs, Parts
  <2>2. \A a, b \in DOMAIN items :
          name = "rskafka_produce" /\ items[a].mark # items[b].mark => Lane'[a] # Lane'[b]
    BY <2>1 DEF Lane, Parts
  <2>3. ASSUME NEW n \in DOMAIN requests PROVE Planned(Lane', name, <<>>, requests[n])
    BY <2>3 DEF Sorted, Planned, Chain, Follows, Precedes
  <2>4. ASSUME NEW m \in DOMAIN requests, NEW n \in DOMAIN requests, m < n
        PROVE  Before(Lane', requests[m], requests[n])
    BY <2>2, <2>4 DEF Sorted, Apart, Before, Precedes
  <2> QED
    BY <2>3, <2>4 DEF Plan
<1>8. PlanInv' /\ OrderInv'
  <2>1. Plan(Lane', name, <<>>, <<>>, queue')
    BY <1>7 DEF Plan
  <2> QED
    BY <1>1, <2>1 DEF PlanInv, OrderInv, Ordered
<1>9. Begins
  BY <1>1 DEF Begins
<1> QED
  BY <1>2, <1>4, <1>5, <1>6, <1>8, <1>9 DEF IInv

\* The embedded method without a budget.
LEMMA EmptyInv ==
  ASSUME IInv, NEW name, CallEmpty(name)
  PROVE  IInv' /\ Begins
<1> USE DEF CallEmpty
<1>1. /\ wire = <<>> /\ effects = <<>> /\ queue = <<>> /\ outcome.kind = "none"
      /\ UNCHANGED <<input, exists, queue, wire, repeats, effects, answer, produced, possible_write>>
      /\ stage' = "over" /\ outcome' = Ok(0)
  BY DEF IInv, StageInv, OutcomeInv, CallType
<1>2. CallType' /\ RequestType'
  BY <1>1 DEF IInv, CallType, RequestType, Stages, Kinds
<1>3. (StageInv /\ AnswerInv /\ OutcomeInv)'
  BY <1>1 DEF IInv, StageInv, AnswerInv, OutcomeInv
<1>4. ConditionInv' /\ PlanInv' /\ OrderInv'
  BY <1>1 DEF ConditionInv, PlanInv, OrderInv, Plan, Ordered
<1>5. Begins
  BY <1>1 DEF Begins
<1> QED
  BY <1>2, <1>3, <1>4, <1>5 DEF IInv

\* An input is a sequence of at most MaxInput items.
LEMMA InputLength ==
  ASSUME NEW items \in Inputs
  PROVE  /\ items \in Seq(ItemKinds) /\ DOMAIN items = 1..Len(items)
         /\ Len(items) \in 0..MaxInput /\ DOMAIN items \subseteq Parts
  BY MutationAssumption DEF Inputs, Parts

\* A request or a list of requests with one element.
LEMMA OneElement ==
  ASSUME NEW x
  PROVE  Len(<<x>>) = 1 /\ DOMAIN <<x>> = {1} /\ <<x>>[1] = x
  OBVIOUS

\* One request is a plan by itself.
LEMMA LoneRequest ==
  ASSUME NEW name, NEW items, NEW r \in Seq(Parts), Len(r) <= MaxInput,
         \A i, j \in DOMAIN r : i < j => r[i] < r[j]
  PROVE  Sorted(name, items, <<r>>) /\ Len(<<r>>) = 1
<1>1. <<r>> \in Requests
  BY DEF Requests
<1>2. \A n \in DOMAIN <<r>> : n = 1 /\ <<r>>[n] = r
  BY OneElement
<1> HIDE DEF Requests
<1>3. Sorted(name, items, <<r>>)
  BY <1>1, <1>2 DEF Sorted
<1> QED
  BY <1>3, OneElement

\* One request, for the input as a whole or for all of its items.
LEMMA OneRequest ==
  ASSUME NEW name, NEW items \in Inputs
  PROVE  /\ Sorted(name, items, <<One>>) /\ Sorted(name, items, <<Whole(items)>>)
         /\ Len(<<One>>) = 1 /\ Len(<<Whole(items)>>) = 1
<1>1. /\ One \in Seq(Parts) /\ Len(One) <= MaxInput
      /\ \A i, j \in DOMAIN One : i < j => One[i] < One[j]
  BY MutationAssumption DEF One, Parts
<1>2. Whole(items) \in Seq(Parts) /\ Len(Whole(items)) = Len(items)
      /\ \A i \in DOMAIN Whole(items) : Whole(items)[i] = i
  BY InputLength DEF Whole
<1>3. Len(Whole(items)) <= MaxInput
  BY <1>2, InputLength, MutationAssumption
<1> QED
  BY <1>1, <1>2, <1>3, LoneRequest

\* One request for each item.
LEMMA SingleRequests ==
  ASSUME NEW name, NEW items \in Inputs
  PROVE  /\ Sorted(name, items, Singles(items))
         /\ Singles(items) \in Requests /\ Len(Singles(items)) = Len(items)
         /\ \A n \in 1..Len(items) : Singles(items)[n] = <<n>>
<1>1. /\ Singles(items) = [n \in 1..Len(items) |-> <<n>>] /\ Len(items) \in Nat
  BY InputLength DEF Singles
<1>2. \A n \in 1..Len(items) : <<n>> \in Seq(Parts)
  <2>1. ASSUME NEW n \in 1..Len(items) PROVE <<n>> \in Seq(Parts)
    <3>1. n \in Parts
      BY <2>1, InputLength
    <3> QED
      BY <3>1
  <2> QED
    BY <2>1
<1>3. Singles(items) \in Requests /\ Len(Singles(items)) = Len(items)
  BY <1>1, <1>2 DEF Requests
<1>4. \A n \in DOMAIN Singles(items) : n \in 1..Len(items) /\ Singles(items)[n] = <<n>>
  BY <1>1
<1>5. Sorted(name, items, Singles(items))
  <2>1. ASSUME NEW n \in DOMAIN Singles(items)
        PROVE  /\ Len(Singles(items)[n]) <= MaxInput
               /\ \A i, j \in DOMAIN Singles(items)[n] : i < j => Singles(items)[n][i] < Singles(items)[n][j]
    <3>1. /\ Len(Singles(items)[n]) = 1 /\ DOMAIN Singles(items)[n] = {1}
      BY <1>4, OneElement
    <3> QED
      BY <3>1, MutationAssumption
  <2>2. ASSUME NEW m \in DOMAIN Singles(items), NEW n \in DOMAIN Singles(items), m < n,
               NEW i \in DOMAIN Singles(items)[m], NEW j \in DOMAIN Singles(items)[n]
        PROVE  Singles(items)[m][i] < Singles(items)[n][j]
    <3>1. /\ Singles(items)[m] = <<m>> /\ Singles(items)[n] = <<n>>
      BY <1>4
    <3>2. i = 1 /\ j = 1 /\ <<m>>[1] = m /\ <<n>>[1] = n
      BY <2>2, <3>1, OneElement
    <3> QED
      BY <2>2, <3>1, <3>2
  <2> QED
    BY <1>3, <2>1, <2>2 DEF Sorted, Apart
<1> QED
  BY <1>1, <1>3, <1>5

\* Sorted requests behind sorted requests.
LEMMA SortedConcat ==
  ASSUME NEW name, NEW items, NEW first, NEW then,
         Sorted(name, items, first), Sorted(name, items, then),
         \A m \in DOMAIN first, n \in DOMAIN then : Apart(name, items, first[m], then[n])
  PROVE  Sorted(name, items, first \o then)
<1> DEFINE all == first \o then
           k == Len(first)
<1>1. /\ first \in Requests /\ then \in Requests
  BY DEF Sorted
<1>2. /\ all \in Requests /\ k \in Nat
      /\ \A n \in DOMAIN all :
           \/ n \in DOMAIN first /\ n <= k /\ all[n] = first[n]
           \/ n > k /\ n - k \in DOMAIN then /\ all[n] = then[n - k]
  BY <1>1 DEF Requests
<1>3. \A m, n \in DOMAIN all : m \in Nat /\ n \in Nat
  BY <1>2 DEF Requests
<1> HIDE DEF all, k
<1>4. \A n \in DOMAIN all :
        /\ Len(all[n]) <= MaxInput
        /\ \A i, j \in DOMAIN all[n] : i < j => all[n][i] < all[n][j]
  BY <1>2 DEF Sorted
<1>5. ASSUME NEW m \in DOMAIN all, NEW n \in DOMAIN all, m < n
      PROVE  Apart(name, items, all[m], all[n])
  <2>1. CASE n \in DOMAIN first /\ n <= k /\ all[n] = first[n]
    <3>1. m \in DOMAIN first /\ all[m] = first[m]
      BY <1>2, <1>3, <1>5, <2>1
    <3> QED
      BY <1>5, <2>1, <3>1 DEF Sorted
  <2>2. CASE n > k /\ n - k \in DOMAIN then /\ all[n] = then[n - k]
    <3>1. CASE m \in DOMAIN first /\ all[m] = first[m]
      BY <2>2, <3>1
    <3>2. CASE m > k /\ m - k \in DOMAIN then /\ all[m] = then[m - k]
      <4>1. m - k < n - k
        BY <1>2, <1>3, <1>5
      <4> QED
        BY <2>2, <3>2, <4>1 DEF Sorted
    <3> QED
      BY <1>2, <1>5, <3>1, <3>2
  <2> QED
    BY <1>2, <1>5, <2>1, <2>2
<1>6. Sorted(name, items, all)
  BY <1>2, <1>4, <1>5 DEF Sorted
<1> QED
  BY <1>6 DEF all

\* The elements of a sequence, and a function that is one.
LEMMA SequenceElements ==
  ASSUME NEW S
  PROVE  /\ \A r \in Seq(S) : \A j \in DOMAIN r : r[j] \in S
         /\ \A n \in Nat : \A f \in [1..n -> S] : f \in Seq(S) /\ Len(f) = n
  OBVIOUS

\* The queue or topic comes before all items.
LEMMA CreateFirst ==
  ASSUME NEW name, NEW items, NEW r \in Seq(1..MaxInput)
  PROVE  Apart(name, items, Create, r) /\ Apart(name, items, <<>>, r) /\ Apart(name, items, Create, <<>>)
<1>1. \A i \in DOMAIN Create : Create[i] = 0
  BY OneElement DEF Create
<1>2. \A j \in DOMAIN r : r[j] \in 1..MaxInput
  BY SequenceElements
<1>3. \A j \in DOMAIN r : 0 < r[j]
  BY <1>2, MutationAssumption
<1> QED
  BY <1>1, <1>3 DEF Apart

\* The requests of AMQP and Kafka: the queue or topic, the confirms of AMQP, the messages.
LEMMA CreatedRequests ==
  ASSUME NEW name, NEW items \in Inputs
  PROVE  /\ Sorted(name, items, <<Create>>) /\ <<Create>> \o Singles(items) # <<>>
         /\ Sorted(name, items, <<Create>> \o Singles(items))
         /\ Sorted(name, items, <<Create, <<>>>> \o Singles(items))
<1>1. Sorted(name, items, <<Create>>)
  <2>1. Create \in Seq(Parts) /\ Len(Create) <= MaxInput
        /\ \A i, j \in DOMAIN Create : i < j => Create[i] < Create[j]
    BY MutationAssumption DEF Create, Parts
  <2> QED
    BY <2>1, LoneRequest
<1>2. Sorted(name, items, Singles(items)) /\ Singles(items) \in Requests
      /\ Len(Singles(items)) = Len(items)
  BY SingleRequests
<1>3. \A n \in DOMAIN Singles(items) : Singles(items)[n] \in Seq(1..MaxInput)
  <2>1. ASSUME NEW n \in DOMAIN Singles(items) PROVE Singles(items)[n] \in Seq(1..MaxInput)
    <3>1. n \in 1..Len(items)
      BY <1>2, <2>1 DEF Requests
    <3>2. Singles(items)[n] = <<n>>
      BY <3>1, SingleRequests
    <3>3. Len(items) \in Nat /\ Len(items) <= MaxInput /\ MaxInput \in Nat
      BY InputLength, MutationAssumption
    <3>4. n \in 1..MaxInput
      BY <3>1, <3>3
    <3> QED
      BY <3>2, <3>4
  <2> QED
    BY <2>1
<1>4. Sorted(name, items, <<Create>> \o Singles(items))
  <2>1. \A m \in DOMAIN <<Create>> : <<Create>>[m] = Create
    BY OneElement
  <2>2. \A m \in DOMAIN <<Create>>, n \in DOMAIN Singles(items) :
          Apart(name, items, <<Create>>[m], Singles(items)[n])
    BY <1>3, <2>1, CreateFirst
  <2> QED
    BY <1>1, <1>2, <2>2, SortedConcat
<1>5. Sorted(name, items, <<Create, <<>>>>)
  <2>1. <<Create, <<>>>> = <<Create>> \o <<<<>>>>
    OBVIOUS
  <2>2. Sorted(name, items, <<<<>>>>)
    <3>1. <<>> \in Seq(Parts) /\ Len(<<>>) <= MaxInput
          /\ \A i, j \in DOMAIN <<>> : i < j => <<>>[i] < <<>>[j]
      BY MutationAssumption
    <3> QED
      BY <3>1, LoneRequest
  <2>3. \A m \in DOMAIN <<Create>>, n \in DOMAIN <<<<>>>> :
          Apart(name, items, <<Create>>[m], <<<<>>>>[n])
    <3>1. (\A m \in DOMAIN <<Create>> : <<Create>>[m] = Create)
          /\ \A n \in DOMAIN <<<<>>>> : <<<<>>>>[n] = <<>>
      BY OneElement
    <3>2. <<>> \in Seq(1..MaxInput)
      OBVIOUS
    <3> QED
      BY <3>1, <3>2, CreateFirst
  <2> QED
    BY <1>1, <2>1, <2>2, <2>3, SortedConcat
<1>6. Sorted(name, items, <<Create, <<>>>> \o Singles(items))
  <2>1. \A m \in DOMAIN <<Create, <<>>>> : <<Create, <<>>>>[m] \in {Create, <<>>}
    OBVIOUS
  <2>2. \A m \in DOMAIN <<Create, <<>>>>, n \in DOMAIN Singles(items) :
          Apart(name, items, <<Create, <<>>>>[m], Singles(items)[n])
    BY <1>3, <2>1, CreateFirst
  <2> QED
    BY <1>2, <1>5, <2>2, SortedConcat
<1>7. <<Create>> \o Singles(items) # <<>>
  <2>1. <<Create>> \in Requests
    BY <1>1 DEF Sorted
  <2> QED
    BY <1>2, <2>1 DEF Requests
<1> QED
  BY <1>1, <1>4, <1>6, <1>7

\* The requests of rskafka: the topic, and one for each partition that has records.
LEMMA PartitionRequests ==
  ASSUME NEW items \in Inputs,
         NEW zero \in InPartition(items, 0), NEW one \in InPartition(items, 1)
  PROVE  /\ Sorted("rskafka_produce", items, <<Create>> \o NonEmpty(zero) \o NonEmpty(one))
         /\ <<Create>> \o NonEmpty(zero) \o NonEmpty(one) # <<>>
<1> DEFINE name == "rskafka_produce"
<1>1. ASSUME NEW p, NEW records \in InPartition(items, p)
      PROVE  /\ records \in Seq(1..MaxInput) /\ records \in Seq(Parts)
             /\ Sorted(name, items, NonEmpty(records))
             /\ \A n \in DOMAIN NonEmpty(records) : NonEmpty(records)[n] = records
             /\ \A i \in DOMAIN records : records[i] \in DOMAIN items /\ items[records[i]].mark = p
  <2>1. PICK n \in 0..MaxInput : /\ records \in [1..n -> DOMAIN items]
                                 /\ \A i, j \in 1..n : i < j => records[i] < records[j]
    BY <1>1 DEF InPartition, Ascending
  <2>2. n \in Nat /\ n <= MaxInput /\ DOMAIN items \subseteq 1..MaxInput /\ DOMAIN items \subseteq Parts
    BY InputLength, MutationAssumption
  <2>3. records \in Seq(1..MaxInput) /\ records \in Seq(Parts) /\ Len(records) = n
    <3>1. records \in [1..n -> 1..MaxInput] /\ records \in [1..n -> Parts]
      BY <2>1, <2>2
    <3> QED
      BY <2>2, <3>1, SequenceElements
  <2>4. \A i \in DOMAIN records : records[i] \in DOMAIN items /\ items[records[i]].mark = p
    <3>1. \A i \in DOMAIN records : records[i] \in Range(records)
      BY DEF Range
    <3>2. Range(records) = {i \in DOMAIN items : items[i].mark = p}
      BY <1>1 DEF InPartition
    <3> QED
      BY <3>1, <3>2
  <2>5. CASE records = <<>>
    <3>1. NonEmpty(records) = <<>>
      BY <2>5 DEF NonEmpty
    <3>2. Sorted(name, items, <<>>)
      BY DEF Sorted, Requests
    <3> QED
      BY <2>3, <2>4, <3>1, <3>2
  <2>6. CASE records # <<>>
    <3>1. NonEmpty(records) = <<records>>
      BY <2>6 DEF NonEmpty
    <3>2. Sorted(name, items, <<records>>)
      BY <2>1, <2>2, <2>3, LoneRequest
    <3> QED
      BY <2>3, <2>4, <3>1, <3>2, OneElement
  <2> QED
    BY <2>5, <2>6
<1> HIDE DEF name
<1>2. /\ zero \in Seq(1..MaxInput) /\ Sorted(name, items, NonEmpty(zero))
      /\ \A n \in DOMAIN NonEmpty(zero) : NonEmpty(zero)[n] = zero
      /\ \A i \in DOMAIN zero : zero[i] \in DOMAIN items /\ items[zero[i]].mark = 0
  BY <1>1
<1>3. /\ one \in Seq(1..MaxInput) /\ Sorted(name, items, NonEmpty(one))
      /\ \A n \in DOMAIN NonEmpty(one) : NonEmpty(one)[n] = one
      /\ \A i \in DOMAIN one : one[i] \in DOMAIN items /\ items[one[i]].mark = 1
  BY <1>1
<1>4. Sorted(name, items, <<Create>>) /\ \A m \in DOMAIN <<Create>> : <<Create>>[m] = Create
  BY CreatedRequests, OneElement
<1> DEFINE two == <<Create>> \o NonEmpty(zero)
<1>5. Sorted(name, items, two)
  <2>1. \A m \in DOMAIN <<Create>>, n \in DOMAIN NonEmpty(zero) :
          Apart(name, items, <<Create>>[m], NonEmpty(zero)[n])
    BY <1>2, <1>4, CreateFirst
  <2> QED
    BY <1>2, <1>4, <2>1, SortedConcat
<1>6. \A m \in DOMAIN two : two[m] \in {Create, zero}
  <2>1. <<Create>> \in Requests /\ NonEmpty(zero) \in Requests
    BY <1>2, <1>4 DEF Sorted
  <2>2. \A m \in DOMAIN two : \/ m \in DOMAIN <<Create>> /\ two[m] = <<Create>>[m]
                              \/ m - 1 \in DOMAIN NonEmpty(zero) /\ two[m] = NonEmpty(zero)[m - 1]
    BY <2>1 DEF Requests
  <2> HIDE DEF two
  <2> QED
    BY <1>2, <1>4, <2>2
<1>7. Apart(name, items, zero, one)
  BY <1>2, <1>3 DEF Apart, name
<1>8. Apart(name, items, Create, one)
  BY <1>3, CreateFirst
<1>9. two \in Requests /\ NonEmpty(one) \in Requests /\ two # <<>>
  <2>1. <<Create>> \in Requests /\ NonEmpty(zero) \in Requests
    BY <1>2, <1>4 DEF Sorted
  <2>2. two # <<>>
    BY <2>1 DEF Requests
  <2> QED
    BY <1>3, <1>5, <2>2 DEF Sorted
<1> HIDE DEF two
<1>10. \A m \in DOMAIN two, n \in DOMAIN NonEmpty(one) : Apart(name, items, two[m], NonEmpty(one)[n])
  BY <1>3, <1>6, <1>7, <1>8
<1>11. Sorted(name, items, two \o NonEmpty(one))
  BY <1>3, <1>5, <1>10, SortedConcat
<1>12. two \o NonEmpty(one) # <<>>
  BY <1>9 DEF Requests
<1> QED
  BY <1>11, <1>12 DEF two, name
-----------------------------------------------------------------------------
(* Every step *)

\* A call whose requests are in the order of its input begins.
LEMMA CallInv ==
  ASSUME IInv, NEW name, NEW items \in Inputs, NEW admitted,
         NEW first \in {"send", "connect", "metadata"}, NEW requests,
         Call(name, items, admitted, first, requests), Sorted(name, items, requests),
         name \in Conditional => Len(requests) <= 1,
         first = "metadata" => requests # <<>> /\ name \in Repeating
  PROVE  IInv' /\ Begins
<1>1. Starts(name, items, first, requests)
  BY DEF Call, Starts
<1> QED
  BY <1>1, StartInv

\* A call that sends one request begins.
LEMMA LoneCall ==
  ASSUME IInv, NEW name, NEW items \in Inputs, NEW admitted, NEW first \in {"send", "connect"},
         NEW requests \in {<<One>>, <<Whole(items)>>},
         Call(name, items, admitted, first, requests)
  PROVE  IInv' /\ Begins
<1>1. Sorted(name, items, requests)
  <2>1. Sorted(name, items, <<One>>) /\ Sorted(name, items, <<Whole(items)>>)
    BY OneRequest
  <2> QED
    BY <2>1, Zenon
<1>2. Len(requests) = 1
  <2>1. \A r : requests = <<r>> => Len(requests) = 1
    BY OneElement
  <2> QED
    BY <2>1, Zenon
<1>3. first # "metadata" /\ Len(requests) <= 1
  BY <1>2
<1> QED
  BY <1>1, <1>3, CallInv

\* A write to a store begins.
LEMMA StoreInv ==
  ASSUME IInv, NEW items \in Inputs, Store(items)
  PROVE  IInv' /\ Begins
<1>1. ASSUME NEW nx \in BOOLEAN, RedisSet(items, nx) PROVE IInv' /\ Begins
  BY <1>1, LoneCall DEF RedisSet
<1>2. CASE RedisRestore(items) \/ RedisDelete(items) \/ RedisRaw(items)
  BY <1>2, LoneCall DEF RedisRestore, RedisDelete, RedisRaw
<1>3. CASE MongoInsert(items) \/ MongoUpdate(items) \/ MongoDelete(items)
  BY <1>3, LoneCall DEF MongoInsert, MongoUpdate, MongoDelete
<1>4. CASE MongoAggregateWrite(items) \/ MongoDrop(items)
  BY <1>4, LoneCall DEF MongoAggregateWrite, MongoDrop
<1>5. CASE SearchIndex(items) \/ SearchPut(items) \/ SearchUpdate(items)
  BY <1>5, LoneCall DEF SearchIndex, SearchPut, SearchUpdate, Http
<1>6. CASE SearchDelete(items) \/ SearchDeleteIndex(items) \/ PrometheusWrite(items)
  BY <1>6, LoneCall DEF SearchDelete, SearchDeleteIndex, PrometheusWrite, Http
<1>7. CASE SqliteExecute(items) \/ MySqlExecute(items) \/ PostgresExecute(items)
  BY <1>7, LoneCall DEF SqliteExecute, MySqlExecute, PostgresExecute
<1>8. CASE SqlServerExecute(items) \/ Db2Execute(items)
  BY <1>8, LoneCall DEF SqlServerExecute, Db2Execute
<1>9. CASE CassandraExecute(items) \/ CassandraExecuteCql(items)
  BY <1>9, LoneCall DEF CassandraExecute, CassandraExecuteCql
<1> QED
  BY <1>1, <1>2, <1>3, <1>4, <1>5, <1>6, <1>7, <1>8, <1>9 DEF Store

\* A publication of messages begins.
LEMMA PublishInv ==
  ASSUME IInv, NEW items \in Inputs, Publish(items)
  PROVE  IInv' /\ Begins
<1>1. CASE RedisXadd(items)
  BY <1>1, CallInv, SingleRequests DEF RedisXadd, Conditional
<1>2. CASE RedisPublish(items)
  BY <1>2, CallInv, SingleRequests DEF RedisPublish, Conditional
<1>3. CASE NatsProduce(items)
  BY <1>3, CallInv, SingleRequests DEF NatsProduce, Conditional
<1>4. CASE AmqpProduce(items)
  BY <1>4, CallInv, CreatedRequests DEF AmqpProduce, Conditional
<1>5. CASE RdkafkaProduce(items)
  BY <1>5, CallInv, CreatedRequests DEF RdkafkaProduce, Conditional, Repeating
<1>6. CASE RskafkaProduce(items)
  <2>1. PICK zero \in InPartition(items, 0), one \in InPartition(items, 1) :
          Call("rskafka_produce", items, ValidKafkaProduce(items), "metadata",
               <<Create>> \o NonEmpty(zero) \o NonEmpty(one))
    BY <1>6 DEF RskafkaProduce
  <2>2. /\ Sorted("rskafka_produce", items, <<Create>> \o NonEmpty(zero) \o NonEmpty(one))
        /\ <<Create>> \o NonEmpty(zero) \o NonEmpty(one) # <<>>
    BY PartitionRequests
  <2> QED
    BY <2>1, <2>2, CallInv DEF Conditional, Repeating
<1> QED
  BY <1>1, <1>2, <1>3, <1>4, <1>5, <1>6 DEF Publish

\* Every step keeps the invariant, and is one of three to the caller.
LEMMA NextInv ==
  ASSUME IInv, [MutationNext]_mutationVars
  PROVE  IInv' /\ (Begins \/ Tells \/ Acts)
<1>1. ASSUME NEW items \in Inputs, Store(items) \/ Publish(items) PROVE IInv' /\ Begins
  BY <1>1, StoreInv, PublishInv
<1>2. CASE Embedded
  BY <1>2, EmptyInv DEF Embedded
<1>3. CASE Connect \/ KafkaTopics \/ RskafkaPartition
  BY <1>3, PrepareInv
<1>4. CASE (op # "nats_produce" /\ Send) \/ NatsPublish \/ NatsFlush
  BY <1>4, RequestsInv
<1>5. CASE Returns
  BY <1>5, ReturnsInv
<1>6. CASE Db2WorkerGoesOn \/ MutationDropped
  BY <1>6, WorkerInv, DroppedInv
<1>7. CASE Serve \/ ServeExisting \/ ServeSome \/ ServeNil \/ Refuse
  BY <1>7, ServedInv
<1>8. CASE Repeat
  BY <1>8, RepeatInv
<1>9. CASE Break \/ Lose \/ OthersCreate
  BY <1>9, DisturbedInv
<1>10. CASE UNCHANGED mutationVars
  <2>1. UNCHANGED <<op, input, exists, stage, queue, wire, repeats, effects, answer, produced,
                    possible_write, outcome>>
    BY <1>10 DEF mutationVars
  <2>2. (CallType /\ RequestType /\ StageInv /\ AnswerInv /\ OutcomeInv)'
    BY <2>1 DEF IInv, CallType, RequestType, StageInv, AnswerInv, OutcomeInv
  <2>3. (ConditionInv /\ PlanInv /\ OrderInv)'
    BY <2>1 DEF IInv, ConditionInv, PlanInv, OrderInv, Lane
  <2>4. Tells
    BY <2>1 DEF Tells, request
  <2> QED
    BY <2>2, <2>3, <2>4 DEF IInv
<1>11. MutationNext => \/ \E items \in Inputs : Store(items) \/ Publish(items)
                       \/ Embedded
                       \/ Connect \/ KafkaTopics \/ RskafkaPartition
                       \/ (op # "nats_produce" /\ Send) \/ NatsPublish \/ NatsFlush
                       \/ Returns \/ Db2WorkerGoesOn \/ MutationDropped
                       \/ Serve \/ ServeExisting \/ ServeSome \/ ServeNil \/ Refuse
                       \/ Repeat \/ Break \/ Lose \/ OthersCreate
  BY DEF MutationNext, MutationStep, MutationServer
<1> QED
  BY <1>1, <1>2, <1>3, <1>4, <1>5, <1>6, <1>7, <1>8, <1>9, <1>10, <1>11
-----------------------------------------------------------------------------
\* The invariant holds throughout.
LEMMA AlwaysInv == MutationSpec => []IInv
<1>1. IInv /\ [MutationNext]_mutationVars => IInv'
  BY NextInv
<1> QED
  BY InitInv, <1>1, PTL DEF MutationSpec
-----------------------------------------------------------------------------
(* The contract *)

\* The terms an operation calls under.
Terms == (IF op \in Repeating THEN {"repeats"} ELSE {}) \cup
         (IF op = "nats_produce" THEN {"early"} ELSE {})

\* A mark is one of two.
LEMMA Marks ==
  ASSUME NEW items \in Inputs
  PROVE  \A i \in DOMAIN items : items[i].mark \in {0, 1}
  BY MutationAssumption DEF Inputs

\* The beginning of a call.
LEMMA BeginImplements ==
  ASSUME IInv, IInv', Begins
  PROVE  Contract!Begin
<1>1. \A i \in DOMAIN input' : input'[i].mark \in {0, 1}
  <2>1. input' \in Inputs
    BY DEF IInv, CallType
  <2> QED
    BY <2>1, Marks
<1>2. Lane' \in [Parts -> {0, 1}]
  BY <1>1 DEF Lane, Parts
<1>3. Terms' \in Contract!Terms
  BY DEF Terms, Contract!Terms
<1>4. outcome'.kind \in {"none", "Ok", "Definite"}
  BY DEF IInv, CallType, Kinds, Begins
<1> QED
  BY <1>2, <1>3, <1>4 DEF Begins, Contract!Begin, Lane, Terms, Parts

\* What the caller is told.
LEMMA TellsImplements ==
  ASSUME IInv, IInv', Tells
  PROVE  Contract!Return \/ UNCHANGED Contract!vars
<1>1. UNCHANGED <<Lane, Terms, effects>>
  BY DEF Tells, request, Lane, Terms
<1>2. CASE outcome' = outcome
  BY <1>1, <1>2 DEF Contract!vars, Lane, Terms
<1>3. CASE outcome.kind = "none" /\ outcome'.kind = "none"
  BY <1>1, <1>3 DEF Contract!vars, Lane, Terms
<1>4. CASE outcome.kind = "none" /\ outcome'.kind # "none"
  <2>1. outcome'.kind \in Kinds
    BY DEF IInv, CallType
  <2>2. outcome'.kind = "Definite" => effects = <<>>
    BY <1>1 DEF IInv, OutcomeInv
  <2> QED
    BY <1>1, <1>4, <2>1, <2>2 DEF Contract!Return, Contract!Outcomes, Kinds, Lane, Terms
<1> QED
  BY <1>2, <1>3, <1>4 DEF Tells

\* What is in its order as the invariant says is so as the contract says.
LEMMA OrderIsInOrder ==
  ASSUME NEW done, Ordered(Lane, op, done)
  PROVE  \A i, j \in DOMAIN done : i < j /\ Lane[done[i]] = Lane[done[j]] =>
           \/ done[i] < done[j]
           \/ "repeats" \in Terms /\ \E k \in 1..i : done[k] = done[j]
<1>1. op \in Repeating => "repeats" \in Terms
  BY DEF Terms
<1> QED
  BY <1>1 DEF Ordered, InTurn, Precedes

\* Parts that take effect.
LEMMA ActsImplements ==
  ASSUME IInv, IInv', Acts
  PROVE  \/ \E n \in 1..MaxInput : \E parts \in [1..n -> Parts] : Contract!TakeEffect(parts)
         \/ UNCHANGED Contract!vars
<1>1. PICK parts \in Seq(Parts) : Len(parts) <= MaxInput /\ effects' = effects \o parts
  BY DEF Acts
<1>2. UNCHANGED <<input, op, outcome, Lane, Terms>>
  BY DEF Acts, request, Lane, Terms
<1>3. CASE parts = <<>>
  <2>1. effects' = effects
    BY <1>1, <1>3 DEF IInv, RequestType
  <2> QED
    BY <1>2, <2>1 DEF Contract!vars, Lane, Terms
<1>4. CASE parts # <<>>
  <2>1. Len(parts) \in 1..MaxInput /\ parts \in [1..Len(parts) -> Parts]
    BY <1>1, <1>4, MutationAssumption
  <2>2. Ordered(Lane, op, effects \o parts)
    <3>1. Ordered(Lane', op', effects')
      BY DEF IInv, OrderInv
    <3> QED
      BY <1>1, <1>2, <3>1
  <2>3. Contract!InOrder(effects \o parts)
    BY <2>2, OrderIsInOrder DEF Contract!InOrder, Lane, Terms
  <2>4. outcome.kind \in {"none", "OutcomeIndeterminate"} \/ (outcome.kind = "Ok" /\ "early" \in Terms)
    BY DEF IInv, CallType, Kinds, Acts, Terms
  <2>5. Contract!TakeEffect(parts)
    BY <1>1, <1>2, <2>3, <2>4 DEF Contract!TakeEffect, Lane, Terms
  <2> QED
    BY <2>1, <2>5
<1> QED
  BY <1>3, <1>4

\* Every step is one of the contract, or none.
LEMMA StepImplements ==
  ASSUME IInv, IInv', Begins \/ Tells \/ Acts
  PROVE  [Contract!Next]_Contract!vars
<1>1. CASE Begins
  BY <1>1, BeginImplements DEF Contract!Next
<1>2. CASE Tells
  BY <1>2, TellsImplements DEF Contract!Next
<1>3. CASE Acts
  BY <1>3, ActsImplements DEF Contract!Next, Parts
<1> QED
  BY <1>1, <1>2, <1>3

\* Every adapter implements MutationOutcome, whatever its input and however often a
\* Kafka client repeats a request: parts take effect in their order and once each
\* but for repetitions, a definite error means that nothing was changed and nothing
\* will be, and success leaves nothing to happen.
THEOREM ImplementsMutationOutcome == MutationSpec => OutcomePromise
<1>1. MutationInit => Contract!Init
  <2> SUFFICES ASSUME MutationInit PROVE Contract!Init
    OBVIOUS
  <2>1. Lane = [i \in Parts |-> 0]
    BY DEF MutationInit, Lane, Parts
  <2>2. Terms \in Contract!Terms
    BY DEF Terms, Contract!Terms
  <2> QED
    BY <2>1, <2>2 DEF MutationInit, Contract!Init, Lane, Terms, Parts
<1>2. IInv /\ IInv' /\ [MutationNext]_mutationVars => [Contract!Next]_Contract!vars
  BY NextInv, StepImplements
<1> QED
  BY <1>1, <1>2, AlwaysInv, PTL DEF MutationSpec, OutcomePromise, Contract!Spec
-----------------------------------------------------------------------------
(* Success: the invariant that relates what was counted to what took effect *)

\* Operations that are a success only when every item of their input took effect; all
\* others are one request.
Complete  == {"mongo_insert", "prometheus_write", "redis_xadd", "redis_publish", "amqp_produce",
              "nats_produce"} \cup Repeating
Uncounted == {"cassandra_execute", "db2_execute"}
Singly    == {"redis_xadd", "redis_publish", "nats_produce"}

\* The items of a request, of several, and of those a call still has to be answered.
Ids(parts) == {parts[i] : i \in Items(parts)}
Todo(rest) == UNION {Ids(rest[n]) : n \in DOMAIN rest}
Left(name, sent, next) == IF name = "nats_produce" THEN Todo(next) ELSE Todo(sent) \cup Todo(next)

Admitted(items) ==
  /\ Len(items) <= InputBudget.max_items
  /\ \A i \in DOMAIN items : items[i].valid /\ items[i].bytes <= InputBudget.max_item_bytes
  /\ WholeOf(items) <= InputBudget.max_batch_bytes

\* A message that is sent alone, and the only request of most writes.
Shaped(name, r) == /\ name \in Singly => Len(r) = 1 /\ r[1] # 0
                   /\ name \notin Complete \cup Finders => r = One

\* Nothing is there to be sent, under way or done for an input that is not admitted.
AdmittedInv == queue # <<>> \/ wire # <<>> \/ effects # <<>> => Admitted(input)

\* What the requests look like.
ShapeInv ==
  /\ stage = "idle" => input = <<>> /\ produced = 0
  /\ stage = "metadata" => Ids(Head(queue)) = {}
  /\ \A n \in DOMAIN wire : Shaped(op, wire[n])
  /\ \A n \in DOMAIN queue : Shaped(op, queue[n])

\* So far nothing has gone wrong.
Well == /\ stage \notin {"idle", "over"} \/ outcome.kind = "Ok"
        /\ answer.kind \in {"none", "ok", "exists"}

\* What was counted and what is still to be answered make up the input.
CompleteInv ==
  op \in Complete /\ Well =>
    /\ produced + answer.count + Cardinality(Left(op, wire, queue)) = Len(input)
    /\ op # "nats_produce" => Ids(effects) \cup Left(op, wire, queue) = DOMAIN input
    /\ op \in {"redis_xadd", "redis_publish"} /\ answer.kind # "none" => answer.count = 1

\* What a call that is one request counts when it is a success.
Result(name, done, n) ==
  /\ name \in Uncounted => n = 0 /\ Cardinality(Items(done)) = 1
  /\ name \notin Uncounted => n = Cardinality(Items(done))

\* The only request has not been served while it is there; its answer counts what it did.
LoneInv ==
  op \notin Complete =>
    /\ wire = <<>> \/ queue = <<>>
    /\ Len(wire) <= 1 /\ Len(queue) <= 1
    /\ wire # <<>> \/ queue # <<>> => effects = <<>>
    /\ stage = "await" => queue = <<>>
    /\ outcome.kind # "Ok" => produced = 0
    /\ answer.kind \in {"ok", "nil"} =>
         /\ answer.count = Cardinality(Items(effects))
         /\ op \notin Finders /\ answer.kind = "ok" => effects = One
    /\ outcome.kind = "Ok" => Result(op, effects, produced)

\* The caller is told what was counted.
CountInv == /\ answer.kind = "none" => answer = Nothing
            /\ outcome.kind = "Ok" => outcome.count = produced

CInv == AdmittedInv /\ ShapeInv /\ CompleteInv /\ LoneInv /\ CountInv
-----------------------------------------------------------------------------
(* Counting requests *)

\* The items of a request are positions of the input.
LEMMA IdsOfRequest ==
  ASSUME NEW parts \in Seq(Parts)
  PROVE  /\ Ids(parts) \subseteq 1..MaxInput /\ IsFiniteSet(Ids(parts))
         /\ Items(parts) \subseteq DOMAIN parts /\ IsFiniteSet(Items(parts))
         /\ \A part : part \in Ids(parts) <=> part # 0 /\ \E i \in DOMAIN parts : parts[i] = part
<1>1. \A i \in DOMAIN parts : parts[i] \in Parts
  BY SequenceElements
<1>2. Ids(parts) \subseteq 1..MaxInput
  BY <1>1, MutationAssumption DEF Ids, Items, Parts
<1>3. IsFiniteSet(1..MaxInput) /\ IsFiniteSet(DOMAIN parts)
  <2>1. DOMAIN parts = 1..Len(parts) /\ Len(parts) \in Nat
    OBVIOUS
  <2> QED
    BY <2>1, MutationAssumption, FS_Interval
<1>4. Items(parts) \subseteq DOMAIN parts
  BY DEF Items
<1>5. \A part : part \in Ids(parts) <=> part # 0 /\ \E i \in DOMAIN parts : parts[i] = part
  BY DEF Ids, Items
<1> QED
  BY <1>2, <1>3, <1>4, <1>5, FS_Subset

\* The items of two requests.
LEMMA IdsOfBoth ==
  ASSUME NEW done \in Seq(Parts), NEW parts \in Seq(Parts)
  PROVE  Ids(done \o parts) = Ids(done) \cup Ids(parts)
<1> DEFINE all == done \o parts
           n   == Len(done)
<1>1. /\ all \in Seq(Parts) /\ n \in Nat
      /\ \A i \in DOMAIN done : i \in DOMAIN all /\ all[i] = done[i]
      /\ \A i \in DOMAIN parts : n + i \in DOMAIN all /\ all[n + i] = parts[i]
      /\ \A i \in DOMAIN all : i \in DOMAIN done \/ (n + (i - n) = i /\ i - n \in DOMAIN parts)
  BY EffectsGrow
<1> HIDE DEF all, n
<1>2. ASSUME NEW part PROVE part \in Ids(all) <=> part \in Ids(done) \cup Ids(parts)
  <2>1. /\ part \in Ids(all) <=> part # 0 /\ \E i \in DOMAIN all : all[i] = part
        /\ part \in Ids(done) <=> part # 0 /\ \E i \in DOMAIN done : done[i] = part
        /\ part \in Ids(parts) <=> part # 0 /\ \E i \in DOMAIN parts : parts[i] = part
    BY <1>1, IdsOfRequest
  <2>2. (\E i \in DOMAIN all : all[i] = part) <=>
          (\E i \in DOMAIN done : done[i] = part) \/ (\E i \in DOMAIN parts : parts[i] = part)
    BY <1>1
  <2> QED
    BY <2>1, <2>2, Zenon
<1>3. Ids(all) = Ids(done) \cup Ids(parts)
  BY <1>2
<1> QED
  BY <1>3 DEF all

\* A request without repetition has as many items as positions that are items.
LEMMA IdsCounted ==
  ASSUME NEW parts \in Seq(Parts), \A i, j \in DOMAIN parts : i < j => parts[i] # parts[j]
  PROVE  Cardinality(Items(parts)) = Cardinality(Ids(parts))
<1> DEFINE f == [i \in Items(parts) |-> parts[i]]
<1>1. \A i, j \in DOMAIN parts : i # j => parts[i] # parts[j]
  <2>1. \A i, j \in DOMAIN parts : i \in Nat /\ j \in Nat
    OBVIOUS
  <2> QED
    BY <2>1
<1>2. f \in [Items(parts) -> Ids(parts)]
  BY DEF Ids
<1>3. \A part \in Ids(parts) : \E i \in Items(parts) : f[i] = part
  BY DEF Ids
<1>4. \A i, j \in Items(parts) : f[i] = f[j] => i = j
  BY <1>1 DEF Items
<1>5. f \in Bijection(Items(parts), Ids(parts))
  <2> HIDE DEF f
  <2> QED
    BY <1>2, <1>3, <1>4, Zenon DEF Bijection, Injection, Surjection, IsInjective
<1>6. IsFiniteSet(Items(parts))
  BY IdsOfRequest
<1>7. ExistsBijection(Items(parts), Ids(parts))
  BY <1>5 DEF ExistsBijection
<1> QED
  BY <1>6, <1>7, FS_Bijection

\* A request in the order of its input has no repetitions.
LEMMA ChainCounted ==
  ASSUME NEW lane, NEW r \in Seq(Parts), Chain(lane, r)
  PROVE  Cardinality(Items(r)) = Cardinality(Ids(r))
<1>1. \A i \in DOMAIN r : r[i] \in Nat
  <2>1. \A i \in DOMAIN r : r[i] \in Parts
    BY SequenceElements
  <2> QED
    BY <2>1 DEF Parts
<1>2. \A i, j \in DOMAIN r : i < j => r[i] # r[j]
  BY <1>1 DEF Chain, Precedes
<1> QED
  BY <1>2, IdsCounted

\* A request shares no item with one it comes before.
LEMMA BeforeIsApart ==
  ASSUME NEW lane, NEW r \in Seq(Parts), NEW s \in Seq(Parts), Before(lane, r, s)
  PROVE  Ids(r) \cap Ids(s) = {}
<1> SUFFICES ASSUME NEW part \in Ids(r), part \in Ids(s) PROVE FALSE
  OBVIOUS
<1>1. PICK i \in DOMAIN r : r[i] = part
  BY IdsOfRequest
<1>2. PICK j \in DOMAIN s : s[j] = part
  BY IdsOfRequest
<1>3. part \in Nat
  BY IdsOfRequest
<1> QED
  BY <1>1, <1>2, <1>3 DEF Before, Precedes

\* What several requests have to do.
LEMMA TodoOfRequests ==
  ASSUME NEW rest \in Requests
  PROVE  /\ Todo(rest) \subseteq 1..MaxInput /\ IsFiniteSet(Todo(rest))
         /\ \A n \in DOMAIN rest : Ids(rest[n]) \subseteq Todo(rest)
         /\ rest = <<>> => Todo(rest) = {}
<1>1. \A n \in DOMAIN rest : rest[n] \in Seq(Parts)
  BY SequenceElements DEF Requests
<1>2. \A n \in DOMAIN rest : Ids(rest[n]) \subseteq 1..MaxInput
  BY <1>1, IdsOfRequest
<1>3. Todo(rest) \subseteq 1..MaxInput
  BY <1>2 DEF Todo
<1>4. IsFiniteSet(1..MaxInput)
  BY MutationAssumption, FS_Interval
<1>5. \A n \in DOMAIN rest : Ids(rest[n]) \subseteq Todo(rest)
  BY DEF Todo
<1>6. rest = <<>> => Todo(rest) = {}
  BY DEF Todo
<1> QED
  BY <1>3, <1>4, <1>5, <1>6, FS_Subset

\* The first of several requests, and one more.
LEMMA TodoParts ==
  ASSUME NEW rest \in Requests
  PROVE  /\ rest # <<>> => Todo(rest) = Ids(Head(rest)) \cup Todo(Tail(rest))
         /\ \A r \in Seq(Parts) : Todo(Append(rest, r)) = Todo(rest) \cup Ids(r)
<1>1. ASSUME rest # <<>> PROVE Todo(rest) = Ids(Head(rest)) \cup Todo(Tail(rest))
  <2> DEFINE later == Tail(rest)
  <2>1. /\ Head(rest) = rest[1] /\ 1 \in DOMAIN rest
        /\ \A n \in DOMAIN later : n + 1 \in DOMAIN rest /\ later[n] = rest[n + 1]
    BY <1>1, TailParts
  <2>2. \A n \in DOMAIN rest : n = 1 \/ (n - 1 \in DOMAIN later /\ later[n - 1] = rest[n])
    BY <1>1 DEF Requests
  <2> HIDE DEF later
  <2>3. Todo(rest) = Ids(Head(rest)) \cup Todo(later)
    BY <2>1, <2>2 DEF Todo
  <2> QED
    BY <2>3 DEF later
<1>2. ASSUME NEW r \in Seq(Parts) PROVE Todo(Append(rest, r)) = Todo(rest) \cup Ids(r)
  <2> DEFINE more == Append(rest, r)
             k    == Len(rest) + 1
  <2>1. /\ \A n \in DOMAIN more : (n \in DOMAIN rest /\ more[n] = rest[n]) \/ (n = k /\ more[n] = r)
        /\ \A n \in DOMAIN rest : n \in DOMAIN more /\ more[n] = rest[n]
        /\ k \in DOMAIN more /\ more[k] = r
    BY DEF Requests
  <2> HIDE DEF more, k
  <2>2. Todo(more) = Todo(rest) \cup Ids(r)
    BY <2>1 DEF Todo
  <2> QED
    BY <2>2 DEF more
<1> QED
  BY <1>1, <1>2

\* A request that comes before others adds its items to theirs.
LEMMA TodoCounted ==
  ASSUME NEW lane, NEW r \in Seq(Parts), NEW rest \in Requests, Chain(lane, r),
         \A n \in DOMAIN rest : Before(lane, r, rest[n])
  PROVE  /\ Cardinality(Ids(r) \cup Todo(rest)) = Cardinality(Items(r)) + Cardinality(Todo(rest))
         /\ Cardinality(Todo(rest)) \in Nat /\ Cardinality(Items(r)) \in Nat
<1>1. Ids(r) \cap Todo(rest) = {}
  <2>1. \A n \in DOMAIN rest : rest[n] \in Seq(Parts)
    BY SequenceElements DEF Requests
  <2>2. \A n \in DOMAIN rest : Ids(r) \cap Ids(rest[n]) = {}
    BY <2>1, BeforeIsApart
  <2> QED
    BY <2>2 DEF Todo
<1>2. IsFiniteSet(Ids(r)) /\ IsFiniteSet(Todo(rest)) /\ IsFiniteSet(Items(r))
  BY IdsOfRequest, TodoOfRequests
<1>3. Cardinality(Ids(r)) \in Nat /\ Cardinality(Todo(rest)) \in Nat /\ Cardinality(Items(r)) \in Nat
  BY <1>2, FS_CardinalityType
<1>4. Cardinality(Ids(r) \cup Todo(rest)) =
        Cardinality(Ids(r)) + Cardinality(Todo(rest)) - Cardinality(Ids(r) \cap Todo(rest))
  BY <1>2, FS_Union
<1>5. Cardinality(Ids(r) \cap Todo(rest)) = 0
  BY <1>1, FS_EmptySet
<1>6. Cardinality(Items(r)) = Cardinality(Ids(r))
  BY ChainCounted
<1> QED
  BY <1>3, <1>4, <1>5, <1>6
-----------------------------------------------------------------------------
(* What every step does to the count *)

\* What is under way and what was counted.
LEMMA Counted ==
  ASSUME IInv
  PROVE  /\ wire \in Requests /\ queue \in Requests /\ effects \in Seq(Parts) /\ input \in Inputs
         /\ produced \in Nat /\ answer.count \in Nat /\ Len(wire) \in Nat /\ Len(queue) \in Nat
         /\ wire = <<>> <=> Len(wire) = 0
         /\ queue = <<>> <=> Len(queue) = 0
         /\ Cardinality(Items(effects)) \in Nat /\ Cardinality(Left(op, wire, queue)) \in Nat
<1>1. wire \in Requests /\ queue \in Requests /\ effects \in Seq(Parts) /\ input \in Inputs
  BY DEF IInv, CallType, RequestType, Requests, Parts
<1>2. produced \in Nat /\ answer.count \in Nat
  BY DEF IInv, CallType
<1>3. /\ Len(wire) \in Nat /\ Len(queue) \in Nat
      /\ wire = <<>> <=> Len(wire) = 0
      /\ queue = <<>> <=> Len(queue) = 0
  BY <1>1 DEF Requests
<1>4. IsFiniteSet(Items(effects)) /\ IsFiniteSet(Left(op, wire, queue))
  <2>1. IsFiniteSet(Todo(wire)) /\ IsFiniteSet(Todo(queue))
    BY <1>1, TodoOfRequests
  <2> QED
    BY <1>1, <2>1, IdsOfRequest, FS_Union DEF Left
<1> QED
  BY <1>1, <1>2, <1>3, <1>4, FS_CardinalityType

\* A call is over without success.
LEMMA FinishCounts ==
  ASSUME IInv, CInv, stage \notin {"idle", "over"}, NEW result, Finish(result), result.kind # "Ok"
  PROVE  CInv'
<1> USE DEF Finish, request, remote
<1>1. outcome.kind = "none" /\ Len(queue') = 0
  BY DEF IInv, OutcomeInv
<1>2. (AdmittedInv /\ ShapeInv /\ CountInv)'
  BY DEF CInv, AdmittedInv, ShapeInv, CountInv
<1>3. CompleteInv'
  BY DEF CompleteInv, Well
<1>4. LoneInv'
  BY <1>1, Counted DEF CInv, LoneInv
<1> QED
  BY <1>2, <1>3, <1>4 DEF CInv

\* An answer that counts what its request did.
LEMMA GoOnCounts ==
  ASSUME IInv, CInv, stage = "await", answer.kind \in {"ok", "nil", "exists"},
         NEW n \in Nat, NEW next \in {"send", "partition"}, GoOn(n, next),
         op \in Complete => answer.kind # "nil" /\ n = answer.count,
         op \notin Complete => Result(op, effects, n)
  PROVE  CInv'
<1> USE DEF GoOn, request, remote
<1>1. outcome.kind = "none"
  BY DEF IInv, OutcomeInv
<1>2. (AdmittedInv /\ ShapeInv)'
  BY DEF CInv, AdmittedInv, ShapeInv
<1>3. CompleteInv'
  <2>1. op \in Complete => Well /\ n = answer.count
    BY DEF Well
  <2>2. op \in Complete => produced' + answer'.count = produced + answer.count /\ answer'.kind = "none"
    BY <2>1, Counted
  <2>3. UNCHANGED <<op, input, wire, queue, effects>>
    OBVIOUS
  <2> QED
    BY <2>1, <2>2, <2>3 DEF CInv, CompleteInv
<1>4. op \notin Complete => produced = 0 /\ queue = <<>>
  BY <1>1 DEF CInv, LoneInv
<1>5. LoneInv'
  <2>1. op \notin Complete => produced' = n /\ outcome'.kind = "Ok" /\ stage' = "over"
    BY <1>4
  <2> QED
    BY <2>1 DEF CInv, LoneInv
<1>6. CountInv'
  BY <1>1 DEF CountInv
<1> QED
  BY <1>2, <1>3, <1>5, <1>6 DEF CInv

\* Requests lose their first one, or get one more.
LEMMA ShapedParts ==
  ASSUME NEW name, NEW rest \in Requests, \A n \in DOMAIN rest : Shaped(name, rest[n])
  PROVE  /\ rest # <<>> => /\ Shaped(name, Head(rest)) /\ Head(rest) \in Seq(Parts)
                           /\ \A n \in DOMAIN Tail(rest) : Shaped(name, Tail(rest)[n])
         /\ \A r \in Seq(Parts) :
              Shaped(name, r) => \A n \in DOMAIN Append(rest, r) : Shaped(name, Append(rest, r)[n])
<1>1. ASSUME rest # <<>>
      PROVE  /\ Shaped(name, Head(rest)) /\ Head(rest) \in Seq(Parts)
             /\ \A n \in DOMAIN Tail(rest) : Shaped(name, Tail(rest)[n])
  <2>1. /\ Head(rest) = rest[1] /\ 1 \in DOMAIN rest
        /\ \A n \in DOMAIN Tail(rest) : n + 1 \in DOMAIN rest /\ Tail(rest)[n] = rest[n + 1]
    BY <1>1, TailParts
  <2>2. rest[1] \in Seq(Parts)
    BY <2>1, SequenceElements DEF Requests
  <2> QED
    BY <2>1, <2>2
<1>2. ASSUME NEW r \in Seq(Parts), Shaped(name, r)
      PROVE  \A n \in DOMAIN Append(rest, r) : Shaped(name, Append(rest, r)[n])
  <2>1. \A n \in DOMAIN Append(rest, r) :
          (n \in DOMAIN rest /\ Append(rest, r)[n] = rest[n]) \/ Append(rest, r)[n] = r
    BY DEF Requests
  <2> QED
    BY <1>2, <2>1
<1> QED
  BY <1>1, <1>2

\* A message that is sent alone is one item.
LEMMA SingleItem ==
  ASSUME NEW r \in Seq(Parts), Len(r) = 1, r[1] # 0
  PROVE  Cardinality(Items(r)) = 1
<1>1. Items(r) = {1}
  BY DEF Items
<1> QED
  BY <1>1, FS_Singleton

\* The first request that is under way, or that is next, and the others.
LEMMA FirstCounted ==
  ASSUME IInv
  PROVE  /\ wire # <<>> => /\ Head(wire) \in Seq(Parts) /\ Chain(Lane, Head(wire))
                           /\ \A n \in DOMAIN queue : Before(Lane, Head(wire), queue[n])
         /\ queue # <<>> => /\ Head(queue) \in Seq(Parts) /\ Chain(Lane, Head(queue))
                            /\ \A n \in DOMAIN Tail(queue) : Before(Lane, Head(queue), Tail(queue)[n])
<1>1. wire \in Requests /\ queue \in Requests /\ Plan(Lane, op, effects, wire, queue)
  BY Counted DEF IInv, PlanInv
<1>2. ASSUME wire # <<>>
      PROVE  /\ Head(wire) \in Seq(Parts) /\ Chain(Lane, Head(wire))
             /\ \A n \in DOMAIN queue : Before(Lane, Head(wire), queue[n])
  <2>1. Head(wire) = wire[1] /\ 1 \in DOMAIN wire
    BY <1>1, <1>2, TailParts
  <2>2. wire[1] \in Seq(Parts)
    BY <1>1, <2>1, SequenceElements DEF Requests
  <2> QED
    BY <1>1, <2>1, <2>2 DEF Plan, Planned
<1>3. ASSUME queue # <<>>
      PROVE  /\ Head(queue) \in Seq(Parts) /\ Chain(Lane, Head(queue))
             /\ \A n \in DOMAIN Tail(queue) : Before(Lane, Head(queue), Tail(queue)[n])
  <2>1. /\ Head(queue) = queue[1] /\ 1 \in DOMAIN queue
        /\ \A n \in DOMAIN Tail(queue) : n + 1 \in DOMAIN queue /\ 1 < n + 1 /\ Tail(queue)[n] = queue[n + 1]
    BY <1>1, <1>3, TailParts
  <2>2. queue[1] \in Seq(Parts)
    BY <1>1, <2>1, SequenceElements DEF Requests
  <2> QED
    BY <1>1, <2>1, <2>2 DEF Plan, Planned
<1> QED
  BY <1>2, <1>3

\* The next request leaves; NATS counts it at once.
LEMMA SendCounts ==
  ASSUME IInv, CInv, stage = "send", queue # <<>>, UNCHANGED <<request, remote, answer, outcome>>,
         wire' = Append(wire, Head(queue)), queue' = Tail(queue),
         IF op = "nats_produce" THEN stage' = "send" /\ produced' = produced + 1
                                ELSE stage' = "await" /\ produced' = produced
  PROVE  CInv'
<1> USE DEF request, remote
<1>1. /\ outcome.kind = "none" /\ answer = Nothing
      /\ UNCHANGED <<op, input, effects, answer, outcome>>
  BY DEF IInv, OutcomeInv, AnswerInv
<1>2. /\ wire \in Requests /\ queue \in Requests /\ Len(wire) \in Nat /\ Len(queue) \in Nat
      /\ Len(wire') = Len(wire) + 1 /\ Len(queue') = Len(queue) - 1
      /\ queue' \in Requests /\ (Len(queue') = 0 => queue' = <<>>)
      /\ Head(queue) \in Seq(Parts)
  <2>1. wire \in Requests /\ queue \in Requests /\ Head(queue) \in Seq(Parts)
    BY Counted, FirstCounted
  <2> QED
    BY <2>1, TailParts DEF Requests
<1>3. AdmittedInv'
  BY <1>1 DEF CInv, AdmittedInv
<1>4. ShapeInv'
  <2>1. /\ \A n \in DOMAIN wire : Shaped(op, wire[n])
        /\ \A n \in DOMAIN queue : Shaped(op, queue[n])
    BY DEF CInv, ShapeInv
  <2>2. /\ \A n \in DOMAIN wire' : Shaped(op, wire'[n])
        /\ \A n \in DOMAIN queue' : Shaped(op, queue'[n])
    BY <1>2, <2>1, ShapedParts
  <2>3. stage' \notin {"idle", "metadata"}
    OBVIOUS
  <2> QED
    BY <1>1, <2>2, <2>3 DEF ShapeInv
<1>5. CompleteInv'
  <2>1. CASE op = "nats_produce"
    <3>1. Todo(queue) = Ids(Head(queue)) \cup Todo(queue')
      BY <1>2, TodoParts
    <3>2. Cardinality(Todo(queue)) = Cardinality(Items(Head(queue))) + Cardinality(Todo(queue'))
          /\ Cardinality(Todo(queue')) \in Nat
      BY <1>2, <3>1, FirstCounted, TodoCounted
    <3>3. Cardinality(Items(Head(queue))) = 1
      <4>1. Shaped(op, Head(queue))
        BY <1>2, ShapedParts DEF CInv, ShapeInv
      <4> QED
        BY <1>2, <2>1, <4>1, SingleItem DEF Shaped, Singly
    <3>4. Well
      BY <1>1 DEF Well
    <3>5. produced + answer.count + Cardinality(Todo(queue)) = Len(input)
      BY <2>1, <3>4 DEF CInv, CompleteInv, Complete, Left
    <3>6. produced' + answer'.count + Cardinality(Todo(queue')) = Len(input)
      BY <1>1, <2>1, <3>2, <3>3, <3>5, Counted
    <3> QED
      BY <1>1, <2>1, <3>6 DEF CompleteInv, Left
  <2>2. CASE op # "nats_produce"
    <3>1. /\ Todo(queue) = Ids(Head(queue)) \cup Todo(queue')
          /\ Todo(wire') = Todo(wire) \cup Ids(Head(queue))
      BY <1>2, TodoParts
    <3>2. Left(op', wire', queue') = Left(op, wire, queue)
      BY <1>1, <2>2, <3>1 DEF Left
    <3>3. Well
      BY <1>1 DEF Well
    <3> QED
      BY <1>1, <2>2, <3>2, <3>3 DEF CInv, CompleteInv
  <2> QED
    BY <2>1, <2>2
<1>6. LoneInv'
  <2>1. op = "nats_produce" => op \in Complete
    BY DEF Complete
  <2> QED
    BY <1>1, <1>2, <2>1 DEF CInv, LoneInv
<1>7. CountInv'
  BY <1>1 DEF CountInv
<1> QED
  BY <1>3, <1>4, <1>5, <1>6, <1>7 DEF CInv

\* The call gets ready for its next request.
LEMMA ReadyCounts ==
  ASSUME IInv, CInv, stage \in {"connect", "metadata", "partition"}, stage' \in {"send", "partition"},
         UNCHANGED <<request, remote, wire, answer, produced, possible_write, outcome>>,
         queue' = queue \/ (stage = "metadata" /\ op \in Repeating /\ queue # <<>> /\ queue' = Tail(queue))
  PROVE  CInv'
<1> USE DEF request, remote
<1>1. outcome.kind = "none" /\ answer = Nothing
  BY DEF IInv, OutcomeInv, AnswerInv
<1>2. wire \in Requests /\ queue \in Requests
  BY Counted
<1>3. AdmittedInv'
  BY DEF CInv, AdmittedInv
<1>4. ShapeInv'
  <2>1. /\ \A n \in DOMAIN wire : Shaped(op, wire[n])
        /\ \A n \in DOMAIN queue : Shaped(op, queue[n])
    BY DEF CInv, ShapeInv
  <2>2. \A n \in DOMAIN queue' : Shaped(op, queue'[n])
    BY <1>2, <2>1, ShapedParts
  <2>3. stage' \notin {"idle", "metadata"}
    OBVIOUS
  <2> QED
    BY <2>1, <2>2, <2>3 DEF ShapeInv
<1>5. CompleteInv'
  <2>1. Todo(queue') = Todo(queue)
    <3>1. CASE queue' = queue
      BY <3>1
    <3>2. CASE stage = "metadata" /\ queue # <<>> /\ queue' = Tail(queue)
      <4>1. Ids(Head(queue)) = {}
        BY <3>2 DEF CInv, ShapeInv
      <4> QED
        BY <1>2, <3>2, <4>1, TodoParts
    <3> QED
      BY <3>1, <3>2
  <2>2. Left(op', wire', queue') = Left(op, wire, queue)
    BY <2>1 DEF Left
  <2>3. Well
    BY <1>1 DEF Well
  <2>4. UNCHANGED <<op, input, effects, produced, answer>>
    OBVIOUS
  <2> QED
    BY <2>2, <2>3, <2>4 DEF CInv, CompleteInv
<1>6. LoneInv'
  <2>1. op \in Repeating => op \in Complete
    BY DEF Complete
  <2> QED
    BY <1>1, <2>1 DEF CInv, LoneInv
<1>7. CountInv'
  BY <1>1 DEF CountInv
<1> QED
  BY <1>3, <1>4, <1>5, <1>6, <1>7 DEF CInv

\* The future is dropped: the call is no success.
LEMMA DroppedCounts ==
  ASSUME IInv, CInv, MutationDropped
  PROVE  CInv'
<1> USE DEF MutationDropped, request, remote
<1>1. outcome.kind = "none" /\ (queue' = queue \/ queue' = <<>>)
  BY DEF IInv, OutcomeInv
<1>2. (AdmittedInv /\ CountInv)'
  BY <1>1 DEF CInv, AdmittedInv, CountInv
<1>3. ShapeInv'
  BY <1>1 DEF CInv, ShapeInv
<1>4. CompleteInv'
  BY DEF CompleteInv, Well
<1>5. LoneInv'
  <2>1. Len(queue') <= 1 \/ Len(queue') = Len(queue)
    BY <1>1
  <2> QED
    BY <1>1, <2>1 DEF CInv, LoneInv
<1> QED
  BY <1>2, <1>3, <1>4, <1>5 DEF CInv

\* Db2's worker counts nothing.
LEMMA WorkerCounts ==
  ASSUME IInv, CInv, Db2WorkerGoesOn
  PROVE  CInv'
<1> USE DEF Db2WorkerGoesOn, request, remote
<1>1. outcome.kind # "Ok" /\ answer = Nothing /\ op \notin Complete
  BY DEF IInv, OutcomeInv, AnswerInv, Complete, Repeating
<1>2. /\ wire = <<>> /\ Len(queue) <= 1 /\ effects = <<>> /\ produced = 0 /\ queue # <<>>
  BY <1>1 DEF CInv, LoneInv
<1>3. wire \in Requests /\ queue \in Requests /\ Head(queue) \in Seq(Parts)
  BY Counted, FirstCounted
<1>4. queue' = <<>> /\ Len(queue') = 0
  <2>1. /\ Len(Tail(queue)) = Len(queue) - 1 /\ Tail(queue) \in Requests
        /\ Len(queue) \in Nat /\ Len(queue) # 0
    BY <1>2, <1>3, TailParts, Counted
  <2>2. Len(Tail(queue)) = 0
    BY <1>2, <2>1
  <2> QED
    BY <2>1, <2>2 DEF Requests
<1>9. wire' = wire \/ wire' = Append(wire, Head(queue))
  OBVIOUS
<1>10. Len(wire') <= 1
  <2>1. Len(wire) = 0 /\ Len(Append(wire, Head(queue))) = 1
    BY <1>2, <1>3 DEF Requests
  <2> HIDE DEF Db2WorkerGoesOn
  <2> QED
    BY <1>9, <2>1
<1>5. AdmittedInv' /\ CountInv'
  BY <1>1 DEF CInv, AdmittedInv, CountInv
<1>6. ShapeInv'
  <2>1. /\ \A n \in DOMAIN wire : Shaped(op, wire[n])
        /\ \A n \in DOMAIN queue : Shaped(op, queue[n])
    BY DEF CInv, ShapeInv
  <2>2. \A n \in DOMAIN wire' : Shaped(op, wire'[n])
    BY <1>2, <1>3, <1>9, <2>1, ShapedParts
  <2> QED
    BY <1>4, <2>2 DEF ShapeInv
<1>7. CompleteInv'
  BY <1>1 DEF CompleteInv
<1>8. LoneInv'
  BY <1>1, <1>2, <1>4, <1>10 DEF LoneInv
<1> QED
  BY <1>5, <1>6, <1>7, <1>8 DEF CInv

\* A server serves a request in full, in part or not at all: an answer counts what it did.
LEMMA ReplyCounts ==
  ASSUME IInv, CInv, wire # <<>>, wire' = Tail(wire), NEW kind \in AnswerKinds \ {"none"},
         NEW parts \in Seq(Parts), Reply(kind, parts),
         op \in Complete /\ kind \in {"ok", "exists"} =>
           /\ Ids(parts) = Ids(Head(wire))
           /\ Cardinality(Items(parts)) = Cardinality(Items(Head(wire))),
         op \notin Complete \cup Finders /\ kind = "ok" => parts = Head(wire)
  PROVE  CInv'
<1> USE DEF Reply, request
<1>1. /\ wire \in Requests /\ queue \in Requests /\ effects \in Seq(Parts)
      /\ Head(wire) \in Seq(Parts)
  BY Counted, FirstCounted
<1>2. /\ Len(wire') = Len(wire) - 1 /\ Len(wire) \in Nat /\ Len(wire) >= 1
      /\ wire' \in Requests /\ (Len(wire') = 0 => wire' = <<>>)
  BY <1>1, TailParts DEF Requests
<1>3. UNCHANGED <<op, input, stage, queue, produced, outcome>>
  OBVIOUS
<1>4. AdmittedInv'
  BY DEF CInv, AdmittedInv
<1>5. Shaped(op, Head(wire)) /\ \A n \in DOMAIN wire' : Shaped(op, wire'[n])
  BY <1>1, ShapedParts DEF CInv, ShapeInv
<1>6. ShapeInv'
  BY <1>5 DEF CInv, ShapeInv
<1>7. /\ answer.kind \in {"none", "broken"}
      /\ answer' = answer \/ (answer = Nothing /\ stage = "await" /\ op # "nats_produce"
                              /\ answer' = [kind |-> kind, count |-> Cardinality(Items(parts))])
  BY DEF IInv, AnswerInv
<1>8. CompleteInv'
  <2>1. CASE op = "nats_produce"
    <3>1. answer' = answer /\ Left(op', wire', queue') = Left(op, wire, queue)
      BY <1>7, <2>1 DEF Left
    <3> QED
      BY <2>1, <3>1 DEF CInv, CompleteInv, Well
  <2>2. CASE op # "nats_produce"
    <3>1. SUFFICES ASSUME op \in Complete, Well'
                   PROVE  /\ produced' + answer'.count + Cardinality(Left(op', wire', queue')) = Len(input')
                          /\ Ids(effects') \cup Left(op', wire', queue') = DOMAIN input'
                          /\ op' \in {"redis_xadd", "redis_publish"} /\ answer'.kind # "none"
                               => answer'.count = 1
      BY DEF CompleteInv
    <3>2. outcome.kind # "Ok"
      BY <2>2 DEF IInv, OutcomeInv
    <3>3. stage \notin {"idle", "over"}
      BY <3>1, <3>2 DEF Well
    <3>4. stage = "await" /\ Len(wire) <= 1
      <4>1. stage \in Stages
        BY DEF IInv, CallType
      <4> QED
        BY <2>2, <3>3, <4>1 DEF IInv, StageInv, Stages
    <3>5. answer = Nothing
      <4>1. answer' = answer => answer.kind = "none"
        BY <1>7, <3>1 DEF Well
      <4> QED
        BY <1>7, <4>1 DEF CInv, CountInv
    <3>6. answer' = [kind |-> kind, count |-> Cardinality(Items(parts))] /\ kind \in {"ok", "exists"}
      BY <2>2, <3>1, <3>4, <3>5 DEF Well
    <3>7. wire' = <<>>
      BY <1>2, <3>4
    <3>8. Todo(wire) = Ids(Head(wire)) /\ Todo(wire') = {}
      <4>1. Todo(wire') = {}
        BY <1>2, <3>7, TodoOfRequests
      <4>2. Todo(wire) = Ids(Head(wire)) \cup Todo(wire')
        BY <1>1, TodoParts
      <4> QED
        BY <4>1, <4>2
    <3>9. /\ Left(op, wire, queue) = Ids(Head(wire)) \cup Todo(queue)
          /\ Left(op', wire', queue') = Todo(queue)
      BY <2>2, <3>8 DEF Left
    <3>10. /\ Cardinality(Ids(Head(wire)) \cup Todo(queue))
                = Cardinality(Items(Head(wire))) + Cardinality(Todo(queue))
           /\ Cardinality(Todo(queue)) \in Nat /\ Cardinality(Items(Head(wire))) \in Nat
      BY <1>1, FirstCounted, TodoCounted
    <3>11. Well
      BY <3>3, <3>5 DEF Well
    <3>12. /\ produced + answer.count + Cardinality(Left(op, wire, queue)) = Len(input)
           /\ Ids(effects) \cup Left(op, wire, queue) = DOMAIN input
      BY <2>2, <3>1, <3>11 DEF CInv, CompleteInv
    <3>13. /\ Ids(parts) = Ids(Head(wire))
           /\ Cardinality(Items(parts)) = Cardinality(Items(Head(wire)))
      BY <3>1, <3>6
    <3>14. Ids(effects') = Ids(effects) \cup Ids(Head(wire))
      BY <1>1, <3>13, IdsOfBoth
    <3>15. produced' + answer'.count + Cardinality(Left(op', wire', queue')) = Len(input')
      BY <1>3, <3>5, <3>6, <3>9, <3>10, <3>12, <3>13, Counted
    <3>16. Ids(effects') \cup Left(op', wire', queue') = DOMAIN input'
      BY <1>3, <3>9, <3>12, <3>14
    <3>17. op \in {"redis_xadd", "redis_publish"} => Cardinality(Items(Head(wire))) = 1
      BY <1>1, <1>5, SingleItem DEF Shaped, Singly
    <3> QED
      BY <1>3, <3>6, <3>13, <3>15, <3>16, <3>17
  <2> QED
    BY <2>1, <2>2
<1>9. LoneInv'
  <2>1. SUFFICES ASSUME op \notin Complete PROVE LoneInv'
    BY <1>3 DEF LoneInv
  <2>2. /\ effects = <<>> /\ Len(wire) <= 1 /\ queue = <<>>
        /\ outcome.kind # "Ok" => produced = 0
    BY <2>1 DEF CInv, LoneInv
  <2>3. outcome.kind # "Ok"
    <3>1. op # "nats_produce"
      BY <2>1 DEF Complete
    <3> QED
      BY <3>1 DEF IInv, OutcomeInv
  <2>4. effects' = parts
    BY <1>1, <2>2
  <2>5. wire' = <<>> /\ Len(wire') = 0 /\ Len(queue) = 0
    BY <1>2, <2>2
  <2>6. answer' = answer \/ answer' = [kind |-> kind, count |-> Cardinality(Items(parts))]
    BY <1>7
  <2>7. answer'.kind \in {"ok", "nil"} =>
          /\ answer'.count = Cardinality(Items(effects'))
          /\ op \notin Finders /\ answer'.kind = "ok" => effects' = One
    <3>1. op \notin Finders => Head(wire) = One
      BY <1>5, <2>1 DEF Shaped
    <3> QED
      BY <1>7, <2>1, <2>4, <2>6, <3>1
  <2> QED
    BY <1>3, <2>2, <2>3, <2>5, <2>7 DEF LoneInv
<1>10. CountInv'
  BY DEF CInv, CountInv
<1> QED
  BY <1>4, <1>6, <1>8, <1>9, <1>10 DEF CInv

\* What the server makes of a request.
LEMMA ServedCounts ==
  ASSUME IInv, CInv, Serve \/ ServeExisting \/ ServeSome \/ ServeNil \/ Refuse
  PROVE  CInv'
<1>1. /\ wire # <<>> /\ wire' = Tail(wire)
  BY DEF Serve, ServeExisting, ServeSome, ServeNil, Refuse
<1>2. Head(wire) \in Seq(Parts) /\ Len(Head(wire)) \in Nat /\ <<>> \in Seq(Parts)
  BY <1>1, FirstCounted
<1>3. CASE Serve
  <2>1. PICK kind \in {"ok", "unreadable"} : Reply(kind, Head(wire))
    BY <1>3 DEF Serve
  <2> QED
    BY <1>1, <1>2, <2>1, ReplyCounts DEF AnswerKinds
<1>4. CASE ServeExisting
  <2>1. /\ Head(wire) = Create
        /\ Reply(IF op = "amqp_produce" THEN "ok" ELSE "exists", <<>>)
    BY <1>4 DEF ServeExisting
  <2>2. PICK kind \in {"ok", "exists"} : Reply(kind, <<>>) /\ (kind = "ok" => op \in Complete)
    BY <2>1 DEF Complete
  <2>3. Items(Create) = {} /\ Items(<<>>) = {}
    <3>1. \A i \in DOMAIN Create : Create[i] = 0
      BY OneElement DEF Create
    <3> QED
      BY <3>1 DEF Items
  <2>4. Ids(Create) = {} /\ Ids(<<>>) = {}
    BY <2>3 DEF Ids
  <2> QED
    BY <1>1, <1>2, <2>1, <2>2, <2>3, <2>4, ReplyCounts DEF AnswerKinds
<1>5. CASE ServeSome
  <2>1. PICK found \in Ascending(Range(Head(wire))) : Reply("ok", found)
    BY <1>5 DEF ServeSome
  <2>2. found \in Seq(Parts)
    BY <1>2, PartsInOrder
  <2>3. op \in Finders /\ op \notin Complete
    BY <1>5 DEF ServeSome, Finders, Complete, Repeating
  <2> QED
    BY <1>1, <2>1, <2>2, <2>3, ReplyCounts DEF AnswerKinds
<1>6. CASE ServeNil
  BY <1>1, <1>2, <1>6, ReplyCounts DEF AnswerKinds, ServeNil
<1>7. CASE Refuse
  <2>1. PICK n \in 0..Len(Head(wire)) : Reply("error", SubSeq(Head(wire), 1, n))
    BY <1>2, <1>7 DEF Refuse
  <2>2. SubSeq(Head(wire), 1, n) \in Seq(Parts)
    BY <1>2, <2>1
  <2> QED
    BY <1>1, <2>1, <2>2, ReplyCounts DEF AnswerKinds
<1> QED
  BY <1>3, <1>4, <1>5, <1>6, <1>7

\* A repeated request does what it will be counted for once.
LEMMA RepeatCounts ==
  ASSUME IInv, CInv, Repeat
  PROVE  CInv'
<1> USE DEF Repeat, request
<1>1. /\ wire \in Requests /\ effects \in Seq(Parts) /\ Head(wire) \in Seq(Parts)
      /\ Head(wire) = wire[1] /\ 1 \in DOMAIN wire
  BY Counted, FirstCounted, TailParts
<1>2. /\ op \in Complete /\ op # "nats_produce"
      /\ UNCHANGED <<op, input, stage, queue, wire, answer, produced, outcome>>
  BY DEF Complete, Repeating
<1>3. AdmittedInv'
  BY DEF CInv, AdmittedInv
<1>4. (ShapeInv /\ CountInv)'
  BY DEF CInv, ShapeInv, CountInv
<1>5. CompleteInv'
  <2>1. Ids(effects') = Ids(effects) \cup Ids(Head(wire))
    BY <1>1, IdsOfBoth
  <2>2. Ids(Head(wire)) \subseteq Left(op, wire, queue)
    BY <1>1, <1>2, TodoOfRequests DEF Left
  <2>3. Ids(effects') \cup Left(op, wire, queue) = Ids(effects) \cup Left(op, wire, queue)
    BY <2>1, <2>2
  <2>4. Well' = Well
    BY <1>2 DEF Well
  <2> HIDE DEF Repeat
  <2> QED
    BY <1>2, <2>3, <2>4 DEF CInv, CompleteInv
<1>6. LoneInv'
  BY <1>2 DEF LoneInv
<1> QED
  BY <1>3, <1>4, <1>5, <1>6 DEF CInv

\* What is lost on the way is no success, or was counted on NATS.
LEMMA DisturbedCounts ==
  ASSUME IInv, CInv, Break \/ Lose \/ OthersCreate
  PROVE  CInv'
<1> USE DEF request, remote
<1>1. CASE Break
  <2>1. /\ UNCHANGED <<op, input, stage, queue, wire, effects, produced, outcome>>
        /\ answer'.kind = "broken"
    BY <1>1 DEF Break
  <2>2. (AdmittedInv /\ ShapeInv /\ CountInv)'
    BY <2>1 DEF CInv, AdmittedInv, ShapeInv, CountInv
  <2>3. CompleteInv'
    BY <2>1 DEF CompleteInv, Well
  <2>4. LoneInv'
    BY <2>1 DEF CInv, LoneInv
  <2> QED
    BY <2>2, <2>3, <2>4 DEF CInv
<1>2. CASE Lose
  <2>1. /\ UNCHANGED <<op, input, stage, queue, effects, answer, produced, outcome>>
        /\ wire # <<>> /\ wire' = Tail(wire)
        /\ stage = "over" \/ answer.kind = "broken" \/ op = "nats_produce"
    BY <1>2 DEF Lose
  <2>2. /\ wire \in Requests /\ wire' \in Requests /\ Len(wire') = Len(wire) - 1 /\ Len(wire) \in Nat
        /\ (Len(wire') = 0 => wire' = <<>>) /\ Len(wire) # 0
    BY <2>1, Counted, TailParts DEF Requests
  <2>3. (AdmittedInv /\ CountInv)'
    BY <2>1 DEF CInv, AdmittedInv, CountInv
  <2>4. ShapeInv'
    <3>1. \A n \in DOMAIN wire' : Shaped(op, wire'[n])
      BY <2>1, <2>2, ShapedParts DEF CInv, ShapeInv
    <3> QED
      BY <2>1, <3>1 DEF CInv, ShapeInv
  <2>5. CompleteInv'
    <3>1. CASE op = "nats_produce"
      <4>1. Left(op', wire', queue') = Left(op, wire, queue) /\ Well' = Well
        BY <2>1, <3>1 DEF Left, Well
      <4> QED
        BY <2>1, <3>1, <4>1 DEF CInv, CompleteInv
    <3>2. CASE op # "nats_produce"
      <4>1. ~Well'
        BY <2>1, <3>2 DEF Well, IInv, OutcomeInv
      <4> QED
        BY <4>1 DEF CompleteInv
    <3> QED
      BY <3>1, <3>2
  <2>6. LoneInv'
    <3>1. Len(wire) <= 1 => wire' = <<>> /\ Len(wire') = 0
      BY <2>2
    <3> QED
      BY <2>1, <3>1 DEF CInv, LoneInv
  <2> QED
    BY <2>3, <2>4, <2>5, <2>6 DEF CInv
<1>3. CASE OthersCreate
  <2>1. UNCHANGED <<op, input, stage, queue, wire, effects, answer, produced, outcome>>
    BY <1>3 DEF OthersCreate
  <2>2. (AdmittedInv /\ ShapeInv /\ CountInv)'
    BY <2>1 DEF CInv, AdmittedInv, ShapeInv, CountInv
  <2>3. CompleteInv' /\ LoneInv'
    BY <2>1 DEF CInv, CompleteInv, LoneInv, Well
  <2> QED
    BY <2>2, <2>3 DEF CInv
<1> QED
  BY <1>1, <1>2, <1>3

\* The steps of a call before its requests leave.
LEMMA PrepareCounts ==
  ASSUME IInv, CInv, Connect \/ KafkaTopics \/ RskafkaPartition
  PROVE  CInv'
<1>1. CASE Connect
  BY <1>1, FinishCounts, ReadyCounts DEF Connect
<1>2. CASE KafkaTopics
  <2>1. op \in Repeating /\ queue # <<>> /\ stage = "metadata"
    BY <1>2 DEF KafkaTopics, IInv, StageInv
  <2> QED
    BY <1>2, <2>1, FinishCounts, ReadyCounts DEF KafkaTopics
<1>3. CASE RskafkaPartition
  <2>1. CASE Finish(IF possible_write THEN Unknown ELSE Definite)
    <3>1. (IF possible_write THEN Unknown ELSE Definite).kind # "Ok" /\ stage = "partition"
      BY <1>3 DEF RskafkaPartition
    <3> QED
      BY <2>1, <3>1, FinishCounts
  <2>2. CASE ~Finish(IF possible_write THEN Unknown ELSE Definite)
    BY <1>3, <2>2, ReadyCounts DEF RskafkaPartition
  <2> QED
    BY <2>1, <2>2
<1> QED
  BY <1>1, <1>2, <1>3

\* Requests leave, and NATS is done with its buffer.
LEMMA RequestsCount ==
  ASSUME IInv, CInv, (op # "nats_produce" /\ Send) \/ NatsPublish \/ NatsFlush
  PROVE  CInv'
<1>1. CASE op # "nats_produce" /\ Send
  BY <1>1, SendCounts DEF Send
<1>2. CASE NatsPublish
  <2>1. CASE Finish(Unknown)
    BY <1>2, <2>1, FinishCounts DEF NatsPublish
  <2>2. CASE ~Finish(Unknown)
    BY <1>2, <2>2, SendCounts DEF NatsPublish
  <2> QED
    BY <2>1, <2>2
<1>3. CASE NatsFlush
  <2>1. CASE Finish(Unknown)
    BY <1>3, <2>1, FinishCounts DEF NatsFlush
  <2>2. CASE Finish(Ok(produced))
    <3>1. /\ op = "nats_produce" /\ stage = "send" /\ queue = <<>>
          /\ op' = op /\ input' = input /\ queue' = queue /\ wire' = wire /\ effects' = effects
          /\ produced' = produced /\ stage' = "over" /\ answer' = answer
          /\ outcome'.kind = "Ok" /\ outcome'.count = produced
      BY <1>3, <2>2 DEF NatsFlush, Finish, request, remote, IInv, AnswerInv
    <3>2. (AdmittedInv /\ ShapeInv /\ CountInv)'
      BY <3>1 DEF CInv, AdmittedInv, ShapeInv, CountInv
    <3>3. CompleteInv'
      BY <3>1 DEF CInv, CompleteInv, Well
    <3>4. LoneInv'
      BY <3>1 DEF LoneInv, Complete
    <3> QED
      BY <3>2, <3>3, <3>4 DEF CInv
  <2> QED
    BY <1>3, <2>1, <2>2 DEF NatsFlush
<1> QED
  BY <1>1, <1>2, <1>3

\* What an answer says is what its request did.
LEMMA AnswerCounts ==
  ASSUME IInv, CInv, stage = "await"
  PROVE  /\ op \notin Complete /\ answer.kind \in {"ok", "nil"}
              => answer.count = Cardinality(Items(effects))
         /\ op \notin Complete \cup Finders /\ answer.kind = "ok" => Cardinality(Items(effects)) = 1
         /\ op \in {"redis_xadd", "redis_publish"} /\ answer.kind = "ok" => answer.count = 1
<1>1. Cardinality(Items(One)) = 1
  <2>1. One \in Seq(Parts) /\ Len(One) = 1 /\ One[1] # 0
    BY MutationAssumption DEF One, Parts
  <2> QED
    BY <2>1, SingleItem
<1>2. op \in {"redis_xadd", "redis_publish"} => op \in Complete
  BY DEF Complete
<1>3. answer.kind = "ok" => Well
  BY DEF Well
<1> QED
  BY <1>1, <1>2, <1>3 DEF CInv, CompleteInv, LoneInv

\* An answer is understood and counts what was done, or the call is no success.
LEMMA AnsweredCounts ==
  ASSUME IInv, CInv, NEW ops, Answered(ops), NEW understood \in SUBSET {"ok", "nil", "exists"},
         NEW n \in Nat, NEW next \in {"send", "partition"}, OrUnknown(understood, GoOn(n, next)),
         answer.kind \in understood /\ op \in Complete => answer.kind # "nil" /\ n = answer.count,
         answer.kind \in understood /\ op \notin Complete => Result(op, effects, n)
  PROVE  CInv'
<1>1. stage = "await"
  BY DEF Answered
<1>2. CASE answer.kind \in understood
  BY <1>1, <1>2, GoOnCounts DEF OrUnknown
<1>3. CASE Finish(Unknown)
  BY <1>1, <1>3, FinishCounts
<1> QED
  BY <1>2, <1>3 DEF OrUnknown

\* What each adapter counts.
LEMMA ReturnsCount ==
  ASSUME IInv, CInv, Returns
  PROVE  CInv'
<1>1. answer.count \in Nat /\ 0 \in Nat /\ 1 \in Nat
      /\ {"ok"} \in SUBSET {"ok", "nil", "exists"} /\ {"ok", "nil"} \in SUBSET {"ok", "nil", "exists"}
      /\ {"ok", "exists"} \in SUBSET {"ok", "nil", "exists"}
  BY DEF IInv, CallType
<1> DEFINE Alone(name)   == name \notin Complete \cup Finders \cup Uncounted
           Counts(name)  == name \notin Complete \cup Uncounted
<1>2. /\ Alone("redis_set") /\ Alone("redis_set_nx") /\ Alone("redis_raw") /\ Alone("mongo_drop")
      /\ Alone("search_index") /\ Alone("search_put") /\ Alone("search_update")
      /\ Alone("search_delete") /\ Alone("search_delete_index")
      /\ Counts("redis_restore") /\ Counts("redis_delete") /\ Counts("mongo_update")
      /\ Counts("mongo_delete") /\ Counts("mongo_aggregate")
      /\ Counts("sql_execute") /\ Counts("sqlserver_execute")
  BY DEF Complete, Repeating, Finders, Uncounted
<1>3. /\ {"cassandra_execute", "db2_execute"} \cap (Complete \cup Finders) = {}
      /\ Uncounted = {"cassandra_execute", "db2_execute"}
      /\ {"mongo_insert", "prometheus_write", "redis_xadd", "redis_publish", "amqp_produce",
          "rdkafka_produce", "rskafka_produce"} \subseteq Complete
  BY DEF Complete, Repeating, Finders, Uncounted
<1>4. stage = "await"
  BY DEF Returns, Answered, RedisSetReturns, RedisRestoreReturns, RedisDeleteReturns, RedisRawReturns,
         MongoInsertReturns, MongoUpdateReturns, MongoDeleteReturns, MongoAggregateReturns,
         MongoDropReturns, SearchReturns, PrometheusReturns, SqlReturns, UncountedReturns,
         RedisXaddReturns, RedisPublishReturns, AmqpConfirms, RdkafkaReturns, RskafkaReturns
<1>5. /\ answer.kind \in {"ok", "nil"} /\ Counts(op) => Result(op, effects, answer.count)
      /\ answer.kind = "ok" /\ Alone(op) => Result(op, effects, 1)
      /\ answer.kind = "ok" /\ op \in {"cassandra_execute", "db2_execute"} => Result(op, effects, 0)
      /\ answer.kind = "ok" /\ op \in {"redis_xadd", "redis_publish"} => answer.count = 1
  BY <1>3, <1>4, AnswerCounts DEF Result
<1>6. \A name : Alone(name) => name \notin Complete
  OBVIOUS
<1>7. \A name : Counts(name) => name \notin Complete
  OBVIOUS
<1> HIDE DEF Alone, Counts
<1>8. CASE RedisSetReturns
  <2>1. Answered({"redis_set", "redis_set_nx"}) /\ Alone(op)
    BY <1>2, <1>8 DEF RedisSetReturns, Answered
  <2>2. CASE answer.kind = "nil" /\ Finish(Definite)
    BY <1>4, <2>2, FinishCounts
  <2>3. CASE OrUnknown({"ok"}, GoOn(1, "send"))
    BY <1>1, <1>5, <1>6, <2>1, <2>3, AnsweredCounts
  <2> QED
    BY <1>8, <2>2, <2>3 DEF RedisSetReturns
<1>9. CASE RedisRawReturns \/ MongoDropReturns \/ SearchReturns
  <2>1. Alone(op) /\ OrUnknown({"ok"}, GoOn(1, "send")) /\ \E ops : Answered(ops)
    BY <1>2, <1>9 DEF RedisRawReturns, MongoDropReturns, SearchReturns, Answered
  <2> QED
    BY <1>1, <1>5, <1>6, <2>1, AnsweredCounts
<1>10. CASE RedisRestoreReturns
  <2>1. Counts(op) /\ OrUnknown({"ok", "nil"}, GoOn(answer.count, "send")) /\ \E ops : Answered(ops)
    BY <1>2, <1>10 DEF RedisRestoreReturns, Answered
  <2> QED
    BY <1>1, <1>5, <1>7, <2>1, AnsweredCounts
<1>11. CASE RedisDeleteReturns \/ MongoUpdateReturns \/ MongoDeleteReturns \/ MongoAggregateReturns
            \/ SqlReturns
  <2>1. Counts(op) /\ OrUnknown({"ok"}, GoOn(answer.count, "send")) /\ \E ops : Answered(ops)
    BY <1>2, <1>11 DEF RedisDeleteReturns, MongoUpdateReturns, MongoDeleteReturns,
                       MongoAggregateReturns, SqlReturns, Answered
  <2> QED
    BY <1>1, <1>5, <1>7, <2>1, AnsweredCounts
<1>12. CASE UncountedReturns
  <2>1. /\ op \in {"cassandra_execute", "db2_execute"} /\ op \notin Complete
        /\ OrUnknown({"ok"}, GoOn(0, "send")) /\ \E ops : Answered(ops)
    BY <1>3, <1>12 DEF UncountedReturns, Answered
  <2> QED
    BY <1>1, <1>5, <2>1, AnsweredCounts
<1>13. CASE RedisXaddReturns \/ RedisPublishReturns
  <2>1. /\ op \in {"redis_xadd", "redis_publish"} /\ op \in Complete
        /\ OrUnknown({"ok"}, GoOn(1, "send")) /\ \E ops : Answered(ops)
    BY <1>3, <1>13 DEF RedisXaddReturns, RedisPublishReturns, Answered
  <2> QED
    BY <1>1, <1>5, <2>1, AnsweredCounts
<1>14. CASE MongoInsertReturns
  <2>1. op \in Complete
    BY <1>3, <1>14 DEF MongoInsertReturns, Answered
  <2>2. CASE Finish(Unknown)
    BY <1>4, <2>2, FinishCounts
  <2>3. CASE answer.kind = "ok" /\ GoOn(answer.count, "send")
    BY <1>1, <1>4, <2>1, <2>3, GoOnCounts
  <2> QED
    BY <1>14, <2>2, <2>3 DEF MongoInsertReturns, OrUnknown
<1>15. CASE PrometheusReturns \/ AmqpConfirms \/ RdkafkaReturns \/ RskafkaReturns
  <2>1. PICK understood \in {{"ok"}, {"ok", "exists"}}, next \in {"send", "partition"} :
          /\ op \in Complete /\ OrUnknown(understood, GoOn(answer.count, next))
          /\ \E ops : Answered(ops)
    BY <1>3, <1>15 DEF PrometheusReturns, AmqpConfirms, RdkafkaReturns, RskafkaReturns, Answered
  <2>2. "nil" \notin understood /\ understood \in SUBSET {"ok", "nil", "exists"}
    BY <1>1, <2>1
  <2> QED
    BY <1>1, <2>1, <2>2, AnsweredCounts
<1> QED
  BY <1>8, <1>9, <1>10, <1>11, <1>12, <1>13, <1>14, <1>15 DEF Returns
-----------------------------------------------------------------------------
(* What is admitted *)

\* The sum over one size.
LEMMA TotalOfOne ==
  ASSUME NEW sizes, NEW x \in Nat, Len(sizes) = 1, sizes[1] = x
  PROVE  Total(sizes) = x
<1> DEFINE F(g) == [i \in 0..Len(sizes) |-> IF i = 0 THEN 0 ELSE g[i - 1] + sizes[i]]
           sum  == CHOOSE g : g = F(g)
           h    == [i \in 0..1 |-> IF i = 0 THEN 0 ELSE x]
<1>1. h = F(h)
  <2>1. \A i \in 0..1 : h[i] = IF i = 0 THEN 0 ELSE h[i - 1] + sizes[i]
    <3>1. h[0] = 0 /\ h[1] = x
      OBVIOUS
    <3>2. \A i \in 0..1 : i = 0 \/ (i = 1 /\ i - 1 = 0)
      OBVIOUS
    <3> HIDE DEF h
    <3> QED
      BY <3>1, <3>2
  <2>2. h = [i \in 0..1 |-> IF i = 0 THEN 0 ELSE h[i - 1] + sizes[i]]
    BY <2>1
  <2> QED
    BY <2>2
<1>2. sum = F(sum)
  <2> HIDE DEF F, h
  <2> QED
    BY <1>1, Zenon
<1>3. sum[0] = 0 /\ sum[1] = sum[0] + sizes[1]
  <2> HIDE DEF sum
  <2> QED
    BY <1>2
<1>4. Total(sizes) = sum[Len(sizes)]
  BY DEF Total
<1> HIDE DEF sum
<1> QED
  BY <1>3, <1>4

\* What passes a preflight is within the budget.
LEMMA PreflightAdmits ==
  ASSUME NEW items \in Inputs
  PROVE  /\ Batch(items) => Admitted(items)
         /\ Scalar(items) => Admitted(items)
         /\ Statement(items) => Admitted(items)
         /\ PreflightCql(items) => Admitted(items)
<1>1. /\ InputBudget.max_items \in Nat \ {0} /\ InputBudget.max_item_bytes \in Nat
      /\ Overhead \in Nat
  BY MutationAssumption, LimitersAssumption DEF ValidInputBudget
<1>2. /\ DOMAIN items = 1..Len(items) /\ Len(items) \in Nat
      /\ \A i \in DOMAIN items : items[i].bytes \in Nat
  <2>1. items \in Seq(ItemKinds) /\ DOMAIN items = 1..Len(items) /\ Len(items) \in Nat
    BY InputLength
  <2> QED
    BY <2>1, MutationAssumption
<1>3. ASSUME Batch(items) PROVE Admitted(items)
  BY <1>1, <1>3 DEF Batch, BatchFits, Fine, Measured, Admitted
<1>4. ASSUME Scalar(items) PROVE Admitted(items)
  <2>1. Len(items) = 1 /\ DOMAIN items = {1} /\ items[1].bytes \in Nat
    BY <1>2, <1>4 DEF Scalar
  <2> DEFINE sizes == [i \in DOMAIN items |-> items[i].bytes]
  <2>2. Len(sizes) = 1 /\ sizes[1] = items[1].bytes
    BY <1>2, <2>1
  <2>3. BytesOf(items) = items[1].bytes
    <3>1. Total(sizes) = items[1].bytes
      BY <2>1, <2>2, TotalOfOne
    <3> QED
      BY <3>1 DEF BytesOf
  <2>4. /\ items[1].valid /\ WholeOf(items) <= InputBudget.max_item_bytes
        /\ WholeOf(items) <= InputBudget.max_batch_bytes
    BY <1>4, <2>1 DEF Scalar, Fine, RequestFits, Measured
  <2>5. items[1].bytes <= InputBudget.max_item_bytes
    BY <1>1, <2>1, <2>3, <2>4 DEF WholeOf
  <2> QED
    BY <1>1, <2>1, <2>4, <2>5 DEF Admitted
<1>5. ASSUME items = <<>>, RequestFits(InputBudget, items) PROVE Admitted(items)
  BY <1>1, <1>5 DEF RequestFits, Measured, Admitted
<1>6. ASSUME Statement(items) PROVE Admitted(items)
  <2>1. CASE items = <<>>
    BY <1>5, <1>6, <2>1 DEF Statement
  <2>2. CASE items # <<>>
    BY <1>3, <1>6, <2>2 DEF Statement, Batch
  <2> QED
    BY <2>1, <2>2
<1> QED
  BY <1>3, <1>4, <1>5, <1>6 DEF PreflightCql

\* What all requests of a call have to do.
LEMMA TodoOfBoth ==
  ASSUME NEW first \in Requests, NEW then \in Requests
  PROVE  Todo(first \o then) = Todo(first) \cup Todo(then)
<1> DEFINE all == first \o then
           k   == Len(first)
<1>1. /\ \A n \in DOMAIN first : n \in DOMAIN all /\ all[n] = first[n]
      /\ \A n \in DOMAIN then : k + n \in DOMAIN all /\ all[k + n] = then[n]
      /\ \A n \in DOMAIN all : \/ n \in DOMAIN first /\ all[n] = first[n]
                               \/ n - k \in DOMAIN then /\ all[n] = then[n - k]
  BY DEF Requests
<1> HIDE DEF all, k
<1>2. Todo(all) = Todo(first) \cup Todo(then)
  BY <1>1 DEF Todo
<1> QED
  BY <1>2 DEF all

\* What a lone request has to do.
LEMMA TodoOfOne ==
  ASSUME NEW r
  PROVE  Todo(<<r>>) = Ids(r)
<1>1. DOMAIN <<r>> = {1} /\ <<r>>[1] = r
  BY OneElement
<1> QED
  BY <1>1 DEF Todo

\* Every item of an input is in one of its requests.
LEMMA TodoOfInput ==
  ASSUME NEW items \in Inputs
  PROVE  /\ Ids(Create) = {} /\ Ids(<<>>) = {}
         /\ Todo(<<Whole(items)>>) = DOMAIN items
         /\ Todo(Singles(items)) = DOMAIN items
         /\ Todo(<<Create>> \o Singles(items)) = DOMAIN items
         /\ Todo(<<Create, <<>>>> \o Singles(items)) = DOMAIN items
<1>1. DOMAIN items = 1..Len(items) /\ Len(items) \in Nat
  BY InputLength
<1>2. Items(Create) = {} /\ Items(<<>>) = {}
  <2>1. \A i \in DOMAIN Create : Create[i] = 0
    BY OneElement DEF Create
  <2> QED
    BY <2>1 DEF Items
<1>3. Ids(Create) = {} /\ Ids(<<>>) = {}
  BY <1>2 DEF Ids
<1>4. Todo(<<Whole(items)>>) = DOMAIN items
  <2>1. Ids(Whole(items)) = DOMAIN items
    <3>1. DOMAIN Whole(items) = DOMAIN items /\ \A i \in DOMAIN items : Whole(items)[i] = i /\ i # 0
      BY <1>1 DEF Whole
    <3>2. Items(Whole(items)) = DOMAIN items
      BY <3>1 DEF Items
    <3> QED
      BY <3>1, <3>2 DEF Ids
  <2> QED
    BY <2>1, TodoOfOne
<1>5. Todo(Singles(items)) = DOMAIN items
  <2>1. ASSUME NEW n \in 1..Len(items) PROVE Ids(<<n>>) = {n}
    <3>1. DOMAIN <<n>> = {1} /\ <<n>>[1] = n /\ n # 0
      BY <1>1, <2>1, OneElement
    <3> QED
      BY <3>1 DEF Ids, Items
  <2>2. /\ DOMAIN Singles(items) = 1..Len(items)
        /\ \A n \in 1..Len(items) : Singles(items)[n] = <<n>>
    BY <1>1 DEF Singles
  <2>3. \A n \in 1..Len(items) : Ids(Singles(items)[n]) = {n}
    BY <2>1, <2>2
  <2>4. Todo(Singles(items)) = UNION {{n} : n \in 1..Len(items)}
    BY <2>2, <2>3 DEF Todo
  <2>5. UNION {{n} : n \in 1..Len(items)} = 1..Len(items)
    OBVIOUS
  <2> QED
    BY <1>1, <2>4, <2>5
<1>6. Singles(items) \in Requests /\ Todo(<<Create>>) = {} /\ Todo(<<Create, <<>>>>) = {}
      /\ <<Create>> \in Requests /\ <<Create, <<>>>> \in Requests
  <2>1. Create \in Seq(Parts) /\ <<>> \in Seq(Parts)
    BY MutationAssumption DEF Create, Parts
  <2>2. \A n \in DOMAIN <<Create, <<>>>> : <<Create, <<>>>>[n] \in {Create, <<>>}
    OBVIOUS
  <2>3. Todo(<<Create, <<>>>>) = {}
    BY <1>3, <2>2 DEF Todo
  <2>4. <<Create>> \in Requests /\ <<Create, <<>>>> \in Requests
    BY <2>1 DEF Requests
  <2>5. Todo(<<Create>>) = {}
    BY <1>3, TodoOfOne
  <2>6. Singles(items) \in Requests
    BY SingleRequests
  <2> QED
    BY <2>3, <2>4, <2>5, <2>6
<1> QED
  BY <1>3, <1>4, <1>5, <1>6, TodoOfBoth

\* The messages of both partitions are the input.
LEMMA TodoOfPartitions ==
  ASSUME NEW items \in Inputs,
         NEW zero \in InPartition(items, 0), NEW one \in InPartition(items, 1)
  PROVE  /\ Todo(<<Create>> \o NonEmpty(zero) \o NonEmpty(one)) = DOMAIN items
         /\ <<Create>> \o NonEmpty(zero) \o NonEmpty(one) \in Requests
         /\ Ids(Head(<<Create>> \o NonEmpty(zero) \o NonEmpty(one))) = {}
<1>1. /\ \A i \in DOMAIN items : items[i].mark \in {0, 1}
      /\ DOMAIN items \subseteq 1..MaxInput /\ DOMAIN items \subseteq Parts
  BY InputLength, MutationAssumption DEF Inputs
<1>2. Ids(Create) = {} /\ Ids(<<>>) = {} /\ Create \in Seq(Parts)
  <2>1. Create \in Seq(Parts)
    BY MutationAssumption DEF Create, Parts
  <2> QED
    BY <2>1, TodoOfInput
<1>3. ASSUME NEW p, NEW records \in InPartition(items, p)
      PROVE  /\ records \in Seq(Parts) /\ NonEmpty(records) \in Requests
             /\ Todo(NonEmpty(records)) = {i \in DOMAIN items : items[i].mark = p}
  <2>1. PICK n \in 0..MaxInput : records \in [1..n -> DOMAIN items]
    BY <1>3 DEF InPartition, Ascending
  <2>2. n \in Nat /\ records \in [1..n -> Parts]
    BY <1>1, <2>1, MutationAssumption
  <2>3. records \in Seq(Parts)
    BY <2>2, SequenceElements
  <2>4. Range(records) = {i \in DOMAIN items : items[i].mark = p}
    BY <1>3 DEF InPartition
  <2>5. Ids(records) = Range(records)
    <3>1. \A i \in DOMAIN records : records[i] # 0
      BY <1>1, <2>1, MutationAssumption
    <3> QED
      BY <3>1 DEF Ids, Items, Range
  <2>6. NonEmpty(records) \in Requests /\ Todo(NonEmpty(records)) = Ids(records)
    <3>1. CASE records = <<>>
      BY <1>2, <3>1 DEF NonEmpty, Requests, Todo
    <3>2. CASE records # <<>>
      BY <2>3, <3>2, TodoOfOne DEF NonEmpty, Requests
    <3> QED
      BY <3>1, <3>2
  <2> QED
    BY <2>3, <2>4, <2>5, <2>6
<1>4. <<Create>> \in Requests /\ Todo(<<Create>>) = {}
  BY <1>2, TodoOfOne DEF Requests
<1> DEFINE two == <<Create>> \o NonEmpty(zero)
           all == two \o NonEmpty(one)
<1>5. /\ two \in Requests /\ all \in Requests /\ Head(all) = Create
      /\ NonEmpty(zero) \in Requests /\ NonEmpty(one) \in Requests
  <2>1. NonEmpty(zero) \in Requests /\ NonEmpty(one) \in Requests
    BY <1>3
  <2>2. two \in Requests /\ Head(two) = Create /\ two # <<>>
    BY <1>4, <2>1 DEF Requests
  <2> HIDE DEF two
  <2>3. all \in Requests /\ Head(all) = Head(two)
    BY <2>1, <2>2 DEF Requests
  <2> QED
    BY <2>1, <2>2, <2>3
<1>6. Todo(all) = Todo(<<Create>>) \cup Todo(NonEmpty(zero)) \cup Todo(NonEmpty(one))
  BY <1>4, <1>5, TodoOfBoth
<1>7. Todo(all) = DOMAIN items
  <2>1. /\ Todo(NonEmpty(zero)) = {i \in DOMAIN items : items[i].mark = 0}
        /\ Todo(NonEmpty(one)) = {i \in DOMAIN items : items[i].mark = 1}
    BY <1>3
  <2>2. DOMAIN items = {i \in DOMAIN items : items[i].mark = 0}
                         \cup {i \in DOMAIN items : items[i].mark = 1}
    BY <1>1
  <2> QED
    BY <1>4, <1>6, <2>1, <2>2
<1> QED
  BY <1>2, <1>5, <1>7

\* A call begins with everything still to be done, or was refused.
LEMMA CallCounts ==
  ASSUME IInv, CInv, NEW name, NEW items \in Inputs, NEW admitted,
         NEW first \in {"send", "connect", "metadata"}, NEW requests \in Requests,
         Call(name, items, admitted, first, requests),
         admitted => Admitted(items),
         \A n \in DOMAIN requests : Shaped(name, requests[n]),
         name \in Complete => Todo(requests) = DOMAIN items,
         name \notin Complete => Len(requests) <= 1,
         first = "metadata" => Ids(Head(requests)) = {}
  PROVE  CInv'
<1> USE DEF Call
<1>1. /\ wire = <<>> /\ effects = <<>> /\ outcome.kind = "none" /\ answer = Nothing /\ produced = 0
      /\ UNCHANGED <<wire, effects, answer, produced>> /\ op' = name /\ input' = items
  BY DEF IInv, StageInv, AnswerInv, OutcomeInv, CInv, ShapeInv
<1>2. CASE admitted
  <2>1. stage' = first /\ queue' = requests /\ outcome' = outcome
    BY <1>2
  <2> HIDE DEF Call
  <2>2. (AdmittedInv /\ ShapeInv /\ CountInv)'
    BY <1>1, <1>2, <2>1 DEF AdmittedInv, ShapeInv, CountInv
  <2>3. CompleteInv'
    <3>1. SUFFICES ASSUME name \in Complete PROVE CompleteInv'
      BY <1>1 DEF CompleteInv
    <3>2. Todo(<<>>) = {}
      BY DEF Todo
    <3>3. Left(op', wire', queue') = DOMAIN items
      BY <1>1, <2>1, <3>1, <3>2 DEF Left
    <3>4. Cardinality(DOMAIN items) = Len(items) /\ Len(items) \in Nat
      <4>1. DOMAIN items = 1..Len(items) /\ Len(items) \in Nat
        BY InputLength
      <4>2. \A n \in Nat : Cardinality(1..n) = n
        BY FS_Interval
      <4> QED
        BY <4>1, <4>2
    <3>5. Ids(<<>>) = {}
      BY DEF Ids, Items
    <3>6. produced' + answer'.count + Cardinality(Left(op', wire', queue')) = Len(input')
      BY <1>1, <3>3, <3>4
    <3>7. Ids(effects') \cup Left(op', wire', queue') = DOMAIN input' /\ answer'.kind = "none"
      BY <1>1, <3>3, <3>5
    <3> QED
      BY <3>6, <3>7 DEF CompleteInv
  <2>4. LoneInv'
    BY <1>1, <2>1 DEF LoneInv
  <2> QED
    BY <2>2, <2>3, <2>4 DEF CInv
<1>3. CASE ~admitted
  <2>1. stage' = "over" /\ queue' = <<>> /\ Len(queue') = 0 /\ outcome' = Definite
    BY <1>3
  <2> HIDE DEF Call
  <2>2. (AdmittedInv /\ ShapeInv /\ CountInv)'
    BY <1>1, <2>1 DEF AdmittedInv, ShapeInv, CountInv
  <2>3. CompleteInv'
    BY <2>1 DEF CompleteInv, Well
  <2>4. LoneInv'
    BY <1>1, <2>1 DEF LoneInv
  <2> QED
    BY <2>2, <2>3, <2>4 DEF CInv
<1> QED
  BY <1>2, <1>3

\* A call of one request begins.
LEMMA OneCounts ==
  ASSUME IInv, CInv, NEW name, NEW items \in Inputs, NEW admitted, NEW first \in {"send", "connect"},
         Call(name, items, admitted, first, <<One>>), admitted => Admitted(items),
         name \notin Complete
  PROVE  CInv'
<1> DEFINE requests == <<One>>
<1>1. requests \in Requests
  BY OneRequest DEF Sorted
<1>2. (\A n \in DOMAIN requests : requests[n] = One) /\ Len(requests) = 1
  BY OneElement
<1>3. Call(name, items, admitted, first, requests)
  OBVIOUS
<1> HIDE DEF requests
<1>4. \A n \in DOMAIN requests : Shaped(name, requests[n])
  <2>1. name \notin Singly
    BY DEF Singly, Complete
  <2> QED
    BY <1>2, <2>1 DEF Shaped
<1>5. first \in {"send", "connect", "metadata"} /\ first # "metadata" /\ Len(requests) <= 1
  BY <1>2
<1> QED
  BY <1>1, <1>3, <1>4, <1>5, CallCounts

\* A call of one request for all items begins.
LEMMA WholeCounts ==
  ASSUME IInv, CInv, NEW name, NEW items \in Inputs, NEW admitted, NEW first \in {"send", "connect"},
         Call(name, items, admitted, first, <<Whole(items)>>), admitted => Admitted(items),
         name \in {"mongo_insert", "prometheus_write", "redis_delete"}
  PROVE  CInv'
<1> DEFINE requests == <<Whole(items)>>
<1>1. requests \in Requests /\ Todo(requests) = DOMAIN items
  BY OneRequest, TodoOfInput DEF Sorted
<1>2. Len(requests) = 1
  BY OneElement
<1>3. Call(name, items, admitted, first, requests)
  OBVIOUS
<1> HIDE DEF requests
<1>4. \A n \in DOMAIN requests : Shaped(name, requests[n])
  BY DEF Shaped, Singly, Complete, Finders
<1>5. first \in {"send", "connect", "metadata"} /\ first # "metadata" /\ Len(requests) <= 1
  BY <1>2
<1> QED
  BY <1>1, <1>3, <1>4, <1>5, CallCounts

\* A write to a store begins.
LEMMA StoreCounts ==
  ASSUME IInv, CInv, NEW items \in Inputs, Store(items)
  PROVE  CInv'
<1> USE PreflightAdmits DEF Complete, Repeating
<1>1. ASSUME NEW nx \in BOOLEAN, RedisSet(items, nx) PROVE CInv'
  BY <1>1, OneCounts DEF RedisSet, ValidRedisSet
<1>2. CASE RedisRestore(items) \/ RedisDelete(items) \/ RedisRaw(items)
  BY <1>2, OneCounts, WholeCounts DEF RedisRestore, RedisDelete, RedisRaw, ValidRedisRestore, ValidRedisDelete,
                          ValidRedisRaw
<1>3. CASE MongoInsert(items) \/ MongoUpdate(items) \/ MongoDelete(items)
  BY <1>3, OneCounts, WholeCounts DEF MongoInsert, MongoUpdate, MongoDelete, PrepareMongoInsert,
                          PrepareMongoUpdate, PrepareMongoDelete
<1>4. CASE MongoAggregateWrite(items) \/ MongoDrop(items)
  BY <1>4, OneCounts DEF MongoAggregateWrite, MongoDrop, PrepareMongoAggregateWrite, PrepareMongoDrop
<1>5. CASE SearchIndex(items) \/ SearchPut(items) \/ SearchUpdate(items)
  BY <1>5, OneCounts DEF SearchIndex, SearchPut, SearchUpdate, Http, PrepareDocument
<1>6. CASE SearchDelete(items) \/ SearchDeleteIndex(items) \/ PrometheusWrite(items)
  BY <1>6, OneCounts, WholeCounts DEF SearchDelete, SearchDeleteIndex, Http, PrepareDelete, PrometheusWrite,
                          PreflightRemoteWrite
<1>7. CASE SqliteExecute(items) \/ MySqlExecute(items) \/ PostgresExecute(items)
  BY <1>7, OneCounts DEF SqliteExecute, MySqlExecute, PostgresExecute
<1>8. CASE SqlServerExecute(items) \/ Db2Execute(items)
  BY <1>8, OneCounts DEF SqlServerExecute, Db2Execute, PreflightSqlServer, PreflightDb2
<1>9. CASE CassandraExecute(items) \/ CassandraExecuteCql(items)
  BY <1>9, OneCounts DEF CassandraExecute, CassandraExecuteCql, PreflightCassandraSql
<1> QED
  BY <1>1, <1>2, <1>3, <1>4, <1>5, <1>6, <1>7, <1>8, <1>9 DEF Store

\* A publication of messages begins.
LEMMA PublishCounts ==
  ASSUME IInv, CInv, NEW items \in Inputs, Publish(items)
  PROVE  CInv'
<1>1. /\ {"redis_xadd", "redis_publish", "nats_produce", "amqp_produce", "rdkafka_produce",
          "rskafka_produce"} \subseteq Complete
      /\ {"amqp_produce", "rdkafka_produce", "rskafka_produce"} \cap Singly = {}
  BY DEF Complete, Repeating, Singly
<1>2. Batch(items) => Admitted(items)
  BY PreflightAdmits
<1>3. \A n \in DOMAIN Singles(items) : \A name : name \in Complete => Shaped(name, Singles(items)[n])
  <2>1. DOMAIN Singles(items) = 1..Len(items) /\ Len(items) \in Nat
    BY InputLength DEF Singles
  <2>2. ASSUME NEW n \in 1..Len(items) PROVE Len(Singles(items)[n]) = 1 /\ Singles(items)[n][1] # 0
    <3>1. Singles(items)[n] = <<n>>
      BY <2>2, SingleRequests
    <3>2. n # 0
      BY <2>1, <2>2
    <3> QED
      BY <3>1, <3>2, OneElement
  <2> QED
    BY <2>1, <2>2 DEF Shaped
<1>4. Singles(items) \in Requests
  BY SingleRequests
<1>5. \A name \in Complete \ Singly : \A r : Shaped(name, r)
  BY DEF Shaped
<1>6. ASSUME NEW name \in Singly, Call(name, items, Batch(items), "send", Singles(items)) PROVE CInv'
  <2>1. name \in Complete
    BY <1>1, <1>6 DEF Singly
  <2> QED
    BY <1>2, <1>3, <1>4, <1>6, <2>1, CallCounts, TodoOfInput
<1>7. CASE RedisXadd(items) \/ RedisPublish(items) \/ NatsProduce(items)
  BY <1>6, <1>7 DEF RedisXadd, RedisPublish, NatsProduce, ValidXadd, ValidPublish, PrepareNats, Singly
<1>8. CASE AmqpProduce(items)
  <2>1. <<Create, <<>>>> \o Singles(items) \in Requests
    BY CreatedRequests DEF Sorted
  <2>2. Call("amqp_produce", items, Batch(items), "connect", <<Create, <<>>>> \o Singles(items))
    BY <1>8 DEF AmqpProduce, PrepareAmqp
  <2>3. Todo(<<Create, <<>>>> \o Singles(items)) = DOMAIN items
    BY TodoOfInput
  <2> QED
    BY <1>1, <1>2, <1>5, <2>1, <2>2, <2>3, CallCounts
<1>9. CASE RdkafkaProduce(items)
  <2> DEFINE requests == <<Create>> \o Singles(items)
  <2>1. requests \in Requests
    BY CreatedRequests DEF Sorted
  <2>2. Call("rdkafka_produce", items, Batch(items), "metadata", requests)
    BY <1>9 DEF RdkafkaProduce, ValidKafkaProduce
  <2>3. Todo(requests) = DOMAIN items
    BY TodoOfInput
  <2>4. Ids(Head(requests)) = {}
    <3>1. Head(requests) = Create
      BY <1>4 DEF Requests
    <3> QED
      BY <3>1, TodoOfInput
  <2> HIDE DEF requests
  <2> QED
    BY <1>1, <1>2, <1>5, <2>1, <2>2, <2>3, <2>4, CallCounts
<1>10. CASE RskafkaProduce(items)
  <2>1. PICK zero \in InPartition(items, 0), one \in InPartition(items, 1) :
          Call("rskafka_produce", items, Batch(items), "metadata",
               <<Create>> \o NonEmpty(zero) \o NonEmpty(one))
    BY <1>10 DEF RskafkaProduce, ValidKafkaProduce
  <2> DEFINE requests == <<Create>> \o NonEmpty(zero) \o NonEmpty(one)
  <2>2. requests \in Requests /\ Todo(requests) = DOMAIN items /\ Ids(Head(requests)) = {}
    BY TodoOfPartitions
  <2> HIDE DEF requests
  <2>3. Call("rskafka_produce", items, Batch(items), "metadata", requests)
    BY <2>1 DEF requests
  <2> QED
    BY <1>1, <1>2, <1>5, <2>2, <2>3, CallCounts
<1> QED
  BY <1>7, <1>8, <1>9, <1>10 DEF Publish

\* The embedded method without a budget has nothing to count.
LEMMA EmptyCounts ==
  ASSUME IInv, CInv, Embedded
  PROVE  CInv'
<1>1. PICK name \in {"redis_xadd", "redis_publish", "amqp_produce", "nats_produce",
                     "rdkafka_produce", "rskafka_produce", "prometheus_write"} : CallEmpty(name)
  BY DEF Embedded
<1>2. name \in Complete
  BY <1>1 DEF Complete, Repeating
<1>3. /\ input = <<>> /\ produced = 0 /\ wire = <<>> /\ effects = <<>> /\ queue = <<>> /\ answer = Nothing
      /\ UNCHANGED <<input, queue, wire, effects, answer, produced>>
      /\ op' = name /\ stage' = "over" /\ outcome' = Ok(0)
  BY <1>1 DEF CallEmpty, IInv, StageInv, AnswerInv, CInv, ShapeInv
<1>4. (AdmittedInv /\ ShapeInv /\ CountInv)'
  BY <1>3 DEF AdmittedInv, ShapeInv, CountInv
<1>5. CompleteInv'
  <2>1. Todo(<<>>) = {} /\ Ids(<<>>) = {}
    BY DEF Todo, Ids, Items
  <2>2. Left(op', wire', queue') = {} /\ Cardinality({}) = 0
    BY <1>3, <2>1, FS_EmptySet DEF Left
  <2> QED
    BY <1>3, <2>1, <2>2 DEF CompleteInv
<1>6. LoneInv'
  BY <1>2, <1>3 DEF LoneInv
<1> QED
  BY <1>4, <1>5, <1>6 DEF CInv

\* Every step keeps the count.
LEMMA NextCounts ==
  ASSUME IInv, CInv, [MutationNext]_mutationVars
  PROVE  CInv'
<1>1. ASSUME NEW items \in Inputs, Store(items) \/ Publish(items) PROVE CInv'
  BY <1>1, StoreCounts, PublishCounts
<1>2. CASE Embedded
  BY <1>2, EmptyCounts
<1>3. CASE Connect \/ KafkaTopics \/ RskafkaPartition
  BY <1>3, PrepareCounts
<1>4. CASE (op # "nats_produce" /\ Send) \/ NatsPublish \/ NatsFlush
  BY <1>4, RequestsCount
<1>5. CASE Returns
  BY <1>5, ReturnsCount
<1>6. CASE Db2WorkerGoesOn \/ MutationDropped
  BY <1>6, WorkerCounts, DroppedCounts
<1>7. CASE Serve \/ ServeExisting \/ ServeSome \/ ServeNil \/ Refuse
  BY <1>7, ServedCounts
<1>8. CASE Repeat
  BY <1>8, RepeatCounts
<1>9. CASE Break \/ Lose \/ OthersCreate
  BY <1>9, DisturbedCounts
<1>10. CASE UNCHANGED mutationVars
  <2>1. UNCHANGED <<op, input, stage, queue, wire, effects, answer, produced, outcome>>
    BY <1>10 DEF mutationVars
  <2>2. (AdmittedInv /\ ShapeInv /\ CountInv)'
    BY <2>1 DEF CInv, AdmittedInv, ShapeInv, CountInv
  <2>3. CompleteInv' /\ LoneInv'
    BY <2>1 DEF CInv, CompleteInv, LoneInv, Well
  <2> QED
    BY <2>2, <2>3 DEF CInv
<1>11. MutationNext => \/ \E items \in Inputs : Store(items) \/ Publish(items)
                       \/ Embedded
                       \/ Connect \/ KafkaTopics \/ RskafkaPartition
                       \/ (op # "nats_produce" /\ Send) \/ NatsPublish \/ NatsFlush
                       \/ Returns \/ Db2WorkerGoesOn \/ MutationDropped
                       \/ Serve \/ ServeExisting \/ ServeSome \/ ServeNil \/ Refuse
                       \/ Repeat \/ Break \/ Lose \/ OthersCreate
  BY DEF MutationNext, MutationStep, MutationServer
<1> QED
  BY <1>1, <1>2, <1>3, <1>4, <1>5, <1>6, <1>7, <1>8, <1>9, <1>10, <1>11

\* Nothing is counted before the first call.
LEMMA InitCounts == MutationInit => CInv
<1> SUFFICES ASSUME MutationInit PROVE CInv
  OBVIOUS
<1> USE DEF MutationInit
<1>1. AdmittedInv /\ ShapeInv /\ CountInv
  BY DEF AdmittedInv, ShapeInv, CountInv
<1>2. CompleteInv /\ LoneInv
  BY DEF CompleteInv, LoneInv, Complete, Repeating
<1> QED
  BY <1>1, <1>2 DEF CInv

\* A success of an operation that needs all of its items has done them all.
LEMMA CompleteIsCounted ==
  ASSUME IInv, CInv, outcome.kind = "Ok", op \in Complete
  PROVE  /\ outcome.count = Len(input)
         /\ op # "nats_produce" => Ids(effects) = DOMAIN input
         /\ op \notin Repeating \cup {"nats_produce"} => Cardinality(Items(effects)) = Len(input)
<1>1. /\ stage = "over" /\ queue = <<>> /\ (op # "nats_produce" => wire = <<>>) /\ answer = Nothing
      /\ outcome.count = produced /\ produced \in Nat /\ effects \in Seq(Parts) /\ input \in Inputs
  BY Counted DEF IInv, OutcomeInv, AnswerInv, CInv, CountInv
<1>2. Left(op, wire, queue) = {}
  BY <1>1 DEF Left, Todo
<1>3. /\ produced + answer.count + Cardinality(Left(op, wire, queue)) = Len(input)
      /\ op # "nats_produce" => Ids(effects) \cup Left(op, wire, queue) = DOMAIN input
  BY <1>1 DEF CInv, CompleteInv, Well
<1>4. outcome.count = Len(input)
  <2>1. Cardinality(Left(op, wire, queue)) = 0 /\ answer.count = 0
    BY <1>1, <1>2, FS_EmptySet
  <2> QED
    BY <1>1, <1>3, <2>1
<1>5. op # "nats_produce" => Ids(effects) = DOMAIN input
  BY <1>2, <1>3
<1>6. ASSUME op \notin Repeating, op # "nats_produce" PROVE Cardinality(Items(effects)) = Len(input)
  <2>1. \A i \in DOMAIN effects : effects[i] \in Nat
    <3>1. \A i \in DOMAIN effects : effects[i] \in Parts
      BY <1>1, SequenceElements
    <3> QED
      BY <3>1 DEF Parts
  <2>2. \A i, j \in DOMAIN effects : i < j => effects[i] # effects[j]
    BY <1>6, <2>1 DEF IInv, OrderInv, Ordered, InTurn, Precedes
  <2>3. Cardinality(Items(effects)) = Cardinality(DOMAIN input)
    BY <1>1, <1>5, <1>6, <2>2, IdsCounted
  <2>4. DOMAIN input = 1..Len(input) /\ Len(input) \in Nat
    BY <1>1, InputLength
  <2>5. \A n \in Nat : Cardinality(1..n) = n
    BY FS_Interval
  <2> QED
    BY <2>3, <2>4, <2>5
<1> QED
  BY <1>4, <1>5, <1>6

\* Both invariants hold always.
LEMMA AlwaysCounted == MutationSpec => []CInv
<1>1. IInv /\ CInv /\ [MutationNext]_mutationVars => CInv'
  BY NextCounts
<1> QED
  BY <1>1, InitCounts, AlwaysInv, PTL DEF MutationSpec

\* Whatever the input, the server and the network do: a success of any adapter reports
\* exactly what happened, with every item done where it promises all of them, and
\* nothing leaves on behalf of an input that is not admitted as a whole.
THEOREM SuccessIsCounted == MutationSpec => []OkCountsEffects
<1>1. IInv /\ CInv => OkCountsEffects
  <2> SUFFICES ASSUME IInv, CInv PROVE OkCountsEffects
    OBVIOUS
  <2>1. wire # <<>> \/ effects # <<>> => Admitted(input)
    BY DEF CInv, AdmittedInv
  <2>2. ASSUME outcome.kind = "Ok", op \in Complete
        PROVE  /\ outcome.count = Len(input)
               /\ op # "nats_produce" => {effects[i] : i \in Items(effects)} = DOMAIN input
               /\ op \notin Repeating \cup {"nats_produce"} => Cardinality(Items(effects)) = Len(input)
    BY <2>2, CompleteIsCounted DEF Ids
  <2>3. ASSUME outcome.kind = "Ok", op \notin Complete
        PROVE  /\ op \in Uncounted => outcome.count = 0 /\ Cardinality(Items(effects)) = 1
               /\ op \notin Uncounted => outcome.count = Cardinality(Items(effects))
    BY <2>3 DEF CInv, LoneInv, CountInv, Result
  <2>4. Complete \cap Uncounted = {}
    BY DEF Complete, Uncounted, Repeating
  <2>5. CASE op \in Complete
    BY <2>1, <2>2, <2>4, <2>5 DEF OkCountsEffects, Admitted, Complete, Uncounted
  <2>6. CASE op \in Uncounted
    BY <2>1, <2>3, <2>4, <2>6 DEF OkCountsEffects, Admitted, Complete, Uncounted
  <2>7. CASE op \notin Complete \cup Uncounted
    BY <2>1, <2>3, <2>7 DEF OkCountsEffects, Admitted, Complete, Uncounted
  <2> QED
    BY <2>5, <2>6, <2>7
<1> QED
  BY <1>1, AlwaysInv, AlwaysCounted, PTL
-----------------------------------------------------------------------------
(* The range of the counters *)

\* No answer and no call counts more than an input can have.  A call that fails
\* half-way keeps what it had counted; only repeated Kafka requests make the effects
\* longer than one input.
RangeInv == /\ answer.count <= MaxInput /\ produced <= MaxInput
            /\ op \notin Complete => Len(effects) <= MaxInput

\* A request has at most as many items as parts.
LEMMA ItemsCounted ==
  ASSUME NEW parts \in Seq(Parts)
  PROVE  Cardinality(Items(parts)) \in Nat /\ Cardinality(Items(parts)) <= Len(parts)
<1>1. DOMAIN parts = 1..Len(parts) /\ Len(parts) \in Nat
  OBVIOUS
<1>2. IsFiniteSet(DOMAIN parts) /\ Cardinality(DOMAIN parts) = Len(parts)
  <2>1. \A n \in Nat : IsFiniteSet(1..n) /\ Cardinality(1..n) = n
    BY FS_Interval
  <2> QED
    BY <1>1, <2>1
<1>3. Items(parts) \subseteq DOMAIN parts
  BY DEF Items
<1> QED
  BY <1>1, <1>2, <1>3, FS_Subset, FS_CardinalityType

\* An answer counts at most the parts of one request, and an operation of one request
\* has had no effects before.
LEMMA ReplyRange ==
  ASSUME IInv, CInv, RangeInv, wire # <<>>, NEW kind, NEW parts \in Seq(Parts),
         Reply(kind, parts), Len(parts) <= MaxInput
  PROVE  RangeInv'
<1> USE DEF Reply, request
<1>1. effects \in Seq(Parts) /\ Len(effects) \in Nat /\ Len(parts) \in Nat /\ MaxInput \in Nat
  BY Counted, MutationAssumption
<1>2. Cardinality(Items(parts)) \in Nat /\ Cardinality(Items(parts)) <= Len(parts)
  BY ItemsCounted
<1>3. answer'.count <= MaxInput
  <2>1. answer' = answer \/ answer' = [kind |-> kind, count |-> Cardinality(Items(parts))]
    OBVIOUS
  <2> QED
    BY <1>1, <1>2, <2>1 DEF RangeInv
<1>4. produced' <= MaxInput
  BY DEF RangeInv
<1>5. ASSUME op' \notin Complete PROVE Len(effects') <= MaxInput
  <2>1. effects = <<>> /\ effects' = effects \o parts
    BY <1>5 DEF CInv, LoneInv
  <2>2. Len(effects') = Len(parts)
    BY <1>1, <2>1
  <2> QED
    BY <2>2
<1> QED
  BY <1>3, <1>4, <1>5 DEF RangeInv

\* What the server makes of a request is no longer than the longest input.
LEMMA ServedRange ==
  ASSUME IInv, CInv, RangeInv, Serve \/ ServeExisting \/ ServeSome \/ ServeNil \/ Refuse
  PROVE  RangeInv'
<1>1. wire # <<>>
  BY DEF Serve, ServeExisting, ServeSome, ServeNil, Refuse
<1>2. /\ Head(wire) \in Seq(Parts) /\ Len(Head(wire)) \in Nat /\ Len(Head(wire)) <= MaxInput
      /\ Chain(Lane, Head(wire))
  <2>1. wire \in Requests /\ Head(wire) = wire[1] /\ 1 \in DOMAIN wire
    BY <1>1, Counted, TailParts
  <2> QED
    BY <1>1, <2>1, FirstCounted DEF IInv, PlanInv, Plan, Planned
<1>3. <<>> \in Seq(Parts) /\ Len(<<>>) <= MaxInput /\ MaxInput \in Nat
  BY MutationAssumption
<1>4. CASE Serve
  BY <1>1, <1>2, <1>4, ReplyRange DEF Serve
<1>5. CASE ServeExisting
  BY <1>1, <1>3, <1>5, ReplyRange DEF ServeExisting
<1>6. CASE ServeSome
  <2>1. PICK found \in Ascending(Range(Head(wire))) : Reply("ok", found)
    BY <1>6 DEF ServeSome
  <2>2. found \in Seq(Parts) /\ Len(found) <= MaxInput
    BY <1>2, PartsInOrder
  <2> QED
    BY <1>1, <2>1, <2>2, ReplyRange
<1>7. CASE ServeNil
  BY <1>1, <1>3, <1>7, ReplyRange DEF ServeNil
<1>8. CASE Refuse
  <2>1. PICK n \in 0..Len(Head(wire)) : Reply("error", SubSeq(Head(wire), 1, n))
    BY <1>2, <1>8 DEF Refuse
  <2> DEFINE parts == SubSeq(Head(wire), 1, n)
  <2>2. parts \in Seq(Parts) /\ Len(parts) = n
    BY <1>2, PartsInOrder
  <2>3. Len(parts) <= MaxInput
    BY <1>2, <1>3, <2>1, <2>2
  <2> HIDE DEF parts
  <2> QED
    BY <1>1, <2>1, <2>2, <2>3, ReplyRange DEF parts
<1> QED
  BY <1>4, <1>5, <1>6, <1>7, <1>8

\* A call that has gone well so far has counted no more than its input has.
LEMMA WellRange ==
  ASSUME IInv', CInv', op' \in Complete, Well'
  PROVE  produced' <= MaxInput
<1>1. produced' + answer'.count + Cardinality(Left(op, wire, queue)') = Len(input')
  BY DEF CInv, CompleteInv
<1>2. Cardinality(Left(op, wire, queue)') \in Nat
  <2>1. wire' \in Requests /\ queue' \in Requests
    BY DEF IInv, RequestType, Requests, Parts
  <2>2. IsFiniteSet(Todo(wire')) /\ IsFiniteSet(Todo(queue'))
    BY <2>1, TodoOfRequests
  <2>3. IsFiniteSet(Left(op', wire', queue'))
    BY <2>2, FS_Union DEF Left
  <2> QED
    BY <2>3, FS_CardinalityType
<1>3. /\ produced' \in Nat /\ answer'.count \in Nat /\ input' \in Inputs
  BY DEF IInv, CallType
<1>4. Len(input') \in 0..MaxInput /\ MaxInput \in Nat
  BY <1>3, InputLength, MutationAssumption
<1> QED
  BY <1>1, <1>2, <1>3, <1>4

\* An answer counts for the call: as a part of the input, or as what took effect.
LEMMA GoOnRange ==
  ASSUME IInv, CInv, RangeInv, IInv', CInv', stage = "await",
         NEW n \in Nat, NEW next \in {"send", "partition"}, GoOn(n, next)
  PROVE  RangeInv'
<1> USE DEF GoOn, request, remote
<1>1. /\ answer' = Nothing /\ UNCHANGED <<op, effects>> /\ outcome.kind = "none" /\ MaxInput \in Nat
  BY MutationAssumption DEF IInv, OutcomeInv
<1>2. CASE op \in Complete
  <2>1. Well'
    BY <1>1 DEF Well
  <2> QED
    BY <1>1, <1>2, <2>1, WellRange DEF RangeInv
<1>3. CASE op \notin Complete
  <2>1. queue = <<>>
    BY <1>3 DEF CInv, LoneInv
  <2>2. Result(op', effects', produced')
    BY <1>1, <1>3, <2>1 DEF CInv, LoneInv
  <2>3. /\ effects' \in Seq(Parts) /\ Len(effects') \in Nat /\ Len(effects') <= MaxInput
        /\ produced' \in Nat
    BY <1>1, <1>3, Counted DEF RangeInv, IInv, CallType
  <2>4. Cardinality(Items(effects')) \in Nat /\ Cardinality(Items(effects')) <= Len(effects')
    BY <2>3, ItemsCounted
  <2>5. produced' <= MaxInput
    BY <1>1, <2>2, <2>3, <2>4 DEF Result
  <2> QED
    BY <1>1, <2>3, <2>5 DEF RangeInv
<1> QED
  BY <1>2, <1>3

\* A step that counts nothing.
LEMMA QuietRange ==
  ASSUME IInv, RangeInv, UNCHANGED <<op, effects, produced>>, answer' = answer \/ answer'.count = 0
  PROVE  RangeInv'
BY MutationAssumption DEF RangeInv

\* A call that begins has counted nothing and done nothing.
LEMMA BeginRange ==
  ASSUME IInv, RangeInv, stage = "idle", UNCHANGED <<effects, produced, answer>>
  PROVE  RangeInv'
<1>1. effects = <<>> /\ Len(effects) = 0
  BY DEF IInv, StageInv
<1> QED
  BY <1>1, MutationAssumption DEF RangeInv

\* Every call of a store or a publisher begins so.
LEMMA CallsRange ==
  ASSUME IInv, CInv, RangeInv, NEW items \in Inputs, Store(items) \/ Publish(items)
  PROVE  RangeInv'
<1>1. stage = "idle" /\ UNCHANGED <<effects, produced, answer>>
  <2>1. CASE Store(items)
    BY <2>1 DEF Store, Call, RedisSet, RedisRestore, RedisDelete, RedisRaw, MongoInsert, MongoUpdate,
         MongoDelete, MongoAggregateWrite, MongoDrop, Http, SearchIndex, SearchPut, SearchUpdate,
         SearchDelete, SearchDeleteIndex, PrometheusWrite, SqliteExecute, MySqlExecute,
         PostgresExecute, SqlServerExecute, Db2Execute, CassandraExecute, CassandraExecuteCql
  <2>2. CASE Publish(items)
    BY <2>2 DEF Publish, Call, RedisXadd, RedisPublish, AmqpProduce, NatsProduce, RdkafkaProduce,
         RskafkaProduce
  <2> QED
    BY <2>1, <2>2
<1> QED
  BY <1>1, BeginRange

\* How a call goes on after an answer.
LEMMA ReturnsGoOn ==
  ASSUME IInv, Returns
  PROVE  /\ stage = "await"
         /\ \/ Finish(Unknown) \/ Finish(Definite)
            \/ \E n \in Nat, next \in {"send", "partition"} : GoOn(n, next)
<1>1. answer.count \in Nat /\ 0 \in Nat /\ 1 \in Nat
  BY DEF IInv, CallType
<1>2. CASE RedisSetReturns \/ RedisRestoreReturns \/ RedisDeleteReturns \/ RedisRawReturns
  BY <1>1, <1>2 DEF RedisSetReturns, RedisRestoreReturns, RedisDeleteReturns, RedisRawReturns,
                    Answered, OrUnknown
<1>3. CASE MongoInsertReturns \/ MongoUpdateReturns \/ MongoDeleteReturns \/ MongoAggregateReturns
            \/ MongoDropReturns
  BY <1>1, <1>3 DEF MongoInsertReturns, MongoUpdateReturns, MongoDeleteReturns, MongoAggregateReturns,
                    MongoDropReturns, Answered, OrUnknown
<1>4. CASE SearchReturns \/ PrometheusReturns \/ SqlReturns \/ UncountedReturns
  BY <1>1, <1>4 DEF SearchReturns, PrometheusReturns, SqlReturns, UncountedReturns, Answered, OrUnknown
<1>5. CASE RedisXaddReturns \/ RedisPublishReturns \/ AmqpConfirms \/ RdkafkaReturns \/ RskafkaReturns
  BY <1>1, <1>5 DEF RedisXaddReturns, RedisPublishReturns, AmqpConfirms, RdkafkaReturns,
                    RskafkaReturns, Answered, OrUnknown
<1> QED
  BY <1>2, <1>3, <1>4, <1>5 DEF Returns

\* Every step keeps the range; NATS counts a message when it has handed it over.
LEMMA NextRange ==
  ASSUME IInv, CInv, RangeInv, IInv', CInv', [MutationNext]_mutationVars
  PROVE  RangeInv'
<1> USE DEF request, remote
<1>1. \A result : Finish(result) => RangeInv'
  BY QuietRange DEF Finish
<1>2. ASSUME NEW items \in Inputs, Store(items) \/ Publish(items) PROVE RangeInv'
  BY <1>2, CallsRange
<1>3. CASE Embedded
  BY <1>3, BeginRange DEF Embedded, CallEmpty
<1>4. CASE Connect \/ KafkaTopics \/ RskafkaPartition
  BY <1>1, <1>4, QuietRange DEF Connect, KafkaTopics, RskafkaPartition
<1>5. CASE Send
  BY <1>5, QuietRange DEF Send
<1>6. CASE NatsPublish
  <2>1. CASE Finish(Unknown)
    BY <1>1, <2>1
  <2>2. CASE ~Finish(Unknown)
    <3>1. /\ op' = "nats_produce" /\ stage' = "send" /\ answer' = answer /\ answer = Nothing
      BY <1>6, <2>2 DEF NatsPublish, IInv, AnswerInv
    <3>2. op' \in Complete /\ Well'
      BY <3>1 DEF Complete, Well
    <3> QED
      BY <3>1, <3>2, WellRange, MutationAssumption DEF RangeInv
  <2> QED
    BY <2>1, <2>2
<1>7. CASE NatsFlush
  BY <1>1, <1>7 DEF NatsFlush
<1>8. CASE Returns
  <2>1. stage = "await"
    BY <1>8, ReturnsGoOn
  <2>2. ASSUME NEW n \in Nat, NEW next \in {"send", "partition"}, GoOn(n, next) PROVE RangeInv'
    BY <2>1, <2>2, GoOnRange
  <2> QED
    BY <1>1, <1>8, <2>2, ReturnsGoOn
<1>9. CASE Db2WorkerGoesOn \/ MutationDropped
  BY <1>9, QuietRange DEF Db2WorkerGoesOn, MutationDropped
<1>10. CASE Serve \/ ServeExisting \/ ServeSome \/ ServeNil \/ Refuse
  BY <1>10, ServedRange
<1>11. CASE Repeat
  <2>1. op \in Complete /\ UNCHANGED <<op, produced, answer>>
    BY <1>11 DEF Repeat, Complete
  <2> QED
    BY <2>1 DEF RangeInv
<1>12. CASE Break \/ Lose \/ OthersCreate
  BY <1>12, QuietRange DEF Break, Lose, OthersCreate
<1>13. CASE UNCHANGED mutationVars
  BY <1>13, QuietRange DEF mutationVars
<1>14. MutationNext => \/ \E items \in Inputs : Store(items) \/ Publish(items)
                       \/ Embedded
                       \/ Connect \/ KafkaTopics \/ RskafkaPartition
                       \/ Send \/ NatsPublish \/ NatsFlush
                       \/ Returns \/ Db2WorkerGoesOn \/ MutationDropped
                       \/ Serve \/ ServeExisting \/ ServeSome \/ ServeNil \/ Refuse
                       \/ Repeat \/ Break \/ Lose \/ OthersCreate
  BY DEF MutationNext, MutationStep, MutationServer
<1> QED
  BY <1>2, <1>3, <1>4, <1>5, <1>6, <1>7, <1>8, <1>9, <1>10, <1>11, <1>12, <1>13, <1>14

\* A call is always in one of its stages, and no counter exceeds the input, however
\* the call ends and however often its requests are repeated.
THEOREM MutationTypeCorrect == MutationSpec => []MutationTypeOK
<1>1. MutationInit => RangeInv
  BY MutationAssumption DEF MutationInit, RangeInv
<1>2. IInv /\ CInv /\ RangeInv /\ IInv' /\ CInv' /\ [MutationNext]_mutationVars => RangeInv'
  BY NextRange
<1>3. IInv /\ RangeInv => MutationTypeOK
  BY Counted, MutationAssumption DEF IInv, CallType, RequestType, Stages, Kinds, RangeInv, MutationTypeOK
<1>4. MutationSpec => []CInv
  BY AlwaysCounted
<1> QED
  BY <1>1, <1>2, <1>3, <1>4, AlwaysInv, PTL DEF MutationSpec
-----------------------------------------------------------------------------
(***************************************************************************)
(* What a deletion of a broker's resource promises, for any number of      *)
(* messages and of changes by other clients: success means absence, and    *)
(* what was taken away was to be taken away.  Neither is inductive: both   *)
(* rest on how far the call is (DeletionCallInv) and on what the server's  *)
(* word was worth when it was given (WordInv).                             *)
(***************************************************************************)

Waiting == {"inspect", "ask", "await", "verify"}

\* What was taken away, as a value.
DestroyedType ==
  destroyed \in [done : BOOLEAN, messages : 0..MaxMessages, consumers : {0, 1},
                 kind : {"none", "resource", "other"}]

\* Before the request nothing has happened on its behalf, and no verdict comes early.
DeletionCallInv ==
  /\ step \in {"idle", "inspect", "ask"} =>
       ~asked /\ ~marked /\ ~destroyed.done /\ served = "none"
  /\ step # "over" => verdict = "none"
  /\ step = "verify" => served = "ok"
  /\ step = "inspect" => broker # "redis"

\* Options go only to RabbitMQ; only Redis has keys of other kinds; Kafka marks topics.
DeletionAdmittedInv ==
  /\ asked \/ marked \/ step \in Waiting => broker \in {"amqp", "management"} \/ options = NoOptions
  /\ there = "other" => broker = "redis"
  /\ marked => broker \in Kafka /\ there = "resource"

\* Once the server has said so, the resource is gone, or on Kafka will be missed
\* only after it went; and a Redis stream is there until its one script is served.
WordInv ==
  /\ served = "ok" => broker \in Kafka \/ gone
  /\ served = "ok" /\ there = "none" => gone
  /\ asked => served = "none" /\ (broker = "redis" => ~destroyed.done)

DeletionIInv == /\ DeletionTypeOK /\ DestroyedType
        /\ DeletionCallInv /\ DeletionAdmittedInv /\ WordInv
        /\ VerifiedAbsenceIsReal /\ DestructionIsAsAsked

USE DEF Brokers, Kafka, Options, NoOptions, Intact, Waiting

\* The inductive invariant holds before the first call.
LEMMA DeletionInitInv == DeletionInit => DeletionIInv
<1> SUFFICES ASSUME DeletionInit PROVE DeletionIInv
  OBVIOUS
<1> USE DEF DeletionInit
<1>1. DeletionTypeOK
  <2>1. marked \in BOOLEAN /\ asked \in BOOLEAN /\ gone \in BOOLEAN
    OBVIOUS
  <2>2. broker \in Brokers /\ options \in Options
    OBVIOUS
  <2>3. messages \in 0..MaxMessages /\ counted \in 0..MaxMessages /\ changes \in 0..MaxChanges
    BY DeletionAssumption
  <2> QED
    BY <2>1, <2>2, <2>3 DEF DeletionTypeOK
<1>2. DestroyedType /\ ~destroyed.done
  BY DeletionAssumption DEF DestroyedType
<1>3. DeletionCallInv
  BY <1>2 DEF DeletionCallInv
<1>4. DeletionAdmittedInv
  BY DEF DeletionAdmittedInv
<1>5. WordInv
  BY <1>2 DEF WordInv
<1> QED
  BY <1>1, <1>2, <1>3, <1>4, <1>5 DEF DeletionIInv, VerifiedAbsenceIsReal, DestructionIsAsAsked

\* A call starts from a state in which nothing was asked for; the brokers that take no
\* options are started with none, or not at all.
LEMMA DeletionStartInv ==
  ASSUME DeletionIInv, NEW name \in Brokers, NEW opts \in Options, NEW admitted \in BOOLEAN,
         NEW first \in {"inspect", "ask"}, Start(name, opts, admitted, first),
         admitted => name \in {"amqp", "management"} \/ opts = NoOptions,
         first = "inspect" => name # "redis"
  PROVE  DeletionIInv'
  BY DeletionAssumption
  DEF DeletionIInv, DeletionTypeOK, DestroyedType, DeletionCallInv, DeletionAdmittedInv, WordInv,
      VerifiedAbsenceIsReal, DestructionIsAsAsked, Start

\* A call that ends well has a reason to.
LEMMA ConcludeInv ==
  ASSUME DeletionIInv, step \notin {"idle", "over"}, NEW result \in {"Ok", "Failed"},
         Conclude(result), result = "Ok" => gone
  PROVE  DeletionIInv'
  BY DEF DeletionIInv, DeletionTypeOK, DestroyedType, DeletionCallInv, DeletionAdmittedInv, WordInv,
         VerifiedAbsenceIsReal, DestructionIsAsAsked, Conclude, caller, resource

\* Verification begins when the server has accepted the deletion.
LEMMA ContinueInv ==
  ASSUME DeletionIInv, step = "await", served = "ok", Continue("verify")
  PROVE  DeletionIInv'
  BY DEF DeletionIInv, DeletionTypeOK, DestroyedType, DeletionCallInv, DeletionAdmittedInv, WordInv,
         VerifiedAbsenceIsReal, DestructionIsAsAsked, Continue, caller, resource

\* Looking at the resource changes what was counted; Redis has no such step.
LEMMA InspectInv ==
  ASSUME DeletionIInv, step = "inspect", Inspect("ask")
  PROVE  DeletionIInv'
  BY DEF DeletionIInv, DeletionTypeOK, DestroyedType, DeletionCallInv, DeletionAdmittedInv, WordInv,
         VerifiedAbsenceIsReal, DestructionIsAsAsked, Inspect, caller, resource

\* A request that is lost or stays under way is still a Boolean.
LEMMA AnswerGone ==
  ASSUME NEW a, NEW b \in BOOLEAN, a \in {b, FALSE}
  PROVE  a \in BOOLEAN /\ (a => b)
<1>1. a = b \/ a = FALSE
  BY Zenon
<1>2. CASE a = b
  BY <1>2, Zenon
<1>3. CASE a = FALSE
  BY <1>3, Zenon
<1> QED
  BY <1>1, <1>2, <1>3, Zenon

\* The request leaves, is lost, or its call is dropped; the resource stays as it is.
LEMMA RequestInv ==
  ASSUME DeletionIInv, Ask \/ DeletionBreaks \/ DeletionDropped
  PROVE  DeletionIInv'
<1> USE DEF DeletionIInv, DeletionTypeOK, DestroyedType, DeletionCallInv, DeletionAdmittedInv, WordInv,
            VerifiedAbsenceIsReal, DestructionIsAsAsked, caller, resource
<1>1. CASE Ask
  BY <1>1 DEF Ask
<1>2. CASE DeletionBreaks
  <2>1. asked' \in BOOLEAN /\ (asked' => asked)
    BY <1>2, AnswerGone DEF DeletionBreaks
  <2> QED
    BY <1>2, <2>1 DEF DeletionBreaks
<1>3. CASE DeletionDropped
  <2>1. asked' \in BOOLEAN /\ (asked' => asked)
    BY <1>3, AnswerGone DEF DeletionDropped
  <2> QED
    BY <1>3, <2>1 DEF DeletionDropped
<1> QED
  BY <1>1, <1>2, <1>3
-----------------------------------------------------------------------------
(* The server and other clients *)

\* What TakeAway puts on record: the resource as it stood, the first time it goes.
LEMMA TakenAway ==
  ASSUME DeletionTypeOK, DestroyedType, TakeAway
  PROVE  /\ there' = "none" /\ messages' = 0 /\ consumers' = 0
         /\ marked' = FALSE /\ gone' = TRUE /\ DestroyedType'
         /\ \/ destroyed' = destroyed
            \/ /\ ~destroyed.done /\ there # "none" /\ destroyed'.done
               /\ destroyed'.messages = messages /\ destroyed'.consumers = consumers
               /\ destroyed'.kind = there
  BY DEF TakeAway, DeletionTypeOK, DestroyedType

\* RabbitMQ refuses what its options forbid, Redis what is no stream; the others were
\* given no options.  Kafka says yes before the topic goes.
LEMMA ServeInv == ASSUME DeletionIInv, ServeDeletion PROVE DeletionIInv'
<1> USE DEF DeletionIInv, DeletionTypeOK, DeletionCallInv, DeletionAdmittedInv, WordInv,
            VerifiedAbsenceIsReal, DestructionIsAsAsked, caller
<1>1. asked /\ asked' = FALSE /\ UNCHANGED <<caller, step, verdict>>
      /\ counted' = (IF broker = "redis" THEN messages ELSE counted)
  BY DEF ServeDeletion
<1>2. step \in {"await", "over"}
  BY <1>1
<1>3. CASE served' = "refused" /\ UNCHANGED resource
  <2>a. UNCHANGED <<there, messages, consumers, marked, gone, destroyed>>
    BY <1>3 DEF resource
  <2>b. marked' \in BOOLEAN /\ asked' \in BOOLEAN /\ gone' \in BOOLEAN
    BY <1>1, <2>a
  <2>1. DeletionTypeOK' /\ DestroyedType'
    BY <1>1, <1>2, <1>3, <2>a, <2>b DEF DestroyedType
  <2>2. DeletionCallInv'
    BY <1>1, <1>2, <1>3, <2>a
  <2>3. DeletionAdmittedInv'
    BY <1>1, <1>2, <1>3, <2>a
  <2>4. WordInv'
    BY <1>1, <1>2, <1>3, <2>a
  <2>5. VerifiedAbsenceIsReal' /\ DestructionIsAsAsked'
    BY <1>1, <1>2, <1>3, <2>a
  <2> QED
    BY <2>1, <2>2, <2>3, <2>4, <2>5
<1>4. CASE /\ broker \in Kafka /\ there = "resource" /\ served' = "ok" /\ marked' = TRUE
           /\ UNCHANGED <<there, messages, consumers, gone, destroyed>>
  <2>1. DeletionTypeOK' /\ DestroyedType'
    BY <1>1, <1>2, <1>4 DEF DestroyedType
  <2>2. DeletionCallInv'
    BY <1>1, <1>2, <1>4
  <2>3. DeletionAdmittedInv'
    BY <1>1, <1>2, <1>4
  <2>4. WordInv'
    BY <1>1, <1>2, <1>4
  <2>5. VerifiedAbsenceIsReal' /\ DestructionIsAsAsked'
    BY <1>1, <1>2, <1>4
  <2> QED
    BY <2>1, <2>2, <2>3, <2>4, <2>5
<1>5. CASE /\ served' = "ok" /\ TakeAway
           /\ broker = "redis" => there = "resource"
           /\ broker \in {"amqp", "management"} =>
                (options.if_empty => messages = 0) /\ (options.if_unused => consumers = 0)
  <2>1. broker \in {"amqp", "management"} \/ options = NoOptions
    BY <1>1
  <2>2. (options.if_empty => messages = 0) /\ (options.if_unused => consumers = 0)
    BY <1>5, <2>1
  <2>3. there # "other"
    BY <1>5
  <2>4. /\ there' = "none" /\ messages' = 0 /\ consumers' = 0
        /\ marked' = FALSE /\ gone' = TRUE /\ DestroyedType'
    BY <1>5, TakenAway
  <2>5. DeletionTypeOK'
    <3>1. marked' \in BOOLEAN /\ asked' \in BOOLEAN /\ gone' \in BOOLEAN
      BY <1>1, <2>4
    <3> QED
      BY <1>1, <1>5, <2>4, <3>1, DeletionAssumption
  <2>6. DeletionCallInv' /\ DeletionAdmittedInv' /\ WordInv'
    BY <1>1, <1>2, <1>5, <2>4
  <2>7. DestructionIsAsAsked'
    BY <1>1, <1>5, <2>2, <2>3, TakenAway
  <2> QED
    BY <2>4, <2>5, <2>6, <2>7
<1>6. broker \in {"amqp", "management"} =>
        /\ options.if_empty /\ ~(messages > 0) => messages = 0
        /\ options.if_unused /\ ~(consumers > 0) => consumers = 0
  BY DeletionAssumption
<1> QED
  BY <1>3, <1>4, <1>5, <1>6 DEF ServeDeletion

\* A topic that was marked goes; its broker takes no options.
LEMMA KafkaInv == ASSUME DeletionIInv, KafkaTakesAway PROVE DeletionIInv'
<1> USE DEF DeletionIInv, DeletionTypeOK, DeletionCallInv, DeletionAdmittedInv, WordInv,
            VerifiedAbsenceIsReal, DestructionIsAsAsked, caller
<1>1. marked /\ TakeAway /\ UNCHANGED <<caller, step, asked, served, counted, verdict>>
  BY DEF KafkaTakesAway
<1>2. broker \in Kafka /\ there = "resource" /\ options = NoOptions
      /\ step \notin {"idle", "inspect", "ask"}
  BY <1>1
<1>3. /\ there' = "none" /\ messages' = 0 /\ consumers' = 0
      /\ marked' = FALSE /\ gone' = TRUE /\ DestroyedType'
  BY <1>1, TakenAway
<1>4. DeletionTypeOK'
  <2>1. marked' \in BOOLEAN /\ asked' \in BOOLEAN /\ gone' \in BOOLEAN
    BY <1>1, <1>3
  <2> QED
    BY <1>1, <1>3, <2>1, DeletionAssumption
<1>5. DeletionCallInv' /\ DeletionAdmittedInv' /\ WordInv'
  BY <1>1, <1>2, <1>3
<1>6. DestructionIsAsAsked'
  BY <1>1, <1>2, TakenAway
<1> QED
  BY <1>3, <1>4, <1>5, <1>6

\* Whoever else takes the resource away once the deletion was asked for, it is gone.
LEMMA OthersInv == ASSUME DeletionIInv, OthersChange PROVE DeletionIInv'
<1> USE DEF DeletionIInv, DeletionTypeOK, DestroyedType, DeletionCallInv, DeletionAdmittedInv, WordInv,
            VerifiedAbsenceIsReal, DestructionIsAsAsked
<1>1. changes' \in 0..MaxChanges /\ step \notin {"idle", "over"}
      /\ UNCHANGED <<broker, options, step, asked, served, counted, verdict>>
  BY DeletionAssumption DEF OthersChange
<1>2. CASE /\ there = "resource" /\ messages' \in 0..MaxMessages /\ consumers' \in {0, 1}
           /\ UNCHANGED <<there, marked, gone, destroyed>>
  BY <1>1, <1>2
<1>3. CASE /\ there = "none" /\ there' = "resource"
           /\ UNCHANGED <<messages, consumers, marked, gone, destroyed>>
  BY <1>1, <1>3
<1>4. CASE /\ there # "none" /\ there' = "none" /\ messages' = 0 /\ consumers' = 0
           /\ marked' = FALSE /\ gone' = (gone \/ asked \/ served = "ok") /\ UNCHANGED destroyed
  <2>1. gone' \in BOOLEAN /\ (gone => gone') /\ (served = "ok" => gone')
    BY <1>4, Zenon
  <2>2. DeletionTypeOK' /\ DestroyedType'
    <3>1. marked' \in BOOLEAN /\ asked' \in BOOLEAN
      BY <1>1, <1>4
    <3> QED
      BY <1>1, <1>4, <2>1, <3>1, DeletionAssumption
  <2>3. DeletionCallInv' /\ DeletionAdmittedInv' /\ WordInv'
    BY <1>1, <1>4, <2>1
  <2>4. VerifiedAbsenceIsReal' /\ DestructionIsAsAsked'
    BY <1>1, <1>4, <2>1
  <2> QED
    BY <2>2, <2>3, <2>4
<1> QED
  BY <1>2, <1>3, <1>4 DEF OthersChange
-----------------------------------------------------------------------------
(* The adapters *)

\* Every call looks, asks, or is refused at once; only RabbitMQ is asked with options.
LEMMA CallsInv ==
  ASSUME DeletionIInv, NEW opts \in Options,
         \/ RedisDeleteStream(opts) \/ AmqpDeleteQueue(opts) \/ ManagementDeleteQueue(opts)
         \/ NatsDeleteStream(opts) \/ RdkafkaDeleteTopic(opts) \/ RskafkaDeleteTopic(opts)
  PROVE  DeletionIInv'
<1>1. CASE RedisDeleteStream(opts)
  BY <1>1, DeletionStartInv DEF RedisDeleteStream
<1>2. CASE AmqpDeleteQueue(opts)
  BY <1>2, DeletionStartInv DEF AmqpDeleteQueue
<1>3. CASE ManagementDeleteQueue(opts)
  BY <1>3, DeletionStartInv DEF ManagementDeleteQueue
<1>4. CASE NatsDeleteStream(opts)
  BY <1>4, DeletionStartInv DEF NatsDeleteStream
<1>5. CASE RdkafkaDeleteTopic(opts)
  BY <1>5, DeletionStartInv DEF RdkafkaDeleteTopic
<1>6. CASE RskafkaDeleteTopic(opts)
  BY <1>6, DeletionStartInv DEF RskafkaDeleteTopic
<1> QED
  BY <1>1, <1>2, <1>3, <1>4, <1>5, <1>6

\* The first look, and a request that fails without having changed anything.
LEMMA LooksInv ==
  ASSUME DeletionIInv, AmqpDeclaresPassively \/ ManagementInspects \/ NatsInspects \/ KafkaInspects
               \/ LooksInVain
  PROVE  DeletionIInv'
<1>1. CASE LooksInVain
  BY <1>1, ConcludeInv DEF LooksInVain
<1>2. CASE AmqpDeclaresPassively \/ ManagementInspects \/ NatsInspects \/ KafkaInspects
  BY <1>2, InspectInv
  DEF AmqpDeclaresPassively, ManagementInspects, NatsInspects, KafkaInspects
<1> QED
  BY <1>1, <1>2

\* The server's answer: AMQP's broker gives its word, the others are verified.
LEMMA AnswersInv ==
  ASSUME DeletionIInv, RedisDeleted \/ AmqpDeleted \/ ManagementDeleted \/ NatsDeleted \/ KafkaDeleted
  PROVE  DeletionIInv'
<1>1. CASE AmqpDeleted
  <2>1. served = "ok" => gone
    BY <1>1 DEF AmqpDeleted, DeletionIInv, WordInv
  <2> QED
    BY <1>1, <2>1, ConcludeInv DEF AmqpDeleted
<1>2. CASE RedisDeleted \/ NatsDeleted \/ KafkaDeleted
  BY <1>2, ConcludeInv, ContinueInv DEF RedisDeleted, NatsDeleted, KafkaDeleted
<1>3. CASE ManagementDeleted
  <2>1. step = "await"
    BY <1>3 DEF ManagementDeleted
  <2>2. (served = "ok" /\ Continue("verify")) \/ Conclude("Failed")
    BY <1>3 DEF ManagementDeleted
  <2> QED
    BY <2>1, <2>2, ConcludeInv, ContinueInv
<1> QED
  BY <1>1, <1>2, <1>3

\* Verification: the name is free after the server has said that the deletion was done.
LEMMA VerifiesInv ==
  ASSUME DeletionIInv, RedisVerifies \/ ManagementVerifies \/ NatsVerifies \/ KafkaVerifies
  PROVE  DeletionIInv'
<1>1. step = "verify" /\ served = "ok"
  BY DEF RedisVerifies, ManagementVerifies, NatsVerifies, KafkaVerifies, DeletionIInv, DeletionCallInv
<1>2. (there = "none" \/ broker \notin Kafka) => gone
  BY <1>1 DEF DeletionIInv, WordInv
<1>3. CASE RedisVerifies \/ NatsVerifies \/ KafkaVerifies
  BY <1>1, <1>2, <1>3, ConcludeInv DEF RedisVerifies, NatsVerifies, KafkaVerifies
<1>4. CASE ManagementVerifies
  <2>1. gone
    BY <1>2, <1>4 DEF ManagementVerifies
  <2>2. Conclude("Ok") \/ Conclude("Failed")
    BY <1>4 DEF ManagementVerifies
  <2> QED
    BY <1>1, <2>1, <2>2, ConcludeInv
<1> QED
  BY <1>3, <1>4

\* Every step keeps the inductive invariant.
LEMMA DeletionStepInv == DeletionIInv /\ [DeletionNext]_deletionVars => DeletionIInv'
<1> SUFFICES ASSUME DeletionIInv, [DeletionNext]_deletionVars PROVE DeletionIInv'
  OBVIOUS
<1>1. CASE \E opts \in Options :
             \/ RedisDeleteStream(opts) \/ AmqpDeleteQueue(opts) \/ ManagementDeleteQueue(opts)
             \/ NatsDeleteStream(opts) \/ RdkafkaDeleteTopic(opts) \/ RskafkaDeleteTopic(opts)
  BY <1>1, CallsInv
<1>2. CASE Deletion
  BY <1>2, LooksInv, AnswersInv, VerifiesInv, RequestInv DEF Deletion
<1>3. CASE ServeDeletion
  BY <1>3, ServeInv
<1>4. CASE KafkaTakesAway
  BY <1>4, KafkaInv
<1>5. CASE OthersChange
  BY <1>5, OthersInv
<1>6. CASE UNCHANGED deletionVars
  BY <1>6
  DEF deletionVars, DeletionIInv, DeletionTypeOK, DestroyedType, DeletionCallInv, DeletionAdmittedInv,
      WordInv, VerifiedAbsenceIsReal, DestructionIsAsAsked
<1> QED
  BY <1>1, <1>2, <1>3, <1>4, <1>5, <1>6 DEF DeletionNext
-----------------------------------------------------------------------------
(* Theorems *)

\* The inductive invariant holds at all times.
LEMMA DeletionAlwaysInv == DeletionSpec => []DeletionIInv
  BY DeletionInitInv, DeletionStepInv, PTL DEF DeletionSpec

\* Types, for any number of messages and of changes by others.
THEOREM DeletionTypeCorrect == DeletionSpec => []DeletionTypeOK
<1>1. DeletionIInv => DeletionTypeOK
  BY DEF DeletionIInv
<1> QED
  BY <1>1, DeletionAlwaysInv, PTL

\* Whatever other clients do between the three requests of a call, success means that
\* the resource was absent at some time since the deletion was asked for.
THEOREM SuccessMeansAbsence == DeletionSpec => []VerifiedAbsenceIsReal
<1>1. DeletionIInv => VerifiedAbsenceIsReal
  BY DEF DeletionIInv
<1> QED
  BY <1>1, DeletionAlwaysInv, PTL

\* Whatever is published or subscribed after the first look, a deletion never takes
\* away messages, consumers or keys of another kind that its caller has excluded.
THEOREM DestructionIsGuarded == DeletionSpec => []DestructionIsAsAsked
<1>1. DeletionIInv => DestructionIsAsAsked
  BY DEF DeletionIInv
<1> QED
  BY <1>1, DeletionAlwaysInv, PTL
=============================================================================
