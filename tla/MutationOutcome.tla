-------------------------- MODULE MutationOutcome ---------------------------
(***************************************************************************)
(* What every mutation promises its caller, whatever the protocol under it *)
(* (docs/interface-usage.zh-CN.md, OUTCOME_INDETERMINATE): its parts take  *)
(* effect in their order and once each, as far as they do; an error other  *)
(* than OUTCOME_INDETERMINATE means that nothing was changed and nothing   *)
(* will be; success means that nothing is left to happen.                  *)
(***************************************************************************)
EXTENDS Naturals, Sequences

CONSTANTS
  Parts,     \* the positions in the input; 0 is a queue or topic made for it
  MaxParts   \* how many parts take effect at most in one step

VARIABLES
  lane,      \* parts of one lane stay in order
  terms,     \* what a protocol falls short of: it "repeats" requests, or its
             \* success is "early"
  effects,   \* the parts that took effect, in this order
  outcome    \* what the caller was told

vars == <<lane, terms, effects, outcome>>

Outcomes == {"none", "Ok", "Definite", "OutcomeIndeterminate"}
Terms    == SUBSET {"repeats", "early"}

\* Only a repetition may come after a later part.
InOrder(parts) ==
  \A i, j \in DOMAIN parts : i < j /\ lane[parts[i]] = lane[parts[j]] =>
    \/ parts[i] < parts[j]
    \/ "repeats" \in terms /\ \E k \in 1..i : parts[k] = parts[j]

Init ==
  /\ lane \in [Parts -> {0, 1}] /\ terms \in Terms
  /\ effects = <<>> /\ outcome = "none"

\* A call starts; it may be over at once.
Begin ==
  /\ effects = <<>> /\ outcome = "none"
  /\ lane' \in [Parts -> {0, 1}] /\ terms' \in Terms
  /\ outcome' \in {"none", "Ok", "Definite"}
  /\ UNCHANGED effects

\* Some parts take effect, perhaps after the caller was told that nobody knows.
TakeEffect(parts) ==
  /\ outcome \in {"none", "OutcomeIndeterminate"} \/ (outcome = "Ok" /\ "early" \in terms)
  /\ InOrder(effects \o parts)
  /\ effects' = effects \o parts
  /\ UNCHANGED <<lane, terms, outcome>>

Return ==
  /\ outcome = "none"
  /\ outcome' \in Outcomes \ {"none"}
  /\ outcome' = "Definite" => effects = <<>>
  /\ UNCHANGED <<lane, terms, effects>>

Next == \/ Begin \/ Return
        \/ \E n \in 1..MaxParts : \E parts \in [1..n -> Parts] : TakeEffect(parts)

Spec == Init /\ [][Next]_vars
=============================================================================
