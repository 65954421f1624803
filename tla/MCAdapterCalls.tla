--------------------------- MODULE MCAdapterCalls ---------------------------
(***************************************************************************)
(* One call of an adapter for TLC: a mutation, a deletion or a read.  A    *)
(* command makes one of them, so the others are idle meanwhile.            *)
(***************************************************************************)
EXTENDS Mutation, ResourceDeletion, BoundedRead, LagDimensions, TLC

MCItem(bytes, valid, mark) == [bytes |-> bytes, valid |-> valid, mark |-> mark]
MCItemKinds   == {MCItem(1, TRUE, 0), MCItem(2, TRUE, 1), MCItem(3, TRUE, 0), MCItem(1, FALSE, 0)}
MCInputBudget == [max_items |-> 2, max_item_bytes |-> 2, max_batch_bytes |-> 4]

\* The limits next to 0, to the size of a listing and to usize::MAX.
MCSizeOf      == [n \in Names |-> IF n = 2 THEN 2 ELSE 1]
MCBudget(items, bytes) == [max_items |-> items, max_bytes |-> bytes]
MCReadBudgets == {MCBudget(0, 4), MCBudget(MaxUsize, 4), MCBudget(2, 4), MCBudget(1, 8),
                  MCBudget(2, MaxUsize), MCBudget(MaxUsize, MaxUsize)}
MCSeries      == [bytes : {1}, samples : UNION {[1..n -> [bytes : {1}]] : n \in 0..2}]
MCSeriesAnswers == UNION {[1..n -> MCSeries] : n \in 0..3}
MCSeriesBudgets == [max_series : {0, 1, 2}, max_samples : {1, 2, 3, MaxUsize}, max_bytes : {3, 8}]

vars == <<mutationVars, deletionVars, readVars>>

Init == MutationInit /\ DeletionInit /\ ReadInit

Mutates == step = "idle" /\ phase = "idle" /\ MutationNext /\ UNCHANGED <<deletionVars, readVars>>
Deletes == stage = "idle" /\ phase = "idle" /\ DeletionNext /\ UNCHANGED <<mutationVars, readVars>>
Reads   == stage = "idle" /\ step = "idle" /\ ReadNext /\ UNCHANGED <<mutationVars, deletionVars>>
Next    == Mutates \/ Deletes \/ Reads

\* Only a read is more than a bounded number of requests.
Fairness == WF_vars(stage = "idle" /\ step = "idle" /\ ReadStep
                    /\ UNCHANGED <<mutationVars, deletionVars>>)

Spec == Init /\ [][Next]_vars /\ Fairness

TypeOK == MutationTypeOK /\ DeletionTypeOK /\ ReadTypeOK
=============================================================================
