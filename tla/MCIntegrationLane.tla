------------------------- MODULE MCIntegrationLane -------------------------
(* Instances of IntegrationLane: two tasks, A and B. *)
EXTENDS LaneRefinement, TLC
CONSTANTS A, B
Tasks == {A, B}
NoTask == {}
OnlyB == {B}
Swap == Permutations(Tasks)      \* where Reviewed is all or none
\* State constraint: one of the two tasks has been tried once at most.
OneRetries == \E t \in Tasks : Len(attempts[t]) <= 1
\* Action constraint: reviews are made of tasks that need one, while they wait for it.
ReviewsWhileWaiting ==
    \A t \in Tasks : Len(review'[t]) > Len(review[t]) =>
        t \in Reviewed /\ pc[t] = "idle" /\ status[t] \in {"in_review", "integration_blocked"}
=============================================================================
