--------------------------- MODULE LaneRefinement ---------------------------
(***************************************************************************)
(* The integration lane implements SerialLanding.  A candidate counts as   *)
(* tested on the commit its row names only while the branch head is the    *)
(* head its row names; a landing is reported when the attempt is recorded  *)
(* as integrated.                                                          *)
(***************************************************************************)
EXTENDS IntegrationLane

TestedOn == [t \in Task |->
    IF evidence[t].test_head = branch[t] THEN evidence[t].test_base ELSE NoSha]

Reported == {l \in Task \X (1..MaxAttempts) :
    l[2] \in 1..Attempt(l[1]) /\ attempts[l[1]][l[2]] = "integrated"}

Promise == INSTANCE SerialLanding WITH tested <- TestedOn, reported <- Reported

\* Every step of the lane is a step of SerialLanding or changes nothing that
\* SerialLanding sees: integrate.rs serialises landings as it promises.
ImplementsSerialLanding == Promise!Spec
=============================================================================
