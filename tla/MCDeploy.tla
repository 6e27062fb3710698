------------------------------ MODULE MCDeploy ------------------------------
(* Instances of Deploy. *)
EXTENDS Deploy, TLC
CONSTANTS d1, d2, A, B, op
TheAgents == {Install, Migrate, Cleanup}
TheEdges  == [a \in Agent |-> IF a = Install THEN {Enter} ELSE {Stay}]
\* The shipped agents have one attempt; a second for the install lets a lock
\* cool down.
Attempts == [a \in Agent |-> IF a = Install THEN 2 ELSE 1]
=============================================================================
