----------------------------- MODULE MCDispatch -----------------------------
(* Instances of Dispatch. *)
EXTENDS Dispatch, TLC
CONSTANTS d1, d2, A, B, Install, Migrate, Entered, Again
OneAgent == {Install}
TwoAgents == {Install, Migrate}
OneEdge  == [a \in Agent |-> {Entered}]
TwoEdges == [a \in Agent |-> {Entered, Again}]
Twice == [a \in Agent |-> 2]
=============================================================================
