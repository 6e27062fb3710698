---------------------------- MODULE MCReviewLane ----------------------------
(* Instance of ReviewLane. *)
EXTENDS ReviewLane, TLC
CONSTANTS t1, d1, op
=============================================================================
