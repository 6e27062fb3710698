---------------------------- MODULE MCAutoDrive ----------------------------
(* Instances of AutoDrive. *)
EXTENDS AutoDrive, TLC
CONSTANTS A, B, p1, p2, p3
=============================================================================
