--------------------------- MODULE SerialLanding ---------------------------
(***************************************************************************)
(* What the integration lane promises about main, without saying how: work *)
(* lands one candidate at a time, each on the very commit its tests ran    *)
(* on; a landing is only taken back by the run that made it, while it is   *)
(* the tip and unreported; what is reported integrated stays.              *)
(***************************************************************************)
EXTENDS Naturals, Sequences

CONSTANT Task

VARIABLES
    main,       \* the first-parent chain of main
    tested,     \* the commit of main the candidate of each task passed on
    reported    \* landings reported as integrated

vars == <<main, tested, reported>>

Init ==
    /\ main = <<>>
    /\ \A t \in Task : tested[t] # main
    /\ reported = {}

\* A candidate changes, or is tested again, on whichever commit.
Test(t) ==
    /\ tested' = [tested EXCEPT ![t] = tested'[t]]
    /\ UNCHANGED <<main, reported>>

Land(t) ==
    /\ tested[t] = main
    /\ Len(main') = Len(main) + 1
    /\ main' = Append(main, main'[Len(main')])
    /\ main'[Len(main')].by[1] = t
    /\ UNCHANGED <<tested, reported>>

TakeBack(t) ==
    /\ main # <<>> /\ main[Len(main)].by[1] = t
    /\ main[Len(main)].by \notin reported
    /\ main' = SubSeq(main, 1, Len(main) - 1)
    /\ UNCHANGED <<tested, reported>>

Report(t) ==
    /\ \E i \in 1..Len(main) :
         main[i].by[1] = t /\ reported' = reported \cup {main[i].by}
    /\ UNCHANGED <<main, tested>>

Next == \E t \in Task : Test(t) \/ Land(t) \/ TakeBack(t) \/ Report(t)

Spec == Init /\ [][Next]_vars
=============================================================================
