---------------------------- MODULE MCObservations ----------------------------
(* Instances of Observations. *)
EXTENDS Observations

CONSTANTS o1, o2

\* Two observations: the first is ratified and may come from intake with its
\* review, whose one verdict gives it a task; the second is neither reviewed
\* nor ratified.  Statuses auto-resolve treats as it treats open or resolved
\* are left out.
OneRatified ==
    /\ obs'[o2].status # "ready"
    /\ \A o \in Obs : obs'[o].status \notin {"needs_info", "confirmed", "in_progress", "wont_fix"}
    /\ \A r \in Ruling : /\ o2 \notin ruling'[r].covers
                         /\ ruling'[r].status # "withdrawn"
                         /\ ruling'[r].verdict \in {None, "create"}
    /\ \A o \in Obs : obs'[o].clearable = None /\ obs'[o].ack = None

\* Tasks that people add link both observations, and one task at most is
\* abandoned: there is always a task left to mint.
TasksSuffice ==
    /\ \A t \in Task : task'[t].status # "none" => task'[t].minted \/ Len(task'[t].links) = 2
    /\ \A t, u \in Task : {task'[t].status, task'[u].status} = {"abandoned"} => t = u

TwoLinked == OneRatified /\ TasksSuffice
=============================================================================
