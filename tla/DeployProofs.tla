---------------------------- MODULE DeployProofs ----------------------------
(***************************************************************************)
(* Theorems about Deploy, for any daemons, operators and rows: whatever    *)
(* dies, fails or is closed over, the steps written on rows are right      *)
(* about the binary as long as no two installs overlap.                    *)
(***************************************************************************)
EXTENDS Deploy, DispatchProofs

-----------------------------------------------------------------------------
(* The dispatcher below: its invariant, and the rows its work is about.    *)

\* Work in a daemon's hands, and every lock, is of a row that has landed.
InHand == {"claim", "run", "gate"}

GroundedDaemon(d) ==
    /\ daemon[d].bound \subseteq history
    /\ daemon[d].pc \in InHand => daemon[d].at[1] \in Landed
    /\ \A c \in daemon[d].todo : c.work[1] \in Landed
Grounded ==
    /\ \A h \in history : h[1] \in Landed
    /\ \A w \in Work : ~Absent(w) => w[1] \in Landed
    /\ \A d \in Daemon : GroundedDaemon(d)

LEMMA LandedStays ==
    ASSUME history \subseteq history'
    PROVE  Landed \subseteq Landed'
BY DEF Landed

LEMMA GroundedWhenWorldMoves ==
    ASSUME Grounded, UNCHANGED work, history \subseteq history', \A h \in history' : h[1] \in Landed'
    PROVE  Grounded'
<1>1. Landed \subseteq Landed'
  BY LandedStays
<1> QED  BY <1>1 DEF Grounded, GroundedDaemon, work, Absent

LEMMA GroundedUnderDaemon ==
    ASSUME TypeOK, Grounded, NEW d \in Daemon, DaemonNext(d)
    PROVE  Grounded'
<1>0. /\ history' = history /\ Landed' = Landed /\ GroundedDaemon(d)
      /\ daemon[d] \in Daemons /\ daemon \in [Daemon -> Daemons]
  <2>1. UNCHANGED world
    BY DEF DaemonNext, Proceeds, Bookkeeps, Polling, Boot, Seeded, StartPolling, TryClaim,
           RetryPasses, RetryHalted, RetryGatedOut, CheckSeeded, Seed, ClaimForRetry, Finish,
           FindRetryable, Consider, Crash, FinishLost
  <2> QED  BY <2>1 DEF world, Landed, Grounded, TypeOK
<1> DEFINE Fine ==
      /\ \A w \in Work : lock'[w].state # "absent" => w[1] \in Landed
      /\ \A e \in Daemon : e # d => daemon'[e] = daemon[e]
      /\ daemon'[d].bound \subseteq history
      /\ daemon'[d].pc \in InHand => daemon'[d].at[1] \in Landed
      /\ \A c \in daemon'[d].todo : c.work[1] \in Landed
<1>1. SUFFICES Fine
  BY <1>0 DEF Grounded, GroundedDaemon, Absent
<1> USE DEF Grounded, GroundedDaemon, Absent, InHand, Daemons
<1>2. CASE Boot(d)
  <2>1. /\ daemon'[d] = [Off EXCEPT !.pc = "seed", !.bound = history, !.left = Agent]
        /\ lock' = lock /\ \A e \in Daemon : e # d => daemon'[e] = daemon[e]
    BY <1>0, <1>2 DEF Boot
  <2>2. daemon'[d].todo = {} /\ daemon'[d].bound = history /\ daemon'[d].pc = "seed"
    BY <2>1 DEF Off
  <2> QED  BY <1>0, <2>1, <2>2
<1>13. CASE Crash(d)
  <2>1. /\ daemon'[d] = Off /\ lock' = lock
        /\ \A e \in Daemon : e # d => daemon'[e] = daemon[e]
    BY <1>0, <1>13 DEF Crash
  <2> QED  BY <1>0, <2>1 DEF Off
<1>3. CASE Seeded(d) \/ StartPolling(d)
  <2>1. /\ daemon'[d].at = daemon[d].at /\ daemon'[d].todo = daemon[d].todo
        /\ daemon'[d].bound \in {daemon[d].bound, {}} /\ daemon'[d].pc \in {"seed", "poll"}
    BY <1>0, <1>3 DEF Seeded, StartPolling
  <2> QED  BY <1>0, <1>3, <2>1 DEF Seeded, StartPolling
<1>12. CASE FinishLost(d) \/ RetryGatedOut(d)
  BY <1>0, <1>12 DEF FinishLost, RetryGatedOut, Polls
<1>4. ASSUME NEW a \in Agent, CheckSeeded(d, a) PROVE Fine
  BY <1>0, <1>4 DEF CheckSeeded
<1>5. ASSUME NEW e \in Edge, Seed(d, e) PROVE Fine
  <2>1. ASSUME NEW w \in Work, lock'[w].state # "absent", Absent(w) PROVE w[1] \in Landed
    <3>1. <<w[1], e>> \in history
      BY <1>0, <1>5, <2>1 DEF Seed
    <3> QED  BY <3>1
  <2> QED  BY <1>0, <1>5, <2>1 DEF Seed
<1>6. CASE TryClaim(d)
  <2>1. daemon[d].at \in Work /\ daemon[d].at[1] \in Landed
    BY <1>0, <1>6 DEF TryClaim, TypeOK
  <2> QED  BY <1>0, <1>6, <2>1 DEF TryClaim, Polls, Runs, TypeOK
<1>7. ASSUME NEW o \in Outcome, Finish(d, o) PROVE Fine
  <2>1. daemon[d].at \in Work /\ daemon[d].at[1] \in Landed
    BY <1>0, <1>7 DEF Finish, TypeOK
  <2> QED  BY <1>0, <1>7, <2>1 DEF Finish, Polls, TypeOK
<1>8. ASSUME NEW w \in Work, NEW e \in Edge, Consider(d, w, e) PROVE Fine
  <2>1. w[1] \in Landed
    BY <1>8 DEF Consider
  <2> QED  BY <1>0, <1>8, <2>1 DEF Consider
<1>9. ASSUME NEW a \in Agent, FindRetryable(d, a) PROVE Fine
  <2>1. ASSUME NEW c \in Due(a) PROVE c.work[1] \in Landed
    <3>1. c.work \in Work /\ lock[c.work].retry = "due"
      BY <2>1 DEF Due, Work
    <3>2. lock[c.work].state # "absent"
      BY <3>1 DEF TypeOK
    <3> QED  BY <3>1, <3>2
  <2> QED  BY <1>0, <1>9, <2>1 DEF FindRetryable
<1>10. ASSUME NEW c \in daemon[d].todo, ClaimForRetry(d, c) PROVE Fine
  <2>1. c.work[1] \in Landed
    BY <1>0
  <2> QED  BY <1>0, <1>10, <2>1 DEF ClaimForRetry, TypeOK
<1>11. CASE RetryPasses(d) \/ RetryHalted(d)
  <2>1. daemon[d].at \in Work /\ daemon[d].at[1] \in Landed
    BY <1>0, <1>11 DEF RetryPasses, RetryHalted, TypeOK
  <2> QED  BY <1>0, <1>11, <2>1 DEF RetryPasses, RetryHalted, Runs, Polls, TypeOK
<1> QED
  BY <1>2, <1>3, <1>4, <1>5, <1>6, <1>7, <1>8, <1>9, <1>10, <1>11, <1>12, <1>13
  DEF DaemonNext, Proceeds, Bookkeeps, Polling

LEMMA GroundedUnderClock ==
    ASSUME TypeOK, Grounded, NEW w \in Work, CoolsDown(w)
    PROVE  Grounded'
<1>1. lock[w].state # "absent" /\ lock' = [lock EXCEPT ![w].retry = "due"]
      /\ UNCHANGED <<history, daemon>>
  BY DEF CoolsDown, TypeOK, world
<1>2. \A v \in Work : lock'[v].state # "absent" => lock[v].state # "absent"
  BY <1>1 DEF TypeOK
<1> QED  BY <1>1, <1>2 DEF Grounded, GroundedDaemon, Absent, Landed

-----------------------------------------------------------------------------
(* The rows and the jobs.                                                  *)

JobTyped == job \in [Process -> [pc : JobState, row : Row \cup {Nothing},
                                 built : SUBSET Landed, code : {0, 1}]]
RowTyped == row \in [Row -> [status : {"integrating", "integrated", "closed"},
                             step : {"none", "cargo_installed", "schema_migrated",
                                     "deploy_blocked"},
                             tree : BOOLEAN]]

\* Whoever works on a row, and whatever is said of one, the row has landed.
OnLanded ==
    /\ \A r \in Row : row[r].status # "integrating" => r \in Landed
    /\ \A p \in Process : job[p].pc # "idle" => job[p].row \in Landed

DeployInv == IInv /\ DeployTypeOK /\ Grounded /\ OnLanded

\* A step written on a landed row.
LEMMA StepWritten ==
    ASSUME DeployInv, NEW r \in Row, row[r].status = "integrated", UNCHANGED work,
           NEW s \in {"cargo_installed", "schema_migrated", "deploy_blocked"}, WriteStep(r, s)
    PROVE  /\ IInv' /\ Grounded' /\ RowTyped'
           /\ history \subseteq history' /\ Landed' = Landed
           /\ \A q \in Row : row'[q].status = row[q].status /\ (q # r => row'[q].step = row[q].step)
           /\ row'[r].step = s
           /\ \A q \in Row : row'[q].step # "none" => {<<q, Enter>>, <<q, Stay>>} \subseteq history'
<1>1. /\ r \in Landed /\ row \in [Row -> [status : {"integrating", "integrated", "closed"},
              step : {"none", "cargo_installed", "schema_migrated", "deploy_blocked"},
              tree : BOOLEAN]]
      /\ history' = history \cup {<<r, Stay>>}
      /\ row' = [row EXCEPT ![r].step = s]
  BY DEF DeployInv, OnLanded, DeployTypeOK, WriteStep
<1>2. Landed' = Landed
  <2>1. Landed \subseteq Landed'
    BY <1>1, LandedStays
  <2> QED  BY <1>1, <2>1 DEF Landed
<1>3. Grounded'
  <2>1. \A h \in history' : h[1] \in Landed'
    BY <1>1, <1>2 DEF DeployInv, Grounded
  <2> QED  BY <1>1, <2>1, GroundedWhenWorldMoves DEF DeployInv
<1>4. IInv'
  <2>1. history' \subseteq Row \X Edge
    BY <1>1, DeployAssumption DEF DeployInv, IInv, TypeOK
  <2>2. gate' \in [Work -> Verdict]
    BY DEF WriteStep, Passes, Verdict, DeployInv, IInv, TypeOK
  <2>3. TypeOK'
    BY <2>1, <2>2 DEF DeployInv, IInv, TypeOK, work, ghost
  <2>4. Accounted'
    BY LettingGo DEF DeployInv, work, ghost
  <2> QED  BY <2>3, <2>4 DEF IInv
<1>5. RowTyped'
  BY <1>1 DEF RowTyped
<1>6. /\ \A q \in Row : row'[q].status = row[q].status /\ (q # r => row'[q].step = row[q].step)
      /\ row'[r].step = s
  BY <1>1
<1>7. ASSUME NEW q \in Row, row'[q].step # "none"
      PROVE  {<<q, Enter>>, <<q, Stay>>} \subseteq history'
  <2>1. CASE q = r
    BY <1>1, <2>1 DEF Landed
  <2>2. CASE q # r
    <3>1. row[q].step # "none" => {<<q, Enter>>, <<q, Stay>>} \subseteq history
      BY DEF DeployInv, DeployTypeOK
    <3> QED  BY <1>1, <1>6, <1>7, <2>2, <3>1
  <2> QED  BY <2>1, <2>2
<1> QED  BY <1>1, <1>2, <1>3, <1>4, <1>5, <1>6, <1>7

StepsHaveHistory ==
    \A r \in Row : row[r].step # "none" => {<<r, Enter>>, <<r, Stay>>} \subseteq history
RowsLanded == \A r \in Row : row[r].status # "integrating" => r \in Landed
JobsLanded == \A p \in Process : job[p].pc # "idle" => job[p].row \in Landed

LEMMA Parts ==
    DeployInv <=> /\ IInv /\ Grounded /\ RowTyped /\ StepsHaveHistory /\ RowsLanded
                  /\ binary \subseteq Landed /\ overlap \in BOOLEAN /\ troubles \in Nat
                  /\ JobTyped /\ JobsLanded
BY DEF DeployInv, DeployTypeOK, RowTyped, StepsHaveHistory, RowsLanded, JobTyped, JobsLanded,
       OnLanded

LEMMA PartsAfter ==
    ASSUME IInv', Grounded', RowTyped', StepsHaveHistory', RowsLanded', binary' \subseteq Landed',
           overlap' \in BOOLEAN, troubles' \in Nat, JobTyped', JobsLanded'
    PROVE  DeployInv'
BY DEF DeployInv, DeployTypeOK, RowTyped, StepsHaveHistory, RowsLanded, JobTyped, JobsLanded,
       OnLanded

\* A step that leaves the dispatcher and the history alone.
LEMMA WorldStands ==
    ASSUME DeployInv, UNCHANGED <<world, work>>
    PROVE  IInv' /\ Grounded' /\ history' = history /\ Landed' = Landed
<1>1. UNCHANGED vars /\ history' = history
  BY DEF world, work, vars
<1>2. IInv'
  BY <1>1, Stuttering DEF DeployInv
<1>3. Landed' = Landed
  BY <1>1 DEF Landed
<1>4. Grounded'
  BY <1>1, <1>3, GroundedWhenWorldMoves DEF DeployInv, Grounded
<1> QED  BY <1>1, <1>2, <1>3, <1>4

LEMMA RowsStand ==
    ASSUME DeployInv, row' = row, history \subseteq history'
    PROVE  RowTyped' /\ StepsHaveHistory' /\ RowsLanded'
BY Parts, LandedStays DEF RowTyped, StepsHaveHistory, RowsLanded

\* The worktree or the status of one row changes.
LEMMA RowWritten ==
    ASSUME DeployInv, NEW r \in Row,
           \/ row' = [row EXCEPT ![r].tree = FALSE]
           \/ row' = [row EXCEPT ![r].status = "closed"]
    PROVE  /\ RowTyped' /\ \A q \in Row : row'[q].step = row[q].step
           /\ \A q \in Row : row'[q].status \in {row[q].status, "closed"}
           /\ \A q \in Row : q # r => row'[q].status = row[q].status
           /\ row' = [row EXCEPT ![r].tree = FALSE] => row'[r].status = row[r].status
<1> DEFINE RowStates == [status : {"integrating", "integrated", "closed"},
                         step : {"none", "cargo_installed", "schema_migrated",
                                 "deploy_blocked"},
                         tree : BOOLEAN]
<1>0. row \in [Row -> RowStates] /\ row[r] \in RowStates
  BY Parts DEF RowTyped
<1>1. CASE row' = [row EXCEPT ![r].tree = FALSE]
  <2> DEFINE x == [row[r] EXCEPT !.tree = FALSE]
  <2>1. x \in RowStates /\ x.status = row[r].status /\ x.step = row[r].step
    BY <1>0
  <2>2. row' = [row EXCEPT ![r] = x]
    BY <1>0, <1>1
  <2> HIDE DEF x
  <2>3. row' \in [Row -> RowStates]
    BY <1>0, <2>1, <2>2
  <2> QED  BY <1>0, <2>1, <2>2, <2>3 DEF RowTyped
<1>2. CASE row' = [row EXCEPT ![r].status = "closed"]
  <2> DEFINE x == [row[r] EXCEPT !.status = "closed"]
  <2>1. x \in RowStates /\ x.status = "closed" /\ x.step = row[r].step
        /\ x.tree = row[r].tree
    BY <1>0
  <2>2. row' = [row EXCEPT ![r] = x]
    BY <1>0, <1>2
  <2>3. row' = [row EXCEPT ![r].tree = FALSE] => x = [row[r] EXCEPT !.tree = FALSE]
    BY <1>0, <2>2
  <2>4. row' = [row EXCEPT ![r].tree = FALSE] => x.status = row[r].status
    BY <1>0, <2>3
  <2> HIDE DEF x
  <2>5. row' \in [Row -> RowStates]
    BY <1>0, <2>1, <2>2
  <2> QED  BY <1>0, <2>1, <2>2, <2>4, <2>5 DEF RowTyped
<1> QED  BY <1>1, <1>2

\* One process moves to a proper state of its own.
JobStates == [pc : JobState, row : Row \cup {Nothing}, built : SUBSET Landed, code : {0, 1}]

LEMMA JobWritten ==
    ASSUME DeployInv, history \subseteq history', NEW p \in Process, NEW j \in JobStates,
           j.pc # "idle" => j.row \in Landed, job' = [job EXCEPT ![p] = j]
    PROVE  JobTyped' /\ JobsLanded'
<1>1. Landed \subseteq Landed'
  BY LandedStays
<1>2. job \in [Process -> JobStates] /\ JobsLanded
  BY Parts DEF JobTyped, JobStates
<1>3. job' \in [Process -> JobStates]
  BY <1>2
<1>4. JobStates \subseteq [pc : JobState, row : Row \cup {Nothing}, built : SUBSET Landed',
                           code : {0, 1}]
  BY <1>1 DEF JobStates
<1>5. JobTyped'
  BY <1>3, <1>4 DEF JobTyped
<1>6. JobsLanded'
  BY <1>1, <1>2 DEF JobsLanded
<1> QED  BY <1>5, <1>6

LEMMA JobsStand ==
    ASSUME DeployInv, history \subseteq history', job' = job
    PROVE  JobTyped' /\ JobsLanded'
<1>1. Landed \subseteq Landed'
  BY LandedStays
<1> QED  BY <1>1, Parts DEF JobTyped, JobsLanded

LEMMA JobFields ==
    ASSUME DeployInv, NEW p \in Process
    PROVE  /\ job \in [Process -> JobStates] /\ job[p] \in JobStates
           /\ job[p].pc # "idle" => job[p].row \in Landed /\ job[p].row \in Row
<1>1. job \in [Process -> JobStates] /\ JobsLanded
  BY Parts DEF JobTyped, JobStates
<1> QED  BY <1>1 DEF JobsLanded, Landed

LEMMA EndsWell ==
    ASSUME DeployInv, history \subseteq history', NEW p \in Process, NEW c \in {0, 1},
           Ends(p, c), job[p].pc # "idle"
    PROVE  /\ JobTyped' /\ JobsLanded'
           /\ job'[p].pc = "done" /\ \A q \in Process : q # p => job'[q] = job[q]
<1> DEFINE j == [job[p] EXCEPT !.pc = "done", !.built = {}, !.code = c]
<1>1. job[p] \in JobStates /\ job \in [Process -> JobStates] /\ job[p].row \in Landed
  BY JobFields
<1>2. j \in JobStates /\ j.row = job[p].row /\ j.pc = "done"
  BY <1>1 DEF JobStates, JobState
<1>3. job' = [job EXCEPT ![p] = j]
  BY <1>1 DEF Ends, JobStates
<1> HIDE DEF j
<1> QED  BY <1>1, <1>2, <1>3, JobWritten

LEMMA MarksWell ==
    ASSUME DeployInv, NEW p \in Process, job[p].pc # "idle",
           NEW s \in {"cargo_installed", "schema_migrated", "deploy_blocked"}, NEW allowed,
           Marks(p, s, allowed), UNCHANGED <<overlap, binary, work>>, troubles' \in Nat
    PROVE  DeployInv'
<1>0. job[p].row \in Row
  BY JobFields
<1>1. CASE row[job[p].row].status = "integrated" /\ allowed
  <2>1. WriteStep(job[p].row, s) /\ Ends(p, 0)
    BY <1>1 DEF Marks
  <2>2. /\ IInv' /\ Grounded' /\ RowTyped' /\ history \subseteq history' /\ Landed' = Landed
        /\ StepsHaveHistory' /\ \A q \in Row : row'[q].status = row[q].status
    BY <1>0, <1>1, <2>1, StepWritten DEF StepsHaveHistory
  <2>3. JobTyped' /\ JobsLanded'
    BY <2>1, <2>2, EndsWell
  <2>4. RowsLanded'
    BY <2>2, Parts DEF RowsLanded
  <2>5. binary' \subseteq Landed' /\ overlap' \in BOOLEAN
    BY <2>2, Parts
  <2> QED  BY <2>2, <2>3, <2>4, <2>5, PartsAfter
<1>2. CASE ~(row[job[p].row].status = "integrated" /\ allowed)
  <2>1. Ends(p, 1) /\ row' = row /\ UNCHANGED <<world, work>>
    BY <1>2 DEF Marks
  <2>2. IInv' /\ Grounded' /\ history' = history /\ Landed' = Landed
    BY <2>1, WorldStands
  <2>3. JobTyped' /\ JobsLanded'
    BY <2>1, <2>2, EndsWell
  <2>4. RowTyped' /\ StepsHaveHistory' /\ RowsLanded'
    BY <2>1, <2>2, RowsStand
  <2>5. binary' \subseteq Landed' /\ overlap' \in BOOLEAN
    BY <2>2, Parts
  <2> QED  BY <2>2, <2>3, <2>4, <2>5, PartsAfter
<1> QED  BY <1>1, <1>2

\* A step of one process, in which no row changes.
LEMMA JobMoves ==
    ASSUME DeployInv, UNCHANGED <<world, work>>, row' = row, NEW p \in Process,
           NEW j \in JobStates, j.pc # "idle" => j.row \in Landed, job' = [job EXCEPT ![p] = j],
           binary' \subseteq Landed, overlap' \in BOOLEAN, troubles' \in Nat
    PROVE  DeployInv'
<1>1. IInv' /\ Grounded' /\ history' = history /\ Landed' = Landed
  BY WorldStands
<1>2. RowTyped' /\ StepsHaveHistory' /\ RowsLanded'
  BY <1>1, RowsStand
<1>3. JobTyped' /\ JobsLanded'
  BY <1>1, JobWritten
<1> QED  BY <1>1, <1>2, <1>3, PartsAfter

\* A step of the daemons below, in which no row changes.
LEMMA DaemonMoves ==
    ASSUME DeployInv, row' = row, IInv', Grounded', history' = history,
           UNCHANGED <<binary, overlap, troubles>>, JobTyped', JobsLanded'
    PROVE  DeployInv'
<1>1. Landed' = Landed
  BY DEF Landed
<1>2. RowTyped' /\ StepsHaveHistory' /\ RowsLanded'
  BY RowsStand
<1>3. binary' \subseteq Landed' /\ overlap' \in BOOLEAN /\ troubles' \in Nat
  BY <1>1, Parts
<1> QED  BY <1>2, <1>3, PartsAfter

LEMMA DaemonBelow ==
    ASSUME DeployInv, NEW d \in Daemon, DaemonNext(d)
    PROVE  IInv' /\ Grounded' /\ history' = history
<1>1. UNCHANGED world
  BY DEF DaemonNext, Proceeds, Bookkeeps, Polling, Boot, Seeded, StartPolling, TryClaim,
         RetryPasses, RetryHalted, RetryGatedOut, CheckSeeded, Seed, ClaimForRetry, Finish,
         FindRetryable, Consider, Crash, FinishLost
<1>2. IInv'
  BY Inductive DEF DeployInv, Next
<1>3. Grounded'
  BY GroundedUnderDaemon DEF DeployInv, IInv
<1> QED  BY <1>1, <1>2, <1>3 DEF world

LEMMA IdleJob == Idle \in JobStates /\ Idle.pc = "idle"
BY DEF Idle, JobStates, JobState

-----------------------------------------------------------------------------
(* The invariant holds at the start, and every step keeps it.              *)

LEMMA DeployStarts == DeployInit => DeployInv
<1> SUFFICES ASSUME DeployInit PROVE DeployInv
  OBVIOUS
<1>1. TypeOK
  <2>1. gate \in [Work -> Verdict]
    BY DEF DeployInit, Passes, Verdict
  <2> QED  BY <2>1, DispatchAssumption
           DEF DeployInit, NothingClaimed, TypeOK, Off, Lock, Locks, Daemons, LockState, Work
<1>2. Accounted
  <2>1. HeldIsOpen /\ OneRunAtATime
    BY DEF DeployInit, NothingClaimed, Off, HeldIsOpen, OneRunAtATime, Holds
  <2>2. ASSUME NEW w \in Work PROVE ByPolicy(w)
    BY BudgetIsNat DEF DeployInit, NothingClaimed, Lock, ByPolicy, Work
  <2>3. \A d \in Daemon : ListedInTime(d) /\ NotRunYet(d)
    BY DEF DeployInit, NothingClaimed, Off, ListedInTime, NotRunYet
  <2> QED  BY <2>1, <2>2, <2>3 DEF Accounted
<1>3. Grounded
  BY DEF DeployInit, NothingClaimed, Off, Lock, Grounded, GroundedDaemon, Absent, InHand
<1>4. RowTyped /\ StepsHaveHistory /\ RowsLanded
  BY DEF DeployInit, RowTyped, StepsHaveHistory, RowsLanded
<1>5. JobTyped /\ JobsLanded
  BY DEF DeployInit, Idle, JobTyped, JobState, JobsLanded
<1> QED  BY <1>1, <1>2, <1>3, <1>4, <1>5, Parts DEF DeployInit, IInv

LEMMA BuiltinKeeps ==
    ASSUME DeployInv, NEW p \in Process, Builtin(p)
    PROVE  DeployInv'
<1>0. /\ job \in [Process -> JobStates] /\ job[p] \in JobStates
      /\ job[p].pc # "idle" => job[p].row \in Landed /\ job[p].row \in Row
      /\ row \in [Row -> [status : {"integrating", "integrated", "closed"},
              step : {"none", "cargo_installed", "schema_migrated", "deploy_blocked"},
              tree : BOOLEAN]]
      /\ binary \subseteq Landed /\ overlap \in BOOLEAN /\ troubles \in Nat
  BY JobFields, Parts DEF RowTyped
<1>1. CASE Builds(p)
  <2> DEFINE j == [job[p] EXCEPT !.pc = "promote", !.built = Landed]
  <2>1. j \in JobStates /\ j.row = job[p].row /\ job[p].pc # "idle"
    BY <1>0, <1>1 DEF Builds, JobStates, JobState
  <2>2. job' = [job EXCEPT ![p] = j]
    BY <1>0, <1>1 DEF Builds, JobStates
  <2>3. overlap' \in BOOLEAN
    BY <1>0, <1>1 DEF Builds
  <2> HIDE DEF j
  <2> QED  BY <1>0, <1>1, <2>1, <2>2, <2>3, JobMoves DEF Builds
<1>2. CASE BuildFails(p)
  <2>1. troubles' \in Nat /\ job[p].pc # "idle"
    BY <1>0, <1>2 DEF BuildFails, Troubled
  <2> QED  BY <1>2, <2>1, MarksWell DEF BuildFails
<1>3. CASE Promote(p)
  <2> DEFINE j == [job[p] EXCEPT !.pc = "mark_installed", !.built = {}]
  <2>1. j \in JobStates /\ j.row = job[p].row /\ job[p].pc # "idle"
    BY <1>0, <1>3 DEF Promote, JobStates, JobState
  <2>2. job' = [job EXCEPT ![p] = j]
    BY <1>0, <1>3 DEF Promote, JobStates
  <2>3. binary' \subseteq Landed
    BY <1>0, <1>3 DEF Promote, JobStates
  <2> HIDE DEF j
  <2> QED  BY <1>0, <1>3, <2>1, <2>2, <2>3, JobMoves DEF Promote
<1>4. CASE MarkInstalled(p)
  <2>1. job[p].pc # "idle"
    BY <1>4 DEF MarkInstalled
  <2> QED  BY <1>0, <1>4, <2>1, MarksWell DEF MarkInstalled
<1>5. CASE Migrates(p)
  <2> DEFINE j == [job[p] EXCEPT !.pc = "mark_migrated"]
  <2>1. j \in JobStates /\ j.row = job[p].row /\ job[p].pc # "idle"
    BY <1>0, <1>5 DEF Migrates, JobStates, JobState
  <2>2. job' = [job EXCEPT ![p] = j]
    BY <1>0, <1>5 DEF Migrates, Goes, JobStates
  <2> HIDE DEF j
  <2> QED  BY <1>0, <1>5, <2>1, <2>2, JobMoves DEF Migrates
<1>6. CASE MigrationFails(p)
  <2>1. troubles' \in Nat /\ job[p].pc # "idle"
    BY <1>0, <1>6 DEF MigrationFails, Troubled
  <2> QED  BY <1>6, <2>1, MarksWell DEF MigrationFails
<1>7. CASE MarkMigrated(p)
  <2>1. job[p].pc # "idle"
    BY <1>7 DEF MarkMigrated
  <2> QED  BY <1>0, <1>7, <2>1, MarksWell DEF MarkMigrated
<1>8. CASE Cleans(p) \/ Bails(p)
  <2>1. Ends(p, 0) \/ Ends(p, 1)
    BY <1>8 DEF Cleans, Bails
  <2>2. job[p].pc # "idle" /\ UNCHANGED <<world, work>>
    BY <1>8 DEF Cleans, Bails
  <2>3. IInv' /\ Grounded' /\ history' = history /\ Landed' = Landed
    BY <2>2, WorldStands
  <2>4. JobTyped' /\ JobsLanded'
    BY <2>1, <2>2, <2>3, EndsWell
  <2>5. /\ RowTyped'
        /\ \A r \in Row : row'[r].status = row[r].status /\ row'[r].step = row[r].step
    <3>1. CASE row' = row
      BY <2>3, <3>1, RowsStand
    <3>2. CASE row' = [row EXCEPT ![job[p].row].tree = FALSE]
      BY <1>0, <2>2, <3>2, RowWritten
    <3> QED  BY <1>8, <3>1, <3>2 DEF Cleans, Bails
  <2>6. StepsHaveHistory' /\ RowsLanded'
    BY <2>3, <2>5, Parts DEF StepsHaveHistory, RowsLanded
  <2>7. binary' \subseteq Landed' /\ overlap' \in BOOLEAN /\ troubles' \in Nat
    BY <1>0, <1>8, <2>3 DEF Cleans, Bails, Troubled
  <2> QED  BY <2>3, <2>4, <2>5, <2>6, <2>7, PartsAfter
<1> QED  BY <1>1, <1>2, <1>3, <1>4, <1>5, <1>6, <1>7, <1>8 DEF Builtin

\* The daemon around its builtins
LEMMA LeavesWell ==
    ASSUME DeployInv, history' = history, NEW d \in Daemon, job[d].pc = "done", Leaves(d)
    PROVE  /\ JobTyped' /\ JobsLanded'
           /\ job'[d].pc \in {"idle", "route"} /\ \A q \in Process : q # d => job'[q] = job[q]
<1> DEFINE j == IF job[d].code = 0 THEN Idle ELSE [job[d] EXCEPT !.pc = "route"]
<1>0. d \in Process
  BY DEF Process
<1>1. job \in [Process -> JobStates] /\ job[d] \in JobStates /\ job[d].row \in Landed
  BY <1>0, JobFields
<1>2. j \in JobStates /\ (j.pc # "idle" => j.row \in Landed) /\ j.pc \in {"idle", "route"}
  <2>1. [job[d] EXCEPT !.pc = "route"] \in JobStates
    BY <1>1 DEF JobStates, JobState
  <2> QED  BY <1>1, <2>1, IdleJob DEF JobStates
<1>3. job' = [job EXCEPT ![d] = j]
  BY <1>0, <1>1 DEF Leaves
<1> HIDE DEF j
<1> QED  BY <1>0, <1>1, <1>2, <1>3, JobWritten

LEMMA AroundKeeps ==
    ASSUME DeployInv, NEW d \in Daemon,
           Begin(d) \/ Returns(d) \/ ReturnsUnnoticed(d) \/ Route(d) \/ Dies(d)
    PROVE  DeployInv'
<1>0. /\ d \in Process /\ job \in [Process -> JobStates] /\ job[d] \in JobStates
      /\ job[d].pc # "idle" => job[d].row \in Landed /\ job[d].row \in Row
      /\ binary \subseteq Landed /\ overlap \in BOOLEAN /\ troubles \in Nat
  BY JobFields, Parts DEF Process
<1>1. CASE Begin(d)
  <2> DEFINE j == [job[d] EXCEPT !.pc = FirstStep(daemon[d].at[2]), !.row = daemon[d].at[1]]
  <2>1. daemon[d].at[1] \in Landed
    BY <1>1 DEF Begin, DeployInv, Grounded, GroundedDaemon, InHand
  <2>2. FirstStep(daemon[d].at[2]) \in {"build", "migrate", "clean"}
    BY DEF FirstStep
  <2>3. j \in JobStates /\ j.row = daemon[d].at[1]
    BY <1>0, <2>1, <2>2 DEF JobStates, JobState, Landed
  <2>4. job' = [job EXCEPT ![d] = j]
    BY <1>0, <1>1 DEF Begin, JobStates
  <2> HIDE DEF j
  <2> QED  BY <1>0, <1>1, <2>1, <2>3, <2>4, JobMoves DEF Begin
<1>2. CASE Returns(d) \/ ReturnsUnnoticed(d)
  <2>1. DaemonNext(d)
    <3>1. \A b : Finish(d, IF b THEN "ok" ELSE "failed") => \E o \in Outcome : Finish(d, o)
      BY DEF Outcome
    <3> QED  BY <1>2, <3>1 DEF Returns, ReturnsUnnoticed, DaemonNext, Proceeds, Outcome
  <2>2. IInv' /\ Grounded' /\ history' = history
    BY <2>1, DaemonBelow
  <2>3. JobTyped' /\ JobsLanded'
    BY <1>2, <2>2, LeavesWell DEF Returns, ReturnsUnnoticed
  <2> QED  BY <1>2, <2>2, <2>3, DaemonMoves DEF Returns, ReturnsUnnoticed
<1>3. CASE Dies(d)
  <2>1. IInv' /\ Grounded' /\ history' = history
    BY <1>3, DaemonBelow DEF Dies, DaemonNext
  <2>2. JobTyped' /\ JobsLanded'
    BY <1>0, <1>3, <2>1, IdleJob, JobWritten DEF Dies
  <2> QED  BY <1>3, <2>1, <2>2, DaemonMoves DEF Dies
<1>4. CASE Route(d) /\ row[job[d].row].status = "integrated"
  <2>0. job[d].row \in Row
    BY <1>0, <1>4 DEF Route
  <2>1. /\ IInv' /\ Grounded' /\ RowTyped' /\ history \subseteq history' /\ Landed' = Landed
        /\ StepsHaveHistory' /\ \A q \in Row : row'[q].status = row[q].status
    BY <1>4, <2>0, StepWritten DEF Route, StepsHaveHistory
  <2>2. JobTyped' /\ JobsLanded'
    BY <1>0, <1>4, <2>1, IdleJob, JobWritten DEF Route
  <2>3. RowsLanded'
    BY <2>1, Parts DEF RowsLanded
  <2> QED  BY <1>0, <1>4, <2>1, <2>2, <2>3, PartsAfter DEF Route
<1>5. CASE Route(d) /\ row[job[d].row].status # "integrated"
  BY <1>0, <1>5, IdleJob, JobMoves DEF Route
<1> QED  BY <1>1, <1>2, <1>3, <1>4, <1>5

\* People, and the lane
LEMMA OutsideKeeps ==
    ASSUME DeployInv,
           \/ \E p \in Operator : ReconcileGoesOn(p)
           \/ \E p \in Operator, r \in Row : Reconcile(p, r)
           \/ \E r \in Row : Lands(r) \/ Close(r) \/ RemovesTree(r)
    PROVE  DeployInv'
<1>0. /\ row \in [Row -> [status : {"integrating", "integrated", "closed"},
              step : {"none", "cargo_installed", "schema_migrated", "deploy_blocked"},
              tree : BOOLEAN]]
      /\ binary \subseteq Landed /\ overlap \in BOOLEAN /\ troubles \in Nat
  BY Parts DEF RowTyped
<1>1. ASSUME NEW p \in Operator, NEW r \in Row, Reconcile(p, r) PROVE DeployInv'
  <2> DEFINE j == [job[p] EXCEPT !.pc = "build", !.row = r]
  <2>1. /\ p \in Process /\ job \in [Process -> JobStates] /\ job[p] \in JobStates
        /\ r \in Landed
    BY <1>1, JobFields, Parts DEF Process, Reconcile, RowsLanded
  <2>2. j \in JobStates /\ j.row = r
    BY <2>1 DEF JobStates, JobState
  <2>3. job' = [job EXCEPT ![p] = j]
    BY <1>1, <2>1 DEF Reconcile, JobStates
  <2>4. troubles' \in Nat
    BY <1>0, <1>1 DEF Reconcile, Troubled
  <2> HIDE DEF j
  <2> QED  BY <1>0, <1>1, <2>1, <2>2, <2>3, <2>4, JobMoves DEF Reconcile
<1>2. ASSUME NEW p \in Operator, ReconcileGoesOn(p) PROVE DeployInv'
  <2> DEFINE j == IF /\ job[p].code = 0 /\ row[job[p].row].status = "integrated"
                     /\ row[job[p].row].step = "cargo_installed"
                  THEN [job[p] EXCEPT !.pc = "migrate"] ELSE Idle
  <2>1. /\ p \in Process /\ job \in [Process -> JobStates] /\ job[p] \in JobStates
        /\ job[p].row \in Landed
    BY <1>2, JobFields DEF Process, ReconcileGoesOn
  <2>2. j \in JobStates /\ (j.pc # "idle" => j.row \in Landed)
    <3>1. [job[p] EXCEPT !.pc = "migrate"] \in JobStates
      BY <2>1 DEF JobStates, JobState
    <3> QED  BY <2>1, <3>1, IdleJob DEF JobStates
  <2>3. job' = [job EXCEPT ![p] = j]
    BY <1>2, <2>1 DEF ReconcileGoesOn
  <2> HIDE DEF j
  <2> QED  BY <1>0, <1>2, <2>1, <2>2, <2>3, JobMoves DEF ReconcileGoesOn
<1>3. ASSUME NEW r \in Row, Lands(r) PROVE DeployInv'
  <2>1. /\ history' = history \cup {<<r, Enter>>} /\ UNCHANGED work /\ history \subseteq history'
        /\ Transition(r, Enter) /\ Enter \in Edge
    BY <1>3, DeployAssumption DEF Lands, Transition, work
  <2>2. IInv'
    BY <2>1, Inductive DEF DeployInv, Next, WorldNext
  <2>3. Landed \subseteq Landed' /\ r \in Landed'
    BY <2>1, LandedStays DEF Landed
  <2>4. Grounded'
    <3>1. \A h \in history' : h[1] \in Landed'
      BY <2>1, <2>3 DEF DeployInv, Grounded
    <3> QED  BY <2>1, <3>1, GroundedWhenWorldMoves DEF DeployInv
  <2>5. /\ RowTyped' /\ \A q \in Row : row'[q].step = row[q].step
        /\ \A q \in Row : q # r => row'[q].status = row[q].status
    BY <1>0, <1>3 DEF Lands, RowTyped
  <2>6. StepsHaveHistory' /\ RowsLanded'
    BY <2>1, <2>3, <2>5, Parts DEF StepsHaveHistory, RowsLanded
  <2>7. JobTyped' /\ JobsLanded'
    BY <1>3, <2>1, JobsStand DEF Lands
  <2> QED  BY <1>0, <1>3, <2>2, <2>3, <2>4, <2>5, <2>6, <2>7, PartsAfter DEF Lands
<1>4. ASSUME NEW r \in Row, Close(r) \/ RemovesTree(r) PROVE DeployInv'
  <2>1. IInv' /\ Grounded' /\ history' = history /\ Landed' = Landed
    BY <1>4, WorldStands DEF Close, RemovesTree
  <2>2. /\ RowTyped' /\ \A q \in Row : row'[q].step = row[q].step
        /\ \A q \in Row : row'[q].status # "integrating" => row[q].status # "integrating"
    <3>1. \A q \in Row : row'[q].status \in {row[q].status, "closed"}
      BY <1>4, RowWritten DEF Close, RemovesTree
    <3>2. r \in Row /\ row[r].status # "integrating"
      BY <1>4 DEF Close, RemovesTree
    <3> QED  BY <1>4, <3>1, <3>2, RowWritten DEF Close, RemovesTree
  <2>3. StepsHaveHistory' /\ RowsLanded'
    BY <2>1, <2>2, Parts DEF StepsHaveHistory, RowsLanded
  <2>4. JobTyped' /\ JobsLanded'
    BY <1>4, <2>1, JobsStand DEF Close, RemovesTree
  <2>5. binary' \subseteq Landed' /\ overlap' \in BOOLEAN /\ troubles' \in Nat
    BY <1>0, <1>4, <2>1 DEF Close, RemovesTree, Troubled
  <2> QED  BY <2>1, <2>2, <2>3, <2>4, <2>5, PartsAfter
<1> QED  BY <1>1, <1>2, <1>3, <1>4

LEMMA DeployInductive == DeployInv /\ [DeployNext]_all => DeployInv'
<1> SUFFICES ASSUME DeployInv, [DeployNext]_all PROVE DeployInv'
  OBVIOUS
<1>1. ASSUME UNCHANGED deploy, IInv', Grounded', history' = history PROVE DeployInv'
  <2>1. JobTyped' /\ JobsLanded'
    BY <1>1, JobsStand DEF deploy
  <2> QED  BY <1>1, <2>1, DaemonMoves DEF deploy
<1>2. CASE UNCHANGED all
  <2>1. UNCHANGED <<world, work>> /\ UNCHANGED deploy
    BY <1>2 DEF all, vars, work
  <2> QED  BY <1>1, <2>1, WorldStands
<1>3. ASSUME NEW d \in Daemon, DaemonNext(d), UNCHANGED deploy PROVE DeployInv'
  BY <1>1, <1>3, DaemonBelow
<1>4. ASSUME NEW w \in Work, CoolsDown(w), UNCHANGED deploy PROVE DeployInv'
  <2>1. IInv' /\ Grounded'
    BY <1>4, Inductive, GroundedUnderClock DEF DeployInv, IInv, Next, WorldNext
  <2> QED  BY <1>1, <1>4, <2>1 DEF CoolsDown, world
<1>5. ASSUME NEW d \in Daemon, Builtin(d) PROVE DeployInv'
  BY <1>5, BuiltinKeeps DEF Process
<1>6. ASSUME NEW p \in Operator, Builtin(p) PROVE DeployInv'
  BY <1>6, BuiltinKeeps DEF Process
<1>7. ASSUME NEW d \in Daemon, DaemonBoots(d) \/ DaemonProceeds(d) \/ DaemonPolls(d)
                               \/ ReturnsUnnoticed(d) \/ Dies(d)
      PROVE  DeployInv'
  BY <1>3, <1>5, <1>7, AroundKeeps
  DEF DaemonBoots, DaemonProceeds, DaemonPolls, DaemonNext, Proceeds
<1>8. ASSUME NEW p \in Operator, OperatorNext(p) PROVE DeployInv'
  BY <1>6, <1>8, OutsideKeeps DEF OperatorNext
<1> QED  BY <1>2, <1>4, <1>7, <1>8, OutsideKeeps DEF DeployNext

LEMMA AlwaysDeployInv == DeploySpec => []DeployInv
BY DeployStarts, DeployInductive, PTL DEF DeploySpec

\* Whatever daemons and operators do to however many rows: the rows, the
\* jobs and the binary stay in their domains, only what has landed is built
\* from, and a post_integration_step is never written without the history
\* row that its subscribers are dispatched on.
THEOREM DeployTyped == DeploySpec => []DeployTypeOK
<1>1. DeployInv => DeployTypeOK
  BY DEF DeployInv
<1> QED  BY <1>1, AlwaysDeployInv, PTL

-----------------------------------------------------------------------------
(* What the binary contains.                                               *)

Marked == {"cargo_installed", "schema_migrated"}

(***************************************************************************)
(* While no two installs overlap, whoever is about to promote is alone,    *)
(* and brings everything the binary has and the row it works for; whoever  *)
(* is about to mark a row has promoted it.                                 *)
(***************************************************************************)
PromotesMore(p) ==
    job[p].pc = "promote" => /\ job[p].row \in job[p].built /\ binary \subseteq job[p].built
                             /\ \A q \in Process : job[q].pc = "promote" => q = p
MarksPromoted(p) == job[p].pc = "mark_installed" => job[p].row \in binary
Sure ==
    ~overlap => /\ \A p \in Process : PromotesMore(p) /\ MarksPromoted(p)
                /\ BinaryHasLanded

LEMMA SureStarts == DeployInit => Sure
BY DEF DeployInit, Idle, Sure, PromotesMore, MarksPromoted, BinaryHasLanded

\* A step that neither builds nor promotes, and marks only what is there.
LEMMA SureStands ==
    ASSUME Sure, overlap' = overlap, binary' = binary,
           \A p \in Process : job'[p].pc \in {"promote", "mark_installed"} => job'[p] = job[p],
           \A r \in Row : row'[r].step \in Marked
                            => row[r].step \in Marked \/ overlap \/ r \in binary
    PROVE  Sure'
<1> SUFFICES ASSUME ~overlap'
             PROVE  /\ \A p \in Process : PromotesMore(p)' /\ MarksPromoted(p)'
                    /\ BinaryHasLanded'
  BY DEF Sure
<1>1. ~overlap /\ \A p \in Process : PromotesMore(p) /\ MarksPromoted(p)
  BY DEF Sure
<1>2. \A p \in Process : PromotesMore(p)'
  BY <1>1 DEF PromotesMore
<1>3. \A p \in Process : MarksPromoted(p)'
  BY <1>1 DEF MarksPromoted
<1>4. BinaryHasLanded'
  BY <1>1 DEF Sure, BinaryHasLanded, Marked
<1> QED  BY <1>2, <1>3, <1>4

LEMMA BuildsSure ==
    ASSUME DeployInv, Sure, NEW p \in Process, Builds(p)
    PROVE  Sure'
<1> SUFFICES ASSUME ~overlap'
             PROVE  /\ \A q \in Process : PromotesMore(q)' /\ MarksPromoted(q)'
                    /\ BinaryHasLanded'
  BY DEF Sure
<1>1. ~overlap /\ \A q \in Process \ {p} : job[q].pc # "promote"
  BY DEF Builds
<1>2. /\ binary \subseteq Landed /\ job[p].row \in Landed
      /\ job \in [Process -> JobStates]
  BY JobFields, Parts DEF Builds
<1>3. /\ job'[p].pc = "promote" /\ job'[p].row = job[p].row /\ job'[p].built = Landed
      /\ \A q \in Process \ {p} : job'[q] = job[q]
      /\ binary' = binary /\ row' = row
  BY <1>2 DEF Builds, JobStates
<1>4. \A q \in Process : PromotesMore(q)'
  BY <1>1, <1>2, <1>3 DEF PromotesMore
<1>5. \A q \in Process : MarksPromoted(q)'
  BY <1>1, <1>3 DEF Sure, MarksPromoted
<1>6. BinaryHasLanded'
  BY <1>1, <1>3 DEF Sure, BinaryHasLanded
<1> QED  BY <1>4, <1>5, <1>6

LEMMA PromoteSure ==
    ASSUME DeployInv, Sure, NEW p \in Process, Promote(p)
    PROVE  Sure' /\ (~overlap => binary \subseteq binary')
<1>1. ~overlap => PromotesMore(p)
  BY DEF Sure
<1>2. ~overlap => binary \subseteq binary'
  BY <1>1 DEF PromotesMore, Promote
<1>3. ASSUME ~overlap'
      PROVE  (\A q \in Process : PromotesMore(q)' /\ MarksPromoted(q)') /\ BinaryHasLanded'
  <2>1. ~overlap /\ row' = row /\ job \in [Process -> JobStates]
    BY <1>3, JobFields DEF Promote
  <2>2. /\ job'[p].pc = "mark_installed" /\ job'[p].row = job[p].row
        /\ \A q \in Process \ {p} : job'[q] = job[q]
        /\ binary' = job[p].built
    BY <2>1 DEF Promote, JobStates
  <2>3. \A q \in Process : PromotesMore(q)'
    BY <1>1, <2>1, <2>2 DEF PromotesMore, Promote
  <2>4. \A q \in Process : MarksPromoted(q)'
    BY <1>1, <1>2, <2>1, <2>2 DEF PromotesMore, Promote, Sure, MarksPromoted
  <2>5. BinaryHasLanded'
    BY <1>2, <2>1 DEF Sure, BinaryHasLanded
  <2> QED  BY <2>3, <2>4, <2>5
<1> QED  BY <1>2, <1>3 DEF Sure

\* A builtin that ends: its row is marked at most with what was allowed.
LEMMA MarksSure ==
    ASSUME DeployInv, Sure, NEW p \in Process, job[p].pc # "idle",
           NEW s \in {"cargo_installed", "schema_migrated", "deploy_blocked"}, NEW allowed,
           Marks(p, s, allowed), UNCHANGED <<overlap, binary>>,
           s \in Marked /\ allowed
             => row[job[p].row].step \in Marked \/ overlap \/ job[p].row \in binary
    PROVE  Sure'
<1>0. job[p].row \in Row /\ job \in [Process -> JobStates]
      /\ row \in [Row -> [status : {"integrating", "integrated", "closed"},
              step : {"none", "cargo_installed", "schema_migrated", "deploy_blocked"},
              tree : BOOLEAN]]
  BY JobFields, Parts DEF RowTyped
<1>1. Ends(p, 0) \/ Ends(p, 1)
  BY DEF Marks
<1>2. \A q \in Process : job'[q].pc \in {"promote", "mark_installed"} => job'[q] = job[q]
  BY <1>0, <1>1 DEF Ends, JobStates
<1>3. CASE row[job[p].row].status = "integrated" /\ allowed
  <2>1. row' = [row EXCEPT ![job[p].row].step = s]
    BY <1>3 DEF Marks, WriteStep
  <2>2. \A r \in Row : row'[r].step \in Marked
                        => row[r].step \in Marked \/ overlap \/ r \in binary
    BY <1>0, <1>3, <2>1
  <2> QED  BY <1>2, <2>2, SureStands
<1>4. CASE ~(row[job[p].row].status = "integrated" /\ allowed)
  <2>1. row' = row
    BY <1>4 DEF Marks
  <2> QED  BY <1>2, <2>1, SureStands
<1> QED  BY <1>3, <1>4

LEMMA BuiltinSure ==
    ASSUME DeployInv, Sure, NEW p \in Process, Builtin(p)
    PROVE  Sure'
<1>0. job \in [Process -> JobStates] /\ (job[p].pc # "idle" => job[p].row \in Row)
  BY JobFields
<1>1. CASE BuildFails(p) \/ MigrationFails(p)
  BY <1>1, MarksSure DEF BuildFails, MigrationFails, Marked
<1>2. CASE MarkInstalled(p)
  <2>1. overlap \/ job[p].row \in binary
    BY <1>2 DEF MarkInstalled, Sure, MarksPromoted
  <2> QED  BY <1>2, <2>1, MarksSure DEF MarkInstalled
<1>3. CASE MarkMigrated(p)
  BY <1>3, MarksSure DEF MarkMigrated, Marked
<1>4. CASE Migrates(p)
  <2>1. \A q \in Process : job'[q].pc \in {"promote", "mark_installed"} => job'[q] = job[q]
    BY <1>0, <1>4 DEF Migrates, Goes, JobStates
  <2> QED  BY <1>4, <2>1, SureStands DEF Migrates
<1>5. CASE Cleans(p) \/ Bails(p)
  <2>1. \A q \in Process : job'[q].pc \in {"promote", "mark_installed"} => job'[q] = job[q]
    BY <1>0, <1>5 DEF Cleans, Bails, Ends, JobStates
  <2>2. \A r \in Row : row'[r].step = row[r].step
    BY <1>0, <1>5, RowWritten DEF Cleans, Bails
  <2> QED  BY <1>5, <2>1, <2>2, SureStands DEF Cleans, Bails
<1> QED
  BY <1>1, <1>2, <1>3, <1>4, <1>5, BuildsSure, PromoteSure DEF Builtin

LEMMA AroundSure ==
    ASSUME DeployInv, Sure, NEW d \in Daemon,
           Begin(d) \/ Returns(d) \/ ReturnsUnnoticed(d) \/ Route(d) \/ Dies(d)
    PROVE  Sure'
<1>0. /\ d \in Process /\ job \in [Process -> JobStates]
      /\ job[d].pc # "idle" => job[d].row \in Row
      /\ row \in [Row -> [status : {"integrating", "integrated", "closed"},
              step : {"none", "cargo_installed", "schema_migrated", "deploy_blocked"},
              tree : BOOLEAN]]
  BY JobFields, Parts DEF Process, RowTyped
<1>1. \A q \in Process : job'[q].pc \in {"promote", "mark_installed"} => job'[q] = job[q]
  <2>1. CASE Begin(d)
    BY <1>0, <2>1 DEF Begin, FirstStep, JobStates
  <2>2. CASE Returns(d) \/ ReturnsUnnoticed(d)
    BY <1>0, <2>2 DEF Leaves, Idle, JobStates, Returns, ReturnsUnnoticed
  <2>3. CASE Route(d) \/ Dies(d)
    BY <1>0, <2>3 DEF Route, Dies, Idle
  <2> QED  BY <2>1, <2>2, <2>3
<1>2. \A r \in Row : row'[r].step \in Marked => row[r].step \in Marked
  <2>1. CASE Route(d)
    BY <1>0, <2>1 DEF Route, WriteStep, Marked
  <2> QED  BY <2>1 DEF Begin, Returns, ReturnsUnnoticed, Dies
<1>3. overlap' = overlap /\ binary' = binary
  BY DEF Begin, Returns, ReturnsUnnoticed, Route, Dies
<1> QED  BY <1>1, <1>2, <1>3, SureStands

LEMMA OutsideSure ==
    ASSUME DeployInv, Sure,
           \/ \E p \in Operator : ReconcileGoesOn(p)
           \/ \E p \in Operator, r \in Row : Reconcile(p, r)
           \/ \E r \in Row : Lands(r) \/ Close(r) \/ RemovesTree(r)
    PROVE  Sure'
<1>0. /\ row \in [Row -> [status : {"integrating", "integrated", "closed"},
              step : {"none", "cargo_installed", "schema_migrated", "deploy_blocked"},
              tree : BOOLEAN]]
      /\ \A p \in Process : job \in [Process -> JobStates]
  BY JobFields, Parts DEF RowTyped
<1>1. ASSUME NEW p \in Operator, NEW r \in Row, Reconcile(p, r) PROVE Sure'
  <2>1. \A q \in Process : job'[q].pc \in {"promote", "mark_installed"} => job'[q] = job[q]
    BY <1>0, <1>1 DEF Reconcile, JobStates, Process
  <2> QED  BY <1>1, <2>1, SureStands DEF Reconcile
<1>2. ASSUME NEW p \in Operator, ReconcileGoesOn(p) PROVE Sure'
  <2>1. \A q \in Process : job'[q].pc \in {"promote", "mark_installed"} => job'[q] = job[q]
    BY <1>0, <1>2 DEF ReconcileGoesOn, JobStates, Process, Idle
  <2> QED  BY <1>2, <2>1, SureStands DEF ReconcileGoesOn
<1>3. ASSUME NEW r \in Row, Lands(r) \/ Close(r) \/ RemovesTree(r) PROVE Sure'
  <2>1. \A q \in Row : row'[q].step = row[q].step
    <3>1. CASE Lands(r)
      BY <1>0, <3>1 DEF Lands
    <3>2. CASE Close(r) \/ RemovesTree(r)
      BY <3>2, RowWritten DEF Close, RemovesTree
    <3> QED  BY <1>3, <3>1, <3>2
  <2>2. job' = job /\ overlap' = overlap /\ binary' = binary
    BY <1>3 DEF Lands, Close, RemovesTree
  <2> QED  BY <2>1, <2>2, SureStands
<1> QED  BY <1>1, <1>2, <1>3

LEMMA SureInductive == DeployInv /\ Sure /\ [DeployNext]_all => Sure'
<1> SUFFICES ASSUME DeployInv, Sure, [DeployNext]_all PROVE Sure'
  OBVIOUS
<1>1. ASSUME UNCHANGED deploy PROVE Sure'
  BY <1>1, SureStands DEF deploy
<1>2. ASSUME NEW d \in Daemon, DaemonBoots(d) \/ DaemonProceeds(d) \/ DaemonPolls(d)
                               \/ ReturnsUnnoticed(d) \/ Dies(d)
      PROVE  Sure'
  BY <1>1, <1>2, AroundSure, BuiltinSure DEF DaemonBoots, DaemonProceeds, DaemonPolls, Process
<1>3. ASSUME NEW p \in Operator, OperatorNext(p) PROVE Sure'
  BY <1>3, BuiltinSure, OutsideSure DEF OperatorNext, Process
<1>4. UNCHANGED all => UNCHANGED deploy
  BY DEF all
<1> QED  BY <1>1, <1>2, <1>3, <1>4, OutsideSure DEF DeployNext

\* Only a promotion writes the binary.
LEMMA BinaryStep ==
    ASSUME DeployInv, Sure, [DeployNext]_all, ~overlap
    PROVE  binary \subseteq binary'
<1>1. ASSUME NEW p \in Process, Builtin(p) PROVE binary \subseteq binary'
  <2>1. CASE Promote(p)
    BY <2>1, PromoteSure
  <2> QED  BY <1>1, <2>1 DEF Builtin, Builds, BuildFails, MarkInstalled, Migrates,
                             MigrationFails, MarkMigrated, Cleans, Bails
<1>2. ASSUME NEW d \in Daemon, DaemonBoots(d) \/ DaemonProceeds(d) \/ DaemonPolls(d)
                               \/ ReturnsUnnoticed(d) \/ Dies(d)
      PROVE  binary \subseteq binary'
  BY <1>1, <1>2 DEF DaemonBoots, DaemonProceeds, DaemonPolls, Process, deploy, Begin, Returns,
                    ReturnsUnnoticed, Route, Dies
<1>3. ASSUME NEW p \in Operator, OperatorNext(p) PROVE binary \subseteq binary'
  BY <1>1, <1>3 DEF OperatorNext, Process, ReconcileGoesOn, Reconcile
<1>4. ASSUME NEW r \in Row, Lands(r) \/ Close(r) \/ RemovesTree(r)
      PROVE  binary \subseteq binary'
  BY <1>4 DEF Lands, Close, RemovesTree
<1> QED  BY <1>2, <1>3, <1>4 DEF DeployNext, deploy, all

LEMMA AlwaysSure == DeploySpec => [](DeployInv /\ Sure)
BY DeployStarts, DeployInductive, SureStarts, SureInductive, PTL DEF DeploySpec

\* For any number of daemons, operators and rows, and through deaths,
\* failures and closed rows: as long as no two installs have overlapped, a
\* row that says cargo_installed or schema_migrated is in the binary the
\* daemon restarts into.
THEOREM MarkedIsInstalled == DeploySpec => []BinaryHasLanded
<1>1. Sure => BinaryHasLanded
  BY DEF Sure, BinaryHasLanded
<1> QED  BY <1>1, AlwaysSure, PTL

\* As long as no two installs have overlapped, no promotion, by a daemon or
\* by an operator, takes a row's code out of the binary again.
THEOREM BinaryGrows == DeploySpec => NeverOlder
<1>1. DeployInv /\ Sure /\ [DeployNext]_all => [~overlap => binary \subseteq binary']_all
  BY BinaryStep
<1> QED  BY <1>1, AlwaysSure, PTL DEF DeploySpec, NeverOlder
=============================================================================
