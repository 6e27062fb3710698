------------------------------ MODULE AutoDrive ------------------------------
(***************************************************************************)
(* How a task gets, keeps and loses its drive: the daemon's builtin        *)
(* auto-drive, its watchdog and the engine runner                          *)
(* (flow/builtins/auto_drive.rs, flow/engine_runner.rs), the drive's own   *)
(* bookkeeping (handlers/drive.rs), and the people and reviewers that send *)
(* a task back to work.  One daemon; the shipped agents.yaml, in which     *)
(* auto-drive is not retried (max_attempts 1).                             *)
(*                                                                         *)
(* Of a task only what decides about drives is kept: "work" stands for     *)
(* planning to complete, whose next agent is a worker, in_review for the   *)
(* wait for the wrap agent and then for a verdict.  Of a time only which   *)
(* thresholds have passed.                                                 *)
(***************************************************************************)
EXTENDS Naturals, FiniteSets

CONSTANTS
    Row,
    Pid,                \* process ids of drives; one may be used again once
                        \* no row and no lock mentions it
    None,               \* no process, no row
    MaxParallel,        \* drive.max_parallel
    MaxFaults,          \* bound: drives killed, agents without output for
                        \* no_output_secs, runners that fail or block the
                        \* task, and deaths of the daemon, all together
    MaxReturns          \* bound: resumes, REVISE verdicts rejections,
                        \* and drives started by hand, all together

ASSUME AutoDriveAssumption ==
    /\ None \notin Pid \cup Row
    /\ MaxParallel \in Nat \ {0}
    /\ {MaxFaults, MaxReturns} \subseteq Nat

VARIABLES
    task,               \* columns of the tasks row, and its external review
    lock,               \* the row's dispatch_locks entry for auto-drive
    marker,             \* is there a fresh current-run marker in its worktree?
    drive,              \* the drive processes
    daemon,             \* the daemon, with the locals of its poll
    stint,              \* history variable: how the row last came to work
    excused,            \* history variable: did a crash leave a drive
                        \* unrecorded, or two starts coincide?
    used                \* how much of each bound is spent

vars == <<task, lock, marker, drive, daemon, stint, excused, used>>

Spend(bound, max) == used[bound] < max /\ used' = [used EXCEPT ![bound] = @ + 1]

-----------------------------------------------------------------------------
(* Processes *)

Dead   == [pc |-> "dead", row |-> None, saw |-> "none", wrapped |-> FALSE,
           closed |-> FALSE, disowned |-> FALSE]
Alive(p) == p # None /\ drive[p].pc # "dead"
Free(p)  == ~Alive(p) /\ \A r \in Row : task[r].pid # p /\ lock[r].pid # p

Spawned(p, r, pc) == drive' = [drive EXCEPT ![p] = [Dead EXCEPT !.pc = pc, !.row = r]]
At(p, pc) == drive' = [drive EXCEPT ![p].pc = pc]
Exits(p)  == drive' = [drive EXCEPT ![p] = Dead]

Unmarks(p) ==
    marker' = [marker EXCEPT ![drive[p].row] =
                 \E q \in Pid \ {p} : drive[q].pc = "agent" /\ drive[q].row = drive[p].row]
Owner(r, p) == [task EXCEPT ![r].pid = p, ![r].starting = TRUE]

Driven(r) == \E p \in Pid : Alive(p) /\ drive[p].row = r
Starting(p, r) == drive[p].row = r /\ drive[p].pc \in {"spawned", "checked"}

\* Two starts at the same moment: nobody checks and records in one step.
Excuses(r) ==
    excused' = (excused \/ \E p \in Pid : Starting(p, r) \/ (drive[p].pc = "loop" /\ drive[p].row = r))

\* A drive that nobody looks after any more, and nobody stops
Disown(r) ==
    drive' = [p \in Pid |-> [drive[p] EXCEPT !.disowned = @ \/ (Alive(p) /\ drive[p].row = r)]]

(* Locks: age 0 is within ZOMBIE_GRACE_SECS of claimed_at, 1 within the     *)
(* claim window, 2 past it.                                                *)

NoLock == [state |-> "absent", pid |-> None, age |-> 0, beat |-> "none", before |-> FALSE]
Open(r)   == lock[r].state = "open"

\* mark_pending_handoff_lock: the heartbeat stays what it was.
HandedOff(r, p) ==
    [lock EXCEPT ![r].state = "open", ![r].pid = p, ![r].age = 0, ![r].before = FALSE]

\* close_auto_drive_lock_ok, close_auto_drive_lock_failed and
\* force_close_auto_drive_lock_ok: only an open lock, and claimed_at is now
Closed(r, state) ==
    IF Open(r) THEN [lock EXCEPT ![r].state = state, ![r].age = 0, ![r].before = FALSE]
    ELSE lock

\* mark_claim_finished, mark_claim_silent_zombie
Ended(r, state) ==
    IF lock[r].state = "absent" THEN lock ELSE [lock EXCEPT ![r].state = state]

\* has_pending_auto_drive_work: there is always a next agent in in_review.
Pending(r) == task[r].status \in {"work", "in_review"}

\* fire_mark_drive_failed with blocked_reason drive_failed
Blocked(r) == [task EXCEPT ![r].status = "blocked"]

\* task_has_active_external_review_lane
Reviewing(r) == task[r].review \in {"open", "recent"}

-----------------------------------------------------------------------------
(* The drive process: run_drive, drive_loop *)

\* live_owner_for_task
OtherOwner(p, r) == marker[r] \/ (task[r].pid # p /\ Alive(task[r].pid))

\* enforce_singleton_drive_owner (tasks have worktrees of their own here)
Mutant_CheckOwner(p) ==               \* no look at who drives the row
    /\ drive[p].pc = "spawned" /\ At(p, "checked")
    /\ UNCHANGED <<task, lock, marker, daemon, stint, excused, used>>
CheckOwner(p) ==
    LET r == drive[p].row IN
    /\ drive[p].pc = "spawned"
    /\ IF OtherOwner(p, r) THEN Exits(p) ELSE At(p, "checked")
    /\ excused' = (excused \/ (~OtherOwner(p, r) /\ \E q \in Pid \ {p} : Starting(q, r)))
    /\ UNCHANGED <<task, lock, marker, daemon, stint, used>>

RecordOwner(p) ==
    /\ drive[p].pc = "checked"
    /\ task' = Owner(drive[p].row, p) /\ At(p, "loop")
    /\ UNCHANGED <<lock, marker, daemon, stint, excused, used>>

\* The loop starts the next agent, whose output moves the heartbeat.
StartsAgent(p) ==
    LET r == drive[p].row IN
    /\ drive[p].pc = "loop" /\ Pending(r)
    /\ ~(task[r].status = "in_review" /\ drive[p].wrapped)
    /\ drive' = [drive EXCEPT ![p].pc = "agent", ![p].saw = task[r].status]
    /\ marker' = [marker EXCEPT ![r] = TRUE]
    /\ lock' = IF Open(r) THEN [lock EXCEPT ![r].beat = "recent"] ELSE lock
    /\ UNCHANGED <<task, daemon, stint, excused, used>>

\* Nothing left to do, or the wrap is done: force_close_auto_drive_lock_ok
Leaves(p) ==
    LET r == drive[p].row IN
    /\ drive[p].pc = "loop"
    /\ \/ ~Pending(r) /\ UNCHANGED lock
       \/ task[r].status = "in_review" /\ drive[p].wrapped /\ lock' = Closed(r, "wrapped")
    /\ Exits(p)
    /\ UNCHANGED <<task, marker, daemon, stint, excused, used>>

\* dispatch_submit: accepted when the status is still the one the agent was
\* asked in.  A timing assumption: an agent takes longer than a launch.
Submits(p) ==
    LET r == drive[p].row IN
    /\ drive[p].pc = "agent" /\ task[r].status = drive[p].saw /\ daemon.launch.row # r
    /\ Unmarks(p)
    /\ \/ /\ drive[p].saw = "work"
          /\ \E s \in {"work", "in_review"} : task' = [task EXCEPT ![r].status = s]
          /\ drive' = [drive EXCEPT ![p].pc = "close", ![p].saw = "none"]
          /\ UNCHANGED used
       \/ /\ drive[p].saw = "work" /\ Spend("faults", MaxFaults)
          /\ task' = Blocked(r)                  \* a reviewer's FAIL
          /\ drive' = [drive EXCEPT ![p].pc = "close", ![p].saw = "none"]
       \/ /\ drive[p].saw = "in_review"
          /\ \E review \in {"none", "open"} :    \* T1, or T2 and T3
                task' = [task EXCEPT ![r].wrapped = TRUE, ![r].review = review]
          /\ drive' = [drive EXCEPT ![p].pc = "close", ![p].saw = "none",
                                    ![p].wrapped = TRUE]
          /\ UNCHANGED used
    /\ UNCHANGED <<lock, daemon, stint, excused>>

Refused(p) ==
    LET r == drive[p].row IN
    /\ drive[p].pc = "agent" /\ task[r].status # drive[p].saw
    /\ Unmarks(p) /\ Exits(p)
    /\ UNCHANGED <<task, lock, daemon, stint, excused, used>>

\* close_auto_drive_lock_ok after a submit: with work pending the lock stays
\* open (in_flight:pending_next).
ClosesLock(p) ==
    LET r == drive[p].row IN
    /\ drive[p].pc = "close"
    /\ lock' = IF drive[p].closed THEN lock ELSE Closed(r, IF Pending(r) THEN "open" ELSE "ok")
    /\ drive' = [drive EXCEPT ![p].pc = "loop", ![p].closed = @ \/ ~Pending(r)]
    /\ UNCHANGED <<task, marker, daemon, stint, excused, used>>

\* The runner fails, or its answer is not an envelope.  mark_drive_failed is
\* no transition of in_review: then the lock is left as it is.
RunnerFails(p) ==
    LET r == drive[p].row IN
    /\ drive[p].pc = "agent" /\ Spend("faults", MaxFaults)
    /\ Unmarks(p) /\ Exits(p)
    /\ IF task[r].status = "work"
         THEN task' = Blocked(r) /\ lock' = Closed(r, "error")
         ELSE UNCHANGED <<task, lock>>
    /\ UNCHANGED <<daemon, stint, excused>>

Dies(p) ==
    /\ Alive(p) /\ Spend("faults", MaxFaults)
    /\ Exits(p)
    /\ UNCHANGED <<task, lock, marker, daemon, stint, excused>>

DriveStep(p) ==
    \/ CheckOwner(p) \/ RecordOwner(p) \/ StartsAgent(p) \/ Leaves(p)
    \/ Submits(p) \/ Refused(p) \/ ClosesLock(p) \/ RunnerFails(p)

-----------------------------------------------------------------------------
(* builtin:auto-drive.  launch holds the row as the caller read it, and    *)
(* what the caller does with the result.                                   *)

NoLaunch == [row |-> None, pid |-> None, status |-> "none", pass |-> "none", child |-> None]
Off == [pc |-> "off", todo |-> {}, handled |-> {}, launch |-> NoLaunch]

Daemon(pc, launch) ==
    daemon' = [daemon EXCEPT !.pc = pc, !.launch = launch, !.todo = @ \ {launch.row}]
Passed(r) == daemon' = [daemon EXCEPT !.todo = @ \ {r}]
Handled(r) == daemon' = [daemon EXCEPT !.todo = @ \ {r}, !.handled = @ \cup {r}]

Launch(r, pass) == [row |-> r, pid |-> task[r].pid, status |-> task[r].status,
                    pass |-> pass, child |-> None]

\* run: no drive beside a live one or a fresh marker; a dead one outside of
\* in_review is the watchdog's.
Skips(l) ==
    \/ Alive(l.pid)
    \/ l.pid # None /\ l.status # "in_review"
    \/ marker[l.row]

RunSkips ==
    /\ daemon.pc = "launch" /\ Skips(daemon.launch)
    /\ daemon' = [daemon EXCEPT !.pc = "result"]
    /\ UNCHANGED <<task, lock, marker, drive, stint, excused, used>>

Mutant_RunSpawns ==                   \* the child's pid is not kept
    LET r == daemon.launch.row IN
    /\ daemon.pc = "launch" /\ ~Skips(daemon.launch)
    /\ \E p \in Pid : Free(p) /\ Spawned(p, r, "spawned")
    /\ daemon' = [daemon EXCEPT !.pc = "record"]
    /\ stint' = [stint EXCEPT ![r] = "driven"]
    /\ UNCHANGED <<task, lock, marker, excused, used>>
RunSpawns ==
    LET r == daemon.launch.row IN
    /\ daemon.pc = "launch" /\ ~Skips(daemon.launch)
    /\ \E p \in Pid :
         /\ Free(p) /\ Spawned(p, r, "spawned")
         /\ daemon' = [daemon EXCEPT !.pc = "record", !.launch.child = p]
    /\ stint' = [stint EXCEPT ![r] = "driven"] /\ Excuses(r)
    /\ UNCHANGED <<task, lock, marker, used>>

RunRecords ==
    /\ daemon.pc = "record"
    /\ task' = Owner(daemon.launch.row, daemon.launch.child)
    /\ daemon' = [daemon EXCEPT !.pc = "result"]
    /\ UNCHANGED <<lock, marker, drive, stint, excused, used>>

\* mark_auto_drive_pending_handoff or mark_claim_finished_typed after a
\* claim; mark_pending_handoff_lock or, in the first sweep, mark_claim_finished
\* after a redispatch.
RunResult ==
    LET l == daemon.launch IN
    /\ daemon.pc = "result"
    /\ lock' = CASE l.pass = "forward" -> Ended(l.row, IF Pending(l.row) THEN "open" ELSE "ok")
                 [] l.child # None     -> HandedOff(l.row, l.child)
                 [] l.pass = "sweep"   -> Ended(l.row, "ok")
                 [] OTHER              -> lock
    /\ daemon' = [daemon EXCEPT !.pc = l.pass, !.launch = NoLaunch,
                    !.handled = IF l.pass = "sweep" \/ l.child # None
                                THEN @ \cup {l.row} ELSE @]
    /\ UNCHANGED <<task, marker, drive, stint, excused, used>>

-----------------------------------------------------------------------------
(* One poll: forward pass, the watchdog's three passes, engine runner.     *)
(* Each pass works on a list it has read at its start.                     *)

\* count_active_auto_drive_capacity
Occupied ==
    Cardinality({r \in Row :
        \/ Alive(task[r].pid)
        \/ Open(r) /\ lock[r].age < 2 /\ (lock[r].pid = None \/ Alive(lock[r].pid))})

\* scan_zombie_tasks
Zombies ==
    {r \in Row :
        /\ task[r].status \in {"work", "in_review"}
        /\ lock[r].state \notin {"absent", "zombie"} /\ ~lock[r].before
        /\ IF task[r].pid = None THEN lock[r].age > 0
           ELSE ~task[r].starting /\ ~Alive(task[r].pid)}

\* has_live_dispatch_lock
Mutant_LiveLock(r) == Open(r)         \* an open lock is live, whatever became of its drive
LiveLock(r) == Open(r) /\ lock[r].age < 2 /\ (lock[r].pid = None \/ Alive(lock[r].pid))

\* scan_tasks: actionable_task_redrive
Actionable ==
    {r \in Row : task[r].status = "work" /\ ~Alive(task[r].pid) /\ ~LiveLock(r) /\ ~marker[r]}

Pass(pc) ==
    CASE pc = "forward" -> Row
      [] pc = "sweep"   -> {r \in Row : Open(r)}
      [] pc = "handoff" -> {r \in Row : lock[r].state = "ok" /\ task[r].status = "in_review"
                                          /\ task[r].pid # None} \ daemon.handled
      [] pc = "zombies" -> Zombies \ daemon.handled
      [] OTHER          -> Actionable

After(pc) ==
    CASE pc = "forward" -> "sweep" [] pc = "sweep" -> "handoff" [] pc = "handoff" -> "zombies"
      [] pc = "zombies" -> "runner" [] OTHER -> "forward"

NextPass ==
    /\ daemon.pc \in {"forward", "sweep", "handoff", "zombies", "runner"}
    /\ daemon.todo = {}
    /\ daemon' = [daemon EXCEPT !.pc = After(@), !.todo = Pass(After(daemon.pc)),
                    !.handled = IF daemon.pc = "runner" THEN {} ELSE @]
    /\ UNCHANGED <<task, lock, marker, drive, stint, excused, used>>

\* try_claim, below the cap; the lock's pid stays NULL.
Claim(r) ==
    /\ daemon.pc = "forward" /\ r \in daemon.todo
    /\ IF lock[r].state = "absent" /\ Occupied < MaxParallel
         THEN lock' = [lock EXCEPT ![r] = [NoLock EXCEPT !.state = "open"]]
              /\ Daemon("launch", Launch(r, "forward"))
         ELSE Passed(r) /\ UNCHANGED lock
    /\ UNCHANGED <<task, marker, drive, stint, excused, used>>

\* mark_drive_failed by the watchdog; a live drive is not stopped.
GivesUp(r) ==
    /\ task' = Blocked(r) /\ lock' = Ended(r, "zombie")
    /\ Disown(r) /\ Handled(r)

\* classify: progress is the heartbeat, or without one the claim.
Silent(r) == lock[r].beat = "old" \/ (lock[r].beat = "none" /\ lock[r].age = 2)

\* The sweep over open locks: an agent that fell silent or a drive that died
\* at work is given up, one that died before its wrap started anew; a death
\* is believed when the heartbeat is old, too.
InWork(r) == task[r].status = "work" /\ ~Reviewing(r)
Gone(r)     == task[r].pid # None /\ ~Alive(task[r].pid)

Sweeps(r) ==
    /\ daemon.pc = "sweep" /\ r \in daemon.todo
    /\ CASE \/ Alive(task[r].pid) /\ InWork(r) /\ Silent(r)
            \/ Gone(r) /\ InWork(r) /\ lock[r].beat # "recent" -> GivesUp(r)
         [] Gone(r) /\ task[r].status = "in_review" /\ lock[r].beat # "recent" ->
              Daemon("launch", Launch(r, "sweep")) /\ UNCHANGED <<task, lock, drive>>
         [] Gone(r) /\ lock[r].beat = "recent" ->
              Handled(r) /\ UNCHANGED <<task, lock, drive>>
         [] OTHER -> Passed(r) /\ UNCHANGED <<task, lock, drive>>
    /\ UNCHANGED <<marker, stint, excused, used>>

\* The pending-next handoff pass over locks closed with a plain ok
HandsOff(r) ==
    /\ daemon.pc = "handoff" /\ r \in daemon.todo
    /\ IF Alive(task[r].pid) \/ task[r].pid = None \/ ~Pending(r) THEN Passed(r)
       ELSE Daemon("launch", Launch(r, "handoff"))
    /\ UNCHANGED <<task, lock, marker, drive, stint, excused, used>>

\* The silent-zombie pass
Buries(r) ==
    /\ daemon.pc = "zombies" /\ r \in daemon.todo
    /\ IF InWork(r) THEN GivesUp(r)
       ELSE Passed(r) /\ UNCHANGED <<task, lock, drive>>
    /\ UNCHANGED <<marker, stint, excused, used>>

\* redispatch_orphaned_next_agent: everything is read again, and the drive
\* started and recorded, in one transaction; the child can read before the
\* commit, but write only after it.
Raced(r) ==
    \/ ~Pending(r) \/ Alive(task[r].pid) \/ marker[r]
    \/ Open(r) /\ Alive(lock[r].pid)

Redrives(r) ==
    /\ daemon.pc = "runner" /\ r \in daemon.todo
    /\ IF Raced(r) \/ Occupied >= MaxParallel
         THEN UNCHANGED <<task, lock, drive, stint, excused>>
         ELSE \E p \in Pid, pc \in {"spawned", "checked"} :
                /\ Free(p) /\ Spawned(p, r, pc)
                /\ task' = Owner(r, p) /\ lock' = HandedOff(r, p)
                /\ stint' = [stint EXCEPT ![r] = "driven"] /\ Excuses(r)
    /\ Passed(r)
    /\ UNCHANGED <<marker, used>>

DaemonStep ==
    \/ RunSkips \/ RunSpawns \/ RunRecords \/ RunResult \/ NextPass
    \/ \E r \in Row : Claim(r) \/ Sweeps(r) \/ HandsOff(r) \/ Buries(r) \/ Redrives(r)

\* A crash between spawn and UPDATE leaves a drive that nobody recorded.
Crash ==
    /\ daemon.pc # "off" /\ Spend("faults", MaxFaults)
    /\ excused' = (excused \/ daemon.pc \in {"record", "result"})
    /\ daemon' = Off
    /\ UNCHANGED <<task, lock, marker, drive, stint>>

\* The transaction of Redrives dies with the daemon, the child does not.
CrashInRedrive(r) ==
    /\ daemon.pc = "runner" /\ r \in daemon.todo
    /\ ~Raced(r) /\ Occupied < MaxParallel /\ Spend("faults", MaxFaults)
    /\ \E p \in Pid : Free(p) /\ Spawned(p, r, "spawned")
    /\ daemon' = Off /\ excused' = TRUE
    /\ stint' = [stint EXCEPT ![r] = "driven"]
    /\ UNCHANGED <<task, lock, marker>>

\* daemon_epoch: locks claimed before it are not looked at as zombies.
Boot ==
    /\ daemon.pc = "off"
    /\ daemon' = [Off EXCEPT !.pc = "forward", !.todo = Row]
    /\ lock' = [r \in Row |-> [lock[r] EXCEPT !.before = lock[r].state # "absent"]]
    /\ UNCHANGED <<task, marker, drive, stint, excused, used>>

-----------------------------------------------------------------------------
(* People and reviewers *)

\* A timing assumption: no verb comes in for a row, and none of its graces (10
\* seconds and more) runs out, within the few statements of a launch, of the
\* last pass of the watchdog or of a drive between two agents.
Brief(r) ==
    \/ daemon.launch.row = r \/ (daemon.pc = "zombies" /\ r \in daemon.todo)
    \/ \E p \in Pid : drive[p].row = r /\ drive[p].pc # "agent"

\* clear_auto_drive_bookkeeping_for_resume
Mutant_Resume(r) ==                   \* the lock and drive_pid are kept
    /\ task[r].status = "blocked" /\ Spend("returns", MaxReturns)
    /\ task' = [task EXCEPT ![r].status = "work"]
    /\ stint' = [stint EXCEPT ![r] = IF marker[r] \/ Driven(r) THEN "early" ELSE "resume"] /\ Disown(r)
    /\ UNCHANGED <<lock, marker, daemon, excused>>
Resume(r) ==
    /\ task[r].status = "blocked" /\ Spend("returns", MaxReturns)
    /\ task' = [task EXCEPT ![r].status = "work", ![r].pid = None, ![r].starting = FALSE]
    /\ lock' = [lock EXCEPT ![r] = NoLock] /\ Disown(r)
    /\ stint' = [stint EXCEPT ![r] = IF marker[r] \/ Driven(r) THEN "early" ELSE "resume"]
    /\ UNCHANGED <<marker, daemon, excused>>

\* submit-external-review with REVISE: the wrap is to be done again.
Revise(r) ==
    /\ task[r].status = "in_review" /\ task[r].review = "open" /\ Spend("returns", MaxReturns)
    /\ task' = [task EXCEPT ![r].status = "work", ![r].review = "recent", ![r].wrapped = FALSE]
    /\ stint' = [stint EXCEPT ![r] = "revise"]
    /\ UNCHANGED <<lock, marker, drive, daemon, excused>>

\* reject, then amend: neither touches drive_pid or the lock.
Reject(r) ==
    /\ task[r].status = "in_review" /\ Spend("returns", MaxReturns)
    /\ task' = [task EXCEPT ![r].status = "rejected", ![r].review = "none"]
    /\ UNCHANGED <<lock, marker, drive, daemon, stint, excused>>

Amend(r) ==
    /\ task[r].status = "rejected"
    /\ task' = [task EXCEPT ![r].status = "work", ![r].wrapped = FALSE]
    /\ stint' = [stint EXCEPT ![r] = "amend"]
    /\ UNCHANGED <<lock, marker, drive, daemon, excused, used>>

Approve(r) ==                          \* PASS
    /\ task[r].status = "in_review" /\ task[r].review = "open"
    /\ task' = [task EXCEPT ![r].review = "recent"]
    /\ UNCHANGED <<lock, marker, drive, daemon, stint, excused, used>>

Accept(r) ==
    /\ task[r].status = "in_review" /\ task[r].review # "open"
    /\ task' = [task EXCEPT ![r].status = "accepted", ![r].review = "none"]
    /\ UNCHANGED <<lock, marker, drive, daemon, stint, excused, used>>

\* stores tasks drive, by hand
DriveByHand(r) ==
    /\ Pending(r) /\ Spend("returns", MaxReturns)
    /\ \E p \in Pid : Free(p) /\ Spawned(p, r, "spawned")
    /\ stint' = [stint EXCEPT ![r] = "driven"]
    /\ UNCHANGED <<task, lock, marker, daemon, excused>>

People(r) ==
    /\ ~Brief(r)
    /\ Resume(r) \/ Revise(r) \/ Approve(r) \/ Reject(r) \/ Amend(r) \/ Accept(r)
       \/ DriveByHand(r)

-----------------------------------------------------------------------------
(* Time *)

Working(r) == \E p \in Pid : drive[p].pc = "agent" /\ drive[p].row = r

\* no_output_secs without output: an agent that stalls, or nobody there
BeatAges(r) ==
    /\ lock[r].beat = "recent" /\ ~Brief(r)
    /\ IF Working(r) THEN Spend("faults", MaxFaults) ELSE UNCHANGED used
    /\ lock' = [lock EXCEPT ![r].beat = "old"]
    /\ UNCHANGED <<task, marker, drive, daemon, stint, excused>>

\* LIVE_RUN_MARKER_FRESH_SECS, which is longer
MarkerAges(r) ==
    /\ marker[r] /\ (Working(r) => ~Brief(r))
    /\ IF Working(r) /\ ~(Open(r) /\ lock[r].beat = "old")
         THEN Spend("faults", MaxFaults) ELSE UNCHANGED used
    /\ marker' = [marker EXCEPT ![r] = FALSE]
    /\ UNCHANGED <<task, lock, drive, daemon, stint, excused>>

LockAges(r) ==
    /\ lock[r].state # "absent" /\ lock[r].age < 2 /\ ~Brief(r)
    /\ lock' = [lock EXCEPT ![r].age = @ + 1]
    /\ UNCHANGED <<task, marker, drive, daemon, stint, excused, used>>

\* ZOMBIE_GRACE_SECS since drive_started_at
StartAges(r) ==
    /\ task[r].starting /\ ~Brief(r)
    /\ task' = [task EXCEPT ![r].starting = FALSE]
    /\ UNCHANGED <<lock, marker, drive, daemon, stint, excused, used>>

\* EXTERNAL_REVIEW_RACE_GRACE_SECS since the verdict
VerdictAges(r) ==
    /\ task[r].review = "recent"
    /\ task' = [task EXCEPT ![r].review = "none"]
    /\ UNCHANGED <<lock, marker, drive, daemon, stint, excused, used>>

Time(r) == BeatAges(r) \/ MarkerAges(r) \/ LockAges(r) \/ StartAges(r) \/ VerdictAges(r)

-----------------------------------------------------------------------------
Init ==
    /\ task = [r \in Row |-> [status |-> "work", pid |-> None, starting |-> FALSE,
                              review |-> "none", wrapped |-> FALSE]]
    /\ lock = [r \in Row |-> NoLock]
    /\ marker = [r \in Row |-> FALSE]
    /\ drive = [p \in Pid |-> Dead]
    /\ daemon = Off
    /\ stint = [r \in Row |-> "add"] /\ excused = FALSE
    /\ used = [b \in {"faults", "returns"} |-> 0]

Next ==
    \/ DaemonStep \/ Crash \/ Boot
    \/ \E p \in Pid : DriveStep(p) \/ Dies(p)
    \/ \E r \in Row : CrashInRedrive(r) \/ People(r) \/ Time(r)

Spec == Init /\ [][Next]_vars

\* A daemon that is up keeps polling, drives go on, and time passes.
Fairness ==
    /\ WF_vars(DaemonStep)
    /\ \A p \in Pid : WF_vars(DriveStep(p))
    /\ \A r \in Row : WF_vars(LockAges(r)) /\ WF_vars(StartAges(r)) /\ WF_vars(VerdictAges(r))
                      /\ WF_vars(MarkerAges(r) /\ ~Working(r)) /\ WF_vars(BeatAges(r) /\ ~Working(r))

FairSpec == Spec /\ Fairness

-----------------------------------------------------------------------------
(* Properties *)

Status == {"work", "in_review", "blocked", "rejected", "accepted"}
LockState == {"absent", "open", "ok", "wrapped", "error", "zombie"}
DrivePc == {"dead", "spawned", "checked", "loop", "agent", "close"}

\* Every variable stays in its domain, and a daemon that started a drive
\* knows its process.
TypeOK ==
    /\ task \in [Row -> [status : Status, pid : Pid \cup {None}, starting : BOOLEAN,
                         review : {"none", "open", "recent"}, wrapped : BOOLEAN]]
    /\ lock \in [Row -> [state : LockState, pid : Pid \cup {None}, age : 0..2,
                         beat : {"none", "recent", "old"}, before : BOOLEAN]]
    /\ marker \in [Row -> BOOLEAN]
    /\ drive \in [Pid -> [pc : DrivePc, row : Row \cup {None},
                          saw : {"none", "work", "in_review"}, wrapped : BOOLEAN,
                          closed : BOOLEAN, disowned : BOOLEAN]]
    /\ daemon.pc = "record" => daemon.launch.child \in Pid
    /\ stint \in [Row -> {"add", "resume", "early", "revise", "amend", "driven"}]
    /\ excused \in BOOLEAN

Drives(p, r) == drive[p].pc \in {"loop", "agent", "close"} /\ drive[p].row = r /\ ~drive[p].disowned

\* However a row comes by its drives (first claim, handoff to the wrap,
\* engine runner, after a resume or a verdict), two of them never work on it
\* at once, but for one the watchdog gave up on or a resume took off the
\* record, and one a crash of the daemon left unrecorded; two starts at the very same
\* moment are not told apart.
OneDrivePerRow ==
    excused \/ \A p, q \in Pid, r \in Row : Drives(p, r) /\ Drives(q, r) => p = q

\* A step of the daemon that blocks the row.
WatchdogBlocks(r) ==
    daemon' # daemon /\ task[r].status = "work" /\ task'[r].status = "blocked"

\* submit.rs:2135: resume is the point of recovery, and clears what would
\* let the watchdog "immediately mark the resumed row blocked again": a row
\* resumed when its last drive is gone and that one's marker no longer fresh
\* is not blocked before a drive was started for it.
ResumedIsDriven ==
    [][\A r \in Row : WatchdogBlocks(r) => stint[r] # "resume"]_vars

ToDo(r)   == task[r].status = "work" \/ (task[r].status = "in_review" /\ ~task[r].wrapped)

\* While the daemon is up, a row with work to do and no drive gets one, or
\* stops having work to do: killed drives, closed and open locks, markers
\* and pids left behind do not strand it.
WorkIsTakenUp ==
    \A r \in Row :
        ToDo(r) /\ ~Driven(r) /\ stint[r] # "early"
            ~> Driven(r) \/ ~ToDo(r) \/ daemon.pc = "off" \/ excused
=============================================================================
