---------------------------- MODULE TaskWorkflow ----------------------------
(***************************************************************************)
(* One row of the tasks store and those who move it: `stores tasks drive`  *)
(* processes, which ask for the next role, let an agent work on it and     *)
(* submit its answer (handlers/drive.rs, handlers/submit.rs); the auto-    *)
(* drive watchdog (flow/builtins/auto_drive.rs); the external reviewer     *)
(* (flow/builtins/external_review.rs); and people (handlers/transition.rs, *)
(* `resume` in submit.rs).  Every handler is one SQLite transaction, so    *)
(* every handler is one step; agents think between two steps of a drive.   *)
(*                                                                         *)
(* ready and complete are left in the transaction that enters them and are *)
(* no states of the model.  Plans and commits are numbered in the order    *)
(* they are made; 0 is none.                                               *)
(***************************************************************************)
EXTENDS Naturals, Sequences

CONSTANTS
    Drive,              \* drive processes that may work on the row
    NoDrive,            \* drive_pid IS NULL
    Tier,               \* tier_hint: "T1", "T2" or "T3"
    PlanReviewLimit,    \* plan_review_log.length < 5
    ReviseLimit,        \* current_cycle <= 4
    MaxPhases,          \* bound: phases of a plan
    MaxPlans,           \* bound: plans, and reviews of plans
    MaxExecutions,      \* bound: cycles entries
    MaxCommits,         \* bound: commits after the first
    MaxReviews,         \* bound: external review attempts
    MaxFailures,        \* bound: runners that fail and drives that die
    MaxStalls,          \* bound: live drives the watchdog gives up on
    MaxResumes,         \* bound: resumes
    MaxAmends           \* bound: amends of a rejected task

ASSUME WorkflowAssumption ==
    /\ NoDrive \notin Drive
    /\ Tier \in {"T1", "T2", "T3"}
    /\ {PlanReviewLimit, ReviseLimit, MaxPhases} \subseteq Nat \ {0}
    /\ {MaxPlans, MaxExecutions, MaxCommits, MaxReviews, MaxFailures,
        MaxStalls, MaxResumes, MaxAmends} \subseteq Nat

VARIABLES
    \* columns of the tasks row
    status, plan, plan_review_log, current_phase, current_cycle, cycles,
    blocked_reason, overlay, drive_pid, activation,
    history,            \* what resume reads from transition_history
    reviews,            \* external_reviews of the task, by attempt
    head,               \* HEAD of the task's worktree
    drive,              \* the drive processes
    bypassed,           \* history variable: ways the plan gate was bypassed
    used                \* how much of each bound is spent

row  == <<status, plan, plan_review_log, current_phase, current_cycle, cycles,
          blocked_reason, overlay, history>>
owner == <<drive_pid, activation>>
vars == <<row, owner, reviews, head, drive, bypassed, used>>

InWork == {"planning", "plan_review", "executing", "code_review"}
Closed == {"accepted", "rejected", "abandoned", "closed_out_of_band"}
Status == InWork \cup Closed \cup {"blocked", "in_review"}

Spend(bound, max) == used[bound] < max /\ used' = [used EXCEPT ![bound] = @ + 1]

-----------------------------------------------------------------------------
(* write_status_and_fields: status, overlay columns and history row *)

\* lifecycle_overlay::derive
Derive(verb, to) ==
    [lifecycle    |-> IF to \in Closed \ {"accepted"} THEN "done" ELSE "active",
     active_step  |-> CASE to = "planning"    -> "planning"
                        [] to = "plan_review" -> "planning_review"
                        [] to = "executing"   -> "coding"
                        [] to = "code_review" -> "coding_review"
                        [] to \in {"in_review", "accepted"} -> "wrapping"
                        [] OTHER -> "none",
     blocked      |-> to = "blocked",
     blocker_kind |-> IF to # "blocked" THEN "none"
                      ELSE IF verb = "mark_drive_failed" THEN "runner" ELSE "task_review"]

(***************************************************************************)
(* Of transition_history resume reads: was the latest row a resume from    *)
(* blocked to planning; where did the latest mark_drive_failed start; did  *)
(* it start at planning right after such a resume; and where did the       *)
(* latest earlier one outside planning start.                              *)
(***************************************************************************)
Recorded(verb, from, to) ==
    IF verb = "mark_drive_failed"
    THEN [rewound  |-> FALSE,
          failed   |-> from,
          after    |-> from = "planning" /\ history.rewound,
          earlier  |-> IF history.failed \in {"none", "planning"} THEN history.earlier
                       ELSE history.failed]
    ELSE [history EXCEPT !.rewound = verb = "resume" /\ to = "planning"]

Move(verb, to) ==
    /\ status' = to
    /\ overlay' = Derive(verb, to)
    /\ history' = Recorded(verb, status, to)

\* execute_transition_write without the overlay columns
MoveBare(verb, to) ==
    /\ status' = to
    /\ history' = Recorded(verb, status, to)
    /\ UNCHANGED overlay

\* on_state.ready: start, with phase and cycle set when there is no phase yet
EnterExecuting ==
    IF current_phase = 0 THEN current_phase' = 1 /\ current_cycle' = 1
    ELSE UNCHANGED <<current_phase, current_cycle>>

-----------------------------------------------------------------------------
(* A drive process *)

Live(d) == drive[d].pc \notin {"off", "claiming"}
Idle    == [pc |-> "off", saw |-> "none", shown |-> 0, wrapped |-> FALSE]
Exits(d) == drive' = [drive EXCEPT ![d] = Idle]
ReadsOn(d) == drive' = [drive EXCEPT ![d].pc = "next", ![d].saw = "none", ![d].shown = 0]
Running(d, role) == drive[d].pc = "running" /\ drive[d].saw = role

\* enforce_singleton_drive_owner ...
CheckOwner(d) ==
    /\ drive[d].pc = "off" /\ status \in InWork \cup {"in_review"}
    /\ drive_pid # NoDrive => ~Live(drive_pid)
    /\ drive' = [drive EXCEPT ![d].pc = "claiming"]
    /\ UNCHANGED <<row, owner, reviews, head, bypassed, used>>

\* ... and record_drive_owner, a statement of its own
RecordOwner(d) ==
    /\ drive[d].pc = "claiming"
    /\ drive_pid' = d
    /\ ReadsOn(d)
    /\ UNCHANGED <<row, activation, reviews, head, bypassed, used>>

\* compute_next_action
NextRole(d) ==
    /\ drive[d].pc = "next"
    /\ IF \/ status \in Closed \cup {"blocked"}
          \/ status = "in_review" /\ drive[d].wrapped
          \/ status = "planning" /\ Tier = "T1"        \* no agent for status
         THEN Exits(d)
         ELSE drive' = [drive EXCEPT ![d].pc = "brief", ![d].saw = status]
    /\ UNCHANGED <<row, owner, reviews, head, bypassed, used>>

EntriesNow == {i \in 1..Len(cycles) :
                 cycles[i].phase = current_phase /\ cycles[i].cycle = current_cycle}
Earliest(S) == CHOOSE i \in S : \A j \in S : i <= j
Latest(S)   == CHOOSE i \in S : \A j \in S : j <= i

\* The brief shows a plan reviewer the plan, a code reviewer the diff of the
\* first cycles entry of this phase and cycle.
Shown(role) ==
    CASE role = "plan_review" -> plan.id
      [] role = "code_review" /\ EntriesNow # {} -> cycles[Earliest(EntriesNow)].commit
      [] OTHER -> 0

Brief(d) ==
    /\ drive[d].pc = "brief"
    /\ drive' = [drive EXCEPT ![d].pc = "running", ![d].shown = Shown(drive[d].saw)]
    /\ UNCHANGED <<row, owner, reviews, head, bypassed, used>>

\* An agent commits to the worktree.
AgentCommits(d) ==
    /\ Running(d, "executing") /\ head < MaxCommits
    /\ head' = head + 1
    /\ UNCHANGED <<row, owner, reviews, drive, bypassed, used>>

-----------------------------------------------------------------------------
(* The submit verbs *)

SubmitPlan(d) ==
    /\ Running(d, "planning") /\ status = "planning"
    /\ plan.id < MaxPlans
    /\ \E n \in 1..MaxPhases :
         /\ Tier = "T2" => n = 1
         /\ plan' = [id |-> plan.id + 1, phases |-> n]
    /\ Move("submit-plan", "plan_review")
    /\ ReadsOn(d)
    /\ UNCHANGED <<plan_review_log, current_phase, current_cycle, cycles, blocked_reason,
                   owner, reviews, head, bypassed, used>>

SubmitPlanReview(d) ==
    /\ Running(d, "plan_review") /\ status = "plan_review"
    /\ Len(plan_review_log) < MaxPlans
    /\ \E gate \in {"READY", "NEEDS_WORK", "NOT_READY"} :
         /\ plan_review_log' = Append(plan_review_log,
              [gate |-> gate, reviewed_plan |-> plan.id, shown |-> drive[d].shown])
         /\ \/ /\ gate = "READY"
               /\ Move("submit-plan-review", "executing")
               /\ EnterExecuting
               /\ UNCHANGED blocked_reason
            \/ /\ gate = "NEEDS_WORK" /\ Len(plan_review_log) < PlanReviewLimit
               /\ Move("submit-plan-review", "planning")
               /\ UNCHANGED <<current_phase, current_cycle, blocked_reason>>
            \/ /\ \/ gate = "NEEDS_WORK" /\ Len(plan_review_log) >= PlanReviewLimit
                  \/ gate = "NOT_READY"
               /\ Move("submit-plan-review", "blocked")
               /\ blocked_reason' = "plan_review"
               /\ UNCHANGED <<current_phase, current_cycle>>
    /\ ReadsOn(d)
    /\ UNCHANGED <<plan, cycles, owner, reviews, head, bypassed, used>>

\* The workspace HEAD wins over the commit the agent claims.
SubmitExecute(d) ==
    /\ Running(d, "executing") /\ status = "executing"
    /\ Len(cycles) < MaxExecutions
    /\ cycles' = Append(cycles, [phase |-> current_phase, cycle |-> current_cycle,
                                 commit |-> head, review |-> "none", shown |-> 0])
    /\ Move("submit-execute", "code_review")
    /\ ReadsOn(d)
    /\ UNCHANGED <<plan, plan_review_log, current_phase, current_cycle, blocked_reason,
                   owner, reviews, head, bypassed, used>>

Mutant_Target == Earliest(EntriesNow)       \* find instead of rposition
Target == Latest(EntriesNow)

Mutant_LastPhase == current_phase + 1 >= plan.phases
LastPhase == current_phase >= plan.phases

SubmitReview(d) ==
    /\ Running(d, "code_review") /\ status = "code_review"
    /\ EntriesNow # {}
    /\ \E gate \in {"PASS", "REVISE", "FAIL"} :
         /\ cycles' = [cycles EXCEPT ![Target].review = gate, ![Target].shown = drive[d].shown]
         /\ \/ /\ gate = "PASS" /\ ~LastPhase
               /\ Move("submit-review", "executing")
               /\ current_phase' = current_phase + 1
               /\ current_cycle' = 1
               /\ blocked_reason' = "none"
            \/ /\ gate = "PASS" /\ LastPhase
               /\ Move("submit-review", "in_review")
               /\ UNCHANGED <<current_phase, current_cycle, blocked_reason>>
            \/ /\ gate = "REVISE" /\ current_cycle + 1 <= ReviseLimit
               /\ Move("submit-review", "executing")
               /\ current_cycle' = current_cycle + 1
               /\ blocked_reason' = "none"
               /\ UNCHANGED current_phase
            \/ /\ \/ gate = "FAIL"
                  \/ gate = "REVISE" /\ current_cycle + 1 > ReviseLimit
               /\ Move("submit-review", "blocked")
               /\ blocked_reason' = "code_review"
               /\ UNCHANGED <<current_phase, current_cycle>>
    /\ ReadsOn(d)
    /\ UNCHANGED <<plan, plan_review_log, owner, reviews, head, bypassed, used>>

\* The wrap brief, and a pending external review unless one is open.
NoOpenReview == \A i \in 1..Len(reviews) : reviews[i].status \notin {"pending", "running"}

SubmitWrap(d) ==
    /\ Running(d, "in_review") /\ status = "in_review"
    /\ reviews' = IF Tier # "T1" /\ NoOpenReview /\ Len(reviews) < MaxReviews
                  THEN Append(reviews, [status |-> "pending", head |-> 0, due |-> FALSE])
                  ELSE reviews
    /\ drive' = [drive EXCEPT ![d].pc = "next", ![d].saw = "none", ![d].wrapped = TRUE]
    /\ UNCHANGED <<row, owner, head, bypassed, used>>

\* An answer for a status the row has left, and a review with no entry to
\* go to, are errors that end the drive.
Refused(d) ==
    /\ drive[d].pc = "running"
    /\ \/ status # drive[d].saw
       \/ status = "code_review" /\ EntriesNow = {}
    /\ Exits(d)
    /\ UNCHANGED <<row, owner, reviews, head, bypassed, used>>

-----------------------------------------------------------------------------
(* Failures *)

Mutant_Failable == InWork \ {"code_review"}
Failable == InWork

MarkDriveFailed(reason) ==
    /\ Move("mark_drive_failed", "blocked")
    /\ blocked_reason' = reason
    /\ UNCHANGED <<plan, plan_review_log, current_phase, current_cycle, cycles>>

\* The runner cannot be spawned, crashes or returns no envelope: the drive
\* fires mark_drive_failed itself, with a reason of its own, and ends.
RunnerFails(d) ==
    /\ drive[d].pc = "running"
    /\ Spend("failures", MaxFailures)
    /\ IF status \in Failable THEN MarkDriveFailed("runner_crash") ELSE UNCHANGED row
    /\ Exits(d)
    /\ UNCHANGED <<owner, reviews, head, bypassed>>

\* The process ends without a word to the database.
DriveDies(d) ==
    /\ drive[d].pc # "off"
    /\ Spend("failures", MaxFailures)
    /\ Exits(d)
    /\ UNCHANGED <<row, owner, reviews, head, bypassed>>

\* sweep_drive_watchdog, dead pid
WatchdogFindsZombie ==
    /\ drive_pid # NoDrive /\ ~Live(drive_pid)
    /\ status \in Failable
    /\ MarkDriveFailed("drive_failed")
    /\ UNCHANGED <<owner, reviews, head, drive, bypassed, used>>

\* ... and a live pid without output: the process is left running.
WatchdogFindsStalled ==
    /\ drive_pid # NoDrive /\ drive[drive_pid].pc = "running"
    /\ status \in Failable
    /\ Spend("stalls", MaxStalls)
    /\ MarkDriveFailed("drive_failed")
    /\ UNCHANGED <<owner, reviews, head, drive, bypassed>>

-----------------------------------------------------------------------------
(* resume *)

ReachesBack == history.failed = "planning" /\ history.after /\ history.earlier # "none"

InterruptedStatus ==
    IF history.failed = "none" THEN "planning"
    ELSE IF ReachesBack THEN history.earlier
    ELSE history.failed

\* Mutants: no default; a plan is enough
Mutant_BareTarget == IF ReachesBack THEN history.earlier ELSE history.failed
Mutant_PlanTarget == IF plan.id # 0 THEN "executing" ELSE "planning"
ResumeTarget == IF blocked_reason = "drive_failed" THEN InterruptedStatus ELSE "planning"

Mutant_Rewinds == TRUE                      \* progress is reset on every resume
Rewinds == ResumeTarget = "planning"

\* To planning with current_cycle = 1, and for a T1 row on through skip-plan,
\* which makes a plan from the contract, and start unless --no-dispatch.
Resume(no_dispatch) ==
    /\ status = "blocked"
    /\ Spend("resumes", MaxResumes)
    /\ LET onwards == Rewinds /\ Tier = "T1" /\ ~no_dispatch IN
         /\ Move("resume", IF onwards THEN "executing" ELSE ResumeTarget)
         /\ IF Rewinds
              THEN /\ current_cycle' = 1
                   /\ current_phase' = IF onwards /\ current_phase = 0 THEN 1 ELSE current_phase
              ELSE UNCHANGED <<current_phase, current_cycle>>
         /\ plan' = IF onwards /\ plan.id = 0 THEN [id |-> 1, phases |-> 1] ELSE plan
    /\ blocked_reason' = "none"
    /\ drive_pid' = NoDrive
    /\ activation' = IF no_dispatch THEN "inactive" ELSE activation
    /\ bypassed' = IF blocked_reason = "drive_failed" /\ ReachesBack
                   THEN bypassed \cup {"resume"} ELSE bypassed
    /\ UNCHANGED <<plan_review_log, cycles, reviews, head, drive>>

-----------------------------------------------------------------------------
(* External review *)

\* pending -> running, on a head that may first be rebased onto the base
ReviewStarts ==
    \E i \in 1..Len(reviews), rebased \in 0..1 :
        /\ reviews[i].status = "pending"
        /\ head + rebased <= MaxCommits
        /\ head' = head + rebased
        /\ reviews' = [reviews EXCEPT ![i].status = "running", ![i].head = head + rebased]
        /\ UNCHANGED <<row, owner, drive, bypassed, used>>

\* record_tooling_held, and promote_elapsed_tooling_held when it is due again
ReviewHeld ==
    \E i \in 1..Len(reviews) :
        /\ reviews[i].status = "running"
        /\ reviews' = [reviews EXCEPT ![i].status = "tooling_held"]
        /\ UNCHANGED <<row, owner, head, drive, bypassed, used>>

ReviewRetried ==
    \E i \in 1..Len(reviews) :
        /\ reviews[i].status = "tooling_held"
        /\ reviews' = [reviews EXCEPT ![i].status = "pending"]
        /\ UNCHANGED <<row, owner, head, drive, bypassed, used>>

ReviewEnds ==
    \E i \in 1..Len(reviews), verdict \in {"passed", "revise"} :
        /\ reviews[i].status = "running"
        /\ reviews' = [reviews EXCEPT ![i].status = verdict, ![i].due = verdict = "revise"]
        /\ UNCHANGED <<row, owner, head, drive, bypassed, used>>

\* fire_task_external_review_revise: once per attempt, from in_review when
\* the attempt reviewed HEAD, from a row the watchdog blocked when the latest
\* REVISE did; otherwise dropped.
Revised == {i \in 1..Len(reviews) : reviews[i].status = "revise"}
Revises(i) ==
    \/ status = "in_review" /\ reviews[i].head = head
    \/ /\ status = "blocked" /\ blocked_reason = "drive_failed"
       /\ reviews[Latest(Revised)].head = head

ReviewRevises ==
    \E i \in 1..Len(reviews) :
        /\ reviews[i].due
        /\ reviews' = [reviews EXCEPT ![i].due = FALSE]
        /\ IF Revises(i)
             THEN /\ MoveBare("submit-external-review", "executing")
                  /\ current_cycle' = current_cycle + 1
                  /\ blocked_reason' = "none"
                  /\ bypassed' = IF status = "blocked" /\ history.failed \in {"planning", "plan_review"}
                                 THEN bypassed \cup {"revise"} ELSE bypassed
                  /\ UNCHANGED <<plan, plan_review_log, current_phase, cycles>>
             ELSE UNCHANGED <<row, bypassed>>
        /\ UNCHANGED <<owner, head, drive, used>>

-----------------------------------------------------------------------------
(* People *)

OnlyMoves(verb, to) ==
    /\ Move(verb, to)
    /\ UNCHANGED <<plan, plan_review_log, current_phase, current_cycle, cycles, blocked_reason,
                   owner, reviews, head, drive, bypassed, used>>

\* enforce_external_review_accept_precheck: the latest attempt for HEAD passed.
ReviewedNow ==
    LET ofHead == {i \in 1..Len(reviews) : reviews[i].head = head} IN
    ofHead # {} /\ reviews[Latest(ofHead)].status = "passed"

Accept ==
    /\ status = "in_review"
    /\ Tier # "T1" => ReviewedNow
    /\ OnlyMoves("accept", "accepted")

Reject ==
    /\ status = "in_review"
    /\ OnlyMoves("reject", "rejected")

\* amend starts over at phase 0; no follow-on is fired.
Amend ==
    /\ status = "rejected"
    /\ Spend("amends", MaxAmends)
    /\ Move("amend", "planning")
    /\ current_phase' = 0 /\ current_cycle' = 0
    /\ UNCHANGED <<plan, plan_review_log, cycles, blocked_reason, owner, reviews, head,
                   drive, bypassed>>

\* activate, deactivate
SetActivation ==
    \E a \in {"active", "inactive"} :
        /\ activation' = a
        /\ history' = Recorded("activate", status, status)
        /\ UNCHANGED <<status, plan, plan_review_log, current_phase, current_cycle, cycles,
                       blocked_reason, overlay, drive_pid, reviews, head, drive, bypassed, used>>

Abandon ==
    /\ status \in InWork \cup {"blocked", "in_review"}
    /\ MoveBare("abandon", "abandoned")
    /\ UNCHANGED <<plan, plan_review_log, current_phase, current_cycle, cycles, blocked_reason,
                   owner, reviews, head, drive, bypassed, used>>

CloseOutOfBand ==
    /\ status \in InWork \cup {"blocked", "in_review", "rejected"}
    /\ OnlyMoves("close-out-of-band", "closed_out_of_band")

-----------------------------------------------------------------------------
\* The row was added and released from the queue (try_release_queued_in_tx).
\* Neither fires the follow-ons of planning, so a T1 row starts there too.
Init ==
    /\ status = "planning"
    /\ plan = [id |-> 0, phases |-> 0]
    /\ current_phase = 0 /\ current_cycle = 0
    /\ overlay = Derive("activate-task", status)
    /\ plan_review_log = <<>> /\ cycles = <<>> /\ reviews = <<>>
    /\ blocked_reason = "none"
    /\ drive_pid = NoDrive /\ activation = "active"
    /\ history = [rewound |-> FALSE, failed |-> "none", after |-> FALSE, earlier |-> "none"]
    /\ head = 0
    /\ drive = [d \in Drive |-> Idle]
    /\ bypassed = {}
    /\ used = [b \in {"failures", "stalls", "resumes", "amends"} |-> 0]

DriveStep(d) ==
    \/ RecordOwner(d) \/ NextRole(d) \/ Brief(d)
    \/ SubmitPlan(d) \/ SubmitPlanReview(d) \/ SubmitExecute(d) \/ SubmitReview(d)
    \/ SubmitWrap(d) \/ Refused(d)

Next ==
    \/ \E d \in Drive : \/ CheckOwner(d) \/ DriveStep(d)
                        \/ AgentCommits(d) \/ RunnerFails(d) \/ DriveDies(d)
    \/ WatchdogFindsZombie \/ WatchdogFindsStalled
    \/ \E no_dispatch \in BOOLEAN : Resume(no_dispatch)
    \/ ReviewStarts \/ ReviewHeld \/ ReviewRetried \/ ReviewEnds \/ ReviewRevises
    \/ Accept \/ Reject \/ Amend \/ SetActivation \/ Abandon \/ CloseOutOfBand

Spec == Init /\ [][Next]_vars

(***************************************************************************)
(* The drives are the daemon's: it dispatches auto-drive for an active row *)
(* without an owner, and its watchdog sweeps rows whose owner died.  A     *)
(* started drive goes on until it exits, and agents answer.  Nothing is    *)
(* asked of people or of the external reviewer.                            *)
(***************************************************************************)
Fairness ==
    /\ \A d \in Drive : /\ WF_vars(DriveStep(d))
                        /\ WF_vars(drive_pid = NoDrive /\ activation = "active" /\ CheckOwner(d))
    /\ WF_vars(WatchdogFindsZombie)

FairSpec == Spec /\ Fairness

-----------------------------------------------------------------------------
(* Properties *)

BlockedReason == {"none", "plan_review", "code_review", "drive_failed", "runner_crash"}
Entry == [phase : Nat, cycle : Nat, commit : Nat,
          review : {"none", "PASS", "REVISE", "FAIL"}, shown : Nat]
PlanReview == [gate : {"READY", "NEEDS_WORK", "NOT_READY"}, reviewed_plan : Nat, shown : Nat]
DriveLocal == [pc : {"off", "claiming", "next", "brief", "running"},
               saw : InWork \cup {"in_review", "none"}, shown : Nat, wrapped : BOOLEAN]
Attempt == [status : {"pending", "running", "tooling_held", "passed", "revise"}, head : Nat,
            due : BOOLEAN]
Overlay == [lifecycle : {"active", "done"},
            active_step : {"planning", "planning_review", "coding", "coding_review",
                           "wrapping", "none"},
            blocked : BOOLEAN, blocker_kind : {"none", "runner", "task_review"}]
History == [rewound : BOOLEAN, failed : InWork \cup {"none"}, after : BOOLEAN,
            earlier : (InWork \ {"planning"}) \cup {"none"}]

\* Every column and every local of a drive holds what the code stores there.
TypeOK ==
    /\ status \in Status
    /\ plan \in [id : Nat, phases : Nat]
    /\ plan_review_log \in Seq(PlanReview)
    /\ current_phase \in Nat /\ current_cycle \in Nat
    /\ cycles \in Seq(Entry)
    /\ blocked_reason \in BlockedReason
    /\ overlay \in Overlay
    /\ drive_pid \in Drive \cup {NoDrive}
    /\ activation \in {"active", "inactive"}
    /\ history \in History
    /\ reviews \in Seq(Attempt)
    /\ head \in Nat
    /\ drive \in [Drive -> DriveLocal]
    /\ bypassed \subseteq {"resume", "revise"}
    /\ used \in [{"failures", "stalls", "resumes", "amends"} -> Nat]

(***************************************************************************)
(* No phase is skipped: a task comes to review with every phase number of  *)
(* its plan executed and passed, through crashes, resumes, replanning,     *)
(* external revisions, amends and drives that answer late.                 *)
(***************************************************************************)
Passed(p) == \E i \in 1..Len(cycles) : cycles[i].phase = p /\ cycles[i].review = "PASS"
EveryPhasePassed == status = "in_review" => \A p \in 1..plan.phases : Passed(p)

(***************************************************************************)
(* A code review always has its target: the row is in code_review only     *)
(* with an execution of this phase and cycle, the last one made, that      *)
(* nobody has reviewed.  Not after a resume that reached behind a rewind.  *)
(***************************************************************************)
ReviewHasTarget ==
    status = "code_review" /\ "resume" \notin bypassed =>
        /\ Len(cycles) \in EntriesNow
        /\ cycles[Len(cycles)].review = "none"

(***************************************************************************)
(* The review trail is written once: no step, a late answer least of all,  *)
(* changes a recorded gate or drops an entry.  Same exception.             *)
(***************************************************************************)
ReviewsAreFinal ==
    []["resume" \notin bypassed' =>
         /\ Len(cycles') >= Len(cycles)
         /\ \A i \in 1..Len(cycles) : cycles[i].review # "none" => cycles'[i] = cycles[i]]_vars

(***************************************************************************)
(* Only an approved plan is executed, reviewed or wrapped: the one the     *)
(* latest plan review found READY.  Except after such a resume, and after  *)
(* an external REVISE on a row whose planning or plan review had failed.   *)
(***************************************************************************)
PlanApproved ==
    \/ Tier = "T1"
    \/ /\ plan_review_log # <<>>
       /\ LET last == plan_review_log[Len(plan_review_log)] IN
            last.gate = "READY" /\ last.reviewed_plan = plan.id
Beyond == {"executing", "code_review", "in_review", "accepted"}
ApprovedPlanRuns == status \in Beyond /\ bypassed = {} => PlanApproved

(***************************************************************************)
(* A task in work comes to rest: it is blocked with a reason, waits for a  *)
(* person, is closed, or was deactivated.  No loop of plan reviews or      *)
(* revisions goes on for ever, and no dead drive leaves the row behind.    *)
(***************************************************************************)
ComesToRest == status \in InWork ~> status \notin InWork \/ activation = "inactive"
=============================================================================
