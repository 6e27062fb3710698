--------------------------- MODULE IntegrationLane ---------------------------
(***************************************************************************)
(* builtin:integrate (flow/builtins/integrate.rs): every task at           *)
(* integration_queued is refreshed onto main, checked and merged into main *)
(* by its own run of the lane.  Runs of different tasks (of the daemon, a  *)
(* second daemon in the foreground, the run-integration verb) interleave   *)
(* at every database statement and git command; humans abandon, close and  *)
(* retry tasks and hold the lock at any time; a run may die at any step.   *)
(*                                                                         *)
(* Reviewed tasks come here once a person accepts them on a passed         *)
(* external review; the lane looks at the review again before it merges.   *)
(*                                                                         *)
(* A commit of main is identified with the first-parent chain that leads   *)
(* to it, a sequence of landings; a candidate head with the main commit it *)
(* sits on, the foreign landings it carries and its own revision.          *)
(***************************************************************************)
EXTENDS Naturals, Sequences, ResourceLock

CONSTANTS
    Task,               \* display ids of the tasks
    Reviewed,           \* the tasks of tier T2 or T3: accepted on a passed external review
    Operator,           \* a human at the resource-locks CLI and on main
    NoSha,              \* an empty sha column, or a sha not yet read
    AllowPush,          \* command_args.allow_push
    MaxAttempts,        \* bound: lane runs of one task
    MaxReviews,         \* bound: external reviews of one task
    MaxCrashes,         \* bound: runs that die
    MaxLapses,          \* bound: TTLs that run out
    MaxOutside          \* bound: commits and locks made by hand while a lane runs

ASSUME LaneAssumption ==
    /\ Operator \notin Task
    /\ Reviewed \subseteq Task
    /\ NoSha # <<>>
    /\ AllowPush \in BOOLEAN
    /\ {MaxAttempts, MaxReviews, MaxCrashes, MaxLapses, MaxOutside} \subseteq Nat

VARIABLES
    \* columns of the tasks row
    status, integration_step, reason, attempts, landed, evidence,
    review,             \* its external_reviews rows, in the order of their attempts
    \* git
    main, branch,
    \* locals of the run of each task, and its program counter
    pc, base, head, why,
    used                \* how much of each bound is spent

row  == <<status, integration_step, reason, attempts, landed, evidence>>
git  == <<main, branch>>
run  == <<pc, base, head, why>>
vars == <<lock, row, review, git, run, used>>

-----------------------------------------------------------------------------
(* Git *)

Who     == Task \cup {Operator}
Landing == Who \X Nat

Contents(m) == UNION {m[i].brings : i \in 1..Len(m)}
Carried(c)  == Contents(c.on) \cup c.carries

\* git merge-base --is-ancestor m, of a history with these landings
Ancestor(m, landings) == m # <<>> => m[Len(m)].by \in landings

\* git rebase main, or git merge main: nothing to do when main is contained.
Refreshed(c) ==
    IF Ancestor(main, Carried(c)) THEN c
    ELSE [c EXCEPT !.on = main, !.carries = Carried(c) \ Contents(main)]

\* git merge --no-ff
Merged(id, c) ==
    Append(main, [by |-> id, brings |-> {id} \cup (Carried(c) \ Contents(main))])

-----------------------------------------------------------------------------
(* The task row *)

Attempt(t)    == Len(attempts[t])
LandingOf(t)  == <<t, Attempt(t)>>
Mutant_Token(t) == t                  \* the display id instead of a fresh uuid
Token(t)      == <<t, Attempt(t)>>    \* one uuid per run that reaches acquire

Mutant_Finished(t, outcome) ==        \* writes $[0] instead of $[#-1]
    attempts' = [attempts EXCEPT ![t][1] = outcome]
Finished(t, outcome) ==
    attempts' = [attempts EXCEPT ![t][Attempt(t)] = outcome]

\* A failure: the attempt entry gets its outcome, then the run goes on to
\* fire mark_integration_blocked with this reason.
Fail(t, outcome, because) ==
    /\ Finished(t, outcome)
    /\ why' = [why EXCEPT ![t] = because]
    /\ pc' = [pc EXCEPT ![t] = "block"]
    /\ UNCHANGED <<status, integration_step, reason, landed, evidence, base, head>>

Goto(t, label) == pc' = [pc EXCEPT ![t] = label]

(***************************************************************************)
(* fire_framework_transition_for a mark_*_done verb: the verbs are declared*)
(* from integrating only.  On a row that left integrating the error        *)
(* propagates out of run and the guard is dropped.                         *)
(***************************************************************************)
FireStep(t, to, label) ==
    /\ IF status[t] = "integrating"
         THEN integration_step' = [integration_step EXCEPT ![t] = to] /\ Goto(t, label)
         ELSE UNCHANGED integration_step /\ Goto(t, "release")
    /\ UNCHANGED <<status, reason, attempts, landed, base, head, why>>

\* Partial UNIQUE index: at most one row integrating and merging.
SlotFree == \A u \in Task : ~(status[u] = "integrating" /\ integration_step[u] = "merging")

\* check_freshness of the row against the main read under the lock
Mutant_FreshnessNoScope(t) ==                  \* an empty affected_scope will do
    LET e == evidence[t] IN
    IF e.branch_head # NoSha /\ e.review_head = e.branch_head /\ e.test_head = e.branch_head
       /\ e.review_base = main /\ e.test_base = main
    THEN "ready" ELSE "main_moved_after_review"
Mutant_Freshness(t) ==                         \* compares heads, not bases
    IF evidence[t].review_head = evidence[t].branch_head THEN "ready" ELSE "main_moved_after_review"
Freshness(t) ==
    LET e == evidence[t] IN
    IF ~e.scope \/ e.branch_head = NoSha \/ e.review_head # e.branch_head
      THEN "main_moved_after_review"
    ELSE IF e.test_head # e.branch_head THEN "test_evidence_stale"
    ELSE IF e.review_base = main /\ e.test_base = main THEN "ready"
    ELSE "main_moved_after_review"

-----------------------------------------------------------------------------
(* The run, in the order of integrate.rs *)

\* 1. start-integration
Start(t) ==
    /\ pc[t] = "idle" /\ status[t] = "integration_queued"
    /\ Attempt(t) < MaxAttempts
    /\ status' = [status EXCEPT ![t] = "integrating"]
    /\ integration_step' = [integration_step EXCEPT ![t] = "refreshing"]
    /\ Goto(t, "capture")
    /\ UNCHANGED <<lock, reason, attempts, landed, evidence, review, git, base, head, why, used>>

\* Branch, workspace or main repository cannot be resolved: the entry is
\* appended already completed.
PreflightFails(t) ==
    /\ pc[t] = "capture"
    /\ attempts' = [attempts EXCEPT ![t] = Append(@, "merge_failure")]
    /\ why' = [why EXCEPT ![t] = "merge_failure"]
    /\ Goto(t, "block")
    /\ UNCHANGED <<lock, status, integration_step, reason, landed, evidence,
                   review, git, base, head, used>>

\* 2. base_main_sha, and the in-progress entry
CaptureBase(t) ==
    /\ pc[t] = "capture"
    /\ base' = [base EXCEPT ![t] = main]
    /\ attempts' = [attempts EXCEPT ![t] = Append(@, "in_progress")]
    /\ Goto(t, "stale_base")
    /\ UNCHANGED <<lock, status, integration_step, reason, landed, evidence,
                   review, git, head, why, used>>

\* latest_passed_er_row: superseded rows are passed over, older ones found.
Passed(t)      == {n \in 1..Len(review[t]) : review[t][n].status = "passed"}
IsLatest(t, n) == n \in Passed(t) /\ \A m \in Passed(t) : m <= n

\* 3. The reviewed base must still be reachable from main.
BaseIsReachable(t) ==
    \A n \in Passed(t) : IsLatest(t, n) => Ancestor(review[t][n].base, Contents(main))

CheckStaleBase(t) ==
    /\ pc[t] = "stale_base"
    /\ IF BaseIsReachable(t)
         THEN /\ Goto(t, "refresh")
              /\ UNCHANGED <<row, review, base, head, why>>
         ELSE /\ \E n \in Passed(t) :
                   IsLatest(t, n) /\ review' = [review EXCEPT ![t][n].status = "superseded"]
              /\ Fail(t, "stale_base", "stale_base")
    /\ UNCHANGED <<lock, git, used>>

\* 4, 5. Check the branch out and refresh it.
Refresh(t) ==
    /\ pc[t] = "refresh"
    /\ branch' = [branch EXCEPT ![t] = Refreshed(@)]
    /\ Goto(t, "review_check")
    /\ UNCHANGED <<lock, row, review, main, base, head, why, used>>

RefreshFails(t) ==
    /\ pc[t] = "refresh"
    /\ \E o \in {"merge_failure", "rebase_conflict", "stale_base"} : Fail(t, o, o)
    /\ UNCHANGED <<lock, review, git, used>>

\* candidate_head_after, and the head the latest passed review was made of
HeadIsReviewed(t) == \A n \in Passed(t) : IsLatest(t, n) => review[t][n].head = branch[t]

CheckReviewedHead(t) ==
    /\ pc[t] = "review_check"
    /\ IF HeadIsReviewed(t)
         THEN /\ head' = [head EXCEPT ![t] = branch[t]]
              /\ Goto(t, "refresh_done")
              /\ UNCHANGED <<row, base, why>>
         ELSE Fail(t, "needs_review", "stale_external_review")
    /\ UNCHANGED <<lock, review, git, used>>

\* Each evidence write precedes the verb that advances the step.
MarkRefreshDone(t) ==
    /\ pc[t] = "refresh_done"
    /\ evidence' = [evidence EXCEPT
         ![t].branch_head = head[t],
         ![t].scope = \A n \in 1..Attempt(t) : <<t, n>> \notin Contents(base[t])]
    /\ FireStep(t, "task_review", "review_done")
    /\ UNCHANGED <<lock, review, git, used>>

MarkTaskReviewDone(t) ==
    /\ pc[t] = "review_done"
    /\ evidence' = [evidence EXCEPT ![t].review_base = base[t], ![t].review_head = head[t]]
    /\ FireStep(t, "testing", "pre_land")
    /\ UNCHANGED <<lock, review, git, used>>

\* 7. pre_land_check on the candidate worktree
PreLandPasses(t) ==
    /\ pc[t] = "pre_land"
    /\ evidence' = [evidence EXCEPT ![t].test_base = base[t], ![t].test_head = head[t]]
    /\ Goto(t, "testing_done")
    /\ UNCHANGED <<lock, status, integration_step, reason, attempts, landed,
                   review, git, base, head, why, used>>

PreLandFails(t) ==
    /\ pc[t] = "pre_land"
    /\ Fail(t, "pre_land_check_failed", "pre_land_check_failed")
    /\ UNCHANGED <<lock, review, git, used>>

\* fire_testing_done_when_merge_free: polls the index every 20 ms ...
MarkTestingDone(t) ==
    /\ pc[t] = "testing_done"
    /\ status[t] = "integrating" => SlotFree
    /\ FireStep(t, "merging", "acquire")
    /\ UNCHANGED <<lock, evidence, review, git, used>>

\* ... and gives up with an error after 30 s.
Mutant_MergeWaitTimesOut(t) == FALSE           \* polls without a deadline
MergeWaitTimesOut(t) ==
    /\ pc[t] = "testing_done"
    /\ status[t] = "integrating" /\ ~SlotFree
    /\ Goto(t, "release")
    /\ UNCHANGED <<lock, row, review, git, base, head, why, used>>

\* 8. main_branch lock, 600 s
AcquireLock(t) ==
    /\ pc[t] = "acquire"
    /\ Acquire(t, Token(t), "live")
    /\ Goto(t, "freshness")
    /\ UNCHANGED <<row, review, git, base, head, why, used>>

LockBusy(t) ==
    /\ pc[t] = "acquire"
    /\ ~Available
    /\ Fail(t, "merge_failure", "merge_failure")
    /\ UNCHANGED <<lock, review, git, used>>

FreshEnough(t) ==
    /\ pc[t] = "freshness"
    /\ Freshness(t) = "ready"
    /\ Goto(t, "ownership")
    /\ UNCHANGED <<lock, row, review, git, base, head, why, used>>

\* lock_guard.release()? and complete_needs_review; a release that finds the
\* token gone is an error and leaves the row where it is.
Stale(t) ==
    /\ pc[t] = "freshness"
    /\ Freshness(t) # "ready"
    /\ lock' = WithoutToken(Token(t))
    /\ IF HasToken(Token(t)) THEN Fail(t, "needs_review", Freshness(t))
       ELSE Goto(t, "release") /\ UNCHANGED <<row, base, head, why>>
    /\ UNCHANGED <<review, git, used>>

\* git checkout main may fail; then the token is read once more.
StillOwner(t) == OwnsToken(t, Token(t))

CheckOwnership(t) ==
    /\ pc[t] = "ownership"
    /\ \/ /\ StillOwner(t)
          /\ Goto(t, "merge")
          /\ UNCHANGED <<row, base, head, why>>
       \/ Fail(t, "merge_failure", "merge_failure")
    /\ UNCHANGED <<lock, review, git, used>>

\* git merge --no-ff <branch>: the branch by name, whatever its head is now
Merge(t) ==
    /\ pc[t] = "merge"
    /\ main' = Merged(LandingOf(t), branch[t])
    /\ Goto(t, "merge_done")
    /\ UNCHANGED <<lock, row, review, branch, base, head, why, used>>

MergeFails(t) ==
    /\ pc[t] = "merge"
    /\ Fail(t, "merge_failure", "merge_failure")
    /\ UNCHANGED <<lock, review, git, used>>

MarkMergeDone(t) ==
    /\ pc[t] = "merge_done"
    /\ FireStep(t, "deploying", IF AllowPush THEN "push" ELSE "deploy_done")
    /\ UNCHANGED <<lock, evidence, review, git, used>>

\* 9. git push
Push(t) ==
    /\ pc[t] = "push"
    /\ Goto(t, "deploy_done")
    /\ UNCHANGED <<lock, row, review, git, base, head, why, used>>

\* Roll back only when HEAD^ is the base the run started from.
OnlyOwnMerge(t) == main # <<>> /\ SubSeq(main, 1, Len(main) - 1) = base[t]

PushFails(t) ==
    /\ pc[t] = "push"
    /\ IF OnlyOwnMerge(t)
         THEN Goto(t, "reset") /\ UNCHANGED <<row, base, head, why>>
         ELSE Fail(t, "push_failure", "push_failure")
    /\ UNCHANGED <<lock, review, git, used>>

\* git reset --hard base_main_sha, best effort: its result is not looked at.
ResetMain(t) ==
    /\ pc[t] = "reset"
    /\ main' \in {base[t], main}
    /\ Fail(t, "push_failure", "push_failure")
    /\ UNCHANGED <<lock, review, branch, used>>

MarkDeployDone(t) ==
    /\ pc[t] = "deploy_done"
    /\ FireStep(t, "verifying", "landed")
    /\ UNCHANGED <<lock, evidence, review, git, used>>

\* 10. landed_main_sha and the outcome, before the transition
RecordLanded(t) ==
    /\ pc[t] = "landed"
    /\ landed' = [landed EXCEPT ![t] = main]
    /\ Finished(t, "integrated")
    /\ Goto(t, "verify_done")
    /\ UNCHANGED <<lock, status, integration_step, reason, evidence, review, git,
                   base, head, why, used>>

MarkVerifyDone(t) ==
    /\ pc[t] = "verify_done"
    /\ IF status[t] = "integrating"
         THEN /\ status' = [status EXCEPT ![t] = "integrated"]
              /\ integration_step' = [integration_step EXCEPT ![t] = "none"]
         ELSE UNCHANGED <<status, integration_step>>
    /\ Goto(t, "release")
    /\ UNCHANGED <<lock, reason, attempts, landed, evidence, review, git,
                   base, head, why, used>>

\* mark_integration_blocked, from integrating only
FireBlocked(t) ==
    /\ pc[t] = "block"
    /\ IF status[t] = "integrating"
         THEN /\ status' = [status EXCEPT ![t] = "integration_blocked"]
              /\ integration_step' = [integration_step EXCEPT ![t] = "none"]
              /\ reason' = [reason EXCEPT ![t] = why[t]]
         ELSE UNCHANGED <<status, integration_step, reason>>
    /\ Goto(t, "release")
    /\ UNCHANGED <<lock, attempts, landed, evidence, review, git, base, head, why, used>>

\* lock_guard.release() or its Drop: deletes this run's row or nothing.
Return(t) ==
    /\ pc[t] = "release"
    /\ lock' = WithoutToken(Token(t))
    /\ pc' = [pc EXCEPT ![t] = "idle"]
    /\ base' = [base EXCEPT ![t] = NoSha]
    /\ head' = [head EXCEPT ![t] = NoSha]
    /\ why' = [why EXCEPT ![t] = "none"]
    /\ UNCHANGED <<row, review, git, used>>

-----------------------------------------------------------------------------
(* Everything else that happens to the same state *)

Spend(bound, max) == used[bound] < max /\ used' = [used EXCEPT ![bound] = @ + 1]

\* The process dies: no Drop, no further write.
Crash(t) ==
    /\ pc[t] # "idle"
    /\ Spend("crashes", MaxCrashes)
    /\ pc' = [pc EXCEPT ![t] = "idle"]
    /\ base' = [base EXCEPT ![t] = NoSha]
    /\ head' = [head EXCEPT ![t] = NoSha]
    /\ why' = [why EXCEPT ![t] = "none"]
    /\ UNCHANGED <<lock, row, review, git>>

\* import-pass: one more row, of the candidate and main as they are now.
ImportPass(t) ==
    /\ Len(review[t]) < MaxReviews
    /\ review' = [review EXCEPT ![t] =
         Append(@, [status |-> "passed", base |-> main, head |-> branch[t]])]
    /\ UNCHANGED <<lock, row, git, run, used>>

\* accept, which asks of a T2 or T3 task that the last review of its head
\* passed, and the release-to-integration that follows it.
Acceptable(t) ==
    \E n \in Passed(t) :
        /\ review[t][n].head = branch[t]
        /\ \A m \in 1..Len(review[t]) : review[t][m].head = branch[t] => m <= n

Accept(t) ==
    /\ status[t] = "in_review"
    /\ t \in Reviewed => Acceptable(t)
    /\ status' = [status EXCEPT ![t] = "integration_queued"]
    /\ UNCHANGED <<lock, integration_step, reason, attempts, landed, evidence,
                   review, git, run, used>>

\* stores tasks abandon / close-out-of-band.  abandon writes no overlay
\* columns, so integration_step stays as it was.
Open == {"in_review", "integration_queued", "integrating", "integration_blocked", "integrated"}

Abandon(t) ==
    /\ status[t] \in Open
    /\ status' = [status EXCEPT ![t] = "abandoned"]
    /\ UNCHANGED <<lock, integration_step, reason, attempts, landed, evidence,
                   review, git, run, used>>

CloseOutOfBand(t) ==
    /\ status[t] \in Open
    /\ status' = [status EXCEPT ![t] = "closed_out_of_band"]
    /\ integration_step' = [integration_step EXCEPT ![t] = "none"]
    /\ UNCHANGED <<lock, reason, attempts, landed, evidence, review, git, run, used>>

\* stores tasks retry-integration, once the run that blocked the task has
\* returned: one run of a task at a time.
RetryIntegration(t) ==
    /\ pc[t] = "idle" /\ status[t] = "integration_blocked"
    /\ status' = [status EXCEPT ![t] = "integration_queued"]
    /\ UNCHANGED <<lock, integration_step, reason, attempts, landed, evidence,
                   review, git, run, used>>

\* Someone commits to the candidate branch while the lane works on it.
EditBranch(t) ==
    /\ pc[t] # "idle" /\ status[t] = "integrating"
    /\ Spend("outside", MaxOutside)
    /\ branch' = [branch EXCEPT ![t].rev = @ + 1]
    /\ UNCHANGED <<lock, row, review, main, run>>

\* A human lands work on main without the lane (close-out-of-band's case).
CommitOnMain ==
    /\ Spend("outside", MaxOutside)
    /\ LET id == <<Operator, used.outside>> IN
         main' = Append(main, [by |-> id, brings |-> {id}])
    /\ UNCHANGED <<lock, row, review, branch, run>>

OperatorAcquires ==
    /\ Spend("outside", MaxOutside)
    /\ \E ttl \in {"live", "never"} : Acquire(Operator, <<Operator, used.outside>>, ttl)
    /\ UNCHANGED <<row, review, git, run>>

OperatorReleases ==
    /\ \E r \in lock : r.owner = Operator /\ lock' = WithoutToken(r.token)
    /\ UNCHANGED <<row, review, git, run, used>>

OperatorRecovers ==
    /\ RecoverStale
    /\ UNCHANGED <<row, review, git, run, used>>

TtlRunsOut ==
    /\ Spend("lapses", MaxLapses)
    /\ Lapse
    /\ UNCHANGED <<row, review, git, run>>

-----------------------------------------------------------------------------
Init ==
    /\ lock = {}
    /\ status = [t \in Task |-> IF t \in Reviewed THEN "in_review" ELSE "integration_queued"]
    /\ integration_step = [t \in Task |-> "none"]
    /\ reason = [t \in Task |-> "none"]
    /\ attempts = [t \in Task |-> <<>>]
    /\ landed = [t \in Task |-> NoSha]
    /\ evidence = [t \in Task |-> [branch_head |-> NoSha, scope |-> FALSE, review_base |-> NoSha,
                     review_head |-> NoSha, test_base |-> NoSha, test_head |-> NoSha]]
    /\ main = <<>>
    /\ branch = [t \in Task |-> [on |-> <<>>, carries |-> {}, rev |-> 0]]
    /\ review = [t \in Task |-> <<>>]
    /\ pc = [t \in Task |-> "idle"]
    /\ base = [t \in Task |-> NoSha]
    /\ head = [t \in Task |-> NoSha]
    /\ why = [t \in Task |-> "none"]
    /\ used = [b \in {"crashes", "lapses", "outside"} |-> 0]

LaneStep(t) ==
    \/ PreflightFails(t) \/ CaptureBase(t) \/ CheckStaleBase(t)
    \/ Refresh(t) \/ RefreshFails(t) \/ CheckReviewedHead(t)
    \/ MarkRefreshDone(t) \/ MarkTaskReviewDone(t) \/ PreLandPasses(t) \/ PreLandFails(t)
    \/ MarkTestingDone(t) \/ MergeWaitTimesOut(t) \/ AcquireLock(t) \/ LockBusy(t)
    \/ FreshEnough(t) \/ Stale(t) \/ CheckOwnership(t) \/ Merge(t) \/ MergeFails(t)
    \/ MarkMergeDone(t) \/ Push(t) \/ PushFails(t) \/ ResetMain(t)
    \/ MarkDeployDone(t) \/ RecordLanded(t) \/ MarkVerifyDone(t)
    \/ FireBlocked(t) \/ Return(t)

HumanStep(t) ==
    \/ ImportPass(t) \/ Accept(t) \/ Abandon(t) \/ CloseOutOfBand(t)
    \/ RetryIntegration(t) \/ EditBranch(t)

Environment ==
    CommitOnMain \/ OperatorAcquires \/ OperatorReleases \/ OperatorRecovers \/ TtlRunsOut

Next ==
    \/ \E t \in Task : Start(t) \/ LaneStep(t) \/ Crash(t) \/ HumanStep(t)
    \/ Environment

Spec == Init /\ [][Next]_vars

(***************************************************************************)
(* A run that is under way keeps taking steps (it is one thread, or it     *)
(* crashes); daemons keep polling; a TTL keeps running.  Nothing is        *)
(* asked of humans.                                                        *)
(***************************************************************************)
Fairness ==
    /\ \A t \in Task : WF_vars(LaneStep(t)) /\ WF_vars(Start(t))
    /\ WF_vars(TtlRunsOut)

FairSpec == Spec /\ Fairness

-----------------------------------------------------------------------------
(* Properties *)

Commit  == [by : Landing, brings : SUBSET Landing]
Sha     == Seq(Commit)
Candidate == [on : Sha, carries : SUBSET Landing, rev : Nat]
Review  == [status : {"passed", "superseded"}, base : Sha, head : Candidate]
Outcome == {"in_progress", "integrated", "rebase_conflict", "stale_base", "needs_review",
            "pre_land_check_failed", "merge_failure", "push_failure"}
Reason  == (Outcome \ {"in_progress", "integrated", "needs_review"}) \cup
           {"none", "stale_external_review", "main_moved_after_review", "test_evidence_stale"}
GuardPc == {"freshness", "ownership", "merge", "merge_done", "push", "reset",
            "deploy_done", "landed", "verify_done"}
Label   == GuardPc \cup
           {"idle", "capture", "stale_base", "refresh", "review_check", "refresh_done",
            "review_done", "pre_land", "testing_done", "acquire", "block", "release"}
Evidence == [branch_head : Candidate \cup {NoSha}, scope : BOOLEAN,
             review_base : Sha \cup {NoSha}, review_head : Candidate \cup {NoSha},
             test_base : Sha \cup {NoSha}, test_head : Candidate \cup {NoSha}]

\* Every variable holds what the columns, refs and locals of the code hold.
TypeOK ==
    /\ lock \subseteq LockRow(Who, Landing)
    /\ status \in [Task -> Open \cup {"abandoned", "closed_out_of_band"}]
    /\ integration_step \in [Task -> {"none", "refreshing", "task_review", "testing",
                                      "merging", "deploying", "verifying"}]
    /\ reason \in [Task -> Reason]
    /\ attempts \in [Task -> Seq(Outcome)]
    /\ landed \in [Task -> Sha \cup {NoSha}]
    /\ evidence \in [Task -> Evidence]
    /\ review \in [Task -> Seq(Review)]
    /\ main \in Sha
    /\ branch \in [Task -> Candidate]
    /\ pc \in [Task -> Label]
    /\ base \in [Task -> Sha \cup {NoSha}]
    /\ head \in [Task -> Candidate \cup {NoSha}]
    /\ why \in [Task -> Reason]
    /\ used \in [{"crashes", "lapses", "outside"} -> Nat]

(***************************************************************************)
(* Between the ownership check and the release only one run is at work on  *)
(* main: the merging slot and the lock together keep two candidates from   *)
(* being merged, pushed or reset at once, whatever humans do to the rows.  *)
(***************************************************************************)
InWindow(t) == pc[t] \in GuardPc \ {"freshness", "ownership"}
OneWriterOfMain == \A t, u \in Task : InWindow(t) /\ InWindow(u) => t = u

(***************************************************************************)
(* What is merged is exactly what was checked: the head the pre-land check *)
(* and the external review saw, onto the main it was refreshed on.         *)
(***************************************************************************)
LandsAsTested ==
    [][\A t \in Task : pc[t] = "merge" /\ pc'[t] = "merge_done" =>
          /\ evidence[t].test_base = main
          /\ evidence[t].test_head = branch[t]
          /\ evidence[t].review_head = branch[t]]_vars

(***************************************************************************)
(* What was reported integrated is on main, and stays there: no rollback,  *)
(* crash or later landing undoes it.                                       *)
(***************************************************************************)
IntegratedIsOnMain ==
    \A t \in Task : \A n \in 1..Attempt(t) :
        attempts[t][n] = "integrated" => <<t, n>> \in Contents(main)

(***************************************************************************)
(* Work that is on main already is not landed again: a failed push whose   *)
(* reset failed leaves it there, and a candidate that was refreshed before *)
(* a reset carries a neighbour's back.  The next run of its task has       *)
(* nothing to add, and must not merge, push and report it once more.       *)
(***************************************************************************)
NeverLandsTwice ==
    [][\A t \in Task : pc[t] = "merge" /\ pc'[t] = "merge_done" =>
          \A n \in 1..Attempt(t) : <<t, n>> \notin Contents(main)]_vars

(***************************************************************************)
(* The row and its evidence agree: integration_blocked rows name the       *)
(* failure their last attempt completed with, integrated rows the main     *)
(* that holds their landing.                                               *)
(***************************************************************************)
OutcomeFor(why_blocked) ==
    IF why_blocked \in {"stale_external_review", "main_moved_after_review", "test_evidence_stale"}
    THEN "needs_review" ELSE why_blocked

RowMatchesEvidence ==
    \A t \in Task :
        /\ status[t] = "integration_blocked" =>
             Attempt(t) > 0 /\ attempts[t][Attempt(t)] = OutcomeFor(reason[t])
        /\ status[t] = "integrated" =>
             /\ attempts[t][Attempt(t)] = "integrated"
             /\ LandingOf(t) \in Contents(landed[t])

(***************************************************************************)
(* Fencing: no step of another run, of an operator or of a crashed run's   *)
(* leftovers deletes or replaces the unlapsed lock row of a run that is    *)
(* still in its guarded section.                                           *)
(***************************************************************************)
LiveLock(t) == \E r \in lock : r.owner = t /\ r.token = Token(t) /\ r.ttl = "live"
NoForeignRelease ==
    [][\A t \in Task : LiveLock(t) /\ pc[t] \in GuardPc /\ pc'[t] \in GuardPc =>
          OwnsToken(t, Token(t))']_vars

(***************************************************************************)
(* A run always comes back: neither a crashed run in the merging slot, nor *)
(* a held lock, nor a row taken away by a human keeps it waiting for ever. *)
(***************************************************************************)
RunsReturn == \A t \in Task : pc[t] # "idle" ~> pc[t] = "idle"

(***************************************************************************)
(* "the substrate's guarantee that external review PASS still applies to   *)
(* whatever is about to land on main" (docs/integration-lane.md)           *)
(***************************************************************************)
ReviewedWorkLandsReviewed ==
    [][\A t \in Reviewed : pc[t] = "merge" /\ pc'[t] = "merge_done" =>
          \E n \in Passed(t) : review[t][n].head = branch[t]]_vars
=============================================================================
