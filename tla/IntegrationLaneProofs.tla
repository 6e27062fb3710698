----------------------- MODULE IntegrationLaneProofs -----------------------
(***************************************************************************)
(* Theorems about IntegrationLane for every set of tasks and every bound.  *)
(***************************************************************************)
EXTENDS IntegrationLane, SequenceTheorems, TLAPS

USE DEF Goto, Open

-----------------------------------------------------------------------------
(* Lemmas about the operators the actions are built from. *)

LEMMA ContentsType ==
    ASSUME NEW m \in Sha
    PROVE  Contents(m) \in SUBSET Landing
<1>1. \A i \in 1..Len(m) : m[i] \in Commit
    BY DEF Sha
<1>2. \A c \in Commit : c.brings \subseteq Landing
    BY DEF Commit
<1>3. \A i \in 1..Len(m) : m[i].brings \subseteq Landing
    BY <1>1, <1>2
<1> QED
    BY <1>3 DEF Contents

LEMMA RefreshedType ==
    ASSUME main \in Sha, NEW c \in Candidate
    PROVE  Refreshed(c) \in Candidate
<1>1. \A m \in Sha : Contents(m) \in SUBSET Landing
    BY ContentsType
<1>2. Carried(c) \in SUBSET Landing
    BY <1>1 DEF Carried, Candidate
<1> QED
    BY <1>2 DEF Refreshed, Candidate

LEMMA MergedType ==
    ASSUME main \in Sha, NEW c \in Candidate, NEW id \in Landing
    PROVE  Merged(id, c) \in Sha
<1>1. \A m \in Sha : Contents(m) \in SUBSET Landing
    BY ContentsType
<1>2. Carried(c) \in SUBSET Landing
    BY <1>1 DEF Carried, Candidate
<1>3. [by |-> id, brings |-> {id} \cup (Carried(c) \ Contents(main))]
        \in Commit
    BY <1>2 DEF Commit
<1> QED
    BY <1>3 DEF Merged, Sha

LEMMA TokenType ==
    ASSUME TypeOK, NEW t \in Task
    PROVE  Attempt(t) \in Nat /\ LandingOf(t) \in Landing /\ Token(t) \in Landing
BY DEF TypeOK, Attempt, LandingOf, Token, Landing, Who

\* Recording an outcome keeps the attempts well typed and as many.
LEMMA FinishedType ==
    ASSUME TypeOK, NEW t \in Task, NEW o \in Outcome, Finished(t, o)
    PROVE  /\ attempts' \in [Task -> Seq(Outcome)]
           /\ \A u \in Task : Len(attempts'[u]) = Len(attempts[u])
<1>1. attempts[t] \in Seq(Outcome) /\ attempts \in [Task -> Seq(Outcome)]
    BY DEF TypeOK
<1>2. CASE attempts[t] = <<>>
    <2>1. [attempts[t] EXCEPT ![Len(attempts[t])] = o] = attempts[t]
        BY <1>2, <1>1
    <2> QED
        BY <1>1, <2>1 DEF Finished, Attempt
<1>3. CASE attempts[t] # <<>>
    <2>1. Len(attempts[t]) \in 1..Len(attempts[t])
        BY <1>1, <1>3
    <2>2. /\ [attempts[t] EXCEPT ![Len(attempts[t])] = o] \in Seq(Outcome)
          /\ Len([attempts[t] EXCEPT ![Len(attempts[t])] = o]) = Len(attempts[t])
        BY <1>1, <2>1, ExceptSeq
    <2> QED
        BY <1>1, <2>2 DEF Finished, Attempt
<1> QED
    BY <1>2, <1>3

-----------------------------------------------------------------------------
(* Type correctness, one step per action. *)

LEMMA TypeInit == Init => TypeOK
<1> SUFFICES ASSUME Init PROVE TypeOK
    OBVIOUS
<1>1. <<>> \in Sha
    BY DEF Sha
<1>2. [on |-> <<>>, carries |-> {}, rev |-> 0] \in Candidate
    BY <1>1 DEF Candidate
<1>3. review \in [Task -> Seq(Review)]
    BY DEF Init
<1> QED
    BY <1>1, <1>2, <1>3 DEF Init, TypeOK, Reason, Label, Evidence, Outcome

LEMMA FailType ==
    ASSUME TypeOK, NEW t \in Task, NEW o \in Outcome, NEW r \in Reason, Fail(t, o, r)
    PROVE  /\ attempts' \in [Task -> Seq(Outcome)]
           /\ why' \in [Task -> Reason]
           /\ pc' \in [Task -> Label]
           /\ UNCHANGED <<status, integration_step, reason, landed, evidence, base, head>>
<1>1. attempts' \in [Task -> Seq(Outcome)]
    BY FinishedType DEF Fail
<1> QED
    BY <1>1 DEF Fail, TypeOK, Label

\* Superseding a review changes its status alone.
LEMMA SupersededType ==
    ASSUME NEW s \in Seq(Review), NEW n \in 1..Len(s)
    PROVE  [s EXCEPT ![n].status = "superseded"] \in Seq(Review)
<1>1. s[n] \in Review
    OBVIOUS
<1>2. [s[n] EXCEPT !.status = "superseded"] \in Review
    BY <1>1 DEF Review
<1> QED
    BY <1>2, ExceptSeq

\* Writing two columns of a row's evidence, as the code's freshness writes do.
LEMMA EvidenceWrites ==
    ASSUME NEW e \in Evidence, NEW b \in Sha \cup {NoSha},
           NEW h \in Candidate \cup {NoSha}, NEW sc \in BOOLEAN
    PROVE  /\ [e EXCEPT !.branch_head = h, !.scope = sc] \in Evidence
           /\ [e EXCEPT !.review_base = b, !.review_head = h] \in Evidence
           /\ [e EXCEPT !.test_base = b, !.test_head = h] \in Evidence
BY DEF Evidence

LEMMA RowFields ==
    ASSUME TypeOK, NEW t \in Task
    PROVE  /\ evidence[t] \in Evidence
           /\ base[t] \in Sha \cup {NoSha}
           /\ head[t] \in Candidate \cup {NoSha}
           /\ branch[t] \in Candidate
           /\ review[t] \in Seq(Review)
BY DEF TypeOK

LEMMA FreshnessType ==
    ASSUME NEW t \in Task
    PROVE  Freshness(t) \in {"ready", "main_moved_after_review", "test_evidence_stale"}
BY DEF Freshness

\* A run past the capture knows the commit it started from.
BaseKnown == \A t \in Task :
    pc[t] \notin {"idle", "capture", "block", "release"} => base[t] \in Sha

LEMMA TypeRun ==
    ASSUME TypeOK, BaseKnown, NEW t \in Task, Start(t) \/ LaneStep(t)
    PROVE  TypeOK'
<1> USE DEF Label, GuardPc
<1>f. ASSUME NEW o \in Outcome, NEW r \in Reason, Fail(t, o, r)
      PROVE  /\ attempts' \in [Task -> Seq(Outcome)]
             /\ why' \in [Task -> Reason]
             /\ pc' \in [Task -> Label]
             /\ UNCHANGED <<status, integration_step, reason, landed, evidence, base, head>>
    BY <1>f, FailType
<1>n. \A o \in {"rebase_conflict", "stale_base", "pre_land_check_failed", "merge_failure", "push_failure"} :
        o \in Outcome /\ o \in Reason
    BY DEF Outcome, Reason
<1>g. \A r \in {"stale_external_review", "main_moved_after_review", "test_evidence_stale"} :
        "needs_review" \in Outcome /\ r \in Reason
    BY DEF Outcome, Reason
<1>1. CASE Start(t)
    BY <1>1 DEF Start, TypeOK, git
<1>2. CASE PreflightFails(t)
    BY <1>2 DEF PreflightFails, TypeOK, git, Outcome, Reason
<1>3. CASE CaptureBase(t)
    BY <1>3 DEF CaptureBase, TypeOK, git, Outcome
<1>4. CASE CheckStaleBase(t)
    <2>1. review' \in [Task -> Seq(Review)]
        <3>1. review \in [Task -> Seq(Review)] /\ review[t] \in Seq(Review)
            BY RowFields DEF TypeOK
        <3>2. ASSUME NEW n \in Passed(t), review' = [review EXCEPT ![t][n].status = "superseded"]
              PROVE  review' \in [Task -> Seq(Review)]
            <4>1. review'[t] \in Seq(Review)
                BY <3>1, <3>2, SupersededType DEF Passed
            <4> QED
                BY <3>1, <3>2, <4>1
        <3>3. CASE review' = review
            BY <3>1, <3>3
        <3> QED
            BY <1>4, <3>2, <3>3 DEF CheckStaleBase
    <2>2. CASE Fail(t, "stale_base", "stale_base")
        BY <1>4, <1>f, <1>n, <2>1, <2>2 DEF CheckStaleBase, TypeOK, git
    <2>3. CASE Goto(t, "refresh") /\ UNCHANGED <<row, review, base, head, why>>
        BY <1>4, <2>3 DEF CheckStaleBase, TypeOK, git, row
    <2> QED
        BY <1>4, <2>2, <2>3 DEF CheckStaleBase
<1>5. CASE Refresh(t)
    <2>1. branch[t] \in Candidate /\ main \in Sha
        BY DEF TypeOK
    <2>2. Refreshed(branch[t]) \in Candidate
        BY <2>1, RefreshedType
    <2>3. branch' \in [Task -> Candidate]
        <3>1. branch \in [Task -> Candidate]
            BY DEF TypeOK
        <3>2. branch' = [branch EXCEPT ![t] = Refreshed(branch[t])]
            BY <1>5 DEF Refresh
        <3> QED
            BY <2>2, <3>1, <3>2
    <2>4. UNCHANGED <<lock, row, review, main, base, head, why, used>>
        BY <1>5 DEF Refresh
    <2>5. pc' \in [Task -> Label]
        BY <1>5 DEF Refresh, Goto, TypeOK
    <2> QED
        BY <2>3, <2>4, <2>5 DEF TypeOK, row
<1>6. CASE RefreshFails(t)
    BY <1>6, <1>f, <1>n DEF RefreshFails, TypeOK, git
<1>7. CASE CheckReviewedHead(t)
    <2>1. CASE HeadIsReviewed(t)
        <3>1. head' = [head EXCEPT ![t] = branch[t]] /\ branch[t] \in Candidate
            BY <1>7, <2>1 DEF CheckReviewedHead, TypeOK
        <3>2. head' \in [Task -> Candidate \cup {NoSha}]
            BY <3>1 DEF TypeOK
        <3> QED
            BY <1>7, <2>1, <3>2 DEF CheckReviewedHead, TypeOK, git, row
    <2>2. CASE ~HeadIsReviewed(t)
        BY <1>7, <1>f, <1>g, <2>2 DEF CheckReviewedHead, TypeOK, git
    <2> QED
        BY <2>1, <2>2
<1>8. CASE MarkRefreshDone(t)
    <2> DEFINE sc == \A n \in 1..Attempt(t) : <<t, n>> \notin Contents(base[t])
    <2>1. sc \in BOOLEAN
        OBVIOUS
    <2> HIDE DEF sc
    <2>2. evidence' = [evidence EXCEPT ![t].branch_head = head[t], ![t].scope = sc]
        BY <1>8 DEF MarkRefreshDone, sc
    <2>3. evidence[t] \in Evidence /\ head[t] \in Candidate \cup {NoSha}
        BY RowFields
    <2>4. [evidence[t] EXCEPT !.branch_head = head[t], !.scope = sc] \in Evidence
        BY <2>1, <2>3, EvidenceWrites
    <2>5. evidence' \in [Task -> Evidence]
        BY <2>2, <2>4 DEF TypeOK
    <2> QED
        BY <1>8, <2>5 DEF MarkRefreshDone, TypeOK, git, FireStep
<1>9. CASE MarkTaskReviewDone(t)
    <2>1. evidence[t] \in Evidence /\ base[t] \in Sha \cup {NoSha} /\ head[t] \in Candidate \cup {NoSha}
        BY RowFields
    <2>2. [evidence[t] EXCEPT !.review_base = base[t], !.review_head = head[t]] \in Evidence
        BY <2>1, EvidenceWrites
    <2>3. evidence' \in [Task -> Evidence]
        BY <1>9, <2>2 DEF MarkTaskReviewDone, TypeOK
    <2> QED
        BY <1>9, <2>3 DEF MarkTaskReviewDone, TypeOK, git, FireStep
<1>10. CASE PreLandPasses(t)
    <2>1. evidence[t] \in Evidence /\ base[t] \in Sha \cup {NoSha} /\ head[t] \in Candidate \cup {NoSha}
        BY RowFields
    <2>2. [evidence[t] EXCEPT !.test_base = base[t], !.test_head = head[t]] \in Evidence
        BY <2>1, EvidenceWrites
    <2>3. evidence' \in [Task -> Evidence]
        BY <1>10, <2>2 DEF PreLandPasses, TypeOK
    <2> QED
        BY <1>10, <2>3 DEF PreLandPasses, TypeOK, git
<1>11. CASE PreLandFails(t)
    BY <1>11, <1>f, <1>n DEF PreLandFails, TypeOK, git
<1>12. CASE MarkTestingDone(t)
    BY <1>12 DEF MarkTestingDone, TypeOK, git, FireStep
<1>13. CASE MergeWaitTimesOut(t)
    BY <1>13 DEF MergeWaitTimesOut, TypeOK, git, row
<1>14. CASE AcquireLock(t)
    <2>1. Token(t) \in Landing
        BY TokenType
    <2>2. lock' \subseteq LockRow(Who, Landing)
        BY <1>14, <2>1 DEF AcquireLock, Acquire, LockRow, Who
    <2> QED
        BY <1>14, <2>2 DEF AcquireLock, TypeOK, git, row
<1>15. CASE LockBusy(t)
    BY <1>15, <1>f, <1>n DEF LockBusy, TypeOK, git
<1>16. CASE FreshEnough(t)
    BY <1>16 DEF FreshEnough, TypeOK, git, row
<1>17. CASE Stale(t)
    <2>1. lock' \subseteq LockRow(Who, Landing)
        BY <1>17 DEF Stale, WithoutToken, TypeOK
    <2>2. CASE HasToken(Token(t))
        BY <1>17, <1>f, <1>g, <2>1, <2>2, FreshnessType DEF Stale, TypeOK, git
    <2>3. CASE ~HasToken(Token(t))
        BY <1>17, <2>1, <2>3 DEF Stale, TypeOK, git, row
    <2> QED
        BY <2>2, <2>3
<1>18. CASE CheckOwnership(t)
    <2>1. CASE Fail(t, "merge_failure", "merge_failure")
        BY <1>18, <1>f, <1>n, <2>1 DEF CheckOwnership, TypeOK, git
    <2>2. CASE Goto(t, "merge") /\ UNCHANGED <<row, base, head, why>>
        BY <1>18, <2>2 DEF CheckOwnership, TypeOK, git, row
    <2> QED
        BY <1>18, <2>1, <2>2 DEF CheckOwnership
<1>19. CASE Merge(t)
    <2>1. main' \in Sha
        BY <1>19, TokenType, MergedType DEF Merge, TypeOK
    <2> QED
        BY <1>19, <2>1 DEF Merge, TypeOK, row
<1>20. CASE MergeFails(t)
    BY <1>20, <1>f, <1>n DEF MergeFails, TypeOK, git
<1>21. CASE MarkMergeDone(t)
    BY <1>21 DEF MarkMergeDone, TypeOK, git, FireStep
<1>22. CASE Push(t)
    BY <1>22 DEF Push, TypeOK, git, row
<1>23. CASE PushFails(t)
    <2>1. CASE OnlyOwnMerge(t)
        BY <1>23, <2>1 DEF PushFails, TypeOK, git, row
    <2>2. CASE ~OnlyOwnMerge(t)
        BY <1>23, <1>f, <1>n, <2>2 DEF PushFails, TypeOK, git
    <2> QED
        BY <2>1, <2>2
<1>24. CASE ResetMain(t)
    <2>1. main' \in Sha
        BY <1>24 DEF ResetMain, BaseKnown, TypeOK
    <2> QED
        BY <1>24, <1>f, <1>n, <2>1 DEF ResetMain, TypeOK
<1>25. CASE MarkDeployDone(t)
    BY <1>25 DEF MarkDeployDone, TypeOK, git, FireStep
<1>26. CASE RecordLanded(t)
    <2>1. attempts' \in [Task -> Seq(Outcome)]
        BY <1>26, FinishedType DEF RecordLanded, Outcome
    <2> QED
        BY <1>26, <2>1 DEF RecordLanded, TypeOK, git
<1>27. CASE MarkVerifyDone(t)
    BY <1>27 DEF MarkVerifyDone, TypeOK, git
<1>28. CASE FireBlocked(t)
    <2>1. reason' \in [Task -> Reason]
        BY <1>28 DEF FireBlocked, TypeOK
    <2> QED
        BY <1>28, <2>1 DEF FireBlocked, TypeOK, git
<1>29. CASE Return(t)
    <2>1. lock' \subseteq LockRow(Who, Landing)
        BY <1>29 DEF Return, WithoutToken, TypeOK
    <2> QED
        BY <1>29, <2>1 DEF Return, TypeOK, git, row, Reason
<1> QED
    BY <1>1, <1>2, <1>3, <1>4, <1>5, <1>6, <1>7, <1>8, <1>9, <1>10, <1>11, <1>12, <1>13, <1>14, <1>15, <1>16, <1>17, <1>18, <1>19, <1>20, <1>21, <1>22, <1>23, <1>24, <1>25, <1>26, <1>27, <1>28, <1>29 DEF LaneStep

LEMMA TypeOthers ==
    ASSUME LaneAssumption, TypeOK, NEW t \in Task, Crash(t) \/ HumanStep(t)
    PROVE  TypeOK'
<1>1. CASE Crash(t)
    BY <1>1 DEF Crash, Spend, TypeOK, git, row, Reason, Label
<1>2. CASE Abandon(t)
    BY <1>2 DEF Abandon, TypeOK, git, run
<1>3. CASE CloseOutOfBand(t)
    BY <1>3 DEF CloseOutOfBand, TypeOK, git, run
<1>4. CASE RetryIntegration(t)
    BY <1>4 DEF RetryIntegration, TypeOK, git, run
<1>5. CASE ImportPass(t)
    <2>1. [status |-> "passed", base |-> main, head |-> branch[t]] \in Review
        BY DEF TypeOK, Review
    <2>2. review \in [Task -> Seq(Review)] /\ review[t] \in Seq(Review)
        BY RowFields DEF TypeOK
    <2>3. review' \in [Task -> Seq(Review)]
        BY <1>5, <2>1, <2>2 DEF ImportPass
    <2> QED
        BY <1>5, <2>3 DEF ImportPass, TypeOK, git, run, row
<1>6. CASE EditBranch(t)
    <2>1. branch[t] \in Candidate
        BY RowFields
    <2>2. [branch[t] EXCEPT !.rev = @ + 1] \in Candidate
        BY <2>1 DEF Candidate
    <2>3. branch' \in [Task -> Candidate]
        BY <1>6, <2>2 DEF EditBranch, TypeOK
    <2> QED
        BY <1>6, <2>3 DEF EditBranch, Spend, TypeOK, row, run
<1>7. CASE Accept(t)
    BY <1>7 DEF Accept, TypeOK, git, run
<1> QED
    BY <1>1, <1>2, <1>3, <1>4, <1>5, <1>6, <1>7 DEF HumanStep

LEMMA TypeEnvironment ==
    ASSUME LaneAssumption, TypeOK, Environment
    PROVE  TypeOK'
<1>u. ASSUME NEW b \in {"crashes", "lapses", "outside"}, NEW max, Spend(b, max)
      PROVE  used' \in [{"crashes", "lapses", "outside"} -> Nat]
    BY <1>u DEF Spend, TypeOK
<1>o. <<Operator, used.outside>> \in Landing /\ Operator \in Who
    BY DEF TypeOK, Landing, Who
<1>1. CASE CommitOnMain
    <2> DEFINE id == <<Operator, used.outside>>
    <2>1. [by |-> id, brings |-> {id}] \in Commit
        BY <1>o DEF Commit
    <2>2. main' \in Sha
        BY <1>1, <2>1 DEF CommitOnMain, TypeOK, Sha
    <2> QED
        BY <1>1, <1>u, <2>2 DEF CommitOnMain, TypeOK, row, run
<1>2. CASE OperatorAcquires
    <2>1. lock' \subseteq LockRow(Who, Landing)
        BY <1>2, <1>o DEF OperatorAcquires, Acquire, LockRow
    <2> QED
        BY <1>2, <1>u, <2>1 DEF OperatorAcquires, TypeOK, row, run, git
<1>3. CASE OperatorReleases
    <2>1. lock' \subseteq LockRow(Who, Landing)
        BY <1>3 DEF OperatorReleases, WithoutToken, TypeOK
    <2> QED
        BY <1>3, <2>1 DEF OperatorReleases, TypeOK, row, run, git
<1>4. CASE OperatorRecovers
    <2>1. lock' \subseteq LockRow(Who, Landing)
        BY <1>4 DEF OperatorRecovers, RecoverStale, TypeOK
    <2> QED
        BY <1>4, <2>1 DEF OperatorRecovers, TypeOK, row, run, git
<1>5. CASE TtlRunsOut
    <2>1. \A r \in LockRow(Who, Landing) : [r EXCEPT !.ttl = "lapsed"] \in LockRow(Who, Landing)
        BY DEF LockRow
    <2>2. lock \subseteq LockRow(Who, Landing)
        BY DEF TypeOK
    <2>3. lock' \subseteq LockRow(Who, Landing)
        BY <1>5, <2>1, <2>2 DEF TtlRunsOut, Lapse
    <2> QED
        BY <1>5, <1>u, <2>3 DEF TtlRunsOut, TypeOK, row, run, git
<1> QED
    BY <1>1, <1>2, <1>3, <1>4, <1>5 DEF Environment

-----------------------------------------------------------------------------
(* What one actor's step leaves alone. *)

\* The row, the locals and the branch of a task are written by its own run,
\* and by the people who work on it, alone.
Private(u) == <<pc[u], base[u], head[u], why[u], status[u], reason[u],
                attempts[u], landed[u], evidence[u], branch[u]>>

LEMMA OthersAreLeftAlone ==
    ASSUME TypeOK, NEW t \in Task, NEW u \in Task, u # t,
           Start(t) \/ LaneStep(t) \/ Crash(t) \/ HumanStep(t)
    PROVE  UNCHANGED Private(u)
<1> USE DEF Private, row, git, run
<1>f. ASSUME NEW o, NEW r, Fail(t, o, r)
      PROVE  /\ pc'[u] = pc[u] /\ attempts'[u] = attempts[u] /\ why'[u] = why[u]
             /\ UNCHANGED <<status, reason, landed, evidence, base, head>>
    BY <1>f DEF Fail, Finished, TypeOK
<1>s. ASSUME NEW a, NEW b, FireStep(t, a, b)
      PROVE  pc'[u] = pc[u] /\ UNCHANGED <<status, reason, attempts, landed, base, head, why>>
    BY <1>s DEF FireStep, TypeOK
<1>g. ASSUME NEW l, Goto(t, l)
      PROVE  pc'[u] = pc[u]
    BY <1>g DEF Goto, TypeOK
<1>1. CASE Start(t) \/ PreflightFails(t) \/ CaptureBase(t)
    BY <1>1 DEF Start, PreflightFails, CaptureBase, TypeOK
<1>2. CASE CheckStaleBase(t) \/ Refresh(t) \/ RefreshFails(t) \/ CheckReviewedHead(t)
    BY <1>2, <1>f, <1>g DEF CheckStaleBase, Refresh, RefreshFails, CheckReviewedHead, TypeOK
<1>3. CASE MarkRefreshDone(t) \/ MarkTaskReviewDone(t)
    BY <1>3, <1>s DEF MarkRefreshDone, MarkTaskReviewDone, TypeOK
<1>4. CASE PreLandPasses(t) \/ PreLandFails(t) \/ MarkTestingDone(t) \/ MergeWaitTimesOut(t)
    BY <1>4, <1>f, <1>s, <1>g DEF PreLandPasses, PreLandFails, MarkTestingDone, MergeWaitTimesOut, TypeOK
<1>5. CASE AcquireLock(t) \/ LockBusy(t) \/ FreshEnough(t) \/ Stale(t) \/ CheckOwnership(t)
    BY <1>5, <1>f, <1>g DEF AcquireLock, LockBusy, FreshEnough, Stale, CheckOwnership
<1>6. CASE Merge(t) \/ MergeFails(t) \/ MarkMergeDone(t) \/ Push(t) \/ PushFails(t) \/ ResetMain(t)
    BY <1>6, <1>f, <1>s, <1>g DEF Merge, MergeFails, MarkMergeDone, Push, PushFails, ResetMain
<1>7. CASE MarkDeployDone(t) \/ RecordLanded(t) \/ MarkVerifyDone(t) \/ FireBlocked(t) \/ Return(t)
    BY <1>7, <1>s, <1>g DEF MarkDeployDone, RecordLanded, Finished, MarkVerifyDone, FireBlocked, Return, TypeOK
<1>8. CASE Crash(t)
    BY <1>8 DEF Crash, TypeOK
<1>9. CASE HumanStep(t)
    BY <1>9 DEF HumanStep, Abandon, CloseOutOfBand, RetryIntegration, ImportPass, Accept, EditBranch, TypeOK
<1> QED
    BY <1>1, <1>2, <1>3, <1>4, <1>5, <1>6, <1>7, <1>8, <1>9 DEF LaneStep

LEMMA BaseKnownStep ==
    ASSUME TypeOK, BaseKnown, Next
    PROVE  BaseKnown'
<1>1. ASSUME NEW t \in Task, Start(t) \/ LaneStep(t)
      PROVE  BaseKnown'
    <2>1. ASSUME NEW u \in Task, u # t PROVE pc'[u] = pc[u] /\ base'[u] = base[u]
        BY <1>1, <2>1, OthersAreLeftAlone DEF Private
    <2>2. pc'[t] \notin {"idle", "capture", "block", "release"} => base'[t] \in Sha
        <3> USE DEF BaseKnown, TypeOK, row, git, run
        <3>1. CASE Start(t) \/ PreflightFails(t) \/ CaptureBase(t)
            BY <3>1 DEF Start, PreflightFails, CaptureBase
        <3>2. CASE CheckStaleBase(t) \/ Refresh(t) \/ RefreshFails(t) \/ CheckReviewedHead(t)
            BY <3>2 DEF CheckStaleBase, Refresh, RefreshFails, CheckReviewedHead, Fail
        <3>3. CASE MarkRefreshDone(t) \/ MarkTaskReviewDone(t) \/ MarkTestingDone(t) \/ MarkMergeDone(t) \/ MarkDeployDone(t)
            BY <3>3 DEF MarkRefreshDone, MarkTaskReviewDone, MarkTestingDone, MarkMergeDone, MarkDeployDone, FireStep
        <3>4. CASE PreLandPasses(t) \/ PreLandFails(t) \/ MergeWaitTimesOut(t) \/ AcquireLock(t) \/ LockBusy(t)
            BY <3>4 DEF PreLandPasses, PreLandFails, MergeWaitTimesOut, AcquireLock, LockBusy, Fail
        <3>5. CASE FreshEnough(t) \/ Stale(t) \/ CheckOwnership(t) \/ Merge(t) \/ MergeFails(t)
            BY <3>5 DEF FreshEnough, Stale, CheckOwnership, Merge, MergeFails, Fail
        <3>6. CASE Push(t) \/ PushFails(t) \/ ResetMain(t)
            BY <3>6 DEF Push, PushFails, ResetMain, Fail
        <3>7. CASE RecordLanded(t) \/ MarkVerifyDone(t) \/ FireBlocked(t) \/ Return(t)
            BY <3>7 DEF RecordLanded, MarkVerifyDone, FireBlocked, Return
        <3> QED
            BY <1>1, <3>1, <3>2, <3>3, <3>4, <3>5, <3>6, <3>7 DEF LaneStep
    <2> QED
        BY <2>1, <2>2 DEF BaseKnown
<1>2. ASSUME NEW t \in Task, Crash(t)
      PROVE  BaseKnown'
    BY <1>2 DEF Crash, BaseKnown, TypeOK
<1>3. ASSUME NEW t \in Task, HumanStep(t)
      PROVE  BaseKnown'
    BY <1>3 DEF HumanStep, Abandon, CloseOutOfBand, RetryIntegration, ImportPass, Accept,
                EditBranch, BaseKnown, run
<1>4. CASE Environment
    BY <1>4 DEF Environment, CommitOnMain, OperatorAcquires, OperatorReleases, OperatorRecovers,
                TtlRunsOut, BaseKnown, run
<1> QED
    BY <1>1, <1>2, <1>3, <1>4 DEF Next

\* The inductive invariant of type correctness: a rollback writes base into
\* main, so it needs that every run that may roll back has one.
Typed == TypeOK /\ BaseKnown

LEMMA TypedAlways == Spec => []Typed
<1>1. Init => Typed
    BY TypeInit DEF Typed, Init, BaseKnown
<1>2. Typed /\ [Next]_vars => Typed'
    <2> SUFFICES ASSUME Typed, [Next]_vars PROVE Typed'
        OBVIOUS
    <2> USE DEF Typed
    <2>1. CASE Next
        <3>1. TypeOK'
            BY <2>1, LaneAssumption, TypeRun, TypeOthers, TypeEnvironment DEF Next
        <3> QED
            BY <2>1, <3>1, BaseKnownStep
    <2>2. CASE UNCHANGED vars
        BY <2>2 DEF vars, row, git, run, TypeOK, BaseKnown
    <2> QED
        BY <2>1, <2>2
<1> QED
    BY <1>1, <1>2, PTL DEF Spec

\* Type correctness: for any tasks and any bounds, no interleaving of runs,
\* people, crashes and lapsing locks writes a column, ref or local outside
\* its type; in particular every rollback has a commit to go back to.
THEOREM TypeCorrect == Spec => []TypeOK
<1>1. Typed => TypeOK
    BY DEF Typed
<1> QED
    BY <1>1, TypedAlways, PTL

-----------------------------------------------------------------------------
(* The lock. *)

\* Two tasks, or a task and the operator, never have the same token.
LEMMA TokensDiffer ==
    ASSUME NEW t \in Task, NEW u \in Task, u # t
    PROVE  Token(u) # Token(t)
BY DEF Token

\* The lock only ever loses rows, is acquired while free, or lapses.
LEMMA LockChanges ==
    ASSUME [Next]_vars
    PROVE  \/ lock' \subseteq lock
           \/ \E o, k : \E ttl \in {"live", "never"} : Acquire(o, k, ttl)
           \/ TtlRunsOut
<1>1. ASSUME NEW t \in Task, Start(t) \/ LaneStep(t)
      PROVE  lock' \subseteq lock \/ AcquireLock(t)
    <2>1. CASE Stale(t) \/ Return(t)
        BY <2>1 DEF Stale, Return, WithoutToken
    <2>2. CASE \/ Start(t) \/ PreflightFails(t) \/ CaptureBase(t) \/ CheckStaleBase(t)
               \/ Refresh(t) \/ RefreshFails(t) \/ CheckReviewedHead(t)
        BY <2>2 DEF Start, PreflightFails, CaptureBase, CheckStaleBase, Refresh,
                    RefreshFails, CheckReviewedHead
    <2>3. CASE \/ MarkRefreshDone(t) \/ MarkTaskReviewDone(t) \/ PreLandPasses(t)
               \/ PreLandFails(t) \/ MarkTestingDone(t) \/ MergeWaitTimesOut(t) \/ LockBusy(t)
        BY <2>3 DEF MarkRefreshDone, MarkTaskReviewDone, PreLandPasses, PreLandFails,
                    MarkTestingDone, MergeWaitTimesOut, LockBusy
    <2>4. CASE \/ FreshEnough(t) \/ CheckOwnership(t) \/ Merge(t) \/ MergeFails(t)
               \/ MarkMergeDone(t) \/ Push(t) \/ PushFails(t) \/ ResetMain(t)
        BY <2>4 DEF FreshEnough, CheckOwnership, Merge, MergeFails, MarkMergeDone,
                    Push, PushFails, ResetMain
    <2>5. CASE MarkDeployDone(t) \/ RecordLanded(t) \/ MarkVerifyDone(t) \/ FireBlocked(t)
        BY <2>5 DEF MarkDeployDone, RecordLanded, MarkVerifyDone, FireBlocked
    <2> QED
        BY <1>1, <2>1, <2>2, <2>3, <2>4, <2>5 DEF LaneStep
<1>2. ASSUME NEW t \in Task, AcquireLock(t)
      PROVE  \E o, k : \E ttl \in {"live", "never"} : Acquire(o, k, ttl)
    BY <1>2 DEF AcquireLock
<1>3. ASSUME NEW t \in Task, Crash(t) \/ HumanStep(t)
      PROVE  lock' \subseteq lock
    BY <1>3 DEF Crash, HumanStep, Abandon, CloseOutOfBand, RetryIntegration,
                ImportPass, Accept, EditBranch
<1>4. CASE Environment
    <2>1. CASE CommitOnMain \/ OperatorReleases \/ OperatorRecovers
        BY <2>1 DEF CommitOnMain, OperatorReleases, OperatorRecovers, WithoutToken, RecoverStale
    <2>2. CASE OperatorAcquires
        BY <2>2 DEF OperatorAcquires
    <2> QED
        BY <1>4, <2>1, <2>2 DEF Environment
<1>5. CASE UNCHANGED vars
    BY <1>5 DEF vars
<1> QED
    BY <1>1, <1>2, <1>3, <1>4, <1>5 DEF Next

\* resource_id is the primary key of resource_locks.
LEMMA OneRowStep ==
    ASSUME AtMostOneRow, [Next]_vars
    PROVE  AtMostOneRow'
<1>1. CASE lock' \subseteq lock
    BY <1>1 DEF AtMostOneRow
<1>2. ASSUME NEW o, NEW k, NEW ttl, Acquire(o, k, ttl)
      PROVE  AtMostOneRow'
    BY <1>2 DEF Acquire, AtMostOneRow
<1>3. CASE TtlRunsOut
    BY <1>3 DEF TtlRunsOut, Lapse, AtMostOneRow
<1> QED
    BY <1>1, <1>2, <1>3, LockChanges

LEMMA OneRowAlways == Spec => []AtMostOneRow
<1>1. Init => AtMostOneRow
    BY DEF Init, AtMostOneRow
<1>2. AtMostOneRow /\ [Next]_vars => AtMostOneRow'
    BY OneRowStep
<1> QED
    BY <1>1, <1>2, PTL DEF Spec

\* A run in its guarded section does not change which attempt it is.
LEMMA AttemptIsKept ==
    ASSUME TypeOK, NEW t \in Task, [Next]_vars, pc[t] \in GuardPc, pc'[t] \in GuardPc
    PROVE  Token(t)' = Token(t)
<1> SUFFICES Len(attempts'[t]) = Len(attempts[t])
    BY DEF Token, Attempt
<1> USE DEF GuardPc, row, git, run
<1>f. ASSUME NEW o, NEW r, Fail(t, o, r)
      PROVE  pc'[t] \notin GuardPc
    BY <1>f DEF Fail, TypeOK
<1>1. CASE Start(t) \/ LaneStep(t)
    <2>1. CASE \/ Start(t) \/ PreflightFails(t) \/ CaptureBase(t) \/ CheckStaleBase(t)
               \/ Refresh(t) \/ RefreshFails(t) \/ CheckReviewedHead(t)
        BY <2>1 DEF Start, PreflightFails, CaptureBase, CheckStaleBase, Refresh,
                    RefreshFails, CheckReviewedHead
    <2>2. CASE \/ MarkRefreshDone(t) \/ MarkTaskReviewDone(t) \/ PreLandPasses(t)
               \/ PreLandFails(t) \/ MarkTestingDone(t) \/ MergeWaitTimesOut(t)
               \/ AcquireLock(t) \/ LockBusy(t)
        BY <2>2 DEF MarkRefreshDone, MarkTaskReviewDone, PreLandPasses, PreLandFails,
                    MarkTestingDone, MergeWaitTimesOut, AcquireLock, LockBusy
    <2>3. CASE \/ FreshEnough(t) \/ Stale(t) \/ CheckOwnership(t) \/ Merge(t) \/ MergeFails(t)
               \/ Push(t) \/ PushFails(t) \/ ResetMain(t)
        BY <2>3, <1>f DEF FreshEnough, Stale, CheckOwnership, Merge, MergeFails,
                          Push, PushFails, ResetMain
    <2>4. CASE MarkMergeDone(t) \/ MarkDeployDone(t)
        BY <2>4 DEF MarkMergeDone, MarkDeployDone, FireStep
    <2>5. CASE RecordLanded(t)
        BY <2>5, FinishedType DEF RecordLanded, Outcome
    <2>6. CASE MarkVerifyDone(t) \/ FireBlocked(t) \/ Return(t)
        BY <2>6 DEF MarkVerifyDone, FireBlocked, Return
    <2> QED
        BY <1>1, <2>1, <2>2, <2>3, <2>4, <2>5, <2>6 DEF LaneStep
<1>2. CASE Crash(t) \/ HumanStep(t)
    BY <1>2 DEF Crash, HumanStep, Abandon, CloseOutOfBand, RetryIntegration,
                ImportPass, Accept, EditBranch
<1>3. ASSUME NEW u \in Task, u # t, Start(u) \/ LaneStep(u) \/ Crash(u) \/ HumanStep(u)
      PROVE  attempts'[t] = attempts[t]
    BY <1>3, OthersAreLeftAlone DEF Private
<1>4. CASE Environment
    BY <1>4 DEF Environment, CommitOnMain, OperatorAcquires, OperatorReleases,
                OperatorRecovers, TtlRunsOut
<1>5. CASE UNCHANGED vars
    BY <1>5 DEF vars
<1> QED
    BY <1>1, <1>2, <1>3, <1>4, <1>5 DEF Next

\* The row of a run in its guarded section outlives every step of anyone,
\* unless it had lapsed; a step of the clock only lets it lapse.
LEMMA RowIsKept ==
    ASSUME LaneAssumption, TypeOK, AtMostOneRow, [Next]_vars,
           NEW t \in Task, pc[t] \in GuardPc, pc'[t] \in GuardPc,
           NEW r \in lock, r.owner = t, r.token = Token(t), r.ttl # "lapsed"
    PROVE  r \in lock' \/ (TtlRunsOut /\ [r EXCEPT !.ttl = "lapsed"] \in lock')
<1>1. lock' = lock => r \in lock'
    OBVIOUS
<1>2. ~Available
    BY DEF Available
<1>3. CASE Start(t) \/ LaneStep(t)
    <2> USE DEF GuardPc
    <2>1. ~AcquireLock(t)
        BY <1>2 DEF AcquireLock, Acquire
    <2>2. ~Stale(t) /\ ~Return(t)
        BY DEF Stale, Return, Fail, TypeOK
    <2>3. CASE \/ Start(t) \/ PreflightFails(t) \/ CaptureBase(t) \/ CheckStaleBase(t)
               \/ Refresh(t) \/ RefreshFails(t) \/ CheckReviewedHead(t)
        BY <2>3, <1>1 DEF Start, PreflightFails, CaptureBase, CheckStaleBase, Refresh,
                          RefreshFails, CheckReviewedHead
    <2>4. CASE \/ MarkRefreshDone(t) \/ MarkTaskReviewDone(t) \/ PreLandPasses(t)
               \/ PreLandFails(t) \/ MarkTestingDone(t) \/ MergeWaitTimesOut(t) \/ LockBusy(t)
        BY <2>4, <1>1 DEF MarkRefreshDone, MarkTaskReviewDone, PreLandPasses, PreLandFails,
                          MarkTestingDone, MergeWaitTimesOut, LockBusy
    <2>5. CASE \/ FreshEnough(t) \/ CheckOwnership(t) \/ Merge(t) \/ MergeFails(t)
               \/ MarkMergeDone(t) \/ Push(t) \/ PushFails(t) \/ ResetMain(t)
        BY <2>5, <1>1 DEF FreshEnough, CheckOwnership, Merge, MergeFails, MarkMergeDone,
                          Push, PushFails, ResetMain
    <2>6. CASE MarkDeployDone(t) \/ RecordLanded(t) \/ MarkVerifyDone(t) \/ FireBlocked(t)
        BY <2>6, <1>1 DEF MarkDeployDone, RecordLanded, MarkVerifyDone, FireBlocked
    <2> QED
        BY <1>3, <2>1, <2>2, <2>3, <2>4, <2>5, <2>6 DEF LaneStep
<1>4. ASSUME NEW u \in Task, u # t, Start(u) \/ LaneStep(u)
      PROVE  r \in lock'
    <2>1. ~AcquireLock(u)
        BY <1>2 DEF AcquireLock, Acquire
    <2>2. CASE Stale(u) \/ Return(u)
        BY <2>2, <1>4, TokensDiffer DEF Stale, Return, WithoutToken
    <2>3. CASE \/ Start(u) \/ PreflightFails(u) \/ CaptureBase(u) \/ CheckStaleBase(u)
               \/ Refresh(u) \/ RefreshFails(u) \/ CheckReviewedHead(u)
        BY <2>3, <1>1 DEF Start, PreflightFails, CaptureBase, CheckStaleBase, Refresh,
                          RefreshFails, CheckReviewedHead
    <2>4. CASE \/ MarkRefreshDone(u) \/ MarkTaskReviewDone(u) \/ PreLandPasses(u)
               \/ PreLandFails(u) \/ MarkTestingDone(u) \/ MergeWaitTimesOut(u) \/ LockBusy(u)
        BY <2>4, <1>1 DEF MarkRefreshDone, MarkTaskReviewDone, PreLandPasses, PreLandFails,
                          MarkTestingDone, MergeWaitTimesOut, LockBusy
    <2>5. CASE \/ FreshEnough(u) \/ CheckOwnership(u) \/ Merge(u) \/ MergeFails(u)
               \/ MarkMergeDone(u) \/ Push(u) \/ PushFails(u) \/ ResetMain(u)
        BY <2>5, <1>1 DEF FreshEnough, CheckOwnership, Merge, MergeFails, MarkMergeDone,
                          Push, PushFails, ResetMain
    <2>6. CASE MarkDeployDone(u) \/ RecordLanded(u) \/ MarkVerifyDone(u) \/ FireBlocked(u)
        BY <2>6, <1>1 DEF MarkDeployDone, RecordLanded, MarkVerifyDone, FireBlocked
    <2> QED
        BY <1>4, <2>1, <2>2, <2>3, <2>4, <2>5, <2>6 DEF LaneStep
<1>5. ASSUME NEW u \in Task, Crash(u) \/ HumanStep(u)
      PROVE  r \in lock'
    BY <1>5, <1>1 DEF Crash, HumanStep, Abandon, CloseOutOfBand, RetryIntegration,
                      ImportPass, Accept, EditBranch
<1>6. CASE Environment
    <2>1. CASE CommitOnMain
        BY <2>1, <1>1 DEF CommitOnMain
    <2>2. ~OperatorAcquires
        BY <1>2 DEF OperatorAcquires, Acquire
    <2>3. ~OperatorReleases
        BY LaneAssumption DEF LaneAssumption, OperatorReleases, AtMostOneRow
    <2>4. CASE OperatorRecovers
        BY <2>4 DEF OperatorRecovers, RecoverStale
    <2>5. CASE TtlRunsOut
        BY <2>5 DEF TtlRunsOut, Lapse
    <2> QED
        BY <1>6, <2>1, <2>2, <2>3, <2>4, <2>5 DEF Environment
<1>7. CASE UNCHANGED vars
    BY <1>7 DEF vars
<1> QED
    BY <1>3, <1>4, <1>5, <1>6, <1>7 DEF Next

\* Fencing, for any tasks and any bounds, lapses included: until its TTL
\* runs out the lock row of a run in its guarded section is deleted or
\* replaced by nobody else.
THEOREM Fencing == Spec => NoForeignRelease
<1> DEFINE Fenced == \A t \in Task : LiveLock(t) /\ pc[t] \in GuardPc /\ pc'[t] \in GuardPc =>
                        OwnsToken(t, Token(t))'
<1>1. Typed /\ AtMostOneRow /\ [Next]_vars => [Fenced]_vars
    <2> SUFFICES ASSUME Typed, AtMostOneRow, [Next]_vars, NEW t \in Task,
                        LiveLock(t), pc[t] \in GuardPc, pc'[t] \in GuardPc
                 PROVE  OwnsToken(t, Token(t))'
        OBVIOUS
    <2>1. PICK r \in lock : r.owner = t /\ r.token = Token(t) /\ r.ttl = "live"
        BY DEF LiveLock
    <2>2. r \in lock' \/ [r EXCEPT !.ttl = "lapsed"] \in lock'
        BY <2>1, RowIsKept, LaneAssumption DEF Typed
    <2>3. \E k \in lock' : k.owner = r.owner /\ k.token = r.token
        <3>1. r \in [owner : Who, token : Landing, ttl : {"live", "lapsed", "never"}]
            BY DEF Typed, TypeOK, LockRow
        <3>2. /\ [r EXCEPT !.ttl = "lapsed"].owner = r.owner
              /\ [r EXCEPT !.ttl = "lapsed"].token = r.token
            BY <3>1
        <3> QED
            BY <2>2, <3>2
    <2>4. Token(t)' = Token(t)
        BY AttemptIsKept DEF Typed
    <2> QED
        BY <2>1, <2>3, <2>4 DEF OwnsToken
<1> QED
    BY <1>1, TypedAlways, OneRowAlways, PTL DEF Spec, NoForeignRelease

-----------------------------------------------------------------------------
(* Mutual exclusion on main, as long as no TTL runs out under a run. *)

\* The only way into the guarded section is through the lock.
LEMMA EntersByAcquire ==
    ASSUME TypeOK, [Next]_vars, NEW t \in Task, pc[t] \notin GuardPc, pc'[t] \in GuardPc
    PROVE  AcquireLock(t)
<1> USE DEF GuardPc, TypeOK, row, git, run
<1>1. CASE Start(t) \/ LaneStep(t)
    <2>1. ~(Start(t) \/ PreflightFails(t) \/ CaptureBase(t) \/ Refresh(t))
        BY DEF Start, PreflightFails, CaptureBase, Refresh
    <2>2. ~(CheckStaleBase(t) \/ RefreshFails(t) \/ CheckReviewedHead(t))
        BY DEF CheckStaleBase, RefreshFails, CheckReviewedHead, Fail
    <2>3. ~(MarkRefreshDone(t) \/ MarkTaskReviewDone(t) \/ MarkTestingDone(t))
        BY DEF MarkRefreshDone, MarkTaskReviewDone, MarkTestingDone, FireStep
    <2>4. ~(PreLandPasses(t) \/ PreLandFails(t) \/ MergeWaitTimesOut(t) \/ LockBusy(t))
        BY DEF PreLandPasses, PreLandFails, MergeWaitTimesOut, LockBusy, Fail
    <2>5. ~(FreshEnough(t) \/ Stale(t) \/ CheckOwnership(t) \/ Merge(t) \/ MergeFails(t))
        BY DEF FreshEnough, Stale, CheckOwnership, Merge, MergeFails
    <2>6. ~(MarkMergeDone(t) \/ Push(t) \/ PushFails(t) \/ ResetMain(t) \/ MarkDeployDone(t))
        BY DEF MarkMergeDone, Push, PushFails, ResetMain, MarkDeployDone
    <2>7. ~(RecordLanded(t) \/ MarkVerifyDone(t) \/ FireBlocked(t) \/ Return(t))
        BY DEF RecordLanded, MarkVerifyDone, FireBlocked, Return
    <2> QED
        BY <1>1, <2>1, <2>2, <2>3, <2>4, <2>5, <2>6, <2>7 DEF LaneStep
<1>2. ~(Crash(t) \/ HumanStep(t))
    BY DEF Crash, HumanStep, Abandon, CloseOutOfBand, RetryIntegration,
           ImportPass, Accept, EditBranch
<1>3. ASSUME NEW u \in Task, u # t, Start(u) \/ LaneStep(u) \/ Crash(u) \/ HumanStep(u)
      PROVE  FALSE
    BY <1>3, OthersAreLeftAlone DEF Private
<1>4. ~Environment
    BY DEF Environment, CommitOnMain, OperatorAcquires, OperatorReleases,
           OperatorRecovers, TtlRunsOut
<1>5. ~UNCHANGED vars
    BY DEF vars
<1> QED
    BY <1>1, <1>2, <1>3, <1>4, <1>5 DEF Next

NoneLapsed == \A r \in lock : r.ttl # "lapsed"
GuardHeld  == \A t \in Task :
    pc[t] \in GuardPc => \E r \in lock : r.owner = t /\ r.token = Token(t)

\* The inductive invariant of mutual exclusion: the one row of the table is
\* the row of whichever run is in its guarded section.
Serial == Typed /\ AtMostOneRow /\ NoneLapsed /\ GuardHeld

LEMMA SerialStep ==
    ASSUME LaneAssumption, MaxLapses = 0, Serial, [Next]_vars, Typed'
    PROVE  Serial'
<1> USE DEF Serial
<1>1. ~TtlRunsOut
    BY DEF TtlRunsOut, Spend, Typed, TypeOK
<1>2. AtMostOneRow'
    BY OneRowStep
<1>3. NoneLapsed'
    BY <1>1, LockChanges DEF NoneLapsed, Acquire
<1>4. ASSUME NEW t \in Task, pc'[t] \in GuardPc
      PROVE  \E r \in lock' : r.owner = t /\ r.token = Token(t)'
    <2>1. CASE pc[t] \in GuardPc
        <3>1. PICK r \in lock : r.owner = t /\ r.token = Token(t)
            BY <2>1 DEF GuardHeld
        <3>2. r \in lock'
            BY <1>1, <1>4, <2>1, <3>1, RowIsKept DEF Typed, NoneLapsed
        <3>3. Token(t)' = Token(t)
            BY <1>4, <2>1, AttemptIsKept DEF Typed
        <3> QED
            BY <3>1, <3>2, <3>3
    <2>2. CASE pc[t] \notin GuardPc
        <3>1. AcquireLock(t)
            BY <1>4, <2>2, EntersByAcquire DEF Typed
        <3> QED
            BY <3>1 DEF AcquireLock, Acquire, Token, Attempt, row
    <2> QED
        BY <2>1, <2>2
<1> QED
    BY <1>2, <1>3, <1>4 DEF GuardHeld

LEMMA SerialAlways ==
    ASSUME MaxLapses = 0
    PROVE  Spec => []Serial
<1>1. Init => AtMostOneRow /\ NoneLapsed /\ GuardHeld
    BY DEF Init, AtMostOneRow, NoneLapsed, GuardHeld, GuardPc
<1>2. Serial /\ Typed' /\ [Next]_vars => Serial'
    BY LaneAssumption, SerialStep
<1>3. Typed /\ AtMostOneRow /\ NoneLapsed /\ GuardHeld => Serial
    BY DEF Serial
<1> QED
    BY <1>1, <1>2, <1>3, TypedAlways, PTL DEF Spec

LEMMA GuardIsExclusive ==
    ASSUME Serial, NEW t \in Task, NEW u \in Task, pc[t] \in GuardPc, pc[u] \in GuardPc
    PROVE  t = u
BY DEF Serial, AtMostOneRow, GuardHeld

\* Mutual exclusion: as long as no lock lapses under its run, for any tasks,
\* any attempts, any crashes and whatever people do to rows, branches, the
\* lock and main, one run at a time is at work on main.
THEOREM MutualExclusion ==
    ASSUME MaxLapses = 0
    PROVE  Spec => []OneWriterOfMain
<1>1. Serial => OneWriterOfMain
    BY GuardIsExclusive DEF OneWriterOfMain, InWindow
<1> QED
    BY <1>1, SerialAlways, PTL

-----------------------------------------------------------------------------
(* What is merged is what was checked. *)

\* Main is moved by a run that merges or rolls back, or by hand.
LEMMA RunMoves ==
    ASSUME NEW u \in Task, Start(u) \/ LaneStep(u) \/ Crash(u) \/ HumanStep(u), main' # main
    PROVE  pc[u] \in {"merge", "reset"} /\ (Merge(u) \/ ResetMain(u))
<1> USE DEF git
<1>1. ~(\/ Start(u) \/ PreflightFails(u) \/ CaptureBase(u) \/ CheckStaleBase(u)
        \/ Refresh(u) \/ RefreshFails(u) \/ CheckReviewedHead(u))
    BY DEF Start, PreflightFails, CaptureBase, CheckStaleBase, Refresh,
           RefreshFails, CheckReviewedHead
<1>2. ~(\/ MarkRefreshDone(u) \/ MarkTaskReviewDone(u) \/ PreLandPasses(u)
        \/ PreLandFails(u) \/ MarkTestingDone(u) \/ MergeWaitTimesOut(u)
        \/ AcquireLock(u) \/ LockBusy(u))
    BY DEF MarkRefreshDone, MarkTaskReviewDone, PreLandPasses, PreLandFails,
           MarkTestingDone, MergeWaitTimesOut, AcquireLock, LockBusy
<1>3. ~(\/ FreshEnough(u) \/ Stale(u) \/ CheckOwnership(u) \/ MergeFails(u)
        \/ MarkMergeDone(u) \/ Push(u) \/ PushFails(u))
    BY DEF FreshEnough, Stale, CheckOwnership, MergeFails, MarkMergeDone, Push, PushFails
<1>4. ~(\/ MarkDeployDone(u) \/ RecordLanded(u) \/ MarkVerifyDone(u)
        \/ FireBlocked(u) \/ Return(u))
    BY DEF MarkDeployDone, RecordLanded, MarkVerifyDone, FireBlocked, Return
<1>5. ~(Crash(u) \/ HumanStep(u))
    BY DEF Crash, HumanStep, Abandon, CloseOutOfBand, RetryIntegration,
           ImportPass, Accept, EditBranch
<1> QED
    BY <1>1, <1>2, <1>3, <1>4, <1>5 DEF LaneStep, Merge, ResetMain

LEMMA MainMoves ==
    ASSUME [Next]_vars, main' # main
    PROVE  \/ \E u \in Task : pc[u] \in {"merge", "reset"} /\ (Merge(u) \/ ResetMain(u))
           \/ CommitOnMain
<1>1. Environment => CommitOnMain
    BY DEF Environment, OperatorAcquires, OperatorReleases, OperatorRecovers, TtlRunsOut, git
<1>2. ~UNCHANGED vars
    BY DEF vars, git
<1> QED
    BY <1>1, <1>2, RunMoves DEF Next

HasHead  == {"refresh_done", "review_done", "pre_land", "testing_done", "acquire", "freshness"}
HasNamed == HasHead \ {"refresh_done"}

\* From the post-refresh check on, the run's head is the branch's head and,
\* once written, the one the row names.
HeadNamed == \A t \in Task :
    /\ pc[t] \in HasHead => head[t] = branch[t]
    /\ pc[t] \in HasNamed => evidence[t].branch_head = head[t]

\* From the freshness check to the merge, the row's evidence is of the main
\* and the branch that are merged.
Checked(t) ==
    /\ evidence[t].test_base = main
    /\ evidence[t].test_head = branch[t]
    /\ evidence[t].review_head = branch[t]
AllChecked == \A t \in Task : pc[t] \in {"ownership", "merge"} => Checked(t)

LEMMA HeadNamedStep ==
    ASSUME MaxOutside = 0, TypeOK, HeadNamed, [Next]_vars
    PROVE  HeadNamed'
<1> USE DEF HasHead, HasNamed
<1>1. ASSUME NEW t \in Task, Start(t) \/ LaneStep(t)
      PROVE  HeadNamed'
    <2>1. ASSUME NEW u \in Task, u # t
          PROVE  UNCHANGED <<pc[u], head[u], evidence[u], branch[u]>>
        BY <1>1, <2>1, OthersAreLeftAlone DEF Private
    <2>2. /\ pc'[t] \in HasHead => head'[t] = branch'[t]
          /\ pc'[t] \in HasNamed => evidence'[t].branch_head = head'[t]
        <3> USE DEF TypeOK, row, git, run, HeadNamed
        <3>1. CASE Start(t) \/ PreflightFails(t) \/ CaptureBase(t) \/ Refresh(t)
            BY <3>1 DEF Start, PreflightFails, CaptureBase, Refresh
        <3>2. CASE CheckStaleBase(t) \/ RefreshFails(t) \/ CheckReviewedHead(t)
            BY <3>2 DEF CheckStaleBase, RefreshFails, CheckReviewedHead, Fail
        <3>3. CASE MarkRefreshDone(t)
            <4>1. evidence[t] \in Evidence /\ evidence \in [Task -> Evidence]
                OBVIOUS
            <4>2. evidence'[t].branch_head = head[t]
                BY <3>3, <4>1 DEF MarkRefreshDone, Evidence
            <4> QED
                BY <3>3, <4>2 DEF MarkRefreshDone, FireStep
        <3>4. CASE MarkTaskReviewDone(t) \/ PreLandPasses(t)
            <4>1. evidence[t] \in Evidence /\ evidence \in [Task -> Evidence]
                OBVIOUS
            <4>2. evidence'[t].branch_head = evidence[t].branch_head
                BY <3>4, <4>1 DEF MarkTaskReviewDone, PreLandPasses, Evidence
            <4> QED
                BY <3>4, <4>2 DEF MarkTaskReviewDone, PreLandPasses, FireStep
        <3>5. CASE MarkTestingDone(t) \/ MarkMergeDone(t) \/ MarkDeployDone(t)
            BY <3>5 DEF MarkTestingDone, MarkMergeDone, MarkDeployDone, FireStep
        <3>6. CASE PreLandFails(t) \/ MergeWaitTimesOut(t) \/ AcquireLock(t) \/ LockBusy(t)
            BY <3>6 DEF PreLandFails, MergeWaitTimesOut, AcquireLock, LockBusy, Fail
        <3>7. CASE FreshEnough(t) \/ Stale(t) \/ CheckOwnership(t) \/ Merge(t) \/ MergeFails(t)
            BY <3>7 DEF FreshEnough, Stale, CheckOwnership, Merge, MergeFails, Fail
        <3>8. CASE Push(t) \/ PushFails(t) \/ ResetMain(t)
            BY <3>8 DEF Push, PushFails, ResetMain, Fail
        <3>9. CASE RecordLanded(t) \/ MarkVerifyDone(t) \/ FireBlocked(t) \/ Return(t)
            BY <3>9 DEF RecordLanded, MarkVerifyDone, FireBlocked, Return
        <3> QED
            BY <1>1, <3>1, <3>2, <3>3, <3>4, <3>5, <3>6, <3>7, <3>8, <3>9 DEF LaneStep
    <2> QED
        BY <2>1, <2>2 DEF HeadNamed
<1>2. ASSUME NEW t \in Task, Crash(t)
      PROVE  HeadNamed'
    BY <1>2 DEF Crash, HeadNamed, TypeOK, row, git
<1>3. ASSUME NEW t \in Task, HumanStep(t)
      PROVE  HeadNamed'
    <2>1. ~EditBranch(t)
        BY DEF EditBranch, Spend, TypeOK
    <2> QED
        BY <1>3, <2>1 DEF HumanStep, Abandon, CloseOutOfBand, RetryIntegration,
                          ImportPass, Accept, HeadNamed, row, git, run
<1>4. CASE Environment
    BY <1>4 DEF Environment, CommitOnMain, OperatorAcquires, OperatorReleases, OperatorRecovers,
                TtlRunsOut, HeadNamed, row, git, run
<1>5. CASE UNCHANGED vars
    BY <1>5 DEF vars, HeadNamed, row, git, run
<1> QED
    BY <1>1, <1>2, <1>3, <1>4, <1>5 DEF Next

\* The run's own step from the freshness check to the merge.
LEMMA CheckedByRun ==
    ASSUME TypeOK, HeadNamed, AllChecked, NEW t \in Task, Start(t) \/ LaneStep(t),
           pc'[t] \in {"ownership", "merge"}
    PROVE  Checked(t)'
<1> USE DEF TypeOK, row, git, run
<1>1. ~(Start(t) \/ PreflightFails(t) \/ CaptureBase(t) \/ Refresh(t))
    BY DEF Start, PreflightFails, CaptureBase, Refresh
<1>2. ~(CheckStaleBase(t) \/ RefreshFails(t) \/ CheckReviewedHead(t))
    BY DEF CheckStaleBase, RefreshFails, CheckReviewedHead, Fail
<1>3. ~(MarkRefreshDone(t) \/ MarkTaskReviewDone(t) \/ MarkTestingDone(t))
    BY DEF MarkRefreshDone, MarkTaskReviewDone, MarkTestingDone, FireStep
<1>4. ~(\/ PreLandPasses(t) \/ PreLandFails(t) \/ MergeWaitTimesOut(t)
        \/ AcquireLock(t) \/ LockBusy(t))
    BY DEF PreLandPasses, PreLandFails, MergeWaitTimesOut, AcquireLock, LockBusy, Fail
<1>5. CASE FreshEnough(t)
    <2>1. /\ evidence[t].test_head = evidence[t].branch_head
          /\ evidence[t].review_head = evidence[t].branch_head
          /\ evidence[t].test_base = main
        BY <1>5 DEF FreshEnough, Freshness
    <2>2. evidence[t].branch_head = branch[t]
        BY <1>5 DEF FreshEnough, HeadNamed, HasHead, HasNamed
    <2> QED
        BY <1>5, <2>1, <2>2 DEF FreshEnough, Checked
<1>6. ~Stale(t)
    BY DEF Stale, Fail
<1>7. CASE CheckOwnership(t)
    BY <1>7 DEF CheckOwnership, Fail, AllChecked, Checked
<1>8. ~(Merge(t) \/ MergeFails(t) \/ MarkMergeDone(t) \/ Push(t) \/ PushFails(t) \/ ResetMain(t))
    BY DEF Merge, MergeFails, MarkMergeDone, FireStep, Push, PushFails, ResetMain, Fail
<1>9. ~(\/ MarkDeployDone(t) \/ RecordLanded(t) \/ MarkVerifyDone(t)
        \/ FireBlocked(t) \/ Return(t))
    BY DEF MarkDeployDone, FireStep, RecordLanded, MarkVerifyDone, FireBlocked, Return
<1> QED
    BY <1>1, <1>2, <1>3, <1>4, <1>5, <1>6, <1>7, <1>8, <1>9 DEF LaneStep

LEMMA AllCheckedStep ==
    ASSUME MaxOutside = 0, Serial, HeadNamed, AllChecked, [Next]_vars
    PROVE  AllChecked'
<1> SUFFICES ASSUME NEW t \in Task, pc'[t] \in {"ownership", "merge"}
             PROVE  Checked(t)'
    BY DEF AllChecked
<1> USE DEF Serial, Typed
<1>1. CASE Start(t) \/ LaneStep(t)
    BY <1>1, CheckedByRun
<1>2. ASSUME pc[t] = pc'[t], evidence'[t] = evidence[t], branch'[t] = branch[t]
      PROVE  Checked(t)'
    <2>1. main' = main
        <3>1. ASSUME NEW u \in Task, pc[u] \in {"merge", "reset"}, Merge(u) \/ ResetMain(u)
              PROVE  FALSE
            <4>1. u = t
                BY <1>2, <3>1, GuardIsExclusive DEF GuardPc
            <4> QED
                BY <1>2, <3>1, <4>1 DEF Merge, ResetMain, Fail, TypeOK
        <3>2. ~CommitOnMain
            BY DEF CommitOnMain, Spend, TypeOK
        <3> QED
            BY <3>1, <3>2, MainMoves
    <2> QED
        BY <1>2, <2>1 DEF AllChecked, Checked
<1>3. ASSUME NEW u \in Task, u # t, Start(u) \/ LaneStep(u) \/ Crash(u) \/ HumanStep(u)
      PROVE  Checked(t)'
    BY <1>2, <1>3, OthersAreLeftAlone DEF Private
<1>4. ~Crash(t)
    BY DEF Crash, TypeOK
<1>5. CASE HumanStep(t)
    <2>1. ~EditBranch(t)
        BY DEF EditBranch, Spend, TypeOK
    <2> QED
        BY <1>2, <1>5, <2>1 DEF HumanStep, Abandon, CloseOutOfBand, RetryIntegration,
                                ImportPass, Accept, row, git, run
<1>6. CASE Environment
    BY <1>2, <1>6 DEF Environment, CommitOnMain, OperatorAcquires, OperatorReleases,
                      OperatorRecovers, TtlRunsOut, row, git, run
<1>7. CASE UNCHANGED vars
    BY <1>2, <1>7 DEF vars, row, git, run
<1> QED
    BY <1>1, <1>3, <1>4, <1>5, <1>6, <1>7 DEF Next

\* What is merged is what was checked: if nobody writes to main or to a
\* branch under a run by hand and no lock lapses, then for any tasks, any
\* attempts and any crashes the merged head is the tested and reviewed head,
\* and main is the main it was tested on.
THEOREM MergesWhatWasChecked ==
    ASSUME MaxLapses = 0, MaxOutside = 0
    PROVE  Spec => LandsAsTested
<1> DEFINE Inv == HeadNamed /\ AllChecked
<1>1. Init => Inv
    BY DEF Init, HeadNamed, AllChecked, HasHead, HasNamed
<1>2. Serial /\ Inv /\ [Next]_vars => Inv'
    BY HeadNamedStep, AllCheckedStep DEF Serial, Typed
<1>3. Inv /\ [Next]_vars =>
        [\A t \in Task : pc[t] = "merge" /\ pc'[t] = "merge_done" =>
            /\ evidence[t].test_base = main
            /\ evidence[t].test_head = branch[t]
            /\ evidence[t].review_head = branch[t]]_vars
    BY DEF AllChecked, Checked
<1> QED
    BY <1>1, <1>2, <1>3, SerialAlways, PTL DEF Spec, LandsAsTested
=============================================================================
