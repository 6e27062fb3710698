--------------------------- MODULE LandingProofs ---------------------------
(***************************************************************************)
(* What the rows of the integration lane say about main: reported work is  *)
(* there and stays, rows and attempts agree, no work lands a second time;  *)
(* and the lane implements SerialLanding, as long as no lock lapses and    *)
(* nobody writes by hand.                                                  *)
(***************************************************************************)
EXTENDS IntegrationLaneProofs, LaneRefinement

USE DEF Goto, Open

-----------------------------------------------------------------------------
(* Histories of main. *)

LEMMA ContentsOfAppend ==
    ASSUME NEW m \in Sha, NEW c \in Commit
    PROVE  Contents(Append(m, c)) = Contents(m) \cup c.brings
<1>1. /\ Len(Append(m, c)) = Len(m) + 1 /\ Append(m, c)[Len(m) + 1] = c
      /\ \A i \in 1..Len(m) : Append(m, c)[i] = m[i]
    BY DEF Sha
<1>2. Len(m) \in Nat
    BY DEF Sha
<1>3. 1..(Len(m) + 1) = (1..Len(m)) \cup {Len(m) + 1}
    BY <1>2
<1> QED
    BY <1>1, <1>2, <1>3 DEF Contents

\* What a prefix of a history holds, the history holds.
LEMMA ContentsOfPrefix ==
    ASSUME NEW m \in Sha, NEW k \in Nat, NEW l \in Nat, k <= l, l <= Len(m)
    PROVE  Contents(SubSeq(m, 1, k)) \subseteq Contents(SubSeq(m, 1, l))
<1>1. /\ Len(SubSeq(m, 1, k)) = k /\ \A i \in 1..k : SubSeq(m, 1, k)[i] = m[i]
      /\ Len(SubSeq(m, 1, l)) = l /\ \A i \in 1..l : SubSeq(m, 1, l)[i] = m[i]
    BY DEF Sha
<1> QED
    BY <1>1 DEF Contents

LEMMA PrefixOfAppend ==
    ASSUME NEW m \in Sha, NEW c \in Commit, NEW k \in Nat, k <= Len(m)
    PROVE  SubSeq(Append(m, c), 1, k) = SubSeq(m, 1, k)
<1>1. m \in Seq(Commit) /\ Append(m, c) \in Seq(Commit) /\ Len(Append(m, c)) = Len(m) + 1
    BY DEF Sha
<1>2. /\ Len(SubSeq(Append(m, c), 1, k)) = k /\ Len(SubSeq(m, 1, k)) = k
      /\ SubSeq(Append(m, c), 1, k) \in Seq(Commit) /\ SubSeq(m, 1, k) \in Seq(Commit)
    BY <1>1
<1>3. \A i \in 1..k : SubSeq(Append(m, c), 1, k)[i] = SubSeq(m, 1, k)[i]
    BY <1>1
<1> QED
    BY <1>2, <1>3, SeqEqual

-----------------------------------------------------------------------------
(* The attempts of a task. *)

Last(t) == attempts[t][Attempt(t)]

\* Writing an outcome touches the last entry alone.
LEMMA FinishedWrites ==
    ASSUME TypeOK, NEW t \in Task, NEW o \in Outcome, Finished(t, o), Attempt(t) > 0
    PROVE  /\ \A u \in Task : u # t => attempts'[u] = attempts[u]
           /\ Len(attempts'[t]) = Attempt(t) /\ attempts'[t][Attempt(t)] = o
           /\ \A n \in 1..Attempt(t) : n # Attempt(t) => attempts'[t][n] = attempts[t][n]
<1>1. attempts[t] \in Seq(Outcome) /\ Attempt(t) \in 1..Len(attempts[t])
    BY DEF TypeOK, Attempt
<1>2. attempts'[t] = [attempts[t] EXCEPT ![Attempt(t)] = o]
    BY DEF Finished, TypeOK
<1>3. /\ Len(attempts'[t]) = Len(attempts[t]) /\ attempts'[t][Attempt(t)] = o
      /\ \A n \in 1..Len(attempts[t]) : n # Attempt(t) => attempts'[t][n] = attempts[t][n]
    BY <1>1, <1>2, ExceptSeq
<1> QED
    BY <1>3 DEF Finished, TypeOK, Attempt

\* Entering integrating adds an entry, failed or in progress.
Enters(t) == PreflightFails(t) \/ CaptureBase(t)

LEMMA EntersWrites ==
    ASSUME TypeOK, NEW t \in Task, Enters(t)
    PROVE  /\ \A u \in Task : u # t => attempts'[u] = attempts[u]
           /\ Len(attempts'[t]) = Attempt(t) + 1
           /\ \A n \in 1..Attempt(t) : attempts'[t][n] = attempts[t][n]
           /\ PreflightFails(t) => attempts'[t][Attempt(t) + 1] = "merge_failure"
           /\ CaptureBase(t) => attempts'[t][Attempt(t) + 1] = "in_progress"
<1>1. attempts[t] \in Seq(Outcome) /\ "merge_failure" \in Outcome /\ "in_progress" \in Outcome
    BY DEF TypeOK, Outcome
<1>2. ~(PreflightFails(t) /\ CaptureBase(t))
    BY DEF PreflightFails, CaptureBase, Goto, TypeOK
<1>3. \A u \in Task : u # t => attempts'[u] = attempts[u]
    BY DEF Enters, PreflightFails, CaptureBase, TypeOK
<1>4. ASSUME NEW o \in Outcome, attempts'[t] = Append(attempts[t], o)
      PROVE  /\ Len(attempts'[t]) = Attempt(t) + 1
             /\ \A n \in 1..Attempt(t) : attempts'[t][n] = attempts[t][n]
             /\ attempts'[t][Attempt(t) + 1] = o
    BY <1>1, <1>4 DEF Attempt
<1>5. CASE PreflightFails(t)
    <2>1. attempts'[t] = Append(attempts[t], "merge_failure")
        BY <1>5 DEF PreflightFails, TypeOK
    <2> QED
        BY <1>1, <1>2, <1>3, <1>4, <1>5, <2>1
<1>6. CASE CaptureBase(t)
    <2>1. attempts'[t] = Append(attempts[t], "in_progress")
        BY <1>6 DEF CaptureBase, TypeOK
    <2> QED
        BY <1>1, <1>2, <1>3, <1>4, <1>6, <2>1
<1> QED
    BY <1>5, <1>6 DEF Enters

\* The part of a run that can still fail or land.
InRun == Label \ {"idle", "capture", "block", "verify_done", "release"}

Failure == Outcome \ {"integrated", "in_progress"}

\* What a step of t does to the attempts: nothing, and the run starts, goes
\* on or ends; it enters; it fails; it records that it landed.
Quiet(t) ==
    /\ attempts' = attempts
    /\ \/ Start(t)
       \/ pc'[t] \in {"idle", "release"}
       \/ pc'[t] = pc[t] /\ why'[t] = why[t]
       \/ pc[t] \in InRun /\ pc'[t] \in InRun

Fails(t) ==
    /\ pc[t] \in InRun
    /\ \E r \in Reason : OutcomeFor(r) \in Failure /\ Fail(t, OutcomeFor(r), r)

LEMMA KindsOfStep ==
    ASSUME TypeOK, NEW t \in Task, Start(t) \/ LaneStep(t) \/ Crash(t) \/ HumanStep(t)
    PROVE  Quiet(t) \/ Enters(t) \/ Fails(t) \/ RecordLanded(t)
<1> USE DEF TypeOK, row, git, run, InRun, Label, GuardPc
<1>f. ASSUME pc[t] \in InRun, NEW o \in {"rebase_conflict", "stale_base",
                 "pre_land_check_failed", "merge_failure", "push_failure"}, Fail(t, o, o)
      PROVE  Fails(t)
    BY <1>f DEF Fails, OutcomeFor, Failure, Outcome, Reason
<1>g. ASSUME pc[t] \in InRun, NEW r \in {"stale_external_review", "main_moved_after_review",
                 "test_evidence_stale"}, Fail(t, "needs_review", r)
      PROVE  Fails(t)
    BY <1>g DEF Fails, OutcomeFor, Failure, Outcome, Reason
<1>q. ASSUME attempts' = attempts, pc[t] \in InRun, pc'[t] \in InRun \cup {"release"}
      PROVE  Quiet(t)
    BY <1>q DEF Quiet
<1>1. CASE Start(t) \/ Crash(t)
    BY <1>1 DEF Start, Crash, Quiet
<1>2. CASE PreflightFails(t) \/ CaptureBase(t)
    BY <1>2 DEF Enters
<1>3. CASE CheckStaleBase(t) \/ Refresh(t) \/ RefreshFails(t)
    BY <1>3, <1>f, <1>q DEF CheckStaleBase, Refresh, RefreshFails
<1>4. CASE CheckReviewedHead(t)
    BY <1>4, <1>g, <1>q DEF CheckReviewedHead
<1>5. CASE MarkRefreshDone(t) \/ MarkTaskReviewDone(t) \/ MarkTestingDone(t)
    BY <1>5, <1>q DEF MarkRefreshDone, MarkTaskReviewDone, MarkTestingDone, FireStep
<1>6. CASE MarkMergeDone(t) \/ MarkDeployDone(t)
    BY <1>6, <1>q DEF MarkMergeDone, MarkDeployDone, FireStep
<1>7. CASE PreLandPasses(t) \/ PreLandFails(t) \/ MergeWaitTimesOut(t)
    BY <1>7, <1>f, <1>q DEF PreLandPasses, PreLandFails, MergeWaitTimesOut
<1>8. CASE AcquireLock(t) \/ LockBusy(t) \/ FreshEnough(t)
    BY <1>8, <1>f, <1>q DEF AcquireLock, LockBusy, FreshEnough
<1>9. CASE Stale(t)
    BY <1>9, <1>g, <1>q, FreshnessType DEF Stale
<1>10. CASE CheckOwnership(t) \/ Merge(t) \/ MergeFails(t)
    BY <1>10, <1>f, <1>q DEF CheckOwnership, Merge, MergeFails
<1>11. CASE Push(t) \/ PushFails(t) \/ ResetMain(t)
    BY <1>11, <1>f, <1>q DEF Push, PushFails, ResetMain
<1>12. CASE MarkVerifyDone(t) \/ FireBlocked(t) \/ Return(t)
    BY <1>12 DEF MarkVerifyDone, FireBlocked, Return, Quiet
<1>13. CASE HumanStep(t)
    BY <1>13 DEF HumanStep, Abandon, CloseOutOfBand, RetryIntegration, ImportPass, Accept,
                 EditBranch, Quiet
<1> QED
    BY <1>1, <1>2, <1>3, <1>4, <1>5, <1>6, <1>7, <1>8, <1>9, <1>10, <1>11, <1>12, <1>13
       DEF LaneStep

-----------------------------------------------------------------------------
(* Where a run stands, its last attempt tells. *)

AnsweredAt(t) ==
    /\ pc[t] \notin {"idle", "capture", "release"} => Attempt(t) > 0
    /\ pc[t] \in InRun => Last(t) = "in_progress"
    /\ pc[t] = "block" => Last(t) = OutcomeFor(why[t])
    /\ pc[t] = "verify_done" => Last(t) = "integrated"
Answered == \A t \in Task : AnsweredAt(t)

\* A failing run writes its last entry and goes on to the block.
LEMMA FailsWrites ==
    ASSUME TypeOK, NEW t \in Task, Fails(t), Attempt(t) > 0
    PROVE  /\ pc'[t] = "block" /\ why'[t] \in Reason
           /\ Len(attempts'[t]) = Attempt(t)
           /\ attempts'[t][Attempt(t)] = OutcomeFor(why'[t])
           /\ attempts'[t][Attempt(t)] \in Failure
           /\ \A n \in 1..Attempt(t) : n # Attempt(t) => attempts'[t][n] = attempts[t][n]
<1>1. PICK r \in Reason : OutcomeFor(r) \in Failure /\ Fail(t, OutcomeFor(r), r)
    BY DEF Fails
<1>2. pc'[t] = "block" /\ why'[t] = r /\ Finished(t, OutcomeFor(r))
    BY <1>1 DEF Fail, TypeOK
<1>3. OutcomeFor(r) \in Outcome
    BY <1>1 DEF Failure
<1> HIDE DEF OutcomeFor
<1> QED
    BY <1>1, <1>2, <1>3, FinishedWrites

LEMMA AnsweredByActor ==
    ASSUME TypeOK, Answered, NEW t \in Task, Start(t) \/ LaneStep(t) \/ Crash(t) \/ HumanStep(t)
    PROVE  AnsweredAt(t)'
<1>0. /\ AnsweredAt(t) /\ Attempt(t) \in Nat /\ Attempt(t)' = Len(attempts'[t])
      /\ Last(t)' = attempts'[t][Attempt(t)']
    BY DEF Answered, TypeOK, Attempt, Last
<1>1. CASE Quiet(t)
    <2>1. Attempt(t)' = Attempt(t) /\ Last(t)' = Last(t)
        BY <1>1 DEF Quiet, Attempt, Last
    <2>2. CASE Start(t) \/ pc'[t] \in {"idle", "release"}
        BY <2>2 DEF AnsweredAt, InRun, Start, TypeOK
    <2>3. CASE pc'[t] = pc[t] /\ why'[t] = why[t]
        BY <1>0, <2>1, <2>3 DEF AnsweredAt
    <2>4. CASE pc[t] \in InRun /\ pc'[t] \in InRun
        BY <1>0, <2>1, <2>4 DEF AnsweredAt, InRun, Label, GuardPc
    <2> QED
        BY <1>1, <2>2, <2>3, <2>4 DEF Quiet
<1>2. CASE Enters(t)
    <2>1. Attempt(t)' = Attempt(t) + 1
        BY <1>0, <1>2, EntersWrites
    <2>2. CASE PreflightFails(t)
        <3>1. pc'[t] = "block" /\ why'[t] = "merge_failure" /\ Last(t)' = "merge_failure"
            BY <1>0, <1>2, <2>1, <2>2, EntersWrites DEF PreflightFails, TypeOK
        <3> QED
            BY <1>0, <2>1, <3>1 DEF AnsweredAt, InRun, OutcomeFor
    <2>3. CASE CaptureBase(t)
        <3>1. pc'[t] = "stale_base" /\ Last(t)' = "in_progress"
            BY <1>0, <1>2, <2>1, <2>3, EntersWrites DEF CaptureBase, TypeOK
        <3> QED
            BY <1>0, <2>1, <3>1 DEF AnsweredAt
    <2> QED
        BY <1>2, <2>2, <2>3 DEF Enters
<1>3. CASE Fails(t)
    <2>1. Attempt(t) > 0
        BY <1>0, <1>3 DEF Fails, AnsweredAt, InRun
    <2>2. pc'[t] = "block" /\ Attempt(t)' = Attempt(t) /\ Last(t)' = OutcomeFor(why'[t])
        BY <1>0, <1>3, <2>1, FailsWrites
    <2>3. OutcomeFor(why[t])' = OutcomeFor(why'[t])
        BY DEF OutcomeFor
    <2> QED
        BY <1>0, <2>1, <2>2, <2>3 DEF AnsweredAt, InRun
<1>4. CASE RecordLanded(t)
    <2>1. pc[t] = "landed" /\ pc'[t] = "verify_done" /\ Finished(t, "integrated")
        BY <1>4 DEF RecordLanded, TypeOK
    <2>2. Attempt(t) > 0
        BY <1>0, <2>1 DEF AnsweredAt
    <2>3. Attempt(t)' = Attempt(t) /\ Last(t)' = "integrated"
        BY <1>0, <2>1, <2>2, FinishedWrites DEF Outcome
    <2> QED
        BY <1>0, <2>1, <2>2, <2>3 DEF AnsweredAt, InRun
<1> QED
    BY <1>1, <1>2, <1>3, <1>4, KindsOfStep

LEMMA AnsweredStep ==
    ASSUME TypeOK, Answered, [Next]_vars
    PROVE  Answered'
<1>1. ASSUME UNCHANGED <<attempts, pc, why>>
      PROVE  Answered'
    BY <1>1 DEF Answered, AnsweredAt, Attempt, Last
<1>2. ASSUME NEW t \in Task, Start(t) \/ LaneStep(t) \/ Crash(t) \/ HumanStep(t)
      PROVE  Answered'
    <2>1. ASSUME NEW u \in Task, u # t
          PROVE  AnsweredAt(u)'
        <3>1. pc'[u] = pc[u] /\ attempts'[u] = attempts[u] /\ why'[u] = why[u]
            BY <1>2, <2>1, OthersAreLeftAlone DEF Private
        <3> QED
            BY <3>1 DEF Answered, AnsweredAt, Attempt, Last
    <2> QED
        BY <1>2, <2>1, AnsweredByActor DEF Answered
<1>3. Environment => UNCHANGED <<attempts, pc, why>>
    BY DEF Environment, CommitOnMain, OperatorAcquires, OperatorReleases,
           OperatorRecovers, TtlRunsOut, row, run
<1>4. UNCHANGED vars => UNCHANGED <<attempts, pc, why>>
    BY DEF vars, row, run
<1> QED
    BY <1>1, <1>2, <1>3, <1>4 DEF Next

LEMMA AnsweredAlways == Spec => []Answered
<1>1. Init => Answered
    BY DEF Init, Answered, AnsweredAt, InRun
<1>2. Typed /\ Answered /\ [Next]_vars => Answered'
    BY AnsweredStep DEF Typed
<1> QED
    BY <1>1, <1>2, TypedAlways, PTL DEF Spec

-----------------------------------------------------------------------------
(* What was reported integrated is on main and stays there. *)

Integrated == {l \in Task \X Nat :
    l[2] \in 1..Attempt(l[1]) /\ attempts[l[1]][l[2]] = "integrated"}

LEMMA IntegratedKept ==
    ASSUME UNCHANGED attempts
    PROVE  Integrated' = Integrated
BY DEF Integrated, Attempt

\* A step reports at most the landing it records.
LEMMA IntegratedGrows ==
    ASSUME TypeOK, Answered, NEW t \in Task, Start(t) \/ LaneStep(t) \/ Crash(t) \/ HumanStep(t)
    PROVE  /\ Integrated' \subseteq Integrated \cup {LandingOf(t)}
           /\ ~RecordLanded(t) => Integrated' \subseteq Integrated
<1>1. ASSUME NEW l \in Integrated', l \notin Integrated
      PROVE  l = LandingOf(t) /\ RecordLanded(t)
    <2> DEFINE u == l[1]  n == l[2]
    <2>1. l = <<u, n>> /\ u \in Task /\ n \in Nat /\ n \in 1..Len(attempts'[u])
          /\ attempts'[u][n] = "integrated"
        BY <1>1 DEF Integrated, Attempt
    <2>2. ~(n \in 1..Attempt(u) /\ attempts[u][n] = "integrated")
        BY <1>1, <2>1 DEF Integrated
    <2> HIDE DEF u, n
    <2>3. u = t
        <3>1. u # t => attempts'[u] = attempts[u]
            BY <2>1, OthersAreLeftAlone DEF Private
        <3> QED
            BY <2>1, <2>2, <3>1 DEF Attempt
    <2>4. Attempt(t) \in Nat
        BY DEF TypeOK, Attempt
    <2>5. ~Quiet(t)
        BY <2>1, <2>2 DEF Quiet, Attempt
    <2>6. ~Enters(t)
        <3>1. ASSUME Enters(t)
              PROVE  FALSE
            <4>1. /\ Len(attempts'[t]) = Attempt(t) + 1
                  /\ \A k \in 1..Attempt(t) : attempts'[t][k] = attempts[t][k]
                  /\ attempts'[t][Attempt(t) + 1] # "integrated"
                BY <3>1, EntersWrites DEF Enters
            <4> QED
                BY <2>1, <2>2, <2>3, <2>4, <4>1
        <3> QED
            BY <3>1
    <2>7. pc[t] \in InRun => Attempt(t) > 0
        BY DEF Answered, AnsweredAt, InRun
    <2>8. ~Fails(t)
        <3>1. ASSUME Fails(t)
              PROVE  FALSE
            <4>1. /\ Len(attempts'[t]) = Attempt(t)
                  /\ attempts'[t][Attempt(t)] \in Failure
                  /\ \A k \in 1..Attempt(t) : k # Attempt(t) => attempts'[t][k] = attempts[t][k]
                BY <2>7, <3>1, FailsWrites DEF Fails
            <4> QED
                BY <2>1, <2>2, <2>3, <2>4, <4>1 DEF Failure
        <3> QED
            BY <3>1
    <2>9. RecordLanded(t)
        BY <2>5, <2>6, <2>8, KindsOfStep
    <2>10. /\ Len(attempts'[t]) = Attempt(t)
           /\ \A k \in 1..Attempt(t) : k # Attempt(t) => attempts'[t][k] = attempts[t][k]
        <3>1. pc[t] = "landed" /\ Finished(t, "integrated")
            BY <2>9 DEF RecordLanded
        <3> QED
            BY <2>7, <3>1, FinishedWrites DEF InRun, Label, GuardPc, Outcome
    <2> QED
        BY <2>1, <2>2, <2>3, <2>4, <2>9, <2>10 DEF LandingOf
<1> QED
    BY <1>1

\* A report is never withdrawn: what is written over was in progress.
LEMMA IntegratedIsKept ==
    ASSUME TypeOK, Answered, NEW t \in Task, Start(t) \/ LaneStep(t) \/ Crash(t) \/ HumanStep(t)
    PROVE  Integrated \subseteq Integrated'
<1> SUFFICES ASSUME NEW l \in Integrated
             PROVE  l \in Integrated'
    OBVIOUS
<1> DEFINE u == l[1]  n == l[2]
<1>1. l \in Task \X Nat /\ u \in Task /\ n \in 1..Attempt(u) /\ attempts[u][n] = "integrated"
    BY DEF Integrated
<1>2. SUFFICES n \in 1..Len(attempts'[u]) /\ attempts'[u][n] = "integrated"
    BY <1>1 DEF Integrated, Attempt
<1> HIDE DEF u, n
<1>3. Attempt(t) \in Nat /\ AnsweredAt(t)
    BY DEF TypeOK, Attempt, Answered
<1>4. CASE u # t
    BY <1>1, <1>4, OthersAreLeftAlone DEF Private, Attempt
<1>5. CASE u = t /\ Quiet(t)
    BY <1>1, <1>5 DEF Quiet, Attempt
<1>6. CASE u = t /\ Enters(t)
    <2>1. /\ Len(attempts'[t]) = Attempt(t) + 1
          /\ \A k \in 1..Attempt(t) : attempts'[t][k] = attempts[t][k]
        BY <1>6, EntersWrites
    <2> QED
        BY <1>1, <1>3, <1>6, <2>1
<1>7. ASSUME u = t, Fails(t) \/ RecordLanded(t)
      PROVE  n \in 1..Len(attempts'[u]) /\ attempts'[u][n] = "integrated"
    <2>1. pc[t] \in InRun
        BY <1>7 DEF Fails, RecordLanded, InRun, Label, GuardPc
    <2>2. Attempt(t) > 0 /\ Last(t) = "in_progress"
        BY <1>3, <2>1 DEF AnsweredAt, InRun
    <2>3. /\ Len(attempts'[t]) = Attempt(t)
          /\ \A k \in 1..Attempt(t) : k # Attempt(t) => attempts'[t][k] = attempts[t][k]
        BY <1>7, <2>2, FailsWrites, FinishedWrites DEF RecordLanded, Outcome
    <2> QED
        BY <1>1, <1>7, <2>2, <2>3 DEF Last
<1> QED
    BY <1>4, <1>5, <1>6, <1>7, KindsOfStep

\* A run that has merged and not yet recorded it.
Merging == {"merge_done", "push", "reset", "deploy_done", "landed"}

\* Its merge is on main, and what was integrated lies below it.
Lands(t) == \E i \in 1..Len(main) :
    /\ main[i].by = LandingOf(t) /\ LandingOf(t) \in main[i].brings
    /\ Integrated \subseteq Contents(SubSeq(main, 1, i - 1))

Stands(t) ==
    /\ pc[t] \in Merging => Lands(t)
    /\ pc[t] = "reset" => Integrated \subseteq Contents(base[t])

\* The inductive invariant of reported work.
Standing ==
    /\ Integrated \subseteq Contents(main)
    /\ \A t \in Task : Stands(t)

LEMMA MergingByRun ==
    ASSUME TypeOK, NEW t \in Task, Start(t) \/ LaneStep(t) \/ Crash(t) \/ HumanStep(t),
           pc'[t] \in Merging
    PROVE  /\ attempts' = attempts
           /\ Merge(t) \/ (pc[t] \in Merging /\ main' = main)
           /\ pc'[t] = "reset" =>
                \/ PushFails(t) /\ OnlyOwnMerge(t) /\ base' = base
                \/ pc[t] = "reset" /\ base' = base
<1> USE DEF TypeOK, row, git, run, Merging
<1>1. ~(Start(t) \/ PreflightFails(t) \/ CaptureBase(t) \/ Refresh(t))
    BY DEF Start, PreflightFails, CaptureBase, Refresh
<1>2. ~(CheckStaleBase(t) \/ RefreshFails(t) \/ CheckReviewedHead(t))
    BY DEF CheckStaleBase, RefreshFails, CheckReviewedHead, Fail
<1>3. ~(MarkRefreshDone(t) \/ MarkTaskReviewDone(t) \/ MarkTestingDone(t))
    BY DEF MarkRefreshDone, MarkTaskReviewDone, MarkTestingDone, FireStep
<1>4. ~(\/ PreLandPasses(t) \/ PreLandFails(t) \/ MergeWaitTimesOut(t)
        \/ AcquireLock(t) \/ LockBusy(t))
    BY DEF PreLandPasses, PreLandFails, MergeWaitTimesOut, AcquireLock, LockBusy, Fail
<1>5. ~(FreshEnough(t) \/ Stale(t) \/ CheckOwnership(t) \/ MergeFails(t) \/ ResetMain(t))
    BY DEF FreshEnough, Stale, CheckOwnership, MergeFails, ResetMain, Fail
<1>6. CASE Merge(t)
    BY <1>6 DEF Merge
<1>7. CASE MarkMergeDone(t) \/ Push(t) \/ PushFails(t) \/ MarkDeployDone(t)
    BY <1>7 DEF MarkMergeDone, MarkDeployDone, FireStep, Push, PushFails, Fail
<1>8. ~(RecordLanded(t) \/ MarkVerifyDone(t) \/ FireBlocked(t) \/ Return(t) \/ Crash(t))
    BY DEF RecordLanded, MarkVerifyDone, FireBlocked, Return, Crash
<1>9. CASE HumanStep(t)
    BY <1>9 DEF HumanStep, Abandon, CloseOutOfBand, RetryIntegration, ImportPass, Accept,
                EditBranch
<1> QED
    BY <1>1, <1>2, <1>3, <1>4, <1>5, <1>6, <1>7, <1>8, <1>9 DEF LaneStep

\* Main stands or grows, nothing new was reported: a landing still stands.
LEMMA LandsKept ==
    ASSUME TypeOK, NEW t \in Task, Lands(t), UNCHANGED attempts[t],
           Integrated' \subseteq Integrated,
           main' = main \/ \E c \in Commit : main' = Append(main, c)
    PROVE  Lands(t)'
<1>1. PICK i \in 1..Len(main) :
        /\ main[i].by = LandingOf(t) /\ LandingOf(t) \in main[i].brings
        /\ Integrated \subseteq Contents(SubSeq(main, 1, i - 1))
    BY DEF Lands
<1>2. LandingOf(t)' = LandingOf(t)
    BY DEF LandingOf, Attempt
<1>3. CASE main' = main
    BY <1>1, <1>2, <1>3 DEF Lands
<1>4. ASSUME NEW c \in Commit, main' = Append(main, c)
      PROVE  Lands(t)'
    <2>1. main \in Sha /\ Len(main) \in Nat /\ i - 1 \in Nat /\ i - 1 <= Len(main)
        BY DEF TypeOK, Sha
    <2>2. i \in 1..Len(main') /\ main'[i] = main[i]
        BY <1>4, <2>1 DEF Sha
    <2>3. SubSeq(main', 1, i - 1) = SubSeq(main, 1, i - 1)
        BY <1>4, <2>1, PrefixOfAppend
    <2> QED
        BY <1>1, <1>2, <2>2, <2>3 DEF Lands
<1> QED
    BY <1>3, <1>4

\* The merge itself puts the landing on top of everything reported.
LEMMA LandsByMerge ==
    ASSUME TypeOK, Integrated \subseteq Contents(main), NEW t \in Task, Merge(t)
    PROVE  Lands(t)'
<1>1. main \in Sha /\ Len(main) \in Nat /\ branch[t] \in Candidate /\ LandingOf(t) \in Landing
    <2>1. LandingOf(t) \in Landing
        BY TokenType
    <2>2. main \in Sha /\ branch[t] \in Candidate
        BY DEF TypeOK
    <2> QED
        BY <2>1, <2>2 DEF Sha
<1>2. PICK c : /\ main' = Append(main, c) /\ c.by = LandingOf(t)
               /\ LandingOf(t) \in c.brings /\ c \in Commit
    <2>1. Carried(branch[t]) \subseteq Landing
        BY <1>1, ContentsType DEF Carried, Candidate
    <2> QED
        BY <1>1, <2>1 DEF Merge, Merged, Commit
<1>3. Len(main') = Len(main) + 1 /\ main'[Len(main')] = c
    BY <1>1, <1>2 DEF Sha
<1>4. SubSeq(main', 1, Len(main)) = main
    <2>1. SubSeq(main', 1, Len(main)) = SubSeq(main, 1, Len(main))
        BY <1>1, <1>2, PrefixOfAppend
    <2>2. SubSeq(main, 1, Len(main)) = main
        <3>1. main \in Seq(Commit) /\ SubSeq(main, 1, Len(main)) \in Seq(Commit)
            BY <1>1 DEF Sha
        <3>2. /\ Len(SubSeq(main, 1, Len(main))) = Len(main)
              /\ \A i \in 1..Len(main) : SubSeq(main, 1, Len(main))[i] = main[i]
            BY <3>1
        <3> QED
            BY <3>1, <3>2, SeqEqual
    <2> QED
        BY <2>1, <2>2
<1>5. LandingOf(t)' = LandingOf(t) /\ Integrated' = Integrated
    BY IntegratedKept DEF Merge, row, LandingOf, Attempt
<1>6. Len(main') - 1 = Len(main) /\ Len(main') \in 1..Len(main')
    BY <1>1, <1>3
<1> QED
    BY <1>2, <1>3, <1>4, <1>5, <1>6 DEF Lands

\* Only the run's own last merge lies above what is rolled back to.
LEMMA RollbackKeeps ==
    ASSUME TypeOK, NEW t \in Task, Lands(t), OnlyOwnMerge(t)
    PROVE  Integrated \subseteq Contents(base[t])
<1>1. PICK i \in 1..Len(main) : Integrated \subseteq Contents(SubSeq(main, 1, i - 1))
    BY DEF Lands
<1>2. main \in Sha /\ Len(main) \in Nat
    BY DEF TypeOK, Sha
<1>3. /\ i - 1 \in Nat /\ Len(main) - 1 \in Nat
      /\ i - 1 <= Len(main) - 1 /\ Len(main) - 1 <= Len(main)
    BY <1>2
<1>4. Contents(SubSeq(main, 1, i - 1)) \subseteq Contents(SubSeq(main, 1, Len(main) - 1))
    BY <1>2, <1>3, ContentsOfPrefix
<1> QED
    BY <1>1, <1>4 DEF OnlyOwnMerge

LEMMA StandsByRun ==
    ASSUME TypeOK, Answered, Standing, NEW t \in Task,
           Start(t) \/ LaneStep(t) \/ Crash(t) \/ HumanStep(t)
    PROVE  Stands(t)'
<1> SUFFICES ASSUME pc'[t] \in Merging
             PROVE  Stands(t)'
    BY DEF Stands, Merging
<1>1. attempts' = attempts /\ Integrated' = Integrated
    BY MergingByRun, IntegratedKept
<1>2. Lands(t)'
    BY <1>1, MergingByRun, LandsByMerge, LandsKept DEF Standing, Stands
<1>3. ASSUME pc'[t] = "reset"
      PROVE  Integrated' \subseteq Contents(base'[t])
    <2>1. CASE PushFails(t) /\ OnlyOwnMerge(t) /\ base' = base
        <3>1. Lands(t)
            BY <2>1 DEF PushFails, Standing, Stands, Merging
        <3> QED
            BY <1>1, <2>1, <3>1, RollbackKeeps
    <2>2. CASE pc[t] = "reset" /\ base' = base
        BY <1>1, <2>2 DEF Standing, Stands
    <2> QED
        BY <1>3, <2>1, <2>2, MergingByRun
<1>4. Contents(base[t])' = Contents(base'[t])
    BY DEF Contents
<1> QED
    BY <1>2, <1>3, <1>4 DEF Stands

\* Nobody else records, and nobody shortens main, while a run is merging.
LEMMA StandsUnderOthers ==
    ASSUME Serial, Answered, Standing, NEW t \in Task, pc'[t] = pc[t], base'[t] = base[t],
           attempts'[t] = attempts[t], Integrated' \subseteq Integrated \/ pc[t] \notin Merging,
           pc[t] \in Merging => main' = main \/ \E c \in Commit : main' = Append(main, c)
    PROVE  Stands(t)'
<1> SUFFICES ASSUME pc[t] \in Merging
             PROVE  Stands(t)'
    BY DEF Stands, Merging
<1>1. Lands(t)'
    BY LandsKept DEF Standing, Stands, Serial, Typed
<1>2. Contents(base[t])' = Contents(base[t])
    BY DEF Contents
<1> QED
    BY <1>1, <1>2 DEF Standing, Stands

LEMMA StandingStep ==
    ASSUME Serial, Answered, Standing, [Next]_vars
    PROVE  Standing'
<1> USE DEF Serial, Typed
<1>1. ASSUME NEW t \in Task, Start(t) \/ LaneStep(t) \/ Crash(t) \/ HumanStep(t)
      PROVE  Standing'
    <2>1. Stands(t)'
        BY <1>1, StandsByRun
    <2>2. ASSUME NEW u \in Task, u # t
          PROVE  Stands(u)'
        <3>1. pc'[u] = pc[u] /\ base'[u] = base[u] /\ attempts'[u] = attempts[u]
            BY <1>1, <2>2, OthersAreLeftAlone DEF Private
        <3>2. pc[u] \in Merging => main' = main /\ ~RecordLanded(t)
            BY <1>1, <2>2, RunMoves, GuardIsExclusive DEF RecordLanded, Merging, GuardPc
        <3> QED
            BY <1>1, <3>1, <3>2, IntegratedGrows, StandsUnderOthers
    <2>3. Integrated' \subseteq Contents(main')
        <3>1. CASE RecordLanded(t)
            <4>1. Lands(t) /\ main' = main
                BY <3>1 DEF RecordLanded, git, Standing, Stands, Merging
            <4>2. LandingOf(t) \in Contents(main)
                BY <4>1 DEF Lands, Contents
            <4> QED
                BY <1>1, <4>1, <4>2, IntegratedGrows DEF Standing
        <3>2. CASE ~RecordLanded(t) /\ main' = main
            BY <1>1, <3>2, IntegratedGrows DEF Standing
        <3>3. CASE Merge(t)
            <4>1. main \in Sha /\ branch[t] \in Candidate /\ LandingOf(t) \in Landing
                BY TokenType DEF TypeOK
            <4>2. PICK c \in Commit : main' = Append(main, c)
                <5>1. Carried(branch[t]) \subseteq Landing
                    BY <4>1, ContentsType DEF Carried, Candidate
                <5> QED
                    BY <3>3, <4>1, <5>1 DEF Merge, Merged, Commit
            <4>3. attempts' = attempts
                BY <3>3 DEF Merge, row
            <4> QED
                BY <4>1, <4>2, <4>3, ContentsOfAppend, IntegratedKept DEF Standing
        <3>4. CASE ResetMain(t)
            <4>1. pc[t] = "reset" /\ main' \in {base[t], main} /\ ~RecordLanded(t)
                BY <3>4 DEF ResetMain, RecordLanded
            <4> QED
                BY <1>1, <4>1, IntegratedGrows DEF Standing, Stands
        <3> QED
            BY <1>1, <3>1, <3>2, <3>3, <3>4, RunMoves
    <2>4. Contents(main)' = Contents(main')
        BY DEF Contents
    <2> QED
        BY <2>1, <2>2, <2>3, <2>4 DEF Standing
<1>2. ASSUME UNCHANGED <<pc, base, attempts>>,
             main' = main \/ \E c \in Commit : main' = Append(main, c)
      PROVE  Standing'
    <2>1. Integrated' = Integrated
        BY <1>2, IntegratedKept
    <2>2. \A t \in Task : Stands(t)'
        BY <1>2, <2>1, StandsUnderOthers
    <2>3. Contents(main) \subseteq Contents(main')
        BY <1>2, ContentsOfAppend DEF TypeOK
    <2>4. Contents(main)' = Contents(main')
        BY DEF Contents
    <2> QED
        BY <2>1, <2>2, <2>3, <2>4 DEF Standing
<1>3. CASE CommitOnMain
    <2> DEFINE id == <<Operator, used.outside>>
    <2>1. id \in Landing
        BY DEF TypeOK, Landing, Who
    <2>2. [by |-> id, brings |-> {id}] \in Commit
        BY <2>1 DEF Commit
    <2> QED
        BY <1>2, <1>3, <2>2 DEF CommitOnMain, row, run
<1>4. CASE Environment /\ ~CommitOnMain
    BY <1>2, <1>4 DEF Environment, OperatorAcquires, OperatorReleases, OperatorRecovers,
                      TtlRunsOut, row, run, git
<1>5. CASE UNCHANGED vars
    BY <1>2, <1>5 DEF vars, row, run, git
<1> QED
    BY <1>1, <1>3, <1>4, <1>5 DEF Next

LEMMA StandingAlways ==
    ASSUME MaxLapses = 0
    PROVE  Spec => []Standing
<1>1. Init => Standing
    BY DEF Init, Standing, Stands, Merging, Integrated, Attempt
<1>2. Serial /\ Answered /\ Standing /\ [Next]_vars => Standing'
    BY StandingStep
<1> QED
    BY <1>1, <1>2, SerialAlways, AnsweredAlways, PTL DEF Spec

\* Reported work stays: as long as no lock lapses under its run, for any
\* tasks, attempts and crashes and whatever people do to rows, branches, the
\* lock and main, no rollback, crash or landing takes integrated work off
\* main.
THEOREM IntegratedStays ==
    ASSUME MaxLapses = 0
    PROVE  Spec => []IntegratedIsOnMain
<1>1. Typed /\ Standing => IntegratedIsOnMain
    <2> SUFFICES ASSUME Typed, Standing, NEW t \in Task, NEW n \in 1..Attempt(t),
                        attempts[t][n] = "integrated"
                 PROVE  <<t, n>> \in Contents(main)
        BY DEF IntegratedIsOnMain
    <2>1. n \in Nat
        BY DEF Typed, TypeOK, Attempt
    <2> QED
        BY <2>1 DEF Standing, Integrated
<1> QED
    BY <1>1, TypedAlways, StandingAlways, PTL

-----------------------------------------------------------------------------
(* The row and its evidence agree. *)

\* A row that waits or has ended has no run left that would write it.
Fits(t) ==
    /\ status[t] \in {"in_review", "integration_queued"} => pc[t] = "idle"
    /\ status[t] \in {"integration_blocked", "integrated"} => pc[t] \in {"idle", "release"}
    /\ pc[t] = "verify_done" => LandingOf(t) \in Contents(landed[t])
    /\ status[t] = "integration_blocked" => Attempt(t) > 0 /\ Last(t) = OutcomeFor(reason[t])
    /\ status[t] = "integrated" => Last(t) = "integrated" /\ LandingOf(t) \in Contents(landed[t])
Fitting == \A t \in Task : Fits(t)

LEMMA FitsKept ==
    ASSUME NEW t \in Task, Fits(t),
           UNCHANGED <<pc[t], status[t], reason[t], attempts[t], landed[t]>>
    PROVE  Fits(t)'
BY DEF Fits, Attempt, LandingOf, Last, OutcomeFor, Contents

LEMMA FitsByRun ==
    ASSUME TypeOK, Answered, Standing, Fitting, NEW t \in Task,
           Start(t) \/ LaneStep(t) \/ Crash(t) \/ HumanStep(t)
    PROVE  Fits(t)'
<1> USE DEF TypeOK, row, git, run
<1>0. Fits(t)
    BY DEF Fitting
<1>g. ASSUME pc[t] \notin {"idle", "release"}, status'[t] = status[t], pc'[t] # "verify_done"
      PROVE  Fits(t)'
    BY <1>0, <1>g DEF Fits
<1>f. ASSUME NEW o, NEW r, Fail(t, o, r), pc[t] \notin {"idle", "release"}
      PROVE  Fits(t)'
    BY <1>f, <1>g DEF Fail
<1>k. ASSUME status'[t] = status[t], pc'[t] \in {"idle", pc[t]},
             UNCHANGED <<reason[t], attempts[t], landed[t]>>
      PROVE  Fits(t)'
    <2>1. /\ Attempt(t)' = Attempt(t) /\ Last(t)' = Last(t) /\ LandingOf(t)' = LandingOf(t)
          /\ OutcomeFor(reason[t])' = OutcomeFor(reason[t])
          /\ Contents(landed[t])' = Contents(landed[t])
        BY <1>k DEF Attempt, LandingOf, Last, OutcomeFor, Contents
    <2> QED
        BY <1>0, <1>k, <2>1 DEF Fits
<1>1. CASE Start(t)
    BY <1>1 DEF Start, Fits
<1>2. CASE PreflightFails(t) \/ CaptureBase(t) \/ Refresh(t)
    BY <1>2, <1>g DEF PreflightFails, CaptureBase, Refresh
<1>3. CASE CheckStaleBase(t) \/ RefreshFails(t) \/ CheckReviewedHead(t)
    BY <1>3, <1>f, <1>g DEF CheckStaleBase, RefreshFails, CheckReviewedHead
<1>4. CASE MarkRefreshDone(t) \/ MarkTaskReviewDone(t) \/ MarkTestingDone(t)
    BY <1>4, <1>g DEF MarkRefreshDone, MarkTaskReviewDone, MarkTestingDone, FireStep
<1>5. CASE MarkMergeDone(t) \/ MarkDeployDone(t)
    BY <1>5, <1>g DEF MarkMergeDone, MarkDeployDone, FireStep
<1>6. CASE PreLandPasses(t) \/ PreLandFails(t) \/ MergeWaitTimesOut(t)
    BY <1>6, <1>f, <1>g DEF PreLandPasses, PreLandFails, MergeWaitTimesOut
<1>7. CASE AcquireLock(t) \/ LockBusy(t) \/ FreshEnough(t) \/ Stale(t)
    BY <1>7, <1>f, <1>g DEF AcquireLock, LockBusy, FreshEnough, Stale
<1>8. CASE CheckOwnership(t) \/ Merge(t) \/ MergeFails(t)
    BY <1>8, <1>f, <1>g DEF CheckOwnership, Merge, MergeFails
<1>9. CASE Push(t) \/ PushFails(t) \/ ResetMain(t)
    BY <1>9, <1>f, <1>g DEF Push, PushFails, ResetMain
<1>10. CASE RecordLanded(t)
    <2>1. Lands(t) /\ pc[t] = "landed" /\ landed'[t] = main
          /\ pc'[t] = "verify_done" /\ status' = status
        BY <1>10 DEF RecordLanded, Standing, Stands, Merging
    <2>2. LandingOf(t) \in Contents(main)
        BY <2>1 DEF Lands, Contents
    <2>3. LandingOf(t)' = LandingOf(t)
        <3>1. Finished(t, "integrated") /\ Attempt(t) > 0
            BY <1>10, <2>1 DEF RecordLanded, Answered, AnsweredAt
        <3> QED
            BY <3>1, FinishedWrites DEF LandingOf, Attempt, Outcome
    <2>4. Contents(landed[t])' = Contents(main)
        BY <2>1 DEF Contents
    <2> QED
        BY <1>0, <2>1, <2>2, <2>3, <2>4 DEF Fits
<1>11. CASE MarkVerifyDone(t)
    <2>1. /\ pc[t] = "verify_done" /\ pc'[t] = "release"
          /\ UNCHANGED <<reason, attempts, landed>>
          /\ status'[t] \in {status[t], "integrated"}
        BY <1>11 DEF MarkVerifyDone
    <2>2. Last(t) = "integrated" /\ LandingOf(t) \in Contents(landed[t])
        BY <1>0, <2>1 DEF Answered, AnsweredAt, Fits
    <2>3. Last(t)' = Last(t) /\ LandingOf(t)' = LandingOf(t)
          /\ Contents(landed[t])' = Contents(landed[t])
        BY <2>1 DEF Last, LandingOf, Attempt, Contents
    <2> QED
        BY <1>0, <2>1, <2>2, <2>3 DEF Fits
<1>12. CASE FireBlocked(t)
    <2>1. /\ pc[t] = "block" /\ pc'[t] = "release"
          /\ UNCHANGED <<attempts, landed>>
          /\ \/ status'[t] = status[t]
             \/ status'[t] = "integration_blocked" /\ reason'[t] = why[t]
        BY <1>12 DEF FireBlocked
    <2>2. Attempt(t) > 0 /\ Last(t) = OutcomeFor(why[t])
        BY <2>1 DEF Answered, AnsweredAt
    <2>3. Last(t)' = Last(t) /\ Attempt(t)' = Attempt(t)
        BY <2>1 DEF Last, Attempt
    <2>4. OutcomeFor(reason[t])' = OutcomeFor(reason'[t])
        BY DEF OutcomeFor
    <2> QED
        BY <1>0, <2>1, <2>2, <2>3, <2>4 DEF Fits
<1>13. CASE Return(t) \/ Crash(t)
    BY <1>13, <1>k DEF Return, Crash
<1>14. CASE HumanStep(t)
    <2>1. CASE ImportPass(t) \/ EditBranch(t)
        BY <1>k, <2>1 DEF ImportPass, EditBranch
    <2>2. CASE Accept(t) \/ Abandon(t) \/ CloseOutOfBand(t) \/ RetryIntegration(t)
        <3>1. /\ status'[t] \in {"abandoned", "closed_out_of_band", "integration_queued"}
              /\ status'[t] = "integration_queued" => pc[t] = "idle"
              /\ UNCHANGED <<pc, attempts, landed>>
            BY <1>0, <2>2 DEF Accept, Abandon, CloseOutOfBand, RetryIntegration, Fits
        <3>2. LandingOf(t)' = LandingOf(t) /\ Contents(landed[t])' = Contents(landed[t])
            BY <3>1 DEF LandingOf, Attempt, Contents
        <3> QED
            BY <1>0, <3>1, <3>2 DEF Fits
    <2> QED
        BY <1>14, <2>1, <2>2 DEF HumanStep
<1> QED
    BY <1>1, <1>2, <1>3, <1>4, <1>5, <1>6, <1>7, <1>8, <1>9, <1>10, <1>11, <1>12, <1>13, <1>14
       DEF LaneStep

LEMMA FittingStep ==
    ASSUME TypeOK, Answered, Standing, Fitting, [Next]_vars
    PROVE  Fitting'
<1>1. ASSUME NEW t \in Task, Start(t) \/ LaneStep(t) \/ Crash(t) \/ HumanStep(t)
      PROVE  Fitting'
    <2>1. ASSUME NEW u \in Task, u # t
          PROVE  Fits(u)'
        BY <1>1, <2>1, OthersAreLeftAlone, FitsKept DEF Private, Fitting
    <2> QED
        BY <1>1, <2>1, FitsByRun DEF Fitting
<1>2. ASSUME UNCHANGED <<pc, status, reason, attempts, landed>>
      PROVE  Fitting'
    BY <1>2, FitsKept DEF Fitting
<1>3. Environment \/ UNCHANGED vars => UNCHANGED <<pc, status, reason, attempts, landed>>
    BY DEF Environment, CommitOnMain, OperatorAcquires, OperatorReleases,
           OperatorRecovers, TtlRunsOut, vars, row, run
<1> QED
    BY <1>1, <1>2, <1>3 DEF Next

\* A row tells the truth about its last run: as long as no lock lapses, for
\* any tasks, attempts, crashes and interventions, a blocked row names the
\* failure its last attempt completed with, and an integrated row a main
\* that holds its landing.
THEOREM RowsMatchEvidence ==
    ASSUME MaxLapses = 0
    PROVE  Spec => []RowMatchesEvidence
<1>1. Init => Fitting
    BY DEF Init, Fitting, Fits
<1>2. Typed /\ Answered /\ Standing /\ Fitting /\ [Next]_vars => Fitting'
    BY FittingStep DEF Typed
<1>3. Fitting => RowMatchesEvidence
    BY DEF Fitting, Fits, RowMatchesEvidence, Last
<1> QED
    BY <1>1, <1>2, <1>3, TypedAlways, AnsweredAlways, StandingAlways, PTL DEF Spec

-----------------------------------------------------------------------------
(* Work that is on main is not landed again. *)

HasNothingOn(t, m) == \A n \in 1..Attempt(t) : <<t, n>> \notin Contents(m)

\* Between the refresh and the freshness check a row with a scope has work
\* its base lacks, and is tested on that base; then main lacks the work.
BringsNew(t) ==
    /\ pc[t] \in HasNamed /\ evidence[t].scope => HasNothingOn(t, base[t])
    /\ pc[t] \in {"testing_done", "acquire", "freshness"} => evidence[t].test_base = base[t]
    /\ pc[t] \in {"ownership", "merge"} => HasNothingOn(t, main)
AllBringNew == \A t \in Task : BringsNew(t)

LEMMA BringsNewKept ==
    ASSUME NEW t \in Task, BringsNew(t),
           UNCHANGED <<pc[t], base[t], evidence[t], attempts[t]>>,
           pc[t] \in {"ownership", "merge"} => \A n : <<t, n>> \in Contents(main') => <<t, n>> \in Contents(main)
    PROVE  BringsNew(t)'
<1>1. /\ Attempt(t)' = Attempt(t) /\ Contents(base[t])' = Contents(base[t])
      /\ Contents(main)' = Contents(main')
    BY DEF Attempt, Contents
<1> QED
    BY <1>1 DEF BringsNew, HasNothingOn

\* The run's own step, one case per part of the run.
LEMMA BringsNewByRun ==
    ASSUME TypeOK, AllBringNew, NEW t \in Task, Start(t) \/ LaneStep(t)
    PROVE  BringsNew(t)'
<1> USE DEF TypeOK, row, git, run, HasNamed, HasHead
<1>0. BringsNew(t) /\ evidence[t] \in Evidence /\ evidence \in [Task -> Evidence]
    BY DEF AllBringNew
<1>s. ASSUME pc'[t] \notin HasNamed \cup {"ownership", "merge"}
      PROVE  BringsNew(t)'
    BY <1>s DEF BringsNew
<1>k. ASSUME UNCHANGED <<base[t], attempts[t], main>>, evidence'[t].scope = evidence[t].scope,
             pc[t] \in HasNamed, pc'[t] \in HasNamed,
             pc'[t] \in {"testing_done", "acquire", "freshness"} => evidence'[t].test_base = base[t]
      PROVE  BringsNew(t)'
    <2>1. Attempt(t)' = Attempt(t) /\ Contents(base[t])' = Contents(base[t])
        BY <1>k DEF Attempt, Contents
    <2> QED
        BY <1>0, <1>k, <2>1 DEF BringsNew, HasNothingOn
<1>1. CASE Start(t) \/ PreflightFails(t) \/ CaptureBase(t) \/ Refresh(t)
    BY <1>1, <1>s DEF Start, PreflightFails, CaptureBase, Refresh
<1>2. CASE CheckStaleBase(t) \/ RefreshFails(t) \/ CheckReviewedHead(t)
    BY <1>2, <1>s DEF CheckStaleBase, RefreshFails, CheckReviewedHead, Fail
<1>3. CASE MarkRefreshDone(t)
    <2> DEFINE sc == HasNothingOn(t, base[t])
    <2>1. /\ UNCHANGED <<base, attempts>> /\ pc'[t] \in {"review_done", "release"}
          /\ evidence' = [evidence EXCEPT ![t].branch_head = head[t], ![t].scope = sc]
        BY <1>3 DEF MarkRefreshDone, FireStep, HasNothingOn
    <2> HIDE DEF sc
    <2>2. evidence'[t].scope = sc
        BY <1>0, <2>1 DEF Evidence
    <2>3. HasNothingOn(t, base[t])' = sc
        BY <2>1 DEF sc, HasNothingOn, Attempt, Contents
    <2> QED
        BY <2>1, <2>2, <2>3 DEF BringsNew
<1>4. CASE MarkTaskReviewDone(t)
    <2>1. evidence'[t].scope = evidence[t].scope
        BY <1>0, <1>4 DEF MarkTaskReviewDone, Evidence
    <2> QED
        BY <1>4, <1>s, <1>k, <2>1 DEF MarkTaskReviewDone, FireStep
<1>5. CASE PreLandPasses(t)
    <2>1. evidence'[t].scope = evidence[t].scope /\ evidence'[t].test_base = base[t]
        BY <1>0, <1>5 DEF PreLandPasses, Evidence
    <2> QED
        BY <1>5, <1>k, <2>1 DEF PreLandPasses
<1>6. CASE MarkTestingDone(t) \/ AcquireLock(t)
    BY <1>0, <1>6, <1>s, <1>k DEF MarkTestingDone, AcquireLock, FireStep, BringsNew
<1>7. CASE PreLandFails(t) \/ MergeWaitTimesOut(t) \/ LockBusy(t) \/ Stale(t)
    BY <1>7, <1>s DEF PreLandFails, MergeWaitTimesOut, LockBusy, Stale, Fail
<1>8. CASE FreshEnough(t)
    <2>1. /\ pc[t] = "freshness" /\ pc'[t] = "ownership" /\ UNCHANGED <<attempts, main>>
          /\ evidence[t].scope /\ evidence[t].test_base = main
        BY <1>8 DEF FreshEnough, Freshness
    <2>2. HasNothingOn(t, main)
        BY <1>0, <2>1 DEF BringsNew
    <2>3. HasNothingOn(t, main)'
        BY <2>1, <2>2 DEF HasNothingOn, Attempt, Contents
    <2> QED
        BY <2>1, <2>3 DEF BringsNew
<1>9. CASE CheckOwnership(t)
    <2>1. CASE Fail(t, "merge_failure", "merge_failure")
        BY <1>s, <2>1 DEF Fail
    <2>2. CASE Goto(t, "merge") /\ UNCHANGED row
        <3>1. pc[t] = "ownership" /\ pc'[t] = "merge" /\ UNCHANGED <<attempts, main>>
            BY <1>9, <2>2 DEF CheckOwnership
        <3>2. HasNothingOn(t, main)'
            BY <1>0, <3>1 DEF BringsNew, HasNothingOn, Attempt, Contents
        <3> QED
            BY <3>1, <3>2 DEF BringsNew
    <2> QED
        BY <1>9, <2>1, <2>2 DEF CheckOwnership
<1>10. CASE Merge(t) \/ MergeFails(t) \/ MarkMergeDone(t) \/ MarkDeployDone(t)
    BY <1>10, <1>s DEF Merge, MergeFails, MarkMergeDone, MarkDeployDone, FireStep, Fail
<1>11. CASE Push(t) \/ PushFails(t) \/ ResetMain(t)
    BY <1>11, <1>s DEF Push, PushFails, ResetMain, Fail
<1>12. CASE RecordLanded(t) \/ MarkVerifyDone(t) \/ FireBlocked(t) \/ Return(t)
    BY <1>12, <1>s DEF RecordLanded, MarkVerifyDone, FireBlocked, Return
<1> QED
    BY <1>1, <1>2, <1>3, <1>4, <1>5, <1>6, <1>7, <1>8, <1>9, <1>10, <1>11, <1>12 DEF LaneStep

LEMMA AllBringNewStep ==
    ASSUME LaneAssumption, Serial, AllBringNew, [Next]_vars
    PROVE  AllBringNew'
<1> SUFFICES ASSUME NEW t \in Task
             PROVE  BringsNew(t)'
    BY DEF AllBringNew
<1> USE DEF Serial, Typed
<1>0. BringsNew(t)
    BY DEF AllBringNew
<1>1. CASE Start(t) \/ LaneStep(t)
    BY <1>1, BringsNewByRun
<1>2. CASE Crash(t)
    BY <1>2 DEF Crash, BringsNew, TypeOK, HasNamed, HasHead
<1>3. CASE HumanStep(t)
    <2>1. UNCHANGED <<pc, base, evidence, attempts, main>>
        BY <1>3 DEF HumanStep, ImportPass, Accept, Abandon, CloseOutOfBand, RetryIntegration,
                    EditBranch, row, git, run
    <2> QED
        BY <1>0, <2>1, BringsNewKept
<1>4. ASSUME NEW u \in Task, u # t, Start(u) \/ LaneStep(u) \/ Crash(u) \/ HumanStep(u)
      PROVE  BringsNew(t)'
    <2>1. UNCHANGED <<pc[t], base[t], evidence[t], attempts[t]>>
        BY <1>4, OthersAreLeftAlone DEF Private
    <2>2. pc[t] \in {"ownership", "merge"} => main' = main
        BY <1>4, RunMoves, GuardIsExclusive DEF GuardPc
    <2> QED
        BY <1>0, <2>1, <2>2, BringsNewKept
<1>5. CASE CommitOnMain
    <2> DEFINE id == <<Operator, used.outside>>
    <2>1. main \in Sha /\ [by |-> id, brings |-> {id}] \in Commit
        BY DEF TypeOK, Landing, Who, Commit
    <2>2. Contents(main') = Contents(main) \cup {id}
        BY <1>5, <2>1, ContentsOfAppend DEF CommitOnMain
    <2>3. \A n : <<t, n>> # id
        BY DEF LaneAssumption
    <2>4. UNCHANGED <<pc, base, evidence, attempts>>
        BY <1>5 DEF CommitOnMain, row, run
    <2> HIDE DEF id
    <2> QED
        BY <1>0, <2>2, <2>3, <2>4, BringsNewKept
<1>6. CASE (Environment /\ ~CommitOnMain) \/ UNCHANGED vars
    <2>1. UNCHANGED <<pc, base, evidence, attempts, main>>
        BY <1>6 DEF Environment, OperatorAcquires, OperatorReleases, OperatorRecovers,
                    TtlRunsOut, vars, row, run, git
    <2> QED
        BY <1>0, <2>1, BringsNewKept
<1> QED
    BY <1>1, <1>2, <1>3, <1>4, <1>5, <1>6 DEF Next

\* Nothing lands twice: as long as no lock lapses under its run, for any
\* tasks, attempts and crashes, pushes that fail, resets that fail and
\* whatever people do to rows, branches and main, a run never merges a task
\* whose work an earlier attempt, or a neighbour, has left on main.
THEOREM LandsOnce ==
    ASSUME MaxLapses = 0
    PROVE  Spec => NeverLandsTwice
<1>1. Init => AllBringNew
    BY DEF Init, AllBringNew, BringsNew, HasNamed, HasHead
<1>2. Serial /\ AllBringNew /\ [Next]_vars => AllBringNew'
    BY LaneAssumption, AllBringNewStep
<1>3. AllBringNew /\ [Next]_vars =>
        [\A t \in Task : pc[t] = "merge" /\ pc'[t] = "merge_done" =>
            \A n \in 1..Attempt(t) : <<t, n>> \notin Contents(main)]_vars
    BY DEF AllBringNew, BringsNew, HasNothingOn
<1> QED
    BY <1>1, <1>2, <1>3, SerialAlways, PTL DEF Spec, NeverLandsTwice

-----------------------------------------------------------------------------
(* The refinement of SerialLanding, for every set of tasks and every bound *)

\* The bound on attempts is kept by the start of a run.
Bounded(t) ==
    /\ Attempt(t) <= MaxAttempts
    /\ pc[t] = "capture" => Attempt(t) < MaxAttempts
AllBounded == \A t \in Task : Bounded(t)

LEMMA BoundedStep ==
    ASSUME TypeOK, Answered, AllBounded, [Next]_vars
    PROVE  AllBounded'
<1>1. ASSUME NEW t \in Task, Start(t) \/ LaneStep(t) \/ Crash(t) \/ HumanStep(t)
      PROVE  AllBounded'
    <2>1. ASSUME NEW u \in Task, u # t
          PROVE  Bounded(u)'
        BY <1>1, <2>1, OthersAreLeftAlone DEF Private, AllBounded, Bounded, Attempt
    <2>2. /\ Bounded(t) /\ AnsweredAt(t) /\ Attempt(t) \in Nat
          /\ Attempt(t)' = Len(attempts'[t]) /\ MaxAttempts \in Nat
        BY LaneAssumption DEF AllBounded, Answered, Attempt, TypeOK, LaneAssumption
    <2>3. ASSUME Quiet(t)
          PROVE  Bounded(t)'
        BY <2>2, <2>3 DEF Quiet, Bounded, Attempt, Start, InRun
    <2>4. ASSUME Enters(t)
          PROVE  Bounded(t)'
        <3>1. pc[t] = "capture" /\ pc'[t] # "capture"
            BY <2>4 DEF Enters, PreflightFails, CaptureBase, TypeOK
        <3> QED
            BY <1>1, <2>2, <2>4, <3>1, EntersWrites DEF Bounded
    <2>5. ASSUME Fails(t) \/ RecordLanded(t)
          PROVE  Bounded(t)'
        <3>1. pc[t] \in InRun \ {"capture"} /\ pc'[t] # "capture"
            BY <2>5 DEF Fails, Fail, RecordLanded, TypeOK, InRun, Label, GuardPc
        <3>2. Len(attempts'[t]) = Attempt(t)
            <4>1. Attempt(t) > 0
                BY <2>2, <3>1 DEF AnsweredAt, InRun
            <4> QED
                BY <2>5, <4>1, FailsWrites, FinishedWrites DEF RecordLanded, Outcome
        <3> QED
            BY <2>2, <3>1, <3>2 DEF Bounded
    <2> QED
        BY <1>1, <2>1, <2>3, <2>4, <2>5, KindsOfStep DEF AllBounded
<1>2. ASSUME UNCHANGED <<pc, attempts>>
      PROVE  AllBounded'
    BY <1>2 DEF AllBounded, Bounded, Attempt
<1>3. Environment \/ UNCHANGED vars => UNCHANGED <<pc, attempts>>
    BY DEF Environment, CommitOnMain, OperatorAcquires, OperatorReleases,
           OperatorRecovers, TtlRunsOut, vars, row, run
<1> QED
    BY <1>1, <1>2, <1>3 DEF Next

\* What is reported is what the rows call integrated, before and after a step.
LEMMA ReportedIsIntegrated ==
    ASSUME TypeOK, AllBounded, TypeOK', AllBounded'
    PROVE  Reported = Integrated /\ Reported' = Integrated'
<1>1. ASSUME NEW t \in Task
      PROVE  /\ Len(attempts[t]) \in Nat /\ Len(attempts[t]) <= MaxAttempts
             /\ Len(attempts'[t]) \in Nat /\ Len(attempts'[t]) <= MaxAttempts
    BY DEF TypeOK, Attempt, AllBounded, Bounded
<1>2. MaxAttempts \in Nat
    BY LaneAssumption DEF LaneAssumption
<1>3. Reported = Integrated
    BY <1>1, <1>2 DEF Reported, Integrated, Attempt
<1>4. Reported' = Integrated'
    BY <1>1, <1>2 DEF Reported, Integrated, Attempt
<1> QED
    BY <1>3, <1>4

\* A run that has merged holds the tip of main, and rolls back to just below.
TipAt(t) ==
    /\ pc[t] \in Merging => main # <<>> /\ main[Len(main)].by = LandingOf(t)
    /\ pc[t] = "reset" => base[t] = SubSeq(main, 1, Len(main) - 1)
Tips == \A t \in Task : TipAt(t)

LEMMA TipKept ==
    ASSUME NEW t \in Task, TipAt(t), UNCHANGED <<pc[t], base[t], attempts[t]>>,
           pc[t] \in Merging => main' = main
    PROVE  TipAt(t)'
BY DEF TipAt, LandingOf, Attempt, Merging

LEMMA TipByRun ==
    ASSUME TypeOK, Tips, NEW t \in Task, Start(t) \/ LaneStep(t) \/ Crash(t) \/ HumanStep(t)
    PROVE  TipAt(t)'
<1> SUFFICES ASSUME pc'[t] \in Merging
             PROVE  TipAt(t)'
    BY DEF TipAt, Merging
<1>1. /\ attempts' = attempts /\ LandingOf(t)' = LandingOf(t) /\ TipAt(t)
      /\ main \in Seq(Commit)
    BY MergingByRun DEF LandingOf, Attempt, Tips, TypeOK, Sha
<1>2. CASE Merge(t)
    <2>1. /\ main' = Merged(LandingOf(t), branch[t]) /\ pc'[t] = "merge_done"
          /\ main' \in Seq(Commit)
        BY <1>2, TokenType, MergedType DEF Merge, TypeOK, Sha
    <2>2. main' # <<>> /\ main'[Len(main')].by = LandingOf(t)
        BY <1>1, <2>1 DEF Merged
    <2> QED
        BY <1>1, <2>1, <2>2 DEF TipAt
<1>3. CASE pc[t] \in Merging /\ main' = main
    <2>1. pc'[t] = "reset" => base'[t] = SubSeq(main, 1, Len(main) - 1)
        BY <1>1, MergingByRun DEF OnlyOwnMerge, PushFails, TipAt
    <2> QED
        BY <1>1, <1>3, <2>1 DEF TipAt
<1> QED
    BY <1>2, <1>3, MergingByRun

LEMMA TipsStep ==
    ASSUME MaxOutside = 0, Serial, Tips, [Next]_vars
    PROVE  Tips'
<1> USE DEF Serial, Typed
<1>0. ~CommitOnMain
    BY DEF CommitOnMain, Spend, TypeOK
<1>1. ASSUME NEW t \in Task, Start(t) \/ LaneStep(t) \/ Crash(t) \/ HumanStep(t)
      PROVE  Tips'
    <2>1. ASSUME NEW u \in Task, u # t
          PROVE  TipAt(u)'
        <3>1. UNCHANGED <<pc[u], base[u], attempts[u]>>
            BY <1>1, <2>1, OthersAreLeftAlone DEF Private
        <3>2. pc[u] \in Merging => main' = main
            BY <1>1, <2>1, RunMoves, GuardIsExclusive DEF Merging, GuardPc
        <3> QED
            BY <3>1, <3>2, TipKept DEF Tips
    <2> QED
        BY <1>1, <2>1, TipByRun DEF Tips
<1>2. CASE Environment \/ UNCHANGED vars
    <2>1. UNCHANGED <<pc, base, attempts, main>>
        BY <1>0, <1>2 DEF Environment, OperatorAcquires, OperatorReleases,
                          OperatorRecovers, TtlRunsOut, vars, row, run, git
    <2> QED
        BY <2>1, TipKept DEF Tips
<1> QED
    BY <1>1, <1>2 DEF Next

-----------------------------------------------------------------------------
(* The steps of the lane, seen through the refinement mapping. *)

LEMMA MapsInit == Init => Promise!Init
<1> SUFFICES ASSUME Init
             PROVE  Promise!Init
    OBVIOUS
<1>1. ASSUME NEW t \in Task
      PROVE  TestedOn[t] # main
    BY LaneAssumption DEF Init, TestedOn, LaneAssumption
<1>2. Reported = {}
    BY DEF Init, Reported, Attempt
<1> QED
    BY <1>1, <1>2 DEF Init, Promise!Init

LEMMA MapsStutter ==
    ASSUME UNCHANGED <<main, evidence, branch, attempts>>
    PROVE  UNCHANGED Promise!vars
<1>1. TestedOn' = TestedOn
    BY DEF TestedOn
<1>2. Reported' = Reported
    BY DEF Reported, Attempt
<1> QED
    BY <1>1, <1>2 DEF Promise!vars

LEMMA MapsMerge ==
    ASSUME Typed, AllChecked, NEW t \in Task, Merge(t)
    PROVE  Promise!Land(t)
<1>1. Checked(t) /\ UNCHANGED <<evidence, branch, attempts>>
    BY DEF Merge, AllChecked, row
<1>2. TestedOn[t] = main
    BY <1>1 DEF Checked, TestedOn
<1>3. TestedOn' = TestedOn /\ Reported' = Reported
    BY <1>1 DEF TestedOn, Reported, Attempt
<1> DEFINE c == [by |-> LandingOf(t),
                 brings |-> {LandingOf(t)} \cup (Carried(branch[t]) \ Contents(main))]
<1>4. main' = Append(main, c) /\ c.by = <<t, Attempt(t)>>
    BY DEF Merge, Merged, LandingOf
<1> HIDE DEF c
<1>5. Len(main') = Len(main) + 1 /\ main'[Len(main')] = c
    BY <1>4 DEF Typed, TypeOK, Sha
<1>6. main' = Append(main, main'[Len(main')]) /\ main'[Len(main')].by[1] = t
    BY <1>4, <1>5
<1> QED
    BY <1>2, <1>3, <1>5, <1>6 DEF Promise!Land

LEMMA MapsReset ==
    ASSUME Typed, Answered, AllBounded, Typed', AllBounded', Tips, NEW t \in Task,
           ResetMain(t), main' # main
    PROVE  Promise!TakeBack(t)
<1> USE DEF Typed
<1>1. /\ pc[t] = "reset" /\ main' = base[t] /\ ~RecordLanded(t)
      /\ UNCHANGED <<evidence, branch>> /\ LaneStep(t)
    BY DEF ResetMain, Fail, RecordLanded, LaneStep
<1>2. /\ main # <<>> /\ main[Len(main)].by = LandingOf(t)
      /\ main' = SubSeq(main, 1, Len(main) - 1)
    BY <1>1 DEF Tips, TipAt, Merging
<1>3. Reported' = Reported
    BY <1>1, IntegratedGrows, IntegratedIsKept, ReportedIsIntegrated
<1>4. LandingOf(t) \notin Reported
    <2>1. attempts[t][Attempt(t)] = "in_progress"
        BY <1>1 DEF Answered, AnsweredAt, InRun, Label, GuardPc, Last
    <2> QED
        BY <2>1 DEF Reported, LandingOf
<1>5. TestedOn' = TestedOn
    BY <1>1 DEF TestedOn
<1> QED
    BY <1>2, <1>3, <1>4, <1>5 DEF Promise!TakeBack, LandingOf

LEMMA MapsReport ==
    ASSUME Typed, Answered, AllBounded, Typed', AllBounded', Tips, NEW t \in Task, RecordLanded(t)
    PROVE  Promise!Report(t)
<1> USE DEF Typed
<1>1. /\ pc[t] = "landed" /\ main' = main /\ UNCHANGED <<evidence, branch>>
      /\ Finished(t, "integrated") /\ LaneStep(t)
    BY DEF RecordLanded, git, LaneStep
<1>2. main # <<>> /\ main[Len(main)].by = LandingOf(t) /\ Len(main) \in 1..Len(main)
    BY <1>1 DEF Tips, TipAt, Merging, TypeOK, Sha
<1>3. LandingOf(t) \in Integrated'
    <2>1. Attempt(t) > 0 /\ Attempt(t) \in Nat
        <3>1. Attempt(t) > 0
            BY <1>1 DEF Answered, AnsweredAt
        <3> QED
            BY <3>1, TokenType
    <2>2. Len(attempts'[t]) = Attempt(t) /\ attempts'[t][Attempt(t)] = "integrated"
        BY <1>1, <2>1, FinishedWrites DEF Outcome
    <2>3. LandingOf(t) = <<t, Attempt(t)>> /\ Attempt(t)' = Len(attempts'[t])
        BY DEF LandingOf, Attempt
    <2> HIDE DEF Attempt
    <2> QED
        BY <2>1, <2>2, <2>3 DEF Integrated
<1>4. Reported' = Reported \cup {LandingOf(t)}
    BY <1>1, <1>3, IntegratedGrows, IntegratedIsKept, ReportedIsIntegrated
<1>5. TestedOn' = TestedOn
    BY <1>1 DEF TestedOn
<1>6. main[Len(main)].by[1] = t /\ Reported' = Reported \cup {main[Len(main)].by}
    BY <1>2, <1>4 DEF LandingOf
<1> QED
    BY <1>1, <1>2, <1>5, <1>6 DEF Promise!Report

\* Every other step of a run touches its own candidate at most.
LEMMA MapsTest ==
    ASSUME Typed, Answered, AllBounded, Typed', AllBounded', NEW t \in Task,
           Start(t) \/ LaneStep(t) \/ Crash(t) \/ HumanStep(t),
           main' = main, ~RecordLanded(t)
    PROVE  Promise!Test(t)
<1> USE DEF Typed
<1>1. main' = main
    OBVIOUS
<1>2. Reported' = Reported
    BY IntegratedGrows, IntegratedIsKept, ReportedIsIntegrated
<1>3. TestedOn' = [TestedOn EXCEPT ![t] = TestedOn'[t]]
    <2>1. ASSUME NEW u \in Task, u # t
          PROVE  TestedOn'[u] = TestedOn[u]
        BY <2>1, OthersAreLeftAlone DEF Private, TestedOn
    <2> QED
        BY <2>1 DEF TestedOn
<1> QED
    BY <1>1, <1>2, <1>3 DEF Promise!Test

\* The invariant the refinement rests on.
Mapping == Serial /\ Answered /\ AllChecked /\ AllBounded /\ Tips

LEMMA MapsStep ==
    ASSUME MaxOutside = 0, Mapping, Mapping', [Next]_vars
    PROVE  [Promise!Next]_(Promise!vars)
<1> USE DEF Mapping, Serial
<1>1. ASSUME NEW t \in Task, Start(t) \/ LaneStep(t) \/ Crash(t) \/ HumanStep(t)
      PROVE  Promise!Next
    BY <1>1, RunMoves, MapsMerge, MapsReset, MapsReport, MapsTest DEF Promise!Next
<1>2. CASE Environment \/ UNCHANGED vars
    <2>1. ~CommitOnMain
        BY DEF CommitOnMain, Spend, Typed, TypeOK
    <2>2. UNCHANGED <<main, evidence, branch, attempts>>
        BY <1>2, <2>1 DEF Environment, OperatorAcquires, OperatorReleases,
                          OperatorRecovers, TtlRunsOut, vars, row, run, git
    <2> QED
        BY <2>2, MapsStutter
<1> QED
    BY <1>1, <1>2 DEF Next

\* The lane keeps its promise: as long as no lock lapses under its run and
\* nobody writes to main or a branch by hand, for any tasks, attempts and
\* crashes, every step of the runs is a step of SerialLanding or invisible
\* to it.
THEOREM LandsSerially ==
    ASSUME MaxLapses = 0, MaxOutside = 0
    PROVE  Spec => ImplementsSerialLanding
<1>1. Init => HeadNamed /\ AllChecked /\ AllBounded /\ Tips
    <2>1. MaxAttempts \in Nat
        BY LaneAssumption DEF LaneAssumption
    <2> QED
        BY <2>1 DEF Init, HeadNamed, AllChecked, HasHead, HasNamed, AllBounded, Bounded,
                    Attempt, Tips, TipAt, Merging
<1>2. Serial /\ HeadNamed /\ [Next]_vars => HeadNamed'
    BY HeadNamedStep DEF Serial, Typed
<1>3. Serial /\ HeadNamed /\ AllChecked /\ [Next]_vars => AllChecked'
    BY AllCheckedStep
<1>4. Serial /\ Answered /\ AllBounded /\ [Next]_vars => AllBounded'
    BY BoundedStep DEF Serial, Typed
<1>5. Serial /\ Tips /\ [Next]_vars => Tips'
    BY TipsStep
<1>6. Mapping /\ Mapping' /\ [Next]_vars => [Promise!Next]_(Promise!vars)
    BY MapsStep
<1>7. Serial /\ Answered /\ AllChecked /\ AllBounded /\ Tips <=> Mapping
    BY DEF Mapping
<1> QED
    BY <1>1, <1>2, <1>3, <1>4, <1>5, <1>6, <1>7, SerialAlways, AnsweredAlways, MapsInit, PTL
       DEF Spec, ImplementsSerialLanding, Promise!Spec
=============================================================================
