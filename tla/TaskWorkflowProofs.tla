------------------------- MODULE TaskWorkflowProofs -------------------------
(***************************************************************************)
(* Theorems about TaskWorkflow for every set of drives, every tier, every  *)
(* limit and every bound.                                                  *)
(***************************************************************************)
EXTENDS TaskWorkflow, FiniteSetTheorems, SequenceTheorems, TLAPS

-----------------------------------------------------------------------------
(* Lemmas about the operators the actions are built from. *)

\* A nonempty set of positions in a sequence has a last one: of the sets of
\* positions from some position on, take the smallest.
LEMMA LatestExists ==
    ASSUME NEW n \in Nat, NEW S \in SUBSET (1..n), S # {}
    PROVE  Latest(S) \in S /\ \A j \in S : j <= Latest(S)
<1> DEFINE From(i) == {j \in S : i <= j}
           Tails   == {From(i) : i \in S}
<1>1. IsFiniteSet(S)
    <2>1. IsFiniteSet(1..n)
        BY FS_Interval
    <2> QED
        BY <2>1, FS_Subset
<1>2. Tails \subseteq FiniteSubsetsOf(S) /\ Tails # {}
    <2>1. ASSUME NEW i \in S PROVE From(i) \in FiniteSubsetsOf(S)
        <3>1. From(i) \in SUBSET S
            OBVIOUS
        <3> HIDE DEF From
        <3>2. IsFiniteSet(From(i))
            BY <1>1, <3>1, FS_Subset
        <3> QED
            BY <3>1, <3>2 DEF FiniteSubsetsOf
    <2> QED
        BY <2>1
<1>3. PICK T \in Tails : \A U \in Tails : <<U, T>> \notin StrictSubsetOrdering(S)
    <2> HIDE DEF Tails
    <2>1. IsWellFoundedOn(StrictSubsetOrdering(S), FiniteSubsetsOf(S))
        BY FS_StrictSubsetOrderingWellFounded
    <2> QED
        BY <1>2, <2>1, WFMin
<1>4. PICK i \in S : T = From(i)
    BY <1>3
<1>5. \A j \in S : j <= i
    <2> SUFFICES ASSUME NEW j \in S, ~ (j <= i) PROVE FALSE
        OBVIOUS
    <2>1. i \in Int /\ j \in Int /\ \A k \in S : k \in Int
        OBVIOUS
    <2>2. ASSUME NEW k \in S, j <= k PROVE i <= k
        BY <2>1, <2>2
    <2>3. i \in From(i) /\ i \notin From(j)
        BY <2>1 DEF From
    <2>4. From(j) \in SUBSET S /\ From(i) \in SUBSET S /\ From(j) \in Tails
        OBVIOUS
    <2>5. From(j) \subseteq From(i)
        BY <2>2
    <2> HIDE DEF From, Tails
    <2>6. <<From(j), From(i)>> \in StrictSubsetOrdering(S)
        BY <2>3, <2>4, <2>5 DEF StrictSubsetOrdering
    <2> QED
        BY <2>4, <2>6, <1>3, <1>4
<1> QED
    BY <1>5 DEF Latest

LEMMA EarliestExists ==
    ASSUME NEW n \in Nat, NEW S \in SUBSET (1..n), S # {}
    PROVE  Earliest(S) \in S
<1> DEFINE Mirror == {n + 1 - i : i \in S}
<1>1. \A i \in S : i \in 1..n
    OBVIOUS
<1>2. Mirror \in SUBSET (1..n) /\ Mirror # {}
    <2>1. ASSUME NEW i \in S PROVE n + 1 - i \in 1..n
        BY <1>1
    <2> QED
        BY <2>1
<1> HIDE DEF Mirror
<1>3. Latest(Mirror) \in Mirror /\ \A j \in Mirror : j <= Latest(Mirror)
    BY <1>2, LatestExists
<1>4. PICK i \in S : Latest(Mirror) = n + 1 - i
    BY <1>3 DEF Mirror
<1>5. ASSUME NEW j \in S PROVE i <= j
    <2>1. n + 1 - j <= n + 1 - i
        BY <1>3, <1>4 DEF Mirror
    <2> QED
        BY <1>1, <2>1
<1> QED
    BY <1>5 DEF Earliest

LEMMA DeriveType ==
    ASSUME NEW verb, NEW to
    PROVE  Derive(verb, to) \in Overlay
BY DEF Derive, Overlay, Closed

LEMMA RecordedType ==
    ASSUME history \in History, NEW verb, NEW from, NEW to,
           verb = "mark_drive_failed" => from \in InWork
    PROVE  Recorded(verb, from, to) \in History
BY DEF Recorded, History, InWork

\* A step that writes status, overlay columns and history row.
LEMMA MoveType ==
    ASSUME TypeOK, NEW verb, NEW to \in Status,
           verb = "mark_drive_failed" => status \in InWork,
           Move(verb, to) \/ MoveBare(verb, to)
    PROVE  status' \in Status /\ overlay' \in Overlay /\ history' \in History
<1>1. Derive(verb, to) \in Overlay
    BY DeriveType
<1>2. Recorded(verb, status, to) \in History
    BY RecordedType DEF TypeOK
<1> QED
    BY <1>1, <1>2 DEF Move, MoveBare, TypeOK

\* What a drive does with its own state.
LEMMA DriveType ==
    ASSUME drive \in [Drive -> DriveLocal], NEW d \in Drive
    PROVE  /\ Exits(d) => drive' \in [Drive -> DriveLocal]
           /\ ReadsOn(d) => drive' \in [Drive -> DriveLocal]
<1>1. Idle \in DriveLocal
    BY DEF Idle, DriveLocal
<1>2. [drive[d] EXCEPT !.pc = "next", !.saw = "none", !.shown = 0] \in DriveLocal
    BY DEF DriveLocal
<1>3. ReadsOn(d) => drive' = [drive EXCEPT ![d] = [drive[d] EXCEPT !.pc = "next", !.saw = "none", !.shown = 0]]
    BY DEF ReadsOn
<1> QED
    BY <1>1, <1>2, <1>3 DEF Exits

\* What a code review writes into its cycles entry.
LEMMA EntryType ==
    ASSUME NEW e \in Entry, NEW g \in {"PASS", "REVISE", "FAIL"}, NEW n \in Nat
    PROVE  [e EXCEPT !.review = g, !.shown = n] \in Entry
BY DEF Entry

\* Where it writes: an entry of this phase and cycle, and no other.
LEMMA ReviewWrites ==
    ASSUME cycles \in Seq(Entry), EntriesNow # {},
           NEW g \in {"PASS", "REVISE", "FAIL"}, NEW n \in Nat,
           cycles' = [cycles EXCEPT ![Target].review = g, ![Target].shown = n]
    PROVE  /\ Target \in EntriesNow
           /\ cycles' \in Seq(Entry)
           /\ Len(cycles') = Len(cycles)
           /\ \A i \in 1..Len(cycles) \ {Target} : cycles'[i] = cycles[i]
           /\ cycles'[Target] = [cycles[Target] EXCEPT !.review = g, !.shown = n]
<1> DEFINE reviewed == [cycles[Target] EXCEPT !.review = g, !.shown = n]
<1>1. Len(cycles) \in Nat /\ EntriesNow \in SUBSET (1..Len(cycles))
    BY DEF EntriesNow
<1>2. Target \in EntriesNow
    BY <1>1, LatestExists DEF Target
<1>3. Target \in 1..Len(cycles) /\ cycles[Target] \in Entry
    BY <1>1, <1>2
<1>4. reviewed \in Entry
    BY <1>3, EntryType
<1>5. cycles' = [cycles EXCEPT ![Target] = reviewed]
    BY <1>3
<1> HIDE DEF reviewed
<1>6. /\ cycles' \in Seq(Entry) /\ Len(cycles') = Len(cycles)
      /\ \A i \in 1..Len(cycles) : cycles'[i] = IF i = Target THEN reviewed ELSE cycles[i]
    BY <1>3, <1>4, <1>5, ExceptSeq
<1> QED
    BY <1>2, <1>3, <1>6 DEF reviewed

\* Spending a bound.
LEMMA SpendType ==
    ASSUME used \in [{"failures", "stalls", "resumes", "amends"} -> Nat],
           NEW b \in {"failures", "stalls", "resumes", "amends"}, NEW max, Spend(b, max)
    PROVE  used' \in [{"failures", "stalls", "resumes", "amends"} -> Nat]
BY DEF Spend

\* Changing one attempt of the external review.
LEMMA AttemptType ==
    ASSUME reviews \in Seq(Attempt), NEW i \in 1..Len(reviews),
           NEW e, e \in Attempt, reviews' = [reviews EXCEPT ![i] = e]
    PROVE  reviews' \in Seq(Attempt)
BY ExceptSeq

-----------------------------------------------------------------------------
(* Type correctness, one step per action. *)

LEMMA TypeInit == Init => TypeOK
<1> SUFFICES ASSUME Init PROVE TypeOK
    OBVIOUS
<1>1. overlay \in Overlay
    BY DeriveType DEF Init
<1>2. history \in History
    BY DEF Init, History, InWork
<1>3. drive \in [Drive -> DriveLocal]
    BY DEF Init, Idle, DriveLocal
<1> QED
    BY <1>1, <1>2, <1>3 DEF Init, TypeOK, Status, InWork, BlockedReason

LEMMA DriveWrites ==
    ASSUME drive \in [Drive -> DriveLocal], NEW d \in Drive, NEW x \in DriveLocal,
           drive' = [drive EXCEPT ![d] = x]
    PROVE  drive' \in [Drive -> DriveLocal]
OBVIOUS

\* What the steps of a drive write to its own locals.
LEMMA DriveUpdates ==
    ASSUME NEW l \in DriveLocal
    PROVE  /\ [l EXCEPT !.pc = "claiming"] \in DriveLocal
           /\ \A r \in InWork \cup {"in_review"} :
                [l EXCEPT !.pc = "brief", !.saw = r] \in DriveLocal
           /\ \A n \in Nat : [l EXCEPT !.pc = "running", !.shown = n] \in DriveLocal
           /\ [l EXCEPT !.pc = "next", !.saw = "none", !.wrapped = TRUE] \in DriveLocal
BY DEF DriveLocal

\* The row is left alone: a drive starts, reads, commits, refuses or dies.
LEMMA TypeDrive ==
    ASSUME TypeOK, NEW d \in Drive,
           \/ CheckOwner(d) \/ RecordOwner(d) \/ NextRole(d) \/ Brief(d)
           \/ AgentCommits(d) \/ Refused(d) \/ DriveDies(d)
    PROVE  TypeOK'
<1>l. drive[d] \in DriveLocal
    BY DEF TypeOK
<1> USE DEF TypeOK, row, owner
<1>1. CASE CheckOwner(d)
    <2> HIDE DEF TypeOK
    <2>1. [drive[d] EXCEPT !.pc = "claiming"] \in DriveLocal
        BY <1>l, DriveUpdates
    <2>2. drive' = [drive EXCEPT ![d] = [drive[d] EXCEPT !.pc = "claiming"]]
        BY <1>1 DEF CheckOwner
    <2>3. drive' \in [Drive -> DriveLocal]
        BY <2>1, <2>2, DriveWrites DEF TypeOK
    <2>4. UNCHANGED <<row, owner, reviews, head, bypassed, used>>
        BY <1>1 DEF CheckOwner
    <2> QED
        BY <2>3, <2>4 DEF TypeOK
<1>2. CASE RecordOwner(d)
    BY <1>2, DriveType DEF RecordOwner
<1>3. CASE NextRole(d)
    <2>1. CASE Exits(d)
        BY <1>3, <2>1, DriveType DEF NextRole
    <2>2. CASE /\ status \in InWork \cup {"in_review"}
               /\ drive' = [drive EXCEPT ![d].pc = "brief", ![d].saw = status]
        <3>1. [drive[d] EXCEPT !.pc = "brief", !.saw = status] \in DriveLocal
            BY <1>l, <2>2, DriveUpdates
        <3>2. drive' = [drive EXCEPT ![d] = [drive[d] EXCEPT !.pc = "brief", !.saw = status]]
            BY <2>2
        <3>3. drive' \in [Drive -> DriveLocal]
            BY <3>1, <3>2, DriveWrites
        <3> HIDE DEF TypeOK
        <3>4. UNCHANGED <<row, owner, reviews, head, bypassed, used>>
            BY <1>3 DEF NextRole
        <3> QED
            BY <3>3, <3>4 DEF TypeOK
    <2> QED
        BY <1>3, <2>1, <2>2 DEF NextRole, Status
<1>4. CASE Brief(d)
    <2>1. Shown(drive[d].saw) \in Nat
        <3>1. ASSUME EntriesNow # {} PROVE cycles[Earliest(EntriesNow)].commit \in Nat
            <4>1. Len(cycles) \in Nat /\ EntriesNow \in SUBSET (1..Len(cycles))
                BY DEF EntriesNow
            <4>2. Earliest(EntriesNow) \in 1..Len(cycles)
                BY <3>1, <4>1, EarliestExists
            <4>3. cycles[Earliest(EntriesNow)] \in Entry
                BY <4>2
            <4> QED
                BY <4>3 DEF Entry
        <3> QED
            BY <3>1 DEF Shown
    <2>2. [drive[d] EXCEPT !.pc = "running", !.shown = Shown(drive[d].saw)] \in DriveLocal
        BY <1>l, <2>1, DriveUpdates
    <2>3. drive' = [drive EXCEPT ![d] = [drive[d] EXCEPT !.pc = "running", !.shown = Shown(drive[d].saw)]]
        BY <1>4 DEF Brief
    <2>4. drive' \in [Drive -> DriveLocal]
        BY <2>2, <2>3, DriveWrites
    <2> HIDE DEF TypeOK
    <2>5. UNCHANGED <<row, owner, reviews, head, bypassed, used>>
        BY <1>4 DEF Brief
    <2> QED
        BY <2>4, <2>5 DEF TypeOK
<1>5. CASE AgentCommits(d)
    BY <1>5 DEF AgentCommits
<1>6. CASE Refused(d)
    BY <1>6, DriveType DEF Refused
<1>7. CASE DriveDies(d)
    BY <1>7, DriveType, SpendType DEF DriveDies
<1> QED
    BY <1>1, <1>2, <1>3, <1>4, <1>5, <1>6, <1>7

LEMMA TypeSubmit ==
    ASSUME TypeOK, NEW d \in Drive,
           \/ SubmitPlan(d) \/ SubmitPlanReview(d) \/ SubmitExecute(d)
           \/ SubmitReview(d) \/ SubmitWrap(d)
    PROVE  TypeOK'
<1> USE WorkflowAssumption DEF row, owner
<1>m. ASSUME NEW to \in Status, NEW verb, verb # "mark_drive_failed", Move(verb, to)
      PROVE  status' \in Status /\ overlay' \in Overlay /\ history' \in History
    BY <1>m, MoveType
<1>s. InWork \subseteq Status /\ {"blocked", "in_review"} \subseteq Status
    BY DEF Status
<1>d. ReadsOn(d) => drive' \in [Drive -> DriveLocal]
    BY DriveType DEF TypeOK
<1>t. current_phase \in Nat /\ current_cycle \in Nat /\ blocked_reason \in BlockedReason
    BY DEF TypeOK
<1>n. drive[d].shown \in Nat
    BY DEF TypeOK, DriveLocal
<1>1. CASE SubmitPlan(d)
    <2>1. status' \in Status /\ overlay' \in Overlay /\ history' \in History
        BY <1>1, <1>m, <1>s DEF SubmitPlan, InWork
    <2>2. plan' \in [id : Nat, phases : Nat]
        <3>1. PICK n \in 1..MaxPhases : plan' = [id |-> plan.id + 1, phases |-> n]
            BY <1>1 DEF SubmitPlan
        <3>2. plan.id \in Nat
            BY DEF TypeOK
        <3>3. n \in Nat
            OBVIOUS
        <3> QED
            BY <3>1, <3>2, <3>3
    <2> QED
        BY <1>1, <1>d, <2>1, <2>2 DEF SubmitPlan, TypeOK
<1>2. CASE SubmitPlanReview(d)
    <2>1. PICK gate \in {"READY", "NEEDS_WORK", "NOT_READY"} :
            /\ plan_review_log' = Append(plan_review_log,
                 [gate |-> gate, reviewed_plan |-> plan.id, shown |-> drive[d].shown])
            /\ \/ /\ Move("submit-plan-review", "executing") /\ EnterExecuting
                  /\ UNCHANGED blocked_reason
               \/ /\ Move("submit-plan-review", "planning")
                  /\ UNCHANGED <<current_phase, current_cycle, blocked_reason>>
               \/ /\ Move("submit-plan-review", "blocked")
                  /\ blocked_reason' = "plan_review"
                  /\ UNCHANGED <<current_phase, current_cycle>>
        BY <1>2 DEF SubmitPlanReview
    <2>2. status' \in Status /\ overlay' \in Overlay /\ history' \in History
        BY <2>1, <1>m, <1>s DEF InWork
    <2>3. [gate |-> gate, reviewed_plan |-> plan.id, shown |-> drive[d].shown] \in PlanReview
        BY <1>n DEF TypeOK, PlanReview
    <2>4. plan_review_log' \in Seq(PlanReview)
        BY <2>1, <2>3, AppendProperties DEF TypeOK
    <2>5. current_phase' \in Nat /\ current_cycle' \in Nat
        <3>1. EnterExecuting => current_phase' \in Nat /\ current_cycle' \in Nat
            BY <1>t DEF EnterExecuting
        <3> QED
            BY <1>t, <2>1, <3>1
    <2>6. blocked_reason' \in BlockedReason
        BY <1>t, <2>1 DEF BlockedReason
    <2> QED
        BY <1>2, <1>d, <2>2, <2>4, <2>5, <2>6 DEF SubmitPlanReview, TypeOK
<1>3. CASE SubmitExecute(d)
    <2>1. status' \in Status /\ overlay' \in Overlay /\ history' \in History
        BY <1>3, <1>m, <1>s DEF SubmitExecute, InWork
    <2>2. [phase |-> current_phase, cycle |-> current_cycle,
           commit |-> head, review |-> "none", shown |-> 0] \in Entry
        BY DEF TypeOK, Entry
    <2>3. cycles' \in Seq(Entry)
        BY <1>3, <2>2, AppendProperties DEF SubmitExecute, TypeOK
    <2> QED
        BY <1>3, <1>d, <2>1, <2>3 DEF SubmitExecute, TypeOK
<1>4. CASE SubmitReview(d)
    <2>1. PICK gate \in {"PASS", "REVISE", "FAIL"} :
            /\ cycles' = [cycles EXCEPT ![Target].review = gate, ![Target].shown = drive[d].shown]
            /\ \/ Move("submit-review", "executing")
               \/ Move("submit-review", "in_review")
               \/ Move("submit-review", "blocked")
        BY <1>4 DEF SubmitReview
    <2>2. status' \in Status /\ overlay' \in Overlay /\ history' \in History
        BY <2>1, <1>m, <1>s DEF InWork
    <2>3. cycles' \in Seq(Entry)
        BY <1>4, <1>n, <2>1, ReviewWrites DEF SubmitReview, TypeOK
    <2>4. /\ current_phase' \in {current_phase, current_phase + 1}
          /\ current_cycle' \in {1, current_cycle, current_cycle + 1}
          /\ blocked_reason' \in {"none", "code_review", blocked_reason}
        BY <1>4 DEF SubmitReview
    <2>5. current_phase' \in Nat /\ current_cycle' \in Nat /\ blocked_reason' \in BlockedReason
        BY <1>t, <2>4 DEF BlockedReason
    <2> QED
        BY <1>4, <1>d, <2>2, <2>3, <2>5 DEF SubmitReview, TypeOK
<1>5. CASE SubmitWrap(d)
    <2>1. [status |-> "pending", head |-> 0, due |-> FALSE] \in Attempt
        BY DEF Attempt
    <2>2. reviews' \in Seq(Attempt)
        BY <1>5, <2>1, AppendProperties DEF SubmitWrap, TypeOK
    <2>3. [drive[d] EXCEPT !.pc = "next", !.saw = "none", !.wrapped = TRUE] \in DriveLocal
        BY DriveUpdates DEF TypeOK
    <2>4. drive' = [drive EXCEPT ![d] = [drive[d] EXCEPT !.pc = "next", !.saw = "none", !.wrapped = TRUE]]
        BY <1>5 DEF SubmitWrap
    <2>5. UNCHANGED <<row, owner, head, bypassed, used>>
        BY <1>5 DEF SubmitWrap
    <2>6. drive' \in [Drive -> DriveLocal]
        BY <2>3, <2>4, DriveWrites DEF TypeOK
    <2> QED
        BY <2>2, <2>5, <2>6 DEF TypeOK
<1> QED
    BY <1>1, <1>2, <1>3, <1>4, <1>5

LEMMA MarkDriveFailedType ==
    ASSUME TypeOK, status \in Failable, NEW reason \in BlockedReason, MarkDriveFailed(reason)
    PROVE  /\ status' \in Status /\ overlay' \in Overlay /\ history' \in History
           /\ blocked_reason' \in BlockedReason
           /\ UNCHANGED <<plan, plan_review_log, current_phase, current_cycle, cycles>>
<1>1. "blocked" \in Status /\ status \in InWork
    BY DEF Status, Failable
<1> QED
    BY <1>1, MoveType DEF MarkDriveFailed

LEMMA TypeFailure ==
    ASSUME TypeOK,
           \/ \E d \in Drive : RunnerFails(d)
           \/ WatchdogFindsZombie \/ WatchdogFindsStalled
    PROVE  TypeOK'
<1> USE DEF row, owner
<1>r. {"runner_crash", "drive_failed"} \subseteq BlockedReason
    BY DEF BlockedReason
<1>1. ASSUME NEW d \in Drive, RunnerFails(d) PROVE TypeOK'
    <2>1. /\ used' \in [{"failures", "stalls", "resumes", "amends"} -> Nat]
          /\ drive' \in [Drive -> DriveLocal]
        BY <1>1, SpendType, DriveType DEF RunnerFails, TypeOK
    <2>2. UNCHANGED <<owner, reviews, head, bypassed>>
        BY <1>1 DEF RunnerFails
    <2>3. CASE status \in Failable /\ MarkDriveFailed("runner_crash")
        BY <1>r, <2>1, <2>2, <2>3, MarkDriveFailedType DEF TypeOK
    <2>4. CASE UNCHANGED row
        BY <2>1, <2>2, <2>4 DEF TypeOK
    <2> QED
        BY <1>1, <2>3, <2>4 DEF RunnerFails
<1>2. CASE WatchdogFindsZombie
    <2>1. status \in Failable /\ MarkDriveFailed("drive_failed")
          /\ UNCHANGED <<owner, reviews, head, drive, bypassed, used>>
        BY <1>2 DEF WatchdogFindsZombie
    <2> QED
        BY <1>r, <2>1, MarkDriveFailedType DEF TypeOK
<1>3. CASE WatchdogFindsStalled
    <2>1. status \in Failable /\ MarkDriveFailed("drive_failed")
          /\ UNCHANGED <<owner, reviews, head, drive, bypassed>>
        BY <1>3 DEF WatchdogFindsStalled
    <2>2. used' \in [{"failures", "stalls", "resumes", "amends"} -> Nat]
        BY <1>3, SpendType DEF WatchdogFindsStalled, TypeOK
    <2> QED
        BY <1>r, <2>1, <2>2, MarkDriveFailedType DEF TypeOK
<1> QED
    BY <1>1, <1>2, <1>3

\* What a failure interrupted is a status of the work cycle.
LEMMA ResumeTargetType ==
    ASSUME history \in History
    PROVE  ResumeTarget \in InWork
BY DEF ResumeTarget, InterruptedStatus, ReachesBack, History, InWork

LEMMA TypeResume ==
    ASSUME TypeOK, NEW no_dispatch \in BOOLEAN, Resume(no_dispatch)
    PROVE  TypeOK'
<1> DEFINE onwards == Rewinds /\ Tier = "T1" /\ ~no_dispatch
           to == IF onwards THEN "executing" ELSE ResumeTarget
<1>t. /\ current_phase \in Nat /\ current_cycle \in Nat
      /\ plan \in [id : Nat, phases : Nat] /\ history \in History
      /\ activation \in {"active", "inactive"} /\ bypassed \subseteq {"resume", "revise"}
    BY DEF TypeOK
<1>1. to \in Status
    BY <1>t, ResumeTargetType DEF Status, InWork
<1>2. Move("resume", to)
    BY DEF Resume
<1> HIDE DEF to
<1>3. status' \in Status /\ overlay' \in Overlay /\ history' \in History
    BY <1>1, <1>2, MoveType
<1>4. current_phase' \in Nat /\ current_cycle' \in Nat
    <2>1. current_phase' \in {1, current_phase} /\ current_cycle' \in {1, current_cycle}
        BY DEF Resume
    <2> QED
        BY <1>t, <2>1
<1>5. plan' \in [id : Nat, phases : Nat]
    BY <1>t DEF Resume
<1>6. used' \in [{"failures", "stalls", "resumes", "amends"} -> Nat]
    BY SpendType DEF Resume, TypeOK
<1>7. activation' \in {"active", "inactive"} /\ bypassed' \subseteq {"resume", "revise"}
    BY <1>t DEF Resume
<1>8. /\ blocked_reason' \in BlockedReason /\ drive_pid' = NoDrive
      /\ UNCHANGED <<plan_review_log, cycles, reviews, head, drive>>
    BY DEF Resume, BlockedReason
<1> QED
    BY <1>3, <1>4, <1>5, <1>6, <1>7, <1>8 DEF TypeOK

LEMMA TypeReview ==
    ASSUME TypeOK,
           ReviewStarts \/ ReviewHeld \/ ReviewRetried \/ ReviewEnds \/ ReviewRevises
    PROVE  TypeOK'
<1> USE DEF row, owner
<1>t. /\ reviews \in Seq(Attempt) /\ head \in Nat
      /\ current_cycle \in Nat /\ bypassed \subseteq {"resume", "revise"}
    BY DEF TypeOK
<1>a. ASSUME NEW i \in 1..Len(reviews) PROVE reviews[i] \in Attempt
    BY <1>t
<1>1. CASE ReviewStarts
    <2>1. PICK i \in 1..Len(reviews), rebased \in 0..1 :
            /\ head' = head + rebased
            /\ reviews' = [reviews EXCEPT ![i].status = "running", ![i].head = head + rebased]
            /\ UNCHANGED <<row, owner, drive, bypassed, used>>
        BY <1>1 DEF ReviewStarts
    <2>h. head + rebased \in Nat
        BY <1>t
    <2>2. [reviews[i] EXCEPT !.status = "running", !.head = head + rebased] \in Attempt
        BY <1>a, <2>h DEF Attempt
    <2>3. reviews' = [reviews EXCEPT
                        ![i] = [reviews[i] EXCEPT !.status = "running", !.head = head + rebased]]
        BY <2>1
    <2>4. reviews' \in Seq(Attempt) /\ head' \in Nat
        <3>1. reviews' \in Seq(Attempt)
            BY <1>t, <2>2, <2>3, AttemptType
        <3> QED
            BY <2>1, <2>h, <3>1
    <2> QED
        BY <2>1, <2>4 DEF TypeOK
<1>2. CASE ReviewHeld \/ ReviewRetried
    <2>1. PICK i \in 1..Len(reviews), s \in {"tooling_held", "pending"} :
            /\ reviews' = [reviews EXCEPT ![i].status = s]
            /\ UNCHANGED <<row, owner, head, drive, bypassed, used>>
        BY <1>2 DEF ReviewHeld, ReviewRetried
    <2>2. [reviews[i] EXCEPT !.status = s] \in Attempt
        BY <1>a DEF Attempt
    <2>3. reviews' = [reviews EXCEPT ![i] = [reviews[i] EXCEPT !.status = s]]
        BY <2>1
    <2>4. reviews' \in Seq(Attempt)
        BY <1>t, <2>2, <2>3, AttemptType
    <2> QED
        BY <2>1, <2>4 DEF TypeOK
<1>3. CASE ReviewEnds
    <2>1. PICK i \in 1..Len(reviews), verdict \in {"passed", "revise"} :
            /\ reviews' = [reviews EXCEPT ![i].status = verdict, ![i].due = verdict = "revise"]
            /\ UNCHANGED <<row, owner, head, drive, bypassed, used>>
        BY <1>3 DEF ReviewEnds
    <2>2. [reviews[i] EXCEPT !.status = verdict, !.due = (verdict = "revise")] \in Attempt
        BY <1>a DEF Attempt
    <2>3. reviews' = [reviews EXCEPT
                        ![i] = [reviews[i] EXCEPT !.status = verdict, !.due = (verdict = "revise")]]
        BY <2>1
    <2>4. reviews' \in Seq(Attempt)
        BY <1>t, <2>2, <2>3, AttemptType
    <2> QED
        BY <2>1, <2>4 DEF TypeOK
<1>4. CASE ReviewRevises
    <2>1. PICK i \in 1..Len(reviews) :
            /\ reviews' = [reviews EXCEPT ![i].due = FALSE]
            /\ \/ /\ MoveBare("submit-external-review", "executing")
                  /\ current_cycle' = current_cycle + 1
                  /\ blocked_reason' = "none"
                  /\ bypassed' \in {bypassed, bypassed \cup {"revise"}}
                  /\ UNCHANGED <<plan, plan_review_log, current_phase, cycles>>
               \/ UNCHANGED <<row, bypassed>>
            /\ UNCHANGED <<owner, head, drive, used>>
        BY <1>4 DEF ReviewRevises
    <2>2. [reviews[i] EXCEPT !.due = FALSE] \in Attempt
        BY <1>a DEF Attempt
    <2>3. reviews' = [reviews EXCEPT ![i] = [reviews[i] EXCEPT !.due = FALSE]]
        BY <2>1
    <2>4. reviews' \in Seq(Attempt)
        BY <1>t, <2>2, <2>3, AttemptType
    <2>5. CASE UNCHANGED <<row, bypassed>>
        BY <2>1, <2>4, <2>5 DEF TypeOK
    <2>6. CASE /\ MoveBare("submit-external-review", "executing")
               /\ current_cycle' = current_cycle + 1
               /\ blocked_reason' = "none"
               /\ bypassed' \in {bypassed, bypassed \cup {"revise"}}
               /\ UNCHANGED <<plan, plan_review_log, current_phase, cycles>>
        <3>1. "executing" \in Status
            BY DEF Status, InWork
        <3>2. status' \in Status /\ overlay' \in Overlay /\ history' \in History
            BY <2>6, <3>1, MoveType
        <3>3. current_cycle' \in Nat /\ bypassed' \subseteq {"resume", "revise"}
            BY <1>t, <2>6
        <3> QED
            BY <2>1, <2>4, <2>6, <3>2, <3>3 DEF TypeOK, BlockedReason
    <2> QED
        BY <2>1, <2>5, <2>6
<1> QED
    BY <1>1, <1>2, <1>3, <1>4

LEMMA TypePeople ==
    ASSUME TypeOK,
           \/ Accept \/ Reject \/ Amend \/ SetActivation \/ Abandon \/ CloseOutOfBand
    PROVE  TypeOK'
<1> USE DEF row, owner
<1>m. ASSUME NEW to \in Status, NEW verb, verb # "mark_drive_failed",
             Move(verb, to) \/ MoveBare(verb, to)
      PROVE  status' \in Status /\ overlay' \in Overlay /\ history' \in History
    BY <1>m, MoveType
<1>s. Closed \subseteq Status /\ "planning" \in Status
    BY DEF Status, InWork
<1>1. CASE \E to \in Closed, verb \in {"accept", "reject", "close-out-of-band"} : OnlyMoves(verb, to)
    BY <1>1, <1>m, <1>s DEF OnlyMoves, TypeOK
<1>2. CASE Amend
    <2>1. used' \in [{"failures", "stalls", "resumes", "amends"} -> Nat]
        BY <1>2, SpendType DEF Amend, TypeOK
    <2>2. status' \in Status /\ overlay' \in Overlay /\ history' \in History
        BY <1>2, <1>m, <1>s DEF Amend
    <2> QED
        BY <1>2, <2>1, <2>2 DEF Amend, TypeOK
<1>3. CASE SetActivation
    <2>1. history' \in History
        BY <1>3, RecordedType DEF SetActivation, TypeOK
    <2> QED
        BY <1>3, <2>1 DEF SetActivation, TypeOK
<1>4. CASE Abandon
    BY <1>4, <1>m, <1>s DEF Abandon, Closed, TypeOK
<1> QED
    BY <1>1, <1>2, <1>3, <1>4 DEF Accept, Reject, CloseOutOfBand, Closed

LEMMA TypeNext == TypeOK /\ [Next]_vars => TypeOK'
<1> SUFFICES ASSUME TypeOK, [Next]_vars PROVE TypeOK'
    OBVIOUS
<1>1. CASE Next
    BY <1>1, TypeDrive, TypeSubmit, TypeFailure, TypeResume, TypeReview, TypePeople
       DEF Next, DriveStep
<1>2. CASE UNCHANGED vars
    BY <1>2 DEF vars, row, owner, TypeOK
<1> QED
    BY <1>1, <1>2

(***************************************************************************)
(* Every column and every local of a drive holds what the code stores      *)
(* there; in particular resume always finds a status of the work cycle to  *)
(* go back to, and a code review an entry to write its gate to.            *)
(***************************************************************************)
THEOREM TypeCorrect == Spec => []TypeOK
<1> QED
    BY TypeInit, TypeNext, PTL DEF Spec

-----------------------------------------------------------------------------
(***************************************************************************)
(* No phase is skipped.  The invariant: every phase before the current one *)
(* has passed.                                                             *)
(***************************************************************************)
PhaseInv == /\ \A p \in 1..(current_phase - 1) : Passed(p)
            /\ EveryPhasePassed

\* A step that keeps the cycles, goes on in the same phase or starts over at
\* the first one, and does not bring the task to review.
LEMMA PhaseKept ==
    ASSUME TypeOK, PhaseInv, cycles' = cycles, current_phase' \in {0, 1, current_phase},
           status' # "in_review" \/ UNCHANGED <<status, plan>>
    PROVE  PhaseInv'
<1>1. \A p : Passed(p)' <=> Passed(p)
    BY DEF Passed
<1>2. \A p \in 1..(current_phase' - 1) : Passed(p)
    <2>1. current_phase \in Nat
        BY DEF TypeOK
    <2>2. ASSUME NEW q \in {0, 1, current_phase}, NEW p \in 1..(q - 1)
          PROVE  p \in 1..(current_phase - 1)
        BY <2>1
    <2> QED
        BY <2>2 DEF PhaseInv
<1>3. EveryPhasePassed'
    BY <1>1 DEF PhaseInv, EveryPhasePassed
<1> QED
    BY <1>1, <1>2, <1>3 DEF PhaseInv

LEMMA PhaseSubmitExecute ==
    ASSUME TypeOK, PhaseInv, NEW d \in Drive, SubmitExecute(d)
    PROVE  PhaseInv'
<1> DEFINE entry == [phase |-> current_phase, cycle |-> current_cycle,
                     commit |-> head, review |-> "none", shown |-> 0]
<1>1. entry \in Entry /\ cycles \in Seq(Entry)
    BY DEF TypeOK, Entry
<1>2. cycles' = Append(cycles, entry)
    BY DEF SubmitExecute
<1> HIDE DEF entry
<1>3. /\ Len(cycles') = Len(cycles) + 1
      /\ \A i \in 1..Len(cycles) : cycles'[i] = cycles[i]
    BY <1>1, <1>2, AppendProperties
<1>4. ASSUME NEW p, Passed(p) PROVE Passed(p)'
    BY <1>1, <1>3, <1>4 DEF Passed
<1>5. status' # "in_review" /\ current_phase' = current_phase
    BY DEF SubmitExecute, Move
<1> QED
    BY <1>4, <1>5 DEF PhaseInv, EveryPhasePassed

LEMMA PhaseSubmitReview ==
    ASSUME TypeOK, PhaseInv, NEW d \in Drive, SubmitReview(d)
    PROVE  PhaseInv'
<1>t. cycles \in Seq(Entry) /\ current_phase \in Nat /\ plan.phases \in Nat
    BY DEF TypeOK
<1>n. drive[d].shown \in Nat
    BY DEF TypeOK, DriveLocal
<1>1. PICK gate \in {"PASS", "REVISE", "FAIL"} :
        /\ cycles' = [cycles EXCEPT ![Target].review = gate, ![Target].shown = drive[d].shown]
        /\ \/ /\ gate = "PASS" /\ ~LastPhase
              /\ status' = "executing" /\ current_phase' = current_phase + 1
           \/ /\ gate = "PASS" /\ LastPhase
              /\ status' = "in_review" /\ current_phase' = current_phase
           \/ status' # "in_review" /\ current_phase' = current_phase
    BY DEF SubmitReview, Move
<1>2. /\ Target \in EntriesNow
      /\ Len(cycles') = Len(cycles)
      /\ \A i \in 1..Len(cycles) \ {Target} : cycles'[i] = cycles[i]
      /\ cycles'[Target] = [cycles[Target] EXCEPT !.review = gate, !.shown = drive[d].shown]
    BY <1>t, <1>n, <1>1, ReviewWrites DEF SubmitReview
<1>3. Target \in 1..Len(cycles) /\ cycles[Target].phase = current_phase
    BY <1>2 DEF EntriesNow
<1>4. cycles[Target] \in Entry
    BY <1>t, <1>3
<1>5. cycles'[Target].phase = current_phase /\ cycles'[Target].review = gate
    BY <1>2, <1>3, <1>4 DEF Entry
<1>6. ASSUME NEW p, p # current_phase, Passed(p) PROVE Passed(p)'
    BY <1>2, <1>3, <1>6 DEF Passed
<1>7. ASSUME NEW p, p = current_phase, gate = "PASS" PROVE Passed(p)'
    BY <1>2, <1>3, <1>5, <1>7 DEF Passed
<1>8. \A p \in 1..(current_phase - 1) : Passed(p)'
    BY <1>t, <1>6 DEF PhaseInv
<1>9. gate = "PASS" => \A p \in 1..current_phase : Passed(p)'
    <2>1. ASSUME NEW p \in 1..current_phase
          PROVE  p = current_phase \/ p \in 1..(current_phase - 1)
        BY <1>t
    <2> QED
        BY <1>7, <1>8, <2>1
<1>10. plan' = plan
    BY DEF SubmitReview
<1>11. LastPhase => 1..plan.phases \subseteq 1..current_phase
    BY <1>t DEF LastPhase
<1> QED
    BY <1>t, <1>1, <1>8, <1>9, <1>10, <1>11 DEF PhaseInv, EveryPhasePassed

LEMMA PhaseNext == TypeOK /\ PhaseInv /\ [Next]_vars => PhaseInv'
<1> SUFFICES ASSUME TypeOK, PhaseInv, [Next]_vars PROVE PhaseInv'
    OBVIOUS
<1> USE DEF row, owner, Move, MoveBare
<1>1. ASSUME NEW d \in Drive,
             CheckOwner(d) \/ RecordOwner(d) \/ NextRole(d) \/ Brief(d) \/ AgentCommits(d)
             \/ SubmitWrap(d) \/ Refused(d) \/ DriveDies(d)
      PROVE  PhaseInv'
    BY <1>1, PhaseKept
       DEF CheckOwner, RecordOwner, NextRole, Brief, AgentCommits, SubmitWrap, Refused, DriveDies
<1>2. ASSUME NEW d \in Drive, SubmitPlan(d) PROVE PhaseInv'
    BY <1>2, PhaseKept DEF SubmitPlan
<1>3. ASSUME NEW d \in Drive, SubmitPlanReview(d) PROVE PhaseInv'
    <2>1. /\ cycles' = cycles /\ current_phase' \in {1, current_phase}
          /\ status' # "in_review"
        BY <1>3 DEF SubmitPlanReview, EnterExecuting
    <2> QED
        BY <2>1, PhaseKept
<1>4. ASSUME NEW d \in Drive, SubmitExecute(d) \/ SubmitReview(d) PROVE PhaseInv'
    BY <1>4, PhaseSubmitExecute, PhaseSubmitReview
<1>5. ASSUME NEW d \in Drive, RunnerFails(d) PROVE PhaseInv'
    BY <1>5, PhaseKept DEF RunnerFails, MarkDriveFailed
<1>6. CASE WatchdogFindsZombie \/ WatchdogFindsStalled
    BY <1>6, PhaseKept DEF WatchdogFindsZombie, WatchdogFindsStalled, MarkDriveFailed
<1>7. ASSUME NEW no_dispatch \in BOOLEAN, Resume(no_dispatch) PROVE PhaseInv'
    <2>1. ResumeTarget \in InWork
        BY ResumeTargetType DEF TypeOK
    <2>2. status' # "in_review"
        BY <1>7, <2>1 DEF Resume, InWork
    <2>3. cycles' = cycles /\ current_phase' \in {1, current_phase}
        BY <1>7 DEF Resume
    <2> QED
        BY <2>2, <2>3, PhaseKept
<1>8. CASE ReviewStarts \/ ReviewHeld \/ ReviewRetried \/ ReviewEnds \/ ReviewRevises
    BY <1>8, PhaseKept DEF ReviewStarts, ReviewHeld, ReviewRetried, ReviewEnds, ReviewRevises
<1>9. CASE Accept \/ Reject \/ Abandon \/ CloseOutOfBand
    BY <1>9, PhaseKept DEF Accept, Reject, Abandon, CloseOutOfBand, OnlyMoves
<1>10. CASE Amend
    BY <1>10, PhaseKept DEF Amend
<1>11. CASE SetActivation
    BY <1>11, PhaseKept DEF SetActivation
<1>12. CASE UNCHANGED vars
    BY <1>12, PhaseKept DEF vars
<1> QED
    BY <1>1, <1>2, <1>3, <1>4, <1>5, <1>6, <1>7, <1>8, <1>9, <1>10, <1>11, <1>12
       DEF Next, DriveStep

(***************************************************************************)
(* A task comes to review with every phase number of its plan executed and *)
(* passed, for plans of any length and any number of failures, resumes,    *)
(* replannings, revisions and drives.                                      *)
(***************************************************************************)
THEOREM NoPhaseSkipped == Spec => []EveryPhasePassed
<1>1. Init => PhaseInv
    BY DEF Init, PhaseInv, EveryPhasePassed
<1>2. PhaseInv => EveryPhasePassed
    BY DEF PhaseInv
<1> QED
    BY <1>1, <1>2, PhaseNext, TypeCorrect, PTL DEF Spec

-----------------------------------------------------------------------------
(***************************************************************************)
(* The review trail.  The invariant: a row in code_review, and one that    *)
(* resume will take back there, has an unreviewed last entry for its phase *)
(* and cycle, unless some resume reached behind a rewind.                  *)
(***************************************************************************)
HasTarget == /\ Len(cycles) \in EntriesNow
             /\ cycles[Len(cycles)].review = "none"

\* The row is blocked and resume restores a status in S.
Interrupted(S) ==
    status = "blocked" /\ blocked_reason = "drive_failed" /\ history.failed \in S

TargetInv ==
    "resume" \notin bypassed /\ (status = "code_review" \/ Interrupted({"code_review"}))
        => HasTarget

\* Only mark_drive_failed changes what history says of the latest failure.
LEMMA FailedKept ==
    ASSUME TypeOK, NEW verb, NEW from, NEW to, verb # "mark_drive_failed"
    PROVE  Recorded(verb, from, to).failed = history.failed
BY DEF TypeOK, History, Recorded

LEMMA FailedMarked ==
    ASSUME NEW from, NEW to
    PROVE  Recorded("mark_drive_failed", from, to).failed = from
BY DEF Recorded

\* Away from resume and the submit verbs a row gets to where a review needs
\* its target only from such a place.
LEMMA TargetKept ==
    ASSUME TargetInv, UNCHANGED <<cycles, current_phase, current_cycle>>,
           bypassed \subseteq bypassed',
           \/ status' \notin {"code_review", "blocked"}
           \/ status' = "blocked" /\ blocked_reason' # "drive_failed"
           \/ UNCHANGED <<status, blocked_reason>> /\ history'.failed = history.failed
           \/ status' = "blocked" /\ history'.failed = status
    PROVE  TargetInv'
BY DEF TargetInv, Interrupted, HasTarget, EntriesNow

\* A review with a target is a review of the last entry.
LEMMA LastIsTarget ==
    ASSUME TypeOK, HasTarget
    PROVE  Target = Len(cycles)
<1>1. \A j \in EntriesNow : j <= Len(cycles)
    BY DEF EntriesNow, TypeOK
<1>2. Len(cycles) \in EntriesNow /\ EntriesNow \subseteq Nat
    BY DEF HasTarget, EntriesNow
<1>3. Len(cycles) \in Nat
    BY DEF TypeOK
<1>4. ASSUME NEW i \in EntriesNow, \A j \in EntriesNow : j <= i PROVE i = Len(cycles)
    BY <1>1, <1>2, <1>3, <1>4
<1> QED
    BY <1>1, <1>2, <1>4 DEF Target, Latest

LEMMA TargetSubmitExecute ==
    ASSUME TypeOK, NEW d \in Drive, SubmitExecute(d)
    PROVE  HasTarget'
<1> DEFINE entry == [phase |-> current_phase, cycle |-> current_cycle,
                     commit |-> head, review |-> "none", shown |-> 0]
<1>1. entry \in Entry /\ cycles \in Seq(Entry)
    BY DEF TypeOK, Entry
<1>2. cycles' = Append(cycles, entry)
    BY DEF SubmitExecute
<1>3. entry.phase = current_phase /\ entry.cycle = current_cycle /\ entry.review = "none"
    OBVIOUS
<1> HIDE DEF entry
<1>4. /\ Len(cycles') = Len(cycles) + 1 /\ Len(cycles) \in Nat
      /\ cycles'[Len(cycles')] = entry
    BY <1>1, <1>2, AppendProperties
<1>5. UNCHANGED <<current_phase, current_cycle>>
    BY DEF SubmitExecute
<1> QED
    BY <1>3, <1>4, <1>5 DEF HasTarget, EntriesNow

\* resume goes back to code_review only for a failure that interrupted it.
LEMMA TargetResume ==
    ASSUME TypeOK, TargetInv, NEW no_dispatch \in BOOLEAN, Resume(no_dispatch)
    PROVE  TargetInv'
<1>1. bypassed \subseteq bypassed' /\ cycles' = cycles /\ status' # "blocked"
    <2>1. ResumeTarget \in InWork
        BY ResumeTargetType DEF TypeOK
    <2> QED
        BY <2>1 DEF Resume, Move, InWork
<1>2. ASSUME status' = "code_review", "resume" \notin bypassed'
      PROVE  HasTarget'
    <2>1. ResumeTarget = "code_review"
        BY <1>2 DEF Resume, Move
    <2>2. blocked_reason = "drive_failed" /\ InterruptedStatus = "code_review"
        BY <2>1 DEF ResumeTarget
    <2>3. ~ReachesBack
        BY <1>2, <2>2 DEF Resume
    <2>4. history.failed = "code_review"
        BY <2>2, <2>3 DEF InterruptedStatus
    <2>5. HasTarget
        BY <1>1, <1>2, <2>2, <2>4 DEF TargetInv, Interrupted, Resume
    <2>6. UNCHANGED <<current_phase, current_cycle>>
        BY <2>1 DEF Resume, Rewinds
    <2> QED
        BY <1>1, <2>5, <2>6 DEF HasTarget, EntriesNow
<1> QED
    BY <1>1, <1>2 DEF TargetInv, Interrupted

LEMMA TargetNext == TypeOK /\ TargetInv /\ [Next]_vars => TargetInv'
<1> SUFFICES ASSUME TypeOK, TargetInv, [Next]_vars PROVE TargetInv'
    OBVIOUS
<1> USE DEF row, owner, Move, MoveBare
<1>1. ASSUME NEW d \in Drive,
             CheckOwner(d) \/ RecordOwner(d) \/ NextRole(d) \/ Brief(d) \/ AgentCommits(d)
             \/ SubmitWrap(d) \/ Refused(d) \/ DriveDies(d)
      PROVE  TargetInv'
    BY <1>1, TargetKept
       DEF CheckOwner, RecordOwner, NextRole, Brief, AgentCommits, SubmitWrap, Refused, DriveDies
<1>2. ASSUME NEW d \in Drive, SubmitPlan(d) PROVE TargetInv'
    BY <1>2, TargetKept DEF SubmitPlan
<1>3. ASSUME NEW d \in Drive, SubmitPlanReview(d) PROVE TargetInv'
    BY <1>3 DEF SubmitPlanReview, TargetInv, Interrupted
<1>4. ASSUME NEW d \in Drive, SubmitExecute(d) PROVE TargetInv'
    BY <1>4, TargetSubmitExecute DEF TargetInv
<1>5. ASSUME NEW d \in Drive, SubmitReview(d) PROVE TargetInv'
    BY <1>5 DEF SubmitReview, TargetInv, Interrupted
<1>6. ASSUME NEW d \in Drive, RunnerFails(d) PROVE TargetInv'
    BY <1>6, TargetKept DEF RunnerFails, MarkDriveFailed
<1>7. CASE WatchdogFindsZombie \/ WatchdogFindsStalled
    <2>1. status' = "blocked" /\ history'.failed = status
        BY <1>7, FailedMarked DEF WatchdogFindsZombie, WatchdogFindsStalled, MarkDriveFailed
    <2> QED
        BY <1>7, <2>1, TargetKept DEF WatchdogFindsZombie, WatchdogFindsStalled, MarkDriveFailed
<1>8. ASSUME NEW no_dispatch \in BOOLEAN, Resume(no_dispatch) PROVE TargetInv'
    BY <1>8, TargetResume
<1>9. CASE ReviewStarts \/ ReviewHeld \/ ReviewRetried \/ ReviewEnds
    BY <1>9, TargetKept DEF ReviewStarts, ReviewHeld, ReviewRetried, ReviewEnds
<1>10. CASE ReviewRevises
    BY <1>10 DEF ReviewRevises, TargetInv, Interrupted, HasTarget, EntriesNow
<1>11. CASE Accept \/ Reject \/ Abandon \/ CloseOutOfBand
    BY <1>11, TargetKept DEF Accept, Reject, Abandon, CloseOutOfBand, OnlyMoves
<1>12. CASE Amend
    BY <1>12 DEF Amend, TargetInv, Interrupted
<1>13. CASE SetActivation
    <2>1. history'.failed = history.failed
        BY <1>13, FailedKept DEF SetActivation
    <2> QED
        BY <1>13, <2>1, TargetKept DEF SetActivation
<1>14. CASE UNCHANGED vars
    BY <1>14, TargetKept DEF vars
<1> QED
    BY <1>1, <1>2, <1>3, <1>4, <1>5, <1>6, <1>7, <1>8, <1>9, <1>10, <1>11, <1>12, <1>13, <1>14
       DEF Next, DriveStep

LEMMA TargetAlways == Spec => []TargetInv
<1>1. Init => TargetInv
    BY DEF Init, TargetInv, Interrupted
<1> QED
    BY <1>1, TargetNext, TypeCorrect, PTL DEF Spec

(***************************************************************************)
(* A row in code_review has an execution of its phase and cycle, the last  *)
(* one made, that nobody has reviewed, unless a resume reached behind a    *)
(* rewind: two live drives and late answers do not change that.            *)
(***************************************************************************)
THEOREM ReviewTarget == Spec => []ReviewHasTarget
<1>1. TargetInv => ReviewHasTarget
    BY DEF TargetInv, HasTarget, ReviewHasTarget
<1> QED
    BY <1>1, TargetAlways, PTL

LEMMA FinalSubmitReview ==
    ASSUME TypeOK, TargetInv, NEW d \in Drive, SubmitReview(d), "resume" \notin bypassed'
    PROVE  /\ Len(cycles') >= Len(cycles)
           /\ \A i \in 1..Len(cycles) : cycles[i].review # "none" => cycles'[i] = cycles[i]
<1>t. cycles \in Seq(Entry) /\ Len(cycles) \in Nat
    BY DEF TypeOK
<1>n. drive[d].shown \in Nat
    BY DEF TypeOK, DriveLocal
<1>1. HasTarget
    BY DEF SubmitReview, TargetInv
<1>2. Target = Len(cycles) /\ cycles[Target].review = "none"
    BY <1>1, LastIsTarget DEF HasTarget
<1>3. PICK gate \in {"PASS", "REVISE", "FAIL"} :
        cycles' = [cycles EXCEPT ![Target].review = gate, ![Target].shown = drive[d].shown]
    BY DEF SubmitReview
<1>4. /\ Len(cycles') = Len(cycles)
      /\ \A i \in 1..Len(cycles) \ {Target} : cycles'[i] = cycles[i]
    BY <1>t, <1>n, <1>3, ReviewWrites DEF SubmitReview
<1> QED
    BY <1>t, <1>2, <1>4

LEMMA FinalNext ==
    ASSUME TypeOK, TargetInv, [Next]_vars, "resume" \notin bypassed'
    PROVE  /\ Len(cycles') >= Len(cycles)
           /\ \A i \in 1..Len(cycles) : cycles[i].review # "none" => cycles'[i] = cycles[i]
<1>t. cycles \in Seq(Entry) /\ Len(cycles) \in Nat
    BY DEF TypeOK
<1>1. ASSUME NEW d \in Drive, SubmitExecute(d)
      PROVE  /\ Len(cycles') >= Len(cycles)
             /\ \A i \in 1..Len(cycles) : cycles'[i] = cycles[i]
    <2>1. [phase |-> current_phase, cycle |-> current_cycle,
           commit |-> head, review |-> "none", shown |-> 0] \in Entry
        BY DEF TypeOK, Entry
    <2>2. /\ Len(cycles') = Len(cycles) + 1
          /\ \A i \in 1..Len(cycles) : cycles'[i] = cycles[i]
        BY <1>1, <1>t, <2>1, AppendProperties DEF SubmitExecute
    <2> QED
        BY <1>t, <2>2
<1>2. ASSUME NEW d \in Drive, SubmitReview(d)
      PROVE  /\ Len(cycles') >= Len(cycles)
             /\ \A i \in 1..Len(cycles) : cycles[i].review # "none" => cycles'[i] = cycles[i]
    BY <1>2, FinalSubmitReview
<1>3. \/ \E d \in Drive : SubmitExecute(d) \/ SubmitReview(d)
      \/ cycles' = cycles
    BY DEF Next, DriveStep, vars, row, CheckOwner, RecordOwner, NextRole, Brief, AgentCommits,
           SubmitPlan, SubmitPlanReview, SubmitWrap, Refused, RunnerFails, DriveDies,
           MarkDriveFailed, WatchdogFindsZombie, WatchdogFindsStalled, Resume,
           ReviewStarts, ReviewHeld, ReviewRetried, ReviewEnds, ReviewRevises,
           Accept, Reject, OnlyMoves, Amend, SetActivation, Abandon, CloseOutOfBand
<1> QED
    BY <1>t, <1>1, <1>2, <1>3

(***************************************************************************)
(* No step changes a recorded gate or drops an entry of the review trail,  *)
(* unless a resume reached behind a rewind.                                *)
(***************************************************************************)
THEOREM FinalReviews == Spec => ReviewsAreFinal
<1>1. TypeOK /\ TargetInv /\ [Next]_vars =>
        ["resume" \notin bypassed' =>
           /\ Len(cycles') >= Len(cycles)
           /\ \A i \in 1..Len(cycles) : cycles[i].review # "none" => cycles'[i] = cycles[i]]_vars
    BY FinalNext
<1> QED
    BY <1>1, TypeCorrect, TargetAlways, PTL DEF Spec, ReviewsAreFinal

-----------------------------------------------------------------------------
(***************************************************************************)
(* Only an approved plan is executed.  The invariant: where the approval   *)
(* is in force, at work beyond the plan review or blocked by a failure     *)
(* that resume or an external REVISE takes back there, the latest plan     *)
(* review found this plan READY.                                           *)
(***************************************************************************)
ApprovedInv ==
    /\ bypassed = {} /\ (status \in Beyond \/ Interrupted({"executing", "code_review"}))
         => PlanApproved
    /\ ~Interrupted({"none"})

\* Plan and log are kept, and the approval is in force only where it was.
LEMMA ApprovalKept ==
    ASSUME ApprovedInv, UNCHANGED <<plan, plan_review_log>>, bypassed \subseteq bypassed',
           \/ status' \notin Beyond \cup {"blocked"}
           \/ status' = "blocked" /\ blocked_reason' # "drive_failed"
           \/ status' \in Beyond /\ status \in Beyond
           \/ UNCHANGED <<status, blocked_reason>> /\ history'.failed = history.failed
           \/ status \in InWork /\ status' = "blocked" /\ history'.failed = status
    PROVE  ApprovedInv'
<1>1. "blocked" \notin Beyond /\ "none" \notin InWork
    BY DEF Beyond, InWork
<1>2. PlanApproved' <=> PlanApproved
    BY DEF PlanApproved
<1>3. bypassed' = {} => bypassed = {}
    OBVIOUS
<1> QED
    BY <1>1, <1>2, <1>3 DEF ApprovedInv, Interrupted, Beyond

LEMMA ApprovedSubmitPlanReview ==
    ASSUME TypeOK, NEW d \in Drive, SubmitPlanReview(d)
    PROVE  ApprovedInv'
<1>n. drive[d].shown \in Nat /\ plan_review_log \in Seq(PlanReview)
    BY DEF TypeOK, DriveLocal
<1>1. PICK gate \in {"READY", "NEEDS_WORK", "NOT_READY"} :
        /\ plan_review_log' = Append(plan_review_log,
             [gate |-> gate, reviewed_plan |-> plan.id, shown |-> drive[d].shown])
        /\ \/ gate = "READY" /\ status' = "executing"
           \/ status' = "planning"
           \/ status' = "blocked" /\ blocked_reason' = "plan_review"
    BY DEF SubmitPlanReview, Move
<1>2. CASE gate = "READY" /\ status' = "executing"
    <2> DEFINE entry == [gate |-> gate, reviewed_plan |-> plan.id, shown |-> drive[d].shown]
    <2>1. entry \in PlanReview
        BY <1>n DEF PlanReview, TypeOK
    <2>2. entry.gate = "READY" /\ entry.reviewed_plan = plan.id
        BY <1>2
    <2>3. plan_review_log' = Append(plan_review_log, entry)
        BY <1>1
    <2> HIDE DEF entry
    <2>4. /\ plan_review_log' # <<>>
          /\ plan_review_log'[Len(plan_review_log')] = entry
        BY <1>n, <2>1, <2>3, AppendProperties
    <2>5. plan' = plan
        BY DEF SubmitPlanReview
    <2>6. PlanApproved'
        BY <2>2, <2>4, <2>5 DEF PlanApproved
    <2> QED
        BY <1>2, <2>6 DEF ApprovedInv, Interrupted
<1>3. CASE status' = "planning" \/ (status' = "blocked" /\ blocked_reason' = "plan_review")
    BY <1>3 DEF ApprovedInv, Interrupted, Beyond
<1> QED
    BY <1>1, <1>2, <1>3

\* resume goes beyond the plan review only for a failure that was there, or
\* for a T1 row.
LEMMA ApprovedResume ==
    ASSUME TypeOK, ApprovedInv, NEW no_dispatch \in BOOLEAN, Resume(no_dispatch)
    PROVE  ApprovedInv'
<1>1. ResumeTarget \in InWork /\ history.failed \in InWork \cup {"none"}
    BY ResumeTargetType DEF TypeOK, History
<1>2. status' # "blocked" /\ bypassed \subseteq bypassed'
    BY <1>1 DEF Resume, Move, InWork
<1>3. ASSUME status' \in Beyond, bypassed' = {}, Tier # "T1"
      PROVE  PlanApproved'
    <2>1. status' = ResumeTarget /\ plan' = plan
        BY <1>3 DEF Resume, Move
    <2>2. ResumeTarget \in {"executing", "code_review"}
        BY <1>1, <1>3, <2>1 DEF Beyond, InWork
    <2>3. blocked_reason = "drive_failed" /\ InterruptedStatus = ResumeTarget
        BY <2>2 DEF ResumeTarget
    <2>4. ~ReachesBack
        BY <1>3, <2>3 DEF Resume
    <2>5. history.failed = ResumeTarget
        BY <2>2, <2>3, <2>4 DEF InterruptedStatus
    <2>6. PlanApproved
        BY <1>2, <1>3, <2>2, <2>3, <2>5 DEF ApprovedInv, Interrupted, Resume
    <2>7. plan_review_log' = plan_review_log
        BY DEF Resume
    <2> QED
        BY <2>1, <2>6, <2>7 DEF PlanApproved
<1>4. Tier = "T1" => PlanApproved'
    BY DEF PlanApproved
<1> QED
    BY <1>2, <1>3, <1>4 DEF ApprovedInv, Interrupted

\* An external REVISE takes back to executing a row in review, or one whose
\* failure was beyond the plan review.
LEMMA ApprovedReviewRevises ==
    ASSUME TypeOK, ApprovedInv, ReviewRevises
    PROVE  ApprovedInv'
<1>1. history.failed \in InWork \cup {"none"}
    BY DEF TypeOK, History
<1>2. PICK i \in 1..Len(reviews) :
        IF Revises(i)
          THEN /\ MoveBare("submit-external-review", "executing")
               /\ bypassed' = IF status = "blocked" /\ history.failed \in {"planning", "plan_review"}
                              THEN bypassed \cup {"revise"} ELSE bypassed
               /\ UNCHANGED <<plan, plan_review_log>>
          ELSE UNCHANGED <<row, bypassed>>
    BY DEF ReviewRevises
<1>3. CASE ~Revises(i)
    BY <1>2, <1>3, ApprovalKept DEF row
<1>4. CASE Revises(i)
    <2>1. ASSUME bypassed' = {} PROVE PlanApproved
        <3>1. bypassed = {} /\ ~(status = "blocked" /\ history.failed \in {"planning", "plan_review"})
            BY <1>2, <1>4, <2>1
        <3>2. CASE status = "in_review"
            BY <3>1, <3>2 DEF ApprovedInv, Beyond
        <3>3. CASE status = "blocked" /\ blocked_reason = "drive_failed"
            <4>1. history.failed \in {"executing", "code_review"}
                BY <1>1, <3>1, <3>3 DEF ApprovedInv, Interrupted, InWork
            <4> QED
                BY <3>1, <3>3, <4>1 DEF ApprovedInv, Interrupted
        <3> QED
            BY <1>4, <3>2, <3>3 DEF Revises
    <2>2. status' = "executing" /\ UNCHANGED <<plan, plan_review_log>>
        BY <1>2, <1>4 DEF MoveBare
    <2> QED
        BY <2>1, <2>2 DEF ApprovedInv, Interrupted, PlanApproved
<1> QED
    BY <1>3, <1>4

LEMMA ApprovedNext == TypeOK /\ ApprovedInv /\ [Next]_vars => ApprovedInv'
<1> SUFFICES ASSUME TypeOK, ApprovedInv, [Next]_vars PROVE ApprovedInv'
    OBVIOUS
<1> USE DEF row, owner, Move, MoveBare
<1>1. ASSUME NEW d \in Drive,
             CheckOwner(d) \/ RecordOwner(d) \/ NextRole(d) \/ Brief(d) \/ AgentCommits(d)
             \/ SubmitWrap(d) \/ Refused(d) \/ DriveDies(d)
      PROVE  ApprovedInv'
    BY <1>1, ApprovalKept
       DEF CheckOwner, RecordOwner, NextRole, Brief, AgentCommits, SubmitWrap, Refused, DriveDies
<1>2. ASSUME NEW d \in Drive, SubmitPlan(d) PROVE ApprovedInv'
    BY <1>2 DEF SubmitPlan, ApprovedInv, Interrupted, Beyond
<1>3. ASSUME NEW d \in Drive, SubmitPlanReview(d) PROVE ApprovedInv'
    BY <1>3, ApprovedSubmitPlanReview
<1>4. ASSUME NEW d \in Drive, SubmitExecute(d) PROVE ApprovedInv'
    BY <1>4, ApprovalKept DEF SubmitExecute, Beyond
<1>5. ASSUME NEW d \in Drive, SubmitReview(d) PROVE ApprovedInv'
    <2>1. \/ status' \in Beyond
          \/ status' = "blocked" /\ blocked_reason' = "code_review"
        BY <1>5 DEF SubmitReview, Beyond
    <2>2. status \in Beyond /\ UNCHANGED <<plan, plan_review_log, bypassed>>
        BY <1>5 DEF SubmitReview, Beyond
    <2> QED
        BY <2>1, <2>2, ApprovalKept
<1>6. ASSUME NEW d \in Drive, RunnerFails(d) PROVE ApprovedInv'
    BY <1>6, ApprovalKept DEF RunnerFails, MarkDriveFailed
<1>7. CASE WatchdogFindsZombie \/ WatchdogFindsStalled
    <2>1. status \in InWork /\ status' = "blocked" /\ history'.failed = status
        BY <1>7, FailedMarked
           DEF WatchdogFindsZombie, WatchdogFindsStalled, MarkDriveFailed, Failable
    <2> QED
        BY <1>7, <2>1, ApprovalKept
           DEF WatchdogFindsZombie, WatchdogFindsStalled, MarkDriveFailed
<1>8. ASSUME NEW no_dispatch \in BOOLEAN, Resume(no_dispatch) PROVE ApprovedInv'
    BY <1>8, ApprovedResume
<1>9. CASE ReviewStarts \/ ReviewHeld \/ ReviewRetried \/ ReviewEnds
    BY <1>9, ApprovalKept DEF ReviewStarts, ReviewHeld, ReviewRetried, ReviewEnds
<1>10. CASE ReviewRevises
    BY <1>10, ApprovedReviewRevises
<1>11. CASE Accept
    BY <1>11, ApprovalKept DEF Accept, OnlyMoves, Beyond
<1>12. CASE Reject \/ Abandon \/ CloseOutOfBand
    BY <1>12, ApprovalKept DEF Reject, Abandon, CloseOutOfBand, OnlyMoves, Beyond
<1>13. CASE Amend
    BY <1>13, ApprovalKept DEF Amend, Beyond
<1>14. CASE SetActivation
    <2>1. history'.failed = history.failed
        BY <1>14, FailedKept DEF SetActivation
    <2> QED
        BY <1>14, <2>1, ApprovalKept DEF SetActivation
<1>15. CASE UNCHANGED vars
    BY <1>15, ApprovalKept DEF vars
<1> QED
    BY <1>1, <1>2, <1>3, <1>4, <1>5, <1>6, <1>7, <1>8, <1>9, <1>10, <1>11, <1>12, <1>13,
       <1>14, <1>15 DEF Next, DriveStep

(***************************************************************************)
(* Work beyond the plan review is work on the plan that the latest plan    *)
(* review found READY, unless a resume reached behind a rewind or an       *)
(* external REVISE took a row past its plan review.                        *)
(***************************************************************************)
THEOREM ApprovedPlan == Spec => []ApprovedPlanRuns
<1>1. Init => ApprovedInv
    BY DEF Init, ApprovedInv, Interrupted, Beyond
<1>2. ApprovedInv => ApprovedPlanRuns
    BY DEF ApprovedInv, ApprovedPlanRuns
<1> QED
    BY <1>1, <1>2, ApprovedNext, TypeCorrect, PTL DEF Spec
=============================================================================
