----------------------------- MODULE ReviewLane -----------------------------
(***************************************************************************)
(* The external review lane: attempts at reviewing a task that stands in   *)
(* in_review (the external_reviews table), minted by submit-wrap, by the   *)
(* daemon's reconciler or by hand, claimed under a cap by any number of    *)
(* processes (flow/builtins/external_review.rs), held and retried when the *)
(* tooling fails, and answered with a verdict that lets a person accept    *)
(* the task or sends it back to its executor.                              *)
(*                                                                         *)
(* A review is its id.  Ids and the attempts of a task grow together, so   *)
(* ORDER BY attempt DESC, id DESC is the order of ids.  A head is the      *)
(* commit of main below it and a revision: what rebase and the comparison  *)
(* of shas tell apart.  Tasks are of tier T2 or T3; of their workflow only *)
(* what this lane reads and writes is kept.                                *)
(***************************************************************************)
EXTENDS Naturals, Sequences, FiniteSets, FiniteSetsExt, SequencesExt

CONSTANTS
    Task,
    Daemon, Person,     \* processes that review: daemons, and run by hand
    Cap,                \* review.max_parallel
    MaxReviews,         \* bound: attempts there may be
    MaxRevisions,       \* bound: revisions of a branch
    MaxMain,            \* bound: landings of other tasks on main
    MaxFailures,        \* bound: reviews that end without a verdict, processes that die
    MaxManual           \* bound: acts of people on reviews and branches

ASSUME ReviewAssumption ==
    /\ Daemon \cap Person = {}
    /\ IsFiniteSet(Task)
    /\ Cap \in Nat \ {0}
    /\ {MaxReviews, MaxRevisions, MaxMain, MaxFailures, MaxManual} \subseteq Nat

VARIABLES
    task,               \* tasks: status, blocked_reason, and whether wrapped
    main, branch,       \* git
    review,             \* external_reviews with the dispatch_locks of its rows
    applied,            \* transition_history: the revisions fired, by review and head
    worker,             \* the processes, with the locals of what they run
    used                \* how much of each bound is spent

git  == <<main, branch>>
vars == <<task, git, review, applied, worker, used>>

Process == Daemon \cup Person
NoHead  == <<>>
Spend(bound, max) == used[bound] < max /\ used' = [used EXCEPT ![bound] = @ + 1]
Keep == UNCHANGED used

-----------------------------------------------------------------------------
(* external_reviews.  lock is the row's dispatch lock; retry stands for    *)
(* next_retry_at; superseded for superseded_by.  shown is a history        *)
(* variable: the head whose diff the reviewer was given.                   *)

Id == 1..Len(review)
Of(t) == {r \in Id : review[r].task = t}
With(statuses) == {r \in Id : review[r].status \in statuses}
Running == With({"running"})
Mutant_Free == Cardinality(Running) <= Cap
Free == Cardinality(Running) < Cap

Minted(t, status, verdict, head) ==
    [task |-> t, status |-> status, verdict |-> verdict, head |-> head, held |-> "none",
     retry |-> "none", superseded |-> FALSE, lock |-> "none", shown |-> NoHead]
Pending(t, head) == Minted(t, "pending", "none", head)

\* mark_cap_held: whatever the row's status
CapHeld(r) == review' = [review EXCEPT ![r].held = "cap"]

\* promote_elapsed_tooling_held
Mutant_Promoted == review             \* held rows are not looked at again
Promoted ==
    [r \in Id |-> IF review[r].status = "tooling_held" /\ review[r].retry = "due"
                    THEN [review[r] EXCEPT !.status = "pending", !.held = "none",
                                           !.retry = "none"]
                    ELSE review[r]]

Idle == [pc |-> "idle", via |-> "none", row |-> 0, head |-> NoHead, answer |-> "none",
         todo |-> {}, budget |-> 0, task |-> {}]

Goes(p, pc) == worker' = [worker EXCEPT ![p].pc = pc]
At(p, pc) == worker[p].pc = pc

\* Back to the rest of a tick's list, or to the next poll
Leaves(p, budget) ==
    worker' = [worker EXCEPT ![p] =
                 IF @.via = "tick"
                   THEN [Idle EXCEPT !.pc = "pick", !.via = "tick", !.todo = worker[p].todo,
                                     !.budget = budget]
                   ELSE Idle]

-----------------------------------------------------------------------------
(* The daemon's tick: reconcile_external_reviews_for_in_review_tasks and   *)
(* reconcile_pending_external_review_dispatch                              *)

Attended == {"pending", "running", "passed", "revise", "tooling_held"}

\* Layer 1, one transaction over all tasks
Mint(d) ==
    /\ At(d, "idle")
    /\ LET new == {t \in Task : task[t].status = "in_review" /\ Of(t) \cap With(Attended) = {}}
       IN review' = IF Len(review) + Cardinality(new) <= MaxReviews
                      THEN review \o [i \in 1..Cardinality(new) |->
                                        Pending(SetToSeq(new)[i], NoHead)]
                      ELSE review
    /\ Goes(d, "scan")
    /\ Keep /\ UNCHANGED <<task, git, applied>>

\* Layer 2
Promote(d) ==
    /\ At(d, "scan")
    /\ review' = Promoted
    /\ Goes(d, "list")
    /\ Keep /\ UNCHANGED <<task, git, applied>>

Mutant_Unserviced == {r \in With({"pending"}) : review[r].lock = "none"}
Unserviced == {r \in With({"pending"}) : review[r].lock # "open"}

List(d) ==
    /\ At(d, "list")
    /\ LET taken == Cardinality(Running) IN
       worker' = [worker EXCEPT ![d].pc = "pick", ![d].via = "tick", ![d].todo = Unserviced,
                                ![d].budget = IF taken < Cap THEN Cap - taken ELSE 0]
    /\ Keep /\ UNCHANGED <<task, git, review, applied>>

\* The budget of the tick, then cap_allows_or_log
Pick(d) ==
    /\ At(d, "pick") /\ worker[d].todo # {}
    /\ LET r == Min(worker[d].todo) IN
       IF worker[d].budget > 0 /\ Free
         THEN /\ worker' = [worker EXCEPT ![d].pc = "run", ![d].row = r, ![d].todo = @ \ {r}]
              /\ UNCHANGED review
         ELSE /\ CapHeld(r)
              /\ worker' = [worker EXCEPT ![d].todo = @ \ {r}]
    /\ Keep /\ UNCHANGED <<task, git, applied>>

TickDone(d) ==
    /\ At(d, "pick") /\ worker[d].todo = {}
    /\ worker' = [worker EXCEPT ![d] = Idle]
    /\ Keep /\ UNCHANGED <<task, git, review, applied>>

-----------------------------------------------------------------------------
(* The daemon's poll: the subscriber of rows that became pending, whose    *)
(* dispatch lock is taken once per row (module Dispatch)                   *)

Poll(d, r) ==
    /\ At(d, "idle") /\ review[r].lock = "none"
    /\ IF Free
         THEN /\ worker' = [worker EXCEPT ![d] = [Idle EXCEPT !.pc = "lock", !.via = "poll",
                                                              !.row = r]]
              /\ UNCHANGED review
         ELSE CapHeld(r) /\ UNCHANGED worker
    /\ Keep /\ UNCHANGED <<task, git, applied>>

TryClaim(d) ==
    /\ At(d, "lock")
    /\ LET r == worker[d].row IN
       IF review[r].lock = "none"
         THEN review' = [review EXCEPT ![r].lock = "open"] /\ Goes(d, "run")
         ELSE UNCHANGED review /\ worker' = [worker EXCEPT ![d] = Idle]
    /\ Keep /\ UNCHANGED <<task, git, applied>>

\* stores external_reviews run <id>
RunByHand(p, r) ==
    /\ p \in Person /\ At(p, "idle")
    /\ worker' = [worker EXCEPT ![p] = [Idle EXCEPT !.pc = "run", !.via = "hand", !.row = r]]
    /\ Spend("manual", MaxManual)
    /\ UNCHANGED <<task, git, review, applied>>

-----------------------------------------------------------------------------
(* external_review::run *)

Begin(p) ==
    /\ At(p, "run")
    /\ review' = Promoted
    /\ Goes(p, "claim")
    /\ Keep /\ UNCHANGED <<task, git, applied>>

\* mark_claim_finished of the poll's lock, if the row was run by the poll
Unlocked(p, rows) ==
    IF worker[p].via = "poll" THEN [rows EXCEPT ![worker[p].row].lock = "done"] ELSE rows

\* The atomic gate: load, count and mark_running in one transaction
Mutant_Claim(p) ==                    \* trusts the caller's look at status and cap
    /\ At(p, "claim")
    /\ review' = [review EXCEPT ![worker[p].row].status = "running",
                                ![worker[p].row].held = "none"]
    /\ Goes(p, "git")
    /\ Keep /\ UNCHANGED <<task, git, applied>>
Claim(p) ==
    /\ At(p, "claim")
    /\ LET r == worker[p].row
       IN \/ /\ review[r].status = "pending" /\ Free
             /\ review' = [review EXCEPT ![r].status = "running", ![r].held = "none"]
             /\ Goes(p, "git")
          \/ /\ review[r].status = "pending" /\ ~Free
             /\ review' = Unlocked(p, [review EXCEPT ![r].held = "cap"])
             /\ Leaves(p, worker[p].budget)
          \/ /\ review[r].status # "pending"
             /\ review' = Unlocked(p, review)
             /\ Leaves(p, worker[p].budget)
    /\ Keep /\ UNCHANGED <<task, git, applied>>

Target(p) == review[worker[p].row].task

\* prepare_external_review_git: the branch is on main, or is put there
Prepare(p) ==
    /\ At(p, "git")
    /\ LET t == Target(p)
           head == <<main, branch[t][2]>>
       IN /\ branch' = [branch EXCEPT ![t] = head]
          /\ worker' = [worker EXCEPT ![p].pc = "review", ![p].head = head]
    /\ Keep /\ UNCHANGED <<task, main, review, applied>>

\* ... or the rebase conflicts
RebaseConflicts(p) ==
    /\ At(p, "git") /\ branch[Target(p)][1] # main
    /\ worker' = [worker EXCEPT ![p].pc = "hold", ![p].head = branch[Target(p)],
                                ![p].answer = "stale"]
    /\ Spend("failures", MaxFailures)
    /\ UNCHANGED <<task, git, review, applied>>

\* The reviewer answers: persist_review_runner_result
Mutant_Answers(p, verdict) ==         \* HEAD is resolved again after the review
    /\ At(p, "review")
    /\ review' = [review EXCEPT ![worker[p].row].verdict = verdict,
                                ![worker[p].row].head = branch[Target(p)],
                                ![worker[p].row].shown = worker[p].head]
    /\ worker' = [worker EXCEPT ![p].pc = "record", ![p].answer = verdict]
    /\ Keep /\ UNCHANGED <<task, git, applied>>
Answers(p, verdict) ==
    /\ At(p, "review")
    /\ review' = [review EXCEPT ![worker[p].row].verdict = verdict,
                                ![worker[p].row].head = worker[p].head,
                                ![worker[p].row].shown = worker[p].head]
    /\ worker' = [worker EXCEPT ![p].pc = "record", ![p].answer = verdict]
    /\ Keep /\ UNCHANGED <<task, git, applied>>

\* Checkout or runner fails, or answers nothing that parses; a payload
\* error and a bad exit code are persisted first.
Fails(p, persisted) ==
    /\ \/ At(p, "git") /\ ~persisted
       \/ At(p, "review")
    /\ review' = IF persisted
                   THEN [review EXCEPT ![worker[p].row].verdict = "TOOLING_FAILURE",
                                       ![worker[p].row].head = worker[p].head]
                   ELSE review
    /\ worker' = [worker EXCEPT ![p].pc = "hold", ![p].answer = "tooling"]
    /\ Spend("failures", MaxFailures)
    /\ UNCHANGED <<task, git, applied>>

\* record_tooling_held, record_stale_base_tooling_held
Held(p, retry) ==
    /\ At(p, "hold")
    /\ LET r == worker[p].row
           head == IF worker[p].answer = "stale" THEN worker[p].head ELSE review[r].head
       IN review' = Unlocked(p, [review EXCEPT ![r] = [review[r] EXCEPT
                      !.status = "tooling_held", !.verdict = "TOOLING_FAILURE",
                      !.held = worker[p].answer, !.retry = retry, !.head = head]])
    /\ Leaves(p, worker[p].budget - 1)
    /\ Keep /\ UNCHANGED <<task, git, applied>>
Mutant_Hold(p) ==                     \* a conflict is held until a person comes
    Held(p, IF worker[p].answer = "stale" THEN "none" ELSE "waiting")
Hold(p) == Held(p, "waiting")

\* record_terminal
Record(p) ==
    /\ At(p, "record")
    /\ LET r == worker[p].row
           pass == worker[p].answer = "PASS"
           told == [review EXCEPT ![r].status = IF pass THEN "passed" ELSE "revise",
                                  ![r].verdict = worker[p].answer,
                                  ![r].held = "none", ![r].retry = "none"]
       IN /\ review' = IF pass THEN Unlocked(p, told) ELSE told
          /\ IF pass THEN Leaves(p, worker[p].budget - 1) ELSE Goes(p, "fire")
    /\ Keep /\ UNCHANGED <<task, git, applied>>

\* fire_task_external_review_revise: fired once per review and head; at a
\* task blocked by its drive (ensure_blocked_er_reconcile_allowed) or at
\* one in review, about the head as it is.
Revises(t) == {r \in Of(t) \cap With({"revise"}) : review[r].verdict = "REVISE"}

Mutant_Fires(p) == LET r == worker[p].row IN  \* the head is not compared
    <<r, review[r].head>> \notin applied /\ task[Target(p)].status \in {"blocked", "in_review"}
Fires(p) ==
    LET r == worker[p].row
        t == Target(p)
    IN /\ <<r, review[r].head>> \notin applied
       /\ \/ /\ task[t].status = "blocked" /\ task[t].reason = "drive"
             /\ Revises(t) # {} /\ review[Max(Revises(t))].head = branch[t]
          \/ task[t].status = "in_review" /\ review[r].head = branch[t]

\* A blocked task that may not be moved, and a status without the verb, are
\* errors of the run, which do not use up the tick's budget.
Errs(p) ==
    LET r == worker[p].row
        t == Target(p)
    IN /\ <<r, review[r].head>> \notin applied /\ ~Fires(p)
       /\ task[t].status = "blocked" \/ review[r].head = branch[t]

Fire(p) ==
    /\ At(p, "fire")
    /\ IF Fires(p)
         THEN /\ task' = [task EXCEPT ![Target(p)].status = "executing",
                                      ![Target(p)].reason = "none"]
              /\ applied' = applied \cup {<<worker[p].row, review[worker[p].row].head>>}
         ELSE UNCHANGED <<task, applied>>
    /\ review' = Unlocked(p, review)
    /\ Leaves(p, IF Errs(p) THEN worker[p].budget ELSE worker[p].budget - 1)
    /\ Keep /\ UNCHANGED git

-----------------------------------------------------------------------------
(* What the rest of the system does to a task and its reviews              *)

\* A drive's work is committed and passes the code review (TaskWorkflow)
Work(t) ==
    /\ task[t].status = "executing" /\ branch[t][2] < MaxRevisions
    /\ branch' = [branch EXCEPT ![t][2] = @ + 1]
    /\ task' = [task EXCEPT ![t].status = "in_review", ![t].wrapped = FALSE]
    /\ Keep /\ UNCHANGED <<main, review, applied, worker>>

\* submit-wrap with maybe_create_pending_external_review
Open == {"pending", "running"}
Wrap(t) ==
    /\ task[t].status = "in_review" /\ ~task[t].wrapped
    /\ \/ /\ Of(t) \cap With(Open) = {} /\ Len(review) < MaxReviews
          /\ review' = Append(review, Pending(t, NoHead))
       \/ /\ Of(t) \cap With(Open) # {}
          /\ UNCHANGED review
    /\ task' = [task EXCEPT ![t].wrapped = TRUE]
    /\ Keep /\ UNCHANGED <<git, applied, worker>>

\* The drive gives up, or the workflow blocks the task; resume
Block(t, reason) ==
    /\ task[t].status \in {"executing", "in_review"}
    /\ task' = [task EXCEPT ![t].status = "blocked", ![t].reason = reason]
    /\ Spend("manual", MaxManual)
    /\ UNCHANGED <<git, review, applied, worker>>
Resume(t) ==
    /\ task[t].status = "blocked"
    /\ task' = [task EXCEPT ![t].status = "executing", ![t].reason = "none"]
    /\ Keep /\ UNCHANGED <<git, review, applied, worker>>

\* enforce_external_review_accept_precheck
AtHead(t) == {r \in Of(t) : ~review[r].superseded /\ review[r].head = branch[t]}
Mutant_Acceptable(t) ==               \* any PASS of the head will do
    \E r \in AtHead(t) : review[r].status = "passed" /\ review[r].verdict = "PASS"
Acceptable(t) ==
    /\ AtHead(t) # {}
    /\ LET r == Max(AtHead(t)) IN review[r].status = "passed" /\ review[r].verdict = "PASS"
Accept(t) ==
    /\ task[t].status = "in_review" /\ Acceptable(t)
    /\ task' = [task EXCEPT ![t].status = "accepted"]
    /\ Keep /\ UNCHANGED <<git, review, applied, worker>>

\* recover-stale-base: what it reads, and then its one transaction, which
\* fails when the id it computed was taken meanwhile.
StaleHeld(t) ==
    {r \in Of(t) : review[r].status = "tooling_held" /\ review[r].held = "stale"}
ReadStale(p, t) ==
    /\ p \in Person /\ At(p, "idle")
    /\ task[t].status \in {"blocked", "in_review"}
    /\ StaleHeld(t) # {} /\ review[Max(StaleHeld(t))].head # branch[t]
    /\ \A r \in Of(t) \cap With({"pending", "running"}) : review[r].head # branch[t]
    /\ worker' = [worker EXCEPT ![p] = [Idle EXCEPT
                    !.pc = "recover", !.todo = StaleHeld(t), !.head = branch[t],
                    !.row = Len(review) + 1, !.task = {t}]]
    /\ Spend("manual", MaxManual)
    /\ UNCHANGED <<task, git, review, applied>>
RecoverStale(p) ==
    /\ At(p, "recover")
    /\ LET w == worker[p]
           superseded == [r \in Id |-> IF r \in w.todo
                            THEN [review[r] EXCEPT !.status = "superseded", !.superseded = TRUE]
                            ELSE review[r]]
       IN review' = IF w.row = Len(review) + 1 /\ w.row <= MaxReviews
                      THEN Append(superseded, Pending(CHOOSE t \in w.task : TRUE, w.head))
                      ELSE review
    /\ worker' = [worker EXCEPT ![p] = Idle]
    /\ Keep /\ UNCHANGED <<task, git, applied>>

\* import-pass: a PASS given outside, of the head as it is; no subscriber
\* takes it, as it is never pending.
ImportPass(t) ==
    /\ Len(review) < MaxReviews
    /\ review' = Append(review, [Minted(t, "passed", "PASS", branch[t]) EXCEPT
                                   !.shown = branch[t], !.lock = "done"])
    /\ Spend("manual", MaxManual)
    /\ UNCHANGED <<task, git, applied, worker>>

\* create-pending, with the head a person names
CreatePending(t) ==
    /\ Len(review) < MaxReviews
    /\ review' = Append(review, Pending(t, branch[t]))
    /\ Spend("manual", MaxManual)
    /\ UNCHANGED <<task, git, applied, worker>>

\* A person commits to the branch; other work lands; time passes
Edit(t) ==
    /\ branch[t][2] < MaxRevisions
    /\ branch' = [branch EXCEPT ![t][2] = @ + 1]
    /\ Spend("manual", MaxManual)
    /\ UNCHANGED <<task, main, review, applied, worker>>
MainMoves ==
    /\ main < MaxMain
    /\ main' = main + 1
    /\ Keep /\ UNCHANGED <<task, branch, review, applied, worker>>
RetryDue(r) ==
    /\ review[r].retry = "waiting"
    /\ review' = [review EXCEPT ![r].retry = "due"]
    /\ Keep /\ UNCHANGED <<task, git, applied, worker>>

Crash(p) ==
    /\ ~At(p, "idle")
    /\ worker' = [worker EXCEPT ![p] = Idle]
    /\ Spend("failures", MaxFailures)
    /\ UNCHANGED <<task, git, review, applied>>

-----------------------------------------------------------------------------
Init ==
    /\ task = [t \in Task |-> [status |-> "executing", reason |-> "none", wrapped |-> FALSE]]
    /\ main = 0 /\ branch = [t \in Task |-> <<0, 0>>]
    /\ review = <<>> /\ applied = {}
    /\ worker = [p \in Process |-> Idle]
    /\ used = [failures |-> 0, manual |-> 0]

RunStep(p) ==
    \/ Begin(p) \/ Claim(p) \/ Prepare(p) \/ RebaseConflicts(p)
    \/ \E verdict \in {"PASS", "REVISE"} : Answers(p, verdict)
    \/ \E persisted \in BOOLEAN : Fails(p, persisted)
    \/ Hold(p) \/ Record(p) \/ Fire(p) \/ RecoverStale(p)
TickStep(d) == Mint(d) \/ Promote(d) \/ List(d) \/ Pick(d) \/ TickDone(d)
PollStep(d) == TryClaim(d) \/ \E r \in Id : Poll(d, r)
TaskStep(t) == Work(t) \/ Wrap(t)
People ==
    \/ \E p \in Person : (\E r \in Id : RunByHand(p, r)) \/ \E t \in Task : ReadStale(p, t)
    \/ \E t \in Task : \/ \E reason \in {"drive", "other"} : Block(t, reason)
                       \/ Resume(t) \/ Accept(t) \/ ImportPass(t) \/ CreatePending(t) \/ Edit(t)

Next ==
    \/ \E p \in Process : RunStep(p) \/ Crash(p)
    \/ \E d \in Daemon : TickStep(d) \/ PollStep(d)
    \/ \E t \in Task : TaskStep(t)
    \/ \E r \in Id : RetryDue(r)
    \/ MainMoves \/ People

Spec == Init /\ [][Next]_vars

(***************************************************************************)
(* A process goes on with what it runs; a daemon ticks again, however busy *)
(* its polls are; wraps are submitted; time passes.  Nothing is asked of   *)
(* people.                                                                 *)
(***************************************************************************)
FairSpec ==
    /\ Spec
    /\ \A p \in Process : WF_vars(RunStep(p))
    /\ \A d \in Daemon : WF_vars(TickStep(d) \/ TryClaim(d)) /\ SF_vars(Mint(d))
    /\ \A t \in Task : WF_vars(Wrap(t))
    /\ \A r \in 1..MaxReviews : WF_vars(r \in Id /\ RetryDue(r))

-----------------------------------------------------------------------------
(* Properties *)

\* Types; and a review that is held has a time at which it is tried again.
Commit == (0..MaxMain) \X (0..MaxRevisions)
TypeOK ==
    /\ task \in [Task -> [status : {"executing", "in_review", "blocked", "accepted"},
                          reason : {"none", "drive", "other"}, wrapped : BOOLEAN]]
    /\ \A t \in Task : task[t].reason # "none" <=> task[t].status = "blocked"
    /\ main \in 0..MaxMain /\ branch \in [Task -> Commit]
    /\ Len(review) <= MaxReviews
    /\ \A r \in Id : review[r] \in
          [task : Task, head : Commit \cup {NoHead}, shown : Commit \cup {NoHead},
           status : {"pending", "running", "passed", "revise", "tooling_held", "superseded"},
           verdict : {"none", "PASS", "REVISE", "TOOLING_FAILURE"},
           held : {"none", "cap", "stale", "tooling"}, retry : {"none", "waiting", "due"},
           superseded : BOOLEAN, lock : {"none", "open", "done"}]
    /\ \A r \in Id : review[r].status = "tooling_held" => review[r].retry # "none"
    /\ applied \subseteq Id \X Commit
    /\ \A p \in Process : worker[p].row <= Len(review) + 1 /\ worker[p].budget \in 0..Cap

\* However many daemons, polls and people reach for reviews at once, each
\* having looked at the cap before, no more than max_parallel reviewers run:
\* the claim counts again under the write lock.  A review that
\* recover-stale-base supersedes while its reviewer runs drops out of that
\* count (README), and is not counted here either.
Reviewers == {p \in Process : worker[p].pc \in {"git", "review", "record", "hold"}}
CapHolds == Cardinality({p \in Reviewers : ~review[worker[p].row].superseded}) <= Cap

\* No two processes review the same attempt, or answer for it, whichever of
\* the poll, the tick and a person's command brought them to it, and however
\* often it was held, superseded and queued again.
Answering == Reviewers \cup {p \in Process : At(p, "fire")}
OneReviewer ==
    \A p, q \in Answering : worker[p].row = worker[q].row => p = q

\* Acceptance needs a reviewer who was shown the very commit that is
\* accepted, and whose word, the last given on it, was PASS: not a PASS of an
\* earlier head, nor one a later attempt objected to.  (Attempts a person
\* superseded do not count.)
Given(t) == {r \in Of(t) : /\ review[r].shown = branch[t] /\ ~review[r].superseded
                           /\ review[r].verdict \in {"PASS", "REVISE"}}
AcceptedAsReviewed ==
    [][\A t \in Task : task[t].status # "accepted" /\ task'[t].status = "accepted"
          => Given(t) # {} /\ review[Max(Given(t))].verdict = "PASS"]_vars

\* A review that comes late does not send a task back over work its reviewer
\* never saw: when a verdict moves a task, some reviewer objected to the head
\* the task has now.
ObjectedTo(t) ==
    \E r \in Of(t) : review[r].verdict = "REVISE" /\ review[r].shown = branch[t]
RevisesWhatStands ==
    [][\A p \in Process :
          At(p, "fire") /\ worker'[p].pc # "fire" /\ task'[Target(p)] # task[Target(p)]
              => ObjectedTo(Target(p))]_vars

\* What a process that died leaves half done, and nothing takes up again:
\* its review stays running, its lock open, its REVISE unfired.
HalfDone(r) ==
    \/ review[r].status = "running"
    \/ review[r].lock = "open"
    \/ review[r].status = "revise" /\ <<r, review[r].head>> \notin applied
Orphaned == \E r \in Id : HalfDone(r) /\ \A p \in Process : worker[p].row # r

\* A task in review is judged, whatever holds its reviews back (the cap,
\* failing tools, conflicts, failures of one process or another): it gets a
\* PASS, or leaves in_review, or an objection to an older head is on record,
\* unless a process died within a review.
Judged(t) ==
    \/ task[t].status # "in_review"
    \/ \E r \in Of(t) : \/ review[r].status = "passed"
                        \/ review[r].status = "revise" /\ review[r].head # branch[t]
TasksAreJudged ==
    \A t \in Task : task[t].status = "in_review" ~> Judged(t) \/ Orphaned

\* "Every external_reviews row in status=pending MUST eventually be
\* dispatched" (flow/engine_runner.rs), also when the row was seen and left
\* by a poll at the cap; again unless a process died within a review.
Waits(r) == r \in Id /\ review[r].status = "pending"
PendingIsDispatched == \A r \in 1..MaxReviews : Waits(r) ~> ~Waits(r) \/ Orphaned
=============================================================================
