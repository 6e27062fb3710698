------------------------------ MODULE Dispatch ------------------------------
(***************************************************************************)
(* `stores agents run` (handlers/agents_run.rs): daemons that poll the     *)
(* transition_history table, claim a dispatch_locks row for each           *)
(* subscribed transition, run the agent's command and retry failures.      *)
(* Any number of daemons poll the same database (only --detach writes a    *)
(* pidfile); a daemon runs one command at a time, and may die at any step. *)
(*                                                                         *)
(* A piece of work is a row and an agent: dispatch_locks is UNIQUE in the  *)
(* pair.  A daemon visits agents and rows in declaration order; here it    *)
(* visits them in any order.  exit_nonzero and error, which the code       *)
(* treats alike, are one state, "failed".  The auto-drive agent, whose     *)
(* locks are closed by the process it spawns, is not modelled here.        *)
(***************************************************************************)
EXTENDS Naturals

CONSTANTS
    Daemon, Row, Agent,
    Edge,               \* the (from, to) pairs of statuses
    Nothing,            \* no row, agent or edge
    Subscribes,         \* Subscribes[a]: the edges of an agent's subscribes_to
    MaxAttempts,        \* MaxAttempts[a]: its retry_policy.max_attempts
    MaxCrashes,         \* bound: daemons that die or lose their last update
    MaxLimits,          \* bound: runs that hit a provider's rate limit
    MaxGates            \* bound: changes of a policy's or predicate's verdict

Work    == Row \X Agent
Verdict == {"pass", "false", "halt"}

ASSUME DispatchAssumption ==
    /\ Nothing \notin Work \cup Agent \cup Edge
    /\ Subscribes \in [Agent -> SUBSET Edge]
    /\ MaxAttempts \in [Agent -> Nat]
    /\ {MaxCrashes, MaxLimits, MaxGates} \subseteq Nat

VARIABLES
    history,            \* transition_history: the edges each row has taken
    gate,               \* what policy and predicate say of each piece of work
    lock,               \* dispatch_locks
    daemon,             \* the daemons, with the locals of their poll
    runs, limits,       \* history variables: runs started, and rate-limited
    used                \* how much of each bound is spent

world == <<history, gate>>
ghost == <<runs, limits>>
vars  == <<world, lock, daemon, ghost, used>>

Spend(bound, max) == used[bound] < max /\ used' = [used EXCEPT ![bound] = @ + 1]

-----------------------------------------------------------------------------
(* dispatch_locks: state stands for terminal_reason and finished_at (both  *)
(* NULL while open), retry for next_retry_at.                              *)

Lock(state, edge, attempt, attempts, retry) ==
    [state |-> state, edge |-> edge, attempt |-> attempt, attempts |-> attempts,
     retry |-> retry]

Absent(w) == lock[w].state = "absent"
Claimed(e) == Lock("open", e, 0, 0, "none")
Historical == Lock("historical", Nothing, 0, 0, "none")

\* mark_claim_finished_typed: a run that succeeded but whose postcondition
\* does not hold has failed.
Finished(w, outcome) ==
    LET k == lock[w].attempts + 1 IN
    Lock(outcome, lock[w].edge, k, k,
         IF outcome = "failed" /\ k < MaxAttempts[w[2]] THEN "waiting" ELSE "none")

\* mark_claim_rate_limit_cooldown: the attempt is not charged.
Limited(w) == [lock[w] EXCEPT !.state = "rate_limit", !.retry = "waiting"]

\* claim_for_retry
Retried(w) == Lock("open", lock[w].edge, lock[w].attempt + 1, lock[w].attempts, "none")

\* find_retryable_locks: what it returns are snapshots.
Mutant_Due(a) ==                      \* the attempt limit holds for cooldowns too
    {[work |-> w, state |-> lock[w].state, attempt |-> lock[w].attempt] :
        w \in {w \in Row \X {a} :
                /\ lock[w].retry = "due" /\ lock[w].edge \in Subscribes[a]
                /\ lock[w].attempt < MaxAttempts[a]}}
Due(a) ==
    {[work |-> w, state |-> lock[w].state, attempt |-> lock[w].attempt] :
        w \in {w \in Row \X {a} :
                /\ lock[w].retry = "due" /\ lock[w].edge \in Subscribes[a]
                /\ \/ lock[w].state = "rate_limit"
                   \/ lock[w].state = "failed" /\ lock[w].attempt < MaxAttempts[a]}}

-----------------------------------------------------------------------------
(* run_daemon: start, and draw the starting line *)

Mutant_StillAsSeen(c) == lock[c.work].state = c.state    \* CAS without the attempt
StillAsSeen(c) == lock[c.work].state = c.state /\ lock[c.work].attempt = c.attempt

Off == [pc |-> "off", at |-> Nothing, edge |-> Nothing, line |-> Nothing,
        bound |-> {}, left |-> {}, subs |-> {}, todo |-> {}]

\* Back to the poll loop, with what is left of the list of retries
Polls(d) ==
    daemon' = [daemon EXCEPT ![d].pc = "poll", ![d].at = Nothing, ![d].edge = Nothing]

\* snapshot_max_transition_id
Boot(d) ==
    /\ daemon[d].pc = "off"
    /\ daemon' = [daemon EXCEPT ![d] =
                    [Off EXCEPT !.pc = "seed", !.bound = history, !.left = Agent]]
    /\ UNCHANGED <<world, lock, ghost, used>>

\* agent_has_been_seeded: has any row a lock of this agent?
CheckSeeded(d, a) ==
    /\ daemon[d].pc = "seed" /\ daemon[d].line = Nothing /\ a \in daemon[d].left
    /\ IF \E r \in Row : ~Absent(<<r, a>>)
         THEN daemon' = [daemon EXCEPT ![d].left = @ \ {a}]
         ELSE daemon' = [daemon EXCEPT ![d].line = a, ![d].subs = Subscribes[a]]
    /\ UNCHANGED <<world, lock, ghost, used>>

\* One INSERT OR IGNORE for each subscription: a skip-historical lock for
\* every transition up to the bound.
Seed(d, e) ==
    /\ daemon[d].pc = "seed" /\ e \in daemon[d].subs
    /\ lock' = [w \in Work |->
                  IF w[2] = daemon[d].line /\ Absent(w) /\ <<w[1], e>> \in daemon[d].bound
                  THEN Historical ELSE lock[w]]
    /\ daemon' = [daemon EXCEPT ![d].subs = @ \ {e}]
    /\ UNCHANGED <<world, ghost, used>>

Seeded(d) ==
    /\ daemon[d].pc = "seed" /\ daemon[d].line # Nothing /\ daemon[d].subs = {}
    /\ daemon' = [daemon EXCEPT ![d].left = @ \ {daemon[d].line}, ![d].line = Nothing]
    /\ UNCHANGED <<world, lock, ghost, used>>

StartPolling(d) ==
    /\ daemon[d].pc = "seed" /\ daemon[d].left = {}
    /\ daemon' = [daemon EXCEPT ![d].pc = "poll", ![d].bound = {}]
    /\ UNCHANGED <<world, lock, ghost, used>>

-----------------------------------------------------------------------------
(* poll_once_with_guard: the forward pass *)

\* A transition whose policy and predicate let it pass.  (A row whose lock
\* exists is considered again in every poll; its claim fails.)
Consider(d, w, e) ==
    /\ daemon[d].pc = "poll" /\ daemon[d].todo = {}
    /\ e \in Subscribes[w[2]] /\ <<w[1], e>> \in history
    /\ gate[w] = "pass" /\ Absent(w)
    /\ daemon' = [daemon EXCEPT ![d].pc = "claim", ![d].at = w, ![d].edge = e]
    /\ UNCHANGED <<world, lock, ghost, used>>

Runs(d, w) ==
    /\ daemon' = [daemon EXCEPT ![d].pc = "run"]
    /\ runs' = [runs EXCEPT ![w] = @ + 1]

\* try_claim: INSERT, which loses to any lock of this row and agent
Mutant_TryClaim(d) ==                 \* INSERT OR REPLACE
    LET w == daemon[d].at IN
    /\ daemon[d].pc = "claim"
    /\ lock' = [lock EXCEPT ![w] = Claimed(daemon[d].edge)] /\ Runs(d, w)
    /\ UNCHANGED <<world, limits, used>>
TryClaim(d) ==
    LET w == daemon[d].at IN
    /\ daemon[d].pc = "claim"
    /\ IF Absent(w)
         THEN lock' = [lock EXCEPT ![w] = Claimed(daemon[d].edge)] /\ Runs(d, w)
         ELSE Polls(d) /\ UNCHANGED <<lock, runs>>
    /\ UNCHANGED <<world, limits, used>>

\* The command has ended, and its outcome is written to the lock.
Finish(d, outcome) ==
    LET w == daemon[d].at IN
    /\ daemon[d].pc = "run"
    /\ IF outcome = "rate_limit"
         THEN /\ Spend("limits", MaxLimits)
              /\ lock' = [lock EXCEPT ![w] = Limited(w)]
              /\ limits' = [limits EXCEPT ![w] = @ + 1]
         ELSE /\ lock' = [lock EXCEPT ![w] = Finished(w, outcome)]
              /\ UNCHANGED <<limits, used>>
    /\ Polls(d)
    /\ UNCHANGED <<world, runs>>

-----------------------------------------------------------------------------
(* The retry pass *)

FindRetryable(d, a) ==
    /\ daemon[d].pc = "poll" /\ daemon[d].todo = {} /\ Due(a) # {}
    /\ daemon' = [daemon EXCEPT ![d].todo = Due(a)]
    /\ UNCHANGED <<world, lock, ghost, used>>

\* claim_for_retry: compare-and-swap on attempt and terminal_reason
ClaimForRetry(d, c) ==
    /\ daemon[d].pc = "poll" /\ c \in daemon[d].todo
    /\ IF StillAsSeen(c)
         THEN /\ lock' = [lock EXCEPT ![c.work] = Retried(c.work)]
              /\ daemon' = [daemon EXCEPT ![d].todo = @ \ {c}, ![d].pc = "gate",
                                          ![d].at = c.work]
         ELSE /\ daemon' = [daemon EXCEPT ![d].todo = @ \ {c}]
              /\ UNCHANGED lock
    /\ UNCHANGED <<world, ghost, used>>

\* Policy and predicate are asked again, now that the retry is claimed.
RetryPasses(d) ==
    /\ daemon[d].pc = "gate" /\ gate[daemon[d].at] = "pass"
    /\ Runs(d, daemon[d].at)
    /\ UNCHANGED <<world, lock, limits, used>>

\* mark_retry_halted
RetryHalted(d) ==
    /\ daemon[d].pc = "gate" /\ gate[daemon[d].at] = "halt"
    /\ lock' = [lock EXCEPT ![daemon[d].at].state = "halted"]
    /\ Polls(d)
    /\ UNCHANGED <<world, ghost, used>>

\* continue: the claim is not undone.
RetryGatedOut(d) ==
    /\ daemon[d].pc = "gate" /\ gate[daemon[d].at] = "false"
    /\ Polls(d)
    /\ UNCHANGED <<world, lock, ghost, used>>

-----------------------------------------------------------------------------
(* Faults, and the world around the daemons *)

\* The process ends: killed, SIGTERM, --max-iters, or exec of a new binary,
\* which happens between polls and, for a stale one, after a claim (1467).
Crash(d) ==
    /\ daemon[d].pc # "off" /\ Spend("crashes", MaxCrashes)
    /\ daemon' = [daemon EXCEPT ![d] = Off]
    /\ UNCHANGED <<world, lock, ghost>>

\* let _ = mark_claim_finished_typed: an UPDATE that fails is not noticed.
FinishLost(d) ==
    /\ daemon[d].pc = "run" /\ Spend("crashes", MaxCrashes)
    /\ Polls(d)
    /\ UNCHANGED <<world, lock, ghost>>

\* The wall clock passes next_retry_at.
CoolsDown(w) ==
    /\ lock[w].retry = "waiting"
    /\ lock' = [lock EXCEPT ![w].retry = "due"]
    /\ UNCHANGED <<world, daemon, ghost, used>>

Transition(r, e) ==
    /\ <<r, e>> \notin history
    /\ history' = history \cup {<<r, e>>}
    /\ UNCHANGED <<gate, lock, daemon, ghost, used>>

\* A column a predicate or a policy reads is edited.
Regate(w, verdict) ==
    /\ gate[w] # verdict /\ Spend("gates", MaxGates)
    /\ gate' = [gate EXCEPT ![w] = verdict]
    /\ UNCHANGED <<history, lock, daemon, ghost>>

-----------------------------------------------------------------------------
NothingClaimed ==
    /\ lock = [w \in Work |-> Lock("absent", Nothing, 0, 0, "none")]
    /\ daemon = [d \in Daemon |-> Off]
    /\ runs = [w \in Work |-> 0] /\ limits = [w \in Work |-> 0]
    /\ used = [b \in {"crashes", "limits", "gates"} |-> 0]

Init == history = {} /\ gate = [w \in Work |-> "pass"] /\ NothingClaimed

Outcome == {"ok", "failed", "rate_limit"}

\* What a daemon does next once it has something in hand
Bookkeeps(d) ==
    \/ Seeded(d) \/ StartPolling(d) \/ TryClaim(d)
    \/ RetryPasses(d) \/ RetryHalted(d) \/ RetryGatedOut(d)
    \/ \E a \in Agent : CheckSeeded(d, a)
    \/ \E e \in Edge : Seed(d, e)
    \/ \E c \in daemon[d].todo : ClaimForRetry(d, c)

Proceeds(d) == Bookkeeps(d) \/ \E outcome \in Outcome : Finish(d, outcome)

\* Where the poll looks for work
Polling(d) ==
    \/ \E a \in Agent : FindRetryable(d, a)
    \/ \E w \in Work, e \in Edge : Consider(d, w, e)

DaemonNext(d) == Boot(d) \/ Proceeds(d) \/ Polling(d) \/ Crash(d) \/ FinishLost(d)

WorldNext ==
    \/ \E w \in Work : CoolsDown(w)
    \/ \E r \in Row, e \in Edge : Transition(r, e)
    \/ \E w \in Work, verdict \in Verdict : Regate(w, verdict)

Next == (\E d \in Daemon : DaemonNext(d)) \/ WorldNext
Spec == Init /\ [][Next]_vars

(***************************************************************************)
(* Commands return and clocks go on.  A daemon that is up keeps polling;   *)
(* what it takes up first is left open, as a row is only claimed once and  *)
(* retried a bounded number of times.  Nobody promises that a daemon that  *)
(* died is started again.                                                  *)
(***************************************************************************)
Fairness ==
    /\ \A d \in Daemon : WF_vars(Proceeds(d) \/ Polling(d))
    /\ \A w \in Work : WF_vars(CoolsDown(w))

FairSpec == Spec /\ Fairness

-----------------------------------------------------------------------------
(* Properties *)

LockState == {"absent", "open", "ok", "failed", "rate_limit", "halted", "historical"}
Locks == [state : LockState, edge : Edge \cup {Nothing}, attempt : Nat, attempts : Nat,
          retry : {"none", "waiting", "due"}]
Candidates == [work : Work, state : {"failed", "rate_limit"}, attempt : Nat]
Daemons ==
    [pc : {"off", "seed", "poll", "claim", "run", "gate"},
     at : Work \cup {Nothing}, edge : Edge \cup {Nothing}, line : Agent \cup {Nothing},
     bound : SUBSET (Row \X Edge), left : SUBSET Agent, subs : SUBSET Edge,
     todo : SUBSET Candidates]

\* Every variable stays in its domain; a daemon with a claim has a row and
\* an agent in hand; only a run that ended badly is scheduled again.
TypeOK ==
    /\ history \subseteq Row \X Edge
    /\ gate \in [Work -> Verdict]
    /\ lock \in [Work -> Locks]
    /\ \A w \in Work : lock[w].retry # "none" => lock[w].state \in {"failed", "rate_limit"}
    /\ daemon \in [Daemon -> Daemons]
    /\ \A d \in Daemon : daemon[d].pc \in {"claim", "run", "gate"} => daemon[d].at \in Work
    /\ runs \in [Work -> Nat] /\ limits \in [Work -> Nat]
    /\ used \in [{"crashes", "limits", "gates"} -> Nat]

\* Daemon d holds work w: it runs the command, or is about to.
Holds(d, w) == daemon[d].pc \in {"run", "gate"} /\ daemon[d].at = w

\* Two daemons never run the same agent on the same row, whichever pass
\* (first claim, retry, seeding after a restart) each came through.
OneRunAtATime ==
    \A d1, d2 \in Daemon, w \in Work : Holds(d1, w) /\ Holds(d2, w) => d1 = d2

Budget(a) == IF MaxAttempts[a] = 0 THEN 1 ELSE MaxAttempts[a]

\* retry_policy bounds what an agent may cost: it is run on a row at most
\* max_attempts times (once, if that is 0), rate-limited runs not counted,
\* through any number of daemons, crashes and stale retry lists.
RunsWithinPolicy == \A w \in Work : runs[w] <= Budget(w[2]) + limits[w]

Settled(l) ==
    l.state \in {"ok", "halted", "historical"} \/ (l.state = "failed" /\ l.retry = "none")

\* What is settled stays settled: a success, a halt, an exhausted failure or
\* a starting-line marker is not reopened by a daemon that read the lock
\* earlier.
SettledStays == [][\A w \in Work : Settled(lock[w]) => lock'[w] = lock[w]]_vars

AllOff == \A d \in Daemon : daemon[d].pc = "off"

\* While a daemon is up, a scheduled retry is taken, a cooldown too, however
\* many attempts the lock has seen.
RetriesAreTaken ==
    \A w \in Work : lock[w].retry # "none" ~> lock[w].retry = "none" \/ AllOff
=============================================================================
