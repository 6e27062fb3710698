----------------------------- MODULE Observations -----------------------------
(***************************************************************************)
(* Observations, from capture to resolution: the architecture reviews      *)
(* (rulings) that gate their ratification, the investigator, the tasks     *)
(* auto-promote mints for ratified observations, and auto-resolve, which   *)
(* closes the observations of a task that shipped.  People and agents act  *)
(* through CLI verbs, each one transaction; the daemon's builtins take     *)
(* several.  The daemon is the one that `agents run --detach` keeps unique *)
(* by its pidfile; it may die at any step and be started again.            *)
(*                                                                         *)
(* A contract is approved whenever a confirm is attempted: without that    *)
(* confirm is refused and changes nothing.  What confirm's own flags could *)
(* change in the row, Edit changes before it.  The verdicts that keep the  *)
(* gate closed, block_pending_fixes and request_human_arch_decision, are   *)
(* one: "hold".  kind follows from the verdict: only amend proposes        *)
(* doctrine.  Merge targets are not recorded.                              *)
(***************************************************************************)
EXTENDS Naturals, Sequences, SequencesExt

CONSTANTS
    Obs, Ruling,
    None,               \* no ruling, task or row
    MaxTasks,           \* bound: tasks there can be
    MaxEvents           \* bound: updates of an observation's contract and flags,
                        \* tasks people add themselves, daemon deaths, failing mints

ASSUME ObservationsAssumption ==
    /\ None \notin Obs \cup Ruling \cup Nat /\ Obs \cap Nat = {}
    /\ {MaxTasks, MaxEvents} \subseteq Nat

Task == 1 .. MaxTasks   \* their ids are given out in order

VARIABLES
    obs,                \* observations
    ruling,             \* architecture_reviews
    task,               \* the tasks linked to observations
    history,            \* transition_history: subscribed edges, as <<agent, row>>
    locked,             \* dispatch_locks: <<agent, row>>, claimed, done or seeded
    daemon,
    lost,               \* history variable: dispatches nobody will finish
    used                \* how much of MaxEvents is spent

rows  == <<obs, ruling, task>>
queue == <<history, locked, daemon, lost>>
vars  == <<rows, queue, used>>

Spend == used < MaxEvents /\ used' = used + 1

Closed == {"resolved", "wont_fix"}
Logged(o) == obs[o].status # "none"

Observation(status, pending) ==
    [status |-> status, pending |-> pending, clearable |-> None, ack |-> None,
     reworked |-> {}, task |-> None]

\* An entry into a subscribed state is written to transition_history.
Enters(agent, row) == history' = history \cup {<<agent, row>>}

-----------------------------------------------------------------------------
(* Rulings.  A ruling is "checked" while its add has verified that no open *)
(* ruling covers its observations and has not yet written the row: the     *)
(* check reads outside the transaction that inserts.                       *)

Written(r) == ruling[r].status \notin {"none", "checked"}
Open(r)    == ruling[r].status \in {"pending", "in_review", "awaiting"}
Ended(r)   == ruling[r].status \in {"issued", "withdrawn", "superseded"}

AddChecks(r, over) ==
    /\ ruling[r].status = "none" /\ over # {} /\ \A o \in over : Logged(o)
    /\ \A q \in Ruling : Open(q) => ruling[q].covers \cap over = {}
    /\ ruling' = [ruling EXCEPT ![r].status = "checked", ![r].covers = over]
    /\ UNCHANGED <<obs, task, queue, used>>

\* mark_architecture_review_gate_on_observations
Gate(r, over) ==
    [o \in Obs |->
        IF o \in over THEN [obs[o] EXCEPT !.pending = TRUE, !.clearable = r] ELSE obs[o]]

Mutant_AddWrites(r) ==                \* the row alone; the gate is left as it is
    /\ ruling[r].status = "checked"
    /\ ruling' = [ruling EXCEPT ![r].status = "pending"]
    /\ UNCHANGED <<obs, task, queue, used>>
AddWrites(r) ==
    /\ ruling[r].status = "checked"
    /\ ruling' = [ruling EXCEPT ![r].status = "pending"]
    /\ obs' = Gate(r, ruling[r].covers)
    /\ UNCHANGED <<task, queue, used>>

ClaimReview(r) ==
    /\ ruling[r].status = "pending"
    /\ ruling' = [ruling EXCEPT ![r].status = "in_review"]
    /\ UNCHANGED <<obs, task, queue, used>>

Clearing == {"allow", "doctrine", "create"}
Verdict  == Clearing \cup {"reframe", "merge", "hold"}

\* apply_verdict_effects, on what the effects of superseding have left
Effect(o, r, v, t) ==
    CASE v \in {"allow", "doctrine"} -> [o EXCEPT !.pending = FALSE]
      [] v = "create"  -> [o EXCEPT !.pending = FALSE, !.task = t]
      [] v = "reframe" -> [o EXCEPT !.pending = TRUE, !.clearable = r]
      [] v = "merge"   -> [o EXCEPT !.pending = FALSE, !.status = "resolved"]
      [] v = "hold"    -> [o EXCEPT !.pending = TRUE]

\* mark_superseded_if_present: a ruling that is missing, or superseded
\* already, is passed over; a withdrawn one refuses.
Retires(s) == s # None /\ Written(s) /\ ruling[s].status # "superseded"

Superseding(s, r) == IF Retires(s) THEN Gate(r, ruling[s].covers) ELSE obs

\* issue-verdict.  An amend goes to a human first and has no effects yet;
\* what it supersedes is superseded at once.
IssueVerdict(r, v, s, t) ==
    LET over == ruling[r].covers
        was  == Superseding(s, r)
    IN
    /\ ruling[r].status = "in_review"
    /\ s # r /\ (s # None => ruling[s].status # "withdrawn")
    /\ v = "merge" => \A o \in over : obs[o].status \notin Closed
    /\ (v = "create") = (t # None) /\ (t # None => task[t].status # "none")
    /\ ruling' = [q \in Ruling |->
                    IF q = r
                    THEN [ruling[q] EXCEPT
                            !.status = IF v = "doctrine" THEN "awaiting" ELSE "issued",
                            !.verdict = v]
                    ELSE IF q = s /\ Retires(s)
                    THEN [ruling[q] EXCEPT !.status = "superseded"] ELSE ruling[q]]
    /\ obs' = [o \in Obs |->
                 IF o \in over /\ v # "doctrine" THEN Effect(was[o], r, v, t) ELSE was[o]]
    /\ UNCHANGED <<task, queue, used>>

RatifyAmend(r) ==
    /\ ruling[r].status = "awaiting"
    /\ ruling' = [ruling EXCEPT ![r].status = "issued"]
    /\ obs' = [o \in Obs |-> IF o \in ruling[r].covers
                             THEN Effect(obs[o], r, "doctrine", None) ELSE obs[o]]
    /\ UNCHANGED <<task, queue, used>>

Withdraw(r) ==
    /\ Open(r)
    /\ ruling' = [ruling EXCEPT ![r].status = "withdrawn"]
    /\ obs' = [o \in Obs |-> IF o \in ruling[r].covers
                             THEN [obs[o] EXCEPT !.pending = FALSE] ELSE obs[o]]
    /\ UNCHANGED <<task, queue, used>>

-----------------------------------------------------------------------------
(* Capture *)

\* observations add, and the intake routes that only log an observation
Log(o) ==
    /\ ~Logged(o)
    /\ obs' = [obs EXCEPT ![o] = Observation("open", FALSE)]
    /\ UNCHANGED <<ruling, task, queue, used>>

\* observations add --lock-contract: logged, confirmed and ratified at once
LogLocked(o) ==
    /\ ~Logged(o)
    /\ obs' = [obs EXCEPT ![o] = Observation("ready", FALSE)]
    /\ Enters("auto_promote", o)
    /\ UNCHANGED <<ruling, task, locked, daemon, lost, used>>

\* intake route, arch_review_candidate: the observation and its ruling.  The
\* flag is raised, but names no ruling.
Route(o, r) ==
    /\ ~Logged(o) /\ ruling[r].status = "none"
    /\ obs' = [obs EXCEPT ![o] = Observation("open", TRUE)]
    /\ ruling' = [ruling EXCEPT ![r].status = "pending", ![r].covers = {o}]
    /\ UNCHANGED <<task, queue, used>>

\* observations update: name a ruling, acknowledge one; the contract is
\* rewritten now, after the verdicts there are.
Edit(o, c, a) ==
    /\ Logged(o) /\ Spend
    /\ obs' = [obs EXCEPT ![o].clearable = c, ![o].ack = a,
                          ![o].reworked = {r \in Ruling : ruling[r].status = "issued"}]
    /\ UNCHANGED <<ruling, task, queue>>

-----------------------------------------------------------------------------
(* The verbs of an observation *)

\* What people and agents may do to an observation without further ado
Moves ==
    [open          |-> {"investigating", "resolved", "wont_fix"},
     investigating |-> {"needs_info"},
     needs_info    |-> {"confirmed"},
     confirmed     |-> {"needs_info", "in_progress", "resolved", "wont_fix"},
     ready         |-> {"resolved", "wont_fix"},
     in_progress   |-> {"resolved"}]

Move(o, to) ==
    /\ obs[o].status \in DOMAIN Moves /\ to \in Moves[obs[o].status]
    /\ obs' = [obs EXCEPT ![o].status = to]
    /\ UNCHANGED <<ruling, task, queue, used>>

RequestInvestigation(o) ==
    /\ obs[o].status = "open"
    /\ obs' = [obs EXCEPT ![o].status = "needs_investigation"]
    /\ Enters("investigator", o)
    /\ UNCHANGED <<ruling, task, locked, daemon, lost, used>>

\* enforce_u1_architecture_gate: the flag is down, or the ruling the row
\* names is over, is about this observation, and lets it pass.
Mutant_Passes(o) ==                   \* the contract may be older than the verdict
    \/ ~obs[o].pending
    \/ \E r \in Ruling :
        /\ obs[o].clearable = r /\ Ended(r) /\ o \in ruling[r].covers
        /\ \/ ruling[r].verdict \in {"allow", "doctrine"}
           \/ ruling[r].verdict = "reframe" /\ obs[o].ack = r
Passes(o) ==
    \/ ~obs[o].pending
    \/ \E r \in Ruling :
        /\ obs[o].clearable = r /\ Ended(r) /\ o \in ruling[r].covers
        /\ \/ ruling[r].verdict \in {"allow", "doctrine"}
           \/ ruling[r].verdict = "reframe" /\ obs[o].ack = r /\ r \in obs[o].reworked

\* confirm, and the framework's ratify in the same transaction
Confirm(o) ==
    /\ obs[o].status = "investigating" /\ Passes(o)
    /\ obs' = [obs EXCEPT ![o].status = "ready", ![o].pending = FALSE]
    /\ Enters("auto_promote", o)
    /\ UNCHANGED <<ruling, task, locked, daemon, lost, used>>

-----------------------------------------------------------------------------
(* Tasks, as far as observations see them *)

Stands(t)   == task[t].status \in {"live", "shipped"}
IsNext(t)  == task[t].status = "none" /\ \A u \in 1 .. t - 1 : task[u].status # "none"
Links(t, o) == \E i \in DOMAIN task[t].links : task[t].links[i] = o

\* tasks add --linked-observations
AddTask(t, links) ==
    /\ IsNext(t) /\ Spend
    /\ \A i \in DOMAIN links : Logged(links[i])
    /\ task' = [task EXCEPT ![t] = [status |-> "live", links |-> links, minted |-> FALSE]]
    /\ UNCHANGED <<obs, ruling, queue>>

Abandon(t) ==
    /\ task[t].status = "live"
    /\ task' = [task EXCEPT ![t].status = "abandoned"]
    /\ UNCHANGED <<obs, ruling, queue, used>>

\* mark_integrated, or close-out-of-band of a task with an executed commit:
\* auto-resolve subscribes to both and treats them alike.
Ship(t) ==
    /\ task[t].status = "live"
    /\ task' = [task EXCEPT ![t].status = "shipped"]
    /\ Enters("auto_resolve", t)
    /\ UNCHANGED <<obs, ruling, locked, daemon, lost, used>>

-----------------------------------------------------------------------------
(* The daemon.  Its startup takes two lists of rows to sweep; afterwards   *)
(* it polls.  A builtin it is in has an agent, a row and a step; a sweep   *)
(* runs the same builtins, without a lock.                                 *)

Agent == {"investigator", "auto_promote", "auto_resolve"}

Free == [agent |-> None, row |-> None, step |-> 0]
Off  == [phase |-> "off", todo |-> {}, job |-> Free]

Idle == daemon.job = Free
In(agent) == ~Idle /\ daemon.job.agent = agent
At(agent, step) == In(agent) /\ daemon.job.step = step

Begins(agent, row) == [agent |-> agent, row |-> row, step |-> 1]
Goes(step) == daemon' = [daemon EXCEPT !.job.step = step]
Returns == daemon' = [daemon EXCEPT !.job = Free]

Mutant_Unresolved(t) ==               \* only if none is closed yet
    \A o \in Obs : Links(t, o) => obs[o].status \notin Closed
Unresolved(t) == \E o \in Obs : Links(t, o) /\ obs[o].status \notin Closed
Live(o) == \E t \in Task : Links(t, o) /\ Stands(t)

\* Ready observations whose tasks have all been abandoned; one that never
\* got a task is not among them.
Orphans == {o \in Obs : obs[o].status = "ready" /\ obs[o].task # None /\ ~Live(o)}

\* seed_starting_line swallows what happened before an agent's first lock;
\* then the sweep of auto-resolve.
Boot ==
    /\ daemon.phase = "off"
    /\ LET new == {a \in Agent : \A e \in locked : e[1] # a}
           old == {e \in history : e[1] \in new}
       IN /\ locked' = locked \cup old
          /\ lost' = (lost \cup old) \ {<<"auto_resolve", t>> : t \in Task}
    /\ daemon' = [Off EXCEPT !.phase = "resolve",
                             !.todo = {t \in Task : task[t].status = "shipped" /\ Unresolved(t)}]
    /\ UNCHANGED <<rows, history, used>>

SweepAgent == [resolve |-> "auto_resolve", promote |-> "auto_promote"]

Sweep(row) ==
    /\ Idle /\ daemon.phase \in DOMAIN SweepAgent /\ row \in daemon.todo
    /\ daemon' = [daemon EXCEPT !.todo = @ \ {row},
                                !.job = Begins(SweepAgent[daemon.phase], row)]
    /\ UNCHANGED <<rows, history, locked, lost, used>>

SweepOver ==
    /\ Idle /\ daemon.phase \in DOMAIN SweepAgent /\ daemon.todo = {}
    /\ daemon' = IF daemon.phase = "resolve"
                 THEN [daemon EXCEPT !.phase = "promote", !.todo = Orphans]
                 ELSE [daemon EXCEPT !.phase = "poll"]
    /\ UNCHANGED <<rows, history, locked, lost, used>>

\* try_claim, once for every row and agent
Claim(agent, row) ==
    /\ Idle /\ daemon.phase = "poll"
    /\ <<agent, row>> \in history \ locked
    /\ locked' = locked \cup {<<agent, row>>}
    /\ daemon' = [daemon EXCEPT !.job = Begins(agent, row)]
    /\ UNCHANGED <<rows, history, lost, used>>

Crash ==
    /\ daemon.phase # "off" /\ Spend
    /\ daemon' = Off
    /\ lost' = lost \cup {e \in {<<daemon.job.agent, daemon.job.row>>} : ~Idle}
    /\ UNCHANGED <<rows, history, locked>>

-----------------------------------------------------------------------------
(* builtin:investigator.  Each framework transition is refused unless the  *)
(* row still has the status it starts from; the agent runs in between.     *)

Fires(o, from, to) ==
    IF obs[o].status = from
    THEN obs' = [obs EXCEPT ![o].status = to]
    ELSE UNCHANGED obs

StartInvestigation ==
    LET o == daemon.job.row IN
    /\ At("investigator", 1)
    /\ Fires(o, "needs_investigation", "investigating")
    /\ IF obs[o].status = "needs_investigation" THEN Goes(2) ELSE Returns
    /\ UNCHANGED <<ruling, task, history, locked, lost, used>>

Mutant_Report(outcome) ==             \* a plain UPDATE
    /\ At("investigator", 2)
    /\ obs' = [obs EXCEPT ![daemon.job.row].status = outcome]
    /\ Returns
    /\ UNCHANGED <<ruling, task, history, locked, lost, used>>
Report(outcome) ==
    /\ At("investigator", 2)
    /\ Fires(daemon.job.row, "investigating", outcome)
    /\ Returns
    /\ UNCHANGED <<ruling, task, history, locked, lost, used>>

(* builtin:auto-promote: look for a task, then mint one.  A mint takes an  *)
(* own transaction and does not look again, nor at the observation.        *)

Mutant_LookForTask ==                 \* the task_id instead of the links
    LET o == daemon.job.row IN
    /\ At("auto_promote", 1)
    /\ IF obs[o].task # None /\ Stands(obs[o].task) THEN Returns ELSE Goes(2)
    /\ UNCHANGED <<rows, history, locked, lost, used>>
Mutant_LookForAnyTask ==              \* abandoned ones count
    /\ At("auto_promote", 1)
    /\ IF \E t \in Task : Links(t, daemon.job.row) THEN Returns ELSE Goes(2)
    /\ UNCHANGED <<rows, history, locked, lost, used>>
LookForTask ==
    /\ At("auto_promote", 1)
    /\ IF Live(daemon.job.row) THEN Returns ELSE Goes(2)
    /\ UNCHANGED <<rows, history, locked, lost, used>>

Mint(t) ==
    LET o == daemon.job.row IN
    /\ At("auto_promote", 2) /\ IsNext(t)
    /\ task' = [task EXCEPT ![t] = [status |-> "live", links |-> <<o>>, minted |-> TRUE]]
    /\ obs' = [obs EXCEPT ![o].task = t]
    /\ Returns
    /\ UNCHANGED <<ruling, history, locked, lost, used>>

\* The transaction fails: one attempt is all the shipped agent has.
MintFails ==
    /\ At("auto_promote", 2) /\ Spend
    /\ Returns
    /\ lost' = lost \cup {<<"auto_promote", daemon.job.row>>}
    /\ UNCHANGED <<rows, history, locked>>

(* builtin:auto-resolve-observation: one transaction for each linked       *)
(* observation, in order; the first that refuses ends the run.             *)

Resolvable == {"open", "investigating", "confirmed", "ready", "needs_info", "in_progress"}

ResolveNext ==
    LET links == task[daemon.job.row].links
        i     == daemon.job.step
    IN
    /\ In("auto_resolve")
    /\ IF i \in DOMAIN links /\ obs[links[i]].status \in Resolvable \cup Closed
         THEN /\ Goes(i + 1)
              /\ IF obs[links[i]].status \in Resolvable
                   THEN obs' = [obs EXCEPT ![links[i]].status = "resolved"]
                   ELSE UNCHANGED obs
         ELSE Returns /\ UNCHANGED obs
    /\ UNCHANGED <<ruling, task, history, locked, lost, used>>

-----------------------------------------------------------------------------
Init ==
    /\ obs = [o \in Obs |-> Observation("none", FALSE)]
    /\ ruling = [r \in Ruling |-> [status |-> "none", covers |-> {}, verdict |-> None]]
    /\ task = [t \in Task |-> [status |-> "none", links |-> <<>>, minted |-> FALSE]]
    /\ history = {} /\ locked = {} /\ lost = {} /\ daemon = Off
    /\ used = 0

\* What the daemon does of itself once it is up
DaemonStep ==
    \/ \E row \in Obs \cup Task : Sweep(row)
    \/ SweepOver
    \/ \E a \in Agent, row \in Obs \cup Task : Claim(a, row)
    \/ StartInvestigation
    \/ \E outcome \in {"investigated", "investigation_failed"} : Report(outcome)
    \/ LookForTask
    \/ \E t \in Task : Mint(t)
    \/ ResolveNext

RulingStep(r) ==
    \/ \E over \in SUBSET Obs : AddChecks(r, over)
    \/ AddWrites(r) \/ ClaimReview(r) \/ RatifyAmend(r) \/ Withdraw(r)
    \/ \E v \in Verdict, s \in Ruling \cup {None}, t \in Task \cup {None} :
          IssueVerdict(r, v, s, t)
    \/ \E o \in Obs : Route(o, r)

ObsStep(o) ==
    \/ Log(o) \/ LogLocked(o) \/ RequestInvestigation(o) \/ Confirm(o)
    \/ \E to \in {"investigating", "needs_info", "confirmed", "in_progress"} \cup Closed :
          Move(o, to)
    \/ \E c, a \in Ruling \cup {None} : Edit(o, c, a)

\* The links people give a task: some observations, in some order
Lists == {s \in UNION {[1 .. n -> Obs] : n \in 1 .. 2} : IsInjective(s)}

TaskStep(t) == Abandon(t) \/ Ship(t) \/ \E links \in Lists : AddTask(t, links)

Next ==
    \/ Boot \/ DaemonStep \/ Crash \/ MintFails
    \/ \E r \in Ruling : RulingStep(r)
    \/ \E o \in Obs : ObsStep(o)
    \/ \E t \in Task : TaskStep(t)

Spec == Init /\ [][Next]_vars

(***************************************************************************)
(* A daemon that is up goes on, and an agent it runs answers or is ended   *)
(* by its limits; which row it takes is left open, as none is taken twice. *)
(* People need not do anything, and nobody promises a restart.             *)
(***************************************************************************)
FairSpec == Spec /\ WF_vars(DaemonStep)

-----------------------------------------------------------------------------
(* Properties *)

ObsStatus == {"none", "open", "needs_investigation", "investigating", "investigated",
              "investigation_failed", "needs_info", "confirmed", "ready", "in_progress"}
             \cup Closed
RulingStatus == {"none", "checked", "pending", "in_review", "awaiting", "issued",
                 "withdrawn", "superseded"}

\* Every variable stays in its domain; builtins work on rows of their store.
TypeOK ==
    /\ obs \in [Obs -> [status : ObsStatus, pending : BOOLEAN,
                        clearable : Ruling \cup {None}, ack : Ruling \cup {None},
                        reworked : SUBSET Ruling, task : Task \cup {None}]]
    /\ ruling \in [Ruling -> [status : RulingStatus, covers : SUBSET Obs,
                              verdict : Verdict \cup {None}]]
    /\ task \in [Task -> [status : {"none", "live", "shipped", "abandoned"},
                          links : Seq(Obs), minted : BOOLEAN]]
    /\ daemon \in [phase : {"off", "resolve", "promote", "poll"},
                   todo : SUBSET (Obs \cup Task),
                   job : [agent : Agent \cup {None}, row : Obs \cup Task \cup {None},
                          step : Nat]]
    /\ Idle \/ daemon.job.row \in IF In("auto_resolve") THEN Task ELSE Obs

\* A review came to an end that lets its observations be ratified, whatever
\* has become of it since.  An amend that was superseded before a person
\* ratified it counts: enforce_u1 asks only that the ruling confirm names is
\* closed and of the clearing kind.
LetGo(r, o) ==
    \/ ruling[r].status = "withdrawn"
    \/ ruling[r].status \in {"issued", "superseded"} /\ ruling[r].verdict \in Clearing
    \/ /\ ruling[r].status \in {"issued", "superseded"} /\ ruling[r].verdict = "reframe"
       /\ obs[o].ack = r /\ r \in obs[o].reworked

Over(o) == {r \in Ruling : Written(r) /\ o \in ruling[r].covers}

\* docs/gatekeeper-design.md, pre-ratification: an observation that was put
\* under review becomes ready only once a review of it has let it go, and a
\* reframed contract only if it was rewritten after the verdict; however its
\* reviews were added at the same time, superseded or withdrawn.
RatifiedUnderReview ==
    [][\A o \in Obs :
         obs[o].status # "ready" /\ obs'[o].status = "ready" /\ Over(o) # {}
             => \E r \in Over(o) : LetGo(r, o)]_vars

\* Until it is ratified or closed, its flag stays up as long as no review has
\* let it go.
FlagStaysUp ==
    \A o \in Obs :
        Over(o) # {} /\ (\A r \in Over(o) : ~LetGo(r, o))
            => obs[o].pending \/ obs[o].status \in Closed \cup {"ready"}

MintedFor(t, o) == task[t].minted /\ Stands(t) /\ Links(t, o)

\* An observation is worked on once: of the tasks minted for it one at most
\* has not been abandoned, whether the dispatch or a startup sweep minted it.
OnePromotion ==
    \A o \in Obs, t, u \in Task :
        MintedFor(t, o) /\ MintedFor(u, o) => t = u

Decided == {"needs_info", "confirmed", "ready", "in_progress"}

\* What people have decided stands, while an investigator still works on its
\* report, verdicts are issued and tasks ship: a confirmed observation does
\* not fall back, and a closed one keeps the way it was closed.
DecisionsStand ==
    [][\A o \in Obs :
         /\ obs[o].status \in Decided => obs'[o].status \in Decided \cup Closed
         /\ obs[o].status \in Closed => obs'[o].status = obs[o].status]_vars

\* While the daemon is up, a ratified observation gets a task, and one whose
\* tasks were all abandoned gets another when the daemon starts, unless the
\* one attempt each has was lost.
Promotable(o) ==
    /\ obs[o].status = "ready"
    /\ (\A t \in Task : ~Links(t, o)) \/ (daemon.phase = "resolve" /\ o \in Orphans)

ReadyIsPromoted ==
    \A o \in Obs :
        Promotable(o) ~> \/ Live(o) \/ obs[o].status # "ready"
                         \/ daemon.phase = "off" \/ <<"auto_promote", o>> \in lost

\* The observations of a shipped task that auto_resolve gets to: those before
\* the first one it cannot close.
Reached(t) ==
    {task[t].links[i] : i \in {i \in DOMAIN task[t].links :
        \A j \in 1 .. i : obs[task[t].links[j]].status \in Resolvable \cup Closed}}

\* While the daemon is up, what shipped is closed, link by link: by its
\* dispatch, or, if the daemon died before, between or after the closings of
\* that, by the sweep of the next start.
ToResolve(t) ==
    \/ <<"auto_resolve", t>> \in history \ locked
    \/ daemon.phase = "resolve" /\ task[t].status = "shipped"

ShippedIsResolved ==
    \A t \in Task :
        ToResolve(t) ~> \/ \A o \in Reached(t) : obs[o].status \in Closed
                        \/ daemon.phase = "off" \/ <<"auto_resolve", t>> \in lost
=============================================================================
