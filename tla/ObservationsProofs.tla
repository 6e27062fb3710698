-------------------------- MODULE ObservationsProofs --------------------------
(***************************************************************************)
(* Theorems about Observations, for any observations, rulings and bounds.  *)
(***************************************************************************)
EXTENDS Observations, TLAPS

-----------------------------------------------------------------------------
(* The inductive invariant *)

\* What is dispatched, and what a sweep has listed, are rows of the store
\* the builtin works on.
Dispatched == ({"investigator", "auto_promote"} \X Obs) \cup ({"auto_resolve"} \X Task)

WorkSound ==
    /\ history \subseteq Dispatched
    /\ daemon.phase = "resolve" => daemon.todo \subseteq Task
    /\ daemon.phase = "promote" => daemon.todo \subseteq Obs

\* Rulings are about observations that were logged, and only an amend waits
\* for a human.
RulingsSound ==
    \A r \in Ruling :
        /\ ruling[r].status # "none" => \A o \in ruling[r].covers : Logged(o)
        /\ ruling[r].status = "awaiting" => ruling[r].verdict = "doctrine"

\* A review that let the observation go by itself: no later update of the
\* row takes that back, as it does for a reframe.
Released(r) ==
    \/ ruling[r].status = "withdrawn"
    \/ ruling[r].status \in {"issued", "superseded"} /\ ruling[r].verdict \in Clearing

FlagUp ==
    \A o \in Obs :
        Over(o) # {} /\ (\A r \in Over(o) : ~Released(r))
            => obs[o].pending \/ obs[o].status \in Closed \cup {"ready"}

\* Auto-promote goes on to mint only when no minted task stands.
LooksFirst ==
    At("auto_promote", 2) => \A t \in Task : ~MintedFor(t, daemon.job.row)

IInv == TypeOK /\ WorkSound /\ RulingsSound /\ FlagUp /\ LooksFirst /\ OnePromotion

-----------------------------------------------------------------------------
(* Rows *)

ObsRow ==
    [status : ObsStatus, pending : BOOLEAN, clearable : Ruling \cup {None},
     ack : Ruling \cup {None}, reworked : SUBSET Ruling, task : Task \cup {None}]
RulingRow == [status : RulingStatus, covers : SUBSET Obs, verdict : Verdict \cup {None}]
TaskRow ==
    [status : {"none", "live", "shipped", "abandoned"}, links : Seq(Obs), minted : BOOLEAN]
Job == [agent : Agent \cup {None}, row : Obs \cup Task \cup {None}, step : Nat]
Daemon ==
    [phase : {"off", "resolve", "promote", "poll"}, todo : SUBSET (Obs \cup Task), job : Job]

RowsTyped ==
    obs \in [Obs -> ObsRow] /\ ruling \in [Ruling -> RulingRow] /\ task \in [Task -> TaskRow]

LEMMA TypeParts ==
    TypeOK <=> /\ RowsTyped /\ daemon \in Daemon
               /\ Idle \/ daemon.job.row \in IF In("auto_resolve") THEN Task ELSE Obs
BY DEF TypeOK, RowsTyped, ObsRow, RulingRow, TaskRow, Job, Daemon

LEMMA Statuses ==
    /\ {"open", "needs_investigation", "investigating", "investigated",
        "investigation_failed", "needs_info", "confirmed", "ready", "in_progress"}
         \subseteq ObsStatus
    /\ Closed \subseteq ObsStatus /\ Closed = {"resolved", "wont_fix"}
    /\ Task \subseteq Nat /\ Agent = {"investigator", "auto_promote", "auto_resolve"}
BY DEF ObsStatus, Closed, Task, Agent

\* The effects on the gate keep the rows' types.
LEMMA GateTyped ==
    ASSUME RowsTyped, NEW r \in Ruling, NEW over \in SUBSET Obs
    PROVE  Gate(r, over) \in [Obs -> ObsRow]
BY DEF RowsTyped, ObsRow, Gate

LEMMA EffectTyped ==
    ASSUME NEW x \in ObsRow, NEW r \in Ruling, NEW v \in Verdict,
           NEW t \in Task \cup {None}
    PROVE  Effect(x, r, v, t) \in ObsRow
BY Statuses DEF ObsRow, Effect, Verdict, Clearing

\* The effect of a verdict leaves the status alone, or resolves the row.
LEMMA EffectStatus ==
    ASSUME NEW x \in ObsRow, NEW r \in Ruling, NEW v \in Verdict,
           NEW t \in Task \cup {None}
    PROVE  Effect(x, r, v, t).status \in {x.status, "resolved"}
<1>1. CASE v \in {"allow", "doctrine"}
  BY <1>1 DEF Effect, ObsRow
<1>2. CASE v \in {"create", "reframe"}
  BY <1>2 DEF Effect, ObsRow
<1>3. CASE v \in {"merge", "hold"}
  BY <1>3 DEF Effect, ObsRow
<1> QED  BY <1>1, <1>2, <1>3 DEF Verdict, Clearing

LEMMA SupersedingTyped ==
    ASSUME RowsTyped, NEW s \in Ruling \cup {None}, NEW r \in Ruling
    PROVE  Superseding(s, r) \in [Obs -> ObsRow]
<1>1. CASE Retires(s)
  <2>1. s \in Ruling
    BY <1>1 DEF Retires
  <2>2. ruling[s].covers \in SUBSET Obs
    BY <2>1 DEF RowsTyped, RulingRow
  <2> QED  BY <1>1, <2>2, GateTyped DEF Superseding
<1>2. CASE ~Retires(s)
  BY <1>2 DEF Superseding, RowsTyped
<1> QED  BY <1>1, <1>2

LEMMA RulingSteps ==
    ASSUME RowsTyped, NEW r \in Ruling, RulingStep(r)
    PROVE  RowsTyped'
<1>1. ASSUME NEW over \in SUBSET Obs, AddChecks(r, over) PROVE RowsTyped'
  BY <1>1 DEF RowsTyped, RulingRow, RulingStatus, AddChecks
<1>2. ASSUME AddWrites(r) PROVE RowsTyped'
  <2>1. Gate(r, ruling[r].covers) \in [Obs -> ObsRow]
    BY GateTyped DEF RowsTyped, RulingRow
  <2> QED  BY <1>2, <2>1 DEF RowsTyped, RulingRow, RulingStatus, AddWrites
<1>3. ASSUME ClaimReview(r) PROVE RowsTyped'
  BY <1>3 DEF RowsTyped, RulingRow, RulingStatus, ClaimReview
<1>4. ASSUME RatifyAmend(r) PROVE RowsTyped'
  <2>1. \A o \in Obs : Effect(obs[o], r, "doctrine", None) \in ObsRow
    BY EffectTyped DEF RowsTyped, Verdict, Clearing
  <2> QED  BY <1>4, <2>1 DEF RowsTyped, RulingRow, RulingStatus, RatifyAmend
<1>5. ASSUME Withdraw(r) PROVE RowsTyped'
  <2>1. \A o \in Obs : [obs[o] EXCEPT !.pending = FALSE] \in ObsRow
    BY DEF RowsTyped, ObsRow
  <2>2. obs' \in [Obs -> ObsRow]
    BY <1>5, <2>1 DEF RowsTyped, Withdraw
  <2>3. ruling' \in [Ruling -> RulingRow]
    BY <1>5 DEF RowsTyped, RulingRow, RulingStatus, Withdraw
  <2> QED  BY <1>5, <2>2, <2>3 DEF RowsTyped, Withdraw
<1>6. ASSUME NEW v \in Verdict, NEW s \in Ruling \cup {None}, NEW t \in Task \cup {None},
             IssueVerdict(r, v, s, t)
      PROVE  RowsTyped'
  <2>1. \A o \in Obs : Superseding(s, r)[o] \in ObsRow
    BY SupersedingTyped
  <2>2. \A o \in Obs : Effect(Superseding(s, r)[o], r, v, t) \in ObsRow
    BY <2>1, EffectTyped
  <2>3. obs' \in [Obs -> ObsRow]
    BY <1>6, <2>1, <2>2 DEF IssueVerdict
  <2>4. ruling' \in [Ruling -> RulingRow]
    BY <1>6 DEF IssueVerdict, RowsTyped, RulingRow, RulingStatus
  <2> QED  BY <1>6, <2>3, <2>4 DEF IssueVerdict, RowsTyped
<1>7. ASSUME NEW o \in Obs, Route(o, r) PROVE RowsTyped'
  BY <1>7, Statuses DEF RowsTyped, RulingRow, ObsRow, RulingStatus, Route, Observation
<1> QED  BY <1>1, <1>2, <1>3, <1>4, <1>5, <1>6, <1>7 DEF RulingStep

LEMMA ObsSteps ==
    ASSUME RowsTyped, NEW o \in Obs, ObsStep(o)
    PROVE  RowsTyped'
<1>1. ASSUME Log(o) \/ LogLocked(o) PROVE RowsTyped'
  <2>1. Observation("open", FALSE) \in ObsRow /\ Observation("ready", FALSE) \in ObsRow
    BY Statuses DEF Observation, ObsRow
  <2> QED  BY <1>1, <2>1 DEF RowsTyped, Log, LogLocked
<1>2. ASSUME RequestInvestigation(o) \/ Confirm(o) PROVE RowsTyped'
  BY <1>2, Statuses DEF RowsTyped, ObsRow, RequestInvestigation, Confirm
<1>3. ASSUME NEW to \in {"investigating", "needs_info", "confirmed", "in_progress"} \cup Closed,
             Move(o, to)
      PROVE  RowsTyped'
  BY <1>3, Statuses DEF RowsTyped, ObsRow, Move
<1>4. ASSUME NEW c \in Ruling \cup {None}, NEW a \in Ruling \cup {None}, Edit(o, c, a)
      PROVE  RowsTyped'
  <2> DEFINE x == [obs[o] EXCEPT !.clearable = c, !.ack = a,
                                 !.reworked = {r \in Ruling : ruling[r].status = "issued"}]
  <2>1. obs' = [obs EXCEPT ![o] = x]
    BY <1>4 DEF RowsTyped, ObsRow, Edit
  <2>2. x \in ObsRow
    BY DEF RowsTyped, ObsRow
  <2> HIDE DEF x
  <2> QED  BY <1>4, <2>1, <2>2 DEF RowsTyped, Edit
<1> QED  BY <1>1, <1>2, <1>3, <1>4 DEF ObsStep

LEMMA TaskSteps ==
    ASSUME RowsTyped, NEW t \in Task, TaskStep(t)
    PROVE  RowsTyped'
<1>1. ASSUME Abandon(t) \/ Ship(t) PROVE RowsTyped'
  BY <1>1 DEF RowsTyped, TaskRow, Abandon, Ship
<1>2. ASSUME NEW links \in Lists, AddTask(t, links) PROVE RowsTyped'
  <2>1. PICK n \in 1 .. 2 : links \in [1 .. n -> Obs]
    BY DEF Lists
  <2>2. links \in Seq(Obs)
    BY <2>1
  <2> QED  BY <1>2, <2>2 DEF RowsTyped, TaskRow, AddTask
<1> QED  BY <1>1, <1>2 DEF TaskStep

\* The row a builtin works on
LEMMA AtWork ==
    ASSUME TypeOK
    PROVE  /\ In("investigator") \/ In("auto_promote") => daemon.job.row \in Obs
           /\ In("auto_resolve") => daemon.job.row \in Task
           /\ \A a \in Agent, n \in Nat : At(a, n) => In(a)
BY DEF TypeOK, In, At, Idle

LEMMA DaemonSteps ==
    ASSUME TypeOK, DaemonStep
    PROVE  RowsTyped'
<1> USE TypeParts
<1>1. ASSUME NEW row, Sweep(row) PROVE RowsTyped'
  BY <1>1 DEF Sweep, rows, RowsTyped
<1>2. ASSUME SweepOver PROVE RowsTyped'
  BY <1>2 DEF SweepOver, rows, RowsTyped
<1>3. ASSUME NEW a, NEW row, Claim(a, row) PROVE RowsTyped'
  BY <1>3 DEF Claim, rows, RowsTyped
<1>4. ASSUME StartInvestigation PROVE RowsTyped'
  BY <1>4, Statuses DEF StartInvestigation, RowsTyped, ObsRow, Fires
<1>5. ASSUME NEW outcome \in {"investigated", "investigation_failed"}, Report(outcome)
      PROVE  RowsTyped'
  BY <1>5, Statuses DEF Report, RowsTyped, ObsRow, Fires
<1>6. ASSUME LookForTask PROVE RowsTyped'
  BY <1>6 DEF LookForTask, rows, RowsTyped
<1>7. ASSUME NEW t \in Task, Mint(t) PROVE RowsTyped'
  <2>1. daemon.job.row \in Obs
    BY <1>7, AtWork, Statuses DEF Mint
  <2>2. [status |-> "live", links |-> <<daemon.job.row>>, minted |-> TRUE] \in TaskRow
    BY <2>1 DEF TaskRow
  <2>3. task' \in [Task -> TaskRow]
    BY <1>7, <2>2 DEF Mint, RowsTyped
  <2>4. obs' \in [Obs -> ObsRow]
    BY <1>7, <2>1 DEF Mint, RowsTyped, ObsRow
  <2> QED  BY <1>7, <2>3, <2>4 DEF Mint, RowsTyped
<1>8. ASSUME ResolveNext PROVE RowsTyped'
  <2>1. task[daemon.job.row] \in TaskRow
    BY <1>8, AtWork DEF ResolveNext, RowsTyped
  <2>2. \A i \in DOMAIN task[daemon.job.row].links : task[daemon.job.row].links[i] \in Obs
    BY <2>1 DEF TaskRow
  <2>3. \/ UNCHANGED obs
        \/ \E i \in DOMAIN task[daemon.job.row].links :
              obs' = [obs EXCEPT ![task[daemon.job.row].links[i]].status = "resolved"]
    BY <1>8 DEF ResolveNext
  <2>4. UNCHANGED obs \/ \E o \in Obs : obs' = [obs EXCEPT ![o].status = "resolved"]
    BY <2>2, <2>3
  <2>5. obs \in [Obs -> ObsRow] /\ "resolved" \in ObsStatus
    BY Statuses DEF RowsTyped
  <2>6. obs' \in [Obs -> ObsRow]
    BY <2>4, <2>5 DEF ObsRow
  <2> QED  BY <1>8, <2>6 DEF ResolveNext, RowsTyped
<1> QED  BY <1>1, <1>2, <1>3, <1>4, <1>5, <1>6, <1>7, <1>8 DEF DaemonStep

LEMMA RowsStayTyped ==
    ASSUME TypeOK, [Next]_vars
    PROVE  RowsTyped'
<1> USE TypeParts
<1>1. ASSUME Boot \/ Crash \/ MintFails \/ UNCHANGED vars PROVE RowsTyped'
  BY <1>1 DEF Boot, Crash, MintFails, vars, rows, RowsTyped
<1> QED  BY <1>1, RulingSteps, ObsSteps, TaskSteps, DaemonSteps DEF Next

-----------------------------------------------------------------------------
(* Dispatch *)

LEMMA DispatchSound ==
    ASSUME TypeOK, WorkSound, [Next]_vars
    PROVE  /\ WorkSound' /\ daemon' \in Daemon
           /\ Idle' \/ daemon'.job.row \in IF In("auto_resolve")' THEN Task ELSE Obs
<1> DEFINE Goal ==
      /\ WorkSound' /\ daemon' \in Daemon
      /\ Idle' \/ daemon'.job.row \in IF In("auto_resolve")' THEN Task ELSE Obs
<1> USE TypeParts, Statuses
<1>1. ASSUME UNCHANGED <<history, daemon>> PROVE Goal
  BY <1>1 DEF WorkSound, Idle, In
<1>2. ASSUME NEW a \in Agent, NEW x, <<a, x>> \in Dispatched, Enters(a, x), UNCHANGED daemon
      PROVE  Goal
  BY <1>2 DEF WorkSound, Enters, Idle, In
<1>3. ASSUME NEW r \in Ruling, RulingStep(r) PROVE Goal
  BY <1>1, <1>3 DEF RulingStep, AddChecks, AddWrites, ClaimReview, RatifyAmend, Withdraw,
                    IssueVerdict, Route, queue
<1>4. ASSUME NEW o \in Obs, ObsStep(o) PROVE Goal
  <2>1. <<"investigator", o>> \in Dispatched /\ <<"auto_promote", o>> \in Dispatched
    BY DEF Dispatched
  <2> QED  BY <1>1, <1>2, <1>4, <2>1
           DEF ObsStep, Log, LogLocked, RequestInvestigation, Confirm, Move, Edit, queue
<1>5. ASSUME NEW t \in Task, TaskStep(t) PROVE Goal
  <2>1. <<"auto_resolve", t>> \in Dispatched
    BY DEF Dispatched
  <2> QED  BY <1>1, <1>2, <1>5, <2>1 DEF TaskStep, Abandon, Ship, AddTask, queue
<1>6. ASSUME Boot PROVE Goal
  BY <1>6 DEF Boot, WorkSound, Daemon, Job, Off, Free, Idle, In
<1>7. ASSUME Crash PROVE Goal
  BY <1>7 DEF Crash, WorkSound, Daemon, Job, Off, Free, Idle, In
<1>8. ASSUME NEW n \in Nat, Goes(n), UNCHANGED history, ~Idle, n # 0 PROVE Goal
  BY <1>8 DEF Goes, WorkSound, Daemon, Job, Free, Idle, In
<1>9. ASSUME Returns, UNCHANGED history PROVE Goal
  BY <1>9 DEF Returns, WorkSound, Daemon, Job, Free, Idle, In
<1>10. ASSUME NEW row \in Obs \cup Task, Sweep(row) PROVE Goal
  <2>1. daemon.phase \in {"resolve", "promote"}
    BY <1>10 DEF Sweep, SweepAgent
  <2>2. /\ SweepAgent[daemon.phase] \in Agent
        /\ row \in IF SweepAgent[daemon.phase] = "auto_resolve" THEN Task ELSE Obs
    BY <1>10, <2>1 DEF Sweep, SweepAgent, WorkSound
  <2>3. Begins(SweepAgent[daemon.phase], row) \in Job
    BY <2>2 DEF Begins, Job
  <2>4. /\ daemon' \in Daemon /\ daemon'.job = Begins(SweepAgent[daemon.phase], row)
        /\ daemon'.phase = daemon.phase /\ daemon'.todo \subseteq daemon.todo
        /\ history' = history
    BY <1>10, <2>3 DEF Sweep, Daemon
  <2>5. WorkSound'
    BY <2>4 DEF WorkSound
  <2> QED  BY <2>2, <2>4, <2>5 DEF Begins, Idle, In, Free
<1>11. ASSUME SweepOver PROVE Goal
  BY <1>11 DEF SweepOver, SweepAgent, Orphans, WorkSound, Daemon, Job, Free, Idle, In
<1>12. ASSUME NEW a \in Agent, NEW row \in Obs \cup Task, Claim(a, row) PROVE Goal
  <2>1. <<a, row>> \in Dispatched
    BY <1>12 DEF Claim, WorkSound
  <2>2. row \in IF a = "auto_resolve" THEN Task ELSE Obs
    BY <2>1 DEF Dispatched
  <2> QED  BY <1>12, <2>2 DEF Claim, Begins, WorkSound, Daemon, Job, Free, Idle, In
<1>13. ASSUME StartInvestigation PROVE Goal
  BY <1>8, <1>9, <1>13 DEF StartInvestigation, At, In
<1>14. ASSUME NEW outcome, Report(outcome) PROVE Goal
  BY <1>9, <1>14 DEF Report
<1>15. ASSUME LookForTask PROVE Goal
  BY <1>8, <1>9, <1>15 DEF LookForTask, At, In
<1>16. ASSUME NEW t \in Task, Mint(t) PROVE Goal
  BY <1>9, <1>16 DEF Mint
<1>17. ASSUME MintFails PROVE Goal
  BY <1>9, <1>17 DEF MintFails
<1>18. ASSUME ResolveNext PROVE Goal
  <2>1. daemon.job.step \in Nat
    BY DEF Daemon, Job
  <2>2. daemon.job.step + 1 \in Nat /\ daemon.job.step + 1 # 0 /\ ~Idle
    <3>1. ~Idle
      BY <1>18 DEF ResolveNext, In
    <3> QED  BY <2>1, <3>1
  <2>3. (Goes(daemon.job.step + 1) \/ Returns) /\ UNCHANGED history
    BY <1>18 DEF ResolveNext, Goes, Returns
  <2> QED  BY <1>8, <1>9, <2>2, <2>3
<1>19. ASSUME UNCHANGED vars PROVE Goal
  BY <1>1, <1>19 DEF vars, queue
<1> QED  BY <1>3, <1>4, <1>5, <1>6, <1>7, <1>10, <1>11, <1>12, <1>13, <1>14, <1>15, <1>16,
            <1>17, <1>18, <1>19 DEF Next, DaemonStep

LEMMA TypesStay ==
    ASSUME TypeOK, WorkSound, [Next]_vars
    PROVE  TypeOK' /\ WorkSound'
<1>1. TypeOK' <=> /\ RowsTyped' /\ daemon' \in Daemon
                  /\ Idle' \/ daemon'.job.row \in IF In("auto_resolve")' THEN Task ELSE Obs
  BY DEF TypeOK, RowsTyped, ObsRow, RulingRow, TaskRow, Job, Daemon
<1> QED  BY <1>1, RowsStayTyped, DispatchSound

-----------------------------------------------------------------------------
(* The gate *)

\* What a step that is not of a ruling may do to an observation that was
\* logged: leave the flag, unless it ratifies, and not reopen it.
Quiet(o) ==
    Logged(o) =>
        /\ obs'[o].status # "none"
        /\ obs'[o].pending = obs[o].pending \/ obs'[o].status = "ready"
        /\ obs[o].status \in Closed \cup {"ready"} => obs'[o].status \in Closed \cup {"ready"}

LEMMA QuietObsStep ==
    ASSUME RowsTyped, NEW o \in Obs, ObsStep(o)
    PROVE  ruling' = ruling /\ \A x \in Obs : Quiet(x)
<1>1. ASSUME Log(o) \/ LogLocked(o) PROVE ruling' = ruling /\ \A x \in Obs : Quiet(x)
  BY <1>1 DEF Log, LogLocked, Quiet, Logged, RowsTyped
<1>2. ASSUME RequestInvestigation(o) \/ Confirm(o)
      PROVE  ruling' = ruling /\ \A x \in Obs : Quiet(x)
  BY <1>2, Statuses DEF RequestInvestigation, Confirm, Quiet, Logged, RowsTyped, ObsRow
<1>3. ASSUME NEW to \in {"investigating", "needs_info", "confirmed", "in_progress"} \cup Closed,
             Move(o, to)
      PROVE  ruling' = ruling /\ \A x \in Obs : Quiet(x)
  <2>1. obs[o].status = "ready" => to \in Closed
    BY <1>3, Statuses DEF Move, Moves
  <2>2. obs[o].status \notin Closed
    BY <1>3, Statuses DEF Move, Moves
  <2> QED  BY <1>3, <2>1, <2>2, Statuses DEF Move, Quiet, Logged, RowsTyped, ObsRow
<1>4. ASSUME NEW c, NEW a, Edit(o, c, a)
      PROVE  ruling' = ruling /\ \A x \in Obs : Quiet(x)
  BY <1>4 DEF Edit, Quiet, Logged, RowsTyped, ObsRow
<1> QED  BY <1>1, <1>2, <1>3, <1>4 DEF ObsStep

LEMMA QuietDaemonStep ==
    ASSUME TypeOK, DaemonStep
    PROVE  ruling' = ruling /\ \A x \in Obs : Quiet(x)
<1> DEFINE Goal == ruling' = ruling /\ \A x \in Obs : Quiet(x)
<1> USE TypeParts
<1>1. ASSUME UNCHANGED rows PROVE Goal
  BY <1>1 DEF rows, Quiet, Logged
<1>2. ASSUME StartInvestigation PROVE Goal
  BY <1>2, Statuses DEF StartInvestigation, RowsTyped, ObsRow, Fires, Quiet, Logged
<1>3. ASSUME NEW outcome \in {"investigated", "investigation_failed"}, Report(outcome)
      PROVE  Goal
  BY <1>3, Statuses DEF Report, RowsTyped, ObsRow, Fires, Quiet, Logged
<1>4. ASSUME NEW t \in Task, Mint(t) PROVE Goal
  BY <1>4 DEF Mint, RowsTyped, ObsRow, Quiet, Logged
<1>5. ASSUME ResolveNext PROVE Goal
  <2>1. UNCHANGED obs \/ \E o \in Obs : obs' = [obs EXCEPT ![o].status = "resolved"]
    <3>1. task[daemon.job.row] \in TaskRow
      BY <1>5, AtWork DEF ResolveNext, RowsTyped
    <3>2. \A i \in DOMAIN task[daemon.job.row].links : task[daemon.job.row].links[i] \in Obs
      BY <3>1 DEF TaskRow
    <3> QED  BY <1>5, <3>2 DEF ResolveNext
  <2>2. \A x \in Obs : Quiet(x)
    BY <2>1, Statuses DEF RowsTyped, ObsRow, Quiet, Logged
  <2> QED  BY <1>5, <2>2 DEF ResolveNext
<1> QED  BY <1>1, <1>2, <1>3, <1>4, <1>5
         DEF DaemonStep, Sweep, SweepOver, Claim, LookForTask

LEMMA QuietKeepsGate ==
    ASSUME RowsTyped, RulingsSound, FlagUp, ruling' = ruling, \A x \in Obs : Quiet(x)
    PROVE  RulingsSound' /\ FlagUp'
<1>1. RulingsSound'
  BY DEF RowsTyped, RulingRow, RulingsSound, Logged, Quiet
<1>2. \A o \in Obs : Over(o)' = Over(o) /\ (Over(o) # {} => Logged(o))
  BY DEF Over, Written, RulingsSound
<1>3. \A r \in Ruling : Released(r)' = Released(r)
  BY DEF Released
<1>4. FlagUp'
  BY <1>2, <1>3 DEF FlagUp, Quiet, Over
<1> QED  BY <1>1, <1>4

\* A ruling's step: it is enough to look at what it does to each observation.
LEMMA RulingKeepsFlag ==
    ASSUME FlagUp,
           \A o \in Obs :
             \/ obs'[o].pending
             \/ obs'[o].status \in Closed \cup {"ready"}
             \/ \E r \in Over(o)' : Released(r)'
             \/ /\ obs'[o].pending = obs[o].pending /\ obs'[o].status = obs[o].status
                /\ Over(o)' = Over(o) /\ \A r \in Over(o) : Released(r) => Released(r)'
    PROVE  FlagUp'
BY DEF FlagUp

LEMMA RulingStepKeepsGate ==
    ASSUME RowsTyped, RulingsSound, FlagUp, NEW r \in Ruling, RulingStep(r)
    PROVE  RulingsSound' /\ FlagUp'
<1> USE DEF RowsTyped
<1>1. ASSUME NEW over \in SUBSET Obs, AddChecks(r, over) PROVE RulingsSound' /\ FlagUp'
  <2>1. \A o \in Obs : obs'[o] = obs[o] /\ Over(o)' = Over(o)
    BY <1>1 DEF AddChecks, RulingRow, Over, Written
  <2>2. \A q \in Ruling : Released(q) => Released(q)'
    BY <1>1 DEF AddChecks, RulingRow, Released
  <2>3. RulingsSound'
    BY <1>1 DEF AddChecks, RulingRow, RulingsSound, Logged
  <2> QED  BY <2>1, <2>2, <2>3, RulingKeepsFlag DEF Over
<1>2. ASSUME AddWrites(r) PROVE RulingsSound' /\ FlagUp'
  <2>1. \A o \in Obs : obs'[o].status = obs[o].status
    BY <1>2 DEF AddWrites, Gate, ObsRow
  <2>2. \A o \in ruling[r].covers \cap Obs : obs'[o].pending
    BY <1>2 DEF AddWrites, Gate, ObsRow
  <2>3. \A o \in Obs \ ruling[r].covers : obs'[o] = obs[o] /\ Over(o)' = Over(o)
    BY <1>2 DEF AddWrites, Gate, RulingRow, Over, Written
  <2>4. \A q \in Ruling : Released(q) => Released(q)'
    BY <1>2 DEF AddWrites, RulingRow, Released
  <2>5. RulingsSound'
    BY <1>2, <2>1 DEF AddWrites, RulingRow, RulingsSound, Logged
  <2> QED  BY <2>2, <2>3, <2>4, <2>5, RulingKeepsFlag DEF Over
<1>3. ASSUME ClaimReview(r) PROVE RulingsSound' /\ FlagUp'
  <2>1. \A o \in Obs : obs'[o] = obs[o] /\ Over(o)' = Over(o)
    BY <1>3 DEF ClaimReview, RulingRow, Over, Written
  <2>2. \A q \in Ruling : Released(q) => Released(q)'
    BY <1>3 DEF ClaimReview, RulingRow, Released
  <2>3. RulingsSound'
    BY <1>3 DEF ClaimReview, RulingRow, RulingsSound, Logged
  <2> QED  BY <2>1, <2>2, <2>3, RulingKeepsFlag DEF Over
<1>4. ASSUME RatifyAmend(r) \/ Withdraw(r) PROVE RulingsSound' /\ FlagUp'
  <2>1. Released(r)' /\ ruling[r].status # "none" /\ Written(r) /\ Written(r)'
    BY <1>4 DEF RatifyAmend, Withdraw, Open, RulingRow, RulingsSound, Released, Written, Clearing
  <2>2. \A q \in Ruling : /\ ruling'[q].covers = ruling[q].covers
                          /\ q # r => ruling'[q] = ruling[q]
    BY <1>4 DEF RatifyAmend, Withdraw, RulingRow
  <2>3. \A o \in Obs : /\ obs'[o].status = obs[o].status
                       /\ o \notin ruling[r].covers => obs'[o] = obs[o]
    BY <1>4 DEF RatifyAmend, Withdraw, ObsRow, Effect
  <2>4. \A o \in Obs : Over(o)' = Over(o) /\ (o \in ruling[r].covers => r \in Over(o)')
    BY <2>1, <2>2 DEF Over, Written
  <2>5. \A q \in Ruling : Released(q) => Released(q)'
    BY <2>1, <2>2 DEF Released
  <2>6. RulingsSound'
    <3>1. ruling'[r].status # "awaiting"
      BY <1>4 DEF RatifyAmend, Withdraw, RulingRow
    <3> QED  BY <2>1, <2>2, <2>3, <3>1 DEF RulingsSound, Logged, RulingRow
  <2> QED  BY <2>1, <2>3, <2>4, <2>5, <2>6, RulingKeepsFlag DEF Over
<1>5. ASSUME NEW v \in Verdict, NEW s \in Ruling \cup {None}, NEW t \in Task \cup {None},
             IssueVerdict(r, v, s, t)
      PROVE  RulingsSound' /\ FlagUp'
  <2> DEFINE was == Superseding(s, r)
  <2>1. /\ ruling'[r].covers = ruling[r].covers /\ ruling'[r].verdict = v
        /\ ruling'[r].status = IF v = "doctrine" THEN "awaiting" ELSE "issued"
        /\ ruling[r].status = "in_review"
    BY <1>5 DEF IssueVerdict, RulingRow
  <2>2. \A q \in Ruling \ {r} :
          /\ ruling'[q].covers = ruling[q].covers /\ ruling'[q].verdict = ruling[q].verdict
          /\ \/ ruling'[q].status = ruling[q].status
             \/ Written(q) /\ ruling[q].status # "withdrawn" /\ ruling'[q].status = "superseded"
    BY <1>5 DEF IssueVerdict, RulingRow, Retires
  <2>3. \A o \in Obs : Over(o)' = Over(o)
    BY <2>1, <2>2 DEF Over, Written
  <2>4. \A q \in Ruling : Released(q) => Released(q)'
    BY <2>1, <2>2 DEF Released
  <2>5. \A o \in Obs : /\ was[o] \in ObsRow /\ was[o].status = obs[o].status
                       /\ was[o].pending \/ was[o] = obs[o]
    BY DEF Superseding, Gate, ObsRow
  <2>6. \A o \in Obs :
          obs'[o] = IF o \in ruling[r].covers /\ v # "doctrine"
                    THEN Effect(was[o], r, v, t) ELSE was[o]
    BY <1>5 DEF IssueVerdict
  <2>7. \A o \in Obs : obs'[o].status \in {obs[o].status, "resolved"}
    BY <2>5, <2>6, EffectStatus
  <2>8. RulingsSound'
    <3>1. \A o \in Obs : Logged(o) => Logged(o)'
      BY <2>7 DEF Logged
    <3> QED  BY <2>1, <2>2, <3>1 DEF RulingsSound, RulingRow, Written
  <2>9. ASSUME NEW o \in Obs, o \in ruling[r].covers, v # "doctrine"
        PROVE  \/ obs'[o].pending \/ obs'[o].status \in Closed
               \/ r \in Over(o)' /\ Released(r)'
    <3>1. CASE v \in {"allow", "create"}
      BY <2>1, <2>9, <3>1 DEF Over, Written, Released, Clearing
    <3>2. CASE v \in {"reframe", "hold"}
      BY <2>5, <2>6, <2>9, <3>2 DEF Effect, ObsRow
    <3>3. CASE v = "merge"
      BY <2>5, <2>6, <2>9, <3>3, Statuses DEF Effect, ObsRow
    <3> QED  BY <2>9, <3>1, <3>2, <3>3 DEF Verdict, Clearing
  <2>10. \A o \in Obs : ~(o \in ruling[r].covers /\ v # "doctrine")
                          => obs'[o].pending \/ obs'[o] = obs[o]
    BY <2>5, <2>6
  <2> QED  BY <2>3, <2>4, <2>8, <2>9, <2>10, RulingKeepsFlag DEF Over
<1>6. ASSUME NEW x \in Obs, Route(x, r) PROVE RulingsSound' /\ FlagUp'
  <2>1. obs'[x].pending /\ obs'[x].status = "open"
    BY <1>6 DEF Route, Observation
  <2>2. \A o \in Obs \ {x} : obs'[o] = obs[o] /\ Over(o)' = Over(o)
    BY <1>6 DEF Route, RulingRow, Over, Written
  <2>3. \A q \in Ruling : Released(q) => Released(q)'
    BY <1>6 DEF Route, RulingRow, Released
  <2>4. RulingsSound'
    <3>1. \A o \in Obs : Logged(o) \/ o = x => Logged(o)'
      BY <2>1, <2>2 DEF Logged
    <3>2. /\ ruling'[r].status = "pending" /\ ruling'[r].covers = {x}
          /\ \A q \in Ruling \ {r} : ruling'[q] = ruling[q]
      BY <1>6 DEF Route, RulingRow
    <3> QED  BY <3>1, <3>2 DEF RulingsSound, RulingRow
  <2> QED  BY <2>1, <2>2, <2>3, <2>4, RulingKeepsFlag DEF Over
<1> QED  BY <1>1, <1>2, <1>3, <1>4, <1>5, <1>6 DEF RulingStep

-----------------------------------------------------------------------------
(* Promotion *)

\* Nothing but Mint makes a task that counts, and what a step does to a task
\* never revives one.
LEMMA NoneMinted ==
    ASSUME TypeOK, [Next]_vars, \A t \in Task : ~Mint(t)
    PROVE  \A t \in Task, o \in Obs : MintedFor(t, o)' => MintedFor(t, o)
<1> USE TypeParts DEF RowsTyped
<1>1. ASSUME task' = task PROVE \A t \in Task, o \in Obs : MintedFor(t, o)' => MintedFor(t, o)
  BY <1>1 DEF MintedFor, Stands, Links
<1>2. ASSUME NEW t \in Task, TaskStep(t)
      PROVE  \A u \in Task, o \in Obs : MintedFor(u, o)' => MintedFor(u, o)
  <2>1. ASSUME NEW links, AddTask(t, links)
        PROVE  ~task'[t].minted /\ \A u \in Task \ {t} : task'[u] = task[u]
    BY <2>1 DEF AddTask, TaskRow
  <2>2. ASSUME Abandon(t) PROVE ~Stands(t)' /\ \A u \in Task \ {t} : task'[u] = task[u]
    BY <2>2 DEF Abandon, TaskRow, Stands
  <2>3. ASSUME Ship(t)
        PROVE  /\ task'[t].minted = task[t].minted /\ task'[t].links = task[t].links /\ Stands(t)
               /\ \A u \in Task \ {t} : task'[u] = task[u]
    BY <2>3 DEF Ship, TaskRow, Stands
  <2> QED  BY <1>2, <2>1, <2>2, <2>3 DEF TaskStep, MintedFor, Stands, Links
<1>3. ASSUME NEW r \in Ruling, RulingStep(r) PROVE task' = task
  BY <1>3 DEF RulingStep, AddChecks, AddWrites, ClaimReview, RatifyAmend, Withdraw,
              IssueVerdict, Route
<1>4. ASSUME NEW o \in Obs, ObsStep(o) PROVE task' = task
  BY <1>4 DEF ObsStep, Log, LogLocked, RequestInvestigation, Confirm, Move, Edit
<1>5. ASSUME DaemonStep \/ Boot \/ Crash \/ MintFails \/ UNCHANGED vars PROVE task' = task
  BY <1>5 DEF DaemonStep, Sweep, SweepOver, Claim, StartInvestigation, Report, LookForTask,
              ResolveNext, Boot, Crash, MintFails, rows, vars
<1> QED  BY <1>1, <1>2, <1>3, <1>4, <1>5 DEF Next

\* The daemon is about to mint after this step only if it just looked, or
\* was about to before.
LEMMA ComesToMint ==
    ASSUME TypeOK, [Next]_vars, At("auto_promote", 2)'
    PROVE  \/ daemon' = daemon
           \/ LookForTask /\ ~Live(daemon.job.row) /\ daemon'.job.row = daemon.job.row
<1> USE TypeParts
<1>1. ASSUME NEW r \in Ruling, RulingStep(r) PROVE daemon' = daemon
  BY <1>1 DEF RulingStep, AddChecks, AddWrites, ClaimReview, RatifyAmend, Withdraw,
              IssueVerdict, Route, queue
<1>2. ASSUME NEW o \in Obs, ObsStep(o) PROVE daemon' = daemon
  BY <1>2 DEF ObsStep, Log, LogLocked, RequestInvestigation, Confirm, Move, Edit, queue
<1>3. ASSUME NEW t \in Task, TaskStep(t) PROVE daemon' = daemon
  BY <1>3 DEF TaskStep, Abandon, Ship, AddTask, queue
<1>4. ASSUME Boot \/ Crash \/ SweepOver \/ Returns PROVE FALSE
  <2>1. daemon'.job = Free
    <3>1. CASE Boot \/ Crash
      <4>1. \A phase, todo : [Off EXCEPT !.phase = phase, !.todo = todo].job = Free
        BY DEF Off
      <4>2. Off.job = Free
        BY DEF Off
      <4>3. \/ daemon' = Off
            \/ \E phase, todo : daemon' = [Off EXCEPT !.phase = phase, !.todo = todo]
        BY <3>1 DEF Boot, Crash
      <4> QED  BY <4>1, <4>2, <4>3
    <3>2. CASE SweepOver
      BY <3>2 DEF SweepOver, Idle, Daemon
    <3>3. CASE Returns
      BY <3>3 DEF Returns, Daemon
    <3> QED  BY <1>4, <3>1, <3>2, <3>3
  <2> QED  BY <2>1 DEF At, In, Idle
<1>5. ASSUME NEW row, Sweep(row) PROVE FALSE
  BY <1>5 DEF Sweep, Begins, At, Daemon
<1>6. ASSUME NEW a, NEW row, Claim(a, row) PROVE FALSE
  BY <1>6 DEF Claim, Begins, At, Daemon
<1>7. ASSUME NEW n, Goes(n), ~Idle, ~In("auto_promote") PROVE FALSE
  <2>1. daemon'.job.agent = daemon.job.agent /\ daemon'.job.row = daemon.job.row
    BY <1>7 DEF Goes, Daemon, Job
  <2> QED  BY <1>7, <2>1 DEF At, In
<1>8. ASSUME LookForTask
      PROVE  ~Live(daemon.job.row) /\ daemon'.job.row = daemon.job.row
  BY <1>4, <1>8 DEF LookForTask, Goes, Daemon, Job
<1>9. ~StartInvestigation
  BY <1>4, <1>7 DEF StartInvestigation, At, In
<1>10. ~ResolveNext
  BY <1>4, <1>7 DEF ResolveNext, In
<1>11. ASSUME NEW outcome, Report(outcome) PROVE FALSE
  BY <1>4, <1>11 DEF Report
<1>12. ASSUME NEW t, Mint(t) PROVE FALSE
  BY <1>4, <1>12 DEF Mint
<1>13. ~MintFails
  BY <1>4 DEF MintFails
<1>14. ASSUME UNCHANGED vars PROVE daemon' = daemon
  BY <1>14 DEF vars, queue
<1> QED  BY <1>1, <1>2, <1>3, <1>4, <1>5, <1>6, <1>8, <1>9, <1>10, <1>11, <1>12, <1>13, <1>14
         DEF Next, DaemonStep

LEMMA PromotionStays ==
    ASSUME TypeOK, LooksFirst, OnePromotion, [Next]_vars
    PROVE  LooksFirst' /\ OnePromotion'
<1>1. ASSUME NEW t \in Task, Mint(t) PROVE LooksFirst' /\ OnePromotion'
  <2> DEFINE x == daemon.job.row
  <2>1. x \in Obs /\ \A u \in Task : ~MintedFor(u, x)
    BY <1>1, AtWork, Statuses DEF Mint, LooksFirst
  <2>2. \A u \in Task \ {t} : task'[u] = task[u]
    BY <1>1, TypeParts DEF Mint, RowsTyped
  <2>3. task'[t].links = <<x>>
    BY <1>1, TypeParts DEF Mint, RowsTyped
  <2>4. \A o \in Obs : MintedFor(t, o)' => o = x
    BY <2>3 DEF MintedFor, Links
  <2>5. \A u \in Task \ {t}, o \in Obs : MintedFor(u, o)' => MintedFor(u, o)
    BY <2>2 DEF MintedFor, Links, Stands
  <2>6. OnePromotion'
    BY <2>1, <2>4, <2>5 DEF OnePromotion
  <2>7. ~At("auto_promote", 2)'
    BY <1>1, TypeParts DEF Mint, Returns, Free, At, In, Idle, Daemon
  <2> QED  BY <2>6, <2>7 DEF LooksFirst
<1>2. ASSUME \A t \in Task : ~Mint(t) PROVE LooksFirst' /\ OnePromotion'
  <2>1. \A t \in Task, o \in Obs : MintedFor(t, o)' => MintedFor(t, o)
    BY <1>2, NoneMinted
  <2>2. OnePromotion'
    BY <2>1 DEF OnePromotion
  <2>3. ASSUME At("auto_promote", 2)'
        PROVE  \A t \in Task : ~MintedFor(t, daemon.job.row)'
    <3>1. CASE daemon' = daemon
      <4>1. At("auto_promote", 2) /\ daemon.job.row \in Obs
        BY <2>3, <3>1, AtWork, Statuses DEF At, In, Idle
      <4>2. \A t \in Task, o \in Obs : o = daemon'.job.row => ~MintedFor(t, o)'
        BY <2>1, <3>1, <4>1 DEF LooksFirst
      <4> QED  BY <3>1, <4>1, <4>2 DEF MintedFor, Links, Stands
    <3>2. CASE LookForTask /\ ~Live(daemon.job.row) /\ daemon'.job.row = daemon.job.row
      <4>1. daemon.job.row \in Obs
        BY <3>2, AtWork, Statuses DEF LookForTask
      <4>2. \A t \in Task : ~MintedFor(t, daemon.job.row)
        BY <3>2 DEF Live, MintedFor
      <4>4. \A t \in Task, o \in Obs : o = daemon'.job.row => ~MintedFor(t, o)'
        BY <2>1, <3>2, <4>1, <4>2
      <4> QED  BY <3>2, <4>1, <4>4 DEF MintedFor, Links, Stands
    <3> QED  BY <2>3, <3>1, <3>2, ComesToMint
  <2> QED  BY <2>2, <2>3 DEF LooksFirst
<1> QED  BY <1>1, <1>2

-----------------------------------------------------------------------------
(* The inductive invariant holds *)

LEMMA Initially == Init => IInv
<1> SUFFICES ASSUME Init PROVE IInv
  OBVIOUS
<1>1. \A o \in Obs : Observation("none", FALSE) \in ObsRow
  BY Statuses DEF Observation, ObsRow, ObsStatus
<1>2. RowsTyped
  <2>1. [status |-> "none", links |-> <<>>, minted |-> FALSE] \in TaskRow
    BY DEF TaskRow
  <2>2. [status |-> "none", covers |-> {}, verdict |-> None] \in RulingRow
    BY DEF RulingRow, RulingStatus
  <2> QED  BY <1>1, <2>1, <2>2 DEF Init, RowsTyped
<1>3. TypeOK
  BY <1>2, TypeParts DEF Init, Off, Free, Daemon, Job, Idle
<1>4. WorkSound /\ LooksFirst
  BY DEF Init, WorkSound, LooksFirst, Off, Free, At, In, Idle
<1>5. RulingsSound
  BY DEF Init, RulingsSound
<1>6. FlagUp
  BY DEF Init, FlagUp, Over, Written
<1>7. OnePromotion
  BY DEF Init, OnePromotion, MintedFor
<1> QED  BY <1>3, <1>4, <1>5, <1>6, <1>7 DEF IInv

LEMMA GateStays ==
    ASSUME IInv, [Next]_vars
    PROVE  RulingsSound' /\ FlagUp'
<1>0. RowsTyped /\ TypeOK /\ RulingsSound /\ FlagUp
  BY TypeParts DEF IInv
<1>1. ASSUME NEW r \in Ruling, RulingStep(r) PROVE RulingsSound' /\ FlagUp'
  BY <1>0, <1>1, RulingStepKeepsGate
<1>2. ASSUME NEW o \in Obs, ObsStep(o) PROVE RulingsSound' /\ FlagUp'
  BY <1>0, <1>2, QuietObsStep, QuietKeepsGate
<1>3. ASSUME DaemonStep PROVE RulingsSound' /\ FlagUp'
  BY <1>0, <1>3, QuietDaemonStep, QuietKeepsGate
<1>4. ASSUME UNCHANGED <<obs, ruling>> PROVE RulingsSound' /\ FlagUp'
  <2>1. \A x \in Obs : Quiet(x)
    BY <1>4 DEF Quiet, Logged
  <2> QED  BY <1>0, <1>4, <2>1, QuietKeepsGate
<1>5. ASSUME NEW t \in Task, TaskStep(t) PROVE UNCHANGED <<obs, ruling>>
  BY <1>5 DEF TaskStep, Abandon, Ship, AddTask
<1>6. ASSUME Boot \/ Crash \/ MintFails \/ UNCHANGED vars PROVE UNCHANGED <<obs, ruling>>
  BY <1>6 DEF Boot, Crash, MintFails, rows, vars
<1> QED  BY <1>1, <1>2, <1>3, <1>4, <1>5, <1>6 DEF Next

LEMMA Inductive == IInv /\ [Next]_vars => IInv'
BY TypesStay, GateStays, PromotionStays DEF IInv

LEMMA Invariant == Spec => []IInv
BY Initially, Inductive, PTL DEF Spec

-----------------------------------------------------------------------------
(* The theorems *)

\* Every observation, ruling and task keeps its columns' types, and a builtin
\* is always at work on a row of its own store.
THEOREM TypeCorrect == Spec => []TypeOK
<1>1. IInv => TypeOK
  BY DEF IInv
<1> QED  BY <1>1, Invariant, PTL

\* An observation under review that is neither ratified nor closed has its
\* flag up until one of its reviews lets it go.
THEOREM FlagHolds == Spec => []FlagStaysUp
<1>1. IInv => FlagStaysUp
  BY DEF IInv, FlagUp, FlagStaysUp, Released, LetGo
<1> QED  BY <1>1, Invariant, PTL

\* Of the tasks minted for an observation one at most stands, however often
\* the daemon dies between looking and minting.
THEOREM PromotedOnce == Spec => []OnePromotion
<1>1. IInv => OnePromotion
  BY DEF IInv
<1> QED  BY <1>1, Invariant, PTL

LEMMA PassesReviewed ==
    ASSUME IInv, NEW o \in Obs, Passes(o), obs[o].status = "investigating", Over(o) # {}
    PROVE  \E r \in Over(o) : LetGo(r, o)
<1>1. CASE ~obs[o].pending
  <2>1. obs[o].status \notin Closed \cup {"ready"}
    BY Statuses
  <2>2. \E r \in Over(o) : Released(r)
    BY <1>1, <2>1 DEF IInv, FlagUp
  <2> QED  BY <2>2 DEF Released, LetGo
<1>2. ASSUME NEW r \in Ruling, Ended(r), o \in ruling[r].covers,
             \/ ruling[r].verdict \in {"allow", "doctrine"}
             \/ ruling[r].verdict = "reframe" /\ obs[o].ack = r /\ r \in obs[o].reworked
      PROVE  r \in Over(o) /\ LetGo(r, o)
  BY <1>2 DEF Ended, Over, Written, LetGo, Clearing
<1> QED  BY <1>1, <1>2 DEF Passes

LEMMA OnlyRatifiedReady ==
    ASSUME IInv, [Next]_vars, NEW o \in Obs, obs[o].status # "ready", obs'[o].status = "ready"
    PROVE  ~Logged(o) \/ (Confirm(o) /\ Passes(o))
<1> USE TypeParts, Statuses DEF IInv, RowsTyped, ObsRow
<1>1. ASSUME NEW x \in Obs, ObsStep(x) PROVE ~Logged(o) \/ (Confirm(o) /\ Passes(o))
  <2>1. ASSUME Log(x) \/ LogLocked(x) PROVE ~Logged(o)
    BY <2>1 DEF Log, LogLocked
  <2>2. ~RequestInvestigation(x)
    BY DEF RequestInvestigation
  <2>3. ASSUME NEW to \in {"investigating", "needs_info", "confirmed", "in_progress"} \cup Closed,
               Move(x, to)
        PROVE  FALSE
    BY <2>3 DEF Move
  <2>4. ASSUME NEW c, NEW a, Edit(x, c, a) PROVE FALSE
    BY <2>4 DEF Edit
  <2>5. ASSUME Confirm(x) PROVE Confirm(o) /\ Passes(o)
    <3>1. x = o
      BY <2>5 DEF Confirm
    <3> QED  BY <2>5, <3>1 DEF Confirm
  <2> QED  BY <1>1, <2>1, <2>2, <2>3, <2>4, <2>5 DEF ObsStep
<1>2. ASSUME NEW r \in Ruling, RulingStep(r) PROVE ~Logged(o)
  <2>1. ASSUME NEW v \in Verdict, NEW s \in Ruling \cup {None}, NEW t \in Task \cup {None},
               IssueVerdict(r, v, s, t)
        PROVE  FALSE
    <3>1. Superseding(s, r)[o].status = obs[o].status /\ Superseding(s, r)[o] \in ObsRow
      BY SupersedingTyped DEF Superseding, Gate
    <3>2. obs'[o] = IF o \in ruling[r].covers /\ v # "doctrine"
                      THEN Effect(Superseding(s, r)[o], r, v, t) ELSE Superseding(s, r)[o]
      BY <2>1 DEF IssueVerdict
    <3>3. Effect(Superseding(s, r)[o], r, v, t).status
            \in {Superseding(s, r)[o].status, "resolved"}
      BY <3>1, EffectStatus
    <3> QED  BY <3>1, <3>2, <3>3
  <2>2. ASSUME NEW x \in Obs, Route(x, r) PROVE FALSE
    BY <2>2 DEF Route, Observation
  <2>3. ~AddWrites(r)
    BY DEF AddWrites, Gate
  <2>4. ~(\E over \in SUBSET Obs : AddChecks(r, over)) /\ ~ClaimReview(r)
    BY DEF AddChecks, ClaimReview
  <2>5. ~RatifyAmend(r) /\ ~Withdraw(r)
    BY DEF RatifyAmend, Withdraw, Effect
  <2> QED  BY <1>2, <2>1, <2>2, <2>3, <2>4, <2>5 DEF RulingStep
<1>3. ASSUME UNCHANGED obs PROVE FALSE
  BY <1>3
<1>4. ASSUME DaemonStep PROVE FALSE
  <2>1. ~StartInvestigation /\ \A u \in {"investigated", "investigation_failed"} : ~Report(u)
    BY DEF StartInvestigation, Report, Fires
  <2>2. \A t \in Task : ~Mint(t)
    BY DEF Mint
  <2>3. ~ResolveNext
    <3>1. ResolveNext =>
            UNCHANGED obs \/ \E x : obs' = [obs EXCEPT ![x].status = "resolved"]
      BY DEF ResolveNext
    <3> QED  BY <3>1
  <2> QED  BY <1>3, <1>4, <2>1, <2>2, <2>3
           DEF DaemonStep, Sweep, SweepOver, Claim, LookForTask, rows
<1>5. ASSUME \/ Boot \/ Crash \/ MintFails \/ UNCHANGED vars \/ \E t \in Task : TaskStep(t)
      PROVE  UNCHANGED obs
  BY <1>5 DEF Boot, Crash, MintFails, rows, vars, TaskStep, Abandon, Ship, AddTask
<1> QED  BY <1>1, <1>2, <1>3, <1>4, <1>5 DEF Next

\* An observation put under review becomes ready only when a review of it has
\* let it go, through any number of reviews that were added at the same time,
\* superseded or withdrawn.
THEOREM RatifiedAfterReview == Spec => RatifiedUnderReview
<1>1. IInv /\ [Next]_vars =>
        [\A o \in Obs :
           obs[o].status # "ready" /\ obs'[o].status = "ready" /\ Over(o) # {}
             => \E r \in Over(o) : LetGo(r, o)]_vars
  <2> SUFFICES ASSUME IInv, [Next]_vars, NEW o \in Obs, obs[o].status # "ready",
                      obs'[o].status = "ready", Over(o) # {}
               PROVE  \E r \in Over(o) : LetGo(r, o)
    OBVIOUS
  <2>1. Logged(o)
    BY DEF IInv, RulingsSound, Over, Written
  <2>2. Confirm(o) /\ Passes(o)
    BY <2>1, OnlyRatifiedReady
  <2>3. obs[o].status = "investigating"
    BY <2>2 DEF Confirm
  <2> QED  BY <2>2, <2>3, PassesReviewed
<1> QED  BY <1>1, Invariant, PTL DEF Spec, RatifiedUnderReview

\* What people decided of an observation is kept in a step.
KeepsDecision(o) ==
    /\ obs[o].status \in Decided => obs'[o].status \in Decided \cup Closed
    /\ obs[o].status \in Closed => obs'[o].status = obs[o].status

LEMMA DecisionKept ==
    ASSUME IInv, [Next]_vars, NEW o \in Obs
    PROVE  KeepsDecision(o)
<1> USE TypeParts, Statuses DEF IInv, RowsTyped, ObsRow, KeepsDecision, Decided
<1>1. ASSUME NEW x \in Obs, ObsStep(x) PROVE KeepsDecision(o)
  <2>1. ASSUME Log(x) \/ LogLocked(x) PROVE KeepsDecision(o)
    <3>1. obs[x].status = "none" /\ (x # o => obs'[o] = obs[o])
      BY <2>1 DEF Log, LogLocked, Logged
    <3> QED  BY <3>1
  <2>2. ASSUME RequestInvestigation(x) \/ Confirm(x) PROVE KeepsDecision(o)
    BY <2>2 DEF RequestInvestigation, Confirm
  <2>3. ASSUME NEW to \in {"investigating", "needs_info", "confirmed", "in_progress"} \cup Closed,
               Move(x, to)
        PROVE  KeepsDecision(o)
    <3>1. x # o => obs'[o] = obs[o]
      BY <2>3 DEF Move
    <3>2. /\ obs[x].status \in {"open", "investigating", "needs_info", "confirmed", "ready",
                               "in_progress"}
          /\ to \in Moves[obs[x].status] /\ obs'[x].status = to
      BY <2>3 DEF Move, Moves
    <3>3. obs[x].status \in Decided => to \in Decided \cup Closed
      BY <3>2 DEF Moves
    <3> QED  BY <3>1, <3>2, <3>3
  <2>4. ASSUME NEW c, NEW a, Edit(x, c, a) PROVE KeepsDecision(o)
    BY <2>4 DEF Edit
  <2> QED  BY <1>1, <2>1, <2>2, <2>3, <2>4 DEF ObsStep
<1>2. ASSUME NEW r \in Ruling, RulingStep(r) PROVE KeepsDecision(o)
  <2>1. ASSUME NEW v \in Verdict, NEW s \in Ruling \cup {None}, NEW t \in Task \cup {None},
               IssueVerdict(r, v, s, t)
        PROVE  KeepsDecision(o)
    <3>1. Superseding(s, r)[o].status = obs[o].status /\ Superseding(s, r)[o] \in ObsRow
      BY SupersedingTyped DEF Superseding, Gate
    <3>2. CASE v = "merge" /\ o \in ruling[r].covers
      <4>1. obs[o].status \notin Closed
        BY <2>1, <3>2 DEF IssueVerdict
      <4>2. obs'[o].status = "resolved"
        BY <2>1, <3>1, <3>2 DEF IssueVerdict, Effect
      <4> QED  BY <4>1, <4>2
    <3>3. CASE ~(v = "merge" /\ o \in ruling[r].covers)
      <4>1. obs'[o].status = Superseding(s, r)[o].status
        BY <2>1, <3>1, <3>3 DEF IssueVerdict, Effect, Verdict, Clearing
      <4> QED  BY <3>1, <4>1
    <3> QED  BY <3>2, <3>3
  <2>2. ASSUME NEW x \in Obs, Route(x, r) PROVE KeepsDecision(o)
    <3>1. obs[x].status = "none" /\ (x # o => obs'[o] = obs[o])
      BY <2>2 DEF Route, Logged
    <3> QED  BY <3>1
  <2>3. ASSUME AddWrites(r) PROVE obs'[o].status = obs[o].status
    BY <2>3 DEF AddWrites, Gate
  <2>4. ASSUME (\E over \in SUBSET Obs : AddChecks(r, over)) \/ ClaimReview(r)
        PROVE  obs'[o].status = obs[o].status
    BY <2>4 DEF AddChecks, ClaimReview
  <2>5. ASSUME RatifyAmend(r) \/ Withdraw(r) PROVE obs'[o].status = obs[o].status
    BY <2>5 DEF RatifyAmend, Withdraw, Effect
  <2> QED  BY <1>2, <2>1, <2>2, <2>3, <2>4, <2>5 DEF RulingStep
<1>3. ASSUME UNCHANGED obs PROVE KeepsDecision(o)
  BY <1>3
<1>4. ASSUME DaemonStep PROVE KeepsDecision(o)
  <2>1. ASSUME NEW x, NEW from \in {"needs_investigation", "investigating"}, NEW to,
               Fires(x, from, to)
        PROVE  KeepsDecision(o)
    BY <2>1 DEF Fires
  <2>2. StartInvestigation => KeepsDecision(o)
    BY <2>1 DEF StartInvestigation
  <2>3. \A u \in {"investigated", "investigation_failed"} : Report(u) => KeepsDecision(o)
    BY <2>1 DEF Report
  <2>4. \A t \in Task : Mint(t) => KeepsDecision(o)
    BY DEF Mint
  <2>5. ResolveNext => KeepsDecision(o)
    <3>1. ResolveNext =>
            UNCHANGED obs \/ \E x : /\ obs[x].status \in Resolvable
                                   /\ obs' = [obs EXCEPT ![x].status = "resolved"]
      BY DEF ResolveNext
    <3> QED  BY <3>1 DEF Resolvable
  <2> QED  BY <1>3, <1>4, <2>2, <2>3, <2>4, <2>5
           DEF DaemonStep, Sweep, SweepOver, Claim, LookForTask, rows
<1>5. ASSUME \/ Boot \/ Crash \/ MintFails \/ UNCHANGED vars \/ \E t \in Task : TaskStep(t)
      PROVE  UNCHANGED obs
  BY <1>5 DEF Boot, Crash, MintFails, rows, vars, TaskStep, Abandon, Ship, AddTask
<1> QED  BY <1>1, <1>2, <1>3, <1>4, <1>5 DEF Next

\* Neither an investigator's late report, nor a verdict, nor a task that ships
\* takes back what people decided: a confirmed observation does not fall
\* back, and a closed one keeps the way it was closed.
THEOREM DecisionsAreFinal == Spec => DecisionsStand
<1>1. IInv /\ [Next]_vars =>
        [\A o \in Obs :
           /\ obs[o].status \in Decided => obs'[o].status \in Decided \cup Closed
           /\ obs[o].status \in Closed => obs'[o].status = obs[o].status]_vars
  BY DecisionKept DEF KeepsDecision
<1> QED  BY <1>1, Invariant, PTL DEF Spec, DecisionsStand
==============================================================================
